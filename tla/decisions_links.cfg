SPECIFICATION Spec
CONSTANTS
    n1 = n1
    n2 = n2
    n3 = n3
    n4 = n4
    f = f
    g = g
    a = a
    b = b
    None = None
    Unset = Unset
    Absent = Absent
    Nodes <- PapersAndCode
    Links <- ToCode
    Fields <- OneField
    Values <- OneValue
    AddressOf <- CodeAddress
    Supplies <- RowsOfPapers
    Tasks = {"publish", "prune"}
    MaxRuns = 1
    Forms = {"link", "unlink", "undo-unlink", "create", "delete"}
    MaxForms = 2
    MayFail = FALSE
INVARIANTS
    RunInv
PROPERTIES
    ClaimsAreSpared
