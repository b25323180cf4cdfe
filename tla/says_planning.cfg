SPECIFICATION Spec
CONSTANTS
    n1 = n1
    n2 = n2
    n3 = n3
    n4 = n4
    f = f
    g = g
    a = a
    b = b
    None = None
    Unset = Unset
    Absent = Absent
    Nodes <- PapersAndCode
    Links <- ToCode
    Fields <- OneField
    Values <- OneValue
    AddressOf <- CodeAddress
    Supplies <- RowsOfPapers
    Tasks = {"dry-run"}
    MaxRuns = 1
    Forms = {"link"}
    MaxForms = 1
    MayFail = FALSE
PROPERTIES
    PlanningReadsOnly
