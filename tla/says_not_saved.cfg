SPECIFICATION Spec
CONSTANTS
    n1 = n1
    n2 = n2
    n3 = n3
    n4 = n4
    f = f
    g = g
    a = a
    b = b
    None = None
    Unset = Unset
    Absent = Absent
    Nodes <- OneNode
    Links <- NoLinks
    Fields <- OneField
    Values <- TwoValues
    AddressOf <- NoAddresses
    Supplies <- RowsOfOne
    Tasks = {}
    MaxRuns = 0
    Forms = {"edit"}
    MaxForms = 2
    MayFail = TRUE
PROPERTIES
    TurnedDownIsNotOnRecord
