SPECIFICATION Spec
CONSTANTS
    x = x
    y = y
    NoValue = NoValue
    NoAnswer = NoAnswer
    NoDoc = NoDoc
    Absent = Absent
    People <- Three
    Works <- Three
    Own <- OneEach
    Orcids = {x, y}
    Records = {}
    Questions <- AllQuestions
    Holders <- Anybody
    Rules <- AnyRules
    Fetched <- SecondFetched
    NotFetched = NotFetched
    Tasks = {"rows", "graph", "load"}
    MaxRuns = 4
    MortalRuns = 2
    MaxRequests = 3
    Requests = {"answer","skip","divide","withdraw","undo"}
INVARIANTS
    TypeOK
    OneSurvivor
    WorksFollowPeople
    PlansKeepApart
PROPERTIES
    NobodyIsLost
    RefusedStayApart
CHECK_DEADLOCK FALSE
