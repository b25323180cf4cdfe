SPECIFICATION Spec
CONSTANTS
    w1 = w1
    w2 = w2
    t1 = t1
    None = None
    Procs <- OneAndTerminal
    Workers <- OneWorker
    Terminals <- OneTerminal
    Mortal <- BothMortal
    Resources <- GraphAndGroup
    Groups <- OneGroup
    Requests <- CancelledRuns
    Buttons = {"schedule", "cancel", "give-up", "repeat"}
    Lease = 2
    Quiet = 1
    MaxSilence = 1
    MaxStall = 1
    MaxJobs = 2
    LongRuns = FALSE
    LostRelease = FALSE
PROPERTIES
    FinalIsForever
    StoppedBeforeStart
    LiveIsNotGivenUp
    ImplementsTurns
