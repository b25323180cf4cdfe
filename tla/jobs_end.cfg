SPECIFICATION FairSpec
CONSTANTS
    w1 = w1
    w2 = w2
    t1 = t1
    None = None
    Procs <- TwoWorkers
    Workers <- TwoWorkers
    Terminals <- NoTerminal
    Mortal <- MortalWorker
    Resources <- GraphAndGroup
    Groups <- OneGroup
    Requests <- GraphRuns
    Buttons = {"schedule"}
    Lease = 2
    Quiet = 1
    MaxSilence = 2
    MaxStall = 1
    MaxJobs = 2
    LongRuns = FALSE
    LostRelease = FALSE
PROPERTIES
    EveryJobEnds
