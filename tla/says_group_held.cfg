SPECIFICATION Spec
CONSTANTS
    w1 = w1
    w2 = w2
    t1 = t1
    None = None
    Procs <- OneWorker
    Workers <- OneWorker
    Terminals <- NoTerminal
    Mortal <- NobodyDies
    Resources <- GraphAndGroup
    Groups <- OneGroup
    Requests <- PipelineRuns
    Buttons = {"schedule"}
    Lease = 2
    Quiet = 1
    MaxSilence = 2
    MaxStall = 0
    MaxJobs = 1
    LongRuns = TRUE
    LostRelease = FALSE
INVARIANTS
    GroupHeldThroughout
