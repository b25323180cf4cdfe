SPECIFICATION Spec
CONSTANTS
    w1 = w1
    w2 = w2
    t1 = t1
    None = None
    Procs <- TwoWorkers
    Workers <- TwoWorkers
    Terminals <- NoTerminal
    Mortal <- MortalWorker
    Resources <- GraphAndGroup
    Groups <- OneGroup
    Requests <- PipelineRuns
    Buttons = {"schedule"}
    Lease = 3
    Quiet = 1
    MaxSilence = 1
    MaxStall = 2
    MaxJobs = 2
    LongRuns = FALSE
    LostRelease = TRUE
INVARIANTS
    TypeOK
    MutualExclusion
    HoldsWhatItWorksOn
    OnePerformer
    QueueInv
PROPERTIES
    LiveIsNotReaped
