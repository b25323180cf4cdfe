SPECIFICATION Spec
CONSTANTS
    old = old
    new = new
    one = one
    abstract = abstract
    paper = paper
    preprint = preprint
    Absent = Absent
    All = All
    NoDoc = NoDoc
    Nobody = Nobody
    Pubs <- Two
    Urls = {old, new}
    Repos = {one}
    Docs = {abstract, paper, preprint}
    Mentions <- SomeMentions
    Blurred <- Wrapped
    AbstractOf <- OneAbstract
    DepositOf <- SecondDeposit
    Replies = {"own", "other", "silence"}
    KeysOf <- OneWork
    PdfOf <- OnePdf
    Imported <- WithImport
    Found = {{1},{1,2}}
    Names = {old}
    Renames = 1
    Selections = {All}
    ForcedFrom = 4
    MaxRuns = 5
    MortalRuns = 1
    Stages = {"normalize","code_links","link_relevance","repositories","dedup"}
INVARIANTS
    TypeOK
    NothingUnjudged
    CompletedIsJudged
    ReferencesResolve
    OneRowPerRepository
PROPERTIES
    EvidenceKept
    ClaimsFollowVerdicts
CHECK_DEADLOCK FALSE
