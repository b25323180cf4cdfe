SPECIFICATION Spec
CONSTANTS
    Absent = Absent
    All = All
    Unknown = Unknown
    NoYear = NoYear
    NoDoc = NoDoc
    NoAnswer = NoAnswer
    NoWord = NoWord
    NoLimit = NoLimit
    Unmet = Unmet
    o1 = o1
    o2 = o2
    d1 = d1
    ivanov = ivanov
    petrov = petrov
    short = short
    full = full
    other = other
    centre = centre
    itmo = itmo
    elsewhere = elsewhere
    cs = cs
    ph = ph
    home = home
    w_ivanov = w_ivanov
    w_ivan = w_ivan
    w_petrov = w_petrov
    w_igor = w_igor
    w_petrovich = w_petrovich
    w_i = w_i
    w_p = w_p
    known = known
    nameless = nameless
    unlisted = unlisted
    api = api
    cdn = cdn
    Pubs <- Two
    Persons <- Three
    Logins = {11, 12, 13, 14}
    Emails = {1, 2, 3}
    Repos = {21, 22, 23, 24}
    Orcids = {o1, o2}
    Dois = {d1}
    Families = {ivanov, petrov}
    Spellings = {short, full, other, centre}
    Places = {itmo, elsewhere}
    Depts = {cs, ph}
    Pages = {home}
    YearOf <- Years
    DoiOf <- OneDoi
    Stated <- Says
    CreditOf <- Credits
    FamilyOf <- Surnames
    OpenAlexOf <- IdsThere
    CrossrefSays <- InCrossref
    OpenAlexSays <- InOpenAlex
    OrcidSays <- InOrcid
    TextOf <- InText
    PageOf <- OnPage
    Fits <- Surnamed
    ItmoPlaces = {itmo}
    WordsOf <- Places2
    Catalogue <- Depts2
    PeopleAtFirst <- NewPeople
    Owner <- Owners
    Contributors <- Listed
    KindOf <- Kinds3
    Commits <- Log
    UserSays <- Users
    Alike <- Similar
    LoginNames = {}
    ItmoEmails = {1}
    ItmoLogins = {}
    ItmoNames = {centre}
    OrgCatalog = {13}
    MaxRings = 2
    Pushed <- Lists
    Forks = {24}
    PageSize = 2
    MaxReposPerSeed = 1
    KnownAtFirst <- KnownPeople
    Questions <- AllQuestions
    Answerable <- Asking
    Records = {31, 32, 33, 34}
    NoValue = Unknown
    CalledAs <- Names3
    Resembling = {{1, 2}, {2, 3}}
    CatalogAtHand = {TRUE, FALSE}
    StaffAtFirst <- StaffPeople
    Catalog <- Namesakes2
    InitialsOf <- Initials
    SplitReplies <- SomeSplits
    Authors = {known, nameless, unlisted}
    SpellingsOf <- Spelled
    Workers = 1
    NameRuns = 2
    SemanticAttempts = 2
    TransientRetries = 1
    Threads = {t1, t2}
    Hosts = {api, cdn}
    Starts = {api, cdn}
    GithubHosts = {cdn}
    Minute = 2
    LimitOf <- OneApi
    MaxGap = 2
    MaxQuiet = 2
    Retries = 1
    MaxRedirects = 1
    MaxBackoff = 2
    HttpReplies <- SomeReplies
    Selections = {All, {1}}
    ForcedFrom = 2
    MaxRuns = 3
    MortalRuns = 1
    Stages = {"persons", "emails", "departments", "normalize", "dedup", "repo_people", "github_match", "social_graph"}
INVARIANTS
    TypeOK
    AskedForWhatItHas
    CollectedPeopleHaveProfiles
PROPERTIES
    NothingLearnedIsLost
    AnswersStand
    SplitsStand
    StartsKeepTheLimits
    RequestsEnd
CHECK_DEADLOCK FALSE
