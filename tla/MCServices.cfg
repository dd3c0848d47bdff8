\* Every service explores its own instance; two calls race with each other,
\* an idle timeout and shutdown in the file I/O service.
SPECIFICATION SumSpec
CONSTANTS
    a = a
    b = b
    Callers <- TwoCallers
    Capacity = 1
    None = None
    Text = Text
    Blank = ""
    Jobs = {"j1", "j2"}
    Workers = {"w1", "w2", "w3"}
    JobOf <- WorkersJob
    Id <- PrefixIds
    Char = {"a", "b", "k", ":"}
    Colon = ":"
    KeyNames <- OwnNames
    GlobalNames <- SpelledNames
    Default = 5
    Delta = 1
    MaxCalls = 3
    StoreReloads = 1
    Browsers = {"b1", "b2"}
    Dirs = {"d"}
    NoDir = "none"
    BrowserReloads = 2
    Tabs = {"t1", "t2"}
    Handles = {"h1", "h2"}
    Contexts = {"c"}
    DefaultCtx = "default"
    NoTab = "none"
    IoThreads = {"w1", "w2"}
    MaxFileSize = 1
    MaxRotations = 2
    MaxTime = 3
    MaxLines = 4
    Requests = {"r"}
    HasKey = TRUE
    Luau = TRUE
    MaxDefers = 2
    MaxItems = 2
    Tags = {"a", "b"}
    MaxTags = 5
    ReadJobs = {"j"}
    MaxTs = 6
    Limits <- SomeLimits
    DefaultLimit = 2
    MaxLimit = 2
    Grain = 2
    Fetchers = {"w1", "w2"}
    FetchJobs = {"j"}
    FetchJobOf <- FetchersJob
    Proxy <- TwoProxies
    OwnProxy = "own"
    Wrap = 4
    MaxFetches = 3
    MaxRuns = 3
    Tomls <- SomeTomls
    JobDirs <- SomeDirs
    IdOf <- IdOfName
INVARIANTS
    TypesHold
    WrittenOnce
    Isolated
    UpdateKept
    ProfileExclusive
    EveryProcessIsKnown
    PagesHaveTabs
    PageInContext
    RotationsInOrder
    RequestsHandled
    MetadataFits
    SelectsLikeCss
    WalkIsComplete
    RotationIsEven
    UpdateKeepsABinary
    JobsAreTold
PROPERTIES
    ShutdownDrains
    AnsweredOrStranded
CHECK_DEADLOCK FALSE
