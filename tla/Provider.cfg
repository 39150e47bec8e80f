SPECIFICATION Spec
CONSTANTS
    MaxTransactions = 4
    CallIds = {c1, c2}
    Paths = {{}, {"proxy"}, {"server"}}
    CachedRealms = {"none", "proxy", "server"}
    MaxNonce = 5
    MaxRequests = 2
    MaxExpiries = 1
    ForkTags = {"f1", "f2"}
    MaxDialogs = 4
    MaxResponses = 4
    HttpPaths <- SomePaths
    HttpSettings <- SomeSettings
    MaxHttpChannels = 2
    MaxStale = 2
    CancelsRemoved = FALSE
INVARIANTS
    ForkedApart
    CountIsExact
    AnsweredOwn
PROPERTIES
    AcksReported
    Authenticated
CHECK_DEADLOCK FALSE
