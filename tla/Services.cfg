SPECIFICATION MCSpec
CONSTANTS
    Hooks = {h1, h2}
    HookEvents = {e1, e2}
    BusCapacity = 1
    MaxRetries = 1
    DlqCapacity = 1
    ProxyCalls <- MCProxyCalls
    MaxProxyMsgs = 3
    CacheTtl = 1
    CacheMax = 1
    MaxProxyClock = 2
    TicksPerSec = 2
    SecsPerHour = 2
    HoursPerDay = 2
    MaxExport = 3
    TopTools = 1
    TopStats = 1
    NoValue = NoValue
    Refused = Refused
    Tenants = {9}
    Int4Max = 499
    LocaleLess <- MCLocaleLess
    Objects <- MCObjects
    ReadFilters <- MCFilters
    StoreTimes = {4, 5, 8}
    MaxAge = 3
    MaxStoreOps = 4
    Replicas = {p1, p2}
    Seeds = {s1, s2}
    MaxStarts = 3
    Executions = {x1, x2, x3, x4}
    Actions <- MCActions
    RiskScores = {40, 50, 65}
    QueueLimits <- MCQueueLimits
    MaxWall = 3
INVARIANTS
    Accounted
    NothingUngoverned
    AnswersMatch
    BackendsAgree
    OneSigningKey
PROPERTIES
    Settles
    ProxyReturns
    QueueLosesOnlyStale
CHECK_DEADLOCK FALSE
