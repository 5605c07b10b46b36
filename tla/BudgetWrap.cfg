SPECIFICATION MCSpec
CONSTANTS
    k1 = k1
    k2 = k2
    i1 = i1
    i2 = i2
    c1 = c1
    c2 = c2
    a1 = a1
    a2 = a2
    NoToken = NoToken
    RawKeys = {k1, k2}
    KeyIds = {i1, i2}
    KeyOf <- MCKeyOf
    BootKey = k1
    Callers = {c1, c2}
    TTL = 1
    MaxEntries = 1
    MaxFlight = 0
    MaxAuthClock = 2
    Agents = {a1, a2}
    Tokens = {t1}
    Challenges = {h1}
    Readers = {r1}
    CapLists <- MCCapLists
    ChallengeTtl = 1
    TokenTtl = 1
    MaxNhiClock = 2
    MaxBoots = 1
    MaxIdWrites = 1
    LimKeys = {k1}
    LimCallers = {c1, c2}
    Burst = 1
    Minute = 2
    Hour = 3
    Configs <- MCConfigs
    DefaultConfig <- MCDefaultConfig
    MaxWait = 1
    MaxLimClock = 4
    SpendKeys = {k1}
    Payers = {c1, c2}
    Reports <- MCReports
    Budget = {3}
    PolicyLimit = 1
    MaxMicros = 7
    MaxCharges = 4
    Files = {f1}
    Builds = {b1, b2}
    Broken = {b2}
    SignKeys = {g1, g2}
    Pinned = {g1}
    Trusted = {g1, g2}
    Loaders = {c1, c2}
    MaxDiskOps = 3
    Missing = Missing
SYMMETRY MCSymmetry
INVARIANT BudgetEnforced
CHECK_DEADLOCK FALSE
