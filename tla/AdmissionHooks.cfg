SPECIFICATION FairSpec
CONSTANTS
    s1 = s1
    s2 = s2
    m1 = m1
    w1 = w1
    w2 = w2
    None = None
    Scope <- MCScope
    Message <- MCMessage
    Image <- OneImage
    MessageOf <- MCMessageOf
    MessageIn <- MCMessageIn
    Dispositions <- OnlyCommitted
    RunHook = TRUE
    Lifetime = 1
    LedgerLimit = 2
    Faults <- CrashFaults
    MaxTime = 1
    MaxFaults = 2
INVARIANTS
    HookHonoured
PROPERTIES
    HookRuns
