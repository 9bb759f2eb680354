SPECIFICATION SendSpec
CONSTANTS
    None = None
    m1 = m1
    m2 = m2
    Messages = {m1}
    MethodsOf <- AnyMethod
    MaxAttempts = 3
    MaxSubmits = 1
    MaxCopies = 2
    MaxNews = 1
    x = x
    l1 = l1
    Letters = {x}
    PeerLinks = {l1}
    NoLink = NoLink
    Limit = 2
    MaxTries = 1
    l2 = l2
    i1 = i1
    i2 = i2
    i3 = i3
    FromPeer = {i1, i2, i3}
    SegmentsOf <- ThreeOneTwo
    PartsOf = 2
    TooLarge = {i3}
    Owners <- SameOnTwo
    Bytes = 1
    MaxProgress = 1
    MaxCancels = 1
    MaxForwarded = 1
INVARIANTS
    SuccessConverged
CHECK_DEADLOCK FALSE
