SPECIFICATION NodeSpec
SYMMETRY Alike
CONSTANTS
    Absent = Absent
    l1 = l1
    l2 = l2
    p1 = p1
    p2 = p2
    r1 = r1
    r2 = r2
    r3 = r3
    Links = {l1, l2}
    Resources = {r1, r2, r3}
    Peers = {p1, p2}
    LinkOf <- TwoOnOne
    PeerOf <- OnePeerEach
    Static = {p2}
    MaxInbound = 1
    Sequential = TRUE
    StaticSequential = FALSE
    FromStaticOnly = FALSE
    None = None
    Damaged = Damaged
    RotationInterval = 2
    Retain = 2
    Wall <- Clock
    Faults <- AllFaults
    MaxFaults = 2
    MaxMade = 5
    Recipients = {p1}
    Drafts = {r1, r2}
    NoTicket = NoTicket
    Expiry = 2
    Renew = 1
    Grace = 1
    TicketInterval = 1
    MaxTime = 3
    MaxRevision = 3
    MaxCheckpoints = 1
    MaxTicketFaults = 2
    x = x
    y = y
    packet = packet
    batch = batch
    Tids = {x, y}
    Deposits = {packet, batch}
    Batches = {batch}
    EntriesOf <- OneAndAll
    Gets = {l1}
    Nothing = Nothing
    Quota = 1
    DirectoryBarrier = TRUE
    MaxObjects = 3
    MaxRelayFaults = 1
    x1 = x1
    x2 = x2
    y1 = y1
    OldImage = {x1, x2, y1}
    Eligible = {x1, x2, y1}
    TidOf <- ArchivedAs
    Manifests <- Approvals
    MaxRelayed = 2
    Gone = Gone
    MaxMoves = 4
    MaxStoreFaults = 3
    MaxCommands = 5
    MaxLinks = 2
    MaxRequests = 2
    StageLimit = 2
    TotalSegments <- AnswerSizes
INVARIANTS
    NodeTypesOK
    SlotsOwned
    AdvertisedKept
    TicketsHonoured
    DepositsDurable
    PurgesFinal
    Startable
    Resumable
    HostedSafely
    ImportAccounted
    AnswerWhole
    ClockRuns
    LinksReleased
PROPERTIES
    AnnouncesOrdered
    RejectedPreserved
CHECK_DEADLOCK FALSE
