SPECIFICATION BriefSpec
CONSTANTS
    None = None
    l1 = l1
    l2 = l2
    peer1 = peer1
    node = node
    m1 = m1
    m2 = m2
    Links = {l1}
    Dests = {peer1, node}
    Messages = {m1, m2}
    N = 3
    MessageOf <- Contents
    DestOf <- Destinations
    OneShot = {}
    Size <- Sizes
INVARIANTS
    CopiesInOrder
PROPERTIES
    FollowersKept
    ImplementsSettlement
    EventuallySettled
CHECK_DEADLOCK FALSE
