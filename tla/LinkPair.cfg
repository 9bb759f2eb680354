SPECIFICATION Spec
CONSTANTS
    None = None
    l1 = l1
    l2 = l2
    peer1 = peer1
    node = node
    m1 = m1
    m2 = m2
    Links = {l1, l2}
    Dests = {peer1, node}
    Messages = {m1, m2}
    N = 2
    MessageOf <- Contents
    DestOf <- Destinations
    OneShot = {2}
    Size <- Sizes
INVARIANTS
    DirectLinksOwned
CHECK_DEADLOCK FALSE
