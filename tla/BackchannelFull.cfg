SPECIFICATION BackSpec
CONSTANTS
    x = x
    l1 = l1
    Letters = {x}
    PeerLinks = {l1}
    NoLink = NoLink
    Limit = 1
    MaxTries = 2
INVARIANTS
    RoomReserved
