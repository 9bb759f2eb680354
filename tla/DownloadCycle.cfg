SPECIFICATION FairSpec
CONSTANTS
    None = None
    NTid = 2
    MaxChunk = 1
    LedgerLimit = 2
    Retain = FALSE
    MaxWorkers = 2
    MessageOf <- OneMessage
    MaxUpsets = 1
INVARIANTS
    NothingLost
    CursorAligned
    OneHolder
PROPERTIES
    WantsAfterPersistence
    CycleEnds
