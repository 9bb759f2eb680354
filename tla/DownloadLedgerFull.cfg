SPECIFICATION Spec
CONSTANTS
    None = None
    NTid = 2
    MaxChunk = 1
    LedgerLimit = 1
    Retain = FALSE
    MaxWorkers = 1
    MessageOf <- OwnMessage
    MaxUpsets = 0
INVARIANTS
    WaitsForSomething
