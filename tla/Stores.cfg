SPECIFICATION StoresSpec
CONSTANTS
    s1 = s1
    s2 = s2
    m1 = m1
    w1 = w1
    w2 = w2
    None = None
    Scope <- MCScope
    Message <- MCMessage
    Image <- MCImage
    MessageOf <- MCMessageOf
    MessageIn <- MCMessageIn
    Dispositions <- BothDispositions
    RunHook = FALSE
    Lifetime = 1
    LedgerLimit = 2
    Faults <- AllFaults
    MaxTime = 1
    MaxFaults = 2
    x = x
    y = y
    n1 = n1
    Nodes = {n1}
    Mail = {x, y}
    Terms <- MCTerms
    NoNode = NoNode
    MaxGeneration = 2
    MaxRestarts = 1
SYMMETRY Symmetry
INVARIANTS
    ReceiptBacked
    ReceiptSurvives
    MarksTrue
    AttemptOwned
PROPERTIES
    ImplementsArchive
