SPECIFICATION Spec
CONSTANTS
    n1 = n1
    n2 = n2
    w1 = w1
    w2 = w2
    Nodes = {n1, n2}
    Workers = {w1, w2}
    NoNode = NoNode
    NoWorker = NoWorker
    Answers = {"answered", "blocked", "weak", "over", "lost", "drop", "unknown"}
    MaxOrdinal = 3
    GuidedRetries = 1
    DropReattempts = 1
    BillTries = 2
    Price = 1
    Ceiling = 3
    CreditPriced = FALSE
    MaxFaults = 3
SYMMETRY Symmetry
CONSTRAINT Combined
INVARIANTS
    CallerAlone
    PaidOnce
    DropsBounded
    WithinCeiling
CHECK_DEADLOCK FALSE
