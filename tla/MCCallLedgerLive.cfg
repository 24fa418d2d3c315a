SPECIFICATION FairSpec
CONSTANTS
    n1 = n1
    w1 = w1
    w2 = w2
    Nodes = {n1}
    Workers = {w1, w2}
    NoNode = NoNode
    NoWorker = NoWorker
    Answers = {"answered", "blocked", "weak", "over", "lost", "drop", "unknown"}
    MaxOrdinal = 2
    GuidedRetries = 1
    DropReattempts = 1
    BillTries = 2
    Price = 1
    Ceiling = 3
    CreditPriced = TRUE
    MaxFaults = 1
PROPERTIES
    CallsSettle
    KeepsLedger
CHECK_DEADLOCK FALSE
