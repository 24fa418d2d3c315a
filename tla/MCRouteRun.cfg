SPECIFICATION MCSpec
CONSTANTS
    w1 = w1
    w2 = w2
    NoWorker = NoWorker
    NoNode = NoNode
    Workers = {w1, w2}
    Nodes <- MCNodes
    Edges <- MCEdges
    Order <- MCOrder
    Gate = 0
    Wanted = {2}
    Offers <- MCOffers
    Readings <- MCReadings
    Modules = {0, 1, 2, 3}
    Stage <- MCStage
    GateModule = 0
    Model = 3
    Owners = {1}
    Conditional <- MCConditional
    MaxNodes = 3
SYMMETRY Symmetry
INVARIANTS
    EndedForReason
    AcceptedOnItsInputs
    ResolvedSound
CHECK_DEADLOCK FALSE
