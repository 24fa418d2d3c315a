SPECIFICATION Spec
CONSTANTS
    r1 = r1
    r2 = r2
    a1 = a1
    a2 = a2
    w1 = w1
    w2 = w2
    Runs = {r1, r2}
    Actors = {a1, a2}
    Workers = {w1, w2}
    NoActor = NoActor
    NoRun = NoRun
    MaxQueued = 1
    MaxFaults = 3
SYMMETRY Symmetry
INVARIANTS
    TypeOK
    RowMatchesStatus
    PlacesWithinCap
PROPERTIES
    KeepsPromise
    CancelWins
CHECK_DEADLOCK FALSE
