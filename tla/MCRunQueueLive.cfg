SPECIFICATION FairSpec
CONSTANTS
    r1 = r1
    r2 = r2
    a1 = a1
    w1 = w1
    w2 = w2
    Runs = {r1, r2}
    Actors = {a1}
    Workers = {w1, w2}
    NoActor = NoActor
    NoRun = NoRun
    MaxQueued = 2
    MaxFaults = 2
PROPERTIES
    QueueMoves
CHECK_DEADLOCK FALSE
