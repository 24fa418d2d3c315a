SPECIFICATION LiveSpec
CONSTANTS
    a = a
    b = b
    r1 = r1
    r2 = r2
    r3 = r3
    w1 = w1
    w2 = w2
    b1 = b1
    b2 = b2
    d1 = d1
    o1 = o1
    o2 = o2
    None = None
    Users = {a}
    Sources = {1, 2}
    Document <- OneDocument
    Output <- TwoOutputs
    Runs = {r1}
    Nodes = 1
    Builds = {b1, b2}
    Workers = {w1, w2}
    BuildOf <- ByName
    Places = 1
    MaxFaults = 1
INVARIANTS
    OfferedIsAnswered
PROPERTIES
    WithdrawnRests
