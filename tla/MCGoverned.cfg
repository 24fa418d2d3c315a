SPECIFICATION LiveSpec
CONSTANTS
    a = a
    b = b
    k1 = k1
    k2 = k2
    c1 = c1
    c2 = c2
    h1 = h1
    h2 = h2
    s1 = s1
    NIL = NIL
    None = None
    Users = {a, b}
    Sources = {s1}
    Cases = {c1, c2}
    Handlers = {h1, h2}
    Requests <- MCRequests

INVARIANTS
    HistoryExplains
    OnceUnderAKey
    AnswerStands
PROPERTIES
    EveryoneAnswered
