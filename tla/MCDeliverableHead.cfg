SPECIFICATION Spec
CONSTANTS
    v1 = v1
    v2 = v2
    plain = plain
    quoted = quoted
    drawn = drawn
    None = None
    Users = {1, 2, 3}
    Drafts = {plain, quoted, drawn}
    Versions = {v1, v2}
    Drift <- Moved
    MaxRevisions = 2
    MaxClock = 3
INVARIANTS
    UnfileableSuperseded
CHECK_DEADLOCK FALSE
