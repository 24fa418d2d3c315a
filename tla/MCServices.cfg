SPECIFICATION MCSpec
CONSTANTS
    v1 = v1
    v2 = v2
    plain = plain
    quoted = quoted
    drawn = drawn
    None = None
    Users = {1, 2, 3, 4}
    Drafts = {plain, quoted, drawn}
    Versions = {v1, v2}
    Drift <- Moved
    MaxRevisions = 2
    MaxClock = 3
    MaxRows = 3
    Page = 2
    MaxFaults = 2
    r1 = r1
    r2 = r2
    r3 = r3
    t1 = t1
    t2 = t2
    Callers = {r1, r2, r3}
    Tokens = {t1, t2}
    CacheTicks = 2
    NegativeTicks = 1
    DeadlineTicks = 1
    SharedTicks = 2
    WaitingLimit = 2
    Capacity = 1
    Nobody = Nobody
    MaxEvents = 6
    Twice = {"model.call_start", "model.call_finished", "assistant.message", "session.usage_checkpoint"}
    MaxWork = 2
    Asks = {1, 2, 3, 4}
    InFlightLimit = 3
    StreamLimit = 2
    Watcher <- MCWatcher
    WatcherLimit = 1
    AdmissionSlots = 1
    BodyTicks = 1
    SlotTicks = 2
    Keys = {"k"}
    Packs = {"p"}
    MaxCrashes = 1
    Timeout = 4
    Tries = 3
    WaitCap = 1
    FenceTicks = 2
    Sets <- MCSets
    Askers <- MCAskers
    Releases = {"this", "earlier"}
    Signs = {1, 2}
    Stands = 2
    Performs = 2
    MaxTime = 1
    TokenTicks = 2
    MintTicks = 1
    FailureTicks = 1
    Lives = {0, 3}
    MaxTokens = 2
    Units = {r1, r2, r3}
    DeckKeys = {1, 2}
    Rates = {1, 2}
    LockTicks = 1
    MaxDraws = 2
    IntervalTicks = 1
    ProbeTicks = 1
    StaleTicks = 3
    FilesTicks = 2
    MaxChanges = 2
    MaxReads = 1
    MaxMissed = 1
    Sayings = {"a", "b"}
    MaxPresses = 3
    MaxBusy = 1
    Case <- MCCase
    LatestRun = 2
    Dated <- MCDated
    Issuer <- MCIssuer
    Copies <- MCCopies
    Cited = {"cited"}
    Builds = {1, 2}
    Computes <- MCComputes
    Accepted = 2
    History = 1
    Issuers = 1
    Published <- MCPublished
    NoGrid = NoGrid
    Parts = {"deliverable", "stream", "identity", "copilot", "serving", "completion", "qualification", "minting", "decks", "probes", "console", "intents", "book"}
CONSTRAINT Narrowed
SYMMETRY Symmetry
INVARIANTS
    HeadServes
    FilingSound
    PagesSound
    TailSound
    IdentitySound
    CallsSound
    ServingSound
    QualificationSound
    HandedOutSound
    ConsoleSound
PROPERTIES
    FiledAsProven
    NeverBack
CHECK_DEADLOCK FALSE
