-------------------------------- MODULE Decks --------------------------------
(***************************************************************************)
(* The rate decks (store/rate_decks.py, 0050_rate_decks.sql,               *)
(* api/commands/rate_decks.py, start_run of store/runs.py): decks are      *)
(* saved one at a time under a lock that every run's creation takes        *)
(* shared, so that the run pins the latest deck there is when it commits.  *)
(*                                                                         *)
(* A unit is a transaction of one request; what it wrote is seen at its    *)
(* commit.  Its locks are its own until it ends, and PostgreSQL grants     *)
(* them in the order they were asked for.  A save is alone: it belongs to  *)
(* no case, and its receipt is its own.                                    *)
(***************************************************************************)
EXTENDS Naturals, Sequences, SequencesExt

CONSTANTS
    Units,          \* the transactions there may be at once
    Keys, Rates,    \* a save's Idempotency-Key, and what its body states
    LockTicks,      \* LOCK_TIMEOUT_MS
    MaxDraws        \* bounds the identities drawn

VARIABLES
    decks,      \* rate_decks, in the order they were committed
    drawn,      \* the sequence behind deck_seq, which no rollback takes back
    receipts,   \* command_requests of SAVE_RATE_DECK
    told,       \* history: the saves answered, with the deck each was told
    runs,       \* the runs created: the deck of each, and the latest at its commit
    unit,       \* each unit: what it does, its step, what it has written, time left
    waiting     \* the units that wait for the save lock, in their order

store == <<decks, drawn, receipts, told, runs>>
vars == <<store, unit, waiting>>

NoDeck == [seq |-> 0, key |-> 0, rates |-> 0]
Requests == [key : Keys, rates : Rates]
Starts == [key |-> 0, rates |-> 0]
Resting == [step |-> "rest", asks |-> Starts, deck |-> NoDeck, left |-> 0]

Init ==
    /\ decks = <<>> /\ drawn = 0
    /\ receipts = {} /\ told = {} /\ runs = {}
    /\ unit = [u \in Units |-> Resting]
    /\ waiting = <<>>

At(u, step) == unit[u].step = step
Go(u, step) == unit' = [unit EXCEPT ![u].step = step, ![u].left = 0]
Saves(u) == unit[u].asks # Starts
Latest == IF decks = <<>> THEN NoDeck ELSE Last(decks)
Held(key) == {r \in receipts : r.key = key}

-----------------------------------------------------------------------------
(* The save lock.                                                          *)

\* pg_advisory_xact_lock or _shared, and the wait's bound.
Queue(u, asks) ==
    /\ unit' = [unit EXCEPT ![u] = [Resting EXCEPT !.step = "wait", !.asks = asks, !.left = LockTicks]]
    /\ waiting' = Append(waiting, u)

Holders == {u \in Units : unit[u].step \in {"insert", "rates", "receipt", "pin", "commit"}}
Conflict(u, v) == Saves(u) \/ Saves(v)

\* Mutant: a pin is read without the lock.
GrantableUnlocked(u, ahead) == ~Saves(u) \/ \A v \in ahead : ~Conflict(u, v)

\* Nobody that holds it, or asked for it before, is in the way.
Grantable(u, ahead) == \A v \in ahead : ~Conflict(u, v)

Grant(u) ==
    /\ At(u, "wait")
    /\ \E i \in DOMAIN waiting :
         /\ waiting[i] = u
         /\ Grantable(u, Holders \cup {waiting[j] : j \in 1..(i - 1)})
         /\ waiting' = RemoveAt(waiting, i)
    /\ unit' = [unit EXCEPT ![u].step = IF Saves(u) THEN "insert" ELSE "pin",
                            ![u].left = IF Saves(u) THEN LockTicks ELSE 0]
    /\ UNCHANGED store

Ends(u) == unit' = [unit EXCEPT ![u] = Resting]

\* Mutant: a wait for the lock has no bound.
LateNever(u) == unit[u].step \in {"insert", "rates"} /\ unit[u].left = 0

\* The lock's wait, and those of a save's writes while it holds the lock, are bounded.
Late(u) == unit[u].step \in {"wait", "insert", "rates"} /\ unit[u].left = 0

\* LockNotAvailable: STORE_UNAVAILABLE, and the unit is rolled back.
GiveUp(u) ==
    /\ Late(u)
    /\ Ends(u)
    /\ waiting' = SelectSeq(waiting, LAMBDA v : v # u)
    /\ UNCHANGED store

\* Anything else that ends a unit, at any step: what it wrote is gone, but not what
\* it drew.
Fail(u) ==
    /\ ~At(u, "rest")
    /\ Ends(u)
    /\ waiting' = SelectSeq(waiting, LAMBDA v : v # u)
    /\ UNCHANGED store

-----------------------------------------------------------------------------
(* saved_deck.                                                             *)

\* _replayed: the request that saved it is answered its deck, another is refused.
Replay(asks) ==
    told' = told \cup {r \in Held(asks.key) : r.rates = asks.rates}

\* The receipt is looked up first.
Ask(u, asks) ==
    /\ unit[u] = Resting
    /\ IF Held(asks.key) # {} THEN Replay(asks) /\ UNCHANGED <<unit, waiting>>
       ELSE Queue(u, asks) /\ UNCHANGED told
    /\ UNCHANGED <<decks, drawn, receipts, runs>>

\* The deck takes the identity its save draws, above every deck there is.
Insert(u) ==
    /\ At(u, "insert") /\ drawn < MaxDraws
    /\ drawn' = drawn + 1
    /\ \A i \in DOMAIN decks : decks[i].seq < drawn'
    /\ unit' = [unit EXCEPT ![u].step = "rates", ![u].left = LockTicks,
                            ![u].deck = [seq |-> drawn', key |-> unit[u].asks.key, rates |-> 0]]
    /\ UNCHANGED <<decks, receipts, told, runs, waiting>>

InsertRates(u) ==
    /\ At(u, "rates")
    /\ unit' = [unit EXCEPT ![u].step = "receipt", ![u].left = 0, ![u].deck.rates = unit[u].asks.rates]
    /\ UNCHANGED <<store, waiting>>

\* Mutant: the twin's receipt is left as it is.
RecordAnyway(u) == Go(u, "commit") /\ UNCHANGED told

\* A twin's committed receipt takes the key: the unit is rolled back and replays it.
Record(u) ==
    IF Held(unit[u].asks.key) # {} THEN Ends(u) /\ Replay(unit[u].asks)
    ELSE Go(u, "commit") /\ UNCHANGED told

RecordReceipt(u) ==
    /\ At(u, "receipt") /\ Record(u)
    /\ UNCHANGED <<decks, drawn, receipts, runs, waiting>>

CommitSave(u) ==
    LET answer == [seq |-> unit[u].deck.seq, key |-> unit[u].asks.key, rates |-> unit[u].asks.rates] IN
    /\ At(u, "commit") /\ Saves(u)
    /\ decks' = Append(decks, unit[u].deck)
    /\ receipts' = receipts \cup {answer} /\ told' = told \cup {answer}
    /\ Ends(u)
    /\ UNCHANGED <<drawn, runs, waiting>>

-----------------------------------------------------------------------------
(* start_run.                                                              *)

Start(u) == unit[u] = Resting /\ Queue(u, Starts) /\ UNCHANGED store

\* _PIN_LATEST, a statement of its own after the lock is granted.
Pin(u) ==
    /\ At(u, "pin")
    /\ unit' = [unit EXCEPT ![u].step = "commit", ![u].deck = Latest]
    /\ UNCHANGED <<store, waiting>>

CommitRun(u) ==
    /\ At(u, "commit") /\ ~Saves(u)
    /\ runs' = runs \cup {[pinned |-> unit[u].deck.seq, latest |-> Latest.seq]}
    /\ Ends(u)
    /\ UNCHANGED <<decks, drawn, receipts, told, waiting>>

-----------------------------------------------------------------------------
Less(n) == IF n > 0 THEN n - 1 ELSE 0

\* Time passes; who has waited long enough is let go first.
Tick ==
    /\ \A u \in Units : ~Late(u)
    /\ unit' = [u \in Units |-> [unit[u] EXCEPT !.left = Less(@)]]
    /\ UNCHANGED <<store, waiting>>

Next ==
    \/ \E u \in Units :
        \/ \E asks \in Requests : Ask(u, asks)
        \/ Start(u)
        \/ Grant(u) \/ GiveUp(u) \/ Fail(u)
        \/ Insert(u) \/ InsertRates(u) \/ RecordReceipt(u) \/ CommitSave(u)
        \/ Pin(u) \/ CommitRun(u)
    \/ Tick

Spec == Init /\ [][Next]_vars

\* Time passes and waits end at their bound; what holds the lock may stay for ever.
Fairness == WF_vars(Tick) /\ \A u \in Units : WF_vars(GiveUp(u))

-----------------------------------------------------------------------------
\* "Latest" moves forward only, in the order the decks were committed, whatever was
\* drawn by saves that failed.
CommitOrder == \A i, j \in DOMAIN decks : i < j => decks[i].seq < decks[j].seq

\* A run pins the deck that is the latest when it commits: no save that was committed,
\* and so acknowledged, before it is passed over.
PinnedLatest == \A r \in runs : r.pinned = r.latest

\* A key saves one deck, with the rates its request stated, and every answer under it
\* tells that deck, whatever twins raced it.
OneDeckPerKey ==
    /\ \A i, j \in DOMAIN decks : decks[i].key = decks[j].key => i = j
    /\ \A a \in told : \E i \in DOMAIN decks : decks[i] = a

DecksSound == CommitOrder /\ PinnedLatest /\ OneDeckPerKey

\* Who waits for the lock is granted it or let go, though its holder stay for ever.
WaitEnds(u) == At(u, "wait") ~> ~At(u, "wait")

-----------------------------------------------------------------------------
(* The inductive invariant of the part.                                    *)

Rows == [seq : Nat, key : Keys \cup {0}, rates : Rates \cup {0}]

TypeOK ==
    /\ decks \in Seq(Rows) /\ drawn \in Nat
    /\ receipts \subseteq Rows /\ told \subseteq Rows
    /\ runs \subseteq [pinned : Nat, latest : Nat]
    /\ unit \in [Units ->
        [step : {"rest", "wait", "insert", "rates", "receipt", "pin", "commit"},
         asks : Requests \cup {Starts}, deck : Rows, left : Nat]]

\* Who saves holds the lock alone; who starts runs, with none that saves.
Exclusive == \A u, v \in Holders : u # v => ~Conflict(u, v)

\* What a unit has written by each of its steps, and what it then finds committed.
WrittenSoFar ==
    \A u \in Units :
        /\ unit[u].step \in {"insert", "rates", "receipt"} => Saves(u)
        /\ At(u, "pin") => ~Saves(u)
        /\ At(u, "commit") /\ ~Saves(u) => unit[u].deck = Latest
        /\ unit[u].step \in {"rates", "receipt", "commit"} /\ Saves(u) =>
            /\ unit[u].deck.key = unit[u].asks.key
            /\ \A i \in DOMAIN decks : decks[i].seq < unit[u].deck.seq
        /\ unit[u].step \in {"receipt", "commit"} /\ Saves(u) => unit[u].deck.rates = unit[u].asks.rates
        /\ At(u, "commit") /\ Saves(u) => Held(unit[u].asks.key) = {}

\* A deck and its receipt are of one commit.
ReceiptsOfDecks ==
    /\ \A i \in DOMAIN decks : decks[i] \in receipts
    /\ \A a \in receipts : \E i \in DOMAIN decks : decks[i] = a

DecksInv == TypeOK /\ Exclusive /\ WrittenSoFar /\ ReceiptsOfDecks /\ DecksSound
=============================================================================
