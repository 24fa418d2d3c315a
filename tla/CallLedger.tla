----------------------------- MODULE CallLedger -----------------------------
(***************************************************************************)
(* One run's ledger of paid calls: how a worker drives a node from the     *)
(* ledger's word (caos/graph/runtime.py), starts and reserves an attempt   *)
(* (caos/store/runs.py, budget.py), holds it across the provider's call    *)
(* and its bill (caos/methodology/canonical.py, caos/store/outcomes.py)    *)
(* and accepts, blocks on or explains the answer.                          *)
(*                                                                         *)
(* An attempt is <<node, ordinal>>.  One step is one committed unit of the *)
(* store under the run lock, one read unit, or the provider's call.  The   *)
(* queue is what RunQueue shows it to be: at most one worker's token       *)
(* matches the work row, and holder names that worker.  Which node is      *)
(* ready is the route's business: any node not accepted may be driven.     *)
(***************************************************************************)
EXTENDS Integers, FiniteSets, FiniteSetsExt

CONSTANTS
    Nodes,          \* the nodes of the pinned route
    Workers,
    NoNode,         \* an idle worker's node
    NoWorker,       \* no worker's token matches the work row
    Answers,        \* the ways a call of this instance may end
    MaxOrdinal,     \* MAX_ATTEMPT_ORDINAL
    GuidedRetries,  \* GUIDED_RETRIES
    DropReattempts, \* DROP_REATTEMPTS
    BillTries,      \* BILL_TRIES
    Price,          \* what one call reserves, and what one inside it costs
    Ceiling,        \* the run's budget ceiling
    CreditPriced,   \* whether reservations name a credit price
    MaxFaults       \* bound: crashes, cuts, store faults, lapses of the live

(* How a call ends: an answer its checks accept, a validated Blocked one,   *)
(* one they refuse with a guided code; one billed over its reservation;     *)
(* one billed whose body was not stored; a drop the provider declared; and  *)
(* anything that leaves no charge, or no handle, to replay.                 *)
Charged == {"answered", "blocked", "weak", "over", "lost"}
Kinds == Charged \cup {"drop", "unknown"}

ASSUME NodesFinite == IsFiniteSet(Nodes)
ASSUME Fresh == NoNode \notin Nodes /\ NoWorker \notin Workers
ASSUME AnswersKnown == Answers \subseteq Kinds
ASSUME BoundsNat ==
    /\ {MaxOrdinal, GuidedRetries, DropReattempts, Price, Ceiling, MaxFaults} \subseteq Nat
    /\ BillTries \in Nat \ {0}
    /\ Price > 0
    /\ CreditPriced \in BOOLEAN

VARIABLES
    \* the run: its status, its work row, the worker whose token the row carries
    status, work, holder, cancel,
    \* the ledger: attempts started per node; per attempt its reservation, its
    \* outcome, its explanation, its artifact, and whether a park came after it
    started, reserved, outcome, explained, accepted, parked,
    \* call_hold's advisory lock, whether the reservation outlived
    \* call_hold_seconds, owe_bill's mark
    hold, aged, mark,
    exposed,    \* history: a disturbance left the attempt's call uncovered
    \* the workers
    pc, at, code, answer, pauses, cuts,
    faults      \* disturbances so far

run == <<status, work, holder, cancel>>
rows == <<started, reserved, outcome, explained, accepted, parked>>
guards == <<hold, aged, mark, exposed>>
worker == <<pc, at, code, answer, pauses, cuts>>
vars == <<run, rows, guards, worker, faults>>

Attempts == Nodes \X (1..MaxOrdinal)
Over == "BUDGET_CHARGE_OVER_RESERVATION"
Released == {"STORE_UNAVAILABLE", "ATTEMPT_UNSETTLED", "ATTEMPT_BILL_OWED"}
Explanations == {"GUIDED", "PROVIDER_UNAVAILABLE", Over, "ROUTE_IDENTITY_INVALID"}
Fenced == {"LEASE_NOT_HELD", "RUN_NOT_RUNNING", "RUN_CANCEL_REQUESTED"}
Codes == Released \cup Explanations \cup Fenced \cup
    {"OK", "NODE_ALREADY_ACCEPTED", "ATTEMPT_LIMIT_REACHED", "HANDOFF_BLOCKED",
     "BUDGET_CEILING_REACHED", "CALL_OUTCOME_UNEXPLAINED"}
Steps == {"idle", "look", "again", "start", "reserve", "hold", "check", "call",
          "mark", "write", "reconnect", "judge", "explain", "settle", "accept",
          "confirm", "block", "refused"}

TypeOK ==
    /\ status \in {"RUNNING", "COMPLETE", "BLOCKED", "CANCELLED"}
    /\ work \in {"QUEUED", "CLAIMED", "STOPPED", "STOPPED_OVER", "DONE"}
    /\ holder \in Workers \cup {NoWorker}
    /\ holder # NoWorker => work = "CLAIMED"
    /\ (work = "DONE") = (status # "RUNNING")
    /\ cancel \in BOOLEAN
    /\ started \in [Nodes -> 0..MaxOrdinal]
    /\ reserved \in [Attempts -> {0, Price}]
    /\ outcome \in [Attempts -> Kinds \cup {"none"}]
    /\ explained \in [Attempts -> Explanations \cup {"none"}]
    /\ accepted \in [Attempts -> BOOLEAN]
    /\ parked \in [Attempts -> BOOLEAN]
    /\ hold \in [Attempts -> {"free", "held", "ghost"}]
    /\ aged \in [Attempts -> BOOLEAN]
    /\ mark \in [Attempts -> {"none", "live", "lapsed"}]
    /\ exposed \in [Attempts -> BOOLEAN]
    /\ pc \in [Workers -> Steps]
    /\ at \in [Workers -> (Nodes \cup {NoNode}) \X (0..MaxOrdinal)]
    /\ code \in [Workers -> Codes]
    /\ answer \in [Workers -> Kinds]
    /\ pauses \in [Workers -> 0..BillTries]
    /\ cuts \in [Workers -> 0..BillTries]
    /\ faults \in 0..MaxFaults

Init ==
    /\ status = "RUNNING" /\ work = "QUEUED" /\ holder = NoWorker /\ cancel = FALSE
    /\ started = [n \in Nodes |-> 0]
    /\ reserved = [a \in Attempts |-> 0]
    /\ outcome = [a \in Attempts |-> "none"]
    /\ explained = [a \in Attempts |-> "none"]
    /\ accepted = [a \in Attempts |-> FALSE]
    /\ parked = [a \in Attempts |-> FALSE]
    /\ hold = [a \in Attempts |-> "free"]
    /\ aged = [a \in Attempts |-> FALSE]
    /\ mark = [a \in Attempts |-> "none"]
    /\ exposed = [a \in Attempts |-> FALSE]
    /\ pc = [w \in Workers |-> "idle"]
    /\ at = [w \in Workers |-> <<NoNode, 0>>]
    /\ code = [w \in Workers |-> "OK"]
    /\ answer = [w \in Workers |-> "unknown"]
    /\ pauses = [w \in Workers |-> 0]
    /\ cuts = [w \in Workers |-> 0]
    /\ faults = 0

-----------------------------------------------------------------------------
(* What the ledger says.                                                   *)

Node(w) == at[w][1]
Of(n) == {a \in Attempts : a[1] = n /\ a[2] <= started[n]}
First(S) == CHOOSE a \in S : \A b \in S : a[2] <= b[2]
Last(S) == CHOOSE a \in S : \A b \in S : b[2] <= a[2]
Bigger(x, y) == IF x < y THEN y ELSE x

\* accepted_owner: the attempt whose artifact is the node's result.
HasOwner(n) == \E a \in Of(n) : accepted[a]

Unsettled(a) == ~accepted[a] /\ explained[a] = "none"

\* What replay_billed settles: a charge, a handle and a stored body, owed.
Replayable(n) == {a \in Of(n) : outcome[a] \in Charged \ {"lost"} /\ Unsettled(a)}

\* Mutant: a charge with no body is taken for no charge.
UnexplainedNever(n) == FALSE

\* unexplained_charge: a charge whose body was never stored.
Unexplained(n) == \E a \in Of(n) : outcome[a] = "lost" /\ Unsettled(a)

Cost(k) == IF k = "over" THEN 2 * Price ELSE IF k \in Charged THEN Price ELSE 0

\* overspent and _settled_within: a credit-priced charge above its reservation.
OverBilled(k) == CreditPriced /\ k = "over"
Overspent == \E a \in Attempts : OverBilled(outcome[a])

\* What _remaining subtracts: each attempt at the greater of reserved and charged.
Committed == MapThenSumSet(LAMBDA a : Bigger(reserved[a], Cost(outcome[a])), Attempts)

\* Mutant: what is reserved and not charged yet is not set aside.
LeftUncharged == Ceiling - MapThenSumSet(LAMBDA a : Cost(outcome[a]), Attempts)

\* _remaining
Left == Ceiling - Committed

\* without_unreserved, and the declared drops among them.
Real(n) == {a \in Of(n) : reserved[a] > 0}
Drops(n) == {a \in Real(n) : outcome[a] = "drop"
                             /\ explained[a] \in {"none", "PROVIDER_UNAVAILABLE"}}
LastIsDrop(n) == Drops(n) # {} /\ Last(Real(n)) \in Drops(n)

\* Mutant: a drop the worker never explained is not counted.
DropStopExplained(n) ==
    /\ LastIsDrop(n)
    /\ Cardinality({a \in Drops(n) : explained[a] # "none"}) > DropReattempts
    /\ ~parked[Last(Real(n))]

\* drop_stop_owed: the re-attempt was itself a drop and no park came after it.
DropStopOwed(n) ==
    /\ LastIsDrop(n)
    /\ Cardinality(Drops(n)) > DropReattempts
    /\ ~parked[Last(Real(n))]

\* reattempts_a_drop
DropDue(n) == LastIsDrop(n) /\ Cardinality(Drops(n)) <= DropReattempts

\* second_attempt_due
GuidedDue(n) ==
    LET real == Real(n) \ Drops(n)
        refused == {a \in real : explained[a] = "GUIDED"} IN
    /\ refused # {}
    /\ Cardinality(refused) <= GuidedRetries
    /\ Last(real) \in refused

\* Mutant: the hold of a call in flight is the session lock alone.
HeldByLock(n) ==
    \E a \in Of(n) :
        /\ outcome[a] = "none" /\ reserved[a] > 0
        /\ hold[a] # "free" /\ ~aged[a]

\* Mutant: a mark holds its node for good.
HeldForEver(n) ==
    \E a \in Of(n) :
        /\ outcome[a] = "none" /\ reserved[a] > 0
        /\ mark[a] # "none" \/ (hold[a] # "free" /\ ~aged[a])

\* _UNSETTLED's other half: a reserved call unbilled and held, or marked owed.
HeldElsewhere(n) ==
    \E a \in Of(n) :
        /\ outcome[a] = "none" /\ reserved[a] > 0
        /\ mark[a] = "live" \/ (hold[a] # "free" /\ ~aged[a])

BillOwed(n) == Replayable(n) # {} \/ Unexplained(n)

-----------------------------------------------------------------------------
(* The fence, and what a worker's steps share.                             *)

Holds(w) == work = "CLAIMED" /\ holder = w

\* require_running: RUNNING, the lease held, no cancel requested.
Fence(w) ==
    IF status # "RUNNING" THEN "RUN_NOT_RUNNING"
    ELSE IF ~Holds(w) THEN "LEASE_NOT_HELD"
    ELSE IF cancel THEN "RUN_CANCEL_REQUESTED"
    ELSE "OK"

Fault == faults < MaxFaults /\ faults' = faults + 1

Go(w, p) == pc' = [pc EXCEPT ![w] = p]

Refuse(w, c) == Go(w, "refused") /\ code' = [code EXCEPT ![w] = c]

GoIdle(w) ==
    /\ Go(w, "idle")
    /\ at' = [at EXCEPT ![w] = <<NoNode, 0>>]
    /\ code' = [code EXCEPT ![w] = "OK"]
    /\ answer' = [answer EXCEPT ![w] = "unknown"]
    /\ pauses' = [pauses EXCEPT ![w] = 0]
    /\ cuts' = [cuts EXCEPT ![w] = 0]

LetGo(a) == hold' = [hold EXCEPT ![a] = "free"]

\* The session is gone; its backend may linger, half open, with the hold.
LoseSession(a) ==
    \E h \in {"free", "ghost"} :
        hold' = [hold EXCEPT ![a] = IF @ = "held" THEN h ELSE @]

\* Mutant: the ended run's row keeps its worker.
EndRunHeld(into) ==
    /\ status' = into
    /\ work' = "DONE"
    /\ UNCHANGED <<holder, cancel>>

\* The run's terminal move, its work row closed with it (mark_work_done).
EndRun(into) ==
    /\ status' = into
    /\ work' = "DONE"
    /\ holder' = NoWorker
    /\ UNCHANGED cancel

(* A call in flight, not yet billed, is covered by its hold or its mark.   *)
(* Only a disturbance may take both away, and exposed remembers that.      *)
InFlight(a) ==
    \E w \in Workers :
        at[w] = a /\ pc[w] \in {"hold", "check", "call", "mark", "write", "reconnect"}
Covered(a) == (hold[a] # "free" /\ ~aged[a]) \/ mark[a] = "live"
Expose(a) == exposed' = [exposed EXCEPT ![a] = @ \/ (InFlight(a)' /\ ~Covered(a)')]

-----------------------------------------------------------------------------
(* The queue's side of the run.                                            *)

\* claim_run: queued, or claimed under a lease that lapsed (of a live holder:
\* a disturbance).  The holder it had is left with a token no row matches.
Claim(w) ==
    /\ pc[w] = "idle"
    /\ \/ work = "QUEUED" /\ UNCHANGED faults
       \/ work = "CLAIMED" /\ IF holder = NoWorker THEN UNCHANGED faults ELSE Fault
    /\ work' = "CLAIMED"
    /\ holder' = w
    /\ Go(w, "look")
    /\ UNCHANGED <<status, cancel, rows, guards, at, code, answer, pauses, cuts>>

\* RETRY_RUN (requeue_run), never of a run parked over its reservation.
Retry ==
    /\ work = "STOPPED"
    /\ ~cancel
    /\ work' = "QUEUED"
    /\ UNCHANGED <<status, holder, cancel, rows, guards, worker, faults>>

\* CANCEL_RUN (request_cancel): recorded, and the run ended if nobody drives it.
Cancel ==
    /\ status = "RUNNING"
    /\ cancel' = TRUE
    /\ \/ /\ ~cancel
          /\ work = "CLAIMED"
          /\ UNCHANGED <<status, work, holder, faults>>
       \/ /\ IF holder = NoWorker THEN UNCHANGED faults ELSE Fault
          /\ status' = "CANCELLED" /\ work' = "DONE" /\ holder' = NoWorker
    /\ UNCHANGED <<rows, guards, worker>>

-----------------------------------------------------------------------------
(* A node's pass.                                                          *)

\* What a stored body re-derives to; the identity its call could have named may
\* have moved since (call_time_identity).
Verdicts(k) ==
    IF OverBilled(k) THEN {Over}
    ELSE IF k = "weak" THEN {"GUIDED", "ROUTE_IDENTITY_INVALID"}
    ELSE IF k = "blocked" THEN {"BLOCKED", "ROUTE_IDENTITY_INVALID"}
    ELSE {"ANSWERED", "ROUTE_IDENTITY_INVALID"}

\* replay_billed's verdict on a, acted on by _settle.
Settle(w, a, v) ==
    /\ at' = [at EXCEPT ![w] = a]
    /\ CASE v = "ANSWERED" -> Go(w, "accept") /\ UNCHANGED code
         [] v = "BLOCKED" -> Go(w, "block") /\ UNCHANGED code
         [] OTHER -> Go(w, "settle") /\ code' = [code EXCEPT ![w] = v]

\* Mutant: a node whose answer was billed is driven again, not replayed.
LookUnreplayed(w, n) ==
    /\ \/ pc[w] = "look" /\ ~HasOwner(n)
       \/ pc[w] = "again" /\ n = Node(w)
    /\ at' = [at EXCEPT ![w] = <<n, 0>>]
    /\ Go(w, "start")
    /\ UNCHANGED <<code, run, rows, guards, answer, pauses, cuts, faults>>

\* node_pass: the ledger is read; an answer owed a verdict is settled, a charge
\* without a body refused, and only then is the node run.
Look(w, n) ==
    /\ \/ pc[w] = "look" /\ ~HasOwner(n)
       \/ pc[w] = "again" /\ n = Node(w)
    /\ IF HasOwner(n) THEN Go(w, "look") /\ UNCHANGED <<at, code>>
       ELSE IF Replayable(n) # {} THEN
         LET a == First(Replayable(n)) IN
         IF status # "RUNNING"
           THEN Refuse(w, "RUN_NOT_RUNNING") /\ UNCHANGED at
           ELSE \E v \in Verdicts(outcome[a]) : Settle(w, a, v)
       ELSE IF Unexplained(n) THEN
         /\ Refuse(w, IF Holds(w) THEN "CALL_OUTCOME_UNEXPLAINED" ELSE "LEASE_NOT_HELD")
         /\ UNCHANGED at
       ELSE Go(w, "start") /\ at' = [at EXCEPT ![w] = <<n, 0>>] /\ UNCHANGED code
    /\ UNCHANGED <<run, rows, guards, answer, pauses, cuts, faults>>

\* finish: every node accepted, by the holder, with no cancel (complete_run).
Complete(w) ==
    /\ pc[w] = "look"
    /\ \A n \in Nodes : HasOwner(n)
    /\ IF Fence(w) = "OK"
         THEN EndRun("COMPLETE") /\ GoIdle(w)
         ELSE /\ IF status = "RUNNING"
                   THEN Refuse(w, Fence(w)) /\ UNCHANGED <<at, answer, pauses, cuts>>
                   ELSE GoIdle(w)
              /\ UNCHANGED run
    /\ UNCHANGED <<rows, guards, faults>>

\* What start_attempt refuses, in the order it asks.
StartRefusal(w, n) ==
    IF Fence(w) # "OK" THEN Fence(w)
    ELSE IF HasOwner(n) THEN "NODE_ALREADY_ACCEPTED"
    ELSE IF Overspent THEN Over
    ELSE IF BillOwed(n) THEN "ATTEMPT_BILL_OWED"
    ELSE IF HeldElsewhere(n) THEN "ATTEMPT_UNSETTLED"
    ELSE IF DropStopOwed(n) THEN "PROVIDER_UNAVAILABLE"
    ELSE IF started[n] = MaxOrdinal THEN "ATTEMPT_LIMIT_REACHED"
    ELSE "OK"

Start(w) ==
    /\ pc[w] = "start"
    /\ LET n == Node(w) IN
       IF StartRefusal(w, n) # "OK"
         THEN Refuse(w, StartRefusal(w, n)) /\ UNCHANGED <<started, at>>
         ELSE /\ started' = [started EXCEPT ![n] = @ + 1]
              /\ at' = [at EXCEPT ![w] = <<n, started[n] + 1>>]
              /\ Go(w, "reserve")
              /\ UNCHANGED code
    /\ UNCHANGED <<run, reserved, outcome, explained, accepted, parked, guards,
                   answer, pauses, cuts, faults>>

\* reserve, under the run lock: the fence again, then what is left of the budget.
Reserve(w) ==
    /\ pc[w] = "reserve"
    /\ IF Fence(w) # "OK" THEN Refuse(w, Fence(w)) /\ UNCHANGED reserved
       ELSE IF Price > Left
         THEN Refuse(w, "BUDGET_CEILING_REACHED") /\ UNCHANGED reserved
       ELSE /\ reserved' = [reserved EXCEPT ![at[w]] = Price]
            /\ Go(w, "hold")
            /\ UNCHANGED code
    /\ UNCHANGED <<run, started, outcome, explained, accepted, parked, guards,
                   at, answer, pauses, cuts, faults>>

\* call_hold, entered before the lease is looked at.
TakeHold(w) ==
    /\ pc[w] = "hold"
    /\ hold' = [hold EXCEPT ![at[w]] = "held"]
    /\ Go(w, "check")
    /\ UNCHANGED <<run, rows, aged, mark, exposed, at, code, answer, pauses, cuts, faults>>

\* Mutant: the call is not fenced at all.
CheckNothing(w) ==
    /\ pc[w] = "check"
    /\ Go(w, "call")
    /\ UNCHANGED <<run, rows, guards, at, code, answer, pauses, cuts, faults>>

\* check_call: a read; what stops a knowingly stale call.  A cancel does not.
Check(w) ==
    /\ pc[w] = "check"
    /\ IF ~Holds(w)
         THEN Refuse(w, "LEASE_NOT_HELD") /\ LetGo(at[w])
         ELSE Go(w, "call") /\ UNCHANGED <<code, hold>>
    /\ UNCHANGED <<run, rows, aged, mark, exposed, at, answer, pauses, cuts, faults>>

\* The provider's call returns.  Its session may have been cut meanwhile.
Call(w, k) ==
    /\ pc[w] = "call"
    /\ answer' = [answer EXCEPT ![w] = k]
    /\ pauses' = [pauses EXCEPT ![w] = BillTries - 1]
    /\ cuts' = [cuts EXCEPT ![w] = BillTries]
    /\ Go(w, IF hold[at[w]] = "held" THEN "mark" ELSE "reconnect")
    /\ UNCHANGED <<run, rows, guards, at, code, faults>>

\* A rate-limited call is asked again only behind the fence (require_resendable);
\* nothing was billed yet.
ResendRefused(w) ==
    /\ pc[w] = "call"
    /\ hold[at[w]] = "held"
    /\ ~Holds(w) \/ cancel
    /\ Refuse(w, IF Holds(w) THEN "RUN_CANCEL_REQUESTED" ELSE "LEASE_NOT_HELD")
    /\ LetGo(at[w])
    /\ UNCHANGED <<run, rows, aged, mark, exposed, at, answer, pauses, cuts, faults>>

-----------------------------------------------------------------------------
(* The bill: retried, across cut sessions, and never fenced.               *)

\* owe_bill, ahead of every try, in a unit of its own.
MarkOwed(w) ==
    /\ pc[w] = "mark"
    /\ mark' = [mark EXCEPT ![at[w]] = "live"]
    /\ Go(w, "write")
    /\ UNCHANGED <<run, rows, hold, aged, exposed, at, code, answer, pauses, cuts, faults>>

\* _mark_owed fails open on a fault that leaves the session.
MarkFails(w) ==
    /\ pc[w] = "mark"
    /\ Fault
    /\ Go(w, "write")
    /\ UNCHANGED <<run, rows, guards, at, code, answer, pauses, cuts>>

\* _record: inserted once, a drop billed after a later attempt without its kind
\* (_counted); the caller's own replay is exact and changes nothing.
Insert(w) ==
    LET a == at[w] IN
    outcome' = [outcome EXCEPT ![a] =
        IF @ # "none" THEN @
        ELSE IF answer[w] = "drop" /\ a[2] < started[a[1]] THEN "unknown"
        ELSE answer[w]]

\* record_outcome lands, bill returns, and call_hold lets go.
Record(w) ==
    /\ pc[w] = "write"
    /\ Insert(w)
    /\ hold' = [hold EXCEPT ![at[w]] = IF @ = "held" THEN "free" ELSE @]
    /\ Go(w, "judge")
    /\ UNCHANGED <<run, started, reserved, explained, accepted, parked, aged, mark,
                   exposed, at, code, answer, pauses, cuts, faults>>

\* A try failed for good, paused for or not, or the bill is abandoned.
FailedTry(w, next) ==
    IF pauses[w] > 0
      THEN /\ pauses' = [pauses EXCEPT ![w] = @ - 1]
           /\ Go(w, next)
           /\ UNCHANGED <<code, cuts>>
      ELSE Refuse(w, "STORE_UNAVAILABLE") /\ UNCHANGED <<pauses, cuts>>

\* A fault of the write that leaves the session; nothing is written.
WriteFails(w) ==
    /\ pc[w] = "write"
    /\ Fault
    /\ FailedTry(w, "mark")
    /\ IF pauses[w] > 0 THEN UNCHANGED hold
       ELSE hold' = [hold EXCEPT ![at[w]] = IF @ = "held" THEN "free" ELSE @]
    /\ UNCHANGED <<run, rows, aged, mark, exposed, at, answer>>

\* The session is cut under the call, the mark or the write; the unit it was in
\* may have committed.  A cut of the write costs no pause while cuts are left.
CutCalling(w) ==
    /\ pc[w] = "call"
    /\ hold[at[w]] = "held"
    /\ Fault
    /\ LoseSession(at[w])
    /\ UNCHANGED <<run, rows, aged, mark, worker>>
    /\ Expose(at[w])

CutBilling(w) ==
    /\ pc[w] \in {"mark", "write"}
    /\ Fault
    /\ LoseSession(at[w])
    /\ IF pc[w] = "mark"
         THEN /\ UNCHANGED outcome
              /\ \/ UNCHANGED mark
                 \/ mark' = [mark EXCEPT ![at[w]] = "live"]
         ELSE UNCHANGED mark /\ (UNCHANGED outcome \/ Insert(w))
    /\ IF cuts[w] > 0
         THEN /\ cuts' = [cuts EXCEPT ![w] = @ - 1]
              /\ Go(w, "reconnect")
              /\ UNCHANGED <<code, pauses>>
         ELSE FailedTry(w, "reconnect")
    /\ UNCHANGED <<run, started, reserved, explained, accepted, parked, aged, at, answer>>
    /\ Expose(at[w])

\* _held_fresh: a new session tries for the hold and writes whether it got it.
Reconnect(w) ==
    /\ pc[w] = "reconnect"
    /\ hold' = [hold EXCEPT ![at[w]] = IF @ = "free" THEN "held" ELSE @]
    /\ Go(w, "mark")
    /\ UNCHANGED <<run, rows, aged, mark, exposed, at, code, answer, pauses, cuts, faults>>

ReconnectFails(w) ==
    /\ pc[w] = "reconnect"
    /\ Fault
    /\ FailedTry(w, "reconnect")
    /\ UNCHANGED <<run, rows, guards, at, answer>>

-----------------------------------------------------------------------------
(* The answer.                                                             *)

\* execute_handoff past its bill: refused outright, or judged while the run is
\* still RUNNING and the node nobody else's (check_attempt).
Judge(w) ==
    /\ pc[w] = "judge"
    /\ LET k == answer[w] IN
       IF OverBilled(k)
         THEN Go(w, "explain") /\ code' = [code EXCEPT ![w] = Over]
       ELSE IF k = "lost" THEN Refuse(w, "STORE_UNAVAILABLE")
       ELSE IF k \in {"drop", "unknown"}
         THEN Go(w, "explain") /\ code' = [code EXCEPT ![w] = "PROVIDER_UNAVAILABLE"]
       ELSE IF status # "RUNNING" THEN Refuse(w, "RUN_NOT_RUNNING")
       ELSE IF HasOwner(Node(w)) /\ ~accepted[at[w]] THEN Refuse(w, "NODE_ALREADY_ACCEPTED")
       ELSE IF k = "weak"
         THEN Go(w, "explain") /\ code' = [code EXCEPT ![w] = "GUIDED"]
       ELSE Go(w, IF k = "blocked" THEN "confirm" ELSE "accept") /\ UNCHANGED code
    /\ UNCHANGED <<run, rows, guards, at, answer, pauses, cuts, faults>>

Write(w) ==
    explained' = [explained EXCEPT ![at[w]] =
        IF @ = "none" /\ outcome[at[w]] # "none" THEN code[w] ELSE @]

\* Mutant: an explanation is written by whoever judged the answer.
ExplainUnfenced(w) ==
    /\ pc[w] \in {"explain", "settle"}
    /\ Write(w)
    /\ Go(w, "refused")
    /\ UNCHANGED <<run, started, reserved, outcome, accepted, parked, guards,
                   at, code, answer, pauses, cuts, faults>>

\* record_refusal: written once, by the holder; not gated on a cancel.
Explain(w) ==
    /\ pc[w] \in {"explain", "settle"}
    /\ IF Holds(w)
         THEN Write(w) /\ Go(w, "refused") /\ UNCHANGED code
         ELSE Refuse(w, "LEASE_NOT_HELD") /\ UNCHANGED explained
    /\ UNCHANGED <<run, started, reserved, outcome, accepted, parked, guards,
                   at, answer, pauses, cuts, faults>>

\* The store cannot take it: _explain_live keeps the refusal, _settle raises.
ExplainFails(w) ==
    /\ pc[w] \in {"explain", "settle"}
    /\ Fault
    /\ Go(w, "refused")
    /\ code' = IF pc[w] = "settle" THEN [code EXCEPT ![w] = "STORE_UNAVAILABLE"] ELSE code
    /\ UNCHANGED <<run, rows, guards, at, answer, pauses, cuts>>

Own(w) == accepted' = [accepted EXCEPT ![at[w]] = TRUE] /\ Go(w, "look") /\ UNCHANGED code

\* accept_attempt, the bill replayed as a no-op: a run that ended accepts nothing
\* and says so to nobody; otherwise the holder's alone, one owner per node.
Accept(w) ==
    /\ pc[w] = "accept"
    /\ IF accepted[at[w]] \/ status # "RUNNING" THEN Go(w, "look") /\ UNCHANGED <<accepted, code>>
       ELSE IF ~Holds(w) THEN Refuse(w, "LEASE_NOT_HELD") /\ UNCHANGED accepted
       ELSE IF HasOwner(Node(w)) THEN Refuse(w, "NODE_ALREADY_ACCEPTED") /\ UNCHANGED accepted
       ELSE Own(w)
    /\ UNCHANGED <<run, started, reserved, outcome, explained, parked, guards,
                   at, answer, pauses, cuts, faults>>

\* _end_blocked trusts no code: the verdict is derived again from the store.
Confirm(w) ==
    /\ pc[w] = "confirm"
    /\ LET owed == Replayable(Node(w)) IN
       IF owed # {} /\ status # "RUNNING" THEN Refuse(w, "RUN_NOT_RUNNING") /\ UNCHANGED at
       ELSE IF owed # {} /\ "BLOCKED" \in Verdicts(outcome[First(owed)])
         THEN \/ Go(w, "block") /\ at' = [at EXCEPT ![w] = First(owed)] /\ UNCHANGED code
              \/ Refuse(w, "HANDOFF_BLOCKED") /\ UNCHANGED at
       ELSE Refuse(w, "HANDOFF_BLOCKED") /\ UNCHANGED at
    /\ UNCHANGED <<run, rows, guards, answer, pauses, cuts, faults>>

\* _block_on: block_run, by the holder, with no cancel; an ended run stays ended.
Block(w) ==
    /\ pc[w] = "block"
    /\ IF Fence(w) = "OK" THEN EndRun("BLOCKED") /\ GoIdle(w)
       ELSE /\ IF status = "RUNNING"
                 THEN Refuse(w, Fence(w)) /\ UNCHANGED <<at, answer, pauses, cuts>>
                 ELSE GoIdle(w)
            /\ UNCHANGED run
    /\ UNCHANGED <<rows, guards, faults>>

-----------------------------------------------------------------------------
(* A pass refused.                                                         *)

\* _again: the ledger, not the frame, gives the node one more pass.
Due(w) ==
    \/ code[w] = "GUIDED" /\ GuidedDue(Node(w))
    \/ code[w] = "PROVIDER_UNAVAILABLE" /\ DropDue(Node(w))

Again(w) ==
    /\ pc[w] = "refused"
    /\ Due(w)
    /\ Go(w, "again")
    /\ UNCHANGED <<run, rows, guards, at, code, answer, pauses, cuts, faults>>

\* stop: parked, its event after every outcome so far; a recorded cancel ends it.
Park(w) ==
    IF cancel
      THEN EndRun("CANCELLED") /\ UNCHANGED parked
      ELSE /\ work' = IF code[w] = Over THEN "STOPPED_OVER" ELSE "STOPPED"
           /\ holder' = NoWorker
           /\ parked' = [a \in Attempts |-> parked[a] \/ outcome[a] # "none"]
           /\ UNCHANGED <<status, cancel>>

\* work_once's _refused: what the refusal's code says of the run it held.
Leave(w) ==
    /\ pc[w] = "refused"
    /\ ~Due(w)
    /\ IF ~Holds(w) \/ code[w] \in {"LEASE_NOT_HELD", "RUN_NOT_RUNNING"}
         THEN UNCHANGED <<run, parked>>
       ELSE IF code[w] = "RUN_CANCEL_REQUESTED" THEN EndRun("CANCELLED") /\ UNCHANGED parked
       ELSE IF code[w] \in Released
         THEN /\ work' = "QUEUED" /\ holder' = NoWorker
              /\ UNCHANGED <<status, cancel, parked>>
       ELSE Park(w)
    /\ GoIdle(w)
    /\ UNCHANGED <<started, reserved, outcome, explained, accepted, guards, faults>>

\* A unit the store refuses: released through _refused, the call's hold let go.
StoreFault(w) ==
    /\ pc[w] \in {"look", "again", "start", "reserve", "hold", "check", "judge",
                  "accept", "confirm", "block"}
    /\ Fault
    /\ Refuse(w, "STORE_UNAVAILABLE")
    /\ IF pc[w] = "check" THEN LoseSession(at[w]) ELSE UNCHANGED hold
    /\ UNCHANGED <<run, rows, aged, mark, exposed, at, answer, pauses, cuts>>

\* The process dies; the claim is left to lapse, the session to the backend.
Crash(w) ==
    /\ pc[w] # "idle"
    /\ Fault
    /\ IF pc[w] \in {"check", "call", "mark", "write"} THEN LoseSession(at[w])
       ELSE UNCHANGED hold
    /\ holder' = IF holder = w THEN NoWorker ELSE holder
    /\ GoIdle(w)
    /\ UNCHANGED <<status, work, cancel, rows, aged, mark, exposed>>

-----------------------------------------------------------------------------
(* The store's clock and its backends.                                     *)

\* A cut session's backend ends, and lets go.
GhostEnds(a) ==
    /\ hold[a] = "ghost"
    /\ LetGo(a)
    /\ UNCHANGED <<run, rows, aged, mark, worker, faults>>
    /\ Expose(a)

\* call_hold_seconds pass; over a call in flight only in a disturbance, since it
\* is longer than the call's own deadline and a lease.
Age(a) ==
    /\ hold[a] # "free" \/ InFlight(a)
    /\ ~aged[a]
    /\ IF InFlight(a) THEN Fault ELSE UNCHANGED faults
    /\ aged' = [aged EXCEPT ![a] = TRUE]
    /\ UNCHANGED <<run, rows, hold, mark, worker>>
    /\ Expose(a)

\* BILL_OWED_SECONDS pass.
MarkLapses(a) ==
    /\ mark[a] = "live"
    /\ IF InFlight(a) THEN Fault ELSE UNCHANGED faults
    /\ mark' = [mark EXCEPT ![a] = "lapsed"]
    /\ UNCHANGED <<run, rows, hold, aged, worker>>
    /\ Expose(a)

-----------------------------------------------------------------------------
\* The steps of a pass that nothing disturbs.
Step(w) ==
    \/ \E n \in Nodes : Look(w, n)
    \/ Complete(w) \/ Start(w) \/ Reserve(w) \/ TakeHold(w) \/ Check(w)
    \/ \E k \in Answers : Call(w, k)
    \/ ResendRefused(w) \/ MarkOwed(w) \/ Record(w) \/ Reconnect(w)
    \/ Judge(w) \/ Explain(w) \/ Accept(w) \/ Confirm(w) \/ Block(w)
    \/ Again(w) \/ Leave(w)

Disturb(w) ==
    \/ MarkFails(w) \/ WriteFails(w) \/ CutCalling(w) \/ CutBilling(w)
    \/ ReconnectFails(w) \/ ExplainFails(w) \/ StoreFault(w) \/ Crash(w)

Next ==
    \/ \E w \in Workers : Claim(w) \/ Step(w) \/ Disturb(w)
    \/ Retry \/ Cancel
    \/ \E a \in Attempts : GhostEnds(a) \/ Age(a) \/ MarkLapses(a)

Spec == Init /\ [][Next]_vars

(* Workers poll, a pass ends (every call has a deadline, every bill its    *)
(* tries), dead backends end and the clock runs.                           *)
Fairness ==
    /\ \A w \in Workers : WF_vars(Claim(w)) /\ WF_vars(Step(w))
    /\ \A a \in Attempts : WF_vars(GhostEnds(a)) /\ WF_vars(MarkLapses(a))

FairSpec == Spec /\ Fairness

-----------------------------------------------------------------------------
(* What the ledger promises.                                               *)

\* F363, N80, N223: while a worker is calling for an attempt or its bill is not in
\* the ledger, and no disturbance left that call uncovered, no later attempt at its node is
\* started, whoever holds the run by then.
CallerAlone ==
    \A w \in Workers :
        /\ pc[w] \in {"call", "mark", "write", "reconnect"}
        /\ outcome[at[w]] = "none"
        /\ ~exposed[at[w]]
        => at[w][2] = started[Node(w)]

\* Invariant 6: a node is paid for again only after the earlier charge was
\* explained, or where its call had been left uncovered.
PaidOnce ==
    \A a, b \in Attempts :
        /\ a[1] = b[1] /\ a[2] < b[2]
        /\ outcome[a] \in Charged /\ outcome[b] \in Charged
        => explained[a] # "none" \/ exposed[a]

\* One answer has one fate and one node one answer: an accepted attempt is billed
\* for an answer and never explained as refused, and it is its node's only one.
OneFate ==
    \A a \in Attempts : accepted[a] =>
        /\ outcome[a] \in Charged \ {"lost"}
        /\ explained[a] = "none"
        /\ \A b \in Attempts : accepted[b] /\ a[1] = b[1] => a = b

\* Invariant 8: what the run has reserved never passes its ceiling, and all it
\* has committed passes it by no more than calls billed over their reservations.
WithinCeiling ==
    Committed <= Ceiling + Price * Cardinality({a \in Attempts : outcome[a] = "over"})

\* D110, F530: between parks a node makes its one automatic re-attempt of a
\* declared drop and no more, whatever crash or late bill comes between.
DropsBounded ==
    \A n \in Nodes :
        Cardinality({a \in Drops(n) : ~parked[a]}) <= DropReattempts + 1

\* A billed answer owed a verdict is settled, or the run is parked or ended.
OwedSettled ==
    \A a \in Attempts :
        outcome[a] \in Charged /\ Unsettled(a) ~>
            ~Unsettled(a) \/ work \in {"STOPPED", "STOPPED_OVER", "DONE"}

\* No hold or mark keeps a claimed or queued run waiting for ever.
NeverStuck == work \in {"QUEUED", "CLAIMED"} ~> work \in {"STOPPED", "STOPPED_OVER", "DONE"}

\* Calls that were paid for are settled, and the run they were made for goes on.
CallsSettle == OwedSettled /\ NeverStuck
-----------------------------------------------------------------------------
(* What it promises of each attempt, whoever makes it.                     *)

\* The attempt a worker has begun, and the one whose answer it is to bill.
Opening == {"reserve", "hold", "check"}
Awaiting == {"call", "mark", "write", "reconnect"}
Opened(a) == \E w \in Workers : at[w] = a /\ pc[w] \in Opening
Out(a) == \E w \in Workers : at[w] = a /\ pc[w] \in Awaiting

FateOf(a) ==
    IF outcome[a] = "none"
      THEN IF a[2] > started[a[1]] THEN "unused"
           ELSE IF Opened(a) THEN "open" ELSE IF Out(a) THEN "out" ELSE "dark"
    ELSE IF outcome[a] \notin Charged THEN "free"
    ELSE IF outcome[a] = "lost" THEN "lost"
    ELSE IF explained[a] # "none" THEN "refused"
    ELSE IF accepted[a] THEN "accepted" ELSE "paid"

Fates == [a \in Attempts |-> FateOf(a)]
Uncovered == {a \in Attempts : exposed[a]}

Promise == INSTANCE LedgerPromise WITH fate <- Fates, loose <- Uncovered

\* Each attempt goes its one way, from its start to its verdict: called for once and
\* billed once, and its node tried again only past what is out, owed or accepted.
KeepsLedger == Promise!Spec
=============================================================================
