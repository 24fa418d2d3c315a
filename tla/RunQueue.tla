------------------------------ MODULE RunQueue ------------------------------
(***************************************************************************)
(* The run work queue of caos/store/work.py, the terminal transitions of   *)
(* caos/store/runs.py that ride on it, the three queue commands of         *)
(* caos/api/commands/execution.py and the outer loop of a worker           *)
(* (caos/graph/worker.py, work_once and what it calls).                    *)
(*                                                                         *)
(* One step is one committed unit: every unit below takes the case and run *)
(* locks (lock_run) before it reads, and claim_run locks the work row it   *)
(* moves, so units on one run serialise.  What a worker does between two   *)
(* fenced units (build a prompt, wait for the provider) is not a step      *)
(* here; it is the time in which other sessions' units interleave.         *)
(***************************************************************************)
EXTENDS Naturals, FiniteSets

CONSTANTS
    Runs,       \* the runs of the store
    Actors,     \* the analysts whose commands queue runs
    Workers,    \* the worker processes
    NoActor,    \* requested_by IS NULL
    NoRun,      \* a worker with no lease in hand
    MaxQueued,  \* MAX_QUEUED_RUNS_PER_ACTOR
    MaxFaults   \* bound: how many disturbances (crashes, lapses, store faults,
                \* refused passes) a behaviour holds

ASSUME RunsFinite == IsFiniteSet(Runs)
ASSUME NoActorFresh == NoActor \notin Actors
ASSUME NoRunFresh == NoRun \notin Runs
ASSUME BoundsNat == MaxQueued \in Nat /\ MaxFaults \in Nat

VARIABLES
    \* the store: runs.status, and the columns of run_work
    status, state, token, live, cancel, overspent, requestedBy, requestedAt,
    clock,      \* the store's clock, advanced by each requested_at it stamps
    ended,      \* how many terminal events the run's stream holds
    thread,     \* whether the run's checkpoint thread has rows
    \* the workers
    pc, lease, code, mine,
    faults      \* disturbances so far, at most MaxFaults

store == <<status, state, token, live, cancel, overspent, requestedBy,
           requestedAt, clock, ended>>
worker == <<pc, lease, code, mine>>
vars == <<store, thread, worker, faults>>

Terminal == {"COMPLETE", "BLOCKED", "CANCELLED"}
WorkStates == {"NONE", "QUEUED", "CLAIMED", "STOPPED", "DONE"}

(* What a pass of a worker can end with, by what _refused does about it.   *)
Lost == {"LEASE_NOT_HELD", "RUN_NOT_RUNNING"}
Released == {"STORE_UNAVAILABLE", "ATTEMPT_UNSETTLED", "ATTEMPT_BILL_OWED"}
Parking == {"BUDGET_CHARGE_OVER_RESERVATION", "OTHER_REFUSAL"}
Interrupts == {"STOPPING", "STORE_ERROR"}
Codes == Lost \cup Released \cup Parking \cup Interrupts
         \cup {"RUN_CANCEL_REQUESTED"}

NoLease == [run |-> NoRun, token |-> 0]
Leases == [run : Runs \cup {NoRun}, token : Nat]

TypeOK ==
    /\ status \in [Runs -> {"RUNNING"} \cup Terminal]
    /\ state \in [Runs -> WorkStates]
    /\ token \in [Runs -> Nat]
    /\ live \in [Runs -> BOOLEAN]
    /\ cancel \in [Runs -> BOOLEAN]
    /\ overspent \in [Runs -> BOOLEAN]
    /\ requestedBy \in [Runs -> Actors \cup {NoActor}]
    /\ requestedAt \in [Runs -> Nat]
    /\ clock \in Nat
    /\ ended \in [Runs -> Nat]
    /\ thread \in [Runs -> BOOLEAN]
    /\ pc \in [Workers -> {"idle", "drive", "ended", "refused", "forget"}]
    /\ lease \in [Workers -> Leases]
    /\ code \in [Workers -> Codes]
    /\ mine \in [Workers -> BOOLEAN]
    /\ faults \in Nat
    /\ \A w \in Workers : pc[w] # "idle" => lease[w].run \in Runs

Init ==
    /\ status = [r \in Runs |-> "RUNNING"]
    /\ state = [r \in Runs |-> "NONE"]
    /\ token = [r \in Runs |-> 0]
    /\ live = [r \in Runs |-> FALSE]
    /\ cancel = [r \in Runs |-> FALSE]
    /\ overspent = [r \in Runs |-> FALSE]
    /\ requestedBy = [r \in Runs |-> NoActor]
    /\ requestedAt = [r \in Runs |-> 0]
    /\ clock = 0
    /\ ended = [r \in Runs |-> 0]
    /\ thread = [r \in Runs |-> FALSE]
    /\ pc = [w \in Workers |-> "idle"]
    /\ lease = [w \in Workers |-> NoLease]
    /\ code = [w \in Workers |-> "OTHER_REFUSAL"]
    /\ mine = [w \in Workers |-> FALSE]
    /\ faults = 0

-----------------------------------------------------------------------------
(* What the units share.                                                   *)

\* The runs that hold a place of this actor's.
PlacesOf(a) == {r \in Runs : requestedBy[r] = a /\ state[r] \in {"QUEUED", "CLAIMED"}}

\* The cap, counted under the actor's advisory lock; no actor holds no place.
HasPlace(a) == a = NoActor \/ Cardinality(PlacesOf(a)) < MaxQueued

\* require_lease's predicate: the row is CLAIMED under the caller's token.
Holds(w) ==
    LET r == lease[w].run IN
    /\ r \in Runs
    /\ state[r] = "CLAIMED"
    /\ token[r] = lease[w].token

Fault == faults < MaxFaults /\ faults' = faults + 1

\* Mutant: the stamp is taken one tick early.
StampEarly(r) ==
    /\ requestedAt' = [requestedAt EXCEPT ![r] = clock - 1]
    /\ clock' = clock + 1

\* requested_at = now()
Stamp(r) ==
    /\ requestedAt' = [requestedAt EXCEPT ![r] = clock]
    /\ clock' = clock + 1

\* Mutant: the terminal move leaves the work row open.
EndRunRowOpen(r, into) ==
    /\ status' = [status EXCEPT ![r] = into]
    /\ ended' = [ended EXCEPT ![r] = @ + 1]
    /\ UNCHANGED <<state, live, overspent>>

\* mark_work_done, and the run event beside the status move it belongs to.
EndRun(r, into) ==
    /\ status' = [status EXCEPT ![r] = into]
    /\ ended' = [ended EXCEPT ![r] = @ + 1]
    /\ state' = [state EXCEPT ![r] = IF @ = "NONE" THEN @ ELSE "DONE"]
    /\ live' = [live EXCEPT ![r] = FALSE]
    /\ overspent' = [overspent EXCEPT ![r] = FALSE]

-----------------------------------------------------------------------------
(* The commands.                                                           *)

\* START_RUN: enqueue_run, refused for a run with a work row or a full actor.
StartRun(a, r) ==
    /\ status[r] = "RUNNING"
    /\ state[r] = "NONE"
    /\ HasPlace(a)
    /\ state' = [state EXCEPT ![r] = "QUEUED"]
    /\ requestedBy' = [requestedBy EXCEPT ![r] = a]
    /\ Stamp(r)
    /\ UNCHANGED <<status, token, live, cancel, overspent, ended,
                   thread, worker, faults>>

\* Mutant: a retry takes its place without counting the actor's others.
RetryUncounted(a, r) ==
    /\ status[r] = "RUNNING"
    /\ state[r] = "STOPPED"
    /\ ~overspent[r]
    /\ ~cancel[r]
    /\ state' = [state EXCEPT ![r] = "QUEUED"]
    /\ requestedBy' = [requestedBy EXCEPT ![r] = a]
    /\ Stamp(r)
    /\ UNCHANGED <<status, token, live, cancel, overspent, ended,
                   thread, worker, faults>>

\* RETRY_RUN: requeue_run, never a run parked over its reservation.
RetryRun(a, r) ==
    /\ status[r] = "RUNNING"
    /\ state[r] = "STOPPED"
    /\ ~overspent[r]
    /\ ~cancel[r]
    /\ HasPlace(a)
    /\ state' = [state EXCEPT ![r] = "QUEUED"]
    /\ requestedBy' = [requestedBy EXCEPT ![r] = a]
    /\ Stamp(r)
    /\ UNCHANGED <<status, token, live, cancel, overspent, ended,
                   thread, worker, faults>>

\* The claim nobody drives any more: queued, stopped, or its lease lapsed.
Unheld(r) == state[r] \in {"NONE", "QUEUED", "STOPPED"} \/ (state[r] = "CLAIMED" /\ ~live[r])

\* CANCEL_RUN: a run never queued is queued for nobody first (enqueue_run), and
\* request_cancel then ends it here if no live lease drives it.  _forget_threads
\* drops the thread of a run that was ever claimed.
CancelRun(r) ==
    /\ status[r] = "RUNNING"
    /\ state[r] # "DONE"
    /\ ~cancel[r] \/ Unheld(r)
    /\ cancel' = [cancel EXCEPT ![r] = TRUE]
    /\ IF Unheld(r)
         THEN /\ status' = [status EXCEPT ![r] = "CANCELLED"]
              /\ ended' = [ended EXCEPT ![r] = @ + 1]
              /\ state' = [state EXCEPT ![r] = "DONE"]
              /\ live' = [live EXCEPT ![r] = FALSE]
              /\ overspent' = [overspent EXCEPT ![r] = FALSE]
              /\ thread' = IF token[r] > 0 THEN [thread EXCEPT ![r] = FALSE] ELSE thread
         ELSE UNCHANGED <<status, ended, state, live, overspent, thread>>
    /\ IF state[r] = "NONE" THEN Stamp(r) ELSE UNCHANGED <<requestedAt, clock>>
    /\ UNCHANGED <<token, requestedBy, worker, faults>>

\* A direct caller (lease None) may end only a run that was never enqueued.
DirectEnd(r, into) ==
    /\ status[r] = "RUNNING"
    /\ state[r] = "NONE"
    /\ EndRun(r, into)
    /\ UNCHANGED <<token, cancel, requestedBy, requestedAt, clock,
                   thread, worker, faults>>

-----------------------------------------------------------------------------
(* The clock.  A lease lapses after LEASE_SECONDS without a renewal: with  *)
(* nobody left to renew it, or under a holder that is slow (a disturbance).*)
HasHolder(r) == \E w \in Workers : Holds(w) /\ lease[w].run = r

Lapse(r) ==
    /\ state[r] = "CLAIMED"
    /\ live[r]
    /\ live' = [live EXCEPT ![r] = FALSE]
    /\ UNCHANGED <<status, state, token, cancel, overspent, requestedBy,
                   requestedAt, clock, ended, thread, worker>>

Expire(r) == Lapse(r) /\ ~HasHolder(r) /\ UNCHANGED faults

Outlive(r) == Lapse(r) /\ HasHolder(r) /\ Fault

-----------------------------------------------------------------------------
(* A worker.                                                               *)

\* Mutant: a lapsed claim is never reclaimed.
ClaimableQueued(r) == state[r] = "QUEUED"

Claimable(r) == state[r] = "QUEUED" \/ (state[r] = "CLAIMED" /\ ~live[r])

\* Mutant: a reclaim keeps the lapsed holder's token.
ClaimSameToken(w) ==
    /\ pc[w] = "idle"
    /\ \E r \in Runs :
        /\ Claimable(r)
        /\ \A x \in Runs : Claimable(x) => requestedAt[r] <= requestedAt[x]
        /\ state' = [state EXCEPT ![r] = "CLAIMED"]
        /\ live' = [live EXCEPT ![r] = TRUE]
        /\ overspent' = [overspent EXCEPT ![r] = FALSE]
        /\ lease' = [lease EXCEPT ![w] = [run |-> r, token |-> token[r]]]
    /\ pc' = [pc EXCEPT ![w] = "drive"]
    /\ UNCHANGED <<status, token, cancel, requestedBy, requestedAt, clock,
                   ended, thread, code, mine, faults>>

\* claim_run: the oldest claimable run, under the next token.
Claim(w) ==
    /\ pc[w] = "idle"
    /\ \E r \in Runs :
        /\ Claimable(r)
        /\ \A x \in Runs : Claimable(x) => requestedAt[r] <= requestedAt[x]
        /\ state' = [state EXCEPT ![r] = "CLAIMED"]
        /\ token' = [token EXCEPT ![r] = @ + 1]
        /\ live' = [live EXCEPT ![r] = TRUE]
        /\ overspent' = [overspent EXCEPT ![r] = FALSE]
        /\ lease' = [lease EXCEPT ![w] = [run |-> r, token |-> token[r] + 1]]
    /\ pc' = [pc EXCEPT ![w] = "drive"]
    /\ UNCHANGED <<status, cancel, requestedBy, requestedAt, clock, ended,
                   thread, code, mine, faults>>

\* LangGraph writes the run's position: no fence, whoever holds the run.
Checkpoint(w) ==
    /\ pc[w] = "drive"
    /\ thread' = [thread EXCEPT ![lease[w].run] = TRUE]
    /\ UNCHANGED <<store, worker, faults>>

\* A fenced write that passes require_lease renews the lease.
Renew(w) ==
    /\ pc[w] = "drive"
    /\ Holds(w)
    /\ status[lease[w].run] = "RUNNING"
    /\ live' = [live EXCEPT ![lease[w].run] = TRUE]
    /\ UNCHANGED <<status, state, token, cancel, overspent, requestedBy,
                   requestedAt, clock, ended, thread, worker, faults>>

\* Mutant: a cancel that landed during the last call is not looked at.
EndHeldCancelled(w, into) ==
    /\ pc[w] = "drive"
    /\ into \in {"COMPLETE", "BLOCKED"}
    /\ status[lease[w].run] = "RUNNING"
    /\ Holds(w)
    /\ EndRun(lease[w].run, into)
    /\ pc' = [pc EXCEPT ![w] = "ended"]
    /\ UNCHANGED <<token, cancel, requestedBy, requestedAt, clock,
                   thread, lease, code, mine, faults>>

\* complete_run and block_run (_transition): by the holder, with no cancel.
EndHeld(w, into) ==
    /\ pc[w] = "drive"
    /\ into \in {"COMPLETE", "BLOCKED"}
    /\ status[lease[w].run] = "RUNNING"
    /\ Holds(w)
    /\ ~cancel[lease[w].run]
    /\ EndRun(lease[w].run, into)
    /\ pc' = [pc EXCEPT ![w] = "ended"]
    /\ UNCHANGED <<token, cancel, requestedBy, requestedAt, clock,
                   thread, lease, code, mine, faults>>

\* _transition on a run already ended answers False; the graph ends with the
\* status that is there (_terminal_word).
FindEnded(w) ==
    /\ pc[w] = "drive"
    /\ status[lease[w].run] # "RUNNING"
    /\ pc' = [pc EXCEPT ![w] = "ended"]
    /\ UNCHANGED <<store, thread, lease, code, mine, faults>>

GoForget(w, m) ==
    /\ pc' = [pc EXCEPT ![w] = "forget"]
    /\ mine' = [mine EXCEPT ![w] = m]
    /\ UNCHANGED <<lease, code>>

\* work_once returns or raises: its locals are gone.
GoIdle(w) ==
    /\ pc' = [pc EXCEPT ![w] = "idle"]
    /\ lease' = [lease EXCEPT ![w] = NoLease]
    /\ code' = [code EXCEPT ![w] = "OTHER_REFUSAL"]
    /\ mine' = [mine EXCEPT ![w] = FALSE]

\* run_route drops the thread of a graph that reached its end.
DropEnded(w) ==
    /\ pc[w] = "ended"
    /\ thread' = [thread EXCEPT ![lease[w].run] = FALSE]
    /\ GoIdle(w)
    /\ UNCHANGED <<store, faults>>

(* The pass is refused.  The fence refuses what it refuses; the rest comes *)
(* from the node's own work and is a disturbance.                          *)
RefuseFenced(w) ==
    /\ pc[w] = "drive"
    /\ LET r == lease[w].run IN
       \/ status[r] # "RUNNING" /\ code' = [code EXCEPT ![w] = "RUN_NOT_RUNNING"]
       \/ status[r] = "RUNNING" /\ ~Holds(w)
            /\ code' = [code EXCEPT ![w] = "LEASE_NOT_HELD"]
       \/ status[r] = "RUNNING" /\ Holds(w) /\ cancel[r]
            /\ code' = [code EXCEPT ![w] = "RUN_CANCEL_REQUESTED"]
    /\ pc' = [pc EXCEPT ![w] = "refused"]
    /\ UNCHANGED <<store, thread, lease, mine, faults>>

\* start_attempt refuses an unsettled node only past require_running.
RefusePass(w, c) ==
    /\ pc[w] = "drive"
    /\ c \in Released \cup Parking \cup Interrupts
    /\ c \in {"ATTEMPT_UNSETTLED", "ATTEMPT_BILL_OWED"} =>
         /\ status[lease[w].run] = "RUNNING"
         /\ Holds(w)
         /\ ~cancel[lease[w].run]
    /\ Fault
    /\ code' = [code EXCEPT ![w] = c]
    /\ pc' = [pc EXCEPT ![w] = "refused"]
    /\ UNCHANGED <<store, thread, lease, mine>>

\* _refused: another holder or a terminal run owns it.
SettleLost(w) ==
    /\ pc[w] = "refused"
    /\ code[w] \in Lost
    /\ GoForget(w, FALSE)
    /\ UNCHANGED <<store, thread, faults>>

\* Mutant: cancel_run trusts the refusal and does not look at the run again.
SettleCancelTrusting(w) ==
    /\ pc[w] = "refused"
    /\ code[w] = "RUN_CANCEL_REQUESTED"
    /\ EndRun(lease[w].run, "CANCELLED")
    /\ GoForget(w, TRUE)
    /\ UNCHANGED <<token, cancel, requestedBy, requestedAt, clock,
                   thread, faults>>

\* _refused: the holder ends the run it was asked to cancel (cancel_run).
SettleCancel(w) ==
    /\ pc[w] = "refused"
    /\ code[w] = "RUN_CANCEL_REQUESTED"
    /\ LET r == lease[w].run
           ends == status[r] = "RUNNING" /\ Holds(w) IN
       /\ IF ends
            THEN EndRun(r, "CANCELLED")
            ELSE UNCHANGED <<status, ended, state, live, overspent>>
       /\ GoForget(w, ends)
    /\ UNCHANGED <<token, cancel, requestedBy, requestedAt, clock,
                   thread, faults>>

\* Mutant: release does not match the token.
ReleaseAnyToken(w, behind) ==
    LET r == lease[w].run IN
    IF state[r] = "CLAIMED"
      THEN /\ state' = [state EXCEPT ![r] = "QUEUED"]
           /\ live' = [live EXCEPT ![r] = FALSE]
           /\ IF behind THEN Stamp(r) ELSE UNCHANGED <<requestedAt, clock>>
      ELSE UNCHANGED <<state, live, requestedAt, clock>>

\* release: back to the queue, at its old place unless it goes behind.
Release(w, behind) ==
    LET r == lease[w].run IN
    IF Holds(w)
      THEN /\ state' = [state EXCEPT ![r] = "QUEUED"]
           /\ live' = [live EXCEPT ![r] = FALSE]
           /\ IF behind THEN Stamp(r) ELSE UNCHANGED <<requestedAt, clock>>
      ELSE UNCHANGED <<state, live, requestedAt, clock>>

\* _refused on RELEASED: released, then raised past _forget.
SettleReleased(w) ==
    /\ pc[w] = "refused"
    /\ code[w] \in Released
    /\ Release(w, code[w] = "ATTEMPT_UNSETTLED")
    /\ GoIdle(w)
    /\ UNCHANGED <<status, token, cancel, overspent, requestedBy, ended,
                   thread, faults>>

\* _released: a stop between nodes, or a store error that is no refusal, gives
\* the claim back and may forget.
SettleStopping(w) ==
    /\ pc[w] = "refused"
    /\ code[w] \in Interrupts
    /\ Release(w, FALSE)
    /\ GoForget(w, FALSE)
    /\ UNCHANGED <<status, token, cancel, overspent, requestedBy, ended,
                   thread, faults>>

\* Mutant: a park does not look at the recorded cancel.
SettleStopAlways(w) ==
    /\ pc[w] = "refused"
    /\ code[w] \in Parking
    /\ LET r == lease[w].run IN
       /\ IF ~Holds(w)
            THEN UNCHANGED <<state, live, overspent>>
            ELSE /\ state' = [state EXCEPT ![r] = "STOPPED"]
                 /\ live' = [live EXCEPT ![r] = FALSE]
                 /\ overspent' = [overspent EXCEPT ![r] =
                                    code[w] = "BUDGET_CHARGE_OVER_RESERVATION"]
       /\ GoForget(w, Holds(w))
    /\ UNCHANGED <<status, ended, token, cancel, requestedBy, requestedAt,
                   clock, thread, faults>>

\* stop: parks the held run, or ends it if its cancel was recorded meanwhile.
SettleStop(w) ==
    /\ pc[w] = "refused"
    /\ code[w] \in Parking
    /\ LET r == lease[w].run IN
       /\ IF ~Holds(w)
            THEN UNCHANGED <<status, ended, state, live, overspent>>
            ELSE IF status[r] = "RUNNING" /\ cancel[r]
            THEN EndRun(r, "CANCELLED")
            ELSE /\ state' = [state EXCEPT ![r] = "STOPPED"]
                 /\ live' = [live EXCEPT ![r] = FALSE]
                 /\ overspent' = [overspent EXCEPT ![r] =
                                    code[w] = "BUDGET_CHARGE_OVER_RESERVATION"]
                 /\ UNCHANGED <<status, ended>>
       /\ GoForget(w, Holds(w))
    /\ UNCHANGED <<token, cancel, requestedBy, requestedAt, clock, thread, faults>>

\* _settle on a store that cannot take the write: the lease is left to expire.
\* A cancel_run the store failed is released if it can be, and raised as well.
SettleFault(w) ==
    /\ pc[w] = "refused"
    /\ Fault
    /\ IF code[w] \in Released \cup {"RUN_CANCEL_REQUESTED"}
         THEN GoIdle(w)
         ELSE GoForget(w, FALSE)
    /\ \/ UNCHANGED store
       \/ /\ code[w] = "RUN_CANCEL_REQUESTED"
          /\ Release(w, FALSE)
          /\ UNCHANGED <<status, token, cancel, overspent, requestedBy, ended>>
    /\ UNCHANGED thread

\* _forget: what this worker moved, or a run that is terminal on a fresh read.
Forget(w) ==
    /\ pc[w] = "forget"
    /\ thread' = [thread EXCEPT ![lease[w].run] =
                    @ /\ ~mine[w] /\ status[lease[w].run] = "RUNNING"]
    /\ GoIdle(w)
    /\ UNCHANGED <<store, faults>>

\* The process dies, or a delete it makes best effort fails.
Crash(w) ==
    /\ pc[w] # "idle"
    /\ Fault
    /\ GoIdle(w)
    /\ UNCHANGED <<store, thread>>

-----------------------------------------------------------------------------
Settle(w) == SettleLost(w) \/ SettleCancel(w) \/ SettleReleased(w)
             \/ SettleStopping(w) \/ SettleStop(w)

\* The steps by which a pass ends once nothing disturbs it.
Finish(w) ==
    \/ \E into \in {"COMPLETE", "BLOCKED"} : EndHeld(w, into)
    \/ FindEnded(w) \/ RefuseFenced(w)

\* A pass that is disturbed by nothing but refusals.
Pass(w) ==
    \/ Claim(w) \/ Checkpoint(w) \/ Renew(w) \/ Finish(w) \/ DropEnded(w)
    \/ \E c \in Codes : RefusePass(w, c)
    \/ Settle(w) \/ Forget(w)

WorkerNext(w) == Pass(w) \/ SettleFault(w) \/ Crash(w)

CommandNext ==
    \E r \in Runs :
        \/ \E a \in Actors : StartRun(a, r) \/ RetryRun(a, r)
        \/ CancelRun(r)
        \/ \E into \in Terminal : DirectEnd(r, into)

ClockNext == \E r \in Runs : Expire(r) \/ Outlive(r)

Next == CommandNext \/ ClockNext \/ (\E w \in Workers : WorkerNext(w))

Spec == Init /\ [][Next]_vars

(* A worker polls, its pass ends (every call has a deadline, every store   *)
(* statement a timeout, a route finitely many nodes and attempts), and the *)
(* clock runs.  The commands are nobody's duty.                            *)
Fairness ==
    /\ \A w \in Workers :
        /\ WF_vars(Claim(w)) /\ WF_vars(Finish(w)) /\ WF_vars(DropEnded(w))
        /\ WF_vars(Settle(w)) /\ WF_vars(Forget(w))
    /\ \A r \in Runs : WF_vars(Expire(r))

FairSpec == Spec /\ Fairness

-----------------------------------------------------------------------------
(* What the queue promises.                                                *)

\* One claim per run: a lapsed claim taken by a second worker leaves the first
\* with a token no row matches (require_lease), however late it writes.
OneHolder ==
    \A w, x \in Workers :
        Holds(w) /\ Holds(x) /\ lease[w].run = lease[x].run => w = x

\* runs.status and run_work.state move in one unit: a RUNNING run's work row is
\* never closed, and an ended run's row is closed or was never made.
RowMatchesStatus ==
    \A r \in Runs :
        state[r] \in IF status[r] = "RUNNING" THEN WorkStates \ {"DONE"} ELSE {"NONE", "DONE"}

\* _transition's rule: a terminal run has exactly one terminal event, whichever
\* of the holder, the cancel command and the park raced to end it.
EndedOnce == \A r \in Runs : ended[r] = (IF status[r] = "RUNNING" THEN 0 ELSE 1)

\* MAX-04: a run with an acknowledged cancel is never parked, where requeue_run
\* would refuse it and nothing would be left to end it, and it is never left with
\* no work row.
CancelNeverParked ==
    \A r \in Runs : cancel[r] => state[r] \in {"QUEUED", "CLAIMED", "DONE"}

\* N15: no interleaving of starts, retries, claims, releases and parks has one
\* actor hold more places than the cap.
PlacesWithinCap == \A a \in Actors : Cardinality(PlacesOf(a)) <= MaxQueued

\* A claim whose lease is live leaves CLAIMED only by a step of its holder: not
\* by a command, not by a stale worker's release, park or terminal write.
LiveClaimIsHolders ==
    [][\A r \in Runs :
         state[r] = "CLAIMED" /\ live[r] /\ state'[r] # "CLAIMED" =>
           \E w \in Workers :
             Holds(w) /\ lease[w].run = r /\ pc'[w] # pc[w]]_vars

\* AR-13, ST-6: once its cancel is recorded a run ends CANCELLED or not at all.
CancelWins ==
    [][\A r \in Runs : cancel[r] /\ status[r] = "RUNNING" =>
         status'[r] \in {"RUNNING", "CANCELLED"}]_vars

\* F262, N1: the checkpoint rows of an ended run are some worker's to forget, or
\* gone; a straggler written after a cancel forgot the thread included.
StragglerForgotten ==
    \A r \in Runs : status[r] # "RUNNING" /\ thread[r] =>
        \E w \in Workers : pc[w] # "idle" /\ lease[w].run = r

\* A recorded cancel ends the run, though its holder crash or its lease lapse.
CancelEnds == \A r \in Runs : cancel[r] ~> status[r] # "RUNNING"

\* A queued or claimed run is driven to its end or to a park a person can see:
\* it is not lost with a dead holder nor left behind in the queue.
NothingStranded ==
    \A r \in Runs : state[r] \in {"QUEUED", "CLAIMED"} ~> state[r] \in {"STOPPED", "DONE"}

\* What the queue owes: whatever is asked of it comes to an end.
QueueMoves == CancelEnds /\ NothingStranded

\* The workers whose writes a run takes, and the runs handed to the queue.
Owners == [r \in Runs |-> {w \in Workers : Holds(w) /\ lease[w].run = r}]
Queued == [r \in Runs |-> state[r] # "NONE"]

Promise == INSTANCE RunPromise WITH asked <- cancel, queued <- Queued, owner <- Owners

\* Every unit of the store, however workers lapse, crash and race, is a step
\* RunPromise allows or changes nothing it sees.
KeepsPromise == Promise!Spec
=============================================================================
