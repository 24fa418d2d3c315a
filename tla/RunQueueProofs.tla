--------------------------- MODULE RunQueueProofs ---------------------------
(***************************************************************************)
(* The run queue's safety, for every set of runs, actors and workers, every*)
(* cap and every number of disturbances.                                   *)
(***************************************************************************)
EXTENDS RunQueue, FiniteSetTheorems, TLAPS

-----------------------------------------------------------------------------
(* The shape of a step.                                                    *)

\* Next, flattened to one disjunct per action.
LEMMA NextCases ==
    ASSUME Next
    PROVE  \/ \E r \in Runs, a \in Actors : StartRun(a, r)
           \/ \E r \in Runs, a \in Actors : RetryRun(a, r)
           \/ \E r \in Runs : CancelRun(r)
           \/ \E r \in Runs, into \in Terminal : DirectEnd(r, into)
           \/ \E r \in Runs : Lapse(r) /\ faults' \in {faults, faults + 1}
           \/ \E w \in Workers : Claim(w)
           \/ \E w \in Workers : Checkpoint(w)
           \/ \E w \in Workers : Renew(w)
           \/ \E w \in Workers, into \in {"COMPLETE", "BLOCKED"} : EndHeld(w, into)
           \/ \E w \in Workers : FindEnded(w)
           \/ \E w \in Workers : DropEnded(w)
           \/ \E w \in Workers : RefuseFenced(w)
           \/ \E w \in Workers, c \in Codes : RefusePass(w, c)
           \/ \E w \in Workers : SettleLost(w)
           \/ \E w \in Workers : SettleCancel(w)
           \/ \E w \in Workers : SettleReleased(w)
           \/ \E w \in Workers : SettleStopping(w)
           \/ \E w \in Workers : SettleStop(w)
           \/ \E w \in Workers : SettleFault(w)
           \/ \E w \in Workers : Forget(w)
           \/ \E w \in Workers : Crash(w)
<1>1. CASE CommandNext
    BY <1>1, Zenon DEF CommandNext
<1>2. CASE ClockNext
    <2> PICK r \in Runs : Expire(r) \/ Outlive(r)
        BY <1>2 DEF ClockNext
    <2> Lapse(r) /\ faults' \in {faults, faults + 1}
        BY DEF Expire, Outlive, Fault
    <2> QED
        BY Zenon
<1>3. CASE \E w \in Workers : WorkerNext(w)
    BY <1>3, Zenon DEF WorkerNext, Pass, Finish, Settle
<1> QED
    BY <1>1, <1>2, <1>3 DEF Next

-----------------------------------------------------------------------------
(* What the units the actions share do to the types.                       *)

LEMMA TypeEndRun ==
    ASSUME TypeOK, NEW r \in Runs, NEW into \in Terminal, EndRun(r, into)
    PROVE  /\ status' \in [Runs -> {"RUNNING"} \cup Terminal]
           /\ state' \in [Runs -> WorkStates]
           /\ live' \in [Runs -> BOOLEAN]
           /\ overspent' \in [Runs -> BOOLEAN]
           /\ ended' \in [Runs -> Nat]
    BY DEF TypeOK, EndRun, WorkStates

LEMMA TypeRelease ==
    ASSUME TypeOK, NEW w \in Workers, pc[w] # "idle", NEW behind \in BOOLEAN,
           Release(w, behind)
    PROVE  /\ state' \in [Runs -> WorkStates]
           /\ live' \in [Runs -> BOOLEAN]
           /\ requestedAt' \in [Runs -> Nat]
           /\ clock' \in Nat
<1>1. CASE Holds(w) /\ behind
    <2>1. /\ state' = [state EXCEPT ![lease[w].run] = "QUEUED"]
          /\ live' = [live EXCEPT ![lease[w].run] = FALSE]
          /\ Stamp(lease[w].run)
        BY <1>1, Zenon DEF Release
    <2> QED
        BY <2>1 DEF TypeOK, Stamp, WorkStates
<1>2. CASE Holds(w) /\ ~behind
    <2>1. /\ state' = [state EXCEPT ![lease[w].run] = "QUEUED"]
          /\ live' = [live EXCEPT ![lease[w].run] = FALSE]
          /\ UNCHANGED <<requestedAt, clock>>
        BY <1>2, Zenon DEF Release
    <2> QED
        BY <2>1 DEF TypeOK, WorkStates
<1>3. CASE ~Holds(w)
    BY <1>3 DEF TypeOK, Release
<1> QED
    BY <1>1, <1>2, <1>3

WorkerTyped ==
    /\ pc \in [Workers -> {"idle", "drive", "ended", "refused", "forget"}]
    /\ lease \in [Workers -> Leases]
    /\ code \in [Workers -> Codes]
    /\ mine \in [Workers -> BOOLEAN]
    /\ \A w \in Workers : pc[w] # "idle" => lease[w].run \in Runs

LEMMA TypeGoIdle ==
    ASSUME TypeOK, NEW w \in Workers, GoIdle(w)
    PROVE  WorkerTyped'
    BY DEF TypeOK, WorkerTyped, GoIdle, NoLease, Leases, Codes, Parking

LEMMA TypeGoForget ==
    ASSUME TypeOK, NEW w \in Workers, pc[w] # "idle", NEW m \in BOOLEAN, GoForget(w, m)
    PROVE  WorkerTyped'
    BY DEF TypeOK, WorkerTyped, GoForget

-----------------------------------------------------------------------------
(* Type correctness.                                                       *)

LEMMA TypeInit == Init => TypeOK
    BY BoundsNat DEF Init, TypeOK, Leases, NoLease, Terminal, WorkStates, Codes,
       Lost, Released, Parking, Interrupts

LEMMA TypeStep == TypeOK /\ [Next]_vars => TypeOK'
<1> SUFFICES ASSUME TypeOK, [Next]_vars PROVE TypeOK'
    OBVIOUS
<1>1. ASSUME NEW r \in Runs, NEW a \in Actors, StartRun(a, r) PROVE TypeOK'
    BY <1>1 DEF StartRun, TypeOK, Stamp, worker, WorkStates
<1>2. ASSUME NEW r \in Runs, NEW a \in Actors, RetryRun(a, r) PROVE TypeOK'
    BY <1>2 DEF RetryRun, TypeOK, Stamp, worker, WorkStates
<1>3. ASSUME NEW r \in Runs, CancelRun(r) PROVE TypeOK'
    <2> USE <1>3 DEF CancelRun, TypeOK, Stamp
    <2>1. status' \in [Runs -> {"RUNNING"} \cup Terminal]
        BY DEF Terminal
    <2>2. state' \in [Runs -> WorkStates]
        BY DEF WorkStates
    <2>3. live' \in [Runs -> BOOLEAN] /\ cancel' \in [Runs -> BOOLEAN]
        OBVIOUS
    <2>4. overspent' \in [Runs -> BOOLEAN] /\ thread' \in [Runs -> BOOLEAN]
        OBVIOUS
    <2>5. requestedAt' \in [Runs -> Nat] /\ clock' \in Nat
        OBVIOUS
    <2>6. ended' \in [Runs -> Nat]
        OBVIOUS
    <2> QED
        BY <2>1, <2>2, <2>3, <2>4, <2>5, <2>6 DEF worker
<1>4. ASSUME NEW r \in Runs, NEW into \in Terminal, DirectEnd(r, into) PROVE TypeOK'
    <2>1. EndRun(r, into)
        BY <1>4 DEF DirectEnd
    <2> QED
        BY <1>4, <2>1, TypeEndRun DEF DirectEnd, TypeOK, worker
<1>5. ASSUME NEW r \in Runs, Lapse(r), faults' \in {faults, faults + 1} PROVE TypeOK'
    BY <1>5 DEF Lapse, TypeOK, worker
<1>6. ASSUME NEW w \in Workers, Claim(w) PROVE TypeOK'
    BY <1>6 DEF Claim, TypeOK, Leases, WorkStates
<1>7. ASSUME NEW w \in Workers, Checkpoint(w) PROVE TypeOK'
    BY <1>7 DEF Checkpoint, TypeOK, store, worker
<1>8. ASSUME NEW w \in Workers, Renew(w) PROVE TypeOK'
    BY <1>8 DEF Renew, TypeOK, worker
<1>9. ASSUME NEW w \in Workers, NEW into \in {"COMPLETE", "BLOCKED"}, EndHeld(w, into)
      PROVE  TypeOK'
    <2>1. EndRun(lease[w].run, into) /\ lease[w].run \in Runs /\ into \in Terminal
        BY <1>9 DEF EndHeld, Holds, Terminal
    <2> QED
        BY <1>9, <2>1, TypeEndRun DEF EndHeld, TypeOK
<1>10. ASSUME NEW w \in Workers, FindEnded(w) PROVE TypeOK'
    BY <1>10 DEF FindEnded, TypeOK, store
<1>11. ASSUME NEW w \in Workers, DropEnded(w) PROVE TypeOK'
    BY <1>11, TypeGoIdle DEF DropEnded, TypeOK, WorkerTyped, store
<1>12. ASSUME NEW w \in Workers, RefuseFenced(w) PROVE TypeOK'
    <2>1. code' \in [Workers -> Codes]
        BY <1>12 DEF RefuseFenced, TypeOK, Codes, Lost
    <2> QED
        BY <1>12, <2>1 DEF RefuseFenced, TypeOK, store
<1>13. ASSUME NEW w \in Workers, NEW c \in Codes, RefusePass(w, c) PROVE TypeOK'
    BY <1>13 DEF RefusePass, TypeOK, Fault, store
<1>14. ASSUME NEW w \in Workers, SettleLost(w) PROVE TypeOK'
    BY <1>14, TypeGoForget DEF SettleLost, TypeOK, WorkerTyped, store
<1>15. ASSUME NEW w \in Workers, SettleCancel(w) PROVE TypeOK'
    <2> DEFINE ends == status[lease[w].run] = "RUNNING" /\ Holds(w)
    <2>1. WorkerTyped'
        <3>1. GoForget(w, ends) /\ pc[w] # "idle"
            BY <1>15 DEF SettleCancel
        <3>2. ends \in BOOLEAN
            BY Zenon DEF Holds
        <3> QED
            BY <3>1, <3>2, TypeGoForget
    <2>2. CASE ends
        <3>1. EndRun(lease[w].run, "CANCELLED") /\ lease[w].run \in Runs
            BY <1>15, <2>2 DEF SettleCancel, Holds
        <3>2. "CANCELLED" \in Terminal
            BY DEF Terminal
        <3> QED
            BY <1>15, <2>1, <3>1, <3>2, TypeEndRun DEF SettleCancel, TypeOK, WorkerTyped
    <2>3. CASE ~ends
        BY <1>15, <2>1, <2>3 DEF SettleCancel, TypeOK, WorkerTyped
    <2> QED
        BY <2>2, <2>3
<1>16. ASSUME NEW w \in Workers, SettleReleased(w) PROVE TypeOK'
    <2>1. Release(w, code[w] = "ATTEMPT_UNSETTLED") /\ pc[w] # "idle" /\ GoIdle(w)
        BY <1>16 DEF SettleReleased
    <2>2. (code[w] = "ATTEMPT_UNSETTLED") \in BOOLEAN
        BY Zenon
    <2> QED
        BY <1>16, <2>1, <2>2, TypeRelease, TypeGoIdle
        DEF SettleReleased, TypeOK, WorkerTyped
<1>17. ASSUME NEW w \in Workers, SettleStopping(w) PROVE TypeOK'
    <2>1. Release(w, FALSE) /\ pc[w] # "idle" /\ GoForget(w, FALSE)
        BY <1>17 DEF SettleStopping
    <2> QED
        BY <1>17, <2>1, TypeRelease, TypeGoForget DEF SettleStopping, TypeOK, WorkerTyped
<1>18. ASSUME NEW w \in Workers, SettleStop(w) PROVE TypeOK'
    <2>1. WorkerTyped'
        <3>1. GoForget(w, Holds(w)) /\ pc[w] # "idle"
            BY <1>18 DEF SettleStop
        <3>2. Holds(w) \in BOOLEAN
            BY Zenon DEF Holds
        <3> QED
            BY <3>1, <3>2, TypeGoForget
    <2>2. CASE ~Holds(w)
        BY <1>18, <2>1, <2>2 DEF SettleStop, TypeOK, WorkerTyped
    <2>3. CASE Holds(w) /\ status[lease[w].run] = "RUNNING" /\ cancel[lease[w].run]
        <3>1. EndRun(lease[w].run, "CANCELLED") /\ lease[w].run \in Runs
            BY <1>18, <2>3 DEF SettleStop, Holds
        <3>2. "CANCELLED" \in Terminal
            BY DEF Terminal
        <3> QED
            BY <1>18, <2>1, <3>1, <3>2, TypeEndRun DEF SettleStop, TypeOK, WorkerTyped
    <2>4. CASE Holds(w) /\ ~(status[lease[w].run] = "RUNNING" /\ cancel[lease[w].run])
        <3>1. /\ state' \in [Runs -> WorkStates]
              /\ live' \in [Runs -> BOOLEAN]
              /\ overspent' \in [Runs -> BOOLEAN]
              /\ UNCHANGED <<status, ended>>
            BY <1>18, <2>4 DEF SettleStop, TypeOK, WorkStates
        <3> QED
            BY <1>18, <2>1, <3>1 DEF SettleStop, TypeOK, WorkerTyped
    <2> QED
        BY <2>2, <2>3, <2>4
<1>19. ASSUME NEW w \in Workers, SettleFault(w) PROVE TypeOK'
    <2>1. WorkerTyped'
        BY <1>19, TypeGoIdle, TypeGoForget DEF SettleFault
    <2>2. CASE UNCHANGED store
        BY <1>19, <2>1, <2>2 DEF SettleFault, Fault, TypeOK, WorkerTyped, store
    <2>3. CASE /\ Release(w, FALSE)
               /\ UNCHANGED <<status, token, cancel, overspent, requestedBy, ended>>
        <3>1. pc[w] # "idle"
            BY <1>19 DEF SettleFault
        <3>2. /\ state' \in [Runs -> WorkStates] /\ live' \in [Runs -> BOOLEAN]
              /\ requestedAt' \in [Runs -> Nat] /\ clock' \in Nat
            BY <2>3, <3>1, TypeRelease
        <3>3. thread' = thread /\ faults' = faults + 1
            BY <1>19 DEF SettleFault, Fault
        <3> QED
            BY <2>1, <2>3, <3>2, <3>3 DEF TypeOK, WorkerTyped
    <2> QED
        BY <1>19, <2>2, <2>3 DEF SettleFault
<1>20. ASSUME NEW w \in Workers, Forget(w) PROVE TypeOK'
    <2>1. thread' \in [Runs -> BOOLEAN]
        BY <1>20 DEF Forget, TypeOK
    <2> QED
        BY <1>20, <2>1, TypeGoIdle DEF Forget, TypeOK, WorkerTyped, store
<1>21. ASSUME NEW w \in Workers, Crash(w) PROVE TypeOK'
    BY <1>21, TypeGoIdle DEF Crash, Fault, TypeOK, WorkerTyped, store
<1>22. CASE UNCHANGED vars
    BY <1>22 DEF TypeOK, vars, store, worker
<1>23. CASE Next
    BY <1>1, <1>2, <1>3, <1>4, <1>5, <1>6, <1>7, <1>8, <1>9, <1>10, <1>11, <1>12,
       <1>13, <1>14, <1>15, <1>16, <1>17, <1>18, <1>19, <1>20, <1>21, <1>23, NextCases,
       Zenon
<1> QED
    BY <1>22, <1>23

\* Every reachable state of the queue and of its workers is well typed, and a
\* worker that is not idle has a claim in hand (work_once).
THEOREM TypeCorrect == Spec => []TypeOK
    BY TypeInit, TypeStep, PTL DEF Spec

-----------------------------------------------------------------------------
(* One holder.  Distinct tokens are why a lapsed holder is fenced out: a   *)
(* claim takes a token above every one handed out, and nothing else hands  *)
(* one out.                                                                *)

FenceInv ==
    /\ \A w \in Workers : pc[w] = "idle" => lease[w].run = NoRun
    /\ \A w \in Workers :
        lease[w].run \in Runs => lease[w].token <= token[lease[w].run]
    /\ \A w, x \in Workers :
        w # x /\ lease[w].run \in Runs /\ lease[w].run = lease[x].run =>
          lease[w].token # lease[x].token

LEMMA FenceInit == Init => FenceInv
    BY NoRunFresh DEF Init, FenceInv, NoLease

\* A step hands out a token, drops one, or leaves every lease alone.
LEMMA LeaseSteps ==
    ASSUME TypeOK, Next
    PROVE  \/ UNCHANGED <<lease, token>> /\ \A w \in Workers : pc'[w] = "idle" => pc[w] = "idle"
           \/ \E w \in Workers : GoIdle(w) /\ UNCHANGED token
           \/ \E w \in Workers : Claim(w)
<1> DEFINE Kept == /\ UNCHANGED <<lease, token>>
                   /\ \A w \in Workers : pc'[w] = "idle" => pc[w] = "idle"
           Dropped == \E w \in Workers : GoIdle(w) /\ UNCHANGED token
<1>1. ASSUME NEW r \in Runs, NEW a \in Actors, StartRun(a, r) \/ RetryRun(a, r) PROVE Kept
    BY <1>1 DEF StartRun, RetryRun, worker
<1>2. ASSUME NEW r \in Runs, CancelRun(r) PROVE Kept
    BY <1>2 DEF CancelRun, worker
<1>3. ASSUME NEW r \in Runs, NEW into \in Terminal, DirectEnd(r, into) PROVE Kept
    BY <1>3 DEF DirectEnd, worker
<1>4. ASSUME NEW r \in Runs, Lapse(r) PROVE Kept
    BY <1>4 DEF Lapse, worker
<1>5. ASSUME NEW w \in Workers, Checkpoint(w) \/ Renew(w) PROVE Kept
    BY <1>5 DEF Checkpoint, Renew, store, worker
<1>6. ASSUME NEW w \in Workers, NEW into \in {"COMPLETE", "BLOCKED"}, EndHeld(w, into)
      PROVE  Kept
    BY <1>6 DEF EndHeld, TypeOK
<1>7. ASSUME NEW w \in Workers, FindEnded(w) \/ RefuseFenced(w) PROVE Kept
    BY <1>7 DEF FindEnded, RefuseFenced, store, TypeOK
<1>8. ASSUME NEW w \in Workers, NEW c \in Codes, RefusePass(w, c) PROVE Kept
    BY <1>8 DEF RefusePass, store, TypeOK
<1>9. ASSUME NEW w \in Workers, NEW m, GoForget(w, m), UNCHANGED token PROVE Kept
    BY <1>9 DEF GoForget, TypeOK
<1>10. ASSUME NEW w \in Workers, DropEnded(w) \/ SettleReleased(w) \/ Forget(w) \/ Crash(w)
       PROVE  Dropped
    BY <1>10 DEF DropEnded, SettleReleased, Forget, Crash, store
<1>11. ASSUME NEW w \in Workers, SettleLost(w) \/ SettleStopping(w) PROVE Kept
    BY <1>11, <1>9 DEF SettleLost, SettleStopping, store
<1>12. ASSUME NEW w \in Workers, SettleCancel(w) \/ SettleStop(w) PROVE Kept
    BY <1>12, <1>9 DEF SettleCancel, SettleStop
<1>13. ASSUME NEW w \in Workers, SettleFault(w) PROVE Kept \/ Dropped
    BY <1>13, <1>9 DEF SettleFault, store
<1> QED
    BY <1>1, <1>2, <1>3, <1>4, <1>5, <1>6, <1>7, <1>8, <1>10, <1>11, <1>12, <1>13,
       NextCases, Zenon

LEMMA FenceStep == TypeOK /\ FenceInv /\ [Next]_vars => FenceInv'
<1> SUFFICES ASSUME TypeOK, FenceInv, [Next]_vars PROVE FenceInv'
    OBVIOUS
<1>1. CASE UNCHANGED vars
    BY <1>1 DEF FenceInv, vars, store, worker
<1>2. CASE /\ UNCHANGED <<lease, token>>
           /\ \A w \in Workers : pc'[w] = "idle" => pc[w] = "idle"
    BY <1>2 DEF FenceInv
<1>3. ASSUME NEW w \in Workers, GoIdle(w), UNCHANGED token PROVE FenceInv'
    BY <1>3, NoRunFresh DEF FenceInv, GoIdle, NoLease, TypeOK, Leases
<1>4. ASSUME NEW w \in Workers, Claim(w) PROVE FenceInv'
    <2>1. PICK r \in Runs :
            /\ lease' = [lease EXCEPT ![w] = [run |-> r, token |-> token[r] + 1]]
            /\ token' = [token EXCEPT ![r] = @ + 1]
        BY <1>4 DEF Claim
    <2>2. pc' = [pc EXCEPT ![w] = "drive"]
        BY <1>4 DEF Claim
    <2>3. /\ token[r] \in Nat
          /\ \A x \in Workers : lease[x].token \in Nat
          /\ \A y \in Runs : token[y] \in Nat
        BY DEF TypeOK, Leases
    <2>4. /\ lease'[w].run = r /\ lease'[w].token = token[r] + 1
          /\ \A x \in Workers \ {w} : lease'[x] = lease[x] /\ pc'[x] = pc[x]
          /\ token'[r] = token[r] + 1
          /\ \A y \in Runs \ {r} : token'[y] = token[y]
        BY <2>1, <2>2 DEF TypeOK
    <2>5. \A x \in Workers : pc'[x] = "idle" => lease'[x].run = NoRun
        BY <2>2, <2>4 DEF FenceInv, TypeOK
    <2>6. \A x \in Workers : lease'[x].run \in Runs => lease'[x].token <= token'[lease'[x].run]
        BY <2>3, <2>4 DEF FenceInv
    <2>7. \A x \in Workers \ {w} : lease[x].run = r => lease[x].token < token[r] + 1
        BY <2>3 DEF FenceInv
    <2>8. \A x, y \in Workers :
            x # y /\ lease'[x].run \in Runs /\ lease'[x].run = lease'[y].run =>
              lease'[x].token # lease'[y].token
        BY <2>3, <2>4, <2>7 DEF FenceInv
    <2> QED
        BY <2>5, <2>6, <2>8 DEF FenceInv
<1> QED
    BY <1>1, <1>2, <1>3, <1>4, LeaseSteps DEF vars

\* A run has one holder: whoever lapses, crashes, races or comes back late.
THEOREM OneHolderHolds == Spec => []OneHolder
<1>1. TypeOK /\ FenceInv => OneHolder
    BY DEF FenceInv, OneHolder, Holds
<1> QED
    BY <1>1, TypeInit, TypeStep, FenceInit, FenceStep, PTL DEF Spec

-----------------------------------------------------------------------------
(* Ending a run.  The status, the work row and the terminal event move in  *)
(* one unit, so the three invariants hold together or not at all: a park   *)
(* that ends a cancelled run relies on the row it holds being a RUNNING    *)
(* run's.                                                                  *)

StatusInv == RowMatchesStatus /\ EndedOnce /\ CancelNeverParked

LEMMA StatusInit == Init => StatusInv
    BY DEF Init, StatusInv, RowMatchesStatus, EndedOnce, CancelNeverParked, WorkStates

LEMMA StatusEndRun ==
    ASSUME TypeOK, StatusInv, NEW r \in Runs, NEW into \in Terminal,
           status[r] = "RUNNING", EndRun(r, into), UNCHANGED cancel
    PROVE  StatusInv'
<1>1. RowMatchesStatus'
    BY DEF TypeOK, StatusInv, RowMatchesStatus, EndRun, Terminal, WorkStates
<1>2. EndedOnce'
    BY DEF TypeOK, StatusInv, EndedOnce, EndRun, Terminal
<1>3. CancelNeverParked'
    BY DEF TypeOK, StatusInv, CancelNeverParked, EndRun
<1> QED
    BY <1>1, <1>2, <1>3 DEF StatusInv

\* A row moved within the states a RUNNING run's row may have.
LEMMA StatusMoveRow ==
    ASSUME TypeOK, StatusInv, NEW r \in Runs, status[r] = "RUNNING",
           NEW into \in {"QUEUED", "CLAIMED", "STOPPED"},
           into = "STOPPED" => ~cancel[r],
           state' = [state EXCEPT ![r] = into],
           UNCHANGED <<status, ended, cancel>>
    PROVE  StatusInv'
    BY DEF TypeOK, StatusInv, RowMatchesStatus, EndedOnce, CancelNeverParked, WorkStates

LEMMA StatusKept ==
    ASSUME StatusInv, UNCHANGED <<status, state, ended, cancel>>
    PROVE  StatusInv'
    BY DEF StatusInv, RowMatchesStatus, EndedOnce, CancelNeverParked

\* A claimed or queued row is a RUNNING run's.
LEMMA OpenRowRunning ==
    ASSUME TypeOK, StatusInv
    PROVE  \A r \in Runs : state[r] \in {"QUEUED", "CLAIMED", "STOPPED"} => status[r] = "RUNNING"
    BY DEF StatusInv, RowMatchesStatus

LEMMA StatusRelease ==
    ASSUME TypeOK, StatusInv, NEW w \in Workers, NEW behind, Release(w, behind),
           UNCHANGED <<status, ended, cancel>>
    PROVE  StatusInv'
<1>1. CASE Holds(w)
    <2>1. /\ state' = [state EXCEPT ![lease[w].run] = "QUEUED"]
          /\ lease[w].run \in Runs /\ state[lease[w].run] = "CLAIMED"
        BY <1>1 DEF Release, Holds
    <2> QED
        BY <2>1, OpenRowRunning, StatusMoveRow
<1>2. CASE ~Holds(w)
    BY <1>2, StatusKept DEF Release
<1> QED
    BY <1>1, <1>2

LEMMA StatusStep == TypeOK /\ StatusInv /\ [Next]_vars => StatusInv'
<1> SUFFICES ASSUME TypeOK, StatusInv, [Next]_vars PROVE StatusInv'
    OBVIOUS
<1>c. "CANCELLED" \in Terminal
    BY DEF Terminal
<1>1. ASSUME NEW r \in Runs, NEW a \in Actors, StartRun(a, r) \/ RetryRun(a, r)
      PROVE  StatusInv'
    BY <1>1, StatusMoveRow DEF StartRun, RetryRun
<1>2. ASSUME NEW r \in Runs, CancelRun(r) PROVE StatusInv'
    <2>1. CASE Unheld(r)
        <3>1. RowMatchesStatus'
            BY <1>2, <2>1 DEF CancelRun, TypeOK, StatusInv, RowMatchesStatus, WorkStates
        <3>2. EndedOnce'
            BY <1>2, <2>1 DEF CancelRun, TypeOK, StatusInv, EndedOnce
        <3>3. CancelNeverParked'
            BY <1>2, <2>1 DEF CancelRun, TypeOK, StatusInv, CancelNeverParked
        <3> QED
            BY <3>1, <3>2, <3>3 DEF StatusInv
    <2>2. CASE ~Unheld(r)
        <3>1. state[r] = "CLAIMED"
            BY <1>2, <2>2 DEF CancelRun, Unheld, TypeOK, WorkStates
        <3>2. /\ cancel' = [cancel EXCEPT ![r] = TRUE]
              /\ UNCHANGED <<status, state, ended>>
            BY <1>2, <2>2 DEF CancelRun
        <3> QED
            BY <3>1, <3>2 DEF TypeOK, StatusInv, RowMatchesStatus, EndedOnce,
               CancelNeverParked
    <2> QED
        BY <2>1, <2>2
<1>3. ASSUME NEW r \in Runs, NEW into \in Terminal, DirectEnd(r, into) PROVE StatusInv'
    BY <1>3, StatusEndRun DEF DirectEnd
<1>4. ASSUME NEW r \in Runs, Lapse(r) PROVE StatusInv'
    BY <1>4, StatusKept DEF Lapse
<1>5. ASSUME NEW w \in Workers, Claim(w) PROVE StatusInv'
    <2>1. PICK r \in Runs : Claimable(r) /\ state' = [state EXCEPT ![r] = "CLAIMED"]
        BY <1>5 DEF Claim
    <2> QED
        BY <1>5, <2>1, OpenRowRunning, StatusMoveRow DEF Claim, Claimable
<1>6. ASSUME NEW w \in Workers,
             \/ Checkpoint(w) \/ Renew(w) \/ FindEnded(w) \/ DropEnded(w)
             \/ RefuseFenced(w) \/ SettleLost(w) \/ Forget(w) \/ Crash(w)
      PROVE  StatusInv'
    BY <1>6, StatusKept DEF Checkpoint, Renew, FindEnded, DropEnded, RefuseFenced,
       SettleLost, Forget, Crash, store
<1>7. ASSUME NEW w \in Workers, NEW into \in {"COMPLETE", "BLOCKED"}, EndHeld(w, into)
      PROVE  StatusInv'
    BY <1>7, StatusEndRun DEF EndHeld, Holds, Terminal
<1>8. ASSUME NEW w \in Workers, NEW c \in Codes, RefusePass(w, c) PROVE StatusInv'
    BY <1>8, StatusKept DEF RefusePass, store
<1>9. ASSUME NEW w \in Workers, SettleCancel(w) PROVE StatusInv'
    <2>1. CASE status[lease[w].run] = "RUNNING" /\ Holds(w)
        BY <1>9, <2>1, <1>c, StatusEndRun DEF SettleCancel, Holds
    <2>2. CASE ~(status[lease[w].run] = "RUNNING" /\ Holds(w))
        BY <1>9, <2>2, StatusKept DEF SettleCancel
    <2> QED
        BY <2>1, <2>2
<1>10. ASSUME NEW w \in Workers, SettleReleased(w) \/ SettleStopping(w) PROVE StatusInv'
    BY <1>10, StatusRelease DEF SettleReleased, SettleStopping
<1>11. ASSUME NEW w \in Workers, SettleStop(w) PROVE StatusInv'
    <2>1. CASE ~Holds(w)
        BY <1>11, <2>1, StatusKept DEF SettleStop
    <2>2. CASE Holds(w)
        <3>1. lease[w].run \in Runs /\ status[lease[w].run] = "RUNNING"
            BY <2>2, OpenRowRunning DEF Holds
        <3>2. CASE cancel[lease[w].run]
            BY <1>11, <2>2, <3>1, <3>2, <1>c, StatusEndRun DEF SettleStop
        <3>3. CASE ~cancel[lease[w].run]
            BY <1>11, <2>2, <3>1, <3>3, StatusMoveRow DEF SettleStop
        <3> QED
            BY <3>2, <3>3
    <2> QED
        BY <2>1, <2>2
<1>12. ASSUME NEW w \in Workers, SettleFault(w) PROVE StatusInv'
    <2>1. CASE UNCHANGED store
        BY <2>1, StatusKept DEF store
    <2>2. CASE Release(w, FALSE) /\ UNCHANGED <<status, ended, cancel>>
        BY <2>2, StatusRelease
    <2> QED
        BY <1>12, <2>1, <2>2 DEF SettleFault
<1>13. CASE UNCHANGED vars
    BY <1>13, StatusKept DEF vars, store
<1>14. CASE Next
    BY <1>1, <1>2, <1>3, <1>4, <1>5, <1>6, <1>7, <1>8, <1>9, <1>10, <1>11, <1>12,
       <1>14, NextCases, Zenon
<1> QED
    BY <1>13, <1>14

\* A run's status and its work row never disagree (mark_work_done rides every
\* terminal unit).
THEOREM RowMatchesStatusHolds == Spec => []RowMatchesStatus
    BY TypeInit, TypeStep, StatusInit, StatusStep, PTL DEF Spec, StatusInv

\* A run ends once, with one terminal event (_transition, _end_cancelled).
THEOREM EndedOnceHolds == Spec => []EndedOnce
    BY TypeInit, TypeStep, StatusInit, StatusStep, PTL DEF Spec, StatusInv

\* MAX-04: a park never strands a run whose cancel was acknowledged.
THEOREM CancelNeverParkedHolds == Spec => []CancelNeverParked
    BY TypeInit, TypeStep, StatusInit, StatusStep, PTL DEF Spec, StatusInv

\* AR-13, ST-6: a recorded cancel is never overtaken by COMPLETE or BLOCKED.
THEOREM CancelWinsHolds == Spec => CancelWins
<1> DEFINE Wins == \A r \in Runs : cancel[r] /\ status[r] = "RUNNING" =>
                     status'[r] \in {"RUNNING", "CANCELLED"}
<1>1. TypeOK /\ StatusInv /\ [Next]_vars => [Wins]_vars
    <2> SUFFICES ASSUME TypeOK, StatusInv, Next PROVE Wins
        OBVIOUS
    <2>1. ASSUME status' = status PROVE Wins
        BY <2>1
    <2>2. ASSUME NEW r \in Runs, NEW into, EndRun(r, into),
                 cancel[r] => into = "CANCELLED"
          PROVE  Wins
        BY <2>2 DEF EndRun, TypeOK
    <2>3. ASSUME NEW r \in Runs, CancelRun(r) PROVE Wins
        BY <2>3 DEF CancelRun, TypeOK
    <2>4. ASSUME NEW r \in Runs, NEW into \in Terminal, DirectEnd(r, into) PROVE Wins
        BY <2>4, <2>2 DEF DirectEnd, StatusInv, CancelNeverParked
    <2>5. ASSUME NEW w \in Workers, NEW into \in {"COMPLETE", "BLOCKED"}, EndHeld(w, into)
          PROVE  Wins
        BY <2>5, <2>2 DEF EndHeld, Holds
    <2>6. ASSUME NEW w \in Workers, SettleCancel(w) \/ SettleStop(w) PROVE Wins
        BY <2>6, <2>1, <2>2 DEF SettleCancel, SettleStop, Holds
    <2>7. ASSUME NEW r \in Runs, NEW a \in Actors, StartRun(a, r) \/ RetryRun(a, r)
          PROVE  Wins
        BY <2>7, <2>1 DEF StartRun, RetryRun
    <2>8. ASSUME NEW r \in Runs, Lapse(r) PROVE Wins
        BY <2>8, <2>1 DEF Lapse
    <2>9. ASSUME NEW w \in Workers,
                 \/ Claim(w) \/ Checkpoint(w) \/ Renew(w) \/ FindEnded(w) \/ DropEnded(w)
                 \/ RefuseFenced(w) \/ SettleLost(w) \/ SettleReleased(w)
                 \/ SettleStopping(w) \/ SettleFault(w) \/ Forget(w) \/ Crash(w)
          PROVE  Wins
        BY <2>9, <2>1 DEF Claim, Checkpoint, Renew, FindEnded, DropEnded, RefuseFenced,
           SettleLost, SettleReleased, SettleStopping, SettleFault, Forget, Crash, store
    <2>10. ASSUME NEW w \in Workers, NEW c \in Codes, RefusePass(w, c) PROVE Wins
        BY <2>10, <2>1 DEF RefusePass, store
    <2> QED
        BY <2>3, <2>4, <2>5, <2>6, <2>7, <2>8, <2>9, <2>10, NextCases, Zenon
<1> QED
    BY <1>1, TypeInit, TypeStep, StatusInit, StatusStep, PTL DEF Spec, CancelWins

-----------------------------------------------------------------------------
(* The cap.  Only a start or a retry takes a place, and only for an actor  *)
(* with one to spare.                                                      *)

LEMMA PlacesFinite ==
    ASSUME NEW a
    PROVE  IsFiniteSet(PlacesOf(a)) /\ Cardinality(PlacesOf(a)) \in Nat
    BY RunsFinite, FS_Subset, FS_CardinalityType DEF PlacesOf

\* Nobody gains a place.
LEMMA PlacesShrink ==
    ASSUME PlacesWithinCap, \A a \in Actors : PlacesOf(a)' \subseteq PlacesOf(a)
    PROVE  PlacesWithinCap'
<1> SUFFICES ASSUME NEW a \in Actors PROVE Cardinality(PlacesOf(a)') <= MaxQueued
    BY DEF PlacesWithinCap
<1>1. /\ Cardinality(PlacesOf(a)') <= Cardinality(PlacesOf(a))
      /\ Cardinality(PlacesOf(a)') \in Nat
    BY PlacesFinite, FS_Subset, FS_CardinalityType
<1> QED
    BY <1>1, PlacesFinite, BoundsNat DEF PlacesWithinCap

\* One actor with a place to spare takes it.
LEMMA PlacesTaken ==
    ASSUME TypeOK, PlacesWithinCap, NEW a \in Actors, NEW r \in Runs, HasPlace(a),
           state[r] \notin {"QUEUED", "CLAIMED"},
           state' = [state EXCEPT ![r] = "QUEUED"],
           requestedBy' = [requestedBy EXCEPT ![r] = a]
    PROVE  PlacesWithinCap'
<1> SUFFICES ASSUME NEW b \in Actors PROVE Cardinality(PlacesOf(b)') <= MaxQueued
    BY DEF PlacesWithinCap
<1>1. CASE b = a
    <2>1. PlacesOf(b)' = PlacesOf(a) \cup {r}
        BY <1>1 DEF PlacesOf, TypeOK
    <2>2. r \notin PlacesOf(a)
        BY DEF PlacesOf
    <2>3. Cardinality(PlacesOf(b)') = Cardinality(PlacesOf(a)) + 1
        BY <2>1, <2>2, PlacesFinite, FS_AddElement
    <2>4. Cardinality(PlacesOf(a)) < MaxQueued
        BY NoActorFresh DEF HasPlace
    <2> QED
        BY <2>3, <2>4, PlacesFinite, BoundsNat
<1>2. CASE b # a
    <2>1. PlacesOf(b)' = PlacesOf(b)
        BY <1>2 DEF PlacesOf, TypeOK
    <2> QED
        BY <2>1 DEF PlacesWithinCap
<1> QED
    BY <1>1, <1>2

LEMMA PlacesStep == TypeOK /\ PlacesWithinCap /\ [Next]_vars => PlacesWithinCap'
<1> SUFFICES ASSUME TypeOK, PlacesWithinCap, [Next]_vars PROVE PlacesWithinCap'
    OBVIOUS
<1> DEFINE Shrinks == \A a \in Actors : PlacesOf(a)' \subseteq PlacesOf(a)
<1>0. ASSUME UNCHANGED <<state, requestedBy>> PROVE Shrinks
    BY <1>0 DEF PlacesOf
<1>1. ASSUME NEW r \in Runs, NEW a \in Actors, StartRun(a, r) \/ RetryRun(a, r)
      PROVE  PlacesWithinCap'
    BY <1>1, PlacesTaken DEF StartRun, RetryRun
<1>2. ASSUME NEW r \in Runs, CancelRun(r) PROVE Shrinks
    BY <1>2 DEF CancelRun, PlacesOf, TypeOK
<1>3. ASSUME NEW r \in Runs, NEW into, EndRun(r, into), UNCHANGED requestedBy
      PROVE  Shrinks
    BY <1>3 DEF EndRun, PlacesOf, TypeOK
<1>4. ASSUME NEW w \in Workers, NEW behind, Release(w, behind), UNCHANGED requestedBy
      PROVE  Shrinks
    <2>1. CASE Holds(w)
        <3>1. /\ state' = [state EXCEPT ![lease[w].run] = "QUEUED"]
              /\ state[lease[w].run] = "CLAIMED"
            BY <1>4, <2>1 DEF Release, Holds
        <3> QED
            BY <1>4, <3>1 DEF PlacesOf, TypeOK
    <2>2. CASE ~Holds(w)
        BY <1>4, <2>2 DEF Release, PlacesOf
    <2> QED
        BY <2>1, <2>2
<1>5. ASSUME NEW w \in Workers, Claim(w) PROVE Shrinks
    BY <1>5 DEF Claim, Claimable, PlacesOf, TypeOK
<1>6. ASSUME NEW w \in Workers, SettleStop(w) PROVE Shrinks
    <2>1. CASE Holds(w) /\ status[lease[w].run] = "RUNNING" /\ cancel[lease[w].run]
        BY <1>6, <2>1, <1>3 DEF SettleStop, Holds
    <2>2. CASE Holds(w) /\ ~(status[lease[w].run] = "RUNNING" /\ cancel[lease[w].run])
        BY <1>6, <2>2 DEF SettleStop, PlacesOf, TypeOK
    <2>3. CASE ~Holds(w)
        BY <1>6, <2>3, <1>0 DEF SettleStop
    <2> QED
        BY <2>1, <2>2, <2>3
<1>7. ASSUME NEW r \in Runs, NEW into \in Terminal, DirectEnd(r, into) PROVE Shrinks
    BY <1>7, <1>3 DEF DirectEnd
<1>8. ASSUME NEW w \in Workers, NEW into \in {"COMPLETE", "BLOCKED"}, EndHeld(w, into)
      PROVE  Shrinks
    BY <1>8, <1>3 DEF EndHeld, Holds
<1>9. ASSUME NEW w \in Workers, SettleCancel(w) PROVE Shrinks
    BY <1>9, <1>0, <1>3 DEF SettleCancel, Holds
<1>10. ASSUME NEW w \in Workers, SettleReleased(w) \/ SettleStopping(w) \/ SettleFault(w)
       PROVE  Shrinks
    BY <1>10, <1>0, <1>4 DEF SettleReleased, SettleStopping, SettleFault, store
<1>11. ASSUME NEW r \in Runs, Lapse(r) PROVE Shrinks
    BY <1>11, <1>0 DEF Lapse
<1>12. ASSUME NEW w \in Workers,
              \/ Checkpoint(w) \/ Renew(w) \/ FindEnded(w) \/ DropEnded(w)
              \/ RefuseFenced(w) \/ SettleLost(w) \/ Forget(w) \/ Crash(w)
       PROVE  Shrinks
    BY <1>12, <1>0 DEF Checkpoint, Renew, FindEnded, DropEnded, RefuseFenced, SettleLost,
       Forget, Crash, store
<1>13. ASSUME NEW w \in Workers, NEW c \in Codes, RefusePass(w, c) PROVE Shrinks
    BY <1>13, <1>0 DEF RefusePass, store
<1>14. CASE UNCHANGED vars
    BY <1>14, <1>0, PlacesShrink DEF vars, store
<1>15. CASE Next
    <2>1. PlacesWithinCap' \/ Shrinks
        BY <1>1, <1>2, <1>5, <1>6, <1>7, <1>8, <1>9, <1>10, <1>11, <1>12, <1>13, <1>15,
           NextCases, Zenon
    <2> QED
        BY <2>1, PlacesShrink
<1> QED
    BY <1>14, <1>15

\* N15: no interleaving gives an actor more places than the cap.
THEOREM PlacesWithinCapHolds == Spec => []PlacesWithinCap
<1>1. Init => PlacesWithinCap
    <2> SUFFICES ASSUME Init, NEW a \in Actors PROVE Cardinality(PlacesOf(a)) <= MaxQueued
        BY DEF PlacesWithinCap
    <2>1. PlacesOf(a) = {}
        BY DEF Init, PlacesOf
    <2> QED
        BY <2>1, FS_EmptySet, BoundsNat
<1> QED
    BY <1>1, TypeInit, TypeStep, PlacesStep, PTL DEF Spec

-----------------------------------------------------------------------------
(* The live claim.  A command never moves it, and a worker only its own.   *)

\* A live claim is left by no one but a holder whose pass moves on: a stale
\* worker's release, park or end finds no row under its token (require_lease).
THEOREM LiveClaimHolds == Spec => LiveClaimIsHolders
<1> DEFINE Left(r) == state[r] = "CLAIMED" /\ live[r] /\ state'[r] # "CLAIMED"
           Own(r, w) == Holds(w) /\ lease[w].run = r /\ pc'[w] # pc[w]
           Theirs == \A r \in Runs : Left(r) => \E w \in Workers : Own(r, w)
<1>1. TypeOK /\ StatusInv /\ [Next]_vars => [Theirs]_vars
    <2> SUFFICES ASSUME TypeOK, StatusInv, Next PROVE Theirs
        OBVIOUS
    <2>1. ASSUME state' = state PROVE Theirs
        BY <2>1
    <2>2. ASSUME NEW r \in Runs, \A x \in Runs \ {r} : state'[x] = state[x],
                 ~(state[r] = "CLAIMED" /\ live[r]) \/ state'[r] = "CLAIMED"
          PROVE  Theirs
        BY <2>2
    <2>3. ASSUME NEW w \in Workers, Holds(w), pc'[w] # pc[w],
                 \A x \in Runs \ {lease[w].run} : state'[x] = state[x]
          PROVE  Theirs
        BY <2>3
    <2>4. ASSUME NEW r \in Runs, NEW into, EndRun(r, into)
          PROVE  \A x \in Runs \ {r} : state'[x] = state[x]
        BY <2>4 DEF EndRun, TypeOK
    <2>5. ASSUME NEW r \in Runs, NEW a \in Actors, StartRun(a, r) \/ RetryRun(a, r) PROVE Theirs
        BY <2>5, <2>2 DEF StartRun, RetryRun, TypeOK
    <2>6. ASSUME NEW r \in Runs, CancelRun(r) PROVE Theirs
        <3>1. CASE Unheld(r)
            BY <2>6, <3>1, <2>2 DEF CancelRun, Unheld, TypeOK
        <3>2. CASE ~Unheld(r)
            BY <2>6, <3>2, <2>1 DEF CancelRun
        <3> QED
            BY <3>1, <3>2
    <2>7. ASSUME NEW r \in Runs, NEW into \in Terminal, DirectEnd(r, into) PROVE Theirs
        BY <2>7, <2>2, <2>4 DEF DirectEnd
    <2>8. ASSUME NEW w \in Workers, Claim(w) PROVE Theirs
        BY <2>8, <2>2 DEF Claim, TypeOK
    <2>9. ASSUME NEW w \in Workers, NEW into \in {"COMPLETE", "BLOCKED"}, EndHeld(w, into)
          PROVE  Theirs
        <3>1. Holds(w) /\ lease[w].run \in Runs /\ EndRun(lease[w].run, into)
            BY <2>9 DEF EndHeld, Holds
        <3>2. pc'[w] # pc[w]
            BY <2>9 DEF EndHeld, TypeOK
        <3> QED
            BY <3>1, <3>2, <2>3, <2>4
    <2>10. ASSUME NEW w \in Workers, NEW behind, Release(w, behind), pc'[w] # pc[w] PROVE Theirs
        <3>1. CASE Holds(w)
            BY <2>10, <3>1, <2>3 DEF Release, TypeOK
        <3>2. CASE ~Holds(w)
            BY <2>10, <3>2, <2>1 DEF Release
        <3> QED
            BY <3>1, <3>2
    <2>11. ASSUME NEW w \in Workers, SettleReleased(w) \/ SettleStopping(w) PROVE Theirs
        <3>1. pc'[w] # pc[w]
            BY <2>11 DEF SettleReleased, SettleStopping, GoIdle, GoForget, TypeOK
        <3> QED
            BY <2>11, <3>1, <2>10 DEF SettleReleased, SettleStopping
    <2>12. ASSUME NEW w \in Workers, SettleFault(w) PROVE Theirs
        <3>1. pc'[w] # pc[w]
            BY <2>12 DEF SettleFault, GoIdle, GoForget, TypeOK
        <3> QED
            BY <2>12, <3>1, <2>1, <2>10 DEF SettleFault, store
    <2>13. ASSUME NEW w \in Workers, SettleCancel(w) PROVE Theirs
        <3>1. pc'[w] # pc[w]
            BY <2>13 DEF SettleCancel, GoForget, TypeOK
        <3>2. CASE Holds(w) /\ EndRun(lease[w].run, "CANCELLED")
            <4>1. lease[w].run \in Runs
                BY <3>2 DEF Holds
            <4> QED
                BY <3>1, <3>2, <4>1, <2>3, <2>4
        <3>3. CASE UNCHANGED state
            BY <3>3, <2>1
        <3> QED
            BY <2>13, <3>2, <3>3 DEF SettleCancel
    <2>14. ASSUME NEW w \in Workers, SettleStop(w) PROVE Theirs
        <3>1. pc'[w] # pc[w]
            BY <2>14 DEF SettleStop, GoForget, TypeOK
        <3>2. CASE ~Holds(w)
            BY <2>14, <3>2, <2>1 DEF SettleStop
        <3>3. CASE Holds(w)
            <4>1. lease[w].run \in Runs
                BY <3>3 DEF Holds
            <4>2. \A x \in Runs \ {lease[w].run} : state'[x] = state[x]
                BY <2>14, <3>3, <4>1, <2>4 DEF SettleStop, TypeOK
            <4> QED
                BY <3>1, <3>3, <4>2, <2>3
        <3> QED
            BY <3>2, <3>3
    <2>15. ASSUME NEW r \in Runs, Lapse(r) PROVE Theirs
        BY <2>15, <2>1 DEF Lapse
    <2>16. ASSUME NEW w \in Workers,
                  \/ Checkpoint(w) \/ Renew(w) \/ FindEnded(w) \/ DropEnded(w)
                  \/ RefuseFenced(w) \/ SettleLost(w) \/ Forget(w) \/ Crash(w)
           PROVE  Theirs
        BY <2>16, <2>1 DEF Checkpoint, Renew, FindEnded, DropEnded, RefuseFenced,
           SettleLost, Forget, Crash, store
    <2>17. ASSUME NEW w \in Workers, NEW c \in Codes, RefusePass(w, c) PROVE Theirs
        BY <2>17, <2>1 DEF RefusePass, store
    <2> QED
        BY <2>5, <2>6, <2>7, <2>8, <2>9, <2>11, <2>12, <2>13, <2>14, <2>15, <2>16, <2>17,
           NextCases, Zenon
<1> QED
    BY <1>1, TypeInit, TypeStep, StatusInit, StatusStep, PTL DEF Spec, LiveClaimIsHolders

-----------------------------------------------------------------------------
(* The queue keeps its promise: leases, tokens, lapses, crashes, parks and *)
(* releases are, seen from a run, an owner taking it, leaving it or ending *)
(* it.                                                                     *)

\* No row, no token and no lease moved: the owners are who they were.
LEMMA OwnersKept ==
    ASSUME UNCHANGED <<state, token, lease>>
    PROVE  Owners' = Owners /\ Queued' = Queued
    BY DEF Owners, Queued, Holds

\* A row not claimed has no owner.
LEMMA Ownerless ==
    ASSUME NEW r \in Runs, state[r] # "CLAIMED"
    PROVE  Owners[r] = {}
    BY DEF Owners, Holds

\* A worker that holds a run is its only owner.
LEMMA OneOwner ==
    ASSUME OneHolder, NEW w \in Workers, Holds(w)
    PROVE  lease[w].run \in Runs /\ Owners[lease[w].run] = {w}
<1>1. lease[w].run \in Runs
    BY DEF Holds
<1>2. \A x \in Workers : Holds(x) /\ lease[x].run = lease[w].run => x = w
    BY DEF OneHolder
<1> QED
    BY <1>1, <1>2 DEF Owners

\* A row that leaves CLAIMED, or is not claimed, has no owner any more.
LEMMA OwnersDropped ==
    ASSUME TypeOK, NEW r \in Runs, NEW s \in WorkStates \ {"CLAIMED"}, token' = token,
           state' = [state EXCEPT ![r] = s],
           \/ lease' = lease
           \/ \E w \in Workers : /\ lease' = [lease EXCEPT ![w] = NoLease]
                                 /\ Holds(w) => lease[w].run = r
    PROVE  Owners' = [Owners EXCEPT ![r] = {}]
<1>1. state'[r] # "CLAIMED" /\ \A x \in Runs \ {r} : state'[x] = state[x]
    BY DEF TypeOK
<1>2. \A w \in Workers, x \in Runs \ {r} :
        (Holds(w) /\ lease[w].run = x)' <=> (Holds(w) /\ lease[w].run = x)
    <2> SUFFICES ASSUME NEW w \in Workers, NEW x \in Runs \ {r}
                 PROVE  (Holds(w) /\ lease[w].run = x)' <=> (Holds(w) /\ lease[w].run = x)
        OBVIOUS
    <2>1. CASE lease'[w] = lease[w]
        BY <1>1, <2>1 DEF Holds
    <2>2. CASE lease'[w] # lease[w]
        <3>1. lease'[w] = NoLease /\ (Holds(w) => lease[w].run = r)
            BY <2>2 DEF TypeOK
        <3> QED
            BY <3>1, NoRunFresh DEF NoLease
    <2> QED
        BY <2>1, <2>2
<1>3. \A x \in Runs \ {r} : Owners'[x] = Owners[x]
    BY <1>2 DEF Owners
<1>4. Owners'[r] = {}
    BY <1>1 DEF Owners, Holds
<1>5. Owners = [x \in Runs |-> Owners[x]] /\ Owners' = [x \in Runs |-> Owners'[x]]
    BY DEF Owners
<1> QED
    BY <1>3, <1>4, <1>5

\* A worker's locals are gone: the run it held, if any, is nobody's.
LEMMA OwnersIdle ==
    ASSUME TypeOK, NEW w \in Workers, UNCHANGED <<state, token>>,
           lease' = [lease EXCEPT ![w] = NoLease]
    PROVE  \A x \in Runs : Owners'[x] = Owners[x] \ {w}
<1>1. \A v \in Workers : lease'[v] = IF v = w THEN NoLease ELSE lease[v]
    BY DEF TypeOK
<1>2. \A v \in Workers, x \in Runs :
        (Holds(v) /\ lease[v].run = x)' <=> (Holds(v) /\ lease[v].run = x /\ v # w)
    BY <1>1, NoRunFresh DEF Holds, NoLease
<1> QED
    BY <1>2 DEF Owners

\* A row that was queued stays queued, wherever it moves.
LEMMA QueuedKept ==
    ASSUME TypeOK, NEW r \in Runs, NEW s \in WorkStates, state' = [state EXCEPT ![r] = s],
           (state[r] = "NONE") <=> (s = "NONE")
    PROVE  Queued' = Queued
    BY DEF Queued, TypeOK

-----------------------------------------------------------------------------
(* What the promise sees of a step.                                        *)

Seen == Promise!Next \/ UNCHANGED Promise!vars

LEMMA Unseen ==
    ASSUME UNCHANGED <<status, cancel>>, Owners' = Owners, Queued' = Queued
    PROVE  Seen
    BY DEF Seen, Promise!vars

LEMMA LeaveSeen ==
    ASSUME NEW r \in Runs, Owners[r] # {}, Owners' = [Owners EXCEPT ![r] = {}],
           Queued' = Queued, UNCHANGED <<status, cancel>>
    PROVE  Seen
<1>1. Promise!Leave(r)
    BY DEF Promise!Leave
<1> QED
    BY <1>1 DEF Seen, Promise!Next

\* The holder gives its claim back, or parks it.
LEMMA DropSeen ==
    ASSUME TypeOK, OneHolder, NEW w \in Workers, Holds(w),
           NEW s \in {"QUEUED", "STOPPED"}, state' = [state EXCEPT ![lease[w].run] = s],
           lease' = lease \/ lease' = [lease EXCEPT ![w] = NoLease],
           UNCHANGED <<status, cancel, token>>
    PROVE  Seen
<1> DEFINE r == lease[w].run
<1>1. r \in Runs /\ Owners[r] = {w} /\ state[r] = "CLAIMED"
    BY OneOwner DEF Holds
<1>2. s \in WorkStates \ {"CLAIMED"}
    BY DEF WorkStates
<1>3. Owners' = [Owners EXCEPT ![r] = {}]
    BY <1>1, <1>2, OwnersDropped
<1>4. Queued' = Queued
    BY <1>1, <1>2, QueuedKept
<1> QED
    BY <1>1, <1>3, <1>4, LeaveSeen

\* release, by a holder or by a worker whose token is stale.
LEMMA ReleaseSeen ==
    ASSUME TypeOK, OneHolder, NEW w \in Workers, NEW behind, Release(w, behind),
           lease' = lease \/ lease' = [lease EXCEPT ![w] = NoLease],
           UNCHANGED <<status, cancel, token>>
    PROVE  Seen
<1>1. CASE Holds(w)
    BY <1>1, DropSeen DEF Release
<1>2. CASE ~Holds(w)
    <2>1. state' = state
        BY <1>2 DEF Release
    <2>2. CASE lease' = lease
        BY <2>1, <2>2, OwnersKept, Unseen
    <2>3. CASE lease' = [lease EXCEPT ![w] = NoLease]
        <3>1. \A x \in Runs : Owners'[x] = Owners[x] \ {w}
            BY <2>1, <2>3, OwnersIdle
        <3>2. \A x \in Runs : w \notin Owners[x]
            BY <1>2 DEF Owners
        <3>3. Owners = [x \in Runs |-> Owners[x]] /\ Owners' = [x \in Runs |-> Owners'[x]]
            BY DEF Owners
        <3>4. \A x \in Runs : Owners'[x] = Owners[x]
            BY <3>1, <3>2
        <3>5. Owners' = Owners
            BY <3>3, <3>4
        <3>6. Queued' = Queued
            BY <2>1 DEF Queued
        <3> QED
            BY <3>5, <3>6, Unseen
    <2> QED
        BY <2>2, <2>3
<1> QED
    BY <1>1, <1>2

\* A worker's locals are gone, and nothing of the store with them.
LEMMA IdleSeen ==
    ASSUME TypeOK, OneHolder, NEW w \in Workers, GoIdle(w), UNCHANGED store
    PROVE  Seen
<1>1. /\ lease' = [lease EXCEPT ![w] = NoLease]
      /\ UNCHANGED <<state, token, status, cancel>>
    BY DEF GoIdle, store
<1>2. \A x \in Runs : Owners'[x] = Owners[x] \ {w}
    BY <1>1, OwnersIdle
<1>3. Owners = [x \in Runs |-> Owners[x]] /\ Owners' = [x \in Runs |-> Owners'[x]]
    BY DEF Owners
<1>4. Queued' = Queued
    BY <1>1 DEF Queued
<1>5. CASE Holds(w)
    <2>1. lease[w].run \in Runs /\ Owners[lease[w].run] = {w}
        BY <1>5, OneOwner
    <2>2. \A x \in Runs \ {lease[w].run} : w \notin Owners[x]
        BY DEF Owners
    <2>3. Owners' = [Owners EXCEPT ![lease[w].run] = {}]
        <3>1. Owners'[lease[w].run] = {}
            BY <1>2, <2>1
        <3>2. \A x \in Runs \ {lease[w].run} : Owners'[x] = Owners[x]
            BY <1>2, <2>2
        <3> QED
            BY <1>3, <2>1, <3>1, <3>2
    <2> QED
        BY <1>1, <1>4, <2>1, <2>3, LeaveSeen
<1>6. CASE ~Holds(w)
    <2>1. \A x \in Runs : w \notin Owners[x]
        BY <1>6 DEF Owners
    <2>2. \A x \in Runs : Owners'[x] = Owners[x]
        BY <1>2, <2>1
    <2>3. Owners' = Owners
        BY <1>3, <2>2
    <2> QED
        BY <1>1, <1>4, <2>3, Unseen
<1> QED
    BY <1>5, <1>6

\* The run ends: by its owner, or by the direct caller of one never queued.
LEMMA EndSeen ==
    ASSUME TypeOK, NEW r \in Runs, NEW into \in Terminal, status[r] = "RUNNING", EndRun(r, into),
           cancel[r] => into = "CANCELLED", Owners[r] # {} \/ state[r] = "NONE",
           UNCHANGED <<cancel, token, lease>>
    PROVE  Seen
<1> DEFINE s == IF state[r] = "NONE" THEN "NONE" ELSE "DONE"
<1>1. state' = [state EXCEPT ![r] = s] /\ s \in WorkStates \ {"CLAIMED"}
    BY DEF EndRun, WorkStates, TypeOK
<1>2. Owners' = [Owners EXCEPT ![r] = {}]
    BY <1>1, OwnersDropped
<1>3. Queued' = Queued
    BY <1>1, QueuedKept
<1>4. Promise!End(r, into)
    BY <1>2, <1>3 DEF Promise!End, EndRun, Queued
<1> QED
    BY <1>4 DEF Seen, Promise!Next, Terminal

-----------------------------------------------------------------------------
(* One lemma per action.                                                   *)

LEMMA StartSeen ==
    ASSUME TypeOK, NEW r \in Runs, NEW a \in Actors, StartRun(a, r)
    PROVE  Seen
<1>1. /\ state[r] = "NONE" /\ status[r] = "RUNNING"
      /\ state' = [state EXCEPT ![r] = "QUEUED"]
      /\ UNCHANGED <<status, cancel, token, lease>>
    BY DEF StartRun, worker
<1>2. "QUEUED" \in WorkStates \ {"CLAIMED"}
    BY DEF WorkStates
<1>3. Owners' = [Owners EXCEPT ![r] = {}]
    BY <1>1, <1>2, OwnersDropped
<1>4. Owners[r] = {} /\ Owners = [x \in Runs |-> Owners[x]]
    BY <1>1, Ownerless DEF Owners
<1>5. Owners' = Owners
    BY <1>3, <1>4
<1>6. Queued' = [Queued EXCEPT ![r] = TRUE] /\ ~Queued[r]
    BY <1>1 DEF Queued, TypeOK
<1>7. Promise!Enqueue(r)
    BY <1>1, <1>5, <1>6 DEF Promise!Enqueue
<1> QED
    BY <1>7 DEF Seen, Promise!Next

LEMMA RetrySeen ==
    ASSUME TypeOK, NEW r \in Runs, NEW a \in Actors, RetryRun(a, r)
    PROVE  Seen
<1>1. /\ state[r] = "STOPPED" /\ state' = [state EXCEPT ![r] = "QUEUED"]
      /\ UNCHANGED <<status, cancel, token, lease>>
    BY DEF RetryRun, worker
<1>2. "QUEUED" \in WorkStates \ {"CLAIMED"}
    BY DEF WorkStates
<1>3. Owners' = [Owners EXCEPT ![r] = {}]
    BY <1>1, <1>2, OwnersDropped
<1>4. Owners[r] = {} /\ Owners = [x \in Runs |-> Owners[x]]
    BY <1>1, Ownerless DEF Owners
<1>5. Owners' = Owners
    BY <1>3, <1>4
<1>6. Queued' = Queued
    BY <1>1, <1>2, QueuedKept
<1> QED
    BY <1>1, <1>5, <1>6, Unseen

LEMMA CancelSeen ==
    ASSUME TypeOK, NEW r \in Runs, CancelRun(r)
    PROVE  Seen
<1>1. /\ status[r] = "RUNNING" /\ cancel' = [cancel EXCEPT ![r] = TRUE]
      /\ UNCHANGED <<token, lease>>
    BY DEF CancelRun, worker
<1>2. CASE Unheld(r)
    <2>1. status' = [status EXCEPT ![r] = "CANCELLED"] /\ state' = [state EXCEPT ![r] = "DONE"]
        BY <1>2 DEF CancelRun
    <2>2. "DONE" \in WorkStates \ {"CLAIMED"}
        BY DEF WorkStates
    <2>3. Owners' = [Owners EXCEPT ![r] = {}]
        BY <1>1, <2>1, <2>2, OwnersDropped
    <2>4. Queued' = [Queued EXCEPT ![r] = TRUE]
        BY <2>1 DEF Queued, TypeOK
    <2>5. Promise!AskAndEnd(r)
        BY <1>1, <2>1, <2>3, <2>4 DEF Promise!AskAndEnd
    <2> QED
        BY <2>5 DEF Seen, Promise!Next
<1>3. CASE ~Unheld(r)
    <2>1. UNCHANGED <<status, state>>
        BY <1>3 DEF CancelRun
    <2>2. Owners' = Owners /\ Queued' = Queued
        BY <1>1, <2>1, OwnersKept
    <2>3. Queued[r]
        BY <1>3 DEF Unheld, Queued
    <2>4. Promise!Ask(r)
        BY <1>1, <2>1, <2>2, <2>3 DEF Promise!Ask
    <2> QED
        BY <2>4 DEF Seen, Promise!Next
<1> QED
    BY <1>2, <1>3

LEMMA ClaimSeen ==
    ASSUME TypeOK, FenceInv, StatusInv, NEW w \in Workers, Claim(w)
    PROVE  Seen
<1>1. PICK r \in Runs :
        /\ Claimable(r)
        /\ state' = [state EXCEPT ![r] = "CLAIMED"]
        /\ token' = [token EXCEPT ![r] = @ + 1]
        /\ lease' = [lease EXCEPT ![w] = [run |-> r, token |-> token[r] + 1]]
    BY DEF Claim
<1>2. pc[w] = "idle" /\ lease[w].run = NoRun /\ UNCHANGED <<status, cancel>>
    BY DEF Claim, FenceInv
<1>3. status[r] = "RUNNING" /\ state[r] # "NONE"
    BY <1>1, OpenRowRunning DEF Claimable
<1>4. \A x \in Runs : w \notin Owners[x]
    BY <1>2, NoRunFresh DEF Owners, Holds
<1>5. /\ \A x \in Runs : state'[x] = IF x = r THEN "CLAIMED" ELSE state[x]
      /\ \A x \in Runs : token'[x] = IF x = r THEN token[r] + 1 ELSE token[x]
      /\ \A v \in Workers :
           lease'[v] = IF v = w THEN [run |-> r, token |-> token[r] + 1] ELSE lease[v]
    BY <1>1 DEF TypeOK
<1>6. \A v \in Workers : (Holds(v) /\ lease[v].run = r)' <=> v = w
    <2>1. (Holds(w) /\ lease[w].run = r)'
        BY <1>5 DEF Holds
    <2>2. ASSUME NEW v \in Workers \ {w} PROVE ~(Holds(v) /\ lease[v].run = r)'
        <3>1. lease[v].run = r => lease[v].token <= token[r]
            BY DEF FenceInv
        <3>2. token[r] \in Nat /\ lease[v].token \in Nat
            BY DEF TypeOK, Leases
        <3>3. lease'[v] = lease[v] /\ token'[r] = token[r] + 1
            BY <1>5
        <3> QED
            BY <3>1, <3>2, <3>3 DEF Holds
    <2> QED
        BY <2>1, <2>2
<1>7. Owners'[r] = {w}
    BY <1>6 DEF Owners
<1>8. \A x \in Runs \ {r} : Owners'[x] = Owners[x]
    <2>1. \A v \in Workers, x \in Runs \ {r} :
            (Holds(v) /\ lease[v].run = x)' <=> (Holds(v) /\ lease[v].run = x)
        <3> SUFFICES ASSUME NEW v \in Workers, NEW x \in Runs \ {r}
                     PROVE  (Holds(v) /\ lease[v].run = x)' <=> (Holds(v) /\ lease[v].run = x)
            OBVIOUS
        <3>1. CASE v = w
            BY <1>2, <1>5, <3>1, NoRunFresh DEF Holds
        <3>2. CASE v # w
            BY <1>5, <3>2 DEF Holds
        <3> QED
            BY <3>1, <3>2
    <2> QED
        BY <2>1 DEF Owners
<1>9. Owners' = [Owners EXCEPT ![r] = {w}]
    <2>1. Owners = [x \in Runs |-> Owners[x]] /\ Owners' = [x \in Runs |-> Owners'[x]]
        BY DEF Owners
    <2> QED
        BY <1>7, <1>8, <2>1
<1>10. Queued' = Queued /\ Queued[r]
    BY <1>3, <1>5 DEF Queued
<1>11. Promise!Take(w, r)
    BY <1>2, <1>3, <1>4, <1>9, <1>10 DEF Promise!Take
<1> QED
    BY <1>11 DEF Seen, Promise!Next

LEMMA HolderEndSeen ==
    ASSUME TypeOK, OneHolder, NEW w \in Workers, Holds(w), NEW into \in Terminal,
           status[lease[w].run] = "RUNNING", EndRun(lease[w].run, into),
           cancel[lease[w].run] => into = "CANCELLED", UNCHANGED <<cancel, token, lease>>
    PROVE  Seen
    BY OneOwner, EndSeen

LEMMA SettleSeen ==
    ASSUME TypeOK, OneHolder, StatusInv, NEW w \in Workers, Settle(w)
    PROVE  Seen
<1>c. "CANCELLED" \in Terminal
    BY DEF Terminal
<1>1. CASE SettleLost(w)
    BY <1>1, OwnersKept, Unseen DEF SettleLost, GoForget, store
<1>2. CASE SettleCancel(w)
    <2>1. UNCHANGED <<cancel, token, lease>>
        BY <1>2 DEF SettleCancel, GoForget
    <2>2. CASE status[lease[w].run] = "RUNNING" /\ Holds(w)
        <3>1. EndRun(lease[w].run, "CANCELLED")
            BY <1>2, <2>2 DEF SettleCancel
        <3> QED
            BY <1>c, <2>1, <2>2, <3>1, HolderEndSeen
    <2>3. CASE ~(status[lease[w].run] = "RUNNING" /\ Holds(w))
        BY <1>2, <2>1, <2>3, OwnersKept, Unseen DEF SettleCancel
    <2> QED
        BY <2>2, <2>3
<1>3. CASE SettleReleased(w)
    BY <1>3, ReleaseSeen DEF SettleReleased, GoIdle
<1>4. CASE SettleStopping(w)
    BY <1>4, ReleaseSeen DEF SettleStopping, GoForget
<1>5. CASE SettleStop(w)
    <2>1. UNCHANGED <<cancel, token, lease>>
        BY <1>5 DEF SettleStop, GoForget
    <2>2. CASE ~Holds(w)
        BY <1>5, <2>1, <2>2, OwnersKept, Unseen DEF SettleStop
    <2>3. CASE Holds(w) /\ status[lease[w].run] = "RUNNING" /\ cancel[lease[w].run]
        <3>1. EndRun(lease[w].run, "CANCELLED")
            BY <1>5, <2>3 DEF SettleStop
        <3> QED
            BY <1>c, <2>1, <2>3, <3>1, HolderEndSeen
    <2>4. CASE Holds(w) /\ ~(status[lease[w].run] = "RUNNING" /\ cancel[lease[w].run])
        <3>1. state' = [state EXCEPT ![lease[w].run] = "STOPPED"] /\ status' = status
            BY <1>5, <2>4 DEF SettleStop
        <3> QED
            BY <2>1, <2>4, <3>1, DropSeen
    <2> QED
        BY <2>2, <2>3, <2>4
<1> QED
    BY <1>1, <1>2, <1>3, <1>4, <1>5 DEF Settle

LEMMA SettleFaultSeen ==
    ASSUME TypeOK, OneHolder, NEW w \in Workers, SettleFault(w)
    PROVE  Seen
<1>1. CASE GoForget(w, FALSE) /\ UNCHANGED store
    BY <1>1, OwnersKept, Unseen DEF GoForget, store
<1>2. CASE GoIdle(w) /\ UNCHANGED store
    BY <1>2, IdleSeen
<1>3. CASE Release(w, FALSE) /\ UNCHANGED <<status, token, cancel>>
    <2>1. lease' = lease \/ lease' = [lease EXCEPT ![w] = NoLease]
        BY DEF SettleFault, GoIdle, GoForget
    <2> QED
        BY <1>3, <2>1, ReleaseSeen
<1>4. GoForget(w, FALSE) \/ GoIdle(w)
    BY DEF SettleFault
<1>5. UNCHANGED store \/ (Release(w, FALSE) /\ UNCHANGED <<status, token, cancel>>)
    BY DEF SettleFault
<1> QED
    BY <1>1, <1>2, <1>3, <1>4, <1>5, Zenon

-----------------------------------------------------------------------------
(* The theorem.                                                            *)

LEMMA StepSeen == TypeOK /\ FenceInv /\ StatusInv /\ [Next]_vars => Seen
<1> SUFFICES ASSUME TypeOK, FenceInv, StatusInv, [Next]_vars PROVE Seen
    OBVIOUS
<1>h. OneHolder
    BY DEF FenceInv, OneHolder, Holds
<1>1. CASE UNCHANGED vars
    BY <1>1, OwnersKept, Unseen DEF vars, store, worker
<1>2. CASE Next
    <2>1. ASSUME NEW r \in Runs, NEW into \in Terminal, DirectEnd(r, into) PROVE Seen
        BY <2>1, EndSeen DEF DirectEnd, worker, StatusInv, CancelNeverParked
    <2>2. ASSUME NEW w \in Workers, NEW into \in {"COMPLETE", "BLOCKED"}, EndHeld(w, into)
          PROVE  Seen
        <3>1. into \in Terminal
            BY <2>2 DEF Terminal
        <3> QED
            BY <1>h, <2>2, <3>1, HolderEndSeen DEF EndHeld
    <2>3. ASSUME NEW r \in Runs, Lapse(r) PROVE Seen
        BY <2>3, OwnersKept, Unseen DEF Lapse, worker
    <2>4. ASSUME NEW w \in Workers,
                 \/ Checkpoint(w) \/ Renew(w) \/ FindEnded(w) \/ RefuseFenced(w)
                 \/ \E c \in Codes : RefusePass(w, c)
          PROVE  Seen
        BY <2>4, OwnersKept, Unseen
        DEF Checkpoint, Renew, FindEnded, RefuseFenced, RefusePass, store, worker
    <2>5. ASSUME NEW w \in Workers, DropEnded(w) \/ Forget(w) \/ Crash(w) PROVE Seen
        BY <1>h, <2>5, IdleSeen DEF DropEnded, Forget, Crash
    <2>6. ASSUME NEW w \in Workers,
                 \/ SettleLost(w) \/ SettleCancel(w) \/ SettleReleased(w)
                 \/ SettleStopping(w) \/ SettleStop(w)
          PROVE  Seen
        BY <1>h, <2>6, SettleSeen DEF Settle
    <2> QED
        BY <1>2, <1>h, <2>1, <2>2, <2>3, <2>4, <2>5, <2>6, StartSeen, RetrySeen, CancelSeen,
           ClaimSeen, SettleFaultSeen, NextCases, Zenon
<1> QED
    BY <1>1, <1>2

LEMMA InitSeen == Init => Promise!Init
    BY DEF Init, Promise!Init, Owners, Queued, Holds

\* The queue keeps its promise: one owner per run, ended by it or by a cancel
\* and never moved again (work.py, runs.py, worker.py).
THEOREM PromiseKept == Spec => KeepsPromise
<1>1. Spec => []TypeOK
    BY TypeCorrect
<1>2. Spec => []FenceInv
    BY TypeInit, TypeStep, FenceInit, FenceStep, PTL DEF Spec
<1>3. Spec => []StatusInv
    BY TypeInit, TypeStep, StatusInit, StatusStep, PTL DEF Spec
<1>4. TypeOK /\ FenceInv /\ StatusInv /\ [Next]_vars => [Promise!Next]_(Promise!vars)
    BY StepSeen DEF Seen
<1> QED
    BY <1>1, <1>2, <1>3, <1>4, InitSeen, PTL DEF Spec, KeepsPromise, Promise!Spec
=============================================================================
