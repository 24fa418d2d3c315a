----------------------------- MODULE RunPromise -----------------------------
(***************************************************************************)
(* What the run queue promises of every run, without leases, tokens or a   *)
(* clock: a run has at most one owner, only its owner brings a queued run  *)
(* to COMPLETE or BLOCKED, a run asked to cancel ends CANCELLED, and an    *)
(* ended run never moves again.                                            *)
(***************************************************************************)
CONSTANTS Runs, Workers

VARIABLES
    status,   \* RUNNING, or how the run ended
    asked,    \* whether a cancel was acknowledged
    queued,   \* whether the run was ever handed to the queue
    owner     \* the workers whose writes the run takes: none, or one

vars == <<status, asked, queued, owner>>

Init ==
    /\ status = [r \in Runs |-> "RUNNING"]
    /\ asked = [r \in Runs |-> FALSE]
    /\ queued = [r \in Runs |-> FALSE]
    /\ owner = [r \in Runs |-> {}]

Enqueue(r) ==
    /\ status[r] = "RUNNING"
    /\ ~queued[r]
    /\ queued' = [queued EXCEPT ![r] = TRUE]
    /\ UNCHANGED <<status, asked, owner>>

Ask(r) ==
    /\ status[r] = "RUNNING"
    /\ queued[r]
    /\ asked' = [asked EXCEPT ![r] = TRUE]
    /\ UNCHANGED <<status, queued, owner>>

\* A worker drives one run at a time.
Take(w, r) ==
    /\ status[r] = "RUNNING"
    /\ queued[r]
    /\ \A x \in Runs : w \notin owner[x]
    /\ owner' = [owner EXCEPT ![r] = {w}]
    /\ UNCHANGED <<status, asked, queued>>

\* The owner gives the run up: released, parked or gone.
Leave(r) ==
    /\ owner[r] # {}
    /\ owner' = [owner EXCEPT ![r] = {}]
    /\ UNCHANGED <<status, asked, queued>>

\* The owner, or the direct caller of a run that was never queued.
End(r, into) ==
    /\ status[r] = "RUNNING"
    /\ asked[r] => into = "CANCELLED"
    /\ owner[r] # {} \/ ~queued[r]
    /\ status' = [status EXCEPT ![r] = into]
    /\ owner' = [owner EXCEPT ![r] = {}]
    /\ UNCHANGED <<asked, queued>>

\* A cancel that found nobody driving the run.
AskAndEnd(r) ==
    /\ status[r] = "RUNNING"
    /\ status' = [status EXCEPT ![r] = "CANCELLED"]
    /\ asked' = [asked EXCEPT ![r] = TRUE]
    /\ queued' = [queued EXCEPT ![r] = TRUE]
    /\ owner' = [owner EXCEPT ![r] = {}]

Next ==
    \E r \in Runs :
        \/ Enqueue(r) \/ Ask(r) \/ Leave(r) \/ AskAndEnd(r)
        \/ \E w \in Workers : Take(w, r)
        \/ \E into \in {"COMPLETE", "BLOCKED", "CANCELLED"} : End(r, into)

Spec == Init /\ [][Next]_vars
=============================================================================
