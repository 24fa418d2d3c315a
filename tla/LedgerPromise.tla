---------------------------- MODULE LedgerPromise ----------------------------
(***************************************************************************)
(* What the ledger of paid calls promises of every node's attempts, without *)
(* workers, leases, locks, marks or retries: an attempt is called for once, *)
(* while it is its node's newest; what its call cost is written once; and   *)
(* the node is tried again only when no call for it is out, nothing is paid *)
(* and undecided, and no answer was accepted.                               *)
(***************************************************************************)
EXTENDS Naturals

CONSTANTS Nodes, MaxOrdinal

VARIABLES
    status,     \* RUNNING, or how the run ended
    fate,       \* of each attempt
    loose       \* the attempts whose call a disturbance left uncovered

vars == <<status, fate, loose>>

(* An attempt is begun (open) and called for (out); given up before its     *)
(* bill, nothing more is known of it (dark).  Billed, it cost nothing       *)
(* (free), was charged without its answer (lost), or was paid, and then     *)
(* refused or accepted.                                                     *)
Fates == {"unused", "open", "out", "dark", "free", "lost", "paid", "refused", "accepted"}
Attempts == Nodes \X (1..MaxOrdinal)
Beside(a) == {b \in Attempts : b[1] = a[1] /\ b # a}

Running == status = "RUNNING"
Becomes(a, f) == fate' = [fate EXCEPT ![a] = f]

Init ==
    /\ status = "RUNNING"
    /\ fate = [a \in Attempts |-> "unused"]
    /\ loose = {}

Try(a) ==
    /\ Running
    /\ fate[a] = "unused"
    /\ \A b \in Beside(a) :
        /\ b[2] < a[2] => fate[b] # "unused"
        /\ fate[b] \notin {"paid", "lost", "accepted"}
        /\ fate[b] = "out" => b \in loose
    /\ Becomes(a, "open")
    /\ UNCHANGED <<status, loose>>

CallOut(a) ==
    /\ Running
    /\ fate[a] = "open"
    /\ \A b \in Beside(a) : b[2] > a[2] => fate[b] = "unused"
    /\ Becomes(a, "out")
    /\ UNCHANGED <<status, loose>>

GiveUp(a) ==
    /\ fate[a] \in {"open", "out"}
    /\ Becomes(a, "dark")
    /\ UNCHANGED <<status, loose>>

\* The bill comes when it comes, a run that ended or not.
Bill(a) ==
    /\ fate[a] = "out"
    /\ \E f \in {"free", "lost", "paid"} : Becomes(a, f)
    /\ loose' \in {loose, loose \cup {a}}
    /\ UNCHANGED status

Loosen(a) ==
    /\ fate[a] # "unused"
    /\ loose' = loose \cup {a}
    /\ UNCHANGED <<status, fate>>

Refuse(a) ==
    /\ Running
    /\ fate[a] = "paid"
    /\ Becomes(a, "refused")
    /\ UNCHANGED <<status, loose>>

Accept(a) ==
    /\ Running
    /\ fate[a] = "paid"
    /\ \A b \in Beside(a) : fate[b] # "accepted"
    /\ Becomes(a, "accepted")
    /\ UNCHANGED <<status, loose>>

\* Complete with an answer accepted of every node, blocked on one that was paid.
End(into) ==
    /\ Running
    /\ into = "COMPLETE" => \A n \in Nodes : \E a \in Attempts : a[1] = n /\ fate[a] = "accepted"
    /\ into = "BLOCKED" => \E a \in Attempts : fate[a] = "paid"
    /\ status' = into
    /\ UNCHANGED <<fate, loose>>

Next ==
    \/ \E a \in Attempts :
        Try(a) \/ CallOut(a) \/ GiveUp(a) \/ Bill(a) \/ Loosen(a) \/ Refuse(a) \/ Accept(a)
    \/ \E into \in {"COMPLETE", "BLOCKED", "CANCELLED"} : End(into)

Spec == Init /\ [][Next]_vars
=============================================================================
