---------------------------- MODULE MCCallLedger ----------------------------
(***************************************************************************)
(* The call ledger on small instances.                                     *)
(***************************************************************************)
EXTENDS CallLedger, TLC

Symmetry == Permutations(Workers) \cup Permutations(Nodes)

\* What a behaviour combines: three disturbances of calls that end well; one,
\* with calls that end as they may; a third attempt after drops; or a second
\* node, with drops and bills over what the calls reserved.
Ended(kinds) == \A a \in Attempts : outcome[a] \in kinds \cup {"none"}
Late == \E n \in Nodes : started[n] > 2
Beside == \A n \in Nodes : started[n] > 0
Combined ==
    /\ faults <= 1 \/ Ended({"answered"})
    /\ Late => faults <= 1 /\ Ended({"drop", "answered"})
    /\ Beside => faults = 0 /\ Ended({"over", "drop"}) /\ ~Late
=============================================================================
