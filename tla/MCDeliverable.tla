--------------------------- MODULE MCDeliverable ---------------------------
(***************************************************************************)
(* A build whose rules or renderer refuse what another accepted.           *)
(***************************************************************************)
EXTENDS Deliverable

CONSTANTS v1, v2, plain, quoted, drawn

Moved == [v \in Versions |-> [d \in Drafts |->
    IF v = v1 \/ d = plain THEN "OK" ELSE IF d = quoted THEN "RULE" ELSE "RENDER"]]

\* A fourth person, or a second revision; of the first two either may come first.
Acting == {u \in Users : request[u] # None \/ \E i \in DOMAIN trail : trail[i].by = u}
Combined ==
    /\ Len(revisions) < 2 \/ 4 \notin Acting
    /\ 3 \in Acting => {1, 2} \subseteq Acting
    /\ 4 \in Acting => 3 \in Acting
=============================================================================
