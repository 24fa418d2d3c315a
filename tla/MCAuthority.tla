---------------------------- MODULE MCAuthority ----------------------------
(***************************************************************************)
(* Two people, two copies of one document and three runs, on small         *)
(* instances.                                                              *)
(***************************************************************************)
EXTENDS Availability, TLC

CONSTANTS a, b, r1, r2, r3, w1, w2, b1, b2, d1, o1, o2

OneDocument == [s \in Sources |-> d1]
TwoOutputs == [s \in Sources |-> IF s = 2 THEN o2 ELSE o1]
ByName == [w \in Workers |-> IF w = w1 THEN b1 ELSE b2]

\* What a behaviour combines: a second copy with a second person, or a second
\* run, or a disturbance, and with a second copy while both are only pinned.  A
\* third run, and two people before a second, come where runs have blocked, of one
\* copy, and the others are still to be pinned: any of these may answer any of those.
Acting(u) ==
    \/ shown[u] # None
    \/ unit # None /\ unit.by = u
    \/ \E r \in Runs : place[r] = u \/ \E g \in Gate : gates[r][g] # None /\ gates[r][g].by = u
Alone == \E u \in Users : ~Acting(u) /\ standing[u] = "WRITER"
TwoCopies == \A s \in Sources : source[s] # "NEW"
Many == Cardinality(Created) > 1
Answering ==
    /\ faults = 0 /\ ~TwoCopies
    /\ \E r \in Created : status[r] = "BLOCKED"
    /\ \A r \in Created : status[r] = "BLOCKED" \/ pin[r] = None
Combined ==
    Answering \/
        /\ Cardinality(Created) < 3
        /\ Many \/ faults > 0 =>
            /\ Alone
            /\ Many => faults = 0
            /\ TwoCopies => faults = 0 /\ \A r \in Runs : work[r] = "NONE"

Symmetry == Permutations(Users) \cup Permutations(Runs)
=============================================================================
