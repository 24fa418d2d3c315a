----------------------------- MODULE MCRunQueue -----------------------------
(***************************************************************************)
(* The run queue on small instances: its safety and liveness, its          *)
(* implementation of RunPromise, and the checkpoint threads it leaves when *)
(* no process dies and no queue write fails.                               *)
(***************************************************************************)
EXTENDS RunQueue, TLC

Symmetry == Permutations(Workers) \cup Permutations(Actors)

\* Nobody crashes and the store takes every settling write.
OrderlySpec ==
    Init /\ [][CommandNext \/ ClockNext \/ \E w \in Workers : Pass(w)]_vars
=============================================================================
