----------------------------- MODULE MCRouteRun -----------------------------
(***************************************************************************)
(* A route is resolved, or one is walked: the two share no state, so a     *)
(* behaviour does one or the other.                                        *)
(*                                                                         *)
(* Resolution is over every profile of four modules: the gate, the model   *)
(* extension, its one owner, and a module of neither, whose stages are not *)
(* in the order its edges may ask for.  The walk is of a route of five     *)
(* nodes shaped as the catalog's pathways are: a gate every node needs, a  *)
(* soft input, a QA gate and a named object; node 2 comes behind node 3 in *)
(* its order, though its stage is the lower.                               *)
(***************************************************************************)
EXTENDS RouteRun, Route, TLC

VARIABLE part

MCNodes == 0..4
MCEdges ==
    LET Edge(s, t, k) == [source |-> s, target |-> t, type |-> k] IN
    {Edge(0, 1, "REQUIRED"), Edge(0, 3, "REQUIRED"), Edge(1, 2, "REQUIRED"),
     Edge(3, 2, "OPTIONAL"), Edge(2, 4, "QA_GATE"), Edge(3, 4, "ADVISORY")}

\* As dependency_order lists them.
MCOrder == <<0, 1, 3, 2, 4>>

MCStage == <<3, 2, 2>> @@ (0 :> 1)
MCConditional == {<<2, 1>>}

MCReadings ==
    {[Silent EXCEPT ![3] = a, ![2] = b, ![4] = c] :
        a \in Readiness, b \in {"NONE", "READY_WITH_LIMITATIONS", "CONDITIONAL"},
        c \in {"READY", "BLOCKED"}}
MCOffers == {<<3, 2>>}
Symmetry == Permutations(Workers)

Walking ==
    /\ part = "walk"
    /\ profile = {} /\ pathway = <<>> /\ extended = FALSE /\ route = Unresolved
Resolving == part = "resolve" /\ RouteInit

MCInit == Init /\ (Walking \/ Resolving)
MCNext ==
    \/ part = "walk" /\ Next /\ UNCHANGED <<part, routeVars>>
    \/ part = "resolve" /\ ResolveRoute /\ UNCHANGED <<part, vars>>
MCSpec == MCInit /\ [][MCNext]_<<part, routeVars, vars>>
=============================================================================
