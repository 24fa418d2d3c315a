------------------------------- MODULE Route -------------------------------
(***************************************************************************)
(* How a route is resolved (caos/graph/route.py, resolve_route): the       *)
(* pathway's modules and the host's model extension, the profile's edges   *)
(* among them, and dependency_order over both.  A profile's edges are      *)
(* enumerated, the pathways too; the route resolved is a function of them. *)
(***************************************************************************)
EXTENDS Integers, FiniteSets, SequencesExt

CONSTANTS
    Modules,      \* the modules of the catalog, numbered in the order of route node ids
    Stage,        \* each module's stage
    GateModule,   \* GATE_MODULE
    Model,        \* MODEL_MODULE, the host's extension
    Owners,       \* MODEL_OWNERS
    Conditional,  \* the <<source, target>> the profile types CONDITIONAL
    MaxNodes      \* bound: the nodes of a pathway

ASSUME ModulesNumbered == Modules \subseteq Nat /\ Stage \in [Modules -> Int]
ASSUME ModulesNamed == GateModule \in Modules /\ Model \in Modules /\ Owners \subseteq Modules
ASSUME NodesBounded == MaxNodes \in Nat

VARIABLES
    profile,      \* the profile's edges, as <<source, target>>
    pathway,      \* the pathway's nodes, by module, in the catalog's order
    extended,     \* whether the model extension was asked for
    route         \* what resolve_route answered

routeVars == <<profile, pathway, extended, route>>

Unresolved == [refused |-> "UNRESOLVED", order |-> <<>>, edges |-> {}]
Refused(c) == [Unresolved EXCEPT !.refused = c]

\* The key dependency_order breaks ties on.
Before(m, n) == Stage[m] < Stage[n] \/ (Stage[m] = Stage[n] /\ m < n)

\* A round's nodes, sorted.
InOrder(round) ==
    CHOOSE s \in SetToSeqs(round) : \A i, j \in DOMAIN s : i < j => Before(s[i], s[j])

Sources(edges, n) == {e[1] : e \in {x \in edges : x[2] = n}}

\* What the sorter has given out after each round: whatever has no source left.
Given(nodes, edges) ==
    LET given[k \in 0..Cardinality(nodes)] ==
          IF k = 0 THEN {}
          ELSE given[k - 1] \cup {n \in nodes : Sources(edges, n) \subseteq given[k - 1]}
    IN given

\* Mutant: one round too few, and a chain of every node is taken for a cycle.
HasCycleShort(nodes, edges) == Given(nodes, edges)[Cardinality(nodes) - 1] # nodes

\* CycleError: the sorter gives out nothing more and nodes are left.
HasCycle(nodes, edges) == Given(nodes, edges)[Cardinality(nodes)] # nodes

\* Mutant: the nodes are sorted once, whatever the edges among them.
OrderByStage(nodes, edges) == InOrder(nodes)

\* dependency_order: round by round, each sorted by stage and node id.
DependencyOrder(nodes, edges) ==
    LET given == Given(nodes, edges)
        listed[k \in 0..Cardinality(nodes)] ==
          IF k = 0 THEN <<>>
          ELSE listed[k - 1] \o InOrder(given[k] \ given[k - 1])
    IN listed[Cardinality(nodes)]

\* resolve_route: the extension's own refusal, then the edges', then the order's.
Resolve ==
    LET listed == IF extended THEN Append(pathway, Model) ELSE pathway
        nodes == ToSet(listed)
        among == profile \cap (nodes \X nodes)
        edges == IF extended THEN among \cup ((Owners \cup {GateModule}) \X {Model}) ELSE among
    IN
    IF extended /\ ~(Owners \subseteq ToSet(pathway))
      THEN Refused("ROUTE_EXTENSION_OWNER_MISSING")
    ELSE IF among \cap Conditional # {} THEN Refused("ROUTE_EDGE_UNSUPPORTED")
    ELSE IF ~IsInjective(listed) THEN Refused("ROUTE_DUPLICATE_MODULE")
    ELSE IF HasCycle(nodes, edges) THEN Refused("ROUTE_HAS_A_CYCLE")
    ELSE [refused |-> "OK", order |-> DependencyOrder(nodes, edges), edges |-> edges]

RouteInit ==
    /\ profile \in SUBSET {e \in Modules \X Modules : e[1] # e[2]}
    /\ pathway \in {s \in BoundedSeq(Modules, MaxNodes) : GateModule \in ToSet(s)}
    /\ extended \in BOOLEAN
    /\ route = Unresolved

ResolveRoute ==
    /\ route = Unresolved
    /\ route' = Resolve
    /\ UNCHANGED <<profile, pathway, extended>>

RouteSpec == RouteInit /\ [][ResolveRoute]_routeVars

-----------------------------------------------------------------------------
\* A resolved route is a closed list: each of its modules once, every edge's
\* source ahead of its target, and the model extension behind all it reads.
OrderSound ==
    route.refused = "OK" =>
        LET at == [i \in DOMAIN route.order |-> route.order[i]] IN
        /\ IsInjective(at)
        /\ ToSet(at) = ToSet(pathway) \cup (IF extended THEN {Model} ELSE {})
        /\ \A i, j \in DOMAIN at : <<at[i], at[j]>> \in route.edges => i < j
        /\ extended => \A m \in Owners \cup {GateModule} :
             \E i, j \in DOMAIN at : at[i] = m /\ at[j] = Model /\ i < j

\* A route is refused as a cycle exactly when a chain of its edges closes: some
\* set of its modules in which each has a source of its own.
CycleRefused ==
    LET nodes == ToSet(pathway) \cup (IF extended THEN {Model} ELSE {})
        closes == \E S \in (SUBSET nodes) \ {{}} :
                    \A n \in S : \E s \in S :
                        <<s, n>> \in profile \/ (extended /\ n = Model /\ s \in Owners \cup {GateModule})
    IN route.refused \in {"OK", "ROUTE_HAS_A_CYCLE"} =>
         (route.refused = "ROUTE_HAS_A_CYCLE") = closes

\* An answered route lists each of its modules once, behind its sources, the
\* model extension behind all it reads; one is refused as a cycle exactly when a
\* chain of its edges closes (resolve_route, dependency_order).
ResolvedSound == OrderSound /\ CycleRefused
=============================================================================
