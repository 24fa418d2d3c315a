------------------------------ MODULE RouteRun ------------------------------
(***************************************************************************)
(* How a run walks its pinned route (caos/graph/build.py, runtime.py): the *)
(* graph is a chain over the route's nodes in dependency order; each       *)
(* node's turn recomputes the frontier from the accepted attempts and runs *)
(* the node or skips it; finish ends the run.  A checkpoint thread, which  *)
(* no lease fences, remembers only the position, and another worker may    *)
(* resume from it.                                                         *)
(*                                                                         *)
(* Accept is a whole paid attempt at the node (CallLedger), of which only  *)
(* the fence and the result matter here.  Parks, releases and claims are   *)
(* RunQueue's: a run nobody holds may be claimed, and a lease may lapse.   *)
(***************************************************************************)
EXTENDS Naturals, Sequences

CONSTANTS
    Nodes,      \* the modules of the route, one node each
    Edges,      \* the typed edges among them
    Order,      \* the route's nodes, as dependency_order lists them
    Gate,       \* GATE_MODULE, whose artifact carries the readiness rows
    Wanted,     \* the nodes that retain a named-object boundary
    Offers,     \* the <<source, target>> whose source offers an object target accepts
    Readings,   \* the readiness verdicts the gate may give
    Workers,
    NoWorker,
    NoNode

EdgeTypes == {"REQUIRED", "CONDITIONAL", "QA_GATE", "OPTIONAL", "ADVISORY"}
Blocking == {"REQUIRED", "CONDITIONAL", "QA_GATE"}
Ready == {"READY", "READY_WITH_LIMITATIONS"}
Readiness == Ready \cup {"CONDITIONAL", "BLOCKED", "NONE"}
Silent == [n \in Nodes |-> "NONE"]

ASSUME EdgesTyped == Edges \subseteq [source : Nodes, target : Nodes, type : EdgeTypes]
ASSUME OrderLists == Order \in Seq(Nodes) /\ \A n \in Nodes : \E i \in 1..Len(Order) : Order[i] = n
ASSUME OrderTopological ==
    \A i, j \in 1..Len(Order) :
        /\ Order[i] = Order[j] => i = j
        /\ \A e \in Edges : e.source = Order[i] /\ e.target = Order[j] => i < j
ASSUME GateIsNode == Gate \in Nodes
ASSUME ReadingsAre == Readings \subseteq [Nodes -> Readiness]
ASSUME Fresh == NoWorker \notin Workers /\ NoNode \notin Nodes

VARIABLES
    status, verdict,    \* runs.status; the node whose Blocked answer ended it
    accepted,           \* the nodes with an accepted attempt
    readiness,          \* what the accepted gate artifact says of each node
    passed,             \* the accepted nodes whose qa_status meets a QA_GATE edge
    holder,             \* the worker whose lease the run's row carries
    thread,             \* the checkpointed position, 0 with no thread
    pc, pos             \* each worker's step, and its position in the chain

run == <<status, verdict>>
artifacts == <<accepted, readiness, passed>>
vars == <<run, artifacts, holder, thread, pc, pos>>

End == Len(Order) + 1

TypeOK ==
    /\ status \in {"RUNNING", "COMPLETE", "BLOCKED", "CANCELLED"}
    /\ verdict \in Nodes \cup {NoNode}
    /\ accepted \subseteq Nodes
    /\ readiness \in [Nodes -> Readiness]
    /\ passed \subseteq accepted
    /\ holder \in Workers \cup {NoWorker}
    /\ thread \in 0..End
    /\ pc \in [Workers -> {"idle", "node", "run", "step", "finish", "ended"}]
    /\ pos \in [Workers -> 1..End]
    /\ \A w \in Workers : pc[w] \in {"node", "run", "step"} => pos[w] < End
    /\ \A w \in Workers : pc[w] = "finish" => pos[w] = End

Init ==
    /\ status = "RUNNING" /\ verdict = NoNode
    /\ accepted = {} /\ readiness = Silent /\ passed = {}
    /\ holder = NoWorker
    /\ thread = 0
    /\ pc = [w \in Workers |-> "idle"]
    /\ pos = [w \in Workers |-> 1]

-----------------------------------------------------------------------------
(* The engine's word on a node, recomputed from the accepted attempts.     *)

\* _unmet: the edges into n whose source is not accepted, or not passed by QA.
Unmet(n) ==
    {e \in Edges :
        /\ e.target = n
        /\ \/ e.source \notin accepted
           \/ e.type = "QA_GATE" /\ e.source \notin passed}

\* An unmet edge that stops its target: blocking, or soft with its evidence there.
Stops(e) == e.type \in Blocking \/ readiness[e.source] \in Ready

\* _named_object_met
ObjectMet(n) ==
    n \in Wanted =>
        \E e \in Edges :
            e.target = n /\ e.source \in accepted /\ <<e.source, n>> \in Offers

\* Mutant: a gate row that is not READY does not stop its node.
BlockedUngated(n) ==
    \/ \E e \in Unmet(n) : Stops(e)
    \/ ~ObjectMet(n)

\* node_states' BLOCKED, of a node not accepted.
Blocked(n) ==
    \/ readiness[n] \notin Ready \cup {"NONE"}
    \/ \E e \in Unmet(n) : Stops(e)
    \/ ~ObjectMet(n)

\* frontier: RUNNABLE or RESTRICTED.
Frontier == {n \in Nodes : n \notin accepted /\ ~Blocked(n)}

-----------------------------------------------------------------------------
(* A worker's walk.                                                        *)

Here(w) == Order[pos[w]]
Go(w, p) == pc' = [pc EXCEPT ![w] = p]

\* Mutant: the last node's edge does not lead to finish.
GoToNode(p) == "node"

\* The chain: after the last node, finish.
GoTo(p) == IF p = End THEN "finish" ELSE "node"

\* Mutant: a thread is resumed after its pending node.
ResumePast == IF thread = 0 THEN 1 ELSE IF thread = End THEN End ELSE thread + 1

\* resume_input: the pending position, or the start with no thread.
Resume == IF thread = 0 THEN 1 ELSE thread

\* claim_run, of a run nobody drives or whose lease lapsed under its holder.
Claim(w) ==
    /\ pc[w] = "idle"
    /\ status = "RUNNING"
    /\ holder' = w
    /\ pos' = [pos EXCEPT ![w] = Resume]
    /\ Go(w, GoTo(Resume))
    /\ UNCHANGED <<run, artifacts, thread>>

\* Mutant: the chain's word is taken, and the store is not asked again.
LookTrusting(w) ==
    /\ pc[w] = "node"
    /\ Go(w, IF Here(w) \in accepted THEN "step" ELSE "run")
    /\ UNCHANGED <<run, artifacts, holder, thread, pos>>

\* node_pass: the frontier, from the store, unfenced.
Look(w) ==
    /\ pc[w] = "node"
    /\ Go(w, IF Here(w) \in Frontier THEN "run" ELSE "step")
    /\ UNCHANGED <<run, artifacts, holder, thread, pos>>

\* accept_attempt: the holder's, once per node; an ended run takes nothing and
\* says so to nobody.
Accept(w) ==
    /\ pc[w] = "run"
    /\ status = "RUNNING" => holder = w /\ Here(w) \notin accepted
    /\ IF status # "RUNNING" THEN UNCHANGED artifacts
       ELSE /\ accepted' = accepted \cup {Here(w)}
            /\ passed' \in {passed, passed \cup {Here(w)}}
            /\ IF Here(w) = Gate THEN readiness' \in Readings ELSE UNCHANGED readiness
    /\ Go(w, "step")
    /\ UNCHANGED <<run, holder, thread, pos>>

\* _block_on: a validated Blocked answer ends the run, and the graph.
BlockOn(w) ==
    /\ pc[w] = "run"
    /\ status = "RUNNING" => holder = w
    /\ IF status = "RUNNING"
         THEN status' = "BLOCKED" /\ verdict' = Here(w) /\ holder' = NoWorker
         ELSE UNCHANGED <<run, holder>>
    /\ Go(w, "ended")
    /\ UNCHANGED <<artifacts, thread, pos>>

\* The node returned and LangGraph writes the next position, whoever holds.
Advance(w) ==
    /\ pc[w] = "step"
    /\ thread' = pos[w] + 1
    /\ pos' = [pos EXCEPT ![w] = @ + 1]
    /\ Go(w, GoTo(pos[w] + 1))
    /\ UNCHANGED <<run, artifacts, holder>>

\* finish: decided from the accepted set and derived again under the run lock
\* (_require_terminal_decision); an ended run's own word is reported.
Finish(w) ==
    /\ pc[w] = "finish"
    /\ status = "RUNNING" => holder = w
    /\ IF status = "RUNNING"
         THEN /\ status' = IF accepted = Nodes THEN "COMPLETE" ELSE "BLOCKED"
              /\ holder' = NoWorker
              /\ UNCHANGED verdict
         ELSE UNCHANGED <<run, holder>>
    /\ Go(w, "ended")
    /\ UNCHANGED <<artifacts, thread, pos>>

\* The pass is refused by the fence, the node's work or the store: the run is
\* parked or released, and its thread, if it was this worker's, may be forgotten.
Leave(w) ==
    /\ pc[w] \in {"node", "run", "finish"}
    /\ Go(w, "idle")
    /\ thread' \in (IF holder = w \/ status # "RUNNING" THEN {thread, 0} ELSE {thread})
    /\ holder' = IF holder = w THEN NoWorker ELSE holder
    /\ UNCHANGED <<run, artifacts, pos>>

\* run_route deletes the thread of a graph that ended.
DropThread(w) ==
    /\ pc[w] = "ended"
    /\ thread' = 0
    /\ Go(w, "idle")
    /\ UNCHANGED <<run, artifacts, holder, pos>>

\* The process dies between any two steps.
Crash(w) ==
    /\ pc[w] # "idle"
    /\ Go(w, "idle")
    /\ holder' = IF holder = w THEN NoWorker ELSE holder
    /\ UNCHANGED <<run, artifacts, thread, pos>>

\* The cancel of the command or of the holder, which forgets the thread.
Cancel ==
    /\ status = "RUNNING"
    /\ status' = "CANCELLED"
    /\ holder' = NoWorker
    /\ thread' = 0
    /\ UNCHANGED <<verdict, artifacts, pc, pos>>

Next ==
    \/ \E w \in Workers :
        \/ Claim(w) \/ Look(w) \/ Accept(w) \/ BlockOn(w) \/ Advance(w)
        \/ Finish(w) \/ Leave(w) \/ DropThread(w) \/ Crash(w)
    \/ Cancel

Spec == Init /\ [][Next]_vars

-----------------------------------------------------------------------------
(* Invariant 6 and section 39: the position is a hint, the store the word. *)

\* A run ends for the reason its row says: COMPLETE with every node accepted;
\* BLOCKED by finish with a node left and none that could still run, however the
\* chain was resumed; BLOCKED on an answer of a node that could run and has none.
EndedForReason ==
    /\ status = "COMPLETE" => accepted = Nodes
    /\ status = "BLOCKED" /\ verdict = NoNode => accepted # Nodes /\ Frontier = {}
    /\ status = "BLOCKED" /\ verdict # NoNode => verdict \in Frontier

\* The frontier is read before the call and the answer accepted after it: at that
\* moment the node may still run, and it is accepted under no other.
AcceptedFromFrontier ==
    [][accepted' \subseteq accepted \cup Frontier]_vars

\* The rules of the route, of every accepted node and for good: what blocks it is
\* accepted and has passed where the edge asks, the object its boundary names is
\* there, and, where the gate comes first, the gate let it run and it went
\* without no soft input whose evidence the gate found.
AcceptedOnItsInputs ==
    \A n \in accepted :
        /\ n \in Wanted => \E s \in accepted : <<s, n>> \in Offers
        /\ Order[1] = Gate /\ n # Gate => readiness[n] \notin {"CONDITIONAL", "BLOCKED"}
        /\ \A e \in Edges : e.target = n =>
             /\ e.type \in Blocking => e.source \in accepted
             /\ e.type = "QA_GATE" => e.source \in passed
             /\ Order[1] = Gate /\ readiness[e.source] \in Ready => e.source \in accepted
=============================================================================
