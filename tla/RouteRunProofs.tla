--------------------------- MODULE RouteRunProofs ---------------------------
(***************************************************************************)
(* The walk is sound for every route, every readiness verdict and any      *)
(* number of workers.  The heart of it: acceptance only ever unblocks      *)
(* nodes further on, so a node once passed over stays out of the frontier, *)
(* and a position, however stale the worker that wrote it, never leaves a  *)
(* node behind it that could still run.                                    *)
(*                                                                         *)
(* And what Route promises, for every catalog, profile and pathway: a      *)
(* route that is answered is a topological order of its modules, and one   *)
(* is refused as a cycle exactly when a chain of its edges closes.  The    *)
(* recursive functions are spelled out: what the sorter has given out by   *)
(* each round grows, is closed under sources, and stops growing only when  *)
(* it can; what is listed by each round is what was given by then.         *)
(***************************************************************************)
EXTENDS RouteRun, Route, FunctionTheorems, FiniteSetTheorems, WellFoundedInduction, TLAPS

Passed(p) == \A i \in 1..Len(Order) : i < p => Order[i] \notin Frontier

\* Only the gate's artifact speaks of readiness.
SilentUntilGate == Gate \notin accepted => readiness = Silent

\* Nothing behind a position may run: the thread's, a worker's, and its own
\* node once its turn is over.
BehindThread == status = "RUNNING" => Passed(thread)
BehindWorkers == status = "RUNNING" => \A w \in Workers : Passed(pos[w])
BehindSteps == status = "RUNNING" => \A w \in Workers : pc[w] = "step" => Here(w) \notin Frontier

\* The holder's node is still what its frontier read found: nobody else accepts.
HolderRuns == \A w \in Workers : pc[w] = "run" /\ holder = w => Here(w) \in Frontier
HeldRuns == holder # NoWorker => status = "RUNNING"
Undecided == status = "RUNNING" => verdict = NoNode

\* A gate that comes first is accepted first, or cannot be at all.
GateFirst == Order[1] = Gate /\ Gate \in Frontier => accepted = {}

IInv ==
    /\ TypeOK /\ SilentUntilGate /\ BehindThread /\ BehindWorkers /\ BehindSteps
    /\ HolderRuns /\ HeldRuns /\ Undecided /\ GateFirst /\ EndedForReason
    /\ AcceptedOnItsInputs

-----------------------------------------------------------------------------
(* The order and the frontier.                                             *)

LEMMA OrderFacts ==
    /\ Len(Order) \in Nat
    /\ \A i \in 1..Len(Order) : Order[i] \in Nodes
    /\ \A n \in Nodes : \E i \in 1..Len(Order) : Order[i] = n
  BY OrderLists

\* What _step and finish are handed: a position in the chain, or its end.
LEMMA Positions == End \in Nat /\ 1 \in 0..End /\ 1 \in 1..End
  BY OrderFacts DEF End

\* The frontier is a function of the accepted artifacts.
LEMMA SameFrontier == ASSUME UNCHANGED artifacts PROVE Frontier' = Frontier
  BY DEF artifacts, Frontier, Blocked, Unmet, Stops, ObjectMet

\* The acceptance of a node, as Accept makes it.
Accepts(n) ==
    /\ accepted' = accepted \cup {n}
    /\ passed' \in {passed, passed \cup {n}}
    /\ IF n = Gate THEN readiness' \in Readings ELSE UNCHANGED readiness

\* A readiness row that speaks is not spoken twice.
LEMMA SpokenOnce ==
    ASSUME NEW n \in Nodes, NEW m \in Nodes, n \notin accepted, Accepts(n), SilentUntilGate,
           readiness[m] # "NONE"
    PROVE  readiness'[m] = readiness[m]
  BY GateIsNode DEF Accepts, SilentUntilGate, Silent

\* An accepted node stops nothing behind it from staying blocked.
LEMMA StaysBlocked ==
    ASSUME TypeOK, SilentUntilGate, NEW i \in 1..Len(Order), NEW j \in 1..Len(Order), i < j,
           Order[j] \notin accepted, Accepts(Order[j]), Order[i] \notin Frontier
    PROVE  Order[i] \notin Frontier'
<1> DEFINE m == Order[i]
           n == Order[j]
<1>1. m \in Nodes /\ n \in Nodes
  BY OrderFacts
<1>2. CASE m \in accepted
  BY <1>2 DEF Frontier, Accepts
<1>3. CASE readiness[m] \notin Ready \cup {"NONE"}
  <2>1. readiness'[m] = readiness[m]
    BY <1>1, <1>3, SpokenOnce
  <2> QED
    BY <2>1, <1>3 DEF Frontier, Blocked
<1>4. ASSUME NEW e \in Unmet(m), Stops(e) PROVE m \notin Frontier'
  <2>1. e \in Edges /\ e.target = m /\ e.source \in Nodes
    BY EdgesTyped DEF Unmet
  <2>2. e.source # n
    BY <2>1, OrderTopological
  <2>3. e \in Unmet(m)'
    BY <2>1, <2>2, <1>4 DEF Unmet, Accepts
  <2>4. Stops(e)'
    <3>1. CASE e.type \in Blocking
      BY <3>1 DEF Stops
    <3>2. CASE readiness[e.source] \in Ready
      <4>1. readiness'[e.source] = readiness[e.source]
        BY <3>2, <2>1, <1>1, SpokenOnce DEF Ready
      <4> QED
        BY <4>1, <3>2 DEF Stops
    <3> QED
      BY <3>1, <3>2, <1>4 DEF Stops
  <2> QED
    BY <2>3, <2>4 DEF Frontier, Blocked
<1>5. CASE ~ObjectMet(m)
  <2>1. ASSUME NEW e \in Edges, e.target = m PROVE e.source # n
    BY <2>1, OrderTopological
  <2>2. ~ObjectMet(m)'
    BY <2>1, <1>5 DEF ObjectMet, Accepts
  <2> QED
    BY <2>2 DEF Frontier, Blocked
<1> QED
  BY <1>1, <1>2, <1>3, <1>4, <1>5 DEF Frontier, Blocked

-----------------------------------------------------------------------------
(* Initially.                                                              *)

LEMMA InitHolds == Init => IInv
<1> SUFFICES ASSUME Init PROVE IInv
  OBVIOUS
<1>1. TypeOK
  BY Positions DEF Init, TypeOK, Silent, Readiness
<1>2. SilentUntilGate /\ GateFirst /\ HeldRuns /\ Undecided /\ EndedForReason /\ AcceptedOnItsInputs
  BY DEF Init, SilentUntilGate, GateFirst, HeldRuns, Undecided, EndedForReason, AcceptedOnItsInputs
<1>3. BehindThread /\ BehindWorkers /\ BehindSteps /\ HolderRuns
  BY OrderFacts DEF Init, BehindThread, BehindWorkers, BehindSteps, HolderRuns, Passed
<1> QED
  BY <1>1, <1>2, <1>3 DEF IInv

-----------------------------------------------------------------------------
(* The steps that accept nothing leave the frontier where it is.           *)

\* What is left of the invariant when nothing is accepted: the type, where the
\* position and the workers are, who holds, and why the run ended.
QuietRest ==
    /\ TypeOK /\ BehindThread /\ BehindWorkers /\ BehindSteps
    /\ HolderRuns /\ HeldRuns /\ Undecided /\ EndedForReason

LEMMA QuietKeeps == ASSUME IInv, UNCHANGED artifacts, QuietRest' PROVE IInv'
<1>1. Frontier' = Frontier
  BY SameFrontier
<1>2. SilentUntilGate' /\ GateFirst' /\ AcceptedOnItsInputs'
  BY <1>1 DEF IInv, artifacts, SilentUntilGate, GateFirst, AcceptedOnItsInputs
<1> QED
  BY <1>2 DEF IInv, QuietRest

LEMMA ClaimKeeps == ASSUME IInv, NEW w \in Workers, Claim(w) PROVE IInv'
<1>1. UNCHANGED artifacts /\ status = "RUNNING" /\ Resume \in 1..End
  BY Positions DEF Claim, IInv, TypeOK, Resume
<1>2. Frontier' = Frontier
  BY <1>1, SameFrontier
<1>3. GoTo(Resume) \in {"node", "finish"} /\ (GoTo(Resume) = "finish" <=> Resume = End)
  BY DEF GoTo
<1>4. /\ \A x \in Workers : pc'[x] = IF x = w THEN GoTo(Resume) ELSE pc[x]
      /\ \A x \in Workers : pos'[x] = IF x = w THEN Resume ELSE pos[x]
  BY DEF Claim, IInv, TypeOK, Go
<1>5. TypeOK'
  <2>1. /\ pc' \in [Workers -> {"idle", "node", "run", "step", "finish", "ended"}]
        /\ pos' \in [Workers -> 1..End]
    BY <1>1, <1>3 DEF Claim, IInv, TypeOK, Go
  <2>2. /\ \A x \in Workers : pc'[x] \in {"node", "run", "step"} => pos'[x] < End
        /\ \A x \in Workers : pc'[x] = "finish" => pos'[x] = End
    BY <1>1, <1>3, <1>4, Positions DEF IInv, TypeOK
  <2> QED
    BY <1>1, <2>1, <2>2 DEF Claim, IInv, TypeOK, run, artifacts, End
<1>6. HeldRuns' /\ Undecided' /\ EndedForReason'
  BY <1>1, <1>2 DEF Claim, run, IInv, HeldRuns, Undecided, EndedForReason
<1>7. BehindThread'
  BY <1>1, <1>2 DEF Claim, run, IInv, BehindThread, Passed
<1>8. BehindWorkers'
  <2> SUFFICES ASSUME NEW x \in Workers, NEW i \in 1..Len(Order), i < pos'[x]
               PROVE  Order[i] \notin Frontier
    BY <1>2 DEF BehindWorkers, Passed
  <2>1. CASE x = w
    BY <2>1, <1>1, <1>4, OrderFacts DEF IInv, BehindThread, Resume, Passed
  <2>2. CASE x # w
    BY <2>2, <1>1, <1>4 DEF IInv, BehindWorkers, Passed
  <2> QED
    BY <2>1, <2>2
<1>9. BehindSteps' /\ HolderRuns'
  BY <1>1, <1>2, <1>3, <1>4 DEF Claim, run, IInv, BehindSteps, HolderRuns, Here
<1> QED
  BY <1>1, <1>5, <1>6, <1>7, <1>8, <1>9, QuietKeeps DEF QuietRest

LEMMA LookKeeps == ASSUME IInv, NEW w \in Workers, Look(w) PROVE IInv'
<1>1. UNCHANGED artifacts /\ Frontier' = Frontier
  BY SameFrontier DEF Look
<1>2. \A x \in Workers :
        pc'[x] = IF x # w THEN pc[x] ELSE IF Here(w) \in Frontier THEN "run" ELSE "step"
  BY DEF Look, IInv, TypeOK, Go
<1>3. TypeOK'
  <2>1. pc' \in [Workers -> {"idle", "node", "run", "step", "finish", "ended"}]
    BY DEF Look, IInv, TypeOK, Go
  <2>2. pos[w] < End
    BY DEF Look, IInv, TypeOK
  <2> QED
    BY <2>1, <2>2, <1>1, <1>2 DEF Look, IInv, TypeOK, run, artifacts, End
<1>4. HeldRuns' /\ Undecided' /\ EndedForReason'
  BY <1>1 DEF Look, run, artifacts, IInv, HeldRuns, Undecided, EndedForReason
<1>5. BehindThread' /\ BehindWorkers'
  BY <1>1 DEF Look, run, IInv, BehindThread, BehindWorkers, Passed
<1>6. BehindSteps'
  BY <1>1, <1>2 DEF Look, run, IInv, BehindSteps, Here
<1>7. HolderRuns'
  BY <1>1, <1>2 DEF Look, run, IInv, HolderRuns, Here
<1> QED
  BY <1>1, <1>3, <1>4, <1>5, <1>6, <1>7, QuietKeeps DEF QuietRest

LEMMA BlockOnKeeps == ASSUME IInv, NEW w \in Workers, BlockOn(w) PROVE IInv'
<1>1. UNCHANGED artifacts /\ Frontier' = Frontier
  BY SameFrontier DEF BlockOn
<1>2. \A x \in Workers : pc'[x] = IF x = w THEN "ended" ELSE pc[x]
  BY DEF BlockOn, IInv, TypeOK, Go
<1>3. pc' \in [Workers -> {"idle", "node", "run", "step", "finish", "ended"}]
  BY DEF BlockOn, IInv, TypeOK, Go
<1>4. Here(w) \in Nodes
  BY OrderFacts DEF BlockOn, IInv, TypeOK, Here, End
<1>5. CASE status = "RUNNING"
  <2>1. /\ status' = "BLOCKED" /\ verdict' = Here(w) /\ holder' = NoWorker
        /\ Here(w) \in Frontier
    BY <1>5 DEF BlockOn, IInv, HolderRuns
  <2>2. TypeOK'
    BY <2>1, <1>1, <1>2, <1>3, <1>4 DEF BlockOn, IInv, TypeOK, artifacts, End
  <2>3. EndedForReason'
    BY <2>1, <1>1, <1>4, Fresh DEF EndedForReason
  <2>4. BehindThread' /\ BehindWorkers' /\ BehindSteps' /\ HeldRuns' /\ Undecided'
    BY <2>1 DEF BehindThread, BehindWorkers, BehindSteps, HeldRuns, Undecided
  <2>5. HolderRuns'
    BY <2>1, Fresh DEF HolderRuns
  <2> QED
    BY <1>1, <2>2, <2>3, <2>4, <2>5, QuietKeeps DEF QuietRest
<1>6. CASE status # "RUNNING"
  <2>1. UNCHANGED <<run, holder, thread, pos>> /\ holder = NoWorker
    BY <1>6 DEF BlockOn, IInv, HeldRuns
  <2>2. TypeOK'
    BY <2>1, <1>1, <1>2, <1>3 DEF IInv, TypeOK, run, artifacts, End
  <2>3. EndedForReason' /\ HeldRuns' /\ Undecided'
    BY <2>1, <1>1 DEF IInv, run, artifacts, EndedForReason, HeldRuns, Undecided
  <2>4. BehindThread' /\ BehindWorkers' /\ BehindSteps'
    BY <2>1, <1>6 DEF run, BehindThread, BehindWorkers, BehindSteps
  <2>5. HolderRuns'
    BY <2>1, Fresh DEF HolderRuns
  <2> QED
    BY <1>1, <2>2, <2>3, <2>4, <2>5, QuietKeeps DEF QuietRest
<1> QED
  BY <1>5, <1>6

LEMMA AdvanceKeeps == ASSUME IInv, NEW w \in Workers, Advance(w) PROVE IInv'
<1>1. UNCHANGED <<run, artifacts, holder>> /\ Frontier' = Frontier
  BY SameFrontier DEF Advance
<1> DEFINE p == pos[w] + 1
<1>2. p \in 1..End /\ pos[w] \in 1..End /\ pos[w] = p - 1 /\ thread' = p
  BY Positions DEF Advance, IInv, TypeOK
<1>3. GoTo(p) \in {"node", "finish"} /\ (GoTo(p) = "finish" <=> p = End)
  BY DEF GoTo
<1>4. /\ \A x \in Workers : pc'[x] = IF x = w THEN GoTo(p) ELSE pc[x]
      /\ \A x \in Workers : pos'[x] = IF x = w THEN p ELSE pos[x]
  BY DEF Advance, IInv, TypeOK, Go
<1>5. TypeOK'
  <2>1. /\ pc' \in [Workers -> {"idle", "node", "run", "step", "finish", "ended"}]
        /\ pos' \in [Workers -> 1..End]
    BY <1>2, <1>3 DEF Advance, IInv, TypeOK, Go
  <2>2. /\ \A x \in Workers : pc'[x] \in {"node", "run", "step"} => pos'[x] < End
        /\ \A x \in Workers : pc'[x] = "finish" => pos'[x] = End
    BY <1>2, <1>3, <1>4, Positions DEF IInv, TypeOK
  <2> QED
    BY <1>1, <1>2, <2>1, <2>2, Positions DEF IInv, TypeOK, run, artifacts, End
<1>6. HeldRuns' /\ Undecided' /\ EndedForReason'
  BY <1>1 DEF run, artifacts, IInv, HeldRuns, Undecided, EndedForReason
<1>7. ASSUME status = "RUNNING", NEW i \in 1..Len(Order), i < p PROVE Order[i] \notin Frontier
  <2>1. CASE i < pos[w]
    BY <2>1, <1>7 DEF IInv, BehindWorkers, Passed
  <2>2. CASE i = pos[w]
    BY <2>2, <1>7 DEF Advance, IInv, BehindSteps, Here
  <2> QED
    BY <2>1, <2>2, <1>2, <1>7, OrderFacts
<1>8. BehindThread'
  BY <1>1, <1>2, <1>7 DEF run, BehindThread, Passed
<1>9. BehindWorkers'
  <2> SUFFICES ASSUME status = "RUNNING", NEW x \in Workers, NEW i \in 1..Len(Order), i < pos'[x]
               PROVE  Order[i] \notin Frontier
    BY <1>1 DEF run, BehindWorkers, Passed
  <2> QED
    BY <1>4, <1>7 DEF IInv, BehindWorkers, Passed
<1>10. BehindSteps' /\ HolderRuns'
  BY <1>1, <1>3, <1>4 DEF run, IInv, BehindSteps, HolderRuns, Here
<1> QED
  BY <1>1, <1>5, <1>6, <1>8, <1>9, <1>10, QuietKeeps DEF QuietRest

LEMMA FinishKeeps == ASSUME IInv, NEW w \in Workers, Finish(w) PROVE IInv'
<1>1. UNCHANGED artifacts /\ Frontier' = Frontier
  BY SameFrontier DEF Finish
<1>2. \A x \in Workers : pc'[x] = IF x = w THEN "ended" ELSE pc[x]
  BY DEF Finish, IInv, TypeOK, Go
<1>3. pc' \in [Workers -> {"idle", "node", "run", "step", "finish", "ended"}]
  BY DEF Finish, IInv, TypeOK, Go
<1>4. CASE status = "RUNNING"
  <2>1. /\ status' = IF accepted = Nodes THEN "COMPLETE" ELSE "BLOCKED"
        /\ holder' = NoWorker /\ verdict' = verdict
    BY <1>4 DEF Finish
  <2>2. TypeOK'
    BY <2>1, <1>1, <1>2, <1>3 DEF Finish, IInv, TypeOK, artifacts, End
  <2>3. Frontier = {}
    <3>1. pos[w] = End
      BY DEF Finish, IInv, TypeOK
    <3>2. ASSUME NEW n \in Nodes PROVE n \notin Frontier
      BY <3>1, <1>4, OrderFacts DEF IInv, BehindWorkers, Passed, End
    <3> QED
      BY <3>2 DEF Frontier
  <2>4. EndedForReason'
    BY <2>1, <2>3, <1>1, <1>4 DEF IInv, Undecided, EndedForReason, artifacts
  <2>5. BehindThread' /\ BehindWorkers' /\ BehindSteps' /\ HeldRuns' /\ Undecided'
    BY <2>1 DEF BehindThread, BehindWorkers, BehindSteps, HeldRuns, Undecided
  <2>6. HolderRuns'
    BY <2>1, Fresh DEF HolderRuns
  <2> QED
    BY <1>1, <2>2, <2>4, <2>5, <2>6, QuietKeeps DEF QuietRest
<1>5. CASE status # "RUNNING"
  <2>1. UNCHANGED <<run, holder, thread, pos>> /\ holder = NoWorker
    BY <1>5 DEF Finish, IInv, HeldRuns
  <2>2. TypeOK'
    BY <2>1, <1>1, <1>2, <1>3 DEF IInv, TypeOK, run, artifacts, End
  <2>3. EndedForReason' /\ HeldRuns' /\ Undecided'
    BY <2>1, <1>1 DEF IInv, run, artifacts, EndedForReason, HeldRuns, Undecided
  <2>4. BehindThread' /\ BehindWorkers' /\ BehindSteps'
    BY <2>1, <1>5 DEF run, BehindThread, BehindWorkers, BehindSteps
  <2>5. HolderRuns'
    BY <2>1, Fresh DEF HolderRuns
  <2> QED
    BY <1>1, <2>2, <2>3, <2>4, <2>5, QuietKeeps DEF QuietRest
<1> QED
  BY <1>4, <1>5

\* The three ways a worker goes idle: its position is the thread's or forgotten.
LEMMA IdleKeeps ==
    ASSUME IInv, NEW w \in Workers, Go(w, "idle"), UNCHANGED <<run, artifacts, pos>>,
           thread' \in {thread, 0}, holder' \in {holder, NoWorker}
    PROVE  IInv'
<1>1. Frontier' = Frontier
  BY SameFrontier
<1>2. \A x \in Workers : pc'[x] = IF x = w THEN "idle" ELSE pc[x]
  BY DEF IInv, TypeOK, Go
<1>3. TypeOK'
  <2>1. pc' \in [Workers -> {"idle", "node", "run", "step", "finish", "ended"}]
    BY DEF IInv, TypeOK, Go
  <2>2. thread' \in 0..End /\ holder' \in Workers \cup {NoWorker}
    BY Positions DEF IInv, TypeOK
  <2> QED
    BY <2>1, <2>2, <1>2 DEF IInv, TypeOK, run, artifacts, End
<1>4. HeldRuns' /\ Undecided' /\ EndedForReason'
  BY <1>1 DEF run, artifacts, IInv, HeldRuns, Undecided, EndedForReason
<1>5. BehindThread'
  BY <1>1, OrderFacts DEF run, IInv, BehindThread, Passed
<1>6. BehindWorkers' /\ BehindSteps'
  BY <1>1, <1>2 DEF run, IInv, BehindWorkers, BehindSteps, Passed, Here
<1>7. HolderRuns'
  BY <1>1, <1>2, Fresh DEF IInv, HolderRuns, Here
<1> QED
  BY <1>3, <1>4, <1>5, <1>6, <1>7, QuietKeeps DEF QuietRest

LEMMA CancelKeeps == ASSUME IInv, Cancel PROVE IInv'
<1>1. UNCHANGED artifacts /\ status' = "CANCELLED" /\ holder' = NoWorker
  BY DEF Cancel
<1>2. TypeOK'
  BY <1>1, Positions DEF Cancel, IInv, TypeOK, artifacts, End
<1>3. /\ BehindThread' /\ BehindWorkers' /\ BehindSteps'
      /\ HeldRuns' /\ Undecided' /\ EndedForReason'
  BY <1>1 DEF BehindThread, BehindWorkers, BehindSteps, HeldRuns, Undecided, EndedForReason
<1>4. HolderRuns'
  BY <1>1, Fresh DEF HolderRuns
<1> QED
  BY <1>1, <1>2, <1>3, <1>4, QuietKeeps DEF QuietRest

-----------------------------------------------------------------------------
(* The step that accepts.                                                  *)

LEMMA AcceptKeeps == ASSUME IInv, NEW w \in Workers, Accept(w) PROVE IInv'
<1> DEFINE j == pos[w]
           n == Order[j]
<1>1. \A x \in Workers : pc'[x] = IF x = w THEN "step" ELSE pc[x]
  BY DEF Accept, IInv, TypeOK, Go
<1>2. pc' \in [Workers -> {"idle", "node", "run", "step", "finish", "ended"}]
  BY DEF Accept, IInv, TypeOK, Go
<1>3. j \in 1..Len(Order) /\ n \in Nodes /\ j < End
  BY OrderFacts DEF Accept, IInv, TypeOK, End
<1>4. CASE status # "RUNNING"
  <2>1. UNCHANGED <<run, artifacts, holder, thread, pos>> /\ holder = NoWorker
    BY <1>4 DEF Accept, IInv, HeldRuns
  <2>2. TypeOK'
    BY <2>1, <1>1, <1>2, <1>3 DEF IInv, TypeOK, run, artifacts, End
  <2>3. EndedForReason' /\ HeldRuns' /\ Undecided'
    BY <2>1, SameFrontier DEF IInv, run, artifacts, EndedForReason, HeldRuns, Undecided
  <2>4. BehindThread' /\ BehindWorkers' /\ BehindSteps'
    BY <2>1, <1>4 DEF run, BehindThread, BehindWorkers, BehindSteps
  <2>5. HolderRuns'
    BY <2>1, Fresh DEF HolderRuns
  <2> QED
    BY <2>1, <2>2, <2>3, <2>4, <2>5, QuietKeeps DEF QuietRest
<1>5. CASE status = "RUNNING"
  <2>1. Accepts(n) /\ holder = w /\ n \notin accepted /\ UNCHANGED <<run, holder, thread, pos>>
    BY <1>5 DEF Accept, Accepts, Here
  <2>2. n \in Frontier
    BY <2>1 DEF Accept, IInv, HolderRuns, Here
  <2>3. TypeOK'
    <3>1. accepted' \subseteq Nodes /\ passed' \subseteq accepted' /\ readiness' \in [Nodes -> Readiness]
      BY <2>1, <1>3, ReadingsAre DEF Accepts, IInv, TypeOK
    <3> QED
      BY <3>1, <2>1, <1>1, <1>2, <1>3 DEF IInv, TypeOK, run, End
  <2>4. SilentUntilGate'
    BY <2>1 DEF Accepts, IInv, SilentUntilGate
  \* Behind the holder's node nothing comes free, and no position is past it.
  <2>5. ASSUME NEW i \in 1..Len(Order), i <= j PROVE Order[i] \notin Frontier'
    <3>1. CASE i = j
      BY <3>1, <2>1 DEF Frontier, Accepts
    <3>2. CASE i < j
      <4>1. Order[i] \notin Frontier
        BY <3>2, <1>5 DEF IInv, BehindWorkers, Passed
      <4> QED
        BY <4>1, <3>2, <2>1, <1>3, StaysBlocked DEF IInv
    <3> QED
      BY <3>1, <3>2, <2>5, <1>3
  <2>6. ASSUME NEW q \in 0..End, Passed(q) PROVE q <= j
    BY <2>6, <2>2, <1>3, Positions DEF Passed
  <2>7. BehindThread'
    <3>1. thread \in 0..End /\ Passed(thread)
      BY <1>5 DEF IInv, TypeOK, BehindThread
    <3> QED
      BY <3>1, <2>1, <2>5, <2>6, <1>3 DEF BehindThread, Passed
  <2>8. ASSUME NEW x \in Workers PROVE pos[x] \in 0..End /\ pos[x] <= j
    <3>1. pos[x] \in 0..End /\ Passed(pos[x])
      BY <1>5, Positions DEF IInv, TypeOK, BehindWorkers
    <3> QED
      BY <3>1, <2>6
  <2>9. BehindWorkers'
    BY <2>1, <2>5, <2>8, <1>3 DEF BehindWorkers, Passed
  <2>10. BehindSteps'
    <3> SUFFICES ASSUME NEW x \in Workers, pc'[x] = "step" PROVE Order[pos[x]] \notin Frontier'
      BY <2>1 DEF BehindSteps, Here
    <3>1. pos[x] \in 1..Len(Order)
      BY <1>1, <1>3, Positions, OrderFacts DEF IInv, TypeOK, End
    <3> QED
      BY <3>1, <2>5, <2>8
  <2>11. HolderRuns' /\ HeldRuns' /\ Undecided' /\ EndedForReason'
    BY <2>1, <1>1, <1>5 DEF run, IInv, HolderRuns, HeldRuns, Undecided, EndedForReason
  <2>12. GateFirst'
    <3>1. 1 \in 1..Len(Order) /\ 1 <= j
      BY <1>3
    <3> QED
      BY <3>1, <2>5 DEF GateFirst
  <2>13. AcceptedOnItsInputs'
    <3>1. ASSUME NEW m \in accepted, Order[1] = Gate PROVE UNCHANGED readiness
      BY <3>1, <2>1, <2>2 DEF IInv, GateFirst, Accepts
    <3>2. accepted \subseteq accepted' /\ passed \subseteq passed' /\ n \in accepted'
      BY <2>1 DEF Accepts
    <3> SUFFICES ASSUME NEW m \in accepted'
                 PROVE  /\ m \in Wanted => \E s \in accepted' : <<s, m>> \in Offers
                        /\ Order[1] = Gate /\ m # Gate => readiness'[m] \notin {"CONDITIONAL", "BLOCKED"}
                        /\ \A e \in Edges : e.target = m =>
                             /\ e.type \in Blocking => e.source \in accepted'
                             /\ e.type = "QA_GATE" => e.source \in passed'
                             /\ Order[1] = Gate /\ readiness'[e.source] \in Ready => e.source \in accepted'
      BY DEF AcceptedOnItsInputs
    <3>3. CASE m \in accepted
      <4>1. m \in Wanted => \E s \in accepted' : <<s, m>> \in Offers
        BY <3>2, <3>3 DEF IInv, AcceptedOnItsInputs
      <4>2. Order[1] = Gate /\ m # Gate => readiness'[m] \notin {"CONDITIONAL", "BLOCKED"}
        BY <3>1, <3>3 DEF IInv, AcceptedOnItsInputs
      <4>3. ASSUME NEW e \in Edges, e.target = m
            PROVE  /\ e.type \in Blocking => e.source \in accepted'
                   /\ e.type = "QA_GATE" => e.source \in passed'
                   /\ Order[1] = Gate /\ readiness'[e.source] \in Ready => e.source \in accepted'
        BY <4>3, <3>1, <3>2, <3>3 DEF IInv, AcceptedOnItsInputs
      <4> QED
        BY <4>1, <4>2, <4>3
    <3>4. CASE m = n
      <4>1. ObjectMet(n) /\ readiness[n] \in Ready \cup {"NONE"} /\ \A e \in Unmet(n) : ~Stops(e)
        BY <2>2 DEF Frontier, Blocked
      <4>2. m \in Wanted => \E s \in accepted' : <<s, m>> \in Offers
        BY <4>1, <3>2, <3>4 DEF ObjectMet
      <4>3. Order[1] = Gate /\ m # Gate => readiness'[m] \notin {"CONDITIONAL", "BLOCKED"}
        BY <4>1, <3>4, <2>1 DEF Accepts, Ready
      <4>4. ASSUME NEW e \in Edges, e.target = m
            PROVE  /\ e.type \in Blocking => e.source \in accepted'
                   /\ e.type = "QA_GATE" => e.source \in passed'
                   /\ Order[1] = Gate /\ readiness'[e.source] \in Ready => e.source \in accepted'
        <5>1. e.type \in Blocking => e \notin Unmet(n)
          BY <4>1 DEF Stops
        <5>2. e.type = "QA_GATE" => e.type \in Blocking
          BY DEF Blocking
        <5>3. e \notin Unmet(n) => e.source \in accepted /\ (e.type = "QA_GATE" => e.source \in passed)
          BY <4>4, <3>4 DEF Unmet
        <5>4. Order[1] = Gate /\ readiness'[e.source] \in Ready => e.source \in accepted'
          <6> SUFFICES ASSUME Order[1] = Gate, readiness'[e.source] \in Ready PROVE e.source \in accepted'
            OBVIOUS
          <6>1. n # Gate
            <7>1. PICK i \in 1..Len(Order) : Order[i] = e.source
              BY OrderFacts, EdgesTyped
            <7>2. i < j
              BY <7>1, <4>4, <3>4, <1>3, OrderTopological
            <7> QED
              BY <7>2, <1>3, OrderTopological
          <6>2. readiness[e.source] \in Ready
            BY <6>1, <2>1 DEF Accepts
          <6> QED
            BY <6>2, <4>1, <5>3, <3>2 DEF Stops
        <5> QED
          BY <5>1, <5>2, <5>3, <5>4, <3>2
      <4> QED
        BY <4>2, <4>3, <4>4
    <3> QED
      BY <3>3, <3>4, <2>1 DEF Accepts
  <2> QED
    BY <2>3, <2>4, <2>7, <2>9, <2>10, <2>11, <2>12, <2>13 DEF IInv
<1> QED
  BY <1>4, <1>5

-----------------------------------------------------------------------------
(* The theorems.                                                           *)

LEMMA NextKeeps == IInv /\ [Next]_vars => IInv'
<1> SUFFICES ASSUME IInv, [Next]_vars PROVE IInv'
  OBVIOUS
<1>1. CASE UNCHANGED vars
  <2>1. UNCHANGED artifacts /\ Frontier' = Frontier
    BY <1>1, SameFrontier DEF vars
  <2>2. TypeOK' /\ EndedForReason' /\ HeldRuns' /\ Undecided'
    BY <1>1, <2>1 DEF vars, run, artifacts, IInv, TypeOK, EndedForReason, HeldRuns, Undecided, End
  <2>3. BehindThread' /\ BehindWorkers' /\ BehindSteps' /\ HolderRuns'
    BY <1>1, <2>1 DEF vars, run, IInv, BehindThread, BehindWorkers, BehindSteps, HolderRuns, Passed, Here
  <2> QED
    BY <2>1, <2>2, <2>3, QuietKeeps DEF QuietRest
<1>2. ASSUME NEW w \in Workers, Leave(w) \/ DropThread(w) \/ Crash(w) PROVE IInv'
  BY <1>2, IdleKeeps DEF Leave, DropThread, Crash, run, artifacts
<1>3. CASE Cancel
  BY <1>3, CancelKeeps
<1> QED
  BY <1>1, <1>2, <1>3, ClaimKeeps, LookKeeps, AcceptKeeps, BlockOnKeeps, AdvanceKeeps, FinishKeeps
     DEF Next

LEMMA IInvHolds == Spec => []IInv
<1>1. Init => IInv
  BY InitHolds
<1>2. IInv /\ [Next]_vars => IInv'
  BY NextKeeps
<1> QED
  BY <1>1, <1>2, PTL DEF Spec

\* No worker's position leaves the chain, and only a holder's run is held.
THEOREM TypeCorrect == Spec => []TypeOK
<1>1. IInv => TypeOK
  BY DEF IInv
<1> QED
  BY <1>1, IInvHolds, PTL

\* finish never ends a run BLOCKED with a node that could still run, nor COMPLETE
\* with one unaccepted, whatever threads and workers came before it.
THEOREM EndedForReasonHolds == Spec => []EndedForReason
<1>1. IInv => EndedForReason
  BY DEF IInv
<1> QED
  BY <1>1, IInvHolds, PTL

\* Every accepted node had, and keeps, what its edges and its boundary ask for.
THEOREM AcceptedOnItsInputsHolds == Spec => []AcceptedOnItsInputs
<1>1. IInv => AcceptedOnItsInputs
  BY DEF IInv
<1> QED
  BY <1>1, IInvHolds, PTL

\* A node is accepted out of the frontier of that moment, the holder's read of
\* it being older than a whole call.
THEOREM AcceptedFromFrontierHolds == Spec => AcceptedFromFrontier
<1>1. IInv /\ [Next]_vars => [accepted' \subseteq accepted \cup Frontier]_vars
  <2> SUFFICES ASSUME IInv, Next PROVE accepted' \subseteq accepted \cup Frontier
    BY DEF vars, artifacts
  <2>1. ASSUME NEW w \in Workers, Accept(w) PROVE accepted' \subseteq accepted \cup Frontier
    BY <2>1 DEF Accept, IInv, HolderRuns, artifacts
  <2> QED
    BY <2>1 DEF Next, Claim, Look, BlockOn, Advance, Finish, Leave, DropThread, Crash, Cancel, artifacts
<1> QED
  BY <1>1, IInvHolds, PTL DEF Spec, AcceptedFromFrontier

-----------------------------------------------------------------------------
(* Induction, and functions defined by it.                                 *)

\* A set of naturals has a least member.
LEMMA Least == ASSUME NEW S \in SUBSET Nat, S # {} PROVE \E m \in S : \A n \in S : m <= n
<1>1. PICK m \in S : \A n \in S : <<n, m>> \notin OpToRel(<, Nat)
  BY NatLessThanWellFounded, WFMin
<1>2. \A n \in S : ~(n < m)
  BY <1>1 DEF OpToRel
<1> QED
  BY <1>2

\* Induction up to a bound, for a property given as the set G of those that have it.
LEMMA UpTo ==
    ASSUME NEW n \in Nat, NEW G, 0 \in G, \A k \in 1..n : k - 1 \in G => k \in G
    PROVE  0..n \subseteq G
<1> DEFINE Bad == (0..n) \ G
<1>1. SUFFICES ASSUME Bad # {} PROVE FALSE
  OBVIOUS
<1>2. PICK m \in Bad : \A k \in Bad : m <= k
  <2>1. Bad \in SUBSET Nat
    OBVIOUS
  <2> HIDE DEF Bad
  <2> QED
    BY <1>1, <2>1, Least
<1>3. m \in 1..n /\ m - 1 \in 0..n
  OBVIOUS
<1>4. m - 1 \notin Bad
  BY <1>2, <1>3
<1> QED
  BY <1>3, <1>4

\* The function that has a at 0 and goes on by F.
IsRecursion(g, n, V, a, F) ==
    g \in [0..n -> V] /\ g[0] = a /\ \A k \in 1..n : g[k] = F[k][g[k - 1]]

\* It exists.
LEMMA Recursion ==
    ASSUME NEW n \in Nat, NEW V, NEW a \in V, NEW F \in [1..n -> [V -> V]]
    PROVE  \E g : IsRecursion(g, n, V, a, F)
<1> DEFINE Until(g, m) == g[0] = a /\ \A k \in 1..n : k <= m => g[k] = F[k][g[k - 1]]
           G == {m \in 0..n : \E g \in [0..n -> V] : Until(g, m)}
<1>1. 0 \in G
  <2> DEFINE g0 == [k \in 0..n |-> a]
  <2>1. g0 \in [0..n -> V] /\ Until(g0, 0)
    OBVIOUS
  <2> HIDE DEF g0
  <2> QED
    BY <2>1
<1>2. ASSUME NEW m \in 1..n, m - 1 \in G PROVE m \in G
  <2>1. PICK g \in [0..n -> V] : Until(g, m - 1)
    BY <1>2
  <2> DEFINE h == [g EXCEPT ![m] = F[m][g[m - 1]]]
  <2>2. m - 1 \in 0..n /\ m \in 0..n
    OBVIOUS
  <2>3. F[m][g[m - 1]] \in V
    BY <2>2
  <2>4. h \in [0..n -> V] /\ h[m] = F[m][g[m - 1]] /\ \A k \in 0..n : k # m => h[k] = g[k]
    BY <2>2, <2>3
  <2> HIDE DEF h
  <2>5. ASSUME NEW k \in 1..n, k <= m PROVE h[k] = F[k][h[k - 1]]
    <3>1. k - 1 \in 0..n /\ k \in 0..n /\ k - 1 # m
      BY <2>5
    <3>2. h[k - 1] = g[k - 1]
      BY <2>4, <3>1
    <3>3. CASE k = m
      BY <2>4, <3>2, <3>3
    <3>4. CASE k # m
      <4>1. k <= m - 1
        BY <2>5, <3>4
      <4>2. g[k] = F[k][g[k - 1]]
        BY <2>1, <4>1
      <4> QED
        BY <2>4, <3>1, <3>2, <3>4, <4>2
    <3> QED
      BY <3>3, <3>4
  <2>6. h[0] = a
    BY <2>1, <2>4
  <2>7. Until(h, m)
    BY <2>5, <2>6
  <2> QED
    BY <2>2, <2>4, <2>7
<1>3. n \in G
  <2>1. 0..n \subseteq G
    <3> HIDE DEF G
    <3> QED
      BY <1>1, <1>2, UpTo
  <2> QED
    BY <2>1
<1>4. PICK g \in [0..n -> V] : Until(g, n)
  BY <1>3
<1> QED
  BY <1>4 DEF IsRecursion

-----------------------------------------------------------------------------
(* A round's nodes, sorted.                                                *)

\* The key orders the modules: no ties are left.
LEMMA BeforeOrders ==
    /\ \A x \in Modules : ~Before(x, x)
    /\ \A x, y \in Modules : x # y => Before(x, y) \/ Before(y, x)
    /\ \A x, y, z \in Modules : Before(x, y) /\ Before(y, z) => Before(x, z)
<1>1. \A x \in Modules : x \in Nat /\ Stage[x] \in Int
  BY ModulesNumbered
<1> QED
  BY <1>1 DEF Before

\* A finite set of modules can be listed in the order of the key: by how many come before.
LEMMA Listable ==
    ASSUME NEW D \in SUBSET Modules, IsFiniteSet(D)
    PROVE  \E s \in SetToSeqs(D) : \A i, j \in DOMAIN s : i < j => Before(s[i], s[j])
<1> DEFINE N == Cardinality(D)
           Ahead(x) == {y \in D : Before(y, x)}
           rank == [x \in D |-> Cardinality(Ahead(x)) + 1]
<1>0. N \in Nat /\ \A x \in D : x \in Modules
  BY FS_CardinalityType
<1>1. ASSUME NEW x \in D
      PROVE  /\ IsFiniteSet(Ahead(x)) /\ Cardinality(Ahead(x)) \in Nat
             /\ Cardinality(Ahead(x)) < N
  <2>1. Ahead(x) \in SUBSET D /\ x \notin Ahead(x)
    BY <1>0, BeforeOrders
  <2>2. IsFiniteSet(Ahead(x)) /\ Cardinality(Ahead(x)) \in Nat /\ Cardinality(Ahead(x)) <= N
          /\ (N = Cardinality(Ahead(x)) => D = Ahead(x))
    BY <2>1, FS_Subset, FS_CardinalityType
  <2> HIDE DEF Ahead, N
  <2> QED
    BY <1>0, <2>1, <2>2
<1>2. ASSUME NEW x \in D, NEW y \in D, Before(x, y)
      PROVE  Cardinality(Ahead(x)) < Cardinality(Ahead(y))
  <2>1. Ahead(x) \in SUBSET Ahead(y) /\ x \in Ahead(y) /\ x \notin Ahead(x)
    BY <1>0, <1>2, BeforeOrders
  <2>2. /\ Cardinality(Ahead(x)) <= Cardinality(Ahead(y))
        /\ (Cardinality(Ahead(y)) = Cardinality(Ahead(x)) => Ahead(y) = Ahead(x))
    BY <1>1, <2>1, FS_Subset
  <2>3. Cardinality(Ahead(x)) \in Nat /\ Cardinality(Ahead(y)) \in Nat
    BY <1>1
  <2> HIDE DEF Ahead
  <2> QED
    BY <2>1, <2>2, <2>3
<1>3. rank \in [D -> 1..N] /\ \A x \in D : rank[x] = Cardinality(Ahead(x)) + 1
  <2> HIDE DEF Ahead, N
  <2> QED
    BY <1>0, <1>1
<1>4. \A x, y \in D : Before(x, y) => rank[x] < rank[y]
  <2> HIDE DEF Ahead, N, rank
  <2> QED
    BY <1>1, <1>2, <1>3
<1> HIDE DEF rank
<1>5. rank \in Injection(D, 1..N)
  <2>1. ASSUME NEW x \in D, NEW y \in D, rank[x] = rank[y] PROVE x = y
    <3>1. rank[x] \in Int /\ rank[y] \in Int
      BY <1>0, <1>3
    <3>2. ~Before(x, y) /\ ~Before(y, x)
      BY <1>4, <2>1, <3>1
    <3> QED
      BY <1>0, <3>2, BeforeOrders
  <2> QED
    BY <1>3, <2>1, Fun_IsInj
<1>6. rank \in Surjection(D, 1..N)
  <2>1. IsFiniteSet(1..N) /\ Cardinality(1..N) = N
    BY <1>0, FS_Interval
  <2> QED
    BY <1>5, <2>1, FS_Injection
<1> DEFINE s == [i \in 1..N |-> CHOOSE x \in D : rank[x] = i]
<1>7. \A i \in 1..N : s[i] \in D /\ rank[s[i]] = i
  BY <1>6 DEF Surjection
<1>8. s \in [1..N -> D] /\ DOMAIN s = 1..N
  BY <1>7
<1> HIDE DEF s
<1>9. s \in SetToSeqs(D)
  <2>1. \A i, j \in 1..N : i # j => s[i] # s[j]
    BY <1>7
  <2> QED
    BY <1>8, <2>1 DEF SetToSeqs
<1>10. ASSUME NEW i \in 1..N, NEW j \in 1..N, i < j PROVE Before(s[i], s[j])
  <2>1. s[i] # s[j] /\ s[i] \in D /\ s[j] \in D
    BY <1>7, <1>10
  <2>2. ~Before(s[j], s[i])
    BY <1>4, <1>7, <1>10, <2>1
  <2> QED
    BY <1>0, <2>1, <2>2, BeforeOrders
<1> QED
  BY <1>8, <1>9, <1>10

\* The listing of a round has each of its nodes once.
LEMMA InOrderLists ==
    ASSUME NEW D \in SUBSET Modules, IsFiniteSet(D)
    PROVE  /\ InOrder(D) \in Seq(D)
           /\ \A x \in D : \E i \in DOMAIN InOrder(D) : InOrder(D)[i] = x
           /\ \A i, j \in DOMAIN InOrder(D) : InOrder(D)[i] = InOrder(D)[j] => i = j
<1> DEFINE N == Cardinality(D)
           s == InOrder(D)
<1>1. s \in SetToSeqs(D)
  <2> DEFINE Sorted(t) == \A i, j \in DOMAIN t : i < j => Before(t[i], t[j])
  <2>1. \E t \in SetToSeqs(D) : Sorted(t)
    BY Listable
  <2>2. s = CHOOSE t \in SetToSeqs(D) : Sorted(t)
    BY DEF InOrder
  <2> HIDE DEF Sorted, s
  <2> QED
    BY <2>1, <2>2
<1> HIDE DEF s
<1>2. N \in Nat
  BY FS_CardinalityType
<1>3. s \in [1..N -> D] /\ DOMAIN s = 1..N /\ \A i, j \in 1..N : i # j => s[i] # s[j]
  BY <1>1 DEF SetToSeqs
<1>4. s \in Seq(D)
  BY <1>2, <1>3
<1>5. s \in Injection(1..N, D)
  BY <1>3, Fun_IsInj
<1>6. s \in Surjection(1..N, D)
  <2>1. IsFiniteSet(1..N) /\ Cardinality(1..N) = N
    BY <1>2, FS_Interval
  <2> QED
    BY <1>5, <2>1, FS_Injection
<1> QED
  BY <1>3, <1>4, <1>6 DEF Surjection, s

-----------------------------------------------------------------------------
(* The rounds of the sorter.                                               *)

\* What has been given out by each round, as the recursion says.
LEMMA GivenIs ==
    ASSUME NEW N, IsFiniteSet(N), NEW E
    PROVE  /\ Given(N, E) \in [0..Cardinality(N) -> SUBSET N]
           /\ Given(N, E)[0] = {}
           /\ \A k \in 1..Cardinality(N) :
                Given(N, E)[k] = Given(N, E)[k - 1] \cup {m \in N : Sources(E, m) \subseteq Given(N, E)[k - 1]}
<1> DEFINE n == Cardinality(N)
           Free(T) == {m \in N : Sources(E, m) \subseteq T}
           Eqn(g) == g = [k \in 0..n |-> IF k = 0 THEN {} ELSE g[k - 1] \cup Free(g[k - 1])]
           F == [k \in 1..n |-> [T \in SUBSET N |-> T \cup Free(T)]]
           given == CHOOSE g : Eqn(g)
<1>0. n \in Nat
  BY FS_CardinalityType
<1>1. Given(N, E) = given
  BY Zenon DEF Given
<1>2. \A T \in SUBSET N : T \cup Free(T) \in SUBSET N
  OBVIOUS
<1>3. F \in [1..n -> [SUBSET N -> SUBSET N]] /\ \A k \in 1..n, T \in SUBSET N : F[k][T] = T \cup Free(T)
  <2> HIDE DEF Free, n
  <2> QED
    BY <1>2
<1> HIDE DEF F
<1>4. PICK g \in [0..n -> SUBSET N] : g[0] = {} /\ \A k \in 1..n : g[k] = F[k][g[k - 1]]
  <2> DEFINE V == SUBSET N
             a == {}
  <2>1. a \in V /\ F \in [1..n -> [V -> V]]
    BY <1>3
  <2> HIDE DEF n, V, a
  <2>2. PICK g : IsRecursion(g, n, V, a, F)
    BY <1>0, <2>1, Recursion
  <2> QED
    BY <2>2 DEF V, a, IsRecursion
<1> HIDE DEF Free, n
<1>5. Eqn(g)
  <2>1. ASSUME NEW k \in 0..n
        PROVE  g[k] = IF k = 0 THEN {} ELSE g[k - 1] \cup Free(g[k - 1])
    <3>1. CASE k = 0
      BY <1>4, <3>1
    <3>2. CASE k # 0
      <4>1. k \in 1..n /\ k - 1 \in 0..n
        BY <1>0, <3>2
      <4> QED
        BY <1>3, <1>4, <3>2, <4>1
    <3> QED
      BY <3>1, <3>2
  <2> QED
    BY <1>4, <2>1
<1>6. Eqn(given)
  <2> HIDE DEF Eqn
  <2> QED
    BY <1>5
<1> HIDE DEF given
<1>7. \A k \in 0..n : given[k] = IF k = 0 THEN {} ELSE given[k - 1] \cup Free(given[k - 1])
  BY <1>6, Zenon
<1>8. given[0] = {} /\ \A k \in 1..n : given[k] = given[k - 1] \cup Free(given[k - 1])
  <2>1. 0 \in 0..n /\ \A k \in 1..n : k \in 0..n /\ k # 0
    BY <1>0
  <2> QED
    BY <1>7, <2>1, Zenon
<1>9. \A k \in 0..n : given[k] \in SUBSET N
  <2> DEFINE G == {k \in 0..n : given[k] \in SUBSET N}
  <2>1. 0 \in G
    BY <1>0, <1>8
  <2>2. ASSUME NEW k \in 1..n, k - 1 \in G PROVE k \in G
    <3>1. given[k] = given[k - 1] \cup Free(given[k - 1])
      BY <1>8
    <3>2. given[k - 1] \cup Free(given[k - 1]) \in SUBSET N
      BY <2>2 DEF Free
    <3> QED
      BY <1>0, <3>1, <3>2
  <2>3. 0..n \subseteq G
    <3> HIDE DEF G
    <3> QED
      BY <1>0, <2>1, <2>2, UpTo
  <2> QED
    BY <2>3
<1>10. given \in [0..n -> SUBSET N]
  <2>1. given = [k \in 0..n |-> given[k]]
    <3>1. [k \in 0..n |-> given[k]]
            = [k \in 0..n |-> IF k = 0 THEN {} ELSE given[k - 1] \cup Free(given[k - 1])]
      BY <1>7
    <3> QED
      BY <1>6, <3>1, Zenon
  <2> QED
    BY <1>9, <2>1
<1> QED
  BY <1>1, <1>8, <1>10 DEF Free, n

\* A round gives out nothing before its sources, and takes nothing back.
LEMMA Rounds ==
    ASSUME NEW N, IsFiniteSet(N), NEW E, NEW k \in 1..Cardinality(N)
    PROVE  /\ Given(N, E)[k - 1] \subseteq Given(N, E)[k]
           /\ \A m \in Given(N, E)[k] : Sources(E, m) \subseteq Given(N, E)[k - 1]
<1> DEFINE n == Cardinality(N)
           g == Given(N, E)
           Behind(j) == /\ g[j - 1] \subseteq g[j]
                        /\ \A m \in g[j] : Sources(E, m) \subseteq g[j - 1]
           G == {j \in 0..n : j = 0 \/ Behind(j)}
<1>0. n \in Nat
  BY FS_CardinalityType
<1>1. g[0] = {} /\ \A j \in 1..n : g[j] = g[j - 1] \cup {m \in N : Sources(E, m) \subseteq g[j - 1]}
  BY GivenIs
<1> HIDE DEF g, n
<1>2. 0 \in G
  BY <1>0
<1>3. ASSUME NEW j \in 1..n, j - 1 \in G PROVE j \in G
  <2>1. g[j - 1] \subseteq g[j]
    BY <1>1
  <2>2. ASSUME NEW m \in g[j] PROVE Sources(E, m) \subseteq g[j - 1]
    <3>1. CASE m \in g[j - 1]
      <4>1. j - 1 # 0
        BY <1>1, <3>1
      <4>2. Behind(j - 1)
        BY <1>3, <4>1
      <4>3. Sources(E, m) \subseteq g[j - 1 - 1] /\ g[j - 1 - 1] \subseteq g[j - 1]
        BY <3>1, <4>2
      <4> QED
        BY <4>3
    <3>2. CASE m \notin g[j - 1]
      BY <1>1, <3>2
    <3> QED
      BY <3>1, <3>2
  <2> QED
    BY <1>0, <2>1, <2>2
<1>4. 0..n \subseteq G
  <2> HIDE DEF G
  <2> QED
    BY <1>0, <1>2, <1>3, UpTo
<1>5. k \in 1..n /\ k \in 0..n /\ k # 0
  BY <1>0 DEF n
<1> QED
  BY <1>4, <1>5 DEF g

\* When the rounds are over, whatever has all its sources given has been given.
LEMMA Saturated ==
    ASSUME NEW N, IsFiniteSet(N), NEW E, NEW m \in N,
           Sources(E, m) \subseteq Given(N, E)[Cardinality(N)]
    PROVE  m \in Given(N, E)[Cardinality(N)]
<1> DEFINE n == Cardinality(N)
           g == Given(N, E)
           Free(T) == {x \in N : Sources(E, x) \subseteq T}
           G == {k \in 0..n : Free(g[k]) \subseteq g[k] \/ Cardinality(g[k]) >= k}
<1>0. n \in Nat
  BY FS_CardinalityType
<1>1. g \in [0..n -> SUBSET N] /\ g[0] = {} /\ \A k \in 1..n : g[k] = g[k - 1] \cup Free(g[k - 1])
  BY GivenIs
<1>2. \A k \in 0..n : IsFiniteSet(g[k]) /\ Cardinality(g[k]) \in Nat
  BY <1>1, FS_Subset, FS_CardinalityType
<1> HIDE DEF g, n, Free
<1>3. 0 \in G
  BY <1>0, <1>2
<1>4. ASSUME NEW k \in 1..n, k - 1 \in G PROVE k \in G
  <2>0. k - 1 \in 0..n /\ k \in 0..n /\ g[k] = g[k - 1] \cup Free(g[k - 1])
    BY <1>0, <1>1
  <2>1. CASE Free(g[k - 1]) \subseteq g[k - 1]
    <3>1. g[k] = g[k - 1]
      BY <2>0, <2>1
    <3> QED
      BY <2>0, <2>1, <3>1
  <2>2. CASE ~(Free(g[k - 1]) \subseteq g[k - 1])
    <3>1. Cardinality(g[k - 1]) >= k - 1
      BY <1>4, <2>2
    <3>2. g[k - 1] \in SUBSET g[k] /\ g[k - 1] # g[k]
      BY <2>0, <2>2
    <3>3. /\ Cardinality(g[k - 1]) <= Cardinality(g[k])
          /\ (Cardinality(g[k]) = Cardinality(g[k - 1]) => g[k] = g[k - 1])
      BY <1>2, <2>0, <3>2, FS_Subset
    <3>4. Cardinality(g[k]) \in Nat /\ Cardinality(g[k - 1]) \in Nat
      BY <1>2, <2>0
    <3>5. Cardinality(g[k]) >= k
      BY <3>1, <3>2, <3>3, <3>4
    <3> QED
      BY <2>0, <3>5
  <2> QED
    BY <2>1, <2>2
<1>5. n \in G
  <2>1. 0..n \subseteq G
    <3> HIDE DEF G
    <3> QED
      BY <1>0, <1>3, <1>4, UpTo
  <2> QED
    BY <1>0, <2>1
<1>6. n \in 0..n /\ g[n] \in SUBSET N
  BY <1>0, <1>1
<1>7. CASE Cardinality(g[n]) >= n
  <2>1. Cardinality(g[n]) <= n /\ (n = Cardinality(g[n]) => N = g[n])
    BY <1>6, FS_Subset DEF n
  <2>2. Cardinality(g[n]) \in Nat
    BY <1>2, <1>6
  <2>3. N = g[n]
    BY <1>0, <1>7, <2>1, <2>2
  <2> QED
    BY <2>3 DEF g, n
<1>8. CASE Free(g[n]) \subseteq g[n]
  BY <1>8 DEF g, n, Free
<1> QED
  BY <1>5, <1>7, <1>8

-----------------------------------------------------------------------------
(* What is listed by each round.                                           *)

\* A list of the nodes T, each once, behind its sources.
Lists(s, T, E) ==
    /\ s \in Seq(T)
    /\ \A x \in T : \E i \in 1..Len(s) : s[i] = x
    /\ \A i, j \in 1..Len(s) : s[i] = s[j] => i = j
    /\ \A i, j \in 1..Len(s) : <<s[i], s[j]>> \in E => i < j

\* A list goes on with nodes whose sources it has.
LEMMA Continues ==
    ASSUME NEW T, NEW R, T \cap R = {}, NEW E, NEW s, Lists(s, T, E),
           NEW r \in Seq(R), \A x \in R : \E i \in 1..Len(r) : r[i] = x,
           \A i, j \in 1..Len(r) : r[i] = r[j] => i = j,
           \A x, y : <<x, y>> \in E /\ y \in T \cup R => x \in T
    PROVE  Lists(s \o r, T \cup R, E)
<1> DEFINE a == Len(s)
           b == Len(r)
           z == s \o r
<1>1. s \in Seq(T) /\ a \in Nat /\ b \in Nat
  BY DEF Lists
<1>2. /\ z \in Seq(T \cup R) /\ Len(z) = a + b
      /\ \A i \in 1..a : z[i] = s[i]
      /\ \A i \in 1..b : z[a + i] = r[i]
  BY <1>1
<1>3. \A i \in 1..a : s[i] \in T
  BY <1>1
<1>4. \A i \in 1..b : r[i] \in R
  OBVIOUS
<1> HIDE DEF z, a, b
<1>5. ASSUME NEW i \in 1..(a + b)
      PROVE  \/ i \in 1..a /\ z[i] = s[i] /\ z[i] \in T
             \/ i > a /\ i - a \in 1..b /\ z[i] = r[i - a] /\ z[i] \in R
  <2>1. CASE i <= a
    <3>1. i \in 1..a
      BY <1>1, <2>1
    <3> QED
      BY <1>2, <1>3, <3>1
  <2>2. CASE i > a
    <3>1. i - a \in 1..b /\ a + (i - a) = i
      BY <1>1, <2>2
    <3>2. z[a + (i - a)] = r[i - a]
      BY <1>2, <3>1
    <3>3. z[i] = r[i - a]
      BY <3>1, <3>2
    <3> QED
      BY <1>4, <2>2, <3>1, <3>3
  <2> QED
    BY <1>1, <2>1, <2>2
<1>6. ASSUME NEW x \in T \cup R PROVE \E i \in 1..(a + b) : z[i] = x
  <2>1. CASE x \in T
    <3>1. PICK i \in 1..a : s[i] = x
      BY <2>1 DEF Lists, a
    <3>2. i \in 1..(a + b) /\ z[i] = x
      BY <1>1, <1>2, <3>1
    <3> QED
      BY <3>2
  <2>2. CASE x \in R
    <3>1. PICK i \in 1..b : r[i] = x
      BY <2>2 DEF b
    <3>2. a + i \in 1..(a + b)
      BY <1>1
    <3>3. z[a + i] = r[i]
      BY <1>2
    <3> QED
      BY <3>1, <3>2, <3>3
  <2> QED
    BY <2>1, <2>2
<1>7. ASSUME NEW i \in 1..(a + b), NEW j \in 1..(a + b), z[i] = z[j] PROVE i = j
  <2>1. CASE z[i] \in T
    <3>1. i \in 1..a /\ j \in 1..a /\ s[i] = s[j]
      BY <1>5, <1>7, <2>1
    <3> QED
      BY <3>1 DEF Lists, a
  <2>2. CASE z[i] \in R
    <3>1. i - a \in 1..b /\ j - a \in 1..b /\ r[i - a] = r[j - a]
      BY <1>5, <1>7, <2>2
    <3>2. i - a = j - a
      BY <3>1 DEF b
    <3> QED
      BY <1>1, <3>2
  <2> QED
    BY <1>5, <2>1, <2>2
<1>8. ASSUME NEW i \in 1..(a + b), NEW j \in 1..(a + b), <<z[i], z[j]>> \in E PROVE i < j
  <2>1. z[j] \in T \cup R
    BY <1>5
  <2>2. z[i] \in T
    BY <1>8, <2>1
  <2>3. i \in 1..a /\ z[i] = s[i]
    BY <1>5, <2>2
  <2>4. CASE j > a
    BY <1>1, <2>3, <2>4
  <2>5. CASE ~(j > a)
    <3>1. j \in 1..a /\ z[j] = s[j]
      BY <1>5, <2>5
    <3> QED
      BY <1>8, <2>3, <3>1 DEF Lists, a
  <2> QED
    BY <2>4, <2>5
<1> QED
  BY <1>2, <1>6, <1>7, <1>8 DEF Lists, z

\* What is listed by each round, as the recursion says.
IsListing(l, N, E) ==
    /\ l[0] = <<>>
    /\ \A k \in 1..Cardinality(N) :
         l[k] = l[k - 1] \o InOrder(Given(N, E)[k] \ Given(N, E)[k - 1])

\* The order is the last of them.
LEMMA OrderIs ==
    ASSUME NEW N \in SUBSET Modules, IsFiniteSet(N), NEW E
    PROVE  \E l : IsListing(l, N, E) /\ DependencyOrder(N, E) = l[Cardinality(N)]
<1> DEFINE n == Cardinality(N)
           given == Given(N, E)
           V == Seq(N)
           a == <<>>
           Eqn(l) == l = [k \in 0..n |->
                            IF k = 0 THEN <<>> ELSE l[k - 1] \o InOrder(given[k] \ given[k - 1])]
           F == [k \in 1..n |-> [s \in V |-> s \o InOrder(given[k] \ given[k - 1])]]
           listed == CHOOSE l : Eqn(l)
<1>0. n \in Nat
  BY FS_CardinalityType
<1>1. DependencyOrder(N, E) = listed[n]
  BY Zenon DEF DependencyOrder
<1>2. ASSUME NEW k \in 1..n PROVE InOrder(given[k] \ given[k - 1]) \in Seq(N)
  <2>1. k \in 0..n /\ k - 1 \in 0..n
    BY <1>0
  <2>2. given[k] \ given[k - 1] \in SUBSET N
    BY <2>1, GivenIs
  <2> DEFINE D == given[k] \ given[k - 1]
  <2>3. D \in SUBSET Modules /\ IsFiniteSet(D)
    BY <2>2, FS_Subset
  <2> HIDE DEF D
  <2>4. InOrder(D) \in Seq(D)
    BY <2>3, InOrderLists
  <2> QED
    BY <2>2, <2>4 DEF D
<1> HIDE DEF given, n
<1>3. F \in [1..n -> [V -> V]] /\ \A k \in 1..n, s \in V : F[k][s] = s \o InOrder(given[k] \ given[k - 1])
  <2>1. \A k \in 1..n, s \in V : s \o InOrder(given[k] \ given[k - 1]) \in V
    BY <1>2
  <2> HIDE DEF V
  <2> QED
    BY <2>1
<1>4. PICK g : IsRecursion(g, n, V, a, F)
  <2>1. a \in V
    OBVIOUS
  <2> HIDE DEF V, a, F
  <2> QED
    BY <1>0, <1>3, <2>1, Recursion
<1> HIDE DEF F, V
<1>5. g \in [0..n -> V] /\ g[0] = <<>>
      /\ \A k \in 1..n : g[k] = g[k - 1] \o InOrder(given[k] \ given[k - 1])
  <2>1. g \in [0..n -> V] /\ g[0] = <<>> /\ \A k \in 1..n : g[k] = F[k][g[k - 1]]
    BY <1>4 DEF IsRecursion
  <2>2. \A k \in 1..n : k - 1 \in 0..n
    BY <1>0
  <2> QED
    BY <1>3, <2>1, <2>2
<1>6. Eqn(g)
  <2>1. ASSUME NEW k \in 0..n
        PROVE  g[k] = IF k = 0 THEN <<>> ELSE g[k - 1] \o InOrder(given[k] \ given[k - 1])
    <3>1. k = 0 \/ (k \in 1..n /\ k # 0)
      BY <1>0
    <3> QED
      BY <1>5, <3>1
  <2> QED
    BY <1>5, <2>1
<1>7. Eqn(listed)
  <2> HIDE DEF Eqn
  <2> QED
    BY <1>6
<1> HIDE DEF listed
<1>8. \A k \in 0..n : listed[k] = IF k = 0 THEN <<>> ELSE listed[k - 1] \o InOrder(given[k] \ given[k - 1])
  BY <1>7, Zenon
<1>9. listed[0] = <<>> /\ \A k \in 1..n : listed[k] = listed[k - 1] \o InOrder(given[k] \ given[k - 1])
  <2>1. 0 \in 0..n /\ \A k \in 1..n : k \in 0..n /\ k # 0
    BY <1>0
  <2> QED
    BY <1>8, <2>1, Zenon
<1> QED
  BY <1>1, <1>9 DEF given, n, IsListing

\* The sources of a node are the other ends of its edges.
LEMMA SourcesAre ==
    ASSUME NEW N, NEW E \in SUBSET (N \X N), NEW x, NEW y
    PROVE  x \in Sources(E, y) <=> <<x, y>> \in E
<1>1. ASSUME <<x, y>> \in E PROVE x \in Sources(E, y)
  <2>1. <<x, y>>[1] = x /\ <<x, y>>[2] = y
    OBVIOUS
  <2> QED
    BY <1>1, <2>1 DEF Sources
<1>2. ASSUME x \in Sources(E, y) PROVE <<x, y>> \in E
  <2>1. PICK e \in E : e[2] = y /\ e[1] = x
    BY <1>2 DEF Sources
  <2>2. e = <<e[1], e[2]>>
    OBVIOUS
  <2> QED
    BY <2>1, <2>2
<1> QED
  BY <1>1, <1>2

\* What has no cycle is listed, all of it.
LEMMA Ordered ==
    ASSUME NEW N \in SUBSET Modules, IsFiniteSet(N), NEW E \in SUBSET (N \X N),
           ~HasCycle(N, E)
    PROVE  Lists(DependencyOrder(N, E), N, E)
<1> DEFINE n == Cardinality(N)
           given == Given(N, E)
<1>0. n \in Nat
  BY FS_CardinalityType
<1>l. PICK l : IsListing(l, N, E) /\ DependencyOrder(N, E) = l[n]
  BY OrderIs
<1>1. /\ DependencyOrder(N, E) = l[n]
      /\ l[0] = <<>>
      /\ \A k \in 1..n : l[k] = l[k - 1] \o InOrder(given[k] \ given[k - 1])
  BY <1>l DEF IsListing
<1>2. given \in [0..n -> SUBSET N] /\ given[0] = {}
  BY GivenIs
<1>3. \A k \in 1..n : /\ given[k - 1] \subseteq given[k]
                      /\ \A m \in given[k] : Sources(E, m) \subseteq given[k - 1]
  BY Rounds
<1>4. given[n] = N
  BY DEF HasCycle
<1> HIDE DEF given, n
<1> DEFINE G == {k \in 0..n : Lists(l[k], given[k], E)}
<1>5. 0 \in G
  <2>1. Lists(<<>>, {}, E)
    BY DEF Lists
  <2>2. Lists(l[0], given[0], E)
    BY <1>1, <1>2, <2>1, Zenon
  <2> QED
    BY <1>0, <2>2
<1>6. ASSUME NEW k \in 1..n, k - 1 \in G PROVE k \in G
  <2> DEFINE T == given[k - 1]
             R == given[k] \ given[k - 1]
             r == InOrder(R)
  <2>0. k \in 0..n /\ k - 1 \in 0..n
    BY <1>0
  <2>1. R \in SUBSET Modules /\ IsFiniteSet(R)
    <3>1. R \in SUBSET N
      BY <1>2, <2>0
    <3> QED
      BY <3>1, FS_Subset
  <2>2. T \cap R = {} /\ T \cup R = given[k]
    BY <1>3
  <2>3. \A x, y : <<x, y>> \in E /\ y \in T \cup R => x \in T
    BY <1>3, <2>2, SourcesAre
  <2>4. Lists(l[k - 1], T, E)
    BY <1>6
  <2>5. l[k] = l[k - 1] \o r
    BY <1>1
  <2> HIDE DEF T, R
  <2>6. /\ r \in Seq(R) /\ \A x \in R : \E i \in DOMAIN r : r[i] = x
        /\ \A i, j \in DOMAIN r : r[i] = r[j] => i = j
    BY <2>1, InOrderLists
  <2> HIDE DEF r
  <2>7. DOMAIN r = 1..Len(r)
    BY <2>6
  <2>8. Lists(l[k - 1] \o r, T \cup R, E)
    BY <2>2, <2>3, <2>4, <2>6, <2>7, Continues
  <2> QED
    BY <2>0, <2>2, <2>5, <2>8
<1>7. n \in G
  <2>1. 0..n \subseteq G
    <3> HIDE DEF G
    <3> QED
      BY <1>0, <1>5, <1>6, UpTo
  <2> QED
    BY <1>0, <2>1
<1> QED
  BY <1>1, <1>4, <1>7

\* The sorter is left with nodes exactly when a chain of edges closes.
LEMMA CycleIs ==
    ASSUME NEW N, IsFiniteSet(N), NEW E \in SUBSET (N \X N)
    PROVE  HasCycle(N, E) <=>
             \E S \in (SUBSET N) \ {{}} : \A m \in S : \E s \in S : <<s, m>> \in E
<1> DEFINE n == Cardinality(N)
           given == Given(N, E)
<1>0. n \in Nat /\ n \in 0..n
  BY FS_CardinalityType
<1>1. given \in [0..n -> SUBSET N] /\ given[0] = {}
  BY GivenIs
<1>2. ASSUME HasCycle(N, E)
      PROVE  \E S \in (SUBSET N) \ {{}} : \A m \in S : \E s \in S : <<s, m>> \in E
  <2> DEFINE S == N \ given[n]
  <2>1. S \in (SUBSET N) \ {{}}
    BY <1>0, <1>1, <1>2 DEF HasCycle
  <2>2. ASSUME NEW m \in S PROVE \E s \in S : <<s, m>> \in E
    <3>1. ~(Sources(E, m) \subseteq given[n])
      BY Saturated
    <3>2. PICK s \in Sources(E, m) : s \notin given[n]
      BY <3>1
    <3>3. <<s, m>> \in E
      BY SourcesAre
    <3>4. s \in N
      BY <3>3
    <3> QED
      BY <3>2, <3>3, <3>4
  <2> QED
    BY <2>1, <2>2
<1>3. ASSUME NEW S \in (SUBSET N) \ {{}}, \A m \in S : \E s \in S : <<s, m>> \in E
      PROVE  HasCycle(N, E)
  <2> DEFINE G == {k \in 0..n : given[k] \cap S = {}}
  <2>1. \A k \in 1..n : \A m \in given[k] : Sources(E, m) \subseteq given[k - 1]
    BY Rounds
  <2>2. given[n] # N => HasCycle(N, E)
    BY DEF HasCycle
  <2> HIDE DEF given, n
  <2>3. 0 \in G
    BY <1>0, <1>1
  <2>4. ASSUME NEW k \in 1..n, k - 1 \in G PROVE k \in G
    <3>1. ASSUME NEW m \in given[k], m \in S PROVE FALSE
      <4>1. PICK s \in S : <<s, m>> \in E
        BY <1>3, <3>1
      <4>2. s \in Sources(E, m)
        BY <4>1, SourcesAre
      <4>3. s \in given[k - 1]
        BY <2>1, <4>2
      <4> QED
        BY <2>4, <4>3
    <3> QED
      BY <1>0, <3>1
  <2>5. 0..n \subseteq G
    <3> HIDE DEF G
    <3> QED
      BY <1>0, <2>3, <2>4, UpTo
  <2>6. given[n] \cap S = {}
    BY <1>0, <2>5
  <2>7. S \subseteq N /\ S # {}
    OBVIOUS
  <2> QED
    BY <2>2, <2>6, <2>7
<1> QED
  BY <1>2, <1>3

-----------------------------------------------------------------------------
(* The route answered.                                                     *)

\* The modules to be ordered, and the edges among them.
Listed == IF extended THEN Append(pathway, Model) ELSE pathway
ModuleIds == ToSet(pathway) \cup (IF extended THEN {Model} ELSE {})
Among == profile \cap (ModuleIds \X ModuleIds)
EdgesAmong == IF extended THEN Among \cup ((Owners \cup {GateModule}) \X {Model}) ELSE Among

\* What is chosen at the start, and that a route is what the resolution answers.
Resolved ==
    /\ profile \in SUBSET (Modules \X Modules)
    /\ pathway \in Seq(Modules) /\ GateModule \in ToSet(pathway)
    /\ extended \in BOOLEAN
    /\ route \in {Unresolved, Resolve}

\* The modules listed are a finite set of the catalog's.
LEMMA NodesAre ==
    ASSUME Resolved
    PROVE  /\ ToSet(Listed) = ModuleIds
           /\ ModuleIds \in SUBSET Modules
           /\ IsFiniteSet(ModuleIds)
<1> DEFINE n == Len(Listed)
<1>0. pathway \in Seq(Modules) /\ Model \in Modules
  BY ModulesNamed DEF Resolved
<1>1. Listed \in Seq(Modules) /\ n \in Nat
  BY <1>0 DEF Listed
<1>2. ToSet(Listed) = ModuleIds
  <2>1. CASE extended
    <3>1. DOMAIN pathway = 1..Len(pathway) /\ Len(pathway) \in Nat
      BY <1>0
    <3> DEFINE z == Append(pathway, Model)
    <3>2. DOMAIN z = 1..(Len(pathway) + 1) /\ z[Len(pathway) + 1] = Model
          /\ \A i \in 1..Len(pathway) : z[i] = pathway[i]
      BY <1>0
    <3> HIDE DEF z
    <3>3. ToSet(z) = ToSet(pathway) \cup {Model}
      <4>1. ASSUME NEW i \in DOMAIN z PROVE z[i] \in ToSet(pathway) \cup {Model}
        <5>1. i \in 1..Len(pathway) \/ i = Len(pathway) + 1
          BY <3>1, <3>2
        <5> QED
          BY <3>1, <3>2, <5>1 DEF ToSet
      <4>2. ASSUME NEW i \in DOMAIN pathway PROVE pathway[i] \in ToSet(z)
        <5>1. i \in 1..Len(pathway) /\ i \in DOMAIN z
          BY <3>1, <3>2
        <5>2. z[i] = pathway[i]
          BY <3>2, <5>1
        <5> QED
          BY <5>1, <5>2 DEF ToSet
      <4>3. Model \in ToSet(z)
        <5>1. Len(pathway) + 1 \in DOMAIN z
          BY <3>1, <3>2
        <5> QED
          BY <3>2, <5>1 DEF ToSet
      <4> QED
        BY <4>1, <4>2, <4>3 DEF ToSet
    <3> QED
      BY <2>1, <3>3 DEF Listed, ModuleIds, z
  <2>2. CASE ~extended
    BY <2>2 DEF Listed, ModuleIds
  <2> QED
    BY <2>1, <2>2
<1>3. DOMAIN Listed = 1..n /\ \A i \in 1..n : Listed[i] \in Modules
  BY <1>1
<1> HIDE DEF n
<1>4. ModuleIds \in SUBSET Modules
  BY <1>2, <1>3 DEF ToSet
<1>5. IsFiniteSet(ModuleIds)
  <2> DEFINE f == [i \in 1..n |-> Listed[i]]
  <2>1. f \in [1..n -> ModuleIds] /\ \A x \in ModuleIds : \E i \in 1..n : f[i] = x
    BY <1>2, <1>3 DEF ToSet
  <2>2. IsFiniteSet(1..n)
    BY <1>1, FS_Interval
  <2> HIDE DEF f
  <2>3. f \in Surjection(1..n, ModuleIds)
    BY <2>1, Fun_IsSurj
  <2> QED
    BY <2>2, <2>3, FS_Surjection
<1> QED
  BY <1>2, <1>4, <1>5

\* An extension that has its owners has its edges among the modules.
LEMMA EdgesAre ==
    ASSUME Resolved, extended => Owners \subseteq ToSet(pathway)
    PROVE  EdgesAmong \in SUBSET (ModuleIds \X ModuleIds)
  BY DEF Resolved, ModuleIds, Among, EdgesAmong

\* What each answer says of the modules and the edges.
LEMMA AnswerSays ==
    ASSUME Resolved, route.refused \in {"OK", "ROUTE_HAS_A_CYCLE"}
    PROVE  /\ extended => Owners \subseteq ToSet(pathway)
           /\ (route.refused = "ROUTE_HAS_A_CYCLE") <=> HasCycle(ModuleIds, EdgesAmong)
           /\ route.refused = "OK" => /\ route.order = DependencyOrder(ModuleIds, EdgesAmong)
                                      /\ route.edges = EdgesAmong
<1> DEFINE missing == extended /\ ~(Owners \subseteq ToSet(pathway))
           unsupported == Among \cap Conditional # {}
           repeated == ~IsInjective(Listed)
           cyclic == HasCycle(ModuleIds, EdgesAmong)
           ok == [refused |-> "OK", order |-> DependencyOrder(ModuleIds, EdgesAmong), edges |-> EdgesAmong]
<1>1. ToSet(Listed) = ModuleIds
  BY NodesAre
<1>2. Resolve = IF missing THEN Refused("ROUTE_EXTENSION_OWNER_MISSING")
                ELSE IF unsupported THEN Refused("ROUTE_EDGE_UNSUPPORTED")
                ELSE IF repeated THEN Refused("ROUTE_DUPLICATE_MODULE")
                ELSE IF cyclic THEN Refused("ROUTE_HAS_A_CYCLE")
                ELSE ok
  <2> DEFINE nodes == ToSet(Listed)
             among == profile \cap (nodes \X nodes)
             edges == IF extended THEN among \cup ((Owners \cup {GateModule}) \X {Model}) ELSE among
  <2>1. Resolve = IF missing THEN Refused("ROUTE_EXTENSION_OWNER_MISSING")
                  ELSE IF among \cap Conditional # {} THEN Refused("ROUTE_EDGE_UNSUPPORTED")
                  ELSE IF repeated THEN Refused("ROUTE_DUPLICATE_MODULE")
                  ELSE IF HasCycle(nodes, edges) THEN Refused("ROUTE_HAS_A_CYCLE")
                  ELSE [refused |-> "OK", order |-> DependencyOrder(nodes, edges), edges |-> edges]
    BY Zenon DEF Resolve, Listed
  <2>2. nodes = ModuleIds /\ among = Among /\ edges = EdgesAmong
    BY <1>1 DEF Among, EdgesAmong
  <2> HIDE DEF nodes, among, edges, missing, repeated
  <2> QED
    BY <2>1, <2>2, Zenon
<1>3. /\ Unresolved.refused = "UNRESOLVED"
      /\ Refused("ROUTE_EXTENSION_OWNER_MISSING").refused = "ROUTE_EXTENSION_OWNER_MISSING"
      /\ Refused("ROUTE_EDGE_UNSUPPORTED").refused = "ROUTE_EDGE_UNSUPPORTED"
      /\ Refused("ROUTE_DUPLICATE_MODULE").refused = "ROUTE_DUPLICATE_MODULE"
      /\ Refused("ROUTE_HAS_A_CYCLE").refused = "ROUTE_HAS_A_CYCLE"
  BY DEF Refused, Unresolved
<1>4. ok.refused = "OK" /\ ok.order = DependencyOrder(ModuleIds, EdgesAmong) /\ ok.edges = EdgesAmong
  OBVIOUS
<1> HIDE DEF unsupported, repeated, cyclic, ok
<1>5. route = Resolve
  BY <1>3 DEF Resolved
<1>6. /\ ~missing
      /\ (route = Refused("ROUTE_HAS_A_CYCLE") /\ cyclic) \/ (route = ok /\ ~cyclic)
  BY <1>2, <1>3, <1>4, <1>5
<1> QED
  BY <1>3, <1>4, <1>6 DEF cyclic

\* A route that is answered so is sound.
LEMMA Sound == ASSUME Resolved PROVE ResolvedSound
<1>1. OrderSound
  <2> SUFFICES ASSUME route.refused = "OK" PROVE OrderSound
    BY DEF OrderSound
  <2>1. /\ extended => Owners \subseteq ToSet(pathway)
        /\ ~HasCycle(ModuleIds, EdgesAmong)
        /\ route.order = DependencyOrder(ModuleIds, EdgesAmong)
        /\ route.edges = EdgesAmong
    BY AnswerSays
  <2>2. Lists(route.order, ModuleIds, EdgesAmong)
    BY <2>1, NodesAre, EdgesAre, Ordered
  <2> DEFINE s == route.order
             at == [i \in DOMAIN s |-> s[i]]
  <2>3. DOMAIN s = 1..Len(s) /\ DOMAIN at = 1..Len(s) /\ \A i \in 1..Len(s) : at[i] = s[i] /\ s[i] \in ModuleIds
    BY <2>2 DEF Lists
  <2> HIDE DEF s, at
  <2>4. IsInjective(at)
    BY <2>2, <2>3 DEF IsInjective, Lists, s
  <2>5. ToSet(at) = ModuleIds
    <3>1. \A x \in ModuleIds : \E i \in 1..Len(s) : at[i] = x
      BY <2>2, <2>3 DEF Lists, s
    <3>2. \A i \in 1..Len(s) : at[i] \in ModuleIds
      BY <2>3
    <3>3. ToSet(at) = {at[i] : i \in 1..Len(s)}
      BY <2>3 DEF ToSet
    <3> QED
      BY <3>1, <3>2, <3>3
  <2>6. \A i, j \in DOMAIN at : <<at[i], at[j]>> \in route.edges => i < j
    BY <2>1, <2>2, <2>3 DEF Lists, s
  <2>7. ASSUME extended, NEW m \in Owners \cup {GateModule}
        PROVE  \E i, j \in DOMAIN at : at[i] = m /\ at[j] = Model /\ i < j
    <3>1. <<m, Model>> \in EdgesAmong
      BY <2>7 DEF EdgesAmong
    <3>2. m \in ModuleIds /\ Model \in ModuleIds
      BY <2>1, <2>7 DEF ModuleIds, Resolved
    <3>3. PICK i \in DOMAIN at : at[i] = m
      BY <2>5, <3>2 DEF ToSet
    <3>4. PICK j \in DOMAIN at : at[j] = Model
      BY <2>5, <3>2 DEF ToSet
    <3>5. i < j
      BY <2>1, <2>6, <3>1, <3>3, <3>4
    <3> QED
      BY <3>3, <3>4, <3>5
  <2> QED
    BY <2>4, <2>5, <2>6, <2>7 DEF OrderSound, ModuleIds, at, s
<1>2. CycleRefused
  <2> SUFFICES ASSUME route.refused \in {"OK", "ROUTE_HAS_A_CYCLE"} PROVE CycleRefused
    BY DEF CycleRefused
  <2> DEFINE Edge(s, m) ==
               <<s, m>> \in profile \/ (extended /\ m = Model /\ s \in Owners \cup {GateModule})
             closes == \E S \in (SUBSET ModuleIds) \ {{}} : \A m \in S : \E s \in S : Edge(s, m)
  <2>1. /\ EdgesAmong \in SUBSET (ModuleIds \X ModuleIds)
        /\ (route.refused = "ROUTE_HAS_A_CYCLE") <=> HasCycle(ModuleIds, EdgesAmong)
    BY AnswerSays, EdgesAre
  <2>2. \A s, m \in ModuleIds : <<s, m>> \in EdgesAmong <=> Edge(s, m)
    BY DEF EdgesAmong, Among
  <2>3. HasCycle(ModuleIds, EdgesAmong) <=>
          \E S \in (SUBSET ModuleIds) \ {{}} : \A m \in S : \E s \in S : <<s, m>> \in EdgesAmong
    BY <2>1, NodesAre, CycleIs
  <2> HIDE DEF Edge
  <2>4. HasCycle(ModuleIds, EdgesAmong) <=> closes
    BY <2>2, <2>3
  <2>5. (route.refused = "ROUTE_HAS_A_CYCLE") = closes
    BY <2>1, <2>4
  <2> QED
    BY <2>5, Zenon DEF CycleRefused, ModuleIds, Edge
<1> QED
  BY <1>1, <1>2 DEF ResolvedSound

\* A route answered lists each of its modules once, each behind its sources, the model
\* extension behind all it reads; and a cycle is refused exactly when a chain of the edges
\* among them closes (resolve_route, dependency_order), whatever the catalog.
THEOREM ResolvedSoundHolds == RouteSpec => []ResolvedSound
<1>1. RouteInit => Resolved
  <2> SUFFICES ASSUME RouteInit PROVE Resolved
    OBVIOUS
  <2>1. pathway \in Seq(Modules)
    <3>1. PICK m \in 0..MaxNodes : pathway \in [1..m -> Modules]
      BY DEF RouteInit, BoundedSeq, SeqOf
    <3>2. m \in Nat
      BY NodesBounded
    <3> QED
      BY <3>1, <3>2
  <2> QED
    BY <2>1 DEF RouteInit, Resolved
<1>2. Resolved /\ [ResolveRoute]_routeVars => Resolved'
  <2> SUFFICES ASSUME Resolved, [ResolveRoute]_routeVars PROVE Resolved'
    OBVIOUS
  <2>1. UNCHANGED <<profile, pathway, extended>> /\ route' \in {route, Resolve}
    BY DEF ResolveRoute, routeVars
  <2>2. Resolve' = Resolve
    BY <2>1 DEF Resolve
  <2> QED
    BY <2>1, <2>2 DEF Resolved
<1>3. Resolved => ResolvedSound
  BY Sound
<1> QED
  BY <1>1, <1>2, <1>3, PTL DEF RouteSpec
=============================================================================
