-------------------------- MODULE CallLedgerProofs --------------------------
(***************************************************************************)
(* The ledger's promises, for every route, number of workers, price and    *)
(* bound.  An attempt has one caller, who alone writes its reservation and *)
(* its bill; until the bill is in, the call is covered by its lock, its    *)
(* young reservation or its live mark unless a disturbance took the cover  *)
(* (exposed), and a covered call refuses every start at its node.  So an   *)
(* answer arrives at its node's newest attempt, a charge owed a verdict    *)
(* refuses the start that would pay again, the drop that spends the        *)
(* re-attempt refuses the next, and a reservation comes out of what the    *)
(* fold over the attempts leaves.  So too every attempt's fate moves as    *)
(* the abstract ledger's does, and at most one in a step.                  *)
(***************************************************************************)
EXTENDS CallLedger, FiniteSetTheorems, WellFoundedInduction, TLAPS

-----------------------------------------------------------------------------
(* The shape of a step.                                                    *)

\* An attempt begun, a reservation made, a bill inserted, a refusal explained and an
\* answer accepted: the steps that write the ledger's rows.
Begins(w) == Start(w) /\ StartRefusal(w, Node(w)) = "OK"
Reserves(w) == Reserve(w) /\ Fence(w) = "OK" /\ ~(Price > Left)
Bills(w) == (Record(w) \/ CutBilling(w)) /\ pc[w] = "write" /\ Insert(w)
Explains(w) == Explain(w) /\ Holds(w)
Accepts(w) == Accept(w) /\ ~accepted[at[w]] /\ Holds(w) /\ ~HasOwner(Node(w)) /\ Own(w)

\* What a park marks: the attempts it came after.
ParksBilled == parked' = [a \in Attempts |-> parked[a] \/ outcome[a] # "none"]

\* How a verdict leaves the worker standing: at the accept, the block or the refusal.
LEMMA SettleCases ==
    ASSUME NEW w, NEW a, NEW v, Settle(w, a, v)
    PROVE  /\ at' = [at EXCEPT ![w] = a]
           /\ \/ v = "ANSWERED" /\ Go(w, "accept") /\ UNCHANGED code
              \/ v = "BLOCKED" /\ Go(w, "block") /\ UNCHANGED code
              \/ v # "ANSWERED" /\ v # "BLOCKED" /\ Go(w, "settle") /\ code' = [code EXCEPT ![w] = v]
<1>1. CASE v = "ANSWERED"
    BY <1>1, Zenon DEF Settle
<1>2. CASE v = "BLOCKED"
    BY <1>2, Zenon DEF Settle
<1>3. CASE v # "ANSWERED" /\ v # "BLOCKED"
    BY <1>3, Zenon DEF Settle
<1> QED
    BY <1>1, <1>2, <1>3

\* Where a node is looked at: its answer stands, is owed a verdict or has no body, or it
\* is driven.
LEMMA LookCases ==
    ASSUME NEW w \in Workers, NEW n \in Nodes, Look(w, n)
    PROVE  /\ UNCHANGED <<run, rows, guards, answer, pauses, cuts, faults>>
           /\ \/ Go(w, "look") /\ UNCHANGED <<at, code>>
              \/ \E c \in Codes : Refuse(w, c) /\ UNCHANGED at
              \/ Go(w, "start") /\ at' = [at EXCEPT ![w] = <<n, 0>>] /\ UNCHANGED code
              \/ /\ Replayable(n) # {}
                 /\ at' = [at EXCEPT ![w] = First(Replayable(n))]
                 /\ \/ Go(w, "accept") /\ UNCHANGED code
                    \/ Go(w, "block") /\ UNCHANGED code
                    \/ \E c \in Explanations : Go(w, "settle") /\ code' = [code EXCEPT ![w] = c]
<1>1. UNCHANGED <<run, rows, guards, answer, pauses, cuts, faults>>
    BY Zenon DEF Look
<1>2. CASE HasOwner(n)
    BY <1>1, <1>2, Zenon DEF Look
<1>3. CASE ~HasOwner(n) /\ Replayable(n) # {} /\ status # "RUNNING"
    <2>1. Refuse(w, "RUN_NOT_RUNNING") /\ UNCHANGED at
        BY <1>3, Zenon DEF Look
    <2> QED
        BY <1>1, <2>1 DEF Codes, Fenced
<1>4. CASE ~HasOwner(n) /\ Replayable(n) # {} /\ status = "RUNNING"
    <2> DEFINE a == First(Replayable(n))
    <2>1. PICK v \in Verdicts(outcome[a]) : Settle(w, a, v)
        BY <1>4, Zenon DEF Look
    <2>2. v \in Explanations \cup {"ANSWERED", "BLOCKED"}
        BY DEF Verdicts, Explanations, Over
    <2> HIDE DEF a
    <2>3. /\ at' = [at EXCEPT ![w] = a]
          /\ \/ v = "ANSWERED" /\ Go(w, "accept") /\ UNCHANGED code
             \/ v = "BLOCKED" /\ Go(w, "block") /\ UNCHANGED code
             \/ v # "ANSWERED" /\ v # "BLOCKED" /\ Go(w, "settle") /\ code' = [code EXCEPT ![w] = v]
        BY <2>1, SettleCases, Zenon
    <2> QED
        BY <1>1, <1>4, <2>2, <2>3 DEF a
<1>5. CASE ~HasOwner(n) /\ Replayable(n) = {} /\ Unexplained(n)
    <2>1. \/ Refuse(w, "CALL_OUTCOME_UNEXPLAINED") /\ UNCHANGED at
          \/ Refuse(w, "LEASE_NOT_HELD") /\ UNCHANGED at
        BY <1>5, Zenon DEF Look
    <2> QED
        BY <1>1, <2>1 DEF Codes, Fenced
<1>6. CASE ~HasOwner(n) /\ Replayable(n) = {} /\ ~Unexplained(n)
    BY <1>1, <1>6, Zenon DEF Look
<1> QED
    BY <1>2, <1>3, <1>4, <1>5, <1>6

\* Which steps move the run.
LEMMA RunMoves ==
    ASSUME Next
    PROVE  \/ UNCHANGED run
           \/ \E w \in Workers : Claim(w) \/ Complete(w) \/ Block(w) \/ Leave(w) \/ Crash(w)
           \/ Retry \/ Cancel
<1>1. ASSUME NEW w \in Workers, Step(w), ~Complete(w), ~Block(w), ~Leave(w) PROVE UNCHANGED run
    <2>1. ASSUME NEW n \in Nodes, Look(w, n) PROVE UNCHANGED run
        BY <2>1, Zenon DEF Look
    <2>2. ASSUME NEW k \in Answers, Call(w, k) PROVE UNCHANGED run
        BY <2>2 DEF Call
    <2>3. CASE Start(w) \/ Reserve(w) \/ TakeHold(w) \/ Check(w) \/ ResendRefused(w)
               \/ MarkOwed(w) \/ Record(w) \/ Reconnect(w)
        BY <2>3 DEF Start, Reserve, TakeHold, Check, ResendRefused, MarkOwed, Record, Reconnect
    <2>4. CASE Judge(w) \/ Explain(w) \/ Accept(w) \/ Confirm(w) \/ Again(w)
        BY <2>4, Zenon DEF Judge, Explain, Accept, Confirm, Again
    <2> QED
        BY <1>1, <2>1, <2>2, <2>3, <2>4, Zenon DEF Step
<1>2. ASSUME NEW w \in Workers, Disturb(w), ~Crash(w) PROVE UNCHANGED run
    BY <1>2 DEF Disturb, MarkFails, WriteFails, CutCalling, CutBilling, ReconnectFails,
       ExplainFails, StoreFault
<1>3. ASSUME NEW a \in Attempts, GhostEnds(a) \/ Age(a) \/ MarkLapses(a) PROVE UNCHANGED run
    BY <1>3 DEF GhostEnds, Age, MarkLapses
<1> QED
    BY <1>1, <1>2, <1>3, Zenon DEF Next

\* Which steps write the ledger's rows.
LEMMA RowsMove ==
    ASSUME Next
    PROVE  \/ /\ UNCHANGED <<started, reserved, outcome, explained, accepted>>
              /\ UNCHANGED parked \/ ParksBilled
           \/ \E w \in Workers : Begins(w) \/ Reserves(w) \/ Bills(w) \/ Explains(w) \/ Accepts(w)
<1> DEFINE Still == /\ UNCHANGED <<started, reserved, outcome, explained, accepted>>
                    /\ UNCHANGED parked \/ ParksBilled
           Writes(w) == Begins(w) \/ Reserves(w) \/ Bills(w) \/ Explains(w) \/ Accepts(w)
<1>1. ASSUME NEW w \in Workers, Step(w) PROVE Still \/ Writes(w)
    <2>1. ASSUME NEW n \in Nodes, Look(w, n) PROVE Still
        BY <2>1, LookCases DEF rows
    <2>2. ASSUME NEW k \in Answers, Call(w, k) PROVE Still
        BY <2>2 DEF Call, rows
    <2>3. CASE Complete(w) \/ TakeHold(w) \/ Check(w) \/ ResendRefused(w) \/ MarkOwed(w)
               \/ Reconnect(w) \/ Block(w) \/ Again(w)
        BY <2>3 DEF Complete, TakeHold, Check, ResendRefused, MarkOwed, Reconnect, Block, Again, rows
    <2>4. CASE Start(w)
        BY <2>4 DEF Start, Begins
    <2>5. CASE Reserve(w)
        BY <2>5 DEF Reserve, Reserves
    <2>6. CASE Record(w)
        BY <2>6 DEF Record, Bills
    <2>7. CASE Explain(w)
        BY <2>7 DEF Explain, Explains
    <2>8. CASE Accept(w)
        BY <2>8, Zenon DEF Accept, Accepts
    <2>9. CASE Judge(w) \/ Confirm(w)
        <3>1. UNCHANGED rows
            BY <2>9, Zenon DEF Judge, Confirm
        <3> QED
            BY <3>1 DEF rows
    <2>10. CASE Leave(w)
        BY <2>10 DEF Leave, Park, ParksBilled
    <2> QED
        BY <1>1, <2>1, <2>2, <2>3, <2>4, <2>5, <2>6, <2>7, <2>8, <2>9, <2>10, Zenon DEF Step
<1>2. ASSUME NEW w \in Workers, Disturb(w) PROVE Still \/ Writes(w)
    <2>1. CASE CutBilling(w)
        BY <2>1 DEF CutBilling, Bills
    <2>2. CASE ~CutBilling(w)
        BY <1>2, <2>2 DEF Disturb, MarkFails, WriteFails, CutCalling, ReconnectFails,
           ExplainFails, StoreFault, Crash, rows
    <2> QED
        BY <2>1, <2>2
<1>3. ASSUME NEW a \in Attempts, GhostEnds(a) \/ Age(a) \/ MarkLapses(a) PROVE Still
    BY <1>3 DEF GhostEnds, Age, MarkLapses, rows
<1>4. ASSUME (\E w \in Workers : Claim(w)) \/ Retry \/ Cancel PROVE Still
    BY <1>4 DEF Claim, Retry, Cancel, rows
<1> HIDE DEF Still, Writes
<1>5. Still \/ \E w \in Workers : Writes(w)
    BY <1>1, <1>2, <1>3, <1>4, Zenon DEF Next
<1> QED
    BY <1>5 DEF Still, Writes

\* Of the steps that may touch the guards of a call, which they are.
GuardSteps(w) ==
    \/ TakeHold(w) \/ Check(w) \/ ResendRefused(w) \/ MarkOwed(w) \/ Record(w) \/ Reconnect(w)
    \/ WriteFails(w) \/ CutCalling(w) \/ CutBilling(w) \/ StoreFault(w) \/ Crash(w)

\* Which steps may touch what guards a call.
LEMMA GuardsMove ==
    ASSUME Next
    PROVE  \/ UNCHANGED guards
           \/ \E w \in Workers : GuardSteps(w)
           \/ \E a \in Attempts : GhostEnds(a) \/ Age(a) \/ MarkLapses(a)
<1>1. ASSUME NEW w \in Workers, Step(w) PROVE UNCHANGED guards \/ GuardSteps(w)
    <2>1. ASSUME NEW n \in Nodes, Look(w, n) PROVE UNCHANGED guards
        BY <2>1, Zenon DEF Look
    <2>2. ASSUME NEW k \in Answers, Call(w, k) PROVE UNCHANGED guards
        BY <2>2 DEF Call
    <2>3. CASE Complete(w) \/ Start(w) \/ Reserve(w) \/ Explain(w) \/ Accept(w) \/ Block(w)
               \/ Again(w) \/ Leave(w)
        BY <2>3 DEF Complete, Start, Reserve, Explain, Accept, Block, Again, Leave
    <2>4. CASE Judge(w) \/ Confirm(w)
        BY <2>4, Zenon DEF Judge, Confirm
    <2> QED
        BY <1>1, <2>1, <2>2, <2>3, <2>4, Zenon DEF Step, GuardSteps
<1>2. ASSUME NEW w \in Workers, Disturb(w) PROVE UNCHANGED guards \/ GuardSteps(w)
    BY <1>2 DEF Disturb, GuardSteps, MarkFails, ReconnectFails, ExplainFails
<1>3. ASSUME (\E w \in Workers : Claim(w)) \/ Retry \/ Cancel PROVE UNCHANGED guards
    BY <1>3 DEF Claim, Retry, Cancel
<1> QED
    BY <1>1, <1>2, <1>3, Zenon DEF Next

-----------------------------------------------------------------------------
(* The first and the last of a set of attempts.                            *)

\* A set of naturals has a least member.
LEMMA Least == ASSUME NEW S \in SUBSET Nat, S # {} PROVE \E m \in S : \A n \in S : m <= n
<1>1. PICK m \in S : \A n \in S : <<n, m>> \notin OpToRel(<, Nat)
    BY NatLessThanWellFounded, WFMin
<1>2. \A n \in S : ~(n < m)
    BY <1>1 DEF OpToRel
<1> QED
    BY <1>2

\* First picks an attempt of the set it is given.
LEMMA FirstIn ==
    ASSUME NEW S \in SUBSET Attempts, S # {}
    PROVE  First(S) \in S
<1> DEFINE Ords == {a[2] : a \in S}
<1>1. Ords \in SUBSET Nat /\ Ords # {}
    BY DEF Attempts
<1>2. PICK m \in Ords : \A n \in Ords : m <= n
    BY <1>1, Least
<1>3. \E a \in S : \A b \in S : a[2] <= b[2]
    BY <1>2
<1> QED
    BY <1>3 DEF First

\* The attempt replayed is one of the node, started, and owed a verdict.
LEMMA ReplayFirst ==
    ASSUME NEW n, Replayable(n) # {}
    PROVE  /\ First(Replayable(n)) \in Attempts
           /\ First(Replayable(n)) \in Replayable(n)
           /\ First(Replayable(n))[1] = n
           /\ First(Replayable(n))[2] <= started[n]
<1>1. Replayable(n) \in SUBSET Attempts
    BY DEF Replayable, Of
<1> QED
    BY <1>1, FirstIn DEF Replayable, Of

-----------------------------------------------------------------------------
(* Type correctness.                                                       *)

\* TypeOK in four parts.
RunTyped ==
    /\ status \in {"RUNNING", "COMPLETE", "BLOCKED", "CANCELLED"}
    /\ work \in {"QUEUED", "CLAIMED", "STOPPED", "STOPPED_OVER", "DONE"}
    /\ holder \in Workers \cup {NoWorker}
    /\ holder # NoWorker => work = "CLAIMED"
    /\ (work = "DONE") = (status # "RUNNING")
    /\ cancel \in BOOLEAN

RowsTyped ==
    /\ started \in [Nodes -> 0..MaxOrdinal]
    /\ reserved \in [Attempts -> {0, Price}]
    /\ outcome \in [Attempts -> Kinds \cup {"none"}]
    /\ explained \in [Attempts -> Explanations \cup {"none"}]
    /\ accepted \in [Attempts -> BOOLEAN]
    /\ parked \in [Attempts -> BOOLEAN]

GuardsTyped ==
    /\ hold \in [Attempts -> {"free", "held", "ghost"}]
    /\ aged \in [Attempts -> BOOLEAN]
    /\ mark \in [Attempts -> {"none", "live", "lapsed"}]
    /\ exposed \in [Attempts -> BOOLEAN]

WorkersTyped ==
    /\ pc \in [Workers -> Steps]
    /\ at \in [Workers -> (Nodes \cup {NoNode}) \X (0..MaxOrdinal)]
    /\ code \in [Workers -> Codes]
    /\ answer \in [Workers -> Kinds]
    /\ pauses \in [Workers -> 0..BillTries]
    /\ cuts \in [Workers -> 0..BillTries]

\* The parts make up TypeOK.
LEMMA TypeParts ==
    TypeOK <=> RunTyped /\ RowsTyped /\ GuardsTyped /\ WorkersTyped /\ faults \in 0..MaxFaults
    BY Zenon DEF TypeOK, RunTyped, RowsTyped, GuardsTyped, WorkersTyped

\* A worker that stands at an attempt stands at one that was started, and what it is
\* about to explain it has a code for.
AtAttempt == Steps \ {"idle", "look", "start", "again", "refused"}
Standing ==
    \A w \in Workers :
        /\ pc[w] \in AtAttempt => at[w] \in Attempts /\ at[w][2] <= started[at[w][1]]
        /\ pc[w] \in {"start", "again"} => at[w][1] \in Nodes
        /\ pc[w] \in {"explain", "settle"} => code[w] \in Explanations

\* Only claims, ends, parks, crashes, retries and cancels move the run.
LEMMA RunTypedKept == ASSUME RunTyped, WorkersTyped, Next PROVE RunTyped'
<1>1. CASE UNCHANGED run
    BY <1>1 DEF RunTyped, run
<1>2. ASSUME NEW w \in Workers, Claim(w) PROVE RunTyped'
    BY <1>2 DEF RunTyped, Claim
<1>3. ASSUME NEW w \in Workers, Complete(w) \/ Block(w) PROVE RunTyped'
    BY <1>3, Fresh DEF RunTyped, Complete, Block, EndRun, run
<1>4. ASSUME NEW w \in Workers, Leave(w) PROVE RunTyped'
    BY <1>4, Fresh DEF RunTyped, Leave, Park, EndRun, Holds, run
<1>5. ASSUME NEW w \in Workers, Crash(w) PROVE RunTyped'
    BY <1>5 DEF RunTyped, Crash
<1>6. CASE Retry \/ Cancel
    BY <1>6 DEF RunTyped, Retry, Cancel
<1> QED
    BY <1>1, <1>2, <1>3, <1>4, <1>5, <1>6, RunMoves

\* Every row written keeps its kind.
LEMMA RowsTypedKept == ASSUME RowsTyped, WorkersTyped, Standing, Next PROVE RowsTyped'
<1>1. CASE UNCHANGED <<started, reserved, outcome, explained, accepted>> /\ (UNCHANGED parked \/ ParksBilled)
    BY <1>1 DEF RowsTyped, ParksBilled
<1>2. ASSUME NEW w \in Workers, Begins(w) PROVE RowsTyped'
    <2>1. started[Node(w)] # MaxOrdinal
        BY <1>2 DEF Begins, StartRefusal, Over
    <2>2. Node(w) \in Nodes
        BY <1>2 DEF Begins, Start, Standing, Node
    <2>3. started' = [started EXCEPT ![Node(w)] = @ + 1]
          /\ UNCHANGED <<reserved, outcome, explained, accepted, parked>>
        BY <1>2 DEF Begins, Start
    <2> QED
        BY <2>1, <2>2, <2>3, BoundsNat DEF RowsTyped
<1>3. ASSUME NEW w \in Workers, Reserves(w) PROVE RowsTyped'
    BY <1>3 DEF Reserves, Reserve, RowsTyped
<1>4. ASSUME NEW w \in Workers, Bills(w) PROVE RowsTyped'
    <2>1. answer[w] \in Kinds
        BY DEF WorkersTyped
    <2>2. UNCHANGED <<started, reserved, explained, accepted, parked>>
        BY <1>4 DEF Bills, Record, CutBilling
    <2> QED
        BY <1>4, <2>1, <2>2 DEF Bills, Insert, RowsTyped, Kinds
<1>5. ASSUME NEW w \in Workers, Explains(w) PROVE RowsTyped'
    BY <1>5 DEF Explains, Explain, Write, RowsTyped, Standing
<1>6. ASSUME NEW w \in Workers, Accepts(w) PROVE RowsTyped'
    BY <1>6, Zenon DEF Accepts, Accept, Own, RowsTyped
<1> QED
    BY <1>1, <1>2, <1>3, <1>4, <1>5, <1>6, RowsMove

\* Every guard taken, dropped or lapsed keeps its kind.
LEMMA GuardsTypedKept == ASSUME GuardsTyped, Next PROVE GuardsTyped'
<1>1. CASE UNCHANGED guards
    BY <1>1 DEF GuardsTyped, guards
<1>2. ASSUME NEW w \in Workers, TakeHold(w) \/ Check(w) \/ ResendRefused(w) \/ MarkOwed(w)
                                \/ Record(w) \/ Reconnect(w)
      PROVE  GuardsTyped'
    BY <1>2 DEF TakeHold, Check, ResendRefused, MarkOwed, Record, Reconnect, LetGo, GuardsTyped
<1>3. ASSUME NEW w \in Workers, WriteFails(w) \/ StoreFault(w) \/ Crash(w) PROVE GuardsTyped'
    BY <1>3 DEF WriteFails, StoreFault, Crash, LoseSession, GuardsTyped
<1>4. ASSUME NEW w \in Workers, CutCalling(w) PROVE GuardsTyped'
    BY <1>4 DEF CutCalling, LoseSession, Expose, GuardsTyped
<1>5. ASSUME NEW w \in Workers, CutBilling(w) PROVE GuardsTyped'
    BY <1>5 DEF CutBilling, LoseSession, Expose, GuardsTyped
<1>6. ASSUME NEW a \in Attempts, GhostEnds(a) \/ Age(a) \/ MarkLapses(a) PROVE GuardsTyped'
    BY <1>6 DEF GhostEnds, Age, MarkLapses, LetGo, Expose, GuardsTyped
<1> QED
    BY <1>1, <1>2, <1>3, <1>4, <1>5, <1>6, GuardsMove DEF GuardSteps

\* The ways a worker moves, each of which leaves it well typed.
LEMMA IdleTyped == ASSUME WorkersTyped, NEW w \in Workers, GoIdle(w) PROVE WorkersTyped'
    BY BoundsNat DEF WorkersTyped, GoIdle, Go, Steps, Codes, Kinds

LEMMA RefuseTyped ==
    ASSUME WorkersTyped, NEW w \in Workers, NEW c \in Codes, Refuse(w, c),
           UNCHANGED <<at, answer, pauses, cuts>>
    PROVE  WorkersTyped'
    BY DEF WorkersTyped, Refuse, Go, Steps

LEMMA GoTyped ==
    ASSUME WorkersTyped, NEW w \in Workers, NEW p \in Steps, Go(w, p),
           UNCHANGED <<at, code, answer, pauses, cuts>>
    PROVE  WorkersTyped'
    BY DEF WorkersTyped, Go

\* What the fence and the refusals of a start say is a code.
LEMMA FenceCode == ASSUME NEW w PROVE Fence(w) \in Codes
    BY DEF Fence, Codes, Fenced

LEMMA RefusalCode == ASSUME NEW w, NEW n PROVE StartRefusal(w, n) \in Codes
    BY FenceCode DEF StartRefusal, Codes, Released, Explanations

LEMMA FailedTryTyped ==
    ASSUME WorkersTyped, NEW w \in Workers, NEW p \in Steps, FailedTry(w, p), UNCHANGED <<at, answer>>
    PROVE  WorkersTyped'
<1>1. CASE pauses[w] > 0
    <2>1. pauses' = [pauses EXCEPT ![w] = pauses[w] - 1] /\ Go(w, p) /\ UNCHANGED <<code, cuts>>
        BY <1>1 DEF FailedTry
    <2>2. pauses[w] - 1 \in 0..BillTries
        BY <1>1, BoundsNat DEF WorkersTyped
    <2> QED
        BY <2>1, <2>2 DEF WorkersTyped, Go
<1>2. CASE ~(pauses[w] > 0)
    BY <1>2, RefuseTyped DEF FailedTry, Codes, Released
<1> QED
    BY <1>1, <1>2

\* Every step leaves every worker well typed.
LEMMA WorkersTypedKept == ASSUME WorkersTyped, RowsTyped, Standing, Next PROVE WorkersTyped'
<1>1. ASSUME NEW w \in Workers, Step(w) PROVE WorkersTyped'
    <2>1. ASSUME NEW n \in Nodes, Look(w, n) PROVE WorkersTyped'
        <3>1. CASE Replayable(n) # {} /\ at' = [at EXCEPT ![w] = First(Replayable(n))]
            <4>1. First(Replayable(n)) \in Nodes \X (0..MaxOrdinal)
                BY <3>1, ReplayFirst DEF Attempts
            <4>2. at' \in [Workers -> (Nodes \cup {NoNode}) \X (0..MaxOrdinal)]
                BY <3>1, <4>1 DEF WorkersTyped
            <4>3. pc' \in [Workers -> Steps] /\ code' \in [Workers -> Codes]
                  /\ UNCHANGED <<answer, pauses, cuts>>
                BY <2>1, LookCases DEF WorkersTyped, Go, Refuse, Steps, Codes
            <4> QED
                BY <4>2, <4>3 DEF WorkersTyped
        <3>2. CASE ~(Replayable(n) # {} /\ at' = [at EXCEPT ![w] = First(Replayable(n))])
            <4>1. UNCHANGED <<answer, pauses, cuts>>
                BY <2>1, LookCases
            <4>2. \/ Go(w, "look") /\ UNCHANGED <<at, code>>
                  \/ \E c \in Codes : Refuse(w, c) /\ UNCHANGED at
                  \/ Go(w, "start") /\ at' = [at EXCEPT ![w] = <<n, 0>>] /\ UNCHANGED code
                BY <2>1, <3>2, LookCases
            <4>3. <<n, 0>> \in (Nodes \cup {NoNode}) \X (0..MaxOrdinal)
                BY BoundsNat
            <4> QED
                BY <4>1, <4>2, <4>3 DEF WorkersTyped, Go, Refuse, Steps
        <3> QED
            BY <3>1, <3>2
    <2>2. ASSUME NEW k \in Answers, Call(w, k) PROVE WorkersTyped'
        BY <2>2, AnswersKnown, BoundsNat DEF Call, Go, WorkersTyped, Steps
    <2>3. CASE TakeHold(w) \/ MarkOwed(w) \/ Record(w) \/ Reconnect(w) \/ Again(w)
        BY <2>3, GoTyped DEF TakeHold, MarkOwed, Record, Reconnect, Again, Steps
    <2>4. CASE Check(w) \/ ResendRefused(w) \/ Reserve(w)
        BY <2>4, GoTyped, RefuseTyped, FenceCode
           DEF Check, ResendRefused, Reserve, Steps, Codes, Fenced
    <2>5. CASE Complete(w) \/ Block(w)
        BY <2>5, IdleTyped, RefuseTyped, FenceCode DEF Complete, Block
    <2>6. CASE Leave(w)
        BY <2>6, IdleTyped DEF Leave
    <2>7. CASE Start(w)
        <3>1. CASE StartRefusal(w, Node(w)) # "OK"
            BY <2>7, <3>1, RefuseTyped, RefusalCode DEF Start
        <3>2. CASE StartRefusal(w, Node(w)) = "OK"
            <4>1. started[Node(w)] # MaxOrdinal
                BY <3>2 DEF StartRefusal, Over
            <4>2. Node(w) \in Nodes
                BY <2>7 DEF Start, Standing, Node
            <4>3. started[Node(w)] + 1 \in 0..MaxOrdinal
                BY <4>1, <4>2, BoundsNat DEF RowsTyped
            <4>4. at' = [at EXCEPT ![w] = <<Node(w), started[Node(w)] + 1>>] /\ Go(w, "reserve")
                  /\ UNCHANGED <<code, answer, pauses, cuts>>
                BY <2>7, <3>2 DEF Start
            <4> QED
                BY <4>2, <4>3, <4>4 DEF WorkersTyped, Go, Steps
        <3> QED
            BY <3>1, <3>2
    <2>8. CASE Judge(w)
        BY <2>8 DEF Judge, Go, Refuse, WorkersTyped, Steps, Codes, Released, Explanations, Fenced
    <2>9. CASE Explain(w)
        BY <2>9 DEF Explain, Go, Refuse, WorkersTyped, Steps, Codes, Fenced
    <2>10. CASE Accept(w)
        BY <2>10 DEF Accept, Own, Go, Refuse, WorkersTyped, Steps, Codes, Fenced
    <2>11. CASE Confirm(w)
        <3>1. CASE Replayable(Node(w)) # {} /\ at' = [at EXCEPT ![w] = First(Replayable(Node(w)))]
            <4>1. First(Replayable(Node(w))) \in Nodes \X (0..MaxOrdinal)
                BY <3>1, ReplayFirst DEF Attempts
            <4>2. at' \in [Workers -> (Nodes \cup {NoNode}) \X (0..MaxOrdinal)]
                BY <3>1, <4>1 DEF WorkersTyped
            <4>3. pc' \in [Workers -> Steps] /\ code' \in [Workers -> Codes]
                  /\ UNCHANGED <<answer, pauses, cuts>>
                BY <2>11 DEF Confirm, WorkersTyped, Go, Refuse, Steps, Codes, Fenced
            <4> QED
                BY <4>2, <4>3 DEF WorkersTyped
        <3>2. CASE ~(Replayable(Node(w)) # {} /\ at' = [at EXCEPT ![w] = First(Replayable(Node(w)))])
            BY <2>11, <3>2 DEF Confirm, WorkersTyped, Go, Refuse, Steps, Codes, Fenced
        <3> QED
            BY <3>1, <3>2
    <2> QED
        BY <1>1, <2>1, <2>2, <2>3, <2>4, <2>5, <2>6, <2>7, <2>8, <2>9, <2>10, <2>11, Zenon DEF Step
<1>2. ASSUME NEW w \in Workers, Disturb(w) PROVE WorkersTyped'
    <2>1. CASE WriteFails(w) \/ ReconnectFails(w)
        BY <2>1, FailedTryTyped DEF WriteFails, ReconnectFails, Steps
    <2>2. CASE CutBilling(w)
        <3>1. CASE cuts[w] > 0
            <4>1. cuts' = [cuts EXCEPT ![w] = cuts[w] - 1] /\ Go(w, "reconnect")
                  /\ UNCHANGED <<at, code, answer, pauses>>
                BY <2>2, <3>1 DEF CutBilling
            <4>2. cuts[w] - 1 \in 0..BillTries
                BY <3>1, BoundsNat DEF WorkersTyped
            <4> QED
                BY <4>1, <4>2 DEF WorkersTyped, Go, Steps
        <3>2. CASE ~(cuts[w] > 0)
            BY <2>2, <3>2, FailedTryTyped DEF CutBilling, Steps
        <3> QED
            BY <3>1, <3>2
    <2>3. CASE MarkFails(w) \/ ExplainFails(w)
        BY <2>3 DEF MarkFails, ExplainFails, WorkersTyped, Go, Steps, Codes, Released
    <2>4. CASE CutCalling(w)
        BY <2>4 DEF CutCalling, WorkersTyped, worker
    <2>5. CASE StoreFault(w)
        BY <2>5, RefuseTyped DEF StoreFault, Codes, Released
    <2>6. CASE Crash(w)
        BY <2>6, IdleTyped DEF Crash
    <2> QED
        BY <1>2, <2>1, <2>2, <2>3, <2>4, <2>5, <2>6, Zenon DEF Disturb
<1>3. ASSUME NEW w \in Workers, Claim(w) PROVE WorkersTyped'
    BY <1>3, GoTyped DEF Claim, Steps
<1>4. CASE Retry \/ Cancel
    BY <1>4 DEF Retry, Cancel, WorkersTyped, worker
<1>5. ASSUME NEW a \in Attempts, GhostEnds(a) \/ Age(a) \/ MarkLapses(a) PROVE WorkersTyped'
    BY <1>5 DEF GhostEnds, Age, MarkLapses, WorkersTyped, worker
<1> QED
    BY <1>1, <1>2, <1>3, <1>4, <1>5, Zenon DEF Next

\* A disturbance is counted, and no other step is.
LEMMA FaultsKept == ASSUME faults \in 0..MaxFaults, Next PROVE faults' \in 0..MaxFaults
<1> SUFFICES faults' = faults \/ Fault
    BY BoundsNat DEF Fault
<1>1. ASSUME NEW w \in Workers, Step(w) PROVE UNCHANGED faults
    <2>1. ASSUME NEW n \in Nodes, Look(w, n) PROVE UNCHANGED faults
        BY <2>1, Zenon DEF Look
    <2>2. ASSUME NEW k \in Answers, Call(w, k) PROVE UNCHANGED faults
        BY <2>2 DEF Call
    <2>3. CASE Complete(w) \/ Start(w) \/ Reserve(w) \/ TakeHold(w) \/ Check(w) \/ ResendRefused(w)
               \/ MarkOwed(w) \/ Record(w) \/ Reconnect(w) \/ Block(w) \/ Again(w) \/ Leave(w)
        BY <2>3 DEF Complete, Start, Reserve, TakeHold, Check, ResendRefused, MarkOwed, Record,
           Reconnect, Block, Again, Leave
    <2>4. CASE Judge(w) \/ Explain(w) \/ Accept(w) \/ Confirm(w)
        BY <2>4, Zenon DEF Judge, Explain, Accept, Confirm
    <2> QED
        BY <1>1, <2>1, <2>2, <2>3, <2>4, Zenon DEF Step
<1>2. ASSUME NEW w \in Workers, Disturb(w) PROVE Fault
    BY <1>2, Zenon DEF Disturb, MarkFails, WriteFails, CutCalling, CutBilling, ReconnectFails,
       ExplainFails, StoreFault, Crash
<1>3. ASSUME NEW w \in Workers, Claim(w) PROVE UNCHANGED faults \/ Fault
    BY <1>3 DEF Claim
<1>4. CASE Retry \/ Cancel
    BY <1>4 DEF Retry, Cancel
<1>5. ASSUME NEW a \in Attempts, GhostEnds(a) \/ Age(a) \/ MarkLapses(a) PROVE UNCHANGED faults \/ Fault
    BY <1>5 DEF GhostEnds, Age, MarkLapses
<1> QED
    BY <1>1, <1>2, <1>3, <1>4, <1>5, Zenon DEF Next

\* Attempts at a node are only ever added.
LEMMA StartedGrows ==
    ASSUME RowsTyped, Next, NEW n \in Nodes
    PROVE  /\ started[n] \in Nat /\ started'[n] \in Nat
           /\ started[n] <= started'[n]
<1>1. CASE UNCHANGED started
    BY <1>1, BoundsNat DEF RowsTyped
<1>2. ASSUME NEW w \in Workers, Begins(w) PROVE started' = [started EXCEPT ![Node(w)] = @ + 1]
    BY <1>2 DEF Begins, Start
<1>3. UNCHANGED started \/ \E w \in Workers : Begins(w)
    BY RowsMove DEF Reserves, Reserve, Bills, Record, CutBilling, Explains, Explain, Accepts, Accept
<1> QED
    BY <1>1, <1>2, <1>3, BoundsNat DEF RowsTyped

\* A step of one worker leaves every other where it is.
LEMMA OthersStay ==
    ASSUME WorkersTyped, NEW w \in Workers, Claim(w) \/ Step(w) \/ Disturb(w),
           NEW v \in Workers, v # w
    PROVE  pc'[v] = pc[v] /\ at'[v] = at[v] /\ code'[v] = code[v] /\ answer'[v] = answer[v]
<1>1. CASE Step(w)
    <2>1. ASSUME NEW n \in Nodes, Look(w, n)
          PROVE  pc'[v] = pc[v] /\ at'[v] = at[v] /\ code'[v] = code[v] /\ answer'[v] = answer[v]
        <3> DEFINE f == First(Replayable(n))
        <3>1. /\ UNCHANGED answer
              /\ \E p \in Steps : Go(w, p)
              /\ UNCHANGED code \/ \E c \in Codes : code' = [code EXCEPT ![w] = c]
              /\ UNCHANGED at \/ at' = [at EXCEPT ![w] = <<n, 0>>] \/ at' = [at EXCEPT ![w] = f]
            BY <2>1, LookCases DEF Refuse, Steps, Codes
        <3> HIDE DEF f
        <3> QED
            BY <3>1 DEF WorkersTyped, Go
    <2>2. ASSUME NEW k \in Answers, Call(w, k)
          PROVE  pc'[v] = pc[v] /\ at'[v] = at[v] /\ code'[v] = code[v] /\ answer'[v] = answer[v]
        BY <2>2 DEF Call, Go, WorkersTyped
    <2>3. CASE TakeHold(w) \/ MarkOwed(w) \/ Record(w) \/ Reconnect(w) \/ Again(w) \/ Check(w)
               \/ ResendRefused(w) \/ Reserve(w)
        BY <2>3 DEF TakeHold, MarkOwed, Record, Reconnect, Again, Check, ResendRefused, Reserve,
           Go, Refuse, WorkersTyped
    <2>4. CASE Complete(w) \/ Block(w) \/ Leave(w)
        BY <2>4 DEF Complete, Block, Leave, GoIdle, Go, Refuse, WorkersTyped
    <2>5. CASE Start(w)
        BY <2>5 DEF Start, Go, Refuse, WorkersTyped
    <2>6. CASE Judge(w) \/ Explain(w)
        BY <2>6 DEF Judge, Explain, Go, Refuse, WorkersTyped
    <2>7. CASE Accept(w)
        BY <2>7 DEF Accept, Own, Go, Refuse, WorkersTyped
    <2>8. CASE Confirm(w)
        <3>1. /\ UNCHANGED answer
              /\ UNCHANGED code \/ \E c \in Codes : code' = [code EXCEPT ![w] = c]
              /\ \E p \in Steps : Go(w, p)
            BY <2>8 DEF Confirm, Refuse, Codes, Steps, Fenced
        <3>2. UNCHANGED at \/ at' = [at EXCEPT ![w] = First(Replayable(Node(w)))]
            BY <2>8, Zenon DEF Confirm
        <3> QED
            BY <3>1, <3>2 DEF WorkersTyped, Go
    <2> QED
        BY <1>1, <2>1, <2>2, <2>3, <2>4, <2>5, <2>6, <2>7, <2>8, Zenon DEF Step
<1>2. CASE Disturb(w)
    <2>1. CASE WriteFails(w) \/ ReconnectFails(w) \/ CutBilling(w)
        BY <2>1 DEF WriteFails, ReconnectFails, CutBilling, FailedTry, Go, Refuse, WorkersTyped
    <2>2. CASE MarkFails(w) \/ ExplainFails(w) \/ CutCalling(w) \/ StoreFault(w) \/ Crash(w)
        BY <2>2 DEF MarkFails, ExplainFails, CutCalling, StoreFault, Crash, GoIdle, Go, Refuse,
           WorkersTyped, worker
    <2> QED
        BY <1>2, <2>1, <2>2, Zenon DEF Disturb
<1>3. CASE Claim(w)
    BY <1>3 DEF Claim, Go, WorkersTyped
<1> QED
    BY <1>1, <1>2, <1>3

\* A step of no worker leaves every worker where it is.
LEMMA AllStay ==
    ASSUME Retry \/ Cancel \/ \E a \in Attempts : GhostEnds(a) \/ Age(a) \/ MarkLapses(a)
    PROVE  UNCHANGED worker
    BY DEF Retry, Cancel, GhostEnds, Age, MarkLapses

\* Where a worker stands, an attempt was started: those before it, or its own.
LEMMA StandingKept == ASSUME RowsTyped, WorkersTyped, Standing, Next PROVE Standing'
<1> DEFINE Stands(v) ==
        /\ pc[v] \in AtAttempt => at[v] \in Attempts /\ at[v][2] <= started[at[v][1]]
        /\ pc[v] \in {"start", "again"} => at[v][1] \in Nodes
        /\ pc[v] \in {"explain", "settle"} => code[v] \in Explanations
<1> SUFFICES ASSUME NEW v \in Workers PROVE Stands(v)'
    BY Zenon DEF Standing
<1>0. Stands(v)
    BY DEF Standing
<1>1. ASSUME pc'[v] = pc[v], at'[v] = at[v], code'[v] = code[v] PROVE Stands(v)'
    <2>1. CASE pc[v] \in AtAttempt
        <3>1. at[v] \in Attempts /\ at[v][1] \in Nodes /\ at[v][2] \in Nat
            BY <1>0, <2>1, BoundsNat DEF Attempts
        <3> QED
            BY <1>0, <1>1, <2>1, <3>1, StartedGrows DEF AtAttempt
    <2> QED
        BY <1>0, <1>1, <2>1
<1>2. ASSUME pc'[v] \in {"idle", "look", "refused"} PROVE Stands(v)'
    BY <1>2 DEF AtAttempt
<1>3. ASSUME pc[v] \in AtAttempt, pc'[v] \in AtAttempt, at'[v] = at[v],
             pc'[v] \in {"explain", "settle"} => code'[v] \in Explanations
      PROVE  Stands(v)'
    <2>1. at[v] \in Attempts /\ at[v][1] \in Nodes /\ at[v][2] \in Nat
        BY <1>0, <1>3, BoundsNat DEF Attempts
    <2> QED
        BY <1>0, <1>3, <2>1, StartedGrows DEF AtAttempt
<1>4. ASSUME NEW n \in Nodes, Look(v, n) PROVE Stands(v)'
    <2>1. UNCHANGED started
        BY <1>4, LookCases DEF rows
    <2>2. CASE pc'[v] \in {"idle", "look", "refused"}
        BY <2>2, <1>2
    <2>3. CASE pc'[v] = "start" /\ at'[v] = <<n, 0>>
        BY <2>3 DEF AtAttempt
    <2>4. CASE /\ Replayable(n) # {} /\ at'[v] = First(Replayable(n)) /\ pc'[v] \in AtAttempt
               /\ pc'[v] \in {"explain", "settle"} => code'[v] \in Explanations
        BY <2>1, <2>4, ReplayFirst DEF AtAttempt
    <2> QED
        BY <1>4, <2>2, <2>3, <2>4, LookCases DEF WorkersTyped, Go, Refuse, AtAttempt, Steps
<1>5. ASSUME Start(v) PROVE Stands(v)'
    <2>1. CASE pc'[v] = "refused"
        BY <2>1, <1>2
    <2>2. CASE pc'[v] # "refused"
        <3>1. StartRefusal(v, Node(v)) = "OK"
            BY <1>5, <2>2 DEF Start, Refuse, Go, WorkersTyped
        <3>2. started[Node(v)] # MaxOrdinal
            BY <3>1 DEF StartRefusal, Over
        <3>3. Node(v) \in Nodes
            BY <1>5 DEF Start, Standing, Node
        <3>4. /\ at' = [at EXCEPT ![v] = <<Node(v), started[Node(v)] + 1>>]
              /\ started' = [started EXCEPT ![Node(v)] = @ + 1] /\ Go(v, "reserve")
            BY <1>5, <3>1 DEF Start
        <3>5. at'[v] = <<Node(v), started[Node(v)] + 1>> /\ pc'[v] = "reserve"
            BY <3>4 DEF WorkersTyped, Go
        <3>6. started'[Node(v)] = started[Node(v)] + 1 /\ started[Node(v)] + 1 \in 1..MaxOrdinal
            BY <3>2, <3>3, <3>4, BoundsNat DEF RowsTyped
        <3> QED
            BY <3>3, <3>5, <3>6 DEF Attempts, AtAttempt
    <2> QED
        BY <2>1, <2>2
<1>6. ASSUME Again(v) PROVE Stands(v)'
    BY <1>6, BoundsNat DEF Again, Due, GuidedDue, DropDue, LastIsDrop, Drops, Real, Of, Attempts, Go, AtAttempt, Node, WorkersTyped
<1>7. ASSUME Confirm(v) PROVE Stands(v)'
    <2>1. UNCHANGED started
        BY <1>7, Zenon DEF Confirm, rows
    <2>2. \/ pc'[v] = "refused"
          \/ Replayable(Node(v)) # {} /\ at' = [at EXCEPT ![v] = First(Replayable(Node(v)))]
             /\ pc'[v] = "block"
        <3>1. \/ \E c \in Codes : Refuse(v, c)
              \/ Replayable(Node(v)) # {} /\ at' = [at EXCEPT ![v] = First(Replayable(Node(v)))]
                 /\ Go(v, "block")
            <4>1. {"RUN_NOT_RUNNING", "HANDOFF_BLOCKED"} \subseteq Codes
                BY DEF Codes, Fenced
            <4> QED
                BY <1>7, <4>1, Zenon DEF Confirm
        <3> QED
            BY <3>1 DEF Go, Refuse, WorkersTyped
    <2>3. at' = [at EXCEPT ![v] = First(Replayable(Node(v)))] => at'[v] = First(Replayable(Node(v)))
        BY DEF WorkersTyped
    <2> QED
        BY <2>1, <2>2, <2>3, <1>2, ReplayFirst DEF AtAttempt
<1>8. ASSUME Step(v) PROVE Stands(v)'
    <2>1. ASSUME NEW k \in Answers, Call(v, k) PROVE Stands(v)'
        BY <2>1, <1>3 DEF Call, Go, WorkersTyped, AtAttempt, Steps
    <2>2. CASE Complete(v) \/ Block(v) \/ Leave(v) \/ Explain(v) \/ ResendRefused(v)
        BY <2>2, <1>2 DEF Complete, Block, Leave, Explain, ResendRefused, GoIdle, Go, Refuse, WorkersTyped
    <2>3. CASE Accept(v)
        BY <2>3, <1>2 DEF Accept, Own, Go, Refuse, WorkersTyped
    <2>4. CASE Reserve(v) \/ TakeHold(v) \/ Check(v) \/ MarkOwed(v) \/ Record(v) \/ Reconnect(v)
        <3>1. /\ UNCHANGED at
              /\ pc[v] \in AtAttempt
              /\ pc'[v] \in AtAttempt \ {"explain", "settle"} \/ pc'[v] = "refused"
            BY <2>4 DEF Reserve, TakeHold, Check, MarkOwed, Record, Reconnect, Go, Refuse,
               WorkersTyped, AtAttempt, Steps
        <3> QED
            BY <3>1, <1>2, <1>3
    <2>5. CASE Judge(v)
        <3>1. /\ UNCHANGED at
              /\ pc[v] \in AtAttempt
              /\ \/ pc'[v] \in {"accept", "confirm", "refused"}
                 \/ pc'[v] = "explain" /\ code'[v] \in Explanations
            BY <2>5 DEF Judge, Go, Refuse, WorkersTyped, AtAttempt, Steps, Explanations
        <3> QED
            BY <3>1, <1>2, <1>3 DEF AtAttempt, Steps
    <2> QED
        BY <1>4, <1>5, <1>6, <1>7, <1>8, <2>1, <2>2, <2>3, <2>4, <2>5, Zenon DEF Step
<1>9. ASSUME Disturb(v) PROVE Stands(v)'
    <2>1. CASE ExplainFails(v) \/ StoreFault(v) \/ Crash(v)
        BY <2>1, <1>2 DEF ExplainFails, StoreFault, Crash, GoIdle, Go, Refuse, WorkersTyped
    <2>2. CASE CutCalling(v)
        BY <2>2, <1>1 DEF CutCalling, worker
    <2>3. CASE MarkFails(v) \/ WriteFails(v) \/ ReconnectFails(v) \/ CutBilling(v)
        <3>1. /\ UNCHANGED at
              /\ pc[v] \in AtAttempt
              /\ pc'[v] \in {"mark", "write", "reconnect", "refused"}
            BY <2>3 DEF MarkFails, WriteFails, ReconnectFails, CutBilling, FailedTry, Go, Refuse,
               WorkersTyped, AtAttempt, Steps
        <3> QED
            BY <3>1, <1>2, <1>3 DEF AtAttempt, Steps
    <2> QED
        BY <1>9, <2>1, <2>2, <2>3, Zenon DEF Disturb
<1>10. ASSUME Claim(v) PROVE Stands(v)'
    BY <1>10, <1>2 DEF Claim, Go, WorkersTyped
<1>11. ASSUME NEW w \in Workers, w # v, Claim(w) \/ Step(w) \/ Disturb(w) PROVE Stands(v)'
    BY <1>11, <1>1, OthersStay
<1>12. CASE UNCHANGED worker
    BY <1>12, <1>1 DEF worker
<1> QED
    BY <1>8, <1>9, <1>10, <1>11, <1>12, AllStay, Zenon DEF Next

\* Type correctness.
TypeInv == TypeOK /\ Standing

\* The invariant under type correctness holds at first.
LEMMA TypeInit == Init => TypeInv
<1> SUFFICES ASSUME Init PROVE TypeInv
    OBVIOUS
<1>1. RunTyped
    BY DEF Init, RunTyped
<1>2. RowsTyped
    BY BoundsNat DEF Init, RowsTyped
<1>3. GuardsTyped
    BY DEF Init, GuardsTyped
<1>4. WorkersTyped
    BY BoundsNat DEF Init, WorkersTyped, Steps, Codes, Kinds
<1>5. Standing
    BY DEF Init, Standing, AtAttempt
<1> QED
    BY <1>1, <1>2, <1>3, <1>4, <1>5, TypeParts, BoundsNat DEF TypeInv, Init

\* Every step keeps it.
LEMMA TypeStep == TypeInv /\ [Next]_vars => TypeInv'
<1> SUFFICES ASSUME TypeInv, [Next]_vars PROVE TypeInv'
    OBVIOUS
<1>1. RunTyped /\ RowsTyped /\ GuardsTyped /\ WorkersTyped /\ faults \in 0..MaxFaults /\ Standing
    BY TypeParts DEF TypeInv
<1>2. CASE Next
    <2>1. RunTyped' /\ RowsTyped' /\ GuardsTyped' /\ WorkersTyped' /\ Standing'
        BY <1>1, <1>2, RunTypedKept, RowsTypedKept, GuardsTypedKept, WorkersTypedKept, StandingKept
    <2>2. faults' \in 0..MaxFaults
        BY <1>1, <1>2, FaultsKept
    <2> QED
        BY <2>1, <2>2, Zenon
           DEF TypeInv, TypeOK, RunTyped, RowsTyped, GuardsTyped, WorkersTyped
<1>3. CASE UNCHANGED vars
    BY <1>3 DEF TypeInv, TypeOK, Standing, vars, run, rows, guards, worker
<1> QED
    BY <1>2, <1>3

\* Every row, guard and worker stays in its type, and the work row is DONE exactly
\* when the run ended (queue.py and runs.py move both in one unit).
THEOREM TypeCorrect == Spec => []TypeOK
<1>1. TypeInv => TypeOK
    BY DEF TypeInv
<1> QED
    BY <1>1, TypeInit, TypeStep, PTL DEF Spec

-----------------------------------------------------------------------------
(* The caller of an attempt.                                               *)

\* From its start to its bill an attempt has one worker, who alone calls for it.
Billing == {"mark", "write", "reconnect"}
Calling == {"reserve", "hold", "check", "call", "judge"} \cup Billing

\* No attempt has two callers.
OneCaller ==
    \A v, w \in Workers : pc[v] \in Calling /\ pc[w] \in Calling /\ at[v] = at[w] => v = w

\* An attempt that was not started has nothing to its name.
Untouched(a) ==
    /\ outcome[a] = "none" /\ reserved[a] = 0
    /\ explained[a] = "none" /\ ~accepted[a]
    /\ hold[a] = "free" /\ ~aged[a] /\ mark[a] = "none" /\ ~exposed[a]

Unstarted == \A a \in Attempts : a[2] > started[a[1]] => Untouched(a)

\* What the ledger holds of an attempt, by where its caller is.
CallerState ==
    \A w \in Workers :
        /\ pc[w] = "reserve" => reserved[at[w]] = 0 /\ hold[at[w]] = "free" /\ ~aged[at[w]]
        /\ pc[w] = "hold" /\ aged[at[w]] => exposed[at[w]]
        /\ pc[w] \in {"reserve", "hold"} => mark[at[w]] # "live"
        /\ pc[w] \in {"reserve", "hold", "check", "call"} => outcome[at[w]] = "none"
        /\ pc[w] \in Calling \ {"reserve"} => reserved[at[w]] = Price
        /\ pc[w] \in Billing \cup {"judge"} =>
               outcome[at[w]] \in {"none", answer[w]} \/ (answer[w] = "drop" /\ outcome[at[w]] = "unknown")
        /\ pc[w] = "judge" => outcome[at[w]] # "none"
        /\ pc[w] = "accept" => outcome[at[w]] \in Charged \ {"lost"}

\* A call in flight whose cover no disturbance took is covered.
CallCovered ==
    \A w \in Workers :
        pc[w] \in {"check", "call"} \cup Billing /\ ~exposed[at[w]] => Covered(at[w])

\* The holder's own attempt is the newest, and undecided until it decides it.
HolderNewest ==
    \A w \in Workers :
        Holds(w) /\ pc[w] \in {"reserve", "hold", "check"} => at[w][2] = started[at[w][1]]

\* The holder works at an attempt that is not decided yet.
HolderSettles ==
    \A w \in Workers :
        Holds(w) /\ pc[w] \in Calling \cup {"explain", "settle", "accept"} => Unsettled(at[w])

\* A charge nobody explained, its call never left uncovered, is its node's newest attempt.
OwedNewest ==
    \A a \in Attempts :
        outcome[a] \in Charged /\ explained[a] = "none" /\ ~exposed[a] => a[2] = started[a[1]]

Unparked(n) == {a \in Drops(n) : ~parked[a]}

\* A worker comes to be calling for an attempt only by starting it.
LEMMA CallingFrom ==
    ASSUME TypeInv, Next, NEW v \in Workers, pc'[v] \in Calling
    PROVE  \/ pc[v] \in Calling /\ at'[v] = at[v]
           \/ Begins(v) /\ pc'[v] = "reserve" /\ at'[v] = <<Node(v), started[Node(v)] + 1>>
              /\ Node(v) \in Nodes /\ started[Node(v)] + 1 \in 1..MaxOrdinal
<1>0. WorkersTyped /\ RowsTyped /\ Standing
    BY TypeParts DEF TypeInv
<1>1. CASE Step(v)
    <2>1. ASSUME NEW n \in Nodes, Look(v, n) PROVE pc'[v] \notin Calling
        BY <2>1, <1>0, LookCases DEF WorkersTyped, Go, Refuse, Calling, Billing
    <2>2. ASSUME NEW k \in Answers, Call(v, k) PROVE pc[v] \in Calling /\ at'[v] = at[v]
        BY <2>2 DEF Call, Calling
    <2>3. CASE Complete(v) \/ Block(v) \/ Leave(v) \/ Explain(v) \/ ResendRefused(v) \/ Again(v)
        BY <2>3, <1>0 DEF Complete, Block, Leave, Explain, ResendRefused, Again, GoIdle, Go, Refuse,
           WorkersTyped, Calling, Billing
    <2>4. CASE Accept(v)
        BY <2>4, <1>0 DEF Accept, Own, Go, Refuse, WorkersTyped, Calling, Billing
    <2>5. CASE Reserve(v) \/ TakeHold(v) \/ Check(v) \/ MarkOwed(v) \/ Record(v) \/ Reconnect(v)
        BY <2>5 DEF Reserve, TakeHold, Check, MarkOwed, Record, Reconnect, Calling, Billing
    <2>6. CASE Judge(v)
        BY <2>6 DEF Judge, Calling
    <2>7. CASE Confirm(v)
        <3>1. \E p \in {"refused", "block"} : Go(v, p)
            BY <2>7, Zenon DEF Confirm, Refuse
        <3> QED
            BY <3>1, <1>0 DEF Go, WorkersTyped, Calling, Billing
    <2>8. CASE Start(v)
        <3>1. StartRefusal(v, Node(v)) = "OK"
            BY <2>8, <1>0 DEF Start, Refuse, Go, WorkersTyped, Calling, Billing
        <3>2. started[Node(v)] # MaxOrdinal
            BY <3>1 DEF StartRefusal, Over
        <3>3. Node(v) \in Nodes
            BY <1>0, <2>8 DEF Start, Standing, Node
        <3>4. at' = [at EXCEPT ![v] = <<Node(v), started[Node(v)] + 1>>] /\ Go(v, "reserve")
            BY <2>8, <3>1 DEF Start
        <3>5. at'[v] = <<Node(v), started[Node(v)] + 1>> /\ pc'[v] = "reserve"
            BY <1>0, <3>4 DEF WorkersTyped, Go
        <3>6. started[Node(v)] + 1 \in 1..MaxOrdinal
            BY <1>0, <3>2, <3>3, BoundsNat DEF RowsTyped
        <3> QED
            BY <2>8, <3>1, <3>3, <3>5, <3>6 DEF Begins
    <2> QED
        BY <1>1, <2>1, <2>2, <2>3, <2>4, <2>5, <2>6, <2>7, <2>8, Zenon DEF Step
<1>2. CASE Disturb(v)
    <2>1. CASE ExplainFails(v) \/ StoreFault(v) \/ Crash(v)
        BY <2>1, <1>0 DEF ExplainFails, StoreFault, Crash, GoIdle, Go, Refuse, WorkersTyped, Calling, Billing
    <2>2. CASE CutCalling(v)
        BY <2>2 DEF CutCalling, worker, Calling
    <2>3. CASE MarkFails(v) \/ WriteFails(v) \/ ReconnectFails(v) \/ CutBilling(v)
        BY <2>3 DEF MarkFails, WriteFails, ReconnectFails, CutBilling, Calling, Billing
    <2> QED
        BY <1>2, <2>1, <2>2, <2>3, Zenon DEF Disturb
<1>3. CASE Claim(v)
    BY <1>3, <1>0 DEF Claim, Go, WorkersTyped, Calling, Billing
<1>4. ASSUME NEW w \in Workers, w # v, Claim(w) \/ Step(w) \/ Disturb(w) PROVE pc[v] \in Calling /\ at'[v] = at[v]
    BY <1>0, <1>4, OthersStay
<1>5. CASE UNCHANGED worker
    BY <1>5 DEF worker
<1> QED
    BY <1>1, <1>2, <1>3, <1>4, <1>5, AllStay, Zenon DEF Next

\* A start is the next ordinal, so nobody else calls for it.
LEMMA OneCallerKept == ASSUME TypeInv, OneCaller, Next PROVE OneCaller'
<1> SUFFICES ASSUME NEW v \in Workers, NEW w \in Workers, pc'[v] \in Calling, pc'[w] \in Calling,
                    at'[v] = at'[w]
             PROVE  v = w
    BY Zenon DEF OneCaller
<1>1. Standing
    BY DEF TypeInv
<1>2. RowsTyped
    BY TypeParts DEF TypeInv
<1>3. ASSUME NEW u \in Workers, pc[u] \in Calling
      PROVE  at[u] \in Attempts /\ at[u][2] <= started[at[u][1]]
    BY <1>1, <1>3 DEF Standing, AtAttempt, Calling, Billing, Steps
<1>4. ASSUME NEW u \in Workers, NEW n \in Nodes, pc[u] \in Calling PROVE at[u] # <<n, started[n] + 1>>
    BY <1>2, <1>3, <1>4, BoundsNat DEF RowsTyped
<1>5. ASSUME NEW u \in Workers, NEW x \in Workers, Begins(u), Begins(x), pc'[u] = "reserve", pc'[x] = "reserve" PROVE u = x
    BY <1>5, TypeParts DEF Begins, Start, Go, TypeInv, WorkersTyped
<1> QED
    BY <1>4, <1>5, CallingFrom DEF OneCaller

\* A step of the worker itself.
Acts(w) == Claim(w) \/ Step(w) \/ Disturb(w)

\* A worker moves only by a step of its own.
LEMMA WhoActs ==
    ASSUME TypeInv, Next, NEW v \in Workers
    PROVE  \/ Acts(v)
           \/ pc'[v] = pc[v] /\ at'[v] = at[v] /\ code'[v] = code[v] /\ answer'[v] = answer[v]
<1>1. WorkersTyped
    BY TypeParts DEF TypeInv
<1>2. ASSUME NEW w \in Workers, w # v, Acts(w)
      PROVE  pc'[v] = pc[v] /\ at'[v] = at[v] /\ code'[v] = code[v] /\ answer'[v] = answer[v]
    BY <1>1, <1>2, OthersStay DEF Acts
<1>3. CASE UNCHANGED worker
    BY <1>3 DEF worker
<1> QED
    BY <1>2, <1>3, AllStay, Zenon DEF Next, Acts

\* The way of a caller from its attempt's start to the judging of its answer.
LEMMA CallerPath ==
    ASSUME TypeInv, Next, NEW v \in Workers, pc[v] \in Calling, pc'[v] \in Calling
    PROVE  /\ at'[v] = at[v]
           /\ \/ pc'[v] = pc[v] /\ answer'[v] = answer[v]
              \/ Reserves(v) \/ TakeHold(v) \/ Check(v) \/ \E k \in Answers : Call(v, k)
              \/ MarkOwed(v) \/ Record(v) \/ Reconnect(v)
              \/ MarkFails(v) \/ WriteFails(v) \/ CutBilling(v)
<1>0. WorkersTyped
    BY TypeParts DEF TypeInv
<1>1. at'[v] = at[v]
    BY CallingFrom DEF Begins, Start, Calling, Billing
<1> DEFINE Way == \/ pc'[v] = pc[v] /\ answer'[v] = answer[v]
                  \/ Reserves(v) \/ TakeHold(v) \/ Check(v) \/ \E k \in Answers : Call(v, k)
                  \/ MarkOwed(v) \/ Record(v) \/ Reconnect(v)
                  \/ MarkFails(v) \/ WriteFails(v) \/ CutBilling(v)
<1>2. CASE Step(v)
    <2>1. \A n \in Nodes : ~Look(v, n)
        BY Zenon DEF Look, Calling, Billing
    <2>2. ~(Complete(v) \/ Start(v) \/ Explain(v) \/ Accept(v) \/ Confirm(v) \/ Block(v) \/ Again(v) \/ Leave(v))
        BY DEF Complete, Start, Explain, Accept, Confirm, Block, Again, Leave, Calling, Billing
    <2>3. ~(ResendRefused(v) \/ Judge(v))
        BY <1>0 DEF ResendRefused, Judge, Go, Refuse, WorkersTyped, Calling, Billing
    <2>4. Reserve(v) => Reserves(v)
        BY <1>0 DEF Reserve, Reserves, Go, Refuse, WorkersTyped, Calling, Billing
    <2> QED
        BY <1>1, <1>2, <2>1, <2>2, <2>3, <2>4, Zenon DEF Step
<1>3. CASE Disturb(v)
    <2>1. ~(ExplainFails(v) \/ StoreFault(v) \/ Crash(v))
        BY <1>0 DEF ExplainFails, StoreFault, Crash, GoIdle, Go, Refuse, WorkersTyped, Calling, Billing
    <2>2. CutCalling(v) => Way
        BY DEF CutCalling, worker
    <2>3. ReconnectFails(v) => Way
        BY <1>0 DEF ReconnectFails, FailedTry, Go, Refuse, WorkersTyped, Calling, Billing
    <2> QED
        BY <1>1, <1>3, <2>1, <2>2, <2>3, Zenon DEF Disturb
<1>4. ~Claim(v)
    BY DEF Claim, Calling, Billing
<1> QED
    BY <1>1, <1>2, <1>3, <1>4, WhoActs DEF Acts

\* A row changes only under the worker that stands at it.
LEMMA RowsAt ==
    ASSUME TypeInv, Next, NEW a \in Attempts
    PROVE  \/ /\ outcome'[a] = outcome[a] /\ reserved'[a] = reserved[a]
              /\ explained'[a] = explained[a] /\ accepted'[a] = accepted[a]
           \/ \E w \in Workers : at[w] = a /\ (Reserves(w) \/ Bills(w) \/ Explains(w) \/ Accepts(w))
<1>1. RowsTyped
    BY TypeParts DEF TypeInv
<1>2. ASSUME NEW w \in Workers, Begins(w) PROVE UNCHANGED <<outcome, reserved, explained, accepted>>
    BY <1>2 DEF Begins, Start
<1>3. ASSUME NEW w \in Workers, Reserves(w), at[w] # a
      PROVE  UNCHANGED <<outcome, explained, accepted>> /\ reserved'[a] = reserved[a]
    BY <1>1, <1>3 DEF Reserves, Reserve, RowsTyped
<1>4. ASSUME NEW w \in Workers, Bills(w), at[w] # a
      PROVE  UNCHANGED <<reserved, explained, accepted>> /\ outcome'[a] = outcome[a]
    BY <1>1, <1>4 DEF Bills, Record, CutBilling, Insert, RowsTyped
<1>5. ASSUME NEW w \in Workers, Explains(w), at[w] # a
      PROVE  UNCHANGED <<reserved, outcome, accepted>> /\ explained'[a] = explained[a]
    BY <1>1, <1>5 DEF Explains, Explain, Write, RowsTyped
<1>6. ASSUME NEW w \in Workers, Accepts(w), at[w] # a
      PROVE  UNCHANGED <<reserved, outcome, explained>> /\ accepted'[a] = accepted[a]
    <2>1. UNCHANGED <<reserved, outcome, explained>> /\ accepted' = [accepted EXCEPT ![at[w]] = TRUE]
        BY <1>6, Zenon DEF Accepts, Accept, Own
    <2> QED
        BY <1>1, <1>6, <2>1 DEF RowsTyped
<1> QED
    BY <1>2, <1>3, <1>4, <1>5, <1>6, RowsMove

\* What guards a call changes only under its worker, or with the store's clock.
LEMMA GuardsAt ==
    ASSUME TypeInv, Next, NEW a \in Attempts
    PROVE  \/ /\ hold'[a] = hold[a] /\ aged'[a] = aged[a]
              /\ mark'[a] = mark[a] /\ exposed'[a] = exposed[a]
           \/ \E w \in Workers :
                at[w] = a /\ pc[w] \in Calling \ {"reserve", "judge"} /\ GuardSteps(w)
           \/ GhostEnds(a) \/ Age(a) \/ MarkLapses(a)
<1>1. GuardsTyped
    BY TypeParts DEF TypeInv
<1>2. ASSUME NEW w \in Workers, GuardSteps(w), at[w] # a
      PROVE  hold'[a] = hold[a] /\ aged'[a] = aged[a] /\ mark'[a] = mark[a] /\ exposed'[a] = exposed[a]
    <2>1. CASE TakeHold(w) \/ Check(w) \/ ResendRefused(w) \/ MarkOwed(w) \/ Record(w) \/ Reconnect(w)
        BY <1>1, <1>2, <2>1 DEF TakeHold, Check, ResendRefused, MarkOwed, Record, Reconnect, LetGo, GuardsTyped
    <2>2. CASE WriteFails(w) \/ StoreFault(w) \/ Crash(w)
        BY <1>1, <1>2, <2>2 DEF WriteFails, StoreFault, Crash, LoseSession, GuardsTyped
    <2>3. CASE CutCalling(w) \/ CutBilling(w)
        BY <1>1, <1>2, <2>3 DEF CutCalling, CutBilling, LoseSession, Expose, GuardsTyped
    <2> QED
        BY <1>2, <2>1, <2>2, <2>3 DEF GuardSteps
<1>3. ASSUME NEW w \in Workers, GuardSteps(w), pc[w] \notin Calling \ {"reserve", "judge"}
      PROVE  UNCHANGED guards
    BY <1>3 DEF GuardSteps, TakeHold, Check, ResendRefused, MarkOwed, Record, Reconnect, WriteFails,
       StoreFault, Crash, CutCalling, CutBilling, Calling, Billing, guards
<1>4. ASSUME NEW b \in Attempts, GhostEnds(b) \/ Age(b) \/ MarkLapses(b), b # a
      PROVE  hold'[a] = hold[a] /\ aged'[a] = aged[a] /\ mark'[a] = mark[a] /\ exposed'[a] = exposed[a]
    BY <1>1, <1>4 DEF GhostEnds, Age, MarkLapses, LetGo, Expose, GuardsTyped
<1> QED
    BY <1>2, <1>3, <1>4, GuardsMove DEF guards

\* What was exposed stays so.
LEMMA ExposedGrows == ASSUME TypeInv, Next, NEW a \in Attempts, exposed[a] PROVE exposed'[a]
<1>1. GuardsTyped
    BY TypeParts DEF TypeInv
<1>2. ASSUME NEW w \in Workers, GuardSteps(w) PROVE exposed'[a]
    BY <1>1, <1>2 DEF GuardSteps, TakeHold, Check, ResendRefused, MarkOwed, Record, Reconnect,
       WriteFails, StoreFault, Crash, CutCalling, CutBilling, Expose, GuardsTyped
<1>3. ASSUME GhostEnds(a) \/ Age(a) \/ MarkLapses(a) PROVE exposed'[a]
    BY <1>1, <1>3 DEF GhostEnds, Age, MarkLapses, Expose, GuardsTyped
<1> QED
    BY <1>2, <1>3, GuardsAt

\* Nobody stands at an attempt that was not started, so nobody writes to it.
LEMMA UnstartedKept == ASSUME TypeInv, Unstarted, Next PROVE Unstarted'
<1> SUFFICES ASSUME NEW a \in Attempts, a[2] > started'[a[1]] PROVE Untouched(a)'
    BY DEF Unstarted
<1>1. RowsTyped /\ Standing
    BY TypeParts DEF TypeInv
<1>2. a[1] \in Nodes /\ a[2] \in Nat /\ a[2] > started[a[1]]
    BY <1>1, StartedGrows DEF Attempts
<1>3. Untouched(a)
    BY <1>2 DEF Unstarted
<1>4. \A w \in Workers : pc[w] \in AtAttempt => at[w] # a
    BY <1>1, <1>2, BoundsNat DEF Standing, RowsTyped
<1>5. /\ outcome'[a] = outcome[a] /\ reserved'[a] = reserved[a]
      /\ explained'[a] = explained[a] /\ accepted'[a] = accepted[a]
    <2>1. \A w \in Workers : Reserves(w) \/ Bills(w) \/ Explains(w) \/ Accepts(w) => pc[w] \in AtAttempt
        BY DEF Reserves, Reserve, Bills, Explains, Explain, Accepts, Accept, AtAttempt, Steps
    <2> QED
        BY <1>4, <2>1, RowsAt
<1>6. hold'[a] = hold[a] /\ aged'[a] = aged[a] /\ mark'[a] = mark[a] /\ exposed'[a] = exposed[a]
    <2>1. Calling \subseteq AtAttempt
        BY DEF Calling, Billing, AtAttempt, Steps
    <2>2. ~InFlight(a)
        BY <1>4 DEF InFlight, AtAttempt, Steps
    <2>3. ~(GhostEnds(a) \/ Age(a) \/ MarkLapses(a))
        BY <1>3, <2>2 DEF GhostEnds, Age, MarkLapses, Untouched
    <2> QED
        BY <1>4, <2>1, <2>3, GuardsAt
<1> QED
    BY <1>3, <1>5, <1>6 DEF Untouched

\* The caller's row and guards change under nobody else.
LEMMA CallerRows ==
    ASSUME TypeInv, OneCaller, Next, NEW v \in Workers, pc[v] \in Calling
    PROVE  \/ outcome'[at[v]] = outcome[at[v]] /\ reserved'[at[v]] = reserved[at[v]]
           \/ Reserves(v) \/ Bills(v)
<1>1. at[v] \in Attempts
    BY DEF TypeInv, Standing, AtAttempt, Calling, Billing, Steps
<1>2. ASSUME NEW w \in Workers, at[w] = at[v], Reserves(w) \/ Bills(w) PROVE w = v
    BY <1>2 DEF OneCaller, Reserves, Reserve, Bills, Calling, Billing
<1>3. ASSUME NEW w \in Workers, Explains(w) \/ Accepts(w) PROVE UNCHANGED <<outcome, reserved>>
    BY <1>3, Zenon DEF Explains, Explain, Accepts, Accept
<1> QED
    BY <1>1, <1>2, <1>3, RowsAt

\* A call's guards change under its caller, or with the store's clock.
LEMMA CallerGuards ==
    ASSUME TypeInv, OneCaller, Next, NEW v \in Workers, pc[v] \in Calling
    PROVE  \/ /\ hold'[at[v]] = hold[at[v]] /\ aged'[at[v]] = aged[at[v]]
              /\ mark'[at[v]] = mark[at[v]] /\ exposed'[at[v]] = exposed[at[v]]
           \/ pc[v] \notin {"reserve", "judge"} /\ GuardSteps(v)
           \/ GhostEnds(at[v]) \/ Age(at[v]) \/ MarkLapses(at[v])
<1>1. at[v] \in Attempts
    BY DEF TypeInv, Standing, AtAttempt, Calling, Billing, Steps
<1> QED
    BY <1>1, GuardsAt DEF OneCaller

\* What CallerState says of one worker.
CallerIs(w) ==
    /\ pc[w] = "reserve" => reserved[at[w]] = 0 /\ hold[at[w]] = "free" /\ ~aged[at[w]]
    /\ pc[w] = "hold" /\ aged[at[w]] => exposed[at[w]]
    /\ pc[w] \in {"reserve", "hold"} => mark[at[w]] # "live"
    /\ pc[w] \in {"reserve", "hold", "check", "call"} => outcome[at[w]] = "none"
    /\ pc[w] \in Calling \ {"reserve"} => reserved[at[w]] = Price
    /\ pc[w] \in Billing \cup {"judge"} =>
           outcome[at[w]] \in {"none", answer[w]} \/ (answer[w] = "drop" /\ outcome[at[w]] = "unknown")
    /\ pc[w] = "judge" => outcome[at[w]] # "none"
    /\ pc[w] = "accept" => outcome[at[w]] \in Charged \ {"lost"}

\* At reserve and hold the guards are as they began, or the hold outlived its seconds.
LEMMA YoungGuards ==
    ASSUME TypeInv, OneCaller, CallerState, Next, NEW v \in Workers,
           pc[v] \in {"reserve", "hold"}, pc'[v] \in {"reserve", "hold"}
    PROVE  /\ mark'[at[v]] # "live"
           /\ pc[v] = "reserve" => hold'[at[v]] = "free" /\ ~aged'[at[v]]
           /\ pc[v] = "hold" /\ aged'[at[v]] => exposed'[at[v]]
<1>0. WorkersTyped /\ GuardsTyped /\ at[v] \in Attempts /\ pc[v] \in Calling
    BY TypeParts DEF TypeInv, Standing, AtAttempt, Calling, Billing, Steps
<1>1. CallerIs(v)
    BY DEF CallerState, CallerIs
<1>2. CASE hold'[at[v]] = hold[at[v]] /\ aged'[at[v]] = aged[at[v]]
           /\ mark'[at[v]] = mark[at[v]] /\ exposed'[at[v]] = exposed[at[v]]
    BY <1>1, <1>2 DEF CallerIs
<1>3. CASE pc[v] \notin {"reserve", "judge"} /\ GuardSteps(v)
    BY <1>0, <1>3 DEF GuardSteps, TakeHold, Check, ResendRefused, MarkOwed, Record, Reconnect,
       WriteFails, StoreFault, Crash, CutCalling, CutBilling, GoIdle, Refuse, Go, WorkersTyped
<1>4. CASE GhostEnds(at[v]) \/ MarkLapses(at[v])
    BY <1>0, <1>1, <1>4 DEF GhostEnds, MarkLapses, CallerIs, LetGo, Expose, GuardsTyped
<1>5. CASE Age(at[v])
    <2>1. pc'[v] = pc[v] /\ at'[v] = at[v]
        BY <1>5 DEF Age, worker
    <2>2. CASE pc[v] = "reserve"
        <3>1. ~InFlight(at[v])
            BY <2>2, <1>0 DEF InFlight, OneCaller, Calling, Billing
        <3> QED
            BY <1>1, <1>5, <2>2, <3>1 DEF Age, CallerIs
    <2>3. CASE pc[v] = "hold"
        <3>1. InFlight(at[v])'
            BY <2>1, <2>3 DEF InFlight
        <3>2. aged'[at[v]] /\ mark'[at[v]] # "live"
            BY <1>0, <1>1, <1>5, <2>3 DEF Age, CallerIs, GuardsTyped
        <3>3. ~Covered(at[v])'
            BY <2>1, <3>2 DEF Covered
        <3>4. exposed' = [exposed EXCEPT ![at[v]] = @ \/ (InFlight(at[v])' /\ ~Covered(at[v])')]
            BY <1>5, Zenon DEF Age, Expose
        <3>5. exposed'[at[v]]
            BY <1>0, <3>1, <3>3, <3>4 DEF GuardsTyped
        <3> QED
            BY <3>2, <3>5, <2>3
    <2> QED
        BY <2>2, <2>3
<1> QED
    BY <1>0, <1>2, <1>3, <1>4, <1>5, CallerGuards

\* A billed outcome is never rewritten.
LEMMA OutcomeStands ==
    ASSUME TypeInv, Next, NEW a \in Attempts, outcome[a] # "none"
    PROVE  outcome'[a] = outcome[a]
<1>1. RowsTyped
    BY TypeParts DEF TypeInv
<1>2. ASSUME NEW w \in Workers, Bills(w) PROVE outcome'[a] = outcome[a]
    BY <1>1, <1>2 DEF Bills, Insert, RowsTyped
<1> QED
    BY <1>2, RowsMove DEF Begins, Start, Reserves, Reserve, Explains, Explain, Accepts, Accept

\* A worker comes to accept an answer it judged, or one the ledger owes a verdict.
LEMMA AcceptFrom ==
    ASSUME TypeInv, CallerState, Next, NEW v \in Workers, pc'[v] = "accept", pc[v] # "accept"
    PROVE  /\ UNCHANGED <<run, rows>>
           /\ at'[v] \in Attempts
           /\ outcome[at'[v]] \in Charged \ {"lost"}
           /\ \/ Unsettled(at'[v])
              \/ at'[v] = at[v] /\ pc[v] = "judge"
<1>0. WorkersTyped /\ RowsTyped /\ Standing
    BY TypeParts DEF TypeInv
<1>1. Acts(v)
    BY WhoActs
<1>2. ASSUME NEW n \in Nodes, Look(v, n)
      PROVE  /\ UNCHANGED <<run, rows>>
             /\ Replayable(n) # {} /\ at'[v] = First(Replayable(n))
    <2>1. UNCHANGED <<run, rows>>
        BY <1>2, LookCases
    <2>2. Replayable(n) # {} /\ at' = [at EXCEPT ![v] = First(Replayable(n))]
        BY <1>0, <1>2, LookCases DEF Go, Refuse, WorkersTyped
    <2> QED
        BY <1>0, <2>1, <2>2 DEF WorkersTyped
<1>3. ASSUME Judge(v)
      PROVE  /\ UNCHANGED <<run, rows>> /\ at'[v] = at[v] /\ pc[v] = "judge"
             /\ answer[v] \notin {"lost", "drop", "unknown"}
    BY <1>0, <1>3 DEF Judge, Go, Refuse, WorkersTyped
<1>4. (\E n \in Nodes : Look(v, n)) \/ Judge(v)
    <2>1. CASE Step(v)
        <3>1. ASSUME NEW k \in Answers PROVE ~Call(v, k)
            BY <1>0 DEF Call, Go, WorkersTyped
        <3>2. ~(Complete(v) \/ Block(v) \/ Leave(v) \/ Explain(v) \/ ResendRefused(v) \/ Again(v) \/ Start(v))
            BY <1>0 DEF Complete, Block, Leave, Explain, ResendRefused, Again, Start, GoIdle, Go, Refuse,
               WorkersTyped
        <3>3. ~(Reserve(v) \/ TakeHold(v) \/ Check(v) \/ MarkOwed(v) \/ Record(v) \/ Reconnect(v))
            BY <1>0 DEF Reserve, TakeHold, Check, MarkOwed, Record, Reconnect, Go, Refuse, WorkersTyped
        <3>4. ~Accept(v)
            BY DEF Accept
        <3>5. ASSUME Confirm(v) PROVE FALSE
            <4>1. \E p \in {"refused", "block"} : Go(v, p)
                BY <3>5, Zenon DEF Confirm, Refuse
            <4> QED
                BY <1>0, <4>1 DEF Go, WorkersTyped
        <3> QED
            BY <2>1, <3>1, <3>2, <3>3, <3>4, <3>5, Zenon DEF Step
    <2>2. CASE Disturb(v)
        <3>1. ~(ExplainFails(v) \/ StoreFault(v) \/ Crash(v) \/ CutCalling(v))
            BY <1>0 DEF ExplainFails, StoreFault, Crash, CutCalling, GoIdle, Go, Refuse, WorkersTyped, worker
        <3>2. ~(MarkFails(v) \/ WriteFails(v) \/ ReconnectFails(v) \/ CutBilling(v))
            BY <1>0 DEF MarkFails, WriteFails, ReconnectFails, CutBilling, FailedTry, Go, Refuse, WorkersTyped
        <3> QED
            BY <2>2, <3>1, <3>2, Zenon DEF Disturb
    <2>3. ~Claim(v)
        BY <1>0 DEF Claim, Go, WorkersTyped
    <2> QED
        BY <1>1, <2>1, <2>2, <2>3 DEF Acts
<1>5. CASE \E n \in Nodes : Look(v, n)
    <2>1. PICK n \in Nodes : Look(v, n)
        BY <1>5
    <2> DEFINE f == First(Replayable(n))
    <2>2. f \in Replayable(n) /\ f \in Attempts
        BY <1>2, <2>1, ReplayFirst
    <2>3. UNCHANGED <<run, rows>> /\ at'[v] = f
        BY <1>2, <2>1
    <2> HIDE DEF f
    <2> QED
        BY <2>2, <2>3 DEF Replayable
<1>6. CASE Judge(v)
    <2>1. at[v] \in Attempts /\ outcome[at[v]] \in Kinds \cup {"none"}
        BY <1>0, <1>3, <1>6 DEF Standing, AtAttempt, Steps, RowsTyped
    <2>2. CallerIs(v)
        BY DEF CallerState, CallerIs
    <2> QED
        BY <1>3, <1>6, <2>1, <2>2 DEF CallerIs, Kinds, Charged
<1> QED
    BY <1>4, <1>5, <1>6

\* What the ledger holds of a caller's attempt follows the caller.
LEMMA CallerStateKept ==
    ASSUME TypeInv, OneCaller, Unstarted, CallerState, Next PROVE CallerState'
<1> SUFFICES ASSUME NEW v \in Workers PROVE CallerIs(v)'
    BY Zenon DEF CallerState, CallerIs
<1>0. WorkersTyped /\ RowsTyped /\ Standing
    BY TypeParts DEF TypeInv
<1>1. CallerIs(v)
    BY DEF CallerState, CallerIs
<1>2. ASSUME pc'[v] \in Calling, pc[v] \in Calling PROVE CallerIs(v)'
    <2>1. at'[v] = at[v] /\ at[v] \in Attempts
        BY <1>0, <1>2, CallerPath DEF Standing, AtAttempt, Calling, Billing, Steps
    <2>2. CASE pc'[v] = pc[v] /\ answer'[v] = answer[v]
        <3>1. ~Reserves(v)
            BY <1>0, <2>2 DEF Reserves, Reserve, Go, Refuse, WorkersTyped
        <3>2. ~Bills(v)
            BY <1>0, <2>2 DEF Bills, Record, CutBilling, FailedTry, Go, Refuse, WorkersTyped
        <3>3. outcome'[at[v]] = outcome[at[v]] /\ reserved'[at[v]] = reserved[at[v]]
            BY <1>2, <3>1, <3>2, CallerRows
        <3> QED
            BY <1>1, <1>2, <2>1, <2>2, <3>3, YoungGuards DEF CallerIs, Calling, Billing
    <2>3. CASE Reserves(v)
        <3>1. pc'[v] = "hold" /\ pc[v] = "reserve" /\ reserved'[at[v]] = Price /\ outcome'[at[v]] = outcome[at[v]]
            BY <1>0, <2>1, <2>3 DEF Reserves, Reserve, Go, WorkersTyped, RowsTyped
        <3> QED
            BY <1>1, <2>1, <3>1, YoungGuards DEF CallerIs, Calling, Billing, Reserves, Reserve
    <2>4. CASE TakeHold(v) \/ Check(v) \/ MarkOwed(v) \/ Reconnect(v) \/ MarkFails(v) \/ WriteFails(v)
        <3>1. UNCHANGED <<outcome, reserved, answer>>
            BY <2>4 DEF TakeHold, Check, MarkOwed, Reconnect, MarkFails, WriteFails, rows, FailedTry
        <3>2. \/ pc[v] = "hold" /\ pc'[v] = "check"
              \/ pc[v] = "check" /\ pc'[v] = "call"
              \/ pc[v] \in Billing /\ pc'[v] \in Billing
            BY <1>0, <1>2, <2>4 DEF TakeHold, Check, MarkOwed, Reconnect, MarkFails, WriteFails, FailedTry,
               Go, Refuse, WorkersTyped, Calling, Billing
        <3> QED
            BY <1>1, <2>1, <3>1, <3>2 DEF CallerIs, Calling, Billing
    <2>5. ASSUME NEW k \in Answers, Call(v, k) PROVE CallerIs(v)'
        BY <1>0, <1>1, <2>1, <2>5 DEF Call, Go, rows, WorkersTyped, CallerIs, Calling, Billing
    <2>6. CASE Record(v) \/ CutBilling(v)
        <3>1. UNCHANGED <<reserved, answer>>
            BY <2>6 DEF Record, CutBilling
        <3>2. UNCHANGED outcome \/ Insert(v)
            BY <2>6 DEF Record, CutBilling
        <3>3. pc[v] \in Billing
            BY <2>6 DEF Record, CutBilling, Billing
        <3>4. pc'[v] \in Billing \/ (pc'[v] = "judge" /\ Insert(v))
            <4>1. Record(v) => pc'[v] = "judge" /\ Insert(v)
                BY <1>0 DEF Record, Go, WorkersTyped
            <4>2. CutBilling(v) => Go(v, "reconnect") \/ Go(v, "refused")
                BY DEF CutBilling, FailedTry, Refuse
            <4>3. Go(v, "reconnect") => pc'[v] = "reconnect"
                BY <1>0 DEF Go, WorkersTyped
            <4>4. Go(v, "refused") => pc'[v] = "refused"
                BY <1>0 DEF Go, WorkersTyped
            <4>5. CutBilling(v) => pc'[v] \in Billing
                BY <1>2, <4>2, <4>3, <4>4 DEF Calling, Billing
            <4> QED
                BY <2>6, <4>1, <4>5, Zenon
        <3>5. answer[v] # "none"
            BY <1>0 DEF WorkersTyped, Kinds, Charged
        <3>6. /\ outcome'[at[v]] \in {"none", answer[v]} \/ (answer[v] = "drop" /\ outcome'[at[v]] = "unknown")
              /\ Insert(v) => outcome'[at[v]] # "none"
            <4>1. outcome[at[v]] \in {"none", answer[v]} \/ (answer[v] = "drop" /\ outcome[at[v]] = "unknown")
                BY <1>1, <3>3 DEF CallerIs
            <4>2. Insert(v) => outcome'[at[v]] \in {answer[v]} \/ (answer[v] = "drop" /\ outcome'[at[v]] = "unknown")
                BY <1>0, <2>1, <3>5, <4>1 DEF Insert, RowsTyped
            <4> QED
                BY <3>2, <3>5, <4>1, <4>2
        <3> QED
            <4>1. reserved'[at[v]] = Price
                BY <1>1, <3>1, <3>3 DEF CallerIs, Calling, Billing
            <4>2. pc'[v] = "judge" => outcome'[at[v]] # "none"
                BY <3>4, <3>6 DEF Billing
            <4> QED
                BY <2>1, <3>1, <3>4, <3>6, <4>1, <4>2 DEF CallerIs, Calling, Billing
    <2> QED
        BY <1>2, <2>2, <2>3, <2>4, <2>5, <2>6, CallerPath
<1>3. ASSUME pc'[v] \in Calling, pc[v] \notin Calling PROVE CallerIs(v)'
    <2>1. /\ Begins(v) /\ pc'[v] = "reserve" /\ at'[v] = <<Node(v), started[Node(v)] + 1>>
          /\ Node(v) \in Nodes /\ started[Node(v)] + 1 \in 1..MaxOrdinal
        BY <1>3, CallingFrom
    <2>2. at'[v] \in Attempts /\ at'[v][2] > started[at'[v][1]]
        BY <1>0, <2>1, BoundsNat DEF Attempts, RowsTyped
    <2>3. Untouched(at'[v])
        BY <2>2 DEF Unstarted
    <2>4. UNCHANGED <<outcome, reserved, guards>>
        BY <2>1 DEF Begins, Start
    <2> QED
        BY <2>1, <2>3, <2>4 DEF CallerIs, Untouched, guards, Calling, Billing
<1>4. ASSUME pc'[v] = "accept", pc[v] = "accept" PROVE CallerIs(v)'
    <2>1. ~Acts(v)
        <3>1. ~Step(v)
            <4>1. \A n \in Nodes : ~Look(v, n)
                BY <1>4, Zenon DEF Look
            <4>2. ~Accept(v)
                BY <1>0, <1>4 DEF Accept, Own, Go, Refuse, WorkersTyped
            <4>3. ~(Complete(v) \/ Block(v) \/ Leave(v) \/ Explain(v) \/ ResendRefused(v) \/ Again(v) \/ Start(v))
                BY <1>4 DEF Complete, Block, Leave, Explain, ResendRefused, Again, Start
            <4>4. ~(Reserve(v) \/ TakeHold(v) \/ Check(v) \/ MarkOwed(v) \/ Record(v) \/ Reconnect(v))
                BY <1>4 DEF Reserve, TakeHold, Check, MarkOwed, Record, Reconnect
            <4>5. ~(Judge(v) \/ Confirm(v) \/ \E k \in Answers : Call(v, k))
                BY <1>4 DEF Judge, Confirm, Call
            <4> QED
                BY <4>1, <4>2, <4>3, <4>4, <4>5, Zenon DEF Step
        <3>2. ~Disturb(v)
            BY <1>0, <1>4 DEF Disturb, MarkFails, WriteFails, CutCalling, CutBilling, ReconnectFails,
               ExplainFails, StoreFault, Crash, GoIdle, Go, Refuse, WorkersTyped
        <3>3. ~Claim(v)
            BY <1>4 DEF Claim
        <3> QED
            BY <3>1, <3>2, <3>3 DEF Acts
    <2>2. at'[v] = at[v] /\ at[v] \in Attempts
        BY <1>0, <1>4, <2>1, WhoActs DEF Standing, AtAttempt, Steps
    <2>3. outcome[at[v]] \in Charged \ {"lost"}
        BY <1>1, <1>4 DEF CallerIs
    <2> QED
        BY <1>4, <2>2, <2>3, OutcomeStands DEF CallerIs, Calling, Billing, Charged
<1>5. ASSUME pc'[v] = "accept", pc[v] # "accept" PROVE CallerIs(v)'
    BY <1>5, AcceptFrom DEF rows, CallerIs, Calling, Billing
<1> QED
    BY <1>2, <1>3, <1>4, <1>5 DEF CallerIs, Calling, Billing

\* A disturbance under a call in flight is remembered as its exposure.
LEMMA Exposes ==
    ASSUME GuardsTyped, NEW v \in Workers, at[v] \in Attempts, at'[v] = at[v],
           pc'[v] \in {"hold", "check", "call", "mark", "write", "reconnect"},
           Expose(at[v]), ~exposed'[at[v]]
    PROVE  Covered(at[v])'
<1>1. InFlight(at[v])'
    BY DEF InFlight
<1>2. exposed' = [exposed EXCEPT ![at[v]] = @ \/ (InFlight(at[v])' /\ ~Covered(at[v])')]
    BY Zenon DEF Expose
<1> HIDE DEF InFlight, Covered
<1>3. exposed'[at[v]] = (exposed[at[v]] \/ (InFlight(at[v])' /\ ~Covered(at[v])'))
    BY <1>2 DEF GuardsTyped
<1> QED
    BY <1>1, <1>3

\* A call loses its cover only to a disturbance, and that is remembered.
LEMMA CallCoveredKept ==
    ASSUME TypeInv, OneCaller, CallerState, CallCovered, Next PROVE CallCovered'
<1> SUFFICES ASSUME NEW v \in Workers, pc'[v] \in {"check", "call"} \cup Billing, ~exposed'[at'[v]]
             PROVE  Covered(at[v])'
    BY Zenon DEF CallCovered
<1>0. WorkersTyped /\ GuardsTyped /\ Standing
    BY TypeParts DEF TypeInv
<1>1. pc[v] \in Calling /\ at'[v] = at[v]
    BY CallingFrom DEF Calling, Billing
<1>2. at[v] \in Attempts
    BY <1>0, <1>1 DEF Standing, AtAttempt, Calling, Billing, Steps
<1>3. ~exposed[at[v]]
    BY <1>1, <1>2, ExposedGrows
<1>4. CASE TakeHold(v)
    <2>1. pc[v] = "hold" /\ hold'[at[v]] = "held" /\ aged'[at[v]] = aged[at[v]]
        BY <1>0, <1>2, <1>4 DEF TakeHold, GuardsTyped
    <2>2. ~aged[at[v]]
        BY <1>3, <2>1 DEF CallerState
    <2> QED
        BY <1>1, <1>2, <2>1, <2>2 DEF Covered
<1>5. CASE ~TakeHold(v)
    <2>1. pc[v] \in {"check", "call"} \cup Billing
        <3>1. pc'[v] = pc[v] => pc[v] \in {"check", "call"} \cup Billing
            OBVIOUS
        <3>2. ~Reserves(v)
            BY <1>0 DEF Reserves, Reserve, Go, WorkersTyped, Billing
        <3>3. Check(v) \/ (\E k \in Answers : Call(v, k)) \/ MarkOwed(v) \/ Record(v) \/ Reconnect(v)
              \/ MarkFails(v) \/ WriteFails(v) \/ CutBilling(v) => pc[v] \in {"check", "call"} \cup Billing
            BY DEF Check, Call, MarkOwed, Record, Reconnect, MarkFails, WriteFails, CutBilling, Billing
        <3>4. pc'[v] \in Calling
            BY DEF Calling, Billing
        <3> QED
            BY <1>1, <1>5, <3>1, <3>2, <3>3, <3>4, CallerPath
    <2>2. Covered(at[v])
        BY <1>3, <2>1 DEF CallCovered
    <2>3. CASE /\ hold'[at[v]] = hold[at[v]] /\ aged'[at[v]] = aged[at[v]]
               /\ mark'[at[v]] = mark[at[v]] /\ exposed'[at[v]] = exposed[at[v]]
        BY <1>1, <2>2, <2>3 DEF Covered
    <2>4. CASE GuardSteps(v)
        <3>1. CASE MarkOwed(v) \/ Reconnect(v)
            BY <1>0, <1>1, <1>2, <2>2, <3>1 DEF MarkOwed, Reconnect, Covered, GuardsTyped
        <3>2. CASE Check(v) \/ WriteFails(v)
            <4>1. UNCHANGED <<hold, aged, mark>>
                BY <1>0, <3>2 DEF Check, WriteFails, FailedTry, Refuse, Go, WorkersTyped, Billing
            <4> QED
                BY <1>1, <2>2, <4>1 DEF Covered
        <3>3. CASE CutCalling(v) \/ CutBilling(v)
            BY <1>0, <1>1, <1>2, <3>3, Exposes DEF CutCalling, CutBilling, Billing
        <3>4. ~(ResendRefused(v) \/ Record(v) \/ StoreFault(v) \/ Crash(v))
            BY <1>0 DEF ResendRefused, Record, StoreFault, Crash, GoIdle, Refuse, Go, WorkersTyped, Billing
        <3> QED
            BY <1>5, <2>4, <3>1, <3>2, <3>3, <3>4 DEF GuardSteps
    <2>5. CASE GhostEnds(at[v]) \/ Age(at[v]) \/ MarkLapses(at[v])
        BY <1>0, <1>1, <1>2, <2>5, Exposes DEF GhostEnds, Age, MarkLapses, Billing
    <2> QED
        BY <1>1, <2>3, <2>4, <2>5, CallerGuards
<1> QED
    BY <1>4, <1>5

\* A worker holds the run by claiming it, and then stands nowhere yet.
LEMMA HoldsFrom ==
    ASSUME TypeInv, Next, NEW v \in Workers, Holds(v)'
    PROVE  (Holds(v) /\ ~Claim(v)) \/ pc'[v] = "look"
<1>0. RunTyped /\ WorkersTyped
    BY TypeParts DEF TypeInv
<1>1. CASE UNCHANGED run
    BY <1>1, <1>0 DEF run, Holds, Claim, Go, WorkersTyped
<1>2. ASSUME NEW w \in Workers, Claim(w) PROVE (Holds(v) /\ ~Claim(v)) \/ pc'[v] = "look"
    BY <1>2, <1>0 DEF Claim, Holds, Go, WorkersTyped
<1>3. ASSUME NEW w \in Workers, Complete(w) \/ Block(w) \/ Crash(w) PROVE Holds(v) /\ ~Claim(v)
    BY <1>3, <1>0, Fresh DEF Complete, Block, Crash, EndRun, GoIdle, Go, Refuse, run, Holds, Claim, WorkersTyped
<1>4. ASSUME NEW w \in Workers, Leave(w) PROVE Holds(v) /\ ~Claim(v)
    BY <1>4, <1>0, Fresh DEF Leave, Park, EndRun, GoIdle, Go, run, Holds, Claim, WorkersTyped
<1>5. CASE Retry \/ Cancel
    BY <1>5, <1>0, Fresh DEF Retry, Cancel, Holds, RunTyped, Claim, worker
<1> QED
    BY <1>1, <1>2, <1>3, <1>4, <1>5, RunMoves

\* Only the holder starts, explains and accepts.
LEMMA OneHolder == ASSUME NEW v, NEW w, Holds(v), Holds(w) PROVE v = w
    BY DEF Holds

\* A start is the holder's.
LEMMA BeginsHeld == ASSUME NEW w, Begins(w) PROVE Holds(w)
    BY DEF Begins, StartRefusal, Fence

\* Nobody but the holder starts, so its attempt stays the newest.
LEMMA HolderNewestKept ==
    ASSUME TypeInv, OneCaller, HolderNewest, Next PROVE HolderNewest'
<1> SUFFICES ASSUME NEW v \in Workers, Holds(v)', pc'[v] \in {"reserve", "hold", "check"}
             PROVE  at'[v][2] = started'[at'[v][1]]
    BY Zenon DEF HolderNewest
<1>0. WorkersTyped /\ RowsTyped /\ Standing
    BY TypeParts DEF TypeInv
<1>1. Holds(v)
    BY HoldsFrom
<1>2. pc'[v] \in Calling
    BY DEF Calling
<1>3. CASE Begins(v)
    <2>1. at' = [at EXCEPT ![v] = <<Node(v), started[Node(v)] + 1>>]
          /\ started' = [started EXCEPT ![Node(v)] = @ + 1] /\ Node(v) \in Nodes
        BY <1>0, <1>3 DEF Begins, Start, Standing, Node
    <2> QED
        BY <1>0, <2>1 DEF WorkersTyped, RowsTyped
<1>4. CASE ~Begins(v)
    <2>1. UNCHANGED started
        BY <1>1, <1>4, RowsMove, BeginsHeld, OneHolder
           DEF Reserves, Reserve, Bills, Record, CutBilling, Explains, Explain, Accepts, Accept
    <2>2. pc[v] \in Calling /\ at'[v] = at[v]
        BY <1>2, <1>4, CallingFrom
    <2>3. pc[v] \in {"reserve", "hold", "check"}
        BY <1>0, <1>2, <2>2, CallerPath DEF Reserves, Reserve, TakeHold, Check, Call, MarkOwed, Record, Reconnect,
           MarkFails, WriteFails, CutBilling, FailedTry, Refuse, Go, WorkersTyped
    <2> QED
        BY <1>1, <2>1, <2>2, <2>3 DEF HolderNewest
<1> QED
    BY <1>3, <1>4

\* Who comes to settle comes to it from the judging or with an answer owed a verdict.
Settling == Calling \cup {"explain", "settle", "accept"}

LEMMA SettlingFrom ==
    ASSUME TypeInv, Next, NEW v \in Workers, pc'[v] \in Settling
    PROVE  \/ pc[v] \in Settling /\ at'[v] = at[v]
           \/ Begins(v) /\ at'[v] = <<Node(v), started[Node(v)] + 1>>
              /\ Node(v) \in Nodes /\ started[Node(v)] + 1 \in 1..MaxOrdinal
           \/ UNCHANGED rows /\ at'[v] \in Attempts /\ Unsettled(at'[v])
<1>0. WorkersTyped /\ RowsTyped /\ Standing
    BY TypeParts DEF TypeInv
<1>1. CASE pc'[v] \in Calling
    BY <1>1, CallingFrom DEF Settling
<1>2. CASE pc'[v] \in {"explain", "settle", "accept"} /\ Step(v)
    <2>1. ASSUME NEW n \in Nodes, Look(v, n)
          PROVE  UNCHANGED rows /\ at'[v] \in Attempts /\ Unsettled(at'[v])
        <3> DEFINE f == First(Replayable(n))
        <3>1. Replayable(n) # {} /\ at' = [at EXCEPT ![v] = First(Replayable(n))]
            BY <1>0, <1>2, <2>1, LookCases DEF Go, Refuse, WorkersTyped
        <3>2. f \in Replayable(n) /\ f \in Attempts
            BY <3>1, ReplayFirst
        <3>3. UNCHANGED rows
            BY <2>1, LookCases
        <3>4. at' = [at EXCEPT ![v] = f]
            BY <3>1
        <3> HIDE DEF f
        <3>5. at'[v] = f
            BY <1>0, <3>4 DEF WorkersTyped
        <3> QED
            BY <3>2, <3>3, <3>5 DEF Replayable
    <2>2. CASE Judge(v)
        BY <2>2 DEF Judge, Settling, Calling
    <2>3. ASSUME NEW k \in Answers PROVE ~Call(v, k)
        BY <1>0, <1>2 DEF Call, Go, WorkersTyped
    <2>4. ~(Complete(v) \/ Block(v) \/ Leave(v) \/ Explain(v) \/ ResendRefused(v) \/ Again(v) \/ Start(v))
        BY <1>0, <1>2 DEF Complete, Block, Leave, Explain, ResendRefused, Again, Start, GoIdle, Go, Refuse,
           WorkersTyped
    <2>5. ~(Reserve(v) \/ TakeHold(v) \/ Check(v) \/ MarkOwed(v) \/ Record(v) \/ Reconnect(v))
        BY <1>0, <1>2 DEF Reserve, TakeHold, Check, MarkOwed, Record, Reconnect, Go, Refuse, WorkersTyped
    <2>6. ~Accept(v)
        BY <1>0, <1>2 DEF Accept, Own, Go, Refuse, WorkersTyped
    <2>7. ASSUME Confirm(v) PROVE FALSE
        <3>1. \E p \in {"refused", "block"} : Go(v, p)
            BY <2>7, Zenon DEF Confirm, Refuse
        <3> QED
            BY <1>0, <1>2, <3>1 DEF Go, WorkersTyped
    <2> QED
        BY <1>2, <2>1, <2>2, <2>3, <2>4, <2>5, <2>6, <2>7, Zenon DEF Step
<1>3. CASE pc'[v] \in {"explain", "settle", "accept"} /\ Disturb(v)
    <2>1. ~(ExplainFails(v) \/ StoreFault(v) \/ Crash(v))
        BY <1>0, <1>3 DEF ExplainFails, StoreFault, Crash, GoIdle, Go, Refuse, WorkersTyped
    <2>2. ~(MarkFails(v) \/ WriteFails(v) \/ ReconnectFails(v) \/ CutBilling(v))
        BY <1>0, <1>3 DEF MarkFails, WriteFails, ReconnectFails, CutBilling, FailedTry, Go, Refuse, WorkersTyped
    <2>3. CASE CutCalling(v)
        BY <2>3 DEF CutCalling, worker, Settling, Calling
    <2> QED
        BY <1>3, <2>1, <2>2, <2>3, Zenon DEF Disturb
<1>4. CASE pc'[v] \in {"explain", "settle", "accept"} /\ Claim(v)
    BY <1>0, <1>4 DEF Claim, Go, WorkersTyped
<1> QED
    BY <1>1, <1>2, <1>3, <1>4, WhoActs DEF Acts, Settling

\* Nobody but the holder decides, so its attempt stays open.
LEMMA HolderSettlesKept ==
    ASSUME TypeInv, Unstarted, HolderSettles, Next PROVE HolderSettles'
<1> SUFFICES ASSUME NEW v \in Workers, Holds(v)', pc'[v] \in Settling
             PROVE  Unsettled(at[v])'
    BY Zenon DEF HolderSettles, Settling
<1>0. WorkersTyped /\ RowsTyped /\ Standing
    BY TypeParts DEF TypeInv
<1>1. Holds(v)
    BY HoldsFrom DEF Settling, Calling, Billing
<1>2. CASE pc[v] \in Settling /\ at'[v] = at[v]
    <2>1. at[v] \in Attempts
        BY <1>0, <1>2 DEF Standing, AtAttempt, Steps, Settling, Calling, Billing
    <2>2. Unsettled(at[v])
        BY <1>1, <1>2 DEF HolderSettles, Settling
    <2>3. ~Explains(v) /\ ~Accepts(v)
        BY <1>0 DEF Explains, Explain, Accepts, Accept, Own, Go, WorkersTyped, Settling, Calling, Billing
    <2>4. explained'[at[v]] = explained[at[v]] /\ accepted'[at[v]] = accepted[at[v]]
        <3>1. \A w \in Workers : Reserves(w) \/ Bills(w) => UNCHANGED <<explained, accepted>>
            BY DEF Reserves, Reserve, Bills, Record, CutBilling
        <3>2. \A w \in Workers : Explains(w) \/ Accepts(w) => w = v
            BY <1>1, OneHolder DEF Explains, Accepts
        <3> QED
            BY <2>1, <2>3, <3>1, <3>2, RowsAt
    <2> QED
        BY <1>2, <2>2, <2>4 DEF Unsettled
<1>3. CASE /\ Begins(v) /\ at'[v] = <<Node(v), started[Node(v)] + 1>>
           /\ Node(v) \in Nodes /\ started[Node(v)] + 1 \in 1..MaxOrdinal
    <2>1. at'[v] \in Attempts /\ at'[v][2] > started[at'[v][1]]
        BY <1>0, <1>3, BoundsNat DEF Attempts, RowsTyped
    <2>2. Untouched(at'[v])
        BY <2>1 DEF Unstarted
    <2>3. UNCHANGED <<explained, accepted>>
        BY <1>3 DEF Begins, Start
    <2> QED
        BY <2>2, <2>3 DEF Untouched, Unsettled
<1>4. CASE UNCHANGED rows /\ at'[v] \in Attempts /\ Unsettled(at'[v])
    BY <1>4 DEF rows, Unsettled
<1> QED
    BY <1>2, <1>3, <1>4, SettlingFrom

-----------------------------------------------------------------------------
(* What the ledger promises.                                               *)

\* The newest attempt, its call covered, keeps every other worker from starting one.
LEMMA CallerNewestKept ==
    ASSUME TypeInv, OneCaller, CallerState, CallCovered, HolderNewest, CallerAlone, Next
    PROVE  CallerAlone'
<1> SUFFICES ASSUME NEW v \in Workers, pc'[v] \in {"call", "mark", "write", "reconnect"},
                    outcome'[at'[v]] = "none", ~exposed'[at'[v]]
             PROVE  at'[v][2] = started'[at'[v][1]]
    BY Zenon DEF CallerAlone, Node
<1>0. WorkersTyped /\ RowsTyped /\ Standing
    BY TypeParts DEF TypeInv
<1>1. pc[v] \in Calling /\ at'[v] = at[v] /\ pc'[v] \in Calling
    BY CallingFrom DEF Calling, Billing
<1>2. at[v] \in Attempts /\ at[v][1] \in Nodes /\ at[v][2] \in Nat /\ at[v][2] <= started[at[v][1]]
    BY <1>0, <1>1, BoundsNat DEF Standing, AtAttempt, Steps, Calling, Billing, Attempts
<1>3. ~exposed[at[v]] /\ outcome[at[v]] = "none"
    BY <1>1, <1>2, ExposedGrows, OutcomeStands
<1>4. pc[v] \in {"call", "mark", "write", "reconnect"} \/ (Check(v) /\ Holds(v))
    <2>1. ASSUME pc'[v] = pc[v] PROVE pc[v] \in {"call", "mark", "write", "reconnect"}
        BY <2>1
    <2>2. CASE Reserves(v) \/ TakeHold(v)
        BY <1>0, <2>2 DEF Reserves, Reserve, TakeHold, Refuse, Go, WorkersTyped
    <2>3. CASE Check(v)
        BY <1>0, <2>3 DEF Check, Refuse, Go, WorkersTyped
    <2>4. ASSUME \/ (\E k \in Answers : Call(v, k)) \/ MarkOwed(v) \/ Record(v) \/ Reconnect(v)
                 \/ MarkFails(v) \/ WriteFails(v) \/ CutBilling(v)
          PROVE  pc[v] \in {"call", "mark", "write", "reconnect"}
        BY <2>4 DEF Call, MarkOwed, Record, Reconnect, MarkFails, WriteFails, CutBilling
    <2> QED
        BY <1>1, <2>1, <2>2, <2>3, <2>4, CallerPath
<1>5. at[v][2] = started[at[v][1]]
    BY <1>3, <1>4 DEF CallerAlone, Node, HolderNewest, Check
<1>6. ASSUME NEW w \in Workers, Begins(w), Node(w) = at[v][1] PROVE FALSE
    <2>1. reserved[at[v]] = Price /\ Covered(at[v])
        BY <1>3, <1>4 DEF CallerState, CallCovered, Check, Calling, Billing
    <2>2. HeldElsewhere(Node(w))
        BY <1>2, <1>3, <1>6, <2>1, BoundsNat DEF HeldElsewhere, Of, Covered
    <2> QED
        BY <1>6, <2>2 DEF Begins, StartRefusal, Over
<1>7. started'[at[v][1]] = started[at[v][1]]
    <2>1. UNCHANGED started \/ \E w \in Workers : Begins(w)
        BY RowsMove DEF Reserves, Reserve, Bills, Record, CutBilling, Explains, Explain, Accepts, Accept
    <2>2. ASSUME NEW w \in Workers, Begins(w) PROVE started' = [started EXCEPT ![Node(w)] = @ + 1]
        BY <2>2 DEF Begins, Start
    <2> QED
        BY <1>0, <1>2, <1>6, <2>1, <2>2 DEF RowsTyped
<1> QED
    BY <1>1, <1>5, <1>7

\* A node whose charge is owed a verdict is not started on.
LEMMA OwedNewestKept ==
    ASSUME TypeInv, Unstarted, CallerAlone, OwedNewest, Next
    PROVE  OwedNewest'
<1> SUFFICES ASSUME NEW a \in Attempts, outcome'[a] \in Charged, explained'[a] = "none", ~exposed'[a]
             PROVE  a[2] = started'[a[1]]
    BY Zenon DEF OwedNewest
<1>0. WorkersTyped /\ RowsTyped /\ Standing
    BY TypeParts DEF TypeInv
<1>1. ~exposed[a]
    BY ExposedGrows
<1>2. a[1] \in Nodes /\ a[2] \in Nat
    BY BoundsNat DEF Attempts
<1>3. CASE UNCHANGED <<started, outcome, explained>>
    BY <1>1, <1>3 DEF OwedNewest
<1>4. ASSUME NEW w \in Workers, Begins(w) PROVE a[2] = started'[a[1]]
    <2>1. UNCHANGED <<outcome, explained, accepted>> /\ started' = [started EXCEPT ![Node(w)] = @ + 1]
        BY <1>4 DEF Begins, Start
    <2>2. a[2] = started[a[1]]
        BY <1>1, <2>1 DEF OwedNewest
    <2>3. CASE Node(w) = a[1]
        <3>1. a \in Of(Node(w))
            BY <1>0, <1>2, <2>2, <2>3, BoundsNat DEF Of, RowsTyped
        <3>2. ~HasOwner(Node(w)) /\ ~BillOwed(Node(w))
            BY <1>4 DEF Begins, StartRefusal, Over
        <3>3. Unsettled(a)
            BY <2>1, <3>1, <3>2 DEF HasOwner, Unsettled
        <3> QED
            BY <2>1, <3>1, <3>2, <3>3 DEF BillOwed, Replayable, Unexplained
    <2>4. CASE Node(w) # a[1]
        BY <1>0, <1>2, <2>1, <2>2, <2>4 DEF RowsTyped
    <2> QED
        BY <2>3, <2>4
<1>5. ASSUME NEW w \in Workers, Bills(w) PROVE a[2] = started'[a[1]]
    <2>1. UNCHANGED <<started, explained>>
        BY <1>5 DEF Bills, Record, CutBilling
    <2>2. CASE at[w] = a /\ outcome[a] = "none"
        BY <1>1, <1>5, <2>1, <2>2 DEF Bills, CallerAlone, Node
    <2>3. CASE ~(at[w] = a /\ outcome[a] = "none")
        <3>1. outcome'[a] = outcome[a]
            BY <1>0, <1>5, <2>3 DEF Bills, Insert, RowsTyped
        <3> QED
            BY <1>1, <2>1, <3>1 DEF OwedNewest
    <2> QED
        BY <2>2, <2>3
<1>6. ASSUME NEW w \in Workers, Explains(w) PROVE a[2] = started'[a[1]]
    <2>1. UNCHANGED <<started, outcome>>
        BY <1>6 DEF Explains, Explain
    <2>2. explained[a] = "none"
        BY <1>0, <1>6 DEF Explains, Explain, Write, RowsTyped
    <2> QED
        BY <1>1, <2>1, <2>2 DEF OwedNewest
<1> QED
    BY <1>3, <1>4, <1>5, <1>6, RowsMove DEF Reserves, Reserve, Accepts, Accept

\* A later attempt at a node was started past an earlier charge only when it was explained.
LEMMA PaidOnceHolds == ASSUME TypeInv, Unstarted, OwedNewest PROVE PaidOnce
<1> SUFFICES ASSUME NEW a \in Attempts, NEW b \in Attempts, a[1] = b[1], a[2] < b[2],
                    outcome[a] \in Charged, outcome[b] \in Charged,
                    explained[a] = "none", ~exposed[a]
             PROVE  FALSE
    BY Zenon DEF PaidOnce
<1>1. a[2] = started[a[1]]
    BY DEF OwedNewest
<1>2. b[2] > started[b[1]]
    BY <1>1, BoundsNat DEF Attempts
<1> QED
    BY <1>2 DEF Unstarted, Untouched, Charged

\* An accept is of an undecided answer, at a node with none accepted.
LEMMA OneFateKept ==
    ASSUME TypeInv, Unstarted, CallerState, HolderSettles, OneFate, Next
    PROVE  OneFate'
<1>0. WorkersTyped /\ RowsTyped /\ Standing
    BY TypeParts DEF TypeInv
<1>1. CASE UNCHANGED <<outcome, explained, accepted>>
    BY <1>1 DEF OneFate
<1>2. ASSUME NEW w \in Workers, Bills(w) PROVE OneFate'
    <2>1. UNCHANGED <<explained, accepted>>
        BY <1>2 DEF Bills, Record, CutBilling
    <2>2. \A a \in Attempts : accepted[a] => outcome'[a] = outcome[a]
        BY OutcomeStands DEF OneFate, Charged
    <2> QED
        BY <2>1, <2>2 DEF OneFate
<1>3. ASSUME NEW w \in Workers, Explains(w) PROVE OneFate'
    <2>1. UNCHANGED <<outcome, accepted>>
        BY <1>3 DEF Explains, Explain
    <2>2. ~accepted[at[w]]
        BY <1>3 DEF Explains, Explain, HolderSettles, Unsettled
    <2>3. \A a \in Attempts : accepted[a] => explained'[a] = explained[a]
        BY <1>0, <1>3, <2>2 DEF Explains, Explain, Write, RowsTyped
    <2> QED
        BY <2>1, <2>3 DEF OneFate
<1>4. ASSUME NEW w \in Workers, Accepts(w) PROVE OneFate'
    <2>1. UNCHANGED <<outcome, explained>> /\ accepted' = [accepted EXCEPT ![at[w]] = TRUE]
          /\ pc[w] = "accept" /\ Holds(w) /\ ~HasOwner(Node(w))
        BY <1>4, Zenon DEF Accepts, Accept, Own
    <2>2. outcome[at[w]] \in Charged \ {"lost"} /\ explained[at[w]] = "none"
        BY <2>1 DEF CallerState, HolderSettles, Unsettled
    <2>3. \A b \in Attempts : b[1] = Node(w) => ~accepted[b]
        <3> SUFFICES ASSUME NEW b \in Attempts, b[1] = Node(w), accepted[b] PROVE FALSE
            OBVIOUS
        <3>1. ~(b[2] > started[b[1]])
            BY DEF Unstarted, Untouched
        <3>2. b \in Of(Node(w))
            BY <1>0, <3>1, BoundsNat DEF Of, RowsTyped, Attempts
        <3> QED
            BY <2>1, <3>2 DEF HasOwner
    <2>4. \A a \in Attempts : accepted'[a] <=> accepted[a] \/ a = at[w]
        BY <1>0, <2>1 DEF RowsTyped
    <2> QED
        BY <2>1, <2>2, <2>3, <2>4 DEF OneFate, Node
<1> QED
    BY <1>1, <1>2, <1>3, <1>4, RowsMove DEF Begins, Start, Reserves, Reserve

-----------------------------------------------------------------------------
(* A node's declared drops.                                                *)

\* Past its re-attempt, a node's newest attempt is the drop that stops it.
DropsKept(n) ==
    /\ Cardinality(Unparked(n)) <= DropReattempts + 1
    /\ Cardinality(Unparked(n)) > DropReattempts => \E d \in Unparked(n) : d[2] = started[n]

\* The attempts, and the drops among them, can be counted.
LEMMA UnparkedFinite ==
    /\ IsFiniteSet(Attempts)
    /\ \A n : /\ Unparked(n) \in SUBSET Attempts
              /\ IsFiniteSet(Unparked(n)) /\ Cardinality(Unparked(n)) \in Nat
<1>1. IsFiniteSet(Attempts)
    <2>1. IsFiniteSet(1..MaxOrdinal)
        BY BoundsNat, FS_Interval
    <2> QED
        BY <2>1, NodesFinite, FS_Product DEF Attempts
<1>2. \A n : Unparked(n) \in SUBSET Attempts
    BY DEF Unparked, Drops, Real, Of
<1> QED
    BY <1>1, <1>2, FS_Subset, FS_CardinalityType

\* Fewer of a node's drops count, the newest attempt the same.
LEMMA FewerDrops ==
    ASSUME NEW n \in Nodes, DropsKept(n), started'[n] = started[n], Unparked(n)' \subseteq Unparked(n)
    PROVE  DropsKept(n)'
<1>1. CASE Unparked(n)' = Unparked(n)
    BY <1>1 DEF DropsKept
<1>2. CASE Unparked(n)' # Unparked(n)
    <2>1. Cardinality(Unparked(n)') < Cardinality(Unparked(n)) /\ Cardinality(Unparked(n)') \in Nat
        BY <1>2, UnparkedFinite, FS_Subset, FS_CardinalityType
    <2>2. Cardinality(Unparked(n)) <= DropReattempts + 1
        BY DEF DropsKept
    <2> QED
        BY <2>1, <2>2, UnparkedFinite, BoundsNat DEF DropsKept
<1> QED
    BY <1>1, <1>2

\* Where the newest drop would stop the node, it is not started on.
LEMMA BeginsUnstopped ==
    ASSUME TypeInv, NEW w \in Workers, Begins(w)
    PROVE  ~\E d \in Unparked(Node(w)) :
               d[2] = started[Node(w)] /\ Cardinality(Unparked(Node(w))) > DropReattempts
<1> DEFINE n == Node(w)
<1> SUFFICES ASSUME NEW d \in Unparked(n), d[2] = started[n],
                    Cardinality(Unparked(n)) > DropReattempts
             PROVE  FALSE
    BY Zenon
<1>1. d \in Drops(n) /\ d \in Real(n) /\ d \in Attempts /\ d[1] = n /\ ~parked[d]
    BY DEF Unparked, Drops, Real, Of
<1>2. \A a \in Real(n) : a \in Attempts /\ a[1] = n /\ a[2] <= d[2]
    BY DEF Real, Of
<1>3. Last(Real(n)) \in Real(n) /\ d[2] <= Last(Real(n))[2]
    BY <1>1, <1>2 DEF Last
<1>4. Last(Real(n)) = d
    BY <1>1, <1>2, <1>3, BoundsNat DEF Attempts
<1>5. Cardinality(Drops(n)) > DropReattempts
    <2>1. Drops(n) \in SUBSET Attempts /\ Unparked(n) \subseteq Drops(n)
        BY DEF Drops, Real, Of, Unparked
    <2>2. IsFiniteSet(Drops(n))
        BY <2>1, UnparkedFinite, FS_Subset
    <2>3. Cardinality(Unparked(n)) <= Cardinality(Drops(n)) /\ Cardinality(Drops(n)) \in Nat
        BY <2>1, <2>2, FS_Subset, FS_CardinalityType
    <2> QED
        BY <2>3, UnparkedFinite, BoundsNat
<1>6. DropStopOwed(n)
    BY <1>1, <1>4, <1>5 DEF DropStopOwed, LastIsDrop
<1> QED
    BY <1>6 DEF Begins, StartRefusal, Over

\* So at every node.
Dropping == \A n \in Nodes : DropsKept(n)

\* A drop is billed to the newest attempt alone, and a start past it is refused.
LEMMA DroppingKept ==
    ASSUME TypeInv, OneCaller, CallerState, CallerAlone, Unstarted, Dropping, Next
    PROVE  Dropping'
<1> SUFFICES ASSUME NEW n \in Nodes PROVE DropsKept(n)'
    BY Zenon DEF Dropping
<1>0. WorkersTyped /\ RowsTyped /\ Standing /\ DropsKept(n)
    BY TypeParts DEF TypeInv, Dropping
<1>1. CASE UNCHANGED <<started, reserved, outcome, explained, accepted>> /\ (UNCHANGED parked \/ ParksBilled)
    <2>1. Unparked(n)' \subseteq Unparked(n)
        BY <1>1 DEF Unparked, Drops, Real, Of, ParksBilled
    <2> QED
        BY <1>0, <1>1, <2>1, FewerDrops
<1>2. ASSUME NEW w \in Workers, Begins(w) PROVE DropsKept(n)'
    <2>1. UNCHANGED <<reserved, outcome, explained, parked>> /\ started' = [started EXCEPT ![Node(w)] = @ + 1]
        BY <1>2 DEF Begins, Start
    <2>2. CASE Node(w) # n
        <3>1. started'[n] = started[n]
            BY <1>0, <2>1, <2>2 DEF RowsTyped
        <3>2. Unparked(n)' \subseteq Unparked(n)
            BY <2>1, <3>1 DEF Unparked, Drops, Real, Of
        <3> QED
            BY <1>0, <3>1, <3>2, FewerDrops
    <2>3. CASE Node(w) = n
        <3>1. started'[n] = started[n] + 1 /\ started[n] \in Nat
            BY <1>0, <2>1, <2>3, BoundsNat DEF RowsTyped
        <3>2. Unparked(n)' \subseteq Unparked(n)
            <4> SUFFICES ASSUME NEW a \in Unparked(n)' PROVE a \in Unparked(n)
                OBVIOUS
            <4>1. a \in Attempts /\ a[1] = n /\ outcome[a] = "drop"
                BY <2>1 DEF Unparked, Drops, Real, Of
            <4>2. a[2] <= started[n]
                BY <3>1, <4>1, BoundsNat DEF Unstarted, Untouched, Attempts
            <4> QED
                BY <2>1, <4>1, <4>2 DEF Unparked, Drops, Real, Of
        <3>3. ~(Cardinality(Unparked(n)) > DropReattempts)
            BY <1>0, <1>2, <2>3, BeginsUnstopped DEF DropsKept
        <3>4. Cardinality(Unparked(n)') <= Cardinality(Unparked(n)) /\ Cardinality(Unparked(n)') \in Nat
            BY <3>2, UnparkedFinite, FS_Subset, FS_CardinalityType
        <3> QED
            BY <3>3, <3>4, UnparkedFinite, BoundsNat DEF DropsKept
    <2> QED
        BY <2>2, <2>3
<1>3. ASSUME NEW w \in Workers, Reserves(w) PROVE DropsKept(n)'
    <2>1. UNCHANGED <<started, outcome, explained, parked>> /\ reserved' = [reserved EXCEPT ![at[w]] = Price]
          /\ pc[w] = "reserve"
        BY <1>3 DEF Reserves, Reserve
    <2>2. outcome[at[w]] = "none"
        BY <2>1 DEF CallerState
    <2>3. Unparked(n)' \subseteq Unparked(n)
        BY <1>0, <2>1, <2>2 DEF Unparked, Drops, Real, Of, RowsTyped
    <2> QED
        BY <1>0, <2>1, <2>3, FewerDrops
<1>4. ASSUME NEW w \in Workers, Bills(w) PROVE DropsKept(n)'
    <2>1. UNCHANGED <<started, reserved, explained, parked>> /\ Insert(w) /\ pc[w] = "write"
        BY <1>4 DEF Bills, Record, CutBilling
    <2> DEFINE a == at[w]
    <2>2. a \in Attempts /\ a[2] <= started[a[1]] /\ a[1] \in Nodes
        BY <1>0, <2>1 DEF Standing, AtAttempt, Steps, Attempts
    <2>3. \A b \in Attempts : b # a => outcome'[b] = outcome[b]
        BY <1>0, <2>1 DEF Insert, RowsTyped
    <2>4. Unparked(n)' \subseteq Unparked(n) \cup {a}
        BY <2>1, <2>3 DEF Unparked, Drops, Real, Of
    <2>5. CASE Unparked(n)' \subseteq Unparked(n)
        BY <1>0, <2>1, <2>5, FewerDrops
    <2>6. CASE ~(Unparked(n)' \subseteq Unparked(n))
        <3>1. a \in Unparked(n)' /\ a \notin Unparked(n)
            BY <2>4, <2>6
        <3>2. a[1] = n /\ outcome'[a] = "drop" /\ outcome[a] # "drop"
            BY <2>1, <3>1 DEF Unparked, Drops, Real, Of
        <3>3. outcome[a] = "none" /\ a[2] = started[n]
            <4>1. outcome' = [outcome EXCEPT ![a] =
                      IF @ # "none" THEN @
                      ELSE IF answer[w] = "drop" /\ a[2] < started[a[1]] THEN "unknown"
                      ELSE answer[w]]
                BY <2>1 DEF Insert
            <4> HIDE DEF a
            <4>2. outcome[a] = "none"
                BY <1>0, <2>2, <3>2, <4>1 DEF RowsTyped
            <4>3. answer[w] = "drop" /\ ~(a[2] < started[a[1]])
                BY <1>0, <2>2, <3>2, <4>1, <4>2 DEF RowsTyped
            <4> QED
                <5>1. a[2] \in Nat /\ started[a[1]] \in Nat
                    BY <1>0, <2>2, BoundsNat DEF RowsTyped, Attempts
                <5>2. a[2] = started[a[1]]
                    BY <2>2, <4>3, <5>1
                <5> QED
                    BY <3>2, <4>2, <5>2
        <3>4. \A d \in Unparked(n) : d[2] # started[n]
            BY <3>1, <3>2, <3>3 DEF Unparked, Drops, Real, Of, Attempts
        <3>5. Cardinality(Unparked(n)) <= DropReattempts
            BY <1>0, <3>4, UnparkedFinite, BoundsNat DEF DropsKept
        <3>6. Cardinality(Unparked(n) \cup {a}) = Cardinality(Unparked(n)) + 1 /\ IsFiniteSet(Unparked(n) \cup {a})
            BY <3>1, UnparkedFinite, FS_AddElement
        <3>7. Cardinality(Unparked(n)') <= Cardinality(Unparked(n)) + 1 /\ Cardinality(Unparked(n)') \in Nat
            BY <2>4, <3>6, FS_Subset, FS_CardinalityType
        <3>8. a[2] = started'[n]
            BY <2>1, <3>3
        <3> QED
            BY <3>1, <3>5, <3>7, <3>8, UnparkedFinite, BoundsNat DEF DropsKept
    <2> QED
        BY <2>5, <2>6
<1>5. ASSUME NEW w \in Workers, Explains(w) PROVE DropsKept(n)'
    <2>1. UNCHANGED <<started, reserved, outcome, parked>> /\ Write(w)
        BY <1>5 DEF Explains, Explain
    <2>2. Unparked(n)' \subseteq Unparked(n)
        BY <1>0, <2>1 DEF Write, Unparked, Drops, Real, Of, RowsTyped
    <2> QED
        BY <1>0, <2>1, <2>2, FewerDrops
<1>6. ASSUME NEW w \in Workers, Accepts(w) PROVE DropsKept(n)'
    <2>1. UNCHANGED <<started, reserved, outcome, explained, parked>>
        BY <1>6, Zenon DEF Accepts, Accept
    <2>2. Unparked(n)' \subseteq Unparked(n)
        BY <2>1 DEF Unparked, Drops, Real, Of
    <2> QED
        BY <1>0, <2>1, <2>2, FewerDrops
<1> QED
    BY <1>1, <1>2, <1>3, <1>4, <1>5, <1>6, RowsMove

\* Induction over a finite set's subsets, for a property given as the set G of those that
\* have it.
LEMMA SetInduction ==
    ASSUME NEW S, IsFiniteSet(S), NEW G, {} \in G,
           \A T \in SUBSET S, x \in S : T \in G /\ x \notin T => T \cup {x} \in G
    PROVE  S \in G
<1> DEFINE Bad == (SUBSET S) \ G
<1> SUFFICES ASSUME S \notin G PROVE FALSE
    OBVIOUS
<1>1. Bad \subseteq FiniteSubsetsOf(S) /\ Bad # {}
    BY FS_FiniteSubsetsOfFinite
<1>2. PICK U \in Bad : \A V \in Bad : <<V, U>> \notin StrictSubsetOrdering(S)
    BY <1>1, FS_StrictSubsetOrderingWellFounded, WFMin
<1>3. PICK x \in U : TRUE
    OBVIOUS
<1>4. U \ {x} \in SUBSET S /\ U \ {x} # U
    BY <1>3
<1>5. U \ {x} \notin Bad
    BY <1>2, <1>4 DEF StrictSubsetOrdering
<1>6. (U \ {x}) \cup {x} \in G
    BY <1>3, <1>4, <1>5
<1>7. (U \ {x}) \cup {x} = U
    BY <1>3
<1> QED
    BY <1>6, <1>7

\* A subset none of whose proper subsets violates what it does.
LEMMA SmallestViolation ==
    ASSUME NEW S, IsFiniteSet(S), NEW Bad \in SUBSET SUBSET S, Bad # {}
    PROVE  \E U \in Bad : \A V \in SUBSET U : V # U => V \notin Bad
<1>1. Bad \subseteq FiniteSubsetsOf(S)
    BY FS_FiniteSubsetsOfFinite
<1>2. PICK U \in Bad : \A V \in Bad : <<V, U>> \notin StrictSubsetOrdering(S)
    BY <1>1, FS_StrictSubsetOrderingWellFounded, WFMin
<1> QED
    BY <1>2 DEF StrictSubsetOrdering

-----------------------------------------------------------------------------
(* A sum over a set, as the fold computes it: one chosen element after     *)
(* another.                                                                *)

\* The element the fold takes next, and what its equation says of a sum g of f.
Chosen(s) == CHOOSE x \in s : TRUE
IsSum(g, f, S) ==
    /\ g \in [SUBSET S -> Nat]
    /\ \A s \in SUBSET S :
         g[s] = IF s = {} THEN 0 ELSE f[Chosen(s)] + g[s \ {Chosen(s)}]

\* It is an element.
LEMMA ChosenIn == ASSUME NEW s, s # {} PROVE Chosen(s) \in s
    BY DEF Chosen

\* Every finite set has its sum.
LEMMA SumExists ==
    ASSUME NEW S, IsFiniteSet(S), NEW f \in [S -> Nat]
    PROVE  \E g : IsSum(g, f, S)
<1> DEFINE Upto(g, n) ==
        \A s \in SUBSET S : Cardinality(s) <= n =>
            g[s] = IF s = {} THEN 0 ELSE f[Chosen(s)] + g[s \ {Chosen(s)}]
           G == {T \in SUBSET S : \E g \in [SUBSET S -> Nat] : Upto(g, Cardinality(T))}
<1>1. \A s \in SUBSET S : IsFiniteSet(s) /\ Cardinality(s) \in Nat /\ Cardinality(s) <= Cardinality(S)
    BY FS_Subset, FS_CardinalityType
<1>2. {} \in G
    <2>1. Upto([s \in SUBSET S |-> 0], 0)
        BY <1>1, FS_EmptySet
    <2> QED
        BY <2>1, FS_EmptySet
<1>3. ASSUME NEW T \in SUBSET S, NEW x \in S, T \in G, x \notin T
      PROVE  T \cup {x} \in G
    <2>1. PICK g \in [SUBSET S -> Nat] : Upto(g, Cardinality(T))
        BY <1>3
    <2> DEFINE h == [s \in SUBSET S |->
                       IF Cardinality(s) <= Cardinality(T) THEN g[s]
                       ELSE f[Chosen(s)] + g[s \ {Chosen(s)}]]
    <2>2. Cardinality(T \cup {x}) = Cardinality(T) + 1
        BY <1>1, <1>3, FS_AddElement
    <2>3. \A s \in SUBSET S : s # {} =>
            /\ Chosen(s) \in S
            /\ s \ {Chosen(s)} \in SUBSET S
            /\ Cardinality(s \ {Chosen(s)}) = Cardinality(s) - 1
        BY <1>1, ChosenIn, FS_RemoveElement
    <2>4. \A s \in SUBSET S : ~(Cardinality(s) <= Cardinality(T)) => s # {}
        BY <1>1, FS_EmptySet
    <2>5. h \in [SUBSET S -> Nat]
        BY <2>3, <2>4
    <2>6. ASSUME NEW s \in SUBSET S, Cardinality(s) <= Cardinality(T) + 1
          PROVE  h[s] = IF s = {} THEN 0 ELSE f[Chosen(s)] + h[s \ {Chosen(s)}]
        <3>1. CASE s = {}
            BY <3>1, <1>1, <2>1, FS_EmptySet
        <3>2. CASE s # {}
            <4>1. h[s \ {Chosen(s)}] = g[s \ {Chosen(s)}]
                BY <3>2, <2>3, <2>6, <1>1
            <4>2. h[s] = f[Chosen(s)] + g[s \ {Chosen(s)}]
                BY <3>2, <2>1, <1>1
            <4> QED
                BY <3>2, <4>1, <4>2
        <3> QED
            BY <3>1, <3>2
    <2>7. Upto(h, Cardinality(T) + 1)
        BY <2>6
    <2>8. T \cup {x} \in SUBSET S
        OBVIOUS
    <2> HIDE DEF h
    <2>9. \E r \in [SUBSET S -> Nat] : Upto(r, Cardinality(T \cup {x}))
        BY <2>2, <2>5, <2>7
    <2> QED
        BY <2>8, <2>9
<1>4. S \in G
    <2> HIDE DEF G
    <2> QED
        BY <1>2, <1>3, SetInduction
<1>5. PICK g \in [SUBSET S -> Nat] : Upto(g, Cardinality(S))
    BY <1>4
<1> QED
    BY <1>5, <1>1 DEF IsSum

\* Whichever element is taken out, the rest sums to the rest.
LEMMA SumStep ==
    ASSUME NEW S, IsFiniteSet(S), NEW f \in [S -> Nat], NEW g, IsSum(g, f, S)
    PROVE  \A T \in SUBSET S : \A x \in T : g[T] = f[x] + g[T \ {x}]
<1> DEFINE Bad == {T \in SUBSET S : \E x \in T : g[T] # f[x] + g[T \ {x}]}
<1> SUFFICES ASSUME Bad # {} PROVE FALSE
    OBVIOUS
<1>0. Bad \in SUBSET SUBSET S
    OBVIOUS
<1>1. PICK U \in Bad : \A V \in SUBSET U : V # U => V \notin Bad
    <2> HIDE DEF Bad
    <2> QED
        BY <1>0, SmallestViolation
<1>2. PICK x \in U : g[U] # f[x] + g[U \ {x}]
    OBVIOUS
<1> DEFINE c == Chosen(U)
<1>3. c \in U /\ g[U] = f[c] + g[U \ {c}]
    BY <1>2, ChosenIn DEF IsSum
<1>4. c # x
    BY <1>2, <1>3
<1>5. g[U \ {c}] = f[x] + g[(U \ {c}) \ {x}]
    BY <1>1, <1>2, <1>3, <1>4
<1>6. g[U \ {x}] = f[c] + g[(U \ {x}) \ {c}]
    BY <1>1, <1>2, <1>3, <1>4
<1>7. (U \ {x}) \ {c} = (U \ {c}) \ {x}
    OBVIOUS
<1>8. /\ f[x] \in Nat /\ f[c] \in Nat
      /\ g[(U \ {c}) \ {x}] \in Nat
    BY <1>2, <1>3 DEF IsSum
<1>9. g[U \ {x}] = f[c] + g[(U \ {c}) \ {x}]
    BY <1>6, <1>7
<1> HIDE DEF c
<1>10. f[c] + (f[x] + g[(U \ {c}) \ {x}]) = f[x] + (f[c] + g[(U \ {c}) \ {x}])
    BY <1>8
<1>11. g[U] = f[x] + g[U \ {x}]
    BY <1>3, <1>5, <1>9, <1>10
<1> QED
    BY <1>2, <1>11

\* Equal summands, equal sums.
LEMMA SumAgrees ==
    ASSUME NEW S, IsFiniteSet(S), NEW f \in [S -> Nat], NEW e \in [S -> Nat],
           NEW g, IsSum(g, f, S), NEW h, IsSum(h, e, S),
           NEW T \in SUBSET S, \A x \in T : f[x] = e[x]
    PROVE  g[T] = h[T]
<1> DEFINE G == {U \in SUBSET S : U \subseteq T => g[U] = h[U]}
<1>1. {} \in G
    BY DEF IsSum
<1>2. ASSUME NEW U \in SUBSET S, NEW x \in S, U \in G, x \notin U
      PROVE  U \cup {x} \in G
    <2> SUFFICES ASSUME U \cup {x} \subseteq T PROVE g[U \cup {x}] = h[U \cup {x}]
        OBVIOUS
    <2>1. (U \cup {x}) \ {x} = U
        BY <1>2
    <2>2. g[U \cup {x}] = f[x] + g[U] /\ h[U \cup {x}] = e[x] + h[U]
        BY <2>1, SumStep
    <2> QED
        BY <2>2, <1>2
<1>3. IsFiniteSet(T)
    BY FS_Subset
<1>4. T \in G
    <2> HIDE DEF G
    <2> QED
        BY <1>1, <1>2, <1>3, SetInduction
<1> QED
    BY <1>4

\* One summand changes.
LEMMA SumAt ==
    ASSUME NEW S, IsFiniteSet(S), NEW f \in [S -> Nat], NEW e \in [S -> Nat],
           NEW g, IsSum(g, f, S), NEW h, IsSum(h, e, S),
           NEW y \in S, \A x \in S \ {y} : f[x] = e[x]
    PROVE  h[S] + f[y] = g[S] + e[y]
<1>1. g[S \ {y}] = h[S \ {y}]
    BY SumAgrees
<1>2. g[S] = f[y] + g[S \ {y}] /\ h[S] = e[y] + h[S \ {y}]
    BY SumStep
<1>3. f[y] \in Nat /\ e[y] \in Nat /\ g[S \ {y}] \in Nat /\ h[S \ {y}] \in Nat
    BY DEF IsSum
<1> QED
    BY <1>1, <1>2, <1>3

\* Zeros sum to zero.
LEMMA SumOfNothing ==
    ASSUME NEW S, IsFiniteSet(S), NEW f \in [S -> Nat], NEW g, IsSum(g, f, S), \A x \in S : f[x] = 0
    PROVE  g[S] = 0
<1> DEFINE G == {T \in SUBSET S : g[T] = 0}
<1>1. {} \in G
    BY DEF IsSum
<1>2. ASSUME NEW U \in SUBSET S, NEW x \in S, U \in G, x \notin U
      PROVE  U \cup {x} \in G
    <2>1. (U \cup {x}) \ {x} = U
        BY <1>2
    <2>2. g[U \cup {x}] = f[x] + g[U]
        BY <2>1, SumStep
    <2> QED
        BY <2>2, <1>2
<1>3. S \in G
    <2> HIDE DEF G
    <2> QED
        BY <1>1, <1>2, SetInduction
<1> QED
    BY <1>3
-----------------------------------------------------------------------------
(* The run's budget.                                                       *)

\* What attempts reserved at r and billed as o take from the budget, one by one and, as the
\* fold over them computes it, together.
Weights(r, o) == [a \in Attempts |-> Bigger(r[a], Cost(o[a]))]
Total(r, o) ==
    (CHOOSE iter : iter = [s \in SUBSET Attempts |->
        IF s = {} THEN 0 ELSE Weights(r, o)[Chosen(s)] + iter[s \ {Chosen(s)}]])[Attempts]

\* The rows a sum is taken of.
Reserving == [Attempts -> {0, Price}]
Outcomes == [Attempts -> Kinds \cup {"none"}]

\* No attempt gives anything back.
LEMMA WeightsTyped == ASSUME NEW r \in Reserving, NEW o PROVE Weights(r, o) \in [Attempts -> Nat]
<1>1. \A k : Cost(k) \in Nat
    BY BoundsNat DEF Cost
<1> QED
    BY <1>1, BoundsNat DEF Weights, Bigger, Reserving

\* The model's fold is this one.
LEMMA CommittedIs == Committed = Total(reserved, outcome)
<1>1. \A s \in SUBSET Attempts : s # {} =>
          Weights(reserved, outcome)[Chosen(s)] = Bigger(reserved[Chosen(s)], Cost(outcome[Chosen(s)]))
    BY ChosenIn DEF Weights
<1> DEFINE F(iter) == [s \in SUBSET Attempts |->
        IF s = {} THEN 0 ELSE Bigger(reserved[Chosen(s)], Cost(outcome[Chosen(s)])) + iter[s \ {Chosen(s)}]]
           G(iter) == [s \in SUBSET Attempts |->
        IF s = {} THEN 0 ELSE Weights(reserved, outcome)[Chosen(s)] + iter[s \ {Chosen(s)}]]
<1>2. \A iter : F(iter) = G(iter)
    BY <1>1
<1>3. Committed = (CHOOSE iter : iter = F(iter))[Attempts]
    BY Zenon DEF Committed, MapThenSumSet, MapThenFoldSet, Chosen
<1>4. Total(reserved, outcome) = (CHOOSE iter : iter = G(iter))[Attempts]
    BY Zenon DEF Total
<1> HIDE DEF F, G
<1>5. (CHOOSE iter : iter = F(iter)) = (CHOOSE iter : iter = G(iter))
    BY <1>2
<1> QED
    BY <1>3, <1>4, <1>5

\* The fold is the sum its equation defines.
LEMMA TotalIsSum ==
    ASSUME NEW r \in Reserving, NEW o
    PROVE  \E g : IsSum(g, Weights(r, o), Attempts) /\ Total(r, o) = g[Attempts]
<1> DEFINE f == Weights(r, o)
           Eqn(iter) == iter = [s \in SUBSET Attempts |->
                            IF s = {} THEN 0 ELSE f[Chosen(s)] + iter[s \ {Chosen(s)}]]
           fold == CHOOSE iter : Eqn(iter)
<1>1. Total(r, o) = fold[Attempts]
    BY Zenon DEF Total
<1>2. f \in [Attempts -> Nat]
    BY WeightsTyped
<1> HIDE DEF f
<1>3. PICK g : IsSum(g, f, Attempts)
    BY <1>2, UnparkedFinite, SumExists
<1>4. Eqn(g)
    BY <1>3 DEF IsSum
<1>5. Eqn(fold)
    BY <1>4, Zenon
<1> HIDE DEF fold
<1>6. \A s \in SUBSET Attempts : fold[s] = IF s = {} THEN 0 ELSE f[Chosen(s)] + fold[s \ {Chosen(s)}]
    BY <1>5
<1> DEFINE Bad == {s \in SUBSET Attempts : fold[s] # g[s]}
<1>7. Bad = {}
    <2> SUFFICES ASSUME Bad # {} PROVE FALSE
        OBVIOUS
    <2>1. Bad \in SUBSET SUBSET Attempts
        OBVIOUS
    <2>2. PICK U \in Bad : \A V \in SUBSET U : V # U => V \notin Bad
        <3> HIDE DEF Bad
        <3> QED
            BY <2>1, UnparkedFinite, SmallestViolation
    <2>3. U # {} => fold[U \ {Chosen(U)}] = g[U \ {Chosen(U)}]
        BY <2>2, ChosenIn
    <2> QED
        BY <1>3, <1>6, <2>3 DEF IsSum
<1> QED
    BY <1>1, <1>3, <1>7 DEF f

\* When one attempt's weight changes, the total changes by as much.
LEMMA TotalMoves ==
    ASSUME NEW r \in Reserving, NEW o, NEW q \in Reserving, NEW p, NEW a \in Attempts,
           \A b \in Attempts \ {a} : r[b] = q[b] /\ o[b] = p[b]
    PROVE  /\ Total(r, o) \in Nat /\ Total(q, p) \in Nat
           /\ Total(q, p) + Bigger(r[a], Cost(o[a])) = Total(r, o) + Bigger(q[a], Cost(p[a]))
<1>1. PICK g : IsSum(g, Weights(r, o), Attempts) /\ Total(r, o) = g[Attempts]
    BY TotalIsSum
<1>2. PICK h : IsSum(h, Weights(q, p), Attempts) /\ Total(q, p) = h[Attempts]
    BY TotalIsSum
<1>3. Weights(r, o) \in [Attempts -> Nat] /\ Weights(q, p) \in [Attempts -> Nat]
    BY WeightsTyped
<1>4. g[Attempts] \in Nat /\ h[Attempts] \in Nat
    BY <1>1, <1>2 DEF IsSum
<1>5. \A b \in Attempts \ {a} : Weights(r, o)[b] = Weights(q, p)[b]
    BY DEF Weights
<1>6. h[Attempts] + Weights(r, o)[a] = g[Attempts] + Weights(q, p)[a]
    <2> DEFINE e == Weights(r, o)
               f == Weights(q, p)
    <2>1. e \in [Attempts -> Nat] /\ f \in [Attempts -> Nat] /\ IsSum(g, e, Attempts) /\ IsSum(h, f, Attempts)
          /\ \A b \in Attempts \ {a} : e[b] = f[b]
        BY <1>1, <1>2, <1>3, <1>5
    <2> HIDE DEF e, f
    <2>2. h[Attempts] + e[a] = g[Attempts] + f[a]
        BY <2>1, UnparkedFinite, SumAt
    <2> QED
        BY <2>2 DEF e, f
<1> QED
    BY <1>1, <1>2, <1>4, <1>6 DEF Weights

\* An empty ledger commits nothing.
LEMMA TotalOfNothing ==
    ASSUME NEW r, NEW o, r = [a \in Attempts |-> 0], o = [a \in Attempts |-> "none"]
    PROVE  Total(r, o) = 0
<1>1. r \in Reserving
    BY DEF Reserving
<1>2. PICK g : IsSum(g, Weights(r, o), Attempts) /\ Total(r, o) = g[Attempts]
    BY <1>1, TotalIsSum
<1>3. \A a \in Attempts : Weights(r, o)[a] = 0
    BY DEF Weights, Bigger, Cost, Charged
<1> DEFINE f == Weights(r, o)
<1>4. f \in [Attempts -> Nat]
    BY <1>1, WeightsTyped
<1> HIDE DEF f
<1>5. IsSum(g, f, Attempts) /\ \A a \in Attempts : f[a] = 0
    BY <1>2, <1>3 DEF f
<1> QED
    BY <1>2, <1>4, <1>5, UnparkedFinite, SumOfNothing

\* The attempts billed over their reservations.
OverSpent == {a \in Attempts : outcome[a] = "over"}

\* A reservation is made out of what is left, and a bill replaces it: only a bill over
\* its reservation adds to the total, and it adds one Price.
LEMMA WithinKept ==
    ASSUME TypeInv, TypeInv', CallerState, WithinCeiling, Next
    PROVE  WithinCeiling'
<1> DEFINE c == Cardinality(OverSpent)
           d == Cardinality(OverSpent')
<1>0. RowsTyped /\ WorkersTyped /\ Standing
    BY TypeParts DEF TypeInv
<1>1. reserved \in Reserving /\ reserved' \in Reserving /\ outcome \in Outcomes /\ outcome' \in Outcomes
    BY DEF TypeInv, TypeOK, Reserving, Outcomes
<1>2. Committed = Total(reserved, outcome) /\ Committed' = Total(reserved', outcome')
    <2>1. Committed = Total(reserved, outcome)
        BY CommittedIs
    <2>2. (Committed = Total(reserved, outcome))'
        BY CommittedIs, PTL
    <2> QED
        BY <2>1, <2>2
<1>3. /\ c \in Nat /\ d \in Nat /\ IsFiniteSet(OverSpent) /\ IsFiniteSet(OverSpent')
    BY UnparkedFinite, FS_Subset, FS_CardinalityType DEF OverSpent
<1>4. Committed <= Ceiling + Price * c
    BY DEF WithinCeiling, OverSpent
<1> SUFFICES Committed' <= Ceiling + Price * d
    BY DEF WithinCeiling, OverSpent
<1>5. Price \in Nat /\ Ceiling \in Nat /\ Price > 0
    BY BoundsNat
<1>6. CASE UNCHANGED <<reserved, outcome>>
    BY <1>2, <1>4, <1>6 DEF OverSpent
<1>7. ASSUME NEW w \in Workers, Reserves(w) PROVE Committed' <= Ceiling + Price * d
    <2>1. reserved' = [reserved EXCEPT ![at[w]] = Price] /\ UNCHANGED outcome /\ pc[w] = "reserve"
          /\ ~(Price > Left)
        BY <1>7 DEF Reserves, Reserve
    <2>2. at[w] \in Attempts /\ reserved[at[w]] = 0 /\ outcome[at[w]] = "none"
        BY <1>0, <2>1 DEF Standing, AtAttempt, Steps, CallerState
    <2>3. reserved'[at[w]] = Price /\ \A b \in Attempts \ {at[w]} : reserved[b] = reserved'[b] /\ outcome[b] = outcome'[b]
        BY <1>0, <2>1, <2>2 DEF RowsTyped
    <2>4. Committed \in Nat /\ Committed' = Committed + Price
        <3>1. Bigger(reserved[at[w]], Cost(outcome[at[w]])) = 0
            BY <2>2 DEF Bigger, Cost, Charged
        <3>2. Bigger(reserved'[at[w]], Cost(outcome'[at[w]])) = Price
            BY <1>5, <2>1, <2>2, <2>3 DEF Bigger, Cost, Charged
        <3>3. /\ Total(reserved, outcome) \in Nat /\ Total(reserved', outcome') \in Nat
              /\ Total(reserved', outcome') + Bigger(reserved[at[w]], Cost(outcome[at[w]]))
                 = Total(reserved, outcome) + Bigger(reserved'[at[w]], Cost(outcome'[at[w]]))
            BY <1>1, <2>2, <2>3, TotalMoves
        <3> QED
            BY <1>2, <1>5, <3>1, <3>2, <3>3
    <2>5. Committed + Price <= Ceiling
        BY <1>5, <2>1, <2>4 DEF Left
    <2>6. Price * d \in Nat
        BY <1>3, <1>5
    <2> QED
        BY <1>5, <2>4, <2>5, <2>6
<1>8. ASSUME NEW w \in Workers, Bills(w) PROVE Committed' <= Ceiling + Price * d
    <2> DEFINE a == at[w]
    <2>1. Insert(w) /\ UNCHANGED reserved /\ pc[w] = "write"
        BY <1>8 DEF Bills, Record, CutBilling
    <2>2. a \in Attempts /\ reserved[a] = Price /\ outcome[a] \in Kinds \cup {"none"} /\ outcome'[a] \in Kinds \cup {"none"}
        BY <1>0, <1>1, <2>1 DEF Standing, AtAttempt, Steps, CallerState, Calling, Billing, RowsTyped, Outcomes
    <2>3. \A b \in Attempts \ {a} : reserved[b] = reserved'[b] /\ outcome[b] = outcome'[b]
        BY <1>0, <2>1, <2>2 DEF RowsTyped, Insert
    <2>4. CASE outcome[a] # "none"
        <3>1. outcome'[a] = outcome[a]
            BY <1>0, <2>1, <2>2, <2>4 DEF Insert, RowsTyped
        <3>2. outcome' = outcome
            BY <1>1, <2>3, <3>1 DEF Outcomes
        <3> QED
            BY <1>6, <2>1, <3>2
    <2>5. CASE outcome[a] = "none"
        <3>1. Bigger(reserved[a], Cost(outcome[a])) = Price
            BY <1>5, <2>2, <2>5 DEF Bigger, Cost, Charged
        <3>2. reserved'[a] = Price
            BY <2>1, <2>2
        <3>3. /\ Total(reserved, outcome) \in Nat /\ Total(reserved', outcome') \in Nat
              /\ Total(reserved', outcome') + Bigger(reserved[a], Cost(outcome[a]))
                 = Total(reserved, outcome) + Bigger(reserved'[a], Cost(outcome'[a]))
            BY <1>1, <2>2, <2>3, TotalMoves
        <3>4. CASE outcome'[a] = "over"
            <4>1. Bigger(reserved'[a], Cost(outcome'[a])) = 2 * Price
                BY <1>5, <3>2, <3>4 DEF Bigger, Cost
            <4>2. OverSpent' = OverSpent \cup {a} /\ a \notin OverSpent
                BY <2>2, <2>3, <2>5, <3>4 DEF OverSpent
            <4>3. d = c + 1
                BY <1>3, <4>2, FS_AddElement
            <4> HIDE DEF c, d
            <4>4. Committed' = Committed + Price /\ Committed \in Nat
                BY <1>2, <1>5, <3>1, <3>3, <4>1
            <4>5. Price * d = Price * c + Price /\ Price * c \in Nat
                BY <1>3, <1>5, <4>3
            <4> QED
                BY <1>4, <1>5, <4>4, <4>5
        <3>5. CASE outcome'[a] # "over"
            <4>1. Bigger(reserved'[a], Cost(outcome'[a])) = Price
                BY <1>5, <3>2, <3>5 DEF Bigger, Cost
            <4>2. OverSpent' = OverSpent
                BY <2>2, <2>3, <2>5, <3>5 DEF OverSpent
            <4>3. Committed' = Committed
                BY <1>2, <1>5, <3>1, <3>3, <4>1
            <4> QED
                BY <1>4, <4>2, <4>3
        <3> QED
            BY <3>4, <3>5
    <2> QED
        BY <2>4, <2>5
<1> QED
    BY <1>6, <1>7, <1>8, RowsMove DEF Begins, Start, Explains, Explain, Accepts, Accept

-----------------------------------------------------------------------------
(* The inductive invariant.                                                *)

\* All of it.
IInv ==
    /\ TypeInv /\ OneCaller /\ Unstarted /\ CallerState /\ CallCovered
    /\ HolderNewest /\ HolderSettles /\ OwedNewest /\ Dropping
    /\ CallerAlone /\ OneFate /\ WithinCeiling

\* It holds at first.
LEMMA InitHolds == Init => IInv
<1> SUFFICES ASSUME Init PROVE IInv
    OBVIOUS
<1>1. TypeInv
    BY TypeInit
<1>2. OneCaller /\ CallerState /\ CallCovered /\ HolderNewest /\ HolderSettles /\ CallerAlone
    BY DEF Init, OneCaller, CallerState, CallCovered, HolderNewest, HolderSettles, CallerAlone, Holds,
       Calling, Billing
<1>3. Unstarted /\ OwedNewest /\ OneFate
    BY DEF Init, Unstarted, Untouched, OwedNewest, OneFate, Charged
<1>4. Dropping
    <2>1. \A n \in Nodes : Unparked(n) = {}
        BY DEF Init, Unparked, Drops, Real, Of
    <2> QED
        BY <2>1, FS_EmptySet, BoundsNat DEF Dropping, DropsKept
<1>5. WithinCeiling
    <2>1. Committed = 0
        BY CommittedIs, TotalOfNothing DEF Init
    <2>2. OverSpent = {}
        BY DEF Init, OverSpent
    <2>3. Cardinality(OverSpent) = 0
        BY <2>2, FS_EmptySet
    <2>4. Price \in Nat /\ Ceiling \in Nat
        BY BoundsNat
    <2>5. Committed <= Ceiling + Price * Cardinality(OverSpent)
        BY <2>1, <2>3, <2>4
    <2> QED
        BY <2>5 DEF WithinCeiling, OverSpent
<1> QED
    BY <1>1, <1>2, <1>3, <1>4, <1>5 DEF IInv

\* Every step keeps it.
LEMMA StepKeeps == IInv /\ [Next]_vars => IInv'
<1> SUFFICES ASSUME IInv, [Next]_vars PROVE IInv'
    OBVIOUS
<1>1. CASE Next
    <2>1. TypeInv'
        BY TypeStep DEF IInv
    <2>2. OneCaller' /\ Unstarted'
        BY <1>1, OneCallerKept, UnstartedKept DEF IInv
    <2>3. CallerState'
        BY <1>1, CallerStateKept DEF IInv
    <2>4. CallCovered'
        BY <1>1, CallCoveredKept DEF IInv
    <2>5. HolderNewest' /\ HolderSettles'
        BY <1>1, HolderNewestKept, HolderSettlesKept DEF IInv
    <2>6. CallerAlone'
        BY <1>1, CallerNewestKept DEF IInv
    <2>7. OwedNewest' /\ OneFate'
        BY <1>1, OwedNewestKept, OneFateKept DEF IInv
    <2>8. Dropping'
        BY <1>1, DroppingKept DEF IInv
    <2>9. WithinCeiling'
        BY <1>1, <2>1, WithinKept DEF IInv
    <2> QED
        BY <2>1, <2>2, <2>3, <2>4, <2>5, <2>6, <2>7, <2>8, <2>9 DEF IInv
<1>2. CASE UNCHANGED vars
    <2>1. TypeInv'
        BY TypeStep DEF IInv
    <2>2. UNCHANGED <<run, rows, guards, worker>>
        BY <1>2 DEF vars
    <2>3. OneCaller' /\ CallerState'
        BY <2>2, Zenon DEF IInv, OneCaller, CallerState, rows, guards, worker
    <2>4. Unstarted'
        BY <2>2 DEF IInv, Unstarted, Untouched, rows, guards
    <2>5. CallCovered' /\ CallerAlone'
        BY <2>2 DEF IInv, CallCovered, CallerAlone, Covered, Node, rows, guards, worker
    <2>6. HolderNewest' /\ HolderSettles'
        BY <2>2 DEF IInv, HolderNewest, HolderSettles, Holds, Unsettled, run, rows, worker
    <2>7. OwedNewest' /\ OneFate'
        BY <2>2 DEF IInv, OwedNewest, OneFate, rows, guards
    <2>8. Dropping'
        BY <2>2 DEF IInv, Dropping, DropsKept, Unparked, Drops, Real, Of, rows
    <2>9. WithinCeiling'
        <3>1. Committed = Total(reserved, outcome) /\ (Committed = Total(reserved, outcome))'
            BY CommittedIs, PTL
        <3> QED
            BY <2>2, <3>1 DEF IInv, WithinCeiling, rows
    <2> QED
        BY <2>1, <2>3, <2>4, <2>5, <2>6, <2>7, <2>8, <2>9 DEF IInv
<1> QED
    BY <1>1, <1>2

\* So it always holds.
LEMMA Invariant == Spec => []IInv
<1> QED
    BY InitHolds, StepKeeps, PTL DEF Spec

\* F363, N80, N223: while a call is out or its bill is not in the ledger, and no
\* disturbance uncovered it, nobody starts its node again (begin_attempt, call_hold, owe_bill).
THEOREM CallerAloneHolds == Spec => []CallerAlone
<1>1. IInv => CallerAlone
    BY DEF IInv
<1> QED
    BY <1>1, Invariant, PTL

\* Invariant 6: a node is paid for twice only past an explained charge, or a call
\* some disturbance uncovered.
THEOREM PaidOnceAlways == Spec => []PaidOnce
<1>1. IInv => PaidOnce
    BY PaidOnceHolds DEF IInv
<1> QED
    BY <1>1, Invariant, PTL

\* An accepted answer was charged, was never explained away, and is the node's only one.
THEOREM OneFateHolds == Spec => []OneFate
<1>1. IInv => OneFate
    BY DEF IInv
<1> QED
    BY <1>1, Invariant, PTL

\* D110, F530: between parks, a node makes no more automatic re-attempts of declared
\* drops than DROP_REATTEMPTS.
THEOREM DropsBoundedHolds == Spec => []DropsBounded
<1>1. IInv => DropsBounded
    BY DEF IInv, Dropping, DropsKept, Unparked, DropsBounded
<1> QED
    BY <1>1, Invariant, PTL

\* Invariant 8: what a run has committed passes its ceiling only by bills over their
\* reservations, whatever the prices and however many workers.
THEOREM WithinCeilingHolds == Spec => []WithinCeiling
<1>1. IInv => WithinCeiling
    BY DEF IInv
<1> QED
    BY <1>1, Invariant, PTL

-----------------------------------------------------------------------------
(* The ledger implements the abstract one.                                 *)

\* Who explains does so of an answer that was read; who blocks, of one that was paid
\* and, when it holds the run, that nobody has decided.
Decides(w) ==
    /\ pc[w] \in {"explain", "settle"} => outcome[at[w]] \notin {"none", "lost"}
    /\ pc[w] = "block" => outcome[at[w]] \in Charged \ {"lost"}
    /\ pc[w] = "block" /\ Holds(w) => Unsettled(at[w])
Deciding == \A w \in Workers : Decides(w)
ExplainedRead == \A a \in Attempts : explained[a] # "none" => outcome[a] \notin {"none", "lost"}

\* A worker comes to decide on an answer it judged, or on one the ledger owes a verdict.
LEMMA DecidingFrom ==
    ASSUME TypeInv, Next, NEW v \in Workers, pc'[v] \in {"explain", "settle", "block"}
    PROVE  \/ pc'[v] = pc[v] /\ at'[v] = at[v]
           \/ /\ pc[v] = "judge" /\ pc'[v] = "explain" /\ at'[v] = at[v]
              /\ UNCHANGED rows /\ answer[v] # "lost"
           \/ /\ UNCHANGED rows /\ at'[v] \in Attempts
              /\ outcome[at'[v]] \in Charged \ {"lost"} /\ Unsettled(at'[v])
<1>0. WorkersTyped /\ RowsTyped /\ Standing
    BY TypeParts DEF TypeInv
<1> DEFINE Owed == /\ UNCHANGED rows /\ at'[v] \in Attempts
                   /\ outcome[at'[v]] \in Charged \ {"lost"} /\ Unsettled(at'[v])
<1>1. ASSUME NEW n, Replayable(n) # {}, UNCHANGED rows, at' = [at EXCEPT ![v] = First(Replayable(n))]
      PROVE  Owed
    <2> DEFINE f == First(Replayable(n))
    <2>1. f \in Replayable(n) /\ f \in Attempts
        BY <1>1, ReplayFirst
    <2>2. at' = [at EXCEPT ![v] = f]
        BY <1>1
    <2> HIDE DEF f
    <2>3. at'[v] = f
        BY <1>0, <2>2 DEF WorkersTyped
    <2> QED
        BY <1>1, <2>1, <2>3 DEF Replayable
<1>2. ASSUME NEW n \in Nodes, Look(v, n) PROVE Owed
    <2>1. Replayable(n) # {} /\ at' = [at EXCEPT ![v] = First(Replayable(n))]
        BY <1>0, <1>2, LookCases DEF Go, Refuse, WorkersTyped
    <2>2. UNCHANGED rows
        BY <1>2, LookCases
    <2> QED
        BY <1>1, <2>1, <2>2
<1>3. ASSUME Confirm(v) PROVE Owed
    <2>1. \E p \in {"refused", "block"} : Go(v, p)
        BY <1>3, Zenon DEF Confirm, Refuse
    <2>2. ~Go(v, "refused")
        BY <1>0 DEF Go, WorkersTyped
    <2>3. /\ Replayable(Node(v)) # {}
          /\ at' = [at EXCEPT ![v] = First(Replayable(Node(v)))]
          /\ UNCHANGED rows
        BY <1>3, <2>2, Zenon DEF Confirm, Refuse
    <2> QED
        BY <1>1, <2>3
<1>4. ASSUME Judge(v)
      PROVE  pc[v] = "judge" /\ pc'[v] = "explain" /\ at'[v] = at[v] /\ UNCHANGED rows /\ answer[v] # "lost"
    BY <1>0, <1>4 DEF Judge, Go, Refuse, WorkersTyped, OverBilled
<1>5. ASSUME Step(v), \A n \in Nodes : ~Look(v, n), ~Confirm(v), ~Judge(v) PROVE FALSE
    <2>1. \A k \in Answers : ~Call(v, k)
        BY <1>0 DEF Call, Go, WorkersTyped
    <2>2. ~(Complete(v) \/ Block(v) \/ Leave(v) \/ Explain(v) \/ ResendRefused(v) \/ Again(v) \/ Start(v))
        BY <1>0 DEF Complete, Block, Leave, Explain, ResendRefused, Again, Start, GoIdle, Go, Refuse,
           WorkersTyped
    <2>3. ~(Reserve(v) \/ TakeHold(v) \/ Check(v) \/ MarkOwed(v) \/ Record(v) \/ Reconnect(v))
        BY <1>0 DEF Reserve, TakeHold, Check, MarkOwed, Record, Reconnect, Go, Refuse, WorkersTyped
    <2>4. ~Accept(v)
        BY <1>0 DEF Accept, Own, Go, Refuse, WorkersTyped
    <2> QED
        BY <1>5, <2>1, <2>2, <2>3, <2>4, Zenon DEF Step
<1>6. ~Disturb(v)
    <2>1. ~(ExplainFails(v) \/ StoreFault(v) \/ Crash(v) \/ CutCalling(v))
        BY <1>0 DEF ExplainFails, StoreFault, Crash, CutCalling, GoIdle, Go, Refuse, WorkersTyped, worker
    <2>2. ~(MarkFails(v) \/ WriteFails(v) \/ ReconnectFails(v) \/ CutBilling(v))
        BY <1>0 DEF MarkFails, WriteFails, ReconnectFails, CutBilling, FailedTry, Go, Refuse, WorkersTyped
    <2> QED
        BY <2>1, <2>2, Zenon DEF Disturb
<1>7. ~Claim(v)
    BY <1>0 DEF Claim, Go, WorkersTyped
<1> HIDE DEF Owed
<1>8. (pc'[v] = pc[v] /\ at'[v] = at[v]) \/ Owed
      \/ (pc[v] = "judge" /\ pc'[v] = "explain" /\ at'[v] = at[v] /\ UNCHANGED rows /\ answer[v] # "lost")
    BY <1>2, <1>3, <1>4, <1>5, <1>6, <1>7, WhoActs, Zenon DEF Acts
<1> QED
    BY <1>8 DEF Owed

\* What is decided on stays read, and the holder's undecided: nobody else decides.
LEMMA DecidingKept == ASSUME TypeInv, CallerState, Deciding, Next PROVE Deciding'
<1> SUFFICES ASSUME NEW v \in Workers, pc'[v] \in {"explain", "settle", "block"} PROVE Decides(v)'
    BY DEF Deciding, Decides
<1>0. WorkersTyped /\ RowsTyped /\ Standing
    BY TypeParts DEF TypeInv
<1>1. CASE pc'[v] = pc[v] /\ at'[v] = at[v]
    <2>1. at[v] \in Attempts /\ Decides(v)
        BY <1>0, <1>1 DEF Standing, AtAttempt, Steps, Deciding
    <2>2. outcome[at[v]] # "none"
        BY <1>1, <2>1 DEF Decides, Charged
    <2>3. outcome'[at[v]] = outcome[at[v]]
        BY <2>1, <2>2, OutcomeStands
    <2>4. ASSUME pc[v] = "block", Holds(v)' PROVE Unsettled(at[v])'
        <3>1. Holds(v)
            BY <1>1, <2>4, HoldsFrom
        <3>2. \A w \in Workers : Reserves(w) \/ Bills(w) => UNCHANGED <<explained, accepted>>
            BY DEF Reserves, Reserve, Bills, Record, CutBilling
        <3>3. \A w \in Workers : ~Explains(w) /\ ~Accepts(w)
            BY <2>4, <3>1, OneHolder DEF Explains, Explain, Accepts, Accept
        <3>4. explained'[at[v]] = explained[at[v]] /\ accepted'[at[v]] = accepted[at[v]]
            BY <2>1, <3>2, <3>3, RowsAt
        <3>5. Unsettled(at[v])
            BY <2>1, <2>4, <3>1 DEF Decides
        <3> QED
            BY <1>1, <3>4, <3>5 DEF Unsettled
    <2> QED
        BY <1>1, <2>1, <2>3, <2>4 DEF Decides
<1>2. CASE /\ pc[v] = "judge" /\ pc'[v] = "explain" /\ at'[v] = at[v]
           /\ UNCHANGED rows /\ answer[v] # "lost"
    <2>1. CallerIs(v)
        BY DEF CallerState, CallerIs
    <2>2. outcome[at[v]] \notin {"none", "lost"}
        BY <1>2, <2>1 DEF CallerIs
    <2> QED
        BY <1>2, <2>2 DEF Decides, rows
<1>3. CASE /\ UNCHANGED rows /\ at'[v] \in Attempts
           /\ outcome[at'[v]] \in Charged \ {"lost"} /\ Unsettled(at'[v])
    BY <1>3 DEF Decides, rows, Unsettled, Charged
<1> QED
    BY <1>1, <1>2, <1>3, DecidingFrom

\* What is explained was billed, and its answer read.
LEMMA ExplainedReadKept ==
    ASSUME TypeInv, Deciding, ExplainedRead, Next PROVE ExplainedRead'
<1> SUFFICES ASSUME NEW a \in Attempts, explained'[a] # "none" PROVE outcome'[a] \notin {"none", "lost"}
    BY DEF ExplainedRead
<1>0. RowsTyped
    BY TypeParts DEF TypeInv
<1>1. CASE outcome'[a] = outcome[a] /\ explained'[a] = explained[a]
    BY <1>1 DEF ExplainedRead
<1>2. ASSUME NEW w \in Workers, at[w] = a, Bills(w) PROVE outcome'[a] \notin {"none", "lost"}
    <2>1. explained'[a] = explained[a]
        BY <1>2 DEF Bills, Record, CutBilling
    <2>2. outcome[a] \notin {"none", "lost"}
        BY <2>1 DEF ExplainedRead
    <2> QED
        BY <2>2, OutcomeStands
<1>3. ASSUME NEW w \in Workers, at[w] = a, Explains(w) PROVE outcome'[a] \notin {"none", "lost"}
    <2>1. UNCHANGED outcome /\ pc[w] \in {"explain", "settle"}
        BY <1>3 DEF Explains, Explain
    <2> QED
        BY <1>3, <2>1 DEF Deciding, Decides
<1>4. ASSUME NEW w \in Workers, Reserves(w) \/ Accepts(w) PROVE UNCHANGED <<outcome, explained>>
    BY <1>4, Zenon DEF Reserves, Reserve, Accepts, Accept
<1> QED
    BY <1>1, <1>2, <1>3, <1>4, RowsAt

\* What the abstract steps are shown from.
LInv == IInv /\ Deciding /\ ExplainedRead

\* It always holds.
LEMMA LedgerInvariant == Spec => []LInv
<1>1. Init => Deciding /\ ExplainedRead
    BY DEF Init, Deciding, Decides, ExplainedRead
<1>2. LInv /\ [Next]_vars => LInv'
    <2> SUFFICES ASSUME LInv, [Next]_vars PROVE LInv'
        OBVIOUS
    <2>1. IInv'
        BY StepKeeps DEF LInv
    <2>2. CASE Next
        BY <2>1, <2>2, DecidingKept, ExplainedReadKept DEF LInv, IInv
    <2>3. CASE UNCHANGED vars
        <3>1. UNCHANGED <<run, rows, worker>>
            BY <2>3 DEF vars
        <3>2. Deciding'
            BY <3>1, Zenon DEF LInv, Deciding, Decides, Holds, Unsettled, run, rows, worker
        <3>3. ExplainedRead'
            BY <3>1 DEF LInv, ExplainedRead, rows
        <3> QED
            BY <2>1, <3>2, <3>3 DEF LInv
    <2> QED
        BY <2>2, <2>3
<1> QED
    BY <1>1, <1>2, InitHolds, PTL DEF Spec, LInv
-----------------------------------------------------------------------------
(* Whose step moves a fate.                                                *)

\* From its start until its answer is billed an attempt is moved by its caller.
Moving == Opening \cup Awaiting

\* Who writes a row, or starts an attempt, moves on.
Writes(w) == Begins(w) \/ Reserves(w) \/ Bills(w) \/ Explains(w) \/ Accepts(w)

\* Where a writer stands, and that it does not stay there.
LEMMA WriterMoves ==
    ASSUME TypeInv, NEW w \in Workers, Writes(w)
    PROVE  /\ pc'[w] # pc[w]
           /\ Begins(w) \/ pc[w] \in Moving \cup {"explain", "settle", "accept"}
<1>0. WorkersTyped
    BY TypeParts DEF TypeInv
<1>1. CASE Begins(w)
    BY <1>0, <1>1 DEF Begins, Start, Go, WorkersTyped
<1>2. CASE Reserves(w)
    <2>1. pc[w] = "reserve" /\ Go(w, "hold")
        BY <1>2, Zenon DEF Reserves, Reserve
    <2> QED
        BY <1>0, <2>1 DEF Go, WorkersTyped, Moving, Opening
<1>3. CASE Bills(w)
    BY <1>0, <1>3 DEF Bills, Record, CutBilling, FailedTry, Refuse, Go, WorkersTyped, Moving, Awaiting
<1>4. CASE Explains(w)
    BY <1>0, <1>4 DEF Explains, Explain, Go, WorkersTyped
<1>5. CASE Accepts(w)
    <2>1. pc[w] = "accept" /\ Go(w, "look")
        BY <1>5, Zenon DEF Accepts, Accept, Own
    <2> QED
        BY <1>0, <2>1 DEF Go, WorkersTyped
<1> QED
    BY <1>1, <1>2, <1>3, <1>4, <1>5 DEF Writes

\* In one worker's step nobody else writes.
LEMMA ActorWrites ==
    ASSUME TypeInv, NEW w \in Workers, Acts(w), NEW v \in Workers, Writes(v) PROVE v = w
<1>1. WorkersTyped
    BY TypeParts DEF TypeInv
<1>2. pc'[v] # pc[v]
    BY WriterMoves
<1> QED
    BY <1>1, <1>2, OthersStay DEF Acts

\* A worker's step moves no fate but that of the attempt it stands at, or comes to.
LEMMA OthersFates ==
    ASSUME TypeInv, Next, NEW w \in Workers, Acts(w), NEW b \in Attempts,
           pc[w] \in Moving \cup {"explain", "settle", "accept"} => at[w] # b,
           pc'[w] \in Moving => at'[w] # b
    PROVE  FateOf(b)' = FateOf(b)
<1>0. WorkersTyped /\ RowsTyped /\ Standing
    BY TypeParts DEF TypeInv
<1>1. \A v \in Workers : v # w => pc'[v] = pc[v] /\ at'[v] = at[v]
    BY <1>0, OthersStay DEF Acts
<1>2. Opened(b)' = Opened(b) /\ Out(b)' = Out(b)
    BY <1>1 DEF Opened, Out, Moving
<1>3. outcome'[b] = outcome[b] /\ explained'[b] = explained[b] /\ accepted'[b] = accepted[b]
    <2>1. ASSUME NEW v \in Workers, at[v] = b, Reserves(v) \/ Bills(v) \/ Explains(v) \/ Accepts(v)
          PROVE  FALSE
        <3>1. v = w
            BY <2>1, ActorWrites DEF Writes
        <3>2. ~Begins(v)
            BY <2>1 DEF Begins, Start, Reserves, Reserve, Bills, Explains, Explain, Accepts, Accept
        <3> QED
            BY <2>1, <3>1, <3>2, WriterMoves DEF Writes
    <2> QED
        BY <2>1, RowsAt
<1>4. b[2] > started'[b[1]] <=> b[2] > started[b[1]]
    <2>1. CASE UNCHANGED started
        BY <2>1
    <2>2. ASSUME Begins(w) PROVE b[2] > started'[b[1]] <=> b[2] > started[b[1]]
        <3> DEFINE n == Node(w)
        <3>1. /\ started' = [started EXCEPT ![n] = @ + 1]
              /\ at' = [at EXCEPT ![w] = <<n, started[n] + 1>>]
              /\ pc' = [pc EXCEPT ![w] = "reserve"]
              /\ n \in Nodes
            BY <1>0, <2>2 DEF Begins, Start, Go, Standing, Node
        <3>2. b # <<n, started[n] + 1>>
            BY <1>0, <3>1 DEF WorkersTyped, Moving, Opening
        <3>3. b[1] \in Nodes /\ b[2] \in Nat /\ b = <<b[1], b[2]>> /\ started[n] \in Nat
            BY <1>0, <3>1, BoundsNat DEF Attempts, RowsTyped
        <3> HIDE DEF n
        <3>4. b[1] = n => b[2] # started[n] + 1
            BY <3>2, <3>3
        <3> QED
            BY <1>0, <3>1, <3>3, <3>4 DEF RowsTyped
    <2>3. \A v \in Workers : Writes(v) => v = w
        BY ActorWrites
    <2>4. ASSUME Reserves(w) \/ Bills(w) \/ Explains(w) \/ Accepts(w) PROVE UNCHANGED started
        BY <2>4, Zenon DEF Reserves, Reserve, Bills, Record, CutBilling, Explains, Explain, Accepts, Accept
    <2> QED
        BY <2>1, <2>2, <2>3, <2>4, RowsMove DEF Writes
<1> QED
    BY <1>2, <1>3, <1>4, Zenon DEF FateOf

\* A caller's attempt is open until it is called for, and out until it is billed.
CalledFates ==
    \A w \in Workers :
        /\ pc[w] \in Moving => at[w] \in Attempts /\ at[w][2] <= started[at[w][1]]
        /\ pc[w] \in Opening => FateOf(at[w]) = "open" /\ outcome[at[w]] = "none"
        /\ pc[w] \in Awaiting /\ outcome[at[w]] = "none" => FateOf(at[w]) = "out"

\* That is what the invariant says of a caller.
LEMMA CallersFates == TypeInv /\ OneCaller /\ CallerState => CalledFates
<1> SUFFICES ASSUME TypeInv, OneCaller, CallerState, NEW w \in Workers, pc[w] \in Moving
             PROVE  /\ at[w] \in Attempts /\ at[w][2] <= started[at[w][1]]
                    /\ pc[w] \in Opening => FateOf(at[w]) = "open" /\ outcome[at[w]] = "none"
                    /\ pc[w] \in Awaiting /\ outcome[at[w]] = "none" => FateOf(at[w]) = "out"
    BY DEF CalledFates, Moving
<1>0. RowsTyped /\ Standing
    BY TypeParts DEF TypeInv
<1>1. at[w] \in Attempts /\ at[w][2] <= started[at[w][1]]
    BY <1>0 DEF Standing, AtAttempt, Steps, Moving, Opening, Awaiting
<1>2. ~(at[w][2] > started[at[w][1]])
    BY <1>0, <1>1, BoundsNat DEF RowsTyped, Attempts
<1>3. pc[w] \in Opening => outcome[at[w]] = "none" /\ Opened(at[w])
    BY DEF CallerState, Opening, Opened
<1>4. pc[w] \in Awaiting => Out(at[w]) /\ ~Opened(at[w])
    BY DEF OneCaller, Opened, Out, Opening, Awaiting, Calling, Billing
<1> QED
    BY <1>1, <1>2, <1>3, <1>4, Zenon DEF FateOf
\* A worker's step ends the run only by completing it, blocking it or leaving it.
LEMMA ActsEnd ==
    ASSUME NEW w \in Workers, Acts(w), ~Complete(w), ~Block(w), ~Leave(w) PROVE status' = status
<1>1. ASSUME Step(w) PROVE status' = status
    <2>1. ASSUME NEW n \in Nodes, Look(w, n) PROVE UNCHANGED run
        BY <2>1, Zenon DEF Look
    <2>2. ASSUME NEW k \in Answers, Call(w, k) PROVE UNCHANGED run
        BY <2>2 DEF Call
    <2>3. CASE Start(w) \/ Reserve(w) \/ TakeHold(w) \/ Check(w) \/ ResendRefused(w)
               \/ MarkOwed(w) \/ Record(w) \/ Reconnect(w)
        BY <2>3 DEF Start, Reserve, TakeHold, Check, ResendRefused, MarkOwed, Record, Reconnect, run
    <2>4. CASE Judge(w) \/ Explain(w) \/ Accept(w) \/ Confirm(w) \/ Again(w)
        <3>1. UNCHANGED run
            BY <2>4, Zenon DEF Judge, Explain, Accept, Confirm, Again
        <3> QED
            BY <3>1 DEF run
    <2> QED
        BY <1>1, <2>1, <2>2, <2>3, <2>4, Zenon DEF Step, run
<1>2. ASSUME Disturb(w) PROVE status' = status
    BY <1>2 DEF Disturb, MarkFails, WriteFails, CutCalling, CutBilling, ReconnectFails,
       ExplainFails, StoreFault, Crash, run
<1>3. ASSUME Claim(w) PROVE status' = status
    BY <1>3 DEF Claim
<1> QED
    BY <1>1, <1>2, <1>3 DEF Acts

\* A worker's step uncovers at most the call it is at, and that only while it is.
LEMMA ActsExpose ==
    ASSUME NEW w \in Workers, Acts(w)
    PROVE  UNCHANGED exposed \/ (pc[w] \in Awaiting /\ Expose(at[w]))
<1>1. ASSUME Step(w) PROVE UNCHANGED exposed
    <2>1. ASSUME NEW n \in Nodes, Look(w, n) PROVE UNCHANGED guards
        BY <2>1, Zenon DEF Look
    <2>2. ASSUME NEW k \in Answers, Call(w, k) PROVE UNCHANGED guards
        BY <2>2 DEF Call
    <2>3. CASE Complete(w) \/ Start(w) \/ Reserve(w) \/ Explain(w) \/ Accept(w) \/ Block(w)
               \/ Again(w) \/ Leave(w)
        BY <2>3 DEF Complete, Start, Reserve, Explain, Accept, Block, Again, Leave, guards
    <2>4. CASE Judge(w) \/ Confirm(w)
        BY <2>4, Zenon DEF Judge, Confirm, guards
    <2>5. CASE TakeHold(w) \/ Check(w) \/ ResendRefused(w) \/ MarkOwed(w) \/ Record(w) \/ Reconnect(w)
        BY <2>5 DEF TakeHold, Check, ResendRefused, MarkOwed, Record, Reconnect
    <2> QED
        BY <1>1, <2>1, <2>2, <2>3, <2>4, <2>5, Zenon DEF Step, guards
<1>2. ASSUME Disturb(w) PROVE UNCHANGED exposed \/ (pc[w] \in Awaiting /\ Expose(at[w]))
    BY <1>2 DEF Disturb, MarkFails, WriteFails, CutCalling, CutBilling, ReconnectFails,
       ExplainFails, StoreFault, Crash, guards, Awaiting
<1>3. ASSUME Claim(w) PROVE UNCHANGED exposed
    BY <1>3 DEF Claim, guards
<1> QED
    BY <1>1, <1>2, <1>3 DEF Acts

-----------------------------------------------------------------------------
(* The abstract steps.                                                     *)

\* A step that moves one fate moves it alone.
LEMMA OneBecomes ==
    ASSUME NEW a \in Attempts, NEW f, FateOf(a)' = f,
           \A b \in Attempts : b # a => FateOf(b)' = FateOf(b)
    PROVE  Promise!Becomes(a, f)
    BY Zenon DEF Fates, Promise!Becomes

\* A step that moves none leaves them all.
LEMMA NoneBecomes ==
    ASSUME \A b \in Attempts : FateOf(b)' = FateOf(b) PROVE Fates' = Fates
    BY Zenon DEF Fates

\* Expose adds the attempt to the uncovered ones, or nothing.
LEMMA Uncovers ==
    ASSUME GuardsTyped, NEW a \in Attempts, Expose(a)
    PROVE  Uncovered' = Uncovered \/ Uncovered' = Uncovered \cup {a}
<1>1. \A b \in Attempts : b # a => exposed'[b] = exposed[b]
    BY DEF Expose, GuardsTyped
<1>2. exposed[a] => exposed'[a]
    BY Zenon DEF Expose, GuardsTyped
<1> QED
    BY <1>1, <1>2 DEF Uncovered

\* The step is one the abstract ledger allows, or one it does not see.
LedgerSeen == Promise!Next \/ UNCHANGED Promise!vars

\* An attempt somebody started is not unused.
LEMMA StartedUsed ==
    ASSUME RowsTyped, NEW a \in Attempts, a[2] <= started[a[1]] PROVE FateOf(a) # "unused"
<1>1. ~(a[2] > started[a[1]])
    BY BoundsNat DEF RowsTyped, Attempts
<1> QED
    BY <1>1, Zenon DEF FateOf

\* One that nobody did is.
LEMMA UnstartedUnused ==
    ASSUME Unstarted, NEW a \in Attempts, a[2] > started[a[1]] PROVE FateOf(a) = "unused"
    BY DEF Unstarted, Untouched, FateOf

\* Nobody is at it; the store's clock runs, or a backend ends.
LEMMA ClockSeen ==
    ASSUME LInv, LInv', Next, NEW a \in Attempts, GhostEnds(a) \/ Age(a) \/ MarkLapses(a)
    PROVE  LedgerSeen
<1>0. RowsTyped /\ GuardsTyped
    BY TypeParts DEF LInv, IInv, TypeInv
<1>1. UNCHANGED <<run, rows, worker>> /\ Expose(a)
    BY DEF GhostEnds, Age, MarkLapses
<1>2. Fates' = Fates /\ status' = status
    BY <1>1, NoneBecomes, Zenon DEF FateOf, Opened, Out, rows, worker, run
<1>3. CASE Uncovered' = Uncovered
    BY <1>2, <1>3 DEF LedgerSeen, Promise!vars
<1>4. CASE Uncovered' # Uncovered
    <2>1. Uncovered' = Uncovered \cup {a}
        BY <1>0, <1>1, <1>4, Uncovers
    <2>2. exposed'[a]
        BY <2>1 DEF Uncovered
    <2>3. ~(a[2] > started'[a[1]])
        BY <2>2 DEF LInv, IInv, Unstarted, Untouched
    <2>4. a[2] <= started[a[1]]
        BY <1>0, <1>1, <2>3, BoundsNat DEF rows, RowsTyped, Attempts
    <2>5. Fates[a] # "unused"
        BY <1>0, <2>4, StartedUsed DEF Fates
    <2>6. Promise!Loosen(a)
        BY <1>2, <2>1, <2>5 DEF Promise!Loosen
    <2> QED
        BY <2>6 DEF LedgerSeen, Promise!Next, Promise!Attempts, Attempts
<1> QED
    BY <1>3, <1>4

\* A new attempt, at a node where none is out, owed or accepted.
LEMMA BeginsSeen ==
    ASSUME LInv, Next, NEW w \in Workers, Begins(w), Acts(w)
    PROVE  LedgerSeen
<1> DEFINE n == Node(w)
<1>0. WorkersTyped /\ RowsTyped /\ Standing
    BY TypeParts DEF LInv, IInv, TypeInv
<1>1. /\ pc[w] = "start" /\ Fence(w) = "OK" /\ ~HasOwner(n) /\ ~BillOwed(n) /\ ~HeldElsewhere(n)
      /\ started[n] # MaxOrdinal
    BY DEF Begins, Start, StartRefusal, Over
<1>2. /\ started' = [started EXCEPT ![n] = @ + 1]
      /\ at' = [at EXCEPT ![w] = <<n, started[n] + 1>>]
      /\ pc' = [pc EXCEPT ![w] = "reserve"]
      /\ UNCHANGED <<run, outcome, explained, accepted, guards>>
    BY DEF Begins, Start, Go
<1>3. n \in Nodes /\ started[n] \in Nat /\ <<n, started[n] + 1>> \in Attempts
    <2>1. n \in Nodes
        BY <1>0, <1>1 DEF Standing, Node
    <2>2. started[n] \in 0..MaxOrdinal /\ MaxOrdinal \in Nat
        BY <1>0, <2>1, BoundsNat DEF RowsTyped
    <2> HIDE DEF n
    <2> QED
        BY <1>1, <2>1, <2>2 DEF Attempts
<1> PICK a \in Attempts : a = <<n, started[n] + 1>>
    BY <1>3
<1>4. status = "RUNNING" /\ status' = status /\ Uncovered' = Uncovered
    BY <1>1, <1>2 DEF Fence, run, guards, Uncovered
<1>5. FateOf(a) = "unused" /\ outcome[a] = "none"
    BY <1>3, UnstartedUnused DEF LInv, IInv, Unstarted, Untouched
<1>6. FateOf(a)' = "open"
    <2>1. Opened(a)'
        BY <1>0, <1>2 DEF Opened, Opening, WorkersTyped
    <2>2. ~(a[2] > started'[a[1]])
        BY <1>0, <1>2, <1>3 DEF RowsTyped
    <2>3. outcome'[a] = "none"
        BY <1>2, <1>5
    <2> QED
        BY <2>1, <2>2, <2>3, Zenon DEF FateOf
<1>7. \A b \in Attempts : b # a => FateOf(b)' = FateOf(b)
    <2>1. at'[w] = a /\ pc[w] \notin Moving \cup {"explain", "settle", "accept"}
        BY <1>0, <1>1, <1>2 DEF WorkersTyped, Moving, Opening, Awaiting
    <2> QED
        BY <2>1, OthersFates DEF LInv, IInv
<1>8. ASSUME NEW b \in Attempts, b[1] = n, b # a
      PROVE  /\ b[2] < a[2] => FateOf(b) # "unused"
             /\ FateOf(b) \notin {"paid", "lost", "accepted"}
             /\ FateOf(b) = "out" => b \in Uncovered
    <2>1. b[2] \in Nat /\ (b[2] < a[2] => b[2] <= started[b[1]])
        BY <1>3, <1>8 DEF Attempts
    <2>2. ASSUME FateOf(b) # "unused" PROVE b \in Of(n)
        <3>1. ~(b[2] > started[b[1]])
            BY <2>2, UnstartedUnused DEF LInv, IInv
        <3> QED
            BY <1>3, <1>8, <2>1, <3>1 DEF Of
    <2>3. FateOf(b) # "accepted"
        BY <1>1, <2>2, Zenon DEF HasOwner, FateOf
    <2>4. FateOf(b) # "paid"
        <3> SUFFICES ASSUME FateOf(b) = "paid" PROVE FALSE
            OBVIOUS
        <3>1. outcome[b] \in Charged \ {"lost"} /\ explained[b] = "none" /\ ~accepted[b]
            BY Zenon DEF FateOf
        <3> QED
            BY <1>1, <2>2, <3>1 DEF BillOwed, Replayable, Unsettled
    <2>5. FateOf(b) # "lost"
        <3> SUFFICES ASSUME FateOf(b) = "lost" PROVE FALSE
            OBVIOUS
        <3>1. outcome[b] = "lost"
            BY Zenon DEF FateOf
        <3>2. Unsettled(b)
            BY <3>1 DEF LInv, IInv, ExplainedRead, OneFate, Unsettled
        <3> QED
            BY <1>1, <2>2, <3>1, <3>2 DEF BillOwed, Unexplained
    <2>6. ASSUME FateOf(b) = "out" PROVE b \in Uncovered
        <3>1. outcome[b] = "none" /\ Out(b)
            BY <2>6, Zenon DEF FateOf, Charged
        <3>2. PICK v \in Workers : at[v] = b /\ pc[v] \in Awaiting
            BY <3>1 DEF Out
        <3>3. reserved[b] = Price /\ (~exposed[b] => Covered(b))
            BY <3>2 DEF LInv, IInv, CallerState, CallCovered, Awaiting, Calling, Billing
        <3>4. ~Covered(b)
            BY <1>1, <2>2, <2>6, <3>1, <3>3, BoundsNat DEF HeldElsewhere, Covered
        <3> QED
            BY <3>3, <3>4 DEF Uncovered
    <2> QED
        BY <1>0, <1>8, <2>1, <2>3, <2>4, <2>5, <2>6, StartedUsed
<1>9. Promise!Becomes(a, "open")
    BY <1>3, <1>6, <1>7, OneBecomes
<1>10. a[1] = n
    OBVIOUS
<1> HIDE DEF n
<1>11. Promise!Try(a)
    <2>1. \A b \in Promise!Beside(a) : b \in Attempts /\ b[1] = n /\ b # a
        BY <1>10 DEF Promise!Beside, Promise!Attempts, Attempts
    <2>2. \A b \in Attempts : Fates[b] = FateOf(b)
        BY DEF Fates
    <2> QED
        BY <1>3, <1>4, <1>5, <1>8, <1>9, <2>1, <2>2 DEF Promise!Try, Promise!Running
<1> QED
    BY <1>3, <1>11 DEF LedgerSeen, Promise!Next, Promise!Attempts, Attempts
\* A call's bill says what it came to: nothing, a charge without its answer, or a paid one.
LEMMA BilledFate ==
    ASSUME RowsTyped, ExplainedRead, OneFate, NEW a \in Attempts, outcome[a] = "none",
           outcome'[a] # "none", explained'[a] = explained[a], accepted'[a] = accepted[a]
    PROVE  FateOf(a)' \in {"free", "lost", "paid"}
<1>1. explained'[a] = "none" /\ ~accepted'[a]
    BY DEF ExplainedRead, OneFate, Charged, RowsTyped
<1> QED
    BY <1>1, Zenon DEF FateOf

\* What its rows say of a billed attempt is its fate, wherever its caller is.
LEMMA BilledStays ==
    ASSUME NEW a \in Attempts, outcome[a] # "none", outcome'[a] = outcome[a],
           explained'[a] = explained[a], accepted'[a] = accepted[a]
    PROVE  FateOf(a)' = FateOf(a)
    BY Zenon DEF FateOf

\* An attempt's caller opens it, calls, bills or gives up; what it changes else is its cover.
LEMMA CallerSeen ==
    ASSUME LInv, LInv', Next, NEW w \in Workers, Acts(w), pc[w] \in Moving
    PROVE  LedgerSeen
<1>0. WorkersTyped /\ RowsTyped /\ GuardsTyped /\ Standing
    BY TypeParts DEF LInv, IInv, TypeInv
<1>1. PICK a \in Attempts : a = at[w]
    BY CallersFates DEF CalledFates, LInv, IInv
<1>2. a[2] <= started[a[1]] /\ FateOf(a) # "unused"
    BY <1>0, <1>1, CallersFates, StartedUsed DEF CalledFates, LInv, IInv
<1>3. Moving \subseteq Calling /\ ~Begins(w)
    BY DEF Moving, Opening, Awaiting, Calling, Billing, Begins, Start
<1>4. pc'[w] \in Moving => at'[w] = a
    BY <1>1, <1>3, CallingFrom DEF LInv, IInv
<1>5. \A b \in Attempts : b # a => FateOf(b)' = FateOf(b)
    BY <1>1, <1>4, OthersFates DEF LInv, IInv
<1>6. explained'[a] = explained[a] /\ accepted'[a] = accepted[a]
    <2>1. \A v \in Workers : ~Explains(v) /\ ~Accepts(v)
        <3> SUFFICES ASSUME NEW v \in Workers, Explains(v) \/ Accepts(v) PROVE FALSE
            OBVIOUS
        <3>1. v = w
            BY ActorWrites DEF LInv, IInv, Writes
        <3> QED
            BY <3>1 DEF Explains, Explain, Accepts, Accept, Moving, Opening, Awaiting
    <2>2. \A v \in Workers : Reserves(v) \/ Bills(v) => UNCHANGED <<explained, accepted>>
        BY DEF Reserves, Reserve, Bills, Record, CutBilling
    <2> QED
        BY <2>1, <2>2, RowsAt DEF LInv, IInv
<1>7. status' = status
    <2>1. ~Complete(w) /\ ~Block(w) /\ ~Leave(w)
        BY DEF Complete, Block, Leave, Moving, Opening, Awaiting
    <2> QED
        BY <2>1, ActsEnd
<1>8. Uncovered' = Uncovered \/ Uncovered' = Uncovered \cup {a}
    <2>1. CASE UNCHANGED exposed
        BY <2>1 DEF Uncovered
    <2>2. CASE Expose(a)
        BY <1>0, <2>2, Uncovers
    <2> QED
        BY <1>1, <2>1, <2>2, ActsExpose
<1>9. Fates[a] = FateOf(a) /\ a \in Promise!Attempts
    BY DEF Fates, Promise!Attempts, Attempts
<1>10. CASE FateOf(a)' = FateOf(a)
    <2>1. Fates' = Fates
        BY <1>5, <1>10, NoneBecomes
    <2>2. CASE Uncovered' = Uncovered
        BY <1>7, <2>1, <2>2 DEF LedgerSeen, Promise!vars
    <2>3. CASE Uncovered' = Uncovered \cup {a}
        <3>1. Promise!Loosen(a)
            BY <1>2, <1>7, <1>9, <2>1, <2>3 DEF Promise!Loosen
        <3> QED
            BY <1>9, <3>1 DEF LedgerSeen, Promise!Next
    <2> QED
        BY <1>8, <2>2, <2>3
<1>11. CASE outcome[a] = "none" /\ outcome'[a] # "none"
    <2>1. Bills(w)
        BY <1>1, <1>3, <1>11, CallerRows DEF LInv, IInv, Reserves, Reserve
    <2>2. FateOf(a) = "out"
        BY <1>1, <1>11, <2>1, CallersFates DEF CalledFates, LInv, IInv, Bills, Awaiting
    <2>3. PICK f \in {"free", "lost", "paid"} : FateOf(a)' = f
        BY <1>0, <1>6, <1>11, BilledFate DEF LInv, IInv
    <2>4. Promise!Becomes(a, f)
        BY <1>5, <2>3, OneBecomes
    <2>5. Promise!Bill(a)
        BY <1>7, <1>8, <1>9, <2>2, <2>4 DEF Promise!Bill
    <2> QED
        BY <1>9, <2>5 DEF LedgerSeen, Promise!Next
<1>12. CalledFates /\ CalledFates'
    <2>1. (TypeInv /\ OneCaller /\ CallerState => CalledFates)'
        BY CallersFates, PTL
    <2> QED
        BY <2>1, CallersFates DEF LInv, IInv
<1>13. CASE outcome[a] = "none" /\ outcome'[a] = "none" /\ pc'[w] \in Moving
    <2>1. /\ pc[w] \in Opening => FateOf(a) = "open"
          /\ pc[w] \in Awaiting => FateOf(a) = "out"
        BY <1>1, <1>12, <1>13 DEF CalledFates
    <2>2. /\ pc'[w] \in Opening => FateOf(a)' = "open"
          /\ pc'[w] \in Awaiting => FateOf(a)' = "out"
        BY <1>4, <1>12, <1>13 DEF CalledFates
    <2>3. CASE pc[w] \in Opening <=> pc'[w] \in Opening
        BY <1>10, <1>13, <2>1, <2>2, <2>3 DEF Moving
    <2>4. CASE ~(pc[w] \in Opening <=> pc'[w] \in Opening)
        <3>1. \/ pc'[w] = pc[w]
              \/ Reserves(w) \/ TakeHold(w) \/ Check(w) \/ \E k \in Answers : Call(w, k)
              \/ MarkOwed(w) \/ Record(w) \/ Reconnect(w)
              \/ MarkFails(w) \/ WriteFails(w) \/ CutBilling(w)
            BY <1>3, <1>13, CallerPath DEF LInv, IInv
        <3>2. pc'[w] # pc[w]
            BY <2>4
        <3>3. ~Reserves(w) /\ ~TakeHold(w)
            <4>1. Reserves(w) => pc[w] = "reserve" /\ Go(w, "hold")
                BY Zenon DEF Reserves, Reserve
            <4> QED
                BY <1>0, <2>4, <4>1 DEF TakeHold, Go, Opening, WorkersTyped
        <3>4. \A k \in Answers : ~Call(w, k)
            BY <1>0, <2>4 DEF Call, Go, Opening, WorkersTyped
        <3>5. ~MarkOwed(w) /\ ~Record(w) /\ ~Reconnect(w) /\ ~MarkFails(w)
            BY <1>0, <2>4 DEF MarkOwed, Record, Reconnect, MarkFails, Go, Opening, WorkersTyped
        <3>6. ~WriteFails(w) /\ ~CutBilling(w)
            BY <1>0, <2>4 DEF WriteFails, CutBilling, FailedTry, Refuse, Go, Opening, WorkersTyped
        <3>7. Check(w)
            BY <3>1, <3>2, <3>3, <3>4, <3>5, <3>6
        <3>8. pc[w] = "check" /\ Holds(w) /\ UNCHANGED exposed /\ pc'[w] \in Awaiting
            BY <1>0, <1>13, <2>4, <3>7 DEF Check, Refuse, Go, Moving, Opening, Awaiting, WorkersTyped
        <3>9. status = "RUNNING"
            BY <3>8, TypeParts DEF LInv, IInv, TypeInv, RunTyped, Holds
        <3>10. a[2] = started[a[1]]
            BY <1>1, <3>8 DEF LInv, IInv, HolderNewest
        <3>11. \A b \in Attempts : b[1] = a[1] /\ b[2] > a[2] => Fates[b] = "unused"
            BY <3>10, UnstartedUnused DEF LInv, IInv, Fates
        <3>12. \A b \in Promise!Beside(a) : b \in Attempts /\ b[1] = a[1]
            BY DEF Promise!Beside, Promise!Attempts, Attempts
        <3>13. Promise!Becomes(a, "out")
            BY <1>5, <2>2, <3>8, OneBecomes
        <3>14. Uncovered' = Uncovered
            BY <3>8 DEF Uncovered
        <3>15. FateOf(a) = "open"
            BY <2>1, <3>8 DEF Opening
        <3>16. Promise!CallOut(a)
            BY <1>7, <1>9, <3>9, <3>11, <3>12, <3>13, <3>14, <3>15 DEF Promise!CallOut, Promise!Running
        <3> QED
            BY <1>9, <3>16 DEF LedgerSeen, Promise!Next
    <2> QED
        BY <2>3, <2>4
<1>14. CASE outcome[a] = "none" /\ outcome'[a] = "none" /\ pc'[w] \notin Moving
    <2>1. FateOf(a) \in {"open", "out"}
        BY <1>1, <1>12, <1>14 DEF CalledFates, Moving
    <2>2. \A v \in Workers : at'[v] = a => pc'[v] \notin Moving
        <3> SUFFICES ASSUME NEW v \in Workers, v # w, at'[v] = a, pc'[v] \in Moving PROVE FALSE
            BY <1>14
        <3>1. pc[v] \in Moving /\ at[v] = at[w]
            BY <1>0, <1>1, OthersStay DEF Acts
        <3> QED
            BY <1>3, <3>1 DEF LInv, IInv, OneCaller
    <2>3. ~Opened(a)' /\ ~Out(a)'
        BY <2>2 DEF Opened, Out, Moving
    <2>4. ~(a[2] > started'[a[1]])
        BY <1>0, <1>2, StartedGrows, BoundsNat DEF LInv, IInv, RowsTyped, Attempts
    <2>5. FateOf(a)' = "dark"
        BY <1>14, <2>3, <2>4, Zenon DEF FateOf
    <2>6. Promise!Becomes(a, "dark")
        BY <1>5, <2>5, OneBecomes
    <2>7. Uncovered' = Uncovered
        <3>1. ~InFlight(a)'
            BY <1>0, <1>1, <1>14, <2>2 DEF InFlight, Moving, Opening, Awaiting
        <3>2. CASE UNCHANGED exposed
            BY <3>2 DEF Uncovered
        <3>3. CASE Expose(a)
            BY <1>0, <3>1, <3>3 DEF Expose, Uncovered, GuardsTyped
        <3> QED
            BY <1>1, <3>2, <3>3, ActsExpose
    <2>8. Promise!GiveUp(a)
        BY <1>7, <1>9, <2>1, <2>6, <2>7 DEF Promise!GiveUp
    <2> QED
        BY <1>9, <2>8 DEF LedgerSeen, Promise!Next
<1>15. CASE outcome[a] # "none"
    BY <1>6, <1>10, <1>15, BilledStays, OutcomeStands DEF LInv, IInv
<1> QED
    BY <1>11, <1>13, <1>14, <1>15
\* Who completes has every node's answer accepted, who blocks one that was paid.
LEMMA EndSeen ==
    ASSUME LInv, NEW w \in Workers, Complete(w) \/ Block(w) \/ Leave(w), Fates' = Fates,
           Uncovered' = Uncovered
    PROVE  LedgerSeen
<1>0. RunTyped /\ Standing
    BY TypeParts DEF LInv, IInv, TypeInv
<1>1. CASE status' = status
    BY <1>1 DEF LedgerSeen, Promise!vars
<1>2. CASE Complete(w) /\ status' # status
    <2>1. (\A n \in Nodes : HasOwner(n)) /\ Fence(w) = "OK" /\ status' = "COMPLETE"
        BY <1>2 DEF Complete, EndRun, run
    <2>2. status = "RUNNING"
        BY <2>1 DEF Fence
    <2>3. \A n \in Nodes : \E a \in Attempts : a[1] = n /\ Fates[a] = "accepted"
        <3> SUFFICES ASSUME NEW n \in Nodes PROVE \E a \in Attempts : a[1] = n /\ Fates[a] = "accepted"
            OBVIOUS
        <3>1. PICK a \in Attempts : a[1] = n /\ accepted[a]
            BY <2>1 DEF HasOwner, Of
        <3>2. outcome[a] \in Charged \ {"lost"} /\ explained[a] = "none"
            BY <3>1 DEF LInv, IInv, OneFate
        <3>3. outcome[a] # "none"
            BY <3>2 DEF Charged
        <3>4. FateOf(a) = "accepted"
            BY <3>1, <3>2, <3>3, Zenon DEF FateOf
        <3> QED
            BY <3>1, <3>4 DEF Fates
    <2>4. Promise!End("COMPLETE")
        BY <2>1, <2>2, <2>3 DEF Promise!End, Promise!Running, Promise!Attempts, Attempts
    <2> QED
        BY <2>4 DEF LedgerSeen, Promise!Next
<1>3. CASE Block(w) /\ status' # status
    <2>1. pc[w] = "block" /\ Fence(w) = "OK" /\ status' = "BLOCKED"
        BY <1>3 DEF Block, EndRun, run
    <2>2. status = "RUNNING" /\ Holds(w)
        BY <2>1 DEF Fence
    <2>3. at[w] \in Attempts
        BY <1>0, <2>1 DEF Standing, AtAttempt, Steps
    <2>4. outcome[at[w]] \in Charged \ {"lost"} /\ Unsettled(at[w])
        BY <2>1, <2>2 DEF LInv, Deciding, Decides
    <2>5. FateOf(at[w]) = "paid"
        <3>1. outcome[at[w]] # "none"
            BY <2>4 DEF Charged
        <3> QED
            BY <2>4, <3>1, Zenon DEF FateOf, Unsettled
    <2>6. Promise!End("BLOCKED")
        BY <2>1, <2>2, <2>3, <2>5 DEF Promise!End, Promise!Running, Promise!Attempts, Attempts, Fates
    <2> QED
        BY <2>6 DEF LedgerSeen, Promise!Next
<1>4. CASE Leave(w) /\ status' # status
    <2>1. Holds(w) /\ status' = "CANCELLED"
        BY <1>4 DEF Leave, Park, EndRun, run
    <2>2. status = "RUNNING"
        BY <1>0, <2>1 DEF RunTyped, Holds
    <2>3. Promise!End("CANCELLED")
        BY <2>1, <2>2 DEF Promise!End, Promise!Running
    <2> QED
        BY <2>3 DEF LedgerSeen, Promise!Next
<1> QED
    BY <1>1, <1>2, <1>3, <1>4

\* The holder explains what was paid and is not decided.
LEMMA ExplainsSeen ==
    ASSUME LInv, Next, NEW w \in Workers, Acts(w), Explains(w)
    PROVE  LedgerSeen
<1>0. RunTyped /\ RowsTyped /\ WorkersTyped /\ Standing
    BY TypeParts DEF LInv, IInv, TypeInv
<1>1. /\ pc[w] \in {"explain", "settle"} /\ Holds(w) /\ Write(w) /\ pc' = [pc EXCEPT ![w] = "refused"]
      /\ UNCHANGED <<run, started, outcome, accepted, guards>>
    BY DEF Explains, Explain, Go
<1>2. PICK a \in Attempts : a = at[w]
    BY <1>0, <1>1 DEF Standing, AtAttempt, Steps
<1>3. /\ outcome[a] \notin {"none", "lost"} /\ explained[a] = "none" /\ ~accepted[a]
      /\ code[w] # "none"
    <2>1. code[w] \in Explanations
        BY <1>0, <1>1 DEF Standing
    <2> QED
        BY <1>1, <1>2, <2>1 DEF LInv, IInv, Deciding, Decides, HolderSettles, Unsettled, Explanations, Over
<1>4. status = "RUNNING" /\ status' = status /\ Uncovered' = Uncovered
    BY <1>0, <1>1 DEF RunTyped, Holds, run, guards, Uncovered
<1>5. \A b \in Attempts : b # a => FateOf(b)' = FateOf(b)
    <2>1. pc'[w] \notin Moving
        BY <1>0, <1>1 DEF WorkersTyped, Moving, Opening, Awaiting
    <2> QED
        BY <1>2, <2>1, OthersFates DEF LInv, IInv
<1>6. explained'[a] # "none" /\ outcome'[a] = outcome[a]
    BY <1>0, <1>1, <1>2, <1>3 DEF Write, RowsTyped
<1>7. CASE outcome[a] \notin Charged
    <2>1. FateOf(a)' = FateOf(a)
        BY <1>3, <1>6, <1>7, Zenon DEF FateOf
    <2> QED
        BY <1>4, <1>5, <2>1, NoneBecomes DEF LedgerSeen, Promise!vars
<1>8. CASE outcome[a] \in Charged
    <2>1. FateOf(a) = "paid" /\ FateOf(a)' = "refused"
        BY <1>3, <1>6, <1>8, Zenon DEF FateOf
    <2>2. Promise!Refuse(a)
        BY <1>4, <1>5, <2>1, OneBecomes DEF Promise!Refuse, Promise!Running, Fates
    <2> QED
        BY <2>2 DEF LedgerSeen, Promise!Next, Promise!Attempts, Attempts
<1> QED
    BY <1>7, <1>8

\* The holder accepts what was paid, at a node with nothing accepted.
LEMMA AcceptsSeen ==
    ASSUME LInv, Next, NEW w \in Workers, Acts(w), Accepts(w)
    PROVE  LedgerSeen
<1>0. RunTyped /\ RowsTyped /\ WorkersTyped /\ Standing
    BY TypeParts DEF LInv, IInv, TypeInv
<1>1. /\ pc[w] = "accept" /\ Holds(w) /\ ~HasOwner(Node(w)) /\ Own(w)
      /\ UNCHANGED <<run, started, outcome, explained, guards>>
    BY Zenon DEF Accepts, Accept
<1>2. PICK a \in Attempts : a = at[w]
    BY <1>0, <1>1 DEF Standing, AtAttempt, Steps
<1>3. outcome[a] \in Charged \ {"lost"} /\ explained[a] = "none" /\ ~accepted[a]
    BY <1>1, <1>2 DEF LInv, IInv, CallerState, HolderSettles, Unsettled
<1>4. status = "RUNNING" /\ status' = status /\ Uncovered' = Uncovered
    BY <1>0, <1>1 DEF RunTyped, Holds, run, guards, Uncovered
<1>5. \A b \in Attempts : b # a => FateOf(b)' = FateOf(b)
    <2>1. pc'[w] \notin Moving
        BY <1>0, <1>1 DEF Own, Go, WorkersTyped, Moving, Opening, Awaiting
    <2> QED
        BY <1>2, <2>1, OthersFates DEF LInv, IInv
<1>6. accepted'[a] /\ outcome'[a] = outcome[a] /\ explained'[a] = "none"
    BY <1>0, <1>1, <1>2, <1>3 DEF Own, RowsTyped
<1>7. FateOf(a) = "paid" /\ FateOf(a)' = "accepted"
    <2>1. outcome[a] # "none"
        BY <1>3 DEF Charged
    <2> QED
        BY <1>3, <1>6, <2>1, Zenon DEF FateOf
<1>8. \A b \in Promise!Beside(a) : Fates[b] # "accepted"
    <2> SUFFICES ASSUME NEW b \in Attempts, b[1] = a[1], FateOf(b) = "accepted" PROVE FALSE
        BY DEF Promise!Beside, Promise!Attempts, Attempts, Fates
    <2>1. accepted[b] /\ ~(b[2] > started[b[1]])
        BY UnstartedUnused, Zenon DEF FateOf, LInv, IInv
    <2>2. b \in Of(Node(w))
        BY <1>0, <1>2, <2>1, BoundsNat DEF Of, Node, RowsTyped, Attempts
    <2> QED
        BY <1>1, <2>1, <2>2 DEF HasOwner
<1>9. Promise!Becomes(a, "accepted")
    BY <1>5, <1>7, OneBecomes
<1>10. Promise!Accept(a)
    BY <1>4, <1>7, <1>8, <1>9 DEF Promise!Accept, Promise!Running, Fates
<1> QED
    BY <1>10 DEF LedgerSeen, Promise!Next, Promise!Attempts, Attempts

\* A worker's step is one the abstract ledger allows, or one it does not see.
LEMMA ActorSeen ==
    ASSUME LInv, LInv', Next, NEW w \in Workers, Acts(w)
    PROVE  LedgerSeen
<1>1. CASE pc[w] \in Moving
    BY <1>1, CallerSeen
<1>2. CASE Begins(w)
    BY <1>2, BeginsSeen
<1>3. CASE Explains(w)
    BY <1>3, ExplainsSeen
<1>4. CASE Accepts(w)
    BY <1>4, AcceptsSeen
<1>5. CASE pc[w] \notin Moving /\ ~Writes(w)
    <2>1. Uncovered' = Uncovered
        BY <1>5, ActsExpose DEF Moving, Uncovered
    <2>2. UNCHANGED <<started, outcome, explained, accepted>>
        BY <1>5, ActorWrites, RowsMove DEF LInv, IInv, Writes
    <2>3. pc'[w] \notin Moving
        <3> SUFFICES ASSUME pc'[w] \in Moving PROVE FALSE
            OBVIOUS
        <3>1. pc'[w] \in Calling /\ pc'[w] # "judge"
            BY DEF Moving, Opening, Awaiting, Calling, Billing
        <3>2. pc[w] \in Calling
            BY <1>5, <3>1, CallingFrom DEF LInv, IInv, Writes
        <3>3. pc[w] = "judge"
            BY <1>5, <3>2 DEF Moving, Opening, Awaiting, Calling, Billing
        <3>4. \A k \in Answers : ~Call(w, k)
            BY <3>3 DEF Call
        <3>5. ~(Reserves(w) \/ TakeHold(w) \/ Check(w) \/ MarkOwed(w) \/ Record(w) \/ Reconnect(w)
                \/ MarkFails(w) \/ WriteFails(w) \/ CutBilling(w))
            BY <3>3 DEF Reserves, Reserve, TakeHold, Check, MarkOwed, Record, Reconnect, MarkFails,
               WriteFails, CutBilling
        <3> QED
            BY <3>1, <3>2, <3>3, <3>4, <3>5, CallerPath DEF LInv, IInv
    <2>4. \A b \in Attempts : FateOf(b)' = FateOf(b)
        <3> SUFFICES ASSUME NEW b \in Attempts PROVE FateOf(b)' = FateOf(b)
            OBVIOUS
        <3>1. \A v \in Workers : v # w => pc'[v] = pc[v] /\ at'[v] = at[v]
            BY TypeParts, OthersStay DEF LInv, IInv, TypeInv, Acts
        <3>2. Opened(b)' = Opened(b) /\ Out(b)' = Out(b)
            BY <1>5, <2>3, <3>1 DEF Opened, Out, Moving
        <3> QED
            BY <2>2, <3>2, Zenon DEF FateOf
    <2>5. Fates' = Fates
        BY <2>4, NoneBecomes
    <2>6. CASE Complete(w) \/ Block(w) \/ Leave(w)
        BY <2>1, <2>5, <2>6, EndSeen
    <2>7. CASE ~Complete(w) /\ ~Block(w) /\ ~Leave(w)
        BY <2>1, <2>5, <2>7, ActsEnd DEF LedgerSeen, Promise!vars
    <2> QED
        BY <2>6, <2>7
<1>6. Reserves(w) \/ Bills(w) => pc[w] \in Moving
    BY DEF Reserves, Reserve, Bills, Moving, Opening, Awaiting
<1> QED
    BY <1>1, <1>2, <1>3, <1>4, <1>5, <1>6 DEF Writes

\* So is a step of the queue's: a retry nobody sees, a cancel may end the run.
LEMMA QueueSeen ==
    ASSUME LInv, Retry \/ Cancel PROVE LedgerSeen
<1>1. UNCHANGED <<rows, guards, worker>>
    BY DEF Retry, Cancel
<1>2. Fates' = Fates /\ Uncovered' = Uncovered
    BY <1>1, NoneBecomes, Zenon DEF FateOf, Opened, Out, Uncovered, rows, guards, worker
<1>3. status' = status \/ (status = "RUNNING" /\ status' = "CANCELLED")
    BY DEF Retry, Cancel
<1>4. CASE status' = status
    BY <1>2, <1>4 DEF LedgerSeen, Promise!vars
<1>5. CASE status = "RUNNING" /\ status' = "CANCELLED"
    <2>1. Promise!End("CANCELLED")
        BY <1>2, <1>5 DEF Promise!End, Promise!Running
    <2> QED
        BY <2>1 DEF LedgerSeen, Promise!Next
<1> QED
    BY <1>3, <1>4, <1>5

\* At first no attempt is begun, and none uncovered.
LEMMA LedgerInitSeen == Init => Promise!Init
<1> SUFFICES ASSUME Init PROVE Promise!Init
    OBVIOUS
<1>1. \A a \in Attempts : FateOf(a) = "unused"
    BY DEF Init, FateOf, Attempts
<1>2. Fates = [a \in Promise!Attempts |-> "unused"]
    BY <1>1, Zenon DEF Fates, Promise!Attempts, Attempts
<1>3. Uncovered = {}
    BY DEF Init, Uncovered
<1> QED
    BY <1>2, <1>3 DEF Init, Promise!Init

\* The ledger that workers keep under leases, holds and marks, each of which a crash, a cut
\* or a lapse may take, moves every attempt only as the abstract one does: called for
\* once, billed once, decided once, and its node tried again only past what is out, owed or
\* accepted (start_attempt, call_hold, record_outcome, record_refusal, accept_attempt).
THEOREM LedgerPromiseKept == Spec => KeepsLedger
<1>1. LInv /\ LInv' /\ [Next]_vars => [Promise!Next]_(Promise!vars)
    <2> SUFFICES ASSUME LInv, LInv', [Next]_vars PROVE LedgerSeen
        BY DEF LedgerSeen
    <2>1. CASE UNCHANGED vars
        <3>1. UNCHANGED <<run, rows, guards, worker>>
            BY <2>1 DEF vars
        <3>2. Fates' = Fates /\ Uncovered' = Uncovered /\ status' = status
            BY <3>1, NoneBecomes, Zenon DEF FateOf, Opened, Out, Uncovered, run, rows, guards, worker
        <3> QED
            BY <3>2 DEF LedgerSeen, Promise!vars
    <2>2. CASE Next
        BY <2>2, ActorSeen, QueueSeen, ClockSeen, Zenon DEF Next, Acts
    <2> QED
        BY <2>1, <2>2
<1> QED
    BY <1>1, LedgerInvariant, LedgerInitSeen, PTL DEF Spec, KeepsLedger, Promise!Spec
=============================================================================
