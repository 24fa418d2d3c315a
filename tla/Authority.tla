----------------------------- MODULE Authority -----------------------------
(***************************************************************************)
(* The authority a conclusion rests on (caos/store/gates.py,               *)
(* source_sets.py, run_inputs.py, api/commands/runs.py, execution.py): the *)
(* live sources of a case are snapshot into a set, a run pins the set and  *)
(* the build, approvers release its gates over the preview they were       *)
(* shown, and a worker accepts answers while a source may be withdrawn, an *)
(* approver lose its standing, or another build be deployed.               *)
(*                                                                         *)
(* Everything is one case's.  A unit takes the case lock, decides and      *)
(* commits; what needs no lock happens in between.  Receipts and the audit *)
(* chain are Governed's, leases and tokens RunQueue's, the paid call       *)
(* CallLedger's: here a lease is its holder, and a call a step.            *)
(***************************************************************************)
EXTENDS Naturals, Sequences, FiniteSets

CONSTANTS
    Users,
    Sources,            \* source ids, in their order
    Document, Output,   \* of each source: what was admitted, what was extracted
    Runs,
    Nodes,              \* how many nodes the pinned route has
    Builds,
    Workers, BuildOf,   \* each worker process is of one build for its life
    Places,             \* MAX_QUEUED_RUNS_PER_ACTOR
    MaxFaults,          \* bounds the disturbances
    None

Rank == [NONE |-> 0, WRITER |-> 1, APPROVER |-> 2]
Gate == {"SOURCE_SET", "RESEARCH_PLAN"}

ASSUME SourcesOrdered == Sources \subseteq Nat
ASSUME SourcesDescribed == DOMAIN Document = Sources /\ DOMAIN Output = Sources
ASSUME WorkersBuilt == BuildOf \in [Workers -> Builds]
ASSUME SizesAre == Nodes \in Nat \ {0} /\ Places \in Nat \ {0} /\ MaxFaults \in Nat
ASSUME NoneIsNothing == None \notin Users \cup Sources \cup Runs \cup Builds \cup Workers

VARIABLES
    standing,   \* case_members
    source,     \* sources: not admitted, live or withdrawn
    sets,       \* source_set_versions: the members of each version
    status, supersedes, accepted,   \* runs, and how many nodes are accepted
    pin,        \* run_inputs
    gates,      \* run_gates
    work, place, cancel, stop, holder, lapsed,  \* run_work
    shown,      \* the preview each user last read
    pass,       \* each worker's pass: its run and its step
    unit,       \* what the unit that holds the case lock is about to commit
    faults

inputs == <<sets, pin>>
queue == <<work, place, cancel, stop, holder, lapsed>>
runs == <<status, supersedes, accepted>>
vars == <<standing, source, inputs, runs, gates, queue, shown, pass, unit, faults>>

Live == {s \in Sources : source[s] = "LIVE"}
Created == {r \in Runs : status[r] # "NEW"}
Satisfies(u, floor) == Rank[standing[u]] >= Rank[floor]

Pins == [version : Nat \ {0}, build : Builds]
Previews == [run : Runs, gate : Gate, pin : Pins]
Idle == [run |-> None, step |-> "idle"]

TypeOK ==
    /\ standing \in [Users -> DOMAIN Rank]
    /\ source \in [Sources -> {"NEW", "LIVE", "WITHDRAWN"}]
    /\ sets \in Seq((SUBSET Sources) \ {{}})
    /\ status \in [Runs -> {"NEW", "RUNNING", "COMPLETE", "BLOCKED", "CANCELLED"}]
    /\ supersedes \in [Runs -> Runs \cup {None}]
    /\ accepted \in [Runs -> 0..Nodes]
    /\ pin \in [Runs -> Pins \cup {None}]
    /\ \A r \in Runs : pin[r] # None => pin[r].version <= Len(sets)
    /\ gates \in [Runs -> [Gate -> [preview : Previews, by : Users] \cup {None}]]
    /\ work \in [Runs -> {"NONE", "QUEUED", "CLAIMED", "STOPPED", "DONE"}]
    /\ place \in [Runs -> Users \cup {None}]
    /\ cancel \in [Runs -> BOOLEAN] /\ lapsed \in [Runs -> BOOLEAN]
    /\ stop \in [Runs -> {"NONE", "OTHER", "OVER"}]
    /\ holder \in [Runs -> Workers \cup {None}]
    /\ shown \in [Users -> Previews \cup {None}]
    /\ pass \in [Workers -> [run : Runs \cup {None},
                             step : {"idle", "read", "call", "accept", "end", "park"}]]
    /\ unit # None => {"do", "by", "run", "on"} = DOMAIN unit
    /\ faults \in 0..MaxFaults

Init ==
    /\ standing \in [Users -> DOMAIN Rank \ {"NONE"}]
    /\ source = [s \in Sources |-> "NEW"]
    /\ sets = <<>>
    /\ status = [r \in Runs |-> "NEW"] /\ supersedes = [r \in Runs |-> None]
    /\ accepted = [r \in Runs |-> 0]
    /\ pin = [r \in Runs |-> None]
    /\ gates = [r \in Runs |-> [g \in Gate |-> None]]
    /\ work = [r \in Runs |-> "NONE"] /\ place = [r \in Runs |-> None]
    /\ cancel = [r \in Runs |-> FALSE] /\ stop = [r \in Runs |-> "NONE"]
    /\ holder = [r \in Runs |-> None] /\ lapsed = [r \in Runs |-> FALSE]
    /\ shown = [u \in Users |-> None]
    /\ pass = [w \in Workers |-> Idle]
    /\ unit = None
    /\ faults = 0

-----------------------------------------------------------------------------
(* What is read of a run's authority.                                      *)

Members(r) == sets[pin[r].version]

\* _historical_preview: bound to the run, the gate and the whole pin.
Preview(r, g) == [run |-> r, gate |-> g, pin |-> pin[r]]

\* _sources_live: every member the pin captured is still live.
SourcesLive(r) == Members(r) \subseteq Live

\* _approved: released over this very preview, by one who is an approver still.
Approved(r, g) ==
    /\ gates[r][g] # None
    /\ gates[r][g].preview = Preview(r, g)
    /\ Satisfies(gates[r][g].by, "APPROVER")

\* The first check that refuses, in the order the code makes them.
FirstRefusal(checks) ==
    LET hit == {i \in DOMAIN checks : checks[i][1]} IN
    IF hit = {} THEN "OK" ELSE checks[CHOOSE i \in hit : \A j \in hit : i <= j][2]

\* approved_run_input
AuthorityCode(r) ==
    IF status[r] # "RUNNING" THEN "RUN_NOT_RUNNING"
    ELSE IF pin[r] = None THEN "RUN_INPUT_INVALID"
    ELSE FirstRefusal(<<
        <<~SourcesLive(r), "EVIDENCE_NOT_AVAILABLE">>,
        <<\E g \in Gate : ~Approved(r, g), "GATE_APPROVAL_MISMATCH">> >>)

\* execution_input: and the process is of the pinned build.
ExecutionCode(r, b) ==
    IF AuthorityCode(r) # "OK" THEN AuthorityCode(r)
    ELSE IF pin[r].build # b THEN "RUN_INPUT_INVALID" ELSE "OK"

\* pinned_sources: the captured members that still serve, by document, lowest id
\* first and none where they differ; and the documents withdrawn with no copy left.
Copies(r, d) == {s \in Members(r) \cap Live : Document[s] = d}
Serving(r) ==
    [d \in {Document[s] : s \in Members(r) \cap Live} |->
        IF Cardinality({Output[s] : s \in Copies(r, d)}) = 1
        THEN CHOOSE s \in Copies(r, d) : \A t \in Copies(r, d) : s <= t
        ELSE None]
Gone(r) == {Document[s] : s \in Members(r) \ Live} \ DOMAIN Serving(r)

\* Mutant: the lowest id is cited, withdrawn or not.
CitedFirst(r, d) ==
    LET named == {s \in Members(r) : Document[s] = d} IN
    CHOOSE s \in named : \A t \in named : s <= t

\* cited_source_ids: a live source before a withdrawn one, then the lowest id.
Cited(r, d) ==
    LET named == {s \in Members(r) : Document[s] = d}
        best == IF named \cap Live # {} THEN named \cap Live ELSE named
    IN CHOOSE s \in best : \A t \in best : s <= t

-----------------------------------------------------------------------------
(* The commands: what each answers, and what it writes.                    *)

Request(do, by, run, on) == [do |-> do, by |-> by, run |-> run, on |-> on]

Approvals == {"APPROVE"}
Floor(q) == IF q.do \in Approvals THEN "APPROVER" ELSE "WRITER"

PlacesOf(u) == {r \in Runs : place[r] = u /\ work[r] \in {"QUEUED", "CLAIMED"}}
Full(u) == Cardinality(PlacesOf(u)) >= Places

Successors(r) == {x \in Runs : supersedes[x] = r}

\* Mutant: a blocked run may be answered again.
CreateTwice(q) ==
    IF q.on = None THEN "OK"
    ELSE FirstRefusal(<<
        <<status[q.on] = "NEW", "RUN_NOT_FOUND">>,
        <<status[q.on] # "BLOCKED", "RUN_NOT_BLOCKED">> >>)

\* _require_answerable and runs_one_successor
CreateCode(q) ==
    IF q.on = None THEN "OK"
    ELSE FirstRefusal(<<
        <<status[q.on] = "NEW", "RUN_NOT_FOUND">>,
        <<status[q.on] # "BLOCKED", "RUN_NOT_BLOCKED">>,
        <<Successors(q.on) # {}, "RUN_ALREADY_SUPERSEDED">> >>)

\* pin_input, snapshot_in and pin_run_input_in
PinCode(q) == FirstRefusal(<<
    <<pin[q.run] # None, "RUN_INPUT_ALREADY_PINNED">>,
    <<Live = {}, "SOURCE_PACK_EMPTY">>,
    <<status[q.run] # "RUNNING", "RUN_NOT_RUNNING">> >>)

\* Mutant: the fingerprint alone is compared, which both gates of a run share.
ApproveFingerprint(q) ==
    IF pin[q.run] = None THEN "RUN_INPUT_NOT_PINNED"
    ELSE FirstRefusal(<<
        <<status[q.run] # "RUNNING", "RUN_NOT_RUNNING">>,
        <<q.on[2].pin # pin[q.run], "GATE_APPROVAL_MISMATCH">>,
        <<~SourcesLive(q.run), "EVIDENCE_NOT_AVAILABLE">> >>)

\* approve and release_gate_in: q.on is the gate and the preview submitted.
ApproveCode(q) ==
    IF pin[q.run] = None THEN "RUN_INPUT_NOT_PINNED"
    ELSE FirstRefusal(<<
        <<status[q.run] # "RUNNING", "RUN_NOT_RUNNING">>,
        <<q.on[2] # Preview(q.run, q.on[1]), "GATE_APPROVAL_MISMATCH">>,
        <<~SourcesLive(q.run), "EVIDENCE_NOT_AVAILABLE">> >>)

\* _require_this_build and execution_input, of the build b that serves.
StartableCode(r, b) ==
    IF pin[r] = None THEN "RUN_INPUT_NOT_PINNED"
    ELSE IF pin[r].build # b THEN "ORCHESTRATION_BUILD_MOVED" ELSE ExecutionCode(r, b)

\* _queue over enqueue_run; q.on is the build.
StartCode(q) ==
    IF StartableCode(q.run, q.on) # "OK" THEN StartableCode(q.run, q.on)
    ELSE FirstRefusal(<<
        <<work[q.run] # "NONE", "RUN_ALREADY_STARTED">>,
        <<Full(q.by), "QUEUED_RUNS_LIMIT_REACHED">> >>)

\* Mutant: a requeue asks for the pin and the run, not for its authority.
RetryUnjudged(q) == FirstRefusal(<<
    <<pin[q.run] = None, "RUN_INPUT_NOT_PINNED">>,
    <<status[q.run] # "RUNNING", "RUN_NOT_RUNNING">>,
    <<work[q.run] = "STOPPED" /\ stop[q.run] = "OVER", "BUDGET_CHARGE_OVER_RESERVATION">>,
    <<work[q.run] # "STOPPED" \/ cancel[q.run], "RUN_NOT_STOPPED">>,
    <<Full(q.by), "QUEUED_RUNS_LIMIT_REACHED">> >>)

\* _queue over requeue_run
RetryCode(q) ==
    IF StartableCode(q.run, q.on) # "OK" THEN StartableCode(q.run, q.on)
    ELSE FirstRefusal(<<
        <<work[q.run] = "STOPPED" /\ stop[q.run] = "OVER", "BUDGET_CHARGE_OVER_RESERVATION">>,
        <<work[q.run] # "STOPPED" \/ cancel[q.run], "RUN_NOT_STOPPED">>,
        <<Full(q.by), "QUEUED_RUNS_LIMIT_REACHED">> >>)

\* A claim somebody still drives.
Driven(r) == work[r] = "CLAIMED" /\ ~lapsed[r]

\* cancel_run over request_cancel
CancelCode(q) == FirstRefusal(<<
    <<status[q.run] # "RUNNING" \/ work[q.run] = "DONE", "RUN_NOT_RUNNING">>,
    <<Driven(q.run) /\ cancel[q.run], "RUN_CANCEL_REQUESTED">> >>)

Answer(q) ==
    IF ~Satisfies(q.by, Floor(q)) THEN "NOT_AUTHORISED"
    ELSE CASE q.do = "ADMIT" -> IF source[q.on] = "NEW" THEN "OK" ELSE "SOURCE_EXISTS"
           [] q.do = "WITHDRAW" -> IF q.on \in Live THEN "OK" ELSE "EVIDENCE_NOT_AVAILABLE"
           [] q.do = "CREATE" -> IF status[q.run] = "NEW" THEN CreateCode(q) ELSE "RUN_EXISTS"
           [] q.do = "PIN" -> PinCode(q)
           [] q.do = "APPROVE" -> ApproveCode(q)
           [] q.do = "START" -> StartCode(q)
           [] q.do = "RETRY" -> RetryCode(q)
           [] q.do = "CANCEL" -> CancelCode(q)

\* Mutant: the latest version is taken for the case's set whatever it holds.
SnapshotLatest == IF sets = <<>> THEN <<Live>> ELSE sets

\* snapshot_in: the latest version if it is the live set, else the next.
Snapshot == IF sets # <<>> /\ sets[Len(sets)] = Live THEN sets ELSE Append(sets, Live)

End(r, into) ==
    /\ status' = [status EXCEPT ![r] = into]
    /\ work' = [work EXCEPT ![r] = IF @ = "NONE" THEN @ ELSE "DONE"]
    /\ stop' = [stop EXCEPT ![r] = "NONE"]

ApplySource(q) ==
    /\ q.do \in {"ADMIT", "WITHDRAW"}
    /\ source' = [source EXCEPT ![q.on] = IF q.do = "ADMIT" THEN "LIVE" ELSE "WITHDRAWN"]
    /\ UNCHANGED <<inputs, runs, gates, queue>>

ApplyCreate(q) ==
    /\ q.do = "CREATE"
    /\ status' = [status EXCEPT ![q.run] = "RUNNING"]
    /\ supersedes' = [supersedes EXCEPT ![q.run] = q.on]
    /\ UNCHANGED <<source, inputs, accepted, gates, queue>>

\* Mutant: the next version is named though the latest was taken again.
ApplyPinNext(q) ==
    /\ q.do = "PIN"
    /\ sets' = Snapshot
    /\ pin' = [pin EXCEPT ![q.run] = [version |-> Len(sets) + 1, build |-> q.on]]
    /\ UNCHANGED <<source, runs, gates, queue>>

ApplyPin(q) ==
    /\ q.do = "PIN"
    /\ sets' = Snapshot
    /\ pin' = [pin EXCEPT ![q.run] = [version |-> Len(Snapshot), build |-> q.on]]
    /\ UNCHANGED <<source, runs, gates, queue>>

ApplyApprove(q) ==
    /\ q.do = "APPROVE"
    /\ gates' = [gates EXCEPT ![q.run][q.on[1]] = [preview |-> q.on[2], by |-> q.by]]
    /\ UNCHANGED <<source, inputs, runs, queue>>

ApplyQueue(q) ==
    /\ q.do \in {"START", "RETRY"}
    /\ work' = [work EXCEPT ![q.run] = "QUEUED"]
    /\ place' = [place EXCEPT ![q.run] = q.by]
    /\ stop' = [stop EXCEPT ![q.run] = "NONE"]
    /\ UNCHANGED <<source, inputs, runs, gates, cancel, holder, lapsed>>

ApplyCancel(q) ==
    /\ q.do = "CANCEL"
    /\ cancel' = [cancel EXCEPT ![q.run] = TRUE]
    /\ IF Driven(q.run) THEN UNCHANGED <<status, work, stop>>
       ELSE /\ status' = [status EXCEPT ![q.run] = "CANCELLED"]
            /\ work' = [work EXCEPT ![q.run] = "DONE"]
            /\ stop' = [stop EXCEPT ![q.run] = "NONE"]
    /\ UNCHANGED <<source, inputs, supersedes, accepted, gates, place, holder, lapsed>>

Apply(q) ==
    \/ ApplySource(q) \/ ApplyCreate(q) \/ ApplyPin(q)
    \/ ApplyApprove(q) \/ ApplyQueue(q) \/ ApplyCancel(q)

-----------------------------------------------------------------------------
(* The people, through processes of any build.                             *)

Asked(u) ==
    {Request(do, u, None, s) : do \in {"ADMIT", "WITHDRAW"}, s \in Sources}
    \cup {Request("CREATE", u, r, p) : r \in Runs, p \in Runs \cup {None}}
    \cup {Request(do, u, r, b) : do \in {"PIN", "START", "RETRY"}, r \in Created, b \in Builds}
    \cup {Request("CANCEL", u, r, None) : r \in Created}
    \cup {Request("APPROVE", u, r, <<g, p>>) : r \in Created, g \in Gate, p \in {shown[u]} \ {None}}

\* governed: under the case lock the standing, the checks; then the commit.
Ask(u) ==
    /\ unit = None
    /\ \E q \in Asked(u) : Answer(q) = "OK" /\ unit' = q
    /\ UNCHANGED <<standing, source, inputs, runs, gates, queue, shown, pass, faults>>

Commands == {"ADMIT", "WITHDRAW", "CREATE", "PIN", "APPROVE", "START", "RETRY", "CANCEL"}

Commit ==
    /\ unit # None
    /\ unit.do \in Commands
    /\ Apply(unit)
    /\ unit' = None
    /\ UNCHANGED <<standing, shown, pass, faults>>

\* The unit fails and is rolled back; a worker's goes back to its pass.
Abort ==
    /\ unit # None
    /\ faults < MaxFaults /\ faults' = faults + 1
    /\ unit' = None
    /\ UNCHANGED <<standing, source, inputs, runs, gates, queue, shown, pass>>

\* read_gate_preview: a plain read, of any run that has a pin.
Show(u) ==
    /\ \E r \in Created, g \in Gate :
         pin[r] # None /\ shown' = [shown EXCEPT ![u] = Preview(r, g)]
    /\ UNCHANGED <<standing, source, inputs, runs, gates, queue, pass, unit, faults>>

\* A grant or a revoke by the case's admin, a governed unit of its own.
SetStanding(u) ==
    /\ unit = None
    /\ \E k \in DOMAIN Rank : k # standing[u] /\ standing' = [standing EXCEPT ![u] = k]
    /\ UNCHANGED <<source, inputs, runs, gates, queue, shown, pass, unit, faults>>

-----------------------------------------------------------------------------
(* The worker's pass.                                                      *)

Go(w, step) == pass' = [pass EXCEPT ![w].step = step]
Leave(w) == pass' = [pass EXCEPT ![w] = Idle]
Holds(w) == work[pass[w].run] = "CLAIMED" /\ holder[pass[w].run] = w

\* The unit that fences on a run's work row, or moves it, has it locked until it ends.
RowLocked(r) == unit # None /\ unit.run = r /\ unit.do \notin {"CREATE", "PIN", "APPROVE"}

\* claim_run: SKIP LOCKED.
Claim(w) ==
    /\ pass[w] = Idle
    /\ \E r \in Runs :
         /\ work[r] = "QUEUED" \/ (work[r] = "CLAIMED" /\ lapsed[r])
         /\ ~RowLocked(r)
         /\ work' = [work EXCEPT ![r] = "CLAIMED"]
         /\ holder' = [holder EXCEPT ![r] = w]
         /\ lapsed' = [lapsed EXCEPT ![r] = FALSE]
         /\ pass' = [pass EXCEPT ![w] = [run |-> r, step |-> "read"]]
    /\ UNCHANGED <<standing, source, inputs, runs, gates, place, cancel, stop, shown, unit, faults>>

\* What the pass does about a refusal: an ended run is left, the rest settled.
Refused(w, code) == IF code = "RUN_NOT_RUNNING" THEN Leave(w) ELSE Go(w, "park")

\* execution_input at the node's turn, under the locks, by this process' build.
Read(w) ==
    LET r == pass[w].run
        code == ExecutionCode(r, BuildOf[w])
    IN
    /\ pass[w].step = "read"
    /\ unit = None
    /\ IF code # "OK" THEN Refused(w, code)
       ELSE IF ~Holds(w) THEN Leave(w)
       ELSE IF cancel[r] THEN Go(w, "park")
       ELSE Go(w, IF accepted[r] < Nodes THEN "call" ELSE "end")
    /\ UNCHANGED <<standing, source, inputs, runs, gates, queue, shown, unit, faults>>

\* The call of the node, over minutes.
Call(w) ==
    /\ pass[w].step = "call"
    /\ Go(w, "accept")
    /\ UNCHANGED <<standing, source, inputs, runs, gates, queue, shown, unit, faults>>

\* Mutant: what the pass read before its call is enough to accept its answer.
AcceptTrusting(w) ==
    LET r == pass[w].run IN
    /\ pass[w].step = "accept"
    /\ unit = None
    /\ IF status[r] # "RUNNING" \/ ~Holds(w) THEN Leave(w) /\ UNCHANGED unit
       ELSE unit' = Request("ACCEPT", w, r, None) /\ UNCHANGED pass
    /\ UNCHANGED <<standing, source, inputs, runs, gates, queue, shown, faults>>

\* accept_attempt: the fence and the live authority, under the locks.
Accept(w) ==
    LET r == pass[w].run
        code == AuthorityCode(r)
    IN
    /\ pass[w].step = "accept"
    /\ unit = None
    /\ IF status[r] # "RUNNING" \/ ~Holds(w) THEN Leave(w) /\ UNCHANGED unit
       ELSE IF code # "OK" THEN Refused(w, code) /\ UNCHANGED unit
       ELSE unit' = Request("ACCEPT", w, r, None) /\ UNCHANGED pass
    /\ UNCHANGED <<standing, source, inputs, runs, gates, queue, shown, faults>>

\* complete_run: every node accepted, and the authority still there.
Complete(w) ==
    LET r == pass[w].run
        code == AuthorityCode(r)
    IN
    /\ pass[w].step = "end"
    /\ unit = None
    /\ IF status[r] # "RUNNING" \/ ~Holds(w) THEN Leave(w) /\ UNCHANGED unit
       ELSE IF cancel[r] \/ code # "OK" THEN Go(w, "park") /\ UNCHANGED unit
       ELSE unit' = Request("COMPLETE", w, r, None) /\ UNCHANGED pass
    /\ UNCHANGED <<standing, source, inputs, runs, gates, queue, shown, faults>>

\* block_run on a validated Blocked answer: no authority is asked to end a run.
Block(w) ==
    LET r == pass[w].run IN
    /\ pass[w].step = "accept"
    /\ unit = None
    /\ status[r] = "RUNNING" /\ Holds(w) /\ ~cancel[r]
    /\ unit' = Request("BLOCK", w, r, None)
    /\ UNCHANGED <<standing, source, inputs, runs, gates, queue, shown, pass, faults>>

CommitPass ==
    /\ unit # None
    /\ unit.do \in {"ACCEPT", "COMPLETE", "BLOCK"}
    /\ LET r == unit.run IN
       IF unit.do = "ACCEPT"
       THEN /\ accepted' = [accepted EXCEPT ![r] = @ + 1]
            /\ pass' = [pass EXCEPT ![unit.by].step = "read"]
            /\ UNCHANGED <<status, work, stop>>
       ELSE /\ End(r, IF unit.do = "COMPLETE" THEN "COMPLETE" ELSE "BLOCKED")
            /\ pass' = [pass EXCEPT ![unit.by] = Idle]
            /\ UNCHANGED accepted
    /\ unit' = None
    /\ UNCHANGED <<standing, source, inputs, supersedes, gates, place, cancel, holder, lapsed, shown, faults>>

\* _refused: the holder parks its run, or ends it if a cancel was recorded.
Park(w) ==
    LET r == pass[w].run IN
    /\ pass[w].step = "park"
    /\ unit = None
    /\ IF status[r] # "RUNNING" \/ ~Holds(w) THEN UNCHANGED <<status, work, stop>>
       ELSE IF cancel[r] THEN End(r, "CANCELLED")
       ELSE /\ work' = [work EXCEPT ![r] = "STOPPED"]
            /\ stop' = [stop EXCEPT ![r] = "OTHER"]
            /\ UNCHANGED status
    /\ Leave(w)
    /\ UNCHANGED <<standing, source, inputs, supersedes, accepted, gates,
                   place, cancel, holder, lapsed, shown, unit, faults>>

\* A bill over its reservation parks the run for good (R2.6).
Overspend(w) ==
    LET r == pass[w].run IN
    /\ pass[w].step = "accept"
    /\ unit = None
    /\ faults < MaxFaults /\ faults' = faults + 1
    /\ status[r] = "RUNNING" /\ Holds(w) /\ ~cancel[r]
    /\ work' = [work EXCEPT ![r] = "STOPPED"]
    /\ stop' = [stop EXCEPT ![r] = "OVER"]
    /\ Leave(w)
    /\ UNCHANGED <<standing, source, inputs, runs, gates, place, cancel, holder, lapsed, shown, unit>>

\* The process dies, or a store fault sends its run back to the queue.
Fault(w) ==
    /\ pass[w] # Idle
    /\ unit # None => unit.by # w
    /\ faults < MaxFaults /\ faults' = faults + 1
    /\ Leave(w)
    /\ work' \in {work} \cup (IF Holds(w) /\ unit = None
                              THEN {[work EXCEPT ![pass[w].run] = "QUEUED"]} ELSE {})
    /\ UNCHANGED <<standing, source, inputs, runs, gates, place, cancel, stop, holder, lapsed, shown, unit>>

\* A lease nobody renews lapses; one under a slow holder, as a disturbance.
Lapse(r) ==
    /\ Driven(r)
    /\ lapsed' = [lapsed EXCEPT ![r] = TRUE]
    /\ IF pass[holder[r]].run = r
         THEN faults < MaxFaults /\ faults' = faults + 1
         ELSE UNCHANGED faults
    /\ UNCHANGED <<standing, source, inputs, runs, gates, work, place, cancel, stop, holder, shown, pass, unit>>

Drive(w) == Read(w) \/ Call(w) \/ Accept(w) \/ Complete(w) \/ Park(w)

Next ==
    \/ \E u \in Users : Ask(u) \/ Show(u) \/ SetStanding(u)
    \/ Commit \/ CommitPass \/ Abort
    \/ \E w \in Workers : Claim(w) \/ Drive(w) \/ Block(w) \/ Overspend(w) \/ Fault(w)
    \/ \E r \in Runs : Lapse(r)

Spec == Init /\ [][Next]_vars

\* Workers poll and drive, leases run out, a unit ends; a lock wait is a queue.
Fairness ==
    /\ WF_vars(Commit) /\ WF_vars(CommitPass)
    /\ \A r \in Runs : WF_vars(Lapse(r))
    /\ \A w \in Workers : WF_vars(Claim(w)) /\ WF_vars(Call(w)) /\ SF_vars(Drive(w))

LiveSpec == Spec /\ Fairness

-----------------------------------------------------------------------------
(* The properties.                                                         *)

\* gates.py: a release names this run's own gate, over the whole pin the run
\* executes on; what an approver was shown of another run or gate releases nothing.
ReleasedAsShown ==
    \A r \in Runs, g \in Gate :
        gates[r][g] # None =>
            /\ pin[r] # None
            /\ gates[r][g].preview = [run |-> r, gate |-> g, pin |-> pin[r]]

\* Invariant 1 and authority trace T8: a node is accepted, and a run completed,
\* only in a moment in which every source its pin captured is live, an approver
\* of that moment released each gate, and the process is of the pinned build,
\* whatever was withdrawn, revoked or deployed since the pass began.
ConcludedUnderAuthority ==
    [][\A r \in Runs :
        accepted'[r] # accepted[r] \/ (status'[r] = "COMPLETE" /\ status[r] # "COMPLETE") =>
            /\ \A s \in sets[pin[r].version] : source[s] = "LIVE" /\ source'[s] = "LIVE"
            /\ \A g \in Gate : standing[gates[r][g].by] = "APPROVER"
            /\ BuildOf[holder[r]] = pin[r].build
            /\ status'[r] = "COMPLETE" => accepted[r] = Nodes]_vars

\* A run executes on the sources that were live when its input was pinned: the set
\* a version names never changes, nor does the version a run names.
PinStands ==
    [][/\ \A v \in 1..Len(sets) : sets'[v] = sets[v]
       /\ \A r \in Runs :
            IF pin[r] # None THEN pin'[r] = pin[r]
            ELSE pin'[r] # None => sets'[pin'[r].version] = Live]_vars

\* Section 72: the successors of a case are lines, each answering a BLOCKED run
\* that stays so, and no run answered twice.
SuccessorsInLine ==
    \A r \in Runs : supersedes[r] # None =>
        /\ status[supersedes[r]] = "BLOCKED"
        /\ Successors(supersedes[r]) = {r}
        /\ supersedes[r] # r

\* Three readers of one pin agree.  While the run may execute nothing it cites is
\* gone; the source that serves a document is the one its citation names; and a
\* document is gone only if that one is withdrawn.
OneResolution ==
    \A r \in Runs : pin[r] # None =>
        /\ AuthorityCode(r) = "OK" => Gone(r) = {}
        /\ \A d \in DOMAIN Serving(r) : Serving(r)[d] \in {None, Cited(r, d)}
        /\ \A s \in Members(r) : Document[s] \in Gone(r) <=> Cited(r, Document[s]) \notin Live

\* A run whose evidence was withdrawn is not driven for ever: it is stopped, or
\* ended, and no command brings it back into the queue.
WithdrawnRests ==
    \A r \in Runs :
        (pin[r] # None /\ ~SourcesLive(r)) ~> [](work[r] \notin {"QUEUED", "CLAIMED"})
=============================================================================
