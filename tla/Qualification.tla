---------------------------- MODULE Qualification ----------------------------
(***************************************************************************)
(* How a qualification set comes to carry a reviewer's word                *)
(* (qualification/harness.py, matrix.py, store.py, verdict.py,             *)
(* api/commands/qualification.py): its cases are performed one by one,     *)
(* each record is kept, a matrix says which keys were met, the snapshot is *)
(* persisted with the flag the recording release gave it, and reviewers    *)
(* sign it, at the same time or again, until their word expires.           *)
(*                                                                         *)
(* A snapshot is its document: its digest is its identity, and its         *)
(* evidence's.  Of a run the model keeps what the matrix and the verdict   *)
(* read; how it gets there is RouteRun's and CallLedger's.                 *)
(***************************************************************************)
EXTENDS Naturals, Sequences, FiniteSets

CONSTANTS
    Sets,           \* the sets of an instance: sequences of their cases' keys
    Releases,       \* {"this"}, or with "earlier": one whose rule was since corrected
    Signs,          \* requests to sign, at one time
    Askers,         \* who asks, under which Idempotency-Key: [reviewer, key]
    Stands,         \* how long a verdict stands: at most MAX_VALIDITY
    Performs,       \* bounds the cases performed, over every entry of perform
    MaxTime         \* bounds the store's clock

VARIABLES
    kinds,      \* the set: one key per case
    run,        \* per case, its prepared run as the store has it
    hands,      \* what perform has in hand
    snaps,      \* qualification_performed, and the evidence beside each
    verdicts,   \* qualification_verdicts
    receipts,   \* command_requests of SIGN_VERDICT
    sign,       \* each request to sign
    clock

store == <<snaps, verdicts, receipts>>
vars == <<kinds, run, hands, store, sign, clock>>

Cases == DOMAIN kinds
Idle == [at |-> "idle", records |-> <<>>, rows |-> <<>>, release |-> "this", entered |-> 0]
NewRun == [status |-> "RUNNING", artifacts |-> 0, model |-> "none", blocking |-> FALSE,
           uncleared |-> FALSE, live |-> TRUE]
NoAsk == [step |-> "rest", by |-> <<>>, doc |-> <<>>, decided |-> 0]

Init ==
    /\ kinds \in Sets
    /\ run = [c \in Cases |-> NewRun]
    /\ hands = Idle
    /\ snaps = {} /\ verdicts = {} /\ receipts = {}
    /\ sign = [s \in Signs |-> NoAsk]
    /\ clock = 0

-----------------------------------------------------------------------------
(* The prepared runs.                                                      *)

\* What run_route comes to: a route that ends, a readiness or a Blocked answer
\* that stops it, or a refusal that leaves it RUNNING.
Outcomes(c) ==
    LET accepts(status, uncleared) ==
            {[run[c] EXCEPT !.status = status, !.artifacts = 1, !.model = m, !.uncleared = uncleared]
                : m \in {"named", "other"}}
    IN  accepts("COMPLETE", FALSE) \cup accepts("BLOCKED", TRUE)
            \cup {[run[c] EXCEPT !.status = "BLOCKED", !.blocking = TRUE], run[c]}

\* Another actor cancels a run, or withdraws a source one of them cites.
Cancel(c) ==
    /\ run[c].status = "RUNNING"
    /\ run' = [run EXCEPT ![c].status = "CANCELLED"]
    /\ UNCHANGED <<kinds, hands, store, sign, clock>>

Withdraw(c) ==
    /\ \A d \in Cases : run[d].live
    /\ run' = [run EXCEPT ![c].live = FALSE]
    /\ UNCHANGED <<kinds, hands, store, sign, clock>>

-----------------------------------------------------------------------------
(* perform.                                                                *)

\* assert_orchestration_proof
Proves(r) == r.artifacts > 0 /\ r.live

\* _record
Record(r, stopped) ==
    [status |-> r.status, stopped |-> stopped, proof |-> IF Proves(r) THEN r.artifacts ELSE 0]

Enter(release) ==
    /\ hands.at = "idle" /\ (hands.entered + 1) * Len(kinds) <= Performs
    /\ hands' = [Idle EXCEPT !.at = "case", !.release = release, !.entered = hands.entered + 1]
    /\ UNCHANGED <<kinds, run, store, sign, clock>>

\* _perform_one: a run that ended is recorded as it is; a stopped one ends the set.
PerformOne ==
    LET c == Len(hands.records) + 1 IN
    /\ hands.at = "case" /\ c \in Cases
    /\ \E outcome \in IF run[c].status = "RUNNING" THEN Outcomes(c) ELSE {run[c]} :
        LET stopped == outcome.status \notin {"COMPLETE", "BLOCKED"} IN
        /\ run' = [run EXCEPT ![c] = outcome]
        /\ hands' = [hands EXCEPT !.records = Append(@, Record(outcome, stopped)),
                                  !.at = IF stopped THEN "persist" ELSE IF c = Len(kinds) THEN "matrix" ELSE @]
    /\ UNCHANGED <<kinds, store, sign, clock>>

\* _refusal_met; the earlier release did not ask how the run ended.
RefusalMet(r, release) == (release = "this" => r.status \in {"BLOCKED", "FAILED"}) /\ (r.blocking \/ release = "earlier")

\* _row, over what is declared.
Row(c, release, cites) ==
    LET r == run[c] IN
    [proven |-> Proves(r),
     refusal |-> IF Proves(r) THEN "none" ELSE IF r.artifacts = 0 THEN "NOTHING_TO_PROVE" ELSE "SOURCE_NOT_PINNED",
     missed |-> kinds[c] = "cites" /\ ~(Proves(r) /\ cites),
     refusal_met |-> IF kinds[c] = "refusal" THEN {RefusalMet(r, release)} ELSE {},
     blocked_met |-> IF kinds[c] = "blocked" THEN {r.uncleared} ELSE {}]

\* build_matrix; a manifest that moved under it refuses, and the records are kept.
BuildMatrix ==
    /\ hands.at = "matrix"
    /\ \E cites \in BOOLEAN :
        hands' = [hands EXCEPT !.at = "persist", !.rows = [c \in Cases |-> Row(c, hands.release, cites)]]
    /\ UNCHANGED <<kinds, run, store, sign, clock>>

MatrixRefused ==
    /\ hands.at = "matrix"
    /\ hands' = [hands EXCEPT !.at = "persist"]
    /\ UNCHANGED <<kinds, run, store, sign, clock>>

\* _answered, and answered_document
Answered(row) ==
    /\ row.blocked_met # {FALSE}
    /\ IF row.refusal_met # {}
       THEN row.refusal_met = {TRUE} /\ ~row.missed /\ row.refusal # "SOURCE_NOT_PINNED"
       ELSE row.proven /\ ~row.missed

\* _finished, and _record_finished
Finished(record, row) ==
    IF row.refusal_met = {TRUE} THEN record.status \in {"BLOCKED", "FAILED"}
    ELSE (row.blocked_met = {TRUE} /\ record.status = "BLOCKED") \/ record.status = "COMPLETE"

\* PerformedEvidence.complete, and document_complete
DocumentComplete(doc) ==
    /\ doc.rows # <<>>
    /\ \A c \in DOMAIN doc.rows : Finished(doc.records[c], doc.rows[c]) /\ Answered(doc.rows[c])

\* _models_recorded
ModelsRecorded(doc) ==
    LET produced == {c \in DOMAIN doc.records : run[c].artifacts > 0}
    IN  produced # {} /\ \A c \in produced : run[c].model = "named"

\* _persist_performed: record_performed and record_evidence, in one unit.
Persist ==
    /\ hands.at = "persist"
    /\ hands' = [Idle EXCEPT !.entered = hands.entered]
    /\ LET doc == [records |-> hands.records, rows |-> hands.rows]
           earlier == hands.release = "earlier" /\ hands.rows # <<>>
           complete == (earlier \/ DocumentComplete(doc)) /\ ModelsRecorded(doc)
       IN  snaps' = IF \E s \in snaps : s.doc = doc THEN snaps
                    ELSE snaps \cup {[doc |-> doc, complete |-> complete, at |-> clock]}
    /\ UNCHANGED <<kinds, run, verdicts, receipts, sign, clock>>

\* The process ends before the unit commits; what ran stays run.
Crash ==
    /\ hands.at # "idle"
    /\ hands' = [Idle EXCEPT !.entered = hands.entered]
    /\ UNCHANGED <<kinds, run, store, sign, clock>>

-----------------------------------------------------------------------------
(* sign_verdict.                                                           *)

\* A verdict's document, over one exact snapshot.
Ask(s, by, snap, decided) ==
    /\ sign[s] = NoAsk
    /\ sign' = [sign EXCEPT ![s] = [NoAsk EXCEPT !.step = "look", !.by = by, !.doc = snap.doc, !.decided = decided]]
    /\ UNCHANGED <<kinds, run, hands, store, clock>>

\* The client is told it was signed; or is refused, and may ask again.
Told(s) == sign' = [sign EXCEPT ![s].step = "signed"]
Refuse(s) == sign' = [sign EXCEPT ![s] = NoAsk]

Request(s) == [doc |-> sign[s].doc, decided |-> sign[s].decided]
Held(s) == {r \in receipts : r.by = sign[s].by}

\* _replayed
Replay(s) == IF \E r \in Held(s) : r.request = Request(s) THEN Told(s) ELSE Refuse(s)

\* assert_store_agrees
StoreAgrees(doc) ==
    /\ \A c \in DOMAIN doc.records :
        /\ run[c].status = doc.records[c].status
        /\ doc.records[c].proof > 0 => doc.records[c].proof = run[c].artifacts
    /\ ModelsRecorded(doc)

\* Mutant: the stored flag is a fact.
SignableFlagged(snap) == snap.complete /\ StoreAgrees(snap.doc)

\* record_verdict's reading of the snapshot
Signable(snap) == snap.complete /\ DocumentComplete(snap.doc) /\ StoreAgrees(snap.doc)

\* _signed up to its first write: the receipt, the document, the snapshot.
Look(s) ==
    /\ sign[s].step = "look"
    /\ LET snap == CHOOSE x \in snaps : x.doc = sign[s].doc IN
       IF Held(s) # {} THEN Replay(s)
       ELSE IF sign[s].decided <= clock /\ clock < sign[s].decided + Stands
               /\ Signable(snap) /\ sign[s].decided >= snap.at
            THEN sign' = [sign EXCEPT ![s].step = "write"]
            ELSE Refuse(s)
    /\ UNCHANGED <<kinds, run, hands, store, clock>>

\* The verdict and the receipt, or whichever signature committed first.
Write(s) ==
    /\ sign[s].step = "write"
    /\ IF (\E v \in verdicts : v.doc = sign[s].doc) \/ Held(s) # {}
       THEN /\ IF Held(s) # {} THEN Replay(s) ELSE Refuse(s)
            /\ UNCHANGED <<verdicts, receipts>>
       ELSE /\ verdicts' = verdicts \cup {[doc |-> sign[s].doc, reviewer |-> sign[s].by.reviewer,
                                           decided |-> sign[s].decided, expires |-> sign[s].decided + Stands]}
            /\ receipts' = receipts \cup {[by |-> sign[s].by, request |-> Request(s)]}
            /\ Told(s)
    /\ UNCHANGED <<kinds, run, hands, snaps, clock>>

\* The answer, or the connection, is lost before it arrives; the client may ask again.
Lost(s) ==
    /\ sign[s].step # "rest"
    /\ sign' = [sign EXCEPT ![s] = NoAsk]
    /\ UNCHANGED <<kinds, run, hands, store, clock>>

Pass ==
    /\ clock < MaxTime
    /\ clock' = clock + 1
    /\ UNCHANGED <<kinds, run, hands, store, sign>>

Next ==
    \/ \E c \in Cases : Cancel(c) \/ Withdraw(c)
    \/ \E release \in Releases : Enter(release)
    \/ PerformOne \/ BuildMatrix \/ MatrixRefused \/ Persist \/ Crash
    \/ \E s \in Signs, by \in Askers, snap \in snaps, decided \in 0..MaxTime : Ask(s, by, snap, decided)
    \/ \E s \in Signs : Look(s) \/ Write(s) \/ Lost(s)
    \/ Pass

Spec == Init /\ [][Next]_vars

-----------------------------------------------------------------------------
\* current_verdict: the word a reader is given of this snapshot now.
Current(snap) ==
    \E v \in verdicts : /\ v.doc = snap.doc /\ v.decided <= clock /\ clock < v.expires
                        /\ Signable(snap) /\ v.decided >= snap.at

\* How a case's run really ended, and whether that is what the case declared.  A
\* document does not say what blocked its run, so of an earlier release's, which
\* did not ask, only the ending is known.
EndedAsDeclared(c) ==
    CASE kinds[c] = "cites" -> run[c].status = "COMPLETE"
      [] kinds[c] = "refusal" -> run[c].status = "BLOCKED" /\ (run[c].blocking \/ "earlier" \in Releases)
      [] kinds[c] = "blocked" -> run[c].status \in {"BLOCKED", "COMPLETE"} /\ run[c].uncleared

\* FP-03, FP-24, DQ-3: whatever release recorded a snapshot, and whatever
\* moved since, one that was signed is of runs that ended as their cases declared,
\* under the model it names; and the word stands over nothing else.
SignedIsTrue ==
    \A v \in verdicts :
        /\ \A c \in Cases : EndedAsDeclared(c) /\ (run[c].artifacts > 0 => run[c].model = "named")
        /\ \E c \in Cases : run[c].artifacts > 0
        /\ \E snap \in snaps : snap.doc = v.doc /\ Signable(snap) /\ snap.at <= v.decided

\* AR-10: one word per snapshot, and one receipt for it, whoever asks at the same
\* time or again; who is told it was signed finds it so.
SignedOnce ==
    /\ \A v, w \in verdicts : v.doc = w.doc => v = w
    /\ Cardinality(verdicts) = Cardinality(receipts)
    /\ \A r \in receipts :
        \E v \in verdicts : v.reviewer = r.by.reviewer /\ v.doc = r.request.doc /\ v.decided = r.request.decided
    /\ \A s \in Signs : sign[s].step = "signed" =>
        \E v \in verdicts : v.reviewer = sign[s].by.reviewer /\ v.doc = sign[s].doc /\ v.decided = sign[s].decided

QualificationSound == SignedIsTrue /\ SignedOnce

\* What QualificationSound rests on: rows are built over runs that ended, and a run that
\* ended stays as it is, but for its sources.
Steps == {"rest", "look", "write", "signed"}
Runs == [status : {"RUNNING", "COMPLETE", "BLOCKED", "CANCELLED"}, artifacts : Nat,
         model : {"none", "named", "other"}, blocking : BOOLEAN, uncleared : BOOLEAN, live : BOOLEAN]
Records == [status : {"RUNNING", "COMPLETE", "BLOCKED", "CANCELLED"}, stopped : BOOLEAN, proof : Nat]
MatrixRows == [proven : BOOLEAN, refusal : {"none", "NOTHING_TO_PROVE", "SOURCE_NOT_PINNED"}, missed : BOOLEAN,
               refusal_met : SUBSET BOOLEAN, blocked_met : SUBSET BOOLEAN]
Documents == [records : Seq(Records), rows : Seq(MatrixRows)]
TypeOK ==
    /\ kinds \in Seq({"cites", "refusal", "blocked"}) /\ kinds # <<>>
    /\ run \in [Cases -> Runs]
    /\ hands \in [at : {"idle", "case", "matrix", "persist"}, records : Seq(Records), rows : Seq(MatrixRows),
                  release : Releases \cup {"this"}, entered : Nat]
    /\ hands.at # "idle" => hands.release \in Releases
    /\ snaps \subseteq [doc : Documents, complete : BOOLEAN, at : Nat]
    /\ IsFiniteSet(verdicts) /\ IsFiniteSet(receipts)
    /\ sign \in [Signs -> [step : Steps, by : Askers \cup {<<>>}, doc : Documents \cup {<<>>}, decided : Nat]]
    /\ clock \in Nat

Settled(c) == run[c].status \in {"COMPLETE", "BLOCKED"}
Met(c, row) ==
    /\ \E release \in Releases :
         row.refusal_met = IF kinds[c] = "refusal" THEN {RefusalMet(run[c], release)} ELSE {}
    /\ row.blocked_met = IF kinds[c] = "blocked" THEN {run[c].uncleared} ELSE {}
Faithful(doc) ==
    doc.rows # <<>> =>
        /\ DOMAIN doc.records = Cases /\ DOMAIN doc.rows = Cases
        /\ \A c \in Cases : Settled(c) /\ Met(c, doc.rows[c])
InHand == [records |-> hands.records, rows |-> hands.rows]
Endorsed(doc, decided) == \E snap \in snaps : snap.doc = doc /\ Signable(snap) /\ snap.at <= decided

WordInv ==
    /\ TypeOK
    /\ hands.at \in {"case", "matrix"} => hands.rows = <<>> /\ \A c \in DOMAIN hands.records : Settled(c)
    /\ hands.at = "case" => Len(hands.records) < Len(kinds)
    /\ hands.at = "matrix" => Len(hands.records) = Len(kinds)
    /\ Faithful(InHand) /\ \A snap \in snaps : Faithful(snap.doc)
    /\ \A s \in Signs : sign[s].step # "rest" => \E snap \in snaps : snap.doc = sign[s].doc
    /\ \A s \in Signs : sign[s].step = "write" => Endorsed(sign[s].doc, sign[s].decided)
    /\ \A v \in verdicts : Endorsed(v.doc, v.decided)
    /\ SignedOnce
=============================================================================
