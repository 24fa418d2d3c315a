------------------------------- MODULE Copilot -------------------------------
(***************************************************************************)
(* One call of a Copilot model (caos/copilot.py): the runtime works and    *)
(* says so in session events; the host listens until the session settles   *)
(* or the deadline passes, and from the events alone decides whether the   *)
(* call is a drop, which is sent again, what it is charged, and whether it *)
(* is the answer that was asked for.                                       *)
(*                                                                         *)
(* The runtime is external.  It is as copilot.py reads it: its requests    *)
(* are dispatches that start and finish, one that fails in `error' was not *)
(* answered, a checkpoint states what the session has cost so far, and     *)
(* work that is no dispatch is told by an event of its own.  A dispatch is *)
(* the main agent's or a sub-agent's; the main agent's idle ends neither.  *)
(***************************************************************************)
EXTENDS Integers, Sequences, FiniteSets

CONSTANTS
    MaxEvents,  \* bounds the events of a session after its prompt
    Twice,      \* bounds each type: these come twice at most, the others once
    MaxWork     \* bounds what it spends, in units

VARIABLES
    seen,       \* the events heard, in order
    open,       \* the dispatches running: whose, and whether answered
    spent,      \* what each agent's work really cost
    used,       \* the models that really worked
    idled,      \* whether the main agent has gone idle, for good
    verdict     \* what the host made of it, once it did

vars == <<seen, open, spent, used, idled, verdict>>

Agents == {"main", "sub"}
Models == {"pin", "other"}
Running == {a \in Agents : open[a] # "no"}

Listening == verdict.as = "none"
NoVerdict == [as |-> "none", charge |-> {}, finish |-> FALSE]

Init ==
    /\ seen = <<>>
    /\ open = [a \in Agents |-> "no"]
    /\ spent = [a \in Agents |-> 0] /\ used = {}
    /\ idled = FALSE
    /\ verdict = NoVerdict

Of(s, type) == {i \in DOMAIN s : s[i].type = type}

Tell(type, by, says, n) ==
    /\ Len(seen) < MaxEvents
    /\ Cardinality(Of(seen, type)) < IF type \in Twice THEN 2 ELSE 1
    /\ seen' = Append(seen, [type |-> type, by |-> by, says |-> says, n |-> n])

Cost == spent["main"] + spent["sub"]

Works(a, model) ==
    /\ Cost < MaxWork
    /\ spent' = [spent EXCEPT ![a] = @ + 1]
    /\ used' = used \cup {model}

-----------------------------------------------------------------------------
(* The runtime.                                                            *)

Active(a) == Listening /\ (a = "main" => ~idled)

\* model.call_start names its model.
CallStart(a, model) ==
    /\ Active(a) /\ open[a] = "no"
    /\ open' = [open EXCEPT ![a] = model]
    /\ Tell("model.call_start", a, model, 0)
    /\ UNCHANGED <<spent, used, idled, verdict>>

\* The provider answers it: from now on it costs.
Answer(a) ==
    /\ Active(a) /\ open[a] \in Models
    /\ Works(a, open[a])
    /\ open' = [open EXCEPT ![a] = "answered"]
    /\ Tell("assistant.message", a, open[a], 0)
    /\ UNCHANGED <<idled, verdict>>

CallFinished(a) ==
    /\ Active(a) /\ open[a] # "no"
    /\ open' = [open EXCEPT ![a] = "no"]
    /\ \/ open[a] = "answered" /\ Tell("model.call_finished", a, "success", 0) /\ UNCHANGED <<spent, used>>
       \/ open[a] # "answered" /\ Tell("model.call_finished", a, "error", 0) /\ UNCHANGED <<spent, used>>
       \* Answered, and not accepted: nothing of the answer is told.
       \/ open[a] # "answered" /\ Works(a, open[a]) /\ Tell("model.call_finished", a, "rejected", 0)
    /\ UNCHANGED <<idled, verdict>>

\* One attempt of a dispatch failed.
CallFailure(a) ==
    /\ Active(a) /\ open[a] \in Models
    /\ Tell("model.call_failure", a, IF a = "main" THEN "top_level" ELSE "subagent", 0)
    /\ UNCHANGED <<open, spent, used, idled, verdict>>

\* The main agent's operation is settled.
FinalResult ==
    /\ Active("main") /\ open["main"] = "no"
    /\ \E i \in DOMAIN seen :
         /\ seen[i].type = "model.call_finished" /\ seen[i].by = "main"
         /\ \A j \in (i + 1)..Len(seen) : seen[j].type # "model.call_finished" \/ seen[j].by # "main"
         /\ Tell("model.call_final_result", "main", IF seen[i].says = "success" THEN "success" ELSE "http_5xx", 0)
    /\ UNCHANGED <<open, spent, used, idled, verdict>>

\* Work that is no dispatch: a compaction, a workflow.
Compaction ==
    /\ Active("main")
    /\ Works("main", "other")
    /\ Tell("session.compaction_complete", "main", "other", 0)
    /\ UNCHANGED <<open, idled, verdict>>

\* What the session has cost: perhaps not a sub-agent's part, nor yet that of a
\* dispatch still running.
Checkpoint ==
    /\ Listening
    /\ \E n \in {Cost, spent["main"]} \cup (IF open["main"] = "answered" THEN {spent["main"] - 1} ELSE {}) :
         Tell("session.usage_checkpoint", "main", "units", n)
    /\ UNCHANGED <<open, spent, used, idled, verdict>>

TurnEnd ==
    /\ Active("main")
    /\ Tell("assistant.turn_end", "main", "end", 0)
    /\ UNCHANGED <<open, spent, used, idled, verdict>>

\* An error: the runtime may switch model and go on, or it is over.
SessionError ==
    /\ Active("main")
    /\ \E says \in {"autoswitch", "final"} :
         /\ Tell("session.error", "main", says, 0)
         /\ idled' = (says = "final")
    /\ UNCHANGED <<open, spent, used, verdict>>

\* The main agent stops; after an error, whatever it left running.
SessionIdle ==
    /\ Listening
    /\ \A i \in DOMAIN seen : seen[i].type # "session.idle"
    /\ \E says \in IF open["main"] = "no" \/ idled THEN {"done", "aborted"} ELSE {"aborted"} :
         Tell("session.idle", "main", says, 0)
    /\ idled' = TRUE
    /\ UNCHANGED <<open, spent, used, verdict>>

-----------------------------------------------------------------------------
(* What the events say.                                                    *)

Last(S) == CHOOSE i \in S : \A j \in S : j <= i

\* Mutant: a failed attempt closes its dispatch (F573).
OpenAttempt(s) ==
    LET after[i \in 0..Len(s)] ==
            IF i = 0 THEN 0
            ELSE IF s[i].type = "model.call_start" THEN after[i - 1] + 1
            ELSE IF s[i].type \in {"model.call_finished", "model.call_failure"} /\ after[i - 1] > 0
                 THEN after[i - 1] - 1
            ELSE after[i - 1]
    IN after[Len(s)] > 0

\* The dispatches open after each event: _dispatch_open's running.
OpenAfter(s) ==
    LET after[i \in 0..Len(s)] ==
            IF i = 0 THEN 0
            ELSE IF s[i].type = "model.call_start" THEN after[i - 1] + 1
            ELSE IF s[i].type = "model.call_finished" /\ after[i - 1] > 0 THEN after[i - 1] - 1
            ELSE after[i - 1]
    IN after

\* _dispatch_open
DispatchOpen(s) == OpenAfter(s)[Len(s)] > 0

\* _quiet: _QUIET, and _QUIET_WHEN.
Quiet(e) ==
    /\ e.by = "main"
    /\ \/ e.type \in {"assistant.turn_end", "model.call_start", "session.error", "session.idle"}
       \/ e.type = "model.call_final_result" /\ e.says # "success"
       \/ e.type = "model.call_finished" /\ e.says = "error"
       \/ e.type = "model.call_failure" /\ e.says = "top_level"
       \/ e.type = "session.usage_checkpoint" /\ e.n = 0

\* _spent
MaySpend(s) == (\E i \in DOMAIN s : ~Quiet(s[i])) \/ DispatchOpen(s)

Aborted(s) == \E i \in Of(s, "session.idle") : s[i].says = "aborted"

\* _failure: what a call that spent nothing raises, if anything.
Failure(s) ==
    IF Aborted(s) THEN "indeterminate"
    ELSE IF Of(s, "session.error") \cup Of(s, "model.call_failure") \cup Of(s, "model.call_final_result") # {}
         THEN "drop"
    ELSE IF Of(s, "session.idle") = {} THEN "indeterminate" ELSE "none"

\* _SETTLING
Settles(e) == e.type \in {"session.idle", "session.error", "session.shutdown"} /\ e.says # "autoswitch"

\* _settled_after
SettledAfter(s, at) ==
    /\ ~DispatchOpen(SubSeq(s, 1, at - 1))
    /\ \A i \in (at + 1)..Len(s) : Settles(s[i])
    /\ ~Aborted(s)
    /\ \E i \in (at + 1)..Len(s) : s[i].type \in {"session.idle", "session.error"}

\* _figures_agree, of what these events carry.
FiguresAgree(s, total) == \A i \in DOMAIN s : s[i].by = "main"

\* _ai_units and _bill: the last checkpoint's count, or none.
Bill(s) ==
    LET marks == Of(s, "session.usage_checkpoint") IN
    IF marks = {} THEN {}
    ELSE LET total == s[Last(marks)].n IN
         IF /\ \A i, j \in marks : i < j => s[i].n <= s[j].n
            /\ SettledAfter(s, Last(marks)) /\ FiguresAgree(s, total)
            /\ total > 0 \/ ~MaySpend(s)
         THEN {total} ELSE {}

\* _admitted: R1.0's allow-list and its conditions.
Admitted(e) ==
    /\ e.type # "session.compaction_complete"
    /\ e.by = "main"
    /\ e.type = "model.call_failure" => e.says = "top_level"
    /\ e.says # "other"

\* _one_operation
OneOperation(s) ==
    /\ Cardinality(Of(s, "model.call_final_result")) = 1
    /\ \A i \in Of(s, "model.call_final_result") :
         s[i].says = "success" /\ \A j \in Of(s, "model.call_failure") : j < i
    /\ \A i \in Of(s, "model.call_finished") : s[i].says = "success"
    /\ Of(s, "session.error") = {}

\* _ended
AfterTurn == {"session.usage_checkpoint", "session.idle", "session.shutdown"}
Ended(s) ==
    /\ Cardinality(Of(s, "assistant.turn_end")) = 1
    /\ Of(s, "session.idle") # {} /\ ~Aborted(s)
    /\ \A i \in Of(s, "assistant.turn_end") : \A j \in (i + 1)..Len(s) : s[j].type \in AfterTurn
    /\ \A i \in Of(s, "assistant.turn_end") : i < Last(Of(s, "session.idle"))

\* _witnessed: the reply is whole, and what was asked for.
Witnessed(s) ==
    /\ \A i \in DOMAIN s : Admitted(s[i])
    /\ Cardinality(Of(s, "assistant.message")) = 1
    /\ OneOperation(s) /\ Ended(s)

-----------------------------------------------------------------------------
(* The host: ask_copilot, and ChatCopilot._generate over what it returned.  *)

Settled == \E i \in Of(seen, "session.idle") : TRUE
Failed == \E i \in Of(seen, "session.error") : Settles(seen[i])

\* The wait ended with the main agent's idle; what was heard until now is returned.
Return ==
    /\ Listening
    /\ Settled
    /\ verdict' =
         IF ~MaySpend(seen) /\ Failure(seen) # "none" THEN [NoVerdict EXCEPT !.as = Failure(seen)]
         ELSE [as |-> "reply", charge |-> Bill(seen), finish |-> Witnessed(seen)]
    /\ UNCHANGED <<seen, open, spent, used, idled>>

\* The deadline, or the grace after an error, with no idle: indeterminate, and the
\* session is asked to stop.
GiveUp ==
    /\ Listening
    /\ verdict' = [NoVerdict EXCEPT !.as = "indeterminate"]
    /\ UNCHANGED <<seen, open, spent, used, idled>>

\* A session that was judged may still spend what it was left running.
Unheard(a) ==
    /\ verdict.as \in {"drop", "reply"}
    /\ open[a] \in Models
    /\ Works(a, open[a])
    /\ open' = [open EXCEPT ![a] = "answered"]
    /\ UNCHANGED <<seen, idled, verdict>>

Next ==
    \/ \E a \in Agents :
         \/ \E model \in Models : CallStart(a, model)
         \/ Answer(a) \/ CallFinished(a) \/ CallFailure(a) \/ Unheard(a)
    \/ FinalResult \/ Compaction \/ Checkpoint \/ TurnEnd \/ SessionError \/ SessionIdle
    \/ Return \/ GiveUp

Spec == Init /\ [][Next]_vars

-----------------------------------------------------------------------------
\* R2.10: a call that is a drop, and so is sent again, cost nothing and will not.
DropsAreFree == verdict.as = "drop" => Cost = 0 /\ Running = {}

\* R2.3: a call is charged the session's whole cost, or not known: never less.
NeverTheLower == \A charge \in verdict.charge : charge >= Cost /\ Running = {}

\* R1: an answer counts as the one asked for only if the pinned model alone, and no
\* sub-agent, worked in its session.
OnlyThePin == verdict.finish => used = {"pin"}

CallSound == DropsAreFree /\ NeverTheLower /\ OnlyThePin

-----------------------------------------------------------------------------
(* What the properties rest on: until it is judged, the session has told   *)
(* of all that runs in it and of all it has cost.                          *)

Types ==
    {"model.call_start", "model.call_finished", "model.call_failure", "model.call_final_result",
     "assistant.message", "assistant.turn_end", "session.compaction_complete",
     "session.usage_checkpoint", "session.error", "session.idle"}
Words ==
    Models \cup {"success", "error", "rejected", "top_level", "subagent", "http_5xx", "units", "end",
                "autoswitch", "final", "done", "aborted"}

TypeOK ==
    /\ seen \in Seq([type : Types, by : Agents, says : Words, n : Int])
    /\ open \in [Agents -> {"no", "answered"} \cup Models]
    /\ spent \in [Agents -> Nat] /\ used \subseteq Models /\ idled \in BOOLEAN
    /\ verdict \in [as : {"none", "indeterminate", "drop", "reply"}, charge : SUBSET Int, finish : BOOLEAN]

\* The work of a model is told by an answer that names it, or by what R1.0 does not admit.
TellsOf(e, model) ==
    \/ e.type = "assistant.message" /\ e.says = model
    \/ e.type = "model.call_finished" /\ e.says = "rejected"
    \/ e.type = "session.compaction_complete"

WorkTold ==
    /\ OpenAfter(seen)[Len(seen)] = Cardinality(Running)
    /\ Cost > 0 => \E i \in DOMAIN seen : ~Quiet(seen[i])
    /\ spent["sub"] > 0 \/ open["sub"] # "no" => \E i \in DOMAIN seen : seen[i].by = "sub"
    /\ \A a \in Agents : open[a] = "other" => \E i \in DOMAIN seen : seen[i].says = "other"
    /\ \A model \in used : \E i \in DOMAIN seen : TellsOf(seen[i], model)
    /\ \A i \in Of(seen, "assistant.message") : seen[i].says \in used

\* A checkpoint of the main agent's work, at rest, is of all of it while what comes
\* after only settles the session.
FinalAt(i) ==
    /\ ~DispatchOpen(SubSeq(seen, 1, i - 1))
    /\ \A j \in (i + 1)..Len(seen) : Settles(seen[j])
CheckpointTrue ==
    (\A i \in DOMAIN seen : seen[i].by = "main") =>
        \A i \in Of(seen, "session.usage_checkpoint") : FinalAt(i) => seen[i].n = Cost /\ Running = {}

CopilotInv ==
    /\ TypeOK
    /\ Listening => verdict = NoVerdict /\ WorkTold /\ CheckpointTrue
    /\ DropsAreFree /\ NeverTheLower /\ OnlyThePin
    /\ verdict.finish => \A a \in Agents : open[a] # "other"
=============================================================================
