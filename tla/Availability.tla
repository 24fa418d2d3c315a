---------------------------- MODULE Availability ----------------------------
(***************************************************************************)
(* What the console offers (caos/api/commands/availability.py over the     *)
(* facts of api/reads/run.py): for each command on a run, the code it      *)
(* would refuse with now, or none.  Authority models what the commands do. *)
(***************************************************************************)
EXTENDS Authority

\* _floor, before every action's own checks.
FloorCode(u, floor) == IF Satisfies(u, floor) THEN "OK" ELSE "NOT_AUTHORISED"

\* RunFacts, as read by a process of build b.
InputPinned(r) == pin[r] # None
ThisBuild(r, b) == InputPinned(r) /\ pin[r].build = b
EvidenceLive(r) == InputPinned(r) /\ SourcesLive(r)
\* gate_state of every gate.
GatesReleased(r) == InputPinned(r) /\ \A g \in Gate : Approved(r, g) /\ SourcesLive(r)

PinChecks(r) == <<
    <<InputPinned(r), "RUN_INPUT_ALREADY_PINNED">>,
    <<Live = {}, "SOURCE_PACK_EMPTY">>,
    <<status[r] # "RUNNING", "RUN_NOT_RUNNING">> >>

ApproveChecks(r) == <<
    <<~InputPinned(r), "RUN_INPUT_NOT_PINNED">>,
    <<status[r] # "RUNNING", "RUN_NOT_RUNNING">>,
    <<~EvidenceLive(r), "EVIDENCE_NOT_AVAILABLE">> >>

QueueChecks(r, b) == <<
    <<~InputPinned(r), "RUN_INPUT_NOT_PINNED">>,
    <<~ThisBuild(r, b), "ORCHESTRATION_BUILD_MOVED">>,
    <<status[r] # "RUNNING", "RUN_NOT_RUNNING">>,
    <<~EvidenceLive(r), "EVIDENCE_NOT_AVAILABLE">>,
    <<~GatesReleased(r), "GATE_APPROVAL_MISMATCH">> >>

FullCheck(u) == << <<Full(u), "QUEUED_RUNS_LIMIT_REACHED">> >>

StartChecks(u, r, b) ==
    QueueChecks(r, b) \o << <<work[r] # "NONE", "RUN_ALREADY_STARTED">> >> \o FullCheck(u)

\* Mutant: the place is counted before the run is known to be stopped.
RetryChecksFullFirst(u, r, b) ==
    QueueChecks(r, b) \o FullCheck(u) \o <<
        <<stop[r] = "OVER", "BUDGET_CHARGE_OVER_RESERVATION">>,
        <<work[r] # "STOPPED" \/ cancel[r], "RUN_NOT_STOPPED">> >>

RetryChecks(u, r, b) ==
    QueueChecks(r, b) \o <<
        <<stop[r] = "OVER", "BUDGET_CHARGE_OVER_RESERVATION">>,
        <<work[r] # "STOPPED" \/ cancel[r], "RUN_NOT_STOPPED">> >> \o FullCheck(u)

CancelChecks(r) == <<
    <<status[r] # "RUNNING" \/ work[r] = "DONE", "RUN_NOT_RUNNING">>,
    <<work[r] = "CLAIMED" /\ cancel[r], "RUN_CANCEL_REQUESTED">> >>

Offered(u, floor, checks) ==
    IF FloorCode(u, floor) # "OK" THEN "NOT_AUTHORISED" ELSE FirstRefusal(checks)

-----------------------------------------------------------------------------
\* availability.py:3-5, of an action that takes what the client was shown as it
\* is now: it is offered exactly when its command would not refuse, and refused
\* with the command's own code.
OfferedIsAnswered ==
    \A u \in Users, r \in Created, b \in Builds :
        /\ Offered(u, "WRITER", PinChecks(r)) = Answer(Request("PIN", u, r, b))
        /\ \A g \in Gate :
             Offered(u, "APPROVER", ApproveChecks(r))
                 = Answer(Request("APPROVE", u, r, <<g, Preview(r, g)>>))
        /\ Offered(u, "WRITER", StartChecks(u, r, b)) = Answer(Request("START", u, r, b))
        /\ Offered(u, "WRITER", RetryChecks(u, r, b)) = Answer(Request("RETRY", u, r, b))
        /\ work[r] # "CLAIMED" =>
             Offered(u, "WRITER", CancelChecks(r)) = Answer(Request("CANCEL", u, r, None))
=============================================================================
