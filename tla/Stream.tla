------------------------------- MODULE Stream -------------------------------
(***************************************************************************)
(* The case stream (api/stream.py, api/events.py, read_case_events and     *)
(* _TailResponse of api/app.py): one browser's tail of a case and of a     *)
(* run of it.  A tail follows two sequences, numbered separately, with one *)
(* cursor; it stops when the watcher's standing does.  The browser reads   *)
(* its documents again at every open, and resumes after the last frame it  *)
(* was sent.                                                               *)
(*                                                                         *)
(* A row is appended and numbered in one unit under its case's or run's    *)
(* lock, so a reader sees every row below the last one it sees.            *)
(***************************************************************************)
EXTENDS Naturals, Sequences, FiniteSets, SequencesExt

CONSTANTS
    MaxRows,    \* bounds the rows of the two sequences together
    Page,       \* ACTIONS_PAGE and RUN_PAGE
    MaxFaults   \* bounds the changes of standing, refusals and connections lost

VARIABLES
    audit,      \* the case's audit events: whether each has a name to stream
    events,     \* the run's events
    standing,   \* whether the watcher may read the case
    faults,
    tail,       \* the server's end: its step, cursor, and rows of this poll
    marker,     \* the browser's lastEventId
    docs,       \* whether the documents are still to be read since the open
    known,      \* history: the rows the browser was sent or read past
    between,    \* history: rows a tail that resumed from the heads began after
    late        \* history: frames sent on this tail since the standing was lost

store == <<audit, events, standing>>
vars == <<store, faults, tail, marker, docs, known, between, late>>

Fault == faults < MaxFaults /\ faults' = faults + 1

NoMarker == <<0, 0, "NONE">>
Heads == <<Len(audit), Len(events)>>
Row(half, seq) == <<half, seq>>

\* TERMINAL: where the run's first terminal event is, if it has one.
Terminals == {i \in DOMAIN events : events[i] = "TERMINAL"}
Terminal == IF Terminals = {} THEN Len(events) + 1 ELSE CHOOSE i \in Terminals : \A j \in Terminals : i <= j

\* STREAM_NAMES
Named(row) == IF row[1] = "AUDIT" THEN audit[row[2]] = "NAMED" ELSE TRUE
Rows == {Row("AUDIT", i) : i \in DOMAIN audit} \cup {Row("RUN", i) : i \in DOMAIN events}
UpTo(at) == {r \in Rows : r[2] <= at[IF r[1] = "AUDIT" THEN 1 ELSE 2]}

Closed == [step |-> "closed", at |-> <<0, 0>>, open |-> FALSE, pending |-> <<>>]

Init ==
    /\ audit = <<>> /\ events = <<>>
    /\ standing = TRUE /\ faults = 0
    /\ tail = Closed
    /\ marker = NoMarker
    /\ docs = FALSE
    /\ known = {} /\ between = {} /\ late = 0

-----------------------------------------------------------------------------
(* The case and the run go on.                                             *)

Act(kind) ==
    /\ Len(audit) + Len(events) < MaxRows
    /\ audit' = Append(audit, kind)
    /\ UNCHANGED <<events, standing, faults, tail, marker, docs, known, between, late>>

\* After its terminal a run takes only late bills (F16).
RunEvent(kind) ==
    /\ Len(audit) + Len(events) < MaxRows
    /\ kind = "BILL" \/ Terminals = {}
    /\ events' = Append(events, kind)
    /\ UNCHANGED <<audit, standing, faults, tail, marker, docs, known, between, late>>

Move ==
    /\ Fault
    /\ standing' = ~standing
    /\ late' = 0
    /\ UNCHANGED <<audit, events, tail, marker, docs, known, between>>

-----------------------------------------------------------------------------
(* The browser.                                                            *)

At(step) == tail.step = step
Go(t) == tail' = t

\* VisibleCase, then the slot: a refusal leaves the source closed, and the next
\* one is a new source, with no Last-Event-ID.
Refuse ==
    /\ At("closed")
    /\ marker # NoMarker
    /\ Fault
    /\ marker' = NoMarker
    /\ UNCHANGED <<store, tail, docs, known, between, late>>

\* The response starts, and with it the browser's open event.
Open ==
    /\ At("closed") /\ standing
    /\ Go([Closed EXCEPT !.step = "heads"])
    /\ docs' = TRUE /\ late' = 0
    /\ UNCHANGED <<store, faults, marker, known, between>>

\* onOpen: the visible documents are read, and hold whatever the rows say.
Refetch ==
    /\ docs /\ standing
    /\ docs' = FALSE
    /\ known' = known \cup Rows
    /\ UNCHANGED <<store, faults, tail, marker, between, late>>

\* The tab, the network or the process goes away; the browser keeps its marker.
Drop ==
    /\ ~At("closed")
    /\ Fault
    /\ Go(Closed)
    /\ UNCHANGED <<store, marker, docs, known, between, late>>

-----------------------------------------------------------------------------
(* case_tail                                                               *)

\* parse_marker
ParseMarker ==
    IF marker = NoMarker \/ marker[1] > Len(audit) \/ marker[2] > Len(events)
    THEN Heads ELSE <<marker[1], marker[2]>>

\* _heads and the cursor: where delivery starts, and whether the run is read.
ReadHeads ==
    /\ At("heads")
    /\ Go([Closed EXCEPT !.step = "standing", !.at = ParseMarker, !.open = ParseMarker[2] < Terminal])
    /\ between' = IF marker # NoMarker \/ docs THEN between ELSE between \cup (Rows \ known)
    /\ UNCHANGED <<store, faults, marker, docs, known, late>>

\* _may_watch, before the cursor frame.
MayConnect ==
    /\ At("standing")
    /\ Go(IF standing THEN [tail EXCEPT !.step = "cursor"] ELSE Closed)
    /\ UNCHANGED <<store, faults, marker, docs, known, between, late>>

SendCursor ==
    /\ At("cursor")
    /\ marker' = <<tail.at[1], tail.at[2], "SENT">>
    /\ Go([tail EXCEPT !.step = "audit"])
    /\ late' = IF standing THEN 0 ELSE late + 1
    /\ UNCHANGED <<store, faults, docs, known, between>>

\* The rows after seq, at most a page of them.
After(s, seq) == [i \in 1..(IF Len(s) - seq < Page THEN Len(s) - seq ELSE Page) |-> seq + i]

\* _pending: the case's rows...
ReadAudit ==
    /\ At("audit")
    /\ Go([tail EXCEPT !.step = "run", !.pending =
            [i \in DOMAIN After(audit, tail.at[1]) |-> Row("AUDIT", After(audit, tail.at[1])[i])]])
    /\ UNCHANGED <<store, faults, marker, docs, known, between, late>>

\* Mutant: every row of the page, its terminal's late ones with it.
RunRowsAll == After(events, tail.at[2])

\* ... and the run's, in a statement of their own: the loop ends at its terminal.
RunRows == After(IF Terminals = {} THEN events ELSE SubSeq(events, 1, Terminal), tail.at[2])

ReadRun ==
    /\ At("run")
    /\ Go([tail EXCEPT !.step = "row", !.pending = IF ~tail.open THEN @
            ELSE @ \o [i \in DOMAIN RunRows |-> Row("RUN", RunRows[i])]])
    /\ UNCHANGED <<store, faults, marker, docs, known, between, late>>

\* The cursor of a row: its own half moved to it.
Past(at, row) == IF row[1] = "AUDIT" THEN <<row[2], at[2]>> ELSE <<at[1], row[2]>>

\* Mutant: a silent row is not sent, and the cursor stays at it.
SkipStay ==
    /\ At("row") /\ tail.pending # <<>> /\ ~Named(tail.pending[1])
    /\ Go([tail EXCEPT !.pending = SubSeq(@, 2, Len(@))])
    /\ UNCHANGED <<store, faults, marker, docs, known, between, late>>

\* A silent row moves the cursor and is not sent.
Skip ==
    /\ At("row") /\ tail.pending # <<>> /\ ~Named(tail.pending[1])
    /\ Go([tail EXCEPT !.at = Past(@, tail.pending[1]), !.pending = SubSeq(@, 2, Len(@))])
    /\ UNCHANGED <<store, faults, marker, docs, known, between, late>>

\* _may_watch, before each named frame.
MayWatch ==
    /\ At("row") /\ tail.pending # <<>> /\ Named(tail.pending[1])
    /\ Go(IF standing THEN [tail EXCEPT !.at = Past(@, tail.pending[1]), !.step = "frame"] ELSE Closed)
    /\ UNCHANGED <<store, faults, marker, docs, known, between, late>>

SendFrame ==
    /\ At("frame")
    /\ marker' = <<tail.at[1], tail.at[2], "SENT">>
    /\ known' = known \cup {tail.pending[1]}
    /\ LET row == tail.pending[1] IN
       Go([tail EXCEPT !.step = "row", !.pending = SubSeq(@, 2, Len(@)),
                       !.open = @ /\ ~(row[1] = "RUN" /\ row[2] = Terminal)])
    /\ late' = IF standing THEN 0 ELSE late + 1
    /\ UNCHANGED <<store, faults, docs, between>>

\* _may_watch at the end of a poll; the deadline may have passed.
EndPoll ==
    /\ At("row") /\ tail.pending = <<>>
    /\ Go(IF standing THEN [tail EXCEPT !.step = "audit"] ELSE Closed)
    /\ UNCHANGED <<store, faults, marker, docs, known, between, late>>

Deadline ==
    /\ At("row") /\ tail.pending = <<>>
    /\ Fault
    /\ Go(Closed)
    /\ UNCHANGED <<store, marker, docs, known, between, late>>

CaseTail ==
    \/ ReadHeads \/ MayConnect \/ SendCursor \/ ReadAudit \/ ReadRun
    \/ Skip \/ MayWatch \/ SendFrame \/ EndPoll

Next ==
    \/ \E kind \in {"NAMED", "SILENT"} : Act(kind)
    \/ \E kind \in {"PROGRESS", "TERMINAL", "BILL"} : RunEvent(kind)
    \/ Move
    \/ Refuse \/ Open \/ Refetch \/ Drop \/ Deadline
    \/ CaseTail

\* The server drives a tail it has; a browser opens again and reads its documents.
Fairness == WF_vars(CaseTail) /\ WF_vars(Open) /\ WF_vars(Refetch)

Spec == Init /\ [][Next]_vars /\ Fairness

-----------------------------------------------------------------------------
\* Whatever order the two sequences, the polls, the losses and the refetches
\* come in: every row at or before the browser's marker was sent to it, is in
\* documents it read or has still to read since the open, or is silent.  What no
\* tail tells it are rows committed between that read and the heads, on a tail
\* that had no marker to resume from.
NothingSkipped ==
    marker # NoMarker => \A r \in UpTo(marker) : Named(r) => docs \/ r \in known \cup between

\* F16: nothing after a run's terminal is sent, before or after a reconnect.
RunEnds == At("frame") => \A i \in DOMAIN tail.pending :
    tail.pending[i][1] = "RUN" => tail.pending[i][2] <= Terminal

\* Once standing is lost, at most the frame already judged is sent.
LastFrame == late <= 1

\* A frame sends a row once: the rows are the first after the cursor, in order.
InOrder ==
    tail.step \in {"row", "frame"} =>
        \A i, j \in DOMAIN tail.pending :
            i < j /\ tail.pending[i][1] = tail.pending[j][1] => tail.pending[i][2] < tail.pending[j][2]

TailSound == NothingSkipped /\ RunEnds /\ LastFrame /\ InOrder

\* What TailSound rests on: rows that every tail and every marker is past.
Tails == [step : {"closed", "heads", "standing", "cursor", "audit", "run", "row", "frame"},
          at : Nat \X Nat, open : BOOLEAN, pending : Seq({"AUDIT", "RUN"} \X Nat)]
TypeOK ==
    /\ audit \in Seq({"NAMED", "SILENT"}) /\ events \in Seq({"PROGRESS", "TERMINAL", "BILL"})
    /\ standing \in BOOLEAN /\ docs \in BOOLEAN /\ late \in Nat
    /\ tail \in Tails
    /\ marker \in Nat \X Nat \X {"SENT", "NONE"}
    /\ \A i, j \in Terminals : i = j

Within(at) == at[1] <= Len(audit) /\ at[2] <= Len(events)
Told(row) == docs \/ row \in known \cup between
Covered(at) ==
    /\ \A i \in 1..at[1] : audit[i] = "NAMED" => Told(Row("AUDIT", i))
    /\ \A i \in 1..at[2] : Told(Row("RUN", i))

\* The rows of a poll: the case's next k after the cursor, then the run's next.
Consecutive(at, rows, k) == \A i \in 1..Len(rows) :
    rows[i] = IF i <= k THEN Row("AUDIT", at[1] + i) ELSE Row("RUN", at[2] + (i - k))
Ends(at, k, n) ==
    /\ at[1] + k <= Len(audit)
    /\ n > 0 => at[2] + n <= Len(events) /\ at[2] + n <= Terminal
NextRows(at, rows, k) == Consecutive(at, rows, k) /\ Ends(at, k, Len(rows) - k)
Chained(at, rows) == \E k \in 0..Len(rows) : NextRows(at, rows, k)

\* Where the cursor was before the row it is at.
Before(at, row) == IF row[1] = "AUDIT" THEN <<at[1] - 1, at[2]>> ELSE <<at[1], at[2] - 1>>

TailInv ==
    /\ TypeOK
    /\ Within(marker) /\ Covered(marker)
    /\ tail.step \in {"standing", "cursor", "audit", "run", "row"} => Within(tail.at) /\ Covered(tail.at)
    /\ At("run") => NextRows(tail.at, tail.pending, Len(tail.pending))
    /\ At("row") => Chained(tail.at, tail.pending)
    /\ At("frame") => LET at == Before(tail.at, tail.pending[1]) IN
        /\ tail.pending # <<>> /\ at \in Nat \X Nat
        /\ Within(at) /\ Covered(at) /\ Chained(at, tail.pending)
    /\ late <= 1
    /\ standing \/ tail.step \in {"cursor", "frame"} => late = 0

\* A watcher who keeps its standing comes to know of every named row of the case,
\* and of the run up to its terminal; one who lost it is not served for ever.
Due(row) == row \in Rows /\ Named(row) /\ (row[1] = "RUN" => row[2] <= Terminal)
Reached(row) == row \in known \cup between \/ ~standing
Unserved == standing \/ At("closed")
TailLive ==
    /\ \A half \in {"AUDIT", "RUN"} : \A i \in 1..MaxRows : Due(Row(half, i)) ~> Reached(Row(half, i))
    /\ ~standing ~> Unserved
=============================================================================
