------------------------------- MODULE Console -------------------------------
(***************************************************************************)
(* One section of the console over one document: the Workspace's one       *)
(* flight, the reads a command's success asks for, the event tail that     *)
(* drives the first, and what the reader sees and is told.  The address    *)
(* names case and run, as Report's does; what moves is the document's      *)
(* identity, a new head revision.  A read is served at one moment of its   *)
(* flight.  The tail opens in two steps, as in Stream: the open event and  *)
(* its refetch, then the heads it is told from, unless the browser has a   *)
(* marker from before.                                                     *)
(***************************************************************************)
EXTENDS Naturals

CONSTANTS
    MaxChanges,     \* changes of the document
    MaxReads,       \* reads a command asks for
    MaxFaults       \* reads and connections that fail

Empty == [kind |-> "none", v |-> 0, id |-> 0]
Loading == [kind |-> "loading", v |-> 0, id |-> 0]
Unavailable == [kind |-> "unavailable", v |-> 0, id |-> 0]
Fault == [kind |-> "fault", v |-> 0, id |-> 0]
IsDocument(a) == a.kind = "document"

VARIABLES
    server,     \* the document's version and identity, whether the reader's standing is gone,
                \* and whether an identity is a view's mount key too (Report's is, the Model's is not)
    seq,        \* readSequence: the number of the latest read begun
    flight,     \* the Workspace's read: number, whether dirty, what it was served, whether the tail waits for it
    extra,      \* the mounted view's own read, after a command
    held,       \* displayed and pending, the reads they came from, interrupted, and the latest read taken
    view,       \* useDocumentRefetch: the document on screen, its read, the read of its last
                \* prop, whether a command's read failed; and the mount key
    tail,       \* connecting, opened, open (its heads read), asking, waiting or closed; news not yet
                \* delivered; whether shown as paused; whether the source was sent a frame to resume after
    left,       \* what remains of the command reads and the faults
    older,      \* history: a Reload put an answer on screen after a later read had ended
    untold      \* history: a change fell between the open and the heads of a tail without a marker,
                \* after the latest read was served, and none has begun since
vars == <<server, seq, flight, extra, held, view, tail, left, older, untold>>

NoFlight == [n |-> 0, dirty |-> FALSE, answer |-> Empty, asked |-> FALSE]
NoRead == [n |-> 0, answer |-> Empty]
NoView == [live |-> Empty, n |-> 0, seen |-> 0, failed |-> FALSE, mount |-> 0]

-----------------------------------------------------------------------------
(* What an answer does to the screen.                                      *)

\* adopt: the same identity replaces, another waits for Reload, a refetch that
\* says the view is gone replaces at once and one that says nothing replaces nothing.
Adopt(next, n) ==
    LET shown == held.displayed
        fresh == [displayed |-> next, of |-> n, pending |-> Empty, pend |-> 0, interrupted |-> FALSE, n |-> n] IN
    CASE ~IsDocument(shown) -> fresh
      [] IsDocument(shown) /\ next.kind = "unavailable" -> fresh
      [] IsDocument(shown) /\ next.kind = "fault" -> [held EXCEPT !.interrupted = TRUE, !.n = n]
      [] IsDocument(shown) /\ IsDocument(next) ->
            IF next.id = shown.id THEN fresh
            ELSE [held EXCEPT !.pending = next, !.pend = n, !.interrupted = FALSE, !.n = n]

MountOf(document) == IF server.remounts THEN document.id + 1 ELSE 1

\* The render of what is held: a view mounted under another key starts anew, and a
\* mounted one takes a new prop unless its own read is later.
Rendered(h) ==
    LET document == h.displayed
        new == [live |-> document, n |-> h.n, seen |-> h.of, failed |-> FALSE, mount |-> MountOf(document)] IN
    IF ~IsDocument(document) THEN NoView
    ELSE IF view.mount # MountOf(document) \/ (view.seen # h.of /\ h.n >= view.n) THEN new
    ELSE [view EXCEPT !.seen = h.of]

\* A view that goes takes its read with it.
Carried(v) == IF v.mount = view.mount THEN extra ELSE NoRead

\* tailWanted: not of a view the server says is gone; the Model's waits for a first answer.
Wanted(h) == h.displayed.kind # "unavailable" /\ (server.remounts \/ h.displayed # Loading)
Followed(h, t) ==
    IF ~Wanted(h) THEN [t EXCEPT !.state = "closed", !.news = FALSE, !.marked = FALSE]
    ELSE IF t.state = "closed" THEN [t EXCEPT !.state = "connecting"]
    ELSE t

\* Mutant: a read asked for in flight is that flight's.
DirtiedNot == flight

Dirtied == [flight EXCEPT !.dirty = TRUE]

\* Mutant: any answer is taken.
IsCurrentAny(n) == n > 0

\* reads.isCurrent
IsCurrent(n) == n = seq

\* load: one flight at a time; one asked for in flight marks it dirty.
Load(asked) ==
    /\ IF flight.n = 0
       THEN /\ seq' = seq + 1
            /\ flight' = [n |-> seq + 1, dirty |-> FALSE, answer |-> Empty, asked |-> asked]
       ELSE flight' = Dirtied /\ UNCHANGED seq
    /\ untold' = FALSE

\* The latest read is still to be served, or another follows it.
Coming ==
    \/ flight.dirty
    \/ \E r \in {<<flight.n, flight.answer>>, <<extra.n, extra.answer>>} : r = <<seq, Empty>>

Answers ==
    (IF server.gone THEN {Unavailable} ELSE {[kind |-> "document", v |-> server.v, id |-> server.id]})
    \cup (IF left.faults > 0 THEN {Fault} ELSE {})
Spent(answer) == IF answer = Fault THEN [left EXCEPT !.faults = @ - 1] ELSE left

-----------------------------------------------------------------------------
(* The server.                                                             *)

\* Rows after the marker are news whenever they come, and without one those after the heads.
Change ==
    /\ ~server.gone /\ server.v < MaxChanges
    /\ \E id \in {server.id, server.v + 1} : server' = [server EXCEPT !.v = @ + 1, !.id = id]
    /\ tail' = [tail EXCEPT !.news = @ \/ tail.marked \/ tail.state = "open"]
    /\ untold' = (untold \/ (tail.state = "opened" /\ ~tail.marked /\ ~Coming))
    /\ UNCHANGED <<seq, flight, extra, held, view, left, older>>

Revoke ==
    /\ ~server.gone
    /\ server' = [server EXCEPT !.gone = TRUE]
    /\ UNCHANGED <<seq, flight, extra, held, view, tail, left, older, untold>>

Serve ==
    /\ flight.n # 0 /\ flight.answer = Empty
    /\ \E a \in Answers : flight' = [flight EXCEPT !.answer = a] /\ left' = Spent(a)
    /\ UNCHANGED <<server, seq, extra, held, view, tail, older, untold>>

ServeExtra ==
    /\ extra.n # 0 /\ extra.answer = Empty
    /\ \E a \in Answers : extra' = [extra EXCEPT !.answer = a] /\ left' = Spent(a)
    /\ UNCHANGED <<server, seq, flight, held, view, tail, older, untold>>

-----------------------------------------------------------------------------
(* The page.                                                               *)

\* The flight's answer: shown if no later read has begun, and the tail that
\* asked stops only at one that is shown.
Arrive ==
    LET latest == IsCurrent(flight.n)
        h == IF latest THEN Adopt(flight.answer, flight.n) ELSE held
        v == Rendered(h)
        t == IF flight.asked
             THEN [tail EXCEPT !.state = IF latest /\ flight.answer.kind = "unavailable" THEN "closed" ELSE "waiting"]
             ELSE tail IN
    /\ flight.answer # Empty
    /\ held' = h /\ view' = v /\ extra' = Carried(v)
    /\ tail' = Followed(h, t)
    /\ IF flight.dirty
       THEN /\ seq' = seq + 1
            /\ flight' = [NoFlight EXCEPT !.n = seq + 1]
       ELSE flight' = NoFlight /\ UNCHANGED seq
    /\ older' = (older /\ ~(latest /\ IsDocument(flight.answer)))
    /\ UNCHANGED <<server, left, untold>>

\* A command succeeded and its view reads the document again.
Ask ==
    /\ view.mount # 0 /\ left.reads > 0
    /\ seq' = seq + 1
    /\ extra' = [n |-> seq + 1, answer |-> Empty]
    /\ left' = [left EXCEPT !.reads = @ - 1]
    /\ untold' = FALSE
    /\ UNCHANGED <<server, flight, held, view, tail, older>>

ArriveExtra ==
    /\ extra.answer # Empty
    /\ view' = IF ~IsCurrent(extra.n) THEN view
               ELSE [view EXCEPT !.live = IF IsDocument(extra.answer) THEN extra.answer ELSE @,
                                 !.n = extra.n, !.failed = ~IsDocument(extra.answer)]
    /\ extra' = NoRead
    /\ UNCHANGED <<server, seq, flight, held, tail, left, older, untold>>

Latest(a, b, c) == IF a >= b /\ a >= c THEN a ELSE IF b >= c THEN b ELSE c

Reload ==
    LET h == [held EXCEPT !.displayed = held.pending, !.of = held.pend, !.pending = Empty, !.pend = 0,
                          !.interrupted = FALSE]
        v == Rendered(h) IN
    /\ held.pending # Empty
    /\ held' = h /\ view' = v /\ extra' = Carried(v)
    /\ older' = (v.live = held.pending /\ held.pend < Latest(held.n, view.n, extra.n))
    /\ UNCHANGED <<server, seq, flight, tail, left, untold>>

Retry ==
    /\ held.displayed = Fault
    /\ Load(FALSE)
    /\ UNCHANGED <<server, extra, held, view, tail, left, older>>

-----------------------------------------------------------------------------
(* The tail.                                                               *)

\* The response starts, and with it the browser's open event: every open reads, the first included.
Open ==
    /\ tail.state = "connecting" /\ ~server.gone
    /\ tail' = [tail EXCEPT !.state = "opened", !.paused = FALSE]
    /\ Load(FALSE)
    /\ UNCHANGED <<server, extra, held, view, left, older>>

\* Mutant: delivery starts at the heads, whatever marker the browser sent.
HeadsAlways ==
    /\ tail.state = "opened"
    /\ tail' = [tail EXCEPT !.state = "open", !.news = FALSE]
    /\ UNCHANGED <<server, seq, flight, extra, held, view, left, older, untold>>

\* case_tail reads its heads: delivery starts there, or after the marker.
ReadHeads ==
    /\ tail.state = "opened"
    /\ tail' = [tail EXCEPT !.state = "open"]
    /\ UNCHANGED <<server, seq, flight, extra, held, view, left, older, untold>>

\* The cursor frame: what the source resumes after.
SendCursor ==
    /\ tail.state = "open" /\ ~tail.marked
    /\ tail' = [tail EXCEPT !.marked = TRUE]
    /\ UNCHANGED <<server, seq, flight, extra, held, view, left, older, untold>>

\* A named frame, after the cursor's.
Deliver ==
    /\ tail.state = "open" /\ tail.marked /\ tail.news
    /\ tail' = [tail EXCEPT !.news = FALSE]
    /\ Load(FALSE)
    /\ UNCHANGED <<server, extra, held, view, left, older>>

\* A refused stream asks the document whether to go on; a read in flight is no answer.  Its
\* source is closed, and the next one has no marker.
Refuse ==
    /\ tail.state = "connecting"
    /\ \/ server.gone /\ UNCHANGED left
       \/ left.faults > 0 /\ left' = [left EXCEPT !.faults = @ - 1]
    /\ tail' = [state |-> IF flight.n = 0 THEN "asking" ELSE "waiting",
                news |-> FALSE, paused |-> TRUE, marked |-> FALSE]
    /\ Load(TRUE)
    /\ UNCHANGED <<server, extra, held, view, older>>

\* The connection ends, at a poll that finds the standing gone too; the source seeks another.
Drop ==
    /\ tail.state \in {"opened", "open"}
    /\ \/ server.gone /\ UNCHANGED left
       \/ left.faults > 0 /\ left' = [left EXCEPT !.faults = @ - 1]
    /\ tail' = [tail EXCEPT !.state = "connecting", !.news = @ /\ tail.marked, !.paused = TRUE]
    /\ UNCHANGED <<server, seq, flight, extra, held, view, older, untold>>

Reconnect ==
    /\ tail.state = "waiting"
    /\ tail' = [tail EXCEPT !.state = "connecting"]
    /\ UNCHANGED <<server, seq, flight, extra, held, view, left, older, untold>>

-----------------------------------------------------------------------------
Init ==
    /\ \E remounts \in BOOLEAN : server = [v |-> 0, id |-> 0, gone |-> FALSE, remounts |-> remounts]
    /\ seq = 1 /\ flight = [NoFlight EXCEPT !.n = 1] /\ extra = NoRead
    /\ held = [displayed |-> Loading, of |-> 0, pending |-> Empty, pend |-> 0, interrupted |-> FALSE, n |-> 0]
    /\ view = NoView
    /\ tail = [state |-> IF server.remounts THEN "connecting" ELSE "closed",
               news |-> FALSE, paused |-> FALSE, marked |-> FALSE]
    /\ left = [reads |-> MaxReads, faults |-> MaxFaults]
    /\ older = FALSE /\ untold = FALSE

Reader == Ask \/ Reload \/ Retry
Network ==
    \/ Serve \/ ServeExtra \/ Arrive \/ ArriveExtra
    \/ Open \/ ReadHeads \/ SendCursor \/ Deliver \/ Refuse \/ Drop \/ Reconnect
Next == Change \/ Revoke \/ Reader \/ Network
Fairness ==
    /\ WF_vars(Serve) /\ WF_vars(Arrive) /\ WF_vars(Deliver) /\ WF_vars(Refuse) /\ WF_vars(Reconnect)
    /\ WF_vars(server.gone /\ Drop)
Spec == Init /\ [][Next]_vars /\ Fairness

-----------------------------------------------------------------------------
(* What the reader may rely on.                                            *)

TypeOK ==
    /\ server.v \in 0..MaxChanges
    /\ held.pending # Empty => IsDocument(held.displayed) /\ held.pend <= held.n
    /\ IsDocument(held.displayed) <=> view.mount # 0
    /\ flight.n <= seq /\ extra.n <= seq /\ held.n <= seq /\ view.n <= seq

Quiet == flight.n = 0 /\ extra.n = 0 /\ tail.state = "open" /\ ~tail.news
Marked == held.pending # Empty \/ held.interrupted \/ view.failed

\* Decisions 5 and 6, FE-2, FE-9: once nothing is on its way and the stream is open, a
\* document with no mark on it is the server's, but for one a Reload showed over a later read,
\* and for a change that neither the open's refetch nor a tail without a marker tells.
QuietIsCurrent ==
    Quiet /\ IsDocument(held.displayed) /\ ~Marked /\ ~older /\ ~untold => view.live.v = server.v

\* "A later request supersedes earlier reads, regardless of which finishes first": what a
\* mounted view shows never goes back, but by such a Reload.
NeverBack == [][view'.mount = view.mount /\ ~older' => view'.live.v >= view.live.v]_vars

\* Invariant 12: once the reader's standing is gone, so in the end is the view.
GoneLeaves == server.gone ~> held.displayed = Unavailable

-----------------------------------------------------------------------------
(* The inductive invariant of the part.                                    *)

Documents == [kind : {"document"}, v : Nat, id : Nat]

Typed ==
    /\ server \in [v : 0..MaxChanges, id : Nat, gone : BOOLEAN, remounts : BOOLEAN]
    /\ older \in BOOLEAN /\ untold \in BOOLEAN
    /\ seq \in Nat \ {0}
    /\ flight \in [n : Nat, dirty : BOOLEAN, answer : Documents \cup {Empty, Unavailable, Fault}, asked : BOOLEAN]
    /\ extra \in [n : Nat, answer : Documents \cup {Empty, Unavailable, Fault}]
    /\ held \in [displayed : Documents \cup {Loading, Unavailable, Fault}, of : Nat,
                 pending : Documents \cup {Empty}, pend : Nat, interrupted : BOOLEAN, n : Nat]
    /\ view \in [live : Documents \cup {Empty}, n : Nat, seen : Nat, failed : BOOLEAN, mount : Nat]
    /\ tail \in [state : {"connecting", "opened", "open", "asking", "waiting", "closed"},
                news : BOOLEAN, paused : BOOLEAN, marked : BOOLEAN]

\* A read has a number of its own, no flight is older than what was taken, and what waits
\* for a Reload is a later read than what is shown.
Numbered ==
    /\ flight.n <= seq /\ extra.n <= seq /\ held.of <= held.n /\ held.n <= seq /\ view.n <= seq
    /\ flight.n # 0 => held.n < flight.n /\ flight.n \notin {view.n, extra.n}
    /\ extra.n # 0 => held.n # extra.n
    /\ flight.n = 0 => flight.answer = Empty /\ ~flight.dirty
    /\ extra.n = 0 => extra.answer = Empty
    /\ held.pending # Empty => IsDocument(held.displayed) /\ held.of < held.pend /\ held.pend <= held.n /\ ~older

\* What is mounted is what is displayed, under its key and with its last prop.
Mounted ==
    IF IsDocument(held.displayed)
    THEN view.mount = MountOf(held.displayed) /\ view.seen = held.of /\ IsDocument(view.live)
    ELSE view = NoView /\ extra = NoRead

AsServed(a) == IsDocument(a) => a.v = server.v

\* The stream is up, has nothing to say, and left nothing unsaid.
Still == tail.state \in {"opened", "open"} /\ ~tail.news /\ ~untold

\* While the stream is still and no flight is to be flown again, the latest read is as the
\* server is: on its way, or where the last one that ended left it.
LatestTrue ==
    Still /\ ~flight.dirty =>
        \/ flight.n = seq /\ AsServed(flight.answer)
        \/ extra.n = seq /\ AsServed(extra.answer)
        \/ /\ flight.n # seq /\ extra.n # seq
           /\ held.n = seq \/ view.n = seq \/ older
           /\ held.pend = seq => AsServed(held.pending)
           /\ IsDocument(held.displayed) /\ ~older /\ ~view.failed /\ (view.n = seq \/ ~Marked) => AsServed(view.live)

\* The latest read, and what waits from a read later than the view's, go back on nothing.
Forward ==
    /\ view.live.v <= server.v
    /\ held.pending # Empty => held.pending.v <= server.v /\ (held.pend >= view.n => view.live.v <= held.pending.v)
    /\ \A r \in {<<flight.n, flight.answer>>, <<extra.n, extra.answer>>} :
        IsDocument(r[2]) =>
            /\ r[2].v <= server.v
            /\ r[1] = seq => view.live.v <= r[2].v /\ (held.pending # Empty => held.pending.v <= r[2].v)

ConsoleInv == Typed /\ Numbered /\ Mounted /\ LatestTrue /\ Forward
=============================================================================
