---------------------------- MODULE ServicesProofs ----------------------------
(***************************************************************************)
(* A stream's tail, a qualification and a model's call, for every number   *)
(* of rows, pages, faults, cases, tries and events, and for any time.      *)
(***************************************************************************)
EXTENDS MCServices, SequenceTheorems, FiniteSetTheorems, WellFoundedInduction, TLAPS

-----------------------------------------------------------------------------
(* The stream's state, by the names it has in Stream.                      *)

audit == x1
events == x2
standing == x3
tail == x5
marker == x6
docs == x7
known == x8
between == x9
late == x10

USE DEF audit, events, standing, tail, marker, docs, known, between, late, Stream!Tails

\* What a row says of the log it is in, step by step: it is there, and says what it said.
LEMMA Appended ==
    ASSUME NEW S, NEW s \in Seq(S), NEW e \in S
    PROVE  /\ Append(s, e) \in Seq(S) /\ Len(Append(s, e)) = Len(s) + 1
           /\ \A i \in 1..Len(s) : Append(s, e)[i] = s[i]
           /\ Append(s, e)[Len(s) + 1] = e
    BY AppendProperties

TerminalFacts ==
    /\ Stream!Terminal \in 1..(Len(events) + 1)
    /\ Stream!Terminals = {} => Stream!Terminal = Len(events) + 1
    /\ \A i \in Stream!Terminals : Stream!Terminal = i

LEMMA TerminalIs == Stream!TypeOK => TerminalFacts
<1> SUFFICES ASSUME Stream!TypeOK PROVE TerminalFacts
    OBVIOUS
<1>1. CASE Stream!Terminals = {}
    BY <1>1 DEF Stream!TypeOK, Stream!Terminal, TerminalFacts
<1>2. CASE Stream!Terminals # {}
    <2>1. PICK t \in Stream!Terminals : TRUE
        BY <1>2
    <2>2. Stream!Terminals = {t} /\ t \in 1..Len(events)
        BY <2>1 DEF Stream!TypeOK, Stream!Terminals
    <2>3. \E i \in Stream!Terminals : \A j \in Stream!Terminals : i <= j
        BY <2>2
    <2>4. Stream!Terminal \in Stream!Terminals
        BY <1>2, <2>3 DEF Stream!Terminal
    <2> QED
        BY <2>2, <2>4 DEF Stream!TypeOK, TerminalFacts
<1> QED
    BY <1>1, <1>2

LEMMA TerminalNext == Stream!TypeOK' => TerminalFacts'
    BY TerminalIs, PTL

LEMMA Numbers ==
    ASSUME Stream!TypeOK
    PROVE  /\ Len(audit) \in Nat /\ Len(events) \in Nat /\ Stream!Terminal \in Nat
           /\ tail.at[1] \in Nat /\ tail.at[2] \in Nat /\ Len(tail.pending) \in Nat
           /\ marker[1] \in Nat /\ marker[2] \in Nat
    BY TerminalIs DEF TerminalFacts, Stream!TypeOK

-----------------------------------------------------------------------------
(* TailInv, in the parts a step disturbs.                                  *)

Marked == Stream!Within(marker) /\ Stream!Covered(marker)
Placed == tail.step \in {"standing", "cursor", "audit", "run", "row"} => Stream!Within(tail.at) /\ Stream!Covered(tail.at)
Paged ==
    /\ Stream!At("run") => Stream!NextRows(tail.at, tail.pending, Len(tail.pending))
    /\ Stream!At("row") => Stream!Chained(tail.at, tail.pending)
Framed ==
    Stream!At("frame") => LET at == Stream!Before(tail.at, tail.pending[1]) IN
        /\ tail.pending # <<>> /\ at \in Nat \X Nat
        /\ Stream!Within(at) /\ Stream!Covered(at) /\ Stream!Chained(at, tail.pending)
Judged == late <= 1 /\ (standing \/ tail.step \in {"cursor", "frame"} => late = 0)

LEMMA TailParts == Stream!TailInv <=> Stream!TypeOK /\ Marked /\ Placed /\ Paged /\ Framed /\ Judged
    BY DEF Stream!TailInv, Marked, Placed, Paged, Framed, Judged

LEMMA TailPartsNext == Stream!TailInv' <=> (Stream!TypeOK /\ Marked /\ Placed /\ Paged /\ Framed /\ Judged)'
    BY TailParts, PTL

\* What the logs, the browser and the readers do leaves a tail where it is: the
\* logs only grow, and what was told stays told.
Grown ==
    /\ Stream!TypeOK /\ Stream!TypeOK'
    /\ Len(audit) <= Len(audit') /\ Len(events) <= Len(events') /\ Stream!Terminal <= Stream!Terminal'
    /\ \A i \in 1..Len(audit) : audit'[i] = audit[i]
    /\ \A r \in Stream!Rows : Stream!Told(r) => docs' \/ r \in known' \cup between'

LEMMA AtMost == ASSUME NEW a \in Int, NEW b \in Int, NEW c \in Int, a <= b, b <= c PROVE a <= c
    OBVIOUS

LEMMA GrownLengths ==
    ASSUME Grown
    PROVE  /\ Len(audit) \in Nat /\ Len(audit') \in Nat /\ Len(events) \in Nat /\ Len(events') \in Nat
           /\ Stream!Terminal \in Nat /\ Stream!Terminal' \in Nat
           /\ Len(audit) <= Len(audit') /\ Len(events) <= Len(events') /\ Stream!Terminal <= Stream!Terminal'
<1>1. Len(audit) \in Nat /\ Len(audit') \in Nat /\ Len(events) \in Nat /\ Len(events') \in Nat
    BY SMTT(30) DEF Grown, Stream!TypeOK
<1>2. Stream!Terminal \in Nat /\ Stream!Terminal' \in Nat
    BY Numbers, TerminalNext, <1>1 DEF TerminalFacts, Grown
<1> QED
    BY <1>1, <1>2, Zenon DEF Grown

LEMMA PlaceGrows ==
    ASSUME Grown, NEW at \in Nat \X Nat, Stream!Within(at), Stream!Covered(at)
    PROVE  /\ at[1] <= Len(audit') /\ at[2] <= Len(events')
           /\ \A i \in 1..at[1] : audit'[i] = "NAMED" => docs' \/ <<"AUDIT", i>> \in known' \cup between'
           /\ \A i \in 1..at[2] : docs' \/ <<"RUN", i>> \in known' \cup between'
<1>0. at[1] <= Len(audit) /\ at[2] <= Len(events)
    BY DEF Stream!Within
<1>1. at[1] <= Len(audit') /\ at[2] <= Len(events')
    BY <1>0, GrownLengths
<1>2. ASSUME NEW i \in 1..at[1], audit'[i] = "NAMED" PROVE docs' \/ <<"AUDIT", i>> \in known' \cup between'
    <2>1. i \in 1..Len(audit)
        BY <1>0, GrownLengths
    <2>2. audit[i] = "NAMED"
        BY <1>2, <2>1, Zenon DEF Grown
    <2>3. DOMAIN audit = 1..Len(audit)
        BY DEF Grown, Stream!TypeOK
    <2>4. Stream!Row("AUDIT", i) \in Stream!Rows
        BY <2>1, <2>3, Zenon DEF Stream!Rows
    <2>5. Stream!Told(Stream!Row("AUDIT", i))
        BY <1>2, <2>2, Zenon DEF Stream!Covered
    <2> QED
        BY <2>4, <2>5, Zenon DEF Grown, Stream!Row
<1>3. ASSUME NEW i \in 1..at[2] PROVE docs' \/ <<"RUN", i>> \in known' \cup between'
    <2>1. i \in 1..Len(events)
        BY <1>0, GrownLengths
    <2>3. DOMAIN events = 1..Len(events)
        BY DEF Grown, Stream!TypeOK
    <2>4. Stream!Row("RUN", i) \in Stream!Rows
        BY <2>1, <2>3, Zenon DEF Stream!Rows
    <2>5. Stream!Told(Stream!Row("RUN", i))
        BY <1>3, Zenon DEF Stream!Covered
    <2> QED
        BY <2>4, <2>5, Zenon DEF Grown, Stream!Row
<1> QED
    BY <1>1, <1>2, <1>3

LEMMA RowsGrow ==
    ASSUME Grown, NEW at \in Nat \X Nat, NEW k \in Nat, NEW n \in Int, Stream!Ends(at, k, n)
    PROVE  /\ at[1] + k <= Len(audit')
           /\ n > 0 => at[2] + n <= Len(events') /\ at[2] + n <= Stream!Terminal'
<1>1. at[1] + k <= Len(audit) /\ (n > 0 => at[2] + n <= Len(events) /\ at[2] + n <= Stream!Terminal)
    BY DEF Stream!Ends
<1>2. at[1] + k \in Int /\ at[2] + n \in Int
    OBVIOUS
<1>3. /\ Len(audit) \in Int /\ Len(audit') \in Int /\ Len(events) \in Int /\ Len(events') \in Int
      /\ Stream!Terminal \in Int /\ Stream!Terminal' \in Int
    BY GrownLengths
<1> QED
    BY <1>1, <1>2, <1>3, GrownLengths, AtMost, Zenon

LEMMA MarkedStays ==
    ASSUME Grown, Marked, marker' = marker \/ marker' = Stream!NoMarker
    PROVE  Marked'
<1>1. CASE marker' = marker
    <2> DEFINE at == <<marker[1], marker[2]>>
    <2>1. at \in Nat \X Nat /\ at[1] = marker[1] /\ at[2] = marker[2] /\ Stream!Within(at) /\ Stream!Covered(at)
        BY DEF Marked, Grown, Stream!TypeOK, Stream!Within, Stream!Covered
    <2> HIDE DEF at
    <2>2. /\ at[1] <= Len(audit') /\ at[2] <= Len(events')
          /\ \A i \in 1..at[1] : audit'[i] = "NAMED" => docs' \/ <<"AUDIT", i>> \in known' \cup between'
          /\ \A i \in 1..at[2] : docs' \/ <<"RUN", i>> \in known' \cup between'
        BY <2>1, PlaceGrows
    <2> QED
        BY <1>1, <2>1, <2>2 DEF Marked, Stream!Within, Stream!Covered, Stream!Told, Stream!Row
<1>2. CASE marker' = Stream!NoMarker
    <2>1. marker'[1] = 0 /\ marker'[2] = 0
        BY <1>2 DEF Stream!NoMarker
    <2> QED
        BY <2>1, GrownLengths DEF Marked, Stream!Within, Stream!Covered
<1> QED
    BY <1>1, <1>2

LEMMA PlaceStays ==
    ASSUME Grown, Stream!Within(tail.at), Stream!Covered(tail.at), tail'.at = tail.at
    PROVE  (Stream!Within(tail.at) /\ Stream!Covered(tail.at))'
<1>1. tail.at \in Nat \X Nat
    BY DEF Grown, Stream!TypeOK
<1> QED
    BY <1>1, PlaceGrows DEF Stream!Within, Stream!Covered, Stream!Told, Stream!Row

\* A step that leaves the logs alone, and forgets nothing that was told.
LEMMA StoreKept ==
    ASSUME Stream!TypeOK, Stream!TypeOK', UNCHANGED <<audit, events>>,
           docs => docs' \/ Stream!Rows \subseteq known', known \subseteq known', between \subseteq between'
    PROVE  Grown /\ Stream!Terminal' = Stream!Terminal
<1>1. Stream!Terminal' = Stream!Terminal
    BY DEF Stream!Terminal, Stream!Terminals
<1>2. Stream!Terminal \in Int /\ Len(audit) \in Int /\ Len(events) \in Int
    BY Numbers
<1>3. \A r \in Stream!Rows : Stream!Told(r) => docs' \/ r \in known' \cup between'
    BY DEF Stream!Told
<1>4. Len(audit) <= Len(audit') /\ Len(events) <= Len(events') /\ Stream!Terminal <= Stream!Terminal'
    BY <1>1, <1>2
<1> QED
    BY <1>1, <1>3, <1>4 DEF Grown

LEMMA TailStays ==
    ASSUME Grown, Marked, Placed, Paged, Framed, tail' = tail,
           marker' = marker \/ marker' = Stream!NoMarker
    PROVE  (Marked /\ Placed /\ Paged /\ Framed)'
<1>0. /\ tail.at \in Nat \X Nat /\ tail.pending \in Seq({"AUDIT", "RUN"} \X Nat)
      /\ marker \in Nat \X Nat \X {"SENT", "NONE"} /\ marker' \in Nat \X Nat \X {"SENT", "NONE"}
    BY DEF Grown, Stream!TypeOK
<1>p. Len(tail.pending) \in Nat
    BY <1>0
<1> USE DEF Stream!Told, Stream!Row
<1>3. Marked'
    BY MarkedStays
<1>4. Placed'
    BY <1>0, PlaceGrows DEF Placed, Stream!Within, Stream!Covered
<1>5. Paged'
    <2>1. ASSUME NEW k \in 0..Len(tail.pending), Stream!NextRows(tail.at, tail.pending, k)
          PROVE  Stream!NextRows(tail.at, tail.pending, k)'
        <3>1. Stream!Consecutive(tail.at, tail.pending, k) /\ Stream!Ends(tail.at, k, Len(tail.pending) - k)
            BY <2>1 DEF Stream!NextRows
        <3>2. k \in Nat /\ Len(tail.pending) - k \in Int
            BY <1>p
        <3>3. Stream!Ends(tail.at, k, Len(tail.pending) - k)'
            BY <1>0, <3>1, <3>2, RowsGrow DEF Stream!Ends
        <3>4. Stream!Consecutive(tail.at, tail.pending, k)'
            BY <3>1 DEF Stream!Consecutive
        <3> QED
            BY <3>3, <3>4 DEF Stream!NextRows
    <2> QED
        BY <2>1, <1>p DEF Paged, Stream!At, Stream!Chained
<1>6. Framed'
    <2> DEFINE at == Stream!Before(tail.at, tail.pending[1])
    <2>1. SUFFICES ASSUME Stream!At("frame")
                   PROVE  (Stream!Within(at) /\ Stream!Covered(at) /\ Stream!Chained(at, tail.pending))'
        BY DEF Framed, Stream!At, Stream!Before
    <2>2. tail.pending # <<>> /\ at \in Nat \X Nat /\ Stream!Within(at) /\ Stream!Covered(at) /\ Stream!Chained(at, tail.pending)
        BY <2>1 DEF Framed
    <2>3. at' = at
        BY DEF Stream!Before
    <2> HIDE DEF at
    <2>4. (Stream!Within(at) /\ Stream!Covered(at))'
        BY <2>2, <2>3, PlaceGrows DEF Stream!Within, Stream!Covered
    <2>5. PICK k \in 0..Len(tail.pending) : Stream!NextRows(at, tail.pending, k)
        BY <2>2 DEF Stream!Chained
    <2>6. Stream!Consecutive(at, tail.pending, k) /\ Stream!Ends(at, k, Len(tail.pending) - k)
        BY <2>5 DEF Stream!NextRows
    <2>7. k \in Nat /\ Len(tail.pending) - k \in Int
        BY <1>p
    <2>8. Stream!Ends(at, k, Len(tail.pending) - k)'
        BY <2>2, <2>3, <2>6, <2>7, RowsGrow DEF Stream!Ends
    <2>9. Stream!Consecutive(at, tail.pending, k)'
        BY <2>3, <2>6 DEF Stream!Consecutive
    <2>10. Stream!Chained(at, tail.pending)'
        BY <2>8, <2>9 DEF Stream!Chained, Stream!NextRows
    <2> QED
        BY <2>4, <2>10
<1> QED
    BY <1>3, <1>4, <1>5, <1>6

LEMMA InitTail == Stream!Init => Stream!TailInv
<1> SUFFICES ASSUME Stream!Init PROVE Stream!TailInv
    OBVIOUS
<1>0. audit = <<>> /\ events = <<>> /\ Stream!Terminals = {}
    BY DEF Stream!Init, Stream!Terminals
<1>1. \A S : <<>> \in Seq(S)
    BY EmptySeq
<1>2. tail = Stream!Closed /\ marker = <<0, 0, "NONE">> /\ standing = TRUE /\ docs = FALSE /\ late = 0
    BY DEF Stream!Init, Stream!NoMarker
<1>3. tail \in Stream!Tails
    BY <1>1, <1>2 DEF Stream!Closed
<1>4. Stream!TypeOK
    BY <1>0, <1>1, <1>2, <1>3 DEF Stream!TypeOK
<1>5. tail.step = "closed"
    BY <1>2 DEF Stream!Closed
<1> QED
    BY <1>0, <1>2, <1>4, <1>5 DEF Stream!TailInv, Stream!Within, Stream!Covered, Stream!At

-----------------------------------------------------------------------------
(* The logs, the browser and the readers.                                  *)

LEMMA ActTail ==
    ASSUME Stream!TailInv, NEW kind \in {"NAMED", "SILENT"}, Stream!Act(kind)
    PROVE  Stream!TailInv'
<1>1. /\ audit' = Append(audit, kind)
      /\ UNCHANGED <<events, standing, tail, marker, docs, known, between, late>>
    BY DEF Stream!Act
<1>2. Stream!TypeOK /\ Marked /\ Placed /\ Paged /\ Framed /\ Judged
    BY TailParts
<1>3. audit \in Seq({"NAMED", "SILENT"})
    BY <1>2 DEF Stream!TypeOK
<1>4. /\ audit' \in Seq({"NAMED", "SILENT"}) /\ Len(audit') = Len(audit) + 1
      /\ \A i \in 1..Len(audit) : audit'[i] = audit[i]
    BY <1>1, <1>3, Appended
<1>5. Stream!Terminals' = Stream!Terminals /\ Stream!Terminal' = Stream!Terminal
    BY <1>1 DEF Stream!Terminals, Stream!Terminal
<1>6. Stream!TypeOK'
    BY <1>1, <1>2, <1>4, <1>5 DEF Stream!TypeOK
<1>7. Len(audit) <= Len(audit') /\ Len(events) <= Len(events') /\ Stream!Terminal <= Stream!Terminal'
    BY <1>1, <1>2, <1>4, <1>5, Numbers
<1>8. Grown
    BY <1>1, <1>2, <1>4, <1>6, <1>7 DEF Grown, Stream!Told
<1>9. Judged'
    BY <1>1, <1>2 DEF Judged
<1> QED
    BY <1>1, <1>2, <1>6, <1>8, <1>9, TailStays, TailPartsNext

LEMMA RunEventTail ==
    ASSUME Stream!TailInv, NEW kind \in {"PROGRESS", "TERMINAL", "BILL"}, Stream!RunEvent(kind)
    PROVE  Stream!TailInv'
<1>1. /\ events' = Append(events, kind) /\ (kind = "BILL" \/ Stream!Terminals = {})
      /\ UNCHANGED <<audit, standing, tail, marker, docs, known, between, late>>
    BY DEF Stream!RunEvent
<1>2. Stream!TypeOK /\ Marked /\ Placed /\ Paged /\ Framed /\ Judged
    BY TailParts
<1>3. events \in Seq({"PROGRESS", "TERMINAL", "BILL"}) /\ Len(events) \in Nat
    BY <1>2 DEF Stream!TypeOK
<1>4. /\ events' \in Seq({"PROGRESS", "TERMINAL", "BILL"}) /\ Len(events') = Len(events) + 1
      /\ \A i \in 1..Len(events) : events'[i] = events[i]
      /\ events'[Len(events) + 1] = kind
    BY <1>1, <1>3, Appended
<1>5. DOMAIN events = 1..Len(events) /\ DOMAIN events' = 1..(Len(events) + 1)
    BY <1>3, <1>4
<1>6. Stream!Terminals' = Stream!Terminals \/ (Stream!Terminals = {} /\ Stream!Terminals' = {Len(events) + 1})
    <2>1. Stream!Terminals' = Stream!Terminals \cup (IF kind = "TERMINAL" THEN {Len(events) + 1} ELSE {})
        BY <1>3, <1>4, <1>5 DEF Stream!Terminals
    <2> QED
        BY <1>1, <2>1
<1>7. Stream!TypeOK'
    BY <1>1, <1>2, <1>4, <1>6 DEF Stream!TypeOK
<1>8. Stream!Terminal <= Stream!Terminal'
    <2>1. TerminalFacts /\ TerminalFacts'
        BY <1>2, <1>7, TerminalIs, TerminalNext
    <2>2. CASE Stream!Terminals = {}
        BY <1>3, <1>4, <1>6, <2>1, <2>2 DEF TerminalFacts
    <2>3. CASE Stream!Terminals # {}
        <3>1. PICK t \in Stream!Terminals : TRUE
            BY <2>3
        <3>2. t \in Stream!Terminals'
            BY <1>6, <3>1
        <3> QED
            BY <1>3, <2>1, <3>1, <3>2 DEF TerminalFacts
    <2> QED
        BY <2>2, <2>3
<1>9. Len(audit) <= Len(audit') /\ Len(events) <= Len(events')
    BY <1>1, <1>2, <1>4, Numbers
<1>10. Grown
    BY <1>1, <1>2, <1>7, <1>8, <1>9 DEF Grown, Stream!Told
<1>11. Judged'
    BY <1>1, <1>2 DEF Judged
<1> QED
    BY <1>1, <1>2, <1>7, <1>10, <1>11, TailStays, TailPartsNext

LEMMA MoveTail == ASSUME Stream!TailInv, Stream!Move PROVE Stream!TailInv'
<1>1. standing' = ~standing /\ late' = 0 /\ UNCHANGED <<audit, events, tail, marker, docs, known, between>>
    BY DEF Stream!Move
<1>2. Stream!TypeOK /\ Marked /\ Placed /\ Paged /\ Framed
    BY TailParts
<1>3. Stream!TypeOK'
    BY <1>1, <1>2 DEF Stream!TypeOK, Stream!Terminals
<1>4. Grown
    BY <1>1, <1>2, <1>3, StoreKept
<1>5. Judged'
    BY <1>1 DEF Judged
<1> QED
    BY <1>1, <1>2, <1>3, <1>4, <1>5, TailStays, TailPartsNext

LEMMA RefuseTail == ASSUME Stream!TailInv, Stream!Refuse PROVE Stream!TailInv'
<1>1. /\ marker' = Stream!NoMarker
      /\ UNCHANGED <<audit, events, standing, tail, docs, known, between, late>>
    BY DEF Stream!Refuse, Stream!store
<1>2. Stream!TypeOK /\ Marked /\ Placed /\ Paged /\ Framed /\ Judged
    BY TailParts
<1>3. Stream!TypeOK'
    BY <1>1, <1>2 DEF Stream!TypeOK, Stream!Terminals, Stream!NoMarker
<1>4. Grown
    BY <1>1, <1>2, <1>3, StoreKept
<1>5. Judged'
    BY <1>1, <1>2 DEF Judged
<1> QED
    BY <1>1, <1>2, <1>3, <1>4, <1>5, TailStays, TailPartsNext

LEMMA RefetchTail == ASSUME Stream!TailInv, Stream!Refetch PROVE Stream!TailInv'
<1>1. /\ docs' = FALSE /\ known' = known \cup Stream!Rows
      /\ UNCHANGED <<audit, events, standing, tail, marker, between, late>>
    BY DEF Stream!Refetch, Stream!store
<1>2. Stream!TypeOK /\ Marked /\ Placed /\ Paged /\ Framed /\ Judged
    BY TailParts
<1>3. Stream!TypeOK'
    BY <1>1, <1>2 DEF Stream!TypeOK, Stream!Terminals
<1>4. Grown
    BY <1>1, <1>2, <1>3, StoreKept
<1>5. Judged'
    BY <1>1, <1>2 DEF Judged
<1> QED
    BY <1>1, <1>2, <1>3, <1>4, <1>5, TailStays, TailPartsNext

-----------------------------------------------------------------------------
(* The tail: where it opens, closes and starts from.                       *)

\* Where the tail has no rows, and where it has no place.
LEMMA Rowless == tail'.step \notin {"run", "row", "frame"} => Paged' /\ Framed'
    BY DEF Paged, Framed, Stream!At

LEMMA Placeless == tail'.step \in {"closed", "heads"} => (Placed /\ Paged /\ Framed)'
    BY Rowless DEF Placed

LEMMA ClosedTyped ==
    Stream!Closed \in Stream!Tails
    BY EmptySeq DEF Stream!Closed

\* A tail that ends, wherever it is.
LEMMA CloseTail ==
    ASSUME Stream!TailInv, tail' = Stream!Closed,
           UNCHANGED <<audit, events, standing, marker, docs, known, between, late>>
    PROVE  Stream!TailInv'
<1>1. Stream!TypeOK /\ Marked /\ Judged
    BY TailParts
<1>2. Stream!TypeOK'
    BY <1>1, ClosedTyped DEF Stream!TypeOK, Stream!Terminals
<1>3. Grown
    BY <1>1, <1>2, StoreKept
<1>4. tail'.step = "closed"
    BY DEF Stream!Closed
<1>5. Judged'
    BY <1>1, <1>4 DEF Judged
<1> QED
    BY <1>1, <1>2, <1>3, <1>4, <1>5, MarkedStays, Placeless, TailPartsNext

LEMMA OpenTail == ASSUME Stream!TailInv, Stream!Open PROVE Stream!TailInv'
<1>1. /\ tail' = [Stream!Closed EXCEPT !.step = "heads"] /\ docs' = TRUE /\ late' = 0
      /\ UNCHANGED <<audit, events, standing, marker, known, between>>
    BY DEF Stream!Open, Stream!Go, Stream!store
<1>2. Stream!TypeOK /\ Marked
    BY TailParts
<1>3. Stream!TypeOK'
    <2>1. tail' \in Stream!Tails
        BY <1>1, ClosedTyped
    <2>2. docs' \in BOOLEAN /\ late' \in Nat /\ Stream!Terminals' = Stream!Terminals
        BY <1>1 DEF Stream!Terminals
    <2> QED
        BY <1>1, <1>2, <2>1, <2>2 DEF Stream!TypeOK
<1>4. Grown
    BY <1>1, <1>2, <1>3, StoreKept
<1>5. tail'.step = "heads"
    BY <1>1 DEF Stream!Closed
<1>6. Judged'
    BY <1>1 DEF Judged
<1> QED
    BY <1>1, <1>2, <1>3, <1>4, <1>5, <1>6, MarkedStays, Placeless, TailPartsNext

LEMMA ReadHeadsTail == ASSUME Stream!TailInv, Stream!ReadHeads PROVE Stream!TailInv'
<1> DEFINE at == Stream!ParseMarker
<1>1. /\ tail' = [Stream!Closed EXCEPT !.step = "standing", !.at = at, !.open = at[2] < Stream!Terminal]
      /\ between' = IF marker # Stream!NoMarker \/ docs THEN between ELSE between \cup (Stream!Rows \ known)
      /\ UNCHANGED <<audit, events, standing, marker, docs, known, late>>
    BY DEF Stream!ReadHeads, Stream!Go, Stream!store
<1>2. Stream!TypeOK /\ Marked /\ Judged
    BY TailParts
<1>3. at = IF marker = Stream!NoMarker THEN <<Len(audit), Len(events)>> ELSE <<marker[1], marker[2]>>
    BY <1>2 DEF Stream!TypeOK, Marked, Stream!Within, Stream!ParseMarker, Stream!Heads
<1>4. at \in Nat \X Nat
    BY <1>2, <1>3 DEF Stream!TypeOK
<1>5. tail'.step = "standing" /\ tail'.at = at
    BY <1>1 DEF Stream!Closed
<1>6. Stream!TypeOK'
    <2> HIDE DEF at
    <2>1. (at[2] < Stream!Terminal) \in BOOLEAN
        OBVIOUS
    <2>2. tail' = [step |-> "standing", at |-> at, open |-> (at[2] < Stream!Terminal), pending |-> <<>>]
        BY <1>1, Zenon DEF Stream!Closed
    <2>3. <<>> \in Seq({"AUDIT", "RUN"} \X Nat)
        BY EmptySeq
    <2>4. tail' \in Stream!Tails
        BY <1>4, <2>1, <2>2, <2>3
    <2> QED
        BY <1>1, <1>2, <2>4 DEF Stream!TypeOK, Stream!Terminals
<1>7. Grown
    BY <1>1, <1>2, <1>6, StoreKept
<1>8. Stream!Within(at) /\ (marker # Stream!NoMarker => Stream!Covered(at))
    BY <1>2, <1>3 DEF Stream!TypeOK, Marked, Stream!Within, Stream!Covered
<1>9. Placed'
    <2> HIDE DEF at
    <2>1. CASE marker # Stream!NoMarker
        BY <1>4, <1>5, <1>7, <1>8, <2>1, PlaceGrows DEF Placed, Stream!Within, Stream!Covered, Stream!Told, Stream!Row
    <2>2. CASE marker = Stream!NoMarker
        <3>1. \A r \in Stream!Rows : docs \/ r \in known' \cup between'
            BY <1>1, <2>2
        <3>2. at[1] = Len(audit) /\ at[2] = Len(events)
            BY <1>3, <2>2
        <3>3. \A i \in 1..Len(audit) : <<"AUDIT", i>> \in Stream!Rows
            BY <1>2 DEF Stream!TypeOK, Stream!Rows, Stream!Row
        <3>4. \A i \in 1..Len(events) : <<"RUN", i>> \in Stream!Rows
            BY <1>2 DEF Stream!TypeOK, Stream!Rows, Stream!Row
        <3>5. Stream!Covered(tail.at)'
            BY <1>1, <1>5, <3>1, <3>2, <3>3, <3>4 DEF Stream!Covered, Stream!Told, Stream!Row
        <3>6. Stream!Within(tail.at)'
            BY <1>1, <1>5, <1>8 DEF Stream!Within
        <3> QED
            BY <3>5, <3>6 DEF Placed
    <2> QED
        BY <2>1, <2>2
<1>10. Judged'
    BY <1>1, <1>2, <1>5 DEF Judged
<1> QED
    BY <1>1, <1>5, <1>6, <1>7, <1>9, <1>10, <1>2, MarkedStays, Rowless, TailPartsNext

LEMMA MayConnectTail == ASSUME Stream!TailInv, Stream!MayConnect PROVE Stream!TailInv'
<1>1. /\ tail' = IF standing THEN [tail EXCEPT !.step = "cursor"] ELSE Stream!Closed
      /\ tail.step = "standing"
      /\ UNCHANGED <<audit, events, standing, marker, docs, known, between, late>>
    BY DEF Stream!MayConnect, Stream!Go, Stream!At, Stream!store
<1>2. CASE ~standing
    BY <1>1, <1>2, CloseTail
<1>3. CASE standing
    <2>1. Stream!TypeOK /\ Marked /\ Placed /\ Judged
        BY TailParts
    <2>2. Stream!TypeOK' /\ tail'.step = "cursor" /\ tail'.at = tail.at
        BY <1>1, <1>3, <2>1 DEF Stream!TypeOK, Stream!Terminals
    <2>3. Grown
        BY <1>1, <2>1, <2>2, StoreKept
    <2>4. Placed'
        BY <1>1, <2>1, <2>2, <2>3, PlaceStays DEF Placed
    <2>5. Judged'
        BY <1>1, <1>3, <2>1 DEF Judged
    <2> QED
        BY <1>1, <2>1, <2>2, <2>3, <2>4, <2>5, MarkedStays, Rowless, TailPartsNext
<1> QED
    BY <1>2, <1>3

LEMMA EndPollTail == ASSUME Stream!TailInv, Stream!EndPoll PROVE Stream!TailInv'
<1>1. /\ tail' = IF standing THEN [tail EXCEPT !.step = "audit"] ELSE Stream!Closed
      /\ tail.step = "row"
      /\ UNCHANGED <<audit, events, standing, marker, docs, known, between, late>>
    BY DEF Stream!EndPoll, Stream!Go, Stream!At, Stream!store
<1>2. CASE ~standing
    BY <1>1, <1>2, CloseTail
<1>3. CASE standing
    <2>1. Stream!TypeOK /\ Marked /\ Placed /\ Judged
        BY TailParts
    <2>2. Stream!TypeOK' /\ tail'.step = "audit" /\ tail'.at = tail.at
        BY <1>1, <1>3, <2>1 DEF Stream!TypeOK, Stream!Terminals
    <2>3. Grown
        BY <1>1, <2>1, <2>2, StoreKept
    <2>4. Placed'
        BY <1>1, <2>1, <2>2, <2>3, PlaceStays DEF Placed
    <2>5. Judged'
        BY <1>1, <1>3, <2>1 DEF Judged
    <2> QED
        BY <1>1, <2>1, <2>2, <2>3, <2>4, <2>5, MarkedStays, Rowless, TailPartsNext
<1> QED
    BY <1>2, <1>3

LEMMA SendCursorTail == ASSUME Stream!TailInv, Stream!SendCursor PROVE Stream!TailInv'
<1>1. /\ marker' = <<tail.at[1], tail.at[2], "SENT">>
      /\ tail' = [tail EXCEPT !.step = "audit"] /\ tail.step = "cursor"
      /\ late' = IF standing THEN 0 ELSE late + 1
      /\ UNCHANGED <<audit, events, standing, docs, known, between>>
    BY DEF Stream!SendCursor, Stream!Go, Stream!At, Stream!store
<1>2. Stream!TypeOK /\ Placed /\ Judged
    BY TailParts
<1>3. Stream!TypeOK' /\ tail'.step = "audit" /\ tail'.at = tail.at
    <2>1. tail'.step = "audit" /\ tail'.at = tail.at
        BY <1>1, <1>2 DEF Stream!TypeOK
    <2>2. tail' \in Stream!Tails
        BY <1>1, <1>2 DEF Stream!TypeOK
    <2>3. marker' \in Nat \X Nat \X {"SENT", "NONE"}
        BY <1>1, <1>2 DEF Stream!TypeOK
    <2>4. late' \in Nat
        BY <1>1, <1>2 DEF Stream!TypeOK
    <2>5. Stream!Terminals' = Stream!Terminals
        BY <1>1 DEF Stream!Terminals
    <2> QED
        BY <1>1, <1>2, <2>1, <2>2, <2>3, <2>4, <2>5 DEF Stream!TypeOK
<1>4. Grown
    BY <1>1, <1>2, <1>3, StoreKept
<1>5. Placed' /\ (Stream!Within(tail.at) /\ Stream!Covered(tail.at))'
    BY <1>1, <1>2, <1>3, <1>4, PlaceStays DEF Placed
<1>6. marker'[1] = tail'.at[1] /\ marker'[2] = tail'.at[2]
    BY <1>1, <1>3
<1>7. Marked'
    BY <1>5, <1>6 DEF Marked, Stream!Within, Stream!Covered
<1>8. Judged'
    BY <1>1, <1>2, <1>3 DEF Judged
<1> QED
    BY <1>3, <1>5, <1>7, <1>8, Rowless, TailPartsNext

-----------------------------------------------------------------------------
(* The rows of a poll.                                                     *)

\* A page of what follows seq: as many rows as there are, in their order.
LEMMA AfterIs ==
    ASSUME NEW s, Len(s) \in Nat, NEW seq \in Nat
    PROVE  \E m \in Nat : /\ Stream!After(s, seq) = [i \in 1..m |-> seq + i]
                          /\ m > 0 => seq + m <= Len(s)
<1> DEFINE n == IF Len(s) - seq < Page THEN Len(s) - seq ELSE Page
           m == IF n > 0 THEN n ELSE 0
<1>1. n \in Int /\ m \in Nat /\ n <= Len(s) - seq
    BY PageIsANumber
<1>2. 1..n = 1..m
    BY <1>1
<1>3. Stream!After(s, seq) = [i \in 1..m |-> seq + i]
    BY <1>2 DEF Stream!After
<1>4. m > 0 => seq + m <= Len(s)
    BY <1>1
<1> QED
    BY <1>1, <1>3, <1>4

LEMMA RowsOf ==
    ASSUME NEW S, NEW m \in Nat, NEW rows \in [1..m -> S]
    PROVE  rows \in Seq(S) /\ Len(rows) = m
    OBVIOUS

\* One page after another.
LEMMA RowsJoined ==
    ASSUME NEW at \in Nat \X Nat,
           NEW old \in Seq({"AUDIT", "RUN"} \X Nat), NEW more \in Seq({"AUDIT", "RUN"} \X Nat),
           Stream!Consecutive(at, old, Len(old)), Stream!Consecutive(at, more, 0)
    PROVE  /\ old \o more \in Seq({"AUDIT", "RUN"} \X Nat) /\ Len(old \o more) = Len(old) + Len(more)
           /\ Stream!Consecutive(at, old \o more, Len(old))
<1> DEFINE both == old \o more
<1>1. /\ both \in Seq({"AUDIT", "RUN"} \X Nat) /\ Len(both) = Len(old) + Len(more)
      /\ \A i \in 1..(Len(old) + Len(more)) : both[i] = IF i <= Len(old) THEN old[i] ELSE more[i - Len(old)]
      /\ Len(old) \in Nat /\ Len(more) \in Nat
    BY ConcatProperties
<1> HIDE DEF both
<1>2. ASSUME NEW i \in 1..Len(both)
      PROVE  both[i] = IF i <= Len(old) THEN Stream!Row("AUDIT", at[1] + i) ELSE Stream!Row("RUN", at[2] + (i - Len(old)))
    <2>0. Len(old) \in Nat /\ Len(more) \in Nat
        BY <1>1
    <2>1. i \in 1..(Len(old) + Len(more)) /\ both[i] = IF i <= Len(old) THEN old[i] ELSE more[i - Len(old)]
        BY <1>1
    <2>2. CASE i <= Len(old)
        <3>1. i \in 1..Len(old)
            BY <2>0, <2>1, <2>2
        <3> QED
            BY <2>1, <2>2, <3>1, Zenon DEF Stream!Consecutive
    <2>3. CASE ~(i <= Len(old))
        <3>1. i - Len(old) \in 1..Len(more) /\ ~(i - Len(old) <= 0) /\ (i - Len(old)) - 0 = i - Len(old)
            BY <2>0, <2>1, <2>3
        <3>2. more[i - Len(old)] = Stream!Row("RUN", at[2] + ((i - Len(old)) - 0))
            BY <3>1, Zenon DEF Stream!Consecutive
        <3> QED
            BY <2>1, <2>3, <3>1, <3>2, Zenon
    <2> QED
        BY <2>2, <2>3
<1> QED
    BY <1>1, <1>2, Zenon DEF both, Stream!Consecutive

LEMMA ReadAuditTail == ASSUME Stream!TailInv, Stream!ReadAudit PROVE Stream!TailInv'
<1> DEFINE rows == [i \in DOMAIN Stream!After(audit, tail.at[1]) |-> Stream!Row("AUDIT", Stream!After(audit, tail.at[1])[i])]
<1>1. /\ tail' = [tail EXCEPT !.step = "run", !.pending = rows] /\ tail.step = "audit"
      /\ UNCHANGED <<audit, events, standing, marker, docs, known, between, late>>
    BY DEF Stream!ReadAudit, Stream!Go, Stream!At, Stream!store
<1>2. Stream!TypeOK /\ Marked /\ Placed /\ Judged
    BY TailParts
<1>3. tail.at \in Nat \X Nat /\ tail.at[1] \in Nat /\ Len(audit) \in Nat
    BY <1>2 DEF Stream!TypeOK
<1>4. PICK m \in Nat : /\ Stream!After(audit, tail.at[1]) = [i \in 1..m |-> tail.at[1] + i]
                       /\ m > 0 => tail.at[1] + m <= Len(audit)
    BY <1>3, AfterIs
<1>5. rows = [i \in 1..m |-> <<"AUDIT", tail.at[1] + i>>]
    BY <1>4 DEF Stream!Row
<1> HIDE DEF rows
<1>6. rows \in Seq({"AUDIT", "RUN"} \X Nat) /\ Len(rows) = m /\ \A i \in 1..m : rows[i] = <<"AUDIT", tail.at[1] + i>>
    <2>1. rows \in [1..m -> {"AUDIT", "RUN"} \X Nat]
        BY <1>3, <1>5
    <2>2. \A i \in 1..m : rows[i] = <<"AUDIT", tail.at[1] + i>>
        BY <1>5
    <2> QED
        BY <2>1, <2>2, RowsOf, Zenon
<1>7. Stream!TypeOK' /\ tail'.step = "run" /\ tail'.at = tail.at /\ tail'.pending = rows
    <2>1. tail' \in Stream!Tails
        BY <1>1, <1>2, <1>6 DEF Stream!TypeOK
    <2>2. tail'.step = "run" /\ tail'.at = tail.at /\ tail'.pending = rows
        BY <1>1, <1>2 DEF Stream!TypeOK
    <2> QED
        BY <1>1, <1>2, <2>1, <2>2 DEF Stream!TypeOK, Stream!Terminals
<1>8. Grown
    BY <1>1, <1>2, <1>7, StoreKept
<1>9. Placed'
    BY <1>1, <1>2, <1>7, <1>8, PlaceStays DEF Placed
<1>10. Paged'
    <2>1. tail.at[1] + m <= Len(audit)
        <3>1. tail.at[1] <= Len(audit)
            BY <1>1, <1>2 DEF Placed, Stream!Within
        <3> QED
            BY <1>3, <1>4, <3>1
    <2>2. Stream!Consecutive(tail'.at, tail'.pending, Len(tail'.pending))
        BY <1>6, <1>7 DEF Stream!Consecutive, Stream!Row
    <2>3. tail'.at[1] + Len(tail'.pending) <= Len(audit') /\ ~(Len(tail'.pending) - Len(tail'.pending) > 0)
        BY <1>1, <1>6, <1>7, <2>1
    <2>4. Stream!NextRows(tail.at, tail.pending, Len(tail.pending))'
        BY <2>2, <2>3 DEF Stream!NextRows, Stream!Ends, Stream!Consecutive
    <2> QED
        BY <1>7, <2>4 DEF Paged, Stream!At
<1>11. Framed'
    BY <1>7 DEF Framed, Stream!At
<1>12. Judged'
    BY <1>1, <1>2, <1>7 DEF Judged
<1> QED
    BY <1>1, <1>2, <1>7, <1>8, <1>9, <1>10, <1>11, <1>12, MarkedStays, TailPartsNext

LEMMA ReadRunTail == ASSUME Stream!TailInv, Stream!ReadRun PROVE Stream!TailInv'
<1> DEFINE log == IF Stream!Terminals = {} THEN events ELSE SubSeq(events, 1, Stream!Terminal)
           runs == [i \in DOMAIN Stream!RunRows |-> Stream!Row("RUN", Stream!RunRows[i])]
           old == tail.pending
           rows == IF ~tail.open THEN old ELSE old \o runs
<1>1. /\ tail' = [tail EXCEPT !.step = "row", !.pending = rows] /\ tail.step = "run"
      /\ UNCHANGED <<audit, events, standing, marker, docs, known, between, late>>
    BY DEF Stream!ReadRun, Stream!Go, Stream!At, Stream!store
<1>2. Stream!TypeOK /\ Marked /\ Placed /\ Paged /\ Judged
    BY TailParts
<1>3. /\ tail.at \in Nat \X Nat /\ tail.at[2] \in Nat /\ tail.at[1] \in Nat /\ Len(events) \in Nat
      /\ events \in Seq({"PROGRESS", "TERMINAL", "BILL"})
      /\ old \in Seq({"AUDIT", "RUN"} \X Nat) /\ Len(old) \in Nat
    BY <1>2 DEF Stream!TypeOK
<1>4. Len(log) \in Nat /\ Len(log) <= Len(events) /\ Len(log) <= Stream!Terminal
    <2>1. TerminalFacts
        BY <1>2, TerminalIs
    <2>2. CASE Stream!Terminals = {}
        BY <1>3, <2>1, <2>2 DEF TerminalFacts
    <2>3. CASE Stream!Terminals # {}
        <3>1. Stream!Terminal \in 1..Len(events)
            BY <1>3, <2>1, <2>3 DEF TerminalFacts, Stream!Terminals
        <3>2. Len(SubSeq(events, 1, Stream!Terminal)) = Stream!Terminal
            BY <1>3, <3>1
        <3> QED
            BY <1>3, <2>3, <3>1, <3>2
    <2> QED
        BY <2>2, <2>3
<1>5. PICK m \in Nat : /\ Stream!After(log, tail.at[2]) = [i \in 1..m |-> tail.at[2] + i]
                       /\ m > 0 => tail.at[2] + m <= Len(log)
    <2> HIDE DEF log
    <2> QED
        BY <1>3, <1>4, AfterIs
<1>6. runs = [i \in 1..m |-> <<"RUN", tail.at[2] + i>>]
    BY <1>5 DEF Stream!Row, Stream!RunRows
<1> HIDE DEF runs
<1>7. runs \in Seq({"AUDIT", "RUN"} \X Nat) /\ Len(runs) = m /\ Stream!Consecutive(tail.at, runs, 0)
    <2>1. runs \in [1..m -> {"AUDIT", "RUN"} \X Nat]
        BY <1>3, <1>6
    <2>2. \A i \in 1..m : runs[i] = <<"RUN", tail.at[2] + (i - 0)>> /\ ~(i <= 0)
        BY <1>6
    <2>3. runs \in Seq({"AUDIT", "RUN"} \X Nat) /\ Len(runs) = m
        BY <2>1, RowsOf, Zenon
    <2> QED
        BY <2>2, <2>3, Zenon DEF Stream!Consecutive, Stream!Row
<1>8. Stream!Consecutive(tail.at, old, Len(old)) /\ tail.at[1] + Len(old) <= Len(audit)
    BY <1>1, <1>2 DEF Paged, Stream!At, Stream!NextRows, Stream!Ends
<1>r. PICK n \in {0, m} : /\ rows \in Seq({"AUDIT", "RUN"} \X Nat) /\ Len(rows) = Len(old) + n
                          /\ Stream!Consecutive(tail.at, rows, Len(old))
    <2>1. CASE tail.open
        <3>1. rows = old \o runs
            BY <2>1
        <3>2. /\ rows \in Seq({"AUDIT", "RUN"} \X Nat) /\ Len(rows) = Len(old) + Len(runs)
              /\ Stream!Consecutive(tail.at, rows, Len(old))
            <4> HIDE DEF rows, old
            <4> QED
                BY <1>3, <1>7, <1>8, <3>1, RowsJoined, Zenon
        <3> QED
            BY <1>7, <3>2, Zenon
    <2>2. CASE ~tail.open
        <3>1. Len(old) + 0 = Len(old)
            BY <1>3
        <3> QED
            BY <1>3, <1>8, <2>2, <3>1, Zenon
    <2> QED
        BY <2>1, <2>2
<1>n. n \in Nat /\ Len(rows) - Len(old) = n /\ Len(old) \in 0..Len(rows)
    <2> HIDE DEF old, rows
    <2> QED
        BY <1>3, <1>r
<1> HIDE DEF rows
<1>9. Stream!TypeOK' /\ tail'.step = "row" /\ tail'.at = tail.at /\ tail'.pending = rows
    <2>1. tail' \in Stream!Tails
        BY <1>1, <1>2, <1>r DEF Stream!TypeOK
    <2>2. tail'.step = "row" /\ tail'.at = tail.at /\ tail'.pending = rows
        BY <1>1, <1>2 DEF Stream!TypeOK
    <2> QED
        BY <1>1, <1>2, <2>1, <2>2 DEF Stream!TypeOK, Stream!Terminals
<1>10. Grown /\ Stream!Terminal' = Stream!Terminal
    BY <1>1, <1>2, <1>9, StoreKept
<1>11. Placed'
    BY <1>1, <1>2, <1>9, <1>10, PlaceStays DEF Placed
<1>12. Paged'
    <2>1. n > 0 => tail.at[2] + n <= Len(events) /\ tail.at[2] + n <= Stream!Terminal
        <3>1. ASSUME n > 0 PROVE tail.at[2] + n <= Len(log)
            <4>1. n = m
                BY <3>1
            <4> HIDE DEF log
            <4> QED
                BY <1>5, <3>1, <4>1
        <3>2. Stream!Terminal \in Int
            BY <1>2, Numbers
        <3>3. Len(events) \in Int /\ Len(log) \in Int /\ tail.at[2] + n \in Int
            <4> HIDE DEF log
            <4> QED
                BY <1>3, <1>4, <1>n
        <3> QED
            BY <1>4, <3>1, <3>2, <3>3, AtMost, Zenon
    <2>2. Stream!Consecutive(tail'.at, tail'.pending, Len(old))
        BY <1>9, <1>r
    <2>3. /\ tail'.at[1] + Len(old) <= Len(audit')
          /\ Len(tail'.pending) - Len(old) > 0 =>
                /\ tail'.at[2] + (Len(tail'.pending) - Len(old)) <= Len(events')
                /\ tail'.at[2] + (Len(tail'.pending) - Len(old)) <= Stream!Terminal'
        BY <1>1, <1>8, <1>9, <1>10, <1>n, <2>1, Zenon
    <2>4. Len(old) \in 0..Len(tail'.pending)
        BY <1>9, <1>n, Zenon
    <2>9. Stream!Chained(tail.at, tail.pending)'
        BY <2>2, <2>3, <2>4 DEF Stream!Chained, Stream!NextRows, Stream!Ends, Stream!Consecutive
    <2> QED
        BY <1>9, <2>9 DEF Paged, Stream!At
<1>13. Framed'
    BY <1>9 DEF Framed, Stream!At
<1>14. Judged'
    BY <1>1, <1>2, <1>9 DEF Judged
<1> QED
    BY <1>1, <1>2, <1>9, <1>10, <1>11, <1>12, <1>13, <1>14, MarkedStays, TailPartsNext

-----------------------------------------------------------------------------
(* A row at a time.                                                        *)

LEMMA RestOf ==
    ASSUME NEW S, NEW rows \in Seq(S), rows # <<>>
    PROVE  /\ SubSeq(rows, 2, Len(rows)) \in Seq(S) /\ Len(SubSeq(rows, 2, Len(rows))) = Len(rows) - 1
           /\ \A i \in 1..(Len(rows) - 1) : SubSeq(rows, 2, Len(rows))[i] = rows[i + 1]
           /\ Len(rows) \in Nat /\ Len(rows) > 0
<1>1. Len(rows) \in Nat /\ Len(rows) > 0
    BY EmptySeq
<1>2. /\ Tail(rows) \in Seq(S) /\ Len(Tail(rows)) = Len(rows) - 1
      /\ \A i \in 1..Len(Tail(rows)) : Tail(rows)[i] = rows[i + 1]
    BY HeadTailProperties
<1>3. Tail(rows) = SubSeq(rows, 2, Len(rows))
    BY TailIsSubSeq
<1> QED
    BY <1>1, <1>2, <1>3, Zenon

\* The first row of a poll is the next after the cursor, and the rest follow it.
LEMMA FirstRow ==
    ASSUME Stream!TypeOK, NEW at \in Nat \X Nat, NEW rows \in Seq({"AUDIT", "RUN"} \X Nat), rows # <<>>,
           NEW k \in 0..Len(rows), Stream!NextRows(at, rows, k), Stream!Within(at)
    PROVE  /\ rows[1] = IF k > 0 THEN <<"AUDIT", at[1] + 1>> ELSE <<"RUN", at[2] + 1>>
           /\ Stream!Past(at, rows[1]) = IF k > 0 THEN <<at[1] + 1, at[2]>> ELSE <<at[1], at[2] + 1>>
           /\ Stream!Within(Stream!Past(at, rows[1]))
<1> DEFINE j == IF k > 0 THEN k - 1 ELSE 0
           n == Len(rows) - k
<1>1. Len(rows) \in Nat /\ Len(rows) > 0 /\ k \in Nat /\ n \in Nat
    BY RestOf
<1>2. 1 \in 1..Len(rows) /\ (1 <= k <=> k > 0) /\ (~(k > 0) => at[2] + (1 - k) = at[2] + 1 /\ n > 0)
    BY <1>1
<1>3. rows[1] = IF k > 0 THEN <<"AUDIT", at[1] + 1>> ELSE <<"RUN", at[2] + 1>>
    BY <1>2, Zenon DEF Stream!NextRows, Stream!Consecutive, Stream!Row
<1>4. Stream!Past(at, rows[1]) = IF k > 0 THEN <<at[1] + 1, at[2]>> ELSE <<at[1], at[2] + 1>>
    <2>1. CASE k > 0
        <3>1. rows[1] = <<"AUDIT", at[1] + 1>>
            BY <1>3, <2>1
        <3> QED
            BY <2>1, <3>1 DEF Stream!Past
    <2>2. CASE ~(k > 0)
        <3>1. rows[1] = <<"RUN", at[2] + 1>>
            BY <1>3, <2>2
        <3> QED
            BY <2>2, <3>1 DEF Stream!Past
    <2> QED
        BY <2>1, <2>2
<1>5. at[1] + k <= Len(audit) /\ (n > 0 => at[2] + n <= Len(events))
    BY DEF Stream!NextRows, Stream!Ends
<1>6. at[1] \in Nat /\ at[2] \in Nat /\ Len(audit) \in Nat /\ Len(events) \in Nat
    BY Numbers
<1>7. at[1] <= Len(audit) /\ at[2] <= Len(events)
    BY DEF Stream!Within
<1> HIDE DEF n
<1>8. k > 0 => at[1] + 1 <= Len(audit)
    BY <1>1, <1>5, <1>6
<1>9. ~(k > 0) => at[2] + 1 <= Len(events)
    BY <1>1, <1>2, <1>5, <1>6
<1>10. Stream!Within(Stream!Past(at, rows[1]))
    <2>1. CASE k > 0
        BY <1>4, <1>7, <1>8, <2>1 DEF Stream!Within
    <2>2. CASE ~(k > 0)
        BY <1>4, <1>7, <1>9, <2>2 DEF Stream!Within
    <2> QED
        BY <2>1, <2>2
<1> QED
    BY <1>3, <1>4, <1>10

LEMMA RestRows ==
    ASSUME Stream!TypeOK, NEW at \in Nat \X Nat, NEW rows \in Seq({"AUDIT", "RUN"} \X Nat), rows # <<>>,
           NEW k \in 0..Len(rows), Stream!NextRows(at, rows, k), Stream!Within(at)
    PROVE  Stream!Chained(Stream!Past(at, rows[1]), SubSeq(rows, 2, Len(rows)))
<1> DEFINE to == Stream!Past(at, rows[1])
           rest == SubSeq(rows, 2, Len(rows))
           j == IF k > 0 THEN k - 1 ELSE 0
<1>1. to = IF k > 0 THEN <<at[1] + 1, at[2]>> ELSE <<at[1], at[2] + 1>>
    BY FirstRow
<1>2. /\ Len(rest) = Len(rows) - 1 /\ Len(rows) \in Nat /\ Len(rows) > 0
      /\ \A i \in 1..(Len(rows) - 1) : rest[i] = rows[i + 1]
    BY RestOf
<1>3. at[1] \in Nat /\ at[2] \in Nat /\ Len(audit) \in Nat /\ Len(events) \in Nat /\ Stream!Terminal \in Nat
    BY Numbers
<1> HIDE DEF to, rest
<1>4. Stream!Consecutive(to, rest, j)
    <2> SUFFICES ASSUME NEW i \in 1..Len(rest)
                 PROVE  rest[i] = IF i <= j THEN <<"AUDIT", to[1] + i>> ELSE <<"RUN", to[2] + (i - j)>>
        BY DEF Stream!Consecutive, Stream!Row
    <2>1. i \in 1..(Len(rows) - 1) /\ i + 1 \in 1..Len(rows)
        BY <1>2
    <2>2. rest[i] = IF i + 1 <= k THEN <<"AUDIT", at[1] + (i + 1)>> ELSE <<"RUN", at[2] + ((i + 1) - k)>>
        BY <1>2, <2>1, Zenon DEF Stream!NextRows, Stream!Consecutive, Stream!Row
    <2>3. CASE k > 0
        <3>1. to[1] = at[1] + 1 /\ to[2] = at[2]
            BY <1>1, <2>3
        <3>2. i + 1 <= k <=> i <= j
            BY <2>1, <2>3
        <3>3. at[1] + (i + 1) = to[1] + i /\ at[2] + ((i + 1) - k) = to[2] + (i - j)
            BY <1>3, <2>1, <2>3, <3>1
        <3> QED
            BY <2>2, <3>2, <3>3, Zenon
    <2>4. CASE ~(k > 0)
        <3>1. to[2] = at[2] + 1
            BY <1>1, <2>4
        <3>2. ~(i + 1 <= k) /\ ~(i <= j) /\ k = 0 /\ j = 0
            BY <2>1, <2>4
        <3>3. at[2] + ((i + 1) - k) = to[2] + (i - j)
            BY <1>3, <2>1, <3>1, <3>2
        <3> QED
            BY <2>2, <3>2, <3>3, Zenon
    <2> QED
        BY <2>3, <2>4
<1>5. j \in Nat /\ Len(rest) - j \in Int /\ j \in 0..Len(rest)
    BY <1>2
<1>6. Stream!Ends(to, j, Len(rest) - j)
    <2> DEFINE n == Len(rows) - k
               d == Len(rest) - j
    <2>1. at[1] + k <= Len(audit) /\ (n > 0 => at[2] + n <= Len(events) /\ at[2] + n <= Stream!Terminal)
        BY DEF Stream!NextRows, Stream!Ends
    <2>2. n \in Int /\ d \in Int
        BY <1>2, <1>5
    <2>3. CASE k > 0
        <3>1. to[1] = at[1] + 1 /\ to[2] = at[2] /\ d = n /\ to[1] + j = at[1] + k
            BY <1>1, <1>2, <1>3, <2>3
        <3> HIDE DEF n, d
        <3> QED
            BY <2>1, <3>1, Zenon DEF Stream!Ends, d
    <2>4. CASE ~(k > 0)
        <3>1. k = 0 /\ j = 0
            BY <2>4
        <3>2. to[1] = at[1] /\ to[2] = at[2] + 1
            BY <1>1, <2>4
        <3>3. to[1] + j = at[1] + k
            BY <1>3, <3>1, <3>2
        <3>4. d = Len(rows) - 1 /\ n = Len(rows) /\ n > 0
            BY <1>2, <3>1
        <3>5. to[2] + d = at[2] + n
            <4>1. (at[2] + 1) + (Len(rows) - 1) = at[2] + Len(rows)
                BY <1>2, <1>3
            <4> HIDE DEF n, d
            <4> QED
                BY <3>2, <3>4, <4>1, Zenon
        <3> HIDE DEF n, d
        <3> QED
            BY <2>1, <3>3, <3>4, <3>5, Zenon DEF Stream!Ends, d
    <2> QED
        BY <2>3, <2>4
<1>7. Stream!Chained(to, rest)
    BY <1>4, <1>5, <1>6 DEF Stream!Chained, Stream!NextRows
<1> QED
    BY <1>7 DEF to, rest

\* The cursor before a row and the cursor at it, each from the other.
LEMMA BeforePast ==
    ASSUME NEW at \in Nat \X Nat, NEW row, row = <<"AUDIT", at[1] + 1>> \/ row = <<"RUN", at[2] + 1>>
    PROVE  Stream!Before(Stream!Past(at, row), row) = at
<1>1. CASE row = <<"AUDIT", at[1] + 1>>
    <2>1. Stream!Past(at, row) = <<at[1] + 1, at[2]>> /\ row[1] = "AUDIT"
        BY <1>1 DEF Stream!Past
    <2>2. Stream!Before(Stream!Past(at, row), row) = <<(at[1] + 1) - 1, at[2]>>
        BY <2>1 DEF Stream!Before
    <2> QED
        BY <2>2
<1>2. CASE row = <<"RUN", at[2] + 1>>
    <2>1. Stream!Past(at, row) = <<at[1], at[2] + 1>> /\ row[1] = "RUN"
        BY <1>2 DEF Stream!Past
    <2>2. Stream!Before(Stream!Past(at, row), row) = <<at[1], (at[2] + 1) - 1>>
        BY <2>1 DEF Stream!Before
    <2> QED
        BY <2>2
<1> QED
    BY <1>1, <1>2

LEMMA PastBefore ==
    ASSUME NEW at \in Nat \X Nat, NEW row, NEW b \in Nat \X Nat, b = Stream!Before(at, row),
           row = <<"AUDIT", b[1] + 1>> \/ row = <<"RUN", b[2] + 1>>
    PROVE  Stream!Past(b, row) = at
<1>1. CASE row = <<"AUDIT", b[1] + 1>>
    <2>1. b = <<at[1] - 1, at[2]>>
        BY <1>1 DEF Stream!Before
    <2>2. b[1] + 1 = at[1] /\ b[2] = at[2]
        BY <2>1
    <2>3. Stream!Past(b, row) = <<b[1] + 1, b[2]>>
        BY <1>1 DEF Stream!Past
    <2> QED
        BY <2>2, <2>3
<1>2. CASE row = <<"RUN", b[2] + 1>>
    <2>1. b = <<at[1], at[2] - 1>>
        BY <1>2 DEF Stream!Before
    <2>2. b[2] + 1 = at[2] /\ b[1] = at[1]
        BY <2>1
    <2>3. Stream!Past(b, row) = <<b[1], b[2] + 1>>
        BY <1>2 DEF Stream!Past
    <2> QED
        BY <2>2, <2>3
<1> QED
    BY <1>1, <1>2

\* What was told up to a cursor, and the row after it, is told up to that row.
LEMMA NextTold ==
    ASSUME Grown, audit' = audit, NEW at \in Nat \X Nat, Stream!Within(at), Stream!Covered(at),
           NEW to \in Nat \X Nat,
           \/ to = <<at[1] + 1, at[2]>> /\ (audit[at[1] + 1] # "NAMED" \/ <<"AUDIT", at[1] + 1>> \in known')
           \/ to = <<at[1], at[2] + 1>> /\ <<"RUN", at[2] + 1>> \in known'
    PROVE  /\ \A i \in 1..to[1] : audit'[i] = "NAMED" => docs' \/ <<"AUDIT", i>> \in known' \cup between'
           /\ \A i \in 1..to[2] : docs' \/ <<"RUN", i>> \in known' \cup between'
<1>1. /\ \A i \in 1..at[1] : audit'[i] = "NAMED" => docs' \/ <<"AUDIT", i>> \in known' \cup between'
      /\ \A i \in 1..at[2] : docs' \/ <<"RUN", i>> \in known' \cup between'
    BY PlaceGrows
<1>2. at[1] \in Nat /\ at[2] \in Nat
    OBVIOUS
<1>3. CASE to = <<at[1] + 1, at[2]>> /\ (audit[at[1] + 1] # "NAMED" \/ <<"AUDIT", at[1] + 1>> \in known')
    <2>1. to[1] = at[1] + 1 /\ to[2] = at[2]
        BY <1>3
    <2>2. \A i \in 1..to[1] : i \in 1..at[1] \/ i = at[1] + 1
        BY <1>2, <2>1
    <2>3. audit'[at[1] + 1] = "NAMED" => <<"AUDIT", at[1] + 1>> \in known' \cup between'
        BY <1>3
    <2> QED
        BY <1>1, <2>1, <2>2, <2>3, Zenon
<1>4. CASE to = <<at[1], at[2] + 1>> /\ <<"RUN", at[2] + 1>> \in known'
    <2>1. to[1] = at[1] /\ to[2] = at[2] + 1
        BY <1>4
    <2>2. \A i \in 1..to[2] : i \in 1..at[2] \/ i = at[2] + 1
        BY <1>2, <2>1
    <2>3. <<"RUN", at[2] + 1>> \in known' \cup between'
        BY <1>4
    <2> QED
        BY <1>1, <2>1, <2>2, <2>3, Zenon
<1> QED
    BY <1>3, <1>4

\* The rows of a poll stay what they were while the logs do.
LEMMA ChainedKept ==
    ASSUME NEW at, NEW rows, Stream!Chained(at, rows), UNCHANGED <<audit, events>>,
           Stream!Terminal' = Stream!Terminal, tail'.at = at, tail'.pending = rows
    PROVE  Stream!Chained(tail.at, tail.pending)'
<1>1. PICK k \in 0..Len(rows) : Stream!Consecutive(at, rows, k) /\ Stream!Ends(at, k, Len(rows) - k)
    BY DEF Stream!Chained, Stream!NextRows
<1>2. Stream!Consecutive(tail.at, tail.pending, k)'
    BY <1>1 DEF Stream!Consecutive
<1>3. Stream!Ends(tail.at, k, Len(tail.pending) - k)'
    BY <1>1 DEF Stream!Ends
<1> QED
    BY <1>2, <1>3 DEF Stream!Chained, Stream!NextRows

LEMMA SkipTail == ASSUME Stream!TailInv, Stream!Skip PROVE Stream!TailInv'
<1> DEFINE rows == tail.pending
           at == tail.at
           rest == SubSeq(rows, 2, Len(rows))
           to == Stream!Past(at, rows[1])
<1>1. /\ tail' = [tail EXCEPT !.at = to, !.pending = rest]
      /\ tail.step = "row" /\ rows # <<>> /\ ~Stream!Named(rows[1])
      /\ UNCHANGED <<audit, events, standing, marker, docs, known, between, late>>
    BY DEF Stream!Skip, Stream!Go, Stream!At, Stream!store
<1>2. Stream!TypeOK /\ Marked /\ Placed /\ Paged /\ Judged
    BY TailParts
<1>3. at \in Nat \X Nat /\ rows \in Seq({"AUDIT", "RUN"} \X Nat)
    BY <1>2 DEF Stream!TypeOK
<1>4. Stream!Within(at) /\ Stream!Covered(at) /\ Stream!Chained(at, rows)
    BY <1>1, <1>2 DEF Placed, Paged, Stream!At
<1> HIDE DEF at, rows
<1>5. PICK k \in 0..Len(rows) : Stream!NextRows(at, rows, k)
    BY <1>4 DEF Stream!Chained
<1>6. /\ rows[1] = IF k > 0 THEN <<"AUDIT", at[1] + 1>> ELSE <<"RUN", at[2] + 1>>
      /\ to = IF k > 0 THEN <<at[1] + 1, at[2]>> ELSE <<at[1], at[2] + 1>>
      /\ Stream!Within(to)
    BY <1>1, <1>2, <1>3, <1>4, <1>5, FirstRow
<1>7. Stream!Chained(to, rest)
    BY <1>1, <1>2, <1>3, <1>4, <1>5, RestRows
<1>8. k > 0 /\ to = <<at[1] + 1, at[2]>> /\ audit[at[1] + 1] # "NAMED"
    <2>1. CASE k > 0
        <3>1. rows[1] = <<"AUDIT", at[1] + 1>> /\ to = <<at[1] + 1, at[2]>>
            BY <1>6, <2>1
        <3> HIDE DEF to
        <3> QED
            BY <1>1, <2>1, <3>1 DEF Stream!Named
    <2>2. CASE ~(k > 0)
        <3>1. rows[1] = <<"RUN", at[2] + 1>>
            BY <1>6, <2>2
        <3> QED
            BY <1>1, <3>1 DEF Stream!Named
    <2> QED
        BY <2>1, <2>2
<1>9. to \in Nat \X Nat /\ rest \in Seq({"AUDIT", "RUN"} \X Nat)
    BY <1>1, <1>3, <1>8, RestOf
<1> HIDE DEF to, rest
<1>10. Stream!TypeOK' /\ tail'.step = "row" /\ tail'.at = to /\ tail'.pending = rest
    <2>1. tail' \in Stream!Tails
        BY <1>1, <1>2, <1>9 DEF Stream!TypeOK
    <2>2. tail'.step = "row" /\ tail'.at = to /\ tail'.pending = rest
        BY <1>1, <1>2 DEF Stream!TypeOK
    <2> QED
        BY <1>1, <1>2, <2>1, <2>2 DEF Stream!TypeOK, Stream!Terminals
<1>11. Grown /\ Stream!Terminal' = Stream!Terminal
    BY <1>1, <1>2, <1>10, StoreKept
<1>12. Placed'
    <2>1. /\ \A i \in 1..to[1] : audit'[i] = "NAMED" => docs' \/ <<"AUDIT", i>> \in known' \cup between'
          /\ \A i \in 1..to[2] : docs' \/ <<"RUN", i>> \in known' \cup between'
        BY <1>1, <1>3, <1>4, <1>8, <1>9, <1>11, NextTold
    <2> QED
        BY <1>1, <1>6, <1>10, <2>1 DEF Placed, Stream!Within, Stream!Covered, Stream!Told, Stream!Row
<1>13. Paged'
    BY <1>1, <1>7, <1>10, <1>11, ChainedKept DEF Paged, Stream!At
<1>14. Framed'
    BY <1>10 DEF Framed, Stream!At
<1>15. Judged'
    BY <1>1, <1>2, <1>10 DEF Judged
<1> QED
    BY <1>1, <1>2, <1>10, <1>11, <1>12, <1>13, <1>14, <1>15, MarkedStays, TailPartsNext

LEMMA MayWatchTail == ASSUME Stream!TailInv, Stream!MayWatch PROVE Stream!TailInv'
<1> DEFINE rows == tail.pending
           at == tail.at
           to == Stream!Past(at, rows[1])
<1>1. /\ tail' = IF standing THEN [tail EXCEPT !.at = to, !.step = "frame"] ELSE Stream!Closed
      /\ tail.step = "row" /\ rows # <<>>
      /\ UNCHANGED <<audit, events, standing, marker, docs, known, between, late>>
    BY DEF Stream!MayWatch, Stream!Go, Stream!At, Stream!store
<1>2. Stream!TypeOK /\ Marked /\ Placed /\ Paged /\ Judged
    BY TailParts
<1>3. at \in Nat \X Nat /\ rows \in Seq({"AUDIT", "RUN"} \X Nat)
    BY <1>2 DEF Stream!TypeOK
<1>4. Stream!Within(at) /\ Stream!Covered(at) /\ Stream!Chained(at, rows)
    BY <1>1, <1>2 DEF Placed, Paged, Stream!At
<1>c. CASE ~standing
    BY <1>1, <1>c, CloseTail
<1>d. CASE standing
    <2> HIDE DEF at, rows
    <2>5. PICK k \in 0..Len(rows) : Stream!NextRows(at, rows, k)
        BY <1>4 DEF Stream!Chained
    <2>6. /\ rows[1] = IF k > 0 THEN <<"AUDIT", at[1] + 1>> ELSE <<"RUN", at[2] + 1>>
          /\ to = IF k > 0 THEN <<at[1] + 1, at[2]>> ELSE <<at[1], at[2] + 1>>
        BY <1>1, <1>2, <1>3, <1>4, <2>5, FirstRow
    <2>7. to \in Nat \X Nat
        <3> HIDE DEF to
        <3> QED
            BY <1>3, <2>6
    <2>8. Stream!Before(to, rows[1]) = at
        <3>1. rows[1] = <<"AUDIT", at[1] + 1>> \/ rows[1] = <<"RUN", at[2] + 1>>
            BY <2>6, Zenon
        <3> QED
            BY <1>3, <3>1, BeforePast
    <2> HIDE DEF to
    <2>10. Stream!TypeOK' /\ tail'.step = "frame" /\ tail'.at = to /\ tail'.pending = rows
        <3>1. tail' \in Stream!Tails
            BY <1>1, <1>2, <1>d, <2>7 DEF Stream!TypeOK
        <3>2. tail'.step = "frame" /\ tail'.at = to /\ tail'.pending = rows
            BY <1>1, <1>2, <1>d DEF Stream!TypeOK, rows
        <3> QED
            BY <1>1, <1>2, <3>1, <3>2 DEF Stream!TypeOK, Stream!Terminals
    <2>11. Grown /\ Stream!Terminal' = Stream!Terminal
        BY <1>1, <1>2, <2>10, StoreKept
    <2>12. Placed' /\ Paged'
        BY <2>10 DEF Placed, Paged, Stream!At
    <2>13. Framed'
        <3>1. Stream!Before(tail.at, tail.pending[1])' = at
            BY <2>8, <2>10 DEF Stream!Before
        <3>2. /\ at[1] <= Len(audit') /\ at[2] <= Len(events')
              /\ \A i \in 1..at[1] : audit'[i] = "NAMED" => docs' \/ <<"AUDIT", i>> \in known' \cup between'
              /\ \A i \in 1..at[2] : docs' \/ <<"RUN", i>> \in known' \cup between'
            BY <1>3, <1>4, <2>11, PlaceGrows
        <3>3. Stream!Consecutive(at, rows, k) /\ Stream!Ends(at, k, Len(rows) - k)
            BY <2>5 DEF Stream!NextRows
        <3>4. Stream!Consecutive(Stream!Before(tail.at, tail.pending[1]), tail.pending, k)'
            BY <2>10, <3>1, <3>3 DEF Stream!Consecutive
        <3>5. Stream!Ends(Stream!Before(tail.at, tail.pending[1]), k, Len(tail.pending) - k)'
            BY <1>1, <2>10, <2>11, <3>1, <3>3 DEF Stream!Ends
        <3>6. Stream!Chained(Stream!Before(tail.at, tail.pending[1]), tail.pending)'
            BY <2>10, <3>4, <3>5 DEF Stream!Chained, Stream!NextRows
        <3>7. (Stream!Within(Stream!Before(tail.at, tail.pending[1])) /\ Stream!Covered(Stream!Before(tail.at, tail.pending[1])))'
            BY <3>1, <3>2 DEF Stream!Within, Stream!Covered, Stream!Told, Stream!Row
        <3> QED
            BY <1>1, <1>3, <2>10, <3>1, <3>6, <3>7 DEF Framed
    <2>14. Judged'
        BY <1>1, <1>2, <1>d DEF Judged
    <2> QED
        BY <1>1, <1>2, <2>10, <2>11, <2>12, <2>13, <2>14, MarkedStays, TailPartsNext
<1> QED
    BY <1>c, <1>d

LEMMA SendFrameTail == ASSUME Stream!TailInv, Stream!SendFrame PROVE Stream!TailInv'
<1> DEFINE rows == tail.pending
           at == tail.at
           b == Stream!Before(at, rows[1])
           rest == SubSeq(rows, 2, Len(rows))
           open == tail.open /\ ~(rows[1][1] = "RUN" /\ rows[1][2] = Stream!Terminal)
<1>1. /\ tail' = [tail EXCEPT !.step = "row", !.pending = rest, !.open = open]
      /\ tail.step = "frame"
      /\ marker' = <<at[1], at[2], "SENT">> /\ known' = known \cup {rows[1]}
      /\ late' = IF standing THEN 0 ELSE late + 1
      /\ UNCHANGED <<audit, events, standing, docs, between>>
    BY DEF Stream!SendFrame, Stream!Go, Stream!At, Stream!store
<1>2. Stream!TypeOK /\ Framed /\ Judged
    BY TailParts
<1>3. at \in Nat \X Nat /\ rows \in Seq({"AUDIT", "RUN"} \X Nat) /\ tail.open \in BOOLEAN
    BY <1>2 DEF Stream!TypeOK
<1>4. rows # <<>> /\ b \in Nat \X Nat /\ Stream!Within(b) /\ Stream!Covered(b) /\ Stream!Chained(b, rows)
    BY <1>1, <1>2 DEF Framed, Stream!At
<1>b. b = Stream!Before(at, rows[1])
    OBVIOUS
<1> HIDE DEF at, rows, b
<1>5. PICK k \in 0..Len(rows) : Stream!NextRows(b, rows, k)
    BY <1>4 DEF Stream!Chained
<1>6. /\ rows[1] = IF k > 0 THEN <<"AUDIT", b[1] + 1>> ELSE <<"RUN", b[2] + 1>>
      /\ Stream!Past(b, rows[1]) = IF k > 0 THEN <<b[1] + 1, b[2]>> ELSE <<b[1], b[2] + 1>>
      /\ Stream!Within(Stream!Past(b, rows[1]))
    BY <1>2, <1>3, <1>4, <1>5, FirstRow
<1>7. Stream!Past(b, rows[1]) = at
    <2>1. rows[1] = <<"AUDIT", b[1] + 1>> \/ rows[1] = <<"RUN", b[2] + 1>>
        BY <1>6, Zenon
    <2> QED
        BY <1>3, <1>4, <1>b, <2>1, PastBefore
<1>8. Stream!Chained(at, rest)
    BY <1>2, <1>3, <1>4, <1>5, <1>7, RestRows
<1>9. rest \in Seq({"AUDIT", "RUN"} \X Nat)
    BY <1>3, <1>4, RestOf
<1>o. open \in BOOLEAN
    BY <1>3
<1> HIDE DEF rest, open
<1>10. Stream!TypeOK' /\ tail'.step = "row" /\ tail'.at = at /\ tail'.pending = rest
    <2>1. tail' \in Stream!Tails
        BY <1>1, <1>2, <1>9, <1>o DEF Stream!TypeOK
    <2>2. tail'.step = "row" /\ tail'.at = at /\ tail'.pending = rest
        BY <1>1, <1>2 DEF Stream!TypeOK, at
    <2>3. marker' \in Nat \X Nat \X {"SENT", "NONE"}
        BY <1>1, <1>3
    <2>4. late' \in Nat
        BY <1>1, <1>2 DEF Stream!TypeOK
    <2>5. Stream!Terminals' = Stream!Terminals
        BY <1>1 DEF Stream!Terminals
    <2> QED
        BY <1>1, <1>2, <2>1, <2>2, <2>3, <2>4, <2>5 DEF Stream!TypeOK
<1>11. Grown /\ Stream!Terminal' = Stream!Terminal
    BY <1>1, <1>2, <1>10, StoreKept
<1>12. (Stream!Within(tail.at) /\ Stream!Covered(tail.at))'
    <2>1. /\ \A i \in 1..at[1] : audit'[i] = "NAMED" => docs' \/ <<"AUDIT", i>> \in known' \cup between'
          /\ \A i \in 1..at[2] : docs' \/ <<"RUN", i>> \in known' \cup between'
        <3>1. \/ at = <<b[1] + 1, b[2]>> /\ <<"AUDIT", b[1] + 1>> \in known'
              \/ at = <<b[1], b[2] + 1>> /\ <<"RUN", b[2] + 1>> \in known'
            <4>1. rows[1] \in known'
                BY <1>1
            <4> QED
                BY <1>6, <1>7, <4>1, Zenon
        <3> QED
            BY <1>1, <1>3, <1>4, <1>11, <3>1, NextTold
    <2> QED
        BY <1>1, <1>6, <1>7, <1>10, <2>1 DEF Stream!Within, Stream!Covered, Stream!Told, Stream!Row
<1>13. Marked' /\ Placed'
    <2>1. marker'[1] = tail'.at[1] /\ marker'[2] = tail'.at[2]
        BY <1>1, <1>10
    <2> QED
        BY <1>12, <2>1 DEF Marked, Placed, Stream!Within, Stream!Covered
<1>14. Paged'
    BY <1>1, <1>8, <1>10, <1>11, ChainedKept DEF Paged, Stream!At
<1>15. Framed'
    BY <1>10 DEF Framed, Stream!At
<1>16. Judged'
    BY <1>1, <1>2, <1>10 DEF Judged
<1> QED
    BY <1>10, <1>13, <1>14, <1>15, <1>16, TailPartsNext

LEMMA DropTail == ASSUME Stream!TailInv, Stream!Drop \/ Stream!Deadline PROVE Stream!TailInv'
    BY CloseTail DEF Stream!Drop, Stream!Deadline, Stream!Go, Stream!store

-----------------------------------------------------------------------------
(* Every step keeps TailInv, and TailInv is what the run checks.           *)

LEMMA TailStill == ASSUME Stream!TailInv, UNCHANGED Stream!vars PROVE Stream!TailInv'
<1>1. UNCHANGED <<audit, events, standing, tail, marker, docs, known, between, late>>
    BY DEF Stream!vars, Stream!store
<1>2. Stream!TypeOK /\ Marked /\ Placed /\ Paged /\ Framed /\ Judged
    BY TailParts
<1>3. Stream!TypeOK'
    BY <1>1, <1>2 DEF Stream!TypeOK, Stream!Terminals
<1>4. Grown
    BY <1>1, <1>2, <1>3, StoreKept
<1>5. Judged'
    BY <1>1, <1>2 DEF Judged
<1> QED
    BY <1>1, <1>2, <1>3, <1>4, <1>5, TailStays, TailPartsNext

LEMMA NextTail == ASSUME Stream!TailInv, [Stream!Next]_(Stream!vars) PROVE Stream!TailInv'
<1>1. ASSUME NEW kind \in {"NAMED", "SILENT"}, Stream!Act(kind) PROVE Stream!TailInv'
    BY <1>1, ActTail
<1>2. ASSUME NEW kind \in {"PROGRESS", "TERMINAL", "BILL"}, Stream!RunEvent(kind) PROVE Stream!TailInv'
    BY <1>2, RunEventTail
<1>3. CASE Stream!Move \/ Stream!Refuse \/ Stream!Open \/ Stream!Refetch
    BY <1>3, MoveTail, RefuseTail, OpenTail, RefetchTail
<1>4. CASE Stream!Drop \/ Stream!Deadline
    BY <1>4, DropTail
<1>5. CASE Stream!ReadHeads \/ Stream!MayConnect \/ Stream!SendCursor
    BY <1>5, ReadHeadsTail, MayConnectTail, SendCursorTail
<1>6. CASE Stream!ReadAudit \/ Stream!ReadRun \/ Stream!EndPoll
    BY <1>6, ReadAuditTail, ReadRunTail, EndPollTail
<1>7. CASE Stream!Skip \/ Stream!MayWatch \/ Stream!SendFrame
    BY <1>7, SkipTail, MayWatchTail, SendFrameTail
<1>8. CASE UNCHANGED Stream!vars
    BY <1>8, TailStill
<1> QED
    BY <1>1, <1>2, <1>3, <1>4, <1>5, <1>6, <1>7, <1>8, Zenon DEF Stream!Next, Stream!CaseTail

\* The rows of a poll are in order, and the run's end at its terminal.
LEMMA RowsInOrder ==
    ASSUME Stream!TypeOK, NEW at \in Nat \X Nat, NEW rows \in Seq({"AUDIT", "RUN"} \X Nat), Stream!Chained(at, rows)
    PROVE  /\ \A i \in DOMAIN rows : rows[i][1] = "RUN" => rows[i][2] <= Stream!Terminal
           /\ \A i, j \in DOMAIN rows : i < j /\ rows[i][1] = rows[j][1] => rows[i][2] < rows[j][2]
<1>1. PICK k \in 0..Len(rows) : Stream!Consecutive(at, rows, k) /\ Stream!Ends(at, k, Len(rows) - k)
    BY DEF Stream!Chained, Stream!NextRows
<1>2. /\ at[1] \in Nat /\ at[2] \in Nat /\ k \in Nat /\ Len(rows) \in Nat /\ Stream!Terminal \in Nat
      /\ DOMAIN rows = 1..Len(rows)
    BY Numbers
<1>3. \A i \in 1..Len(rows) : rows[i] = IF i <= k THEN <<"AUDIT", at[1] + i>> ELSE <<"RUN", at[2] + (i - k)>>
    BY <1>1 DEF Stream!Consecutive, Stream!Row
<1>4. ASSUME NEW i \in 1..Len(rows)
      PROVE  IF i <= k THEN rows[i][1] = "AUDIT" /\ rows[i][2] = at[1] + i
                       ELSE rows[i][1] = "RUN" /\ rows[i][2] = at[2] + (i - k)
    <2>1. CASE i <= k
        <3>1. rows[i] = <<"AUDIT", at[1] + i>>
            BY <1>3, <2>1
        <3> QED
            BY <2>1, <3>1
    <2>2. CASE ~(i <= k)
        <3>1. rows[i] = <<"RUN", at[2] + (i - k)>>
            BY <1>3, <2>2
        <3> QED
            BY <2>2, <3>1
    <2> QED
        BY <2>1, <2>2
<1>5. ASSUME NEW i \in 1..Len(rows), rows[i][1] = "RUN" PROVE rows[i][2] <= Stream!Terminal
    <2>1. ~(i <= k) /\ rows[i][2] = at[2] + (i - k)
        BY <1>4, <1>5
    <2>2. Len(rows) - k > 0
        BY <1>2, <2>1
    <2>3. at[2] + (Len(rows) - k) <= Stream!Terminal
        BY <1>1, <2>2 DEF Stream!Ends
    <2>4. at[2] + (i - k) <= at[2] + (Len(rows) - k)
        BY <1>2
    <2>5. at[2] + (i - k) \in Int
        BY <1>2
    <2>6. at[2] + (Len(rows) - k) \in Int
        BY <1>2
    <2>7. Stream!Terminal \in Int
        BY <1>2
    <2> QED
        BY <2>1, <2>3, <2>4, <2>5, <2>6, <2>7, AtMost, Zenon
<1>6. ASSUME NEW i \in 1..Len(rows), NEW j \in 1..Len(rows), i < j, rows[i][1] = rows[j][1]
      PROVE  rows[i][2] < rows[j][2]
    <2>1. CASE j <= k
        <3>1. i <= k
            BY <1>2, <1>6, <2>1
        <3>2. rows[i][2] = at[1] + i /\ rows[j][2] = at[1] + j
            BY <1>4, <2>1, <3>1
        <3> QED
            BY <1>2, <1>6, <3>2
    <2>2. CASE ~(j <= k)
        <3>1. rows[j][1] = "RUN" /\ rows[j][2] = at[2] + (j - k)
            BY <1>4, <2>2
        <3>2. ~(i <= k) /\ rows[i][2] = at[2] + (i - k)
            BY <1>4, <1>6, <3>1
        <3> QED
            BY <1>2, <1>6, <3>1, <3>2
    <2> QED
        BY <2>1, <2>2
<1> QED
    BY <1>2, <1>5, <1>6

LEMMA TailInvSound == Stream!TailInv => Stream!TailSound
<1> SUFFICES ASSUME Stream!TailInv PROVE Stream!TailSound
    OBVIOUS
<1>1. Stream!TypeOK /\ Marked /\ Paged /\ Framed /\ Judged
    BY TailParts
<1>2. tail.at \in Nat \X Nat /\ tail.pending \in Seq({"AUDIT", "RUN"} \X Nat) /\ marker[1] \in Nat /\ marker[2] \in Nat
    BY <1>1, Numbers DEF Stream!TypeOK
<1>3. Stream!NothingSkipped
    <2> SUFFICES ASSUME NEW r \in Stream!UpTo(marker), Stream!Named(r) PROVE Stream!Told(r)
        BY DEF Stream!NothingSkipped, Stream!Told
    <2>1. r \in Stream!Rows /\ r[2] <= marker[IF r[1] = "AUDIT" THEN 1 ELSE 2]
        BY DEF Stream!UpTo
    <2>2. CASE \E i \in DOMAIN audit : r = <<"AUDIT", i>>
        <3>1. PICK i \in DOMAIN audit : r = <<"AUDIT", i>>
            BY <2>2
        <3>2. i \in 1..marker[1]
            BY <1>1, <1>2, <2>1, <3>1 DEF Stream!TypeOK
        <3>3. audit[i] = "NAMED"
            BY <3>1 DEF Stream!Named
        <3> QED
            BY <1>1, <3>1, <3>2, <3>3 DEF Marked, Stream!Covered, Stream!Row
    <2>3. CASE \E i \in DOMAIN events : r = <<"RUN", i>>
        <3>1. PICK i \in DOMAIN events : r = <<"RUN", i>>
            BY <2>3
        <3>2. i \in 1..marker[2]
            BY <1>1, <1>2, <2>1, <3>1 DEF Stream!TypeOK
        <3> QED
            BY <1>1, <3>1, <3>2 DEF Marked, Stream!Covered, Stream!Row
    <2> QED
        BY <2>1, <2>2, <2>3, Zenon DEF Stream!Rows, Stream!Row
<1>4. CASE tail.step \notin {"row", "frame"}
    BY <1>1, <1>3, <1>4 DEF Stream!TailSound, Stream!RunEnds, Stream!InOrder, Stream!LastFrame, Stream!At, Judged
<1>5. ASSUME tail.step \in {"row", "frame"} PROVE Stream!RunEnds /\ Stream!InOrder
    <2>1. PICK at \in Nat \X Nat : Stream!Chained(at, tail.pending)
        BY <1>1, <1>2, <1>5 DEF Paged, Framed, Stream!At
    <2>2. /\ \A i \in DOMAIN tail.pending : tail.pending[i][1] = "RUN" => tail.pending[i][2] <= Stream!Terminal
          /\ \A i, j \in DOMAIN tail.pending :
                i < j /\ tail.pending[i][1] = tail.pending[j][1] => tail.pending[i][2] < tail.pending[j][2]
        BY <1>1, <1>2, <2>1, RowsInOrder
    <2> QED
        BY <2>2, Zenon DEF Stream!RunEnds, Stream!InOrder
<1> QED
    BY <1>1, <1>3, <1>4, <1>5 DEF Stream!TailSound, Stream!LastFrame, Judged

-----------------------------------------------------------------------------
(* The run's own: one part's behaviour, and the stream is one of the parts. *)

StreamPart == part = "stream" => Stream!TailInv

LEMMA StreamPartInit == MCInit => StreamPart
<1> SUFFICES ASSUME MCInit, part = "stream" PROVE Stream!TailInv
    BY DEF StreamPart
<1>1. Stream!Init
    BY Zenon DEF MCInit
<1> QED
    BY <1>1, InitTail

LEMMA StreamPartNext == ASSUME StreamPart, [MCNext]_mcvars PROVE StreamPart'
<1> SUFFICES ASSUME part' = "stream" PROVE Stream!TailInv'
    BY DEF StreamPart
<1>1. CASE UNCHANGED mcvars
    <2>1. part = "stream" /\ UNCHANGED others
        BY <1>1 DEF mcvars
    <2>2. UNCHANGED Stream!vars
        BY <2>1 DEF others, Stream!vars, Stream!store
    <2> QED
        BY <2>1, <2>2, TailStill DEF StreamPart
<1>2. CASE MCNext
    <2>1. part' = part
        BY <1>2, Zenon DEF MCNext
    <2>2. Stream!Next
        BY <1>2, <2>1, Zenon DEF MCNext
    <2> QED
        BY <2>1, <2>2, NextTail DEF StreamPart
<1> QED
    BY <1>1, <1>2

\* A browser's tail of a case (api/stream.py, api/events.py): however the log, the run,
\* the losses and the reads fall, every named row up to the browser's marker was sent to
\* it, read in a document, or is a row a resumed tail began after; a run's rows end at its
\* terminal, a page's are in order, and one frame at most follows a lost standing.
THEOREM TailSoundHolds == MCSpec => []TailSound
<1>1. MCInit => StreamPart
    BY StreamPartInit
<1>2. StreamPart /\ [MCNext]_mcvars => StreamPart'
    BY StreamPartNext
<1>3. StreamPart => TailSound
    BY TailInvSound DEF StreamPart, TailSound
<1> QED
    BY <1>1, <1>2, <1>3, PTL DEF MCSpec

-----------------------------------------------------------------------------
(* Qualification's state, by the names it has in Qualification.            *)

kinds == x1
run == x2
hands == x3
snaps == x4
verdicts == x5
receipts == x6
sign == x7
moment == x8

USE DEF kinds, run, hands, snaps, verdicts, receipts, sign, moment

\* WordInv, in the parts a step disturbs.
HandsTrue ==
    /\ hands.at \in {"case", "matrix"} =>
            hands.rows = <<>> /\ \A c \in DOMAIN hands.records : Qualification!Settled(c)
    /\ hands.at = "case" => Len(hands.records) < Len(kinds)
    /\ hands.at = "matrix" => Len(hands.records) = Len(kinds)
    /\ Qualification!Faithful(Qualification!InHand)
SnapsTrue == \A snap \in snaps : Qualification!Faithful(snap.doc)
AsksTrue ==
    /\ \A s \in Signs : sign[s].step # "rest" => \E snap \in snaps : snap.doc = sign[s].doc
    /\ \A s \in Signs : sign[s].step = "write" => Qualification!Endorsed(sign[s].doc, sign[s].decided)
WordsTrue == \A v \in verdicts : Qualification!Endorsed(v.doc, v.decided)

LEMMA WordParts ==
    Qualification!WordInv <=>
        Qualification!TypeOK /\ HandsTrue /\ SnapsTrue /\ AsksTrue /\ WordsTrue /\ Qualification!SignedOnce
    BY Zenon DEF Qualification!WordInv, HandsTrue, SnapsTrue, AsksTrue, WordsTrue

LEMMA WordPartsNext ==
    Qualification!WordInv' <=>
        (Qualification!TypeOK /\ HandsTrue /\ SnapsTrue /\ AsksTrue /\ WordsTrue /\ Qualification!SignedOnce)'
    BY WordParts, PTL

\* What the hands are, and a request to sign.
Grasps == [at : {"idle", "case", "matrix", "persist"}, records : Seq(Qualification!Records),
           rows : Seq(Qualification!MatrixRows), release : Releases \cup {"this"}, entered : Nat]
Asked == [step : Qualification!Steps, by : Askers \cup {<<>>},
          doc : Qualification!Documents \cup {<<>>}, decided : Nat]

LEMMA Finite == ASSUME NEW S PROVE Qualification!IsFiniteSet(S) <=> IsFiniteSet(S)
    BY Zenon DEF Qualification!IsFiniteSet, IsFiniteSet

LEMMA Size == ASSUME NEW S PROVE Qualification!Cardinality(S) = Cardinality(S)
    BY Zenon DEF Qualification!Cardinality, Cardinality

LEMMA TypeParts ==
    Qualification!TypeOK <=>
        /\ kinds \in Seq({"cites", "refusal", "blocked"}) /\ kinds # <<>>
        /\ run \in [Qualification!Cases -> Qualification!Runs]
        /\ hands \in Grasps
        /\ hands.at # "idle" => hands.release \in Releases
        /\ snaps \subseteq [doc : Qualification!Documents, complete : BOOLEAN, at : Nat]
        /\ IsFiniteSet(verdicts) /\ IsFiniteSet(receipts)
        /\ sign \in [Signs -> Asked]
        /\ moment \in Nat
    BY Zenon, Finite DEF Qualification!TypeOK, Grasps, Asked

LEMMA KindsTyped ==
    ASSUME Qualification!TypeOK
    PROVE  Len(kinds) \in Nat /\ Len(kinds) > 0 /\ Qualification!Cases = 1..Len(kinds)
    BY EmptySeq DEF Qualification!TypeOK, Qualification!Cases

\* A run that ended stays as it is, but for its sources.
RunsKept ==
    /\ kinds' = kinds
    /\ \A c \in Qualification!Cases : Qualification!Settled(c) =>
            /\ run'[c].status = run[c].status /\ run'[c].artifacts = run[c].artifacts
            /\ run'[c].model = run[c].model /\ run'[c].blocking = run[c].blocking
            /\ run'[c].uncleared = run[c].uncleared

LEMMA FaithfulKept ==
    ASSUME NEW doc, Qualification!Faithful(doc), RunsKept
    PROVE  Qualification!Faithful(doc)'
<1> SUFFICES ASSUME doc.rows # <<>>, NEW c \in Qualification!Cases
             PROVE  /\ DOMAIN doc.records = Qualification!Cases' /\ DOMAIN doc.rows = Qualification!Cases'
                    /\ Qualification!Settled(c)' /\ Qualification!Met(c, doc.rows[c])'
    BY DEF Qualification!Faithful, RunsKept, Qualification!Cases
<1>1. /\ DOMAIN doc.records = Qualification!Cases /\ DOMAIN doc.rows = Qualification!Cases
      /\ Qualification!Settled(c) /\ Qualification!Met(c, doc.rows[c])
    BY DEF Qualification!Faithful
<1>2. /\ run'[c].status = run[c].status /\ run'[c].blocking = run[c].blocking
      /\ run'[c].uncleared = run[c].uncleared /\ kinds' = kinds
    BY <1>1 DEF RunsKept
<1>3. Qualification!Settled(c)'
    BY <1>1, <1>2 DEF Qualification!Settled
<1>4. Qualification!Met(c, doc.rows[c])'
    BY <1>1, <1>2 DEF Qualification!Met, Qualification!RefusalMet
<1> QED
    BY <1>1, <1>2, <1>3, <1>4 DEF Qualification!Cases

\* A snapshot that may be signed stays so: its runs ended.
LEMMA SignableKept ==
    ASSUME NEW snap, Qualification!Signable(snap), Qualification!Faithful(snap.doc), RunsKept
    PROVE  Qualification!Signable(snap)'
<1>1. /\ snap.complete /\ Qualification!DocumentComplete(snap.doc) /\ Qualification!StoreAgrees(snap.doc)
      /\ snap.doc.rows # <<>>
    BY DEF Qualification!Signable, Qualification!DocumentComplete
<1>2. DOMAIN snap.doc.records = Qualification!Cases /\ \A c \in Qualification!Cases : Qualification!Settled(c)
    BY <1>1 DEF Qualification!Faithful
<1>3. \A c \in DOMAIN snap.doc.records : /\ run'[c].status = run[c].status /\ run'[c].artifacts = run[c].artifacts
                                         /\ run'[c].model = run[c].model
    BY <1>2 DEF RunsKept
<1>4. Qualification!StoreAgrees(snap.doc)'
    BY <1>1, <1>3 DEF Qualification!StoreAgrees, Qualification!ModelsRecorded
<1>5. Qualification!DocumentComplete(snap.doc)'
    BY <1>1 DEF Qualification!DocumentComplete
<1> QED
    BY <1>1, <1>4, <1>5 DEF Qualification!Signable

LEMMA EndorsedKept ==
    ASSUME NEW doc, NEW n, Qualification!Endorsed(doc, n), SnapsTrue, RunsKept, snaps \subseteq snaps'
    PROVE  Qualification!Endorsed(doc, n)'
<1>1. PICK snap \in snaps : snap.doc = doc /\ Qualification!Signable(snap) /\ snap.at <= n
    BY DEF Qualification!Endorsed
<1>2. Qualification!Signable(snap)'
    BY <1>1, SignableKept DEF SnapsTrue
<1> QED
    BY <1>1, <1>2 DEF Qualification!Endorsed

\* What a step elsewhere leaves: the hands, the snapshots, the words.
LEMMA HandsStay == ASSUME HandsTrue, RunsKept, hands' = hands, Qualification!TypeOK PROVE HandsTrue'
<1>1. PICK doc : doc = Qualification!InHand
    OBVIOUS
<1>2. Qualification!Faithful(doc)'
    BY <1>1, FaithfulKept DEF HandsTrue
<1>3. Qualification!InHand' = doc
    BY <1>1 DEF Qualification!InHand
<1>4. Qualification!Faithful(Qualification!InHand)'
    BY <1>2, <1>3 DEF Qualification!Faithful
<1>5. hands.at \in {"case", "matrix"} => DOMAIN hands.records \subseteq Qualification!Cases
    BY KindsTyped DEF HandsTrue, Qualification!TypeOK
<1>6. \A c \in Qualification!Cases : Qualification!Settled(c) => Qualification!Settled(c)'
    BY DEF RunsKept, Qualification!Settled
<1> QED
    BY <1>4, <1>5, <1>6 DEF HandsTrue, RunsKept

LEMMA SnapsStay == ASSUME SnapsTrue, RunsKept, snaps' = snaps PROVE SnapsTrue'
    BY FaithfulKept DEF SnapsTrue

LEMMA WordsStay ==
    ASSUME SnapsTrue, AsksTrue, WordsTrue, Qualification!SignedOnce, RunsKept, snaps \subseteq snaps',
           UNCHANGED <<sign, verdicts, receipts>>
    PROVE  (AsksTrue /\ WordsTrue /\ Qualification!SignedOnce)'
<1>1. AsksTrue'
    <2>1. \A s \in Signs : sign'[s].step # "rest" => \E snap \in snaps' : snap.doc = sign'[s].doc
        BY DEF AsksTrue
    <2>2. ASSUME NEW s \in Signs, sign'[s].step = "write"
          PROVE  Qualification!Endorsed(sign[s].doc, sign[s].decided)'
        <3>1. PICK doc, n : doc = sign[s].doc /\ n = sign[s].decided
            OBVIOUS
        <3>2. Qualification!Endorsed(doc, n)'
            BY <2>2, <3>1, EndorsedKept DEF AsksTrue
        <3> QED
            BY <3>1, <3>2 DEF Qualification!Endorsed
    <2> QED
        BY <2>1, <2>2 DEF AsksTrue
<1>2. WordsTrue'
    <2> SUFFICES ASSUME NEW v \in verdicts PROVE Qualification!Endorsed(v.doc, v.decided)'
        BY DEF WordsTrue
    <2> QED
        BY EndorsedKept DEF WordsTrue
<1>3. Qualification!SignedOnce'
    BY DEF Qualification!SignedOnce
<1> QED
    BY <1>1, <1>2, <1>3

LEMMA InitWord == Qualification!Init => Qualification!WordInv
<1> SUFFICES ASSUME Qualification!Init PROVE Qualification!WordInv
    OBVIOUS
<1>1. /\ kinds \in Sets /\ run = [c \in Qualification!Cases |-> Qualification!NewRun]
      /\ hands = Qualification!Idle
      /\ snaps = {} /\ verdicts = {} /\ receipts = {} /\ sign = [s \in Signs |-> Qualification!NoAsk] /\ moment = 0
    BY DEF Qualification!Init
<1>2. kinds \in Seq({"cites", "refusal", "blocked"}) /\ kinds # <<>>
    BY <1>1, SetsAreOfKinds
<1>3. run \in [Qualification!Cases -> Qualification!Runs]
    BY <1>1 DEF Qualification!NewRun, Qualification!Runs
<1>4. /\ hands.at = "idle" /\ hands.rows = <<>>
      /\ hands \in [at : {"idle", "case", "matrix", "persist"}, records : Seq(Qualification!Records),
                    rows : Seq(Qualification!MatrixRows), release : Releases \cup {"this"}, entered : Nat]
    BY <1>1, EmptySeq DEF Qualification!Idle
<1>5. /\ \A s \in Signs : sign[s].step = "rest"
      /\ sign \in [Signs -> [step : Qualification!Steps, by : Askers \cup {<<>>},
                             doc : Qualification!Documents \cup {<<>>}, decided : Nat]]
    BY <1>1 DEF Qualification!NoAsk, Qualification!Steps
<1>6. IsFiniteSet(verdicts) /\ IsFiniteSet(receipts) /\ Cardinality(verdicts) = Cardinality(receipts)
    BY <1>1, FS_EmptySet
<1>7. Qualification!TypeOK
    <2>1. snaps \subseteq [doc : Qualification!Documents, complete : BOOLEAN, at : Nat] /\ moment \in Nat
        BY <1>1
    <2>2. hands.at # "idle" => hands.release \in Releases
        BY <1>4
    <2>3. hands \in Grasps
        BY <1>4, Zenon DEF Grasps
    <2>4. IsFiniteSet(verdicts) /\ IsFiniteSet(receipts)
        BY <1>6
    <2>5. sign \in [Signs -> Asked]
        BY <1>5, Zenon DEF Asked
    <2> QED
        BY <1>2, <1>3, <2>1, <2>2, <2>3, <2>4, <2>5, TypeParts
<1>8. HandsTrue
    BY <1>4 DEF HandsTrue, Qualification!Faithful, Qualification!InHand
<1>9. SnapsTrue /\ AsksTrue /\ WordsTrue
    BY <1>1, <1>5 DEF SnapsTrue, AsksTrue, WordsTrue
<1>10. Qualification!SignedOnce
    BY <1>1, <1>5, <1>6 DEF Qualification!SignedOnce
<1> QED
    BY <1>7, <1>8, <1>9, <1>10, WordParts

-----------------------------------------------------------------------------
(* The prepared runs, and perform.                                         *)

LEMMA CancelWord ==
    ASSUME Qualification!WordInv, NEW c \in Qualification!Cases, Qualification!Cancel(c)
    PROVE  Qualification!WordInv'
<1>1. /\ run[c].status = "RUNNING" /\ run' = [run EXCEPT ![c].status = "CANCELLED"]
      /\ UNCHANGED <<kinds, hands, snaps, verdicts, receipts, sign, moment>>
    BY DEF Qualification!Cancel, Qualification!store
<1>2. Qualification!TypeOK /\ HandsTrue /\ SnapsTrue /\ AsksTrue /\ WordsTrue /\ Qualification!SignedOnce
    BY WordParts
<1>3. run \in [Qualification!Cases -> Qualification!Runs]
    BY <1>2 DEF Qualification!TypeOK
<1>4. run' \in [Qualification!Cases -> Qualification!Runs]
    BY <1>1, <1>3 DEF Qualification!Runs
<1>5. Qualification!TypeOK'
    BY <1>1, <1>2, <1>4 DEF Qualification!TypeOK, Qualification!Cases
<1>6. RunsKept
    BY <1>1, <1>3 DEF RunsKept, Qualification!Settled
<1> QED
    BY <1>1, <1>2, <1>5, <1>6, HandsStay, SnapsStay, WordsStay, WordPartsNext

LEMMA WithdrawWord ==
    ASSUME Qualification!WordInv, NEW c \in Qualification!Cases, Qualification!Withdraw(c)
    PROVE  Qualification!WordInv'
<1>1. /\ run' = [run EXCEPT ![c].live = FALSE]
      /\ UNCHANGED <<kinds, hands, snaps, verdicts, receipts, sign, moment>>
    BY DEF Qualification!Withdraw, Qualification!store
<1>2. Qualification!TypeOK /\ HandsTrue /\ SnapsTrue /\ AsksTrue /\ WordsTrue /\ Qualification!SignedOnce
    BY WordParts
<1>3. run \in [Qualification!Cases -> Qualification!Runs]
    BY <1>2 DEF Qualification!TypeOK
<1>4. run' \in [Qualification!Cases -> Qualification!Runs]
    BY <1>1, <1>3 DEF Qualification!Runs
<1>5. Qualification!TypeOK'
    BY <1>1, <1>2, <1>4 DEF Qualification!TypeOK, Qualification!Cases
<1>6. RunsKept
    BY <1>1, <1>3 DEF RunsKept, Qualification!Runs
<1> QED
    BY <1>1, <1>2, <1>5, <1>6, HandsStay, SnapsStay, WordsStay, WordPartsNext

\* A step of the hands alone: what they are, it has to say.
LEMMA Grasped ==
    ASSUME Qualification!TypeOK, hands' \in Grasps, hands'.at # "idle" => hands'.release \in Releases,
           UNCHANGED <<kinds, run, snaps, verdicts, receipts, sign, moment>>
    PROVE  Qualification!TypeOK'
    BY Zenon DEF Qualification!TypeOK, Qualification!Cases, Grasps

LEMMA Bare == <<>> \in Seq(Qualification!Records) /\ <<>> \in Seq(Qualification!MatrixRows)
    BY EmptySeq

LEMMA HandsMove ==
    ASSUME Qualification!WordInv, Qualification!TypeOK', HandsTrue',
           UNCHANGED <<kinds, run, snaps, verdicts, receipts, sign, moment>>
    PROVE  Qualification!WordInv'
<1>1. SnapsTrue /\ AsksTrue /\ WordsTrue /\ Qualification!SignedOnce
    BY WordParts
<1>2. RunsKept
    BY DEF RunsKept
<1> QED
    BY <1>1, <1>2, SnapsStay, WordsStay, WordPartsNext

LEMMA EnterWord ==
    ASSUME Qualification!WordInv, NEW release \in Releases, Qualification!Enter(release)
    PROVE  Qualification!WordInv'
<1>1. /\ hands' = [Qualification!Idle EXCEPT !.at = "case", !.release = release, !.entered = hands.entered + 1]
      /\ UNCHANGED <<kinds, run, snaps, verdicts, receipts, sign, moment>>
    BY DEF Qualification!Enter, Qualification!store
<1>2. Qualification!TypeOK
    BY WordParts
<1>3. hands' = [at |-> "case", records |-> <<>>, rows |-> <<>>, release |-> release, entered |-> hands.entered + 1]
    BY <1>1, Zenon DEF Qualification!Idle
<1>4. hands.entered \in Nat
    BY <1>2 DEF Qualification!TypeOK
<1>5. Qualification!TypeOK'
    <2>1. hands.entered + 1 \in Nat
        BY <1>4
    <2>2. hands' \in Grasps
        BY <1>3, <2>1, Bare DEF Grasps
    <2> QED
        BY <1>1, <1>2, <1>3, <2>2, Grasped
<1>6. HandsTrue'
    <2>1. hands'.records = <<>> /\ hands'.rows = <<>> /\ hands'.at = "case"
        BY <1>3
    <2>2. Len(<<>>) = 0 /\ DOMAIN <<>> = {}
        OBVIOUS
    <2>3. Len(kinds) \in Nat /\ Len(kinds) > 0 /\ kinds' = kinds
        BY <1>1, <1>2, KindsTyped
    <2>4. Len(hands'.records) < Len(kinds') /\ DOMAIN hands'.records = {}
        BY <2>1, <2>2, <2>3
    <2> QED
        BY <2>1, <2>4 DEF HandsTrue, Qualification!Faithful, Qualification!InHand
<1> QED
    BY <1>1, <1>5, <1>6, HandsMove

LEMMA CrashWord == ASSUME Qualification!WordInv, Qualification!Crash PROVE Qualification!WordInv'
<1>1. /\ hands' = [Qualification!Idle EXCEPT !.entered = hands.entered]
      /\ UNCHANGED <<kinds, run, snaps, verdicts, receipts, sign, moment>>
    BY DEF Qualification!Crash, Qualification!store
<1>2. Qualification!TypeOK
    BY WordParts
<1>3. hands' = [at |-> "idle", records |-> <<>>, rows |-> <<>>, release |-> "this", entered |-> hands.entered]
    BY <1>1, Zenon DEF Qualification!Idle
<1>4. hands.entered \in Nat
    BY <1>2 DEF Qualification!TypeOK
<1>5. Qualification!TypeOK'
    <2>1. hands' \in Grasps
        BY <1>3, <1>4, Bare DEF Grasps
    <2> QED
        BY <1>1, <1>2, <1>3, <2>1, Grasped
<1>6. HandsTrue'
    BY <1>3 DEF HandsTrue, Qualification!Faithful, Qualification!InHand
<1> QED
    BY <1>1, <1>5, <1>6, HandsMove

LEMMA MatrixRefusedWord == ASSUME Qualification!WordInv, Qualification!MatrixRefused PROVE Qualification!WordInv'
<1>1. /\ hands' = [hands EXCEPT !.at = "persist"] /\ hands.at = "matrix"
      /\ UNCHANGED <<kinds, run, snaps, verdicts, receipts, sign, moment>>
    BY DEF Qualification!MatrixRefused, Qualification!store
<1>2. Qualification!TypeOK /\ HandsTrue
    BY WordParts
<1>3. Qualification!TypeOK' /\ hands'.at = "persist" /\ hands'.rows = hands.rows
    BY <1>1, <1>2 DEF Qualification!TypeOK, Qualification!Cases
<1>4. HandsTrue'
    BY <1>1, <1>2, <1>3 DEF HandsTrue, Qualification!Faithful, Qualification!InHand
<1> QED
    BY <1>1, <1>3, <1>4, HandsMove

\* What a case's run comes to is a run, and one that ended stays as it is.
LEMMA OutcomeTyped ==
    ASSUME Qualification!TypeOK, NEW c \in Qualification!Cases,
           NEW outcome \in IF run[c].status = "RUNNING" THEN Qualification!Outcomes(c) ELSE {run[c]}
    PROVE  outcome \in Qualification!Runs /\ (run[c].status # "RUNNING" => outcome = run[c])
<1>1. run[c] \in Qualification!Runs
    BY TypeParts
<1>2. CASE run[c].status # "RUNNING"
    BY <1>1, <1>2
<1>3. CASE run[c].status = "RUNNING"
    <2>1. outcome \in Qualification!Outcomes(c)
        BY <1>3
    <2>2. \/ \E m \in {"named", "other"} :
               outcome = [run[c] EXCEPT !.status = "COMPLETE", !.artifacts = 1, !.model = m, !.uncleared = FALSE]
          \/ \E m \in {"named", "other"} :
               outcome = [run[c] EXCEPT !.status = "BLOCKED", !.artifacts = 1, !.model = m, !.uncleared = TRUE]
          \/ outcome = [run[c] EXCEPT !.status = "BLOCKED", !.blocking = TRUE]
          \/ outcome = run[c]
        BY <2>1, Zenon DEF Qualification!Outcomes
    <2>3. \A m \in {"named", "other"} :
            /\ [run[c] EXCEPT !.status = "COMPLETE", !.artifacts = 1, !.model = m, !.uncleared = FALSE]
                 \in Qualification!Runs
            /\ [run[c] EXCEPT !.status = "BLOCKED", !.artifacts = 1, !.model = m, !.uncleared = TRUE]
                 \in Qualification!Runs
        BY <1>1 DEF Qualification!Runs
    <2>4. [run[c] EXCEPT !.status = "BLOCKED", !.blocking = TRUE] \in Qualification!Runs
        BY <1>1 DEF Qualification!Runs
    <2> QED
        BY <1>1, <1>3, <2>2, <2>3, <2>4, Zenon
<1> QED
    BY <1>2, <1>3

LEMMA PerformOneWord == ASSUME Qualification!WordInv, Qualification!PerformOne PROVE Qualification!WordInv'
<1> DEFINE c == Len(hands.records) + 1
<1>1. PICK outcome \in IF run[c].status = "RUNNING" THEN Qualification!Outcomes(c) ELSE {run[c]} :
        /\ run' = [run EXCEPT ![c] = outcome]
        /\ hands' = [hands EXCEPT
             !.records = Append(@, Qualification!Record(outcome, outcome.status \notin {"COMPLETE", "BLOCKED"})),
             !.at = IF outcome.status \notin {"COMPLETE", "BLOCKED"} THEN "persist"
                    ELSE IF c = Len(kinds) THEN "matrix" ELSE @]
    BY Zenon DEF Qualification!PerformOne
<1>2. /\ hands.at = "case" /\ c \in Qualification!Cases
      /\ UNCHANGED <<kinds, snaps, verdicts, receipts, sign, moment>>
    BY DEF Qualification!PerformOne, Qualification!store
<1>3. Qualification!TypeOK /\ HandsTrue /\ SnapsTrue /\ AsksTrue /\ WordsTrue /\ Qualification!SignedOnce
    BY WordParts
<1>4. outcome \in Qualification!Runs /\ (run[c].status # "RUNNING" => outcome = run[c])
    BY <1>1, <1>2, <1>3, OutcomeTyped
<1>5. hands \in Grasps /\ run \in [Qualification!Cases -> Qualification!Runs]
    BY <1>3, TypeParts
<1>6. PICK record : record = Qualification!Record(outcome, outcome.status \notin {"COMPLETE", "BLOCKED"})
    OBVIOUS
<1>7. record \in Qualification!Records
    BY <1>4, <1>6 DEF Qualification!Record, Qualification!Proves, Qualification!Records, Qualification!Runs
<1>8. /\ hands'.records = Append(hands.records, record) /\ hands'.rows = <<>>
      /\ hands'.at = IF outcome.status \notin {"COMPLETE", "BLOCKED"} THEN "persist"
                     ELSE IF c = Len(kinds) THEN "matrix" ELSE "case"
    BY <1>1, <1>2, <1>3, <1>5, <1>6 DEF Grasps, HandsTrue
<1>9. hands.records \in Seq(Qualification!Records) /\ Len(hands.records) \in Nat
    BY <1>5 DEF Grasps
<1>10. /\ hands'.records \in Seq(Qualification!Records) /\ Len(hands'.records) = c
       /\ DOMAIN hands'.records = 1..c /\ DOMAIN hands.records = 1..Len(hands.records)
    BY <1>7, <1>8, <1>9, AppendProperties
<1>11. hands' \in Grasps /\ hands'.release = hands.release
    <2>1. /\ hands'.release = hands.release /\ hands'.entered = hands.entered
          /\ DOMAIN hands' = {"at", "records", "rows", "release", "entered"}
          /\ hands' = [f \in {"at", "records", "rows", "release", "entered"} |-> hands'[f]]
        BY <1>1, <1>5 DEF Grasps
    <2> HIDE DEF c
    <2> QED
        BY <1>5, <1>8, <1>10, <2>1, Bare DEF Grasps
<1>12. run' \in [Qualification!Cases -> Qualification!Runs]
    BY <1>1, <1>4, <1>5
<1>13. Qualification!TypeOK'
    <2>1. hands'.release \in Releases
        BY <1>2, <1>3, <1>11, TypeParts
    <2> HIDE DEF c
    <2> QED
        BY <1>2, <1>3, <1>11, <1>12, <2>1, Zenon DEF Qualification!TypeOK, Qualification!Cases, Grasps
<1>14. RunsKept
    BY <1>1, <1>2, <1>4, <1>5 DEF RunsKept, Qualification!Settled
<1>15. HandsTrue'
    <2>1. ASSUME hands'.at # "persist", NEW d \in DOMAIN hands'.records PROVE Qualification!Settled(d)'
        <3>1. CASE d = c
            BY <1>1, <1>2, <1>5, <1>8, <2>1, <3>1 DEF Qualification!Settled
        <3>2. CASE d # c
            <4>1. d \in 1..Len(hands.records)
                BY <1>9, <1>10, <3>2
            <4>2. d \in Qualification!Cases /\ Qualification!Settled(d)
                BY <1>2, <1>3, <1>9, <1>10, <4>1, KindsTyped DEF HandsTrue
            <4> QED
                BY <1>14, <4>2 DEF RunsKept, Qualification!Settled
        <3> QED
            BY <3>1, <3>2
    <2>2. Len(kinds) \in Nat /\ Qualification!Cases = 1..Len(kinds)
        BY <1>3, KindsTyped
    <2>3. /\ hands'.at = "case" => Len(hands'.records) < Len(kinds')
          /\ hands'.at = "matrix" => Len(hands'.records) = Len(kinds')
        BY <1>2, <1>8, <1>9, <1>10, <2>2
    <2>4. Qualification!Faithful(Qualification!InHand)'
        BY <1>8 DEF Qualification!Faithful, Qualification!InHand
    <2> QED
        BY <1>8, <2>1, <2>3, <2>4 DEF HandsTrue
<1> QED
    BY <1>2, <1>3, <1>13, <1>14, <1>15, SnapsStay, WordsStay, WordPartsNext

LEMMA BuildMatrixWord == ASSUME Qualification!WordInv, Qualification!BuildMatrix PROVE Qualification!WordInv'
<1>1. PICK cites \in BOOLEAN :
        hands' = [hands EXCEPT !.at = "persist",
                    !.rows = [c \in Qualification!Cases |-> Qualification!Row(c, hands.release, cites)]]
    BY Zenon DEF Qualification!BuildMatrix
<1>2. hands.at = "matrix" /\ UNCHANGED <<kinds, run, snaps, verdicts, receipts, sign, moment>>
    BY DEF Qualification!BuildMatrix, Qualification!store
<1>3. Qualification!TypeOK /\ HandsTrue
    BY WordParts
<1>4. /\ hands \in Grasps /\ run \in [Qualification!Cases -> Qualification!Runs] /\ hands.release \in Releases
      /\ Len(kinds) \in Nat /\ Qualification!Cases = 1..Len(kinds)
    BY <1>2, <1>3, TypeParts, KindsTyped
<1>5. PICK rows : rows = [c \in Qualification!Cases |-> Qualification!Row(c, hands.release, cites)]
    OBVIOUS
<1>6. \A c \in Qualification!Cases : rows[c] \in Qualification!MatrixRows /\ Qualification!Met(c, rows[c])
    <2> TAKE c \in Qualification!Cases
    <2>1. rows[c] = Qualification!Row(c, hands.release, cites) /\ run[c] \in Qualification!Runs
        BY <1>4, <1>5
    <2>2. Qualification!Row(c, hands.release, cites) \in Qualification!MatrixRows
        BY <2>1 DEF Qualification!Row, Qualification!RefusalMet, Qualification!Proves, Qualification!MatrixRows,
            Qualification!Runs
    <2>3. Qualification!Met(c, Qualification!Row(c, hands.release, cites))
        BY <1>4 DEF Qualification!Row, Qualification!Met
    <2> QED
        BY <2>1, <2>2, <2>3
<1>7. rows \in Seq(Qualification!MatrixRows) /\ DOMAIN rows = Qualification!Cases
    BY <1>4, <1>5, <1>6
<1>8. /\ hands' \in Grasps /\ hands'.at = "persist" /\ hands'.rows = rows
      /\ hands'.records = hands.records /\ hands'.release = hands.release
    BY <1>1, <1>4, <1>5, <1>7 DEF Grasps
<1>9. DOMAIN hands.records = Qualification!Cases /\ \A c \in Qualification!Cases : Qualification!Settled(c)
    BY <1>2, <1>3, <1>4 DEF HandsTrue, Grasps
<1>10. HandsTrue'
    <2>1. PICK doc : doc = [records |-> hands.records, rows |-> rows]
        OBVIOUS
    <2>2. Qualification!Faithful(doc)
        BY <1>6, <1>7, <1>9, <2>1 DEF Qualification!Faithful
    <2>3. Qualification!Faithful(doc)'
        BY <1>2, <2>2, FaithfulKept DEF RunsKept
    <2>4. Qualification!InHand' = doc
        BY <1>8, <2>1 DEF Qualification!InHand
    <2>5. Qualification!Faithful(Qualification!InHand)'
        BY <2>3, <2>4 DEF Qualification!Faithful
    <2> QED
        BY <1>8, <2>5 DEF HandsTrue
<1> QED
    BY <1>2, <1>3, <1>4, <1>8, <1>10, Grasped, HandsMove

LEMMA PersistWord == ASSUME Qualification!WordInv, Qualification!Persist PROVE Qualification!WordInv'
<1>1. PICK doc : doc = Qualification!InHand
    OBVIOUS
<1>2. PICK complete \in BOOLEAN :
        snaps' = IF \E s \in snaps : s.doc = doc THEN snaps
                 ELSE snaps \cup {[doc |-> doc, complete |-> complete, at |-> moment]}
    BY <1>1 DEF Qualification!Persist, Qualification!InHand
<1>3. /\ hands' = [Qualification!Idle EXCEPT !.entered = hands.entered]
      /\ UNCHANGED <<kinds, run, verdicts, receipts, sign, moment>>
    BY DEF Qualification!Persist
<1>4. Qualification!TypeOK /\ HandsTrue /\ SnapsTrue /\ AsksTrue /\ WordsTrue /\ Qualification!SignedOnce
    BY WordParts
<1>5. hands' = [at |-> "idle", records |-> <<>>, rows |-> <<>>, release |-> "this", entered |-> hands.entered]
    BY <1>3, Zenon DEF Qualification!Idle
<1>6. hands \in Grasps /\ moment \in Nat
    BY <1>4, TypeParts
<1>7. hands' \in Grasps
    BY <1>5, <1>6, Bare DEF Grasps
<1>8. snaps' \subseteq [doc : Qualification!Documents, complete : BOOLEAN, at : Nat]
    <2>1. doc \in Qualification!Documents
        BY <1>1, <1>6 DEF Grasps, Qualification!InHand, Qualification!Documents
    <2>2. [doc |-> doc, complete |-> complete, at |-> moment]
            \in [doc : Qualification!Documents, complete : BOOLEAN, at : Nat]
        BY <1>6, <2>1
    <2>3. snaps \subseteq [doc : Qualification!Documents, complete : BOOLEAN, at : Nat]
        BY <1>4, TypeParts
    <2> QED
        BY <1>2, <2>2, <2>3, Zenon
<1>9. Qualification!TypeOK'
    <2>1. hands'.at = "idle"
        BY <1>5
    <2> QED
        BY <1>3, <1>4, <1>7, <1>8, <2>1, Zenon DEF Qualification!TypeOK, Qualification!Cases, Grasps
<1>10. RunsKept
    BY <1>3 DEF RunsKept
<1>11. HandsTrue'
    BY <1>5 DEF HandsTrue, Qualification!Faithful, Qualification!InHand
<1>12. SnapsTrue'
    <2>1. Qualification!Faithful(doc)
        BY <1>1, <1>4 DEF HandsTrue
    <2>2. Qualification!Faithful(doc)'
        BY <1>10, <2>1, FaithfulKept
    <2>3. \A s \in snaps : Qualification!Faithful(s.doc)'
        BY <1>4, <1>10, FaithfulKept DEF SnapsTrue
    <2>4. ASSUME NEW s \in snaps' PROVE Qualification!Faithful(s.doc)'
        <3>1. s \in snaps \/ s.doc = doc
            BY <1>2
        <3> QED
            BY <2>2, <2>3, <3>1 DEF Qualification!Faithful
    <2> QED
        BY <2>4 DEF SnapsTrue
<1>13. snaps \subseteq snaps'
    BY <1>2
<1> QED
    BY <1>3, <1>4, <1>9, <1>10, <1>11, <1>12, <1>13, WordsStay, WordPartsNext

-----------------------------------------------------------------------------
(* sign_verdict.                                                           *)

LEMMA EndorsedStays ==
    ASSUME NEW doc, NEW n, Qualification!Endorsed(doc, n), UNCHANGED <<kinds, run, snaps>>
    PROVE  Qualification!Endorsed(doc, n)'
    BY DEF Qualification!Endorsed, Qualification!Signable, Qualification!DocumentComplete,
        Qualification!StoreAgrees, Qualification!ModelsRecorded

\* A step of one request: what it asks after, it has to say.
LEMMA AskMoves ==
    ASSUME Qualification!TypeOK, AsksTrue, UNCHANGED <<kinds, run, snaps>>,
           NEW s \in Signs, NEW ask \in Asked, sign' = [sign EXCEPT ![s] = ask],
           ask.step # "rest" => \E snap \in snaps : snap.doc = ask.doc,
           ask.step = "write" => Qualification!Endorsed(ask.doc, ask.decided)
    PROVE  sign' \in [Signs -> Asked] /\ AsksTrue'
<1>1. sign \in [Signs -> Asked]
    BY TypeParts
<1>2. sign' \in [Signs -> Asked]
    BY <1>1
<1>3. \A t \in Signs : sign'[t] = IF t = s THEN ask ELSE sign[t]
    BY <1>1
<1>4. \A t \in Signs : sign'[t].step # "rest" => \E snap \in snaps' : snap.doc = sign'[t].doc
    BY <1>3 DEF AsksTrue
<1>5. ASSUME NEW t \in Signs, sign'[t].step = "write"
      PROVE  Qualification!Endorsed(sign[t].doc, sign[t].decided)'
    <2>1. PICK doc, n : doc = sign'[t].doc /\ n = sign'[t].decided
        OBVIOUS
    <2>2. Qualification!Endorsed(doc, n)
        BY <1>3, <1>5, <2>1 DEF AsksTrue
    <2>3. Qualification!Endorsed(doc, n)'
        BY <2>2, EndorsedStays
    <2> QED
        BY <2>1, <2>3 DEF Qualification!Endorsed
<1> QED
    BY <1>2, <1>4, <1>5 DEF AsksTrue

LEMMA AskOnly ==
    ASSUME Qualification!WordInv, UNCHANGED <<kinds, run, hands, snaps, verdicts, receipts, moment>>,
           NEW s \in Signs, NEW ask \in Asked, sign' = [sign EXCEPT ![s] = ask],
           ask.step # "rest" => \E snap \in snaps : snap.doc = ask.doc,
           ask.step = "write" => Qualification!Endorsed(ask.doc, ask.decided),
           ask.step = "signed" =>
                \E v \in verdicts : v.reviewer = ask.by.reviewer /\ v.doc = ask.doc /\ v.decided = ask.decided
    PROVE  Qualification!WordInv'
<1>1. Qualification!TypeOK /\ HandsTrue /\ SnapsTrue /\ AsksTrue /\ WordsTrue /\ Qualification!SignedOnce
    BY WordParts
<1>2. sign' \in [Signs -> Asked] /\ AsksTrue'
    BY <1>1, AskMoves
<1>3. Qualification!TypeOK'
    BY <1>1, <1>2, Zenon DEF Qualification!TypeOK, Qualification!Cases, Asked
<1>4. HandsTrue' /\ SnapsTrue'
    BY <1>1, HandsStay, SnapsStay DEF RunsKept
<1>5. WordsTrue'
    <2> SUFFICES ASSUME NEW v \in verdicts PROVE Qualification!Endorsed(v.doc, v.decided)'
        BY DEF WordsTrue
    <2> QED
        BY <1>1, EndorsedStays DEF WordsTrue
<1>6. Qualification!SignedOnce'
    <2>1. sign \in [Signs -> Asked]
        BY <1>1, TypeParts
    <2>2. \A t \in Signs : sign'[t] = IF t = s THEN ask ELSE sign[t]
        BY <2>1
    <2> QED
        BY <1>1, <2>2 DEF Qualification!SignedOnce
<1> QED
    BY <1>2, <1>3, <1>4, <1>5, <1>6, WordPartsNext

LEMMA NoAskTyped == Qualification!NoAsk \in Asked /\ Qualification!NoAsk.step = "rest"
    BY DEF Asked, Qualification!NoAsk, Qualification!Steps

LEMMA AskWord ==
    ASSUME Qualification!WordInv, NEW s \in Signs, NEW by \in Askers, NEW snap \in snaps, NEW decided \in 0..MaxTime,
           Qualification!Ask(s, by, snap, decided)
    PROVE  Qualification!WordInv'
<1>1. PICK ask :
        ask = [Qualification!NoAsk EXCEPT !.step = "look", !.by = by, !.doc = snap.doc, !.decided = decided]
    OBVIOUS
<1>2. sign' = [sign EXCEPT ![s] = ask] /\ UNCHANGED <<kinds, run, hands, snaps, verdicts, receipts, moment>>
    BY <1>1 DEF Qualification!Ask, Qualification!store
<1>3. snap \in [doc : Qualification!Documents, complete : BOOLEAN, at : Nat]
    BY WordParts, TypeParts, Zenon
<1>4. ask \in Asked /\ ask.step = "look" /\ ask.doc = snap.doc
    <2>1. snap.doc \in Qualification!Documents
        BY <1>3
    <2>2. Qualification!NoAsk \in [step : Qualification!Steps, by : {<<>>}, doc : {<<>>}, decided : Nat]
        BY DEF Qualification!NoAsk, Qualification!Steps
    <2>3. decided \in Nat /\ "look" \in Qualification!Steps
        BY DEF Qualification!Steps
    <2> QED
        BY <1>1, <2>1, <2>2, <2>3 DEF Asked
<1> QED
    BY <1>2, <1>4, AskOnly

LEMMA LostWord ==
    ASSUME Qualification!WordInv, NEW s \in Signs, Qualification!Lost(s)
    PROVE  Qualification!WordInv'
<1>1. /\ sign' = [sign EXCEPT ![s] = Qualification!NoAsk]
      /\ UNCHANGED <<kinds, run, hands, snaps, verdicts, receipts, moment>>
    BY DEF Qualification!Lost, Qualification!store
<1>2. PICK ask : ask = Qualification!NoAsk
    OBVIOUS
<1> QED
    BY <1>1, <1>2, NoAskTyped, AskOnly

\* The stored receipt's answer: a word that was given, or a refusal.
LEMMA ReplayWord ==
    ASSUME Qualification!WordInv, NEW s \in Signs, sign[s].step # "rest", Qualification!Replay(s),
           UNCHANGED <<kinds, run, hands, snaps, verdicts, receipts, moment>>
    PROVE  Qualification!WordInv'
<1>1. Qualification!TypeOK /\ AsksTrue /\ Qualification!SignedOnce
    BY WordParts
<1>2. sign \in [Signs -> Asked]
    BY <1>1, TypeParts
<1>3. CASE \E r \in Qualification!Held(s) : r.request = Qualification!Request(s)
    <2>1. PICK r \in receipts : r.by = sign[s].by /\ r.request = Qualification!Request(s)
        BY <1>3 DEF Qualification!Held
    <2>2. r.request.doc = sign[s].doc /\ r.request.decided = sign[s].decided
        BY <2>1 DEF Qualification!Request
    <2>3. \E v \in verdicts : v.reviewer = sign[s].by.reviewer /\ v.doc = sign[s].doc /\ v.decided = sign[s].decided
        BY <1>1, <2>1, <2>2 DEF Qualification!SignedOnce
    <2>4. PICK ask : ask = [sign[s] EXCEPT !.step = "signed"]
        OBVIOUS
    <2>5. sign' = [sign EXCEPT ![s] = ask]
        BY <1>3, <2>4 DEF Qualification!Replay, Qualification!Told
    <2>6. /\ ask \in Asked /\ ask.step = "signed" /\ ask.by = sign[s].by /\ ask.doc = sign[s].doc
          /\ ask.decided = sign[s].decided
        BY <1>2, <2>4 DEF Asked, Qualification!Steps
    <2>7. \E snap \in snaps : snap.doc = ask.doc
        BY <1>1, <2>6 DEF AsksTrue
    <2> QED
        BY <2>3, <2>5, <2>6, <2>7, AskOnly
<1>4. CASE ~\E r \in Qualification!Held(s) : r.request = Qualification!Request(s)
    <2>1. sign' = [sign EXCEPT ![s] = Qualification!NoAsk]
        BY <1>4 DEF Qualification!Replay, Qualification!Refuse
    <2>2. PICK ask : ask = Qualification!NoAsk
        OBVIOUS
    <2> QED
        BY <2>1, <2>2, NoAskTyped, AskOnly
<1> QED
    BY <1>3, <1>4

LEMMA RefuseWord ==
    ASSUME Qualification!WordInv, NEW s \in Signs, Qualification!Refuse(s),
           UNCHANGED <<kinds, run, hands, snaps, verdicts, receipts, moment>>
    PROVE  Qualification!WordInv'
<1>1. PICK ask : ask = Qualification!NoAsk
    OBVIOUS
<1> QED
    BY <1>1, NoAskTyped, AskOnly DEF Qualification!Refuse

LEMMA LookWord ==
    ASSUME Qualification!WordInv, NEW s \in Signs, Qualification!Look(s)
    PROVE  Qualification!WordInv'
<1> DEFINE snap == CHOOSE x \in snaps : x.doc = sign[s].doc
           May == /\ sign[s].decided <= moment /\ moment < sign[s].decided + Stands
                  /\ Qualification!Signable(snap) /\ sign[s].decided >= snap.at
<1>1. /\ sign[s].step = "look"
      /\ IF Qualification!Held(s) # {} THEN Qualification!Replay(s)
         ELSE IF May THEN sign' = [sign EXCEPT ![s].step = "write"] ELSE Qualification!Refuse(s)
      /\ UNCHANGED <<kinds, run, hands, snaps, verdicts, receipts, moment>>
    BY Zenon DEF Qualification!Look, Qualification!store
<1>2. Qualification!TypeOK /\ AsksTrue
    BY WordParts
<1>3. CASE Qualification!Held(s) # {}
    BY <1>1, <1>3, ReplayWord
<1>4. CASE Qualification!Held(s) = {} /\ ~May
    <2> HIDE DEF May
    <2> QED
        BY <1>1, <1>4, RefuseWord
<1>5. CASE Qualification!Held(s) = {} /\ May
    <2>1. sign' = [sign EXCEPT ![s].step = "write"]
        BY <1>1, <1>5, Zenon
    <2>2. \E x \in snaps : x.doc = sign[s].doc
        BY <1>1, <1>2 DEF AsksTrue
    <2>3. snap \in snaps /\ snap.doc = sign[s].doc
        BY <2>2
    <2>4. sign[s] \in Asked /\ sign[s].decided \in Nat /\ snap.at \in Nat
        BY <1>2, <2>3, TypeParts DEF Asked
    <2>5. snap.at <= sign[s].decided
        BY <1>5, <2>4
    <2>6. Qualification!Endorsed(sign[s].doc, sign[s].decided)
        BY <1>5, <2>3, <2>5, Zenon DEF Qualification!Endorsed
    <2>7. PICK ask : ask = [sign[s] EXCEPT !.step = "write"]
        OBVIOUS
    <2>8. ask \in Asked /\ ask.step = "write" /\ ask.doc = sign[s].doc /\ ask.decided = sign[s].decided
        BY <2>4, <2>7 DEF Asked, Qualification!Steps
    <2>9. sign' = [sign EXCEPT ![s] = ask]
        BY <2>1, <2>7
    <2> HIDE DEF May, snap
    <2>10. Qualification!Endorsed(ask.doc, ask.decided) /\ \E x \in snaps : x.doc = ask.doc
        BY <2>2, <2>6, <2>8
    <2> QED
        BY <1>1, <2>8, <2>9, <2>10, AskOnly
<1> QED
    BY <1>3, <1>4, <1>5, Zenon

LEMMA WriteWord ==
    ASSUME Qualification!WordInv, NEW s \in Signs, Qualification!Write(s)
    PROVE  Qualification!WordInv'
<1>1. sign[s].step = "write" /\ UNCHANGED <<kinds, run, hands, snaps, moment>>
    BY DEF Qualification!Write
<1>2. Qualification!TypeOK /\ HandsTrue /\ SnapsTrue /\ AsksTrue /\ WordsTrue /\ Qualification!SignedOnce
    BY WordParts
<1>3. CASE (\E v \in verdicts : v.doc = sign[s].doc) \/ Qualification!Held(s) # {}
    <2>1. /\ UNCHANGED <<verdicts, receipts>>
          /\ IF Qualification!Held(s) # {} THEN Qualification!Replay(s) ELSE Qualification!Refuse(s)
        BY <1>3, Zenon DEF Qualification!Write
    <2>2. CASE Qualification!Held(s) # {}
        BY <1>1, <2>1, <2>2, ReplayWord
    <2>3. CASE Qualification!Held(s) = {}
        BY <1>1, <2>1, <2>3, RefuseWord
    <2> QED
        BY <2>2, <2>3
<1>4. CASE (\A v \in verdicts : v.doc # sign[s].doc) /\ Qualification!Held(s) = {}
    <2>1. PICK v0 : v0 = [doc |-> sign[s].doc, reviewer |-> sign[s].by.reviewer, decided |-> sign[s].decided,
                          expires |-> sign[s].decided + Stands]
        OBVIOUS
    <2>2. PICK r0 : r0 = [by |-> sign[s].by, request |-> Qualification!Request(s)]
        OBVIOUS
    <2>3. /\ verdicts' = verdicts \cup {v0} /\ receipts' = receipts \cup {r0}
          /\ sign' = [sign EXCEPT ![s].step = "signed"]
        BY <1>4, <2>1, <2>2, Zenon DEF Qualification!Write, Qualification!Told
    <2>4. /\ v0.doc = sign[s].doc /\ v0.reviewer = sign[s].by.reviewer /\ v0.decided = sign[s].decided
          /\ r0.by = sign[s].by /\ r0.request.doc = sign[s].doc /\ r0.request.decided = sign[s].decided
        BY <2>1, <2>2 DEF Qualification!Request
    <2>5. v0 \notin verdicts /\ r0 \notin receipts
        BY <1>4, <2>4 DEF Qualification!Held
    <2>6. PICK ask : ask = [sign[s] EXCEPT !.step = "signed"]
        OBVIOUS
    <2>7. sign \in [Signs -> Asked] /\ IsFiniteSet(verdicts) /\ IsFiniteSet(receipts)
        BY <1>2, TypeParts
    <2>8. /\ sign' = [sign EXCEPT ![s] = ask] /\ ask \in Asked /\ ask.step = "signed" /\ ask.by = sign[s].by
          /\ ask.doc = sign[s].doc /\ ask.decided = sign[s].decided
        BY <2>3, <2>6, <2>7 DEF Asked, Qualification!Steps
    <2>9. \E snap \in snaps : snap.doc = ask.doc
        BY <1>1, <1>2, <2>8 DEF AsksTrue
    <2>10. sign' \in [Signs -> Asked] /\ AsksTrue'
        BY <1>1, <1>2, <2>8, <2>9, AskMoves
    <2>11. IsFiniteSet(verdicts') /\ IsFiniteSet(receipts')
        BY <2>3, <2>7, FS_AddElement, Zenon
    <2>12. Cardinality(verdicts') = Cardinality(receipts')
        <3>1. Cardinality(verdicts) = Cardinality(receipts)
            BY <1>2, Size, Zenon DEF Qualification!SignedOnce
        <3>2. Cardinality(verdicts') = Cardinality(verdicts) + 1
            BY <2>3, <2>5, <2>7, FS_AddElement
        <3>3. Cardinality(receipts') = Cardinality(receipts) + 1
            BY <2>3, <2>5, <2>7, FS_AddElement
        <3> QED
            BY <3>1, <3>2, <3>3, Zenon
    <2>13. Qualification!TypeOK'
        <3>1. Qualification!IsFiniteSet(verdicts') /\ Qualification!IsFiniteSet(receipts')
            BY <2>11, Finite, Zenon
        <3> QED
            BY <1>1, <1>2, <2>10, <3>1, Zenon DEF Qualification!TypeOK, Qualification!Cases, Asked
    <2>14. HandsTrue' /\ SnapsTrue'
        BY <1>1, <1>2, HandsStay, SnapsStay DEF RunsKept
    <2>15. WordsTrue'
        <3>1. Qualification!Endorsed(v0.doc, v0.decided)
            BY <1>1, <1>2, <2>4 DEF AsksTrue
        <3>2. ASSUME NEW v \in verdicts' PROVE Qualification!Endorsed(v.doc, v.decided)'
            <4>1. Qualification!Endorsed(v.doc, v.decided)
                BY <1>2, <2>3, <3>1 DEF WordsTrue
            <4> QED
                BY <1>1, <4>1, EndorsedStays
        <3> QED
            BY <3>2 DEF WordsTrue
    <2>16. \A v, w \in verdicts' : v.doc = w.doc => v = w
        BY <1>2, <1>4, <2>3, <2>4 DEF Qualification!SignedOnce
    <2>17. \A r \in receipts' : \E v \in verdicts' :
                v.reviewer = r.by.reviewer /\ v.doc = r.request.doc /\ v.decided = r.request.decided
        <3> SUFFICES ASSUME NEW r \in receipts'
                     PROVE  \E v \in verdicts' : /\ v.reviewer = r.by.reviewer /\ v.doc = r.request.doc
                                                 /\ v.decided = r.request.decided
            OBVIOUS
        <3>1. CASE r = r0
            BY <2>3, <2>4, <3>1
        <3>2. CASE r \in receipts
            BY <1>2, <2>3, <3>2, Zenon DEF Qualification!SignedOnce
        <3> QED
            BY <2>3, <3>1, <3>2
    <2>18. ASSUME NEW t \in Signs, sign'[t].step = "signed"
           PROVE  \E v \in verdicts' : /\ v.reviewer = sign'[t].by.reviewer /\ v.doc = sign'[t].doc
                                       /\ v.decided = sign'[t].decided
        <3>1. CASE t = s
            <4>1. sign'[t] = ask
                BY <2>7, <2>8, <3>1
            <4> QED
                BY <2>3, <2>4, <2>8, <4>1
        <3>2. CASE t # s
            <4>1. sign'[t] = sign[t]
                BY <2>7, <2>8, <3>2
            <4>2. PICK v \in verdicts : /\ v.reviewer = sign[t].by.reviewer /\ v.doc = sign[t].doc
                                       /\ v.decided = sign[t].decided
                BY <1>2, <2>18, <4>1 DEF Qualification!SignedOnce
            <4> QED
                BY <2>3, <4>1, <4>2
        <3> QED
            BY <3>1, <3>2
    <2>19. Qualification!SignedOnce'
        <3>1. Qualification!Cardinality(verdicts') = Qualification!Cardinality(receipts')
            BY <2>12, Size, Zenon
        <3> QED
            BY <2>16, <2>17, <2>18, <3>1, Zenon DEF Qualification!SignedOnce
    <2> QED
        BY <2>10, <2>13, <2>14, <2>15, <2>19, WordPartsNext
<1> QED
    BY <1>3, <1>4

LEMMA PassWord == ASSUME Qualification!WordInv, Qualification!Pass PROVE Qualification!WordInv'
<1>1. moment' = moment + 1 /\ UNCHANGED <<kinds, run, hands, snaps, verdicts, receipts, sign>>
    BY DEF Qualification!Pass, Qualification!store
<1>2. Qualification!TypeOK /\ HandsTrue /\ SnapsTrue /\ AsksTrue /\ WordsTrue /\ Qualification!SignedOnce
    BY WordParts
<1>3. moment' \in Nat
    BY <1>1, <1>2, TypeParts
<1>4. Qualification!TypeOK'
    BY <1>1, <1>2, <1>3, Zenon DEF Qualification!TypeOK, Qualification!Cases
<1>5. RunsKept
    BY <1>1 DEF RunsKept
<1> QED
    BY <1>1, <1>2, <1>4, <1>5, HandsStay, SnapsStay, WordsStay, WordPartsNext

LEMMA WordStill == ASSUME Qualification!WordInv, UNCHANGED Qualification!vars PROVE Qualification!WordInv'
<1>1. UNCHANGED <<kinds, run, hands, snaps, verdicts, receipts, sign, moment>>
    BY DEF Qualification!vars, Qualification!store
<1>2. Qualification!TypeOK /\ HandsTrue
    BY WordParts
<1>3. Qualification!TypeOK'
    BY <1>1, <1>2, Zenon DEF Qualification!TypeOK, Qualification!Cases
<1>4. HandsTrue'
    BY <1>1, <1>2, HandsStay DEF RunsKept
<1> QED
    BY <1>1, <1>3, <1>4, HandsMove

LEMMA NextWord ==
    ASSUME Qualification!WordInv, [Qualification!Next]_(Qualification!vars)
    PROVE  Qualification!WordInv'
<1>1. CASE \E c \in Qualification!Cases : Qualification!Cancel(c) \/ Qualification!Withdraw(c)
    BY <1>1, CancelWord, WithdrawWord
<1>2. CASE \E release \in Releases : Qualification!Enter(release)
    BY <1>2, EnterWord
<1>3. CASE \/ Qualification!PerformOne \/ Qualification!BuildMatrix \/ Qualification!MatrixRefused
           \/ Qualification!Persist \/ Qualification!Crash
    BY <1>3, PerformOneWord, BuildMatrixWord, MatrixRefusedWord, PersistWord, CrashWord
<1>4. CASE \E s \in Signs, by \in Askers, snap \in snaps, decided \in 0..MaxTime :
                Qualification!Ask(s, by, snap, decided)
    BY <1>4, AskWord
<1>5. CASE \E s \in Signs : Qualification!Look(s) \/ Qualification!Write(s) \/ Qualification!Lost(s)
    BY <1>5, LookWord, WriteWord, LostWord
<1>6. CASE Qualification!Pass
    BY <1>6, PassWord
<1>7. CASE UNCHANGED Qualification!vars
    BY <1>7, WordStill
<1> QED
    BY <1>1, <1>2, <1>3, <1>4, <1>5, <1>6, <1>7, Zenon DEF Qualification!Next

-----------------------------------------------------------------------------
\* What a complete document says of a case whose matrix was built over its ended run.
LEMMA EndedSo ==
    ASSUME Qualification!TypeOK, NEW doc, NEW c \in Qualification!Cases,
           Qualification!Faithful(doc), Qualification!DocumentComplete(doc), Qualification!StoreAgrees(doc)
    PROVE  /\ Qualification!EndedAsDeclared(c)
           /\ run[c].artifacts > 0 => run[c].model = "named"
           /\ \E d \in Qualification!Cases : run[d].artifacts > 0
<1>1. doc.rows # <<>>
    BY DEF Qualification!DocumentComplete
<1>2. /\ DOMAIN doc.records = Qualification!Cases /\ DOMAIN doc.rows = Qualification!Cases
      /\ Qualification!Settled(c) /\ Qualification!Met(c, doc.rows[c])
    BY <1>1 DEF Qualification!Faithful
<1>3. /\ Qualification!Finished(doc.records[c], doc.rows[c]) /\ Qualification!Answered(doc.rows[c])
      /\ run[c].status = doc.records[c].status
    BY <1>2 DEF Qualification!DocumentComplete, Qualification!StoreAgrees
<1>4. run[c] \in Qualification!Runs /\ kinds[c] \in {"cites", "refusal", "blocked"}
    BY TypeParts, KindsTyped
<1>5. /\ run[c].artifacts > 0 => run[c].model = "named"
      /\ \E d \in Qualification!Cases : run[d].artifacts > 0
    BY <1>2 DEF Qualification!StoreAgrees, Qualification!ModelsRecorded
<1>6. CASE kinds[c] = "cites"
    <2>1. doc.rows[c].refusal_met = {} /\ doc.rows[c].blocked_met = {}
        BY <1>2, <1>6 DEF Qualification!Met
    <2>2. run[c].status = "COMPLETE"
        BY <1>3, <2>1 DEF Qualification!Finished
    <2> QED
        BY <1>5, <1>6, <2>2 DEF Qualification!EndedAsDeclared
<1>7. CASE kinds[c] = "refusal"
    <2>1. PICK release \in Releases : doc.rows[c].refusal_met = {Qualification!RefusalMet(run[c], release)}
        BY <1>2, <1>7 DEF Qualification!Met
    <2>2. doc.rows[c].refusal_met = {TRUE}
        BY <1>3, <2>1 DEF Qualification!Answered
    <2>3. Qualification!RefusalMet(run[c], release)
        BY <2>1, <2>2 DEF Qualification!RefusalMet
    <2>4. run[c].status = "BLOCKED"
        BY <1>2, <1>3, <2>2 DEF Qualification!Finished, Qualification!Settled
    <2> QED
        BY <1>5, <1>7, <2>3, <2>4 DEF Qualification!EndedAsDeclared, Qualification!RefusalMet
<1>8. CASE kinds[c] = "blocked"
    <2>1. doc.rows[c].blocked_met = {run[c].uncleared}
        BY <1>2, <1>8 DEF Qualification!Met
    <2>2. run[c].uncleared
        BY <1>3, <1>4, <2>1 DEF Qualification!Answered, Qualification!Runs
    <2> QED
        BY <1>2, <1>5, <1>8, <2>2 DEF Qualification!EndedAsDeclared, Qualification!Settled
<1> QED
    BY <1>4, <1>6, <1>7, <1>8

LEMMA WordInvSound == Qualification!WordInv => Qualification!QualificationSound
<1> SUFFICES ASSUME Qualification!WordInv PROVE Qualification!QualificationSound
    OBVIOUS
<1>1. Qualification!TypeOK /\ SnapsTrue /\ WordsTrue /\ Qualification!SignedOnce
    BY WordParts
<1>2. ASSUME NEW v \in verdicts
      PROVE  /\ \A c \in Qualification!Cases :
                  Qualification!EndedAsDeclared(c) /\ (run[c].artifacts > 0 => run[c].model = "named")
             /\ \E c \in Qualification!Cases : run[c].artifacts > 0
             /\ \E snap \in snaps : snap.doc = v.doc /\ Qualification!Signable(snap) /\ snap.at <= v.decided
    <2>1. PICK snap \in snaps : snap.doc = v.doc /\ Qualification!Signable(snap) /\ snap.at <= v.decided
        BY <1>1 DEF WordsTrue, Qualification!Endorsed
    <2>2. /\ Qualification!Faithful(snap.doc) /\ Qualification!DocumentComplete(snap.doc)
          /\ Qualification!StoreAgrees(snap.doc)
        BY <1>1, <2>1 DEF SnapsTrue, Qualification!Signable
    <2>3. 1 \in Qualification!Cases
        BY <1>1, KindsTyped
    <2> QED
        BY <1>1, <2>1, <2>2, <2>3, EndedSo
<1>3. Qualification!SignedIsTrue
    BY <1>2, Zenon DEF Qualification!SignedIsTrue
<1> QED
    BY <1>1, <1>3 DEF Qualification!QualificationSound

QualificationPart == part = "qualification" => Qualification!WordInv

LEMMA QualificationPartNext == ASSUME QualificationPart, [MCNext]_mcvars PROVE QualificationPart'
<1> SUFFICES ASSUME part' = "qualification" PROVE Qualification!WordInv'
    BY DEF QualificationPart
<1>1. CASE UNCHANGED mcvars
    <2>1. part = "qualification" /\ UNCHANGED others
        BY <1>1 DEF mcvars
    <2>2. UNCHANGED Qualification!vars
        BY <2>1 DEF others, Qualification!vars, Qualification!store
    <2> QED
        BY <2>1, <2>2, NextWord DEF QualificationPart
<1>2. CASE MCNext
    <2>1. part' = part
        BY <1>2, Zenon DEF MCNext
    <2>2. Qualification!Next
        BY <1>2, <2>1, Zenon DEF MCNext
    <2> QED
        BY <2>1, <2>2, NextWord DEF QualificationPart
<1> QED
    BY <1>1, <1>2

\* A reviewer's word (qualification/store.py): for any set, any releases, any requests to
\* sign, and however runs end, entries cross and units fall, a signed snapshot is of runs
\* that ended as their cases declared, under the model it names; one word per snapshot,
\* one receipt per word, and who is told it was signed finds it so.
THEOREM QualificationSoundHolds == MCSpec => []QualificationSound
<1>1. MCInit => QualificationPart
    <2> SUFFICES ASSUME MCInit, part = "qualification" PROVE Qualification!WordInv
        BY DEF QualificationPart
    <2>1. Qualification!Init
        BY Zenon DEF MCInit
    <2> QED
        BY <2>1, InitWord
<1>2. QualificationPart /\ [MCNext]_mcvars => QualificationPart'
    BY QualificationPartNext
<1>3. QualificationPart => QualificationSound
    BY WordInvSound DEF QualificationPart, QualificationSound
<1> QED
    BY <1>1, <1>2, <1>3, PTL DEF MCSpec

-----------------------------------------------------------------------------
(* A model call's state, by the names it has in Completion.                *)

stage == x1
elapsed == x2
sends == x3
end == x4
result == x5

USE DEF stage, elapsed, sends, end, result

LEMMA CallTimes ==
    /\ Timeout \in Nat /\ Tries \in Nat /\ WaitCap \in Nat /\ FenceTicks \in Nat
    /\ Completion!MinResend \in Nat /\ FenceTicks <= Completion!MinResend /\ Completion!MinResend <= Timeout
    BY CallTimesAreNumbers DEF Completion!MinResend

Sending == [began : 0..Timeout, running : BOOLEAN, reached : BOOLEAN, cost : Nat]

\* What one send's end is read as, whichever it is.
ReadAs(e, r) ==
    /\ r \in [content : BOOLEAN, charge : Nat, refusal : Completion!Refusals, drop : Completion!Drops]
    /\ r.refusal # "STOPPED"
    /\ r.charge # 0 => e.how = "message" /\ r.charge <= Completion!Cost(e)
    /\ r.content => r.charge = Completion!Cost(e) /\ e.finish = "stop" /\ e.content = "some"
    /\ r.drop \in {"DECLARED", "DECLARED_AFTER_CONTENT"} => e # Completion!Silent /\ ~e.conn
    /\ r.drop = "DEADLINE" <=> e = Completion!Silent

LEMMA EndKinds ==
    ASSUME NEW e \in Completion!Ends
    PROVE  /\ e.how \in {"vendor", "cut", "message", "raised", "escaped", "foreign"}
           /\ e.how = "vendor" => e \in Completion!VendorEnds
           /\ e.how = "cut" => e \in Completion!CutEnds
           /\ e.how = "message" => e \in Completion!Messages /\ Completion!Possible(e)
           /\ e # Completion!Silent
    BY DEF Completion!Ends, Completion!VendorEnds, Completion!CutEnds, Completion!Messages, Completion!Others,
           Completion!Silent

LEMMA MessageRead ==
    ASSUME NEW e \in Completion!Messages, Completion!Possible(e), e.how = "message"
    PROVE  ReadAs(e, Completion!Completed(e))
<1> DEFINE charge == Completion!Charge(e)
<1>1. /\ e.input \in {0, 2, 4} /\ e.output \in 0..4 /\ e.true_output \in 0..1
      /\ e.usage \in BOOLEAN /\ e.finish \in {"stop", "length", "content_filter", "other", "none"}
      /\ e.output \in {0, e.true_output, 4}
    BY DEF Completion!Messages, Completion!Possible, Completion!In, Completion!Most
<1>2. Completion!Cost(e) = 2 + e.true_output
    BY DEF Completion!Cost, Completion!In
<1>3. charge \in Nat /\ charge <= 2 + e.true_output
    BY <1>1 DEF Completion!Charge, Completion!Unknown, Completion!Most
<1>4. e.content = "some" /\ charge # 0 => charge = 2 + e.true_output
    BY <1>1 DEF Completion!Charge, Completion!Unknown, Completion!Most, Completion!Text, Completion!Possible
<1>5. e # Completion!Silent
    BY DEF Completion!Silent
<1> DEFINE r == Completion!Completed(e)
<1> HIDE DEF charge
<1>6. /\ r.content \in BOOLEAN /\ r.charge = charge /\ r.drop = "none" /\ r.refusal \in Completion!Refusals
      /\ r.refusal # "STOPPED"
      /\ r.content => e.finish = "stop" /\ e.content = "some" /\ charge # 0
      /\ r = [content |-> r.content, charge |-> r.charge, refusal |-> r.refusal, drop |-> r.drop]
    BY <1>1 DEF Completion!Completed, Completion!FinishRefusal, Completion!Refusals, Completion!Unknown, charge
<1> HIDE DEF r
<1> QED
    BY <1>2, <1>3, <1>4, <1>5, <1>6 DEF ReadAs, Completion!Drops, r

LEMMA UnansweredRead ==
    ASSUME NEW e, NEW refusal \in Completion!Refusals \ {"STOPPED"}, NEW drop \in Completion!Drops,
           drop \in {"DECLARED", "DECLARED_AFTER_CONTENT"} => e # Completion!Silent /\ ~e.conn,
           drop = "DEADLINE" <=> e = Completion!Silent
    PROVE  ReadAs(e, Completion!Unanswered(refusal, drop))
<1>1. PICK r : r = Completion!Unanswered(refusal, drop)
    OBVIOUS
<1>2. r \in [content : BOOLEAN, charge : Nat, refusal : Completion!Refusals, drop : Completion!Drops]
    BY <1>1 DEF Completion!Unanswered, Completion!Empty, Completion!Unknown, Completion!Refusals, Completion!Drops
<1>3. r.content = FALSE /\ r.charge = 0 /\ r.refusal = refusal /\ r.drop = drop
    BY <1>1 DEF Completion!Unanswered, Completion!Empty, Completion!Unknown
<1>4. ReadAs(e, r)
    BY <1>2, <1>3, Zenon DEF ReadAs
<1> QED
    BY <1>1, <1>4

LEMMA EveryEndRead ==
    ASSUME NEW e \in Completion!Ends \cup {Completion!Silent}
    PROVE  ReadAs(e, Completion!ResultOf(e))
<1>1. CASE e.how = "message"
    <2>1. e \in Completion!Messages /\ Completion!Possible(e)
        BY <1>1, EndKinds DEF Completion!Silent
    <2> QED
        BY <1>1, <2>1, MessageRead DEF Completion!ResultOf
<1>2. CASE e.how = "vendor"
    <2>1. e \in Completion!VendorEnds /\ e # Completion!Silent
        BY <1>2, EndKinds DEF Completion!Silent
    <2>2. Completion!ResultOf(e) = Completion!VendorResult(e)
        BY <1>2 DEF Completion!ResultOf
    <2>3. PICK refusal \in {"CALL_INVALID", "UNAVAILABLE"}, drop \in {"RAISED", "VENDOR", "DECLARED"} :
            /\ Completion!ResultOf(e) = Completion!Unanswered(refusal, drop)
            /\ drop = "DECLARED" => ~e.conn
        BY <2>2 DEF Completion!VendorResult, Completion!StatusRefusal, Completion!Declared
    <2> QED
        BY <2>1, <2>3, UnansweredRead DEF Completion!Refusals, Completion!Drops
<1>3. CASE e.how = "cut"
    <2>1. e \in Completion!CutEnds /\ e # Completion!Silent
        BY <1>3, EndKinds DEF Completion!Silent
    <2>2. Completion!ResultOf(e) = Completion!Unanswered("UNAVAILABLE", Completion!CutKind(e))
        BY <1>3 DEF Completion!ResultOf
    <2>3. Completion!CutKind(e) \in {"DECLARED_AFTER_CONTENT", "RAISED"}
          /\ (Completion!CutKind(e) = "DECLARED_AFTER_CONTENT" => ~e.conn)
        BY DEF Completion!CutKind
    <2> QED
        BY <2>1, <2>2, <2>3, UnansweredRead DEF Completion!Refusals, Completion!Drops
<1>4. CASE e.how \in {"raised", "escaped"}
    <2>1. PICK drop \in {"RAISED", "ESCAPED"} : Completion!ResultOf(e) = Completion!Unanswered("UNAVAILABLE", drop)
        BY <1>4 DEF Completion!ResultOf
    <2>2. e # Completion!Silent
        BY <1>4 DEF Completion!Silent
    <2> QED
        BY <2>1, <2>2, UnansweredRead DEF Completion!Refusals, Completion!Drops
<1>5. CASE e.how = "foreign"
    <2>1. Completion!ResultOf(e) = [content |-> FALSE, charge |-> 0, refusal |-> "RESPONSE_INVALID", drop |-> "none"]
        BY <1>5 DEF Completion!ResultOf, Completion!Empty, Completion!Unknown
    <2>2. e # Completion!Silent
        BY <1>5 DEF Completion!Silent
    <2> QED
        BY <2>1, <2>2 DEF ReadAs, Completion!Refusals, Completion!Drops
<1>6. CASE e = Completion!Silent
    <2>1. Completion!ResultOf(e) = Completion!Unanswered("UNAVAILABLE", "DEADLINE")
        BY <1>6 DEF Completion!ResultOf, Completion!Silent
    <2> QED
        BY <1>6, <2>1, UnansweredRead DEF Completion!Refusals, Completion!Drops
<1> QED
    BY <1>1, <1>2, <1>3, <1>4, <1>5, <1>6, EndKinds, Zenon
-----------------------------------------------------------------------------
(* CompletionInv, in the parts a step disturbs.                            *)

CallTyped ==
    /\ stage \in {"idle", "call", "read", "fence", "done"} /\ elapsed \in 0..Timeout
    /\ sends \in Seq(Sending) /\ end \in Completion!Ends \cup {Completion!Silent}
ResultTyped == result \in [content : BOOLEAN, charge : Nat, refusal : Completion!Refusals, drop : Completion!Drops]
OthersClear == \A i \in 1..Len(sends) : i < Len(sends) => ~sends[i].running /\ ~sends[i].reached
BegunInTime == \A i \in 1..Len(sends) : sends[i].began + Completion!MinResend <= Timeout
LastClear == ~sends[Len(sends)].running /\ ~sends[Len(sends)].reached
Standing ==
    /\ stage = "idle" => sends = <<>>
    /\ stage # "idle" /\ sends = <<>> => stage = "done"
    /\ stage = "call" => ~sends[Len(sends)].reached
    /\ stage = "read" => Completion!LastEnd
    /\ stage = "fence" => LastClear /\ Completion!RateLimited(end) /\ elapsed + Completion!MinResend <= Timeout
AtMostOne == Cardinality(Completion!PaidSends) <= 1
Judgement ==
    stage = "done" =>
        /\ result.refusal = "STOPPED" => Completion!PaidSends = {}
        /\ Completion!BilledTruly /\ Completion!DropTrue

LEMMA CompletionSize == ASSUME NEW S PROVE Completion!Cardinality(S) = Cardinality(S)
    BY Zenon DEF Completion!Cardinality, Cardinality

LEMMA SentIs == sends \in Seq(Sending) => Completion!Sent = 1..Len(sends) /\ Completion!Last = Len(sends)
    BY DEF Completion!Sent, Completion!Last

LEMMA CompletionParts ==
    Completion!CompletionInv <=>
        CallTyped /\ ResultTyped /\ OthersClear /\ BegunInTime /\ Standing /\ AtMostOne /\ Judgement
<1>1. Completion!TypeOK <=> CallTyped /\ ResultTyped
    BY DEF Completion!TypeOK, CallTyped, ResultTyped, Sending
<1>2. ASSUME CallTyped
      PROVE  /\ OthersClear <=> \A i \in Completion!Sent : i < Completion!Last => Completion!Clear(i)
             /\ BegunInTime <=> \A i \in Completion!Sent : sends[i].began + Completion!MinResend <= Timeout
             /\ LastClear <=> Completion!Clear(Completion!Last)
    BY <1>2, SentIs, Zenon DEF CallTyped, OthersClear, BegunInTime, Completion!Clear, LastClear
<1>3. ASSUME CallTyped
      PROVE  Standing <=>
        /\ stage = "idle" <=> sends = <<>> /\ stage # "done"
        /\ stage = "call" => ~sends[Completion!Last].reached
        /\ stage = "read" => Completion!LastEnd
        /\ stage = "fence" => /\ Completion!Clear(Completion!Last) /\ Completion!RateLimited(end)
                              /\ elapsed + Completion!MinResend <= Timeout
    BY <1>2, <1>3, SentIs DEF CallTyped, Standing
<1>4. AtMostOne /\ Judgement <=> Completion!OnePaid /\ Completion!BilledTruly /\ Completion!DropTrue
    BY CompletionSize, Zenon
    DEF AtMostOne, Judgement, Completion!OnePaid, Completion!BilledTruly, Completion!DropTrue
<1> QED
    BY <1>1, <1>2, <1>3, <1>4, Zenon DEF Completion!CompletionInv

LEMMA CompletionPartsNext ==
    Completion!CompletionInv' <=>
        (CallTyped /\ ResultTyped /\ OthersClear /\ BegunInTime /\ Standing /\ AtMostOne /\ Judgement)'
    BY CompletionParts, PTL

\* At most the last send was a model's work.
PaidIsLast == Completion!PaidSends \subseteq {Len(sends)} \cap 1..Len(sends)

LEMMA PaidFrom ==
    ASSUME sends \in Seq(Sending), OthersClear
    PROVE  /\ PaidIsLast /\ AtMostOne
           /\ ~sends[Len(sends)].reached => Completion!PaidSends = {}
           /\ sends # <<>> /\ sends[Len(sends)].reached => Completion!PaidSends = {Len(sends)}
<1>1. PaidIsLast
    BY SentIs DEF PaidIsLast, OthersClear, Completion!PaidSends
<1>2. ~sends[Len(sends)].reached => Completion!PaidSends = {}
    BY <1>1 DEF PaidIsLast, Completion!PaidSends
<1>3. sends # <<>> /\ sends[Len(sends)].reached => Completion!PaidSends = {Len(sends)}
    BY <1>1, SentIs DEF PaidIsLast, Completion!PaidSends
<1>4. Completion!PaidSends = {} \/ Completion!PaidSends = {Len(sends)}
    BY <1>1 DEF PaidIsLast
<1>5. AtMostOne
    <2>1. Cardinality(Completion!PaidSends) = 0 \/ Cardinality(Completion!PaidSends) = 1
        BY <1>4, FS_EmptySet, FS_Singleton, Zenon
    <2> QED
        BY <2>1 DEF AtMostOne
<1> QED
    BY <1>1, <1>2, <1>3, <1>5

LEMMA PaidFromNext ==
    (sends \in Seq(Sending) /\ OthersClear =>
        /\ AtMostOne
        /\ ~sends[Len(sends)].reached => Completion!PaidSends = {}
        /\ sends # <<>> /\ sends[Len(sends)].reached => Completion!PaidSends = {Len(sends)})'
    BY PaidFrom, PTL
-----------------------------------------------------------------------------
(* The steps of a call.                                                    *)

\* A send is made while the one before it is clear, with the time it needs left.
LEMMA Sends ==
    ASSUME CallTyped, OthersClear, BegunInTime, sends # <<>> => LastClear, ResultTyped,
           NEW time \in Nat, time + Completion!MinResend <= Timeout, Completion!SendAt(time),
           elapsed' \in 0..Timeout, UNCHANGED <<end, result>>
    PROVE  Completion!CompletionInv'
<1> DEFINE new == [began |-> time, running |-> TRUE, reached |-> FALSE, cost |-> 0]
<1>1. new \in Sending
    BY CallTimes DEF Sending
<1>2. sends' = Append(sends, new) /\ stage' = "call"
    BY DEF Completion!SendAt
<1>3. /\ sends \in Seq(Sending) /\ sends' \in Seq(Sending) /\ Len(sends) \in Nat /\ Len(sends') = Len(sends) + 1
      /\ \A i \in 1..Len(sends) : sends'[i] = sends[i]
      /\ sends'[Len(sends) + 1] = new
    BY <1>1, <1>2, Appended DEF CallTyped
<1> HIDE DEF new
<1>4. CallTyped' /\ ResultTyped'
    BY <1>2, <1>3 DEF CallTyped, ResultTyped
<1>5. OthersClear'
    <2> SUFFICES ASSUME NEW i \in 1..Len(sends'), i < Len(sends') PROVE ~sends'[i].running /\ ~sends'[i].reached
        BY DEF OthersClear
    <2>1. i \in 1..Len(sends) /\ (i < Len(sends) \/ i = Len(sends)) /\ sends # <<>>
        BY <1>3
    <2> QED
        BY <1>3, <2>1 DEF OthersClear, LastClear
<1>6. BegunInTime'
    BY <1>3 DEF BegunInTime, new
<1>7. Standing' /\ Judgement'
    BY <1>2, <1>3 DEF Standing, Judgement, new
<1> QED
    BY <1>3, <1>4, <1>5, <1>6, <1>7, PaidFromNext, CompletionPartsNext

\* What ended is read, and the result is what it is read as.
LEMMA Concluded ==
    ASSUME CallTyped, OthersClear, BegunInTime, sends # <<>>, Completion!LastEnd,
           stage' = "done", result' = Completion!ResultOf(end), UNCHANGED <<sends, end>>,
           elapsed' \in 0..Timeout, end = Completion!Silent => elapsed' = Timeout
    PROVE  Completion!CompletionInv'
<1>1. PICK e \in Completion!Ends \cup {Completion!Silent} : e = end
    BY DEF CallTyped
<1>2. ReadAs(end, result')
    BY <1>1, EveryEndRead
<1>3. CallTyped' /\ ResultTyped' /\ OthersClear' /\ BegunInTime' /\ Standing'
    BY <1>2 DEF CallTyped, ResultTyped, OthersClear, BegunInTime, Standing, ReadAs
<1>4. /\ sends' = sends /\ end' = end /\ sends \in Seq(Sending) /\ Len(sends) \in 1..Len(sends)
      /\ Completion!Sent' = 1..Len(sends) /\ Completion!Last' = Len(sends)
    BY SentIs DEF CallTyped, Completion!Sent, Completion!Last
<1>5. Completion!BilledTruly'
    <2> SUFFICES ASSUME result'.charge # 0
          PROVE  /\ Completion!PaidSends' = {Len(sends)}
                 /\ result'.charge <= sends[Len(sends)].cost
                 /\ result'.content => /\ result'.charge = sends[Len(sends)].cost
                                       /\ end.finish = "stop" /\ end.content = "some"
        BY <1>4 DEF Completion!BilledTruly, Completion!Unknown
    <2>1. end.how = "message" /\ result'.charge <= Completion!Cost(end)
        BY <1>2 DEF ReadAs
    <2>2. sends[Len(sends)].reached /\ sends[Len(sends)].cost = Completion!Cost(end)
        BY <1>4, <2>1 DEF Completion!LastEnd, Completion!Last
    <2>3. Completion!PaidSends' = {Len(sends)}
        BY <1>3, <1>4, <2>2, PaidFromNext
    <2> QED
        BY <1>2, <2>1, <2>2, <2>3 DEF ReadAs
<1>6. Completion!DropTrue'
    <2>1. \A i \in 1..Len(sends) : sends[i].running => i = Len(sends)
        BY <1>4 DEF OthersClear
    <2>2. end # Completion!Silent => ~sends[Len(sends)].running
        BY <1>4 DEF Completion!LastEnd, Completion!Last
    <2>3. /\ result'.drop \in {"DECLARED", "DECLARED_AFTER_CONTENT"} => end # Completion!Silent /\ ~end.conn
          /\ result'.drop = "DEADLINE" <=> end = Completion!Silent
        BY <1>2 DEF ReadAs
    <2> QED
        BY <1>4, <2>1, <2>2, <2>3 DEF Completion!DropTrue
<1>7. Judgement'
    <2>1. result'.refusal # "STOPPED"
        BY <1>2 DEF ReadAs
    <2> QED
        BY <1>5, <1>6, <2>1 DEF Judgement
<1> QED
    BY <1>3, <1>4, <1>7, PaidFromNext, CompletionPartsNext

Unbilled(r) ==
    /\ r \in [content : BOOLEAN, charge : Nat, refusal : Completion!Refusals, drop : Completion!Drops]
    /\ r.charge = 0 /\ r.drop \in {"none", "RAISED"}

LEMMA RefusalsUnbilled ==
    /\ Unbilled([Completion!Empty EXCEPT !.refusal = "CALL_INVALID"])
    /\ Unbilled([Completion!Empty EXCEPT !.refusal = "STOPPED"])
    /\ Unbilled(Completion!Unanswered("UNAVAILABLE", "RAISED"))
    BY DEF Unbilled, Completion!Unanswered, Completion!Empty, Completion!Unknown, Completion!Refusals, Completion!Drops

\* A call whose sends are all clear ends with nothing billed.
LEMMA StopsClear ==
    ASSUME CallTyped, \A i \in 1..Len(sends) : ~sends[i].running /\ ~sends[i].reached, BegunInTime,
           stage' = "done", Unbilled(result'), UNCHANGED <<sends, end>>,
           elapsed' \in 0..Timeout
    PROVE  Completion!CompletionInv'
<1>1. /\ result' \in [content : BOOLEAN, charge : Nat, refusal : Completion!Refusals, drop : Completion!Drops]
      /\ result'.charge = 0 /\ result'.drop \in {"none", "RAISED"}
    BY DEF Unbilled
<1>2. CallTyped' /\ ResultTyped' /\ OthersClear' /\ BegunInTime' /\ Standing'
    BY <1>1 DEF CallTyped, ResultTyped, OthersClear, BegunInTime, Standing
<1>3. /\ sends' = sends /\ end' = end /\ sends \in Seq(Sending)
      /\ Completion!Sent' = 1..Len(sends)
    BY SentIs DEF CallTyped, Completion!Sent
<1>4. Completion!PaidSends' = {}
    BY <1>3 DEF Completion!PaidSends
<1>5. Completion!BilledTruly'
    BY <1>1 DEF Completion!BilledTruly, Completion!Unknown
<1>6. Completion!DropTrue'
    BY <1>1, <1>3 DEF Completion!DropTrue
<1>7. Judgement'
    BY <1>4, <1>5, <1>6 DEF Judgement
<1> QED
    BY <1>2, <1>3, <1>7, PaidFromNext, CompletionPartsNext
LEMMA LastOfCall ==
    ASSUME CallTyped
    PROVE  /\ elapsed \in Nat /\ elapsed <= Timeout /\ Len(sends) \in Nat
           /\ Completion!Left = Timeout - elapsed /\ Completion!Left \in Nat
           /\ Completion!Last = Len(sends) /\ Completion!Sent = 1..Len(sends)
           /\ sends # <<>> => Len(sends) \in 1..Len(sends)
           /\ \A i \in 1..Len(sends) : sends[i] \in Sending
    BY CallTimes, SentIs, ElementOfSeq DEF CallTyped, Completion!Left

LEMMA CallBegins == ASSUME Completion!CompletionInv, Completion!Begin PROVE Completion!CompletionInv'
<1>1. CallTyped /\ ResultTyped /\ OthersClear /\ BegunInTime /\ sends = <<>>
    BY CompletionParts DEF Standing, Completion!Begin
<1>2. elapsed' \in 0..Timeout /\ UNCHANGED <<elapsed, end>>
    BY <1>1 DEF CallTyped, Completion!Begin
<1>3. CASE Completion!SendAt(0) /\ UNCHANGED result
    BY <1>1, <1>2, <1>3, CallTimes, Sends
<1>4. CASE stage' = "done" /\ result' = [Completion!Empty EXCEPT !.refusal = "CALL_INVALID"] /\ UNCHANGED sends
    <2>1. Unbilled(result')
        BY <1>4, RefusalsUnbilled
    <2>2. Len(sends) = 0
        BY <1>1
    <2> QED
        BY <1>1, <1>2, <1>4, <2>1, <2>2, StopsClear
<1> QED
    BY <1>3, <1>4 DEF Completion!Begin

\* Only the last send's entry moves, and its end is read.
LEMMA SendAnswered ==
    ASSUME Completion!CompletionInv, stage = "call", stage' = "read",
           NEW last \in Sending, sends' \in Seq(Sending), Len(sends') = Len(sends),
           sends'[Len(sends)] = last, \A i \in 1..Len(sends) : i # Len(sends) => sends'[i] = sends[i],
           last.began = sends[Len(sends)].began,
           NEW e \in Completion!Ends \cup {Completion!Silent}, end' = e, elapsed' \in 0..Timeout,
           e = Completion!Silent => elapsed' = Timeout,
           e # Completion!Silent => ~last.running,
           Completion!RateLimited(e) => ~last.reached,
           e.how = "message" => last.reached /\ last.cost = Completion!Cost(e),
           UNCHANGED result
    PROVE  Completion!CompletionInv'
<1>1. CallTyped /\ ResultTyped /\ OthersClear /\ BegunInTime /\ sends # <<>>
    BY CompletionParts DEF Standing
<1>2. Len(sends) \in 1..Len(sends) /\ sends \in Seq(Sending)
    BY <1>1, LastOfCall DEF CallTyped
<1>3. CallTyped' /\ ResultTyped'
    BY <1>1 DEF CallTyped, ResultTyped
<1>4. OthersClear' /\ BegunInTime'
    BY <1>1, <1>2 DEF OthersClear, BegunInTime
<1>5. Completion!LastEnd'
    BY <1>2 DEF Completion!LastEnd, Completion!Last, Completion!RateLimited
<1>6. Standing' /\ Judgement'
    BY <1>1, <1>2, <1>5 DEF Standing, Judgement
<1> QED
    BY <1>3, <1>4, <1>6, PaidFromNext, CompletionPartsNext

LEMMA ReachedIs ==
    ASSUME NEW e \in Completion!Ends, NEW reached \in Completion!Reached(e)
    PROVE  /\ reached \in BOOLEAN
           /\ Completion!RateLimited(e) => ~reached
           /\ e.how = "message" => reached
    BY DEF Completion!Reached, Completion!RateLimited

LEMMA CostIs == ASSUME NEW e \in Completion!Ends PROVE Completion!Cost(e) \in Nat
    BY EndKinds DEF Completion!Cost, Completion!In, Completion!Messages

LEMMA CallAnswered ==
    ASSUME Completion!CompletionInv, NEW e \in Completion!Ends, NEW took \in 0..Completion!Left,
           NEW reached \in Completion!Reached(e), Completion!Answer(e, took, reached)
    PROVE  Completion!CompletionInv'
<1>1. CallTyped /\ sends # <<>> /\ stage = "call"
    BY CompletionParts DEF Standing, Completion!Answer
<1>2. /\ sends \in Seq(Sending) /\ Completion!Last = Len(sends) /\ Len(sends) \in 1..Len(sends)
      /\ sends[Len(sends)] \in Sending
    BY <1>1, LastOfCall DEF CallTyped
<1>3. PICK cost \in Nat : cost = IF reached THEN Completion!Cost(e) ELSE 0
    BY CostIs
<1>4. PICK last : last = [[[sends[Len(sends)] EXCEPT !.running = FALSE] EXCEPT !.reached = reached]
                          EXCEPT !.cost = cost]
    OBVIOUS
<1>5. last \in Sending
    BY <1>2, <1>4, ReachedIs DEF Sending
<1>6. sends' = [sends EXCEPT ![Len(sends)] = last]
    BY <1>2, <1>3, <1>4 DEF Completion!Answer
<1>7. /\ sends' \in Seq(Sending) /\ Len(sends') = Len(sends)
      /\ sends'[Len(sends)] = last /\ \A i \in 1..Len(sends) : i # Len(sends) => sends'[i] = sends[i]
    BY <1>2, <1>5, <1>6
<1>8. elapsed' \in 0..Timeout
    <2>1. elapsed' = elapsed + took
        BY DEF Completion!Answer
    <2> QED
        BY <1>1, <2>1, LastOfCall, CallTimes
<1>9. e # Completion!Silent
    BY EndKinds
<1>10. stage' = "read" /\ end' = e /\ UNCHANGED result
    BY DEF Completion!Answer
<1>11. (Completion!RateLimited(e) => ~reached) /\ (e.how = "message" => reached /\ cost = Completion!Cost(e))
    BY <1>3, ReachedIs
<1>12. /\ last.began = sends[Len(sends)].began /\ last.running = FALSE
       /\ last.reached = reached /\ last.cost = cost
    BY <1>2, <1>4 DEF Sending
<1> QED
    BY <1>1, <1>5, <1>7, <1>8, <1>9, <1>10, <1>11, <1>12, SendAnswered

LEMMA CallAbandoned ==
    ASSUME Completion!CompletionInv, NEW reached \in BOOLEAN, Completion!Abandon(reached)
    PROVE  Completion!CompletionInv'
<1>1. CallTyped /\ sends # <<>> /\ stage = "call"
    BY CompletionParts DEF Standing, Completion!Abandon
<1>2. /\ sends \in Seq(Sending) /\ Completion!Last = Len(sends) /\ Len(sends) \in 1..Len(sends)
      /\ sends[Len(sends)] \in Sending
    BY <1>1, LastOfCall DEF CallTyped
<1>3. PICK cost \in Nat : cost = IF reached THEN Completion!In ELSE 0
    BY DEF Completion!In
<1>4. PICK last : last = [[sends[Len(sends)] EXCEPT !.reached = reached] EXCEPT !.cost = cost]
    OBVIOUS
<1>5. last \in Sending
    BY <1>2, <1>4 DEF Sending
<1>6. sends' = [sends EXCEPT ![Len(sends)] = last]
    BY <1>2, <1>3, <1>4 DEF Completion!Abandon
<1>7. /\ sends' \in Seq(Sending) /\ Len(sends') = Len(sends)
      /\ sends'[Len(sends)] = last /\ \A i \in 1..Len(sends) : i # Len(sends) => sends'[i] = sends[i]
    BY <1>2, <1>5, <1>6
<1>8. elapsed' = Timeout /\ elapsed' \in 0..Timeout
    BY <1>1, LastOfCall, CallTimes DEF Completion!Abandon
<1>9. stage' = "read" /\ end' = Completion!Silent /\ UNCHANGED result
    BY DEF Completion!Abandon
<1>10. ~Completion!RateLimited(Completion!Silent) /\ Completion!Silent.how # "message"
    BY DEF Completion!RateLimited, Completion!Silent
<1>11. last.began = sends[Len(sends)].began
    BY <1>2, <1>4 DEF Sending
<1> QED
    BY <1>1, <1>5, <1>7, <1>8, <1>9, <1>10, <1>11, SendAnswered

LEMMA CallReadOn ==
    ASSUME Completion!CompletionInv, NEW wait \in 0..WaitCap,
           \/ Completion!WaitOut(wait) \/ Completion!RateLimitStands(wait)
           \/ Completion!RateLimitUnread \/ Completion!Ended
    PROVE  Completion!CompletionInv'
<1>1. stage = "read"
    BY DEF Completion!WaitOut, Completion!RateLimitStands, Completion!RateLimitUnread, Completion!Ended
<1>2. /\ CallTyped /\ ResultTyped /\ OthersClear /\ BegunInTime /\ AtMostOne
      /\ sends # <<>> /\ Completion!LastEnd
    BY <1>1, CompletionParts DEF Standing
<1>3. Completion!RateLimited(end) => LastClear
    BY <1>2, LastOfCall DEF Completion!LastEnd, LastClear, Completion!RateLimited, Completion!Silent
<1>4. CASE Completion!WaitOut(wait)
    <2>1. elapsed' \in 0..Timeout /\ elapsed' + Completion!MinResend <= Timeout
        <3>1. elapsed' = elapsed + wait /\ wait + Completion!MinResend <= Completion!Left
            BY <1>4 DEF Completion!WaitOut
        <3> QED
            BY <1>2, <3>1, LastOfCall, CallTimes
    <2>2. stage' = "fence" /\ UNCHANGED <<sends, end, result>> /\ Completion!RateLimited(end)
        BY <1>4 DEF Completion!WaitOut
    <2>3. CallTyped' /\ ResultTyped' /\ OthersClear' /\ BegunInTime'
        BY <1>2, <2>1, <2>2 DEF CallTyped, ResultTyped, OthersClear, BegunInTime
    <2>4. Standing' /\ Judgement'
        BY <1>2, <1>3, <2>1, <2>2 DEF Standing, Judgement, LastClear, Completion!RateLimited
    <2> QED
        BY <2>2, <2>3, <2>4, PaidFromNext, CompletionPartsNext DEF CallTyped
<1>5. CASE Completion!RateLimitStands(wait) \/ Completion!Ended
    <2>1. /\ stage' = "done" /\ result' = Completion!ResultOf(end) /\ UNCHANGED <<elapsed, sends, end>>
        BY <1>5 DEF Completion!RateLimitStands, Completion!Ended, Completion!Conclude
    <2>2. elapsed' \in 0..Timeout
        BY <1>2, <2>1 DEF CallTyped
    <2>3. end = Completion!Silent => elapsed' = Timeout
        BY <1>2, <2>1 DEF Completion!LastEnd
    <2> QED
        BY <1>2, <2>1, <2>2, <2>3, Concluded
<1>6. CASE Completion!RateLimitUnread
    <2>1. /\ stage' = "done" /\ result' = Completion!Unanswered("UNAVAILABLE", "RAISED")
          /\ UNCHANGED <<elapsed, sends, end>> /\ Completion!RateLimited(end)
        BY <1>6 DEF Completion!RateLimitUnread
    <2>2. \A i \in 1..Len(sends) : ~sends[i].running /\ ~sends[i].reached
        BY <1>2, <1>3, <2>1, LastOfCall DEF OthersClear, LastClear
    <2>3. elapsed' \in 0..Timeout
        BY <1>2, <2>1 DEF CallTyped
    <2> QED
        BY <1>2, <2>1, <2>2, <2>3, RefusalsUnbilled, StopsClear
<1> QED
    BY <1>4, <1>5, <1>6

LEMMA CallFenced ==
    ASSUME Completion!CompletionInv, NEW took \in 0..FenceTicks, Completion!Fence(took)
    PROVE  Completion!CompletionInv'
<1>1. stage = "fence"
    BY DEF Completion!Fence
<1>2. /\ CallTyped /\ ResultTyped /\ OthersClear /\ BegunInTime /\ sends # <<>>
      /\ LastClear /\ Completion!RateLimited(end) /\ elapsed + Completion!MinResend <= Timeout
    BY <1>1, CompletionParts DEF Standing
<1>3. elapsed' \in 0..Timeout /\ elapsed' \in Nat
    <2>1. elapsed' = elapsed + took
        BY DEF Completion!Fence
    <2> QED
        BY <1>2, <2>1, LastOfCall, CallTimes
<1>4. CASE stage' = "done" /\ result' = [Completion!Empty EXCEPT !.refusal = "STOPPED"] /\ UNCHANGED <<sends, end>>
    <2>1. Unbilled(result')
        BY <1>4, RefusalsUnbilled
    <2>2. \A i \in 1..Len(sends) : ~sends[i].running /\ ~sends[i].reached
        BY <1>2, LastOfCall DEF OthersClear, LastClear
    <2> QED
        BY <1>2, <1>3, <1>4, <2>1, <2>2, StopsClear
<1>5. CASE elapsed' + Completion!MinResend <= Timeout /\ Completion!SendAt(elapsed') /\ UNCHANGED <<end, result>>
    BY <1>2, <1>3, <1>5, Sends
<1>6. CASE stage' = "done" /\ result' = Completion!ResultOf(end) /\ UNCHANGED <<sends, end>>
    <2>1. end # Completion!Silent /\ end.how # "message"
        BY <1>2 DEF Completion!RateLimited, Completion!Silent
    <2>2. Completion!LastEnd
        BY <1>2, <2>1, LastOfCall DEF Completion!LastEnd, LastClear
    <2> QED
        BY <1>2, <1>3, <1>6, <2>1, <2>2, Concluded
<1> QED
    BY <1>4, <1>5, <1>6 DEF Completion!Fence

LEMMA CallThreadEnds ==
    ASSUME Completion!CompletionInv, NEW i \in Completion!Sent, Completion!ThreadEnds(i)
    PROVE  Completion!CompletionInv'
<1>1. CallTyped /\ ResultTyped /\ OthersClear /\ BegunInTime /\ AtMostOne /\ Judgement
    BY CompletionParts
<1>2. stage = "done" /\ UNCHANGED <<stage, elapsed, end, result>>
    BY DEF Completion!ThreadEnds
<1>3. sends \in Seq(Sending) /\ i \in 1..Len(sends) /\ sends[i] \in Sending
    BY <1>1, LastOfCall DEF CallTyped
<1>4. PICK over : over = [sends[i] EXCEPT !.running = FALSE]
    OBVIOUS
<1>5. /\ over \in Sending /\ over.running = FALSE
      /\ over.began = sends[i].began /\ over.reached = sends[i].reached /\ over.cost = sends[i].cost
    BY <1>3, <1>4 DEF Sending
<1>6. sends' = [sends EXCEPT ![i] = over]
    BY <1>4 DEF Completion!ThreadEnds
<1>7. /\ sends' \in Seq(Sending) /\ Len(sends') = Len(sends)
      /\ sends'[i] = over /\ \A j \in 1..Len(sends) : j # i => sends'[j] = sends[j]
    BY <1>3, <1>5, <1>6
<1>8. /\ \A j \in 1..Len(sends) :
            /\ sends'[j].began = sends[j].began /\ sends'[j].reached = sends[j].reached
            /\ sends'[j].cost = sends[j].cost /\ (sends'[j].running => sends[j].running)
    BY <1>3, <1>5, <1>7
<1>9. CallTyped' /\ ResultTyped'
    BY <1>1, <1>2, <1>7 DEF CallTyped, ResultTyped
<1>10. OthersClear' /\ BegunInTime'
    BY <1>1, <1>7, <1>8 DEF OthersClear, BegunInTime
<1>11. Standing'
    BY <1>2 DEF Standing
<1>12. /\ Completion!Sent = 1..Len(sends) /\ Completion!Sent' = 1..Len(sends)
       /\ Completion!Last = Len(sends) /\ Completion!Last' = Len(sends) /\ Len(sends) \in 1..Len(sends)
    BY <1>3, <1>7, LastOfCall DEF Completion!Sent, Completion!Last
<1>13. Completion!PaidSends' = Completion!PaidSends
    BY <1>8, <1>12 DEF Completion!PaidSends
<1>14. Completion!BilledTruly'
    BY <1>1, <1>2, <1>8, <1>12, <1>13 DEF Completion!BilledTruly, Judgement
<1>15. Completion!DropTrue'
    BY <1>1, <1>2, <1>8, <1>12 DEF Completion!DropTrue, Judgement
<1>16. Judgement' /\ AtMostOne'
    BY <1>1, <1>2, <1>13, <1>14, <1>15 DEF Judgement, AtMostOne
<1> QED
    BY <1>9, <1>10, <1>11, <1>16, CompletionPartsNext

LEMMA InitCalled == Completion!Init => Completion!CompletionInv
<1> SUFFICES ASSUME Completion!Init PROVE Completion!CompletionInv
    OBVIOUS
<1>1. stage = "idle" /\ elapsed = 0 /\ sends = <<>> /\ end = Completion!Silent /\ result = Completion!Empty
    BY DEF Completion!Init
<1>2. sends \in Seq(Sending) /\ Len(sends) = 0
    BY <1>1
<1>3. CallTyped /\ ResultTyped
    BY <1>1, <1>2, CallTimes
    DEF CallTyped, ResultTyped, Completion!Empty, Completion!Unknown, Completion!Refusals, Completion!Drops
<1>4. OthersClear /\ BegunInTime /\ Standing /\ Judgement
    BY <1>1, <1>2 DEF OthersClear, BegunInTime, Standing, Judgement
<1> QED
    BY <1>2, <1>3, <1>4, PaidFrom, CompletionParts

LEMMA CallStill == ASSUME Completion!CompletionInv, UNCHANGED Completion!vars PROVE Completion!CompletionInv'
<1>1. UNCHANGED <<stage, elapsed, sends, end, result>>
    BY DEF Completion!vars
<1>2. CallTyped /\ ResultTyped /\ OthersClear /\ BegunInTime /\ Standing /\ AtMostOne /\ Judgement
    BY CompletionParts
<1>3. CallTyped' /\ ResultTyped' /\ OthersClear' /\ BegunInTime'
    BY <1>1, <1>2 DEF CallTyped, ResultTyped, OthersClear, BegunInTime
<1>4. Standing'
    BY <1>1, <1>2 DEF Standing, Completion!LastEnd, Completion!Last, LastClear, Completion!RateLimited, Completion!Cost
<1>5. AtMostOne' /\ Judgement'
    BY <1>1, <1>2 DEF AtMostOne, Judgement, Completion!PaidSends, Completion!Sent, Completion!Last,
        Completion!BilledTruly, Completion!DropTrue
<1> QED
    BY <1>3, <1>4, <1>5, CompletionPartsNext

LEMMA NextCalled ==
    ASSUME Completion!CompletionInv, [Completion!Next]_(Completion!vars)
    PROVE  Completion!CompletionInv'
<1>1. ASSUME NEW e \in Completion!Ends, NEW took \in 0..Completion!Left, NEW reached \in Completion!Reached(e),
             Completion!Answer(e, took, reached)
      PROVE  Completion!CompletionInv'
    BY <1>1, CallAnswered
<1>2. ASSUME NEW reached \in BOOLEAN, Completion!Abandon(reached) PROVE Completion!CompletionInv'
    BY <1>2, CallAbandoned
<1>3. ASSUME NEW i \in Completion!Sent, Completion!ThreadEnds(i) PROVE Completion!CompletionInv'
    BY <1>3, CallThreadEnds
<1>4. ASSUME NEW wait \in 0..WaitCap, Completion!WaitOut(wait) \/ Completion!RateLimitStands(wait)
      PROVE  Completion!CompletionInv'
    BY <1>4, CallReadOn
<1>5. ASSUME Completion!RateLimitUnread \/ Completion!Ended PROVE Completion!CompletionInv'
    <2>1. 0 \in 0..WaitCap
        BY CallTimes
    <2> QED
        BY <1>5, <2>1, CallReadOn
<1>6. ASSUME NEW took \in 0..FenceTicks, Completion!Fence(took) PROVE Completion!CompletionInv'
    BY <1>6, CallFenced
<1>7. CASE Completion!Begin
    BY <1>7, CallBegins
<1>8. CASE UNCHANGED Completion!vars
    BY <1>8, CallStill
<1> QED
    BY <1>1, <1>2, <1>3, <1>4, <1>5, <1>6, <1>7, <1>8, Zenon DEF Completion!Next

LEMMA CompletionInvSound == Completion!CompletionInv => Completion!CompletionSound
<1> SUFFICES ASSUME Completion!CompletionInv PROVE Completion!CompletionSound
    OBVIOUS
<1>1. Completion!OnePaid /\ Completion!BilledTruly /\ Completion!DropTrue
    BY Zenon DEF Completion!CompletionInv
<1>2. CallTyped /\ \A i \in Completion!Sent : sends[i].began + Completion!MinResend <= Timeout
    BY CompletionParts, Zenon DEF Completion!CompletionInv
<1>3. Completion!InTime
    BY <1>2, LastOfCall DEF Completion!InTime
<1> QED
    BY <1>1, <1>3 DEF Completion!CompletionSound

-----------------------------------------------------------------------------
(* Induction, and functions defined by it.                                 *)

\* A set of naturals has a least member.
LEMMA Least == ASSUME NEW S \in SUBSET Nat, S # {} PROVE \E m \in S : \A n \in S : m <= n
<1>1. PICK m \in S : \A n \in S : <<n, m>> \notin OpToRel(<, Nat)
  BY NatLessThanWellFounded, WFMin
<1>2. \A n \in S : ~(n < m)
  BY <1>1 DEF OpToRel
<1> QED
  BY <1>2

\* Induction up to a bound, for a property given as the set G of those that have it.
LEMMA UpTo ==
    ASSUME NEW n \in Nat, NEW G, 0 \in G, \A k \in 1..n : k - 1 \in G => k \in G
    PROVE  0..n \subseteq G
<1> DEFINE Bad == (0..n) \ G
<1>1. SUFFICES ASSUME Bad # {} PROVE FALSE
  OBVIOUS
<1>2. PICK m \in Bad : \A k \in Bad : m <= k
  <2>1. Bad \in SUBSET Nat
    OBVIOUS
  <2> HIDE DEF Bad
  <2> QED
    BY <1>1, <2>1, Least
<1>3. m \in 1..n /\ m - 1 \in 0..n
  OBVIOUS
<1>4. m - 1 \notin Bad
  BY <1>2, <1>3
<1> QED
  BY <1>3, <1>4

\* The function that has a at 0 and goes on by F.
IsRecursion(g, n, V, a, F) ==
    g \in [0..n -> V] /\ g[0] = a /\ \A k \in 1..n : g[k] = F[k][g[k - 1]]

\* It exists.
LEMMA Recursion ==
    ASSUME NEW n \in Nat, NEW V, NEW a \in V, NEW F \in [1..n -> [V -> V]]
    PROVE  \E g : IsRecursion(g, n, V, a, F)
<1> DEFINE Until(g, m) == g[0] = a /\ \A k \in 1..n : k <= m => g[k] = F[k][g[k - 1]]
           G == {m \in 0..n : \E g \in [0..n -> V] : Until(g, m)}
<1>1. 0 \in G
  <2> DEFINE g0 == [k \in 0..n |-> a]
  <2>1. g0 \in [0..n -> V] /\ Until(g0, 0)
    OBVIOUS
  <2> HIDE DEF g0
  <2> QED
    BY <2>1
<1>2. ASSUME NEW m \in 1..n, m - 1 \in G PROVE m \in G
  <2>1. PICK g \in [0..n -> V] : Until(g, m - 1)
    BY <1>2
  <2> DEFINE h == [g EXCEPT ![m] = F[m][g[m - 1]]]
  <2>2. m - 1 \in 0..n /\ m \in 0..n
    OBVIOUS
  <2>3. F[m][g[m - 1]] \in V
    BY <2>2
  <2>4. h \in [0..n -> V] /\ h[m] = F[m][g[m - 1]] /\ \A k \in 0..n : k # m => h[k] = g[k]
    BY <2>2, <2>3
  <2> HIDE DEF h
  <2>5. ASSUME NEW k \in 1..n, k <= m PROVE h[k] = F[k][h[k - 1]]
    <3>1. k - 1 \in 0..n /\ k \in 0..n /\ k - 1 # m
      BY <2>5
    <3>2. h[k - 1] = g[k - 1]
      BY <2>4, <3>1
    <3>3. CASE k = m
      BY <2>4, <3>2, <3>3
    <3>4. CASE k # m
      <4>1. k <= m - 1
        BY <2>5, <3>4
      <4>2. g[k] = F[k][g[k - 1]]
        BY <2>1, <4>1
      <4> QED
        BY <2>4, <3>1, <3>2, <3>4, <4>2
    <3> QED
      BY <3>3, <3>4
  <2>6. h[0] = a
    BY <2>1, <2>4
  <2>7. Until(h, m)
    BY <2>5, <2>6
  <2> QED
    BY <2>2, <2>4, <2>7
<1>3. n \in G
  <2>1. 0..n \subseteq G
    <3> HIDE DEF G
    <3> QED
      BY <1>1, <1>2, UpTo
  <2> QED
    BY <2>1
<1>4. PICK g \in [0..n -> V] : Until(g, n)
  BY <1>3
<1> QED
  BY <1>4 DEF IsRecursion

-----------------------------------------------------------------------------
(* A Copilot session's state, by the names it has in Copilot.              *)

heard == x1
open == x2
spent == x3
used == x4
idled == x5
verdict == x6

USE DEF heard, open, spent, used, idled, verdict

Heard == [type : Copilot!Types, by : Copilot!Agents, says : Copilot!Words, n : Int]

\* What an event makes of the count of open dispatches.
Counts(e, k) ==
    IF e.type = "model.call_start" THEN k + 1
    ELSE IF e.type = "model.call_finished" /\ k > 0 THEN k - 1 ELSE k

LEMMA OpenAfterIs ==
    ASSUME NEW s \in Seq(Heard)
    PROVE  /\ Copilot!OpenAfter(s) \in [0..Len(s) -> Nat] /\ Copilot!OpenAfter(s)[0] = 0
           /\ \A k \in 1..Len(s) : Copilot!OpenAfter(s)[k] = Counts(s[k], Copilot!OpenAfter(s)[k - 1])
<1> DEFINE n == Len(s)
           Eqn(g) == g = [i \in 0..n |->
                IF i = 0 THEN 0
                ELSE IF s[i].type = "model.call_start" THEN g[i - 1] + 1
                ELSE IF s[i].type = "model.call_finished" /\ g[i - 1] > 0 THEN g[i - 1] - 1
                ELSE g[i - 1]]
           F == [k \in 1..n |-> [m \in Nat |-> Counts(s[k], m)]]
           after == CHOOSE g : Eqn(g)
<1>0. n \in Nat
    OBVIOUS
<1>1. Copilot!OpenAfter(s) = after
    BY Zenon DEF Copilot!OpenAfter
<1>2. \A k \in 1..n, m \in Nat : Counts(s[k], m) \in Nat
    BY DEF Counts
<1>3. F \in [1..n -> [Nat -> Nat]] /\ \A k \in 1..n, m \in Nat : F[k][m] = Counts(s[k], m)
    <2> HIDE DEF n
    <2> QED
        BY <1>2
<1> HIDE DEF F
<1>4. PICK g \in [0..n -> Nat] : g[0] = 0 /\ \A k \in 1..n : g[k] = F[k][g[k - 1]]
    <2> DEFINE V == Nat
               a == 0
    <2>1. a \in V /\ F \in [1..n -> [V -> V]]
        BY <1>3
    <2> HIDE DEF n, V, a
    <2>2. PICK g : IsRecursion(g, n, V, a, F)
        BY <1>0, <2>1, Recursion
    <2> QED
        BY <2>2 DEF V, a, IsRecursion
<1> HIDE DEF n
<1>5. \A k \in 1..n : g[k] = Counts(s[k], g[k - 1])
    <2>1. ASSUME NEW k \in 1..n PROVE g[k] = Counts(s[k], g[k - 1])
        <3>1. k - 1 \in 0..n /\ g[k - 1] \in Nat
            BY <1>0, <1>4
        <3> QED
            BY <1>3, <1>4, <3>1, Zenon
    <2> QED
        BY <2>1
<1>6. Eqn(g)
    <2>1. ASSUME NEW i \in 0..n
          PROVE  g[i] = IF i = 0 THEN 0
                        ELSE IF s[i].type = "model.call_start" THEN g[i - 1] + 1
                        ELSE IF s[i].type = "model.call_finished" /\ g[i - 1] > 0 THEN g[i - 1] - 1
                        ELSE g[i - 1]
        <3>1. CASE i = 0
            BY <1>4, <3>1
        <3>2. CASE i # 0
            <4>1. i \in 1..n
                BY <1>0, <3>2
            <4> QED
                BY <1>5, <3>2, <4>1 DEF Counts
        <3> QED
            BY <3>1, <3>2
    <2> QED
        BY <1>4, <2>1
<1>7. Eqn(after)
    <2> HIDE DEF Eqn
    <2> QED
        BY <1>6
<1>8. after[0] = 0 /\ \A k \in 1..n : after[k] = Counts(s[k], after[k - 1])
    <2> HIDE DEF after
    <2>1. 0 \in 0..n /\ \A k \in 1..n : k \in 0..n /\ k # 0
        BY <1>0
    <2> QED
        BY <1>7, <2>1 DEF Counts
<1>9. DOMAIN after = 0..n /\ after = [i \in 0..n |-> after[i]]
    <2> HIDE DEF after
    <2> QED
        BY <1>7
<1>10. \A k \in 0..n : after[k] \in Nat
    <2> DEFINE G == {k \in 0..n : after[k] \in Nat}
    <2> HIDE DEF after
    <2>1. 0 \in G
        BY <1>0, <1>8
    <2>2. ASSUME NEW k \in 1..n, k - 1 \in G PROVE k \in G
        <3>1. after[k - 1] \in Nat /\ k \in 0..n
            BY <1>0, <2>2
        <3>2. after[k] \in Nat
            BY <1>2, <1>8, <3>1, Zenon
        <3> QED
            BY <3>1, <3>2
    <2> HIDE DEF G
    <2>3. 0..n \subseteq G
        BY <1>0, <2>1, <2>2, UpTo
    <2> QED
        BY <2>3 DEF G
<1> HIDE DEF after
<1> QED
    BY <1>1, <1>8, <1>9, <1>10 DEF n

\* It depends on the events it counts alone.
LEMMA OpenAfterSame ==
    ASSUME NEW s \in Seq(Heard), NEW t \in Seq(Heard), NEW n \in Nat, n <= Len(s), n <= Len(t),
           \A i \in 1..n : s[i] = t[i]
    PROVE  \A i \in 0..n : Copilot!OpenAfter(s)[i] = Copilot!OpenAfter(t)[i]
<1> DEFINE f == Copilot!OpenAfter(s)
           g == Copilot!OpenAfter(t)
           G == {i \in 0..n : f[i] = g[i]}
<1>1. /\ f[0] = 0 /\ g[0] = 0
      /\ \A k \in 1..n : f[k] = Counts(s[k], f[k - 1]) /\ g[k] = Counts(s[k], g[k - 1])
    <2>1. \A k \in 1..n : k \in 1..Len(s) /\ k \in 1..Len(t)
        OBVIOUS
    <2> HIDE DEF f, g
    <2> QED
        BY <2>1, OpenAfterIs DEF f, g
<1> HIDE DEF f, g
<1>2. 0 \in G
    BY <1>1
<1>3. \A k \in 1..n : k - 1 \in G => k \in G
    BY <1>1
<1>4. 0..n \subseteq G
    <2> HIDE DEF G
    <2> QED
        BY <1>2, <1>3, UpTo
<1> QED
    BY <1>4 DEF f, g

LEMMA EventAdded ==
    ASSUME NEW s \in Seq(Heard), NEW e \in Heard
    PROVE  /\ Copilot!OpenAfter(s)[Len(s)] \in Nat
           /\ Copilot!OpenAfter(Append(s, e))[Len(s) + 1] = Counts(e, Copilot!OpenAfter(s)[Len(s)])
           /\ \A k \in 0..Len(s) : SubSeq(Append(s, e), 1, k) = SubSeq(s, 1, k)
           /\ SubSeq(Append(s, e), 1, Len(s)) = s
<1> DEFINE t == Append(s, e)
<1>1. /\ t \in Seq(Heard) /\ Len(t) = Len(s) + 1 /\ Len(s) \in Nat
      /\ (\A i \in 1..Len(s) : t[i] = s[i]) /\ t[Len(s) + 1] = e
    BY Appended
<1> HIDE DEF t
<1>2. Copilot!OpenAfter(s)[Len(s)] \in Nat
    BY <1>1, OpenAfterIs
<1>3. Copilot!OpenAfter(t)[Len(s)] = Copilot!OpenAfter(s)[Len(s)]
    <2>1. \A i \in 0..Len(s) : Copilot!OpenAfter(t)[i] = Copilot!OpenAfter(s)[i]
        BY <1>1, OpenAfterSame
    <2> QED
        BY <1>1, <2>1
<1>4. Len(s) + 1 \in 1..Len(t) /\ Len(s) + 1 - 1 = Len(s)
    BY <1>1
<1>5. Copilot!OpenAfter(t)[Len(s) + 1] = Counts(t[Len(s) + 1], Copilot!OpenAfter(t)[Len(s) + 1 - 1])
    BY <1>1, <1>4, OpenAfterIs
<1>6. \A k \in 0..Len(s) : SubSeq(t, 1, k) = SubSeq(s, 1, k)
    BY <1>1
<1>7. SubSeq(t, 1, Len(s)) = s
    BY <1>1
<1> QED
    BY <1>1, <1>2, <1>3, <1>4, <1>5, <1>6, <1>7 DEF t

-----------------------------------------------------------------------------
(* CopilotInv, in the parts a step disturbs.                               *)

SessionTyped ==
    /\ heard \in Seq(Heard) /\ open \in [Copilot!Agents -> {"no", "answered", "pin", "other"}]
    /\ spent \in [Copilot!Agents -> Nat] /\ used \subseteq Copilot!Models /\ idled \in BOOLEAN
VerdictTyped ==
    verdict \in [as : {"none", "indeterminate", "drop", "reply"}, charge : SUBSET Int, finish : BOOLEAN]
OpenTold == Copilot!OpenAfter(heard)[Len(heard)] = Cardinality(Copilot!Running)
CostTold == Copilot!Cost > 0 => \E i \in 1..Len(heard) : ~Copilot!Quiet(heard[i])
SubTold == spent["sub"] > 0 \/ open["sub"] # "no" => \E i \in 1..Len(heard) : heard[i].by = "sub"
OtherTold == \A a \in Copilot!Agents : open[a] = "other" => \E i \in 1..Len(heard) : heard[i].says = "other"
UsedTold ==
    /\ \A m \in used : \E i \in 1..Len(heard) : Copilot!TellsOf(heard[i], m)
    /\ \A i \in 1..Len(heard) : heard[i].type = "assistant.message" => heard[i].says \in used
Final(i) ==
    /\ ~Copilot!DispatchOpen(SubSeq(heard, 1, i - 1))
    /\ \A j \in (i + 1)..Len(heard) : Copilot!Settles(heard[j])
MarksTrue ==
    (\A i \in 1..Len(heard) : heard[i].by = "main") =>
        \A i \in 1..Len(heard) :
            heard[i].type = "session.usage_checkpoint" /\ Final(i) =>
                heard[i].n = Copilot!Cost /\ Copilot!Running = {}
AllTold == OpenTold /\ CostTold /\ SubTold /\ OtherTold /\ UsedTold /\ MarksTrue
VerdictTrue ==
    /\ Copilot!DropsAreFree /\ Copilot!NeverTheLower /\ Copilot!OnlyThePin
    /\ verdict.finish => \A a \in Copilot!Agents : open[a] # "other"
Unjudged == verdict = Copilot!NoVerdict

LEMMA CopilotSize == ASSUME NEW S PROVE Copilot!Cardinality(S) = Cardinality(S)
    BY Zenon DEF Copilot!Cardinality, Cardinality

LEMMA PairFinite == ASSUME NEW x, NEW y PROVE IsFiniteSet({x, y})
<1>1. {x, y} = {x} \cup {y}
    OBVIOUS
<1>2. IsFiniteSet({x})
    BY FS_Singleton, Zenon
<1>3. IsFiniteSet({x} \cup {y})
    BY <1>2, FS_AddElement, Zenon
<1> QED
    BY <1>1, <1>3

LEMMA FewRun == IsFiniteSet(Copilot!Running) /\ Cardinality(Copilot!Running) \in Nat
<1>1. Copilot!Running \subseteq {"main", "sub"}
    BY DEF Copilot!Running, Copilot!Agents
<1>2. IsFiniteSet({"main", "sub"})
    BY PairFinite, Zenon
<1> QED
    BY <1>1, <1>2, FS_Subset, FS_CardinalityType

LEMMA CopilotParts ==
    Copilot!CopilotInv <=>
        SessionTyped /\ VerdictTyped /\ (verdict.as = "none" => Unjudged /\ AllTold) /\ VerdictTrue
<1>1. Copilot!TypeOK <=> SessionTyped /\ VerdictTyped
    BY DEF Copilot!TypeOK, SessionTyped, VerdictTyped, Heard, Copilot!Models
<1>2. ASSUME SessionTyped
      PROVE  DOMAIN heard = 1..Len(heard)
    BY <1>2 DEF SessionTyped
<1>3. ASSUME SessionTyped
      PROVE  Copilot!WorkTold <=> OpenTold /\ CostTold /\ SubTold /\ OtherTold /\ UsedTold
    <2>1. Copilot!Cardinality(Copilot!Running) = Cardinality(Copilot!Running)
        BY CopilotSize
    <2>2. \A i : i \in Copilot!Of(heard, "assistant.message") <=>
                    i \in 1..Len(heard) /\ heard[i].type = "assistant.message"
        BY <1>2, <1>3 DEF Copilot!Of
    <2> QED
        BY <1>2, <1>3, <2>1, <2>2, Zenon DEF Copilot!WorkTold, OpenTold, CostTold, SubTold, OtherTold, UsedTold
<1>4. ASSUME SessionTyped
      PROVE  Copilot!CheckpointTrue <=> MarksTrue
    <2>2. \A i : i \in Copilot!Of(heard, "session.usage_checkpoint") <=>
                    i \in 1..Len(heard) /\ heard[i].type = "session.usage_checkpoint"
        BY <1>2, <1>4 DEF Copilot!Of
    <2> QED
        BY <1>2, <1>4, <2>2, Zenon DEF Copilot!CheckpointTrue, MarksTrue, Copilot!FinalAt, Final
<1> QED
    BY <1>1, <1>3, <1>4, Zenon DEF Copilot!CopilotInv, AllTold, VerdictTrue, Unjudged, Copilot!Listening

LEMMA CopilotPartsNext ==
    Copilot!CopilotInv' <=>
        (SessionTyped /\ VerdictTyped /\ (verdict.as = "none" => Unjudged /\ AllTold) /\ VerdictTrue)'
    BY CopilotParts, PTL

LEMMA UnjudgedSound == Unjudged => VerdictTyped /\ VerdictTrue
    BY DEF Unjudged, VerdictTyped, VerdictTrue, Copilot!NoVerdict, Copilot!DropsAreFree, Copilot!NeverTheLower,
        Copilot!OnlyThePin

LEMMA UnjudgedSoundNext == Unjudged' => VerdictTyped' /\ VerdictTrue'
    BY UnjudgedSound, PTL

-----------------------------------------------------------------------------
(* What is heard of a session.                                             *)

\* An event tells of the step it comes with.
Telling(e) ==
    /\ heard' = Append(heard, e) /\ SessionTyped' /\ verdict' = verdict
    /\ Cardinality(Copilot!Running') = Counts(e, Cardinality(Copilot!Running))
    /\ Copilot!Cost' = Copilot!Cost \/ ~Copilot!Quiet(e)
    /\ (spent'["sub"] = spent["sub"] /\ (open'["sub"] # "no" => open["sub"] # "no")) \/ e.by = "sub"
    /\ \A a \in Copilot!Agents : open'[a] = "other" => open[a] = "other" \/ e.says = "other"
    /\ \A m \in used' : m \in used \/ Copilot!TellsOf(e, m)
    /\ used \subseteq used' /\ (e.type = "assistant.message" => e.says \in used')
    /\ Copilot!Settles(e) \/ e.type = "session.usage_checkpoint" => UNCHANGED <<spent, open>>
    /\ e.type = "session.usage_checkpoint" =>
         ~Copilot!Settles(e) /\ (Copilot!Running = {} /\ spent["sub"] = 0 => e.n = Copilot!Cost)

LEMMA Hears ==
    ASSUME Copilot!CopilotInv, verdict.as = "none", NEW e \in Heard, Telling(e)
    PROVE  Copilot!CopilotInv'
<1>1. SessionTyped /\ Unjudged /\ AllTold
    BY CopilotParts
<1>2. /\ heard \in Seq(Heard) /\ heard' = Append(heard, e) /\ SessionTyped' /\ verdict' = verdict
    BY <1>1 DEF SessionTyped, Telling
<1>3. /\ Len(heard') = Len(heard) + 1 /\ Len(heard) \in Nat
      /\ (\A i \in 1..Len(heard) : heard'[i] = heard[i]) /\ heard'[Len(heard) + 1] = e
    BY <1>2, Appended
<1>4. Unjudged'
    BY <1>1, <1>2 DEF Unjudged, Copilot!NoVerdict
<1>5. OpenTold'
    <2>1. Copilot!OpenAfter(heard')[Len(heard')] = Counts(e, Copilot!OpenAfter(heard)[Len(heard)])
        BY <1>2, <1>3, EventAdded
    <2> QED
        BY <1>1, <2>1, Zenon DEF AllTold, OpenTold, Telling
<1>6. CostTold'
    BY <1>1, <1>3 DEF AllTold, CostTold, Telling
<1>7. SubTold'
    BY <1>1, <1>3 DEF AllTold, SubTold, Telling
<1>8. OtherTold'
    BY <1>1, <1>3 DEF AllTold, OtherTold, Telling
<1>9. UsedTold'
    BY <1>1, <1>3 DEF AllTold, UsedTold, Telling
<1>10. MarksTrue'
    <2> SUFFICES ASSUME \A i \in 1..Len(heard') : heard'[i].by = "main",
                        NEW i \in 1..Len(heard'), heard'[i].type = "session.usage_checkpoint", Final(i)'
                 PROVE  heard'[i].n = Copilot!Cost' /\ Copilot!Running' = {}
        BY DEF MarksTrue
    <2>1. \A j \in 1..Len(heard) : heard[j].by = "main"
        BY <1>3
    <2>2. (Copilot!Running' = Copilot!Running /\ Copilot!Cost' = Copilot!Cost)
          \/ ~(Copilot!Settles(e) \/ e.type = "session.usage_checkpoint")
        BY DEF Telling, Copilot!Running, Copilot!Cost
    <2>3. CASE i = Len(heard) + 1
        <3>1. SubSeq(heard', 1, i - 1) = heard
            BY <1>2, <1>3, <2>3, EventAdded
        <3>2. ~(Copilot!OpenAfter(heard)[Len(heard)] > 0)
            BY <3>1 DEF Final, Copilot!DispatchOpen
        <3>3. Copilot!Running = {}
            <4>1. IsFiniteSet(Copilot!Running)
                BY FewRun
            <4>2. Cardinality(Copilot!Running) = 0
                BY <1>1, <3>2, <4>1, FS_CardinalityType DEF AllTold, OpenTold
            <4> QED
                BY <4>1, <4>2, FS_EmptySet
        <3>4. spent["sub"] = 0
            <4>1. spent["sub"] \in Nat
                BY <1>1 DEF SessionTyped, Copilot!Agents
            <4> QED
                BY <1>1, <2>1, <4>1 DEF AllTold, SubTold
        <3>5. e.type = "session.usage_checkpoint" /\ heard'[i] = e
            BY <1>3, <2>3
        <3> QED
            BY <2>2, <3>3, <3>4, <3>5 DEF Telling
    <2>4. CASE i # Len(heard) + 1
        <3>1. i \in 1..Len(heard) /\ i - 1 \in 0..Len(heard) /\ heard'[i] = heard[i]
            BY <1>3, <2>4
        <3>2. SubSeq(heard', 1, i - 1) = SubSeq(heard, 1, i - 1)
            BY <1>2, <3>1, EventAdded
        <3>3. Copilot!Settles(e) /\ \A j \in (i + 1)..Len(heard) : Copilot!Settles(heard[j])
            BY <1>3, <3>1 DEF Final
        <3>4. Final(i)
            BY <3>2, <3>3 DEF Final, Copilot!DispatchOpen
        <3>5. heard[i].n = Copilot!Cost /\ Copilot!Running = {}
            BY <1>1, <2>1, <3>1, <3>4, Zenon DEF AllTold, MarksTrue
        <3> QED
            BY <2>2, <3>1, <3>3, <3>5
    <2> QED
        BY <2>3, <2>4
<1> QED
    BY <1>2, <1>4, <1>5, <1>6, <1>7, <1>8, <1>9, <1>10, UnjudgedSoundNext, CopilotPartsNext DEF AllTold

LEMMA Dispatches ==
    ASSUME SessionTyped, NEW a \in Copilot!Agents, NEW m, open' = [open EXCEPT ![a] = m]
    PROVE  /\ open[a] = "no" /\ m # "no" => Cardinality(Copilot!Running') = Cardinality(Copilot!Running) + 1
           /\ open[a] # "no" /\ m = "no" =>
                Cardinality(Copilot!Running) > 0 /\ Cardinality(Copilot!Running') = Cardinality(Copilot!Running) - 1
           /\ open[a] # "no" /\ m # "no" => Copilot!Running' = Copilot!Running
<1>1. /\ open'[a] = m /\ \A b \in Copilot!Agents : b # a => open'[b] = open[b]
    BY DEF SessionTyped
<1>2. IsFiniteSet(Copilot!Running) /\ Cardinality(Copilot!Running) \in Nat
    BY FewRun
<1>3. ASSUME open[a] = "no", m # "no"
      PROVE  Cardinality(Copilot!Running') = Cardinality(Copilot!Running) + 1
    <2>1. Copilot!Running' = Copilot!Running \cup {a} /\ a \notin Copilot!Running
        BY <1>1, <1>3 DEF Copilot!Running
    <2> QED
        BY <1>2, <2>1, FS_AddElement
<1>4. ASSUME open[a] # "no", m = "no"
      PROVE  Cardinality(Copilot!Running) > 0 /\ Cardinality(Copilot!Running') = Cardinality(Copilot!Running) - 1
    <2>1. Copilot!Running' = Copilot!Running \ {a} /\ a \in Copilot!Running
        BY <1>1, <1>4 DEF Copilot!Running
    <2>2. Cardinality(Copilot!Running') = Cardinality(Copilot!Running) - 1
        BY <1>2, <2>1, FS_RemoveElement
    <2>3. Cardinality(Copilot!Running) # 0
        BY <1>2, <2>1, FS_EmptySet
    <2> QED
        BY <1>2, <2>2, <2>3
<1>5. ASSUME open[a] # "no", m # "no" PROVE Copilot!Running' = Copilot!Running
    BY <1>1, <1>5 DEF Copilot!Running
<1> QED
    BY <1>3, <1>4, <1>5

LEMMA Spends ==
    ASSUME SessionTyped, NEW a \in Copilot!Agents, NEW m \in Copilot!Models, Copilot!Works(a, m)
    PROVE  /\ spent' \in [Copilot!Agents -> Nat] /\ used' \subseteq Copilot!Models
           /\ used' = used \cup {m} /\ (a = "main" => spent'["sub"] = spent["sub"])
    BY DEF SessionTyped, Copilot!Works, Copilot!Agents

\* What is told of a step, by type and agent.
LEMMA Says ==
    ASSUME SessionTyped, NEW type \in Copilot!Types, NEW by \in Copilot!Agents, NEW says \in Copilot!Words, NEW n \in Int,
           Copilot!Tell(type, by, says, n)
    PROVE  \E e \in Heard :
             /\ e.type = type /\ e.by = by /\ e.says = says /\ e.n = n
             /\ heard' = Append(heard, e) /\ heard' \in Seq(Heard)
<1>1. PICK e : e = [type |-> type, by |-> by, says |-> says, n |-> n]
    OBVIOUS
<1>2. e \in Heard /\ e.type = type /\ e.by = by /\ e.says = says /\ e.n = n
    BY <1>1 DEF Heard
<1>3. heard' = Append(heard, e)
    BY <1>1 DEF Copilot!Tell
<1> QED
    BY <1>2, <1>3, Appended DEF SessionTyped

LEMMA StartHeard ==
    ASSUME Copilot!CopilotInv, NEW a \in Copilot!Agents, NEW m \in Copilot!Models, Copilot!CallStart(a, m)
    PROVE  Copilot!CopilotInv'
<1>1. SessionTyped /\ verdict.as = "none" /\ open[a] = "no" /\ m \in {"pin", "other"}
    BY CopilotParts DEF Copilot!CallStart, Copilot!Active, Copilot!Listening, Copilot!Models
<1>2. open' = [open EXCEPT ![a] = m] /\ UNCHANGED <<spent, used, idled, verdict>>
    BY DEF Copilot!CallStart
<1>3. PICK e \in Heard : /\ e.type = "model.call_start" /\ e.by = a /\ e.says = m
                         /\ heard' = Append(heard, e) /\ heard' \in Seq(Heard)
    <2>1. Copilot!Tell("model.call_start", a, m, 0)
        BY DEF Copilot!CallStart
    <2>2. m \in Copilot!Words /\ "model.call_start" \in Copilot!Types /\ 0 \in Int
        BY DEF Copilot!Types, Copilot!Words
    <2> QED
        BY <1>1, <2>1, <2>2, Says
<1>4. SessionTyped'
    BY <1>1, <1>2, <1>3 DEF SessionTyped
<1>5. Cardinality(Copilot!Running') = Counts(e, Cardinality(Copilot!Running))
    BY <1>1, <1>2, <1>3, Dispatches DEF Counts
<1>6. Copilot!Cost' = Copilot!Cost
    BY <1>2 DEF Copilot!Cost
<1>7. /\ open'["sub"] # "no" => open["sub"] # "no" \/ e.by = "sub"
      /\ \A b \in Copilot!Agents : open'[b] = "other" => open[b] = "other" \/ e.says = "other"
    BY <1>1, <1>2, <1>3 DEF SessionTyped, Copilot!Agents
<1>8. ~Copilot!Settles(e)
    BY <1>3 DEF Copilot!Settles
<1>9. Telling(e)
    BY <1>2, <1>3, <1>4, <1>5, <1>6, <1>7, <1>8 DEF Telling
<1> QED
    BY <1>1, <1>9, Hears

LEMMA AnswerHeard ==
    ASSUME Copilot!CopilotInv, NEW a \in Copilot!Agents, Copilot!Answer(a)
    PROVE  Copilot!CopilotInv'
<1>1. SessionTyped /\ verdict.as = "none" /\ open[a] \in Copilot!Models /\ open[a] \in {"pin", "other"}
    BY CopilotParts DEF Copilot!Answer, Copilot!Active, Copilot!Listening, Copilot!Models
<1>2. open' = [open EXCEPT ![a] = "answered"] /\ UNCHANGED <<idled, verdict>> /\ Copilot!Works(a, open[a])
    BY DEF Copilot!Answer
<1>3. PICK e \in Heard : /\ e.type = "assistant.message" /\ e.by = a /\ e.says = open[a]
                         /\ heard' = Append(heard, e) /\ heard' \in Seq(Heard)
    <2>1. Copilot!Tell("assistant.message", a, open[a], 0)
        BY DEF Copilot!Answer
    <2>2. open[a] \in Copilot!Words /\ "assistant.message" \in Copilot!Types /\ 0 \in Int
        BY <1>1 DEF Copilot!Types, Copilot!Words
    <2> QED
        BY <1>1, <2>1, <2>2, Says
<1>4. SessionTyped'
    BY <1>1, <1>2, <1>3, Spends DEF SessionTyped
<1>5. Cardinality(Copilot!Running') = Counts(e, Cardinality(Copilot!Running))
    <2>1. "answered" # "no" /\ open[a] # "no"
        BY <1>1
    <2>2. Copilot!Running' = Copilot!Running
        BY <1>1, <1>2, <2>1, Dispatches, Zenon
    <2> QED
        BY <1>3, <2>2 DEF Counts
<1>6. ~Copilot!Quiet(e)
    BY <1>3 DEF Copilot!Quiet
<1>7. /\ (spent'["sub"] = spent["sub"] /\ (open'["sub"] # "no" => open["sub"] # "no")) \/ e.by = "sub"
      /\ \A b \in Copilot!Agents : open'[b] = "other" => open[b] = "other"
    BY <1>1, <1>2, <1>3, Spends DEF SessionTyped, Copilot!Agents
<1>8. /\ ~Copilot!Settles(e) /\ Copilot!TellsOf(e, open[a])
    BY <1>3 DEF Copilot!Settles, Copilot!TellsOf
<1>9. used' = used \cup {open[a]}
    BY <1>1, <1>2, Spends
<1>10. Telling(e)
    BY <1>2, <1>3, <1>4, <1>5, <1>6, <1>7, <1>8, <1>9 DEF Telling
<1> QED
    BY <1>1, <1>10, Hears

LEMMA FinishHeard ==
    ASSUME Copilot!CopilotInv, NEW a \in Copilot!Agents, Copilot!CallFinished(a)
    PROVE  Copilot!CopilotInv'
<1>1. SessionTyped /\ verdict.as = "none" /\ open[a] # "no" /\ open[a] \in {"answered", "pin", "other"}
    BY CopilotParts DEF Copilot!CallFinished, Copilot!Active, Copilot!Listening, SessionTyped
<1>2. open' = [open EXCEPT ![a] = "no"] /\ UNCHANGED <<idled, verdict>>
    BY DEF Copilot!CallFinished
<1>3. PICK says \in {"success", "error", "rejected"} :
        /\ Copilot!Tell("model.call_finished", a, says, 0)
        /\ \/ UNCHANGED <<spent, used>>
           \/ says = "rejected" /\ open[a] \in Copilot!Models /\ Copilot!Works(a, open[a])
    BY <1>1 DEF Copilot!CallFinished, Copilot!Models
<1>4. PICK e \in Heard : /\ e.type = "model.call_finished" /\ e.by = a /\ e.says = says
                         /\ heard' = Append(heard, e) /\ heard' \in Seq(Heard)
    <2>1. says \in Copilot!Words /\ "model.call_finished" \in Copilot!Types /\ 0 \in Int
        BY DEF Copilot!Types, Copilot!Words
    <2> QED
        BY <1>1, <1>3, <2>1, Says
<1>5. SessionTyped'
    BY <1>1, <1>2, <1>3, <1>4, Spends DEF SessionTyped
<1>6. Cardinality(Copilot!Running') = Counts(e, Cardinality(Copilot!Running))
    BY <1>1, <1>2, <1>4, Dispatches DEF Counts
<1>7. Copilot!Cost' = Copilot!Cost \/ ~Copilot!Quiet(e)
    BY <1>3, <1>4 DEF Copilot!Quiet, Copilot!Cost
<1>8. /\ (spent'["sub"] = spent["sub"] /\ (open'["sub"] # "no" => open["sub"] # "no")) \/ e.by = "sub"
      /\ \A b \in Copilot!Agents : open'[b] = "other" => open[b] = "other"
    BY <1>1, <1>2, <1>3, <1>4, Spends DEF SessionTyped, Copilot!Agents
<1>9. ~Copilot!Settles(e)
    BY <1>4 DEF Copilot!Settles
<1>10. used \subseteq used' /\ \A m \in used' : m \in used \/ Copilot!TellsOf(e, m)
    BY <1>1, <1>3, <1>4, Spends DEF Copilot!TellsOf
<1>11. Telling(e)
    BY <1>2, <1>4, <1>5, <1>6, <1>7, <1>8, <1>9, <1>10 DEF Telling
<1> QED
    BY <1>1, <1>11, Hears

\* The steps that leave every dispatch as it is.
LEMMA Notes ==
    ASSUME Copilot!CopilotInv, verdict.as = "none", NEW type \in Copilot!Types, NEW by \in Copilot!Agents,
           NEW says \in Copilot!Words, NEW n \in Int, Copilot!Tell(type, by, says, n),
           type \notin {"model.call_start", "model.call_finished", "assistant.message"},
           UNCHANGED <<open, verdict>>, idled' \in BOOLEAN,
           \/ UNCHANGED <<spent, used>>
           \/ Copilot!Works("main", "other") /\ type = "session.compaction_complete",
           type = "session.usage_checkpoint" =>
             says = "units" /\ (Copilot!Running = {} /\ spent["sub"] = 0 => n = Copilot!Cost)
    PROVE  Copilot!CopilotInv'
<1>1. SessionTyped
    BY CopilotParts
<1>2. PICK e \in Heard : /\ e.type = type /\ e.by = by /\ e.says = says /\ e.n = n
                         /\ heard' = Append(heard, e) /\ heard' \in Seq(Heard)
    BY <1>1, Says
<1>3. "main" \in Copilot!Agents /\ "other" \in Copilot!Models
    BY DEF Copilot!Agents, Copilot!Models
<1>4. SessionTyped'
    BY <1>1, <1>2, <1>3, Spends DEF SessionTyped
<1>5. Cardinality(Copilot!Running') = Counts(e, Cardinality(Copilot!Running))
    <2>1. Copilot!Running' = Copilot!Running
        BY DEF Copilot!Running
    <2> QED
        BY <1>2, <2>1 DEF Counts
<1>6. Copilot!Cost' = Copilot!Cost \/ ~Copilot!Quiet(e)
    BY <1>2 DEF Copilot!Quiet, Copilot!Cost
<1>7. spent'["sub"] = spent["sub"] /\ open' = open
    BY <1>1, <1>3, Spends
<1>8. used \subseteq used' /\ \A m \in used' : m \in used \/ Copilot!TellsOf(e, m)
    BY <1>1, <1>2, <1>3, Spends DEF Copilot!TellsOf
<1>9. Copilot!Settles(e) => type \in {"session.idle", "session.error"}
    BY <1>2 DEF Copilot!Settles, Heard, Copilot!Types
<1>10. Copilot!Settles(e) \/ e.type = "session.usage_checkpoint" => UNCHANGED <<spent, open>>
    BY <1>2, <1>9
<1>11. Telling(e)
    BY <1>2, <1>4, <1>5, <1>6, <1>7, <1>8, <1>9, <1>10 DEF Telling
<1> QED
    BY <1>11, Hears

LEMMA NotesHeard ==
    ASSUME Copilot!CopilotInv,
           \/ \E a \in Copilot!Agents : Copilot!CallFailure(a)
           \/ Copilot!FinalResult \/ Copilot!Compaction \/ Copilot!Checkpoint \/ Copilot!TurnEnd
           \/ Copilot!SessionError \/ Copilot!SessionIdle
    PROVE  Copilot!CopilotInv'
<1>0. SessionTyped /\ "main" \in Copilot!Agents /\ "sub" \in Copilot!Agents /\ 0 \in Int
    BY CopilotParts DEF Copilot!Agents
<1>1. ASSUME NEW a \in Copilot!Agents, Copilot!CallFailure(a) PROVE Copilot!CopilotInv'
    <2>1. PICK says \in {"top_level", "subagent"} : Copilot!Tell("model.call_failure", a, says, 0)
        BY <1>1 DEF Copilot!CallFailure
    <2>2. verdict.as = "none" /\ UNCHANGED <<open, spent, used, idled, verdict>>
        BY <1>1 DEF Copilot!CallFailure, Copilot!Active, Copilot!Listening
    <2>3. says \in Copilot!Words /\ "model.call_failure" \in Copilot!Types
        BY DEF Copilot!Words, Copilot!Types
    <2> QED
        BY <1>0, <2>1, <2>2, <2>3, Notes DEF SessionTyped
<1>2. CASE Copilot!FinalResult
    <2>1. PICK says \in {"success", "http_5xx"} : Copilot!Tell("model.call_final_result", "main", says, 0)
        BY <1>2 DEF Copilot!FinalResult
    <2>2. verdict.as = "none" /\ UNCHANGED <<open, spent, used, idled, verdict>>
        BY <1>2 DEF Copilot!FinalResult, Copilot!Active, Copilot!Listening
    <2>3. says \in Copilot!Words /\ "model.call_final_result" \in Copilot!Types
        BY DEF Copilot!Words, Copilot!Types
    <2> QED
        BY <1>0, <2>1, <2>2, <2>3, Notes DEF SessionTyped
<1>3. CASE Copilot!Compaction
    <2>1. Copilot!Tell("session.compaction_complete", "main", "other", 0) /\ Copilot!Works("main", "other")
        BY <1>3 DEF Copilot!Compaction
    <2>2. verdict.as = "none" /\ UNCHANGED <<open, idled, verdict>>
        BY <1>3 DEF Copilot!Compaction, Copilot!Active, Copilot!Listening
    <2>3. "other" \in Copilot!Words /\ "session.compaction_complete" \in Copilot!Types
        BY DEF Copilot!Words, Copilot!Types, Copilot!Models
    <2> QED
        BY <1>0, <2>1, <2>2, <2>3, Notes DEF SessionTyped
<1>4. CASE Copilot!Checkpoint
    <2>1. PICK n \in {Copilot!Cost, spent["main"]}
                    \cup (IF open["main"] = "answered" THEN {spent["main"] - 1} ELSE {}) :
                Copilot!Tell("session.usage_checkpoint", "main", "units", n)
        BY <1>4, Zenon DEF Copilot!Checkpoint
    <2>0. n = Copilot!Cost \/ n = spent["main"] \/ (open["main"] = "answered" /\ n = spent["main"] - 1)
        BY <2>1
    <2>2. verdict.as = "none" /\ UNCHANGED <<open, spent, used, idled, verdict>>
        BY <1>4 DEF Copilot!Checkpoint, Copilot!Listening
    <2>3. "units" \in Copilot!Words /\ "session.usage_checkpoint" \in Copilot!Types
        BY DEF Copilot!Words, Copilot!Types
    <2>4. spent["main"] \in Nat /\ spent["sub"] \in Nat
        BY <1>0 DEF SessionTyped
    <2>5. n \in Int
        BY <2>0, <2>4 DEF Copilot!Cost
    <2>6. Copilot!Running = {} /\ spent["sub"] = 0 => n = Copilot!Cost
        <3> SUFFICES ASSUME Copilot!Running = {}, spent["sub"] = 0 PROVE n = Copilot!Cost
            OBVIOUS
        <3>1. open["main"] = "no"
            BY <1>0 DEF Copilot!Running
        <3> QED
            BY <2>0, <2>4, <3>1 DEF Copilot!Cost
    <2> QED
        BY <1>0, <2>1, <2>2, <2>3, <2>5, <2>6, Notes DEF SessionTyped
<1>5. CASE Copilot!TurnEnd
    <2>1. Copilot!Tell("assistant.turn_end", "main", "end", 0)
        BY <1>5 DEF Copilot!TurnEnd
    <2>2. verdict.as = "none" /\ UNCHANGED <<open, spent, used, idled, verdict>>
        BY <1>5 DEF Copilot!TurnEnd, Copilot!Active, Copilot!Listening
    <2>3. "end" \in Copilot!Words /\ "assistant.turn_end" \in Copilot!Types
        BY DEF Copilot!Words, Copilot!Types
    <2> QED
        BY <1>0, <2>1, <2>2, <2>3, Notes DEF SessionTyped
<1>6. CASE Copilot!SessionError
    <2>1. PICK says \in {"autoswitch", "final"} : Copilot!Tell("session.error", "main", says, 0) /\ idled' \in BOOLEAN
        BY <1>6 DEF Copilot!SessionError
    <2>2. verdict.as = "none" /\ UNCHANGED <<open, spent, used, verdict>>
        BY <1>6 DEF Copilot!SessionError, Copilot!Active, Copilot!Listening
    <2>3. says \in Copilot!Words /\ "session.error" \in Copilot!Types
        BY DEF Copilot!Words, Copilot!Types
    <2> QED
        BY <1>0, <2>1, <2>2, <2>3, Notes
<1>7. CASE Copilot!SessionIdle
    <2>1. PICK says \in {"done", "aborted"} : Copilot!Tell("session.idle", "main", says, 0) /\ idled' \in BOOLEAN
        BY <1>7 DEF Copilot!SessionIdle
    <2>2. verdict.as = "none" /\ UNCHANGED <<open, spent, used, verdict>>
        BY <1>7 DEF Copilot!SessionIdle, Copilot!Listening
    <2>3. says \in Copilot!Words /\ "session.idle" \in Copilot!Types
        BY DEF Copilot!Words, Copilot!Types
    <2> QED
        BY <1>0, <2>1, <2>2, <2>3, Notes
<1> QED
    BY <1>1, <1>2, <1>3, <1>4, <1>5, <1>6, <1>7

-----------------------------------------------------------------------------
(* What the host makes of it.                                              *)

LEMMA Greatest ==
    ASSUME NEW n \in Nat, NEW S \in SUBSET (1..n), S # {}
    PROVE  \E m \in S : \A j \in S : j <= m
<1> DEFINE T == {n - i : i \in S}
<1>1. T \in SUBSET Nat /\ T # {}
    <2>1. PICK i \in S : TRUE
        OBVIOUS
    <2>2. \A j \in S : n - j \in Nat
        OBVIOUS
    <2>3. n - i \in T
        BY <2>1
    <2> QED
        BY <2>2, <2>3
<1>2. PICK t \in T : \A k \in T : t <= k
    <2> HIDE DEF T
    <2> QED
        BY <1>1, Least
<1>3. PICK m \in S : t = n - m
    BY <1>2
<1>4. \A j \in S : n - j \in T
    OBVIOUS
<1>5. ASSUME NEW j \in S PROVE j <= m
    <2>1. n - m <= n - j
        BY <1>2, <1>3, <1>4
    <2> QED
        BY <2>1
<1> QED
    BY <1>5

\* Nothing open was told of, and nothing runs.
LEMMA NothingRuns ==
    ASSUME SessionTyped, OpenTold, ~Copilot!DispatchOpen(heard)
    PROVE  Copilot!Running = {}
<1>1. ~(Cardinality(Copilot!Running) > 0)
    BY Zenon DEF OpenTold, Copilot!DispatchOpen
<1>2. Cardinality(Copilot!Running) = 0
    BY <1>1, FewRun
<1> QED
    BY <1>2, FewRun, FS_EmptySet

LEMMA CostTyped == SessionTyped => Copilot!Cost \in Nat /\ spent["sub"] \in Nat /\ spent["main"] \in Nat
    BY DEF SessionTyped, Copilot!Cost, Copilot!Agents

\* A call that spent nothing, by what was heard of it.
LEMMA DropFree ==
    ASSUME SessionTyped, AllTold, ~Copilot!MaySpend(heard)
    PROVE  Copilot!Cost = 0 /\ Copilot!Running = {}
<1>1. DOMAIN heard = 1..Len(heard)
    BY DEF SessionTyped
<1>2. (\A i \in 1..Len(heard) : Copilot!Quiet(heard[i])) /\ ~Copilot!DispatchOpen(heard)
    BY <1>1, Zenon DEF Copilot!MaySpend
<1>3. ~(Copilot!Cost > 0)
    BY <1>2, Zenon DEF AllTold, CostTold
<1> QED
    BY <1>2, <1>3, CostTyped, NothingRuns DEF AllTold

\* What a call is billed is what it cost.
LEMMA BillTrue ==
    ASSUME SessionTyped, AllTold, NEW charge \in Copilot!Bill(heard)
    PROVE  charge \in Int /\ charge = Copilot!Cost /\ Copilot!Running = {}
<1> DEFINE marks == Copilot!Of(heard, "session.usage_checkpoint")
           last == Copilot!Last(marks)
<1>1. DOMAIN heard = 1..Len(heard) /\ Len(heard) \in Nat
    BY DEF SessionTyped
<1>2. marks \in SUBSET (1..Len(heard)) /\ \A i \in marks : heard[i].type = "session.usage_checkpoint"
    BY <1>1 DEF Copilot!Of
<1> HIDE DEF marks
<1>3. /\ marks # {} /\ charge = heard[last].n
      /\ Copilot!SettledAfter(heard, last) /\ Copilot!FiguresAgree(heard, heard[last].n)
    BY DEF Copilot!Bill, marks
<1>4. last \in marks
    <2>1. \E m \in marks : \A j \in marks : j <= m
        BY <1>1, <1>2, <1>3, Greatest
    <2> QED
        BY <2>1 DEF Copilot!Last
<1> HIDE DEF last
<1>5. last \in 1..Len(heard) /\ heard[last].type = "session.usage_checkpoint"
    BY <1>2, <1>4
<1>6. \A i \in 1..Len(heard) : heard[i].by = "main"
    BY <1>1, <1>3 DEF Copilot!FiguresAgree
<1>7. Final(last)
    BY <1>3, Zenon DEF Copilot!SettledAfter, Final
<1>8. heard[last].n = Copilot!Cost /\ Copilot!Running = {}
    BY <1>5, <1>6, <1>7, Zenon DEF AllTold, MarksTrue
<1> QED
    BY <1>3, <1>8, CostTyped

\* The answer that was asked for is the pinned model's alone.
LEMMA PinAlone ==
    ASSUME SessionTyped, AllTold, Copilot!Witnessed(heard)
    PROVE  used = {"pin"} /\ \A a \in Copilot!Agents : open[a] # "other"
<1>1. DOMAIN heard = 1..Len(heard)
    BY DEF SessionTyped
<1>2. \A i \in 1..Len(heard) : heard[i].says # "other" /\ heard[i].type # "session.compaction_complete"
    BY <1>1 DEF Copilot!Witnessed, Copilot!Admitted
<1>3. \A i \in 1..Len(heard) : heard[i].type = "model.call_finished" => heard[i].says = "success"
    BY <1>1 DEF Copilot!Witnessed, Copilot!OneOperation, Copilot!Of
<1>4. PICK i \in 1..Len(heard) : heard[i].type = "assistant.message"
    <2>1. Cardinality(Copilot!Of(heard, "assistant.message")) = 1
        BY CopilotSize, Zenon DEF Copilot!Witnessed
    <2>2. Copilot!Of(heard, "assistant.message") # {}
        BY <2>1, FS_EmptySet
    <2> QED
        BY <1>1, <2>2 DEF Copilot!Of
<1>5. heard[i].says \in used /\ heard[i].says # "other"
    BY <1>2, <1>4 DEF AllTold, UsedTold
<1>6. "other" \notin used
    BY <1>2, <1>3 DEF AllTold, UsedTold, Copilot!TellsOf
<1>7. used \subseteq {"pin", "other"}
    BY DEF SessionTyped, Copilot!Models
<1>8. \A a \in Copilot!Agents : open[a] # "other"
    BY <1>2 DEF AllTold, OtherTold
<1> QED
    BY <1>5, <1>6, <1>7, <1>8

LEMMA CallReturns == ASSUME Copilot!CopilotInv, Copilot!Return PROVE Copilot!CopilotInv'
<1>1. verdict.as = "none" /\ UNCHANGED <<heard, open, spent, used, idled>>
    BY DEF Copilot!Return, Copilot!Listening
<1>2. SessionTyped /\ AllTold /\ SessionTyped'
    BY <1>1, CopilotParts DEF SessionTyped
<1>3. /\ Copilot!Cost' = Copilot!Cost /\ Copilot!Running' = Copilot!Running
    BY <1>1 DEF Copilot!Cost, Copilot!Running
<1>4. CASE ~Copilot!MaySpend(heard) /\ Copilot!Failure(heard) # "none"
    <2>1. verdict' = [Copilot!NoVerdict EXCEPT !.as = Copilot!Failure(heard)]
        BY <1>4 DEF Copilot!Return
    <2>2. PICK as \in {"indeterminate", "drop"} : Copilot!Failure(heard) = as
        BY <1>4 DEF Copilot!Failure
    <2>3. /\ verdict'.as = as /\ verdict'.charge = {} /\ verdict'.finish = FALSE
          /\ VerdictTyped'
        BY <2>1, <2>2 DEF Copilot!NoVerdict, VerdictTyped
    <2>4. Copilot!Cost = 0 /\ Copilot!Running = {}
        BY <1>2, <1>4, DropFree
    <2>5. VerdictTrue'
        BY <1>3, <2>3, <2>4
        DEF VerdictTrue, Copilot!DropsAreFree, Copilot!NeverTheLower, Copilot!OnlyThePin
    <2> QED
        BY <1>2, <2>3, <2>5, CopilotPartsNext
<1>5. CASE ~(~Copilot!MaySpend(heard) /\ Copilot!Failure(heard) # "none")
    <2>1. verdict' = [as |-> "reply", charge |-> Copilot!Bill(heard), finish |-> Copilot!Witnessed(heard)]
        BY <1>5 DEF Copilot!Return
    <2>2. PICK finish \in BOOLEAN : finish = Copilot!Witnessed(heard)
        BY DEF Copilot!Witnessed
    <2>3. Copilot!Bill(heard) \in SUBSET Int
        BY <1>2, BillTrue
    <2>4. /\ verdict'.as = "reply" /\ verdict'.charge = Copilot!Bill(heard) /\ verdict'.finish = finish
          /\ VerdictTyped'
        BY <2>1, <2>2, <2>3 DEF VerdictTyped
    <2>5. \A charge \in Copilot!Bill(heard) : charge >= Copilot!Cost /\ Copilot!Running = {}
        BY <1>2, BillTrue, CostTyped
    <2>6. finish => used = {"pin"} /\ \A a \in Copilot!Agents : open[a] # "other"
        BY <1>2, <2>2, PinAlone
    <2>7. VerdictTrue'
        BY <1>1, <1>3, <2>4, <2>5, <2>6
        DEF VerdictTrue, Copilot!DropsAreFree, Copilot!NeverTheLower, Copilot!OnlyThePin
    <2> QED
        BY <1>2, <2>4, <2>7, CopilotPartsNext
<1> QED
    BY <1>4, <1>5

LEMMA CallGivenUp == ASSUME Copilot!CopilotInv, Copilot!GiveUp PROVE Copilot!CopilotInv'
<1>1. UNCHANGED <<heard, open, spent, used, idled>> /\ verdict' = [Copilot!NoVerdict EXCEPT !.as = "indeterminate"]
    BY DEF Copilot!GiveUp
<1>2. SessionTyped'
    BY <1>1, CopilotParts DEF SessionTyped
<1>3. /\ verdict'.as = "indeterminate" /\ verdict'.charge = {} /\ verdict'.finish = FALSE
      /\ VerdictTyped'
    BY <1>1 DEF Copilot!NoVerdict, VerdictTyped
<1>4. VerdictTrue'
    BY <1>3 DEF VerdictTrue, Copilot!DropsAreFree, Copilot!NeverTheLower, Copilot!OnlyThePin
<1> QED
    BY <1>2, <1>3, <1>4, CopilotPartsNext

LEMMA WorksUnheard ==
    ASSUME Copilot!CopilotInv, NEW a \in Copilot!Agents, Copilot!Unheard(a) PROVE Copilot!CopilotInv'
<1>1. /\ SessionTyped /\ VerdictTyped /\ VerdictTrue /\ verdict.as \in {"drop", "reply"}
      /\ open[a] \in Copilot!Models /\ open[a] \in {"pin", "other"}
    BY CopilotParts DEF Copilot!Unheard, Copilot!Models
<1>2. /\ open' = [open EXCEPT ![a] = "answered"] /\ UNCHANGED <<heard, idled, verdict>>
      /\ Copilot!Works(a, open[a])
    BY DEF Copilot!Unheard
<1>3. SessionTyped' /\ VerdictTyped'
    BY <1>1, <1>2, Spends DEF SessionTyped, VerdictTyped
<1>4. Copilot!Running # {}
    BY <1>1 DEF Copilot!Running
<1>5. verdict.as # "drop" /\ verdict.charge = {}
    BY <1>1, <1>4 DEF VerdictTrue, Copilot!DropsAreFree, Copilot!NeverTheLower
<1>6. ASSUME verdict.finish PROVE used' = {"pin"} /\ \A b \in Copilot!Agents : open'[b] # "other"
    <2>1. used = {"pin"} /\ \A b \in Copilot!Agents : open[b] # "other"
        BY <1>1, <1>6 DEF VerdictTrue, Copilot!OnlyThePin
    <2>2. open[a] = "pin"
        BY <1>1, <2>1
    <2>3. used' = used \cup {"pin"}
        BY <1>1, <1>2, <2>2, Spends
    <2> QED
        BY <1>1, <1>2, <2>1, <2>3 DEF SessionTyped
<1>7. VerdictTrue'
    BY <1>2, <1>5, <1>6 DEF VerdictTrue, Copilot!DropsAreFree, Copilot!NeverTheLower, Copilot!OnlyThePin
<1> QED
    BY <1>1, <1>2, <1>3, <1>7, CopilotPartsNext

LEMMA InitHeard == Copilot!Init => Copilot!CopilotInv
<1> SUFFICES ASSUME Copilot!Init PROVE Copilot!CopilotInv
    OBVIOUS
<1>1. /\ heard = <<>> /\ used = {} /\ idled = FALSE /\ verdict = Copilot!NoVerdict
      /\ \A a \in Copilot!Agents : open[a] = "no" /\ spent[a] = 0
      /\ open \in [Copilot!Agents -> {"no"}] /\ spent \in [Copilot!Agents -> {0}]
    BY DEF Copilot!Init
<1>2. heard \in Seq(Heard) /\ Len(heard) = 0
    BY <1>1
<1>3. SessionTyped
    <2>1. open \in [Copilot!Agents -> {"no", "answered", "pin", "other"}]
        BY <1>1
    <2>2. spent \in [Copilot!Agents -> Nat]
        BY <1>1
    <2> QED
        BY <1>1, <1>2, <2>1, <2>2 DEF SessionTyped
<1>4. Copilot!Running = {} /\ Copilot!Cost = 0
    BY <1>1 DEF Copilot!Running, Copilot!Cost, Copilot!Agents
<1>5. OpenTold
    <2>1. Copilot!OpenAfter(heard)[Len(heard)] = 0
        BY <1>2, OpenAfterIs
    <2> QED
        BY <1>4, <2>1, FS_EmptySet DEF OpenTold
<1>6. CostTold /\ SubTold /\ OtherTold /\ UsedTold /\ MarksTrue
    BY <1>1, <1>2, <1>4 DEF CostTold, SubTold, OtherTold, UsedTold, MarksTrue, Copilot!Agents
<1>7. Unjudged
    BY <1>1 DEF Unjudged
<1> QED
    BY <1>3, <1>5, <1>6, <1>7, UnjudgedSound, CopilotParts DEF AllTold

LEMMA SessionStill == ASSUME Copilot!CopilotInv, UNCHANGED Copilot!vars PROVE Copilot!CopilotInv'
<1>1. UNCHANGED <<heard, open, spent, used, idled, verdict>>
    BY DEF Copilot!vars
<1>2. SessionTyped /\ VerdictTyped /\ (verdict.as = "none" => Unjudged /\ AllTold) /\ VerdictTrue
    BY CopilotParts
<1>3. SessionTyped' /\ VerdictTyped'
    BY <1>1, <1>2 DEF SessionTyped, VerdictTyped
<1>4. Copilot!Running' = Copilot!Running /\ Copilot!Cost' = Copilot!Cost
    BY <1>1 DEF Copilot!Running, Copilot!Cost
<1>5. \A i : Final(i)' <=> Final(i)
    BY <1>1 DEF Final
<1>6. VerdictTrue'
    BY <1>1, <1>2, <1>4 DEF VerdictTrue, Copilot!DropsAreFree, Copilot!NeverTheLower, Copilot!OnlyThePin
<1>7. verdict.as = "none" => Unjudged' /\ AllTold'
    BY <1>1, <1>2, <1>4, <1>5
    DEF AllTold, Unjudged, OpenTold, CostTold, SubTold, OtherTold, UsedTold, MarksTrue, Copilot!NoVerdict
<1> QED
    BY <1>1, <1>3, <1>6, <1>7, CopilotPartsNext

LEMMA NextHeard ==
    ASSUME Copilot!CopilotInv, [Copilot!Next]_(Copilot!vars)
    PROVE  Copilot!CopilotInv'
<1>1. ASSUME NEW a \in Copilot!Agents, NEW m \in Copilot!Models, Copilot!CallStart(a, m)
      PROVE  Copilot!CopilotInv'
    BY <1>1, StartHeard
<1>2. ASSUME NEW a \in Copilot!Agents, Copilot!Answer(a) \/ Copilot!CallFinished(a) \/ Copilot!Unheard(a)
      PROVE  Copilot!CopilotInv'
    BY <1>2, AnswerHeard, FinishHeard, WorksUnheard
<1>3. ASSUME NEW a \in Copilot!Agents, Copilot!CallFailure(a) PROVE Copilot!CopilotInv'
    BY <1>3, NotesHeard, Zenon
<1>4. ASSUME \/ Copilot!FinalResult \/ Copilot!Compaction \/ Copilot!Checkpoint \/ Copilot!TurnEnd
             \/ Copilot!SessionError \/ Copilot!SessionIdle
      PROVE  Copilot!CopilotInv'
    BY <1>4, NotesHeard, Zenon
<1>5. CASE Copilot!Return \/ Copilot!GiveUp
    BY <1>5, CallReturns, CallGivenUp
<1>6. CASE UNCHANGED Copilot!vars
    BY <1>6, SessionStill
<1> QED
    BY <1>1, <1>2, <1>3, <1>4, <1>5, <1>6, Zenon DEF Copilot!Next

LEMMA CopilotInvSound == Copilot!CopilotInv => Copilot!CallSound
    BY Zenon DEF Copilot!CopilotInv, Copilot!CallSound

CallPart ==
    /\ part = "copilot" => Copilot!CopilotInv
    /\ part = "completion" => Completion!CompletionInv

LEMMA CallPartNext == ASSUME CallPart, [MCNext]_mcvars PROVE CallPart'
<1>1. CASE UNCHANGED mcvars
    <2>1. part' = part /\ UNCHANGED others
        BY <1>1 DEF mcvars
    <2>2. UNCHANGED Copilot!vars /\ UNCHANGED Completion!vars
        BY <2>1 DEF others, Copilot!vars, Completion!vars
    <2> QED
        BY <2>1, <2>2, NextHeard, NextCalled DEF CallPart
<1>2. CASE MCNext
    <2>1. part' = part
        BY <1>2, Zenon DEF MCNext
    <2>2. part = "copilot" => Copilot!Next
        BY <1>2, Zenon DEF MCNext
    <2>3. part = "completion" => Completion!Next
        BY <1>2, Zenon DEF MCNext
    <2> QED
        BY <2>1, <2>2, <2>3, NextHeard, NextCalled DEF CallPart
<1> QED
    BY <1>1, <1>2

\* A model's call (models.py, provider.py, copilot.py): for any deadline, tries, waits and
\* events, and whatever a gateway answers and a runtime does, at most one send is a model's
\* work and only a send clear of any is followed by another; what is billed is what the
\* call cost; what is sent again, or may be, cost nothing and left nothing running; and an
\* answer is taken for the pinned model's only where no other worked.
THEOREM CallsSoundHolds == MCSpec => []CallsSound
<1>1. MCInit => CallPart
    <2>1. ASSUME MCInit, part = "copilot" PROVE Copilot!CopilotInv
        <3>1. Copilot!Init
            BY <2>1, Zenon DEF MCInit
        <3> QED
            BY <3>1, InitHeard
    <2>2. ASSUME MCInit, part = "completion" PROVE Completion!CompletionInv
        <3>1. Completion!Init
            BY <2>2, Zenon DEF MCInit
        <3> QED
            BY <3>1, InitCalled
    <2> QED
        BY <2>1, <2>2 DEF CallPart
<1>2. CallPart /\ [MCNext]_mcvars => CallPart'
    BY CallPartNext
<1>3. CallPart => CallsSound
    BY CompletionInvSound, CopilotInvSound DEF CallPart, CallsSound
<1> QED
    BY <1>1, <1>2, <1>3, PTL DEF MCSpec
=============================================================================
