--------------------------- MODULE RequestsProofs ---------------------------
(***************************************************************************)
(* What requests hold of the process, who brings them, and what the        *)
(* console makes of their answers, for any requests, limits, times,        *)
(* changes, faults and presses: each counter is the number of those that   *)
(* hold something of it, so every theorem of the process is an account     *)
(* that a step moves on both sides at once; what a request waits for is    *)
(* found from it, whoever else has gone; and the console's latest read is  *)
(* of what there is, or another is due (ConsoleInv).                       *)
(***************************************************************************)
EXTENDS MCServices, SequenceTheorems, FiniteSetTheorems, TLAPS

\* What a row says of the log it is in, step by step: it is there, and says what it said.
LEMMA Appended ==
    ASSUME NEW S, NEW s \in Seq(S), NEW e \in S
    PROVE  /\ Append(s, e) \in Seq(S) /\ Len(Append(s, e)) = Len(s) + 1
           /\ \A i \in 1..Len(s) : Append(s, e)[i] = s[i]
           /\ Append(s, e)[Len(s) + 1] = e
    BY AppendProperties

-----------------------------------------------------------------------------
(* Serving's state, by the names it has in Serving; its receipts are the   *)
(* stored ones.                                                            *)

inflight == x1
open == x2
held == x3
places == x4
req == x5
slot == x6
names == x7
durable == x8
sources == x9
stored == x10

USE DEF inflight, open, held, places, req, slot, names, durable, sources, stored

Busy == {r \in Asks : req[r].step # "rest"}
Held == {r \in Asks : slot[r].held}
HeldBy(a) == {r \in Asks : slot[r].held /\ Watcher[r] = a}
Admits == {"read", "prepare", "put", "sync", "commit", "answer"}
Admitted == {r \in Asks : req[r].step \in Admits}

\* ServingInv, in the parts a step disturbs.
Requested == [step : Serving!Steps, key : Keys \cup {"none"}, pack : Packs \cup {"none"}, left : Nat]
Slotted == [held : BOOLEAN, by : SUBSET {"response", "generator", "collector"}]
CountsTyped == inflight \in Int /\ places \in Int /\ req \in [Asks -> Requested]
SlotsTyped == open \in Int /\ held \in [Serving!Watchers -> Int] /\ slot \in [Asks -> Slotted]
StoreTyped ==
    /\ names \subseteq Packs /\ durable \subseteq names
    /\ sources \in Seq([key : Keys, pack : Packs]) /\ stored \in [Keys -> Packs \cup {"none"}]
CountsTrue == inflight = Cardinality(Busy) /\ places + Cardinality(Admitted) = AdmissionSlots
SlotsTrue ==
    /\ open = Cardinality(Held) /\ open <= StreamLimit
    /\ \A a \in Serving!Watchers : held[a] = Cardinality(HeldBy(a)) /\ held[a] <= WatcherLimit
UploadsTrue ==
    \A r \in Asks :
        /\ req[r].step \in Serving!Uploading => req[r].key \in Keys /\ req[r].pack \in Packs
        /\ req[r].step = "sync" => req[r].pack \in names
        /\ req[r].step = "commit" => req[r].pack \in durable
RowsTrue ==
    /\ \A i \in DOMAIN sources : sources[i].pack \in durable /\ stored[sources[i].key] # "none"
    /\ \A i, j \in DOMAIN sources : sources[i].key = sources[j].key => i = j

LEMMA ServingSize == ASSUME NEW S PROVE Serving!Cardinality(S) = Cardinality(S)
    BY Zenon DEF Serving!Cardinality, Cardinality

LEMMA CountedIs == Serving!Counted <=> CountsTrue /\ SlotsTrue
<1>1. /\ Busy = {r \in Asks : ~Serving!At(r, "rest")} /\ Held = Serving!Holding /\ Admitted = Serving!Admitting
      /\ \A a \in Serving!Watchers : HeldBy(a) = {r \in Serving!Holding : Watcher[r] = a}
    BY DEF Busy, Held, HeldBy, Admitted, Admits, Serving!At, Serving!Holding, Serving!Admitting
<1>2. /\ Serving!Cardinality({r \in Asks : ~Serving!At(r, "rest")}) = Cardinality(Busy)
      /\ Serving!Cardinality(Serving!Holding) = Cardinality(Held)
      /\ Serving!Cardinality(Serving!Admitting) = Cardinality(Admitted)
      /\ \A a \in Serving!Watchers :
            Serving!Cardinality({r \in Serving!Holding : Watcher[r] = a}) = Cardinality(HeldBy(a))
    BY <1>1, ServingSize, Zenon
<1> QED
    BY <1>2 DEF Serving!Counted, CountsTrue, SlotsTrue

LEMMA ServingParts ==
    Serving!ServingInv <=>
        /\ CountsTyped /\ SlotsTyped /\ StoreTyped /\ CountsTrue /\ SlotsTrue
        /\ Serving!Collectable /\ Serving!Fresh /\ UploadsTrue /\ RowsTrue
<1>1. Serving!TypeOK <=> CountsTyped /\ SlotsTyped /\ StoreTyped
    BY Zenon DEF Serving!TypeOK, Serving!Nothing, CountsTyped, SlotsTyped, StoreTyped, Requested, Slotted
<1>2. Serving!Stored <=> UploadsTrue /\ RowsTrue
    BY DEF Serving!Stored, Serving!At, Serving!Nothing, UploadsTrue, RowsTrue
<1> QED
    BY <1>1, <1>2, CountedIs, Zenon DEF Serving!ServingInv

LEMMA ServingPartsNext ==
    Serving!ServingInv' <=>
        (/\ CountsTyped /\ SlotsTyped /\ StoreTyped /\ CountsTrue /\ SlotsTrue
         /\ Serving!Collectable /\ Serving!Fresh /\ UploadsTrue /\ RowsTrue)'
    BY ServingParts, PTL

\* A set that one member enters, leaves or stays as it is in.
One(b) == IF b THEN 1 ELSE 0

LEMMA Recount ==
    ASSUME NEW S, IsFiniteSet(S), NEW r, NEW b \in BOOLEAN, NEW T, T = IF b THEN S \cup {r} ELSE S \ {r}
    PROVE  Cardinality(T) = Cardinality(S) - One(r \in S) + One(b)
<1>1. Cardinality(S) \in Nat
    BY FS_CardinalityType
<1>2. CASE b
    <2>1. Cardinality(T) = IF r \in S THEN Cardinality(S) ELSE Cardinality(S) + 1
        BY <1>2, FS_AddElement
    <2> QED
        BY <1>1, <1>2, <2>1 DEF One
<1>3. CASE ~b
    <2>1. Cardinality(T) = IF r \in S THEN Cardinality(S) - 1 ELSE Cardinality(S)
        BY <1>3, FS_RemoveElement
    <2> QED
        BY <1>1, <1>3, <2>1 DEF One
<1> QED
    BY <1>2, <1>3

LEMMA Finites ==
    /\ IsFiniteSet(Busy) /\ IsFiniteSet(Held) /\ IsFiniteSet(Admitted)
    /\ \A a \in Serving!Watchers : IsFiniteSet(HeldBy(a))
<1>1. /\ Busy \subseteq Asks /\ Held \subseteq Asks /\ Admitted \subseteq Asks
      /\ \A a \in Serving!Watchers : HeldBy(a) \subseteq Asks
    BY DEF Busy, Held, Admitted, HeldBy
<1> QED
    BY <1>1, ServingIsBounded, FS_Subset, Zenon

\* What a step of one request has to say of it.
LEMMA CountsMove ==
    ASSUME CountsTyped, CountsTrue, NEW r \in Asks, NEW q \in Requested, req' = [req EXCEPT ![r] = q],
           inflight' = inflight - One(req[r].step # "rest") + One(q.step # "rest"),
           places' = places + One(req[r].step \in Admits) - One(q.step \in Admits)
    PROVE  (CountsTyped /\ CountsTrue)'
<1>1. req \in [Asks -> Requested] /\ inflight \in Int /\ places \in Int
    BY DEF CountsTyped
<1>2. req' \in [Asks -> Requested] /\ \A t \in Asks : req'[t] = IF t = r THEN q ELSE req[t]
    BY <1>1
<1>3. Busy' = IF q.step # "rest" THEN Busy \cup {r} ELSE Busy \ {r}
    BY <1>2 DEF Busy
<1>4. Admitted' = IF q.step \in Admits THEN Admitted \cup {r} ELSE Admitted \ {r}
    BY <1>2 DEF Admitted
<1>5. /\ Cardinality(Busy') = Cardinality(Busy) - One(r \in Busy) + One(q.step # "rest")
      /\ Cardinality(Admitted') = Cardinality(Admitted) - One(r \in Admitted) + One(q.step \in Admits)
    <2>1. Cardinality(Busy') = Cardinality(Busy) - One(r \in Busy) + One(q.step # "rest")
        BY <1>3, Finites, Recount
    <2>2. Cardinality(Admitted') = Cardinality(Admitted) - One(r \in Admitted) + One(q.step \in Admits)
        <3>1. (q.step \in Admits) \in BOOLEAN
            OBVIOUS
        <3> QED
            BY <1>4, <3>1, Finites, Recount, Zenon
    <2> QED
        BY <2>1, <2>2
<1>6. One(r \in Busy) = One(req[r].step # "rest") /\ One(r \in Admitted) = One(req[r].step \in Admits)
    BY DEF Busy, Admitted, One
<1>7. /\ Cardinality(Busy) \in Nat /\ Cardinality(Admitted) \in Nat
      /\ One(r \in Busy) \in Int /\ One(r \in Admitted) \in Int
      /\ One(q.step # "rest") \in Int /\ One(q.step \in Admits) \in Int /\ AdmissionSlots \in Nat
    BY Finites, FS_CardinalityType, ServingIsBounded DEF One
<1>8. inflight' \in Int /\ places' \in Int
    BY <1>1, <1>6, <1>7
<1>9. CountsTrue'
    BY <1>1, <1>5, <1>6, <1>7 DEF CountsTrue
<1> QED
    BY <1>2, <1>8, <1>9 DEF CountsTyped

\* And of its slot: one that is taken finds room for it and for its watcher.
LEMMA SlotsMove ==
    ASSUME SlotsTyped, SlotsTrue, Serving!Collectable, NEW r \in Asks, NEW z \in Slotted,
           slot' = [slot EXCEPT ![r] = z],
           open' = open - One(slot[r].held) + One(z.held),
           held' = [held EXCEPT ![Watcher[r]] = @ - One(slot[r].held) + One(z.held)],
           z.held /\ ~slot[r].held => open < StreamLimit /\ held[Watcher[r]] < WatcherLimit,
           z.held => "collector" \in z.by
    PROVE  (SlotsTyped /\ SlotsTrue /\ Serving!Collectable)'
<1>1. /\ open \in Int /\ held \in [Serving!Watchers -> Int] /\ slot \in [Asks -> Slotted]
      /\ slot[r].held \in BOOLEAN /\ z.held \in BOOLEAN /\ Watcher[r] \in Serving!Watchers
    BY DEF SlotsTyped, Slotted, Serving!Watchers
<1>2. slot' \in [Asks -> Slotted] /\ \A t \in Asks : slot'[t] = IF t = r THEN z ELSE slot[t]
    BY <1>1
<1>3. One(slot[r].held) \in {0, 1} /\ One(z.held) \in {0, 1}
    BY <1>1 DEF One
<1>4. open' \in Int /\ held[Watcher[r]] - One(slot[r].held) + One(z.held) \in Int
    BY <1>1, <1>3
<1>5. /\ held' \in [Serving!Watchers -> Int]
      /\ \A a \in Serving!Watchers :
            held'[a] = IF a = Watcher[r] THEN held[a] - One(slot[r].held) + One(z.held) ELSE held[a]
    BY <1>1, <1>4
<1>6. Held' = IF z.held THEN Held \cup {r} ELSE Held \ {r}
    BY <1>2 DEF Held
<1>7. open' = Cardinality(Held')
    <2>1. Cardinality(Held') = Cardinality(Held) - One(r \in Held) + One(z.held)
        BY <1>1, <1>6, Finites, Recount
    <2>2. One(r \in Held) = One(slot[r].held)
        BY DEF Held, One
    <2> QED
        BY <2>1, <2>2 DEF SlotsTrue
<1>8. One(slot[r].held) = 1 \/ One(z.held) = 0 \/ (z.held /\ ~slot[r].held)
    BY <1>1 DEF One
<1>9. StreamLimit \in Int /\ WatcherLimit \in Int
    BY ServingIsBounded
<1>10. open' <= StreamLimit
    <2>1. open <= StreamLimit
        BY DEF SlotsTrue
    <2> QED
        BY <1>1, <1>3, <1>8, <1>9, <2>1
<1>11. ASSUME NEW a \in Serving!Watchers PROVE held'[a] = Cardinality(HeldBy(a)') /\ held'[a] <= WatcherLimit
    <2>1. held[a] = Cardinality(HeldBy(a)) /\ held[a] <= WatcherLimit /\ held[a] \in Int
        BY <1>1 DEF SlotsTrue
    <2>2. CASE a # Watcher[r]
        <3>1. HeldBy(a)' = HeldBy(a)
            BY <1>2, <2>2 DEF HeldBy
        <3> QED
            BY <1>5, <2>1, <2>2, <3>1
    <2>3. CASE a = Watcher[r]
        <3>1. HeldBy(a)' = IF z.held THEN HeldBy(a) \cup {r} ELSE HeldBy(a) \ {r}
            BY <1>2, <2>3 DEF HeldBy
        <3>2. IsFiniteSet(HeldBy(a))
            BY Finites
        <3>3. PICK S, T : S = HeldBy(a) /\ T = HeldBy(a)'
            OBVIOUS
        <3>4. Cardinality(T) = Cardinality(S) - One(r \in S) + One(z.held)
            BY <1>1, <3>1, <3>2, <3>3, Recount
        <3>5. One(r \in S) = One(slot[r].held)
            BY <2>3, <3>3 DEF HeldBy, One
        <3>6. held'[a] = held[a] - One(slot[r].held) + One(z.held)
            BY <1>5, <2>3
        <3>7. held'[a] = Cardinality(HeldBy(a)')
            BY <2>1, <3>3, <3>4, <3>5, <3>6
        <3>8. held'[a] <= WatcherLimit
            BY <1>3, <1>8, <1>9, <2>1, <2>3, <3>6
        <3> QED
            BY <3>7, <3>8
    <2> QED
        BY <2>2, <2>3
<1>12. SlotsTrue'
    BY <1>7, <1>10, <1>11 DEF SlotsTrue, Serving!Watchers
<1>13. Serving!Collectable'
    BY <1>2 DEF Serving!Collectable
<1> QED
    BY <1>2, <1>4, <1>5, <1>12, <1>13 DEF SlotsTyped, Serving!Watchers

LEMMA SlotsStay ==
    ASSUME SlotsTyped, SlotsTrue, Serving!Collectable, UNCHANGED <<open, held, slot>>
    PROVE  (SlotsTyped /\ SlotsTrue /\ Serving!Collectable)'
    BY DEF SlotsTyped, SlotsTrue, Serving!Collectable, Held, HeldBy, Serving!Watchers

\* A step of one request.
LEMMA OneRequest ==
    ASSUME Serving!ServingInv, (SlotsTyped /\ SlotsTrue /\ Serving!Collectable)', (StoreTyped /\ RowsTrue)',
           NEW r \in Asks, NEW q \in Requested, req' = [req EXCEPT ![r] = q],
           inflight' = inflight - One(req[r].step # "rest") + One(q.step # "rest"),
           places' = places + One(req[r].step \in Admits) - One(q.step \in Admits),
           \A t \in Asks : t # r => slot'[t] = slot[t],
           names \subseteq names', durable \subseteq durable',
           q.step = "watch" => ~slot'[r].held,
           q.step \in Serving!Uploading => q.key \in Keys /\ q.pack \in Packs,
           q.step = "sync" => q.pack \in names',
           q.step = "commit" => q.pack \in durable'
    PROVE  Serving!ServingInv'
<1>1. /\ CountsTyped /\ SlotsTyped /\ StoreTyped /\ CountsTrue /\ SlotsTrue
      /\ Serving!Collectable /\ Serving!Fresh /\ UploadsTrue /\ RowsTrue
    BY ServingParts
<1>2. (CountsTyped /\ CountsTrue)'
    BY <1>1, CountsMove
<1>3. \A t \in Asks : req'[t] = IF t = r THEN q ELSE req[t]
    BY <1>1 DEF CountsTyped
<1>4. Serving!Fresh'
    BY <1>1, <1>3 DEF Serving!Fresh, Serving!At
<1>5. UploadsTrue'
    <2> SUFFICES ASSUME NEW t \in Asks
                 PROVE  /\ req'[t].step \in Serving!Uploading => req'[t].key \in Keys /\ req'[t].pack \in Packs
                        /\ req'[t].step = "sync" => req'[t].pack \in names'
                        /\ req'[t].step = "commit" => req'[t].pack \in durable'
        BY DEF UploadsTrue
    <2>1. CASE t = r
        BY <1>3, <2>1
    <2>2. CASE t # r
        BY <1>1, <1>3, <2>2 DEF UploadsTrue
    <2> QED
        BY <2>1, <2>2
<1> QED
    BY <1>2, <1>4, <1>5, ServingPartsNext

\* Most steps: neither slots nor the store.
LEMMA RequestOnly ==
    ASSUME Serving!ServingInv, UNCHANGED <<open, held, slot, names, durable, sources, stored>>,
           NEW r \in Asks, NEW q \in Requested, req' = [req EXCEPT ![r] = q],
           inflight' = inflight - One(req[r].step # "rest") + One(q.step # "rest"),
           places' = places + One(req[r].step \in Admits) - One(q.step \in Admits),
           q.step = "watch" => ~slot[r].held,
           q.step \in Serving!Uploading => q.key \in Keys /\ q.pack \in Packs,
           q.step = "sync" => q.pack \in names,
           q.step = "commit" => q.pack \in durable
    PROVE  Serving!ServingInv'
<1>1. SlotsTyped /\ StoreTyped /\ SlotsTrue /\ Serving!Collectable /\ RowsTrue
    BY ServingParts
<1>2. (SlotsTyped /\ SlotsTrue /\ Serving!Collectable)'
    BY <1>1, SlotsStay
<1>3. (StoreTyped /\ RowsTrue)'
    BY <1>1 DEF StoreTyped, RowsTrue
<1> QED
    BY <1>2, <1>3, OneRequest

LEMMA Goes ==
    ASSUME CountsTyped, NEW r \in Asks, NEW step \in Serving!Steps, Serving!Go(r, step)
    PROVE  \E q \in Requested : /\ req' = [req EXCEPT ![r] = q] /\ q.step = step
                                /\ q.key = req[r].key /\ q.pack = req[r].pack
<1> DEFINE q == [req[r] EXCEPT !.step = step, !.left = 0]
<1>1. req[r] \in Requested
    BY DEF CountsTyped
<1>2. q \in Requested /\ q.step = step /\ q.key = req[r].key /\ q.pack = req[r].pack
    BY <1>1 DEF Requested
<1>3. req' = [req EXCEPT ![r] = q]
    BY DEF Serving!Go
<1> HIDE DEF q
<1> QED
    BY <1>2, <1>3

LEMMA GoOnly ==
    ASSUME Serving!ServingInv, NEW r \in Asks, NEW step \in Serving!Steps \ {"rest", "watch", "sync", "commit"},
           Serving!Go(r, step), req[r].step # "rest",
           UNCHANGED <<inflight, open, held, slot, names, durable, sources, stored>>,
           places' = places + One(req[r].step \in Admits) - One(step \in Admits),
           step \in Serving!Uploading => req[r].step \in Serving!Uploading
    PROVE  Serving!ServingInv'
<1>1. CountsTyped /\ UploadsTrue
    BY ServingParts
<1>2. PICK q \in Requested : /\ req' = [req EXCEPT ![r] = q] /\ q.step = step
                             /\ q.key = req[r].key /\ q.pack = req[r].pack
    BY <1>1, Goes
<1>3. inflight' = inflight - One(req[r].step # "rest") + One(q.step # "rest")
    BY <1>1, <1>2 DEF CountsTyped, One
<1>4. q.step \in Serving!Uploading => q.key \in Keys /\ q.pack \in Packs
    BY <1>1, <1>2 DEF UploadsTrue
<1> QED
    BY <1>2, <1>3, <1>4, RequestOnly

LEMMA ArriveServed ==
    ASSUME Serving!ServingInv, NEW r \in Asks, Serving!Arrive(r)
    PROVE  Serving!ServingInv'
<1>1. /\ req[r] = Serving!Resting /\ slot[r] = Serving!NoSlot /\ inflight' = inflight + 1
      /\ UNCHANGED <<open, held, places, slot, names, durable, sources, stored>>
    BY DEF Serving!Arrive, Serving!store
<1>2. CountsTyped
    BY ServingParts
<1>3. req[r].step = "rest" /\ ~slot[r].held
    BY <1>1 DEF Serving!Resting, Serving!NoSlot
<1>4. PICK q \in Requested : /\ req' = [req EXCEPT ![r] = q] /\ q.step \in {"watch", "body"}
                             /\ q.step = "body" => q.key \in Keys /\ q.pack \in Packs
    <2>1. CASE Serving!Go(r, "watch")
        BY <1>2, <2>1, Goes DEF Serving!Steps
    <2>2. CASE \E k \in Keys, p \in Packs :
                  req' = [req EXCEPT ![r] = [step |-> "body", key |-> k, pack |-> p, left |-> BodyTicks]]
        <3>1. PICK k \in Keys, p \in Packs :
                req' = [req EXCEPT ![r] = [step |-> "body", key |-> k, pack |-> p, left |-> BodyTicks]]
            BY <2>2
        <3>2. PICK q : q = [step |-> "body", key |-> k, pack |-> p, left |-> BodyTicks]
            OBVIOUS
        <3>3. q \in Requested /\ q.step = "body" /\ q.key = k /\ q.pack = p
            BY <3>2, ServingIsBounded DEF Requested, Serving!Steps, Serving!Uploading
        <3> QED
            BY <3>1, <3>2, <3>3
    <2> QED
        BY <2>1, <2>2, Zenon DEF Serving!Arrive
<1>5. /\ inflight' = inflight - One(req[r].step # "rest") + One(q.step # "rest")
      /\ places' = places + One(req[r].step \in Admits) - One(q.step \in Admits)
    BY <1>1, <1>2, <1>3, <1>4 DEF CountsTyped, One, Admits
<1> QED
    BY <1>1, <1>3, <1>4, <1>5, RequestOnly DEF Serving!Uploading

LEMMA LeaveServed ==
    ASSUME Serving!ServingInv, NEW r \in Asks, Serving!Leave(r)
    PROVE  Serving!ServingInv'
<1>1. /\ req[r].step = "leave" /\ inflight' = inflight - 1 /\ req' = [req EXCEPT ![r] = Serving!Resting]
      /\ UNCHANGED <<open, held, places, slot, names, durable, sources, stored>>
    BY DEF Serving!Leave, Serving!store, Serving!At
<1>2. CountsTyped
    BY ServingParts
<1>3. PICK q : q = Serving!Resting
    OBVIOUS
<1>4. q \in Requested /\ q.step = "rest"
    BY <1>3 DEF Requested, Serving!Resting, Serving!Nothing, Serving!Steps
<1>5. /\ inflight' = inflight - One(req[r].step # "rest") + One(q.step # "rest")
      /\ places' = places + One(req[r].step \in Admits) - One(q.step \in Admits)
    BY <1>1, <1>2, <1>4 DEF CountsTyped, One, Admits
<1> QED
    BY <1>1, <1>3, <1>4, <1>5, RequestOnly DEF Serving!Uploading

-----------------------------------------------------------------------------
(* A tail.                                                                 *)

\* A step of a request that moves its slot, and leaves the store and the admissions.
LEMMA TailStep ==
    ASSUME Serving!ServingInv, (SlotsTyped /\ SlotsTrue /\ Serving!Collectable)', NEW r \in Asks,
           NEW step \in {"respond", "tail", "close", "leave"}, Serving!Go(r, step),
           req[r].step \in {"watch", "respond", "tail", "close"},
           \A t \in Asks : t # r => slot'[t] = slot[t],
           UNCHANGED <<inflight, places, names, durable, sources, stored>>
    PROVE  Serving!ServingInv'
<1>1. CountsTyped /\ StoreTyped /\ RowsTrue
    BY ServingParts
<1>2. PICK q \in Requested : req' = [req EXCEPT ![r] = q] /\ q.step = step
    BY <1>1, Goes DEF Serving!Steps
<1>3. /\ inflight' = inflight - One(req[r].step # "rest") + One(q.step # "rest")
      /\ places' = places + One(req[r].step \in Admits) - One(q.step \in Admits)
    BY <1>1, <1>2 DEF CountsTyped, One, Admits
<1>4. (StoreTyped /\ RowsTrue)'
    BY <1>1 DEF StoreTyped, RowsTrue
<1>5. q.step \notin Serving!Uploading /\ q.step \notin {"watch", "sync", "commit"}
    BY <1>2 DEF Serving!Uploading
<1> QED
    BY <1>2, <1>3, <1>4, <1>5, OneRequest

LEMMA TakeSlotServed ==
    ASSUME Serving!ServingInv, NEW r \in Asks, Serving!TakeSlot(r)
    PROVE  Serving!ServingInv'
<1>1. req[r].step = "watch" /\ UNCHANGED <<inflight, places, names, durable, sources, stored>>
    BY DEF Serving!TakeSlot, Serving!store, Serving!At
<1>2. SlotsTyped /\ SlotsTrue /\ Serving!Collectable /\ Serving!Fresh
    BY ServingParts
<1>3. CASE open < StreamLimit /\ held[Watcher[r]] < WatcherLimit
    <2>1. PICK z : z = [held |-> TRUE, by |-> {"response", "generator", "collector"}]
        OBVIOUS
    <2>2. /\ open' = open + 1 /\ held' = [held EXCEPT ![Watcher[r]] = @ + 1]
          /\ slot' = [slot EXCEPT ![r] = z] /\ Serving!Go(r, "respond")
        BY <1>3, <2>1 DEF Serving!TakeSlot
    <2>3. z \in Slotted /\ z.held /\ "collector" \in z.by /\ ~slot[r].held
        BY <1>1, <1>2, <2>1 DEF Slotted, Serving!Fresh, Serving!At
    <2>4. One(slot[r].held) = 0 /\ One(z.held) = 1
        BY <2>3 DEF One
    <2>5. open \in Int /\ held \in [Serving!Watchers -> Int] /\ Watcher[r] \in Serving!Watchers
        BY <1>2 DEF SlotsTyped, Serving!Watchers
    <2>6. /\ open' = open - One(slot[r].held) + One(z.held)
          /\ held' = [held EXCEPT ![Watcher[r]] = @ - One(slot[r].held) + One(z.held)]
        <3>1. held[Watcher[r]] - One(slot[r].held) + One(z.held) = held[Watcher[r]] + 1
            BY <2>4, <2>5
        <3>2. open' = open - One(slot[r].held) + One(z.held)
            BY <2>2, <2>4, <2>5
        <3>3. held' = [held EXCEPT ![Watcher[r]] = held[Watcher[r]] + 1]
            BY <2>2
        <3> QED
            BY <3>1, <3>2, <3>3
    <2>7. (SlotsTyped /\ SlotsTrue /\ Serving!Collectable)'
        BY <1>2, <1>3, <2>2, <2>3, <2>6, SlotsMove
    <2>8. \A t \in Asks : t # r => slot'[t] = slot[t]
        BY <1>2, <2>2 DEF SlotsTyped
    <2> QED
        BY <1>1, <2>2, <2>7, <2>8, TailStep
<1>4. CASE ~(open < StreamLimit /\ held[Watcher[r]] < WatcherLimit)
    <2>1. UNCHANGED <<open, held, slot>> /\ Serving!Go(r, "leave")
        BY <1>4, Zenon DEF Serving!TakeSlot
    <2>2. (SlotsTyped /\ SlotsTrue /\ Serving!Collectable)'
        BY <1>2, <2>1, SlotsStay
    <2> QED
        BY <1>1, <2>1, <2>2, TailStep
<1> QED
    BY <1>3, <1>4

\* Whoever lets a slot go: it is given back if it was held, and once.
LEMMA Released ==
    ASSUME SlotsTyped, SlotsTrue, Serving!Collectable, NEW r \in Asks, NEW who, Serving!Release(r, who)
    PROVE  /\ (SlotsTyped /\ SlotsTrue /\ Serving!Collectable)' /\ ~slot'[r].held
           /\ \A t \in Asks : t # r => slot'[t] = slot[t]
<1>1. PICK z : z = [held |-> FALSE, by |-> slot[r].by \ who]
    OBVIOUS
<1>2. /\ open \in Int /\ held \in [Serving!Watchers -> Int] /\ slot \in [Asks -> Slotted]
      /\ slot[r] \in Slotted /\ Watcher[r] \in Serving!Watchers
    BY DEF SlotsTyped, Serving!Watchers
<1>3. z \in Slotted /\ ~z.held /\ slot[r].held \in BOOLEAN
    BY <1>1, <1>2 DEF Slotted
<1>4. slot' = [slot EXCEPT ![r] = z]
    BY <1>1 DEF Serving!Release
<1>5. IF slot[r].held THEN open' = open - 1 /\ held' = [held EXCEPT ![Watcher[r]] = @ - 1]
      ELSE UNCHANGED <<open, held>>
    BY DEF Serving!Release, Serving!ReleaseHeld
<1>6. open' = open - One(slot[r].held) + One(z.held)
    BY <1>2, <1>3, <1>5 DEF One
<1>7. held' = [held EXCEPT ![Watcher[r]] = @ - One(slot[r].held) + One(z.held)]
    <2>1. CASE slot[r].held
        BY <1>2, <1>3, <1>5, <2>1 DEF One
    <2>2. CASE ~slot[r].held
        <3>1. held[Watcher[r]] - One(slot[r].held) + One(z.held) = held[Watcher[r]] /\ held' = held
            BY <1>2, <1>3, <1>5, <2>2 DEF One
        <3> QED
            BY <1>2, <3>1
    <2> QED
        BY <2>1, <2>2
<1>8. (SlotsTyped /\ SlotsTrue /\ Serving!Collectable)'
    BY <1>3, <1>4, <1>6, <1>7, SlotsMove
<1> QED
    BY <1>2, <1>3, <1>4, <1>8

\* A slot that may be released by fewer, its collector still one of them.
LEMMA Narrower ==
    ASSUME SlotsTyped, SlotsTrue, Serving!Collectable, NEW r \in Asks,
           NEW by \in SUBSET {"response", "generator", "collector"},
           slot' = [slot EXCEPT ![r].by = by], UNCHANGED <<open, held>>, slot[r].held => "collector" \in by
    PROVE  (SlotsTyped /\ SlotsTrue /\ Serving!Collectable)' /\ \A t \in Asks : t # r => slot'[t] = slot[t]
<1>1. slot \in [Asks -> Slotted]
    BY DEF SlotsTyped
<1>2. slot' \in [Asks -> Slotted]
    BY <1>1 DEF Slotted
<1>3. \A t \in Asks : slot'[t].held = slot[t].held /\ (t # r => slot'[t] = slot[t])
    BY <1>1 DEF Slotted
<1>4. slot'[r].by = by
    BY <1>1 DEF Slotted
<1>5. Held' = Held /\ \A a \in Serving!Watchers : HeldBy(a)' = HeldBy(a)
    BY <1>3 DEF Held, HeldBy
<1>6. SlotsTrue'
    BY <1>5 DEF SlotsTrue, Serving!Watchers
<1>7. Serving!Collectable'
    BY <1>3, <1>4 DEF Serving!Collectable
<1> QED
    BY <1>2, <1>3, <1>6, <1>7 DEF SlotsTyped, Serving!Watchers

LEMMA TailServed ==
    ASSUME Serving!ServingInv, NEW r \in Asks,
           Serving!Unsent(r) \/ Serving!Send(r) \/ Serving!EndTail(r) \/ Serving!CloseTail(r)
    PROVE  Serving!ServingInv'
<1>1. SlotsTyped /\ SlotsTrue /\ Serving!Collectable
    BY ServingParts
<1>2. slot[r] \in Slotted
    BY <1>1 DEF SlotsTyped
<1>3. CASE Serving!Unsent(r)
    <2>1. /\ req[r].step = "respond" /\ Serving!Go(r, "leave") /\ slot' = [slot EXCEPT ![r].by = {"collector"}]
          /\ UNCHANGED <<inflight, open, held, places, names, durable, sources, stored>>
        BY <1>3 DEF Serving!Unsent, Serving!At, Serving!counts, Serving!store
    <2>2. (SlotsTyped /\ SlotsTrue /\ Serving!Collectable)' /\ \A t \in Asks : t # r => slot'[t] = slot[t]
        BY <1>1, <2>1, Narrower
    <2> QED
        BY <2>1, <2>2, TailStep
<1>4. CASE Serving!Send(r)
    <2>1. /\ req[r].step = "respond" /\ Serving!Go(r, "tail")
          /\ UNCHANGED <<inflight, open, held, places, slot, names, durable, sources, stored>>
        BY <1>4 DEF Serving!Send, Serving!At, Serving!counts, Serving!store
    <2>2. (SlotsTyped /\ SlotsTrue /\ Serving!Collectable)'
        BY <1>1, <2>1, SlotsStay
    <2> QED
        BY <2>1, <2>2, TailStep
<1>5. CASE Serving!EndTail(r)
    <2>1. /\ req[r].step = "tail" /\ Serving!Go(r, "close") /\ Serving!Release(r, {"response"})
          /\ UNCHANGED <<inflight, places, names, durable, sources, stored>>
        BY <1>5 DEF Serving!EndTail, Serving!At, Serving!store
    <2>2. (SlotsTyped /\ SlotsTrue /\ Serving!Collectable)' /\ \A t \in Asks : t # r => slot'[t] = slot[t]
        BY <1>1, <2>1, Released
    <2> QED
        BY <2>1, <2>2, TailStep
<1>6. CASE Serving!CloseTail(r)
    <2>1. /\ req[r].step = "close" /\ Serving!Go(r, "leave")
          /\ UNCHANGED <<inflight, places, names, durable, sources, stored>>
        BY <1>6 DEF Serving!CloseTail, Serving!At, Serving!store
    <2>2. CASE Serving!Release(r, {"generator"})
        <3>1. (SlotsTyped /\ SlotsTrue /\ Serving!Collectable)' /\ \A t \in Asks : t # r => slot'[t] = slot[t]
            BY <1>1, <2>2, Released
        <3> QED
            BY <2>1, <3>1, TailStep
    <2>3. CASE UNCHANGED <<open, held>> /\ slot' = [slot EXCEPT ![r].by = @ \ {"generator"}]
        <3>1. PICK by : by = slot[r].by \ {"generator"}
            OBVIOUS
        <3>2. by \in SUBSET {"response", "generator", "collector"} /\ (slot[r].held => "collector" \in by)
            BY <1>1, <1>2, <3>1 DEF Slotted, Serving!Collectable
        <3>3. slot' = [slot EXCEPT ![r].by = by] /\ UNCHANGED <<open, held>>
            BY <2>3, <3>1
        <3>4. (SlotsTyped /\ SlotsTrue /\ Serving!Collectable)' /\ \A t \in Asks : t # r => slot'[t] = slot[t]
            BY <1>1, <3>2, <3>3, Narrower
        <3> QED
            BY <2>1, <3>4, TailStep
    <2> QED
        BY <1>6, <2>2, <2>3, Zenon DEF Serving!CloseTail
<1> QED
    BY <1>3, <1>4, <1>5, <1>6

LEMMA CollectServed ==
    ASSUME Serving!ServingInv, NEW r \in Asks, Serving!Collect(r)
    PROVE  Serving!ServingInv'
<1>1. /\ Serving!Release(r, {"collector"})
      /\ UNCHANGED <<inflight, places, req, names, durable, sources, stored>>
    BY DEF Serving!Collect, Serving!store
<1>2. /\ CountsTyped /\ SlotsTyped /\ StoreTyped /\ CountsTrue /\ SlotsTrue
      /\ Serving!Collectable /\ Serving!Fresh /\ UploadsTrue /\ RowsTrue
    BY ServingParts
<1>3. /\ (SlotsTyped /\ SlotsTrue /\ Serving!Collectable)' /\ ~slot'[r].held
      /\ \A t \in Asks : t # r => slot'[t] = slot[t]
    BY <1>1, <1>2, Released
<1>4. Serving!Fresh'
    BY <1>1, <1>2, <1>3 DEF Serving!Fresh, Serving!At
<1>5. (CountsTyped /\ CountsTrue /\ StoreTyped /\ UploadsTrue /\ RowsTrue)'
    BY <1>1, <1>2 DEF CountsTyped, CountsTrue, Busy, Admitted, StoreTyped, UploadsTrue, RowsTrue
<1> QED
    BY <1>3, <1>4, <1>5, ServingPartsNext

-----------------------------------------------------------------------------
(* An admission.                                                           *)

\* What neither gives nor takes an admission's place.
LEMMA UploadServed ==
    ASSUME Serving!ServingInv, NEW r \in Asks,
           \/ Serving!Stalled(r) \/ Serving!GiveUp(r) \/ Serving!Peek(r) \/ Serving!Prepare(r)
           \/ Serving!Acquire(r) \/ Serving!Answer(r)
    PROVE  Serving!ServingInv'
<1>1. UNCHANGED <<inflight, open, held, slot, names, durable, sources, stored>>
    BY DEF Serving!Stalled, Serving!GiveUp, Serving!Peek, Serving!Prepare, Serving!Acquire, Serving!Answer,
        Serving!counts, Serving!store
<1>2. places \in Int
    BY ServingParts DEF CountsTyped
<1>3. CASE Serving!Stalled(r) \/ Serving!GiveUp(r)
    <2>1. req[r].step \in {"body", "wait"} /\ Serving!Go(r, "leave") /\ places' = places
        BY <1>3 DEF Serving!Stalled, Serving!GiveUp, Serving!At, Serving!counts
    <2>2. places' = places + One(req[r].step \in Admits) - One("leave" \in Admits)
        BY <1>2, <2>1 DEF One, Admits
    <2> QED
        BY <1>1, <2>1, <2>2, GoOnly DEF Serving!Steps, Serving!Uploading
<1>4. CASE Serving!Peek(r) \/ Serving!Prepare(r)
    <2>1. PICK step \in {"prepare", "put", "answer"} :
            req[r].step \in {"read", "prepare"} /\ Serving!Go(r, step) /\ places' = places
        <3>1. CASE Serving!Peek(r)
            BY <3>1 DEF Serving!Peek, Serving!At, Serving!counts
        <3>2. CASE Serving!Prepare(r)
            BY <3>2 DEF Serving!Prepare, Serving!At, Serving!counts
        <3> QED
            BY <1>4, <3>1, <3>2
    <2>2. places' = places + One(req[r].step \in Admits) - One(step \in Admits)
        BY <1>2, <2>1 DEF One, Admits
    <2> QED
        BY <1>1, <2>1, <2>2, GoOnly DEF Serving!Steps, Serving!Uploading
<1>5. CASE Serving!Acquire(r)
    <2>1. req[r].step = "wait" /\ Serving!Go(r, "read") /\ places' = places - 1
        BY <1>5 DEF Serving!Acquire, Serving!At
    <2>2. places' = places + One(req[r].step \in Admits) - One("read" \in Admits)
        BY <1>2, <2>1 DEF One, Admits
    <2> QED
        BY <1>1, <2>1, <2>2, GoOnly DEF Serving!Steps, Serving!Uploading
<1>6. CASE Serving!Answer(r)
    <2>1. req[r].step = "answer" /\ Serving!Go(r, "leave") /\ places' = places + 1
        BY <1>6 DEF Serving!Answer, Serving!At
    <2>2. places' = places + One(req[r].step \in Admits) - One("leave" \in Admits)
        BY <1>2, <2>1 DEF One, Admits
    <2> QED
        BY <1>1, <2>1, <2>2, GoOnly DEF Serving!Steps, Serving!Uploading
<1> QED
    BY <1>3, <1>4, <1>5, <1>6

LEMMA BodyServed ==
    ASSUME Serving!ServingInv, NEW r \in Asks, Serving!Body(r)
    PROVE  Serving!ServingInv'
<1>1. /\ req[r].step = "body"
      /\ UNCHANGED <<inflight, open, held, places, slot, names, durable, sources, stored>>
    BY DEF Serving!Body, Serving!At, Serving!counts, Serving!store
<1>2. CountsTyped /\ UploadsTrue
    BY ServingParts
<1>3. inflight \in Int /\ places \in Int /\ req[r] \in Requested
    BY <1>2 DEF CountsTyped
<1>4. CASE Serving!Go(r, "leave")
    <2>1. places' = places + One(req[r].step \in Admits) - One("leave" \in Admits)
        BY <1>1, <1>3 DEF One, Admits
    <2> QED
        BY <1>1, <1>4, <2>1, GoOnly DEF Serving!Steps, Serving!Uploading
<1>5. CASE req' = [req EXCEPT ![r].step = "wait", ![r].left = SlotTicks]
    <2>1. PICK q : q = [req[r] EXCEPT !.step = "wait", !.left = SlotTicks]
        OBVIOUS
    <2>2. q \in Requested /\ q.step = "wait" /\ q.key = req[r].key /\ q.pack = req[r].pack
        BY <1>3, <2>1, ServingIsBounded DEF Requested, Serving!Steps, Serving!Uploading
    <2>3. req' = [req EXCEPT ![r] = q]
        BY <1>5, <2>1
    <2>4. /\ inflight' = inflight - One(req[r].step # "rest") + One(q.step # "rest")
          /\ places' = places + One(req[r].step \in Admits) - One(q.step \in Admits)
        BY <1>1, <1>3, <2>2 DEF One, Admits
    <2>5. q.key \in Keys /\ q.pack \in Packs
        BY <1>1, <1>2, <2>2 DEF UploadsTrue, Serving!Uploading
    <2> QED
        BY <1>1, <2>2, <2>3, <2>4, <2>5, RequestOnly
<1> QED
    BY <1>4, <1>5 DEF Serving!Body

\* A step that writes to the store.
LEMMA StoreStep ==
    ASSUME Serving!ServingInv, (StoreTyped /\ RowsTrue)', NEW r \in Asks,
           NEW step \in {"sync", "commit", "answer"}, Serving!Go(r, step),
           req[r].step \in {"put", "sync", "commit"},
           UNCHANGED <<inflight, open, held, places, slot>>,
           names \subseteq names', durable \subseteq durable',
           step = "sync" => req[r].pack \in names', step = "commit" => req[r].pack \in durable'
    PROVE  Serving!ServingInv'
<1>1. CountsTyped /\ UploadsTrue /\ SlotsTyped /\ SlotsTrue /\ Serving!Collectable
    BY ServingParts
<1>2. PICK q \in Requested : /\ req' = [req EXCEPT ![r] = q] /\ q.step = step
                             /\ q.key = req[r].key /\ q.pack = req[r].pack
    BY <1>1, Goes DEF Serving!Steps, Serving!Uploading
<1>3. /\ inflight' = inflight - One(req[r].step # "rest") + One(q.step # "rest")
      /\ places' = places + One(req[r].step \in Admits) - One(q.step \in Admits)
    BY <1>1, <1>2 DEF CountsTyped, One, Admits
<1>4. q.key \in Keys /\ q.pack \in Packs
    BY <1>1, <1>2 DEF UploadsTrue, Serving!Uploading
<1>5. (SlotsTyped /\ SlotsTrue /\ Serving!Collectable)'
    BY <1>1, SlotsStay
<1> QED
    BY <1>2, <1>3, <1>4, <1>5, OneRequest

LEMMA PutServed ==
    ASSUME Serving!ServingInv, NEW r \in Asks, Serving!Put(r)
    PROVE  Serving!ServingInv'
<1>1. /\ req[r].step = "put"
      /\ UNCHANGED <<inflight, open, held, places, slot, durable, sources, stored>>
    BY DEF Serving!Put, Serving!At, Serving!counts
<1>2. StoreTyped /\ RowsTrue /\ UploadsTrue
    BY ServingParts
<1>3. CASE names' = names \cup {req[r].pack} /\ Serving!Go(r, "sync")
    <2>1. req[r].pack \in Packs
        BY <1>1, <1>2 DEF UploadsTrue, Serving!Uploading
    <2>2. (StoreTyped /\ RowsTrue)'
        BY <1>1, <1>2, <1>3, <2>1 DEF StoreTyped, RowsTrue
    <2> QED
        BY <1>1, <1>3, <2>2, StoreStep
<1>4. CASE UNCHANGED names /\ Serving!Go(r, "answer")
    <2>1. (StoreTyped /\ RowsTrue)'
        BY <1>1, <1>2, <1>4 DEF StoreTyped, RowsTrue
    <2> QED
        BY <1>1, <1>4, <2>1, StoreStep
<1> QED
    BY <1>3, <1>4, Zenon DEF Serving!Put

LEMMA SyncServed ==
    ASSUME Serving!ServingInv, NEW r \in Asks, Serving!Sync(r)
    PROVE  Serving!ServingInv'
<1>1. /\ req[r].step = "sync" /\ Serving!Go(r, "commit") /\ durable' = durable \cup ({req[r].pack} \cap names)
      /\ UNCHANGED <<inflight, open, held, places, slot, names, sources, stored>>
    BY DEF Serving!Sync, Serving!At, Serving!counts
<1>2. StoreTyped /\ RowsTrue /\ UploadsTrue
    BY ServingParts
<1>3. req[r].pack \in names
    BY <1>1, <1>2 DEF UploadsTrue
<1>4. durable' = durable \cup {req[r].pack}
    BY <1>1, <1>3
<1>5. (StoreTyped /\ RowsTrue)'
    BY <1>1, <1>2, <1>3, <1>4 DEF StoreTyped, RowsTrue
<1> QED
    BY <1>1, <1>4, <1>5, StoreStep

LEMMA CommitServed ==
    ASSUME Serving!ServingInv, NEW r \in Asks, Serving!Commit(r)
    PROVE  Serving!ServingInv'
<1>1. /\ req[r].step = "commit" /\ Serving!Go(r, "answer")
      /\ UNCHANGED <<inflight, open, held, places, slot, names, durable>>
    BY DEF Serving!Commit, Serving!At, Serving!counts
<1>2. StoreTyped /\ RowsTrue /\ UploadsTrue
    BY ServingParts
<1>3. req[r].key \in Keys /\ req[r].pack \in Packs /\ req[r].pack \in durable
    BY <1>1, <1>2 DEF UploadsTrue, Serving!Uploading
<1>4. CASE UNCHANGED <<sources, stored>>
    <2>1. (StoreTyped /\ RowsTrue)'
        BY <1>1, <1>2, <1>4 DEF StoreTyped, RowsTrue
    <2> QED
        BY <1>1, <2>1, StoreStep
<1>5. CASE /\ stored[req[r].key] = "none"
           /\ sources' = Append(sources, [key |-> req[r].key, pack |-> req[r].pack])
           /\ stored' = [stored EXCEPT ![req[r].key] = req[r].pack]
    <2>1. PICK row : row = [key |-> req[r].key, pack |-> req[r].pack]
        OBVIOUS
    <2>2. row \in [key : Keys, pack : Packs] /\ row.key = req[r].key /\ row.pack = req[r].pack
        BY <1>3, <2>1
    <2>3. sources \in Seq([key : Keys, pack : Packs]) /\ stored \in [Keys -> Packs \cup {"none"}]
        BY <1>2 DEF StoreTyped
    <2>4. sources' = Append(sources, row)
        BY <1>5, <2>1
    <2>5. /\ sources' \in Seq([key : Keys, pack : Packs]) /\ Len(sources') = Len(sources) + 1
          /\ \A i \in 1..Len(sources) : sources'[i] = sources[i]
          /\ sources'[Len(sources) + 1] = row
        BY <2>2, <2>3, <2>4, Appended
    <2>6. /\ Len(sources) \in Nat /\ DOMAIN sources = 1..Len(sources)
          /\ DOMAIN sources' = 1..(Len(sources) + 1)
        BY <2>3, <2>5
    <2>7. ASSUME NEW i \in DOMAIN sources'
          PROVE  (i \in DOMAIN sources /\ sources'[i] = sources[i]) \/ (i = Len(sources) + 1 /\ sources'[i] = row)
        BY <2>5, <2>6, <2>7
    <2>8. stored' \in [Keys -> Packs \cup {"none"}]
        BY <1>3, <1>5, <2>3
    <2>9. stored'[req[r].key] # "none" /\ \A k \in Keys : k # req[r].key => stored'[k] = stored[k]
        BY <1>3, <1>5, <2>3, ServingIsBounded
    <2>10. StoreTyped'
        BY <1>1, <1>2, <2>5, <2>8 DEF StoreTyped
    <2>11. \A i \in DOMAIN sources : /\ sources[i].key \in Keys /\ sources[i].key # req[r].key
                                     /\ sources[i].pack \in durable
        <3> SUFFICES ASSUME NEW i \in DOMAIN sources
                     PROVE  /\ sources[i].key \in Keys /\ sources[i].key # req[r].key
                            /\ sources[i].pack \in durable
            OBVIOUS
        <3>1. sources[i] \in [key : Keys, pack : Packs]
            BY <2>3, <2>6, ElementOfSeq
        <3>2. sources[i].pack \in durable /\ stored[sources[i].key] # "none"
            BY <1>2 DEF RowsTrue
        <3> QED
            BY <1>5, <3>1, <3>2
    <2>12. \A i \in DOMAIN sources' : sources'[i].pack \in durable' /\ stored'[sources'[i].key] # "none"
        <3> TAKE i \in DOMAIN sources'
        <3>1. CASE i \in DOMAIN sources /\ sources'[i] = sources[i]
            BY <1>1, <1>2, <2>9, <2>11, <3>1 DEF RowsTrue
        <3>2. CASE i = Len(sources) + 1 /\ sources'[i] = row
            BY <1>1, <1>3, <2>2, <2>9, <3>2
        <3> QED
            BY <2>7, <3>1, <3>2
    <2>13. \A i, j \in DOMAIN sources' : sources'[i].key = sources'[j].key => i = j
        <3> SUFFICES ASSUME NEW i \in DOMAIN sources', NEW j \in DOMAIN sources', sources'[i].key = sources'[j].key
                     PROVE  i = j
            OBVIOUS
        <3>1. CASE i \in DOMAIN sources /\ sources'[i] = sources[i] /\ j \in DOMAIN sources /\ sources'[j] = sources[j]
            BY <1>2, <3>1, Zenon DEF RowsTrue
        <3>2. CASE i = Len(sources) + 1 /\ sources'[i] = row
            BY <2>2, <2>7, <2>11, <3>2, Zenon
        <3>3. CASE j = Len(sources) + 1 /\ sources'[j] = row
            BY <2>2, <2>7, <2>11, <3>3, Zenon
        <3> QED
            BY <2>7, <3>1, <3>2, <3>3, Zenon
    <2>14. RowsTrue'
        BY <2>12, <2>13 DEF RowsTrue
    <2> QED
        BY <1>1, <2>10, <2>14, StoreStep
<1> QED
    BY <1>4, <1>5, Zenon DEF Serving!Commit, Serving!Nothing

-----------------------------------------------------------------------------
LEMMA CrashServed == ASSUME Serving!ServingInv, Serving!Crash PROVE Serving!ServingInv'
<1>1. /\ inflight' = 0 /\ open' = 0 /\ held' = [a \in Serving!Watchers |-> 0] /\ places' = AdmissionSlots
      /\ req' = [r \in Asks |-> Serving!Resting] /\ slot' = [r \in Asks |-> Serving!NoSlot]
      /\ names' \in {names, durable} /\ UNCHANGED <<durable, sources, stored>>
    BY DEF Serving!Crash
<1>2. StoreTyped /\ RowsTrue
    BY ServingParts
<1>3. Serving!Resting \in Requested /\ Serving!Resting.step = "rest"
    BY DEF Requested, Serving!Resting, Serving!Nothing, Serving!Steps
<1>4. Serving!NoSlot \in Slotted /\ ~Serving!NoSlot.held
    BY DEF Slotted, Serving!NoSlot
<1>5. (\A r \in Asks : req'[r] = Serving!Resting) /\ (\A r \in Asks : slot'[r] = Serving!NoSlot)
    BY <1>1
<1>6. Busy' = {} /\ Admitted' = {} /\ Held' = {} /\ \A a \in Serving!Watchers : HeldBy(a)' = {}
    BY <1>3, <1>4, <1>5 DEF Busy, Admitted, Admits, Held, HeldBy
<1>7. (CountsTyped /\ SlotsTyped)'
    <2>1. req' \in [Asks -> Requested] /\ slot' \in [Asks -> Slotted]
        BY <1>1, <1>3, <1>4
    <2>2. held' \in [Serving!Watchers -> Int] /\ inflight' \in Int /\ places' \in Int /\ open' \in Int
        BY <1>1, ServingIsBounded
    <2> QED
        BY <2>1, <2>2 DEF CountsTyped, SlotsTyped, Serving!Watchers
<1>8. CountsTrue'
    BY <1>1, <1>6, FS_EmptySet, ServingIsBounded DEF CountsTrue
<1>9. SlotsTrue'
    <2>1. open' = Cardinality(Held') /\ open' <= StreamLimit
        BY <1>1, <1>6, FS_EmptySet, ServingIsBounded
    <2>2. ASSUME NEW a \in Serving!Watchers PROVE held'[a] = Cardinality(HeldBy(a)') /\ held'[a] <= WatcherLimit
        BY <1>1, <1>6, FS_EmptySet, ServingIsBounded
    <2> QED
        BY <2>1, <2>2 DEF SlotsTrue, Serving!Watchers
<1>10. Serving!Collectable' /\ Serving!Fresh' /\ UploadsTrue'
    BY <1>3, <1>4, <1>5 DEF Serving!Collectable, Serving!Fresh, Serving!At, UploadsTrue, Serving!Uploading
<1>11. (StoreTyped /\ RowsTrue)'
    BY <1>1, <1>2 DEF StoreTyped, RowsTrue
<1> QED
    BY <1>7, <1>8, <1>9, <1>10, <1>11, ServingPartsNext

LEMMA TickServed == ASSUME Serving!ServingInv, Serving!Tick PROVE Serving!ServingInv'
<1>1. /\ req' = [r \in Asks |-> IF Serving!Timed(r) THEN [req[r] EXCEPT !.left = @ - 1] ELSE req[r]]
      /\ UNCHANGED <<inflight, open, held, places, slot, names, durable, sources, stored>>
    BY DEF Serving!Tick, Serving!counts, Serving!store
<1>2. /\ CountsTyped /\ SlotsTyped /\ StoreTyped /\ CountsTrue /\ SlotsTrue
      /\ Serving!Collectable /\ Serving!Fresh /\ UploadsTrue /\ RowsTrue
    BY ServingParts
<1>3. ASSUME NEW r \in Asks
      PROVE  /\ req'[r] \in Requested /\ req'[r].step = req[r].step
             /\ req'[r].key = req[r].key /\ req'[r].pack = req[r].pack
    <2>1. req[r] \in Requested
        BY <1>2 DEF CountsTyped
    <2>2. CASE Serving!Timed(r)
        <3>1. req[r].left - 1 \in Nat
            BY <2>1, <2>2 DEF Serving!Timed, Requested
        <3> QED
            BY <1>1, <2>1, <2>2, <3>1 DEF Requested
    <2>3. CASE ~Serving!Timed(r)
        BY <1>1, <2>1, <2>3
    <2> QED
        BY <2>2, <2>3
<1>4. req' \in [Asks -> Requested]
    BY <1>1, <1>3
<1>5. Busy' = Busy /\ Admitted' = Admitted
    BY <1>3 DEF Busy, Admitted
<1>6. (CountsTyped /\ CountsTrue)'
    BY <1>1, <1>2, <1>4, <1>5 DEF CountsTyped, CountsTrue
<1>7. (SlotsTyped /\ SlotsTrue /\ Serving!Collectable)'
    BY <1>1, <1>2, SlotsStay
<1>8. Serving!Fresh' /\ UploadsTrue'
    BY <1>1, <1>2, <1>3 DEF Serving!Fresh, Serving!At, UploadsTrue
<1>9. (StoreTyped /\ RowsTrue)'
    BY <1>1, <1>2 DEF StoreTyped, RowsTrue
<1> QED
    BY <1>6, <1>7, <1>8, <1>9, ServingPartsNext

LEMMA InitServed == Serving!Init => Serving!ServingInv
<1> SUFFICES ASSUME Serving!Init PROVE Serving!ServingInv
    OBVIOUS
<1>1. /\ inflight = 0 /\ open = 0 /\ held = [a \in Serving!Watchers |-> 0] /\ places = AdmissionSlots
      /\ req = [r \in Asks |-> Serving!Resting] /\ slot = [r \in Asks |-> Serving!NoSlot]
      /\ names = {} /\ durable = {} /\ sources = <<>> /\ stored = [k \in Keys |-> "none"]
    BY DEF Serving!Init, Serving!Nothing
<1>2. Serving!Resting \in Requested /\ Serving!Resting.step = "rest"
    BY DEF Requested, Serving!Resting, Serving!Nothing, Serving!Steps
<1>3. Serving!NoSlot \in Slotted /\ ~Serving!NoSlot.held
    BY DEF Slotted, Serving!NoSlot
<1>4. (\A r \in Asks : req[r] = Serving!Resting) /\ (\A r \in Asks : slot[r] = Serving!NoSlot)
    BY <1>1
<1>5. Busy = {} /\ Admitted = {} /\ Held = {} /\ \A a \in Serving!Watchers : HeldBy(a) = {}
    BY <1>2, <1>3, <1>4 DEF Busy, Admitted, Admits, Held, HeldBy
<1>6. CountsTyped /\ SlotsTyped
    <2>1. req \in [Asks -> Requested] /\ slot \in [Asks -> Slotted]
        BY <1>1, <1>2, <1>3
    <2>2. held \in [Serving!Watchers -> Int] /\ inflight \in Int /\ places \in Int /\ open \in Int
        BY <1>1, ServingIsBounded
    <2> QED
        BY <2>1, <2>2 DEF CountsTyped, SlotsTyped
<1>7. CountsTrue
    BY <1>1, <1>5, FS_EmptySet, ServingIsBounded DEF CountsTrue
<1>8. SlotsTrue
    <2>1. open = Cardinality(Held) /\ open <= StreamLimit
        BY <1>1, <1>5, FS_EmptySet, ServingIsBounded
    <2>2. ASSUME NEW a \in Serving!Watchers PROVE held[a] = Cardinality(HeldBy(a)) /\ held[a] <= WatcherLimit
        <3>1. held[a] = 0 /\ HeldBy(a) = {}
            BY <1>1, <1>5
        <3>2. Cardinality(HeldBy(a)) = 0
            BY <3>1, FS_EmptySet
        <3>3. WatcherLimit \in Nat
            BY ServingIsBounded
        <3> QED
            BY <3>1, <3>2, <3>3
    <2> QED
        BY <2>1, <2>2 DEF SlotsTrue
<1>9. Serving!Collectable /\ Serving!Fresh /\ UploadsTrue
    BY <1>2, <1>3, <1>4 DEF Serving!Collectable, Serving!Fresh, Serving!At, UploadsTrue, Serving!Uploading
<1>10. StoreTyped
    BY <1>1, EmptySeq DEF StoreTyped
<1>11. RowsTrue
    <2>1. DOMAIN sources = {}
        BY <1>1
    <2> QED
        BY <2>1 DEF RowsTrue
<1> QED
    BY <1>6, <1>7, <1>8, <1>9, <1>10, <1>11, ServingParts

LEMMA ServingStill == ASSUME Serving!ServingInv, UNCHANGED Serving!vars PROVE Serving!ServingInv'
<1>1. UNCHANGED <<inflight, open, held, places, req, slot, names, durable, sources, stored>>
    BY DEF Serving!vars, Serving!counts, Serving!store
<1>2. /\ CountsTyped /\ SlotsTyped /\ StoreTyped /\ CountsTrue /\ SlotsTrue
      /\ Serving!Collectable /\ Serving!Fresh /\ UploadsTrue /\ RowsTrue
    BY ServingParts
<1>3. (SlotsTyped /\ SlotsTrue /\ Serving!Collectable)'
    BY <1>1, <1>2, SlotsStay
<1>4. (CountsTyped /\ CountsTrue /\ StoreTyped /\ UploadsTrue /\ RowsTrue)'
    BY <1>1, <1>2 DEF CountsTyped, CountsTrue, Busy, Admitted, StoreTyped, UploadsTrue, RowsTrue
<1>5. Serving!Fresh'
    BY <1>1, <1>2 DEF Serving!Fresh, Serving!At
<1> QED
    BY <1>3, <1>4, <1>5, ServingPartsNext

LEMMA NextServed ==
    ASSUME Serving!ServingInv, [Serving!Next]_(Serving!vars)
    PROVE  Serving!ServingInv'
<1>1. ASSUME NEW r \in Asks, Serving!Serve(r) PROVE Serving!ServingInv'
    <2>1. CASE Serving!Leave(r) \/ Serving!TakeSlot(r)
        BY <2>1, LeaveServed, TakeSlotServed
    <2>2. CASE Serving!Send(r) \/ Serving!EndTail(r) \/ Serving!CloseTail(r)
        BY <2>2, TailServed
    <2>3. CASE \/ Serving!Stalled(r) \/ Serving!Acquire(r) \/ Serving!GiveUp(r) \/ Serving!Peek(r)
               \/ Serving!Prepare(r) \/ Serving!Answer(r)
        BY <2>3, UploadServed
    <2>4. CASE Serving!Put(r) \/ Serving!Sync(r) \/ Serving!Commit(r)
        BY <2>4, PutServed, SyncServed, CommitServed
    <2> QED
        BY <1>1, <2>1, <2>2, <2>3, <2>4, Zenon DEF Serving!Serve
<1>2. ASSUME NEW r \in Asks, Serving!Arrive(r) \/ Serving!Unsent(r) \/ Serving!Body(r) \/ Serving!Collect(r)
      PROVE  Serving!ServingInv'
    BY <1>2, ArriveServed, TailServed, BodyServed, CollectServed
<1>3. CASE Serving!Tick \/ Serving!Crash
    BY <1>3, TickServed, CrashServed
<1>4. CASE UNCHANGED Serving!vars
    BY <1>4, ServingStill
<1> QED
    BY <1>1, <1>2, <1>3, <1>4, Zenon DEF Serving!Next

LEMMA ServingInvSound == Serving!ServingInv => Serving!ServingSound
<1> SUFFICES ASSUME Serving!ServingInv PROVE Serving!ServingSound
    OBVIOUS
<1>1. Serving!Counted /\ StoreTyped /\ Serving!Collectable /\ RowsTrue
    BY ServingParts, CountedIs
<1>2. Serving!SlotsReturn
    BY <1>1 DEF Serving!SlotsReturn, Serving!Collectable, Serving!Holding
<1>3. Serving!SourcesHeld
    BY <1>1 DEF Serving!SourcesHeld, RowsTrue, StoreTyped
<1> QED
    BY <1>1, <1>2, <1>3 DEF Serving!ServingSound

ServingPart == part = "serving" => Serving!ServingInv

LEMMA ServingPartNext == ASSUME ServingPart, [MCNext]_mcvars PROVE ServingPart'
<1> SUFFICES ASSUME part' = "serving" PROVE Serving!ServingInv'
    BY DEF ServingPart
<1>1. CASE UNCHANGED mcvars
    <2>1. part = "serving" /\ UNCHANGED others
        BY <1>1 DEF mcvars
    <2>2. UNCHANGED Serving!vars
        BY <2>1 DEF others, Serving!vars, Serving!counts, Serving!store
    <2> QED
        BY <2>1, <2>2, NextServed DEF ServingPart
<1>2. CASE MCNext
    <2>1. part' = part
        BY <1>2, Zenon DEF MCNext
    <2>2. Serving!Next
        BY <1>2, <2>1, Zenon DEF MCNext
    <2> QED
        BY <2>1, <2>2, NextServed DEF ServingPart
<1> QED
    BY <1>1, <1>2

\* What requests hold (api/edge.py, stream.py, commands/cases.py): for any requests, any
\* watchers and any limits, and however requests stall, are refused, left or cut by a
\* crash, the counters are the places and slots that are out, within their limits; a slot
\* that is held has a collector to let it go; and a row's blob is at its address, a key's
\* pack admitted once.
THEOREM ServingSoundHolds == MCSpec => []ServingSound
<1>1. MCInit => ServingPart
    <2> SUFFICES ASSUME MCInit, part = "serving" PROVE Serving!ServingInv
        BY DEF ServingPart
    <2>1. Serving!Init
        BY Zenon DEF MCInit
    <2> QED
        BY <2>1, InitServed
<1>2. ServingPart /\ [MCNext]_mcvars => ServingPart'
    BY ServingPartNext
<1>3. ServingPart => ServingSound
    BY ServingInvSound DEF ServingPart, ServingSound
<1> QED
    BY <1>1, <1>2, <1>3, PTL DEF MCSpec

-----------------------------------------------------------------------------
(* Identity's state, by the names it has in Identity; its flights are the  *)
(* requests in flight.                                                     *)

cache == x1
negative == x2
flight == x3
waiting == x4
exchanges == x5
ask == x6
helper == x7

USE DEF cache, negative, flight, waiting, exchanges, ask, helper

Lead == {"lookup", "exchange", "heard", "back"}
Waiters == {r \in Callers : ask[r].step \notin {"rest", "answered"}}
Trips == {h \in Identity!Threads : helper[h] # Identity!NoHelper}

\* IdentityInv, in the parts a step disturbs.
Call == [step : Identity!Steps, token : Tokens \cup {Nobody}, left : Nat, answer : Identity!Words]
Trip == [step : {"none", "asking", "reading"}, by : Callers \cup {Nobody}, left : Nat, answer : Identity!Words]
BooksTyped == cache \in [Tokens -> [left : Nat, age : Nat]] /\ negative \in [Tokens -> Nat]
FlightTyped == flight \in [Tokens -> Callers \cup {Nobody}]
CallsTyped == waiting \in Int /\ ask \in [Callers -> Call]
TripsTyped == exchanges \in Int /\ helper \in [Identity!Threads -> Trip]
WaitTrue == waiting + Cardinality(Waiters) = WaitingLimit
TripsTrue == exchanges + Cardinality(Trips) = WaitingLimit
CacheAges == \A t \in Tokens : cache[t].left > 0 => cache[t].age + cache[t].left < CacheTicks + DeadlineTicks
TripAges == \A h \in Identity!Threads : helper[h].answer.age + helper[h].left <= DeadlineTicks
CallAges ==
    \A r \in Callers : ask[r].answer.code = "ACTOR" =>
        /\ ask[r].step \in {"heard", "back", "told"} => ask[r].answer.age < DeadlineTicks
        /\ ask[r].step = "answered" => ask[r].answer.age < CacheTicks + DeadlineTicks
Full == Identity!Kept(negative) = Capacity
RefusalTrue ==
    /\ Identity!Kept(negative) <= Capacity
    /\ \A r \in Callers : ask[r].step = "back" /\ ask[r].answer.code = "NOT_AUTHENTICATED" =>
            negative[ask[r].token] > 0 \/ Full

LEMMA IdentitySize == ASSUME NEW S PROVE Identity!Cardinality(S) = Cardinality(S)
    BY Zenon DEF Identity!Cardinality, Cardinality

LEMMA BalancedIs == Identity!Balanced <=> WaitTrue /\ TripsTrue
    BY IdentitySize DEF Identity!Balanced, WaitTrue, TripsTrue, Waiters, Trips

LEMMA IdentityParts ==
    Identity!IdentityInv <=>
        /\ BooksTyped /\ FlightTyped /\ CallsTyped /\ TripsTyped /\ WaitTrue /\ TripsTrue
        /\ Identity!Flights /\ Identity!Helpers /\ CacheAges /\ TripAges /\ CallAges /\ RefusalTrue
<1>1. Identity!TypeOK <=> BooksTyped /\ FlightTyped /\ CallsTyped /\ TripsTyped
    BY Zenon DEF Identity!TypeOK, BooksTyped, FlightTyped, CallsTyped, TripsTyped, Call, Trip
<1>2. Identity!Ages /\ Identity!AnswersAge <=> CacheAges /\ TripAges /\ CallAges
    BY DEF Identity!Ages, Identity!AnswersAge, Identity!At, CacheAges, TripAges, CallAges
<1>3. Identity!Kept(negative) <= Capacity /\ Identity!RefusalHolds <=> RefusalTrue
    BY DEF Identity!RefusalHolds, Identity!At, RefusalTrue, Full
<1> QED
    BY <1>1, <1>2, <1>3, BalancedIs, Zenon DEF Identity!IdentityInv

LEMMA IdentityPartsNext ==
    Identity!IdentityInv' <=>
        (/\ BooksTyped /\ FlightTyped /\ CallsTyped /\ TripsTyped /\ WaitTrue /\ TripsTrue
         /\ Identity!Flights /\ Identity!Helpers /\ CacheAges /\ TripAges /\ CallAges /\ RefusalTrue)'
    BY IdentityParts, PTL

LEMMA IdentityNumbers ==
    /\ CacheTicks \in Nat /\ NegativeTicks \in Nat /\ NegativeTicks > 0 /\ DeadlineTicks \in Nat
    /\ SharedTicks \in Nat /\ WaitingLimit \in Nat /\ Capacity \in Nat
    BY IdentityIsBounded

LEMMA FiniteWaits == IsFiniteSet(Waiters) /\ IsFiniteSet(Trips)
<1>1. Waiters \subseteq Callers /\ Trips \subseteq 1..WaitingLimit
    BY DEF Waiters, Trips, Identity!Threads
<1>2. IsFiniteSet(1..WaitingLimit)
    BY IdentityNumbers, FS_Interval
<1> QED
    BY <1>1, <1>2, IdentityIsBounded, FS_Subset, Zenon

\* A step of one request, and what it has to say of it.
Waits(step) == step \notin {"rest", "answered"}

LEMMA CallMoves ==
    ASSUME CallsTyped, WaitTrue, CallAges, NEW r \in Callers, NEW q \in Call, ask' = [ask EXCEPT ![r] = q],
           waiting' = waiting + One(Waits(ask[r].step)) - One(Waits(q.step)),
           q.answer.code = "ACTOR" =>
                /\ q.step \in {"heard", "back", "told"} => q.answer.age < DeadlineTicks
                /\ q.step = "answered" => q.answer.age < CacheTicks + DeadlineTicks
    PROVE  (CallsTyped /\ WaitTrue /\ CallAges)' /\ \A t \in Callers : ask'[t] = IF t = r THEN q ELSE ask[t]
<1>1. waiting \in Int /\ ask \in [Callers -> Call]
    BY DEF CallsTyped
<1>2. ask' \in [Callers -> Call] /\ \A t \in Callers : ask'[t] = IF t = r THEN q ELSE ask[t]
    BY <1>1
<1>3. Waiters' = IF Waits(q.step) THEN Waiters \cup {r} ELSE Waiters \ {r}
    BY <1>2 DEF Waiters, Waits
<1>4. Cardinality(Waiters') = Cardinality(Waiters) - One(r \in Waiters) + One(Waits(q.step))
    <2>1. Waits(q.step) \in BOOLEAN
        BY DEF Waits
    <2> QED
        BY <1>3, <2>1, FiniteWaits, Recount, Zenon
<1>5. One(r \in Waiters) = One(Waits(ask[r].step))
    BY DEF Waiters, Waits, One
<1>6. One(Waits(ask[r].step)) \in Int /\ One(Waits(q.step)) \in Int /\ Cardinality(Waiters) \in Nat
    BY FiniteWaits, FS_CardinalityType DEF One
<1>7. waiting' \in Int
    BY <1>1, <1>6
<1>8. WaitTrue'
    BY <1>1, <1>4, <1>5, <1>6, IdentityNumbers DEF WaitTrue
<1>9. CallAges'
    BY <1>2 DEF CallAges
<1> QED
    BY <1>2, <1>7, <1>8, <1>9 DEF CallsTyped

LEMMA FlightsMove ==
    ASSUME CallsTyped, Identity!Flights, NEW r \in Callers, NEW q \in Call, flight' = flight,
           \A t \in Callers : ask'[t] = IF t = r THEN q ELSE ask[t],
           ask[r].step \in Lead => q.step \in Lead /\ q.token = ask[r].token,
           ask[r].step \notin Lead => q.step \notin Lead,
           q.step = "shared" => q.token \in Tokens /\ flight[q.token] # Nobody
    PROVE  Identity!Flights'
<1>1. Identity!Leading' = Identity!Leading
    BY DEF Identity!Leading, Lead
<1>2. \A t \in Identity!Leading : ask'[t].token = ask[t].token /\ t \in Callers
    BY DEF Identity!Leading, Lead
<1>3. \A t \in Callers : ask'[t].step = "shared" => ask'[t].token \in Tokens /\ flight[ask'[t].token] # Nobody
    BY DEF Identity!Flights, Identity!At
<1> QED
    BY <1>1, <1>2, <1>3 DEF Identity!Flights, Identity!At

LEMMA HelpersStay ==
    ASSUME Identity!Helpers, NEW r \in Callers, NEW q, helper' = helper,
           \A t \in Callers : ask'[t] = IF t = r THEN q ELSE ask[t], ask[r].step # "exchange", TripsTyped
    PROVE  Identity!Helpers'
<1>1. \A h \in Identity!Threads : helper[h].by \in Callers \cup {Nobody}
    BY DEF TripsTyped, Trip
<1> QED
    BY <1>1 DEF Identity!Helpers, Identity!At, Identity!Threads, Identity!NoHelper, Identity!NoAnswer, Identity!Said

LEMMA RefusalsMove ==
    ASSUME RefusalTrue, NEW r \in Callers, NEW q, negative' = negative,
           \A t \in Callers : ask'[t] = IF t = r THEN q ELSE ask[t],
           q.step = "back" => q.answer.code # "NOT_AUTHENTICATED"
    PROVE  RefusalTrue'
    BY DEF RefusalTrue, Full, Identity!Kept

\* Most steps: one request, and nothing else.
LEMMA CallOnly ==
    ASSUME Identity!IdentityInv, UNCHANGED <<cache, negative, flight, exchanges, helper>>,
           NEW r \in Callers, NEW q \in Call, ask' = [ask EXCEPT ![r] = q], ask[r].step # "exchange",
           waiting' = waiting + One(Waits(ask[r].step)) - One(Waits(q.step)),
           q.answer.code = "ACTOR" =>
                /\ q.step \in {"heard", "back", "told"} => q.answer.age < DeadlineTicks
                /\ q.step = "answered" => q.answer.age < CacheTicks + DeadlineTicks,
           ask[r].step \in Lead => q.step \in Lead /\ q.token = ask[r].token,
           ask[r].step \notin Lead => q.step \notin Lead,
           q.step = "shared" => q.token \in Tokens /\ flight[q.token] # Nobody,
           q.step = "back" => q.answer.code # "NOT_AUTHENTICATED"
    PROVE  Identity!IdentityInv'
<1>1. /\ BooksTyped /\ FlightTyped /\ CallsTyped /\ TripsTyped /\ WaitTrue /\ TripsTrue
      /\ Identity!Flights /\ Identity!Helpers /\ CacheAges /\ TripAges /\ CallAges /\ RefusalTrue
    BY IdentityParts
<1>2. (CallsTyped /\ WaitTrue /\ CallAges)' /\ \A t \in Callers : ask'[t] = IF t = r THEN q ELSE ask[t]
    BY <1>1, CallMoves
<1>3. Identity!Flights' /\ Identity!Helpers' /\ RefusalTrue'
    BY <1>1, <1>2, FlightsMove, HelpersStay, RefusalsMove
<1>4. (BooksTyped /\ FlightTyped /\ TripsTyped /\ TripsTrue /\ CacheAges /\ TripAges)'
    BY <1>1 DEF BooksTyped, FlightTyped, TripsTyped, TripsTrue, Trips, CacheAges, TripAges
<1> QED
    BY <1>2, <1>3, <1>4, IdentityPartsNext

LEMMA AnsweredServed ==
    ASSUME Identity!IdentityInv, UNCHANGED <<cache, negative, flight, exchanges, helper>>,
           NEW r \in Callers, NEW answer \in Identity!Words, Identity!Answered(r, answer),
           ask[r].step \notin Lead, waiting' = waiting + One(Waits(ask[r].step)),
           answer.code = "ACTOR" => answer.age < CacheTicks + DeadlineTicks
    PROVE  Identity!IdentityInv'
<1>1. PICK q : q = [Identity!Resting EXCEPT !.step = "answered", !.answer = answer]
    OBVIOUS
<1>2. q \in Call /\ q.step = "answered" /\ q.answer = answer
    BY <1>1 DEF Call, Identity!Resting, Identity!NoAnswer, Identity!Said, Identity!Words, Identity!Steps
<1>3. ask' = [ask EXCEPT ![r] = q]
    BY <1>1 DEF Identity!Answered
<1>4. One(Waits(q.step)) = 0 /\ waiting \in Int /\ One(Waits(ask[r].step)) \in Int
    BY <1>2, IdentityParts DEF Waits, One, CallsTyped
<1>5. waiting' = waiting + One(Waits(ask[r].step)) - One(Waits(q.step))
    BY <1>4
<1> QED
    BY <1>2, <1>3, <1>5, CallOnly DEF Lead

LEMMA LookupServed ==
    ASSUME Identity!IdentityInv, UNCHANGED <<cache, negative, exchanges, helper>>,
           NEW r \in Callers, NEW t \in Tokens, ask[r].step = "rest", flight[t] = Nobody, waiting' = waiting - 1,
           Identity!Waits(r, t, "lookup", 0), flight' = [flight EXCEPT ![t] = r]
    PROVE  Identity!IdentityInv'
<1>1. /\ BooksTyped /\ FlightTyped /\ CallsTyped /\ TripsTyped /\ WaitTrue /\ TripsTrue
      /\ Identity!Flights /\ Identity!Helpers /\ CacheAges /\ TripAges /\ CallAges /\ RefusalTrue
    BY IdentityParts
<1>2. PICK q : q = [step |-> "lookup", token |-> t, left |-> 0, answer |-> Identity!NoAnswer]
    OBVIOUS
<1>3. q \in Call /\ q.step = "lookup" /\ q.token = t /\ q.answer.code = "NONE"
    BY <1>2 DEF Call, Identity!NoAnswer, Identity!Said, Identity!Words, Identity!Steps
<1>4. ask' = [ask EXCEPT ![r] = q]
    BY <1>2 DEF Identity!Waits
<1>5. waiting' = waiting + One(Waits(ask[r].step)) - One(Waits(q.step))
    BY <1>1, <1>3 DEF Waits, One, CallsTyped
<1>6. (CallsTyped /\ WaitTrue /\ CallAges)' /\ \A u \in Callers : ask'[u] = IF u = r THEN q ELSE ask[u]
    BY <1>1, <1>3, <1>4, <1>5, CallMoves
<1>7. Identity!Helpers' /\ RefusalTrue'
    BY <1>1, <1>3, <1>6, HelpersStay, RefusalsMove
<1>8. (BooksTyped /\ TripsTyped /\ TripsTrue /\ CacheAges /\ TripAges)'
    BY <1>1 DEF BooksTyped, TripsTyped, TripsTrue, Trips, CacheAges, TripAges
<1>9. FlightTyped' /\ \A u \in Tokens : flight'[u] = IF u = t THEN r ELSE flight[u]
    BY <1>1 DEF FlightTyped
<1>10. r # Nobody
    BY IdentityIsBounded
<1>11. Identity!Flights'
    <2>1. Identity!Leading' = Identity!Leading \cup {r}
        BY <1>3, <1>6 DEF Identity!Leading
    <2>2. r \notin Identity!Leading
        BY DEF Identity!Leading
    <2>3. \A u \in Identity!Leading' : ask'[u].token \in Tokens /\ flight'[ask'[u].token] = u
        <3>1. ASSUME NEW u \in Identity!Leading PROVE ask'[u].token \in Tokens /\ flight'[ask'[u].token] = u
            <4>1. u \in Callers /\ u # r /\ u # Nobody
                BY <2>2, IdentityIsBounded DEF Identity!Leading
            <4>2. ask[u].token \in Tokens /\ flight[ask[u].token] = u /\ ask'[u] = ask[u]
                BY <1>1, <1>6, <4>1 DEF Identity!Flights
            <4> QED
                BY <1>9, <4>1, <4>2
        <3>2. ask'[r].token = t /\ flight'[t] = r
            BY <1>3, <1>6, <1>9
        <3> QED
            BY <2>1, <3>1, <3>2
    <2>4. \A u \in Tokens : flight'[u] # Nobody => flight'[u] \in Identity!Leading' /\ ask'[flight'[u]].token = u
        <3>1. ASSUME NEW u \in Tokens, u # t, flight[u] # Nobody
              PROVE  flight[u] \in Identity!Leading' /\ ask'[flight[u]].token = u
            <4>1. flight[u] \in Identity!Leading /\ ask[flight[u]].token = u
                BY <1>1, <3>1 DEF Identity!Flights
            <4>2. flight[u] \in Callers /\ flight[u] # r
                BY <2>2, <4>1 DEF Identity!Leading
            <4> QED
                BY <1>6, <2>1, <4>1, <4>2
        <3>2. r \in Identity!Leading' /\ ask'[r].token = t
            BY <1>3, <1>6, <2>1
        <3> QED
            BY <1>9, <3>1, <3>2
    <2>5. \A u \in Callers : ask'[u].step = "shared" => ask'[u].token \in Tokens /\ flight'[ask'[u].token] # Nobody
        <3>1. \A u \in Callers : ask[u].step = "shared" => ask[u].token \in Tokens /\ flight[ask[u].token] # Nobody
            BY <1>1 DEF Identity!Flights, Identity!At
        <3> QED
            BY <1>3, <1>6, <1>9, <1>10, <3>1
    <2> QED
        BY <2>3, <2>4, <2>5 DEF Identity!Flights, Identity!At
<1> QED
    BY <1>6, <1>7, <1>8, <1>9, <1>11, IdentityPartsNext

LEMMA AskServed ==
    ASSUME Identity!IdentityInv, NEW r \in Callers, NEW t \in Tokens, Identity!Ask(r, t)
    PROVE  Identity!IdentityInv'
<1>1. ask[r].step = "rest" /\ UNCHANGED <<cache, negative, exchanges, helper>>
    BY DEF Identity!Ask, Identity!Resting
<1>2. BooksTyped /\ CallsTyped /\ CacheAges /\ waiting \in Int
    BY IdentityParts DEF CallsTyped
<1>3. Waits("rest") = FALSE /\ waiting + One(Waits("rest")) = waiting
    BY <1>2 DEF Waits, One
<1>4. cache[t] \in [left : Nat, age : Nat]
    BY <1>2 DEF BooksTyped
<1>5. ASSUME cache[t].left > 0, Identity!Answered(r, Identity!Said("ACTOR", cache[t].age)), UNCHANGED <<waiting, flight>>
      PROVE  Identity!IdentityInv'
    <2>1. PICK answer : answer = Identity!Said("ACTOR", cache[t].age)
        OBVIOUS
    <2>2. answer \in Identity!Words /\ answer.age = cache[t].age
        BY <1>4, <2>1 DEF Identity!Words, Identity!Said
    <2>3. answer.age < CacheTicks + DeadlineTicks
        BY <1>2, <1>4, <1>5, <2>2, IdentityNumbers DEF CacheAges
    <2> QED
        BY <1>1, <1>3, <1>5, <2>1, <2>2, <2>3, AnsweredServed DEF Lead
<1>6. ASSUME NEW answer \in {Identity!Refused, Identity!Unavailable}, Identity!Answered(r, answer), UNCHANGED <<waiting, flight>>
      PROVE  Identity!IdentityInv'
    <2>1. answer \in Identity!Words /\ answer.code # "ACTOR"
        BY DEF Identity!Refused, Identity!Unavailable, Identity!Words, Identity!Said
    <2> QED
        BY <1>1, <1>3, <1>6, <2>1, AnsweredServed DEF Lead
<1>7. ASSUME waiting' = waiting - 1, flight[t] # Nobody, Identity!Waits(r, t, "shared", SharedTicks), UNCHANGED flight
      PROVE  Identity!IdentityInv'
    <2>1. PICK q : q = [step |-> "shared", token |-> t, left |-> SharedTicks, answer |-> Identity!NoAnswer]
        OBVIOUS
    <2>2. q \in Call /\ q.step = "shared" /\ q.token = t /\ q.answer.code = "NONE"
        BY <2>1, IdentityNumbers DEF Call, Identity!NoAnswer, Identity!Said, Identity!Words, Identity!Steps
    <2>3. ask' = [ask EXCEPT ![r] = q]
        BY <1>7, <2>1 DEF Identity!Waits
    <2>4. waiting' = waiting + One(Waits(ask[r].step)) - One(Waits(q.step))
        BY <1>1, <1>2, <1>7, <2>2 DEF Waits, One
    <2> QED
        BY <1>1, <1>7, <2>2, <2>3, <2>4, CallOnly DEF Lead
<1>8. ASSUME waiting' = waiting - 1, flight[t] = Nobody, Identity!Waits(r, t, "lookup", 0), flight' = [flight EXCEPT ![t] = r]
      PROVE  Identity!IdentityInv'
    BY <1>1, <1>8, LookupServed
<1> QED
    BY <1>5, <1>6, <1>7, <1>8, Zenon DEF Identity!Ask

LEMMA LeaveAsk ==
    ASSUME Identity!IdentityInv, NEW r \in Callers, Identity!Leave(r)
    PROVE  Identity!IdentityInv'
<1>1. PICK q : q = [Identity!Resting EXCEPT !.left = 1]
    OBVIOUS
<1>2. q \in Call /\ q.step = "rest" /\ q.answer.code = "NONE"
    BY <1>1 DEF Call, Identity!Resting, Identity!NoAnswer, Identity!Said, Identity!Words, Identity!Steps
<1>3. /\ ask[r].step = "answered" /\ ask' = [ask EXCEPT ![r] = q]
      /\ UNCHANGED <<cache, negative, flight, waiting, exchanges, helper>>
    BY <1>1 DEF Identity!Leave, Identity!At, Identity!remembered
<1>4. waiting \in Int
    BY IdentityParts DEF CallsTyped
<1>5. waiting' = waiting + One(Waits(ask[r].step)) - One(Waits(q.step))
    BY <1>2, <1>3, <1>4 DEF Waits, One
<1> QED
    BY <1>2, <1>3, <1>5, CallOnly DEF Lead

LEMMA SharedServed ==
    ASSUME Identity!IdentityInv, NEW r \in Callers, Identity!Shared(r)
    PROVE  Identity!IdentityInv'
<1>1. /\ waiting' = waiting + 1 /\ UNCHANGED <<cache, negative, flight, exchanges, helper>>
      /\ ask[r].step \in {"told", "shared"}
      /\ Identity!Answered(r, IF ask[r].step = "told" THEN ask[r].answer ELSE Identity!Unavailable)
    BY DEF Identity!Shared, Identity!At, Identity!remembered
<1>2. CallsTyped /\ CallAges /\ waiting \in Int
    BY IdentityParts DEF CallsTyped
<1>3. waiting' = waiting + One(Waits(ask[r].step))
    BY <1>1, <1>2 DEF Waits, One
<1>4. PICK answer : answer = IF ask[r].step = "told" THEN ask[r].answer ELSE Identity!Unavailable
    OBVIOUS
<1>5. ask[r].answer \in Identity!Words
    BY <1>2 DEF CallsTyped, Call
<1>6. answer \in Identity!Words
    BY <1>4, <1>5 DEF Identity!Unavailable, Identity!Words, Identity!Said
<1>7. answer.code = "ACTOR" => answer.age < CacheTicks + DeadlineTicks
    <2>1. ASSUME answer.code = "ACTOR" PROVE answer = ask[r].answer /\ ask[r].step = "told"
        BY <1>4, <2>1 DEF Identity!Unavailable, Identity!Said
    <2>2. ASSUME answer.code = "ACTOR" PROVE answer.age < DeadlineTicks
        BY <1>2, <2>1, <2>2 DEF CallAges
    <2>3. answer.age \in Nat
        BY <1>6 DEF Identity!Words
    <2> QED
        BY <2>2, <2>3, IdentityNumbers
<1> QED
    BY <1>1, <1>3, <1>4, <1>6, <1>7, AnsweredServed DEF Lead

LEMMA NoHelperIs ==
    /\ Identity!NoHelper \in Trip /\ Identity!NoHelper.step = "none" /\ Identity!NoHelper.by = Nobody
    /\ Identity!NoHelper.left = 0 /\ Identity!NoHelper.answer.age = 0
    BY DEF Trip, Identity!NoHelper, Identity!NoAnswer, Identity!Said, Identity!Words

\* A step of one round trip, and what it has to say of it.
LEMMA TripMoves ==
    ASSUME TripsTyped, TripsTrue, TripAges, NEW h \in Identity!Threads, NEW k \in Trip, helper' = [helper EXCEPT ![h] = k],
           exchanges' = exchanges + One(helper[h] # Identity!NoHelper) - One(k # Identity!NoHelper),
           k.answer.age + k.left <= DeadlineTicks
    PROVE  (TripsTyped /\ TripsTrue /\ TripAges)' /\ \A g \in Identity!Threads : helper'[g] = IF g = h THEN k ELSE helper[g]
<1>1. exchanges \in Int /\ helper \in [Identity!Threads -> Trip] /\ Identity!Threads' = Identity!Threads
    BY DEF TripsTyped, Identity!Threads
<1>2. helper' \in [Identity!Threads -> Trip] /\ \A g \in Identity!Threads : helper'[g] = IF g = h THEN k ELSE helper[g]
    BY <1>1
<1>3. Trips' = IF k # Identity!NoHelper THEN Trips \cup {h} ELSE Trips \ {h}
    BY <1>1, <1>2 DEF Trips, Identity!NoHelper, Identity!NoAnswer, Identity!Said
<1>4. Cardinality(Trips') = Cardinality(Trips) - One(h \in Trips) + One(k # Identity!NoHelper)
    <2>1. (k # Identity!NoHelper) \in BOOLEAN
        OBVIOUS
    <2> QED
        BY <1>3, <2>1, FiniteWaits, Recount, Zenon
<1>5. One(h \in Trips) = One(helper[h] # Identity!NoHelper)
    BY DEF Trips, One
<1>6. One(helper[h] # Identity!NoHelper) \in Int /\ One(k # Identity!NoHelper) \in Int /\ Cardinality(Trips) \in Nat
    BY FiniteWaits, FS_CardinalityType DEF One
<1>7. exchanges' \in Int
    BY <1>1, <1>6
<1>8. TripsTrue'
    BY <1>1, <1>4, <1>5, <1>6, IdentityNumbers DEF TripsTrue
<1>9. TripAges'
    BY <1>1, <1>2 DEF TripAges
<1> QED
    BY <1>1, <1>2, <1>7, <1>8, <1>9 DEF TripsTyped

LEMMA ExchangeServed ==
    ASSUME Identity!IdentityInv, NEW r \in Callers, Identity!Exchange(r)
    PROVE  Identity!IdentityInv'
<1>1. /\ BooksTyped /\ FlightTyped /\ CallsTyped /\ TripsTyped /\ WaitTrue /\ TripsTrue
      /\ Identity!Flights /\ Identity!Helpers /\ CacheAges /\ TripAges /\ CallAges /\ RefusalTrue
    BY IdentityParts
<1>2. ask[r].step = "lookup" /\ UNCHANGED <<cache, negative, flight, waiting>>
    BY DEF Identity!Exchange, Identity!At, Identity!remembered
<1>3. ask \in [Callers -> Call] /\ ask[r] \in Call /\ waiting \in Int /\ exchanges \in Int
    BY <1>1 DEF CallsTyped, TripsTyped
<1>4. ASSUME NEW h \in Identity!Threads, helper[h] = Identity!NoHelper, exchanges' = exchanges - 1,
             helper' = [helper EXCEPT ![h] =
                [Identity!NoHelper EXCEPT !.step = "asking", !.by = r, !.left = DeadlineTicks]],
             ask' = [ask EXCEPT ![r].step = "exchange", ![r].left = DeadlineTicks]
      PROVE  Identity!IdentityInv'
    <2>1. PICK q : q = [ask[r] EXCEPT !.step = "exchange", !.left = DeadlineTicks]
        OBVIOUS
    <2>2. q \in Call /\ q.step = "exchange" /\ q.token = ask[r].token
        BY <1>3, <2>1, IdentityNumbers DEF Call, Identity!Steps
    <2>3. ask' = [ask EXCEPT ![r] = q]
        BY <1>3, <1>4, <2>1
    <2>4. waiting' = waiting + One(Waits(ask[r].step)) - One(Waits(q.step))
        BY <1>2, <1>3, <2>2 DEF Waits, One
    <2>5. (CallsTyped /\ WaitTrue /\ CallAges)' /\ \A t \in Callers : ask'[t] = IF t = r THEN q ELSE ask[t]
        BY <1>1, <2>2, <2>3, <2>4, CallMoves
    <2>6. Identity!Flights' /\ RefusalTrue'
        BY <1>1, <1>2, <2>2, <2>5, FlightsMove, RefusalsMove DEF Lead
    <2>7. PICK k : k = [Identity!NoHelper EXCEPT !.step = "asking", !.by = r, !.left = DeadlineTicks]
        OBVIOUS
    <2>8. k \in Trip /\ k.step = "asking" /\ k.by = r /\ k.left = DeadlineTicks /\ k.answer.age = 0
        BY <2>7, NoHelperIs, IdentityNumbers DEF Trip, Identity!NoHelper, Identity!NoAnswer, Identity!Said, Identity!Words
    <2>9. k # Identity!NoHelper /\ k.answer.age + k.left <= DeadlineTicks
        BY <2>8, NoHelperIs, IdentityNumbers
    <2>10. exchanges' = exchanges + One(helper[h] # Identity!NoHelper) - One(k # Identity!NoHelper)
        BY <1>3, <1>4, <2>9 DEF One
    <2>11. /\ (TripsTyped /\ TripsTrue /\ TripAges)'
           /\ \A g \in Identity!Threads : helper'[g] = IF g = h THEN k ELSE helper[g]
        BY <1>1, <1>4, <2>7, <2>8, <2>9, <2>10, TripMoves
    <2>12. Identity!Helpers'
        <3>1. \A g \in Identity!Threads : helper[g].by # r
            BY <1>1, <1>2, IdentityIsBounded DEF Identity!Helpers, Identity!At
        <3>2. \A g \in Identity!Threads : helper[g].step = "none" => helper[g] = Identity!NoHelper
            BY <1>1 DEF Identity!Helpers
        <3>3. \A g \in Identity!Threads : helper[g].by # Nobody => ask[helper[g].by].step = "exchange" /\ helper[g].by \in Callers
            BY <1>1 DEF Identity!Helpers, Identity!At, TripsTyped, Trip
        <3>4. \A g, f \in Identity!Threads : helper[g].by = helper[f].by /\ helper[g].by # Nobody => g = f
            BY <1>1 DEF Identity!Helpers
        <3>5. \A g \in Identity!Threads : helper'[g].step = "none" => helper'[g] = Identity!NoHelper
            BY <2>8, <2>11, <3>2
        <3>6. \A g \in Identity!Threads : helper'[g].by # Nobody => ask'[helper'[g].by].step = "exchange"
            BY <2>2, <2>5, <2>8, <2>11, <3>3
        <3>7. \A g, f \in Identity!Threads : helper'[g].by = helper'[f].by /\ helper'[g].by # Nobody => g = f
            BY <2>8, <2>11, <3>1, <3>4
        <3> QED
            BY <3>5, <3>6, <3>7 DEF Identity!Helpers, Identity!At, Identity!Threads, Identity!NoHelper, Identity!NoAnswer, Identity!Said
    <2>13. (BooksTyped /\ FlightTyped /\ CacheAges)'
        BY <1>1, <1>2 DEF BooksTyped, FlightTyped, CacheAges
    <2> QED
        BY <2>5, <2>6, <2>11, <2>12, <2>13, IdentityPartsNext
<1>5. ASSUME ask' = [ask EXCEPT ![r].step = "back", ![r].answer = Identity!Unavailable], UNCHANGED <<exchanges, helper>>
      PROVE  Identity!IdentityInv'
    <2>1. PICK q : q = [ask[r] EXCEPT !.step = "back", !.answer = Identity!Unavailable]
        OBVIOUS
    <2>2. q \in Call /\ q.step = "back" /\ q.token = ask[r].token /\ q.answer.code = "IDENTITY_UNAVAILABLE"
        BY <1>3, <2>1 DEF Call, Identity!Steps, Identity!Unavailable, Identity!Said, Identity!Words
    <2>3. ask' = [ask EXCEPT ![r] = q]
        BY <1>3, <1>5, <2>1
    <2>4. waiting' = waiting + One(Waits(ask[r].step)) - One(Waits(q.step))
        BY <1>2, <1>3, <2>2 DEF Waits, One
    <2> QED
        BY <1>2, <1>5, <2>2, <2>3, <2>4, CallOnly DEF Lead
<1> QED
    BY <1>4, <1>5, Zenon DEF Identity!Exchange

\* What is only of the round trips leaves the rest as it was.
LEMMA TripsOnly ==
    ASSUME Identity!IdentityInv, UNCHANGED <<cache, negative, flight, waiting, ask>>
    PROVE  (BooksTyped /\ FlightTyped /\ CallsTyped /\ WaitTrue /\ CacheAges /\ CallAges /\ RefusalTrue)' /\ Identity!Flights'
<1>1. /\ BooksTyped /\ FlightTyped /\ CallsTyped /\ WaitTrue
      /\ Identity!Flights /\ CacheAges /\ CallAges /\ RefusalTrue
    BY IdentityParts
<1>2. (BooksTyped /\ FlightTyped /\ CallsTyped /\ WaitTrue /\ CacheAges /\ CallAges)'
    BY <1>1 DEF BooksTyped, FlightTyped, CallsTyped, WaitTrue, Waiters, CacheAges, CallAges
<1>3. RefusalTrue' /\ Identity!Flights'
    BY <1>1 DEF RefusalTrue, Full, Identity!Kept, Identity!Flights, Identity!At, Identity!Leading
<1> QED
    BY <1>2, <1>3

LEMMA JudgeServed ==
    ASSUME Identity!IdentityInv, NEW h \in Identity!Threads, Identity!Judge(h)
    PROVE  Identity!IdentityInv'
<1>1. TripsTyped /\ TripsTrue /\ TripAges /\ Identity!Helpers
    BY IdentityParts
<1>2. PICK code \in {"ACTOR", "NOT_AUTHENTICATED"} :
        helper' = [helper EXCEPT ![h].step = "reading", ![h].answer = Identity!Said(code, 0)]
    BY DEF Identity!Judge
<1>3. helper[h].step = "asking" /\ UNCHANGED <<cache, negative, flight, waiting, exchanges, ask>>
    BY DEF Identity!Judge, Identity!remembered
<1>4. PICK k : k = [helper[h] EXCEPT !.step = "reading", !.answer = Identity!Said(code, 0)]
    OBVIOUS
<1>5. helper \in [Identity!Threads -> Trip] /\ helper[h] \in Trip /\ exchanges \in Int
    BY <1>1 DEF TripsTyped
<1>6. k \in Trip /\ k.step = "reading" /\ k.by = helper[h].by /\ k.left = helper[h].left /\ k.answer.age = 0
    BY <1>4, <1>5 DEF Trip, Identity!Said, Identity!Words
<1>7. helper' = [helper EXCEPT ![h] = k]
    BY <1>2, <1>4, <1>5
<1>8. helper[h].left \in Nat /\ helper[h].answer.age \in Nat
    BY <1>5 DEF Trip, Identity!Words
<1>9. k.answer.age + k.left <= DeadlineTicks
    BY <1>1, <1>6, <1>8, IdentityNumbers DEF TripAges
<1>10. exchanges' = exchanges + One(helper[h] # Identity!NoHelper) - One(k # Identity!NoHelper)
    BY <1>3, <1>5, <1>6, NoHelperIs DEF One
<1>11. /\ (TripsTyped /\ TripsTrue /\ TripAges)'
       /\ \A g \in Identity!Threads : helper'[g] = IF g = h THEN k ELSE helper[g]
    BY <1>1, <1>6, <1>7, <1>9, <1>10, TripMoves
<1>12. Identity!Helpers'
    BY <1>1, <1>3, <1>6, <1>11
    DEF Identity!Helpers, Identity!At, Identity!Threads, Identity!NoHelper, Identity!NoAnswer, Identity!Said
<1> QED
    BY <1>3, <1>11, <1>12, TripsOnly, IdentityPartsNext

LEMMA FinishServed ==
    ASSUME Identity!IdentityInv, NEW h \in Identity!Threads, Identity!Finish(h)
    PROVE  Identity!IdentityInv'
<1>1. /\ BooksTyped /\ FlightTyped /\ CallsTyped /\ TripsTyped /\ WaitTrue /\ TripsTrue
      /\ Identity!Flights /\ Identity!Helpers /\ CacheAges /\ TripAges /\ CallAges /\ RefusalTrue
    BY IdentityParts
<1>2. /\ helper[h].step \in {"asking", "reading"} /\ exchanges' = exchanges + 1
      /\ helper' = [helper EXCEPT ![h] = Identity!NoHelper] /\ UNCHANGED <<cache, negative, flight, waiting>>
    BY DEF Identity!Finish, Identity!remembered
<1>3. /\ helper \in [Identity!Threads -> Trip] /\ helper[h] \in Trip /\ exchanges \in Int
      /\ ask \in [Callers -> Call] /\ waiting \in Int
    BY <1>1 DEF CallsTyped, TripsTyped
<1>4. exchanges' = exchanges + One(helper[h] # Identity!NoHelper) - One(Identity!NoHelper # Identity!NoHelper)
    BY <1>2, <1>3, NoHelperIs DEF One
<1>5. Identity!NoHelper.answer.age + Identity!NoHelper.left <= DeadlineTicks
    BY NoHelperIs, IdentityNumbers
<1>6. /\ (TripsTyped /\ TripsTrue /\ TripAges)'
      /\ \A g \in Identity!Threads : helper'[g] = IF g = h THEN Identity!NoHelper ELSE helper[g]
    BY <1>1, <1>2, <1>4, <1>5, NoHelperIs, TripMoves
<1>7. ASSUME helper[h].by = Nobody, UNCHANGED ask PROVE Identity!IdentityInv'
    <2>1. Identity!Helpers'
        BY <1>1, <1>6, <1>7, NoHelperIs
        DEF Identity!Helpers, Identity!At, Identity!Threads, Identity!NoHelper, Identity!NoAnswer, Identity!Said
    <2> QED
        BY <1>2, <1>6, <1>7, <2>1, TripsOnly, IdentityPartsNext
<1>8. ASSUME helper[h].by # Nobody,
             NEW answer \in {Identity!Unavailable} \cup (IF Identity!Heard(h) THEN {helper[h].answer} ELSE {}),
             ask' = [ask EXCEPT ![helper[h].by].step = "heard", ![helper[h].by].answer = answer]
      PROVE  Identity!IdentityInv'
    <2>1. PICK r \in Callers : r = helper[h].by
        BY <1>3, <1>8 DEF Trip
    <2>2. ask[r].step = "exchange" /\ ask[r] \in Call
        BY <1>1, <1>3, <1>8, <2>1 DEF Identity!Helpers, Identity!At
    <2>3. answer \in Identity!Words /\ (answer.code = "ACTOR" => answer.age < DeadlineTicks)
        <3>1. CASE answer = Identity!Unavailable
            BY <3>1 DEF Identity!Unavailable, Identity!Said, Identity!Words
        <3>2. CASE Identity!Heard(h) /\ answer = helper[h].answer
            <4>1. helper[h].left > 0 /\ helper[h].left \in Nat /\ answer \in Identity!Words
                BY <1>3, <3>2 DEF Identity!Heard, Trip
            <4>2. answer.age \in Nat /\ answer.age + helper[h].left <= DeadlineTicks
                BY <1>1, <3>2, <4>1 DEF TripAges, Identity!Words
            <4> QED
                BY <4>1, <4>2, IdentityNumbers
        <3> QED
            BY <1>8, <3>1, <3>2
    <2>4. PICK q : q = [ask[r] EXCEPT !.step = "heard", !.answer = answer]
        OBVIOUS
    <2>5. q \in Call /\ q.step = "heard" /\ q.token = ask[r].token /\ q.answer = answer
        BY <2>2, <2>3, <2>4 DEF Call, Identity!Steps
    <2>6. ask' = [ask EXCEPT ![r] = q]
        BY <1>3, <1>8, <2>1, <2>4
    <2>7. waiting' = waiting + One(Waits(ask[r].step)) - One(Waits(q.step))
        BY <1>2, <1>3, <2>2, <2>5 DEF Waits, One
    <2>8. (CallsTyped /\ WaitTrue /\ CallAges)' /\ \A t \in Callers : ask'[t] = IF t = r THEN q ELSE ask[t]
        BY <1>1, <2>3, <2>5, <2>6, <2>7, CallMoves
    <2>9. Identity!Flights' /\ RefusalTrue'
        BY <1>1, <1>2, <2>2, <2>5, <2>8, FlightsMove, RefusalsMove DEF Lead
    <2>10. Identity!Helpers'
        <3>1. \A g \in Identity!Threads : helper[g].by = r => g = h
            BY <1>1, <1>8, <2>1 DEF Identity!Helpers
        <3>2. \A g \in Identity!Threads : helper[g].step = "none" => helper[g] = Identity!NoHelper
            BY <1>1 DEF Identity!Helpers
        <3>3. \A g \in Identity!Threads :
                helper[g].by # Nobody => ask[helper[g].by].step = "exchange" /\ helper[g].by \in Callers
            BY <1>1 DEF Identity!Helpers, Identity!At, TripsTyped, Trip
        <3>4. \A g, f \in Identity!Threads : helper[g].by = helper[f].by /\ helper[g].by # Nobody => g = f
            BY <1>1 DEF Identity!Helpers
        <3>5. \A g \in Identity!Threads : helper'[g].step = "none" => helper'[g] = Identity!NoHelper
            BY <1>6, <3>2
        <3>6. \A g \in Identity!Threads : helper'[g].by # Nobody => ask'[helper'[g].by].step = "exchange"
            BY <1>6, <2>8, <3>1, <3>3, NoHelperIs
        <3>7. \A g, f \in Identity!Threads : helper'[g].by = helper'[f].by /\ helper'[g].by # Nobody => g = f
            BY <1>6, <3>4, NoHelperIs
        <3> QED
            BY <3>5, <3>6, <3>7
            DEF Identity!Helpers, Identity!At, Identity!Threads, Identity!NoHelper, Identity!NoAnswer, Identity!Said
    <2>11. (BooksTyped /\ FlightTyped /\ CacheAges)'
        BY <1>1, <1>2 DEF BooksTyped, FlightTyped, CacheAges
    <2> QED
        BY <1>6, <2>8, <2>9, <2>10, <2>11, IdentityPartsNext
<1> QED
    BY <1>7, <1>8, Zenon DEF Identity!Finish

LEMMA AbandonServed ==
    ASSUME Identity!IdentityInv, NEW r \in Callers, Identity!Abandon(r)
    PROVE  Identity!IdentityInv'
<1>1. /\ BooksTyped /\ FlightTyped /\ CallsTyped /\ TripsTyped /\ WaitTrue /\ TripsTrue
      /\ Identity!Flights /\ Identity!Helpers /\ CacheAges /\ TripAges /\ CallAges /\ RefusalTrue
    BY IdentityParts
<1>2. /\ ask[r].step = "exchange" /\ UNCHANGED <<cache, negative, flight, waiting, exchanges>>
      /\ ask' = [ask EXCEPT ![r].step = "heard", ![r].answer = Identity!Unavailable]
    BY DEF Identity!Abandon, Identity!At, Identity!remembered
<1>3. PICK k : k = [Identity!NoHelper EXCEPT !.step = "asking"]
    OBVIOUS
<1>4. k \in Trip /\ k.step = "asking" /\ k.by = Nobody /\ k.answer.age + k.left = 0
    BY <1>3, NoHelperIs DEF Trip, Identity!NoHelper, Identity!NoAnswer, Identity!Said, Identity!Words
<1>5. helper' = [h \in Identity!Threads |-> IF helper[h].by = r THEN k ELSE helper[h]]
    BY <1>3 DEF Identity!Abandon
<1>6. \A h \in Identity!Threads : helper'[h] = IF helper[h].by = r THEN k ELSE helper[h]
    BY <1>5
<1>7. ask \in [Callers -> Call] /\ ask[r] \in Call /\ waiting \in Int /\ helper \in [Identity!Threads -> Trip]
    BY <1>1 DEF CallsTyped, TripsTyped
<1>8. PICK q : q = [ask[r] EXCEPT !.step = "heard", !.answer = Identity!Unavailable]
    OBVIOUS
<1>9. q \in Call /\ q.step = "heard" /\ q.token = ask[r].token /\ q.answer.code = "IDENTITY_UNAVAILABLE"
    BY <1>7, <1>8 DEF Call, Identity!Steps, Identity!Unavailable, Identity!Said, Identity!Words
<1>10. ask' = [ask EXCEPT ![r] = q]
    BY <1>2, <1>7, <1>8
<1>11. waiting' = waiting + One(Waits(ask[r].step)) - One(Waits(q.step))
    BY <1>2, <1>7, <1>9 DEF Waits, One
<1>12. (CallsTyped /\ WaitTrue /\ CallAges)' /\ \A t \in Callers : ask'[t] = IF t = r THEN q ELSE ask[t]
    BY <1>1, <1>9, <1>10, <1>11, CallMoves
<1>13. Identity!Flights' /\ RefusalTrue'
    BY <1>1, <1>2, <1>9, <1>12, FlightsMove, RefusalsMove DEF Lead
<1>14. r # Nobody
    BY IdentityIsBounded
<1>15. TripsTyped' /\ TripsTrue'
    <2>1. helper' \in [Identity!Threads -> Trip] /\ exchanges' = exchanges
        BY <1>2, <1>4, <1>5, <1>7
    <2>2. \A h \in Identity!Threads : helper[h].by = r => helper[h] # Identity!NoHelper
        BY <1>14, NoHelperIs
    <2>3. Trips' = Trips
        BY <1>4, <1>6, <2>2, NoHelperIs DEF Trips, Identity!Threads, Identity!NoHelper, Identity!NoAnswer, Identity!Said
    <2> QED
        BY <1>1, <2>1, <2>3 DEF TripsTyped, TripsTrue, Identity!Threads, Trip, Identity!Words
<1>16. TripAges'
    BY <1>1, <1>4, <1>6, IdentityNumbers DEF TripAges, Identity!Threads
<1>17. Identity!Helpers'
    <2>1. \A g \in Identity!Threads : helper[g].step = "none" => helper[g] = Identity!NoHelper
        BY <1>1 DEF Identity!Helpers
    <2>2. \A g \in Identity!Threads :
            helper[g].by # Nobody => ask[helper[g].by].step = "exchange" /\ helper[g].by \in Callers
        BY <1>1 DEF Identity!Helpers, Identity!At, TripsTyped, Trip
    <2>3. \A g, f \in Identity!Threads : helper[g].by = helper[f].by /\ helper[g].by # Nobody => g = f
        BY <1>1 DEF Identity!Helpers
    <2>4. \A g \in Identity!Threads : helper'[g].step = "none" => helper'[g] = Identity!NoHelper
        BY <1>4, <1>6, <2>1
    <2>5. \A g \in Identity!Threads : helper'[g].by # Nobody => ask'[helper'[g].by].step = "exchange"
        BY <1>4, <1>6, <1>12, <2>2
    <2>6. \A g, f \in Identity!Threads : helper'[g].by = helper'[f].by /\ helper'[g].by # Nobody => g = f
        BY <1>4, <1>6, <2>3
    <2> QED
        BY <2>4, <2>5, <2>6
        DEF Identity!Helpers, Identity!At, Identity!Threads, Identity!NoHelper, Identity!NoAnswer, Identity!Said
<1>18. (BooksTyped /\ FlightTyped /\ CacheAges)'
    BY <1>1, <1>2 DEF BooksTyped, FlightTyped, CacheAges
<1> QED
    BY <1>12, <1>13, <1>15, <1>16, <1>17, <1>18, IdentityPartsNext

\* The refusals remembered, and how many.
Refusals == {t \in Tokens : negative[t] > 0}

LEMMA RefusalsIs ==
    /\ Identity!Kept(negative) = Cardinality(Refusals) /\ (Full <=> Cardinality(Refusals) = Capacity)
    /\ Identity!Kept(negative') = Cardinality(Refusals') /\ (Full' <=> Cardinality(Refusals') = Capacity)
    BY IdentitySize DEF Identity!Kept, Refusals, Full

LEMMA FiniteRefusals == IsFiniteSet(Refusals) /\ Cardinality(Refusals) \in Nat
<1>1. Refusals \subseteq Tokens
    BY DEF Refusals
<1> QED
    BY <1>1, IdentityIsBounded, FS_Subset, FS_CardinalityType, Zenon

LEMMA DenyKeeps ==
    ASSUME BooksTyped, RefusalTrue, NEW t \in Tokens, Identity!Deny(t)
    PROVE  /\ negative' \in [Tokens -> Nat] /\ Identity!Kept(negative') <= Capacity
           /\ negative'[t] > 0 \/ Full'
           /\ \A u \in Tokens : negative[u] > 0 \/ Full => negative'[u] > 0 \/ Full'
<1>1. negative \in [Tokens -> Nat] /\ Cardinality(Refusals) <= Capacity
    BY RefusalsIs DEF BooksTyped, RefusalTrue
<1>2. CASE Cardinality(Refusals) < Capacity
    <2>1. negative' = [negative EXCEPT ![t] = NegativeTicks]
        BY <1>2, RefusalsIs DEF Identity!Deny
    <2>2. negative' \in [Tokens -> Nat] /\ \A u \in Tokens : negative'[u] = IF u = t THEN NegativeTicks ELSE negative[u]
        BY <1>1, <2>1, IdentityNumbers
    <2>3. Refusals' = Refusals \cup {t}
        BY <2>2, IdentityNumbers DEF Refusals
    <2>4. Cardinality(Refusals') = IF t \in Refusals THEN Cardinality(Refusals) ELSE Cardinality(Refusals) + 1
        BY <2>3, FiniteRefusals, FS_AddElement, Zenon
    <2>5. Cardinality(Refusals') <= Capacity
        BY <1>2, <2>4, FiniteRefusals, IdentityNumbers
    <2>6. ~Full
        BY <1>2, RefusalsIs, FiniteRefusals, IdentityNumbers
    <2>7. Identity!Kept(negative') <= Capacity
        BY <2>5, RefusalsIs, Zenon
    <2> QED
        BY <2>2, <2>6, <2>7, IdentityNumbers
<1>3. CASE ~(Cardinality(Refusals) < Capacity)
    <2>1. Cardinality(Refusals) = Capacity
        BY <1>1, <1>3, FiniteRefusals, IdentityNumbers
    <2>2. Full /\ negative' = negative
        BY <1>3, <2>1, RefusalsIs DEF Identity!Deny
    <2>3. Refusals' = Refusals
        BY <2>2 DEF Refusals
    <2>4. Full' /\ Identity!Kept(negative') <= Capacity
        BY <1>1, <2>1, <2>3, RefusalsIs, Zenon
    <2> QED
        BY <1>1, <2>2, <2>4
<1> QED
    BY <1>2, <1>3

LEMMA RememberServed ==
    ASSUME Identity!IdentityInv, NEW r \in Callers, Identity!Remember(r)
    PROVE  Identity!IdentityInv'
<1>1. /\ BooksTyped /\ FlightTyped /\ CallsTyped /\ TripsTyped /\ WaitTrue /\ TripsTrue
      /\ Identity!Flights /\ Identity!Helpers /\ CacheAges /\ TripAges /\ CallAges /\ RefusalTrue
    BY IdentityParts
<1>2. /\ ask[r].step = "heard" /\ ask' = [ask EXCEPT ![r].step = "back"]
      /\ UNCHANGED <<flight, waiting, exchanges, helper>>
    BY DEF Identity!Remember, Identity!At
<1>3. ask \in [Callers -> Call] /\ ask[r] \in Call /\ waiting \in Int
    BY <1>1 DEF CallsTyped
<1>4. PICK q : q = [ask[r] EXCEPT !.step = "back"]
    OBVIOUS
<1>5. q \in Call /\ q.step = "back" /\ q.token = ask[r].token /\ q.answer = ask[r].answer
    BY <1>3, <1>4 DEF Call, Identity!Steps
<1>6. ask' = [ask EXCEPT ![r] = q]
    BY <1>2, <1>3, <1>4
<1>7. waiting' = waiting + One(Waits(ask[r].step)) - One(Waits(q.step))
    BY <1>2, <1>3, <1>5 DEF Waits, One
<1>8. q.answer.code = "ACTOR" => q.answer.age < DeadlineTicks
    BY <1>1, <1>2, <1>5 DEF CallAges
<1>9. (CallsTyped /\ WaitTrue /\ CallAges)' /\ \A t \in Callers : ask'[t] = IF t = r THEN q ELSE ask[t]
    BY <1>1, <1>5, <1>6, <1>7, <1>8, CallMoves
<1>10. Identity!Flights' /\ Identity!Helpers'
    BY <1>1, <1>2, <1>5, <1>9, FlightsMove, HelpersStay DEF Lead
<1>11. (FlightTyped /\ TripsTyped /\ TripsTrue /\ TripAges)'
    BY <1>1, <1>2 DEF FlightTyped, TripsTyped, TripsTrue, Trips, TripAges
<1>12. PICK t \in Tokens : t = ask[r].token
    BY <1>1, <1>2 DEF Identity!Flights, Identity!Leading
<1>13. BooksTyped' /\ CacheAges' /\ RefusalTrue'
    <2>1. CASE /\ ask[r].answer.code = "ACTOR" /\ negative' = negative
               /\ cache' = IF Identity!Kept(Identity!Lefts) < Capacity
                           THEN [cache EXCEPT ![t] = [left |-> CacheTicks, age |-> ask[r].answer.age]] ELSE cache
        <3>1. RefusalTrue'
            BY <1>1, <1>5, <1>9, <2>1, RefusalsMove
        <3>2. ask[r].answer.age \in Nat /\ ask[r].answer.age < DeadlineTicks
            BY <1>3, <1>5, <1>8, <2>1 DEF Call, Identity!Words
        <3>3. PICK e : e = [left |-> CacheTicks, age |-> ask[r].answer.age]
            OBVIOUS
        <3>4. e \in [left : Nat, age : Nat] /\ e.age + e.left < CacheTicks + DeadlineTicks
            BY <3>2, <3>3, IdentityNumbers
        <3>5. cache' = [cache EXCEPT ![t] = e] \/ cache' = cache
            BY <2>1, <3>3
        <3>6. /\ cache' \in [Tokens -> [left : Nat, age : Nat]]
              /\ \A u \in Tokens : cache'[u] = cache[u] \/ cache'[u] = e
            BY <1>1, <3>4, <3>5 DEF BooksTyped
        <3>7. CacheAges'
            BY <1>1, <3>4, <3>6 DEF CacheAges
        <3> QED
            BY <1>1, <2>1, <3>1, <3>6, <3>7 DEF BooksTyped
    <2>2. CASE ask[r].answer.code = "NOT_AUTHENTICATED" /\ Identity!Deny(t) /\ cache' = cache
        <3>1. /\ negative' \in [Tokens -> Nat] /\ Identity!Kept(negative') <= Capacity
              /\ negative'[t] > 0 \/ Full'
              /\ \A u \in Tokens : negative[u] > 0 \/ Full => negative'[u] > 0 \/ Full'
            BY <1>1, <2>2, DenyKeeps
        <3>2. ASSUME NEW u \in Callers, ask'[u].step = "back", ask'[u].answer.code = "NOT_AUTHENTICATED"
              PROVE  negative'[ask'[u].token] > 0 \/ Full'
            <4>1. CASE u = r
                BY <1>5, <1>9, <1>12, <3>1, <4>1
            <4>2. CASE u # r
                <5>1. ask'[u] = ask[u] /\ u \in Identity!Leading
                    BY <1>9, <3>2, <4>2 DEF Identity!Leading
                <5>2. ask[u].token \in Tokens
                    BY <1>1, <5>1 DEF Identity!Flights
                <5>3. negative[ask[u].token] > 0 \/ Full
                    BY <1>1, <3>2, <5>1 DEF RefusalTrue
                <5> QED
                    BY <3>1, <5>1, <5>2, <5>3
            <4> QED
                BY <4>1, <4>2
        <3>3. RefusalTrue'
            <4>1. Identity!Kept(negative)' <= Capacity
                BY <3>1 DEF Identity!Kept
            <4> QED
                BY <3>2, <4>1 DEF RefusalTrue
        <3>4. BooksTyped' /\ CacheAges'
            BY <1>1, <2>2, <3>1 DEF BooksTyped, CacheAges
        <3> QED
            BY <3>3, <3>4
    <2>3. CASE ask[r].answer.code \notin {"ACTOR", "NOT_AUTHENTICATED"} /\ UNCHANGED <<cache, negative>>
        <3>1. RefusalTrue'
            BY <1>1, <1>5, <1>9, <2>3, RefusalsMove
        <3> QED
            BY <1>1, <2>3, <3>1 DEF BooksTyped, CacheAges
    <2> QED
        BY <1>12, <2>1, <2>2, <2>3 DEF Identity!Remember
<1> QED
    BY <1>9, <1>10, <1>11, <1>13, IdentityPartsNext

LEMMA SettleServed ==
    ASSUME Identity!IdentityInv, NEW r \in Callers, Identity!Settle(r)
    PROVE  Identity!IdentityInv'
<1>1. /\ BooksTyped /\ FlightTyped /\ CallsTyped /\ TripsTyped /\ WaitTrue /\ TripsTrue
      /\ Identity!Flights /\ Identity!Helpers /\ CacheAges /\ TripAges /\ CallAges /\ RefusalTrue
    BY IdentityParts
<1>2. /\ ask[r].step = "back" /\ waiting' = waiting + 1 /\ UNCHANGED <<cache, negative, exchanges, helper>>
      /\ flight' = [flight EXCEPT ![ask[r].token] = Nobody]
    BY DEF Identity!Settle, Identity!At, Identity!LeaveFlight
<1>3. ask \in [Callers -> Call] /\ ask[r] \in Call /\ waiting \in Int /\ flight \in [Tokens -> Callers \cup {Nobody}]
    BY <1>1 DEF CallsTyped, FlightTyped
<1>4. PICK t : t = ask[r].token
    OBVIOUS
<1>5. t \in Tokens /\ flight[t] = r /\ r # Nobody /\ r \in Identity!Leading
    BY <1>1, <1>2, <1>4, IdentityIsBounded DEF Identity!Flights, Identity!Leading
<1>6. PICK q : q = [Identity!Resting EXCEPT !.step = "answered", !.answer = ask[r].answer]
    OBVIOUS
<1>7. q \in Call /\ q.step = "answered" /\ q.answer = ask[r].answer
    BY <1>3, <1>6 DEF Call, Identity!Resting, Identity!NoAnswer, Identity!Said, Identity!Words, Identity!Steps
<1>8. ask' = [u \in Callers |-> IF u = r THEN q ELSE Identity!Told(ask[u], t, ask[r].answer)]
    BY <1>4, <1>6 DEF Identity!Settle
<1>9. ASSUME NEW u \in Callers, u # r
      PROVE  /\ ask'[u] \in Call
             /\ \/ ask'[u] = ask[u]
                \/ ask[u].step = "shared" /\ ask'[u].step = "told" /\ ask'[u].answer = ask[r].answer
             /\ ask'[u].step = "shared" => ask'[u] = ask[u] /\ ask[u].token # t
    <2>1. ask'[u] = Identity!Told(ask[u], t, ask[r].answer) /\ ask[u] \in Call
        BY <1>3, <1>8, <1>9
    <2>2. ask[r].answer \in Identity!Words
        BY <1>3 DEF Call
    <2>3. CASE ask[u].step = "shared" /\ ask[u].token = t
        <3>1. ask'[u] = [ask[u] EXCEPT !.step = "told", !.answer = ask[r].answer]
            BY <2>1, <2>3 DEF Identity!Told
        <3> QED
            BY <2>1, <2>2, <2>3, <3>1 DEF Call, Identity!Steps
    <2>4. CASE ~(ask[u].step = "shared" /\ ask[u].token = t)
        <3>1. ask'[u] = ask[u]
            BY <2>1, <2>4 DEF Identity!Told
        <3>2. ask[u] \in Call
            BY <2>1
        <3> QED
            BY <2>4, <3>1, <3>2, Zenon
    <2> QED
        BY <2>3, <2>4
<1>10. ask'[r] = q /\ ask' \in [Callers -> Call]
    BY <1>7, <1>8, <1>9
<1>11. (CallsTyped /\ WaitTrue)'
    <2>1. Waiters' = Waiters \ {r}
        <3>1. \A u \in Callers : u # r => (ask'[u].step \in {"rest", "answered"} <=> ask[u].step \in {"rest", "answered"})
            BY <1>9
        <3> QED
            BY <1>7, <1>10, <3>1 DEF Waiters
    <2>2. r \in Waiters
        BY <1>2 DEF Waiters
    <2>3. Cardinality(Waiters') = Cardinality(Waiters) - 1
        BY <2>1, <2>2, FiniteWaits, FS_RemoveElement, Zenon
    <2>4. Cardinality(Waiters) \in Nat
        BY FiniteWaits, FS_CardinalityType
    <2>5. WaitTrue'
        BY <1>1, <1>2, <1>3, <2>3, <2>4, IdentityNumbers DEF WaitTrue
    <2>6. waiting' \in Int
        BY <1>2, <1>3
    <2> QED
        BY <1>10, <2>5, <2>6 DEF CallsTyped
<1>12. CallAges'
    <2>1. ask[r].answer.code = "ACTOR" => ask[r].answer.age < DeadlineTicks /\ ask[r].answer.age \in Nat
        BY <1>1, <1>2, <1>3 DEF CallAges, Call, Identity!Words
    <2>2. ask[r].answer.code = "ACTOR" => ask[r].answer.age < CacheTicks + DeadlineTicks
        BY <2>1, IdentityNumbers
    <2>3. ASSUME NEW u \in Callers, ask'[u].answer.code = "ACTOR"
          PROVE  /\ ask'[u].step \in {"heard", "back", "told"} => ask'[u].answer.age < DeadlineTicks
                 /\ ask'[u].step = "answered" => ask'[u].answer.age < CacheTicks + DeadlineTicks
        <3>1. CASE u = r
            BY <1>7, <1>10, <2>2, <2>3, <3>1
        <3>2. CASE u # r
            BY <1>1, <1>9, <2>1, <2>3, <3>2 DEF CallAges
        <3> QED
            BY <3>1, <3>2
    <2> QED
        BY <2>3 DEF CallAges
<1>13. RefusalTrue'
    <2>1. \A u \in Callers : ask'[u].step = "back" => ask'[u] = ask[u]
        BY <1>7, <1>9, <1>10
    <2> QED
        BY <1>1, <1>2, <2>1 DEF RefusalTrue, Full, Identity!Kept
<1>14. Identity!Helpers'
    <2>1. \A u \in Callers : ask[u].step = "exchange" => ask'[u] = ask[u]
        BY <1>2, <1>9
    <2>2. \A h \in Identity!Threads : helper[h].by \in Callers \cup {Nobody}
        BY <1>1 DEF TripsTyped, Trip
    <2> QED
        BY <1>1, <1>2, <2>1, <2>2
        DEF Identity!Helpers, Identity!At, Identity!Threads, Identity!NoHelper, Identity!NoAnswer, Identity!Said
<1>15. FlightTyped' /\ \A v \in Tokens : flight'[v] = IF v = t THEN Nobody ELSE flight[v]
    BY <1>2, <1>3, <1>4 DEF FlightTyped
<1>16. Identity!Flights'
    <2>1. Identity!Leading' = Identity!Leading \ {r}
        BY <1>7, <1>9, <1>10 DEF Identity!Leading
    <2>2. \A u \in Identity!Leading : u \in Callers /\ ask[u].token \in Tokens /\ flight[ask[u].token] = u
        BY <1>1 DEF Identity!Flights, Identity!Leading
    <2>3. \A u \in Identity!Leading : u # r => ask'[u] = ask[u] /\ ask[u].token # t
        BY <1>5, <1>9, <2>2 DEF Identity!Leading
    <2>4. \A u \in Identity!Leading' : ask'[u].token \in Tokens /\ flight'[ask'[u].token] = u
        BY <1>15, <2>1, <2>2, <2>3
    <2>5. ASSUME NEW v \in Tokens, flight'[v] # Nobody
          PROVE  flight'[v] \in Identity!Leading' /\ ask'[flight'[v]].token = v
        <3>1. v # t /\ flight'[v] = flight[v]
            BY <1>15, <2>5
        <3>2. flight[v] \in Identity!Leading /\ ask[flight[v]].token = v
            BY <1>1, <2>5, <3>1 DEF Identity!Flights
        <3>3. flight[v] # r
            BY <1>4, <3>1, <3>2
        <3> QED
            BY <2>1, <2>3, <3>1, <3>2, <3>3
    <2>6. ASSUME NEW u \in Callers, ask'[u].step = "shared"
          PROVE  ask'[u].token \in Tokens /\ flight'[ask'[u].token] # Nobody
        <3>1. u # r
            BY <1>7, <1>10, <2>6
        <3>2. ask'[u] = ask[u] /\ ask[u].token # t
            BY <1>9, <2>6, <3>1
        <3>3. ask[u].token \in Tokens /\ flight[ask[u].token] # Nobody
            BY <1>1, <2>6, <3>2 DEF Identity!Flights, Identity!At
        <3> QED
            BY <1>15, <3>2, <3>3
    <2> QED
        BY <2>4, <2>5, <2>6 DEF Identity!Flights, Identity!At
<1>17. (BooksTyped /\ TripsTyped /\ TripsTrue /\ CacheAges /\ TripAges)'
    BY <1>1, <1>2 DEF BooksTyped, TripsTyped, TripsTrue, Trips, CacheAges, TripAges
<1> QED
    BY <1>11, <1>12, <1>13, <1>14, <1>15, <1>16, <1>17, IdentityPartsNext

LEMMA ClockTicks ==
    ASSUME Identity!IdentityInv, Identity!Tick
    PROVE  Identity!IdentityInv'
<1>1. /\ BooksTyped /\ FlightTyped /\ CallsTyped /\ TripsTyped /\ WaitTrue /\ TripsTrue
      /\ Identity!Flights /\ Identity!Helpers /\ CacheAges /\ TripAges /\ CallAges /\ RefusalTrue
    BY IdentityParts
<1>2. /\ cache' = [t \in Tokens |-> Identity!Older(cache[t])] /\ negative' = [t \in Tokens |-> Identity!Less(negative[t])]
      /\ ask' = [r \in Callers |-> Identity!Waited(ask[r])]
      /\ helper' = [h \in Identity!Threads |-> Identity!Ran(helper[h])]
      /\ UNCHANGED <<flight, waiting, exchanges>>
    BY DEF Identity!Tick
<1>3. /\ cache \in [Tokens -> [left : Nat, age : Nat]] /\ negative \in [Tokens -> Nat] /\ ask \in [Callers -> Call]
      /\ helper \in [Identity!Threads -> Trip]
    BY <1>1 DEF BooksTyped, CallsTyped, TripsTyped
<1>4. ASSUME NEW n \in Nat PROVE Identity!Less(n) \in Nat /\ Identity!Less(n) <= n /\ (n > 0 => Identity!Less(n) = n - 1)
    BY DEF Identity!Less
<1>5. ASSUME NEW r \in Callers
      PROVE  /\ ask'[r] \in Call /\ ask'[r].step = ask[r].step /\ ask'[r].token = ask[r].token
             /\ ask'[r].answer = ask[r].answer
    <2>1. ask[r] \in Call /\ Identity!Less(ask[r].left) \in Nat
        BY <1>3, <1>4 DEF Call
    <2>2. ask'[r] = [ask[r] EXCEPT !.left = Identity!Less(ask[r].left)]
        BY <1>2 DEF Identity!Waited
    <2> QED
        BY <2>1, <2>2 DEF Call
<1>6. CallsTyped' /\ WaitTrue'
    <2>1. ask' \in [Callers -> Call]
        BY <1>2, <1>5
    <2>2. Waiters' = Waiters
        BY <1>5 DEF Waiters
    <2> QED
        BY <1>1, <1>2, <2>1, <2>2 DEF CallsTyped, WaitTrue
<1>7. CallAges'
    BY <1>1, <1>5 DEF CallAges
<1>8. FlightTyped' /\ Identity!Flights'
    <2>1. Identity!Leading' = Identity!Leading /\ \A r \in Identity!Leading : r \in Callers
        BY <1>5 DEF Identity!Leading
    <2> QED
        BY <1>1, <1>2, <1>5, <2>1 DEF FlightTyped, Identity!Flights, Identity!At
<1>9. BooksTyped' /\ CacheAges'
    <2>1. ASSUME NEW t \in Tokens
          PROVE  /\ cache'[t] \in [left : Nat, age : Nat] /\ negative'[t] \in Nat
                 /\ cache'[t].left > 0 => cache'[t].age + cache'[t].left < CacheTicks + DeadlineTicks
        <3>1. cache'[t] = Identity!Older(cache[t]) /\ negative'[t] = Identity!Less(negative[t])
            BY <1>2
        <3>2. cache[t].left \in Nat /\ cache[t].age \in Nat /\ negative[t] \in Nat
            BY <1>3
        <3>3. /\ cache'[t].left = Identity!Less(cache[t].left)
              /\ cache'[t].age = IF cache[t].left > 1 THEN cache[t].age + 1 ELSE 0
            BY <3>1 DEF Identity!Older
        <3>4. cache'[t].left \in Nat /\ cache'[t].age \in Nat /\ negative'[t] \in Nat
            BY <1>4, <3>1, <3>2, <3>3
        <3>5. cache'[t].left > 0 => cache'[t].age + cache'[t].left < CacheTicks + DeadlineTicks
            <4>1. CASE cache[t].left > 1
                <5>1. cache[t].age + cache[t].left < CacheTicks + DeadlineTicks
                    BY <1>1, <3>2, <4>1 DEF CacheAges
                <5>2. cache'[t].left = cache[t].left - 1 /\ cache'[t].age = cache[t].age + 1
                    BY <1>4, <3>2, <3>3, <4>1
                <5> QED
                    BY <3>2, <5>1, <5>2, IdentityNumbers
            <4>2. CASE ~(cache[t].left > 1)
                BY <3>2, <3>3, <4>2 DEF Identity!Less
            <4> QED
                BY <4>1, <4>2
        <3>6. cache'[t] = [left |-> cache'[t].left, age |-> cache'[t].age]
            BY <3>1 DEF Identity!Older
        <3> QED
            BY <3>4, <3>5, <3>6
    <2> QED
        BY <1>2, <2>1 DEF BooksTyped, CacheAges
<1>10. ASSUME NEW h \in Identity!Threads
       PROVE  /\ helper'[h] \in Trip /\ helper'[h].step = helper[h].step /\ helper'[h].by = helper[h].by
              /\ helper'[h].answer.age + helper'[h].left <= DeadlineTicks
              /\ helper[h] = Identity!NoHelper => helper'[h] = Identity!NoHelper
    <2>1. PICK age : age = IF helper[h].answer.age < DeadlineTicks /\ helper[h].step = "reading"
                           THEN helper[h].answer.age + 1 ELSE helper[h].answer.age
        OBVIOUS
    <2>2. PICK left : left = Identity!Less(helper[h].left)
        OBVIOUS
    <2>3. helper[h] \in Trip /\ helper[h].left \in Nat /\ helper[h].answer \in Identity!Words /\ helper[h].answer.age \in Nat
        BY <1>3 DEF Trip, Identity!Words
    <2>4. helper'[h] = [helper[h] EXCEPT !.left = left, !.answer = [helper[h].answer EXCEPT !.age = age]]
        <3>1. helper'[h] = Identity!Ran(helper[h])
            BY <1>2
        <3> QED
            BY <2>1, <2>2, <2>3, <3>1 DEF Identity!Ran, Trip
    <2>5. age \in Nat /\ left \in Nat
        BY <1>4, <2>1, <2>2, <2>3
    <2>6. age + left <= DeadlineTicks
        <3>1. helper[h].answer.age + helper[h].left <= DeadlineTicks
            BY <1>1 DEF TripAges
        <3>2. left <= helper[h].left /\ (helper[h].left > 0 => left = helper[h].left - 1)
            BY <1>4, <2>2, <2>3
        <3> QED
            BY <2>1, <2>3, <2>5, <3>1, <3>2, IdentityNumbers
    <2>7. [helper[h].answer EXCEPT !.age = age] \in Identity!Words
        BY <2>3, <2>5 DEF Identity!Words
    <2>8. helper'[h] \in Trip /\ helper'[h].step = helper[h].step /\ helper'[h].by = helper[h].by
        BY <2>3, <2>4, <2>5, <2>7 DEF Trip
    <2>9. helper'[h].left = left /\ helper'[h].answer.age = age
        BY <2>3, <2>4 DEF Trip, Identity!Words
    <2>10. ASSUME helper[h] = Identity!NoHelper PROVE helper'[h] = Identity!NoHelper
        <3>1. left = 0 /\ age = 0
            BY <2>1, <2>2, <2>10, NoHelperIs DEF Identity!Less
        <3>2. helper'[h].step = "none" /\ helper'[h].by = Nobody
            BY <2>8, <2>10, NoHelperIs
        <3>3. helper'[h].answer.code = "NONE" /\ helper'[h].answer = [code |-> "NONE", age |-> 0]
            BY <2>3, <2>4, <2>10, <3>1 DEF Trip, Identity!Words, Identity!NoHelper, Identity!NoAnswer, Identity!Said
        <3> QED
            BY <2>8, <2>9, <3>1, <3>2, <3>3 DEF Trip, Identity!NoHelper, Identity!NoAnswer, Identity!Said
    <2> QED
        BY <2>6, <2>8, <2>9, <2>10
<1>11. TripsTyped' /\ TripAges' /\ TripsTrue'
    <2>1. helper' \in [Identity!Threads -> Trip]
        BY <1>2, <1>10
    <2>2. \A h \in Identity!Threads : helper[h] # Identity!NoHelper => helper'[h] # Identity!NoHelper
        <3>1. \A h \in Identity!Threads : helper[h] # Identity!NoHelper => helper[h].step # "none"
            BY <1>1 DEF Identity!Helpers
        <3> QED
            BY <1>10, <3>1, NoHelperIs
    <2>3. Trips' = Trips
        BY <1>10, <2>2 DEF Trips, Identity!Threads, Identity!NoHelper, Identity!NoAnswer, Identity!Said
    <2>4. TripsTyped' /\ TripsTrue'
        BY <1>1, <1>2, <2>1, <2>3 DEF TripsTyped, TripsTrue, Identity!Threads, Trip, Identity!Words
    <2>5. TripAges'
        BY <1>10 DEF TripAges, Identity!Threads
    <2> QED
        BY <2>4, <2>5
<1>12. Identity!Helpers'
    <2>1. \A h \in Identity!Threads : helper[h].by \in Callers \cup {Nobody}
        BY <1>3 DEF Trip
    <2> QED
        BY <1>1, <1>5, <1>10, <2>1
        DEF Identity!Helpers, Identity!At, Identity!Threads, Identity!NoHelper, Identity!NoAnswer, Identity!Said
<1>13. RefusalTrue'
    <2>1. Refusals' \subseteq Refusals
        BY <1>2, <1>3 DEF Refusals, Identity!Less
    <2>2. Cardinality(Refusals') <= Cardinality(Refusals) /\ Cardinality(Refusals') \in Nat
        BY <2>1, FiniteRefusals, FS_Subset, FS_CardinalityType, Zenon
    <2>3. Cardinality(Refusals) <= Capacity
        BY <1>1, RefusalsIs DEF RefusalTrue
    <2>4. Cardinality(Refusals') <= Capacity
        BY <2>2, <2>3, FiniteRefusals, IdentityNumbers
    <2>5. Identity!Kept(negative') <= Capacity
        BY <2>4, RefusalsIs, Zenon
    <2>6. Identity!Kept(negative)' <= Capacity
        BY <2>5 DEF Identity!Kept
    <2>7. \A r \in Callers : ask'[r].step # "back"
        BY <1>5 DEF Identity!Tick, Identity!Runnable
    <2> QED
        BY <2>6, <2>7 DEF RefusalTrue
<1> QED
    BY <1>6, <1>7, <1>8, <1>9, <1>11, <1>12, <1>13, IdentityPartsNext

LEMMA InitAsked == Identity!Init => Identity!IdentityInv
<1> SUFFICES ASSUME Identity!Init PROVE Identity!IdentityInv
    OBVIOUS
<1>1. /\ cache = [t \in Tokens |-> [left |-> 0, age |-> 0]] /\ negative = [t \in Tokens |-> 0]
      /\ flight = [t \in Tokens |-> Nobody] /\ waiting = WaitingLimit /\ exchanges = WaitingLimit
      /\ ask = [r \in Callers |-> Identity!Resting] /\ helper = [h \in Identity!Threads |-> Identity!NoHelper]
    BY DEF Identity!Init
<1>2. Identity!Resting \in Call /\ Identity!Resting.step = "rest" /\ Identity!Resting.answer.code = "NONE"
    BY DEF Call, Identity!Resting, Identity!NoAnswer, Identity!Said, Identity!Words, Identity!Steps
<1>3. \A r \in Callers : ask[r] = Identity!Resting
    BY <1>1
<1>4. \A h \in Identity!Threads : helper[h] = Identity!NoHelper
    BY <1>1
<1>5. Waiters = {} /\ Trips = {} /\ Refusals = {} /\ Identity!Leading = {}
    BY <1>1, <1>2, <1>3, <1>4 DEF Waiters, Trips, Refusals, Identity!Leading
<1>6. BooksTyped /\ FlightTyped /\ CallsTyped /\ TripsTyped
    BY <1>1, <1>2, NoHelperIs, IdentityNumbers DEF BooksTyped, FlightTyped, CallsTyped, TripsTyped
<1>7. WaitTrue /\ TripsTrue
    BY <1>1, <1>5, FS_EmptySet, IdentityNumbers DEF WaitTrue, TripsTrue
<1>8. Identity!Flights
    BY <1>1, <1>2, <1>3, <1>5 DEF Identity!Flights, Identity!At
<1>9. Identity!Helpers
    BY <1>4, NoHelperIs DEF Identity!Helpers
<1>10. CacheAges /\ TripAges /\ CallAges
    BY <1>1, <1>2, <1>3, <1>4, NoHelperIs, IdentityNumbers DEF CacheAges, TripAges, CallAges
<1>11. RefusalTrue
    <2>1. Cardinality(Refusals) <= Capacity
        BY <1>5, FS_EmptySet, IdentityNumbers
    <2>2. Identity!Kept(negative) <= Capacity
        BY <2>1, RefusalsIs, Zenon
    <2> QED
        BY <1>2, <1>3, <2>2 DEF RefusalTrue
<1> QED
    BY <1>6, <1>7, <1>8, <1>9, <1>10, <1>11, IdentityParts

LEMMA IdentityStill == ASSUME Identity!IdentityInv, UNCHANGED Identity!vars PROVE Identity!IdentityInv'
<1>1. UNCHANGED <<cache, negative, flight, waiting, exchanges, ask, helper>>
    BY DEF Identity!vars, Identity!remembered
<1>2. TripsTyped /\ TripsTrue /\ TripAges /\ Identity!Helpers
    BY IdentityParts
<1>3. TripsTyped' /\ TripsTrue' /\ TripAges'
    BY <1>1, <1>2 DEF TripsTyped, TripsTrue, Trips, TripAges
<1>4. Identity!Helpers'
    BY <1>1, <1>2 DEF Identity!Helpers, Identity!At
<1> QED
    BY <1>1, <1>3, <1>4, TripsOnly, IdentityPartsNext

LEMMA NextAsked ==
    ASSUME Identity!IdentityInv, [Identity!Next]_(Identity!vars)
    PROVE  Identity!IdentityInv'
<1>1. ASSUME NEW r \in Callers, Identity!Run(r) PROVE Identity!IdentityInv'
    BY <1>1, ExchangeServed, AbandonServed, RememberServed, SettleServed, SharedServed, LeaveAsk, Zenon
    DEF Identity!Run
<1>2. ASSUME NEW r \in Callers, NEW t \in Tokens, Identity!Ask(r, t) PROVE Identity!IdentityInv'
    BY <1>2, AskServed
<1>3. ASSUME NEW h \in Identity!Threads, Identity!Judge(h) \/ Identity!Finish(h) PROVE Identity!IdentityInv'
    BY <1>3, JudgeServed, FinishServed
<1>4. CASE Identity!Tick
    BY <1>4, ClockTicks
<1>5. CASE UNCHANGED Identity!vars
    BY <1>5, IdentityStill
<1> QED
    BY <1>1, <1>2, <1>3, <1>4, <1>5, Zenon DEF Identity!Next

LEMMA IdentityInvSound == Identity!IdentityInv => Identity!IdentitySound
<1> SUFFICES ASSUME Identity!IdentityInv PROVE Identity!IdentitySound
    OBVIOUS
<1>1. FlightTyped /\ Identity!Flights
    BY IdentityParts
<1>2. ASSUME NEW t \in Tokens
      PROVE  {r \in Identity!Leading : ask[r].token = t} = {flight[t]} \ {Nobody}
    <2>1. \A r \in Identity!Leading : r \in Callers /\ r # Nobody /\ (ask[r].token = t => flight[t] = r)
        BY <1>1, IdentityIsBounded DEF Identity!Flights, Identity!Leading
    <2>2. flight[t] # Nobody => flight[t] \in Identity!Leading /\ ask[flight[t]].token = t
        BY <1>1 DEF Identity!Flights
    <2> QED
        BY <2>1, <2>2
<1>3. Identity!OneFlight
    BY <1>1, <1>2 DEF Identity!OneFlight, Identity!Flights
<1>4. Identity!Balanced /\ Identity!AnswersAge /\ Identity!RefusalHolds
    BY Zenon DEF Identity!IdentityInv
<1> QED
    BY <1>3, <1>4 DEF Identity!IdentitySound

IdentityPart == part = "identity" => Identity!IdentityInv

LEMMA IdentityPartNext == ASSUME IdentityPart, [MCNext]_mcvars PROVE IdentityPart'
<1> SUFFICES ASSUME part' = "identity" PROVE Identity!IdentityInv'
    BY DEF IdentityPart
<1>1. CASE UNCHANGED mcvars
    <2>1. part = "identity" /\ UNCHANGED others
        BY <1>1 DEF mcvars
    <2>2. UNCHANGED Identity!vars
        BY <2>1 DEF others, Identity!vars, Identity!remembered
    <2> QED
        BY <2>1, <2>2, NextAsked DEF IdentityPart
<1>2. CASE MCNext
    <2>1. part' = part
        BY <1>2, Zenon DEF MCNext
    <2>2. Identity!Next
        BY <1>2, <2>1, Zenon DEF MCNext
    <2> QED
        BY <2>1, <2>2, NextAsked DEF IdentityPart
<1> QED
    BY <1>1, <1>2

\* Who is asking (api/identity.py): for any callers, any tokens and any times and limits,
\* and however the workspace answers, stalls or faults, a token is looked up once at a
\* time and by the request its flight names; every permit out is a request's or a helper's;
\* nobody is taken for a user on a word older than the cache's time and a lookup's; and a
\* refusal is remembered unless its book is full.
THEOREM IdentitySoundHolds == MCSpec => []IdentitySound
<1>1. MCInit => IdentityPart
    <2> SUFFICES ASSUME MCInit, part = "identity" PROVE Identity!IdentityInv
        BY DEF IdentityPart
    <2>1. Identity!Init
        BY Zenon DEF MCInit
    <2> QED
        BY <2>1, InitAsked
<1>2. IdentityPart /\ [MCNext]_mcvars => IdentityPart'
    BY IdentityPartNext
<1>3. IdentityPart => IdentitySound
    BY IdentityInvSound DEF IdentityPart, IdentitySound
<1> QED
    BY <1>1, <1>2, <1>3, PTL DEF MCSpec

-----------------------------------------------------------------------------
(* The console, by the names its state has in Console: the flight is the   *)
(* read under way, what is held is the screen's.                           *)

server == x1
seq == x2
reading == x3
extra == x4
screen == x5
view == x6
tail == x7
older == x9
untold == x10

USE DEF server, seq, reading, extra, screen, view, tail, older, untold

AnswerType == Console!Documents \cup {Console!Empty, Console!Unavailable, Console!Fault}
ReadType == [n : Nat, answer : AnswerType]
FlightType == [n : Nat, dirty : BOOLEAN, answer : AnswerType, asked : BOOLEAN]
Shows == Console!Documents \cup {Console!Loading, Console!Unavailable, Console!Fault}
ScreenType == [displayed : Shows, of : Nat, pending : Console!Documents \cup {Console!Empty}, pend : Nat,
               interrupted : BOOLEAN, n : Nat]
ViewType == [live : Console!Documents \cup {Console!Empty}, n : Nat, seen : Nat, failed : BOOLEAN, mount : Nat]
TailSteps == {"connecting", "opened", "open", "asking", "waiting", "closed"}
TailType == [state : TailSteps, news : BOOLEAN, paused : BOOLEAN, marked : BOOLEAN]
Doc(a) == Console!IsDocument(a)

LEMMA KindsAre ==
    /\ \A d \in Console!Documents : Doc(d) /\ d.v \in Nat /\ d.id \in Nat
    /\ ~Doc(Console!Empty) /\ ~Doc(Console!Loading) /\ ~Doc(Console!Unavailable) /\ ~Doc(Console!Fault)
    /\ Console!Empty.v = 0 /\ Console!Unavailable.kind = "unavailable" /\ Console!Fault.kind = "fault"
    /\ Console!Unavailable # Console!Empty /\ Console!Fault # Console!Empty
    BY DEF Doc, Console!IsDocument, Console!Documents, Console!Empty, Console!Loading, Console!Unavailable, Console!Fault

LEMMA ConsoleTypes ==
    ASSUME Console!Typed
    PROVE  /\ server.v \in 0..MaxChanges /\ server.id \in Nat /\ server.gone \in BOOLEAN /\ server.remounts \in BOOLEAN
           /\ older \in BOOLEAN /\ untold \in BOOLEAN /\ seq \in Nat /\ seq # 0
           /\ reading \in FlightType /\ extra \in ReadType /\ screen \in ScreenType /\ view \in ViewType /\ tail \in TailType
    BY DEF Console!Typed, FlightType, ReadType, ScreenType, ViewType, TailType, TailSteps, AnswerType, Shows

LEMMA FlightFields ==
    ASSUME NEW f \in FlightType
    PROVE  f.n \in Nat /\ f.dirty \in BOOLEAN /\ f.answer \in AnswerType /\ f.asked \in BOOLEAN
    BY DEF FlightType

LEMMA ReadFields == ASSUME NEW r \in ReadType PROVE r.n \in Nat /\ r.answer \in AnswerType
    BY DEF ReadType

LEMMA ScreenFields ==
    ASSUME NEW h \in ScreenType
    PROVE  /\ h.displayed \in Shows /\ h.of \in Nat /\ h.pending \in Console!Documents \cup {Console!Empty}
           /\ h.pend \in Nat /\ h.interrupted \in BOOLEAN /\ h.n \in Nat
    BY DEF ScreenType

LEMMA ViewFields ==
    ASSUME NEW v \in ViewType
    PROVE  /\ v.live \in Console!Documents \cup {Console!Empty} /\ v.n \in Nat /\ v.seen \in Nat
           /\ v.failed \in BOOLEAN /\ v.mount \in Nat
    BY DEF ViewType

LEMMA NothingIs ==
    /\ Console!NoFlight \in FlightType /\ Console!NoFlight.n = 0 /\ Console!NoFlight.answer = Console!Empty
    /\ Console!NoFlight.dirty = FALSE
    /\ Console!NoRead \in ReadType /\ Console!NoRead.n = 0 /\ Console!NoRead.answer = Console!Empty
    /\ Console!NoView \in ViewType /\ Console!NoView.n = 0 /\ Console!NoView.live = Console!Empty
    /\ Console!NoView.mount = 0
    /\ \A m \in Nat : LET f == [Console!NoFlight EXCEPT !.n = m]
                      IN  f \in FlightType /\ f.n = m /\ f.answer = Console!Empty /\ f.dirty = FALSE
    BY DEF Console!NoFlight, Console!NoRead, Console!NoView, FlightType, ReadType, ViewType, AnswerType

\* What adopt makes of an answer.
Taken(h, a, m) == h.displayed = a /\ h.of = m /\ h.pending = Console!Empty /\ h.pend = 0
Kept(h) == h.displayed = screen.displayed /\ h.of = screen.of
LEMMA AdoptIs ==
    ASSUME screen \in ScreenType, NEW a \in AnswerType, a # Console!Empty, NEW m \in Nat
    PROVE  LET h == Console!Adopt(a, m)
           IN  /\ h \in ScreenType /\ h.n = m
               /\ \/ Taken(h, a, m) /\ (~Doc(screen.displayed) \/ ~Doc(a))
                  \/ Taken(h, a, m) /\ Doc(screen.displayed) /\ Doc(a) /\ a.id = screen.displayed.id
                  \/ /\ Kept(h) /\ Doc(h.displayed) /\ ~Doc(a) /\ h.interrupted
                     /\ h.pending = screen.pending /\ h.pend = screen.pend
                  \/ /\ Kept(h) /\ Doc(h.displayed) /\ Doc(a)
                     /\ h.pending = a /\ h.pend = m
<1>1. screen.displayed \in Shows /\ a \in Shows
    BY ScreenFields DEF AnswerType, Shows
<1> DEFINE fresh == [displayed |-> a, of |-> m, pending |-> Console!Empty, pend |-> 0, interrupted |-> FALSE, n |-> m]
<1>2. fresh \in ScreenType /\ fresh.n = m /\ Taken(fresh, a, m)
    BY <1>1 DEF ScreenType, Taken
<1>3. CASE ~Doc(screen.displayed)
    <2>1. Console!Adopt(a, m) = fresh
        BY <1>3 DEF Console!Adopt, Doc
    <2> QED
        BY <1>2, <1>3, <2>1
<1>4. CASE Doc(screen.displayed) /\ a = Console!Unavailable
    <2>1. Console!Adopt(a, m) = fresh
        BY <1>4, KindsAre DEF Console!Adopt, Doc
    <2> QED
        BY <1>2, <1>4, <2>1, KindsAre
<1>5. CASE Doc(screen.displayed) /\ a = Console!Fault
    <2> DEFINE h == [screen EXCEPT !.interrupted = TRUE, !.n = m]
    <2>1. Console!Adopt(a, m) = h
        BY <1>5, KindsAre DEF Console!Adopt, Doc, Console!IsDocument
    <2>2. /\ h \in ScreenType /\ h.n = m /\ h.interrupted /\ h.pending = screen.pending /\ h.pend = screen.pend
          /\ h.displayed = screen.displayed /\ h.of = screen.of
        BY DEF ScreenType
    <2> QED
        BY <1>5, <2>1, <2>2, KindsAre DEF Kept
<1>6. CASE Doc(screen.displayed) /\ a \in Console!Documents /\ a.id = screen.displayed.id
    <2>1. Console!Adopt(a, m) = fresh
        BY <1>6, KindsAre DEF Console!Adopt, Doc, Console!IsDocument
    <2> QED
        BY <1>2, <1>6, <2>1, KindsAre
<1>7. CASE Doc(screen.displayed) /\ a \in Console!Documents /\ a.id # screen.displayed.id
    <2> DEFINE h == [screen EXCEPT !.pending = a, !.pend = m, !.interrupted = FALSE, !.n = m]
    <2>1. Console!Adopt(a, m) = h
        BY <1>7, KindsAre DEF Console!Adopt, Doc, Console!IsDocument
    <2>2. /\ h \in ScreenType /\ h.n = m /\ h.pending = a /\ h.pend = m
          /\ h.displayed = screen.displayed /\ h.of = screen.of
        BY <1>7 DEF ScreenType
    <2> QED
        BY <1>7, <2>1, <2>2, KindsAre DEF Kept
<1> QED
    BY <1>3, <1>4, <1>5, <1>6, <1>7 DEF AnswerType

\* What a render makes of the screen: a view mounted anew or given a later document, or the
\* view there was with a prop it has seen.
Anew(h) == view.mount # Console!MountOf(h.displayed) \/ (view.seen # h.of /\ h.n >= view.n)
LEMMA RenderedIs ==
    ASSUME Console!Typed, NEW h \in ScreenType
    PROVE  LET v == Console!Rendered(h)
           IN  /\ v \in ViewType
               /\ ~Doc(h.displayed) => v = Console!NoView
               /\ Doc(h.displayed) =>
                    /\ v.mount = Console!MountOf(h.displayed) /\ v.mount # 0 /\ v.seen = h.of
                    /\ Anew(h) => v.live = h.displayed /\ v.n = h.n /\ ~v.failed
                    /\ ~Anew(h) => v.live = view.live /\ v.n = view.n /\ v.failed = view.failed /\ v.mount = view.mount
<1>1. CASE ~Doc(h.displayed)
    BY <1>1, NothingIs DEF Console!Rendered, Doc
<1>2. CASE Doc(h.displayed)
    <2>1. h.displayed \in Console!Documents /\ h.of \in Nat /\ h.n \in Nat
        BY <1>2, ScreenFields, KindsAre DEF Shows
    <2>2. Console!MountOf(h.displayed) \in Nat /\ Console!MountOf(h.displayed) # 0
        BY <2>1, KindsAre DEF Console!MountOf
    <2>3. view \in ViewType
        BY ConsoleTypes
    <2>4. CASE Anew(h)
        <3> DEFINE v == [live |-> h.displayed, n |-> h.n, seen |-> h.of, failed |-> FALSE, mount |-> Console!MountOf(h.displayed)]
        <3>1. Console!Rendered(h) = v
            BY <1>2, <2>4 DEF Console!Rendered, Doc, Anew
        <3>2. v \in ViewType
            BY <2>1, <2>2 DEF ViewType
        <3> QED
            BY <1>2, <2>2, <2>4, <3>1, <3>2
    <2>5. CASE ~Anew(h)
        <3> DEFINE v == [view EXCEPT !.seen = h.of]
        <3>1. Console!Rendered(h) = v
            BY <1>2, <2>5 DEF Console!Rendered, Doc, Anew
        <3>2. /\ v \in ViewType /\ v.live = view.live /\ v.n = view.n /\ v.failed = view.failed /\ v.mount = view.mount
              /\ v.seen = h.of
            BY <2>1, <2>3 DEF ViewType
        <3>3. view.mount = Console!MountOf(h.displayed)
            BY <2>5 DEF Anew
        <3> HIDE DEF v
        <3> QED
            BY <1>2, <2>2, <2>5, <3>1, <3>2, <3>3
    <2> QED
        BY <2>4, <2>5
<1> QED
    BY <1>1, <1>2

\* Forward, read by read.
Ahead(n, a) ==
    Doc(a) => /\ a.v <= server.v
              /\ n = seq => view.live.v <= a.v /\ (screen.pending # Console!Empty => screen.pending.v <= a.v)
LiveBehind == view.live.v <= server.v
WaitsAhead ==
    screen.pending # Console!Empty =>
        screen.pending.v <= server.v /\ (screen.pend >= view.n => view.live.v <= screen.pending.v)
FlightAhead == Ahead(reading.n, reading.answer)
ExtraAhead == Ahead(extra.n, extra.answer)

LEMMA ForwardIs == Console!Forward <=> LiveBehind /\ WaitsAhead /\ FlightAhead /\ ExtraAhead
    BY DEF Console!Forward, LiveBehind, WaitsAhead, FlightAhead, ExtraAhead, Ahead, Doc

LEMMA ForwardNext == Console!Forward' <=> (LiveBehind /\ WaitsAhead /\ FlightAhead /\ ExtraAhead)'
    BY ForwardIs, PTL

LEMMA ConsoleParts ==
    Console!ConsoleInv <=>
        Console!Typed /\ Console!Numbered /\ Console!Mounted /\ Console!LatestTrue /\ Console!Forward
    BY DEF Console!ConsoleInv

LEMMA ConsolePartsNext ==
    Console!ConsoleInv' <=>
        (Console!Typed /\ Console!Numbered /\ Console!Mounted /\ Console!LatestTrue /\ Console!Forward)'
    BY ConsoleParts, PTL

\* The types of a step's state, found one by one.
LEMMA TypedNow ==
    ASSUME server \in [v : 0..MaxChanges, id : Nat, gone : BOOLEAN, remounts : BOOLEAN],
           older \in BOOLEAN, untold \in BOOLEAN,
           seq \in Nat \ {0}, reading \in FlightType, extra \in ReadType, screen \in ScreenType,
           view \in ViewType, tail \in TailType
    PROVE  Console!Typed
    BY DEF Console!Typed, FlightType, ReadType, ScreenType, ViewType, TailType, TailSteps, AnswerType, Shows

LEMMA TypedNext ==
    ASSUME server' \in [v : 0..MaxChanges, id : Nat, gone : BOOLEAN, remounts : BOOLEAN],
           older' \in BOOLEAN, untold' \in BOOLEAN,
           seq' \in Nat \ {0}, reading' \in FlightType, extra' \in ReadType, screen' \in ScreenType,
           view' \in ViewType, tail' \in TailType
    PROVE  Console!Typed'
    BY DEF Console!Typed, FlightType, ReadType, ScreenType, ViewType, TailType, TailSteps, AnswerType, Shows

LEMMA ServerIs ==
    ASSUME Console!Typed PROVE server \in [v : 0..MaxChanges, id : Nat, gone : BOOLEAN, remounts : BOOLEAN]
    BY DEF Console!Typed

\* A read is asked for: one begins, or the one under way will be flown again.
LEMMA LoadIs ==
    ASSUME Console!Typed, Console!Load(FALSE) \/ Console!Load(TRUE)
    PROVE  /\ reading' \in FlightType /\ untold' = FALSE
           /\ \/ /\ reading.n = 0 /\ seq' = seq + 1 /\ reading'.n = seq + 1 /\ ~reading'.dirty
                 /\ reading'.answer = Console!Empty
              \/ /\ reading.n # 0 /\ seq' = seq /\ reading'.n = reading.n /\ reading'.dirty
                 /\ reading'.answer = reading.answer
<1>1. reading \in FlightType /\ seq \in Nat /\ untold' = FALSE
    BY ConsoleTypes DEF Console!Load
<1>2. CASE reading.n = 0
    <2>1. /\ \E b \in BOOLEAN : reading' = [n |-> seq + 1, dirty |-> FALSE, answer |-> Console!Empty, asked |-> b]
          /\ seq' = seq + 1
        BY <1>2 DEF Console!Load
    <2> QED
        BY <1>1, <1>2, <2>1 DEF FlightType, AnswerType
<1>3. CASE reading.n # 0
    <2>1. reading' = [reading EXCEPT !.dirty = TRUE] /\ seq' = seq
        BY <1>3 DEF Console!Load, Console!Dirtied
    <2> QED
        BY <1>1, <1>3, <2>1 DEF FlightType
<1> QED
    BY <1>2, <1>3

LEMMA LoadKept ==
    ASSUME Console!ConsoleInv, Console!Load(FALSE) \/ Console!Load(TRUE),
           UNCHANGED <<server, extra, screen, view, older>>, tail' \in TailType
    PROVE  Console!ConsoleInv'
<1>1. Console!Typed /\ Console!Numbered /\ Console!Mounted /\ LiveBehind /\ WaitsAhead /\ FlightAhead /\ ExtraAhead
    BY ConsoleParts, ForwardIs
<1>2. /\ reading' \in FlightType /\ untold' = FALSE
      /\ \/ /\ reading.n = 0 /\ seq' = seq + 1 /\ reading'.n = seq + 1 /\ ~reading'.dirty
            /\ reading'.answer = Console!Empty
         \/ /\ reading.n # 0 /\ seq' = seq /\ reading'.n = reading.n /\ reading'.dirty
            /\ reading'.answer = reading.answer
    BY <1>1, LoadIs
<1>3. /\ seq \in Nat /\ seq # 0 /\ older \in BOOLEAN /\ untold \in BOOLEAN
      /\ screen \in ScreenType /\ view \in ViewType /\ extra \in ReadType
      /\ reading \in FlightType
    BY <1>1, ConsoleTypes
<1>4. Console!Typed'
    <2>1. untold' \in BOOLEAN
        BY <1>2, Zenon
    <2>2. seq' = seq \/ seq' = seq + 1
        BY <1>2
    <2>3. seq' \in Nat \ {0}
        BY <1>3, <2>2
    <2> QED
        BY <1>1, <1>2, <1>3, <2>1, <2>3, ServerIs, TypedNext
<1>5. /\ reading.n \in Nat /\ extra.n \in Nat /\ screen.of \in Nat /\ screen.n \in Nat /\ view.n \in Nat
      /\ screen.pend \in Nat
    BY <1>3, FlightFields, ReadFields, ScreenFields, ViewFields
<1>6. Console!Numbered'
    BY <1>1, <1>2, <1>3, <1>5 DEF Console!Numbered
<1>7. Console!Mounted'
    BY <1>1 DEF Console!Mounted, Console!MountOf
<1>8. Console!LatestTrue'
    BY <1>2, KindsAre DEF Console!LatestTrue, Console!AsServed, Doc
<1>9. LiveBehind' /\ WaitsAhead'
    BY <1>1 DEF LiveBehind, WaitsAhead
<1>10. FlightAhead'
    BY <1>1, <1>2, KindsAre DEF FlightAhead, Ahead
<1>11. ExtraAhead'
    <2>1. extra.n = seq' => extra.n = seq
        BY <1>1, <1>2, <1>3, <1>5 DEF Console!Numbered
    <2> QED
        BY <1>1, <2>1 DEF ExtraAhead, Ahead
<1> QED
    BY <1>4, <1>6, <1>7, <1>8, <1>9, <1>10, <1>11, ConsolePartsNext, ForwardNext

\* The stream moves, and is not still unless it was.
LEMMA TailKept ==
    ASSUME Console!ConsoleInv, UNCHANGED <<server, seq, reading, extra, screen, view, older, untold>>,
           tail' \in TailType, Console!Still' => Console!Still
    PROVE  Console!ConsoleInv'
<1>1. Console!Typed /\ Console!Numbered /\ Console!Mounted /\ Console!LatestTrue /\ Console!Forward
    BY ConsoleParts
<1>2. Console!Typed'
    BY <1>1, ConsoleTypes, ServerIs, TypedNext
<1>3. Console!Numbered' /\ Console!Mounted' /\ Console!Forward'
    BY <1>1 DEF Console!Numbered, Console!Mounted, Console!Forward, Console!MountOf
<1>4. Console!LatestTrue'
    BY <1>1 DEF Console!LatestTrue, Console!AsServed, Console!Marked
<1> QED
    BY <1>2, <1>3, <1>4, ConsolePartsNext

\* The server moves.
LEMMA ChangeKept ==
    ASSUME Console!ConsoleInv, Console!Change
    PROVE  Console!ConsoleInv'
<1>1. Console!Typed /\ Console!Numbered /\ Console!Mounted /\ LiveBehind /\ WaitsAhead /\ FlightAhead /\ ExtraAhead
    BY ConsoleParts, ForwardIs
<1>2. /\ server.v < MaxChanges /\ UNCHANGED <<seq, reading, extra, screen, view, older>>
      /\ tail' = [tail EXCEPT !.news = @ \/ tail.marked \/ tail.state = "open"]
      /\ untold' = (untold \/ (tail.state = "opened" /\ ~tail.marked /\ ~Console!Coming))
    BY DEF Console!Change
<1>3. PICK id \in {server.id, server.v + 1} : server' = [server EXCEPT !.v = @ + 1, !.id = id]
    BY DEF Console!Change
<1>4. /\ server' \in [v : 0..MaxChanges, id : Nat, gone : BOOLEAN, remounts : BOOLEAN]
      /\ server'.v = server.v + 1 /\ server'.remounts = server.remounts
    <2>1. server.v + 1 \in 0..MaxChanges /\ id \in Nat
        BY <1>1, <1>2, ConsoleTypes, ConsoleIsBounded
    <2> QED
        BY <1>1, <1>3, <2>1, ServerIs
<1>5. tail' \in TailType /\ untold' \in BOOLEAN /\ (Console!Still' => Console!Coming)
    <2>1. tail \in TailType
        BY <1>1, ConsoleTypes
    <2>2. (tail.news \/ tail.marked \/ tail.state = "open") \in BOOLEAN /\ untold' \in BOOLEAN
        BY <1>2
    <2>3. /\ tail' \in TailType /\ tail'.state = tail.state
          /\ tail'.news = (tail.news \/ tail.marked \/ tail.state = "open")
        BY <1>2, <2>1, <2>2 DEF TailType
    <2> QED
        BY <1>2, <2>2, <2>3 DEF Console!Still
<1>6. Console!Typed'
    BY <1>1, <1>2, <1>4, <1>5, ConsoleTypes, TypedNext
<1>7. Console!Numbered' /\ Console!Mounted'
    BY <1>1, <1>2, <1>4 DEF Console!Numbered, Console!Mounted, Console!MountOf
<1>8. Console!LatestTrue'
    BY <1>2, <1>5, KindsAre DEF Console!LatestTrue, Console!Coming, Console!AsServed, Doc
<1>9. \A n \in Nat : n <= server.v => n <= server'.v
    BY <1>1, <1>4, ConsoleTypes
<1>10. /\ view.live.v \in Nat /\ (screen.pending # Console!Empty => screen.pending.v \in Nat)
       /\ \A a \in AnswerType : Doc(a) => a.v \in Nat
    BY <1>1, ConsoleTypes, ViewFields, ScreenFields, KindsAre DEF AnswerType
<1>11. LiveBehind' /\ WaitsAhead'
    BY <1>1, <1>2, <1>9, <1>10 DEF LiveBehind, WaitsAhead
<1>12. FlightAhead' /\ ExtraAhead'
    <2>1. reading.answer \in AnswerType /\ extra.answer \in AnswerType
        BY <1>1, ConsoleTypes, FlightFields, ReadFields
    <2> QED
        BY <1>1, <1>2, <1>9, <1>10, <2>1 DEF FlightAhead, ExtraAhead, Ahead
<1> QED
    BY <1>6, <1>7, <1>8, <1>11, <1>12, ConsolePartsNext, ForwardNext

LEMMA RevokeKept ==
    ASSUME Console!ConsoleInv, Console!Revoke
    PROVE  Console!ConsoleInv'
<1>1. Console!Typed /\ Console!Numbered /\ Console!Mounted /\ Console!LatestTrue /\ Console!Forward
    BY ConsoleParts
<1>2. server' = [server EXCEPT !.gone = TRUE] /\ UNCHANGED <<seq, reading, extra, screen, view, tail, older, untold>>
    BY DEF Console!Revoke
<1>3. /\ server' \in [v : 0..MaxChanges, id : Nat, gone : BOOLEAN, remounts : BOOLEAN]
      /\ server'.v = server.v /\ server'.remounts = server.remounts
    BY <1>1, <1>2, ServerIs
<1>4. Console!Typed'
    BY <1>1, <1>2, <1>3, ConsoleTypes, TypedNext
<1>5. Console!Numbered' /\ Console!Mounted' /\ Console!Forward'
    BY <1>1, <1>2, <1>3 DEF Console!Numbered, Console!Mounted, Console!Forward, Console!MountOf
<1>6. Console!LatestTrue'
    BY <1>1, <1>2, <1>3 DEF Console!LatestTrue, Console!Still, Console!AsServed, Console!Marked
<1> QED
    BY <1>4, <1>5, <1>6, ConsolePartsNext

\* What a read may be answered with: what there is now.
LEMMA AnswersAre ==
    ASSUME Console!Typed, NEW a \in Console!Answers
    PROVE  a \in AnswerType /\ a # Console!Empty /\ (Doc(a) => a.v = server.v)
<1>1. CASE a \in {Console!Unavailable, Console!Fault}
    BY <1>1, KindsAre DEF AnswerType
<1>2. CASE a = [kind |-> "document", v |-> server.v, id |-> server.id]
    <2>1. a \in Console!Documents
        BY <1>2, ConsoleTypes, ConsoleIsBounded DEF Console!Documents
    <2> QED
        BY <1>2, <2>1, KindsAre DEF AnswerType
<1> QED
    BY <1>1, <1>2 DEF Console!Answers

LEMMA AnsweredAhead ==
    ASSUME Console!Typed, LiveBehind, WaitsAhead, NEW a, NEW n, Doc(a) => a.v = server.v
    PROVE  Ahead(n, a)
    BY ConsoleTypes, ConsoleIsBounded DEF Ahead, LiveBehind, WaitsAhead

LEMMA ServeKept ==
    ASSUME Console!ConsoleInv, Console!Serve
    PROVE  Console!ConsoleInv'
<1>1. /\ Console!Typed /\ Console!Numbered /\ Console!Mounted /\ Console!LatestTrue
      /\ LiveBehind /\ WaitsAhead /\ FlightAhead /\ ExtraAhead
    BY ConsoleParts, ForwardIs
<1>2. reading.n # 0 /\ UNCHANGED <<server, seq, extra, screen, view, tail, older, untold>>
    BY DEF Console!Serve
<1>3. PICK a \in Console!Answers : reading' = [reading EXCEPT !.answer = a]
    BY DEF Console!Serve
<1>4. a \in AnswerType /\ (Doc(a) => a.v = server.v)
    BY <1>1, AnswersAre
<1>5. reading' \in FlightType /\ reading'.n = reading.n /\ reading'.dirty = reading.dirty /\ reading'.answer = a
    BY <1>1, <1>3, <1>4, ConsoleTypes DEF FlightType
<1>6. Console!Typed'
    BY <1>1, <1>2, <1>5, ConsoleTypes, ServerIs, TypedNext
<1>7. Console!Numbered' /\ Console!Mounted'
    BY <1>1, <1>2, <1>5 DEF Console!Numbered, Console!Mounted, Console!MountOf
<1>8. Console!LatestTrue'
    BY <1>1, <1>2, <1>4, <1>5 DEF Console!LatestTrue, Console!Still, Console!AsServed, Console!Marked, Doc
<1>9. FlightAhead'
    <2>1. Ahead(reading.n, a)
        BY <1>1, <1>4, AnsweredAhead
    <2> QED
        BY <1>2, <1>5, <2>1 DEF FlightAhead, Ahead
<1>10. LiveBehind' /\ WaitsAhead' /\ ExtraAhead'
    BY <1>1, <1>2 DEF LiveBehind, WaitsAhead, ExtraAhead, Ahead
<1> QED
    BY <1>6, <1>7, <1>8, <1>9, <1>10, ConsolePartsNext, ForwardNext

LEMMA ServeExtraKept ==
    ASSUME Console!ConsoleInv, Console!ServeExtra
    PROVE  Console!ConsoleInv'
<1>1. /\ Console!Typed /\ Console!Numbered /\ Console!Mounted /\ Console!LatestTrue
      /\ LiveBehind /\ WaitsAhead /\ FlightAhead /\ ExtraAhead
    BY ConsoleParts, ForwardIs
<1>2. extra.n # 0 /\ UNCHANGED <<server, seq, reading, screen, view, tail, older, untold>>
    BY DEF Console!ServeExtra
<1>3. PICK a \in Console!Answers : extra' = [extra EXCEPT !.answer = a]
    BY DEF Console!ServeExtra
<1>4. a \in AnswerType /\ (Doc(a) => a.v = server.v)
    BY <1>1, AnswersAre
<1>5. extra' \in ReadType /\ extra'.n = extra.n /\ extra'.answer = a
    BY <1>1, <1>3, <1>4, ConsoleTypes DEF ReadType
<1>6. Console!Typed'
    BY <1>1, <1>2, <1>5, ConsoleTypes, ServerIs, TypedNext
<1>7. Console!Numbered'
    BY <1>1, <1>2, <1>5 DEF Console!Numbered
<1>8. Console!Mounted'
    BY <1>1, <1>2, NothingIs DEF Console!Mounted, Console!MountOf
<1>9. Console!LatestTrue'
    BY <1>1, <1>2, <1>4, <1>5 DEF Console!LatestTrue, Console!Still, Console!AsServed, Console!Marked, Doc
<1>10. ExtraAhead'
    <2>1. Ahead(extra.n, a)
        BY <1>1, <1>4, AnsweredAhead
    <2> QED
        BY <1>2, <1>5, <2>1 DEF ExtraAhead, Ahead
<1>11. LiveBehind' /\ WaitsAhead' /\ FlightAhead'
    BY <1>1, <1>2 DEF LiveBehind, WaitsAhead, FlightAhead, Ahead
<1> QED
    BY <1>6, <1>7, <1>8, <1>9, <1>10, <1>11, ConsolePartsNext, ForwardNext

LEMMA AskKeptConsole ==
    ASSUME Console!ConsoleInv, Console!Ask
    PROVE  Console!ConsoleInv'
<1>1. /\ Console!Typed /\ Console!Numbered /\ Console!Mounted /\ Console!LatestTrue
      /\ LiveBehind /\ WaitsAhead /\ FlightAhead /\ ExtraAhead
    BY ConsoleParts, ForwardIs
<1>2. /\ view.mount # 0 /\ seq' = seq + 1 /\ extra' = [n |-> seq + 1, answer |-> Console!Empty]
      /\ UNCHANGED <<server, reading, screen, view, tail, older>> /\ untold' = FALSE
    BY DEF Console!Ask
<1>3. /\ seq \in Nat /\ seq # 0 /\ older \in BOOLEAN /\ untold \in BOOLEAN
      /\ screen \in ScreenType /\ view \in ViewType /\ extra \in ReadType
      /\ reading \in FlightType /\ tail \in TailType
    BY <1>1, ConsoleTypes
<1>4. extra' \in ReadType /\ extra'.n = seq + 1 /\ extra'.answer = Console!Empty
    BY <1>2, <1>3 DEF ReadType, AnswerType
<1>5. Console!Typed'
    <2>1. untold' \in BOOLEAN
        BY <1>2, Zenon
    <2>2. seq' = seq + 1
        BY <1>2
    <2>3. seq' \in Nat \ {0}
        BY <1>3, <2>2
    <2> QED
        BY <1>1, <1>2, <1>3, <1>4, <2>1, <2>3, ServerIs, TypedNext
<1>6. /\ reading.n \in Nat /\ extra.n \in Nat /\ screen.of \in Nat /\ screen.n \in Nat /\ view.n \in Nat
      /\ screen.pend \in Nat
    BY <1>3, FlightFields, ReadFields, ScreenFields, ViewFields
<1>7. Console!Numbered'
    BY <1>1, <1>2, <1>3, <1>4, <1>6 DEF Console!Numbered
<1>8. Console!Mounted'
    BY <1>1, <1>2, NothingIs DEF Console!Mounted, Console!MountOf
<1>9. Console!LatestTrue'
    BY <1>2, <1>4, KindsAre DEF Console!LatestTrue, Console!AsServed, Doc
<1>10. LiveBehind' /\ WaitsAhead'
    BY <1>1, <1>2 DEF LiveBehind, WaitsAhead
<1>11. FlightAhead' /\ ExtraAhead'
    <2>1. reading.n # seq'
        BY <1>1, <1>2, <1>3, <1>6 DEF Console!Numbered
    <2> QED
        BY <1>1, <1>2, <1>4, <2>1, KindsAre DEF FlightAhead, ExtraAhead, Ahead
<1> QED
    BY <1>5, <1>7, <1>8, <1>9, <1>10, <1>11, ConsolePartsNext, ForwardNext

\* A view that goes takes its read with it.
LEMMA CarriedIs ==
    ASSUME extra \in ReadType, NEW v
    PROVE  /\ Console!Carried(v) \in ReadType
           /\ v.mount = view.mount => Console!Carried(v) = extra
           /\ v.mount # view.mount => Console!Carried(v) = Console!NoRead
    BY NothingIs DEF Console!Carried

Up(t) == t.state \in {"opened", "open"}
LEMMA FollowedIs ==
    ASSUME NEW h, NEW t \in TailType
    PROVE  LET u == Console!Followed(h, t)
           IN  u \in TailType /\ (Up(u) => Up(t) /\ u.news = t.news)
    BY DEF Console!Followed, TailType, TailSteps, Up

\* What a step that renders leaves mounted.
LEMMA MountedIs ==
    ASSUME Console!Typed, Console!Mounted, NEW h \in ScreenType,
           screen' = h, view' = Console!Rendered(h), extra' = Console!Carried(view'), UNCHANGED server,
           h.pending = Console!Empty \/ Doc(screen.displayed)
    PROVE  /\ Console!Mounted' /\ view' \in ViewType
           /\ extra' \in ReadType /\ (extra' = extra \/ extra' = Console!NoRead)
<1> DEFINE v == Console!Rendered(h)
<1>1. /\ v \in ViewType
      /\ ~Doc(h.displayed) => v = Console!NoView
      /\ Doc(h.displayed) =>
           /\ v.mount = Console!MountOf(h.displayed) /\ v.mount # 0 /\ v.seen = h.of
           /\ Anew(h) => v.live = h.displayed /\ v.n = h.n /\ ~v.failed
           /\ ~Anew(h) => v.live = view.live /\ v.n = view.n /\ v.failed = view.failed /\ v.mount = view.mount
    BY RenderedIs
<1>2. view' = v
    OBVIOUS
<1> HIDE DEF v
<1>3. /\ extra' \in ReadType
      /\ v.mount = view.mount => extra' = extra
      /\ v.mount # view.mount => extra' = Console!NoRead
    BY <1>2, CarriedIs, ConsoleTypes
<1>4. Console!MountOf(h.displayed)' = Console!MountOf(h.displayed)
    BY DEF Console!MountOf
<1>5. CASE Doc(h.displayed)
    <2>1. Doc(v.live)
        <3>1. CASE Anew(h)
            BY <1>1, <1>5, <3>1
        <3>2. CASE ~Anew(h)
            <4>1. view.mount # 0 /\ v.live = view.live
                BY <1>1, <1>5, <3>2
            <4>2. Doc(screen.displayed)
                BY <4>1, NothingIs DEF Console!Mounted, Doc
            <4> QED
                BY <4>1, <4>2 DEF Console!Mounted, Doc
        <3> QED
            BY <3>1, <3>2
    <2>2. Console!Mounted'
        BY <1>1, <1>2, <1>4, <1>5, <2>1 DEF Console!Mounted, Doc, Console!MountOf
    <2> QED
        BY <1>1, <1>2, <1>3, <2>2
<1>6. CASE ~Doc(h.displayed)
    <2>1. v = Console!NoView
        BY <1>1, <1>6
    <2>2. extra' = Console!NoRead
        <3>1. CASE Doc(screen.displayed)
            <4>1. view.mount # 0
                BY <3>1, ConsoleTypes, KindsAre, ScreenFields DEF Console!Mounted, Doc, Console!MountOf, Shows
            <4> QED
                BY <1>3, <2>1, <4>1, NothingIs
        <3>2. CASE ~Doc(screen.displayed)
            BY <1>3, <3>2 DEF Console!Mounted, Doc
        <3> QED
            BY <3>1, <3>2
    <2>3. Console!Mounted'
        BY <1>2, <1>6, <2>1, <2>2 DEF Console!Mounted, Doc
    <2> QED
        BY <1>1, <1>2, <1>3, <2>2, <2>3
<1> QED
    BY <1>5, <1>6

\* A read of the view's own, after a command.
LEMMA ArriveExtraKept ==
    ASSUME Console!ConsoleInv, Console!ArriveExtra
    PROVE  Console!ConsoleInv' /\ view'.mount = view.mount /\ view'.live.v >= view.live.v
<1>1. /\ Console!Typed /\ Console!Numbered /\ Console!Mounted /\ Console!LatestTrue
      /\ LiveBehind /\ WaitsAhead /\ FlightAhead /\ ExtraAhead
    BY ConsoleParts, ForwardIs
<1>2. /\ extra.answer # Console!Empty /\ extra' = Console!NoRead
      /\ UNCHANGED <<server, seq, reading, screen, tail, older, untold>>
    BY DEF Console!ArriveExtra
<1>3. /\ seq \in Nat /\ seq # 0 /\ older \in BOOLEAN /\ untold \in BOOLEAN
      /\ screen \in ScreenType /\ view \in ViewType /\ extra \in ReadType
      /\ reading \in FlightType /\ tail \in TailType
    BY <1>1, ConsoleTypes
<1>4. /\ reading.n \in Nat /\ extra.n \in Nat /\ screen.of \in Nat /\ screen.n \in Nat /\ view.n \in Nat
      /\ screen.pend \in Nat /\ extra.answer \in AnswerType /\ view.live \in Console!Documents \cup {Console!Empty}
    BY <1>3, FlightFields, ReadFields, ScreenFields, ViewFields
<1>5. extra.n # 0 /\ Doc(screen.displayed)
    BY <1>1, <1>2, NothingIs DEF Console!Numbered, Console!Mounted, Doc
<1>6. view.live.v \in Nat
    BY <1>4, KindsAre
<1>7. CASE extra.n # seq
    <2>1. view' = view
        BY <1>2, <1>7 DEF Console!ArriveExtra, Console!IsCurrent
    <2>2. Console!Typed'
        BY <1>1, <1>2, <1>3, <2>1, NothingIs, ServerIs, TypedNext
    <2>3. Console!Numbered'
        BY <1>1, <1>2, <1>3, <2>1, NothingIs DEF Console!Numbered
    <2>4. Console!Mounted'
        BY <1>1, <1>2, <2>1, NothingIs DEF Console!Mounted, Console!MountOf
    <2>5. Console!LatestTrue'
        BY <1>1, <1>2, <1>3, <1>7, <2>1, NothingIs DEF Console!LatestTrue, Console!Still, Console!AsServed, Console!Marked
    <2>6. LiveBehind' /\ WaitsAhead' /\ FlightAhead' /\ ExtraAhead'
        BY <1>1, <1>2, <2>1, NothingIs, KindsAre DEF LiveBehind, WaitsAhead, FlightAhead, ExtraAhead, Ahead
    <2> QED
        BY <1>6, <2>1, <2>2, <2>3, <2>4, <2>5, <2>6, ConsolePartsNext, ForwardNext
<1>8. CASE extra.n = seq
    <2> DEFINE now == IF Doc(extra.answer) THEN extra.answer ELSE view.live
               q == [view EXCEPT !.live = now, !.n = extra.n, !.failed = ~Doc(extra.answer)]
    <2>1. view' = q
        BY <1>8, <1>3 DEF Console!ArriveExtra, Console!IsCurrent, Doc, ViewType
    <2>2. now \in Console!Documents \cup {Console!Empty} /\ (~Doc(extra.answer)) \in BOOLEAN
        BY <1>4, KindsAre DEF AnswerType
    <2>3. Doc(now)
        BY <1>1, <1>5 DEF Console!Mounted, Doc
    <2>4. now.v <= server.v /\ view.live.v <= now.v
        <3>1. CASE Doc(extra.answer)
            BY <1>1, <1>8, <3>1 DEF ExtraAhead, Ahead
        <3>2. CASE ~Doc(extra.answer)
            BY <1>1, <1>6, <3>2 DEF LiveBehind
        <3> QED
            BY <3>1, <3>2
    <2>5. Doc(extra.answer) => now = extra.answer
        OBVIOUS
    <2> HIDE DEF now
    <2>6. /\ q \in ViewType /\ q.live = now /\ q.n = seq /\ q.failed = ~Doc(extra.answer) /\ q.seen = view.seen
          /\ q.mount = view.mount
        BY <1>3, <1>8, <2>2 DEF ViewType
    <2> HIDE DEF q
    <2>7. Console!Typed'
        BY <1>1, <1>2, <1>3, <2>1, <2>6, NothingIs, ServerIs, TypedNext
    <2>n. reading.n # 0 => reading.n # seq
        BY <1>1, <1>8 DEF Console!Numbered
    <2>8. Console!Numbered'
        BY <1>1, <1>2, <1>3, <2>1, <2>6, <2>n, NothingIs DEF Console!Numbered
    <2>9. Console!Mounted'
        BY <1>1, <1>2, <1>5, <2>1, <2>3, <2>6 DEF Console!Mounted, Console!MountOf, Doc
    <2>10. reading.n # seq /\ extra'.n # seq /\ screen.n # seq
        BY <1>1, <1>2, <1>3, <1>5, <1>8, NothingIs DEF Console!Numbered
    <2>11. Console!LatestTrue'
        <3> SUFFICES ASSUME Console!Still /\ ~reading.dirty
                     PROVE  /\ view'.n = seq
                            /\ screen.pend = seq => Console!AsServed(screen.pending)
                            /\ ~view'.failed => Console!AsServed(view'.live)
            BY <1>2, <2>10 DEF Console!LatestTrue, Console!Still, Console!AsServed
        <3>1. screen.pend # seq \/ screen.pending = Console!Empty
            BY <1>1, <1>3, <1>4, <2>10 DEF Console!Numbered
        <3>2. Console!AsServed(extra.answer)
            BY <1>1, <1>8, <2>10 DEF Console!LatestTrue
        <3> QED
            BY <2>1, <2>5, <2>6, <3>1, <3>2, KindsAre DEF Console!AsServed, Doc
    <2>12. LiveBehind'
        BY <1>2, <2>1, <2>4, <2>6 DEF LiveBehind
    <2>13. WaitsAhead'
        <3> SUFFICES ASSUME screen.pending # Console!Empty
                     PROVE  screen.pending.v <= server.v /\ ~(screen.pend >= view'.n)
            BY <1>2 DEF WaitsAhead
        <3>1. screen.pend <= screen.n /\ screen.n <= seq
            BY <1>1 DEF Console!Numbered
        <3> QED
            BY <1>1, <1>3, <1>4, <2>1, <2>6, <2>10, <3>1 DEF WaitsAhead
    <2>14. FlightAhead' /\ ExtraAhead'
        BY <1>1, <1>2, <2>10, NothingIs, KindsAre DEF FlightAhead, ExtraAhead, Ahead
    <2> QED
        BY <2>1, <2>4, <2>6, <2>7, <2>8, <2>9, <2>11, <2>12, <2>13, <2>14, <1>6, ConsoleTypes, ConsolePartsNext, ForwardNext,
           <1>1, <2>2, KindsAre
<1> QED
    BY <1>7, <1>8

\* A flight's answer that a later read has overtaken changes nothing on the screen.
LEMMA OvertakenIs ==
    ASSUME Console!Typed, Console!Mounted, screen' = screen, view' = Console!Rendered(screen),
           extra' = Console!Carried(view')
    PROVE  view' = view /\ extra' = extra
<1>1. view \in ViewType /\ extra \in ReadType
    BY ConsoleTypes
<1>2. CASE Doc(screen.displayed)
    <2>1. view.mount = Console!MountOf(screen.displayed) /\ view.seen = screen.of
        BY <1>2 DEF Console!Mounted, Doc
    <2>2. view' = [view EXCEPT !.seen = screen.of]
        BY <1>2, <2>1 DEF Console!Rendered, Doc
    <2>3. view' = view
        BY <1>1, <2>1, <2>2 DEF ViewType
    <2> QED
        BY <1>1, <2>3, CarriedIs
<1>3. CASE ~Doc(screen.displayed)
    <2>1. view' = view
        BY <1>3 DEF Console!Rendered, Console!Mounted, Doc
    <2> QED
        BY <1>1, <2>1, CarriedIs
<1> QED
    BY <1>2, <1>3

\* The flight ends, or the one asked for meanwhile begins.
LEMMA LandedIs ==
    ASSUME Console!Typed, Console!Numbered, Console!Arrive
    PROVE  /\ reading' \in FlightType /\ reading'.answer = Console!Empty /\ ~reading'.dirty /\ reading.n # 0
           /\ \/ reading.dirty /\ seq' = seq + 1 /\ reading'.n = seq + 1
              \/ ~reading.dirty /\ seq' = seq /\ reading'.n = 0
           /\ tail' \in TailType
           /\ Console!Still' => Console!Still
           /\ UNCHANGED <<server, untold>>
           /\ older' = (older /\ ~(reading.n = seq /\ Doc(reading.answer)))
           /\ view' = Console!Rendered(screen') /\ extra' = Console!Carried(view')
           /\ screen' = IF reading.n = seq THEN Console!Adopt(reading.answer, reading.n) ELSE screen
<1>1. seq \in Nat /\ reading \in FlightType /\ tail \in TailType
    BY ConsoleTypes
<1>2. reading.n # 0
    BY DEF Console!Arrive, Console!Numbered
<1>3. /\ reading' \in FlightType /\ reading'.answer = Console!Empty /\ ~reading'.dirty
      /\ \/ reading.dirty /\ seq' = seq + 1 /\ reading'.n = seq + 1
         \/ ~reading.dirty /\ seq' = seq /\ reading'.n = 0
    <2>1. CASE reading.dirty
        <3>1. seq' = seq + 1 /\ reading' = [Console!NoFlight EXCEPT !.n = seq + 1]
            BY <2>1 DEF Console!Arrive
        <3> QED
            BY <1>1, <2>1, <3>1, NothingIs
    <2>2. CASE ~reading.dirty
        BY <2>2, NothingIs DEF Console!Arrive
    <2> QED
        BY <2>1, <2>2
<1> DEFINE t == IF reading.asked
                THEN [tail EXCEPT !.state = IF reading.n = seq /\ reading.answer.kind = "unavailable" THEN "closed" ELSE "waiting"]
                ELSE tail
<1>4. t \in TailType /\ (Up(t) => Up(tail) /\ t.news = tail.news)
    BY <1>1 DEF TailType, TailSteps, Up
<1>5. tail' = Console!Followed(screen', t)
    BY DEF Console!Arrive, Console!IsCurrent
<1> HIDE DEF t
<1>6. tail' \in TailType /\ (Up(tail') => Up(tail) /\ tail'.news = tail.news)
    BY <1>4, <1>5, FollowedIs
<1>7. /\ UNCHANGED <<server, untold>> /\ older' = (older /\ ~(reading.n = seq /\ Doc(reading.answer)))
      /\ screen' = IF reading.n = seq THEN Console!Adopt(reading.answer, reading.n) ELSE screen
    BY DEF Console!Arrive, Console!IsCurrent, Doc
<1>8. view' = Console!Rendered(screen') /\ extra' = Console!Carried(view')
    BY DEF Console!Arrive
<1>9. Console!Still' => Console!Still
    BY <1>6, <1>7 DEF Console!Still, Up
<1> QED
    BY <1>2, <1>3, <1>6, <1>7, <1>8, <1>9

LEMMA ArriveLateKept ==
    ASSUME Console!ConsoleInv, Console!Arrive, reading.n # seq
    PROVE  Console!ConsoleInv' /\ UNCHANGED view
<1>1. /\ Console!Typed /\ Console!Numbered /\ Console!Mounted /\ Console!LatestTrue
      /\ LiveBehind /\ WaitsAhead /\ FlightAhead /\ ExtraAhead
    BY ConsoleParts, ForwardIs
<1>2. /\ reading' \in FlightType /\ reading'.answer = Console!Empty /\ ~reading'.dirty /\ reading.n # 0
      /\ \/ reading.dirty /\ seq' = seq + 1 /\ reading'.n = seq + 1
         \/ ~reading.dirty /\ seq' = seq /\ reading'.n = 0
      /\ tail' \in TailType
      /\ Console!Still' => Console!Still
      /\ UNCHANGED <<server, older, screen, untold>>
      /\ view' = Console!Rendered(screen) /\ extra' = Console!Carried(view')
    <2>1. (older /\ ~(reading.n = seq /\ Doc(reading.answer))) = older
        BY <1>1, ConsoleTypes
    <2> QED
        BY <1>1, <2>1, LandedIs
<1>3. view' = view /\ extra' = extra
    BY <1>1, <1>2, OvertakenIs
<1>4. /\ seq \in Nat /\ seq # 0 /\ older \in BOOLEAN /\ untold \in BOOLEAN
      /\ screen \in ScreenType /\ view \in ViewType /\ extra \in ReadType
    BY <1>1, ConsoleTypes
<1>5. /\ extra.n \in Nat /\ screen.of \in Nat /\ screen.n \in Nat /\ view.n \in Nat /\ screen.pend \in Nat
    BY <1>4, ReadFields, ScreenFields, ViewFields
<1>6. Console!Typed'
    BY <1>1, <1>2, <1>3, <1>4, ServerIs, TypedNext
<1>7. Console!Numbered'
    BY <1>1, <1>2, <1>3, <1>4, <1>5 DEF Console!Numbered
<1>8. Console!Mounted'
    BY <1>1, <1>2, <1>3 DEF Console!Mounted, Console!MountOf
<1>9. Console!LatestTrue'
    <2>1. CASE reading.dirty
        BY <1>2, <2>1, KindsAre DEF Console!LatestTrue, Console!AsServed, Doc
    <2>2. CASE ~reading.dirty
        BY <1>1, <1>2, <1>3, <1>4, <2>2 DEF Console!LatestTrue, Console!AsServed, Console!Marked
    <2> QED
        BY <2>1, <2>2
<1>10. LiveBehind' /\ WaitsAhead' /\ FlightAhead'
    BY <1>1, <1>2, <1>3, KindsAre DEF LiveBehind, WaitsAhead, FlightAhead, Ahead
<1>11. ExtraAhead'
    <2>1. extra.n = seq' => extra.n = seq
        BY <1>1, <1>2, <1>4, <1>5 DEF Console!Numbered
    <2> QED
        BY <1>1, <1>2, <1>3, <2>1 DEF ExtraAhead, Ahead
<1> QED
    BY <1>3, <1>6, <1>7, <1>8, <1>9, <1>10, <1>11, ConsolePartsNext, ForwardNext

\* The latest read is taken: shown, kept for a Reload, or said to have told nothing.
LEMMA ArriveKept ==
    ASSUME Console!ConsoleInv, Console!Arrive, reading.n = seq
    PROVE  Console!ConsoleInv' /\ (view'.mount = view.mount => view'.live.v >= view.live.v)
<1> DEFINE a == reading.answer
<1>1. /\ Console!Typed /\ Console!Numbered /\ Console!Mounted /\ Console!LatestTrue
      /\ LiveBehind /\ WaitsAhead /\ FlightAhead /\ ExtraAhead
    BY ConsoleParts, ForwardIs
<1>2. /\ seq \in Nat /\ seq # 0 /\ older \in BOOLEAN /\ untold \in BOOLEAN
      /\ screen \in ScreenType /\ view \in ViewType /\ extra \in ReadType
      /\ reading \in FlightType
    BY <1>1, ConsoleTypes
<1>3. /\ extra.n \in Nat /\ screen.of \in Nat /\ screen.n \in Nat /\ view.n \in Nat /\ screen.pend \in Nat
      /\ a \in AnswerType /\ a # Console!Empty /\ view.live.v \in Nat
    BY <1>2, FlightFields, ReadFields, ScreenFields, ViewFields, KindsAre DEF Console!Arrive
<1>4. /\ reading' \in FlightType /\ reading'.answer = Console!Empty /\ ~reading'.dirty
      /\ \/ reading.dirty /\ seq' = seq + 1 /\ reading'.n = seq + 1
         \/ ~reading.dirty /\ seq' = seq /\ reading'.n = 0
      /\ tail' \in TailType
      /\ Console!Still' => Console!Still
      /\ UNCHANGED <<server, untold>> /\ older' = (older /\ ~Doc(a))
      /\ view' = Console!Rendered(screen') /\ extra' = Console!Carried(view')
      /\ screen' = Console!Adopt(a, seq)
    BY <1>1, LandedIs
<1>5. /\ screen' \in ScreenType /\ screen'.n = seq
      /\ \/ Taken(screen', a, seq) /\ (~Doc(screen.displayed) \/ ~Doc(a))
         \/ Taken(screen', a, seq) /\ Doc(screen.displayed) /\ Doc(a) /\ a.id = screen.displayed.id
         \/ /\ Kept(screen') /\ Doc(screen'.displayed) /\ ~Doc(a) /\ screen'.interrupted
            /\ screen'.pending = screen.pending /\ screen'.pend = screen.pend
         \/ /\ Kept(screen') /\ Doc(screen'.displayed) /\ Doc(a)
            /\ screen'.pending = a /\ screen'.pend = seq
    BY <1>2, <1>3, <1>4, AdoptIs
<1>6. /\ Console!Mounted' /\ view' \in ViewType
      /\ extra' \in ReadType /\ (extra' = extra \/ extra' = Console!NoRead)
    <2>1. screen'.pending = Console!Empty \/ Doc(screen.displayed)
        BY <1>5 DEF Taken, Kept
    <2> QED
        BY <1>1, <1>4, <1>5, <2>1, MountedIs
<1>7. /\ ~Doc(screen'.displayed) => view' = Console!NoView
      /\ Doc(screen'.displayed) =>
            /\ view'.mount = Console!MountOf(screen'.displayed)
            /\ Anew(screen') => view'.live = screen'.displayed /\ view'.n = seq /\ ~view'.failed
            /\ ~Anew(screen') => view'.live = view.live /\ view'.n = view.n /\ view'.failed = view.failed /\ view'.mount = view.mount
    BY <1>1, <1>4, <1>5, RenderedIs
<1>n. screen.of < seq /\ screen.n < seq /\ view.n <= seq /\ view.n # seq
    BY <1>1, <1>2, <1>3 DEF Console!Numbered
\* What is shown after: nothing, this answer, or what there was.
<1>8. \/ ~Doc(screen'.displayed) /\ view' = Console!NoView /\ screen'.pending = Console!Empty
      \/ /\ Taken(screen', a, seq) /\ Doc(a) /\ view'.live = a /\ view'.n = seq /\ ~view'.failed
      \/ /\ Kept(screen') /\ Doc(screen'.displayed) /\ view'.live = view.live /\ view'.n = view.n
         /\ view'.failed = view.failed /\ view'.mount = view.mount
    <2>1. CASE Taken(screen', a, seq) /\ ~Doc(a)
        BY <1>7, <2>1 DEF Taken
    <2>2. CASE Taken(screen', a, seq) /\ Doc(a) /\ ~Doc(screen.displayed)
        <3>1. view.mount = 0
            BY <1>1, <2>2, NothingIs DEF Console!Mounted, Doc
        <3>2. Console!MountOf(a) # 0
            BY <1>3, <2>2, KindsAre DEF Console!MountOf, AnswerType
        <3>3. Anew(screen')
            BY <2>2, <3>1, <3>2 DEF Anew, Taken
        <3> QED
            BY <1>7, <2>2, <3>3 DEF Taken
    <2>3. CASE Taken(screen', a, seq) /\ Doc(a) /\ Doc(screen.displayed)
        <3>1. view.seen = screen.of /\ screen.of # seq /\ seq >= view.n
            BY <1>1, <1>2, <1>3, <2>3 DEF Console!Mounted, Console!Numbered, Doc
        <3>2. Anew(screen')
            BY <1>5, <2>3, <3>1 DEF Anew, Taken
        <3> QED
            BY <1>7, <2>3, <3>2 DEF Taken
    <2>4. CASE Kept(screen') /\ Doc(screen'.displayed)
        <3>1. view.mount = Console!MountOf(screen'.displayed) /\ view.seen = screen'.of
            BY <1>1, <2>4 DEF Console!Mounted, Kept, Doc
        <3>2. ~Anew(screen')
            BY <3>1 DEF Anew
        <3> QED
            BY <1>7, <2>4, <3>2
    <2> QED
        BY <1>5, <2>1, <2>2, <2>3, <2>4
<1> HIDE DEF a
<1>9. extra'.n # seq /\ extra'.n <= seq /\ (extra'.n = 0 => extra'.answer = Console!Empty)
    BY <1>1, <1>2, <1>3, <1>6, NothingIs DEF Console!Numbered
<1>10. Console!Typed'
    <2>1. older' \in BOOLEAN /\ untold' \in BOOLEAN /\ seq' \in Nat \ {0}
        BY <1>2, <1>4
    <2> QED
        BY <1>1, <1>4, <1>5, <1>6, <2>1, ServerIs, TypedNext
<1>11. Console!Numbered'
    <2>0. extra'.n \in Nat /\ view'.n \in Nat
        BY <1>6, ReadFields, ViewFields
    <2>1. /\ screen'.of <= screen'.n /\ screen'.n <= seq' /\ extra'.n <= seq'
          /\ reading'.n <= seq' /\ (reading'.n # 0 => screen'.n < reading'.n /\ reading'.n # extra'.n)
        <3>1. screen'.of <= screen'.n
            BY <1>2, <1>3, <1>5, <1>n DEF Taken, Kept
        <3>2. screen'.n = seq /\ extra'.n <= seq
            BY <1>5, <1>9
        <3>3. (seq' = seq + 1 /\ reading'.n = seq + 1) \/ (seq' = seq /\ reading'.n = 0)
            BY <1>4
        <3> QED
            BY <1>2, <2>0, <3>1, <3>2, <3>3
    <2>2. view'.n <= seq' /\ (reading'.n # 0 => reading'.n # view'.n)
        <3>1. view'.n <= seq
            BY <1>2, <1>3, <1>8, <1>n, NothingIs
        <3>2. (seq' = seq + 1 /\ reading'.n = seq + 1) \/ (seq' = seq /\ reading'.n = 0)
            BY <1>4
        <3> QED
            BY <1>2, <2>0, <3>1, <3>2
    <2>3. ASSUME screen'.pending # Console!Empty
          PROVE  Doc(screen'.displayed) /\ screen'.of < screen'.pend /\ screen'.pend <= screen'.n /\ ~older'
        <3>1. CASE screen'.pending = screen.pending /\ screen'.pend = screen.pend /\ Kept(screen') /\ Doc(screen'.displayed)
            <4>1. screen.of < screen.pend /\ screen.pend <= screen.n /\ ~older
                BY <1>1, <2>3, <3>1 DEF Console!Numbered
            <4> QED
                BY <1>1, <1>2, <1>3, <1>4, <1>5, <3>1, <4>1 DEF Console!Numbered, Kept
        <3>2. CASE Kept(screen') /\ Doc(screen'.displayed) /\ Doc(a) /\ screen'.pend = seq
            <4>1. older' = FALSE
                BY <1>4, <3>2
            <4>2. screen'.of < seq /\ screen'.n = seq
                BY <1>5, <1>n, <3>2 DEF Kept
            <4> QED
                BY <1>2, <3>2, <4>1, <4>2
        <3> QED
            BY <1>5, <2>3, <3>1, <3>2 DEF Taken
    <2>4. extra'.n # 0 => screen'.n # extra'.n
        BY <1>5, <1>9
    <2> QED
        BY <1>4, <1>9, <2>1, <2>2, <2>3, <2>4 DEF Console!Numbered, Doc
\* While it is not flown again, the answer is as the server is.
<1>12. Console!LatestTrue'
    <2>1. CASE reading.dirty
        BY <1>4, <2>1, KindsAre DEF Console!LatestTrue, Console!AsServed, Doc
    <2>2. CASE ~reading.dirty
        <3> SUFFICES ASSUME Console!Still
                     PROVE  /\ screen'.pend = seq => Console!AsServed(screen'.pending)
                            /\ (/\ Doc(screen'.displayed) /\ ~older' /\ ~view'.failed
                                /\ (view'.n = seq \/ ~Console!Marked')) => Console!AsServed(view'.live)
            BY <1>2, <1>4, <1>5, <1>9, <2>2 DEF Console!LatestTrue, Console!AsServed, Doc
        <3>1. Console!AsServed(a)
            BY <1>1, <1>2, <2>2, KindsAre DEF Console!LatestTrue, Console!Numbered, a
        <3>2. screen'.pend = seq => Console!AsServed(screen'.pending)
            <4>1. screen.pend = seq => screen.pending = Console!Empty
                BY <1>1, <1>2, <1>3 DEF Console!Numbered
            <4> QED
                BY <1>2, <1>5, <3>1, <4>1, KindsAre DEF Taken, Console!AsServed, Doc
        <3>3. CASE Taken(screen', a, seq)
            BY <1>2, <1>3, <1>8, <1>n, <3>1, <3>2, <3>3, KindsAre DEF Taken, Kept
        <3>4. CASE Kept(screen') /\ Doc(screen'.displayed)
            <4>1. view.n # seq
                BY <1>1, <1>2 DEF Console!Numbered
            <4>2. ~Taken(screen', a, seq)
                BY <1>2, <1>3, <1>n, <3>4 DEF Taken, Kept
            <4>3. view'.n = view.n
                BY <1>8, <3>4, <4>2, KindsAre
            <4>4. screen'.interrupted \/ screen'.pending # Console!Empty
                BY <1>5, <4>2, KindsAre
            <4> QED
                BY <3>2, <4>1, <4>3, <4>4 DEF Console!Marked
        <3> QED
            BY <1>5, <3>3, <3>4
    <2> QED
        BY <2>1, <2>2
<1>13. view'.mount = view.mount => view'.live.v >= view.live.v
    <2>1. CASE ~Doc(screen'.displayed) /\ view' = Console!NoView
        <3>1. view'.mount = view.mount => view = Console!NoView
            BY <1>1, <2>1, NothingIs, KindsAre, ConsoleTypes, ScreenFields DEF Console!Mounted, Console!MountOf, Doc, Shows
        <3> QED
            BY <1>3, <2>1, <3>1
    <2>2. CASE Doc(a) /\ view'.live = a
        BY <1>1, <1>2, <1>3, <2>2, KindsAre DEF FlightAhead, Ahead, a
    <2>3. CASE view'.live = view.live
        BY <1>3, <2>3
    <2> QED
        BY <1>8, <2>1, <2>2, <2>3
<1>14. LiveBehind'
    <2>1. server.v \in Nat
        BY <1>1, ConsoleTypes, ConsoleIsBounded
    <2>2. CASE view' = Console!NoView
        BY <1>4, <2>1, <2>2, NothingIs, KindsAre DEF LiveBehind
    <2>3. CASE Doc(a) /\ view'.live = a
        BY <1>1, <1>4, <2>3 DEF LiveBehind, FlightAhead, Ahead, a
    <2>4. CASE view'.live = view.live
        BY <1>1, <1>4, <2>4 DEF LiveBehind
    <2> QED
        BY <1>8, <2>2, <2>3, <2>4
<1>15. WaitsAhead'
    <2> SUFFICES ASSUME screen'.pending # Console!Empty, Kept(screen'), Doc(screen'.displayed),
                        view'.live = view.live, view'.n = view.n
                 PROVE  screen'.pending.v <= server.v /\ (screen'.pend >= view.n => view.live.v <= screen'.pending.v)
        BY <1>4, <1>8 DEF WaitsAhead, Taken
    <2>1. CASE screen'.pending = a /\ Doc(a)
        BY <1>1, <2>1 DEF FlightAhead, Ahead, a
    <2>2. CASE screen'.pending = screen.pending /\ screen'.pend = screen.pend
        BY <1>1, <2>2 DEF WaitsAhead
    <2> QED
        BY <1>5, <2>1, <2>2 DEF Taken
<1>16. FlightAhead' /\ ExtraAhead'
    <2>1. FlightAhead'
        BY <1>4, KindsAre DEF FlightAhead, Ahead
    <2>2. extra'.n # seq'
        BY <1>2, <1>4, <1>6, <1>9, ReadFields
    <2>3. Doc(extra'.answer) => extra'.answer.v <= server.v
        BY <1>1, <1>6, NothingIs, KindsAre DEF ExtraAhead, Ahead
    <2> QED
        BY <1>4, <2>1, <2>2, <2>3 DEF ExtraAhead, Ahead
<1> QED
    BY <1>6, <1>10, <1>11, <1>12, <1>13, <1>14, <1>15, <1>16, ConsolePartsNext, ForwardNext

\* What waited is shown, though a later read may have ended since.
LEMMA ReloadKept ==
    ASSUME Console!ConsoleInv, Console!Reload
    PROVE  Console!ConsoleInv' /\ (view'.mount = view.mount /\ ~older' => view'.live.v >= view.live.v)
<1> DEFINE h == [screen EXCEPT !.displayed = screen.pending, !.of = screen.pend, !.pending = Console!Empty, !.pend = 0,
                               !.interrupted = FALSE]
           late == screen.pend < Console!Latest(screen.n, view.n, extra.n)
<1>1. /\ Console!Typed /\ Console!Numbered /\ Console!Mounted /\ Console!LatestTrue
      /\ LiveBehind /\ WaitsAhead /\ FlightAhead /\ ExtraAhead
    BY ConsoleParts, ForwardIs
<1>2. /\ screen.pending # Console!Empty /\ screen' = h /\ view' = Console!Rendered(h) /\ extra' = Console!Carried(view')
      /\ older' = (view'.live = screen.pending /\ late)
      /\ UNCHANGED <<server, seq, reading, tail, untold>>
    BY DEF Console!Reload
<1>3. /\ seq \in Nat /\ seq # 0 /\ older \in BOOLEAN /\ untold \in BOOLEAN
      /\ screen \in ScreenType /\ view \in ViewType /\ extra \in ReadType
      /\ reading \in FlightType /\ tail \in TailType
    BY <1>1, ConsoleTypes
<1>4. /\ reading.n \in Nat /\ extra.n \in Nat /\ screen.of \in Nat /\ screen.n \in Nat /\ view.n \in Nat
      /\ screen.pend \in Nat /\ screen.pending \in Console!Documents /\ view.live.v \in Nat
    BY <1>2, <1>3, FlightFields, ReadFields, ScreenFields, ViewFields, KindsAre
<1>5. /\ h \in ScreenType /\ h.displayed = screen.pending /\ h.of = screen.pend /\ h.pending = Console!Empty
      /\ h.pend = 0 /\ h.interrupted = FALSE /\ h.n = screen.n
    BY <1>3, <1>4 DEF ScreenType, Shows
<1> HIDE DEF h
<1>6. late <=> screen.pend < screen.n \/ screen.pend < view.n \/ screen.pend < extra.n
    BY <1>4 DEF Console!Latest
<1> HIDE DEF late
<1>7. Doc(screen.displayed) /\ screen.of < screen.pend /\ screen.pend <= screen.n /\ ~older /\ Doc(screen.pending)
    BY <1>1, <1>2, <1>4, KindsAre DEF Console!Numbered, Doc
<1>8. /\ Console!Mounted' /\ view' \in ViewType
      /\ extra' \in ReadType /\ (extra' = extra \/ extra' = Console!NoRead)
    BY <1>1, <1>2, <1>5, MountedIs
<1>9. /\ view'.mount = Console!MountOf(h.displayed)
      /\ Anew(h) => view'.live = screen.pending /\ view'.n = screen.n /\ ~view'.failed
      /\ ~Anew(h) => view'.live = view.live /\ view'.n = view.n /\ view'.failed = view.failed /\ view'.mount = view.mount
    BY <1>1, <1>2, <1>5, <1>7, RenderedIs
\* A view not given it has a later read of its own.
<1>10. ~Anew(h) => screen.n < view.n
    <2>1. view.seen = screen.of
        BY <1>1, <1>7 DEF Console!Mounted, Doc
    <2> QED
        BY <1>4, <1>5, <1>7, <2>1 DEF Anew
<1>11. view'.n \in {screen.n, view.n}
    BY <1>9
<1>12. Console!Typed'
    <2>1. older' \in BOOLEAN
        BY <1>2
    <2> QED
        BY <1>1, <1>2, <1>3, <1>5, <1>8, <2>1, ServerIs, TypedNext
<1>13. Console!Numbered'
    <2>1. /\ reading.n <= seq /\ screen.n <= seq /\ view.n <= seq /\ extra.n <= seq /\ screen.pend <= screen.n
          /\ reading.n # 0 => screen.n < reading.n /\ reading.n # view.n /\ reading.n # extra.n
          /\ extra.n # 0 => screen.n # extra.n
          /\ (reading.n = 0 => reading.answer = Console!Empty /\ ~reading.dirty) /\ (extra.n = 0 => extra.answer = Console!Empty)
        BY <1>1, <1>7 DEF Console!Numbered
    <2>2. view'.n <= seq /\ (reading.n # 0 => reading.n # view'.n)
        BY <1>3, <1>4, <1>11, <2>1
    <2>3. /\ extra'.n <= seq /\ (reading.n # 0 => reading.n # extra'.n) /\ (extra'.n # 0 => screen.n # extra'.n)
          /\ (extra'.n = 0 => extra'.answer = Console!Empty)
        BY <1>3, <1>8, <2>1, NothingIs
    <2> QED
        BY <1>2, <1>5, <2>1, <2>2, <2>3 DEF Console!Numbered
<1>14. Console!LatestTrue'
    <2> SUFFICES ASSUME Console!Still /\ ~reading.dirty, reading.n # seq,
                        ~(extra'.n = seq /\ Console!AsServed(extra'.answer))
                 PROVE  /\ extra'.n # seq /\ (screen.n = seq \/ view'.n = seq \/ older')
                        /\ ~older' /\ ~view'.failed => Console!AsServed(view'.live)
        <3>1. CASE reading.n = seq
            <4>1. Console!Still /\ ~reading.dirty => Console!AsServed(reading.answer)
                BY <1>1, <3>1, <1>3 DEF Console!LatestTrue, Console!Numbered
            <4> QED
                BY <1>2, <3>1, <4>1 DEF Console!LatestTrue, Console!Still, Console!AsServed
        <3>2. CASE reading.n # seq
            BY <1>2, <1>3, <1>5, <3>2 DEF Console!LatestTrue, Console!Still, Console!AsServed
        <3> QED
            BY <3>1, <3>2
    <2>1. CASE extra.n = seq /\ Console!AsServed(extra.answer)
        <3>1. extra' = Console!NoRead /\ extra'.n # seq
            BY <1>2, <1>3, <1>8, <2>1, NothingIs DEF Console!AsServed
        <3>2. view'.mount # view.mount
            BY <1>2, <1>3, <2>1, <3>1, CarriedIs
        <3>3. view'.live = screen.pending
            BY <1>9, <3>2
        <3>4. screen.n # seq /\ screen.n <= seq
            BY <1>1, <1>3, <2>1 DEF Console!Numbered
        <3>5. late
            BY <1>3, <1>4, <1>6, <1>7, <2>1, <3>4
        <3> QED
            BY <1>2, <3>1, <3>3, <3>5
    <2>2. CASE extra.n # seq
        <3>1. /\ screen.n = seq \/ view.n = seq
              /\ screen.pend = seq => Console!AsServed(screen.pending)
              /\ view.n = seq /\ ~view.failed => Console!AsServed(view.live)
            BY <1>1, <1>7, <2>2 DEF Console!LatestTrue, Doc
        <3>2. extra'.n # seq
            BY <1>3, <1>8, <2>2, NothingIs
        <3>3. screen.n <= seq /\ view.n <= seq
            BY <1>1 DEF Console!Numbered
        <3>4. CASE Anew(h)
            <4>1. view'.live = screen.pending /\ view'.n = screen.n /\ (older' <=> late)
                BY <1>2, <1>9, <3>4
            <4>2. ~late => screen.n = seq /\ screen.pend = seq
                BY <1>3, <1>4, <1>6, <1>7, <3>1, <3>3
            <4> QED
                BY <3>1, <3>2, <4>1, <4>2
        <3>5. CASE ~Anew(h)
            <4>1. view'.live = view.live /\ view'.n = view.n /\ view'.failed = view.failed
                BY <1>9, <3>5
            <4>2. view.n = seq
                BY <1>3, <1>4, <1>10, <3>1, <3>3, <3>5
            <4> QED
                BY <3>1, <3>2, <4>1, <4>2
        <3> QED
            BY <3>4, <3>5
    <2>3. CASE extra.n = seq /\ ~Console!AsServed(extra.answer)
        BY <1>1, <2>3 DEF Console!LatestTrue
    <2> QED
        BY <2>1, <2>2, <2>3
<1>15. screen.pending.v <= server.v /\ (screen.pend >= view.n => view.live.v <= screen.pending.v)
    BY <1>1, <1>2 DEF WaitsAhead
<1>16. LiveBehind' /\ WaitsAhead'
    BY <1>1, <1>2, <1>5, <1>9, <1>15 DEF LiveBehind, WaitsAhead
<1>18. FlightAhead'
    <2>1. Ahead(reading.n, reading.answer)
        BY <1>1 DEF FlightAhead
    <2>2. Doc(reading.answer) /\ reading.n = seq => view'.live.v <= reading.answer.v
        BY <1>2, <1>9, <2>1 DEF Ahead
    <2> QED
        BY <1>2, <1>5, <2>1, <2>2 DEF FlightAhead, Ahead
<1>19. ExtraAhead'
    <2>1. Ahead(extra.n, extra.answer) /\ ~Doc(Console!NoRead.answer)
        BY <1>1, NothingIs, KindsAre DEF ExtraAhead
    <2>2. CASE extra' = extra
        <3>1. Ahead(extra.n, extra.answer)'
            BY <1>2, <1>5, <1>9, <2>1, <2>2 DEF Ahead
        <3> QED
            BY <2>2, <3>1 DEF ExtraAhead
    <2>3. CASE extra' = Console!NoRead
        BY <2>1, <2>3 DEF ExtraAhead, Ahead
    <2> QED
        BY <1>8, <2>2, <2>3
<1>20. view'.mount = view.mount /\ ~older' => view'.live.v >= view.live.v
    <2>1. CASE ~Anew(h)
        BY <1>4, <1>9, <2>1
    <2>2. CASE Anew(h)
        <3>1. view'.live = screen.pending /\ (~older' => ~late)
            BY <1>2, <1>9, <2>2
        <3>2. ~late => screen.pend >= view.n
            BY <1>4, <1>6
        <3> QED
            BY <1>15, <3>1, <3>2
    <2> QED
        BY <2>1, <2>2
<1> QED
    BY <1>8, <1>12, <1>13, <1>14, <1>16, <1>18, <1>19, <1>20, ConsolePartsNext, ForwardNext

LEMMA ConsoleStill ==
    ASSUME Console!ConsoleInv, UNCHANGED Console!vars
    PROVE  Console!ConsoleInv' /\ UNCHANGED view
<1>1. UNCHANGED <<server, seq, reading, extra, screen, view, tail, older, untold>>
    BY DEF Console!vars
<1>2. Console!Typed /\ Console!Numbered /\ Console!Mounted /\ Console!LatestTrue /\ Console!Forward
    BY ConsoleParts
<1>3. Console!Typed'
    BY <1>1, <1>2 DEF Console!Typed
<1>4. Console!Numbered' /\ Console!Mounted' /\ Console!Forward'
    BY <1>1, <1>2 DEF Console!Numbered, Console!Mounted, Console!Forward, Console!MountOf
<1>5. Console!LatestTrue'
    BY <1>1, <1>2 DEF Console!LatestTrue, Console!Still, Console!AsServed, Console!Marked
<1> QED
    BY <1>1, <1>3, <1>4, <1>5, ConsolePartsNext

LEMMA InitShown == Console!Init => Console!ConsoleInv
<1> SUFFICES ASSUME Console!Init PROVE Console!ConsoleInv
    OBVIOUS
<1>1. PICK remounts \in BOOLEAN : server = [v |-> 0, id |-> 0, gone |-> FALSE, remounts |-> remounts]
    BY DEF Console!Init
<1>2. /\ seq = 1 /\ reading = [Console!NoFlight EXCEPT !.n = 1] /\ extra = Console!NoRead
      /\ screen = [displayed |-> Console!Loading, of |-> 0, pending |-> Console!Empty, pend |-> 0, interrupted |-> FALSE, n |-> 0]
      /\ view = Console!NoView /\ older = FALSE /\ untold = FALSE
      /\ tail = [state |-> IF server.remounts THEN "connecting" ELSE "closed",
                 news |-> FALSE, paused |-> FALSE, marked |-> FALSE]
    BY DEF Console!Init
<1>3. server \in [v : 0..MaxChanges, id : Nat, gone : BOOLEAN, remounts : BOOLEAN] /\ server.v = 0
    BY <1>1, ConsoleIsBounded
<1>4. reading \in FlightType /\ reading.n = 1 /\ reading.answer = Console!Empty
    BY <1>2, NothingIs
<1>5. screen \in ScreenType /\ screen.displayed = Console!Loading /\ screen.pending = Console!Empty /\ screen.n = 0 /\ screen.of = 0
    BY <1>2 DEF ScreenType, Shows
<1>6. tail \in TailType /\ ~Console!Still
    BY <1>2 DEF TailType, TailSteps, Console!Still
<1>7. Console!Typed
    <2>1. older \in BOOLEAN /\ untold \in BOOLEAN /\ seq \in Nat \ {0}
        <3>1. 1 \in Nat \ {0}
            OBVIOUS
        <3>2. seq = 1 /\ older = FALSE /\ untold = FALSE
            BY <1>2
        <3> QED
            BY <3>1, <3>2
    <2>2. extra \in ReadType
        <3>1. extra = Console!NoRead
            BY <1>2
        <3> QED
            BY <3>1, NothingIs
    <2>3. view \in ViewType
        <3>1. view = Console!NoView
            BY <1>2
        <3> QED
            BY <3>1, NothingIs
    <2> QED
        BY <1>3, <1>4, <1>5, <1>6, <2>1, <2>2, <2>3, TypedNow
<1>8. Console!Numbered
    BY <1>2, <1>4, <1>5, NothingIs DEF Console!Numbered
<1>9. Console!Mounted
    BY <1>2, <1>5, KindsAre DEF Console!Mounted, Doc
<1>10. Console!LatestTrue
    BY <1>6 DEF Console!LatestTrue
<1>11. LiveBehind /\ WaitsAhead /\ FlightAhead /\ ExtraAhead
    BY <1>2, <1>3, <1>4, <1>5, NothingIs, KindsAre DEF LiveBehind, WaitsAhead, FlightAhead, ExtraAhead, Ahead
<1> QED
    BY <1>7, <1>8, <1>9, <1>10, <1>11, ConsoleParts, ForwardIs

\* No step but the latest read's, a read of the view's own and a Reload touches the view.
LEMMA NextShown ==
    ASSUME Console!ConsoleInv, Console!Next
    PROVE  Console!ConsoleInv' /\ (view'.mount = view.mount /\ ~older' => view'.live.v >= view.live.v)
<1>1. view.live.v \in Nat /\ tail \in TailType
    BY ConsoleParts, ConsoleTypes, ViewFields, KindsAre
<1>2. \A s \in TailSteps :
        [state |-> s, news |-> FALSE, paused |-> TRUE, marked |-> FALSE] \in TailType
    BY DEF TailType
<1>3. \A s \in TailSteps, b, p \in BOOLEAN :
        /\ [tail EXCEPT !.news = b] \in TailType
        /\ LET t == [tail EXCEPT !.state = s] IN t \in TailType /\ t.state = s /\ t.news = tail.news
        /\ LET t == [tail EXCEPT !.marked = b] IN t \in TailType /\ t.state = tail.state /\ t.news = tail.news
        /\ [tail EXCEPT !.state = s, !.paused = p] \in TailType
        /\ LET t == [tail EXCEPT !.state = s, !.news = b, !.paused = p] IN t \in TailType /\ t.state = s
    BY <1>1 DEF TailType
<1>4. {"connecting", "opened", "open", "asking", "waiting"} \subseteq TailSteps
    BY DEF TailSteps
<1>5. CASE Console!Change \/ Console!Revoke
    BY <1>1, <1>5, ChangeKept, RevokeKept DEF Console!Change, Console!Revoke
<1>6. CASE Console!Ask \/ Console!Serve \/ Console!ServeExtra
    <2>1. Console!ConsoleInv'
        BY <1>6, AskKeptConsole, ServeKept, ServeExtraKept
    <2>2. view' = view
        BY <1>6 DEF Console!Ask, Console!Serve, Console!ServeExtra
    <2> QED
        BY <1>1, <2>1, <2>2
<1>7. CASE Console!Retry
    <2>1. Console!Load(FALSE) /\ UNCHANGED <<server, extra, screen, view, tail, older>>
        BY <1>7 DEF Console!Retry
    <2> QED
        BY <1>1, <2>1, LoadKept
<1>8. CASE Console!Deliver
    <2>1. Console!Load(FALSE) /\ UNCHANGED <<server, extra, screen, view, older>> /\ tail' = [tail EXCEPT !.news = FALSE]
        BY <1>8 DEF Console!Deliver
    <2>2. tail' \in TailType
        BY <1>3, <1>4, <2>1
    <2> QED
        BY <1>1, <2>1, <2>2, LoadKept
<1>9. CASE Console!Open
    <2>1. /\ Console!Load(FALSE) /\ UNCHANGED <<server, extra, screen, view, older>>
          /\ tail' = [tail EXCEPT !.state = "opened", !.paused = FALSE]
        BY <1>9 DEF Console!Open
    <2>2. tail' \in TailType
        BY <1>3, <1>4, <2>1
    <2> QED
        BY <1>1, <2>1, <2>2, LoadKept
<1>10. CASE Console!Refuse
    <2>1. Console!Load(TRUE) /\ UNCHANGED <<server, extra, screen, view, older>>
        BY <1>10 DEF Console!Refuse
    <2>2. \E s \in {"asking", "waiting"} : tail' = [state |-> s, news |-> FALSE, paused |-> TRUE, marked |-> FALSE]
        BY <1>10 DEF Console!Refuse
    <2>3. tail' \in TailType
        BY <1>2, <1>4, <2>2
    <2> QED
        BY <1>1, <2>1, <2>3, LoadKept
<1>11. CASE Console!Drop
    <2>1. /\ UNCHANGED <<server, seq, reading, extra, screen, view, older, untold>>
          /\ tail' = [tail EXCEPT !.state = "connecting", !.news = @ /\ tail.marked, !.paused = TRUE]
        BY <1>11 DEF Console!Drop
    <2>2. (tail.news /\ tail.marked) \in BOOLEAN
        BY <1>1 DEF TailType
    <2>3. tail' \in TailType /\ tail'.state = "connecting"
        BY <1>3, <1>4, <2>1, <2>2
    <2>4. ~Console!Still'
        BY <2>3 DEF Console!Still
    <2> QED
        BY <1>1, <2>1, <2>3, <2>4, TailKept
<1>12. CASE Console!Reconnect \/ Console!ReadHeads
    <2>1. /\ UNCHANGED <<server, seq, reading, extra, screen, view, older, untold>>
          /\ \E s \in {"connecting", "open"} :
                tail' = [tail EXCEPT !.state = s] /\ (s = "open" => tail.state = "opened")
        <3>1. CASE Console!Reconnect
            BY <3>1 DEF Console!Reconnect
        <3>2. CASE Console!ReadHeads
            BY <3>2 DEF Console!ReadHeads
        <3> QED
            BY <1>12, <3>1, <3>2
    <2>2. /\ tail' \in TailType /\ tail'.news = tail.news /\ tail'.state \in {"connecting", "open"}
          /\ tail'.state = "open" => tail.state = "opened"
        <3>1. PICK s \in {"connecting", "open"} : tail' = [tail EXCEPT !.state = s] /\ (s = "open" => tail.state = "opened")
            BY <2>1
        <3>2. s \in TailSteps
            BY <1>4
        <3>3. tail' \in TailType /\ tail'.state = s /\ tail'.news = tail.news
            BY <1>3, <3>1, <3>2
        <3> QED
            BY <3>1, <3>3
    <2>3. Console!Still' => Console!Still
        BY <2>1, <2>2 DEF Console!Still
    <2> QED
        BY <1>1, <2>1, <2>2, <2>3, TailKept
<1>15. CASE Console!SendCursor
    <2>1. /\ UNCHANGED <<server, seq, reading, extra, screen, view, older, untold>>
          /\ tail' = [tail EXCEPT !.marked = TRUE]
        BY <1>15 DEF Console!SendCursor
    <2>2. tail' \in TailType /\ tail'.state = tail.state /\ tail'.news = tail.news
        BY <1>3, <1>4, <2>1
    <2>3. Console!Still' => Console!Still
        BY <2>1, <2>2 DEF Console!Still
    <2> QED
        BY <1>1, <2>1, <2>2, <2>3, TailKept
<1>13. CASE Console!Arrive
    <2>1. CASE reading.n = seq
        BY <1>13, <2>1, ArriveKept
    <2>2. CASE reading.n # seq
        BY <1>1, <1>13, <2>2, ArriveLateKept
    <2> QED
        BY <2>1, <2>2
<1>14. CASE Console!ArriveExtra \/ Console!Reload
    BY <1>14, ArriveExtraKept, ReloadKept
<1> QED
    BY <1>5, <1>6, <1>7, <1>8, <1>9, <1>10, <1>11, <1>12, <1>13, <1>14, <1>15
    DEF Console!Next, Console!Reader, Console!Network

LEMMA ConsoleInvSound == Console!ConsoleInv => Console!TypeOK /\ Console!QuietIsCurrent
<1> SUFFICES ASSUME Console!ConsoleInv PROVE Console!TypeOK /\ Console!QuietIsCurrent
    OBVIOUS
<1>1. /\ Console!Typed /\ Console!Numbered /\ Console!Mounted /\ Console!LatestTrue
    BY ConsoleParts
<1>2. /\ seq \in Nat /\ seq # 0 /\ server.v \in 0..MaxChanges /\ screen \in ScreenType
    BY <1>1, ConsoleTypes
<1>3. Console!TypeOK
    <2>1. Doc(screen.displayed) => view.mount # 0
        BY <1>1, <1>2, ScreenFields, KindsAre DEF Console!Mounted, Console!MountOf, Doc, Shows
    <2>2. ~Doc(screen.displayed) => view.mount = 0
        BY <1>1, NothingIs DEF Console!Mounted, Doc
    <2> QED
        BY <1>1, <1>2, <2>1, <2>2 DEF Console!TypeOK, Console!Numbered, Doc
<1>4. Console!QuietIsCurrent
    <2> SUFFICES ASSUME Console!Quiet, Doc(screen.displayed), ~Console!Marked, ~older, ~untold
                 PROVE  view.live.v = server.v
        BY DEF Console!QuietIsCurrent, Doc
    <2>1. Console!AsServed(view.live)
        <3>1. reading.n = 0 /\ extra.n = 0 /\ Console!Still /\ ~reading.dirty
            BY <1>1 DEF Console!Quiet, Console!Numbered, Console!Still
        <3>2. ~view.failed
            BY DEF Console!Marked
        <3> QED
            BY <1>1, <1>2, <3>1, <3>2 DEF Console!LatestTrue, Doc
    <2>2. Doc(view.live)
        BY <1>1 DEF Console!Mounted, Doc
    <2> QED
        BY <1>1, <2>1, <2>2 DEF Console!AsServed, Doc
<1> QED
    BY <1>3, <1>4

LEMMA OneElement == ASSUME NEW x PROVE IsFiniteSet({x}) /\ Cardinality({x}) = 1
    BY Zenon, FS_Singleton

-----------------------------------------------------------------------------
(* The presses of one control, by the names their state has in Intents:    *)
(* the key, what is out under it, and the acts it bought.                  *)

key == x1
settled == x3
out == x4
presses == x5
acts == x7
under == x9
misled == x10

USE DEF key, settled, out, presses, acts, under, misled

LEMMA IntentsParts ==
    Intents!IntentsInv <=> Intents!TypeOK /\ Intents!KeyActsOnce /\ Intents!KeepsTheKey
    BY DEF Intents!IntentsInv

LEMMA IntentsPartsNext ==
    Intents!IntentsInv' <=> (Intents!TypeOK /\ Intents!KeyActsOnce /\ Intents!KeepsTheKey)'
    BY IntentsParts, PTL

LEMMA PressKept ==
    ASSUME Intents!IntentsInv, NEW b \in Sayings, Intents!Press(b)
    PROVE  Intents!IntentsInv'
<1>1. Intents!TypeOK /\ Intents!KeyActsOnce /\ Intents!KeepsTheKey
    BY IntentsParts
<1>2. /\ out = 0 /\ key' = IF Intents!RetriesSame(b) THEN key ELSE key + 1
      /\ presses' = Append(presses, [key |-> key', body |-> b]) /\ out' = Len(presses')
      /\ under' = (IF b = x2 THEN under ELSE {}) \cup {key'} /\ misled' = (b = x2 /\ misled)
      /\ UNCHANGED <<settled, acts>>
    BY DEF Intents!Press
<1>3. key' \in Nat
    BY <1>1, <1>2 DEF Intents!TypeOK
<1>4. presses' \in Seq(Intents!Pressed) /\ Len(presses') = Len(presses) + 1 /\ Len(presses) \in Nat
    <2>1. presses \in Seq(Intents!Pressed) /\ [key |-> key', body |-> b] \in Intents!Pressed
        BY <1>1, <1>3 DEF Intents!TypeOK, Intents!Pressed
    <2> HIDE DEF Intents!Pressed
    <2> QED
        BY <1>2, <2>1
<1>5. Intents!TypeOK' /\ Intents!KeyActsOnce'
    BY <1>1, <1>2, <1>3, <1>4 DEF Intents!TypeOK, Intents!KeyActsOnce
<1>6. Intents!KeepsTheKey'
    <2>1. out' # 0
        BY <1>2, <1>4
    <2> SUFFICES ASSUME ~misled' PROVE under' \subseteq {key'}
        BY <2>1 DEF Intents!KeepsTheKey
    <2>2. CASE b = x2
        <3>1. under \subseteq {key} /\ (settled => under = {})
            BY <1>1, <1>2, <2>2 DEF Intents!KeepsTheKey
        <3>2. ~settled => key' = key
            BY <1>2, <2>2 DEF Intents!RetriesSame
        <3> QED
            BY <1>2, <2>2, <3>1, <3>2
    <2>3. CASE b # x2
        BY <1>2, <2>3
    <2> QED
        BY <2>2, <2>3
<1> QED
    BY <1>5, <1>6, IntentsPartsNext

LEMMA ReplyKept ==
    ASSUME Intents!IntentsInv, Intents!Arrive
    PROVE  Intents!IntentsInv'
<1>1. Intents!TypeOK /\ Intents!KeyActsOnce /\ Intents!KeepsTheKey
    BY IntentsParts
<1>2. PICK reply \in {x6[out], "UNREADABLE"} :
        /\ settled' = Intents!Settles(reply)
        /\ LET blind == reply \in {"REFUSED", "BUSY"} /\ \E k \in under : Intents!Untold(k) IN
           /\ misled' = ((misled \/ blind) /\ reply # "ok")
           /\ under' = IF reply \in {"ok", "REFUSED", "BUSY"} /\ ~blind THEN {} ELSE under
    BY DEF Intents!Arrive
<1>3. UNCHANGED <<key, presses, acts>>
    BY DEF Intents!Arrive
<1>4. Intents!TypeOK' /\ Intents!KeyActsOnce'
    BY <1>1, <1>3 DEF Intents!TypeOK, Intents!KeyActsOnce
<1>5. Intents!KeepsTheKey'
    BY <1>1, <1>2, <1>3 DEF Intents!KeepsTheKey, Intents!Settles
<1> QED
    BY <1>4, <1>5, IntentsPartsNext

LEMMA OfflineKept ==
    ASSUME Intents!IntentsInv, Intents!Offline
    PROVE  Intents!IntentsInv'
<1>1. Intents!TypeOK /\ Intents!KeyActsOnce /\ Intents!KeepsTheKey
    BY IntentsParts
<1>2. settled' = FALSE /\ UNCHANGED <<key, presses, acts, under, misled>>
    BY DEF Intents!Offline
<1> QED
    BY <1>1, <1>2, IntentsPartsNext DEF Intents!TypeOK, Intents!KeyActsOnce, Intents!KeepsTheKey

LEMMA ActKept ==
    ASSUME Intents!IntentsInv, NEW i, Intents!Serve(i)
    PROVE  Intents!IntentsInv'
<1>1. Intents!TypeOK /\ Intents!KeyActsOnce /\ Intents!KeepsTheKey
    BY IntentsParts
<1>2. i \in DOMAIN presses /\ UNCHANGED <<key, settled, out, presses, under, misled>>
    BY DEF Intents!Serve
<1>3. UNCHANGED acts \/ (~Intents!Acted(presses[i].key) /\ acts' = Append(acts, presses[i]))
    BY DEF Intents!Serve
<1>4. Intents!KeepsTheKey'
    BY <1>1, <1>2 DEF Intents!KeepsTheKey
<1>5. CASE UNCHANGED acts
    BY <1>1, <1>2, <1>4, <1>5, IntentsPartsNext DEF Intents!TypeOK, Intents!KeyActsOnce
<1>6. CASE ~Intents!Acted(presses[i].key) /\ acts' = Append(acts, presses[i])
    <2>1. acts \in Seq(Intents!Pressed) /\ presses[i] \in Intents!Pressed
        BY <1>1, <1>2 DEF Intents!TypeOK
    <2> HIDE DEF Intents!Pressed
    <2>2. /\ acts' \in Seq(Intents!Pressed) /\ Len(acts') = Len(acts) + 1 /\ Len(acts) \in Nat
          /\ \A j \in 1..Len(acts) : acts'[j] = acts[j]
          /\ acts'[Len(acts) + 1] = presses[i]
          /\ DOMAIN acts' = 1..(Len(acts) + 1) /\ DOMAIN acts = 1..Len(acts)
        BY <1>6, <2>1, AppendProperties
    <2>3. \A j \in 1..Len(acts) : acts[j].key # presses[i].key
        BY <1>6, <2>2 DEF Intents!Acted
    <2>4. Intents!KeyActsOnce'
        BY <1>1, <2>2, <2>3 DEF Intents!KeyActsOnce
    <2>5. Intents!TypeOK'
        BY <1>1, <1>2, <2>2 DEF Intents!TypeOK
    <2> QED
        BY <1>4, <2>4, <2>5, IntentsPartsNext
<1> QED
    BY <1>3, <1>5, <1>6

LEMMA IntentsStill ==
    ASSUME Intents!IntentsInv, UNCHANGED <<key, settled, out, presses, acts, under, misled>>
    PROVE  Intents!IntentsInv'
    BY IntentsParts, IntentsPartsNext DEF Intents!TypeOK, Intents!KeyActsOnce, Intents!KeepsTheKey

LEMMA InitPressed == Intents!Init => Intents!IntentsInv
<1> SUFFICES ASSUME Intents!Init PROVE Intents!IntentsInv
    OBVIOUS
<1>1. key = 0 /\ settled = TRUE /\ out = 0 /\ presses = <<>> /\ acts = <<>> /\ under = {}
    BY DEF Intents!Init
<1>2. <<>> \in Seq(Intents!Pressed) /\ DOMAIN acts = {}
    BY <1>1
<1> QED
    BY <1>1, <1>2, IntentsParts DEF Intents!TypeOK, Intents!KeyActsOnce, Intents!KeepsTheKey

LEMMA NextPressed ==
    ASSUME Intents!IntentsInv, Intents!Next
    PROVE  Intents!IntentsInv'
<1>1. ASSUME NEW b \in Sayings, Intents!Press(b) PROVE Intents!IntentsInv'
    BY <1>1, PressKept
<1>2. ASSUME NEW i \in 1..MaxPresses, Intents!Serve(i) \/ Intents!Busy(i) PROVE Intents!IntentsInv'
    BY <1>2, ActKept, IntentsStill DEF Intents!Busy
<1> QED
    BY <1>1, <1>2, ReplyKept, OfflineKept, IntentsStill DEF Intents!Next, Intents!Move

LEMMA IntentsInvSound == Intents!IntentsInv => Intents!OneAct
<1> SUFFICES ASSUME Intents!IntentsInv, ~misled
             PROVE  Intents!Cardinality({i \in DOMAIN acts : acts[i].key \in under}) <= 1
    BY DEF Intents!OneAct
<1> DEFINE S == {i \in DOMAIN acts : acts[i].key \in under}
<1>1. \A i, j \in S : i = j
    BY IntentsParts DEF Intents!KeyActsOnce, Intents!KeepsTheKey
<1>2. S = {} \/ \E i : S = {i}
    BY <1>1
<1>3. Cardinality(S) <= 1
    <2>1. CASE S = {}
        BY <2>1, FS_EmptySet
    <2>2. CASE \E i : S = {i}
        BY <2>2, OneElement
    <2> HIDE DEF S
    <2> QED
        BY <1>2, <2>1, <2>2
<1>4. Intents!Cardinality(S) = Cardinality(S)
    BY Zenon DEF Intents!Cardinality, Cardinality
<1> QED
    BY <1>3, <1>4

ConsolePart ==
    /\ part = "console" => Console!ConsoleInv
    /\ part = "intents" => Intents!IntentsInv

LEMMA ConsolePartNext ==
    ASSUME ConsolePart, [MCNext]_mcvars
    PROVE  ConsolePart' /\ (part = "console" /\ x6'.mount = x6.mount /\ ~x9' => x6'.live.v >= x6.live.v)
<1>n. part = "console" => x6.live.v \in Nat
    BY ConsoleParts, ConsoleTypes, ViewFields, KindsAre DEF ConsolePart
<1>1. CASE UNCHANGED mcvars
    <2>1. part' = part /\ UNCHANGED others
        BY <1>1 DEF mcvars
    <2>2. UNCHANGED Console!vars /\ UNCHANGED <<key, settled, out, presses, acts, under, misled>>
        BY <2>1 DEF others, Console!vars
    <2> QED
        BY <1>n, <2>1, <2>2, ConsoleStill, IntentsStill DEF ConsolePart
<1>2. CASE MCNext
    <2>1. part' = part
        BY <1>2, Zenon DEF MCNext
    <2>2. part = "console" => Console!Next
        BY <1>2, Zenon DEF MCNext
    <2>3. part = "intents" => Intents!Next
        BY <1>2, Zenon DEF MCNext
    <2> QED
        BY <2>1, <2>2, <2>3, NextShown, NextPressed DEF ConsolePart
<1> QED
    BY <1>1, <1>2

LEMMA ConsoleKept == MCSpec => []ConsolePart
<1>1. MCInit => ConsolePart
    <2>1. ASSUME MCInit, part = "console" PROVE Console!ConsoleInv
        <3>1. Console!Init
            BY <2>1, Zenon DEF MCInit
        <3> QED
            BY <3>1, InitShown
    <2>2. ASSUME MCInit, part = "intents" PROVE Intents!IntentsInv
        <3>1. Intents!Init
            BY <2>2, Zenon DEF MCInit
        <3> QED
            BY <3>1, InitPressed
    <2> QED
        BY <2>1, <2>2 DEF ConsolePart
<1>2. ConsolePart /\ [MCNext]_mcvars => ConsolePart'
    BY ConsolePartNext
<1> QED
    BY <1>1, <1>2, PTL DEF MCSpec

\* The console (app/Workspace.tsx, app/useDocumentRefetch.ts; app/commands.ts): for any
\* changes, reads, faults and presses, once nothing is on its way and the stream is open a
\* document with no mark on it is the server's, but for one a Reload showed over a later
\* read, and for a change that fell between the open and the heads of a tail without a
\* marker, after the latest read was served; and the presses of one body until one is told
\* do at most one act, but where a refusal misled.
THEOREM ConsoleSoundHolds == MCSpec => []ConsoleSound
<1>1. ConsolePart => ConsoleSound
    BY ConsoleInvSound, IntentsInvSound DEF ConsolePart, ConsoleSound
<1> QED
    BY <1>1, ConsoleKept, PTL

\* What a mounted view shows never goes back to an earlier document, whatever reads
\* overtake one another, but by a Reload of one a later read has overtaken.
THEOREM NeverBackHolds == MCSpec => NeverBack
<1>1. ConsolePart /\ [MCNext]_mcvars =>
        [part = "console" /\ x6'.mount = x6.mount /\ ~x9' => x6'.live.v >= x6.live.v]_mcvars
    BY ConsolePartNext
<1> QED
    BY <1>1, ConsoleKept, PTL DEF MCSpec, NeverBack
=============================================================================
