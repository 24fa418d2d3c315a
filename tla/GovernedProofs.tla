--------------------------- MODULE GovernedProofs ---------------------------
(***************************************************************************)
(* A key buys one act and its answer stands, for any number of users,      *)
(* cases, keys and requests served at once.  The heart of it: a unit about *)
(* to commit is the only one that has inserted its receipt's key, and found*)
(* no receipt committed under it.  And the audit chain explains the store: *)
(* a unit holds its case from its decision to its commit, so the event it  *)
(* appends is sound where it is appended.                                  *)
(***************************************************************************)
EXTENDS Governed, FiniteSetTheorems, WellFoundedInduction, TLAPS

\* Who has inserted a receipt holds its key alone, and no receipt is there yet.
InsertedAlone ==
    \A g, h \in Handlers :
        pc[g] = "commit" /\ pc[h] = "commit" /\ Id(request[g]) = Id(request[h]) => g = h
Unbought == \A h \in Handlers : pc[h] = "commit" => Stored(request[h]) = {}

IInv == TypeOK /\ InsertedAlone /\ Unbought /\ OnceUnderAKey /\ AnswerStands

Steps == {"idle", "lookup", "lock", "record", "commit", "twin"}
Given == [code : Codes, case : Cases \cup {None}]

-----------------------------------------------------------------------------
(* Receipts and answers.                                                   *)

\* A stored receipt is the receipt of its request and its case.
LEMMA ReceiptShape ==
    ASSUME TypeOK, NEW r \in receipts
    PROVE  r.request \in Requests /\ r.case \in Cases /\ r = Receipt(r.request, r.case)
<1>1. PICK q \in Requests, c \in Cases : r = Receipt(q, c)
  BY DEF TypeOK, StoreOK
<1> QED
  BY <1>1 DEF Receipt

LEMMA RefusedIsGiven ==
    ASSUME NEW c \in Codes
    PROVE  Refused(c) \in Given /\ Refused(c).code = c
  BY DEF Refused, Given

\* The store untouched, no event and no receipt changes place.
LEMMA StoreStays == ASSUME OnceUnderAKey, UNCHANGED store PROVE OnceUnderAKey'
  BY DEF OnceUnderAKey, store

LEMMA StoreTyped == ASSUME StoreOK, UNCHANGED store PROVE StoreOK'
  BY DEF StoreOK, store, Receipt, Id, Rank

LEMMA InitHolds == Init => IInv
<1> SUFFICES ASSUME Init PROVE IInv
  OBVIOUS
<1>1. Refused("NONE") \in Given /\ Refused("NONE").code = "NONE"
  BY RefusedIsGiven DEF Codes
<1>2. TypeOK
  BY <1>1 DEF Init, TypeOK, StoreOK, ServingOK, Rank, Given, Holding
<1>3. InsertedAlone /\ Unbought /\ AnswerStands
  BY <1>1 DEF Init, InsertedAlone, Unbought, AnswerStands
<1>4. OnceUnderAKey
  BY DEF Init, OnceUnderAKey
<1> QED
  BY <1>2, <1>3, <1>4 DEF IInv

-----------------------------------------------------------------------------
(* The steps before the commit.                                            *)

\* A request answered and its unit, if any, rolled back.
LEMMA AnswerKeeps ==
    ASSUME IInv, NEW h \in Handlers, NEW a \in Given, Answer(h, a),
           UNCHANGED <<store, request, case>>,
           a.code = "OK" => Receipt(request[h], a.case) \in receipts
    PROVE  IInv'
<1>1. \A g \in Handlers : pc'[g] = IF g = h THEN "idle" ELSE pc[g]
  BY DEF Answer, Go, IInv, TypeOK, ServingOK
<1>2. \A g \in Handlers : answer'[g] = IF g = h THEN a ELSE answer[g]
  BY DEF Answer, IInv, TypeOK, ServingOK
<1>3. pc' \in [Handlers -> Steps] /\ answer' \in [Handlers -> Given]
  BY DEF Answer, Go, IInv, TypeOK, ServingOK, Steps, Given
<1>4. TypeOK'
  <2>1. StoreOK'
    BY StoreTyped DEF IInv, TypeOK
  <2>2. /\ \A g \in Handlers : pc'[g] # "idle" => request'[g] \in Requests
        /\ \A g \in Handlers : pc'[g] \in Holding => case'[g] \in Cases
    BY <1>1 DEF IInv, TypeOK, ServingOK, Holding
  <2>3. \A f, g \in Handlers :
          pc'[f] \in Holding /\ pc'[g] \in Holding /\ case'[f] = case'[g] => f = g
    BY <1>1 DEF IInv, TypeOK, ServingOK, Holding
  <2>4. request' = request /\ case' = case
    OBVIOUS
  <2>5. ServingOK'
    BY <1>3, <2>2, <2>3, <2>4 DEF IInv, TypeOK, ServingOK, Steps, Given
  <2> QED
    BY <2>1, <2>5 DEF TypeOK
<1>5. InsertedAlone' /\ Unbought'
  BY <1>1 DEF IInv, InsertedAlone, Unbought, Stored, store
<1>6. AnswerStands'
  BY <1>2 DEF IInv, AnswerStands, store
<1> QED
  BY <1>4, <1>5, <1>6, StoreStays DEF IInv

\* A step of the unit that answers nobody and writes nothing.
LEMMA UnitMoves ==
    ASSUME IInv, NEW h \in Handlers, NEW p \in Steps \ {"idle"}, Go(h, p), request[h] \in Requests,
           UNCHANGED <<store, request, answer>>,
           case' \in [Handlers -> Cases \cup {None}],
           \A g \in Handlers \ {h} : case'[g] = case[g],
           p \in Holding => /\ case'[h] \in Cases
                            /\ \A g \in Handlers \ {h} : pc[g] \in Holding => case[g] # case'[h],
           p = "commit" => Stored(request[h]) = {} /\ ~Inserted(request[h])
    PROVE  IInv'
<1>1. \A g \in Handlers : pc'[g] = IF g = h THEN p ELSE pc[g]
  BY DEF Go, IInv, TypeOK, ServingOK
<1>2. pc' \in [Handlers -> Steps]
  BY DEF Go, IInv, TypeOK, ServingOK, Steps
<1>3. TypeOK'
  <2>1. /\ \A g \in Handlers : pc'[g] # "idle" => request'[g] \in Requests
        /\ \A g \in Handlers : pc'[g] \in Holding => case'[g] \in Cases
    BY <1>1 DEF IInv, TypeOK, ServingOK
  <2>2. \A f, g \in Handlers :
          pc'[f] \in Holding /\ pc'[g] \in Holding /\ case'[f] = case'[g] => f = g
    BY <1>1 DEF IInv, TypeOK, ServingOK
  <2>3. StoreOK'
    BY StoreTyped DEF IInv, TypeOK
  <2>4. ServingOK'
    BY <1>2, <2>1, <2>2 DEF IInv, TypeOK, ServingOK, Steps
  <2> QED
    BY <2>3, <2>4 DEF TypeOK
<1>4. InsertedAlone'
  BY <1>1 DEF IInv, InsertedAlone, Inserted
<1>5. Unbought'
  BY <1>1 DEF IInv, Unbought, Stored, store
<1>6. AnswerStands'
  BY DEF IInv, AnswerStands, store
<1> QED
  BY <1>3, <1>4, <1>5, <1>6, StoreStays DEF IInv

LEMMA RefusalKeeps ==
    ASSUME IInv, NEW h \in Handlers, NEW c \in Codes \ {"OK"}, Answer(h, Refused(c)),
           UNCHANGED <<store, request, case>>
    PROVE  IInv'
  BY RefusedIsGiven, AnswerKeeps

\* A receipt is replayed to the request it answered, or the key is refused.
LEMMA ReplayKeeps ==
    ASSUME IInv, NEW h \in Handlers, NEW r \in Stored(request[h]), Replay(h, r),
           UNCHANGED <<store, request, case>>
    PROVE  IInv'
<1>1. r \in receipts /\ r.case \in Cases /\ r = Receipt(r.request, r.case)
  BY ReceiptShape DEF Stored, IInv
<1>2. CASE r.request = request[h]
  <2>1. Answered(r) \in Given /\ Answered(r).code = "OK" /\ Answered(r).case = r.case
    BY <1>1 DEF Answered, Given, Codes
  <2>2. Receipt(request[h], Answered(r).case) \in receipts
    BY <1>1, <1>2, <2>1
  <2>3. Answer(h, Answered(r))
    BY <1>2 DEF Replay
  <2> QED
    BY <2>1, <2>2, <2>3, AnswerKeeps
<1>3. CASE r.request # request[h]
  BY <1>3, RefusalKeeps DEF Replay, Codes
<1> QED
  BY <1>2, <1>3

LEMMA AskKeeps == ASSUME IInv, NEW h \in Handlers, Ask(h) PROVE IInv'
<1>1. PICK q \in Requests : request' = [request EXCEPT ![h] = q]
  BY DEF Ask
<1>2. /\ pc' = [pc EXCEPT ![h] = "lookup"]
      /\ case' = [case EXCEPT ![h] = None]
      /\ answer' = [answer EXCEPT ![h] = Refused("NONE")]
      /\ pc[h] = "idle" /\ UNCHANGED store
  BY DEF Ask, Go
<1>3. Refused("NONE") \in Given /\ Refused("NONE").code = "NONE"
  BY RefusedIsGiven DEF Codes
<1>4. \A g \in Handlers :
        /\ pc'[g] = IF g = h THEN "lookup" ELSE pc[g]
        /\ request'[g] = IF g = h THEN q ELSE request[g]
        /\ case'[g] = IF g = h THEN None ELSE case[g]
        /\ answer'[g] = IF g = h THEN Refused("NONE") ELSE answer[g]
  BY <1>1, <1>2 DEF IInv, TypeOK, ServingOK
<1>5. TypeOK'
  <2>1. /\ pc' \in [Handlers -> Steps] /\ request' \in [Handlers -> Requests \cup {None}]
        /\ case' \in [Handlers -> Cases \cup {None}] /\ answer' \in [Handlers -> Given]
    BY <1>1, <1>2, <1>3 DEF IInv, TypeOK, ServingOK, Steps, Given
  <2>2. /\ \A g \in Handlers : pc'[g] # "idle" => request'[g] \in Requests
        /\ \A g \in Handlers : pc'[g] \in Holding => case'[g] \in Cases
    BY <1>4 DEF IInv, TypeOK, ServingOK, Holding
  <2>3. \A f, g \in Handlers :
          pc'[f] \in Holding /\ pc'[g] \in Holding /\ case'[f] = case'[g] => f = g
    BY <1>4 DEF IInv, TypeOK, ServingOK, Holding
  <2>4. StoreOK'
    BY <1>2, StoreTyped DEF IInv, TypeOK
  <2> QED
    BY <2>1, <2>2, <2>3, <2>4 DEF TypeOK, ServingOK, Steps, Given
<1>6. InsertedAlone' /\ Unbought'
  BY <1>2, <1>4 DEF IInv, InsertedAlone, Unbought, Stored, store
<1>7. AnswerStands'
  BY <1>2, <1>3, <1>4 DEF IInv, AnswerStands, store
<1> QED
  BY <1>2, <1>5, <1>6, <1>7, StoreStays DEF IInv

LEMMA LookupKeeps == ASSUME IInv, NEW h \in Handlers, Lookup(h) PROVE IInv'
<1> USE DEF Lookup
<1>1. CASE \E r \in Stored(request[h]) : Replay(h, r)
  BY <1>1, ReplayKeeps
<1>2. CASE Go(h, "lock") /\ UNCHANGED answer
  <2>1. request[h] \in Requests
    BY DEF IInv, TypeOK, ServingOK
  <2>2. case' \in [Handlers -> Cases \cup {None}] /\ \A g \in Handlers \ {h} : case'[g] = case[g]
    BY DEF IInv, TypeOK, ServingOK
  <2> QED
    BY <1>2, <2>1, <2>2, UnitMoves DEF Steps, Holding
<1> QED
  BY <1>1, <1>2

LEMMA LockKeeps == ASSUME IInv, NEW h \in Handlers, Lock(h) PROVE IInv'
<1>1. PICK c \in Lockable(h) :
        \/ \E k \in Codes \ {"OK"} : Answer(h, Refused(k)) /\ UNCHANGED case
        \/ Go(h, "twin") /\ UNCHANGED <<case, answer>>
        \/ Go(h, "record") /\ case' = [case EXCEPT ![h] = c] /\ UNCHANGED answer
  BY DEF Lock, Codes
<1>2. request[h] \in Requests /\ UNCHANGED <<store, request>>
  BY DEF Lock, IInv, TypeOK, ServingOK
<1>3. case \in [Handlers -> Cases \cup {None}]
  BY DEF IInv, TypeOK, ServingOK
<1>4. CASE \E k \in Codes \ {"OK"} : Answer(h, Refused(k)) /\ UNCHANGED case
  BY <1>2, <1>4, RefusalKeeps
<1>5. CASE Go(h, "twin") /\ UNCHANGED <<case, answer>>
  BY <1>2, <1>3, <1>5, UnitMoves DEF Steps, Holding
<1>6. CASE Go(h, "record") /\ case' = [case EXCEPT ![h] = c] /\ UNCHANGED answer
  <2>1. c \in Cases /\ ~Locked(c)
    BY <1>2, RequestsAre DEF Lockable, Creates
  <2>2. /\ case' \in [Handlers -> Cases \cup {None}] /\ case'[h] = c
        /\ \A g \in Handlers \ {h} : case'[g] = case[g]
    BY <1>3, <1>6, <2>1
  <2>3. \A g \in Handlers \ {h} : pc[g] \in Holding => case[g] # c
    BY <2>1 DEF Locked
  <2> QED
    BY <1>2, <1>6, <2>1, <2>2, <2>3, UnitMoves DEF Steps
<1> QED
  BY <1>1, <1>4, <1>5, <1>6

LEMMA RecordKeeps == ASSUME IInv, NEW h \in Handlers, Record(h) PROVE IInv'
<1>1. /\ request[h] \in Requests /\ UNCHANGED <<store, request, answer>>
      /\ case' = case /\ case \in [Handlers -> Cases \cup {None}]
      /\ pc[h] = "record" /\ case[h] \in Cases
      /\ \A g \in Handlers \ {h} : pc[g] \in Holding => case[g] # case[h]
  BY DEF Record, IInv, TypeOK, ServingOK, Holding
<1>2. CASE Stored(request[h]) = {}
  BY <1>1, <1>2, UnitMoves DEF Record, Steps
<1>3. CASE Stored(request[h]) # {}
  BY <1>1, <1>3, UnitMoves DEF Record, Steps, Holding
<1> QED
  BY <1>2, <1>3

LEMMA FailKeeps == ASSUME IInv, NEW h \in Handlers, Fail(h) PROVE IInv'
  BY RefusalKeeps DEF Fail, Codes

LEMMA TwinKeeps == ASSUME IInv, NEW h \in Handlers, Twin(h) PROVE IInv'
<1> USE DEF Twin
<1>1. CASE \E r \in Stored(request[h]) : Replay(h, r)
  BY <1>1, ReplayKeeps
<1>2. CASE Answer(h, Refused("STORE_UNAVAILABLE"))
  BY <1>2, RefusalKeeps DEF Codes
<1> QED
  BY <1>1, <1>2

-----------------------------------------------------------------------------
(* The commit.                                                             *)

\* An event appended is the chain's last, and moves none before it.
LEMMA Appended ==
    ASSUME NEW s \in Seq(Requests), NEW q \in Requests
    PROVE  /\ Append(s, q) \in Seq(Requests)
           /\ Len(s) \in Nat /\ DOMAIN s = 1..Len(s)
           /\ DOMAIN Append(s, q) = 1..(Len(s) + 1)
           /\ Append(s, q)[Len(s) + 1] = q
           /\ \A i \in DOMAIN s : Append(s, q)[i] = s[i]
  OBVIOUS

\* What a command leaves is a membership and a set of sources.
LEMMA MembersTyped ==
    ASSUME NEW q \in Requests, NEW held \in [Users -> DOMAIN Rank], NEW sources \in SUBSET Sources
    PROVE  Members(q, held) \in [Users -> DOMAIN Rank] /\ LiveAfter(q, sources) \in SUBSET Sources
<1>1. q.actor \in Users
  BY RequestsAre
<1>2. q.command = "GRANT" => q.on \in Users /\ q.to \in DOMAIN Rank
  BY RequestsAre DEF Grants
<1>3. q.command = "ADMIT" => q.on \in Sources
  BY RequestsAre DEF Admissions
<1>4. "ADMIN" \in DOMAIN Rank /\ "NONE" \in DOMAIN Rank
  BY DEF Rank
<1>5. Members(q, held) \in [Users -> DOMAIN Rank]
  BY <1>1, <1>2, <1>4 DEF Members
<1>6. LiveAfter(q, sources) \in SUBSET Sources
  BY <1>3 DEF LiveAfter
<1> QED
  BY <1>5, <1>6

LEMMA CommitKeeps == ASSUME IInv, NEW h \in Handlers, Commit(h) PROVE IInv'
<1> DEFINE q == request[h]
           c == case[h]
           r == Receipt(q, c)
<1>1. /\ q \in Requests /\ c \in Cases /\ pc[h] = "commit" /\ Stored(q) = {}
      /\ chain' = [chain EXCEPT ![c] = Append(@, q)]
      /\ receipts' = receipts \cup {r}
      /\ Apply(q, c) /\ UNCHANGED <<request, case>>
  BY DEF Commit, IInv, TypeOK, ServingOK, Unbought, Holding
<1>2. PICK a \in {Answered(r), Refused("STORE_UNAVAILABLE")} : Answer(h, a)
  BY DEF Commit
<1>3. r.id = Id(q) /\ r.request = q /\ r.case = c
  BY DEF Receipt
<1>4. a \in Given /\ (a.code = "OK" => a.case = c)
  BY <1>1, <1>2, <1>3 DEF Answered, Refused, Given, Codes
<1>5. /\ pc' \in [Handlers -> Steps] /\ answer' \in [Handlers -> Given]
      /\ \A g \in Handlers : pc'[g] = IF g = h THEN "idle" ELSE pc[g]
      /\ \A g \in Handlers : answer'[g] = IF g = h THEN a ELSE answer[g]
  BY <1>2, <1>4 DEF Answer, Go, IInv, TypeOK, ServingOK, Steps, Given
<1>6. \A d \in Cases : chain[d] \in Seq(Requests)
  BY DEF IInv, TypeOK, StoreOK
<1>7. \A d \in Cases : chain'[d] = IF d = c THEN Append(chain[c], q) ELSE chain[d]
  BY <1>1 DEF IInv, TypeOK, StoreOK
<1>8. StoreOK'
  <2>1. chain' \in [Cases -> Seq(Requests)]
    BY <1>1, <1>6, Appended DEF IInv, TypeOK, StoreOK
  <2>2. standing' \in [Cases -> [Users -> DOMAIN Rank]] /\ live' \in [Cases -> SUBSET Sources]
    <3>1. standing[c] \in [Users -> DOMAIN Rank] /\ live[c] \in SUBSET Sources
      BY <1>1 DEF IInv, TypeOK, StoreOK
    <3>2. Members(q, standing[c]) \in [Users -> DOMAIN Rank] /\ LiveAfter(q, live[c]) \in SUBSET Sources
      BY <1>1, <3>1, MembersTyped
    <3>3. /\ standing' = [standing EXCEPT ![c] = Members(q, standing[c])]
          /\ live' = [live EXCEPT ![c] = LiveAfter(q, live[c])]
      BY <1>1 DEF Apply
    <3> QED
      BY <1>1, <3>2, <3>3 DEF IInv, TypeOK, StoreOK
  <2>3. receipts' \subseteq {Receipt(p, d) : p \in Requests, d \in Cases}
    BY <1>1 DEF IInv, TypeOK, StoreOK
  <2>4. \A s, t \in receipts' : s.id = t.id => s = t
    BY <1>1, <1>3 DEF IInv, TypeOK, StoreOK, Stored
  <2> QED
    BY <2>1, <2>2, <2>3, <2>4 DEF StoreOK, Rank, Receipt, Id
<1>9. ServingOK'
  <2>1. /\ \A g \in Handlers : pc'[g] # "idle" => request'[g] \in Requests
        /\ \A g \in Handlers : pc'[g] \in Holding => case'[g] \in Cases
    BY <1>1, <1>5 DEF IInv, TypeOK, ServingOK, Holding
  <2>2. \A f, g \in Handlers :
          pc'[f] \in Holding /\ pc'[g] \in Holding /\ case'[f] = case'[g] => f = g
    BY <1>1, <1>5 DEF IInv, TypeOK, ServingOK, Holding
  <2> QED
    BY <1>1, <1>5, <2>1, <2>2 DEF IInv, TypeOK, ServingOK, Steps, Given
<1>10. InsertedAlone'
  BY <1>1, <1>5 DEF IInv, InsertedAlone
<1>11. Unbought'
  BY <1>1, <1>3, <1>5 DEF IInv, InsertedAlone, Unbought, Stored
<1>12. AnswerStands'
  <2>1. Receipt(request[h], c) \in receipts'
    BY <1>1
  <2> QED
    BY <1>1, <1>4, <1>5, <2>1 DEF IInv, AnswerStands
<1>13. OnceUnderAKey'
  <2> DEFINE n == Len(chain[c]) + 1
  <2>1. /\ DOMAIN chain[c] = 1..(n - 1) /\ n \in Nat
        /\ DOMAIN chain'[c] = 1..n /\ chain'[c][n] = q
        /\ \A i \in DOMAIN chain[c] : chain'[c][i] = chain[c][i]
    <3>1. chain[c] \in Seq(Requests) /\ chain'[c] = Append(chain[c], q)
      BY <1>1, <1>6, <1>7
    <3>2. /\ Len(chain[c]) \in Nat /\ DOMAIN chain[c] = 1..Len(chain[c])
          /\ DOMAIN Append(chain[c], q) = 1..n /\ Append(chain[c], q)[n] = q
          /\ \A i \in DOMAIN chain[c] : Append(chain[c], q)[i] = chain[c][i]
      BY <1>1, <3>1, Appended
    <3>3. Len(chain[c]) = n - 1 /\ n \in Nat
      BY <3>2
    <3> QED
      BY <3>1, <3>2, <3>3
  <2>2. /\ n \in DOMAIN chain'[c] /\ n \notin DOMAIN chain[c]
        /\ DOMAIN chain[c] \subseteq DOMAIN chain'[c]
        /\ \A i \in DOMAIN chain'[c] : i = n \/ i \in DOMAIN chain[c]
    BY <2>1
  <2>3. \A d \in Cases \ {c} : chain'[d] = chain[d]
    BY <1>7
  <2>4. \A s \in receipts' : \E i \in DOMAIN chain'[s.case] : chain'[s.case][i] = s.request
    <3> SUFFICES ASSUME NEW s \in receipts'
                 PROVE  \E i \in DOMAIN chain'[s.case] : chain'[s.case][i] = s.request
      OBVIOUS
    <3>1. CASE s = r
      BY <3>1, <1>3, <2>1, <2>2
    <3>2. CASE s \in receipts
      <4>1. PICK i \in DOMAIN chain[s.case] : chain[s.case][i] = s.request
        BY <3>2 DEF IInv, OnceUnderAKey
      <4>2. s.case \in Cases
        BY <3>2, ReceiptShape DEF IInv
      <4> QED
        BY <4>1, <4>2, <2>1, <2>2, <2>3
    <3> QED
      BY <1>1, <3>1, <3>2
  <2>5. \A d \in Cases : \A i \in DOMAIN chain[d] : Id(chain[d][i]) # Id(q)
    <3> SUFFICES ASSUME NEW d \in Cases, NEW i \in DOMAIN chain[d], Id(chain[d][i]) = Id(q)
                 PROVE  FALSE
      OBVIOUS
    <3>1. Receipt(chain[d][i], d) \in receipts
      BY DEF IInv, OnceUnderAKey
    <3> QED
      BY <1>1, <3>1 DEF Stored, Receipt
  <2>6. ASSUME NEW d \in Cases, NEW e \in Cases,
               NEW i \in DOMAIN chain'[d], NEW j \in DOMAIN chain'[e],
               Id(chain'[d][i]) = Id(chain'[e][j])
        PROVE  d = e /\ i = j
    <3>1. \/ d = c /\ i = n /\ chain'[d][i] = q
          \/ i \in DOMAIN chain[d] /\ chain'[d][i] = chain[d][i]
      BY <2>1, <2>2, <2>3
    <3>2. \/ e = c /\ j = n /\ chain'[e][j] = q
          \/ j \in DOMAIN chain[e] /\ chain'[e][j] = chain[e][j]
      BY <2>1, <2>2, <2>3
    <3>3. CASE i \in DOMAIN chain[d] /\ chain'[d][i] = chain[d][i]
               /\ j \in DOMAIN chain[e] /\ chain'[e][j] = chain[e][j]
      BY <2>6, <3>3 DEF IInv, OnceUnderAKey
    <3> QED
      BY <2>5, <2>6, <3>1, <3>2, <3>3
  <2>7. \A d \in Cases : \A i \in DOMAIN chain'[d] : Receipt(chain'[d][i], d) \in receipts'
    <3> SUFFICES ASSUME NEW d \in Cases, NEW i \in DOMAIN chain'[d]
                 PROVE  Receipt(chain'[d][i], d) \in receipts'
      OBVIOUS
    <3>1. CASE d = c /\ i = n
      BY <1>1, <2>1, <3>1
    <3>2. CASE i \in DOMAIN chain[d] /\ chain'[d][i] = chain[d][i]
      BY <1>1, <3>2 DEF IInv, OnceUnderAKey
    <3> QED
      BY <2>1, <2>2, <2>3, <3>1, <3>2
  <2> QED
    BY <2>4, <2>6, <2>7 DEF OnceUnderAKey
<1> QED
  BY <1>8, <1>9, <1>10, <1>11, <1>12, <1>13 DEF IInv, TypeOK

-----------------------------------------------------------------------------
(* The theorems.                                                           *)

LEMMA NextKeeps == IInv /\ [Next]_vars => IInv'
<1> SUFFICES ASSUME IInv, [Next]_vars PROVE IInv'
  OBVIOUS
<1>1. CASE UNCHANGED vars
  <2>1. StoreOK' /\ OnceUnderAKey'
    BY <1>1, StoreTyped, StoreStays DEF vars, IInv, TypeOK
  <2>2. ServingOK'
    BY <1>1 DEF vars, IInv, TypeOK, ServingOK
  <2>3. InsertedAlone' /\ Unbought' /\ AnswerStands'
    BY <1>1 DEF vars, store, IInv, InsertedAlone, Unbought, AnswerStands, Stored
  <2> QED
    BY <2>1, <2>2, <2>3 DEF IInv, TypeOK
<1>2. CASE Next
  <2>1. PICK h \in Handlers : Ask(h) \/ Serve(h) \/ Fail(h)
    BY <1>2 DEF Next
  <2> QED
    BY <2>1, AskKeeps, LookupKeeps, LockKeeps, RecordKeeps, CommitKeeps, TwinKeeps, FailKeeps
    DEF Serve
<1> QED
  BY <1>1, <1>2

LEMMA Inductive == Spec => []IInv
<1>1. Init => IInv
  BY InitHolds
<1>2. IInv /\ [Next]_vars => IInv'
  BY NextKeeps
<1> QED
  BY <1>1, <1>2, PTL DEF Spec

\* The state keeps its types, two receipts never share an id, and no case is
\* held by two units at once (commands.py governed_write, lock_case).
THEOREM TypeCorrect == Spec => []TypeOK
<1>1. IInv => TypeOK
  BY DEF IInv
<1> QED
  BY <1>1, Inductive, PTL

\* A key buys one act: events and receipts are one to one, whatever is asked at
\* once, lost or asked again (commands.py, record_receipt and _Twin).
THEOREM OnceUnderAKeyHolds == Spec => []OnceUnderAKey
<1>1. IInv => OnceUnderAKey
  BY DEF IInv
<1> QED
  BY <1>1, Inductive, PTL

\* Whoever is answered is answered its own request's receipt (commands.py _replay).
THEOREM AnswerStandsHolds == Spec => []AnswerStands
<1>1. IInv => AnswerStands
  BY DEF IInv
<1> QED
  BY <1>1, Inductive, PTL

-----------------------------------------------------------------------------
(* The fold of a chain of events, in its order.                            *)

\* A set of naturals has a least member.
LEMMA Least == ASSUME NEW S \in SUBSET Nat, S # {} PROVE \E m \in S : \A n \in S : m <= n
<1>1. PICK m \in S : \A n \in S : <<n, m>> \notin OpToRel(<, Nat)
  BY NatLessThanWellFounded, WFMin
<1>2. \A n \in S : ~(n < m)
  BY <1>1 DEF OpToRel
<1> QED
  BY <1>2

\* Induction over a finite set's subsets, for a property given as the set G of those that
\* have it.
LEMMA SetInduction ==
    ASSUME NEW S, IsFiniteSet(S), NEW G, {} \in G,
           \A T \in SUBSET S, x \in S : T \in G /\ x \notin T => T \cup {x} \in G
    PROVE  S \in G
<1> DEFINE Bad == (SUBSET S) \ G
<1> SUFFICES ASSUME S \notin G PROVE FALSE
  OBVIOUS
<1>1. Bad \subseteq FiniteSubsetsOf(S) /\ Bad # {}
  BY FS_FiniteSubsetsOfFinite
<1>2. PICK U \in Bad : \A V \in Bad : <<V, U>> \notin StrictSubsetOrdering(S)
  BY <1>1, FS_StrictSubsetOrderingWellFounded, WFMin
<1>3. PICK x \in U : TRUE
  OBVIOUS
<1>4. U \ {x} \in SUBSET S /\ U \ {x} # U
  BY <1>3
<1>5. U \ {x} \notin Bad
  BY <1>2, <1>4 DEF StrictSubsetOrdering
<1>6. (U \ {x}) \cup {x} \in G
  BY <1>3, <1>4, <1>5
<1>7. (U \ {x}) \cup {x} = U
  BY <1>3
<1> QED
  BY <1>6, <1>7

\* A subset none of whose proper subsets violates what it does.
LEMMA SmallestViolation ==
    ASSUME NEW S, IsFiniteSet(S), NEW Bad \in SUBSET SUBSET S, Bad # {}
    PROVE  \E U \in Bad : \A V \in SUBSET U : V # U => V \notin Bad
<1>1. Bad \subseteq FiniteSubsetsOf(S)
  BY FS_FiniteSubsetsOfFinite
<1>2. PICK U \in Bad : \A V \in Bad : <<V, U>> \notin StrictSubsetOrdering(S)
  BY <1>1, FS_StrictSubsetOrderingWellFounded, WFMin
<1> QED
  BY <1>2 DEF StrictSubsetOrdering

\* The event the fold takes next of the events t of a chain, and what its equation says.
Top(t) == CHOOSE x \in t : \A y \in t : x >= y
IsHistory(g, s) ==
    \A t \in SUBSET DOMAIN s :
        g[t] = IF t = {} THEN Start ELSE Follow(g[t \ {Top(t)}], s[Top(t)])

\* What the library computes for it.
LEMMA Unfold ==
    ASSUME NEW s
    PROVE  FoldLeft(Follow, Start, s) =
             (CHOOSE iter : iter = [t \in SUBSET DOMAIN s |->
                IF t = {} THEN Start ELSE Follow(iter[t \ {Top(t)}], s[Top(t)])])[DOMAIN s]
  BY Zenon DEF FoldLeft, MapThenFoldSet, Max, Top

\* It is one of them, the last.
LEMMA TopIn ==
    ASSUME NEW n \in Nat, NEW t \in SUBSET (1..n), t # {}
    PROVE  Top(t) \in t /\ \A x \in t : Top(t) >= x
<1> DEFINE back == {n - x : x \in t}
<1>1. back \in SUBSET Nat /\ back # {}
  OBVIOUS
<1> HIDE DEF back
<1>2. PICK m \in back : \A k \in back : m <= k
  BY <1>1, Least
<1>3. PICK x \in t : m = n - x
  BY DEF back
<1>4. ASSUME NEW y \in t PROVE x >= y
  <2>1. n - y \in back
    BY DEF back
  <2>2. n - x <= n - y
    BY <1>2, <1>3, <2>1
  <2> QED
    BY <2>2
<1> QED
  BY <1>4 DEF Top

\* Every chain has its history.
LEMMA HistoryExists ==
    ASSUME NEW n \in Nat, NEW s, DOMAIN s = 1..n
    PROVE  \E g : g = [t \in SUBSET DOMAIN s |-> g[t]] /\ IsHistory(g, s)
<1> DEFINE S == 1..n
           Upto(g, k) == \A t \in SUBSET S : Cardinality(t) <= k =>
               g[t] = IF t = {} THEN Start ELSE Follow(g[t \ {Top(t)}], s[Top(t)])
           G == {T \in SUBSET S : \E g : g = [t \in SUBSET S |-> g[t]] /\ Upto(g, Cardinality(T))}
<1>0. IsFiniteSet(S) /\ Cardinality(S) \in Nat
  BY FS_Interval, FS_CardinalityType
<1>1. \A t \in SUBSET S : IsFiniteSet(t) /\ Cardinality(t) \in Nat /\ Cardinality(t) <= Cardinality(S)
  BY <1>0, FS_Subset, FS_CardinalityType
<1>2. {} \in G
  <2> DEFINE g0 == [t \in SUBSET S |-> Start]
  <2>1. Upto(g0, 0)
    BY <1>1, FS_EmptySet
  <2>2. g0 = [t \in SUBSET S |-> g0[t]]
    OBVIOUS
  <2> HIDE DEF g0
  <2> QED
    BY <2>1, <2>2, FS_EmptySet
<1>3. ASSUME NEW T \in SUBSET S, NEW x \in S, T \in G, x \notin T
      PROVE  T \cup {x} \in G
  <2>1. PICK g : Upto(g, Cardinality(T))
    BY <1>3
  <2> DEFINE h == [t \in SUBSET S |->
                     IF Cardinality(t) <= Cardinality(T) THEN g[t]
                     ELSE Follow(g[t \ {Top(t)}], s[Top(t)])]
  <2>2. Cardinality(T \cup {x}) = Cardinality(T) + 1
    BY <1>1, <1>3, FS_AddElement
  <2>3. \A t \in SUBSET S : t # {} =>
          /\ Top(t) \in S
          /\ t \ {Top(t)} \in SUBSET S
          /\ Cardinality(t \ {Top(t)}) = Cardinality(t) - 1
    BY <1>1, TopIn, FS_RemoveElement
  <2>4. h = [t \in SUBSET S |-> h[t]]
    OBVIOUS
  <2>5. ASSUME NEW t \in SUBSET S, Cardinality(t) <= Cardinality(T) + 1
        PROVE  h[t] = IF t = {} THEN Start ELSE Follow(h[t \ {Top(t)}], s[Top(t)])
    <3>1. CASE t = {}
      <4>1. {} \in SUBSET S /\ Cardinality({}) <= Cardinality(T)
        BY <1>1, FS_EmptySet
      <4>2. g[{}] = Start
        BY <4>1, <2>1
      <4>3. h[{}] = g[{}]
        BY <4>1
      <4> QED
        BY <3>1, <4>2, <4>3
    <3>2. CASE t # {}
      <4> DEFINE u == t \ {Top(t)}
      <4>0. u \in SUBSET S /\ Cardinality(u) <= Cardinality(T) /\ Cardinality(u) \in Nat
        <5>1. u \in SUBSET S /\ Cardinality(u) = Cardinality(t) - 1
          BY <3>2, <2>3
        <5>2. Cardinality(t) \in Nat /\ Cardinality(u) \in Nat /\ Cardinality(T) \in Nat
          BY <1>1, <5>1
        <5> HIDE DEF u
        <5> QED
          BY <2>5, <5>1, <5>2
      <4>3. Cardinality(t) <= Cardinality(T) => g[t] = Follow(g[u], s[Top(t)])
        BY <3>2, <2>1
      <4>2. h[t] = Follow(g[u], s[Top(t)])
        BY <4>3, Zenon
      <4> HIDE DEF u
      <4>1. h[u] = g[u]
        BY <4>0
      <4> QED
        BY <3>2, <4>1, <4>2 DEF u
    <3> QED
      BY <3>1, <3>2
  <2>6. Upto(h, Cardinality(T) + 1)
    BY <2>5
  <2>7. T \cup {x} \in SUBSET S
    OBVIOUS
  <2> HIDE DEF h
  <2>8. \E r : r = [t \in SUBSET S |-> r[t]] /\ Upto(r, Cardinality(T \cup {x}))
    BY <2>2, <2>4, <2>6
  <2> QED
    BY <2>7, <2>8
<1>4. S \in G
  <2> HIDE DEF G
  <2> QED
    BY <1>0, <1>2, <1>3, SetInduction
<1>5. PICK g : g = [t \in SUBSET S |-> g[t]] /\ Upto(g, Cardinality(S))
  BY <1>4
<1> QED
  BY <1>5, <1>1 DEF IsHistory

\* What the chain alone tells.
History(s) == FoldLeft(Follow, Start, s)

\* The fold is what its equation says.
LEMMA HistoryIs ==
    ASSUME NEW n \in Nat, NEW s, DOMAIN s = 1..n
    PROVE  \E g : IsHistory(g, s) /\ History(s) = g[DOMAIN s]
<1> DEFINE Eqn(iter) == iter = [t \in SUBSET DOMAIN s |->
              IF t = {} THEN Start ELSE Follow(iter[t \ {Top(t)}], s[Top(t)])]
           fold == CHOOSE iter : Eqn(iter)
<1>1. History(s) = fold[DOMAIN s]
  BY Unfold, Zenon DEF History
<1>2. PICK g : g = [t \in SUBSET DOMAIN s |-> g[t]] /\ IsHistory(g, s)
  BY HistoryExists
<1>3. Eqn(g)
  <2>1. [t \in SUBSET DOMAIN s |-> g[t]] = [t \in SUBSET DOMAIN s |->
              IF t = {} THEN Start ELSE Follow(g[t \ {Top(t)}], s[Top(t)])]
    BY <1>2 DEF IsHistory
  <2> QED
    BY <1>2, <2>1
<1>4. Eqn(fold)
  BY <1>3, Zenon
<1> HIDE DEF fold
<1>5. IsHistory(fold, s)
  BY <1>4 DEF IsHistory
<1> QED
  BY <1>1, <1>5

\* A case not opened has none.
LEMMA NoHistory == History(<<>>) = Start
<1>1. DOMAIN <<>> = 1..0 /\ 1..0 = {}
  OBVIOUS
<1>2. PICK g : IsHistory(g, <<>>) /\ History(<<>>) = g[DOMAIN <<>>]
  BY <1>1, HistoryIs
<1>3. g[{}] = Start
  BY <1>2 DEF IsHistory
<1> QED
  BY <1>1, <1>2, <1>3

\* The histories of a chain and of its prefix are one, event by event.
LEMMA PrefixAgrees ==
    ASSUME NEW n \in Nat, NEW s, DOMAIN s = 1..n, NEW z, DOMAIN z = 1..(n + 1), \A i \in 1..n : z[i] = s[i],
           NEW g, IsHistory(g, s), NEW h, IsHistory(h, z)
    PROVE  h[1..n] = g[1..n]
<1> DEFINE S == 1..n
           Bad == {t \in SUBSET S : h[t] # g[t]}
<1>0. IsFiniteSet(S)
  BY FS_Interval
<1>s. \A t \in SUBSET S : t \in SUBSET DOMAIN z /\ t \in SUBSET DOMAIN s
  OBVIOUS
<1>1. SUFFICES ASSUME Bad # {} PROVE FALSE
  OBVIOUS
<1>2. PICK U \in Bad : \A V \in SUBSET U : V # U => V \notin Bad
  <2>1. Bad \in SUBSET SUBSET S
    OBVIOUS
  <2> HIDE DEF Bad
  <2> QED
    BY <1>0, <1>1, <2>1, SmallestViolation
<1>3. U \in SUBSET S /\ h[U] # g[U]
  OBVIOUS
<1>4. U # {}
  BY <1>3, <1>s DEF IsHistory
<1>5. Top(U) \in U
  BY <1>3, <1>4, TopIn
<1> DEFINE V == U \ {Top(U)}
<1>6. V \in SUBSET U /\ V # U /\ V \in SUBSET S
  BY <1>3, <1>5
<1>7. h[V] = g[V]
  BY <1>2, <1>6
<1>8. z[Top(U)] = s[Top(U)]
  BY <1>3, <1>5
<1>9. h[U] = Follow(h[V], z[Top(U)]) /\ g[U] = Follow(g[V], s[Top(U)])
  BY <1>3, <1>4, <1>s DEF IsHistory
<1> QED
  BY <1>3, <1>7, <1>8, <1>9

\* The history of a longer chain is one event further.
LEMMA HistoryGrows ==
    ASSUME NEW s \in Seq(Requests), NEW q \in Requests
    PROVE  History(Append(s, q)) = Follow(History(s), q)
<1> DEFINE n == Len(s)
           z == Append(s, q)
<1>1. n \in Nat /\ DOMAIN s = 1..n /\ DOMAIN z = 1..(n + 1) /\ z[n + 1] = q /\ \A i \in 1..n : z[i] = s[i]
  OBVIOUS
<1> HIDE DEF z, n
<1>2. PICK g : IsHistory(g, s) /\ History(s) = g[DOMAIN s]
  BY <1>1, HistoryIs
<1>3. PICK h : IsHistory(h, z) /\ History(z) = h[DOMAIN z]
  BY <1>1, HistoryIs
<1> DEFINE D == 1..(n + 1)
<1>4. D # {} /\ D \in SUBSET (1..(n + 1)) /\ n + 1 \in D /\ \A x \in D : x <= n + 1 /\ x \in Nat
  BY <1>1
<1>5. Top(D) \in D /\ Top(D) >= n + 1
  BY <1>1, <1>4, TopIn
<1>6. Top(D) = n + 1
  BY <1>1, <1>4, <1>5
<1>7. D \ {n + 1} = 1..n
  BY <1>1
<1>8. h[D] = Follow(h[1..n], q)
  BY <1>1, <1>3, <1>4, <1>6, <1>7 DEF IsHistory
<1>9. h[1..n] = g[1..n]
  BY <1>1, <1>2, <1>3, PrefixAgrees
<1> QED
  BY <1>1, <1>2, <1>3, <1>8, <1>9 DEF z

-----------------------------------------------------------------------------
(* What a unit decided still stands when it commits.                       *)

\* What a unit that holds its case has found: the standing, the case still new, something
\* to change.
Decided(h) ==
    /\ Authorised(request[h], case[h])
    /\ request[h].command = "CREATE" => chain[case[h]] = <<>>
    /\ Effective(request[h], standing[case[h]], live[case[h]])

\* The inductive invariant of the history: a decision stands until its unit commits.
Explained ==
    /\ TypeOK
    /\ HistoryExplains
    /\ \A h \in Handlers : pc[h] \in Holding => Decided(h)

\* What the store holds of a case.
State(held, sources) == [sound |-> TRUE, held |-> held, sources |-> sources]

\* At first.
LEMMA ExplainedAtStart == Init => Explained
<1> SUFFICES ASSUME Init PROVE Explained
  OBVIOUS
<1>1. TypeOK
  BY InitHolds DEF IInv
<1>2. ASSUME NEW c \in Cases
      PROVE  FoldLeft(Follow, Start, chain[c]) = [sound |-> TRUE, held |-> standing[c], sources |-> live[c]]
  <2>1. chain[c] = <<>> /\ standing[c] = [u \in Users |-> "NONE"] /\ live[c] = {}
    BY DEF Init
  <2>2. FoldLeft(Follow, Start, <<>>) = Start
    BY NoHistory, Zenon DEF History
  <2> QED
    BY <2>1, <2>2 DEF Start
<1>3. \A h \in Handlers : pc[h] \notin Holding
  BY DEF Init, Holding
<1>4. HistoryExplains
  BY <1>2, Zenon DEF HistoryExplains
<1> QED
  BY <1>1, <1>3, <1>4 DEF Explained

\* HistoryExplains, by these names.
Told == \A c \in Cases : History(chain[c]) = State(standing[c], live[c])

\* It is.
LEMMA ToldIs == HistoryExplains <=> Told
  BY Zenon DEF HistoryExplains, Told, History, State

\* A step that moves no chain, and sends no unit on that has not decided.
LEMMA DecisionsStand ==
    ASSUME Explained, TypeOK', UNCHANGED store,
           \A h \in Handlers : pc'[h] \in Holding =>
               \/ pc[h] \in Holding /\ request'[h] = request[h] /\ case'[h] = case[h]
               \/ Decided(h)'
    PROVE  Explained'
<1>1. UNCHANGED <<chain, standing, live>>
  BY DEF store
<1>2. HistoryExplains'
  <2>1. Told /\ (Told => Told')
    BY <1>1, ToldIs DEF Explained, Told
  <2>2. Told' => HistoryExplains'
    BY ToldIs, PTL
  <2> QED
    BY <2>1, <2>2
<1>3. ASSUME NEW h \in Handlers, pc'[h] \in Holding PROVE Decided(h)'
  <2>1. CASE pc[h] \in Holding /\ request'[h] = request[h] /\ case'[h] = case[h]
    BY <1>1, <2>1 DEF Explained, Decided, Authorised, Floor
  <2> QED
    BY <1>3, <2>1
<1> QED
  BY <1>2, <1>3 DEF Explained

\* What a decided event adds to the history is what its commit writes.
LEMMA FollowIs ==
    ASSUME NEW q, NEW held, NEW sources,
           q.command = "CREATE" => State(held, sources) = Start,
           q.command # "CREATE" => Satisfies(held[q.actor], Floor(q)),
           Effective(q, held, sources)
    PROVE  Follow(State(held, sources), q) = State(Members(q, held), LiveAfter(q, sources))
<1> DEFINE s == State(held, sources)
<1>1. s.sound = TRUE /\ s.held = held /\ s.sources = sources
  BY DEF State
<1>2. Follow(s, q) = [sound |-> s.sound /\ (q.command = "CREATE" => s = Start)
                /\ (q.command # "CREATE" => Satisfies(s.held[q.actor], Floor(q)))
                /\ Effective(q, s.held, s.sources),
     held |-> Members(q, s.held),
     sources |-> LiveAfter(q, s.sources)]
  BY Zenon DEF Follow
<1> HIDE DEF s
<1>3. (s.sound /\ (q.command = "CREATE" => s = Start)
                /\ (q.command # "CREATE" => Satisfies(s.held[q.actor], Floor(q)))
                /\ Effective(q, s.held, s.sources)) = TRUE
  BY <1>1 DEF s
<1>4. Follow(s, q) = [sound |-> TRUE, held |-> Members(q, s.held), sources |-> LiveAfter(q, s.sources)]
  BY <1>2, <1>3
<1> QED
  BY <1>1, <1>4 DEF s, State

\* A commit adds the event it decided, and writes what the event says.
LEMMA CommitExplained == ASSUME Explained, TypeOK', NEW h \in Handlers, Commit(h) PROVE Explained'
<1> DEFINE q == request[h]
           c == case[h]
<1>1. TypeOK /\ HistoryExplains /\ Decided(h) /\ pc[h] = "commit"
  BY DEF Commit, Explained, Holding
<1>2. q \in Requests /\ c \in Cases
  BY <1>1 DEF TypeOK, ServingOK, Holding
<1>3. /\ standing' = [standing EXCEPT ![c] = Members(q, @)]
      /\ live' = [live EXCEPT ![c] = LiveAfter(q, @)]
      /\ chain' = [chain EXCEPT ![c] = Append(@, q)]
      /\ pc' = [pc EXCEPT ![h] = "idle"] /\ UNCHANGED <<request, case>>
  BY Zenon DEF Commit, Apply, Answer, Go
<1>4. /\ chain \in [Cases -> Seq(Requests)] /\ standing \in [Cases -> [Users -> DOMAIN Rank]]
      /\ live \in [Cases -> SUBSET Sources] /\ pc \in [Handlers -> Steps]
  BY <1>1 DEF TypeOK, StoreOK, ServingOK, Steps
<1> HIDE DEF q, c
<1>5. /\ standing'[c] = Members(q, standing[c]) /\ live'[c] = LiveAfter(q, live[c])
      /\ chain'[c] = Append(chain[c], q) /\ chain[c] \in Seq(Requests)
      /\ \A d \in Cases : d # c => standing'[d] = standing[d] /\ live'[d] = live[d] /\ chain'[d] = chain[d]
      /\ \A g \in Handlers : pc'[g] = IF g = h THEN "idle" ELSE pc[g]
  BY <1>2, <1>3, <1>4
<1>6. \A d \in Cases : History(chain[d]) = State(standing[d], live[d])
  BY <1>1, ToldIs DEF Told
<1>7. Authorised(q, c) /\ (q.command = "CREATE" => chain[c] = <<>>) /\ Effective(q, standing[c], live[c])
  BY <1>1 DEF Decided, q, c
<1>8. q.command = "CREATE" => State(standing[c], live[c]) = Start
  BY <1>2, <1>6, <1>7, NoHistory
<1>9. q.command # "CREATE" => Satisfies(standing[c][q.actor], Floor(q))
  BY <1>7 DEF Authorised
<1>10. Follow(State(standing[c], live[c]), q) = State(standing'[c], live'[c])
  BY <1>5, <1>7, <1>8, <1>9, FollowIs
<1>11. History(chain'[c]) = Follow(History(chain[c]), q)
  BY <1>2, <1>5, HistoryGrows
<1>12. HistoryExplains'
  <2>1. ASSUME NEW d \in Cases PROVE History(chain'[d]) = State(standing'[d], live'[d])
    BY <1>2, <1>5, <1>6, <1>10, <1>11
  <2>2. Told'
    BY <2>1 DEF Told, History
  <2>3. Told' => HistoryExplains'
    BY ToldIs, PTL
  <2> QED
    BY <2>2, <2>3
<1>13. ASSUME NEW g \in Handlers, pc'[g] \in Holding PROVE Decided(g)'
  <2>1. g # h /\ pc[g] \in Holding
    BY <1>5, <1>13 DEF Holding
  <2>2. case[g] \in Cases /\ case[g] # c
    BY <1>1, <2>1 DEF TypeOK, ServingOK, Holding, c
  <2>3. Decided(g)
    BY <2>1 DEF Explained
  <2> QED
    BY <1>3, <1>5, <2>2, <2>3 DEF Decided, Authorised, Floor
<1> QED
  BY <1>12, <1>13 DEF Explained

\* At every step.
LEMMA ExplainedKept == Explained /\ TypeOK' /\ [Next]_vars => Explained'
<1> SUFFICES ASSUME Explained, TypeOK', [Next]_vars PROVE Explained'
  OBVIOUS
<1>0. pc \in [Handlers -> Steps] /\ case \in [Handlers -> Cases \cup {None}] /\ request \in [Handlers -> Requests \cup {None}]
  BY DEF Explained, TypeOK, ServingOK, Steps
<1>1. CASE UNCHANGED vars
  BY <1>1, DecisionsStand DEF vars
<1>2. ASSUME NEW h \in Handlers, Ask(h) PROVE Explained'
  <2>1. pc' = [pc EXCEPT ![h] = "lookup"] /\ case' = [case EXCEPT ![h] = None] /\ UNCHANGED store
    BY <1>2 DEF Ask, Go
  <2>2. PICK q \in Requests : request' = [request EXCEPT ![h] = q]
    BY <1>2 DEF Ask
  <2> QED
    BY <1>0, <2>1, <2>2, DecisionsStand DEF Holding
<1>3. ASSUME NEW h \in Handlers, NEW p \in {"idle", "lock", "twin"}, Go(h, p), UNCHANGED <<store, request>>,
             \A g \in Handlers : g # h => case'[g] = case[g]
      PROVE  Explained'
  BY <1>0, <1>3, DecisionsStand DEF Go, Holding
<1>4. ASSUME NEW h \in Handlers, Lookup(h) PROVE Explained'
  BY <1>3, <1>4 DEF Lookup, Replay, Answer
<1>5. ASSUME NEW h \in Handlers, Twin(h) PROVE Explained'
  BY <1>3, <1>5 DEF Twin, Replay, Answer
<1>6. ASSUME NEW h \in Handlers, Fail(h) PROVE Explained'
  BY <1>3, <1>6 DEF Fail, Answer
<1>7. ASSUME NEW h \in Handlers, Record(h) PROVE Explained'
  <2>1. PICK p \in {"commit", "twin"} : pc' = [pc EXCEPT ![h] = p]
    BY <1>7 DEF Record, Go
  <2>2. pc[h] \in Holding /\ UNCHANGED <<store, request, case>>
    BY <1>7 DEF Record, Holding
  <2> QED
    BY <1>0, <2>1, <2>2, DecisionsStand
<1>8. ASSUME NEW h \in Handlers, Lock(h) PROVE Explained'
  <2>1. PICK c \in Lockable(h) :
          \/ \E p \in {"idle", "twin"} : Go(h, p) /\ UNCHANGED case
          \/ /\ Go(h, "record") /\ case' = [case EXCEPT ![h] = c]
             /\ Authorised(request[h], c) /\ Effective(request[h], standing[c], live[c])
    <3>1. PICK c \in Lockable(h) :
            LET q == request[h] IN
            IF ~Authorised(q, c) THEN Answer(h, Refused("CASE_NOT_FOUND")) /\ UNCHANGED case
            ELSE IF Stored(q) # {} THEN Go(h, "twin") /\ UNCHANGED <<case, answer>>
            ELSE IF ~Effective(q, standing[c], live[c])
              THEN Answer(h, Refused("REFUSED")) /\ UNCHANGED case
            ELSE Go(h, "record") /\ case' = [case EXCEPT ![h] = c] /\ UNCHANGED answer
      BY <1>8, Zenon DEF Lock
    <3> QED
      BY <3>1, Zenon DEF Answer
  <2>2. UNCHANGED <<store, request>>
    BY <1>8 DEF Lock
  <2>3. CASE \E p \in {"idle", "twin"} : Go(h, p) /\ UNCHANGED case
    BY <1>3, <2>2, <2>3
  <2>4. CASE /\ Go(h, "record") /\ case' = [case EXCEPT ![h] = c]
             /\ Authorised(request[h], c) /\ Effective(request[h], standing[c], live[c])
    <3>1. request[h].command = "CREATE" => chain[c] = <<>>
      BY <2>1 DEF Lockable, Opened
    <3>2. pc' = [pc EXCEPT ![h] = "record"] /\ case'[h] = c /\ request' = request
          /\ UNCHANGED <<chain, standing, live>> /\ \A g \in Handlers : g # h => case'[g] = case[g] /\ pc'[g] = pc[g]
      BY <1>0, <2>2, <2>4 DEF Go, store
    <3>3. Decided(h)'
      BY <2>4, <3>1, <3>2 DEF Decided, Authorised, Floor
    <3> QED
      BY <2>2, <3>2, <3>3, DecisionsStand
  <2> QED
    BY <2>1, <2>3, <2>4
<1> QED
  BY <1>1, <1>2, <1>4, <1>5, <1>6, <1>7, <1>8, CommitExplained DEF Next, Serve

\* The state of a case and its audit chain are one commit (governed_write): the
\* chain alone, read from its first event, gives the members and the sources the store holds,
\* and each event was its actor's to make under the standing it had by then.
THEOREM HistoryExplainsHolds == Spec => []HistoryExplains
<1>1. Spec => []Explained
  BY ExplainedAtStart, ExplainedKept, TypeCorrect, PTL DEF Spec
<1>2. Explained => HistoryExplains
  BY DEF Explained
<1> QED
  BY <1>1, <1>2, PTL
=============================================================================
