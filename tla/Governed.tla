------------------------------ MODULE Governed ------------------------------
(***************************************************************************)
(* The governed commands (caos/store/commands.py, audit.py, members.py):   *)
(* one receipt per (actor, scope, key), written in one commit with the     *)
(* domain write and the audit event, under the case lock and the standing  *)
(* the actor has by then.  A new case has no lock to share: its twins meet *)
(* at the receipt's primary key.                                           *)
(*                                                                         *)
(* The commands are the ones whose writes are the authority itself: open a *)
(* case, grant and revoke standing, admit and withdraw a source.  A unit's *)
(* writes are applied at its commit; until then it holds the case, and its *)
(* own receipt's key once inserted.                                        *)
(***************************************************************************)
EXTENDS Naturals, FiniteSets, SequencesExt

CONSTANTS
    Users,
    Sources,     \* source ids, each drawn by the admission that names it
    Cases,       \* the case ids; a new case draws one not in use
    Requests,    \* what clients ask, again and again
    Handlers,    \* the requests served at once
    NIL,         \* NIL_SCOPE
    None

Rank == [NONE |-> 0, READER |-> 1, WRITER |-> 2, APPROVER |-> 3, ADMIN |-> 4]

Creates == {q \in Requests : q.command = "CREATE"}
Grants == {q \in Requests : q.command = "GRANT"}
Revokes == {q \in Requests : q.command = "REVOKE"}
Admissions == {q \in Requests : q.command = "ADMIT"}
Withdrawals == {q \in Requests : q.command = "WITHDRAW"}

ASSUME RequestsAre ==
    /\ Requests = Creates \cup Grants \cup Revokes \cup Admissions \cup Withdrawals
    /\ \A q \in Requests : q.actor \in Users /\ {"key", "on", "to"} \subseteq DOMAIN q
    /\ \A q \in Creates : q.scope = NIL
    /\ \A q \in Requests \ Creates : q.scope \in Cases
    /\ \A q \in Grants : q.on \in Users /\ q.to \in DOMAIN Rank \ {"NONE"}
    /\ \A q \in Revokes : q.on \in Users
    /\ \A q \in Admissions \cup Withdrawals : q.on \in Sources
    /\ \A p, q \in Admissions : p.on = q.on => p.key = q.key /\ p.actor = q.actor
ASSUME NilIsNoCase == NIL \notin Cases /\ None \notin Cases /\ None \notin Requests

VARIABLES
    chain,      \* chain[c]: the case's audit events; of a case not opened, empty
    standing,   \* case_members: the live standing of each user on each case
    live,       \* live_sources of each case
    receipts,   \* command_requests, as [id, request, case]
    pc,         \* the step of each request being served
    request,    \* what it asks
    case,       \* the case of its unit
    answer      \* the last answer given: its code, and the case a receipt names

store == <<chain, standing, live, receipts>>
vars == <<store, pc, request, case, answer>>

Codes == {"NONE", "OK", "IDEMPOTENCY_KEY_REUSED", "CASE_NOT_FOUND", "REFUSED", "STORE_UNAVAILABLE"}
Refused(c) == [code |-> c, case |-> None]

Id(q) == <<q.actor, q.scope, q.key>>
Opened == {c \in Cases : chain[c] # <<>>}
Receipt(q, c) == [id |-> Id(q), request |-> q, case |-> c]
Stored(q) == {r \in receipts : r.id = Id(q)}

\* The standing each command's action requires.
Floor(q) == IF q \in Admissions \cup Withdrawals THEN "WRITER" ELSE "ADMIN"
Satisfies(held, floor) == Rank[held] >= Rank[floor]

Holding == {"record", "commit"}

\* Mutant: the case is read without its lock.
LockedNever(c) == FALSE

\* lock_case: a unit holds its case from its lock to its end.
Locked(c) == \E h \in Handlers : pc[h] \in Holding /\ case[h] = c

\* A receipt inserted and not yet committed holds its key.
Inserted(q) == \E h \in Handlers : pc[h] = "commit" /\ Id(request[h]) = Id(q)

StoreOK ==
    /\ chain \in [Cases -> Seq(Requests)]
    /\ standing \in [Cases -> [Users -> DOMAIN Rank]]
    /\ live \in [Cases -> SUBSET Sources]
    /\ receipts \subseteq {Receipt(q, c) : q \in Requests, c \in Cases}
    /\ \A r, s \in receipts : r.id = s.id => r = s

ServingOK ==
    /\ pc \in [Handlers -> {"idle", "lookup", "lock", "record", "commit", "twin"}]
    /\ request \in [Handlers -> Requests \cup {None}]
    /\ case \in [Handlers -> Cases \cup {None}]
    /\ answer \in [Handlers -> [code : Codes, case : Cases \cup {None}]]
    /\ \A h \in Handlers : pc[h] # "idle" => request[h] \in Requests
    /\ \A h \in Handlers : pc[h] \in Holding => case[h] \in Cases
    /\ \A g, h \in Handlers :
         pc[g] \in Holding /\ pc[h] \in Holding /\ case[g] = case[h] => g = h

TypeOK == StoreOK /\ ServingOK

Init ==
    /\ chain = [c \in Cases |-> <<>>]
    /\ standing = [c \in Cases |-> [u \in Users |-> "NONE"]]
    /\ live = [c \in Cases |-> {}]
    /\ receipts = {}
    /\ pc = [h \in Handlers |-> "idle"]
    /\ request = [h \in Handlers |-> None]
    /\ case = [h \in Handlers |-> None]
    /\ answer = [h \in Handlers |-> Refused("NONE")]

Go(h, p) == pc' = [pc EXCEPT ![h] = p]
Answer(h, a) == Go(h, "idle") /\ answer' = [answer EXCEPT ![h] = a]
Answered(r) == [code |-> "OK", case |-> r.case]

-----------------------------------------------------------------------------
(* What a command does to its case, and when it refuses.                   *)

\* revoke and withdraw_source_in refuse a write that would change nothing.
Effective(q, held, sources) ==
    /\ q.command = "REVOKE" => held[q.on] # "NONE"
    /\ q.command = "WITHDRAW" => q.on \in sources

Members(q, held) ==
    CASE q.command = "CREATE" -> [held EXCEPT ![q.actor] = "ADMIN"]
      [] q.command = "GRANT" -> [held EXCEPT ![q.on] = q.to]
      [] q.command = "REVOKE" -> [held EXCEPT ![q.on] = "NONE"]
      [] OTHER -> held

LiveAfter(q, sources) ==
    CASE q.command = "ADMIT" -> sources \cup {q.on}
      [] q.command = "WITHDRAW" -> sources \ {q.on}
      [] OTHER -> sources

\* Mutant: the receipt is replayed to whatever the key is used for.
ReplayUnmatched(h, r) == Answer(h, Answered(r))

\* _replay: the stored answer, to the request it answered.
Replay(h, r) ==
    Answer(h, IF r.request = request[h] THEN Answered(r) ELSE Refused("IDEMPOTENCY_KEY_REUSED"))

-----------------------------------------------------------------------------
(* Serving a request.                                                      *)

\* A client asks, for the first time or again; case_standing answers a stranger.
Ask(h) ==
    /\ pc[h] = "idle"
    /\ \E q \in Requests :
         /\ q.scope \in Opened \cup {NIL}
         /\ q.scope # NIL => Satisfies(standing[q.scope][q.actor], Floor(q))
         /\ request' = [request EXCEPT ![h] = q]
         /\ case' = [case EXCEPT ![h] = None]
    /\ answer' = [answer EXCEPT ![h] = Refused("NONE")]
    /\ Go(h, "lookup")
    /\ UNCHANGED store

\* _lookup, before the unit.
Lookup(h) ==
    /\ pc[h] = "lookup"
    /\ \/ \E r \in Stored(request[h]) : Replay(h, r)
       \/ Stored(request[h]) = {} /\ Go(h, "lock") /\ UNCHANGED answer
    /\ UNCHANGED <<store, request, case>>

\* The unit's case, locked: a new one, nobody's yet, or the request's once free.
Lockable(h) ==
    LET q == request[h] IN
    IF q.command = "CREATE" THEN {c \in Cases \ Opened : ~Locked(c)}
    ELSE {c \in {q.scope} : ~Locked(c)}

\* _require_standing: of the lock's moment; the creator's own grant precedes it.
Authorised(q, c) == q.command = "CREATE" \/ Satisfies(standing[c][q.actor], Floor(q))

\* prepare, lock_case, _require_standing, the twin check and the write.
Lock(h) ==
    /\ pc[h] = "lock"
    /\ \E c \in Lockable(h) :
         LET q == request[h] IN
         IF ~Authorised(q, c) THEN Answer(h, Refused("CASE_NOT_FOUND")) /\ UNCHANGED case
         ELSE IF Stored(q) # {} THEN Go(h, "twin") /\ UNCHANGED <<case, answer>>
         ELSE IF ~Effective(q, standing[c], live[c])
           THEN Answer(h, Refused("REFUSED")) /\ UNCHANGED case
         ELSE Go(h, "record") /\ case' = [case EXCEPT ![h] = c] /\ UNCHANGED answer
    /\ UNCHANGED <<store, request>>

\* Mutant: zero rows inserted are taken for one.
RecordUnchecked(h) ==
    /\ pc[h] = "record"
    /\ ~Inserted(request[h])
    /\ Go(h, "commit")
    /\ UNCHANGED <<store, request, case, answer>>

\* record_receipt: waits for a twin's insert, and finds what it committed.
Record(h) ==
    /\ pc[h] = "record"
    /\ ~Inserted(request[h])
    /\ Go(h, IF Stored(request[h]) = {} THEN "commit" ELSE "twin")
    /\ UNCHANGED <<store, request, case, answer>>

\* The write of the unit, in one commit with its event and its receipt.
Apply(q, c) ==
    /\ standing' = [standing EXCEPT ![c] = Members(q, @)]
    /\ live' = [live EXCEPT ![c] = LiveAfter(q, @)]

\* The commit, whose acknowledgement may be lost.
Commit(h) ==
    LET q == request[h]
        c == case[h]
        r == Receipt(q, c)
    IN
    /\ pc[h] = "commit"
    /\ Apply(q, c)
    /\ chain' = [chain EXCEPT ![c] = Append(@, q)]
    /\ receipts' = receipts \cup (IF Stored(q) = {} THEN {r} ELSE {})
    /\ \E a \in {Answered(r), Refused("STORE_UNAVAILABLE")} : Answer(h, a)
    /\ UNCHANGED <<request, case>>

\* Mutant: the failed unit stays open, and its session commits it later.
FailOpen(h) ==
    /\ pc[h] # "idle"
    /\ IF pc[h] \in Holding THEN Apply(request[h], case[h]) ELSE UNCHANGED <<standing, live>>
    /\ Answer(h, Refused("STORE_UNAVAILABLE"))
    /\ UNCHANGED <<chain, receipts, request, case>>

\* committed_unit: a fault, or the server's death, rolls the unit back.
Fail(h) ==
    /\ pc[h] # "idle"
    /\ Answer(h, Refused("STORE_UNAVAILABLE"))
    /\ UNCHANGED <<store, request, case>>

\* Mutant: a twin that cannot be replayed is tried again.
TwinAgain(h) ==
    /\ pc[h] = "twin"
    /\ \/ \E r \in Stored(request[h]) : r.request = request[h] /\ Replay(h, r)
       \/ (\A r \in Stored(request[h]) : r.request # request[h]) /\ Go(h, "lock") /\ UNCHANGED answer
    /\ UNCHANGED <<store, request, case>>

\* _Twin: the unit is rolled back and the receipt it met is answered.
Twin(h) ==
    /\ pc[h] = "twin"
    /\ \/ \E r \in Stored(request[h]) : Replay(h, r)
       \/ Stored(request[h]) = {} /\ Answer(h, Refused("STORE_UNAVAILABLE"))
    /\ UNCHANGED <<store, request, case>>

Serve(h) == Lookup(h) \/ Lock(h) \/ Record(h) \/ Commit(h) \/ Twin(h)

Next == \E h \in Handlers : Ask(h) \/ Serve(h) \/ Fail(h)

Spec == Init /\ [][Next]_vars

\* A request is served by its own thread; a row lock and a key's wait are
\* queues, so who waits gets its turn.
Fairness ==
    \A h \in Handlers :
        /\ WF_vars(Lookup(h) \/ Commit(h) \/ Twin(h))
        /\ SF_vars(Lock(h)) /\ SF_vars(Record(h))

LiveSpec == Spec /\ Fairness

-----------------------------------------------------------------------------
(* The properties.                                                         *)

\* What the case's history says its members and sources are, and whether each
\* event was its actor's to make and changed what it says it changed.
Start == [sound |-> TRUE, held |-> [u \in Users |-> "NONE"], sources |-> {}]
Follow(s, q) ==
    [sound |-> s.sound /\ (q.command = "CREATE" => s = Start)
                /\ (q.command # "CREATE" => Satisfies(s.held[q.actor], Floor(q)))
                /\ Effective(q, s.held, s.sources),
     held |-> Members(q, s.held),
     sources |-> LiveAfter(q, s.sources)]

\* The state of a case and its audit chain are one commit: the chain alone, read
\* from the first event, gives the members and the sources the store holds, and
\* every event in it was made under the standing its actor had by then.
HistoryExplains ==
    \A c \in Cases :
        FoldLeft(Follow, Start, chain[c]) =
            [sound |-> TRUE, held |-> standing[c], sources |-> live[c]]

\* Decision 6: a key buys one act.  Every event of every chain is one receipt's
\* and every receipt one event's, of the case the receipt names.
OnceUnderAKey ==
    /\ \A r \in receipts : \E i \in DOMAIN chain[r.case] : chain[r.case][i] = r.request
    /\ \A c, d \in Cases : \A i \in DOMAIN chain[c], j \in DOMAIN chain[d] :
         Id(chain[c][i]) = Id(chain[d][j]) => c = d /\ i = j
    /\ \A c \in Cases : \A i \in DOMAIN chain[c] : Receipt(chain[c][i], c) \in receipts

\* Whoever is answered with a receipt is answered for the request it made, with
\* the case that was made for it: twins of one key are told the same.
AnswerStands ==
    \A h \in Handlers : answer[h].code = "OK" => Receipt(request[h], answer[h].case) \in receipts

\* Every request is answered: no twins wait for each other, on a case or a key.
EveryoneAnswered == \A h \in Handlers : pc[h] # "idle" ~> pc[h] = "idle"
=============================================================================
