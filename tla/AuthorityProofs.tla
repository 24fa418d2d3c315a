--------------------------- MODULE AuthorityProofs ---------------------------
(***************************************************************************)
(* What the authority of a case promises, for every set of users, sources, *)
(* runs, workers and builds.  A unit decides under the case lock and       *)
(* commits later; in between the clock, the previews, the calls, a claim   *)
(* and a death go on.  Due is what a decision consists of, and that it     *)
(* still stands at the commit is the inductive invariant: what it read is  *)
(* moved under the lock alone, and a claim skips the run whose row the     *)
(* unit has locked.                                                        *)
(***************************************************************************)
EXTENDS Availability, WellFoundedInduction, TLAPS

-----------------------------------------------------------------------------
(* The first refusal of a chain of checks, spelled out.                    *)

\* A set of naturals has a least member.
LEMMA Least == ASSUME NEW S \in SUBSET Nat, S # {} PROVE \E m \in S : \A n \in S : m <= n
<1>1. PICK m \in S : \A n \in S : <<n, m>> \notin OpToRel(<, Nat)
    BY NatLessThanWellFounded, WFMin
<1>2. \A n \in S : ~(n < m)
    BY <1>1 DEF OpToRel
<1> QED
    BY <1>2

\* The refusal is that of the first check that hits.
LEMMA FirstHit ==
    ASSUME NEW c, NEW i \in DOMAIN c, DOMAIN c \in SUBSET Nat, c[i][1], \A j \in DOMAIN c : j < i => ~c[j][1]
    PROVE  FirstRefusal(c) = c[i][2]
<1> DEFINE hit == {j \in DOMAIN c : c[j][1]}
<1>1. i \in hit /\ \A j \in hit : i <= j
    OBVIOUS
<1>2. \A k \in hit : (\A j \in hit : k <= j) => k = i
    BY <1>1
<1>3. (CHOOSE k \in hit : \A j \in hit : k <= j) = i
    BY <1>1, <1>2
<1> QED
    BY <1>1, <1>3, Zenon DEF FirstRefusal

\* With none, the answer is OK.
LEMMA NoHit == ASSUME NEW c, \A i \in DOMAIN c : ~c[i][1] PROVE FirstRefusal(c) = "OK"
    BY Zenon DEF FirstRefusal

\* A chain of two checks.
LEMMA Of2 ==
    ASSUME NEW p1, NEW p2,
           NEW s1, NEW s2
    PROVE  FirstRefusal(<< <<p1, s1>>, <<p2, s2>> >>)
           = IF p1 THEN s1 ELSE IF p2 THEN s2 ELSE "OK"
<1> DEFINE c == << <<p1, s1>>, <<p2, s2>> >>
<1>1. DOMAIN c = {1, 2} /\ DOMAIN c \in SUBSET Nat
    OBVIOUS
<1>2. /\ c[1][2] = s1 /\ (c[1][1] <=> p1)
      /\ c[2][2] = s2 /\ (c[2][1] <=> p2)
    OBVIOUS
<1>3. SUFFICES FirstRefusal(c) = IF p1 THEN s1 ELSE IF p2 THEN s2 ELSE "OK"
    OBVIOUS
<1> HIDE DEF c
<1>4. CASE p1
    BY <1>1, <1>2, <1>4, FirstHit
<1>5. CASE ~p1 /\ p2
    BY <1>1, <1>2, <1>5, FirstHit
<1>6. CASE ~p1 /\ ~p2
    BY <1>1, <1>2, <1>6, NoHit
<1> QED
    BY <1>4, <1>5, <1>6

\* Of three.
LEMMA Of3 ==
    ASSUME NEW p1, NEW p2, NEW p3,
           NEW s1, NEW s2, NEW s3
    PROVE  FirstRefusal(<< <<p1, s1>>, <<p2, s2>>, <<p3, s3>> >>)
           = IF p1 THEN s1 ELSE IF p2 THEN s2 ELSE IF p3 THEN s3 ELSE "OK"
<1> DEFINE c == << <<p1, s1>>, <<p2, s2>>, <<p3, s3>> >>
<1>1. DOMAIN c = {1, 2, 3} /\ DOMAIN c \in SUBSET Nat
    OBVIOUS
<1>2. /\ c[1][2] = s1 /\ (c[1][1] <=> p1)
      /\ c[2][2] = s2 /\ (c[2][1] <=> p2)
      /\ c[3][2] = s3 /\ (c[3][1] <=> p3)
    OBVIOUS
<1>3. SUFFICES FirstRefusal(c) = IF p1 THEN s1 ELSE IF p2 THEN s2 ELSE IF p3 THEN s3 ELSE "OK"
    OBVIOUS
<1> HIDE DEF c
<1>4. CASE p1
    BY <1>1, <1>2, <1>4, FirstHit
<1>5. CASE ~p1 /\ p2
    BY <1>1, <1>2, <1>5, FirstHit
<1>6. CASE ~p1 /\ ~p2 /\ p3
    BY <1>1, <1>2, <1>6, FirstHit
<1>7. CASE ~p1 /\ ~p2 /\ ~p3
    BY <1>1, <1>2, <1>7, NoHit
<1> QED
    BY <1>4, <1>5, <1>6, <1>7

\* Of seven, as a start makes them.
LEMMA Of7 ==
    ASSUME NEW p1, NEW p2, NEW p3, NEW p4, NEW p5, NEW p6, NEW p7,
           NEW s1, NEW s2, NEW s3, NEW s4, NEW s5, NEW s6, NEW s7
    PROVE  FirstRefusal(<< <<p1, s1>>, <<p2, s2>>, <<p3, s3>>, <<p4, s4>>, <<p5, s5>> >> \o << <<p6, s6>> >> \o << <<p7, s7>> >>)
           = IF p1 THEN s1 ELSE IF p2 THEN s2 ELSE IF p3 THEN s3 ELSE IF p4 THEN s4 ELSE IF p5 THEN s5 ELSE IF p6 THEN s6 ELSE IF p7 THEN s7 ELSE "OK"
<1> DEFINE c == << <<p1, s1>>, <<p2, s2>>, <<p3, s3>>, <<p4, s4>>, <<p5, s5>> >> \o << <<p6, s6>> >> \o << <<p7, s7>> >>
<1>1. DOMAIN c = {1, 2, 3, 4, 5, 6, 7} /\ DOMAIN c \in SUBSET Nat
    OBVIOUS
<1>2. /\ c[1][2] = s1 /\ (c[1][1] <=> p1)
      /\ c[2][2] = s2 /\ (c[2][1] <=> p2)
      /\ c[3][2] = s3 /\ (c[3][1] <=> p3)
      /\ c[4][2] = s4 /\ (c[4][1] <=> p4)
      /\ c[5][2] = s5 /\ (c[5][1] <=> p5)
      /\ c[6][2] = s6 /\ (c[6][1] <=> p6)
      /\ c[7][2] = s7 /\ (c[7][1] <=> p7)
    OBVIOUS
<1>3. SUFFICES FirstRefusal(c) = IF p1 THEN s1 ELSE IF p2 THEN s2 ELSE IF p3 THEN s3 ELSE IF p4 THEN s4 ELSE IF p5 THEN s5 ELSE IF p6 THEN s6 ELSE IF p7 THEN s7 ELSE "OK"
    OBVIOUS
<1> HIDE DEF c
<1>4. CASE p1
    BY <1>1, <1>2, <1>4, FirstHit
<1>5. CASE ~p1 /\ p2
    BY <1>1, <1>2, <1>5, FirstHit
<1>6. CASE ~p1 /\ ~p2 /\ p3
    BY <1>1, <1>2, <1>6, FirstHit
<1>7. CASE ~p1 /\ ~p2 /\ ~p3 /\ p4
    BY <1>1, <1>2, <1>7, FirstHit
<1>8. CASE ~p1 /\ ~p2 /\ ~p3 /\ ~p4 /\ p5
    BY <1>1, <1>2, <1>8, FirstHit
<1>9. CASE ~p1 /\ ~p2 /\ ~p3 /\ ~p4 /\ ~p5 /\ p6
    BY <1>1, <1>2, <1>9, FirstHit
<1>10. CASE ~p1 /\ ~p2 /\ ~p3 /\ ~p4 /\ ~p5 /\ ~p6 /\ p7
    BY <1>1, <1>2, <1>10, FirstHit
<1>11. CASE ~p1 /\ ~p2 /\ ~p3 /\ ~p4 /\ ~p5 /\ ~p6 /\ ~p7
    BY <1>1, <1>2, <1>11, NoHit
<1> QED
    BY <1>4, <1>5, <1>6, <1>7, <1>8, <1>9, <1>10, <1>11

\* Of eight, as a requeue makes them.
LEMMA Of8 ==
    ASSUME NEW p1, NEW p2, NEW p3, NEW p4, NEW p5, NEW p6, NEW p7, NEW p8,
           NEW s1, NEW s2, NEW s3, NEW s4, NEW s5, NEW s6, NEW s7, NEW s8
    PROVE  FirstRefusal(<< <<p1, s1>>, <<p2, s2>>, <<p3, s3>>, <<p4, s4>>, <<p5, s5>> >> \o << <<p6, s6>>, <<p7, s7>> >> \o << <<p8, s8>> >>)
           = IF p1 THEN s1 ELSE IF p2 THEN s2 ELSE IF p3 THEN s3 ELSE IF p4 THEN s4 ELSE IF p5 THEN s5 ELSE IF p6 THEN s6 ELSE IF p7 THEN s7 ELSE IF p8 THEN s8 ELSE "OK"
<1> DEFINE c == << <<p1, s1>>, <<p2, s2>>, <<p3, s3>>, <<p4, s4>>, <<p5, s5>> >> \o << <<p6, s6>>, <<p7, s7>> >> \o << <<p8, s8>> >>
<1>1. DOMAIN c = {1, 2, 3, 4, 5, 6, 7, 8} /\ DOMAIN c \in SUBSET Nat
    OBVIOUS
<1>2. /\ c[1][2] = s1 /\ (c[1][1] <=> p1)
      /\ c[2][2] = s2 /\ (c[2][1] <=> p2)
      /\ c[3][2] = s3 /\ (c[3][1] <=> p3)
      /\ c[4][2] = s4 /\ (c[4][1] <=> p4)
      /\ c[5][2] = s5 /\ (c[5][1] <=> p5)
      /\ c[6][2] = s6 /\ (c[6][1] <=> p6)
      /\ c[7][2] = s7 /\ (c[7][1] <=> p7)
      /\ c[8][2] = s8 /\ (c[8][1] <=> p8)
    OBVIOUS
<1>3. SUFFICES FirstRefusal(c) = IF p1 THEN s1 ELSE IF p2 THEN s2 ELSE IF p3 THEN s3 ELSE IF p4 THEN s4 ELSE IF p5 THEN s5 ELSE IF p6 THEN s6 ELSE IF p7 THEN s7 ELSE IF p8 THEN s8 ELSE "OK"
    OBVIOUS
<1> HIDE DEF c
<1>4. CASE p1
    BY <1>1, <1>2, <1>4, FirstHit
<1>5. CASE ~p1 /\ p2
    BY <1>1, <1>2, <1>5, FirstHit
<1>6. CASE ~p1 /\ ~p2 /\ p3
    BY <1>1, <1>2, <1>6, FirstHit
<1>7. CASE ~p1 /\ ~p2 /\ ~p3 /\ p4
    BY <1>1, <1>2, <1>7, FirstHit
<1>8. CASE ~p1 /\ ~p2 /\ ~p3 /\ ~p4 /\ p5
    BY <1>1, <1>2, <1>8, FirstHit
<1>9. CASE ~p1 /\ ~p2 /\ ~p3 /\ ~p4 /\ ~p5 /\ p6
    BY <1>1, <1>2, <1>9, FirstHit
<1>10. CASE ~p1 /\ ~p2 /\ ~p3 /\ ~p4 /\ ~p5 /\ ~p6 /\ p7
    BY <1>1, <1>2, <1>10, FirstHit
<1>11. CASE ~p1 /\ ~p2 /\ ~p3 /\ ~p4 /\ ~p5 /\ ~p6 /\ ~p7 /\ p8
    BY <1>1, <1>2, <1>11, FirstHit
<1>12. CASE ~p1 /\ ~p2 /\ ~p3 /\ ~p4 /\ ~p5 /\ ~p6 /\ ~p7 /\ ~p8
    BY <1>1, <1>2, <1>12, NoHit
<1> QED
    BY <1>4, <1>5, <1>6, <1>7, <1>8, <1>9, <1>10, <1>11, <1>12

\* What each command asks, in its order: an answer to a run that was refused.
LEMMA CreateIs ==
    ASSUME NEW q, q.on # None
    PROVE  CreateCode(q)
             = IF status[q.on] = "NEW" THEN "RUN_NOT_FOUND"
               ELSE IF status[q.on] # "BLOCKED" THEN "RUN_NOT_BLOCKED"
               ELSE IF Successors(q.on) # {} THEN "RUN_ALREADY_SUPERSEDED" ELSE "OK"
<1> DEFINE n == status[q.on] = "NEW"
           b == status[q.on] # "BLOCKED"
           x == Successors(q.on) # {}
<1>1. CreateCode(q) = FirstRefusal(<< <<n, "RUN_NOT_FOUND">>, <<b, "RUN_NOT_BLOCKED">>, <<x, "RUN_ALREADY_SUPERSEDED">> >>)
    BY Zenon DEF CreateCode
<1> HIDE DEF n, b, x
<1>2. FirstRefusal(<< <<n, "RUN_NOT_FOUND">>, <<b, "RUN_NOT_BLOCKED">>, <<x, "RUN_ALREADY_SUPERSEDED">> >>)
      = IF n THEN "RUN_NOT_FOUND" ELSE IF b THEN "RUN_NOT_BLOCKED" ELSE IF x THEN "RUN_ALREADY_SUPERSEDED" ELSE "OK"
    BY Of3
<1> QED
    BY <1>1, <1>2 DEF n, b, x

\* A pin.
LEMMA PinIs ==
    ASSUME NEW q
    PROVE  PinCode(q)
             = IF pin[q.run] # None THEN "RUN_INPUT_ALREADY_PINNED"
               ELSE IF Live = {} THEN "SOURCE_PACK_EMPTY"
               ELSE IF status[q.run] # "RUNNING" THEN "RUN_NOT_RUNNING" ELSE "OK"
<1> DEFINE p == pin[q.run] # None
           l == Live = {}
           s == status[q.run] # "RUNNING"
<1>1. PinCode(q) = FirstRefusal(<< <<p, "RUN_INPUT_ALREADY_PINNED">>, <<l, "SOURCE_PACK_EMPTY">>, <<s, "RUN_NOT_RUNNING">> >>)
    BY Zenon DEF PinCode
<1> HIDE DEF p, l, s
<1>2. FirstRefusal(<< <<p, "RUN_INPUT_ALREADY_PINNED">>, <<l, "SOURCE_PACK_EMPTY">>, <<s, "RUN_NOT_RUNNING">> >>)
      = IF p THEN "RUN_INPUT_ALREADY_PINNED" ELSE IF l THEN "SOURCE_PACK_EMPTY" ELSE IF s THEN "RUN_NOT_RUNNING" ELSE "OK"
    BY Of3
<1> QED
    BY <1>1, <1>2 DEF p, l, s

\* A release.
LEMMA ApproveIs ==
    ASSUME NEW q, pin[q.run] # None
    PROVE  ApproveCode(q)
             = IF status[q.run] # "RUNNING" THEN "RUN_NOT_RUNNING"
               ELSE IF q.on[2] # Preview(q.run, q.on[1]) THEN "GATE_APPROVAL_MISMATCH"
               ELSE IF ~SourcesLive(q.run) THEN "EVIDENCE_NOT_AVAILABLE" ELSE "OK"
<1> DEFINE s == status[q.run] # "RUNNING"
           p == q.on[2] # Preview(q.run, q.on[1])
           l == ~SourcesLive(q.run)
<1>1. ApproveCode(q) = FirstRefusal(<< <<s, "RUN_NOT_RUNNING">>, <<p, "GATE_APPROVAL_MISMATCH">>, <<l, "EVIDENCE_NOT_AVAILABLE">> >>)
    BY Zenon DEF ApproveCode
<1> HIDE DEF s, p, l
<1>2. FirstRefusal(<< <<s, "RUN_NOT_RUNNING">>, <<p, "GATE_APPROVAL_MISMATCH">>, <<l, "EVIDENCE_NOT_AVAILABLE">> >>)
      = IF s THEN "RUN_NOT_RUNNING" ELSE IF p THEN "GATE_APPROVAL_MISMATCH" ELSE IF l THEN "EVIDENCE_NOT_AVAILABLE" ELSE "OK"
    BY Of3
<1> QED
    BY <1>1, <1>2 DEF s, p, l

\* The live authority of a run.
LEMMA AuthorityIs ==
    ASSUME NEW r, status[r] = "RUNNING", pin[r] # None
    PROVE  AuthorityCode(r)
             = IF ~SourcesLive(r) THEN "EVIDENCE_NOT_AVAILABLE"
               ELSE IF \E g \in Gate : ~Approved(r, g) THEN "GATE_APPROVAL_MISMATCH" ELSE "OK"
<1> DEFINE l == ~SourcesLive(r)
           g == \E g \in Gate : ~Approved(r, g)
<1>1. AuthorityCode(r) = FirstRefusal(<< <<l, "EVIDENCE_NOT_AVAILABLE">>, <<g, "GATE_APPROVAL_MISMATCH">> >>)
    BY Zenon DEF AuthorityCode
<1> HIDE DEF l, g
<1>2. FirstRefusal(<< <<l, "EVIDENCE_NOT_AVAILABLE">>, <<g, "GATE_APPROVAL_MISMATCH">> >>)
      = IF l THEN "EVIDENCE_NOT_AVAILABLE" ELSE IF g THEN "GATE_APPROVAL_MISMATCH" ELSE "OK"
    BY Of2
<1> QED
    BY <1>1, <1>2 DEF l, g

\* A start, of a run that may execute.
LEMMA StartIs ==
    ASSUME NEW q, StartableCode(q.run, q.on) = "OK"
    PROVE  StartCode(q)
             = IF work[q.run] # "NONE" THEN "RUN_ALREADY_STARTED"
               ELSE IF Full(q.by) THEN "QUEUED_RUNS_LIMIT_REACHED" ELSE "OK"
<1> DEFINE n == work[q.run] # "NONE"
           f == Full(q.by)
<1>1. StartCode(q) = FirstRefusal(<< <<n, "RUN_ALREADY_STARTED">>, <<f, "QUEUED_RUNS_LIMIT_REACHED">> >>)
    BY Zenon DEF StartCode
<1> HIDE DEF n, f
<1>2. FirstRefusal(<< <<n, "RUN_ALREADY_STARTED">>, <<f, "QUEUED_RUNS_LIMIT_REACHED">> >>)
      = IF n THEN "RUN_ALREADY_STARTED" ELSE IF f THEN "QUEUED_RUNS_LIMIT_REACHED" ELSE "OK"
    BY Of2
<1> QED
    BY <1>1, <1>2 DEF n, f

\* A requeue, of a run that may execute.
LEMMA RetryIs ==
    ASSUME NEW q, StartableCode(q.run, q.on) = "OK"
    PROVE  RetryCode(q)
             = IF work[q.run] = "STOPPED" /\ stop[q.run] = "OVER" THEN "BUDGET_CHARGE_OVER_RESERVATION"
               ELSE IF work[q.run] # "STOPPED" \/ cancel[q.run] THEN "RUN_NOT_STOPPED"
               ELSE IF Full(q.by) THEN "QUEUED_RUNS_LIMIT_REACHED" ELSE "OK"
<1> DEFINE o == work[q.run] = "STOPPED" /\ stop[q.run] = "OVER"
           s == work[q.run] # "STOPPED" \/ cancel[q.run]
           f == Full(q.by)
<1>1. RetryCode(q) = FirstRefusal(<< <<o, "BUDGET_CHARGE_OVER_RESERVATION">>, <<s, "RUN_NOT_STOPPED">>, <<f, "QUEUED_RUNS_LIMIT_REACHED">> >>)
    BY Zenon DEF RetryCode
<1> HIDE DEF o, s, f
<1>2. FirstRefusal(<< <<o, "BUDGET_CHARGE_OVER_RESERVATION">>, <<s, "RUN_NOT_STOPPED">>, <<f, "QUEUED_RUNS_LIMIT_REACHED">> >>)
      = IF o THEN "BUDGET_CHARGE_OVER_RESERVATION" ELSE IF s THEN "RUN_NOT_STOPPED" ELSE IF f THEN "QUEUED_RUNS_LIMIT_REACHED" ELSE "OK"
    BY Of3
<1> QED
    BY <1>1, <1>2 DEF o, s, f

\* A cancel.
LEMMA CancelIs ==
    ASSUME NEW q
    PROVE  CancelCode(q)
             = IF status[q.run] # "RUNNING" \/ work[q.run] = "DONE" THEN "RUN_NOT_RUNNING"
               ELSE IF Driven(q.run) /\ cancel[q.run] THEN "RUN_CANCEL_REQUESTED" ELSE "OK"
<1> DEFINE d == status[q.run] # "RUNNING" \/ work[q.run] = "DONE"
           c == Driven(q.run) /\ cancel[q.run]
<1>1. CancelCode(q) = FirstRefusal(<< <<d, "RUN_NOT_RUNNING">>, <<c, "RUN_CANCEL_REQUESTED">> >>)
    BY Zenon DEF CancelCode
<1> HIDE DEF d, c
<1>2. FirstRefusal(<< <<d, "RUN_NOT_RUNNING">>, <<c, "RUN_CANCEL_REQUESTED">> >>)
      = IF d THEN "RUN_NOT_RUNNING" ELSE IF c THEN "RUN_CANCEL_REQUESTED" ELSE "OK"
    BY Of2
<1> QED
    BY <1>1, <1>2 DEF d, c

\* Every command asks for a standing first: a release for an approver's.
LEMMA Answers ==
    ASSUME NEW q
    PROVE  /\ q.do = "ADMIT" => Answer(q) = IF ~Satisfies(q.by, "WRITER") THEN "NOT_AUTHORISED"
                                            ELSE IF source[q.on] = "NEW" THEN "OK" ELSE "SOURCE_EXISTS"
           /\ q.do = "CREATE" => Answer(q) = IF ~Satisfies(q.by, "WRITER") THEN "NOT_AUTHORISED"
                                             ELSE IF status[q.run] = "NEW" THEN CreateCode(q) ELSE "RUN_EXISTS"
           /\ q.do = "PIN" => Answer(q) = IF ~Satisfies(q.by, "WRITER") THEN "NOT_AUTHORISED" ELSE PinCode(q)
           /\ q.do = "APPROVE" => Answer(q) = IF ~Satisfies(q.by, "APPROVER") THEN "NOT_AUTHORISED" ELSE ApproveCode(q)
           /\ q.do = "START" => Answer(q) = IF ~Satisfies(q.by, "WRITER") THEN "NOT_AUTHORISED" ELSE StartCode(q)
           /\ q.do = "RETRY" => Answer(q) = IF ~Satisfies(q.by, "WRITER") THEN "NOT_AUTHORISED" ELSE RetryCode(q)
           /\ q.do = "CANCEL" => Answer(q) = IF ~Satisfies(q.by, "WRITER") THEN "NOT_AUTHORISED" ELSE CancelCode(q)
    BY Zenon DEF Answer, Floor, Approvals

-----------------------------------------------------------------------------
(* What a pending unit has established.                                    *)

\* What a unit that holds the case lock has decided, and what still is so when it
\* commits: its own checks, the pass of the worker it is of, and the live authority.
Due(q) ==
    /\ q.do \in Commands \cup {"ACCEPT", "COMPLETE", "BLOCK"}
    /\ q.do \in {"ADMIT", "WITHDRAW"} => q.on \in Sources
    /\ q.do \notin {"ADMIT", "WITHDRAW"} => q.run \in Runs
    /\ q.do = "CREATE" =>
         /\ status[q.run] = "NEW" /\ q.on \in Runs \cup {None}
         /\ q.on # None => status[q.on] = "BLOCKED" /\ Successors(q.on) = {}
    /\ q.do = "PIN" => q.on \in Builds /\ Live # {} /\ pin[q.run] = None
    /\ q.do = "APPROVE" =>
         /\ q.by \in Users /\ pin[q.run] # None
         /\ q.on[1] \in Gate /\ q.on[2] = Preview(q.run, q.on[1])
    /\ q.do \in {"START", "RETRY"} => q.by \in Users
    /\ q.do = "CANCEL" => status[q.run] = "RUNNING"
    /\ q.do \in {"ACCEPT", "COMPLETE", "BLOCK"} =>
         /\ q.by \in Workers /\ status[q.run] = "RUNNING"
         /\ pass[q.by].run = q.run /\ Holds(q.by)
         /\ pass[q.by].step = IF q.do = "COMPLETE" THEN "end" ELSE "accept"
    /\ q.do \in {"ACCEPT", "COMPLETE"} => AuthorityCode(q.run) = "OK"

\* So of the one that is open.
UnitSound == unit # None => Due(unit)

\* A pass past its read works at a pinned run, of its own process' build, and while it
\* holds the run it stands at the end exactly when every node is accepted.
PassSound ==
    \A w \in Workers :
        /\ pass[w].step # "idle" => pass[w].run \in Runs
        /\ pass[w].step \in {"call", "accept", "end"} =>
             /\ pin[pass[w].run] # None /\ pin[pass[w].run].build = BuildOf[w]
             /\ Holds(w) => (accepted[pass[w].run] = Nodes <=> pass[w].step = "end")
\* Why a run stopped is recorded of a stopped run alone.
StopSound == \A r \in Runs : stop[r] # "NONE" => work[r] = "STOPPED"

\* All of it.
Sound == TypeOK /\ UnitSound /\ PassSound /\ StopSound

\* A run may conclude when it is running and pinned, its sources are live and its gates
\* approved.
AuthorityMeans ==
    \A r : AuthorityCode(r) = "OK" <=>
             status[r] = "RUNNING" /\ pin[r] # None /\ SourcesLive(r) /\ \A g \in Gate : Approved(r, g)

\* That is what the authority asks.
LEMMA AuthorityOK == AuthorityMeans
<1>1. ASSUME NEW r, status[r] # "RUNNING" \/ pin[r] = None PROVE AuthorityCode(r) # "OK"
    BY <1>1 DEF AuthorityCode
<1>2. ASSUME NEW r, status[r] = "RUNNING", pin[r] # None
      PROVE  AuthorityCode(r) = "OK" <=> SourcesLive(r) /\ \A g \in Gate : Approved(r, g)
    BY <1>2, AuthorityIs
<1> QED
    BY <1>1, <1>2 DEF AuthorityMeans

\* It reads nothing else.
LEMMA AuthorityStays ==
    ASSUME NEW x, UNCHANGED <<standing, source, sets, pin, status, gates>>, AuthorityCode(x) = "OK"
    PROVE  AuthorityCode(x)' = "OK"
<1>1. SourcesLive(x)' <=> SourcesLive(x)
    BY DEF SourcesLive, Members, Live
<1>2. ASSUME NEW g \in Gate PROVE Approved(x, g)' <=> Approved(x, g)
    BY DEF Approved, Preview, Satisfies
<1>3. AuthorityMeans'
    BY AuthorityOK, PTL
<1>4. AuthorityCode(x)' = "OK" <=>
         status'[x] = "RUNNING" /\ pin'[x] # None /\ SourcesLive(x)' /\ \A g \in Gate : Approved(x, g)'
    BY <1>3, Zenon DEF AuthorityMeans
<1>5. status[x] = "RUNNING" /\ pin[x] # None /\ SourcesLive(x) /\ \A g \in Gate : Approved(x, g)
    BY AuthorityOK, Zenon DEF AuthorityMeans
<1> QED
    BY <1>1, <1>2, <1>4, <1>5, Zenon

\* So a decision stands while those stand.
LEMMA DueStays ==
    ASSUME NEW q, UNCHANGED <<standing, source, sets, pin, status, supersedes, gates>>, Due(q),
           q.do \in {"ACCEPT", "COMPLETE", "BLOCK"} => pass'[q.by] = pass[q.by] /\ Holds(q.by)'
    PROVE  Due(q)'
<1>1. AuthorityCode(q.run) = "OK" => AuthorityCode(q.run)' = "OK"
    BY AuthorityStays
<1>2. Live' = Live /\ Successors(q.on)' = Successors(q.on) /\ Preview(q.run, q.on[1])' = Preview(q.run, q.on[1])
    BY DEF Live, Successors, Preview
<1>3. status' = status /\ pin' = pin
    OBVIOUS
<1> QED
    BY <1>1, <1>2, <1>3, Zenon DEF Due

\* What a command answered OK has decided: a create,
LEMMA CreateDue ==
    ASSUME TypeOK, NEW q, q.run \in Runs, q.on \in Runs \cup {None}, q.do = "CREATE", Answer(q) = "OK"
    PROVE  Due(q)
<1>1. status[q.run] = "NEW" /\ CreateCode(q) = "OK"
    BY Answers
<1>2. q.on # None => status[q.on] = "BLOCKED" /\ Successors(q.on) = {}
    BY <1>1, CreateIs
<1> QED
    BY <1>1, <1>2 DEF Due, Commands

\* a pin,
LEMMA PinDue ==
    ASSUME NEW q, q.run \in Runs, q.on \in Builds, q.do = "PIN", Answer(q) = "OK"
    PROVE  Due(q)
<1>1. PinCode(q) = "OK"
    BY Answers
<1> QED
    BY <1>1, PinIs DEF Due, Commands

\* a release,
LEMMA ApproveDue ==
    ASSUME NEW q, q.run \in Runs, q.by \in Users, q.on[1] \in Gate, q.do = "APPROVE", Answer(q) = "OK"
    PROVE  Due(q)
<1>1. ApproveCode(q) = "OK"
    BY Answers
<1>2. pin[q.run] # None
    BY <1>1 DEF ApproveCode
<1>3. q.on[2] = Preview(q.run, q.on[1])
    BY <1>1, <1>2, ApproveIs
<1> QED
    BY <1>2, <1>3 DEF Due, Commands

\* a cancel,
LEMMA CancelDue ==
    ASSUME NEW q, q.run \in Runs, q.do = "CANCEL", Answer(q) = "OK"
    PROVE  Due(q)
<1>1. CancelCode(q) = "OK"
    BY Answers
<1> QED
    BY <1>1, CancelIs DEF Due, Commands

\* The commands there are.
LEMMA AskedIs == ASSUME NEW u, NEW q \in Asked(u) PROVE
 \/ \E do \in {"ADMIT", "WITHDRAW"}, s \in Sources: q = Request(do, u, None, s)
 \/ \E r \in Runs, p \in Runs \cup {None}: q = Request("CREATE", u, r, p)
 \/ \E do \in {"PIN", "START", "RETRY"}, r \in Created, b \in Builds: q = Request(do, u, r, b)
 \/ \E r \in Created : q = Request("CANCEL", u, r, None)
 \/ \E r \in Created, g \in Gate, p \in {shown[u]} \ {None} : q = Request("APPROVE", u, r, <<g, p>>)
<1> DEFINE A == {Request(do, u, None, s) : do \in {"ADMIT", "WITHDRAW"}, s \in Sources}
    B == {Request("CREATE", u, r, p) : r \in Runs, p \in Runs \cup {None}}
    C == {Request(do, u, r, b) : do \in {"PIN", "START", "RETRY"}, r \in Created, b \in Builds}
    D == {Request("CANCEL", u, r, None) : r \in Created}
    E == {Request("APPROVE", u, r, <<g, p>>) : r \in Created, g \in Gate, p \in {shown[u]} \ {None}}
<1>1. Asked(u) = A \cup B \cup C \cup D \cup E
  BY DEF Asked
<1>2. q \in A => \E do \in {"ADMIT", "WITHDRAW"}, s \in Sources: q = Request(do, u, None, s)
  OBVIOUS
<1>3. q \in B => \E r \in Runs, p \in Runs \cup {None}: q = Request("CREATE", u, r, p)
  OBVIOUS
<1>4. q \in C => \E do \in {"PIN", "START", "RETRY"}, r \in Created, b \in Builds: q = Request(do, u, r, b)
  OBVIOUS
<1>5. q \in D => \E r \in Created : q = Request("CANCEL", u, r, None)
  OBVIOUS
<1>6. q \in E => \E r \in Created, g \in Gate, p \in {shown[u]} \ {None} : q = Request("APPROVE", u, r, <<g, p>>)
  OBVIOUS
<1> HIDE DEF A, B, C, D, E
<1> QED BY <1>1, <1>2, <1>3, <1>4, <1>5, <1>6

\* and every other.
LEMMA AskedDue ==
    ASSUME TypeOK, NEW u \in Users, NEW q \in Asked(u), Answer(q) = "OK"
    PROVE  Due(q) /\ DOMAIN q = {"do", "by", "run", "on"}
<1>1. CASE \E do \in {"ADMIT", "WITHDRAW"}, s \in Sources : q = Request(do, u, None, s)
    <2>1. q.do \in {"ADMIT", "WITHDRAW"} /\ q.on \in Sources /\ DOMAIN q = {"do", "by", "run", "on"}
        BY <1>1 DEF Request
    <2> QED
        BY <2>1 DEF Due, Commands
<1>2. CASE \E r \in Runs, p \in Runs \cup {None} : q = Request("CREATE", u, r, p)
    <2>1. q.run \in Runs /\ q.on \in Runs \cup {None} /\ q.do = "CREATE" /\ DOMAIN q = {"do", "by", "run", "on"}
        BY <1>2 DEF Request
    <2> QED
        BY <2>1, CreateDue
<1>3. CASE \E do \in {"PIN", "START", "RETRY"}, r \in Created, b \in Builds : q = Request(do, u, r, b)
    <2>1. /\ q.run \in Runs /\ q.on \in Builds /\ q.do \in {"PIN", "START", "RETRY"} /\ q.by \in Users
          /\ DOMAIN q = {"do", "by", "run", "on"}
        BY <1>3 DEF Request, Created
    <2>2. CASE q.do = "PIN"
        BY <2>1, <2>2, PinDue
    <2>3. CASE q.do \in {"START", "RETRY"}
        BY <2>1, <2>3 DEF Due, Commands
    <2> QED
        BY <2>1, <2>2, <2>3
<1>4. CASE \E r \in Created : q = Request("CANCEL", u, r, None)
    <2>1. q.run \in Runs /\ q.do = "CANCEL" /\ DOMAIN q = {"do", "by", "run", "on"}
        BY <1>4 DEF Request, Created
    <2> QED
        BY <2>1, CancelDue
<1>5. CASE \E r \in Created, g \in Gate, p \in {shown[u]} \ {None} : q = Request("APPROVE", u, r, <<g, p>>)
    <2>1. /\ q.run \in Runs /\ q.do = "APPROVE" /\ q.by \in Users /\ q.on[1] \in Gate
          /\ DOMAIN q = {"do", "by", "run", "on"}
        BY <1>5 DEF Request, Created
    <2> QED
        BY <2>1, ApproveDue
<1> QED
    BY <1>1, <1>2, <1>3, <1>4, <1>5, AskedIs

\* What only the holder of the case lock moves.
Fixed == UNCHANGED <<standing, source, sets, pin, status, supersedes, gates>>

\* Such a step, which leaves the worker of the unit alone, leaves its decision standing.
LEMMA UnitStays ==
    ASSUME Sound, Fixed, unit' = unit,
           \A w \in Workers : unit # None /\ unit.do \in {"ACCEPT", "COMPLETE", "BLOCK"} /\ unit.by = w =>
               pass'[w] = pass[w] /\ Holds(w)'
    PROVE  UnitSound'
<1>1. SUFFICES ASSUME unit # None PROVE Due(unit)'
    BY DEF UnitSound
<1>2. PICK q : q = unit
    OBVIOUS
<1>3. Due(q) /\ q' = unit'
    BY <1>1, <1>2 DEF Sound, UnitSound
<1>4. q.do \in {"ACCEPT", "COMPLETE", "BLOCK"} => pass'[q.by] = pass[q.by] /\ Holds(q.by)'
    BY <1>1, <1>2, <1>3 DEF Due
<1>5. Due(q)'
    BY <1>3, <1>4, DueStays, Zenon DEF Fixed
<1>6. unit' = q
    BY <1>2
<1> QED
    BY <1>5, <1>6, Zenon DEF Due

\* A unit that decides and takes the lock.
LEMMA Takes ==
    ASSUME Sound, NEW q, Due(q), DOMAIN q = {"do", "by", "run", "on"}, unit' = q,
           UNCHANGED <<standing, source, inputs, runs, gates, queue, shown, pass, faults>>
    PROVE  Sound'
<1>1. TypeOK'
    BY DEF Sound, TypeOK, inputs, runs, queue
<1>2. q.do \in {"ACCEPT", "COMPLETE", "BLOCK"} => pass'[q.by] = pass[q.by] /\ Holds(q.by)'
    BY DEF Due, Holds, queue
<1>3. Due(q)'
    BY <1>2, DueStays DEF inputs, runs
<1>4. UnitSound'
    BY <1>3 DEF UnitSound, Due
<1>5. PassSound' /\ StopSound'
    BY DEF Sound, PassSound, StopSound, Holds, inputs, runs, queue
<1> QED
    BY <1>1, <1>4, <1>5 DEF Sound

\* A person's step.
LEMMA AskSound == ASSUME Sound, NEW u \in Users, Ask(u) PROVE Sound'
<1>1. PICK q \in Asked(u) : Answer(q) = "OK" /\ unit' = q
    BY DEF Ask
<1>2. Due(q) /\ DOMAIN q = {"do", "by", "run", "on"}
    BY <1>1, AskedDue DEF Sound
<1>3. UNCHANGED <<standing, source, inputs, runs, gates, queue, shown, pass, faults>>
    BY DEF Ask
<1> QED
    BY <1>1, <1>2, <1>3, Takes

-----------------------------------------------------------------------------
(* Every step keeps what the units and the passes stand on.                *)

\* A preview read.
LEMMA ShowSound == ASSUME Sound, NEW u \in Users, Show(u) PROVE Sound'
<1>1. PICK r \in Created, g \in Gate : pin[r] # None /\ shown' = [shown EXCEPT ![u] = Preview(r, g)]
    BY DEF Show
<1>2. UNCHANGED <<standing, source, inputs, runs, gates, queue, pass, unit, faults>>
    BY DEF Show
<1>3. Preview(r, g) \in Previews
    BY <1>1 DEF Sound, TypeOK, Preview, Previews, Created
<1>4. shown' \in [Users -> Previews \cup {None}]
    BY <1>1, <1>3 DEF Sound, TypeOK
<1>5. TypeOK'
    BY <1>2, <1>4 DEF Sound, TypeOK, inputs, runs, queue
<1>6. UnitSound'
    BY <1>2, UnitStays DEF Fixed, inputs, runs, queue, Holds, Sound, UnitSound, Due
<1>7. PassSound' /\ StopSound'
    BY <1>2 DEF Sound, PassSound, StopSound, Holds, inputs, runs, queue
<1> QED
    BY <1>5, <1>6, <1>7 DEF Sound

\* A grant or a revoke.
LEMMA StandingSound == ASSUME Sound, NEW u \in Users, SetStanding(u) PROVE Sound'
<1>1. UNCHANGED <<source, inputs, runs, gates, queue, shown, pass, unit, faults>> /\ unit' = None
    BY DEF SetStanding
<1>2. standing' \in [Users -> DOMAIN Rank]
    BY DEF SetStanding, Sound, TypeOK
<1>3. TypeOK'
    BY <1>1, <1>2 DEF Sound, TypeOK, inputs, runs, queue
<1>4. UnitSound' /\ PassSound' /\ StopSound'
    BY <1>1 DEF Sound, UnitSound, PassSound, StopSound, Holds, inputs, runs, queue
<1> QED
    BY <1>3, <1>4 DEF Sound

\* A unit rolled back.
LEMMA AbortSound == ASSUME Sound, Abort PROVE Sound'
<1>1. /\ UNCHANGED <<standing, source, inputs, runs, gates, queue, shown, pass>> /\ unit' = None
      /\ faults' \in 0..MaxFaults
    BY SizesAre DEF Abort, Sound, TypeOK
<1>2. TypeOK'
    BY <1>1 DEF Sound, TypeOK, inputs, runs, queue
<1>3. UnitSound' /\ PassSound' /\ StopSound'
    BY <1>1 DEF Sound, UnitSound, PassSound, StopSound, Holds, inputs, runs, queue
<1> QED
    BY <1>2, <1>3 DEF Sound

\* Where a pass may be sent: nothing else of the state is touched.
PassTo(w) ==
    \/ pass' = pass
    \/ pass' = [pass EXCEPT ![w] = Idle]
    \/ pass' = [pass EXCEPT ![w].step = "park"]
    \/ pass' = [pass EXCEPT ![w].step = "accept"] /\ pass[w].step = "call"
    \/ /\ pass' = [pass EXCEPT ![w].step = IF accepted[pass[w].run] < Nodes THEN "call" ELSE "end"]
       /\ pin[pass[w].run] # None /\ pin[pass[w].run].build = BuildOf[w]

\* Each keeps a pass in its type, at its run or at none.
LEMMA PassTyped ==
    ASSUME Sound, NEW w \in Workers, pass[w].step # "idle", PassTo(w)
    PROVE  /\ pass' \in [Workers -> [run : Runs \cup {None}, step : {"idle", "read", "call", "accept", "end", "park"}]]
           /\ \A v \in Workers : pass'[v].step # "idle" => pass'[v].run \in Runs /\ pass'[v].run = pass[v].run
<1>1. /\ pass \in [Workers -> [run : Runs \cup {None}, step : {"idle", "read", "call", "accept", "end", "park"}]]
      /\ \A v \in Workers : pass[v].step # "idle" => pass[v].run \in Runs
    BY DEF Sound, TypeOK, PassSound
<1>2. CASE pass' = pass
    BY <1>1, <1>2
<1>3. CASE pass' = [pass EXCEPT ![w] = Idle]
    BY <1>1, <1>3 DEF Idle
<1>4. CASE \E s \in {"park", "accept", "call", "end"} : pass' = [pass EXCEPT ![w].step = s]
    BY <1>1, <1>4
<1> QED
    BY <1>2, <1>3, <1>4 DEF PassTo

\* And keeps what passes stand on.
LEMMA PassStays ==
    ASSUME Sound, NEW w \in Workers, pass[w].step # "idle", PassTo(w), UNCHANGED <<pin, accepted, holder>>,
           \A r \in Runs : work'[r] = "CLAIMED" => work[r] = "CLAIMED"
    PROVE  PassSound'
<1>1. \A v \in Workers : pass'[v].step # "idle" => pass'[v].run \in Runs /\ pass'[v].run = pass[v].run /\ (Holds(v)' => Holds(v))
    BY PassTyped DEF Holds
<1>2. ASSUME NEW v \in Workers, v # w PROVE pass'[v] = pass[v]
    BY <1>2 DEF PassTo, Sound, TypeOK
<1>3. ASSUME NEW v \in Workers, v # w, pass'[v].step \in {"call", "accept", "end"}
      PROVE  /\ pin'[pass'[v].run] # None /\ pin'[pass'[v].run].build = BuildOf[v]
             /\ Holds(v)' => (accepted'[pass'[v].run] = Nodes <=> pass'[v].step = "end")
    BY <1>1, <1>2, <1>3 DEF Sound, PassSound
<1>4. ASSUME pass'[w].step \in {"call", "accept", "end"}
      PROVE  /\ pin'[pass'[w].run] # None /\ pin'[pass'[w].run].build = BuildOf[w]
             /\ Holds(w)' => (accepted'[pass'[w].run] = Nodes <=> pass'[w].step = "end")
    <2>1. pass[w] \in [run : Runs \cup {None}, step : {"idle", "read", "call", "accept", "end", "park"}] /\ pass[w].run \in Runs
        BY DEF Sound, TypeOK, PassSound
    <2>2. accepted[pass[w].run] \in 0..Nodes
        BY <2>1 DEF Sound, TypeOK
    <2>3. CASE pass' = pass
        BY <1>1, <1>4, <2>3 DEF Sound, PassSound
    <2>4. CASE pass' = [pass EXCEPT ![w].step = "accept"] /\ pass[w].step = "call"
        <3>1. pass'[w].step = "accept"
            BY <2>4 DEF Sound, TypeOK
        <3> QED
            BY <1>1, <1>4, <2>4, <3>1 DEF Sound, PassSound
    <2>5. CASE /\ pass' = [pass EXCEPT ![w].step = IF accepted[pass[w].run] < Nodes THEN "call" ELSE "end"]
               /\ pin[pass[w].run] # None /\ pin[pass[w].run].build = BuildOf[w]
        <3>1. pass'[w].step = IF accepted[pass[w].run] < Nodes THEN "call" ELSE "end"
            BY <2>5 DEF Sound, TypeOK
        <3> QED
            BY <1>1, <1>4, <2>2, <2>5, <3>1, SizesAre
    <2>6. CASE pass' = [pass EXCEPT ![w] = Idle] \/ pass' = [pass EXCEPT ![w].step = "park"]
        BY <1>4, <2>6 DEF Sound, TypeOK, Idle
    <2> QED
        BY <2>3, <2>4, <2>5, <2>6 DEF PassTo
<1>5. \A v \in Workers : pass'[v].step # "idle" => pass'[v].run \in Runs
    BY <1>1
<1> QED
    BY <1>3, <1>4, <1>5 DEF PassSound

\* The call comes back.
LEMMA CallSound == ASSUME Sound, NEW w \in Workers, Call(w) PROVE Sound'
<1>1. UNCHANGED <<standing, source, inputs, runs, gates, queue, shown, unit, faults>> /\ pass[w].step = "call"
      /\ pass' = [pass EXCEPT ![w].step = "accept"]
    BY DEF Call, Go
<1>2. PassTo(w)
    BY <1>1 DEF PassTo
<1>3. PassSound'
    BY <1>1, <1>2, PassStays DEF inputs, runs, queue
<1>4. TypeOK'
    BY <1>1, <1>2, PassTyped DEF Sound, TypeOK, inputs, runs, queue
<1>5. ASSUME NEW v \in Workers, unit # None /\ unit.do \in {"ACCEPT", "COMPLETE", "BLOCK"} /\ unit.by = v
      PROVE pass'[v] = pass[v] /\ Holds(v)'
    <2>1. v # w
        BY <1>1, <1>5 DEF Sound, UnitSound, Due
    <2>2. pass'[v] = pass[v]
        BY <1>1, <2>1 DEF Sound, TypeOK
    <2> QED
        BY <1>1, <1>5, <2>2 DEF Sound, UnitSound, Due, Holds, queue
<1>6. UnitSound'
    BY <1>1, <1>5, UnitStays DEF Fixed, inputs, runs
<1>7. StopSound'
    BY <1>1 DEF Sound, StopSound, queue
<1> QED
    BY <1>3, <1>4, <1>6, <1>7 DEF Sound

\* A step that moves its own pass alone.
LEMMA Moves ==
    ASSUME Sound, NEW w \in Workers, pass[w].step # "idle", PassTo(w), unit = None,
           UNCHANGED <<standing, source, inputs, runs, gates, queue, shown, unit, faults>>
    PROVE  Sound'
<1>1. PassSound'
    BY PassStays DEF inputs, runs, queue
<1>2. TypeOK'
    BY PassTyped DEF Sound, TypeOK, inputs, runs, queue
<1>3. UnitSound' /\ StopSound'
    BY DEF Sound, UnitSound, StopSound, queue
<1> QED
    BY <1>1, <1>2, <1>3 DEF Sound

\* What a refusal does is one.
LEMMA RefusedTo == ASSUME NEW w, NEW c, Refused(w, c) PROVE PassTo(w)
    BY DEF Refused, Leave, Go, PassTo

\* The read at a node's turn sends the pass on only with the authority of its build.
LEMMA ReadSound == ASSUME Sound, NEW w \in Workers, Read(w) PROVE Sound'
<1>1. /\ pass[w].step = "read" /\ unit = None
      /\ UNCHANGED <<standing, source, inputs, runs, gates, queue, shown, unit, faults>>
    BY DEF Read
<1>2. CASE ExecutionCode(pass[w].run, BuildOf[w]) = "OK"
    <2>1. pin[pass[w].run] # None /\ pin[pass[w].run].build = BuildOf[w]
        <3>1. AuthorityCode(pass[w].run) = "OK" /\ pin[pass[w].run].build = BuildOf[w]
            BY <1>2 DEF ExecutionCode
        <3> QED
            BY <3>1, AuthorityOK DEF AuthorityMeans
    <2>2. Leave(w) \/ Go(w, "park") \/ Go(w, IF accepted[pass[w].run] < Nodes THEN "call" ELSE "end")
        BY <1>2 DEF Read
    <2> QED
        BY <1>1, <2>1, <2>2, Moves DEF PassTo, Leave, Go
<1>3. CASE ExecutionCode(pass[w].run, BuildOf[w]) # "OK"
    <2>1. Refused(w, ExecutionCode(pass[w].run, BuildOf[w]))
        BY <1>3 DEF Read
    <2> QED
        BY <1>1, <2>1, RefusedTo, Moves
<1> QED
    BY <1>2, <1>3

\* An accept decides under the fence and the live authority.
LEMMA AcceptSound == ASSUME Sound, NEW w \in Workers, Accept(w) PROVE Sound'
<1> DEFINE r == pass[w].run
<1>1. /\ pass[w].step = "accept" /\ unit = None
      /\ UNCHANGED <<standing, source, inputs, runs, gates, queue, shown, faults>>
    BY DEF Accept
<1>2. \/ Leave(w) /\ UNCHANGED unit
      \/ Refused(w, AuthorityCode(r)) /\ UNCHANGED unit
      \/ /\ status[r] = "RUNNING" /\ Holds(w) /\ AuthorityCode(r) = "OK"
         /\ unit' = Request("ACCEPT", w, r, None) /\ UNCHANGED pass
    BY DEF Accept
<1>3. CASE Leave(w) /\ UNCHANGED unit
    BY <1>1, <1>3, Moves DEF Leave, PassTo
<1>4. CASE Refused(w, AuthorityCode(r)) /\ UNCHANGED unit
    BY <1>1, <1>4, Moves, RefusedTo
<1>5. CASE /\ status[r] = "RUNNING" /\ Holds(w) /\ AuthorityCode(r) = "OK"
           /\ unit' = Request("ACCEPT", w, r, None) /\ UNCHANGED pass
    <2>1. r \in Runs
        BY <1>1 DEF Sound, PassSound
    <2>2. PICK q : q = Request("ACCEPT", w, r, None)
        OBVIOUS
    <2>3. q.do = "ACCEPT" /\ q.by = w /\ q.run = r /\ DOMAIN q = {"do", "by", "run", "on"}
        BY <2>2 DEF Request
    <2>4. Due(q)
        BY <1>1, <1>5, <2>1, <2>3 DEF Due, Commands
    <2> QED
        BY <1>1, <1>5, <2>2, <2>3, <2>4, Takes
<1> QED
    BY <1>2, <1>3, <1>4, <1>5

\* So does a completion.
LEMMA CompleteSound == ASSUME Sound, NEW w \in Workers, Complete(w) PROVE Sound'
<1> DEFINE r == pass[w].run
<1>1. /\ pass[w].step = "end" /\ unit = None
      /\ UNCHANGED <<standing, source, inputs, runs, gates, queue, shown, faults>>
    BY DEF Complete
<1>2. \/ (Leave(w) \/ Go(w, "park")) /\ UNCHANGED unit
      \/ /\ status[r] = "RUNNING" /\ Holds(w) /\ AuthorityCode(r) = "OK"
         /\ unit' = Request("COMPLETE", w, r, None) /\ UNCHANGED pass
    BY DEF Complete
<1>3. CASE (Leave(w) \/ Go(w, "park")) /\ UNCHANGED unit
    BY <1>1, <1>3, Moves DEF Leave, Go, PassTo
<1>5. CASE /\ status[r] = "RUNNING" /\ Holds(w) /\ AuthorityCode(r) = "OK"
           /\ unit' = Request("COMPLETE", w, r, None) /\ UNCHANGED pass
    <2>1. r \in Runs
        BY <1>1 DEF Sound, PassSound
    <2>2. PICK q : q = Request("COMPLETE", w, r, None)
        OBVIOUS
    <2>3. q.do = "COMPLETE" /\ q.by = w /\ q.run = r /\ DOMAIN q = {"do", "by", "run", "on"}
        BY <2>2 DEF Request
    <2>4. Due(q)
        BY <1>1, <1>5, <2>1, <2>3 DEF Due, Commands
    <2> QED
        BY <1>1, <1>5, <2>2, <2>3, <2>4, Takes
<1> QED
    BY <1>2, <1>3, <1>5

\* A block, under the fence.
LEMMA BlockSound == ASSUME Sound, NEW w \in Workers, Block(w) PROVE Sound'
<1> DEFINE r == pass[w].run
<1>1. /\ pass[w].step = "accept" /\ unit = None /\ status[r] = "RUNNING" /\ Holds(w)
      /\ unit' = Request("BLOCK", w, r, None)
      /\ UNCHANGED <<standing, source, inputs, runs, gates, queue, shown, pass, faults>>
    BY DEF Block
<1>2. r \in Runs
    BY <1>1 DEF Sound, PassSound
<1>3. PICK q : q = Request("BLOCK", w, r, None)
    OBVIOUS
<1>4. q.do = "BLOCK" /\ q.by = w /\ q.run = r /\ DOMAIN q = {"do", "by", "run", "on"}
    BY <1>3 DEF Request
<1>5. Due(q)
    BY <1>1, <1>2, <1>4 DEF Due, Commands
<1> QED
    BY <1>1, <1>3, <1>4, <1>5, Takes

\* A lapse takes a lease from nobody yet.
LEMMA LapseSound == ASSUME Sound, NEW r \in Runs, Lapse(r) PROVE Sound'
<1>1. /\ lapsed' = [lapsed EXCEPT ![r] = TRUE] /\ faults' \in 0..MaxFaults
      /\ UNCHANGED <<standing, source, inputs, runs, gates, work, place, cancel, stop, holder, shown, pass, unit>>
    BY SizesAre DEF Lapse, Sound, TypeOK
<1>2. lapsed' \in [Runs -> BOOLEAN]
    BY <1>1, Zenon DEF Sound, TypeOK
<1>3. TypeOK'
    BY <1>1, <1>2 DEF Sound, TypeOK, inputs, runs
<1>4. UnitSound'
    BY <1>1, UnitStays DEF Fixed, inputs, runs, Holds, Sound, UnitSound, Due
<1>5. PassSound' /\ StopSound'
    BY <1>1 DEF Sound, PassSound, StopSound, Holds, inputs, runs
<1> QED
    BY <1>3, <1>4, <1>5 DEF Sound

\* A claim takes a run from its last holder, but none a unit has locked.
LEMMA ClaimSound == ASSUME Sound, NEW w \in Workers, Claim(w) PROVE Sound'
<1>1. PICK r \in Runs :
        /\ work[r] = "QUEUED" \/ (work[r] = "CLAIMED" /\ lapsed[r])
        /\ ~RowLocked(r)
        /\ work' = [work EXCEPT ![r] = "CLAIMED"]
        /\ holder' = [holder EXCEPT ![r] = w]
        /\ lapsed' = [lapsed EXCEPT ![r] = FALSE]
        /\ pass' = [pass EXCEPT ![w] = [run |-> r, step |-> "read"]]
    BY DEF Claim
<1>2. /\ pass[w].step = "idle"
      /\ UNCHANGED <<standing, source, inputs, runs, gates, place, cancel, stop, shown, unit, faults>>
    BY DEF Claim, Idle
<1>3. lapsed' \in [Runs -> BOOLEAN]
    BY <1>1, Zenon DEF Sound, TypeOK
<1>4. /\ pass' \in [Workers -> [run : Runs \cup {None}, step : {"idle", "read", "call", "accept", "end", "park"}]]
      /\ pass'[w] = [run |-> r, step |-> "read"] /\ \A v \in Workers : v # w => pass'[v] = pass[v]
    BY <1>1 DEF Sound, TypeOK
<1>5. /\ work' \in [Runs -> {"NONE", "QUEUED", "CLAIMED", "STOPPED", "DONE"}]
      /\ holder' \in [Runs -> Workers \cup {None}]
      /\ work'[r] = "CLAIMED" /\ holder'[r] = w
      /\ \A x \in Runs : x # r => work'[x] = work[x] /\ holder'[x] = holder[x]
    BY <1>1 DEF Sound, TypeOK
<1>6. TypeOK'
    BY <1>2, <1>3, <1>4, <1>5 DEF Sound, TypeOK, inputs, runs
<1>7. StopSound'
    BY <1>1, <1>2, <1>5 DEF Sound, StopSound
<1>8. ASSUME NEW v \in Workers, v # w, pass[v].run \in Runs, Holds(v)' PROVE Holds(v)
    BY <1>4, <1>5, <1>8 DEF Holds
<1>9. PassSound'
    <2>1. ASSUME NEW v \in Workers, v # w
          PROVE  /\ pass'[v].step # "idle" => pass'[v].run \in Runs
                 /\ pass'[v].step \in {"call", "accept", "end"} =>
                      /\ pin'[pass'[v].run] # None /\ pin'[pass'[v].run].build = BuildOf[v]
                      /\ Holds(v)' => (accepted'[pass'[v].run] = Nodes <=> pass'[v].step = "end")
        BY <1>2, <1>4, <1>8, <2>1 DEF Sound, PassSound, inputs, runs
    <2> QED
        BY <1>4, <2>1 DEF PassSound
<1>10. ASSUME NEW v \in Workers, unit # None /\ unit.do \in {"ACCEPT", "COMPLETE", "BLOCK"} /\ unit.by = v
       PROVE pass'[v] = pass[v] /\ Holds(v)'
    <2>1. v # w /\ pass[v].run = unit.run /\ unit.run \in Runs /\ Holds(v)
        BY <1>2, <1>10 DEF Sound, UnitSound, Due
    <2>2. unit.run # r
        BY <1>1, <1>10 DEF RowLocked
    <2> QED
        BY <1>4, <1>5, <2>1, <2>2 DEF Holds
<1>11. UnitSound'
    BY <1>2, <1>10, UnitStays DEF Fixed, inputs, runs
<1> QED
    BY <1>6, <1>7, <1>9, <1>11 DEF Sound

\* A death, or a store fault.
LEMMA FaultSound == ASSUME Sound, NEW w \in Workers, Fault(w) PROVE Sound'
<1>1. /\ pass[w] # Idle /\ (unit # None => unit.by # w) /\ faults' \in 0..MaxFaults
      /\ pass' = [pass EXCEPT ![w] = Idle]
      /\ work' = work \/ (work' = [work EXCEPT ![pass[w].run] = "QUEUED"] /\ Holds(w) /\ unit = None)
      /\ UNCHANGED <<standing, source, inputs, runs, gates, place, cancel, stop, holder, lapsed, shown, unit>>
    BY SizesAre DEF Fault, Leave, Sound, TypeOK
<1>2. /\ pass' \in [Workers -> [run : Runs \cup {None}, step : {"idle", "read", "call", "accept", "end", "park"}]]
      /\ pass'[w].step = "idle" /\ \A v \in Workers : v # w => pass'[v] = pass[v]
    BY <1>1 DEF Sound, TypeOK, Idle
<1>3. /\ work' \in [Runs -> {"NONE", "QUEUED", "CLAIMED", "STOPPED", "DONE"}]
      /\ \A r \in Runs : work'[r] = work[r] \/ (work[r] = "CLAIMED" /\ work'[r] = "QUEUED")
    BY <1>1 DEF Sound, TypeOK, Holds
<1>4. TypeOK'
    BY <1>1, <1>2, <1>3 DEF Sound, TypeOK, inputs, runs
<1>5. StopSound'
    BY <1>1, <1>3 DEF Sound, StopSound
<1>6. ASSUME NEW v \in Workers, v # w, pass[v].run \in Runs, Holds(v)' PROVE Holds(v)
    BY <1>1, <1>2, <1>3, <1>6 DEF Holds
<1>7. PassSound'
    BY <1>1, <1>2, <1>6 DEF Sound, PassSound, inputs, runs
<1>8. UnitSound'
    <2>1. CASE unit = None
        BY <1>1, <2>1 DEF UnitSound
    <2>2. CASE unit # None
        <3>1. work' = work
            BY <1>1, <2>2
        <3>2. ASSUME NEW v \in Workers, unit # None /\ unit.do \in {"ACCEPT", "COMPLETE", "BLOCK"} /\ unit.by = v
              PROVE pass'[v] = pass[v] /\ Holds(v)'
            BY <1>1, <1>2, <3>1, <3>2 DEF Sound, UnitSound, Due, Holds
        <3> QED
            BY <1>1, <3>2, UnitStays DEF Fixed, inputs, runs
    <2> QED
        BY <2>1, <2>2
<1> QED
    BY <1>4, <1>5, <1>7, <1>8 DEF Sound

\* A park for good.
LEMMA OverspendSound == ASSUME Sound, NEW w \in Workers, Overspend(w) PROVE Sound'
<1> DEFINE r == pass[w].run
<1>1. /\ pass[w].step = "accept" /\ unit = None /\ unit' = None /\ Holds(w) /\ faults' \in 0..MaxFaults
      /\ work' = [work EXCEPT ![r] = "STOPPED"] /\ stop' = [stop EXCEPT ![r] = "OVER"]
      /\ pass' = [pass EXCEPT ![w] = Idle]
      /\ UNCHANGED <<standing, source, inputs, runs, gates, place, cancel, holder, lapsed, shown>>
    BY SizesAre DEF Overspend, Leave, Sound, TypeOK
<1>2. r \in Runs
    BY <1>1 DEF Sound, PassSound
<1>3. PassSound'
    BY <1>1, <1>2, PassStays DEF PassTo, inputs, runs, Sound, TypeOK
<1>4. TypeOK'
    BY <1>1, <1>2, PassTyped DEF PassTo, Sound, TypeOK, inputs, runs
<1>5. StopSound'
    BY <1>1, <1>2 DEF Sound, TypeOK, StopSound
<1> QED
    BY <1>1, <1>3, <1>4, <1>5 DEF Sound, UnitSound

\* How a run ends.
LEMMA EndIs ==
    ASSUME TypeOK, NEW r \in Runs, NEW into \in {"COMPLETE", "BLOCKED", "CANCELLED"}, End(r, into), StopSound
    PROVE  /\ status' \in [Runs -> {"NEW", "RUNNING", "COMPLETE", "BLOCKED", "CANCELLED"}]
           /\ work' \in [Runs -> {"NONE", "QUEUED", "CLAIMED", "STOPPED", "DONE"}]
           /\ stop' \in [Runs -> {"NONE", "OTHER", "OVER"}]
           /\ status'[r] = into /\ \A x \in Runs : x # r => status'[x] = status[x]
           /\ work'[r] \in {"NONE", "DONE"} /\ \A x \in Runs : x # r => work'[x] = work[x]
           /\ StopSound'
    BY DEF End, TypeOK, StopSound

\* A park, or the end of a cancelled run.
LEMMA ParkSound == ASSUME Sound, NEW w \in Workers, Park(w) PROVE Sound'
<1> DEFINE r == pass[w].run
<1>1. /\ pass[w].step = "park" /\ unit = None /\ unit' = None
      /\ pass' = [pass EXCEPT ![w] = Idle]
      /\ UNCHANGED <<standing, source, inputs, supersedes, accepted, gates, place, cancel, holder, lapsed, shown, faults>>
    BY DEF Park, Leave
<1>2. r \in Runs
    BY <1>1 DEF Sound, PassSound
<1>3. /\ status' \in [Runs -> {"NEW", "RUNNING", "COMPLETE", "BLOCKED", "CANCELLED"}]
      /\ work' \in [Runs -> {"NONE", "QUEUED", "CLAIMED", "STOPPED", "DONE"}]
      /\ stop' \in [Runs -> {"NONE", "OTHER", "OVER"}]
      /\ \A x \in Runs : work'[x] = "CLAIMED" => work[x] = "CLAIMED"
      /\ StopSound'
    <2>1. CASE UNCHANGED <<status, work, stop>>
        BY <2>1 DEF Sound, TypeOK, StopSound
    <2>2. CASE End(r, "CANCELLED")
        BY <1>2, <2>2, EndIs DEF Sound
    <2>3. CASE work' = [work EXCEPT ![r] = "STOPPED"] /\ stop' = [stop EXCEPT ![r] = "OTHER"] /\ UNCHANGED status
        BY <1>2, <2>3 DEF Sound, TypeOK, StopSound
    <2> QED
        BY <2>1, <2>2, <2>3 DEF Park
<1>4. PassSound'
    BY <1>1, <1>3, PassStays DEF PassTo, inputs
<1>5. TypeOK'
    BY <1>1, <1>3, PassTyped DEF PassTo, Sound, TypeOK, inputs
<1> QED
    BY <1>1, <1>3, <1>4, <1>5 DEF Sound, UnitSound

\* What a commit writes was decided.
LEMMA CommitIs ==
    ASSUME Sound, Commit
    PROVE  /\ Due(unit) /\ unit' = None /\ Apply(unit)
           /\ UNCHANGED <<standing, shown, pass, faults>>
    BY DEF Commit, Sound, UnitSound

\* An admission or a withdrawal.
LEMMA ApplySourceSound == ASSUME Sound, Commit, ApplySource(unit) PROVE Sound'
<1>1. /\ unit' = None /\ unit.on \in Sources
      /\ UNCHANGED <<standing, shown, pass, faults, inputs, runs, gates, queue>>
    BY CommitIs DEF ApplySource, Due
<1>2. source' \in [Sources -> {"NEW", "LIVE", "WITHDRAWN"}]
    BY <1>1 DEF ApplySource, Sound, TypeOK
<1>3. TypeOK'
    BY <1>1, <1>2 DEF Sound, TypeOK, inputs, runs, queue
<1> QED
    BY <1>1, <1>3 DEF Sound, UnitSound, PassSound, StopSound, Holds, inputs, runs, queue

\* A create.
LEMMA ApplyCreateSound == ASSUME Sound, Commit, ApplyCreate(unit) PROVE Sound'
<1>1. /\ unit' = None /\ unit.run \in Runs /\ unit.on \in Runs \cup {None}
      /\ UNCHANGED <<standing, shown, pass, faults, source, inputs, accepted, gates, queue>>
    BY CommitIs DEF ApplyCreate, Due
<1>2. /\ status' \in [Runs -> {"NEW", "RUNNING", "COMPLETE", "BLOCKED", "CANCELLED"}]
      /\ supersedes' \in [Runs -> Runs \cup {None}]
    BY <1>1 DEF ApplyCreate, Sound, TypeOK
<1>3. TypeOK'
    BY <1>1, <1>2 DEF Sound, TypeOK, inputs, queue
<1> QED
    BY <1>1, <1>3 DEF Sound, UnitSound, PassSound, StopSound, Holds, inputs, queue

\* The last of a sequence taken again, or one appended.
LEMMA LastOrNext ==
    ASSUME NEW S, NEW seq \in Seq(S), NEW e \in S, NEW t,
           t = IF seq # <<>> /\ seq[Len(seq)] = e THEN seq ELSE Append(seq, e)
    PROVE  /\ t \in Seq(S) /\ Len(t) \in Nat \ {0} /\ Len(t) >= Len(seq) /\ t[Len(t)] = e
           /\ \A v \in 1..Len(seq) : t[v] = seq[v]
<1>1. CASE seq # <<>> /\ seq[Len(seq)] = e
    BY <1>1
<1>2. CASE ~(seq # <<>> /\ seq[Len(seq)] = e)
    <2>1. t = Append(seq, e)
        BY <1>2
    <2> QED
        BY <2>1
<1> QED
    BY <1>1, <1>2

\* A snapshot ends in the live set, and keeps every version before.
LEMMA SnapshotIs ==
    ASSUME TypeOK, Live # {}
    PROVE  /\ Snapshot \in Seq((SUBSET Sources) \ {{}})
           /\ Len(Snapshot) \in Nat \ {0} /\ Len(Snapshot) >= Len(sets)
           /\ Snapshot[Len(Snapshot)] = Live
           /\ \A v \in 1..Len(sets) : Snapshot[v] = sets[v]
<1>1. sets \in Seq((SUBSET Sources) \ {{}})
    BY DEF TypeOK
<1>2. Live \subseteq Sources
    BY DEF Live
<1>3. Snapshot = IF sets # <<>> /\ sets[Len(sets)] = Live THEN sets ELSE Append(sets, Live)
    BY DEF Snapshot
<1> QED
    <2>1. PICK S : S = (SUBSET Sources) \ {{}}
        OBVIOUS
    <2>2. sets \in Seq(S) /\ Live \in S
        <3>1. sets \in Seq(S)
            BY <1>1, <2>1
        <3>2. Live \in (SUBSET Sources) \ {{}}
            <4> DEFINE L == Live
            <4>1. L \subseteq Sources /\ L # {}
                BY <1>2
            <4> HIDE DEF L
            <4>2. L \in (SUBSET Sources) \ {{}}
                BY <4>1
            <4> QED
                BY <4>2 DEF L
        <3> QED
            BY <2>1, <3>1, <3>2
    <2>3. /\ Snapshot \in Seq(S) /\ Len(Snapshot) \in Nat \ {0} /\ Len(Snapshot) >= Len(sets)
          /\ Snapshot[Len(Snapshot)] = Live /\ \A v \in 1..Len(sets) : Snapshot[v] = sets[v]
        BY <1>3, <2>2, LastOrNext
    <2> QED
        BY <2>1, <2>3

\* A pin.
LEMMA ApplyPinSound == ASSUME Sound, Commit, ApplyPin(unit) PROVE Sound'
<1>1. /\ unit' = None /\ unit.run \in Runs /\ unit.on \in Builds /\ Live # {} /\ pin[unit.run] = None
      /\ sets' = Snapshot /\ pin' = [pin EXCEPT ![unit.run] = [version |-> Len(Snapshot), build |-> unit.on]]
      /\ UNCHANGED <<standing, shown, pass, faults, source, runs, gates, queue>>
    BY CommitIs DEF ApplyPin, Due
<1>2. sets' \in Seq((SUBSET Sources) \ {{}}) /\ Len(sets') \in Nat \ {0} /\ Len(sets') >= Len(sets)
    BY <1>1, SnapshotIs DEF Sound
<1>3. Len(sets) \in Nat
    BY DEF Sound, TypeOK
<1>4. pin' \in [Runs -> Pins \cup {None}]
    BY <1>1, <1>2 DEF Sound, TypeOK, Pins
<1>5. \A r \in Runs : pin'[r] # None => pin'[r].version <= Len(sets')
    BY <1>1, <1>2, <1>3 DEF Sound, TypeOK, Pins
<1>6. TypeOK'
    BY <1>1, <1>2, <1>4, <1>5 DEF Sound, TypeOK, runs, queue
<1>7. PassSound'
    BY <1>1, <1>4 DEF Sound, TypeOK, PassSound, Holds, runs, queue
<1> QED
    BY <1>1, <1>6, <1>7 DEF Sound, UnitSound, StopSound, queue

\* A release.
LEMMA ApplyApproveSound == ASSUME Sound, Commit, ApplyApprove(unit) PROVE Sound'
<1>1. /\ unit' = None /\ unit.run \in Runs /\ unit.by \in Users /\ pin[unit.run] # None
      /\ unit.on[1] \in Gate /\ unit.on[2] = Preview(unit.run, unit.on[1])
      /\ gates' = [gates EXCEPT ![unit.run][unit.on[1]] = [preview |-> unit.on[2], by |-> unit.by]]
      /\ UNCHANGED <<standing, shown, pass, faults, source, inputs, runs, queue>>
    BY CommitIs DEF ApplyApprove, Due
<1>2. [preview |-> unit.on[2], by |-> unit.by] \in [preview : Previews, by : Users]
    BY <1>1 DEF Preview, Previews, Sound, TypeOK
<1>3. gates' \in [Runs -> [Gate -> [preview : Previews, by : Users] \cup {None}]]
    BY <1>1, <1>2 DEF Sound, TypeOK
<1>4. TypeOK'
    BY <1>1, <1>3 DEF Sound, TypeOK, inputs, runs, queue
<1> QED
    BY <1>1, <1>4 DEF Sound, UnitSound, PassSound, StopSound, Holds, inputs, runs, queue

\* A start or a requeue.
LEMMA ApplyQueueSound == ASSUME Sound, Commit, ApplyQueue(unit) PROVE Sound'
<1>1. /\ unit' = None /\ unit.run \in Runs /\ unit.by \in Users
      /\ work' = [work EXCEPT ![unit.run] = "QUEUED"] /\ place' = [place EXCEPT ![unit.run] = unit.by]
      /\ stop' = [stop EXCEPT ![unit.run] = "NONE"]
      /\ UNCHANGED <<standing, shown, pass, faults, source, inputs, runs, gates, cancel, holder, lapsed>>
    BY CommitIs DEF ApplyQueue, Due
<1>2. /\ work' \in [Runs -> {"NONE", "QUEUED", "CLAIMED", "STOPPED", "DONE"}]
      /\ place' \in [Runs -> Users \cup {None}]
      /\ stop' \in [Runs -> {"NONE", "OTHER", "OVER"}]
      /\ StopSound'
      /\ \A r \in Runs : work'[r] = "CLAIMED" => work[r] = "CLAIMED"
    BY <1>1 DEF Sound, TypeOK, StopSound
<1>3. TypeOK'
    BY <1>1, <1>2 DEF Sound, TypeOK, inputs, runs
<1>4. PassSound'
    BY <1>1, <1>2 DEF Sound, PassSound, Holds, inputs, runs
<1> QED
    BY <1>1, <1>2, <1>3, <1>4 DEF Sound, UnitSound

\* A cancel.
LEMMA ApplyCancelSound == ASSUME Sound, Commit, ApplyCancel(unit) PROVE Sound'
<1>1. /\ unit' = None /\ unit.run \in Runs
      /\ cancel' = [cancel EXCEPT ![unit.run] = TRUE]
      /\ UNCHANGED <<standing, shown, pass, faults, source, inputs, supersedes, accepted, gates, place, holder, lapsed>>
      /\ \/ UNCHANGED <<status, work, stop>>
         \/ /\ status' = [status EXCEPT ![unit.run] = "CANCELLED"]
            /\ work' = [work EXCEPT ![unit.run] = "DONE"]
            /\ stop' = [stop EXCEPT ![unit.run] = "NONE"]
    BY CommitIs DEF ApplyCancel, Due
<1>2. cancel' \in [Runs -> BOOLEAN]
    BY <1>1, Zenon DEF Sound, TypeOK
<1>3. /\ status' \in [Runs -> {"NEW", "RUNNING", "COMPLETE", "BLOCKED", "CANCELLED"}]
      /\ work' \in [Runs -> {"NONE", "QUEUED", "CLAIMED", "STOPPED", "DONE"}]
      /\ stop' \in [Runs -> {"NONE", "OTHER", "OVER"}]
      /\ StopSound'
      /\ \A r \in Runs : work'[r] = "CLAIMED" => work[r] = "CLAIMED"
    <2>1. CASE UNCHANGED <<status, work, stop>>
        BY <2>1 DEF Sound, TypeOK, StopSound
    <2>2. CASE /\ status' = [status EXCEPT ![unit.run] = "CANCELLED"]
               /\ work' = [work EXCEPT ![unit.run] = "DONE"]
               /\ stop' = [stop EXCEPT ![unit.run] = "NONE"]
        BY <1>1, <2>2 DEF Sound, TypeOK, StopSound
    <2> QED
        BY <1>1, <2>1, <2>2
<1>4. TypeOK'
    BY <1>1, <1>2, <1>3 DEF Sound, TypeOK, inputs
<1>5. PassSound'
    BY <1>1, <1>3 DEF Sound, PassSound, Holds, inputs
<1> QED
    BY <1>1, <1>3, <1>4, <1>5 DEF Sound, UnitSound

\* Any of them.
LEMMA CommitSound == ASSUME Sound, Commit PROVE Sound'
<1>1. \/ ApplySource(unit) \/ ApplyCreate(unit) \/ ApplyPin(unit)
      \/ ApplyApprove(unit) \/ ApplyQueue(unit) \/ ApplyCancel(unit)
    BY DEF Commit, Apply
<1> QED
    BY <1>1, ApplySourceSound, ApplyCreateSound, ApplyPinSound, ApplyApproveSound, ApplyQueueSound, ApplyCancelSound

\* What a pass's unit commits was decided, and its worker holds the run still.
LEMMA CommitPassIs ==
    ASSUME Sound, CommitPass
    PROVE  /\ unit # None /\ unit' = None /\ unit.run \in Runs /\ unit.by \in Workers
           /\ pass[unit.by].run = unit.run /\ Holds(unit.by) /\ status[unit.run] = "RUNNING"
           /\ UNCHANGED <<standing, source, inputs, supersedes, gates, place, cancel, holder, lapsed, shown, faults>>
           /\ \/ /\ unit.do = "ACCEPT" /\ AuthorityCode(unit.run) = "OK" /\ pass[unit.by].step = "accept"
                 /\ accepted' = [accepted EXCEPT ![unit.run] = @ + 1]
                 /\ pass' = [pass EXCEPT ![unit.by].step = "read"]
                 /\ UNCHANGED <<status, work, stop>>
              \/ /\ unit.do = "COMPLETE" /\ AuthorityCode(unit.run) = "OK" /\ pass[unit.by].step = "end"
                 /\ End(unit.run, "COMPLETE")
                 /\ pass' = [pass EXCEPT ![unit.by] = Idle] /\ UNCHANGED accepted
              \/ /\ unit.do = "BLOCK" /\ pass[unit.by].step = "accept" /\ End(unit.run, "BLOCKED")
                 /\ pass' = [pass EXCEPT ![unit.by] = Idle] /\ UNCHANGED accepted
    BY DEF Sound, UnitSound, Due, CommitPass

\* An accept leaves fewer nodes; an end leaves nobody holding the run.
LEMMA CommitPassSound == ASSUME Sound, CommitPass PROVE Sound'
<1> DEFINE r == unit.run
           w == unit.by
<1>1. /\ unit # None /\ unit' = None /\ r \in Runs /\ w \in Workers /\ pass[w].run = r /\ Holds(w)
      /\ pass[w].step \in {"accept", "end"}
      /\ UNCHANGED <<standing, source, inputs, supersedes, gates, place, cancel, holder, lapsed, shown, faults>>
    BY CommitPassIs
<1>2. CASE /\ unit.do = "ACCEPT" /\ pass[w].step = "accept"
           /\ accepted' = [accepted EXCEPT ![r] = @ + 1]
           /\ pass' = [pass EXCEPT ![w].step = "read"]
           /\ UNCHANGED <<status, work, stop>>
    <2>1. accepted[r] # Nodes /\ accepted[r] \in 0..Nodes
        BY <1>1, <1>2 DEF Sound, TypeOK, PassSound
    <2>2. accepted' \in [Runs -> 0..Nodes] /\ \A x \in Runs : x # r => accepted'[x] = accepted[x]
        <3>1. accepted \in [Runs -> 0..Nodes]
            BY DEF Sound, TypeOK
        <3> QED
            BY <1>1, <1>2, <2>1, <3>1, SizesAre
    <2>3. /\ pass' \in [Workers -> [run : Runs \cup {None}, step : {"idle", "read", "call", "accept", "end", "park"}]]
          /\ pass'[w].step = "read" /\ pass'[w].run = r /\ \A v \in Workers : v # w => pass'[v] = pass[v]
        BY <1>1, <1>2 DEF Sound, TypeOK
    <2>4. TypeOK'
        BY <1>1, <1>2, <2>2, <2>3 DEF Sound, TypeOK, inputs
    <2>5. ASSUME NEW v \in Workers, v # w, pass[v].run \in Runs, Holds(v)' PROVE Holds(v) /\ pass[v].run # r
        BY <1>1, <1>2, <2>3, <2>5 DEF Holds
    <2>6. ASSUME NEW v \in Workers, v # w
          PROVE  /\ pass'[v].step # "idle" => pass'[v].run \in Runs
                 /\ pass'[v].step \in {"call", "accept", "end"} =>
                      /\ pin'[pass'[v].run] # None /\ pin'[pass'[v].run].build = BuildOf[v]
                      /\ Holds(v)' => (accepted'[pass'[v].run] = Nodes <=> pass'[v].step = "end")
        BY <1>1, <2>2, <2>3, <2>5, <2>6 DEF Sound, PassSound, inputs
    <2>7. PassSound'
        BY <1>1, <2>3, <2>6 DEF PassSound
    <2> QED
        BY <1>1, <1>2, <2>4, <2>7 DEF Sound, UnitSound, StopSound
<1>3. ASSUME NEW into \in {"COMPLETE", "BLOCKED"}, End(r, into), pass' = [pass EXCEPT ![w] = Idle], UNCHANGED accepted
      PROVE  Sound'
    <2>1. /\ status' \in [Runs -> {"NEW", "RUNNING", "COMPLETE", "BLOCKED", "CANCELLED"}]
          /\ work' \in [Runs -> {"NONE", "QUEUED", "CLAIMED", "STOPPED", "DONE"}]
          /\ stop' \in [Runs -> {"NONE", "OTHER", "OVER"}]
          /\ \A x \in Runs : work'[x] = "CLAIMED" => work[x] = "CLAIMED"
          /\ StopSound'
        BY <1>1, <1>3, EndIs DEF Sound
    <2>2. PassTo(w) /\ pass[w].step # "idle"
        BY <1>1, <1>3 DEF PassTo
    <2>3. PassSound'
        BY <1>1, <1>3, <2>1, <2>2, PassStays DEF inputs
    <2>4. TypeOK'
        BY <1>1, <1>3, <2>1, <2>2, PassTyped DEF Sound, TypeOK, inputs
    <2> QED
        BY <1>1, <2>1, <2>3, <2>4 DEF Sound, UnitSound
<1> QED
    BY <1>2, <1>3, CommitPassIs

\* At first.
LEMMA InitSound == Init => Sound
<1> SUFFICES ASSUME Init PROVE Sound
    OBVIOUS
<1>1. standing \in [Users -> DOMAIN Rank] /\ faults \in 0..MaxFaults /\ accepted \in [Runs -> 0..Nodes]
    BY SizesAre DEF Init
<1>2. cancel \in [Runs -> BOOLEAN] /\ lapsed \in [Runs -> BOOLEAN]
    BY Zenon DEF Init
<1>3. TypeOK
    BY <1>1, <1>2 DEF Init, TypeOK, Idle
<1> QED
    BY <1>3 DEF Sound, Init, UnitSound, PassSound, StopSound, Idle

\* At every step.
LEMMA NextSound == ASSUME Sound, [Next]_vars PROVE Sound'
<1>1. CASE UNCHANGED vars
    <2>1. TypeOK'
        BY <1>1 DEF Sound, TypeOK, vars, inputs, runs, queue
    <2>2. UnitSound'
        BY <1>1, UnitStays DEF Fixed, vars, inputs, runs, queue, Holds, Sound, UnitSound, Due
    <2> QED
        BY <1>1, <2>1, <2>2 DEF Sound, PassSound, StopSound, Holds, vars, inputs, runs, queue
<1>2. CASE \E u \in Users : Ask(u) \/ Show(u) \/ SetStanding(u)
    BY <1>2, AskSound, ShowSound, StandingSound
<1>3. CASE Commit \/ CommitPass \/ Abort
    BY <1>3, CommitSound, CommitPassSound, AbortSound
<1>4. CASE \E w \in Workers : Claim(w) \/ Drive(w) \/ Block(w) \/ Overspend(w) \/ Fault(w)
    BY <1>4, ClaimSound, ReadSound, CallSound, AcceptSound, CompleteSound, ParkSound, BlockSound,
       OverspendSound, FaultSound DEF Drive
<1>5. CASE \E r \in Runs : Lapse(r)
    BY <1>5, LapseSound
<1> QED
    BY <1>1, <1>2, <1>3, <1>4, <1>5 DEF Next

\* So always.
LEMMA Soundness == Spec => []Sound
    BY InitSound, NextSound, PTL DEF Spec

\* Every row of the case, every pass and every unit keeps its type, and no more nodes are
\* accepted than the route has (accept_attempt, under the fence).
THEOREM TypeCorrect == Spec => []TypeOK
<1>1. Sound => TypeOK
    BY DEF Sound
<1> QED
    BY <1>1, Soundness, PTL

-----------------------------------------------------------------------------
(* The line of successors, the pins and the releases.                      *)

\* Which steps write the runs, the pins and the releases.
LEMMA WhoWrites ==
    ASSUME [Next]_vars
    PROVE  \/ UNCHANGED <<inputs, gates, runs>>
           \/ Commit /\ Apply(unit)
           \/ CommitPass
           \/ \E w \in Workers : Park(w)
<1>1. CASE UNCHANGED vars
    BY <1>1 DEF vars
<1>2. CASE \E u \in Users : Ask(u) \/ Show(u) \/ SetStanding(u)
    BY <1>2 DEF Ask, Show, SetStanding
<1>3. CASE Commit \/ CommitPass \/ Abort
    BY <1>3 DEF Commit, Abort
<1>4. ASSUME NEW w \in Workers, Claim(w) \/ Drive(w) \/ Block(w) \/ Overspend(w) \/ Fault(w), ~Park(w)
      PROVE UNCHANGED <<inputs, gates, runs>>
    <2>1. CASE Claim(w) \/ Block(w) \/ Overspend(w) \/ Fault(w)
        BY <2>1 DEF Claim, Block, Overspend, Fault
    <2>2. CASE Drive(w)
        BY <1>4, <2>2 DEF Drive, Read, Call, Accept, Complete
    <2> QED
        BY <1>4, <2>1, <2>2
<1>5. CASE \E r \in Runs : Lapse(r)
    BY <1>5 DEF Lapse
<1> QED
    BY <1>1, <1>2, <1>3, <1>4, <1>5, Zenon DEF Next

\* What may become of a run's status: a blocked run stays so.
LEMMA StatusMoves ==
    ASSUME Sound, [Next]_vars
    PROVE  \A r \in Runs :
             \/ status'[r] = status[r]
             \/ status[r] = "NEW" /\ status'[r] = "RUNNING"
             \/ status[r] = "RUNNING"
<1>1. CASE UNCHANGED <<inputs, gates, runs>>
    BY <1>1 DEF runs
<1>2. CASE Commit /\ Apply(unit)
    <2>1. Due(unit) /\ status \in [Runs -> {"NEW", "RUNNING", "COMPLETE", "BLOCKED", "CANCELLED"}]
        BY <1>2, CommitIs DEF Sound, TypeOK
    <2>2. CASE ApplySource(unit) \/ ApplyPin(unit) \/ ApplyApprove(unit) \/ ApplyQueue(unit)
        BY <2>2 DEF ApplySource, ApplyPin, ApplyApprove, ApplyQueue, runs
    <2>3. CASE ApplyCreate(unit)
        BY <2>1, <2>3 DEF Due, ApplyCreate
    <2>4. CASE ApplyCancel(unit)
        BY <2>1, <2>4 DEF Due, ApplyCancel
    <2> QED
        BY <1>2, <2>2, <2>3, <2>4 DEF Apply
<1>3. CASE CommitPass
    BY <1>3, CommitPassIs DEF Sound, TypeOK, End
<1>4. ASSUME NEW w \in Workers, Park(w)
      PROVE \A r \in Runs : status'[r] = status[r] \/ status[r] = "RUNNING"
    BY <1>4 DEF Sound, TypeOK, Park, End
<1> QED
    BY <1>1, <1>2, <1>3, <1>4, WhoWrites

\* Only a create names the run it answers.
LEMMA SupersedesMove ==
    ASSUME Sound, [Next]_vars
    PROVE  UNCHANGED supersedes \/ (Commit /\ ApplyCreate(unit))
<1>1. CASE UNCHANGED <<inputs, gates, runs>>
    BY <1>1 DEF runs
<1>2. CASE Commit /\ Apply(unit)
    BY <1>2 DEF Apply, ApplySource, ApplyPin, ApplyApprove, ApplyQueue, ApplyCancel, runs
<1>3. CASE CommitPass
    BY <1>3 DEF CommitPass
<1>4. ASSUME NEW w \in Workers, Park(w) PROVE UNCHANGED supersedes
    BY <1>4 DEF Park
<1> QED
    BY <1>1, <1>2, <1>3, <1>4, WhoWrites

\* It names a blocked one nobody answered.
LEMMA LineKept ==
    ASSUME Sound, SuccessorsInLine, [Next]_vars
    PROVE  SuccessorsInLine'
<1>1. \A r \in Runs : status[r] = "BLOCKED" => status'[r] = "BLOCKED"
    BY StatusMoves
<1>2. supersedes \in [Runs -> Runs \cup {None}]
    BY DEF Sound, TypeOK
<1>3. CASE UNCHANGED supersedes
    BY <1>1, <1>2, <1>3, NoneIsNothing DEF SuccessorsInLine, Successors
<1>4. CASE Commit /\ ApplyCreate(unit)
    <2>1. /\ unit.run \in Runs /\ unit.on \in Runs \cup {None} /\ status[unit.run] = "NEW"
          /\ unit.on # None => status[unit.on] = "BLOCKED" /\ Successors(unit.on) = {}
          /\ supersedes' = [supersedes EXCEPT ![unit.run] = unit.on]
        BY <1>4, CommitIs DEF Due, ApplyCreate
    <2>2. ASSUME NEW r \in Runs, supersedes'[r] # None
          PROVE  /\ status'[supersedes'[r]] = "BLOCKED"
                 /\ {x \in Runs : supersedes'[x] = supersedes'[r]} = {r}
                 /\ supersedes'[r] # r
        <3>1. CASE r = unit.run
            <4>1. supersedes'[r] = unit.on /\ unit.on \in Runs /\ unit.on # None
                BY <1>2, <2>1, <2>2, <3>1
            <4>2. {x \in Runs : supersedes'[x] = unit.on} = {r}
                BY <1>2, <2>1, <3>1, <4>1 DEF Successors
            <4> QED
                BY <1>1, <2>1, <3>1, <4>1, <4>2
        <3>2. CASE r # unit.run
            <4>1. supersedes'[r] = supersedes[r] /\ supersedes[r] \in Runs
                BY <1>2, <2>1, <2>2, <3>2
            <4>2. status[supersedes[r]] = "BLOCKED" /\ Successors(supersedes[r]) = {r} /\ supersedes[r] # r
                BY <4>1, <2>2 DEF SuccessorsInLine
            <4>3. unit.on # supersedes[r]
                BY <2>1, <4>1, <4>2, NoneIsNothing
            <4>4. {x \in Runs : supersedes'[x] = supersedes[r]} = {r}
                BY <1>2, <2>1, <3>2, <4>1, <4>2, <4>3 DEF Successors
            <4> QED
                BY <1>1, <4>1, <4>2, <4>4
        <3> QED
            BY <3>1, <3>2
    <2> QED
        BY <2>2 DEF SuccessorsInLine, Successors
<1> QED
    BY <1>3, <1>4, SupersedesMove

\* Section 72 (_require_answerable, runs_one_successor): however creates, aborts and ends
\* interleave, the successors of a case are lines, each answering a run BLOCKED for good.
THEOREM SuccessorsInLineHolds == Spec => []SuccessorsInLine
<1>1. Init => SuccessorsInLine
    BY DEF Init, SuccessorsInLine
<1> QED
    BY <1>1, Soundness, LineKept, PTL DEF Spec

\* Only a pin moves the pins and the set versions.
LEMMA PinsMove ==
    ASSUME Sound, [Next]_vars
    PROVE  UNCHANGED inputs \/ (Commit /\ ApplyPin(unit))
<1>1. CASE UNCHANGED <<inputs, gates, runs>>
    BY <1>1
<1>2. CASE Commit /\ Apply(unit)
    BY <1>2 DEF Apply, ApplySource, ApplyCreate, ApplyApprove, ApplyQueue, ApplyCancel
<1>3. CASE CommitPass
    BY <1>3 DEF CommitPass
<1>4. ASSUME NEW w \in Workers, Park(w) PROVE UNCHANGED inputs
    BY <1>4 DEF Park
<1> QED
    BY <1>1, <1>2, <1>3, <1>4, WhoWrites

\* It adds to both.
LEMMA PinningIs ==
    ASSUME Sound, Commit, ApplyPin(unit)
    PROVE  /\ unit.run \in Runs /\ pin[unit.run] = None
           /\ \A r \in Runs : r # unit.run => pin'[r] = pin[r]
           /\ pin'[unit.run] # None => sets'[pin'[unit.run].version] = Live
           /\ \A v \in 1..Len(sets) : sets'[v] = sets[v]
           /\ UNCHANGED gates
<1>1. /\ unit.run \in Runs /\ Live # {} /\ pin[unit.run] = None
      /\ sets' = Snapshot /\ pin' = [pin EXCEPT ![unit.run] = [version |-> Len(Snapshot), build |-> unit.on]]
      /\ UNCHANGED gates
    BY CommitIs DEF ApplyPin, Due
<1>2. Snapshot[Len(Snapshot)] = Live /\ \A v \in 1..Len(sets) : Snapshot[v] = sets[v]
    BY <1>1, SnapshotIs DEF Sound
<1>3. pin'[unit.run].version = Len(Snapshot) /\ \A r \in Runs : r # unit.run => pin'[r] = pin[r]
    BY <1>1 DEF Sound, TypeOK
<1> QED
    BY <1>1, <1>2, <1>3

\* snapshot_in, pin_run_input_in: the set a version names never changes, nor does the
\* version a run names, and it names the sources live when it was pinned.
THEOREM PinStandsHolds == Spec => PinStands
<1>1. ASSUME Sound, [Next]_vars
      PROVE  /\ \A v \in 1..Len(sets) : sets'[v] = sets[v]
             /\ \A r \in Runs :
                  IF pin[r] # None THEN pin'[r] = pin[r]
                  ELSE pin'[r] # None => sets'[pin'[r].version] = Live
    <2>1. CASE UNCHANGED inputs
        BY <2>1 DEF inputs
    <2>2. CASE Commit /\ ApplyPin(unit)
        BY <1>1, <2>2, PinningIs
    <2> QED
        BY <1>1, <2>1, <2>2, PinsMove
<1> QED
    BY <1>1, Soundness, PTL DEF Spec, PinStands

\* A release is written over the preview of its own run and gate.
LEMMA ReleaseKept ==
    ASSUME Sound, ReleasedAsShown, [Next]_vars
    PROVE  ReleasedAsShown'
<1>1. \A r \in Runs : pin[r] # None => pin'[r] = pin[r]
    BY PinsMove, PinningIs DEF inputs
<1>2. UNCHANGED gates \/ (Commit /\ ApplyApprove(unit))
    <2>1. CASE UNCHANGED <<inputs, gates, runs>>
        BY <2>1
    <2>2. CASE Commit /\ Apply(unit)
        BY <2>2 DEF Apply, ApplySource, ApplyCreate, ApplyPin, ApplyQueue, ApplyCancel
    <2>3. CASE CommitPass
        BY <2>3 DEF CommitPass
    <2>4. ASSUME NEW w \in Workers, Park(w) PROVE UNCHANGED gates
        BY <2>4 DEF Park
    <2> QED
        BY <2>1, <2>2, <2>3, <2>4, WhoWrites
<1>3. CASE UNCHANGED gates
    BY <1>1, <1>3 DEF ReleasedAsShown
<1>4. CASE Commit /\ ApplyApprove(unit)
    <2>1. /\ unit.run \in Runs /\ pin[unit.run] # None /\ unit.on[1] \in Gate
          /\ unit.on[2] = [run |-> unit.run, gate |-> unit.on[1], pin |-> pin[unit.run]]
          /\ gates' = [gates EXCEPT ![unit.run][unit.on[1]] = [preview |-> unit.on[2], by |-> unit.by]]
        BY <1>4, CommitIs DEF ApplyApprove, Due, Preview
    <2>2. ASSUME NEW r \in Runs, NEW g \in Gate
          PROVE  gates'[r][g] = IF r = unit.run /\ g = unit.on[1] THEN [preview |-> unit.on[2], by |-> unit.by]
                                ELSE gates[r][g]
        BY <2>1 DEF Sound, TypeOK
    <2>3. ASSUME NEW r \in Runs, NEW g \in Gate, gates'[r][g] # None
          PROVE  pin'[r] # None /\ gates'[r][g].preview = [run |-> r, gate |-> g, pin |-> pin'[r]]
        <3>1. CASE r = unit.run /\ g = unit.on[1]
            BY <1>1, <2>1, <2>2, <3>1
        <3>2. CASE ~(r = unit.run /\ g = unit.on[1])
            <4>1. gates'[r][g] = gates[r][g]
                BY <2>2, <3>2
            <4> QED
                BY <1>1, <2>3, <4>1 DEF ReleasedAsShown
        <3> QED
            BY <3>1, <3>2
    <2> QED
        BY <2>3 DEF ReleasedAsShown
<1> QED
    BY <1>2, <1>3, <1>4

\* release_gate_in: a release is of its run, its gate and the whole pin the run executes
\* on, whatever previews the approver was shown before.
THEOREM ReleasedAsShownHolds == Spec => []ReleasedAsShown
<1>1. Init => ReleasedAsShown
    BY DEF Init, ReleasedAsShown
<1> QED
    BY <1>1, Soundness, ReleaseKept, PTL DEF Spec

-----------------------------------------------------------------------------
(* What a conclusion rests on, and what it reads.                          *)

\* What the authority asks is what a conclusion is to rest on.
LEMMA AuthorityHolds ==
    ASSUME TypeOK, NEW r \in Runs, AuthorityCode(r) = "OK"
    PROVE  /\ pin[r] # None /\ \A s \in sets[pin[r].version] : source[s] = "LIVE"
           /\ \A g \in Gate : standing[gates[r][g].by] = "APPROVER"
<1>1. pin[r] # None /\ SourcesLive(r) /\ \A g \in Gate : Approved(r, g)
    BY AuthorityOK DEF AuthorityMeans
<1>2. \A s \in sets[pin[r].version] : source[s] = "LIVE"
    BY <1>1 DEF SourcesLive, Members, Live
<1>3. ASSUME NEW g \in Gate PROVE standing[gates[r][g].by] = "APPROVER"
    <2>1. gates[r][g] # None /\ Rank[standing[gates[r][g].by]] >= Rank["APPROVER"]
        BY <1>1 DEF Approved, Satisfies
    <2>2. gates[r][g].by \in Users
        BY <2>1 DEF TypeOK
    <2>3. standing[gates[r][g].by] \in {"NONE", "WRITER", "APPROVER"}
        BY <2>2 DEF TypeOK, Rank
    <2> QED
        BY <2>1, <2>3 DEF Rank
<1> QED
    BY <1>1, <1>2, <1>3

\* Only a pass's commit accepts a node or completes a run.
LEMMA OnlyThePassConcludes ==
    ASSUME Sound, [Next]_vars, NEW r \in Runs,
           accepted'[r] # accepted[r] \/ (status'[r] = "COMPLETE" /\ status[r] # "COMPLETE")
    PROVE  CommitPass /\ r = unit.run /\ unit.do \in {"ACCEPT", "COMPLETE"} /\ (status'[r] = "COMPLETE" => unit.do = "COMPLETE")
<1>0. status \in [Runs -> {"NEW", "RUNNING", "COMPLETE", "BLOCKED", "CANCELLED"}] /\ accepted \in [Runs -> 0..Nodes]
    BY DEF Sound, TypeOK
<1>1. CASE UNCHANGED <<inputs, gates, runs>>
    BY <1>1 DEF runs
<1>2. CASE Commit /\ Apply(unit)
    <2>1. UNCHANGED accepted
        BY <1>2 DEF Apply, ApplySource, ApplyCreate, ApplyPin, ApplyApprove, ApplyQueue, ApplyCancel, runs
    <2>2. status'[r] # "COMPLETE" \/ status'[r] = status[r]
        BY <1>0, <1>2 DEF Apply, ApplySource, ApplyCreate, ApplyPin, ApplyApprove, ApplyQueue, ApplyCancel, runs
    <2> QED
        BY <2>1, <2>2
<1>3. CASE CommitPass
    <2>1. CASE unit.do = "ACCEPT"
        BY <1>0, <1>3, <2>1, CommitPassIs
    <2>2. CASE unit.do = "COMPLETE"
        BY <1>0, <1>3, <2>2, CommitPassIs DEF End
    <2>3. CASE unit.do = "BLOCK"
        BY <1>0, <1>3, <2>3, CommitPassIs DEF End
    <2> QED
        BY <1>3, <2>1, <2>2, <2>3 DEF CommitPass
<1>4. ASSUME NEW w \in Workers, Park(w) PROVE FALSE
    BY <1>0, <1>4 DEF Park, End
<1> QED
    BY <1>1, <1>2, <1>3, <1>4, WhoWrites

\* Invariant 1, trace T8: whatever is withdrawn, revoked, claimed or deployed since a pass
\* began, a node is accepted and a run completed only under the authority of that moment.
THEOREM ConcludedHolds == Spec => ConcludedUnderAuthority
<1>1. ASSUME Sound, [Next]_vars, NEW r \in Runs,
             accepted'[r] # accepted[r] \/ (status'[r] = "COMPLETE" /\ status[r] # "COMPLETE")
      PROVE  /\ \A s \in sets[pin[r].version] : source[s] = "LIVE" /\ source'[s] = "LIVE"
             /\ \A g \in Gate : standing[gates[r][g].by] = "APPROVER"
             /\ BuildOf[holder[r]] = pin[r].build
             /\ status'[r] = "COMPLETE" => accepted[r] = Nodes
    <2>1. CommitPass /\ r = unit.run /\ unit.do \in {"ACCEPT", "COMPLETE"} /\ (status'[r] = "COMPLETE" => unit.do = "COMPLETE")
        BY <1>1, OnlyThePassConcludes
    <2>2. /\ unit.by \in Workers /\ pass[unit.by].run = r /\ Holds(unit.by) /\ AuthorityCode(r) = "OK" /\ source' = source
          /\ pass[unit.by].step = IF unit.do = "COMPLETE" THEN "end" ELSE "accept"
        BY <1>1, <2>1, CommitPassIs
    <2>3. holder[r] = unit.by /\ pin[r].build = BuildOf[unit.by] /\ (unit.do = "COMPLETE" => accepted[r] = Nodes)
        BY <1>1, <2>1, <2>2 DEF Sound, PassSound, Holds
    <2> QED
        BY <1>1, <2>1, <2>2, <2>3, AuthorityHolds DEF Sound
<1>2. ASSUME Sound, [Next]_vars
      PROVE  \A r \in Runs :
               accepted'[r] # accepted[r] \/ (status'[r] = "COMPLETE" /\ status[r] # "COMPLETE") =>
                 /\ \A s \in sets[pin[r].version] : source[s] = "LIVE" /\ source'[s] = "LIVE"
                 /\ \A g \in Gate : standing[gates[r][g].by] = "APPROVER"
                 /\ BuildOf[holder[r]] = pin[r].build
                 /\ status'[r] = "COMPLETE" => accepted[r] = Nodes
    BY <1>1, <1>2
<1> QED
    BY <1>2, Soundness, PTL DEF Spec, ConcludedUnderAuthority

\* The sources a pin captured.
LEMMA MembersAre == ASSUME TypeOK, NEW r \in Runs, pin[r] # None PROVE Members(r) \in SUBSET Sources
<1>1. pin[r].version \in Nat \ {0} /\ pin[r].version <= Len(sets)
    BY DEF TypeOK, Pins
<1>2. sets \in Seq((SUBSET Sources) \ {{}})
    BY DEF TypeOK
<1>3. sets[pin[r].version] \in (SUBSET Sources) \ {{}}
    BY <1>1, <1>2
<1> QED
    BY <1>3 DEF Members

\* The three readers split on the same question: is a copy live.
LEMMA OneResolutionIs == TypeOK => OneResolution
<1> SUFFICES ASSUME TypeOK, NEW r \in Runs, pin[r] # None
             PROVE  /\ AuthorityCode(r) = "OK" => Gone(r) = {}
                    /\ \A d \in DOMAIN Serving(r) : Serving(r)[d] \in {None, Cited(r, d)}
                    /\ \A s \in Members(r) : Document[s] \in Gone(r) <=> Cited(r, Document[s]) \notin Live
    BY DEF OneResolution
<1> DEFINE M == Members(r)
           L == Live
<1>1. M \in SUBSET Sources /\ L \in SUBSET Sources
    BY MembersAre DEF Live
<1>2. DOMAIN Serving(r) = {Document[s] : s \in M \cap L}
    BY DEF Serving
<1>3. Gone(r) = {Document[s] : s \in M \ L} \ {Document[s] : s \in M \cap L}
    BY <1>2 DEF Gone
<1>4. ASSUME AuthorityCode(r) = "OK" PROVE Gone(r) = {}
    <2>1. M \subseteq L
        BY <1>4, AuthorityOK DEF AuthorityMeans, SourcesLive
    <2> HIDE DEF M, L
    <2> QED
        BY <1>3, <2>1
<1>5. ASSUME NEW d \in DOMAIN Serving(r) PROVE Serving(r)[d] \in {None, Cited(r, d)}
    <2> DEFINE copies == {s \in M \cap L : Document[s] = d}
               named == {s \in M : Document[s] = d}
    <2>1. named \cap L = copies /\ copies # {}
        <3> HIDE DEF M, L
        <3> QED
            BY <1>2, <1>5
    <2>2. Serving(r)[d] = IF Cardinality({Output[s] : s \in copies}) = 1
                          THEN CHOOSE s \in copies : \A t \in copies : s <= t ELSE None
        BY <1>2, <1>5 DEF Serving, Copies
    <2>3. Cited(r, d) = CHOOSE s \in IF named \cap L # {} THEN named \cap L ELSE named :
                            \A t \in IF named \cap L # {} THEN named \cap L ELSE named : s <= t
        BY DEF Cited
    <2> HIDE DEF named, copies
    <2> QED
        BY <2>1, <2>2, <2>3
<1>6. ASSUME NEW s \in M PROVE Document[s] \in Gone(r) <=> Cited(r, Document[s]) \notin L
    <2> DEFINE named == {x \in M : Document[x] = Document[s]}
               best == IF named \cap L # {} THEN named \cap L ELSE named
    <2>1. named \subseteq M /\ s \in named
        BY <1>6
    <2>2. best # {} /\ best \in SUBSET Nat
        BY <1>1, <2>1, SourcesOrdered
    <2>3. Cited(r, Document[s]) = CHOOSE x \in best : \A t \in best : x <= t
        BY DEF Cited
    <2>4. Cited(r, Document[s]) \in best
        <3> HIDE DEF best
        <3> QED
            BY <2>2, <2>3, Least
    <2>5. Document[s] \in Gone(r) <=> named \cap L = {}
        <3> HIDE DEF M, L
        <3> QED
            BY <1>3, <1>6
    <2> HIDE DEF M, L, named
    <2> QED
        BY <2>4, <2>5
<1> QED
    BY <1>4, <1>5, <1>6

\* approved_run_input, pinned_sources and cited_source_ids agree about every pin, however
\* the sources it captured share documents and outputs, and are withdrawn.
THEOREM OneResolutionHolds == Spec => []OneResolution
    BY TypeCorrect, OneResolutionIs, PTL

-----------------------------------------------------------------------------
(* What is offered is what is answered.                                    *)

\* An offer asks for the standing first too.
LEMMA OfferIs ==
    ASSUME NEW u, NEW floor, NEW checks
    PROVE  Offered(u, floor, checks) = IF ~Satisfies(u, floor) THEN "NOT_AUTHORISED" ELSE FirstRefusal(checks)
    BY DEF Offered, FloorCode

\* A pin.
LEMMA PinOffered ==
    ASSUME NEW u \in Users, NEW r \in Runs, NEW b
    PROVE  Offered(u, "WRITER", PinChecks(r)) = Answer(Request("PIN", u, r, b))
<1> DEFINE q == Request("PIN", u, r, b)
<1>1. q.do = "PIN" /\ q.by = u /\ q.run = r
    BY DEF Request
<1>2. FirstRefusal(PinChecks(r)) = PinCode(q)
    BY <1>1, Zenon DEF PinChecks, PinCode, InputPinned
<1> HIDE DEF q
<1>3. Answer(q) = IF ~Satisfies(u, "WRITER") THEN "NOT_AUTHORISED" ELSE PinCode(q)
    BY <1>1, Answers
<1> QED
    BY <1>2, <1>3, OfferIs DEF q

\* A release, over the preview shown now.
LEMMA ApproveOffered ==
    ASSUME NEW u \in Users, NEW r \in Runs, NEW g \in Gate
    PROVE  Offered(u, "APPROVER", ApproveChecks(r)) = Answer(Request("APPROVE", u, r, <<g, Preview(r, g)>>))
<1> DEFINE q == Request("APPROVE", u, r, <<g, Preview(r, g)>>)
           n == ~InputPinned(r)
           s == status[r] # "RUNNING"
           e == ~EvidenceLive(r)
<1>1. q.do = "APPROVE" /\ q.by = u /\ q.run = r /\ q.on[1] = g /\ q.on[2] = Preview(r, g)
    BY DEF Request
<1>2. FirstRefusal(ApproveChecks(r)) = FirstRefusal(<< <<n, "RUN_INPUT_NOT_PINNED">>, <<s, "RUN_NOT_RUNNING">>, <<e, "EVIDENCE_NOT_AVAILABLE">> >>)
    BY Zenon DEF ApproveChecks
<1>3. n <=> pin[r] = None
    BY DEF InputPinned
<1>4. e <=> (n \/ ~SourcesLive(r))
    BY DEF EvidenceLive
<1> HIDE DEF q
<1>5. Answer(q) = IF ~Satisfies(u, "APPROVER") THEN "NOT_AUTHORISED" ELSE ApproveCode(q)
    BY <1>1, Answers
<1>6. pin[r] = None => ApproveCode(q) = "RUN_INPUT_NOT_PINNED"
    BY <1>1 DEF ApproveCode
<1>7. pin[r] # None => ApproveCode(q) = IF s THEN "RUN_NOT_RUNNING" ELSE IF ~SourcesLive(r) THEN "EVIDENCE_NOT_AVAILABLE" ELSE "OK"
    BY <1>1, ApproveIs
<1> HIDE DEF n, s, e
<1>8. FirstRefusal(ApproveChecks(r))
      = IF n THEN "RUN_INPUT_NOT_PINNED" ELSE IF s THEN "RUN_NOT_RUNNING" ELSE IF e THEN "EVIDENCE_NOT_AVAILABLE" ELSE "OK"
    BY <1>2, Of3, SMTT(60)
<1>9. FirstRefusal(ApproveChecks(r)) = ApproveCode(q)
    BY <1>3, <1>4, <1>6, <1>7, <1>8
<1> QED
    BY <1>5, <1>9, OfferIs DEF q

\* A cancel, of a run nobody drives.
LEMMA CancelOffered ==
    ASSUME NEW u \in Users, NEW r \in Runs, work[r] # "CLAIMED"
    PROVE  Offered(u, "WRITER", CancelChecks(r)) = Answer(Request("CANCEL", u, r, None))
<1> DEFINE q == Request("CANCEL", u, r, None)
           d == status[r] # "RUNNING" \/ work[r] = "DONE"
           c == work[r] = "CLAIMED" /\ cancel[r]
<1>1. q.do = "CANCEL" /\ q.by = u /\ q.run = r
    BY DEF Request
<1>2. FirstRefusal(CancelChecks(r)) = FirstRefusal(<< <<d, "RUN_NOT_RUNNING">>, <<c, "RUN_CANCEL_REQUESTED">> >>)
    BY Zenon DEF CancelChecks
<1>3. ~c /\ ~(Driven(r) /\ cancel[r])
    BY DEF Driven
<1> HIDE DEF q
<1>4. Answer(q) = IF ~Satisfies(u, "WRITER") THEN "NOT_AUTHORISED" ELSE CancelCode(q)
    BY <1>1, Answers
<1>5. CancelCode(q) = IF d THEN "RUN_NOT_RUNNING" ELSE "OK"
    BY <1>1, <1>3, CancelIs
<1> HIDE DEF c, d
<1>6. FirstRefusal(CancelChecks(r)) = IF d THEN "RUN_NOT_RUNNING" ELSE "OK"
    BY <1>2, <1>3, Of2
<1> QED
    BY <1>4, <1>5, <1>6, OfferIs DEF q

\* What a requeue finds of a run's authority, as one chain of checks.
LEMMA StartableIs ==
    ASSUME NEW r, NEW b
    PROVE  StartableCode(r, b)
             = IF pin[r] = None THEN "RUN_INPUT_NOT_PINNED"
               ELSE IF pin[r].build # b THEN "ORCHESTRATION_BUILD_MOVED"
               ELSE IF status[r] # "RUNNING" THEN "RUN_NOT_RUNNING"
               ELSE IF ~SourcesLive(r) THEN "EVIDENCE_NOT_AVAILABLE"
               ELSE IF \E g \in Gate : ~Approved(r, g) THEN "GATE_APPROVAL_MISMATCH" ELSE "OK"
<1>1. CASE pin[r] = None \/ pin[r].build # b
    BY <1>1 DEF StartableCode
<1>2. CASE pin[r] # None /\ pin[r].build = b
    <2>1. StartableCode(r, b) = AuthorityCode(r)
        BY <1>2 DEF StartableCode, ExecutionCode
    <2>2. status[r] # "RUNNING" => AuthorityCode(r) = "RUN_NOT_RUNNING"
        BY DEF AuthorityCode
    <2> QED
        BY <1>2, <2>1, <2>2, AuthorityIs
<1> QED
    BY <1>1, <1>2

\* The checks the console makes before a queue command, next to the command's.
LEMMA QueueLetters ==
    ASSUME NEW r, NEW b
    PROVE  /\ ~InputPinned(r) <=> pin[r] = None
           /\ pin[r] # None => (~ThisBuild(r, b) <=> pin[r].build # b)
           /\ pin[r] # None => (~EvidenceLive(r) <=> ~SourcesLive(r))
           /\ pin[r] # None /\ SourcesLive(r) => (~GatesReleased(r) <=> \E g \in Gate : ~Approved(r, g))
    BY DEF InputPinned, ThisBuild, EvidenceLive, GatesReleased

\* A start.
LEMMA StartOffered ==
    ASSUME NEW u \in Users, NEW r \in Runs, NEW b
    PROVE  Offered(u, "WRITER", StartChecks(u, r, b)) = Answer(Request("START", u, r, b))
<1> DEFINE q == Request("START", u, r, b)
           p1 == ~InputPinned(r)
           p2 == ~ThisBuild(r, b)
           p3 == status[r] # "RUNNING"
           p4 == ~EvidenceLive(r)
           p5 == ~GatesReleased(r)
           p6 == work[r] # "NONE"
           p7 == Full(u)
           a1 == pin[r] = None
           a2 == pin[r].build # b
           a4 == ~SourcesLive(r)
           a5 == \E g \in Gate : ~Approved(r, g)
<1>1. q.do = "START" /\ q.by = u /\ q.run = r /\ q.on = b
    BY DEF Request
<1>2. FirstRefusal(StartChecks(u, r, b))
      = FirstRefusal(<< <<p1, "RUN_INPUT_NOT_PINNED">>, <<p2, "ORCHESTRATION_BUILD_MOVED">>, <<p3, "RUN_NOT_RUNNING">>,
                        <<p4, "EVIDENCE_NOT_AVAILABLE">>, <<p5, "GATE_APPROVAL_MISMATCH">> >>
                     \o << <<p6, "RUN_ALREADY_STARTED">> >> \o << <<p7, "QUEUED_RUNS_LIMIT_REACHED">> >>)
    BY Zenon DEF StartChecks, QueueChecks, FullCheck
<1>3. (p1 <=> a1) /\ (~a1 => (p2 <=> a2)) /\ (~a1 => (p4 <=> a4)) /\ (~a1 /\ ~a4 => (p5 <=> a5))
    BY QueueLetters, Zenon
<1>4. StartableCode(r, b) = IF a1 THEN "RUN_INPUT_NOT_PINNED" ELSE IF a2 THEN "ORCHESTRATION_BUILD_MOVED"
                            ELSE IF p3 THEN "RUN_NOT_RUNNING" ELSE IF a4 THEN "EVIDENCE_NOT_AVAILABLE"
                            ELSE IF a5 THEN "GATE_APPROVAL_MISMATCH" ELSE "OK"
    BY StartableIs
<1> HIDE DEF q
<1>5. Answer(q) = IF ~Satisfies(u, "WRITER") THEN "NOT_AUTHORISED" ELSE StartCode(q)
    BY <1>1, Answers
<1>6. StartableCode(r, b) # "OK" => StartCode(q) = StartableCode(r, b)
    BY <1>1 DEF StartCode
<1>7. StartableCode(r, b) = "OK" => StartCode(q) = IF p6 THEN "RUN_ALREADY_STARTED" ELSE IF p7 THEN "QUEUED_RUNS_LIMIT_REACHED" ELSE "OK"
    BY <1>1, StartIs
<1> HIDE DEF p1, p2, p3, p4, p5, p6, p7, a1, a2, a4, a5
<1>8. FirstRefusal(StartChecks(u, r, b))
      = IF p1 THEN "RUN_INPUT_NOT_PINNED" ELSE IF p2 THEN "ORCHESTRATION_BUILD_MOVED" ELSE IF p3 THEN "RUN_NOT_RUNNING"
        ELSE IF p4 THEN "EVIDENCE_NOT_AVAILABLE" ELSE IF p5 THEN "GATE_APPROVAL_MISMATCH"
        ELSE IF p6 THEN "RUN_ALREADY_STARTED" ELSE IF p7 THEN "QUEUED_RUNS_LIMIT_REACHED" ELSE "OK"
    BY <1>2, Of7, SMTT(60)
<1>9. FirstRefusal(StartChecks(u, r, b)) = StartCode(q)
    BY <1>3, <1>4, <1>6, <1>7, <1>8
<1> QED
    BY <1>5, <1>9, OfferIs DEF q

\* A requeue: the stop is read without the row, which agrees with it.
LEMMA RetryOffered ==
    ASSUME StopSound, NEW u \in Users, NEW r \in Runs, NEW b
    PROVE  Offered(u, "WRITER", RetryChecks(u, r, b)) = Answer(Request("RETRY", u, r, b))
<1> DEFINE q == Request("RETRY", u, r, b)
           p1 == ~InputPinned(r)
           p2 == ~ThisBuild(r, b)
           p3 == status[r] # "RUNNING"
           p4 == ~EvidenceLive(r)
           p5 == ~GatesReleased(r)
           p6 == stop[r] = "OVER"
           p7 == work[r] # "STOPPED" \/ cancel[r]
           p8 == Full(u)
           a1 == pin[r] = None
           a2 == pin[r].build # b
           a4 == ~SourcesLive(r)
           a5 == \E g \in Gate : ~Approved(r, g)
<1>1. q.do = "RETRY" /\ q.by = u /\ q.run = r /\ q.on = b
    BY DEF Request
<1>2. FirstRefusal(RetryChecks(u, r, b))
      = FirstRefusal(<< <<p1, "RUN_INPUT_NOT_PINNED">>, <<p2, "ORCHESTRATION_BUILD_MOVED">>, <<p3, "RUN_NOT_RUNNING">>,
                        <<p4, "EVIDENCE_NOT_AVAILABLE">>, <<p5, "GATE_APPROVAL_MISMATCH">> >>
                     \o << <<p6, "BUDGET_CHARGE_OVER_RESERVATION">>, <<p7, "RUN_NOT_STOPPED">> >>
                     \o << <<p8, "QUEUED_RUNS_LIMIT_REACHED">> >>)
    BY Zenon DEF RetryChecks, QueueChecks, FullCheck
<1>3. (p1 <=> a1) /\ (~a1 => (p2 <=> a2)) /\ (~a1 => (p4 <=> a4)) /\ (~a1 /\ ~a4 => (p5 <=> a5))
    BY QueueLetters, Zenon
<1>4. StartableCode(r, b) = IF a1 THEN "RUN_INPUT_NOT_PINNED" ELSE IF a2 THEN "ORCHESTRATION_BUILD_MOVED"
                            ELSE IF p3 THEN "RUN_NOT_RUNNING" ELSE IF a4 THEN "EVIDENCE_NOT_AVAILABLE"
                            ELSE IF a5 THEN "GATE_APPROVAL_MISMATCH" ELSE "OK"
    BY StartableIs
<1> HIDE DEF q
<1>5. Answer(q) = IF ~Satisfies(u, "WRITER") THEN "NOT_AUTHORISED" ELSE RetryCode(q)
    BY <1>1, Answers
<1>6. StartableCode(r, b) # "OK" => RetryCode(q) = StartableCode(r, b)
    BY <1>1 DEF RetryCode
<1>7. p6 <=> work[r] = "STOPPED" /\ p6
    BY DEF StopSound
<1>8. StartableCode(r, b) = "OK" => RetryCode(q) = IF p6 THEN "BUDGET_CHARGE_OVER_RESERVATION"
                                                 ELSE IF p7 THEN "RUN_NOT_STOPPED"
                                                 ELSE IF p8 THEN "QUEUED_RUNS_LIMIT_REACHED" ELSE "OK"
    BY <1>1, <1>7, RetryIs
<1> HIDE DEF p1, p2, p3, p4, p5, p6, p7, p8, a1, a2, a4, a5
<1>9. FirstRefusal(RetryChecks(u, r, b))
      = IF p1 THEN "RUN_INPUT_NOT_PINNED" ELSE IF p2 THEN "ORCHESTRATION_BUILD_MOVED" ELSE IF p3 THEN "RUN_NOT_RUNNING"
        ELSE IF p4 THEN "EVIDENCE_NOT_AVAILABLE" ELSE IF p5 THEN "GATE_APPROVAL_MISMATCH"
        ELSE IF p6 THEN "BUDGET_CHARGE_OVER_RESERVATION" ELSE IF p7 THEN "RUN_NOT_STOPPED"
        ELSE IF p8 THEN "QUEUED_RUNS_LIMIT_REACHED" ELSE "OK"
  <2>1. FirstRefusal(<< <<p1, "RUN_INPUT_NOT_PINNED">>, <<p2, "ORCHESTRATION_BUILD_MOVED">>, <<p3, "RUN_NOT_RUNNING">>,
                        <<p4, "EVIDENCE_NOT_AVAILABLE">>, <<p5, "GATE_APPROVAL_MISMATCH">> >>
                     \o << <<p6, "BUDGET_CHARGE_OVER_RESERVATION">>, <<p7, "RUN_NOT_STOPPED">> >>
                     \o << <<p8, "QUEUED_RUNS_LIMIT_REACHED">> >>)
      = IF p1 THEN "RUN_INPUT_NOT_PINNED" ELSE IF p2 THEN "ORCHESTRATION_BUILD_MOVED" ELSE IF p3 THEN "RUN_NOT_RUNNING"
        ELSE IF p4 THEN "EVIDENCE_NOT_AVAILABLE" ELSE IF p5 THEN "GATE_APPROVAL_MISMATCH"
        ELSE IF p6 THEN "BUDGET_CHARGE_OVER_RESERVATION" ELSE IF p7 THEN "RUN_NOT_STOPPED"
        ELSE IF p8 THEN "QUEUED_RUNS_LIMIT_REACHED" ELSE "OK"
    BY Of8, SMTT(60)
  <2> QED
    BY <1>2, <2>1, Zenon
<1>10. FirstRefusal(RetryChecks(u, r, b)) = RetryCode(q)
    BY <1>3, <1>4, <1>6, <1>8, <1>9
<1> QED
    BY <1>5, <1>10, OfferIs DEF q

\* availability.py:3-5: what the console offers of a run is exactly what its command would
\* answer, refusal for refusal, though the two ask in different words.
THEOREM OfferedIsAnsweredHolds == Spec => []OfferedIsAnswered
<1>1. Sound => OfferedIsAnswered
    BY PinOffered, ApproveOffered, StartOffered, RetryOffered, CancelOffered DEF Sound, OfferedIsAnswered, Created
<1> QED
    BY <1>1, Soundness, PTL
==============================================================================
