----------------------------- MODULE ShownProofs -----------------------------
(***************************************************************************)
(* What is shown and handed out is what there is, for every value of the   *)
(* constants.                                                              *)
(*                                                                         *)
(* The deliverable, over every set of people, drafts and builds, every     *)
(* number of revisions, and whatever the builds make of the drafts: a save *)
(* is stamped when its unit begins and inserted when it has the lock; that *)
(* the stamps stay in the order of the inserts rests on the head a draft   *)
(* names being saved before its unit began (Posted).  What is filed stands *)
(* on rows nothing writes again.                                           *)
(*                                                                         *)
(* The Book, over every set of runs, dates, issuers and bounds: what a     *)
(* Model's read has found stays as it was, or is of what never changes     *)
(* back (BookInv), and an issuer's entries are in one order.               *)
(*                                                                         *)
(* Tokens, rate decks and health, over any callers, units, times and       *)
(* lives: what is handed out is as old as the step before left it, plus    *)
(* what that step may take (MintingInv, DecksInv, ProbesInv).              *)
(***************************************************************************)
EXTENDS MCServices, SequenceTheorems, FiniteSetTheorems, WellFoundedInduction, TLAPS

-----------------------------------------------------------------------------
(* The first refusal of a chain of checks, spelled out.                    *)

\* A set of naturals has a least member.
LEMMA Least == ASSUME NEW S \in SUBSET Nat, S # {} PROVE \E m \in S : \A n \in S : m <= n
<1>1. PICK m \in S : \A n \in S : <<n, m>> \notin OpToRel(<, Nat)
    BY NatLessThanWellFounded, WFMin
<1>2. \A n \in S : ~(n < m)
    BY <1>1 DEF OpToRel
<1> QED
    BY <1>2

\* The refusal is that of the first check that hits.
LEMMA FirstHit ==
    ASSUME NEW c, NEW i \in DOMAIN c, DOMAIN c \in SUBSET Nat, c[i][1], \A j \in DOMAIN c : j < i => ~c[j][1]
    PROVE  FirstRefusal(c) = c[i][2]
<1> DEFINE hit == {j \in DOMAIN c : c[j][1]}
<1>1. i \in hit /\ \A j \in hit : i <= j
    OBVIOUS
<1>2. \A k \in hit : (\A j \in hit : k <= j) => k = i
    BY <1>1
<1>3. (CHOOSE k \in hit : \A j \in hit : k <= j) = i
    BY <1>1, <1>2
<1> QED
    BY <1>1, <1>3, Zenon DEF FirstRefusal

\* With none, the answer is OK.
LEMMA NoHit == ASSUME NEW c, \A i \in DOMAIN c : ~c[i][1] PROVE FirstRefusal(c) = "OK"
    BY Zenon DEF FirstRefusal

\* A chain of two checks.
LEMMA Of2 ==
    ASSUME NEW p1, NEW p2,
           NEW s1, NEW s2
    PROVE  FirstRefusal(<< <<p1, s1>>, <<p2, s2>> >>)
           = IF p1 THEN s1 ELSE IF p2 THEN s2 ELSE "OK"
<1> DEFINE c == << <<p1, s1>>, <<p2, s2>> >>
<1>1. DOMAIN c = {1, 2} /\ DOMAIN c \in SUBSET Nat
    OBVIOUS
<1>2. /\ c[1][2] = s1 /\ (c[1][1] <=> p1)
      /\ c[2][2] = s2 /\ (c[2][1] <=> p2)
    OBVIOUS
<1>3. SUFFICES FirstRefusal(c) = IF p1 THEN s1 ELSE IF p2 THEN s2 ELSE "OK"
    OBVIOUS
<1> HIDE DEF c
<1>4. CASE p1
    BY <1>1, <1>2, <1>4, FirstHit
<1>5. CASE ~p1 /\ p2
    BY <1>1, <1>2, <1>5, FirstHit
<1>6. CASE ~p1 /\ ~p2
    BY <1>1, <1>2, <1>6, NoHit
<1> QED
    BY <1>4, <1>5, <1>6

\* Of three.
LEMMA Of3 ==
    ASSUME NEW p1, NEW p2, NEW p3,
           NEW s1, NEW s2, NEW s3
    PROVE  FirstRefusal(<< <<p1, s1>>, <<p2, s2>>, <<p3, s3>> >>)
           = IF p1 THEN s1 ELSE IF p2 THEN s2 ELSE IF p3 THEN s3 ELSE "OK"
<1> DEFINE c == << <<p1, s1>>, <<p2, s2>>, <<p3, s3>> >>
<1>1. DOMAIN c = {1, 2, 3} /\ DOMAIN c \in SUBSET Nat
    OBVIOUS
<1>2. /\ c[1][2] = s1 /\ (c[1][1] <=> p1)
      /\ c[2][2] = s2 /\ (c[2][1] <=> p2)
      /\ c[3][2] = s3 /\ (c[3][1] <=> p3)
    OBVIOUS
<1>3. SUFFICES FirstRefusal(c) = IF p1 THEN s1 ELSE IF p2 THEN s2 ELSE IF p3 THEN s3 ELSE "OK"
    OBVIOUS
<1> HIDE DEF c
<1>4. CASE p1
    BY <1>1, <1>2, <1>4, FirstHit
<1>5. CASE ~p1 /\ p2
    BY <1>1, <1>2, <1>5, FirstHit
<1>6. CASE ~p1 /\ ~p2 /\ p3
    BY <1>1, <1>2, <1>6, FirstHit
<1>7. CASE ~p1 /\ ~p2 /\ ~p3
    BY <1>1, <1>2, <1>7, NoHit
<1> QED
    BY <1>4, <1>5, <1>6, <1>7

\* Of four.
LEMMA Of4 ==
    ASSUME NEW p1, NEW p2, NEW p3, NEW p4,
           NEW s1, NEW s2, NEW s3, NEW s4
    PROVE  FirstRefusal(<< <<p1, s1>>, <<p2, s2>>, <<p3, s3>>, <<p4, s4>> >>)
           = IF p1 THEN s1 ELSE IF p2 THEN s2 ELSE IF p3 THEN s3 ELSE IF p4 THEN s4 ELSE "OK"
<1> DEFINE c == << <<p1, s1>>, <<p2, s2>>, <<p3, s3>>, <<p4, s4>> >>
<1>1. DOMAIN c = {1, 2, 3, 4} /\ DOMAIN c \in SUBSET Nat
    OBVIOUS
<1>2. /\ c[1][2] = s1 /\ (c[1][1] <=> p1)
      /\ c[2][2] = s2 /\ (c[2][1] <=> p2)
      /\ c[3][2] = s3 /\ (c[3][1] <=> p3)
      /\ c[4][2] = s4 /\ (c[4][1] <=> p4)
    OBVIOUS
<1>3. SUFFICES FirstRefusal(c) = IF p1 THEN s1 ELSE IF p2 THEN s2 ELSE IF p3 THEN s3 ELSE IF p4 THEN s4 ELSE "OK"
    OBVIOUS
<1> HIDE DEF c
<1>4. CASE p1
    BY <1>1, <1>2, <1>4, FirstHit
<1>5. CASE ~p1 /\ p2
    BY <1>1, <1>2, <1>5, FirstHit
<1>6. CASE ~p1 /\ ~p2 /\ p3
    BY <1>1, <1>2, <1>6, FirstHit
<1>7. CASE ~p1 /\ ~p2 /\ ~p3 /\ p4
    BY <1>1, <1>2, <1>7, FirstHit
<1>8. CASE ~p1 /\ ~p2 /\ ~p3 /\ ~p4
    BY <1>1, <1>2, <1>8, NoHit
<1> QED
    BY <1>4, <1>5, <1>6, <1>7, <1>8

\* Of five.
LEMMA Of5 ==
    ASSUME NEW p1, NEW p2, NEW p3, NEW p4, NEW p5,
           NEW s1, NEW s2, NEW s3, NEW s4, NEW s5
    PROVE  FirstRefusal(<< <<p1, s1>>, <<p2, s2>>, <<p3, s3>>, <<p4, s4>>, <<p5, s5>> >>)
           = IF p1 THEN s1 ELSE IF p2 THEN s2 ELSE IF p3 THEN s3 ELSE IF p4 THEN s4 ELSE IF p5 THEN s5 ELSE "OK"
<1> DEFINE c == << <<p1, s1>>, <<p2, s2>>, <<p3, s3>>, <<p4, s4>>, <<p5, s5>> >>
<1>1. DOMAIN c = {1, 2, 3, 4, 5} /\ DOMAIN c \in SUBSET Nat
    OBVIOUS
<1>2. /\ c[1][2] = s1 /\ (c[1][1] <=> p1)
      /\ c[2][2] = s2 /\ (c[2][1] <=> p2)
      /\ c[3][2] = s3 /\ (c[3][1] <=> p3)
      /\ c[4][2] = s4 /\ (c[4][1] <=> p4)
      /\ c[5][2] = s5 /\ (c[5][1] <=> p5)
    OBVIOUS
<1>3. SUFFICES FirstRefusal(c) = IF p1 THEN s1 ELSE IF p2 THEN s2 ELSE IF p3 THEN s3 ELSE IF p4 THEN s4 ELSE IF p5 THEN s5 ELSE "OK"
    OBVIOUS
<1> HIDE DEF c
<1>4. CASE p1
    BY <1>1, <1>2, <1>4, FirstHit
<1>5. CASE ~p1 /\ p2
    BY <1>1, <1>2, <1>5, FirstHit
<1>6. CASE ~p1 /\ ~p2 /\ p3
    BY <1>1, <1>2, <1>6, FirstHit
<1>7. CASE ~p1 /\ ~p2 /\ ~p3 /\ p4
    BY <1>1, <1>2, <1>7, FirstHit
<1>8. CASE ~p1 /\ ~p2 /\ ~p3 /\ ~p4 /\ p5
    BY <1>1, <1>2, <1>8, FirstHit
<1>9. CASE ~p1 /\ ~p2 /\ ~p3 /\ ~p4 /\ ~p5
    BY <1>1, <1>2, <1>9, NoHit
<1> QED
    BY <1>4, <1>5, <1>6, <1>7, <1>8, <1>9

\* Of six.
LEMMA Of6 ==
    ASSUME NEW p1, NEW p2, NEW p3, NEW p4, NEW p5, NEW p6,
           NEW s1, NEW s2, NEW s3, NEW s4, NEW s5, NEW s6
    PROVE  FirstRefusal(<< <<p1, s1>>, <<p2, s2>>, <<p3, s3>>, <<p4, s4>>, <<p5, s5>>, <<p6, s6>> >>)
           = IF p1 THEN s1 ELSE IF p2 THEN s2 ELSE IF p3 THEN s3 ELSE IF p4 THEN s4 ELSE IF p5 THEN s5 ELSE IF p6 THEN s6 ELSE "OK"
<1> DEFINE c == << <<p1, s1>>, <<p2, s2>>, <<p3, s3>>, <<p4, s4>>, <<p5, s5>>, <<p6, s6>> >>
<1>1. DOMAIN c = {1, 2, 3, 4, 5, 6} /\ DOMAIN c \in SUBSET Nat
    OBVIOUS
<1>2. /\ c[1][2] = s1 /\ (c[1][1] <=> p1)
      /\ c[2][2] = s2 /\ (c[2][1] <=> p2)
      /\ c[3][2] = s3 /\ (c[3][1] <=> p3)
      /\ c[4][2] = s4 /\ (c[4][1] <=> p4)
      /\ c[5][2] = s5 /\ (c[5][1] <=> p5)
      /\ c[6][2] = s6 /\ (c[6][1] <=> p6)
    OBVIOUS
<1>3. SUFFICES FirstRefusal(c) = IF p1 THEN s1 ELSE IF p2 THEN s2 ELSE IF p3 THEN s3 ELSE IF p4 THEN s4 ELSE IF p5 THEN s5 ELSE IF p6 THEN s6 ELSE "OK"
    OBVIOUS
<1> HIDE DEF c
<1>4. CASE p1
    BY <1>1, <1>2, <1>4, FirstHit
<1>5. CASE ~p1 /\ p2
    BY <1>1, <1>2, <1>5, FirstHit
<1>6. CASE ~p1 /\ ~p2 /\ p3
    BY <1>1, <1>2, <1>6, FirstHit
<1>7. CASE ~p1 /\ ~p2 /\ ~p3 /\ p4
    BY <1>1, <1>2, <1>7, FirstHit
<1>8. CASE ~p1 /\ ~p2 /\ ~p3 /\ ~p4 /\ p5
    BY <1>1, <1>2, <1>8, FirstHit
<1>9. CASE ~p1 /\ ~p2 /\ ~p3 /\ ~p4 /\ ~p5 /\ p6
    BY <1>1, <1>2, <1>9, FirstHit
<1>10. CASE ~p1 /\ ~p2 /\ ~p3 /\ ~p4 /\ ~p5 /\ ~p6
    BY <1>1, <1>2, <1>10, NoHit
<1> QED
    BY <1>4, <1>5, <1>6, <1>7, <1>8, <1>9, <1>10

\* If a check hits, one is the first that does.
LEMMA Refuses ==
    ASSUME NEW c, DOMAIN c \in SUBSET Nat, NEW i \in DOMAIN c, c[i][1]
    PROVE  \E k \in DOMAIN c : c[k][1] /\ (\A j \in DOMAIN c : j < k => ~c[j][1]) /\ FirstRefusal(c) = c[k][2]
<1> DEFINE hit == {j \in DOMAIN c : c[j][1]}
<1>1. hit \in SUBSET Nat /\ hit # {}
    OBVIOUS
<1>2. PICK k \in hit : \A j \in hit : k <= j
    BY <1>1, Least
<1>3. \A j \in DOMAIN c : j < k => ~c[j][1]
    BY <1>1, <1>2
<1> QED
    BY <1>2, <1>3, FirstHit

\* A chain after another answers when the other has nothing to refuse.
LEMMA Joined ==
    ASSUME NEW a, NEW b, NEW S,
           a \in Seq(S), b \in Seq(S), \A i \in DOMAIN a : a[i][1] => a[i][2] # "OK"
    PROVE  FirstRefusal(a \o b) = IF FirstRefusal(a) # "OK" THEN FirstRefusal(a) ELSE FirstRefusal(b)
<1> DEFINE c == a \o b
<1>1. /\ DOMAIN a = 1..Len(a) /\ DOMAIN b = 1..Len(b) /\ DOMAIN c = 1..(Len(a) + Len(b)) /\ Len(a) \in Nat /\ Len(b) \in Nat
      /\ \A i \in DOMAIN a : c[i] = a[i] /\ i \in DOMAIN c
      /\ \A i \in DOMAIN b : c[Len(a) + i] = b[i] /\ Len(a) + i \in DOMAIN c
      /\ \A i \in DOMAIN c : i \in DOMAIN a \/ (i - Len(a) \in DOMAIN b /\ i = Len(a) + (i - Len(a)))
    OBVIOUS
<1>d. DOMAIN a \in SUBSET Nat /\ DOMAIN b \in SUBSET Nat /\ DOMAIN c \in SUBSET Nat
    BY <1>1
<1> HIDE DEF c
<1>2. ASSUME NEW i \in DOMAIN a, a[i][1]
      PROVE  FirstRefusal(a) # "OK" /\ FirstRefusal(c) = FirstRefusal(a)
    <2>1. PICK k \in DOMAIN a : a[k][1] /\ (\A j \in DOMAIN a : j < k => ~a[j][1]) /\ FirstRefusal(a) = a[k][2]
        BY <1>2, <1>d, Refuses
    <2>2. \A j \in DOMAIN c : j < k => ~c[j][1]
        BY <1>1, <2>1
    <2>3. k \in DOMAIN c /\ c[k] = a[k]
        BY <1>1
    <2>4. FirstRefusal(c) = c[k][2]
        BY <1>d, <2>1, <2>2, <2>3, FirstHit
    <2> QED
        BY <2>1, <2>3, <2>4
<1>3. ASSUME \A i \in DOMAIN a : ~a[i][1] PROVE FirstRefusal(a) = "OK" /\ FirstRefusal(c) = FirstRefusal(b)
    <2>1. FirstRefusal(a) = "OK"
        BY <1>3, NoHit
    <2>2. CASE \A i \in DOMAIN b : ~b[i][1]
        <3>1. \A i \in DOMAIN c : ~c[i][1]
            BY <1>1, <1>3, <2>2
        <3> QED
            BY <2>1, <2>2, <3>1, NoHit
    <2>3. ASSUME NEW i \in DOMAIN b, b[i][1] PROVE FirstRefusal(c) = FirstRefusal(b)
        <3>1. PICK k \in DOMAIN b : b[k][1] /\ (\A j \in DOMAIN b : j < k => ~b[j][1]) /\ FirstRefusal(b) = b[k][2]
            BY <2>3, <1>d, Refuses
        <3>2. Len(a) + k \in DOMAIN c /\ c[Len(a) + k] = b[k]
            BY <1>1, <3>1
        <3>3. ASSUME NEW j \in DOMAIN c, j < Len(a) + k, j \notin DOMAIN a PROVE ~c[j][1]
            <4>1. j - Len(a) \in DOMAIN b /\ j - Len(a) < k /\ c[j] = b[j - Len(a)]
                BY <1>1, <1>d, <3>3
            <4> QED
                BY <3>1, <4>1
        <3>4. \A j \in DOMAIN c : j < Len(a) + k => ~c[j][1]
            BY <1>1, <1>3, <3>3
        <3>5. FirstRefusal(c) = c[Len(a) + k][2]
            BY <1>d, <3>1, <3>2, <3>4, FirstHit
        <3> QED
            BY <3>1, <3>2, <3>5
    <2> QED
        BY <2>1, <2>2, <2>3
<1>4. FirstRefusal(c) = IF FirstRefusal(a) # "OK" THEN FirstRefusal(a) ELSE FirstRefusal(b)
    BY <1>2, <1>3
<1> QED
    BY <1>4 DEF c

\* What each command asks, in its order: a signature.
LEMMA SignIs ==
    ASSUME NEW q
    PROVE  SignCode(q)
             = IF q.reviewed # q.on THEN "DELIVERABLE_MOVED_SINCE_SIGNING"
               ELSE IF Newest # q.on THEN "COMMAND_EXPECTATION_STALE"
               ELSE IF q.by = revisions[q.on].by THEN "APPROVER_NOT_INDEPENDENT"
               ELSE IF Frozen(q.on) THEN "DELIVERABLE_ALREADY_FROZEN"
               ELSE IF q.by \in Signers(q.on) THEN "DELIVERABLE_ALREADY_SIGNED" ELSE "OK"
<1> DEFINE m == q.reviewed # q.on
           h == Newest # q.on
           a == q.by = revisions[q.on].by
           f == Frozen(q.on)
           s == q.by \in Signers(q.on)
           ka == "APPROVER_NOT_INDEPENDENT"
           kf == "DELIVERABLE_ALREADY_FROZEN"
           ks == "DELIVERABLE_ALREADY_SIGNED"
           seen == << <<m, "DELIVERABLE_MOVED_SINCE_SIGNING">>, <<h, "COMMAND_EXPECTATION_STALE">> >>
           asks == << <<a, ka>>, <<f, kf>>, <<s, ks>> >>
           checks == {seen[1], seen[2], asks[1], asks[2], asks[3]}
<1>1. SignCode(q) = FirstRefusal(seen \o asks)
    BY Zenon DEF SignCode, Reviewed
<1> HIDE DEF m, h, a, f, s, ka, kf, ks
<1>2. seen \in Seq(checks) /\ asks \in Seq(checks) /\ \A i \in DOMAIN seen : seen[i][1] => seen[i][2] # "OK"
    OBVIOUS
<1>3. FirstRefusal(seen) = IF m THEN "DELIVERABLE_MOVED_SINCE_SIGNING"
          ELSE IF h THEN "COMMAND_EXPECTATION_STALE" ELSE "OK"
    BY Of2
<1>4. FirstRefusal(asks) = IF a THEN ka
          ELSE IF f THEN kf
          ELSE IF s THEN ks ELSE "OK"
    BY Of3
<1> HIDE DEF seen, asks, checks
<1>5. FirstRefusal(seen \o asks) = IF FirstRefusal(seen) # "OK" THEN FirstRefusal(seen) ELSE FirstRefusal(asks)
    BY <1>2, Joined
<1> QED
    BY <1>1, <1>3, <1>4, <1>5 DEF m, h, a, f, s, ka, kf, ks

\* A freeze.
LEMMA FreezeIs ==
    ASSUME NEW q
    PROVE  FreezeCode(q)
             = IF q.reviewed # q.on THEN "DELIVERABLE_MOVED_SINCE_SIGNING"
               ELSE IF Newest # q.on THEN "COMMAND_EXPECTATION_STALE"
               ELSE IF Frozen(q.on) THEN "DELIVERABLE_ALREADY_FROZEN"
               ELSE IF opinions[q.on] = {} THEN "DELIVERABLE_NOT_SIGNED"
               ELSE IF q.by \in Signers(q.on) THEN "APPROVER_NOT_INDEPENDENT"
               ELSE IF Prove(q.on, q.version) # "OK" THEN Prove(q.on, q.version)
               ELSE IF Render(q.on, q.version) # "OK" THEN "RENDER_REFUSED" ELSE "OK"
<1> DEFINE m == q.reviewed # q.on
           h == Newest # q.on
           f == Frozen(q.on)
           n == opinions[q.on] = {}
           s == q.by \in Signers(q.on)
           p == Prove(q.on, q.version) # "OK"
           d == Render(q.on, q.version) # "OK"
           kf == "DELIVERABLE_ALREADY_FROZEN"
           kn == "DELIVERABLE_NOT_SIGNED"
           ks == "APPROVER_NOT_INDEPENDENT"
           kp == Prove(q.on, q.version)
           kd == "RENDER_REFUSED"
           seen == << <<m, "DELIVERABLE_MOVED_SINCE_SIGNING">>, <<h, "COMMAND_EXPECTATION_STALE">> >>
           asks == << <<f, kf>>, <<n, kn>>, <<s, ks>>, <<p, kp>>, <<d, kd>> >>
           checks == {seen[1], seen[2], asks[1], asks[2], asks[3], asks[4], asks[5]}
<1>1. FreezeCode(q) = FirstRefusal(seen \o asks)
    BY Zenon DEF FreezeCode, Reviewed
<1> HIDE DEF m, h, f, n, s, p, d, kf, kn, ks, kp, kd
<1>2. seen \in Seq(checks) /\ asks \in Seq(checks) /\ \A i \in DOMAIN seen : seen[i][1] => seen[i][2] # "OK"
    OBVIOUS
<1>3. FirstRefusal(seen) = IF m THEN "DELIVERABLE_MOVED_SINCE_SIGNING"
          ELSE IF h THEN "COMMAND_EXPECTATION_STALE" ELSE "OK"
    BY Of2
<1>4. FirstRefusal(asks) = IF f THEN kf
          ELSE IF n THEN kn
          ELSE IF s THEN ks
          ELSE IF p THEN kp
          ELSE IF d THEN kd ELSE "OK"
    BY Of5
<1> HIDE DEF seen, asks, checks
<1>5. FirstRefusal(seen \o asks) = IF FirstRefusal(seen) # "OK" THEN FirstRefusal(seen) ELSE FirstRefusal(asks)
    BY <1>2, Joined
<1> QED
    BY <1>1, <1>3, <1>4, <1>5 DEF m, h, f, n, s, p, d, kf, kn, ks, kp, kd

\* A filing of a frozen revision.
LEMMA FileIs ==
    ASSUME NEW q
    PROVE  FileCode(q)
             = IF q.reviewed # q.on THEN "DELIVERABLE_MOVED_SINCE_SIGNING"
               ELSE IF Newest # q.on THEN "COMMAND_EXPECTATION_STALE"
               ELSE IF Prove(q.on, q.version) # "OK" THEN Prove(q.on, q.version)
               ELSE IF ~Frozen(q.on) THEN "DELIVERABLE_NOT_FROZEN"
               ELSE IF opinions[q.on] = {} THEN "DELIVERABLE_NOT_SIGNED"
               ELSE IF q.by \in Signers(q.on) \cup {publication[q.on].frozenBy} THEN "APPROVER_NOT_INDEPENDENT"
               ELSE IF Filed(q.on) THEN "DELIVERABLE_ALREADY_FILED"
               ELSE IF Render(q.on, q.version) # "OK" THEN "RENDER_REFUSED" ELSE "OK"
<1> DEFINE m == q.reviewed # q.on
           h == Newest # q.on
           p == Prove(q.on, q.version) # "OK"
           f == ~Frozen(q.on)
           n == opinions[q.on] = {}
           s == q.by \in Signers(q.on) \cup {publication[q.on].frozenBy}
           e == Filed(q.on)
           d == Render(q.on, q.version) # "OK"
           kp == Prove(q.on, q.version)
           kf == "DELIVERABLE_NOT_FROZEN"
           kn == "DELIVERABLE_NOT_SIGNED"
           ks == "APPROVER_NOT_INDEPENDENT"
           ke == "DELIVERABLE_ALREADY_FILED"
           kd == "RENDER_REFUSED"
           seen == << <<m, "DELIVERABLE_MOVED_SINCE_SIGNING">>, <<h, "COMMAND_EXPECTATION_STALE">> >>
           asks == << <<p, kp>>, <<f, kf>>, <<n, kn>>, <<s, ks>>, <<e, ke>>, <<d, kd>> >>
           checks == {seen[1], seen[2], asks[1], asks[2], asks[3], asks[4], asks[5], asks[6]}
<1>1. FileCode(q) = FirstRefusal(seen \o asks)
    BY Zenon DEF FileCode, Reviewed
<1> HIDE DEF m, h, p, f, n, s, e, d, kp, kf, kn, ks, ke, kd
<1>2. seen \in Seq(checks) /\ asks \in Seq(checks) /\ \A i \in DOMAIN seen : seen[i][1] => seen[i][2] # "OK"
    OBVIOUS
<1>3. FirstRefusal(seen) = IF m THEN "DELIVERABLE_MOVED_SINCE_SIGNING"
          ELSE IF h THEN "COMMAND_EXPECTATION_STALE" ELSE "OK"
    BY Of2
<1>4. FirstRefusal(asks) = IF p THEN kp
          ELSE IF f THEN kf
          ELSE IF n THEN kn
          ELSE IF s THEN ks
          ELSE IF e THEN ke
          ELSE IF d THEN kd ELSE "OK"
    BY Of6
<1> HIDE DEF seen, asks, checks
<1>5. FirstRefusal(seen \o asks) = IF FirstRefusal(seen) # "OK" THEN FirstRefusal(seen) ELSE FirstRefusal(asks)
    BY <1>2, Joined
<1> QED
    BY <1>1, <1>3, <1>4, <1>5 DEF m, h, p, f, n, s, e, d, kp, kf, kn, ks, ke, kd

\* A save.
LEMMA SaveIs ==
    ASSUME NEW q
    PROVE  SaveCode(q)
             = IF Newest # q.on THEN "COMMAND_EXPECTATION_STALE"
               ELSE IF Newest # None /\ Closed(Newest, q.version) THEN "DELIVERABLE_ALREADY_FROZEN"
               ELSE IF ~live THEN "EVIDENCE_NOT_AVAILABLE"
               ELSE IF Drift[q.version][q.draft] = "RULE" THEN "NARRATIVE_REFUSED"
               ELSE IF Drift[q.version][q.draft] = "RENDER" THEN "RENDER_REFUSED" ELSE "OK"
<1> DEFINE l == ~live
           r == Drift[q.version][q.draft] = "RULE"
           d == Drift[q.version][q.draft] = "RENDER"
           rest == FirstRefusal(<< <<l, "EVIDENCE_NOT_AVAILABLE">>, <<r, "NARRATIVE_REFUSED">>, <<d, "RENDER_REFUSED">> >>)
<1>1. SaveCode(q) = IF Newest # q.on THEN "COMMAND_EXPECTATION_STALE"
                    ELSE IF Newest # None /\ Closed(Newest, q.version) THEN "DELIVERABLE_ALREADY_FROZEN" ELSE rest
    BY Zenon DEF SaveCode
<1> HIDE DEF l, r, d
<1>2. rest = IF l THEN "EVIDENCE_NOT_AVAILABLE" ELSE IF r THEN "NARRATIVE_REFUSED" ELSE IF d THEN "RENDER_REFUSED" ELSE "OK"
    BY Of3
<1> HIDE DEF rest
<1> QED
    BY <1>1, <1>2 DEF l, r, d

\* Which of them answers a request.
LEMMA Answers ==
    ASSUME NEW q
    PROVE  /\ q.act = "SAVE" => Answer(q) = SaveCode(q)
           /\ q.act = "SIGN" => Answer(q) = SignCode(q)
           /\ q.act = "FREEZE" => Answer(q) = FreezeCode(q)
           /\ q.act = "FILE" /\ Frozen(q.on) => Answer(q) = FileCode(q)
           /\ q.act = "FILE" /\ ~Frozen(q.on) =>
                Answer(q) = FirstRefusal(Reviewed(q) \o <<
                    <<Prove(q.on, q.version) # "OK", Prove(q.on, q.version)>>, <<TRUE, "DELIVERABLE_NOT_FROZEN">> >>)
    BY Zenon DEF Answer

\* A filing of a revision nobody froze is refused.
LEMMA FileUnfrozenIs ==
    ASSUME NEW q, q.act = "FILE", ~Frozen(q.on)
    PROVE  Answer(q) = IF q.reviewed # q.on THEN "DELIVERABLE_MOVED_SINCE_SIGNING"
                       ELSE IF Newest # q.on THEN "COMMAND_EXPECTATION_STALE"
                       ELSE IF Prove(q.on, q.version) # "OK" THEN Prove(q.on, q.version)
                       ELSE "DELIVERABLE_NOT_FROZEN"
<1> DEFINE m == q.reviewed # q.on
           h == Newest # q.on
           p == Prove(q.on, q.version) # "OK"
           t == TRUE
           kp == Prove(q.on, q.version)
           kt == "DELIVERABLE_NOT_FROZEN"
           seen == << <<m, "DELIVERABLE_MOVED_SINCE_SIGNING">>, <<h, "COMMAND_EXPECTATION_STALE">> >>
           asks == << <<p, kp>>, <<t, kt>> >>
           checks == {seen[1], seen[2], asks[1], asks[2]}
<1>1. Answer(q) = FirstRefusal(seen \o asks)
    BY Answers, Zenon DEF Reviewed
<1> HIDE DEF m, h, p, t, kp, kt
<1>2. seen \in Seq(checks) /\ asks \in Seq(checks) /\ \A i \in DOMAIN seen : seen[i][1] => seen[i][2] # "OK"
    OBVIOUS
<1>3. FirstRefusal(seen) = IF m THEN "DELIVERABLE_MOVED_SINCE_SIGNING"
          ELSE IF h THEN "COMMAND_EXPECTATION_STALE" ELSE "OK"
    BY Of2
<1>4. FirstRefusal(asks) = IF p THEN kp
          ELSE IF t THEN kt ELSE "OK"
    BY Of2
<1> HIDE DEF seen, asks, checks
<1>5. FirstRefusal(seen \o asks) = IF FirstRefusal(seen) # "OK" THEN FirstRefusal(seen) ELSE FirstRefusal(asks)
    BY <1>2, Joined
<1> QED
    BY <1>1, <1>3, <1>4, <1>5 DEF m, h, p, t, kp, kt

\* What a filing, a freeze and a signature have found when they are let through.
LEMMA FilingFinds ==
    ASSUME NEW q, q.act = "FILE", Answer(q) = "OK"
    PROVE  /\ q.reviewed = q.on /\ Newest = q.on /\ Frozen(q.on) /\ ~Filed(q.on) /\ opinions[q.on] # {}
           /\ q.by \notin Signers(q.on) \cup {publication[q.on].frozenBy}
           /\ live /\ Drift[q.version][revisions[q.on].draft] \notin {"RULE", "RENDER"}
<1>1. Frozen(q.on)
    BY FileUnfrozenIs
<1>2. FileCode(q) = "OK"
    BY <1>1, Answers
<1>3. Prove(q.on, q.version) = "OK" /\ Render(q.on, q.version) = "OK"
    BY <1>2, FileIs
<1> QED
    BY <1>1, <1>2, <1>3, FileIs DEF Prove, Render

\* A freeze,
LEMMA FreezeFinds ==
    ASSUME NEW q, q.act = "FREEZE", Answer(q) = "OK"
    PROVE  Newest = q.on /\ ~Frozen(q.on) /\ opinions[q.on] # {} /\ q.by \notin Signers(q.on)
    BY Answers, FreezeIs

\* a signature,
LEMMA SignFinds ==
    ASSUME NEW q, q.act = "SIGN", Answer(q) = "OK"
    PROVE  Newest = q.on /\ q.by # revisions[q.on].by /\ ~Frozen(q.on)
    BY Answers, SignIs

\* a save.
LEMMA SaveFinds ==
    ASSUME NEW q, q.act = "SAVE", Answer(q) = "OK"
    PROVE  Newest = q.on
    BY Answers, SaveIs

-----------------------------------------------------------------------------
(* The inductive invariant.                                                *)

\* The chain holds an event of this act, by this person, of this revision.
Does(act, who, r) == \E i \in DOMAIN trail : trail[i] = [action |-> act, by |-> who, revision |-> r]

\* The clock stands past every row, and revisions are stamped in the order they were
\* saved, though a unit is stamped before it has the lock.
Stamped ==
    /\ \A r \in Saved : revisions[r].at <= clock
    /\ \A r, s \in Saved : r < s => revisions[r].at < revisions[s].at
    /\ \A r \in Ids : \A o \in opinions[r] : o.at <= clock

\* What is in flight names rows that are there, and a save was composed against a head
\* saved before it began: that is what orders it after them.
Posted ==
    \A u \in Users : request[u] # None =>
        /\ request[u].by = u /\ request[u].act \in {"SAVE", "SIGN"} /\ request[u].at <= clock
        /\ request[u].act = "SAVE" =>
             /\ request[u].draft \in Drafts
             /\ request[u].on # None => request[u].on \in Saved /\ revisions[request[u].on].at < request[u].at
        /\ request[u].act = "SIGN" => request[u].on \in Saved

\* No author signed its own revision, frozen or not.
Independent == \A r \in Saved : revisions[r].by \notin Signers(r)

\* Every signature and every freeze has its event.
Chained ==
    \A r \in Ids :
        /\ \A who \in Signers(r) : Does("SIGN", who, r)
        /\ Frozen(r) => Does("FREEZE", publication[r].frozenBy, r)

\* The inductive invariant.
Sound == TypeOK /\ Stamped /\ Posted /\ Independent /\ Chained /\ FiledByThree /\ FiledServed

-----------------------------------------------------------------------------
(* What is asked, and what a step is.                                      *)

\* What a request that is served is known to be.
Sane(q) ==
    /\ q.act \in Acts /\ q.by \in Users /\ q.version \in Versions
    /\ q.act = "SAVE" =>
         /\ q.draft \in Drafts /\ q.at \in Nat /\ q.at <= clock
         /\ q.on # None => q.on \in Saved /\ revisions[q.on].at < q.at
    /\ q.act # "SAVE" => q.on \in Saved
    /\ q.act = "SIGN" => q.at \in Nat /\ q.at <= clock

\* Revisions are numbered from one.
LEMMA SavedAre == ASSUME TypeOK PROVE Len(revisions) \in Nat /\ Saved \in SUBSET Ids /\ Saved \in SUBSET Nat /\ None \notin Saved
    BY BoundsAreNaturals, NoneIsNothing DEF TypeOK, Saved, Ids

\* What a client posts names revisions it has seen.
LEMMA PostsAre ==
    ASSUME TypeOK, NEW u \in Users, NEW act \in Acts, NEW q \in Posts(u, act)
    PROVE  /\ q.act = act /\ q.by = u /\ q.version \in Versions /\ q.at = clock + 1
           /\ q \in Requests
           /\ act = "SAVE" => q.on \in Saved \cup {None} /\ q.draft \in Drafts
           /\ act # "SAVE" => q.on \in Saved /\ q.reviewed \in Saved
<1>1. PICK on \in IF act = "SAVE" THEN Saved \cup {None} ELSE Saved, seen \in IF act = "SAVE" THEN {None} ELSE Saved,
           d \in IF act = "SAVE" THEN Drafts ELSE {None}, v \in Versions :
        q = [act |-> act, by |-> u, on |-> on, reviewed |-> seen, draft |-> d, version |-> v, at |-> clock + 1]
    BY DEF Posts
<1>2. clock + 1 \in Nat
    BY BoundsAreNaturals DEF TypeOK
<1>3. on \in Ids \cup {None} /\ seen \in Ids \cup {None} /\ d \in Drafts \cup {None}
    BY SavedAre
<1> QED
    BY <1>1, <1>2, <1>3 DEF Requests

\* The members of a sequence.
LEMMA EntryIs == ASSUME NEW S, NEW s \in Seq(S) PROVE DOMAIN s = 1..Len(s) /\ Len(s) \in Nat /\ \A i \in 1..Len(s) : s[i] \in S
    OBVIOUS

\* The newest by the moment its unit began is the last that was saved.
LEMMA NewestIs ==
    ASSUME TypeOK, Stamped
    PROVE  HeadIsLast /\ (revisions # <<>> => Newest \in Saved) /\ (revisions = <<>> => Newest = None /\ Saved = {})
<1>1. revisions \in Seq([by : Users, draft : Drafts, at : Nat])
    BY DEF TypeOK
<1>2. CASE revisions = <<>>
    BY <1>2 DEF HeadIsLast, Newest, Saved
<1>3. CASE revisions # <<>>
    <2> DEFINE n == Len(revisions)
    <2>0. n \in Nat /\ n # 0 /\ DOMAIN revisions = 1..n
        BY <1>1, <1>3
    <2>1. n \in Saved /\ \A r \in Saved : revisions[r].at \in Nat
        <3>1. n \in 1..n
            BY <2>0
        <3>2. \A r \in 1..n : revisions[r] \in [by : Users, draft : Drafts, at : Nat]
            BY <1>1, EntryIs
        <3>3. \A r \in 1..n : revisions[r].at \in Nat
            BY <3>2
        <3> QED
            BY <3>1, <3>3 DEF Saved
    <2>2. \A r \in Saved : r # n => r < n /\ revisions[r].at < revisions[n].at
        BY <2>1 DEF Stamped, Saved
    <2>3. \A r \in Saved : (\A s \in Saved : revisions[s].at <= revisions[r].at) => r = n
        BY <2>1, <2>2
    <2>4. \A s \in Saved : revisions[s].at <= revisions[n].at
        BY <2>1, <2>2
    <2>5. Newest = CHOOSE r \in Saved : \A s \in Saved : revisions[s].at <= revisions[r].at
        BY <1>3 DEF Newest
    <2> HIDE DEF n
    <2>6. Newest = n
        BY <2>1, <2>3, <2>4, <2>5
    <2> QED
        BY <1>3, <2>1, <2>6 DEF HeadIsLast, n
<1> QED
    BY <1>2, <1>3

\* A step begins a unit, ends one that wrote nothing, commits one answered OK, or
\* withdraws a source.
LEMMA Steps ==
    ASSUME Sound, [Next]_vars
    PROVE  \/ UNCHANGED vars
           \/ \E u \in Users : Begin(u)
           \/ \E u \in Users : request' = [request EXCEPT ![u] = None] /\ UNCHANGED <<clock, store>>
           \/ \E u \in Users, q \in Requests :
                /\ Sane(q) /\ Answer(q) = "OK" /\ Apply(q) /\ UNCHANGED clock
                /\ request' = request \/ request' = [request EXCEPT ![u] = None]
           \/ Withdraw
<1>1. ASSUME NEW u \in Users, Serve(u)
      PROVE  \/ request' = [request EXCEPT ![u] = None] /\ UNCHANGED <<clock, store>>
             \/ /\ request[u] \in Requests /\ Sane(request[u]) /\ Answer(request[u]) = "OK" /\ Apply(request[u])
                /\ UNCHANGED clock /\ request' = [request EXCEPT ![u] = None]
    <2>1. request[u] \in Requests /\ request[u] # None
        BY <1>1 DEF Serve, Sound, TypeOK
    <2>2. Sane(request[u])
        BY <2>1 DEF Sound, Posted, Sane, Requests
    <2> QED
        BY <1>1, <2>1, <2>2 DEF Serve
<1>2. ASSUME NEW u \in Users, ServeAtOnce(u)
      PROVE  \E q \in Requests : Sane(q) /\ Answer(q) = "OK" /\ Apply(q) /\ UNCHANGED clock /\ request' = request
    <2>0. PICK act \in {"FREEZE", "FILE"} : \E q \in Posts(u, act) : Answer(q) = "OK" /\ Apply(q)
        BY <1>2 DEF ServeAtOnce
    <2>1. PICK q \in Posts(u, act) : Answer(q) = "OK" /\ Apply(q)
        BY <2>0
    <2>2. q \in Requests /\ Sane(q)
        BY <2>1, PostsAre DEF Sound, Sane, Acts
    <2> QED
        BY <1>2, <2>1, <2>2 DEF ServeAtOnce
<1> QED
    BY <1>1, <1>2, Zenon DEF Next

-----------------------------------------------------------------------------
(* What is kept of a revision.                                             *)

\* What Sound says of one revision.
Kept(r) ==
    /\ Frozen(r) =>
        /\ opinions[r] # {} /\ revisions[r].by \notin Signers(r)
        /\ publication[r].frozenBy \notin Signers(r)
        /\ publication[r].filedBy \notin Signers(r) \cup {publication[r].frozenBy}
    /\ Filed(r) => Receipted(r) /\ Verified(r)
    /\ \A who \in Signers(r) : Does("SIGN", who, r)
    /\ Frozen(r) => Does("FREEZE", publication[r].frozenBy, r)

\* Sound is that of each revision, and of the rows and the requests as a whole.
LEMMA SoundIs == Sound <=> TypeOK /\ Stamped /\ Posted /\ Independent /\ \A r \in Ids : Kept(r)
    BY DEF Sound, Chained, FiledByThree, FiledServed, Kept

\* That of each.
AllKept == \A r \in Ids : Kept(r)

\* The parts, as the steps keep them.
SoundParts == TypeOK /\ Stamped /\ Posted /\ Independent /\ AllKept

\* They are Sound.
LEMMA SoundIsItsParts == Sound <=> SoundParts
    BY SoundIs DEF SoundParts, AllKept

\* The receipt names one who signed: the latest signature exists, and of one moment the
\* first by name.
LEMMA SignerIsOne ==
    ASSUME TypeOK, \A r \in Ids : \A o \in opinions[r] : o.at <= clock, NEW r \in Ids, opinions[r] # {}
    PROVE  LatestSigner(r) \in Signers(r) /\ LatestSigner(r) \in Users
<1> DEFINE S == opinions[r]
           early == {MaxClock - o.at : o \in S}
           First(p, o) == p.at < o.at \/ (p.at = o.at /\ o.by <= p.by)
<1>0. S # {} /\ opinions[r] \in SUBSET [by : Users, at : Nat] /\ clock \in 0..MaxClock
    BY DEF TypeOK
<1>s. S # {} /\ \A o \in S : o.by \in Users /\ o.at \in Nat
    BY <1>0
<1>c. \A o \in S : o.at <= clock
    OBVIOUS
<1>1. S # {} /\ \A o \in S : o.by \in Users /\ o.by \in Nat /\ o.at \in Nat /\ o.at <= MaxClock
    <2> HIDE DEF S
    <2> QED
        BY <1>0, <1>s, <1>c, UsersAreNumbered, BoundsAreNaturals
<1>2. MaxClock \in Nat
    BY BoundsAreNaturals
<1> HIDE DEF S
<1>3. early \in SUBSET Nat /\ early # {}
    BY <1>1, <1>2
<1>4. PICK m \in early : \A n \in early : m <= n
    BY <1>3, Least
<1>5. PICK top \in S : m = MaxClock - top.at
    BY <1>4
<1>6. \A o \in S : MaxClock - o.at \in early
    OBVIOUS
<1>7. ASSUME NEW o \in S PROVE o.at <= top.at
    <2>1. MaxClock - top.at <= MaxClock - o.at
        BY <1>4, <1>5, <1>6
    <2> QED
        BY <2>1, <1>1, <1>2
<1> DEFINE names == {o.by : o \in {p \in S : p.at = top.at}}
<1>8. names \in SUBSET Nat /\ names # {}
    BY <1>1, <1>5
<1>9. PICK who \in names : \A n \in names : who <= n
    BY <1>8, Least
<1>10. PICK o \in S : o.at = top.at /\ o.by = who
    BY <1>9
<1>11. \A p \in S : p.at = top.at => p.by \in names
    OBVIOUS
<1>12. \A p \in S : First(p, o)
    BY <1>1, <1>7, <1>9, <1>10, <1>11
<1>13. (CHOOSE x \in S : \A p \in S : First(p, x)) \in S
    <2> HIDE DEF First
    <2> QED
        BY <1>10, <1>12
<1> HIDE DEF early, names
<1> QED
    BY <1>1, <1>13 DEF LatestSigner, Signers, S

\* The trail only grows.
Grown == trail' = trail \/ \E e \in [action : Acts, by : Users, revision : Ids] : trail' = Append(trail, e)

\* What the chain holds it holds ever after.
LEMMA StillDoes ==
    ASSUME TypeOK, Grown, NEW act, NEW who, NEW r, Does(act, who, r)
    PROVE  Does(act, who, r)'
<1>1. trail \in Seq([action : Acts, by : Users, revision : Ids])
    BY DEF TypeOK
<1>2. PICK i \in DOMAIN trail : trail[i] = [action |-> act, by |-> who, revision |-> r]
    BY DEF Does
<1>3. i \in DOMAIN trail' /\ trail'[i] = trail[i]
    BY <1>1, <1>2 DEF Grown
<1> QED
    BY <1>2, <1>3 DEF Does

\* A step that writes none of its rows keeps what is kept of a revision.
LEMMA Untouched ==
    ASSUME TypeOK, Grown, NEW r \in Ids, Kept(r),
           opinions'[r] = opinions[r], publication'[r] = publication[r], receipt'[r] = receipt[r],
           r \in Saved => revisions'[r] = revisions[r]
    PROVE  Kept(r)'
<1>1. Signers(r)' = Signers(r) /\ (Frozen(r)' <=> Frozen(r)) /\ (Filed(r)' <=> Filed(r))
    BY DEF Signers, Frozen, Filed
<1>2. LatestSigner(r)' = LatestSigner(r)
    BY DEF LatestSigner
<1>3. Frozen(r) => revisions'[r] = revisions[r]
    BY DEF TypeOK
<1>4. \A who : Does("SIGN", who, r) => Does("SIGN", who, r)'
    BY StillDoes
<1>5. Frozen(r) => Does("FREEZE", publication[r].frozenBy, r)'
    BY StillDoes DEF Kept
<1>6. ASSUME Filed(r) PROVE Receipted(r)' /\ Verified(r)'
    <2>1. Receipted(r) /\ Verified(r) /\ receipt[r] # None
        BY <1>6 DEF Kept, Receipted
    <2> DEFINE row == receipt[r].row
    <2>2. /\ Filed(r)' /\ receipt'[r] # None /\ opinions'[r] # {}
          /\ publication'[r].frozenBy \notin Signers(r)'
          /\ publication'[r].filedBy \notin Signers(r)' \cup {publication'[r].frozenBy}
        BY <1>1, <2>1 DEF Receipted
    <2>3. row = ReceiptOf(r, publication[r].filedBy, row.renderer, row.event) /\ row.event <= Len(trail)
          /\ trail[row.event] = [action |-> "FILE", by |-> row.filedBy, revision |-> r]
          /\ \A who \in Signers(r) : Does("SIGN", who, r)
          /\ Does("FREEZE", row.frozenBy, r)
        BY <2>1 DEF Receipted, Does
    <2>4. row = (ReceiptOf(r, publication[r].filedBy, receipt[r].row.renderer, receipt[r].row.event))'
        BY <2>3, <1>2 DEF ReceiptOf
    <2>5. row \in Receipts /\ row.event \in Nat /\ row.event # 0
        BY <2>1 DEF TypeOK, Receipts, Filings
    <2>6. trail'[row.event] = trail[row.event] /\ row.event <= Len(trail')
        <3>1. trail \in Seq([action : Acts, by : Users, revision : Ids])
            BY DEF TypeOK
        <3>2. row.event \in 1..Len(trail)
            BY <3>1, <2>3, <2>5
        <3> HIDE DEF row
        <3>3. CASE trail' = trail
            BY <3>1, <3>2, <3>3
        <3>4. ASSUME NEW e \in [action : Acts, by : Users, revision : Ids], trail' = Append(trail, e)
              PROVE  trail'[row.event] = trail[row.event] /\ row.event <= Len(trail')
            BY <3>1, <3>2, <3>4
        <3> QED
            BY <3>3, <3>4 DEF Grown
    <2>7. \A who \in Signers(r)' : Does("SIGN", who, r)'
        BY <1>1, <1>4, <2>3
    <2>8. Does("FREEZE", row.frozenBy, r)'
        BY <1>5, <1>6, <2>3 DEF Filed, ReceiptOf
    <2>9. receipt'[r].row = row
        OBVIOUS
    <2>10. Receipted(r)'
        BY <2>2, <2>3, <2>4, <2>6, <2>7, <2>8, <2>9 DEF Receipted, Does
    <2>11. Verified(r)'
        BY <2>1 DEF Verified
    <2> QED
        BY <2>10, <2>11
<1> QED
    BY <1>1, <1>3, <1>4, <1>5, <1>6 DEF Kept

-----------------------------------------------------------------------------
(* Every step keeps it.                                                    *)

\* At first.
LEMMA SoundAtStart == Init => Sound
<1> SUFFICES ASSUME Init PROVE Sound
    OBVIOUS
<1>1. revisions = <<>> /\ trail = <<>> /\ Len(revisions) = 0 /\ Saved = {}
    BY DEF Init, Saved
<1>2. TypeOK
    BY <1>1, BoundsAreNaturals, NoneIsNothing DEF Init, TypeOK, Frozen
<1>3. \A r \in Ids : opinions[r] = {} /\ ~Frozen(r) /\ ~Filed(r) /\ Signers(r) = {}
    BY DEF Init, Frozen, Filed, Signers
<1>4. AllKept
    BY <1>3 DEF AllKept, Kept
<1>5. Stamped /\ Posted /\ Independent
    BY <1>1, <1>3 DEF Stamped, Posted, Independent, Init
<1> QED
    BY <1>2, <1>4, <1>5, SoundIsItsParts DEF SoundParts

\* Nothing that is stored changes: only the clock and the requests do.
LEMMA RequestKeeps ==
    ASSUME Sound, UNCHANGED <<revisions, opinions, publication, receipt, trail>>,
           live' \in BOOLEAN, clock' \in 0..MaxClock, clock <= clock', request' \in [Users -> Requests \cup {None}],
           \A u \in Users : request'[u] = request[u] \/ request'[u] = None
              \/ /\ request'[u].by = u /\ request'[u].act \in {"SAVE", "SIGN"}
                 /\ request'[u].at = clock' /\ clock < clock'
                 /\ request'[u].act = "SAVE" => request'[u].draft \in Drafts /\ request'[u].on \in Saved \cup {None}
                 /\ request'[u].act = "SIGN" => request'[u].on \in Saved
    PROVE  Sound'
<1>1. SoundParts
    BY SoundIsItsParts
<1>2. Saved' = Saved
    BY DEF Saved
<1>c. clock \in Nat /\ clock' \in Nat /\ clock <= clock'
    BY <1>1, BoundsAreNaturals DEF SoundParts, TypeOK
<1>3. TypeOK'
    BY <1>1, <1>2 DEF SoundParts, TypeOK, Frozen
<1>a. \A r \in Saved : revisions[r].at \in Nat
    <2>1. revisions \in Seq([by : Users, draft : Drafts, at : Nat])
        BY <1>1 DEF SoundParts, TypeOK
    <2>2. \A r \in Saved : revisions[r] \in [by : Users, draft : Drafts, at : Nat]
        BY <2>1, EntryIs DEF Saved
    <2> QED
        BY <2>2
<1>o. \A r \in Ids : \A o \in opinions[r] : o.at \in Nat
    BY <1>1 DEF SoundParts, TypeOK
<1>4. Stamped'
    BY <1>1, <1>2, <1>c, <1>a, <1>o DEF SoundParts, Stamped
<1>5. Posted'
    <2> SUFFICES ASSUME NEW u \in Users, request'[u] # None
                 PROVE  /\ request'[u].by = u /\ request'[u].act \in {"SAVE", "SIGN"} /\ request'[u].at <= clock'
                        /\ request'[u].act = "SAVE" =>
                             /\ request'[u].draft \in Drafts
                             /\ request'[u].on # None => request'[u].on \in Saved /\ revisions[request'[u].on].at < request'[u].at
                        /\ request'[u].act = "SIGN" => request'[u].on \in Saved
        BY <1>2 DEF Posted
    <2>1. CASE request'[u] = request[u]
        <3>1. request[u] # None /\ request[u] \in Requests /\ request[u].at \in Nat
            BY <1>1, <2>1 DEF SoundParts, TypeOK, Requests
        <3>2. request[u].at <= clock
            BY <1>1, <3>1 DEF SoundParts, Posted
        <3> QED
            BY <1>1, <1>c, <2>1, <3>1, <3>2 DEF SoundParts, Posted
    <2>2. CASE request'[u] # request[u]
        <3>1. \A r \in Saved : revisions[r].at <= clock
            BY <1>1 DEF SoundParts, Stamped
        <3> QED
            BY <1>c, <1>a, <2>2, <3>1
    <2> QED
        BY <2>1, <2>2
<1>6. Independent'
    BY <1>1, <1>2 DEF SoundParts, Independent, Signers
<1>7. AllKept'
    <2> SUFFICES ASSUME NEW r \in Ids PROVE Kept(r)'
        BY DEF AllKept, Ids
    <2> QED
        BY <1>1, Untouched DEF SoundParts, AllKept, Grown
<1> QED
    BY <1>3, <1>4, <1>5, <1>6, <1>7, SoundIsItsParts, PTL DEF SoundParts

\* A unit begins.
LEMMA BeginKeeps == ASSUME Sound, NEW u \in Users, Begin(u) PROVE Sound'
<1>1. TypeOK
    BY DEF Sound
<1>2. PICK act \in {"SAVE", "SIGN"} : \E q \in Posts(u, act) : request' = [request EXCEPT ![u] = q]
    BY DEF Begin
<1>3. PICK q \in Posts(u, act) : request' = [request EXCEPT ![u] = q]
    BY <1>2
<1>4. act \in Acts
    BY DEF Acts
<1>5. /\ q.act = act /\ q.by = u /\ q.version \in Versions /\ q.at = clock + 1 /\ q \in Requests
      /\ act = "SAVE" => q.on \in Saved \cup {None} /\ q.draft \in Drafts
      /\ act # "SAVE" => q.on \in Saved /\ q.reviewed \in Saved
    BY <1>1, <1>4, PostsAre
<1>6. request \in [Users -> Requests \cup {None}] /\ clock \in 0..MaxClock
    BY <1>1 DEF TypeOK
<1>7. clock' = clock + 1 /\ clock < MaxClock /\ UNCHANGED <<live, revisions, opinions, publication, receipt, trail>>
    BY DEF Begin, store
<1> QED
    BY <1>1, <1>3, <1>5, <1>6, <1>7, BoundsAreNaturals, RequestKeeps DEF TypeOK

\* What an act leaves of the requests, and of the revisions before it.
Acted(q) ==
    /\ q \in Requests /\ Sane(q) /\ clock' = clock
    /\ request' \in [Users -> Requests \cup {None}] /\ \A u \in Users : request'[u] \in {request[u], None}

\* An act leaves what else is in flight as sound as it was.
LEMMA PostedKeeps ==
    ASSUME SoundParts, NEW q, Acted(q), \A r \in Saved : r \in Saved' /\ revisions'[r] = revisions[r]
    PROVE  Posted'
<1> SUFFICES ASSUME NEW u \in Users, request'[u] # None
             PROVE  /\ request'[u].by = u /\ request'[u].act \in {"SAVE", "SIGN"} /\ request'[u].at <= clock'
                    /\ request'[u].act = "SAVE" =>
                         /\ request'[u].draft \in Drafts
                         /\ request'[u].on # None =>
                              request'[u].on \in Saved' /\ revisions'[request'[u].on].at < request'[u].at
                    /\ request'[u].act = "SIGN" => request'[u].on \in Saved'
    BY DEF Posted
<1>1. request'[u] = request[u] /\ request[u] # None /\ clock' = clock
    BY DEF Acted
<1>2. \A on : on \in Saved => on \in Saved' /\ revisions'[on].at = revisions[on].at
    OBVIOUS
<1> HIDE DEF Saved
<1> QED
    BY <1>1, <1>2 DEF SoundParts, Posted

\* Its event is the last of the chain.
LEMMA EventGrows ==
    ASSUME TypeOK, NEW q \in Requests, NEW r \in Ids, Event(q, r)
    PROVE  Grown /\ Does(q.act, q.by, r)' /\ trail' \in Seq([action : Acts, by : Users, revision : Ids])
           /\ Len(trail') = Len(trail) + 1 /\ trail'[Len(trail) + 1] = [action |-> q.act, by |-> q.by, revision |-> r]
<1> DEFINE E == [action : Acts, by : Users, revision : Ids]
           e == [action |-> q.act, by |-> q.by, revision |-> r]
<1>1. trail \in Seq(E) /\ e \in E /\ trail' = Append(trail, e)
    BY DEF TypeOK, Event, Requests
<1> HIDE DEF E, e
<1>2. trail' \in Seq(E) /\ Len(trail') = Len(trail) + 1 /\ trail'[Len(trail) + 1] = e /\ Len(trail) + 1 \in DOMAIN trail'
    BY <1>1
<1>3. Does(q.act, q.by, r)'
    BY <1>2 DEF Does, e
<1> QED
    BY <1>1, <1>2, <1>3 DEF E, e, Grown

\* A save is stamped after the head it was composed against, which still is the head.
LEMMA SaveKeeps == ASSUME Sound, NEW q, Acted(q), Answer(q) = "OK", SaveIn(q) PROVE Sound'
<1> DEFINE n == Len(revisions)
           V == [by : Users, draft : Drafts, at : Nat]
           new == [by |-> q.by, draft |-> q.draft, at |-> q.at]
<1>0. SoundParts
    BY SoundIsItsParts
<1>1. revisions \in Seq(V) /\ n \in Nat /\ Saved = 1..n /\ DOMAIN revisions = 1..n
    BY <1>0, EntryIs DEF SoundParts, TypeOK, Saved
<1>2. q.act = "SAVE" /\ q.by \in Users /\ q.draft \in Drafts /\ q.at \in Nat /\ q.at <= clock
      /\ (q.on # None => q.on \in Saved /\ revisions[q.on].at < q.at) /\ q \in Requests
    BY DEF Acted, Sane, SaveIn
<1>3. new \in V
    BY <1>2
<1>4. revisions' = Append(revisions, new) /\ n < MaxRevisions /\ Event(q, n + 1) /\ UNCHANGED <<live, opinions, publication, receipt>>
    BY DEF SaveIn
<1> HIDE DEF new, V
<1>5. revisions' \in Seq(V) /\ Len(revisions') = n + 1 /\ Saved' = 1..(n + 1) /\ revisions'[n + 1] = new
      /\ \A r \in 1..n : revisions'[r] = revisions[r]
    BY <1>1, <1>3, <1>4 DEF Saved
<1>6. n + 1 \in Ids /\ n + 1 \notin Saved
    BY <1>1, <1>4, BoundsAreNaturals DEF Ids
<1>7. Grown /\ trail' \in Seq([action : Acts, by : Users, revision : Ids])
    BY <1>0, <1>2, <1>4, <1>6, EventGrows DEF SoundParts
<1>8. \A r \in Saved : r \in Saved' /\ revisions'[r] = revisions[r]
    BY <1>1, <1>5
<1> HIDE DEF n
<1>9. TypeOK'
    <2>1. Len(revisions') <= MaxRevisions
        BY <1>1, <1>4, <1>5, BoundsAreNaturals
    <2>2. \A r \in Ids : (opinions'[r] # {} \/ publication'[r] # None) => r \in Saved'
        BY <1>0, <1>4, <1>8 DEF SoundParts, TypeOK, Frozen
    <2> QED
        BY <1>0, <1>4, <1>5, <1>7, <2>1, <2>2 DEF SoundParts, TypeOK, Acted, V, Frozen
<1>10. \A r \in 1..n : revisions[r].at \in Nat /\ revisions[r].at < q.at
    <2>1. \A r \in 1..n : revisions[r] \in V
        BY <1>1, EntryIs DEF n
    <2>2. \A r \in 1..n : revisions[r].at \in Nat
        BY <2>1 DEF V
    <2>3. Newest = q.on
        BY <1>2, SaveFinds
    <2>4. n # 0 => q.on = n
        BY <1>0, <1>1, <2>3, NewestIs DEF SoundParts, HeadIsLast, n
    <2>5. ASSUME n # 0 PROVE revisions[n].at < q.at
        <3>1. n \in Saved
            BY <1>1, <2>5
        <3> QED
            BY <1>2, <2>4, <2>5, <3>1, NoneIsNothing, <1>1
    <2>6. \A r \in 1..n : r < n => revisions[r].at < revisions[n].at
        BY <1>0, <1>1 DEF SoundParts, Stamped
    <2> QED
        BY <1>1, <1>2, <2>2, <2>5, <2>6
<1>11. new.at = q.at /\ new.by = q.by
    BY DEF new
<1>12. Stamped'
    <2>1. \A r \in Saved' : revisions'[r].at <= clock'
        BY <1>0, <1>1, <1>2, <1>5, <1>11 DEF SoundParts, Stamped, Acted
    <2>2. ASSUME NEW r \in Saved', NEW s \in Saved', r < s PROVE revisions'[r].at < revisions'[s].at
        <3>1. r \in 1..n /\ revisions'[r] = revisions[r]
            BY <1>1, <1>5, <2>2
        <3>2. CASE s = n + 1
            BY <1>5, <1>10, <1>11, <3>1, <3>2
        <3>3. CASE s # n + 1
            <4>1. s \in 1..n /\ revisions'[s] = revisions[s]
                BY <1>1, <1>5, <3>3
            <4> QED
                BY <1>0, <1>1, <2>2, <3>1, <4>1 DEF SoundParts, Stamped
        <3> QED
            BY <3>2, <3>3
    <2>3. \A r \in Ids : \A o \in opinions'[r] : o.at <= clock'
        BY <1>0, <1>4 DEF SoundParts, Stamped, Acted
    <2> QED
        BY <2>1, <2>2, <2>3 DEF Stamped
<1>13. Posted'
    BY <1>0, <1>8, PostedKeeps
<1>14. Independent'
    <2>1. opinions[n + 1] = {}
        BY <1>0, <1>6 DEF SoundParts, TypeOK
    <2>2. ASSUME NEW r \in Saved' PROVE revisions'[r].by \notin {o.by : o \in opinions'[r]}
        <3>1. CASE r = n + 1
            BY <1>4, <2>1, <3>1
        <3>2. CASE r # n + 1
            BY <1>0, <1>1, <1>4, <1>5, <2>2, <3>2 DEF SoundParts, Independent, Signers
        <3> QED
            BY <3>1, <3>2
    <2> QED
        BY <2>2 DEF Independent, Signers
<1>15. AllKept'
    <2> SUFFICES ASSUME NEW r \in Ids PROVE Kept(r)'
        BY DEF AllKept, Ids
    <2> QED
        BY <1>0, <1>4, <1>7, <1>8, Untouched DEF SoundParts, AllKept
<1> QED
    BY <1>9, <1>12, <1>13, <1>14, <1>15, SoundIsItsParts, PTL DEF SoundParts

\* A signature is of a revision nobody froze, and not of its author.
LEMMA SignKeeps == ASSUME Sound, NEW q, Acted(q), Answer(q) = "OK", SignIn(q) PROVE Sound'
<1> DEFINE new == [by |-> q.by, at |-> q.at]
<1>0. SoundParts
    BY SoundIsItsParts
<1>1. q.act = "SIGN" /\ q.by \in Users /\ q.at \in Nat /\ q.at <= clock /\ q.on \in Saved /\ q \in Requests
    BY DEF Acted, Sane, SignIn
<1>2. PICK on \in Ids : on = q.on /\ on \in Saved
    BY <1>0, <1>1, SavedAre DEF SoundParts
<1>3. q.by # revisions[on].by /\ ~Frozen(on)
    BY <1>1, <1>2, SignFinds
<1>4. opinions' = [opinions EXCEPT ![on] = @ \cup {new}] /\ Event(q, on) /\ UNCHANGED <<live, revisions, publication, receipt>>
    BY <1>2 DEF SignIn
<1>5. Grown /\ Does("SIGN", q.by, on)' /\ trail' \in Seq([action : Acts, by : Users, revision : Ids])
    BY <1>0, <1>1, <1>4, EventGrows DEF SoundParts
<1>6. opinions \in [Ids -> SUBSET [by : Users, at : Nat]] /\ new \in [by : Users, at : Nat] /\ new.by = q.by /\ new.at = q.at
    BY <1>0, <1>1 DEF SoundParts, TypeOK
<1> HIDE DEF new
<1>7. opinions'[on] = opinions[on] \cup {new} /\ \A r \in Ids : r # on => opinions'[r] = opinions[r]
    BY <1>4, <1>6
<1>8. opinions' \in [Ids -> SUBSET [by : Users, at : Nat]]
    BY <1>4, <1>6
<1>9. Saved' = Saved
    BY <1>4 DEF Saved
<1>10. TypeOK'
    <2>1. \A r \in Ids : (opinions'[r] # {} \/ publication'[r] # None) => r \in Saved'
        BY <1>0, <1>2, <1>4, <1>7, <1>9 DEF SoundParts, TypeOK, Frozen
    <2> QED
        BY <1>0, <1>4, <1>5, <1>8, <2>1 DEF SoundParts, TypeOK, Acted, Frozen
<1>11. Stamped'
    <2>1. \A r \in Ids : \A o \in opinions'[r] : o.at <= clock'
        BY <1>0, <1>1, <1>6, <1>7 DEF SoundParts, Stamped, Acted
    <2> QED
        BY <1>0, <1>4, <1>9, <2>1 DEF SoundParts, Stamped, Acted
<1>12. Posted'
    BY <1>0, <1>4, <1>9, PostedKeeps
<1>13. \A r \in Ids : Signers(r)' = IF r = on THEN Signers(r) \cup {q.by} ELSE Signers(r)
    BY <1>6, <1>7 DEF Signers
<1>14. Independent'
    <2>1. \A r \in Saved : r \in Ids
        BY <1>0, SavedAre DEF SoundParts
    <2>2. \A r \in Saved : revisions'[r].by \notin Signers(r)'
        BY <1>0, <1>3, <1>4, <1>13, <2>1 DEF SoundParts, Independent
    <2> QED
        BY <1>9, <2>2 DEF Independent
<1>15. AllKept'
    <2> SUFFICES ASSUME NEW r \in Ids PROVE Kept(r)'
        BY DEF AllKept, Ids
    <2>1. CASE r # on
        BY <1>0, <1>4, <1>5, <1>7, <2>1, Untouched DEF SoundParts, AllKept
    <2>2. CASE r = on
        <3>1. ~Frozen(r)' /\ ~Filed(r)'
            BY <1>3, <1>4, <2>2 DEF Frozen, Filed
        <3>2. ASSUME NEW who \in Signers(r)' PROVE Does("SIGN", who, r)'
            <4>1. CASE who = q.by
                BY <1>5, <2>2, <4>1
            <4>2. CASE who # q.by
                <5>1. who \in Signers(r)
                    BY <1>13, <2>2, <3>2, <4>2
                <5>2. Does("SIGN", who, r)
                    BY <1>0, <5>1 DEF SoundParts, AllKept, Kept
                <5> QED
                    BY <1>0, <1>5, <5>2, StillDoes DEF SoundParts
            <4> QED
                BY <4>1, <4>2
        <3> QED
            BY <3>1, <3>2 DEF Kept
    <2> QED
        BY <2>1, <2>2
<1> QED
    BY <1>10, <1>11, <1>12, <1>14, <1>15, SoundIsItsParts, PTL DEF SoundParts

\* What a freeze and a filing leave alone.
LEMMA PublishKeeps ==
    ASSUME SoundParts, NEW q, Acted(q), NEW on \in Ids, on \in Saved, Grown,
           trail' \in Seq([action : Acts, by : Users, revision : Ids]),
           UNCHANGED <<live, revisions, opinions>>,
           publication' \in [Ids -> Freezes \cup {None}], receipt' \in [Ids -> Filings \cup {None}],
           \A r \in Ids : r # on => publication'[r] = publication[r] /\ receipt'[r] = receipt[r],
           Kept(on)'
    PROVE  Sound'
<1>1. Saved' = Saved
    BY DEF Saved
<1>2. TypeOK'
    <2>1. \A r \in Ids : (opinions'[r] # {} \/ publication'[r] # None) => r \in Saved'
        BY <1>1 DEF SoundParts, TypeOK, Frozen
    <2> QED
        BY <2>1 DEF SoundParts, TypeOK, Acted, Frozen
<1>3. Stamped' /\ Independent'
    BY <1>1 DEF SoundParts, Stamped, Independent, Signers, Acted
<1>4. Posted'
    BY <1>1, PostedKeeps
<1>5. AllKept'
    <2> SUFFICES ASSUME NEW r \in Ids, r # on PROVE Kept(r)'
        BY DEF AllKept, Ids
    <2> QED
        BY Untouched DEF SoundParts, AllKept
<1> QED
    BY <1>2, <1>3, <1>4, <1>5, SoundIsItsParts, PTL DEF SoundParts

\* A freeze is by one who did not sign what someone did.
LEMMA FreezeKeeps == ASSUME Sound, NEW q, Acted(q), Answer(q) = "OK", FreezeIn(q) PROVE Sound'
<1>0. SoundParts
    BY SoundIsItsParts
<1>1. q.act = "FREEZE" /\ q.by \in Users /\ q.on \in Saved /\ q \in Requests
    BY DEF Acted, Sane, FreezeIn
<1>2. PICK on \in Ids : on = q.on /\ on \in Saved
    BY <1>0, <1>1, SavedAre DEF SoundParts
<1>3. opinions[on] # {} /\ q.by \notin Signers(on)
    BY <1>1, <1>2, FreezeFinds
<1> DEFINE new == [frozenBy |-> q.by, filedBy |-> None]
<1>4. publication' = [publication EXCEPT ![on] = new] /\ Event(q, on) /\ UNCHANGED <<live, revisions, opinions, receipt>>
    BY <1>2 DEF FreezeIn
<1>5. Grown /\ Does("FREEZE", q.by, on)' /\ trail' \in Seq([action : Acts, by : Users, revision : Ids])
    BY <1>0, <1>1, <1>4, EventGrows DEF SoundParts
<1>6. publication \in [Ids -> Freezes \cup {None}] /\ new \in Freezes /\ new.frozenBy = q.by /\ new.filedBy = None
    BY <1>0, <1>1 DEF SoundParts, TypeOK, Freezes
<1> HIDE DEF new
<1>7. publication' \in [Ids -> Freezes \cup {None}] /\ publication'[on] = new
      /\ \A r \in Ids : r # on => publication'[r] = publication[r]
    BY <1>4, <1>6
<1>8. Signers(on)' = Signers(on) /\ Signers(on) \in SUBSET Users
    BY <1>0, <1>4 DEF SoundParts, TypeOK, Signers
<1>9. Kept(on)'
    <2>1. ~Filed(on)'
        BY <1>6, <1>7 DEF Filed
    <2>2. revisions[on].by \notin Signers(on)
        BY <1>0, <1>2 DEF SoundParts, Independent
    <2>3. \A who \in Signers(on) : Does("SIGN", who, on)'
        BY <1>0, <1>5, StillDoes DEF SoundParts, AllKept, Kept
    <2>4. None # q.by /\ None \notin Users
        BY <1>1, NoneIsNothing
    <2> QED
        BY <1>3, <1>4, <1>5, <1>6, <1>7, <1>8, <2>1, <2>2, <2>3, <2>4 DEF Kept
<1> QED
    BY <1>0, <1>2, <1>4, <1>5, <1>7, <1>9, PublishKeeps DEF SoundParts, TypeOK

\* A filing is by a third, and its receipt is of the rows as they are.
LEMMA FileKeeps == ASSUME Sound, NEW q, Acted(q), Answer(q) = "OK", FileIn(q) PROVE Sound'
<1>0. SoundParts
    BY SoundIsItsParts
<1>1. q.act = "FILE" /\ q.by \in Users /\ q.on \in Saved /\ q \in Requests /\ q.version \in Versions
    BY DEF Acted, Sane, FileIn
<1>2. PICK on \in Ids : on = q.on /\ on \in Saved
    BY <1>0, <1>1, SavedAre DEF SoundParts
<1>3. Frozen(on) /\ opinions[on] # {} /\ q.by \notin Signers(on) \cup {publication[on].frozenBy}
    BY <1>1, <1>2, FilingFinds
<1> DEFINE n == Len(trail) + 1
           row == ReceiptOf(on, q.by, q.version, n)
           filing == [row |-> row, package |-> Packed(row, q.version)]
<1>4. /\ publication' = [publication EXCEPT ![on].filedBy = q.by] /\ Event(q, on)
      /\ receipt' = [receipt EXCEPT ![on] = filing] /\ UNCHANGED <<live, revisions, opinions>>
    BY <1>2 DEF FileIn
<1>5. /\ Grown /\ trail' \in Seq([action : Acts, by : Users, revision : Ids]) /\ Len(trail') = n
      /\ trail'[n] = [action |-> "FILE", by |-> q.by, revision |-> on]
    <2>1. TypeOK
        BY <1>0 DEF SoundParts
    <2>2. /\ Grown /\ trail' \in Seq([action : Acts, by : Users, revision : Ids]) /\ Len(trail') = n
          /\ trail'[n] = [action |-> q.act, by |-> q.by, revision |-> on]
        BY <1>1, <1>4, <2>1, EventGrows
    <2> QED
        BY <1>1, <2>2
<1>6. publication \in [Ids -> Freezes \cup {None}] /\ receipt \in [Ids -> Filings \cup {None}]
    BY <1>0 DEF SoundParts, TypeOK
<1>7. publication[on] \in Freezes
    BY <1>3, <1>6 DEF Frozen
<1> DEFINE new == [publication[on] EXCEPT !.filedBy = q.by]
<1>8. publication' = [publication EXCEPT ![on] = new]
    BY <1>4
<1>9. new \in Freezes /\ new.frozenBy = publication[on].frozenBy /\ new.filedBy = q.by /\ new.frozenBy \in Users
    BY <1>1, <1>7 DEF Freezes
<1> HIDE DEF new
<1>10. publication' \in [Ids -> Freezes \cup {None}] /\ publication'[on] = new
       /\ \A r \in Ids : r # on => publication'[r] = publication[r]
    BY <1>6, <1>8, <1>9
<1>11. n \in Nat \ {0}
    BY <1>0 DEF SoundParts, TypeOK
<1>12. LatestSigner(on) \in Users
    BY <1>0, <1>3, SignerIsOne DEF SoundParts, Stamped
<1> HIDE DEF n
<1>13. /\ row \in Receipts /\ row.filedBy = q.by /\ row.frozenBy = publication[on].frozenBy
       /\ row.renderer = q.version /\ row.event = n /\ row.signedBy = LatestSigner(on)
    BY <1>1, <1>9, <1>11, <1>12 DEF ReceiptOf, Receipts
<1>14. row = [revision |-> on, signedBy |-> LatestSigner(on), frozenBy |-> publication[on].frozenBy,
              filedBy |-> q.by, renderer |-> q.version, event |-> n]
    BY DEF ReceiptOf
<1> HIDE DEF row
<1>15. filing \in Filings /\ filing.row = row /\ filing.package = [receipt |-> row, renderer |-> q.version, export |-> q.version]
    BY <1>1, <1>13 DEF Filings, Packages, Packed
<1> HIDE DEF filing
<1>16. receipt' \in [Ids -> Filings \cup {None}] /\ receipt'[on] = filing /\ filing # None
       /\ \A r \in Ids : r # on => receipt'[r] = receipt[r]
    BY <1>4, <1>6, <1>15, NoneIsNoRow
<1>17. Signers(on)' = Signers(on) /\ LatestSigner(on)' = LatestSigner(on)
    BY <1>4 DEF Signers, LatestSigner
<1>18. Kept(on)'
    <2>1. /\ revisions[on].by \notin Signers(on) /\ publication[on].frozenBy \notin Signers(on)
          /\ \A who \in Signers(on) : Does("SIGN", who, on)
          /\ Does("FREEZE", publication[on].frozenBy, on)
        BY <1>0, <1>3 DEF SoundParts, AllKept, Kept
    <2>2. \A who \in Signers(on)' : Does("SIGN", who, on)'
        BY <1>0, <1>5, <1>17, <2>1, StillDoes DEF SoundParts
    <2>3. \A who : Does("FREEZE", who, on) => Does("FREEZE", who, on)'
        BY <1>0, <1>5, StillDoes DEF SoundParts
    <2>b. new # None
        BY <1>9, NoneIsNoRow
    <2>c. q.by # None
        BY <1>1, NoneIsNothing
    <2>4. Frozen(on)' /\ Filed(on)'
        BY <1>9, <1>10, <2>b, <2>c DEF Frozen, Filed
    <2>a. publication'[on].filedBy = q.by /\ publication'[on].frozenBy = publication[on].frozenBy /\ receipt'[on].row = row
        BY <1>9, <1>10, <1>15, <1>16
    <2>d. Does("FREEZE", publication[on].frozenBy, on)'
        BY <2>1, <2>3, <2>a DEF Does
    <2>5. row = ReceiptOf(on, publication[on].filedBy, receipt[on].row.renderer, receipt[on].row.event)'
        BY <1>13, <1>14, <1>17, <2>a DEF ReceiptOf
    <2>6. row.event <= Len(trail')
        BY <1>5, <1>11, <1>13
    <2>7. Receipted(on)'
        BY <1>3, <1>4, <1>5, <1>13, <1>16, <1>17, <2>a, <2>1, <2>2, <2>4, <2>5, <2>d, <2>6 DEF Receipted, Does
    <2>8. Verified(on)'
        BY <1>13, <1>15, <1>16 DEF Verified
    <2> QED
        BY <1>3, <1>4, <1>9, <1>10, <1>17, <2>1, <2>2, <2>4, <2>a, <2>d, <2>7, <2>8 DEF Kept
<1> QED
    BY <1>0, <1>2, <1>4, <1>5, <1>10, <1>16, <1>18, PublishKeeps

\* A withdrawal touches none of the rows.
LEMMA WithdrawKeeps == ASSUME Sound, Withdraw PROVE Sound'
<1>1. clock \in 0..MaxClock /\ clock <= clock /\ request \in [Users -> Requests \cup {None}]
    BY BoundsAreNaturals DEF Sound, TypeOK
<1>2. live' = FALSE /\ UNCHANGED <<clock, revisions, opinions, publication, receipt, trail, request>>
    BY DEF Withdraw
<1> QED
    BY <1>1, <1>2, RequestKeeps

-----------------------------------------------------------------------------
(* What follows.                                                           *)

\* Any act.
LEMMA ActKeeps == ASSUME Sound, NEW q, Acted(q), Answer(q) = "OK", Apply(q) PROVE Sound'
    BY SaveKeeps, SignKeeps, FreezeKeeps, FileKeeps DEF Apply

\* Any step.
LEMMA SoundIsKept == Sound /\ [Next]_vars => Sound'
<1> SUFFICES ASSUME Sound, [Next]_vars PROVE Sound'
    OBVIOUS
<1>0. request \in [Users -> Requests \cup {None}] /\ clock \in 0..MaxClock /\ live \in BOOLEAN /\ clock <= clock
    BY BoundsAreNaturals DEF Sound, TypeOK
<1>1. CASE UNCHANGED vars
    BY <1>0, <1>1, RequestKeeps DEF vars, store
<1>2. CASE \E u \in Users : Begin(u)
    BY <1>2, BeginKeeps
<1>3. CASE \E u \in Users : request' = [request EXCEPT ![u] = None] /\ UNCHANGED <<clock, store>>
    BY <1>0, <1>3, RequestKeeps DEF store
<1>4. ASSUME NEW u \in Users, NEW q \in Requests, Sane(q), Answer(q) = "OK", Apply(q), UNCHANGED clock,
             request' = request \/ request' = [request EXCEPT ![u] = None]
      PROVE  Sound'
    <2>1. Acted(q)
        BY <1>0, <1>4 DEF Acted
    <2> QED
        BY <1>4, <2>1, ActKeeps
<1>5. CASE Withdraw
    BY <1>5, WithdrawKeeps
<1> QED
    BY <1>1, <1>2, <1>3, <1>4, <1>5, Steps

\* So always.
THEOREM SoundHolds == Spec => []Sound
    BY SoundAtStart, SoundIsKept, PTL DEF Spec

\* Every row of the deliverables and every request in flight keeps its type, and no
\* signature or freeze is of a revision that was not saved (deliverable_opinions and
\* deliverable_publications reference deliverable_revisions).
THEOREM TypeCorrect == Spec => []TypeOK
<1>1. Sound => TypeOK
    BY DEF Sound
<1> QED
    BY <1>1, SoundHolds, PTL

\* transitions.py, receipt.py: in whatever order people act and sources go, what is filed
\* was filed by one who neither signed nor froze it, and its receipt and package are what the
\* rows and the chain say for ever after.
THEOREM FilingSoundHolds == Spec => []FilingSound
<1>1. Sound => FilingSound
    BY DEF Sound, FilingSound
<1> QED
    BY <1>1, SoundHolds, PTL

\* Only a filing makes a revision filed, of the head, proved and drawn by its own build.
LEMMA FilesAsProven ==
    Sound /\ [Next]_vars =>
        \A r \in Ids : Filed(r)' /\ ~Filed(r) =>
            r = Len(revisions) /\ live /\ Drift[receipt'[r].row.renderer][revisions[r].draft] = "OK"
<1> SUFFICES ASSUME Sound, [Next]_vars, NEW r \in Ids, Filed(r)', ~Filed(r)
             PROVE  r = Len(revisions) /\ live /\ Drift[receipt'[r].row.renderer][revisions[r].draft] = "OK"
    OBVIOUS
<1>0. TypeOK /\ Stamped
    BY DEF Sound
<1>1. publication' # publication
    BY DEF Filed, Frozen
<1>2. PICK u \in Users, q \in Requests : Sane(q) /\ Answer(q) = "OK" /\ Apply(q)
    BY <1>1, Steps DEF vars, store, Begin, Withdraw
<1>3. ~SaveIn(q) /\ ~SignIn(q)
    BY <1>1 DEF SaveIn, SignIn
<1>4. ~FreezeIn(q)
    <2> SUFFICES ASSUME FreezeIn(q) PROVE FALSE
        OBVIOUS
    <2>1. publication' = [publication EXCEPT ![q.on] = [frozenBy |-> q.by, filedBy |-> None]]
        BY DEF FreezeIn
    <2>2. CASE r = q.on
        BY <1>0, <2>1, <2>2 DEF TypeOK, Filed
    <2>3. CASE r # q.on
        BY <1>0, <2>1, <2>3 DEF TypeOK, Filed, Frozen
    <2> QED
        BY <2>2, <2>3
<1>5. FileIn(q)
    BY <1>2, <1>3, <1>4 DEF Apply
<1>6. q.act = "FILE" /\ publication' = [publication EXCEPT ![q.on].filedBy = q.by]
      /\ receipt' = [receipt EXCEPT ![q.on] =
            [row |-> ReceiptOf(q.on, q.by, q.version, Len(trail) + 1),
             package |-> Packed(ReceiptOf(q.on, q.by, q.version, Len(trail) + 1), q.version)]]
    BY <1>5 DEF FileIn
<1>7. r = q.on
    BY <1>0, <1>6 DEF TypeOK, Filed, Frozen
<1>8. Newest = q.on /\ live /\ Drift[q.version][revisions[q.on].draft] \notin {"RULE", "RENDER"}
    BY <1>2, <1>6, FilingFinds
<1>9. q.on \in Saved /\ q.version \in Versions
    BY <1>2, <1>6 DEF Sane
<1>10. revisions[r].draft \in Drafts
    <2>1. revisions \in Seq([by : Users, draft : Drafts, at : Nat])
        BY <1>0 DEF TypeOK
    <2>2. revisions[r] \in [by : Users, draft : Drafts, at : Nat]
        BY <1>7, <1>9, <2>1, EntryIs DEF Saved
    <2> QED
        BY <2>2
<1>11. Drift[q.version][revisions[r].draft] = "OK"
    BY <1>7, <1>8, <1>9, <1>10, DraftsJudged
<1>12. receipt'[r].row.renderer = q.version
    BY <1>0, <1>6, <1>7 DEF TypeOK, ReceiptOf
<1>13. revisions # <<>> /\ r = Len(revisions)
    BY <1>0, <1>7, <1>8, <1>9, NewestIs DEF HeadIsLast
<1> QED
    BY <1>8, <1>11, <1>12, <1>13

\* file_deliverable_in after prove_revision: what is filed is the newest revision, on
\* evidence that serves, by a build that proves and draws it, in the moment it is filed.
THEOREM FiledAsProvenHolds == Spec => FiledAsProven
<1>1. ASSUME Sound, [Next]_vars
      PROVE  \A r \in Ids : Filed(r)' /\ ~Filed(r) =>
                /\ r = Len(revisions)
                /\ live
                /\ Drift[receipt'[r].row.renderer][revisions[r].draft] = "OK"
    BY <1>1, FilesAsProven
<1> QED
    BY <1>1, SoundHolds, PTL DEF Spec, FiledAsProven

-----------------------------------------------------------------------------
(* The head is never left where nothing moves it on.                       *)

\* One who has done nothing signs the head nobody froze, files the frozen one that can be
\* filed, and saves over any other.
LEMMA HeadMoves ==
    ASSUME Sound, NEW v \in Versions, revisions # <<>>, live, NEW d \in Drafts, Drift[v][d] = "OK"
    PROVE  \E act \in Acts : Answer(Posting(Bystander, act, Newest, v, d)) = "OK"
<1> DEFINE Q(act) == Posting(Bystander, act, Newest, v, d)
           r == Newest
<1>0. TypeOK /\ Stamped /\ FiledByThree /\ r \in Saved /\ r \in Ids /\ r # None
    BY NewestIs, SavedAre DEF Sound
<1>1. \A act : /\ Q(act).act = act /\ Q(act).by = Bystander /\ Q(act).on = r /\ Q(act).reviewed = r
              /\ Q(act).draft = d /\ Q(act).version = v
    BY DEF Posting
<1>2. revisions[r].by \in Users
    <2>1. revisions \in Seq([by : Users, draft : Drafts, at : Nat])
        BY <1>0 DEF TypeOK
    <2>2. revisions[r] \in [by : Users, draft : Drafts, at : Nat]
        BY <1>0, <2>1, EntryIs DEF Saved
    <2> QED
        BY <2>2
<1>3. Bystander \notin Users
    BY UsersAreNumbered DEF Bystander
<1>4. Bystander \notin Signers(r)
    BY <1>0, <1>3 DEF TypeOK, Signers
<1> HIDE DEF Q, r
<1>5. CASE ~Frozen(r)
    <2>1. SignCode(Q("SIGN")) = "OK"
        BY <1>1, <1>2, <1>3, <1>4, <1>5, SignIs DEF r
    <2> QED
        BY <1>1, <2>1, Answers DEF Q, Acts, r
<1>6. CASE Frozen(r) /\ ~Filed(r) /\ Fileable(r, v)
    <2>1. opinions[r] # {} /\ publication[r].frozenBy # Bystander
        BY <1>0, <1>3, <1>6 DEF FiledByThree, TypeOK, Frozen, Freezes
    <2>2. FileCode(Q("FILE")) = "OK"
        BY <1>1, <1>4, <1>6, <2>1, FileIs DEF r, Fileable
    <2> QED
        BY <1>1, <1>6, <2>2, Answers DEF Q, Acts, r
<1>7. CASE Frozen(r) /\ (Filed(r) \/ ~Fileable(r, v))
    <2>1. ~Closed(r, v)
        BY <1>7 DEF Closed
    <2>2. SaveCode(Q("SAVE")) = "OK"
        BY <1>1, <2>1, SaveIs DEF r
    <2> QED
        BY <1>1, <2>2, Answers DEF Q, Acts, r
<1> QED
    BY <1>5, <1>6, <1>7

\* _latest, _fileable (N77): the head is the last revision saved, and while its evidence
\* serves and a draft passes, some act by a newcomer is answered OK in every build.
THEOREM HeadServesHolds == Spec => []HeadServes
<1>1. ASSUME Sound PROVE HeadServes
    <2>1. HeadIsLast
        BY <1>1, NewestIs DEF Sound
    <2>2. ASSUME NEW v \in Versions, revisions # <<>>, live, NEW d \in Drafts, Drift[v][d] = "OK"
          PROVE  \E act \in Acts, e \in Drafts : Answer(Posting(Bystander, act, Newest, v, e)) = "OK"
        BY <1>1, <2>2, HeadMoves
    <2> QED
        BY <2>1, <2>2 DEF HeadServes, WayForward
<1> QED
    BY <1>1, SoundHolds, PTL

-----------------------------------------------------------------------------
(* What the Report offers.                                                 *)

\* What proof and page refuse.
LEMMA ProveIs ==
    ASSUME NEW r, NEW v
    PROVE  /\ Prove(r, v) = IF ~live THEN "EVIDENCE_NOT_AVAILABLE"
                            ELSE IF Drift[v][revisions[r].draft] = "RULE" THEN "NARRATIVE_REFUSED" ELSE "OK"
           /\ Render(r, v) \in {"OK", "RENDER_REFUSED"}
           /\ Unfileable(r, v) = IF ~Frozen(r) \/ Filed(r) THEN "OK"
                                 ELSE IF Prove(r, v) # "OK" THEN Prove(r, v) ELSE Render(r, v)
    BY DEF Prove, Render, Unfileable

\* The offer of a save,
LEMMA SaveOffered ==
    ASSUME NEW u, NEW r \in Saved, NEW v \in Versions, ReportServed(r, v), NEW d \in Drafts, Drift[v][d] = "OK", r # None
    PROVE  SaveOffer(r, v) = Answer(Posting(u, "SAVE", r, v, d))
<1> DEFINE q == Posting(u, "SAVE", r, v, d)
           shut == Frozen(r) /\ ~Filed(r) /\ Unfileable(r, v) = "OK"
           moved == r # Newest
<1>1. q.act = "SAVE" /\ q.on = r /\ q.draft = d /\ q.version = v
    BY DEF Posting
<1> HIDE DEF q
<1>2. SaveOffer(r, v) = FirstRefusal(<< <<moved, "COMMAND_EXPECTATION_STALE">>, <<shut, "DELIVERABLE_ALREADY_FROZEN">> >>)
    BY Zenon DEF SaveOffer
<1> HIDE DEF shut, moved
<1>3. SaveOffer(r, v) = IF moved THEN "COMMAND_EXPECTATION_STALE" ELSE IF shut THEN "DELIVERABLE_ALREADY_FROZEN" ELSE "OK"
    BY <1>2, Of2
<1>4. live
    BY ProveIs DEF ReportServed
<1>5. shut <=> Closed(r, v)
    BY ProveIs DEF shut, Closed, Fileable
<1>6. SaveCode(q) = IF moved THEN "COMMAND_EXPECTATION_STALE" ELSE IF shut THEN "DELIVERABLE_ALREADY_FROZEN" ELSE "OK"
    BY <1>1, <1>4, <1>5, SaveIs DEF moved
<1> QED
    BY <1>1, <1>3, <1>6, Answers DEF q

\* of a signature,
LEMMA SignOffered ==
    ASSUME NEW u, NEW r \in Saved, NEW v
    PROVE  SignOffer(u, r) = Answer(Posting(u, "SIGN", r, v, None))
<1> DEFINE q == Posting(u, "SIGN", r, v, None)
           moved == r # Newest
           own == u = revisions[r].by
           shut == Frozen(r)
           again == u \in Signers(r)
<1>1. q.act = "SIGN" /\ q.on = r /\ q.reviewed = r /\ q.by = u
    BY DEF Posting
<1> HIDE DEF q
<1>2. SignOffer(u, r) = FirstRefusal(<< <<moved, "COMMAND_EXPECTATION_STALE">>, <<own, "APPROVER_NOT_INDEPENDENT">>,
            <<shut, "DELIVERABLE_ALREADY_FROZEN">>, <<again, "DELIVERABLE_ALREADY_SIGNED">> >>)
    BY Zenon DEF SignOffer
<1> HIDE DEF moved, own, shut, again
<1>3. SignOffer(u, r) = IF moved THEN "COMMAND_EXPECTATION_STALE" ELSE IF own THEN "APPROVER_NOT_INDEPENDENT"
            ELSE IF shut THEN "DELIVERABLE_ALREADY_FROZEN" ELSE IF again THEN "DELIVERABLE_ALREADY_SIGNED" ELSE "OK"
    BY <1>2, Of4
<1>4. SignCode(q) = IF moved THEN "COMMAND_EXPECTATION_STALE" ELSE IF own THEN "APPROVER_NOT_INDEPENDENT"
            ELSE IF shut THEN "DELIVERABLE_ALREADY_FROZEN" ELSE IF again THEN "DELIVERABLE_ALREADY_SIGNED" ELSE "OK"
    BY <1>1, SignIs DEF moved, own, shut, again
<1> QED
    BY <1>1, <1>3, <1>4, Answers DEF q

\* of a freeze,
LEMMA FreezeOffered ==
    ASSUME NEW u, NEW r \in Saved, NEW v, ReportServed(r, v), Render(r, v) = "OK"
    PROVE  FreezeOffer(u, r) = Answer(Posting(u, "FREEZE", r, v, None))
<1> DEFINE q == Posting(u, "FREEZE", r, v, None)
           moved == r # Newest
           shut == Frozen(r)
           bare == opinions[r] = {}
           signed == u \in Signers(r)
<1>1. q.act = "FREEZE" /\ q.on = r /\ q.reviewed = r /\ q.by = u /\ q.version = v
    BY DEF Posting
<1> HIDE DEF q
<1>2. FreezeOffer(u, r) = FirstRefusal(<< <<moved, "COMMAND_EXPECTATION_STALE">>, <<shut, "DELIVERABLE_ALREADY_FROZEN">>,
            <<bare, "DELIVERABLE_NOT_SIGNED">>, <<signed, "APPROVER_NOT_INDEPENDENT">> >>)
    BY Zenon DEF FreezeOffer
<1> HIDE DEF moved, shut, bare, signed
<1>3. FreezeOffer(u, r) = IF moved THEN "COMMAND_EXPECTATION_STALE" ELSE IF shut THEN "DELIVERABLE_ALREADY_FROZEN"
            ELSE IF bare THEN "DELIVERABLE_NOT_SIGNED" ELSE IF signed THEN "APPROVER_NOT_INDEPENDENT" ELSE "OK"
    BY <1>2, Of4
<1>4. Prove(r, v) = "OK" \/ shut
    BY DEF ReportServed, shut
<1>5. FreezeCode(q) = IF moved THEN "COMMAND_EXPECTATION_STALE" ELSE IF shut THEN "DELIVERABLE_ALREADY_FROZEN"
            ELSE IF bare THEN "DELIVERABLE_NOT_SIGNED" ELSE IF signed THEN "APPROVER_NOT_INDEPENDENT" ELSE "OK"
    BY <1>1, <1>4, FreezeIs DEF moved, shut, bare, signed
<1> QED
    BY <1>1, <1>3, <1>5, Answers DEF q

\* and of a filing is the answer to it.
LEMMA FileOffered ==
    ASSUME NEW u, NEW r \in Saved, NEW v, Fileable(r, v)
    PROVE  FileOffer(u, r, v) = Answer(Posting(u, "FILE", r, v, None))
<1> DEFINE q == Posting(u, "FILE", r, v, None)
           bare == opinions[r] = {}
           known == u \in Signers(r) \cup {publication[r].frozenBy}
           done == Filed(r)
           stuck == Unfileable(r, v) # "OK"
           why == Unfileable(r, v)
           rest == FirstRefusal(<< <<bare, "DELIVERABLE_NOT_SIGNED">>, <<known, "APPROVER_NOT_INDEPENDENT">>,
                        <<done, "DELIVERABLE_ALREADY_FILED">>, <<stuck, why>> >>)
<1>1. q.act = "FILE" /\ q.on = r /\ q.reviewed = r /\ q.by = u /\ q.version = v
    BY DEF Posting
<1> HIDE DEF q
<1>2. FileOffer(u, r, v) = IF r # Newest THEN "COMMAND_EXPECTATION_STALE"
                           ELSE IF ~Frozen(r) THEN "DELIVERABLE_NOT_FROZEN" ELSE rest
    BY Zenon DEF FileOffer
<1> HIDE DEF bare, known, done, stuck, why
<1>3. rest = IF bare THEN "DELIVERABLE_NOT_SIGNED" ELSE IF known THEN "APPROVER_NOT_INDEPENDENT"
             ELSE IF done THEN "DELIVERABLE_ALREADY_FILED" ELSE IF stuck THEN why ELSE "OK"
    BY Of4
<1>4. ~stuck
    BY ProveIs DEF stuck, Fileable
<1> HIDE DEF rest
<1>5. CASE ~Frozen(r)
    BY <1>1, <1>2, <1>5, FileUnfrozenIs DEF Fileable, q
<1>6. CASE Frozen(r)
    <2>1. FileCode(q) = IF r # Newest THEN "COMMAND_EXPECTATION_STALE" ELSE IF bare THEN "DELIVERABLE_NOT_SIGNED"
                        ELSE IF known THEN "APPROVER_NOT_INDEPENDENT"
                        ELSE IF done THEN "DELIVERABLE_ALREADY_FILED" ELSE "OK"
        BY <1>1, <1>6, FileIs DEF bare, known, done, Fileable
    <2>2. Answer(q) = FileCode(q)
        BY <1>1, <1>6, Answers
    <2> QED
        BY <1>2, <1>3, <1>4, <1>6, <2>1, <2>2 DEF q
<1> QED
    BY <1>5, <1>6

\* What a Report offers is answered so, in every state of the right types.
LEMMA OffersAnswered == ASSUME TypeOK PROVE ReportOffered
<1>1. None \notin Saved
    BY SavedAre
<1> QED
    BY <1>1, SaveOffered, SignOffered, FreezeOffered, FileOffered DEF ReportOffered

\* report_actions: what a Report it serves offers of save, sign, freeze and file is what
\* the command would answer, refusal for refusal, in whatever state the revision is.
THEOREM ReportOfferedHolds == Spec => []ReportOffered
    BY OffersAnswered, TypeCorrect, PTL

-----------------------------------------------------------------------------
(* The Book: what an entry states, and what a Model document says of it.   *)

first == x1
sources == x2
reader == x3
rows == x4
page == x5
Entry == [run : Book!Runs, live : BOOLEAN, figures : Book!Grids, reviewed : Book!Grids]
DigestType == [run : Book!Runs \cup {0}, artifacts : 0..Accepted, figures : Book!Grids]
DocType ==
    [step : Book!Found \cup {"rest", "visible", "row"}, asked : Book!Mine \cup {0},
     build : Builds, exclude : BOOLEAN, as : Book!Standings \cup {"granted"},
     title : {"", "case", "issuer"}, latest : {0, LatestRun}, run : Book!Runs \cup {0},
     complete : BOOLEAN, artifacts : 0..Accepted, digest : DigestType, offer : BOOLEAN]
FirstType == [accepted : 0..Accepted, complete : BOOLEAN]

LEMMA BookTypes ==
    Book!Typed <=>
        /\ first \in FirstType /\ sources \subseteq Book!Sources /\ reader \in Book!Standings
        /\ rows \in Seq(Entry) /\ page \in DocType
        /\ page.step \in Book!Found => page.run \in Book!Runs
    BY Zenon DEF Book!Typed, first, sources, reader, rows, page, Entry, DigestType, DocType, FirstType,
          Book!Unpinned

LEMMA BookParts ==
    Book!BookInv <=>
        /\ Book!Typed /\ Book!EntryAsReviewed /\ Book!OncePerRun
        /\ Book!Closed /\ Book!ReadsLast /\ Book!DigestShown /\ Book!GrantOfEntry
    BY DEF Book!BookInv

LEMMA EntriesAre ==
    ASSUME rows \in Seq(Entry)
    PROVE  /\ DOMAIN rows = 1..Len(rows) /\ Len(rows) \in Nat
           /\ \A i \in DOMAIN rows : rows[i] \in Entry /\ rows[i].run \in DOMAIN Case /\ rows[i].live \in BOOLEAN
<1>1. DOMAIN rows = 1..Len(rows) /\ Len(rows) \in Nat /\ \A i \in DOMAIN rows : rows[i] \in Entry
    OBVIOUS
<1>2. \A e \in Entry : e.run \in DOMAIN Case /\ e.live \in BOOLEAN
    BY DEF Entry, Book!Runs
<1> QED
    BY <1>1, <1>2

\* The later of two entries: by the date of its run, then by its number.
LEMMA LaterOrders ==
    ASSUME rows \in Seq(Entry)
    PROVE  /\ DOMAIN rows = 1..Len(rows) /\ Len(rows) \in Nat
           /\ \A i \in DOMAIN rows : ~Book!Later(i, i)
           /\ \A i, j \in DOMAIN rows : i # j => Book!Later(i, j) \/ Book!Later(j, i)
           /\ \A i, j, l \in DOMAIN rows : Book!Later(i, j) /\ Book!Later(j, l) => Book!Later(i, l)
<1> DEFINE d(i) == Dated[rows[i].run]
<1>1. DOMAIN rows = 1..Len(rows) /\ Len(rows) \in Nat
    OBVIOUS
<1>2. \A i \in DOMAIN rows : d(i) \in Nat
    <2>1. \A i \in DOMAIN rows : rows[i].run \in DOMAIN Case
        BY EntriesAre
    <2>2. Dated \in [DOMAIN Case -> Nat]
        BY BookIsOfRuns
    <2> QED
        BY <2>1, <2>2
<1>3. \A i, j : Book!Later(i, j) <=> d(i) > d(j) \/ (d(i) = d(j) /\ i > j)
    BY DEF Book!Later, rows
<1> HIDE DEF d
<1>4. \A i \in DOMAIN rows : i \in Nat
    BY <1>1
<1>5. \A i \in DOMAIN rows : ~Book!Later(i, i)
    BY <1>2, <1>3, <1>4
<1>6. \A i, j \in DOMAIN rows : i # j => Book!Later(i, j) \/ Book!Later(j, i)
    BY <1>2, <1>3, <1>4
<1>7. \A i, j, l \in DOMAIN rows : Book!Later(i, j) /\ Book!Later(j, l) => Book!Later(i, l)
    BY <1>2, <1>3, <1>4
<1> QED
    BY <1>1, <1>5, <1>6, <1>7

\* The same numbers, and the same sizes.
LEMMA BookCounts == \A S : Book!Cardinality(S) = Cardinality(S)
    BY Zenon DEF Book!Cardinality, Cardinality

\* Some of the entries, and how many there may be.
LEMMA SomeEntries ==
    ASSUME rows \in Seq(Entry), NEW S \in SUBSET DOMAIN rows
    PROVE  /\ IsFiniteSet(S) /\ Cardinality(S) \in Nat
           /\ \A T \in SUBSET S : Cardinality(T) <= Cardinality(S)
           /\ \A T \in SUBSET S : \A i \in S \ T : Cardinality(T) + 1 <= Cardinality(S)
           /\ \A T \in SUBSET S : \A i, j \in S \ T : i # j => Cardinality(T) + 2 <= Cardinality(S)
<1>1. IsFiniteSet(DOMAIN rows)
    BY FS_Interval, LaterOrders
<1>2. IsFiniteSet(S) /\ Cardinality(S) \in Nat
    BY <1>1, FS_Subset, FS_CardinalityType
<1>3. \A T \in SUBSET S : IsFiniteSet(T) /\ Cardinality(T) \in Nat /\ Cardinality(T) <= Cardinality(S)
    BY <1>2, FS_Subset, FS_CardinalityType
<1>4. \A T \in SUBSET S : \A i \in S \ T : T \cup {i} \in SUBSET S /\ Cardinality(T \cup {i}) = Cardinality(T) + 1
    BY <1>3, FS_AddElement
<1>5. \A T \in SUBSET S : \A i \in S \ T : Cardinality(T) + 1 <= Cardinality(S)
    BY <1>3, <1>4
<1>6. ASSUME NEW T \in SUBSET S, NEW i \in S \ T, NEW j \in S \ T, i # j
      PROVE  Cardinality(T) + 2 <= Cardinality(S)
    <2> DEFINE U == T \cup {i}
    <2>1. U \in SUBSET S /\ Cardinality(U) = Cardinality(T) + 1 /\ j \in S \ U
        BY <1>4, <1>6
    <2> HIDE DEF U
    <2>2. Cardinality(U) + 1 <= Cardinality(S)
        BY <2>1, <1>5
    <2>3. Cardinality(T) \in Nat
        BY <1>3
    <2> QED
        BY <2>1, <2>2, <2>3, <1>2
<1> QED
    BY <1>2, <1>3, <1>5, <1>6

\* An issuer's entries in the order its row is chosen by: the live ones first, then the later.
Before(j, i) == (rows[j].live /\ ~rows[i].live) \/ (rows[j].live = rows[i].live /\ Book!Later(j, i))

LEMMA RanksCount ==
    ASSUME rows \in Seq(Entry), NEW i \in DOMAIN rows
    PROVE  /\ Book!ShownRank(i) = 1 <=> \A j \in Book!Peers(i) : ~Before(j, i)
           /\ Book!NewestRank(i) = 1 + Cardinality({j \in Book!Peers(i) : Book!Later(j, i)})
<1> DEFINE B == {j \in Book!Peers(i) : Before(j, i)}
<1>1. Book!Peers(i) \subseteq DOMAIN rows
    BY DEF Book!Peers, Book!Numbered, rows
<1>2. Book!ShownRank(i) = 1 + Cardinality(B) /\ Book!NewestRank(i) = 1 + Cardinality({j \in Book!Peers(i) : Book!Later(j, i)})
    BY BookCounts, Zenon DEF Book!ShownRank, Book!NewestRank, Before, rows
<1>3. IsFiniteSet(B) /\ Cardinality(B) \in Nat
    BY <1>1, SomeEntries
<1>4. Cardinality(B) = 0 <=> B = {}
    BY <1>3, FS_EmptySet
<1> HIDE DEF B
<1>5. Book!ShownRank(i) = 1 <=> B = {}
    BY <1>2, <1>3, <1>4
<1>6. B = {} <=> \A j \in Book!Peers(i) : ~Before(j, i)
    BY DEF B
<1> QED
    BY <1>2, <1>5, <1>6

\* What is displayed of an issuer: one entry, live, and the newest of those that are.
LEMMA ShownIsOne ==
    ASSUME rows \in Seq(Entry), NEW k \in Book!KeysFound
    PROVE  LET all == {i \in Book!Numbered : Book!Key(i) = k}
               shown == {i \in all : Book!ShownRank(i) = 1}
           IN  \E i \in all : /\ shown = {i} /\ rows[i].live
                             /\ \A j \in all \ {i} : rows[j].live => Book!Later(i, j)
<1> DEFINE all == {i \in Book!Numbered : Book!Key(i) = k}
           shown == {i \in all : Book!ShownRank(i) = 1}
<1>1. PICK i \in Book!Numbered : k = Book!Key(i) /\ Book!ShownRank(i) = 1 /\ rows[i].live
    BY DEF Book!KeysFound, Book!Displays, rows
<1>2. Book!Numbered = DOMAIN rows /\ i \in all /\ all \subseteq DOMAIN rows
    BY <1>1 DEF Book!Numbered, rows
<1>3. \A j \in all : Book!Peers(j) = all
    BY DEF Book!Peers
<1>4. \A j \in all : Book!ShownRank(j) = 1 <=> \A l \in all : ~Before(l, j)
    BY <1>2, <1>3, RanksCount
<1>5. \A j \in DOMAIN rows : rows[j].live \in BOOLEAN
    BY EntriesAre
<1> HIDE DEF all
<1>6. \A j \in all \ {i} : rows[j].live => Book!Later(i, j)
    <2> SUFFICES ASSUME NEW j \in all \ {i}, rows[j].live PROVE Book!Later(i, j)
        OBVIOUS
    <2>1. ~Before(j, i)
        BY <1>1, <1>2, <1>4
    <2>2. rows[j].live = rows[i].live
        BY <1>1, <1>2, <1>5
    <2>3. ~Book!Later(j, i)
        BY <2>1, <2>2 DEF Before
    <2> QED
        BY <2>3, <1>2, LaterOrders
<1>7. \A j \in all \ {i} : Before(i, j)
    <2> SUFFICES ASSUME NEW j \in all \ {i} PROVE Before(i, j)
        OBVIOUS
    <2>1. CASE rows[j].live
        <3>1. rows[j].live = rows[i].live
            BY <1>1, <1>2, <1>5, <2>1
        <3> QED
            BY <3>1, <2>1, <1>6 DEF Before
    <2>2. CASE ~rows[j].live
        BY <1>1, <2>2 DEF Before
    <2> QED
        BY <2>1, <2>2
<1>8. shown = {i}
    BY <1>1, <1>2, <1>4, <1>7
<1> QED
    BY <1>1, <1>2, <1>6, <1>8 DEF all

\* The history is the newest of the others, and what it leaves out is more than it may hold.
LEMMA HistoryIsNewest ==
    ASSUME rows \in Seq(Entry), NEW k \in Book!KeysFound
    PROVE  LET all == {i \in Book!Numbered : Book!Key(i) = k}
               shown == {i \in all : Book!ShownRank(i) = 1}
           IN  /\ Book!HistoryOf(k) \subseteq all
               /\ \A i \in Book!HistoryOf(k), j \in all \ (Book!HistoryOf(k) \cup shown) : Book!Later(i, j)
               /\ all # Book!HistoryOf(k) \cup shown => Book!HistoryCut(k)
<1> DEFINE all == {i \in Book!Numbered : Book!Key(i) = k}
           shown == {i \in all : Book!ShownRank(i) = 1}
           rest == {i \in Book!RowsFound(k) : Book!ShownRank(i) # 1}
           Above(i) == {j \in all : Book!Later(j, i)}
           Over(i) == {j \in rest : Book!Later(j, i)}
           a(i) == Cardinality(Above(i))
           o(i) == Cardinality(Over(i))
           n == Cardinality(all)
<1>1. PICK i0 \in all : shown = {i0}
    BY ShownIsOne
<1>2. Book!Numbered = DOMAIN rows /\ all \subseteq DOMAIN rows /\ History \in Nat
    BY BookIsOfRuns DEF Book!Numbered, rows
<1>3. Book!HistoryOf(k) = {i \in rest : o(i) < History}
    BY BookCounts, Zenon DEF Book!HistoryOf
<1>4. Book!HistoryCut(k) <=> n - 1 > History
    BY BookCounts, Zenon DEF Book!HistoryCut
<1>5. \A i \in all : Book!NewestRank(i) = 1 + a(i)
    <2>1. \A i \in all : Book!Peers(i) = all
        BY DEF Book!Peers
    <2> QED
        BY <2>1, <1>2, RanksCount
<1>6. rest = {i \in all \ {i0} : Book!NewestRank(i) <= History + 1}
    BY <1>1 DEF Book!RowsFound
<1> HIDE DEF all, shown, rest
<1>7. rest \subseteq all \ {i0}
    BY <1>6
<1>8. \A i : Above(i) \in SUBSET DOMAIN rows /\ Over(i) \in SUBSET Above(i)
    BY <1>2, <1>7
<1>9. (\A i : a(i) \in Nat /\ o(i) \in Nat) /\ n \in Nat
    BY <1>8, <1>2, SomeEntries
<1>10. \A i \in all : ~Book!Later(i, i)
    BY <1>2, LaterOrders
<1>11. \A i, j \in all : Book!Later(j, i) =>
            Above(j) \in SUBSET Above(i) /\ Over(j) \in SUBSET Over(i)
    <2> SUFFICES ASSUME NEW i \in all, NEW j \in all, Book!Later(j, i)
                 PROVE  \A l \in all : Book!Later(l, j) => Book!Later(l, i)
        BY <1>7
    <2> QED
        BY <1>2, LaterOrders
<1>12. \A i, j \in all : Book!Later(j, i) => a(j) <= a(i) /\ o(j) <= o(i)
    <2>1. \A i : Above(i) \in SUBSET DOMAIN rows /\ Over(i) \in SUBSET DOMAIN rows
        BY <1>8
    <2> QED
        BY <2>1, <1>11, SomeEntries
<1>13. \A x \in all \ {i0} : a(x) + 1 <= n /\ o(x) + 2 <= n
    <2> SUFFICES ASSUME NEW x \in all \ {i0} PROVE a(x) + 1 <= n /\ o(x) + 2 <= n
        OBVIOUS
    <2>1. Above(x) \in SUBSET all /\ x \in all \ Above(x)
        BY <1>10
    <2>2. Over(x) \in SUBSET all /\ x \in all \ Over(x) /\ i0 \in all \ Over(x) /\ x # i0
        BY <1>7, <1>10
    <2> QED
        BY <2>1, <2>2, <1>2, SomeEntries
<1> HIDE DEF Above, Over, a, o, n
<1>14. \A i \in all \ {i0} : i \in rest <=> a(i) <= History
    <2>1. \A i \in all \ {i0} : i \in rest <=> 1 + a(i) <= History + 1
        BY <1>5, <1>6
    <2> QED
        BY <2>1, <1>2, <1>9
<1>15. ASSUME NEW i \in Book!HistoryOf(k), NEW j \in all \ (Book!HistoryOf(k) \cup shown)
       PROVE  Book!Later(i, j)
    <2>1. i \in rest /\ o(i) < History /\ j \in all \ {i0} /\ i \in all \ {i0} /\ i # j
        BY <1>1, <1>3, <1>7, <1>15
    <2> SUFFICES ASSUME Book!Later(j, i) PROVE FALSE
        BY <2>1, <1>2, LaterOrders
    <2>2. a(j) <= a(i) /\ o(j) <= o(i) /\ a(i) <= History
        BY <1>12, <1>14, <2>1
    <2>3. j \notin rest \/ ~(o(j) < History)
        BY <1>3, <1>15
    <2>4. a(i) \in Nat /\ a(j) \in Nat /\ o(i) \in Nat /\ o(j) \in Nat /\ History \in Nat
        BY <1>2, <1>9
    <2>5. a(j) <= History
        BY <2>2, <2>4
    <2>6. j \in rest
        BY <1>14, <2>1, <2>5
    <2>7. o(j) < History
        BY <2>1, <2>2, <2>4
    <2> QED
        BY <2>3, <2>6, <2>7
<1>16. ASSUME all # Book!HistoryOf(k) \cup shown
       PROVE  n - 1 > History
    <2>1. PICK x \in all \ {i0} : x \notin Book!HistoryOf(k)
        BY <1>1, <1>3, <1>7, <1>16
    <2>2. a(x) + 1 <= n /\ o(x) + 2 <= n /\ a(x) \in Nat /\ o(x) \in Nat /\ n \in Nat /\ History \in Nat
        BY <1>2, <1>9, <1>13, <2>1
    <2>3. ~(a(x) <= History) \/ ~(o(x) < History)
        BY <1>3, <1>14, <2>1
    <2>4. CASE ~(a(x) <= History)
        BY <2>2, <2>4
    <2>5. CASE ~(o(x) < History)
        BY <2>2, <2>5
    <2> QED
        BY <2>3, <2>4, <2>5
<1>17. Book!HistoryOf(k) \subseteq all
    BY <1>3, <1>7
<1>18. \A i \in Book!HistoryOf(k), j \in all \ (Book!HistoryOf(k) \cup shown) : Book!Later(i, j)
    BY <1>15
<1>19. all # Book!HistoryOf(k) \cup shown => Book!HistoryCut(k)
    BY <1>4, <1>16
<1> QED
    BY <1>17, <1>18, <1>19 DEF all, shown

\* The page is sound, whatever the entries are.
LEMMA PageHolds == ASSUME rows \in Seq(Entry) PROVE Book!PageSound
<1> SUFFICES ASSUME NEW k \in Book!KeysServed(Issuers)
             PROVE  LET all == {i \in Book!Numbered : Book!Key(i) = k}
                        shown == {i \in all : Book!ShownRank(i) = 1}
                    IN  /\ \A i \in shown : rows[i].live /\ \A j \in all \ {i} : rows[j].live => Book!Later(i, j)
                        /\ Cardinality(shown) = 1
                        /\ \A i \in Book!HistoryOf(k), j \in all \ (Book!HistoryOf(k) \cup shown) : Book!Later(i, j)
                        /\ all # Book!HistoryOf(k) \cup shown => Book!Truncated
    BY BookCounts, Zenon DEF Book!PageSound, rows
<1> DEFINE all == {i \in Book!Numbered : Book!Key(i) = k}
           shown == {i \in all : Book!ShownRank(i) = 1}
<1>1. k \in Book!KeysFound
    BY DEF Book!KeysServed
<1>2. PICK i0 \in all : /\ shown = {i0} /\ rows[i0].live
                       /\ \A j \in all \ {i0} : rows[j].live => Book!Later(i0, j)
    BY <1>1, ShownIsOne
<1>3. /\ \A i \in Book!HistoryOf(k), j \in all \ (Book!HistoryOf(k) \cup shown) : Book!Later(i, j)
      /\ all # Book!HistoryOf(k) \cup shown => Book!HistoryCut(k)
    BY <1>1, HistoryIsNewest
<1>4. Book!HistoryCut(k) => Book!Truncated
    BY DEF Book!Truncated
<1> HIDE DEF all, shown
<1>5. Cardinality(shown) = 1
    BY <1>2, FS_Singleton, Zenon
<1>6. \A i \in shown : rows[i].live /\ \A j \in all \ {i} : rows[j].live => Book!Later(i, j)
    BY <1>2
<1>7. /\ \A i \in shown : rows[i].live /\ \A j \in all \ {i} : rows[j].live => Book!Later(i, j)
      /\ Cardinality(shown) = 1
      /\ \A i \in Book!HistoryOf(k), j \in all \ (Book!HistoryOf(k) \cup shown) : Book!Later(i, j)
      /\ all # Book!HistoryOf(k) \cup shown => Book!Truncated
    BY <1>3, <1>4, <1>5, <1>6
<1> QED
    BY <1>7 DEF all, shown

-----------------------------------------------------------------------------
(* What a Model's read finds.                                              *)

\* The fields of a document, each in its type.
LEMMA DocFields ==
    ASSUME page \in DocType
    PROVE  /\ page.step \in Book!Found \cup {"rest", "visible", "row"} /\ page.asked \in Book!Mine \cup {0}
           /\ page.build \in Builds /\ page.exclude \in BOOLEAN /\ page.as \in Book!Standings \cup {"granted"}
           /\ page.title \in {"", "case", "issuer"} /\ page.latest \in {0, LatestRun}
           /\ page.run \in Book!Runs \cup {0} /\ page.complete \in BOOLEAN /\ page.artifacts \in 0..Accepted
           /\ page.digest \in DigestType /\ page.offer \in BOOLEAN
    BY DEF DocType

\* What is not there yet.
LEMMA NoDocIs ==
    /\ Book!NoDoc \in DocType /\ Book!NoDoc.step = "rest" /\ ~Book!NoDoc.complete /\ ~Book!NoDoc.offer
    /\ Book!NoDoc.as = "none" /\ Book!NoDoc.digest = Book!NoDigest /\ Book!NoDigest \in DigestType
<1>1. (CHOOSE b \in Builds : TRUE) \in Builds /\ 0 \in 0..Accepted
    BY BookIsOfRuns
<1>2. Book!NoDigest \in DigestType
    BY <1>1 DEF Book!NoDigest, DigestType, Book!Grids
<1> QED
    BY <1>1, <1>2 DEF Book!NoDoc, DocType, Book!Standings, Book!Unpinned

LEMMA FiguresAreGrids ==
    \A b \in Builds, r \in Book!Runs, exclude \in BOOLEAN : Book!Figures(b, r, exclude) \in Book!Grids
<1> TAKE b \in Builds, r \in Book!Runs, exclude \in BOOLEAN
<1>1. Computes(b, r) \in {Computes(b, q) : q \in Book!Runs}
    OBVIOUS
<1>2. {Computes(b, q) : q \in Book!Runs} \in {{Computes(c, q) : q \in Book!Runs} : c \in Builds}
    OBVIOUS
<1>3. Computes(b, r) \in UNION {{Computes(c, q) : q \in Book!Runs} : c \in Builds}
    BY <1>1, <1>2
<1>4. [by |-> Computes(b, r), exclude |-> exclude] \in Book!Grids
    BY <1>3 DEF Book!Grids
<1> QED
    BY <1>4 DEF Book!Figures, Book!Grids

\* The digest of a document is of it, and one over no artifact is none.
LEMMA DigestIs ==
    ASSUME page \in DocType, page.run \in Book!Runs
    PROVE  /\ Book!DigestServed \in DigestType
           /\ Book!DigestServed # Book!NoDigest =>
                /\ page.artifacts # 0 /\ ~page.exclude /\ page.as # "granted"
                /\ Book!Figures(page.build, page.run, page.exclude) # NoGrid
                /\ Book!DigestServed =
                    Book!Snapshot(page.run, page.artifacts, Book!Figures(page.build, page.run, page.exclude))
<1>1. Book!Figures(page.build, page.run, page.exclude) \in Book!Grids
    <2>1. page.build \in Builds /\ page.exclude \in BOOLEAN
        BY DocFields
    <2> QED
        BY <2>1, FiguresAreGrids
<1>2. Book!Snapshot(page.run, page.artifacts, Book!Figures(page.build, page.run, page.exclude)) \in DigestType
    BY <1>1, DocFields DEF Book!Snapshot, DigestType
<1>3. /\ Book!DigestServed = Book!NoDigest
         \/ /\ page.artifacts # 0 /\ ~page.exclude /\ page.as # "granted"
            /\ Book!Figures(page.build, page.run, page.exclude) # NoGrid
            /\ Book!DigestServed =
                Book!Snapshot(page.run, page.artifacts, Book!Figures(page.build, page.run, page.exclude))
    BY Zenon DEF Book!DigestServed, Book!Granted, page
<1> QED
    BY <1>2, <1>3, NoDocIs

\* The parts of what is settled of a document, for a step of the read.
LEMMA ArtifactsAre ==
    ASSUME first \in FirstType, NEW r
    PROVE  Book!Artifacts(r) \in 0..Accepted /\ Book!Complete(r) \in BOOLEAN
<1>1. Accepted \in Nat /\ Accepted \in 0..Accepted
    BY BookIsOfRuns
<1>2. first.accepted \in 0..Accepted /\ first.complete \in BOOLEAN
    BY DEF FirstType
<1> QED
    BY <1>1, <1>2 DEF Book!Artifacts, Book!Complete, first

\* A read's step leaves the rows as they are.
LEMMA ReadKeeps ==
    ASSUME Book!BookInv, UNCHANGED <<first, sources, reader, rows>>,
           page' \in DocType, page'.step \in Book!Found => page'.run \in Book!Runs,
           Book!ReadsLast', Book!DigestShown', Book!GrantOfEntry'
    PROVE  Book!BookInv'
<1>1. Book!Typed'
    BY BookParts, BookTypes DEF Book!Typed, first, sources, reader, rows, page, DocType, DigestType, Book!Unpinned
<1>2. Book!EntryAsReviewed' /\ Book!OncePerRun'
    BY BookParts DEF Book!EntryAsReviewed, Book!OncePerRun, Book!Numbered, rows
<1>3. Book!Closed'
    BY BookParts DEF Book!Closed, first
<1> QED
    BY <1>1, <1>2, <1>3 DEF Book!BookInv

\* A document that has found nothing yet.
LEMMA NothingFound ==
    ASSUME Book!BookInv, UNCHANGED <<first, sources, reader, rows>>, page' \in DocType,
           page'.step \notin Book!Found, ~page'.complete, ~page'.offer,
           page'.digest = Book!NoDigest, page'.as = "none"
    PROVE  Book!BookInv'
<1>1. Book!ReadsLast'
    BY DEF Book!ReadsLast, page
<1>2. Book!DigestShown'
    BY DEF Book!DigestShown, Book!Found, page, Book!NoDigest
<1>3. Book!GrantOfEntry'
    BY DEF Book!GrantOfEntry, Book!Granted, page
<1> QED
    BY <1>1, <1>2, <1>3, ReadKeeps

LEMMA AskForFinds ==
    ASSUME Book!BookInv, NEW r \in Book!Mine \cup {Book!Unpinned}, NEW b \in Builds, NEW exclude \in BOOLEAN,
           Book!AskFor(r, b, exclude)
    PROVE  Book!BookInv'
<1>1. page' = [Book!NoDoc EXCEPT !.step = "visible", !.asked = r, !.build = b, !.exclude = exclude]
      /\ UNCHANGED <<first, sources, reader, rows>>
    BY DEF Book!AskFor, page, first, sources, reader, rows
<1>2. /\ page' \in DocType /\ page'.step = "visible" /\ ~page'.complete /\ ~page'.offer
      /\ page'.digest = Book!NoDigest /\ page'.as = "none"
    BY <1>1, NoDocIs DEF DocType, Book!Unpinned
<1>3. page'.step \notin Book!Found
    BY <1>2 DEF Book!Found
<1> QED
    BY <1>1, <1>2, <1>3, NothingFound

LEMMA RefusedFinds ==
    ASSUME Book!BookInv, UNCHANGED <<first, sources, reader, rows>>, Book!Refused
    PROVE  Book!BookInv'
<1>1. page' = Book!NoDoc
    BY DEF Book!Refused, page
<1>2. Book!NoDoc.step \notin Book!Found
    BY NoDocIs DEF Book!Found
<1> QED
    BY <1>1, <1>2, NoDocIs, NothingFound

LEMMA VisibleFinds == ASSUME Book!BookInv, Book!Visible PROVE Book!BookInv'
<1>1. page.step = "visible" /\ UNCHANGED <<first, sources, reader, rows>>
    BY DEF Book!Visible, Book!Reads, page, first, sources, reader, rows
<1>2. page \in DocType /\ reader \in Book!Standings
    BY BookParts, BookTypes
<1>3. ~page.offer /\ page.digest = Book!NoDigest
    BY <1>1, BookParts DEF Book!DigestShown, page
<1>4. PICK as \in Book!Standings \cup {"granted"} :
        \/ Book!Refused
        \/ /\ page' = [page EXCEPT !.as = as, !.step = "row"]
           /\ as # "granted" \/ (as = "granted" /\ page.asked # 0 /\ Book!LiveEntry(page.asked))
    <2>1. CASE reader # "none"
        <3>1. page' = [page EXCEPT !.as = reader, !.step = "row"]
            BY <2>1 DEF Book!Visible, Book!Go, page, reader
        <3>2. reader # "granted"
            BY <1>2 DEF Book!Standings
        <3> QED
            BY <1>2, <3>1, <3>2
    <2>2. CASE reader = "none" /\ page.asked # 0 /\ Book!LiveEntry(page.asked)
        <3>1. page' = [page EXCEPT !.as = "granted", !.step = "row"]
            BY <2>2 DEF Book!Visible, Book!Go, page, reader, Book!Unpinned
        <3> QED
            BY <2>2, <3>1
    <2>3. CASE reader = "none" /\ ~(page.asked # 0 /\ Book!LiveEntry(page.asked))
        BY <2>3, Zenon DEF Book!Visible, page, reader, Book!Unpinned
    <2> QED
        BY <2>1, <2>2, <2>3
<1>5. CASE Book!Refused
    BY <1>1, <1>5, RefusedFinds
<1>6. CASE /\ page' = [page EXCEPT !.as = as, !.step = "row"]
           /\ as # "granted" \/ (as = "granted" /\ page.asked # 0 /\ Book!LiveEntry(page.asked))
    <2>1. page' \in DocType /\ page'.step = "row" /\ page'.as = as
        BY <1>2, <1>6 DEF DocType
    <2>2. /\ page'.asked = page.asked /\ page'.complete = page.complete /\ page'.run = page.run
          /\ page'.digest = page.digest /\ page'.offer = page.offer /\ page'.latest = page.latest
        BY <1>2, <1>6 DEF DocType
    <2>3. Book!ReadsLast'
        <3>1. ~page.complete
            BY <1>1, BookParts DEF Book!ReadsLast, Book!Found, page
        <3> QED
            BY <2>2, <3>1 DEF Book!ReadsLast, page
    <2>4. Book!DigestShown'
        BY <1>3, <2>1, <2>2 DEF Book!DigestShown, Book!NoDigest, page
    <2>5. Book!GrantOfEntry'
        <3>1. as = "granted" => page.asked # 0 /\ Book!LiveEntry(page.asked)
            BY <1>6
        <3>2. Book!LiveEntry(page.asked) => Book!EntriesOf(page.asked) # {}
            BY DEF Book!LiveEntry
        <3>3. as = "granted" => page'.asked # 0 /\ {i \in DOMAIN rows' : rows'[i].run = page'.asked} # {}
            BY <1>1, <2>2, <3>1, <3>2 DEF Book!EntriesOf, rows
        <3> QED
            BY <2>1, <3>3 DEF Book!GrantOfEntry, Book!Granted, Book!EntriesOf, Book!Unpinned, page, rows
    <2> QED
        BY <1>1, <2>1, <2>3, <2>4, <2>5, ReadKeeps DEF Book!Found
<1> QED
    BY <1>4, <1>5, <1>6

\* A document that has its run, a step later: what it found, and whether it may say so.
LEMMA StepFinds ==
    ASSUME Book!BookInv, UNCHANGED <<first, sources, reader, rows>>,
           page' \in DocType, page'.step \in Book!Found \ {"shown"}, page'.run \in Book!Runs,
           page'.as = page.as, page'.asked = page.asked, ~page'.offer,
           page'.complete => page'.step # "status" /\ Book!Complete(page'.run),
           page'.complete /\ page'.step \in {"model", "offer"} => page'.artifacts = Book!Artifacts(page'.run),
           page'.digest = IF page'.step = "offer" THEN (Book!DigestServed)' ELSE Book!NoDigest,
           page'.as = "granted" => page'.title = "issuer" /\ page'.latest = 0 /\ page'.run = page'.asked
    PROVE  Book!BookInv'
<1>1. Book!ReadsLast'
    <2>1. \A r : Book!Complete(r)' = Book!Complete(r) /\ Book!Artifacts(r)' = Book!Artifacts(r)
        BY DEF Book!Complete, Book!Artifacts, first
    <2> QED
        BY <2>1 DEF Book!ReadsLast, page, Book!Complete, Book!Artifacts, first
<1>2. Book!DigestShown'
    BY DEF Book!DigestShown, Book!NoDigest, page
<1>3. Book!GrantOfEntry'
    <2>1. page.as = "granted" => page.asked # 0 /\ {i \in DOMAIN rows : rows[i].run = page.asked} # {}
        BY BookParts DEF Book!GrantOfEntry, Book!Granted, Book!EntriesOf, Book!Unpinned, page, rows
    <2> QED
        BY <2>1 DEF Book!GrantOfEntry, Book!Granted, Book!EntriesOf, Book!Unpinned, page, rows
<1> QED
    BY <1>1, <1>2, <1>3, ReadKeeps

LEMMA RowFinds == ASSUME Book!BookInv, Book!Row PROVE Book!BookInv'
<1>1. page.step = "row" /\ UNCHANGED <<first, sources, reader, rows>>
    BY DEF Book!Row, Book!Reads, page, first, sources, reader, rows
<1>2. page \in DocType
    BY BookParts, BookTypes
<1>3. CASE Book!Refused
    BY <1>1, <1>3, RefusedFinds
<1>4. CASE ~Book!Refused
    <2> DEFINE title == Book!Title
               latest == IF page.as = "granted" THEN 0 ELSE LatestRun
               of == IF page.asked = 0 THEN LatestRun ELSE page.asked
    <2>1. page' = [page EXCEPT !.title = title, !.latest = latest, !.run = of, !.step = "status"] /\ title # "none"
        BY <1>4 DEF Book!Row, Book!Go, Book!Granted, Book!Unpinned, page
    <2>2. title \in {"case", "issuer"} /\ (page.as = "granted" => title = "issuer")
        BY <2>1 DEF Book!Title, Book!Granted, page
    <2>3. latest \in {0, LatestRun} /\ (page.as = "granted" => latest = 0)
        OBVIOUS
    <2>4. of \in Book!Runs /\ (page.asked # 0 => of = page.asked)
        BY <1>2, DocFields, BookIsOfRuns DEF Book!Mine, Book!Runs
    <2> HIDE DEF title, latest, of
    <2>5. /\ page' \in DocType /\ page'.step = "status" /\ page'.run = of /\ page'.title = title /\ page'.latest = latest
          /\ page'.as = page.as /\ page'.asked = page.asked /\ page'.complete = page.complete
          /\ page'.digest = page.digest /\ page'.offer = page.offer
        BY <1>2, <2>1, <2>2, <2>3, <2>4 DEF DocType, Book!Found
    <2>6. ~page.offer /\ page.digest = Book!NoDigest
        BY <1>1, BookParts DEF Book!DigestShown, page
    <2>7. ~page'.complete
        BY <1>1, <2>5, BookParts DEF Book!ReadsLast, Book!Found, page
    <2>8. page.as = "granted" => page.asked # 0
        BY BookParts DEF Book!GrantOfEntry, Book!Granted, Book!Unpinned, page
    <2>9. page'.step \in Book!Found \ {"shown"} /\ page'.step \notin {"model", "offer"}
        BY <2>5 DEF Book!Found
    <2> QED
        BY <1>1, <2>2, <2>3, <2>4, <2>5, <2>6, <2>7, <2>8, <2>9, StepFinds
<1> QED
    BY <1>3, <1>4

\* A step that leaves what the document is of as it was, after its run is known.
Carried ==
    /\ page'.run = page.run /\ page'.title = page.title /\ page'.latest = page.latest
    /\ page'.as = page.as /\ page'.asked = page.asked /\ page'.offer = page.offer
    /\ page'.build = page.build /\ page'.exclude = page.exclude

LEMMA CarriesOn ==
    ASSUME Book!BookInv, Carried, page.step \in Book!Found \ {"shown"}, page' \in DocType
    PROVE  /\ page \in DocType /\ page'.run \in Book!Runs /\ page'.as = page.as /\ page'.asked = page.asked /\ ~page'.offer
           /\ page'.as = "granted" => page'.title = "issuer" /\ page'.latest = 0 /\ page'.run = page'.asked
<1>1. page \in DocType /\ page.run \in Book!Runs
    BY BookParts, BookTypes
<1>2. ~page.offer
    BY BookParts DEF Book!DigestShown, page
<1>3. page.as = "granted" => page.title = "issuer" /\ page.latest = 0 /\ page.run = page.asked
    BY BookParts DEF Book!GrantOfEntry, Book!Granted, page, Book!Found
<1> QED
    BY <1>1, <1>2, <1>3 DEF Carried

LEMMA StatusFinds == ASSUME Book!BookInv, Book!Status PROVE Book!BookInv'
<1>1. page.step = "status" /\ UNCHANGED <<first, sources, reader, rows>>
    BY DEF Book!Status, Book!Reads, page, first, sources, reader, rows
<1>2. page \in DocType /\ page.run \in Book!Runs /\ first \in FirstType
    BY <1>1, BookParts, BookTypes DEF Book!Found
<1> DEFINE done == Book!Complete(page.run)
<1>3. page' = [page EXCEPT !.complete = done, !.step = "handoffs"]
    BY DEF Book!Status, Book!Go, page
<1>4. done \in BOOLEAN
    BY <1>2, ArtifactsAre
<1> HIDE DEF done
<1>5. /\ page' \in DocType /\ page'.step = "handoffs" /\ (page'.complete <=> done) /\ page'.digest = page.digest
      /\ Carried
    BY <1>2, <1>3, <1>4 DEF DocType, Book!Found, Carried
<1>6. page.digest = Book!NoDigest
    BY <1>1, BookParts DEF Book!DigestShown, page
<1>7. page'.complete => Book!Complete(page'.run)
    BY <1>5 DEF done, Carried
<1>8. page.step \in Book!Found \ {"shown"} /\ page'.step \in Book!Found \ {"shown"} /\ page'.step \notin {"model", "offer", "status"}
    BY <1>1, <1>5 DEF Book!Found
<1> QED
    BY <1>1, <1>5, <1>6, <1>7, <1>8, CarriesOn, StepFinds

LEMMA HandoffsFinds == ASSUME Book!BookInv, Book!Handoffs PROVE Book!BookInv'
<1>1. page.step = "handoffs" /\ UNCHANGED <<first, sources, reader, rows>>
    BY DEF Book!Handoffs, Book!Reads, page, first, sources, reader, rows
<1>2. page \in DocType /\ page.run \in Book!Runs /\ first \in FirstType
    BY <1>1, BookParts, BookTypes DEF Book!Found
<1> DEFINE count == Book!Artifacts(page.run)
<1>3. page' = [page EXCEPT !.artifacts = count, !.step = "model"]
    BY DEF Book!Handoffs, Book!Go, page
<1>4. count \in 0..Accepted
    BY <1>2, ArtifactsAre
<1> HIDE DEF count
<1>5. /\ page' \in DocType /\ page'.step = "model" /\ page'.complete = page.complete /\ page'.digest = page.digest
      /\ page'.artifacts = count /\ Carried
    BY <1>2, <1>3, <1>4 DEF DocType, Book!Found, Carried
<1>6. page.digest = Book!NoDigest
    BY <1>1, BookParts DEF Book!DigestShown, page
<1>7. (page.complete => Book!Complete(page.run)) /\ page'.run = page.run
    BY <1>5, BookParts DEF Book!ReadsLast, Carried, page
<1>8. page'.artifacts = Book!Artifacts(page'.run)
    BY <1>5, <1>7 DEF count
<1>9. page.step \in Book!Found \ {"shown"} /\ page'.step \in Book!Found \ {"shown"} /\ page'.step \notin {"offer", "status"}
    BY <1>1, <1>5 DEF Book!Found
<1> QED
    BY <1>1, <1>5, <1>6, <1>7, <1>8, <1>9, CarriesOn, StepFinds

\* The digest goes by what the read found before it.
LEMMA DigestStays ==
    ASSUME page'.build = page.build, page'.run = page.run, page'.exclude = page.exclude,
           page'.artifacts = page.artifacts, page'.as = page.as
    PROVE  (Book!DigestServed)' = Book!DigestServed
    BY Zenon DEF Book!DigestServed, Book!Granted, Book!Figures, Book!Snapshot, Book!NoDigest, page

LEMMA ModelFinds == ASSUME Book!BookInv, Book!Model PROVE Book!BookInv'
<1>1. page.step = "model" /\ UNCHANGED <<first, sources, reader, rows>>
    BY DEF Book!Model, Book!Reads, page, first, sources, reader, rows
<1>2. page \in DocType /\ page.run \in Book!Runs
    BY <1>1, BookParts, BookTypes DEF Book!Found
<1>3. CASE Book!Refused
    BY <1>1, <1>3, RefusedFinds
<1>4. CASE ~Book!Refused
    <2> DEFINE digest == Book!DigestServed
               step == IF page.as = "granted" THEN "shown" ELSE "offer"
    <2>1. page' = [page EXCEPT !.digest = digest, !.step = step]
        BY <1>4, Zenon DEF Book!Model, Book!Go, Book!Granted, page
    <2>2. digest \in DigestType
        BY <1>2, DigestIs
    <2>3. (page.as = "granted" => step = "shown" /\ digest = Book!NoDigest) /\ step \in {"offer", "shown"}
        BY DEF Book!DigestServed, Book!Granted, page
    <2> HIDE DEF digest, step
    <2>4. /\ page' \in DocType /\ page'.step = step /\ page'.digest = digest
          /\ page'.complete = page.complete /\ page'.artifacts = page.artifacts /\ Carried
        BY <1>2, <2>1, <2>2, <2>3 DEF DocType, Book!Found, Carried
    <2>5. (Book!DigestServed)' = digest
        BY <2>4, DigestStays DEF Carried, digest
    <2>6. /\ page'.as = page.as /\ page'.asked = page.asked /\ ~page'.offer /\ page'.run \in Book!Runs
          /\ page'.as = "granted" => page'.title = "issuer" /\ page'.latest = 0 /\ page'.run = page'.asked
        BY <1>1, <2>4, CarriesOn DEF Book!Found
    <2>7. page.complete => Book!Complete(page.run) /\ page.artifacts = Book!Artifacts(page.run)
        BY <1>1, BookParts DEF Book!ReadsLast, page
    <2>8. Book!ReadsLast'
        BY <1>1, <2>3, <2>4, <2>7 DEF Book!ReadsLast, Book!Complete, Book!Artifacts, Book!Found, Carried, page, first
    <2>9. Book!DigestShown'
        BY <2>3, <2>4, <2>5, <2>6 DEF Book!DigestShown, page
    <2>10. page'.as = "granted" => page'.asked # 0 /\ {i \in DOMAIN rows' : rows'[i].run = page'.asked} # {}
        BY <1>1, <2>6, BookParts DEF Book!GrantOfEntry, Book!Granted, Book!EntriesOf, Book!Unpinned, page, rows
    <2>11. Book!GrantOfEntry'
        BY <2>3, <2>4, <2>6, <2>10 DEF Book!GrantOfEntry, Book!Granted, Book!EntriesOf, Book!Unpinned, Book!Found, page, rows
    <2> QED
        BY <1>1, <2>4, <2>6, <2>8, <2>9, <2>11, ReadKeeps
<1> QED
    BY <1>3, <1>4

LEMMA OfferFinds == ASSUME Book!BookInv, Book!Offer PROVE Book!BookInv'
<1>1. page.step = "offer" /\ UNCHANGED <<first, sources, reader, rows>>
    BY DEF Book!Offer, Book!Reads, page, first, sources, reader, rows
<1>2. page \in DocType /\ page.run \in Book!Runs
    BY <1>1, BookParts, BookTypes DEF Book!Found
<1> DEFINE can == Book!Offerable(page)
<1>3. page' = [page EXCEPT !.offer = can, !.step = "shown"]
    BY DEF Book!Offer, Book!Go, page
<1>4. can \in BOOLEAN /\ (can => page.digest # Book!NoDigest /\ page.complete /\ page.as = "WRITER")
    BY Zenon DEF Book!Offerable
<1> HIDE DEF can
<1>5. /\ page' \in DocType /\ page'.step = "shown" /\ page'.digest = page.digest /\ (page'.offer <=> can)
      /\ page'.complete = page.complete /\ page'.artifacts = page.artifacts
      /\ page'.as = page.as /\ page'.asked = page.asked /\ page'.run = page.run
      /\ page'.title = page.title /\ page'.latest = page.latest
      /\ page'.build = page.build /\ page'.exclude = page.exclude
    BY <1>2, <1>3, <1>4 DEF DocType, Book!Found
<1>6. (Book!DigestServed)' = Book!DigestServed
    BY <1>5, DigestStays
<1>7. page.digest = Book!DigestServed
    BY <1>1, BookParts DEF Book!DigestShown, page
<1>8. page.complete => Book!Complete(page.run) /\ page.artifacts = Book!Artifacts(page.run)
    BY <1>1, BookParts DEF Book!ReadsLast, page
<1>9. Book!ReadsLast'
    BY <1>1, <1>5, <1>8 DEF Book!ReadsLast, Book!Complete, Book!Artifacts, Book!Found, page, first
<1>10. Book!DigestShown'
    BY <1>4, <1>5, <1>6, <1>7 DEF Book!DigestShown, Book!NoDigest, page
<1>11. page.as = "granted" => /\ page.asked # 0 /\ {i \in DOMAIN rows : rows[i].run = page.asked} # {}
                             /\ page.title = "issuer" /\ page.latest = 0 /\ page.run = page.asked
    BY <1>1, BookParts DEF Book!GrantOfEntry, Book!Granted, Book!EntriesOf, Book!Unpinned, page, rows
<1>12. Book!GrantOfEntry'
    BY <1>1, <1>5, <1>11 DEF Book!GrantOfEntry, Book!Granted, Book!EntriesOf, Book!Unpinned, Book!Found, page, rows
<1> QED
    BY <1>1, <1>2, <1>5, <1>9, <1>10, <1>12, ReadKeeps

-----------------------------------------------------------------------------
(* What is written to the Book, and what changes beside it.                *)

\* A step that leaves the document, and lists no entry less.
LEMMA WriteKeeps ==
    ASSUME Book!BookInv, UNCHANGED page,
           first' \in FirstType, sources' \subseteq Book!Sources, reader' \in Book!Standings, rows' \in Seq(Entry),
           first.complete => first' = first,
           \A i \in DOMAIN rows : i \in DOMAIN rows' /\ rows'[i].run = rows[i].run,
           Book!EntryAsReviewed', Book!OncePerRun', Book!Closed'
    PROVE  Book!BookInv'
<1>1. Book!Typed'
    <2>1. page \in DocType /\ (page.step \in Book!Found => page.run \in Book!Runs)
        BY BookParts, BookTypes
    <2>2. page' \in DocType /\ (page'.step \in Book!Found => page'.run \in Book!Runs)
        BY <2>1
    <2> QED
        BY <2>2 DEF Book!Typed, first, sources, reader, rows, page, Entry, DocType, DigestType, FirstType, Book!Unpinned
<1>2. Book!ReadsLast'
    <2>1. \A r : Book!Complete(r) => Book!Complete(r)' /\ Book!Artifacts(r)' = Book!Artifacts(r)
        BY DEF Book!Complete, Book!Artifacts, first
    <2>2. page.complete => /\ page.step \in Book!Found \ {"status"} /\ Book!Complete(page.run)
                           /\ page.step \in {"model", "offer", "shown"} => page.artifacts = Book!Artifacts(page.run)
        BY BookParts DEF Book!ReadsLast, page
    <2> QED
        BY <2>1, <2>2 DEF Book!ReadsLast, Book!Complete, Book!Artifacts, page
<1>3. Book!DigestShown'
    BY BookParts, DigestStays DEF Book!DigestShown, Book!NoDigest, page
<1>4. Book!GrantOfEntry'
    BY BookParts DEF Book!GrantOfEntry, Book!Granted, Book!EntriesOf, page, rows
<1> QED
    BY <1>1, <1>2, <1>3, <1>4 DEF Book!BookInv

\* An entry is listed once, with the figures its adder was shown.
LEMMA InsertKeeps ==
    ASSUME Book!BookInv, NEW r \in Book!Runs, NEW b \in Builds, NEW reviewed, Book!EntriesOf(r) = {},
           reviewed = Book!Figures(b, r, FALSE), Book!Insert(r, b, reviewed)
    PROVE  Book!BookInv'
<1> DEFINE e == [run |-> r, live |-> TRUE, figures |-> Book!Figures(b, r, FALSE), reviewed |-> reviewed]
<1>1. rows' = Append(rows, e) /\ UNCHANGED <<first, sources, reader, page>>
    BY DEF Book!Insert, page, first, sources, reader, rows
<1>2. e \in Entry
    BY FiguresAreGrids DEF Entry
<1>3. e.run = r /\ e.figures = e.reviewed
    OBVIOUS
<1> HIDE DEF e
<1>4. first \in FirstType /\ sources \subseteq Book!Sources /\ reader \in Book!Standings /\ rows \in Seq(Entry)
    BY BookParts, BookTypes
<1>5. /\ rows' \in Seq(Entry) /\ DOMAIN rows' = DOMAIN rows \cup {Len(rows) + 1} /\ Len(rows) + 1 \notin DOMAIN rows
      /\ rows'[Len(rows) + 1] = e /\ \A i \in DOMAIN rows : rows'[i] = rows[i]
    BY <1>1, <1>2, <1>4
<1>6. \A i \in DOMAIN rows : rows[i].figures = rows[i].reviewed /\ rows[i].run # r
    BY BookParts DEF Book!EntryAsReviewed, Book!EntriesOf, Book!Numbered, rows
<1>7. \A i, j \in DOMAIN rows : rows[i].run = rows[j].run => i = j
    BY BookParts DEF Book!OncePerRun, Book!Numbered, rows
<1>8. Book!EntryAsReviewed'
    BY <1>3, <1>5, <1>6 DEF Book!EntryAsReviewed, Book!Numbered, rows
<1>9. Book!OncePerRun'
    BY <1>3, <1>5, <1>6, <1>7 DEF Book!OncePerRun, Book!Numbered, rows
<1>10. Book!Closed'
    BY <1>1, BookParts DEF Book!Closed, first
<1> QED
    BY <1>1, <1>4, <1>5, <1>8, <1>9, <1>10, WriteKeeps

LEMMA SnapshotHasFigures ==
    \A r, n, m, f, g : Book!Snapshot(r, n, f) = Book!Snapshot(r, m, g) => f = g
<1> SUFFICES ASSUME NEW r, NEW n, NEW m, NEW f, NEW g, Book!Snapshot(r, n, f) = Book!Snapshot(r, m, g)
             PROVE  f = g
    OBVIOUS
<1>1. Book!Snapshot(r, n, f).figures = f /\ Book!Snapshot(r, m, g).figures = g
    BY DEF Book!Snapshot
<1> QED
    BY <1>1

LEMMA AddKeeps == ASSUME Book!BookInv, NEW b \in Builds, Book!Add(b) PROVE Book!BookInv'
<1>1. /\ page.step = "shown" /\ page.digest # Book!NoDigest /\ Book!EntriesOf(page.run) = {}
      /\ Book!Snapshot(page.run, Book!Artifacts(page.run), Book!Figures(b, page.run, FALSE)) = page.digest
      /\ Book!Insert(page.run, b, Book!Figures(page.build, page.run, page.exclude))
    BY Zenon DEF Book!Add, Book!Addable, page
<1>2. page \in DocType /\ page.run \in Book!Runs
    BY <1>1, BookParts, BookTypes DEF Book!Found
<1>3. page.digest = Book!DigestServed
    BY <1>1, BookParts DEF Book!DigestShown, page
<1>4. page.digest = Book!Snapshot(page.run, page.artifacts, Book!Figures(page.build, page.run, page.exclude))
    BY <1>1, <1>2, <1>3, DigestIs
<1>5. Book!Figures(b, page.run, FALSE) = Book!Figures(page.build, page.run, page.exclude)
    BY <1>1, <1>4, SnapshotHasFigures, Zenon
<1> QED
    BY <1>1, <1>2, <1>5, InsertKeeps

LEMMA ColleagueKeeps ==
    ASSUME Book!BookInv, NEW b \in Builds, NEW r \in Book!Mine, Book!Colleague(r, b)
    PROVE  Book!BookInv'
<1>1. Book!EntriesOf(r) = {} /\ Book!Insert(r, b, Book!Figures(b, r, FALSE))
    BY Zenon DEF Book!Colleague, Book!Addable
<1>2. r \in Book!Runs
    BY DEF Book!Mine
<1> QED
    BY <1>1, <1>2, InsertKeeps

LEMMA EntryWithdrawn == ASSUME Book!BookInv, NEW i \in DOMAIN rows, Book!Withdraw(i) PROVE Book!BookInv'
<1> DEFINE e == [rows[i] EXCEPT !.live = FALSE]
<1>1. rows' = [rows EXCEPT ![i] = e] /\ UNCHANGED <<first, sources, reader, page>>
    BY DEF Book!Withdraw, page, first, sources, reader, rows
<1>2. first \in FirstType /\ sources \subseteq Book!Sources /\ reader \in Book!Standings /\ rows \in Seq(Entry)
    BY BookParts, BookTypes
<1>3. rows[i] \in Entry
    BY <1>2
<1>4. e \in Entry /\ e.run = rows[i].run /\ e.figures = rows[i].figures /\ e.reviewed = rows[i].reviewed
    BY <1>3 DEF Entry
<1> HIDE DEF e
<1>5. /\ rows' \in Seq(Entry) /\ DOMAIN rows' = DOMAIN rows
      /\ rows'[i] = e /\ \A j \in DOMAIN rows : j # i => rows'[j] = rows[j]
    BY <1>1, <1>2, <1>4
<1>6. \A j \in DOMAIN rows :
        rows'[j].run = rows[j].run /\ rows'[j].figures = rows[j].figures /\ rows'[j].reviewed = rows[j].reviewed
    BY <1>4, <1>5
<1>7. Book!EntryAsReviewed'
    BY <1>5, <1>6, BookParts DEF Book!EntryAsReviewed, Book!Numbered, rows
<1>8. Book!OncePerRun'
    BY <1>5, <1>6, BookParts DEF Book!OncePerRun, Book!Numbered, rows
<1>9. Book!Closed'
    BY <1>1, BookParts DEF Book!Closed, first
<1> QED
    BY <1>1, <1>2, <1>5, <1>6, <1>7, <1>8, <1>9, WriteKeeps

\* What changes beside the Book leaves what it lists.
LEMMA BesideKeeps ==
    ASSUME Book!BookInv, UNCHANGED <<rows, page>>, first' \in FirstType,
           sources' \subseteq Book!Sources, reader' \in Book!Standings,
           first.complete => first' = first, first'.complete => first'.accepted = Accepted
    PROVE  Book!BookInv'
<1>1. rows \in Seq(Entry)
    BY BookParts, BookTypes
<1>2. Book!EntryAsReviewed' /\ Book!OncePerRun'
    BY BookParts DEF Book!EntryAsReviewed, Book!OncePerRun, Book!Numbered, rows
<1>3. Book!Closed'
    BY DEF Book!Closed, first
<1> QED
    BY <1>1, <1>2, <1>3, WriteKeeps

LEMMA RunKeeps == ASSUME Book!BookInv, Book!Accept \/ Book!Finish PROVE Book!BookInv'
<1>1. first \in FirstType /\ sources \subseteq Book!Sources /\ reader \in Book!Standings /\ Accepted \in Nat
    BY BookParts, BookTypes, BookIsOfRuns
<1>2. ~first.complete /\ UNCHANGED <<sources, reader, rows, page>>
    BY DEF Book!Accept, Book!Finish, page, first, sources, reader, rows
<1>3. \/ first' = [first EXCEPT !.accepted = first.accepted + 1] /\ first.accepted < Accepted
      \/ first' = [first EXCEPT !.complete = TRUE] /\ first.accepted = Accepted
    BY DEF Book!Accept, Book!Finish, first
<1>4. first' \in FirstType /\ (first'.complete => first'.accepted = Accepted)
    <2>1. first.accepted \in 0..Accepted /\ first.complete \in BOOLEAN
        BY <1>1 DEF FirstType
    <2>2. CASE first' = [first EXCEPT !.accepted = first.accepted + 1] /\ first.accepted < Accepted
        <3>1. first.accepted + 1 \in 0..Accepted
            BY <1>1, <2>1, <2>2
        <3> QED
            BY <1>1, <1>2, <2>2, <3>1 DEF FirstType
    <2>3. CASE first' = [first EXCEPT !.complete = TRUE] /\ first.accepted = Accepted
        BY <1>1, <2>3 DEF FirstType
    <2> QED
        BY <1>3, <2>2, <2>3
<1> QED
    BY <1>1, <1>2, <1>4, BesideKeeps

LEMMA MeanwhileKeeps ==
    ASSUME Book!BookInv,
           (\E s \in Book!Sources : Book!WithdrawSource(s)) \/ (\E s \in Book!Standings : Book!SetStanding(s))
    PROVE  Book!BookInv'
<1>1. first \in FirstType /\ sources \subseteq Book!Sources /\ reader \in Book!Standings
    BY BookParts, BookTypes
<1>2. UNCHANGED <<first, rows, page>> /\ sources' \subseteq Book!Sources /\ reader' \in Book!Standings
    BY <1>1 DEF Book!WithdrawSource, Book!SetStanding, page, first, sources, reader, rows
<1>3. first.complete => first.accepted = Accepted
    BY BookParts DEF Book!Closed, first
<1> QED
    BY <1>1, <1>2, <1>3, BesideKeeps

\* Every step keeps what a read has found true of what it found.
LEMMA BookNext == ASSUME Book!BookInv, Book!Next PROVE Book!BookInv'
<1>1. Book!Numbered = DOMAIN rows
    BY DEF Book!Numbered, rows
<1>2. \/ \E r \in Book!Mine \cup {Book!Unpinned}, b \in Builds, exclude \in BOOLEAN : Book!AskFor(r, b, exclude)
      \/ Book!Visible \/ Book!Row \/ Book!Status \/ Book!Handoffs \/ Book!Model \/ Book!Offer
      \/ \E b \in Builds : Book!Add(b) \/ \E r \in Book!Mine : Book!Colleague(r, b)
      \/ \E i \in DOMAIN rows : Book!Withdraw(i)
      \/ Book!Accept \/ Book!Finish
      \/ \E s \in Book!Sources : Book!WithdrawSource(s)
      \/ \E s \in Book!Standings : Book!SetStanding(s)
    BY Zenon DEF Book!Next, rows
<1>3. CASE \E r \in Book!Mine \cup {Book!Unpinned}, b \in Builds, exclude \in BOOLEAN : Book!AskFor(r, b, exclude)
    BY <1>3, AskForFinds, Zenon
<1>4. CASE Book!Visible \/ Book!Row \/ Book!Status \/ Book!Handoffs \/ Book!Model \/ Book!Offer
    BY <1>4, VisibleFinds, RowFinds, StatusFinds, HandoffsFinds, ModelFinds, OfferFinds, Zenon
<1>5. CASE \E b \in Builds : Book!Add(b) \/ \E r \in Book!Mine : Book!Colleague(r, b)
    BY <1>5, AddKeeps, ColleagueKeeps, Zenon
<1>6. CASE \E i \in DOMAIN rows : Book!Withdraw(i)
    BY <1>6, EntryWithdrawn, Zenon
<1>7. CASE Book!Accept \/ Book!Finish
    BY <1>7, RunKeeps, Zenon
<1>8. CASE (\E s \in Book!Sources : Book!WithdrawSource(s)) \/ (\E s \in Book!Standings : Book!SetStanding(s))
    BY <1>8, MeanwhileKeeps, Zenon
<1> QED
    BY <1>2, <1>3, <1>4, <1>5, <1>6, <1>7, <1>8, Zenon

LEMMA BookStill ==
    ASSUME Book!BookInv, UNCHANGED <<first, sources, reader, rows, page>>
    PROVE  Book!BookInv'
<1>1. first \in FirstType /\ sources \subseteq Book!Sources /\ reader \in Book!Standings
    BY BookParts, BookTypes
<1>2. first.complete => first.accepted = Accepted
    BY BookParts DEF Book!Closed, first
<1> QED
    BY <1>1, <1>2, BesideKeeps

\* A process begins with no document, over the entries there are from before.
LEMMA BookInit == ASSUME Book!Init PROVE Book!BookInv
<1>1. /\ first \in [accepted : 0..Accepted, complete : {FALSE}] /\ sources = Book!Sources
      /\ reader \in Book!Standings /\ rows \in Published /\ page = Book!NoDoc
    BY Zenon DEF Book!Init, first, sources, reader, rows, page
<1>2. first \in FirstType /\ ~first.complete
    BY <1>1 DEF FirstType
<1> DEFINE Old == [run : DOMAIN Case, live : BOOLEAN, figures : {NoGrid}, reviewed : {NoGrid}]
<1>3. rows \in Seq(Old) /\ \A i, j \in DOMAIN rows : rows[i].run = rows[j].run => i = j
    BY <1>1, BookIsOfRuns
<1>4. Old \subseteq Entry /\ \A e \in Old : e.figures = e.reviewed
    <2>1. NoGrid \in Book!Grids
        BY DEF Book!Grids
    <2> QED
        BY <2>1 DEF Entry, Book!Runs
<1> HIDE DEF Old
<1>5. rows \in Seq(Entry) /\ \A i \in DOMAIN rows : rows[i].figures = rows[i].reviewed
    BY <1>3, <1>4
<1>6. page \in DocType /\ page.step = "rest" /\ page.step \notin Book!Found
    BY <1>1, NoDocIs DEF Book!Found
<1>7. Book!Typed
    BY <1>1, <1>2, <1>5, <1>6, BookTypes
<1>8. Book!EntryAsReviewed /\ Book!OncePerRun
    BY <1>3, <1>5 DEF Book!EntryAsReviewed, Book!OncePerRun, Book!Numbered, rows
<1>9. Book!Closed
    BY <1>2 DEF Book!Closed, first
<1>10. Book!ReadsLast /\ Book!DigestShown /\ Book!GrantOfEntry
    BY <1>1, <1>6, NoDocIs DEF Book!ReadsLast, Book!DigestShown, Book!GrantOfEntry, Book!Granted, page
<1> QED
    BY <1>7, <1>8, <1>9, <1>10, BookParts

\* What it makes of a page: the types, each entry as reviewed and once, the page of the Book,
\* and what a Model document tells and offers.
LEMMA BookHolds == ASSUME Book!BookInv PROVE Book!BookSound
<1>1. /\ first \in FirstType /\ sources \subseteq Book!Sources /\ reader \in Book!Standings
      /\ rows \in Seq(Entry) /\ page \in DocType /\ (page.step \in Book!Found => page.run \in Book!Runs)
    BY BookParts, BookTypes
<1>2. Book!TypeOK
    <2>1. \A i \in DOMAIN rows : rows[i].run \in Book!Runs /\ rows[i].live \in BOOLEAN
        BY <1>1, EntriesAre DEF Book!Runs
    <2>2. page.run \in Book!Runs \cup {0} /\ page.build \in Builds
        BY <1>1, DocFields
    <2> QED
        BY <1>1, <2>1, <2>2 DEF Book!TypeOK, FirstType, first, sources, reader, rows, page
<1>3. Book!EntryAsReviewed /\ Book!OncePerRun
    BY BookParts
<1>4. Book!PageSound
    BY <1>1, PageHolds
<1>5. page.digest = IF page.step \in {"offer", "shown"} THEN Book!DigestServed ELSE Book!NoDigest
    BY BookParts DEF Book!DigestShown, page
<1>6. Book!StrangersTold
    <2> SUFFICES ASSUME page.step = "shown", page.as = "granted"
                 PROVE  /\ page.title = "issuer" /\ page.latest = 0 /\ page.run = page.asked
                        /\ Book!EntriesOf(page.run) # {} /\ page.digest = Book!NoDigest /\ ~page.offer
        BY DEF Book!StrangersTold, Book!Granted, page
    <2>1. Book!EntriesOf(page.asked) # {} /\ page.title = "issuer" /\ page.latest = 0 /\ page.run = page.asked
        BY BookParts DEF Book!GrantOfEntry, Book!Granted, page
    <2>2. Book!DigestServed = Book!NoDigest
        BY DEF Book!DigestServed, Book!Granted, page
    <2>3. ~page.offer
        BY BookParts DEF Book!DigestShown, page
    <2> QED
        BY <1>5, <2>1, <2>2, <2>3
<1>7. Book!OfferAnswered
    <2> SUFFICES ASSUME page.step = "shown", page.offer, Book!EntriesOf(page.run) = {}, Book!CitedLive(page.run)
                 PROVE  Book!Addable(page.run, page.build, page.digest)
        BY Zenon DEF Book!OfferAnswered, page
    <2>1. page.digest # Book!NoDigest /\ page.complete /\ page.digest = Book!DigestServed
        BY <1>5, BookParts DEF Book!DigestShown, page
    <2>2. /\ page.artifacts # 0 /\ ~page.exclude
          /\ Book!Figures(page.build, page.run, page.exclude) # NoGrid
          /\ page.digest = Book!Snapshot(page.run, page.artifacts, Book!Figures(page.build, page.run, page.exclude))
        BY <1>1, <2>1, DigestIs DEF Book!Found
    <2>3. page.exclude = FALSE
        BY <1>1, <2>2, DocFields
    <2>4. Book!Complete(page.run) /\ page.artifacts = Book!Artifacts(page.run)
        BY <2>1, BookParts DEF Book!ReadsLast, page
    <2>5. page.artifacts > 0
        <3>1. page.artifacts \in 0..Accepted /\ Accepted \in Nat
            BY <1>1, DocFields, BookIsOfRuns
        <3> QED
            BY <2>2, <3>1
    <2>6. /\ Book!Figures(page.build, page.run, FALSE) # NoGrid
          /\ Book!Snapshot(page.run, Book!Artifacts(page.run), Book!Figures(page.build, page.run, FALSE)) = page.digest
        BY <2>2, <2>3, <2>4, Zenon
    <2>7. Book!Artifacts(page.run) > 0
        BY <2>4, <2>5
    <2> QED
        BY <2>4, <2>6, <2>7, Zenon DEF Book!Addable
<1> QED
    BY <1>2, <1>3, <1>4, <1>6, <1>7 DEF Book!BookSound

-----------------------------------------------------------------------------
(* The pages of the parts.                                                 *)

PagesPart ==
    /\ part = "deliverable" => Sound
    /\ part = "book" => Book!BookInv

LEMMA PagesPartNext == ASSUME PagesPart, [MCNext]_mcvars PROVE PagesPart'
<1>1. CASE UNCHANGED mcvars
    <2>1. part' = part /\ UNCHANGED vars /\ UNCHANGED others
        BY <1>1, Zenon DEF mcvars
    <2>2. UNCHANGED <<first, sources, reader, rows, page>>
        BY <2>1 DEF others, first, sources, reader, rows, page
    <2>3. part = "deliverable" => Sound'
        BY <2>1, SoundIsKept, Zenon DEF PagesPart
    <2>4. part = "book" => Book!BookInv'
        BY <2>2, BookStill DEF PagesPart
    <2> QED
        BY <2>1, <2>3, <2>4 DEF PagesPart
<1>2. CASE MCNext
    <2>1. part' = part
        BY <1>2, Zenon DEF MCNext
    <2>2. part = "deliverable" => Next
        BY <1>2, Zenon DEF MCNext
    <2>3. part = "book" => Book!Next
        BY <1>2, Zenon DEF MCNext
    <2>4. part = "deliverable" => Sound'
        BY <2>2, SoundIsKept, Zenon DEF PagesPart
    <2>5. part = "book" => Book!BookInv'
        BY <2>3, BookNext, Zenon DEF PagesPart
    <2> QED
        BY <2>1, <2>4, <2>5 DEF PagesPart
<1> QED
    BY <1>1, <1>2

\* The Report of a draft offers what the command would answer; the Book lists a run once, with
\* the figures its adder was shown, as its issuer's newest live entry and the newest of the
\* others, and says so when it leaves one out; a Model offers what adding it would do, and
\* tells who reads it by a grant its issuer's name and the run listed: whatever is saved,
\* added or withdrawn while a page is read, and whoever joins or leaves.
THEOREM PagesSoundHolds == MCSpec => []PagesSound
<1>1. MCInit => PagesPart
    <2>1. ASSUME MCInit PROVE part = "deliverable" => Sound
        <3>1. Init
            BY <2>1, Zenon DEF MCInit
        <3> QED
            BY <3>1, SoundAtStart, Zenon
    <2>2. ASSUME MCInit, part = "book" PROVE Book!BookInv
        <3>1. Book!Init
            BY <2>2, Zenon DEF MCInit
        <3> QED
            BY <3>1, BookInit, Zenon
    <2> QED
        BY <2>1, <2>2 DEF PagesPart
<1>2. PagesPart /\ [MCNext]_mcvars => PagesPart'
    BY PagesPartNext
<1>3. PagesPart => PagesSound
    <2>1. Sound => ReportOffered
        BY OffersAnswered DEF Sound
    <2> QED
        BY <2>1, BookHolds DEF PagesPart, PagesSound
<1> QED
    BY <1>1, <1>2, <1>3, PTL DEF MCSpec

-----------------------------------------------------------------------------
(* Readiness, by the names its state has in Probes.                        *)

good == x1
since == x2
loop == x3
waits == x4
threads == x5
shown == x6
proven == x7

USE DEF good, since, loop, waits, threads, shown, proven

\* ProbesInv, in the parts a step disturbs.
Lone == \A p \in Probes!Probes : threads[p][1] = Probes!NoThread \/ threads[p][2] = Probes!NoThread
Idle == loop.step # "round" => \A p \in Probes!Probes : waits[p] = Probes!ToStart
Asleep == loop.step = "sleep" => shown.age + loop.left <= IntervalTicks
InRound ==
    /\ loop.step = "round" => shown.age <= IntervalTicks + ProbeTicks
    /\ loop.step = "round" => \A p \in Probes!Probes : waits[p].step = "start" => shown.age <= IntervalTicks
Together ==
    \A p \in Probes!Probes : waits[p].step = "await" =>
        /\ shown.age + waits[p].left <= IntervalTicks + ProbeTicks
        /\ waits[p].left <= ProbeTicks
        /\ \A q \in Probes!Probes :
            /\ waits[q].step = "await" => waits[q].left = waits[p].left
            /\ waits[q].step = "start" => waits[p].left = ProbeTicks
GoodNow == \A p \in Probes!Probes : good[p] => since[p] = 0
Trusted == proven > 0 => since["bundle"] + proven <= FilesTicks
HeardOK ==
    \A p \in Probes!Probes : \A i \in Probes!Slots : threads[p][i].heard =>
        /\ waits[p].step = "await"
        /\ threads[p][i].found = "OK" => since[p] + waits[p].left <= ProbeTicks + Probes!Trust(p)
DoneOK ==
    \A p \in Probes!Probes : waits[p].step = "done" /\ waits[p].code = "OK" =>
        /\ since[p] <= ProbeTicks + Probes!Trust(p)
        /\ \A q \in Probes!Probes :
            /\ waits[q].step = "await" => since[p] + waits[q].left <= ProbeTicks + Probes!Trust(p)
            /\ waits[q].step = "start" => since[p] <= Probes!Trust(p)
ShownOK ==
    \A p \in Probes!Probes : shown.codes[p] = "OK" /\ shown.age <= StaleTicks =>
        since[p] <= ProbeTicks + Probes!Trust(p) + shown.age

LEMMA ProbeNumbers ==
    /\ IntervalTicks \in Nat /\ ProbeTicks \in Nat /\ StaleTicks \in Nat /\ FilesTicks \in Nat
    /\ Probes!Far \in Nat
    /\ \A p \in Probes!Probes : Probes!Trust(p) \in Nat
    BY HandedOutIsTimed DEF Probes!Far, Probes!Trust

LEMMA ProbesSize == ASSUME NEW S PROVE Probes!Cardinality(S) = Cardinality(S)
    BY Zenon DEF Probes!Cardinality, Cardinality

LEMMA OneElement == ASSUME NEW x PROVE IsFiniteSet({x}) /\ Cardinality({x}) = 1
    BY FS_Singleton, Zenon

LEMMA LoneIs == Probes!OneThread <=> Lone
<1>1. ASSUME NEW p \in Probes!Probes
      PROVE  Cardinality(Probes!Alive(p)) <= 1 <=>
                threads[p][1] = Probes!NoThread \/ threads[p][2] = Probes!NoThread
    <2>1. CASE threads[p][1] = Probes!NoThread /\ threads[p][2] = Probes!NoThread
        <3>1. Probes!Alive(p) = {}
            BY <2>1 DEF Probes!Alive, Probes!Slots
        <3> QED
            BY <2>1, <3>1, FS_EmptySet
    <2>2. CASE threads[p][1] = Probes!NoThread /\ threads[p][2] # Probes!NoThread
        <3>1. Probes!Alive(p) = {2}
            BY <2>2 DEF Probes!Alive, Probes!Slots
        <3> QED
            BY <2>2, <3>1, OneElement
    <2>3. CASE threads[p][1] # Probes!NoThread /\ threads[p][2] = Probes!NoThread
        <3>1. Probes!Alive(p) = {1}
            BY <2>3 DEF Probes!Alive, Probes!Slots
        <3> QED
            BY <2>3, <3>1, OneElement
    <2>4. CASE threads[p][1] # Probes!NoThread /\ threads[p][2] # Probes!NoThread
        <3>1. Probes!Alive(p) = {1} \cup {2}
            BY <2>4 DEF Probes!Alive, Probes!Slots
        <3>2. IsFiniteSet({1}) /\ Cardinality({1}) = 1 /\ 2 \notin {1}
            BY OneElement
        <3>3. Cardinality({1} \cup {2}) = 2
            BY <3>2, FS_AddElement
        <3> QED
            BY <2>4, <3>1, <3>3
    <2> QED
        BY <2>1, <2>2, <2>3, <2>4
<1> QED
    BY <1>1, ProbesSize DEF Probes!OneThread, Lone

LEMMA ProbesParts ==
    Probes!ProbesInv <=>
        /\ Probes!TypeOK /\ Lone /\ Idle /\ Asleep /\ InRound /\ Together
        /\ GoodNow /\ Trusted /\ HeardOK /\ DoneOK /\ ShownOK
<1>1. Probes!OneClock <=> Idle /\ Asleep /\ InRound /\ Together
    BY Zenon DEF Probes!OneClock, Probes!Waits, Idle, Asleep, InRound, Together
<1>2. Probes!OKLately <=> GoodNow /\ Trusted /\ HeardOK /\ DoneOK /\ ShownOK
    BY Zenon DEF Probes!OKLately, Probes!Waits, GoodNow, Trusted, HeardOK, DoneOK, ShownOK
<1> QED
    BY <1>1, <1>2, LoneIs, Zenon DEF Probes!ProbesInv

LEMMA ProbesPartsNext ==
    Probes!ProbesInv' <=>
        (/\ Probes!TypeOK /\ Lone /\ Idle /\ Asleep /\ InRound /\ Together
         /\ GoodNow /\ Trusted /\ HeardOK /\ DoneOK /\ ShownOK)'
    BY ProbesParts, PTL

WaitType == [step : {"start", "await", "done"}, left : Nat, code : Probes!Codes]
ThreadType == [step : {"none", "asks", "found", "told"}, found : Probes!Codes, heard : BOOLEAN]

LEMMA ProbesTypes ==
    ASSUME Probes!TypeOK
    PROVE  /\ good \in [Probes!Probes -> BOOLEAN] /\ since \in [Probes!Probes -> Nat]
           /\ loop \in [step : {"round", "sleep", "ended"}, left : Nat]
           /\ waits \in [Probes!Probes -> WaitType]
           /\ threads \in [Probes!Probes -> [Probes!Slots -> ThreadType]]
           /\ shown \in [age : Nat, codes : [Probes!Probes -> Probes!Codes]]
           /\ proven \in Nat
           /\ loop.left \in Nat /\ shown.age \in Nat
           /\ \A p \in Probes!Probes : since[p] \in Nat /\ waits[p] \in WaitType /\ waits[p].left \in Nat
    BY DEF Probes!TypeOK, WaitType, ThreadType

LEMMA SlotsAre == Probes!Slots = {1, 2} /\ 1 \in Probes!Slots /\ 2 \in Probes!Slots
    BY DEF Probes!Slots

LEMMA ToStartIs == Probes!ToStart \in WaitType /\ Probes!ToStart.step = "start" /\ Probes!ToStart.left = 0
    BY DEF Probes!ToStart, WaitType, Probes!Codes

LEMMA NoThreadIs == Probes!NoThread \in ThreadType /\ Probes!NoThread.heard = FALSE
    BY DEF Probes!NoThread, ThreadType, Probes!Codes

\* A probe answers its round: its wait is done.
LEMMA AnswersIs ==
    ASSUME Probes!TypeOK, NEW p \in Probes!Probes, NEW code \in Probes!Codes, Probes!Answers(p, code)
    PROVE  /\ waits' \in [Probes!Probes -> WaitType]
           /\ waits'[p].step = "done" /\ waits'[p].code = code
           /\ \A q \in Probes!Probes \ {p} : waits'[q] = waits[q]
<1>1. waits \in [Probes!Probes -> WaitType]
    BY ProbesTypes
<1> DEFINE w == [Probes!ToStart EXCEPT !.step = "done", !.code = code]
<1>2. w \in WaitType /\ w.step = "done" /\ w.code = code
    BY DEF Probes!ToStart, WaitType, Probes!Codes
<1>3. waits' = [waits EXCEPT ![p] = w]
    BY DEF Probes!Answers
<1> HIDE DEF w
<1> QED
    BY <1>1, <1>2, <1>3

LEMMA AwaitingIs ==
    ASSUME NEW w \in WaitType
    PROVE  LET v == [w EXCEPT !.step = "await", !.left = ProbeTicks]
           IN  v \in WaitType /\ v.step = "await" /\ v.left = ProbeTicks
    BY ProbeNumbers DEF WaitType

LEMMA AskingIs ==
    LET t == [Probes!NoThread EXCEPT !.step = "asks", !.heard = TRUE] IN t \in ThreadType /\ t.found = "none"
    BY NoThreadIs DEF Probes!NoThread, ThreadType

LEMMA StartKept ==
    ASSUME Probes!ProbesInv, NEW p \in Probes!Probes, Probes!Start(p)
    PROVE  Probes!ProbesInv'
<1>1. /\ Probes!TypeOK /\ Lone /\ Idle /\ Asleep /\ InRound /\ Together
      /\ GoodNow /\ Trusted /\ HeardOK /\ DoneOK /\ ShownOK
    BY ProbesParts
<1>2. loop.step = "round" /\ waits[p].step = "start"
    BY DEF Probes!Start, Probes!Due
<1>3. UNCHANGED <<good, since, loop, shown, proven>>
    BY DEF Probes!Start
<1>4. shown.age <= IntervalTicks
    BY <1>1, <1>2 DEF InRound
<1>5. Idle' /\ Asleep' /\ GoodNow' /\ Trusted' /\ ShownOK'
    BY <1>1, <1>2, <1>3 DEF Idle, Asleep, GoodNow, Trusted, ShownOK, Probes!Trust
<1>6. CASE Probes!Startable(p)
    <2>1. PICK i \in Probes!Slots :
            threads' = [threads EXCEPT ![p][i] = [Probes!NoThread EXCEPT !.step = "asks", !.heard = TRUE]]
        BY <1>6 DEF Probes!Start
    <2>2. waits' = [waits EXCEPT ![p].step = "await", ![p].left = ProbeTicks]
        BY <1>6 DEF Probes!Start
    <2>3. \A j \in Probes!Slots : threads[p][j] = Probes!NoThread
        BY <1>6 DEF Probes!Startable, Probes!Alive
    <2> DEFINE w == [waits[p] EXCEPT !.step = "await", !.left = ProbeTicks]
               t == [Probes!NoThread EXCEPT !.step = "asks", !.heard = TRUE]
    <2>4. waits' = [waits EXCEPT ![p] = w] /\ w \in WaitType /\ w.step = "await" /\ w.left = ProbeTicks
        BY <1>1, <2>2, ProbesTypes, AwaitingIs
    <2>5. threads' = [threads EXCEPT ![p] = [threads[p] EXCEPT ![i] = t]]
        BY <1>1, <2>1, ProbesTypes
    <2>t. t \in ThreadType /\ t.found = "none"
        BY AskingIs
    <2> HIDE DEF w, t
    <2>6. /\ waits' \in [Probes!Probes -> WaitType]
          /\ waits'[p].step = "await" /\ waits'[p].left = ProbeTicks
          /\ \A q \in Probes!Probes \ {p} : waits'[q] = waits[q]
        BY <1>1, <2>4, ProbesTypes
    <2>7. /\ threads' \in [Probes!Probes -> [Probes!Slots -> ThreadType]]
          /\ threads'[p][i].found = "none"
          /\ \A j \in Probes!Slots \ {i} : threads'[p][j] = Probes!NoThread
          /\ \A q \in Probes!Probes \ {p} : threads'[q] = threads[q]
        BY <1>1, <2>3, <2>5, <2>t, ProbesTypes
    <2>8. Probes!TypeOK'
        BY <1>1, <1>3, <2>6, <2>7, ProbesTypes DEF Probes!TypeOK, WaitType, ThreadType
    <2>9. Lone'
        BY <1>1, <2>1, <2>7, SlotsAre DEF Lone
    <2>10. InRound'
        BY <1>1, <1>3, <1>4, <2>6 DEF InRound
    <2>11. Together'
        <3>1. \A q \in Probes!Probes \ {p} : waits[q].step = "await" => waits[q].left = ProbeTicks
            BY <1>1, <1>2 DEF Together
        <3>2. shown.age + ProbeTicks <= IntervalTicks + ProbeTicks
            BY <1>1, <1>4, ProbesTypes, ProbeNumbers
        <3> QED
            BY <1>3, <2>6, <3>1, <3>2, ProbeNumbers DEF Together
    <2>12. HeardOK'
        <3> SUFFICES ASSUME NEW q \in Probes!Probes, NEW j \in Probes!Slots, threads'[q][j].heard
                     PROVE  /\ waits'[q].step = "await"
                            /\ threads'[q][j].found = "OK" =>
                                since'[q] + waits'[q].left <= ProbeTicks + Probes!Trust(q)
            BY DEF HeardOK, Probes!Trust
        <3>1. CASE q # p
            BY <1>1, <1>3, <2>6, <2>7, <3>1 DEF HeardOK
        <3>2. CASE q = p
            BY <2>6, <2>7, <3>2, NoThreadIs
        <3> QED
            BY <3>1, <3>2
    <2>13. DoneOK'
        <3> SUFFICES ASSUME NEW q \in Probes!Probes, waits'[q].step = "done", waits'[q].code = "OK"
                     PROVE  /\ since[q] <= ProbeTicks + Probes!Trust(q)
                            /\ \A r \in Probes!Probes :
                                /\ waits'[r].step = "await" => since[q] + waits'[r].left <= ProbeTicks + Probes!Trust(q)
                                /\ waits'[r].step = "start" => since[q] <= Probes!Trust(q)
            BY <1>3 DEF DoneOK, Probes!Trust
        <3>1. waits[q].step = "done" /\ waits[q].code = "OK"
            BY <2>6
        <3>2. since[q] <= Probes!Trust(q) /\ since[q] + ProbeTicks <= ProbeTicks + Probes!Trust(q)
            BY <1>1, <1>2, <3>1, ProbesTypes, ProbeNumbers DEF DoneOK
        <3> QED
            BY <1>1, <2>6, <3>1, <3>2 DEF DoneOK
    <2> QED
        BY <1>5, <2>8, <2>9, <2>10, <2>11, <2>12, <2>13, ProbesPartsNext
<1>7. CASE ~Probes!Startable(p)
    <2>1. Probes!Answers(p, "PROBE_TIMEOUT") /\ UNCHANGED threads
        BY <1>7 DEF Probes!Start
    <2>2. /\ waits' \in [Probes!Probes -> WaitType]
          /\ waits'[p].step = "done" /\ waits'[p].code = "PROBE_TIMEOUT"
          /\ \A q \in Probes!Probes \ {p} : waits'[q] = waits[q]
        BY <1>1, <2>1, AnswersIs DEF Probes!Codes
    <2>3. Probes!TypeOK' /\ Lone'
        BY <1>1, <1>3, <2>1, <2>2, ProbesTypes DEF Probes!TypeOK, WaitType, Lone
    <2>4. InRound' /\ Together'
        BY <1>1, <1>3, <2>2 DEF InRound, Together
    <2>5. HeardOK' /\ DoneOK'
        BY <1>1, <1>2, <1>3, <2>1, <2>2 DEF HeardOK, DoneOK, Probes!Trust
    <2> QED
        BY <1>5, <2>3, <2>4, <2>5, ProbesPartsNext
<1> QED
    BY <1>6, <1>7

LEMMA UnheardIs ==
    ASSUME Probes!TypeOK, Lone, NEW p \in Probes!Probes
    PROVE  /\ Probes!Unheard(p) \in [Probes!Slots -> ThreadType]
           /\ \A i \in Probes!Slots : Probes!Unheard(p)[i].heard = FALSE
           /\ Probes!Unheard(p)[1] = Probes!NoThread \/ Probes!Unheard(p)[2] = Probes!NoThread
<1>1. threads[p] \in [Probes!Slots -> ThreadType]
    BY ProbesTypes
<1>2. \A i \in Probes!Slots : [threads[p][i] EXCEPT !.heard = FALSE] \in ThreadType /\ [threads[p][i] EXCEPT !.heard = FALSE].heard = FALSE
    BY <1>1 DEF ThreadType
<1>3. \A i \in Probes!Slots : Probes!Unheard(p)[i] =
            IF threads[p][i] # Probes!NoThread THEN [threads[p][i] EXCEPT !.heard = FALSE] ELSE Probes!NoThread
    BY DEF Probes!Unheard, Probes!Alive
<1> QED
    BY <1>1, <1>2, <1>3, SlotsAre, NoThreadIs DEF Lone, Probes!Unheard

LEMMA StartFailsKept ==
    ASSUME Probes!ProbesInv, NEW p \in Probes!Probes, Probes!StartFails(p)
    PROVE  Probes!ProbesInv'
<1>1. /\ Probes!TypeOK /\ Lone /\ Idle /\ Asleep /\ InRound /\ Together
      /\ GoodNow /\ Trusted /\ HeardOK /\ DoneOK /\ ShownOK
    BY ProbesParts
<1>2. loop' = [step |-> "ended", left |-> 0] /\ UNCHANGED <<good, since, shown, proven>>
    BY DEF Probes!StartFails
<1>3. waits' = [q \in Probes!Probes |-> Probes!ToStart]
    BY DEF Probes!StartFails
<1>4. threads' = [q \in Probes!Probes |-> Probes!Unheard(q)]
    BY DEF Probes!StartFails
<1>5. waits' \in [Probes!Probes -> WaitType] /\ \A q \in Probes!Probes : waits'[q] = Probes!ToStart
    BY <1>3, ToStartIs
<1>6. threads' \in [Probes!Probes -> [Probes!Slots -> ThreadType]]
    BY <1>1, <1>4, UnheardIs
<1>7. Probes!TypeOK'
    BY <1>1, <1>2, <1>5, <1>6, ProbesTypes DEF Probes!TypeOK, WaitType, ThreadType
<1>8. Lone' /\ HeardOK'
    BY <1>1, <1>4, UnheardIs DEF Lone, HeardOK
<1>9. Idle' /\ Asleep' /\ InRound'
    BY <1>2, <1>5 DEF Idle, Asleep, InRound
<1>10. Together' /\ DoneOK'
    BY <1>5, ToStartIs DEF Together, DoneOK
<1>11. GoodNow' /\ Trusted' /\ ShownOK'
    BY <1>1, <1>2 DEF GoodNow, Trusted, ShownOK, Probes!Trust
<1> QED
    BY <1>7, <1>8, <1>9, <1>10, <1>11, ProbesPartsNext

LEMMA TimeOutKept ==
    ASSUME Probes!ProbesInv, NEW p \in Probes!Probes, Probes!TimeOut(p)
    PROVE  Probes!ProbesInv'
<1>1. /\ Probes!TypeOK /\ Lone /\ Idle /\ Asleep /\ InRound /\ Together
      /\ GoodNow /\ Trusted /\ HeardOK /\ DoneOK /\ ShownOK
    BY ProbesParts
<1>2. waits[p].step = "await" /\ UNCHANGED <<good, since, loop, shown, proven>>
    BY DEF Probes!TimeOut, Probes!Overdue
<1>3. /\ waits' \in [Probes!Probes -> WaitType]
      /\ waits'[p].step = "done" /\ waits'[p].code = "PROBE_TIMEOUT"
      /\ \A q \in Probes!Probes \ {p} : waits'[q] = waits[q]
    BY <1>1, AnswersIs DEF Probes!TimeOut, Probes!Codes
<1>4. threads' = [threads EXCEPT ![p] = Probes!Unheard(p)]
    BY DEF Probes!TimeOut
<1>5. /\ threads' \in [Probes!Probes -> [Probes!Slots -> ThreadType]]
      /\ threads'[p] = Probes!Unheard(p)
      /\ \A q \in Probes!Probes \ {p} : threads'[q] = threads[q]
    BY <1>1, <1>4, ProbesTypes, UnheardIs
<1>6. Probes!TypeOK'
    BY <1>1, <1>2, <1>3, <1>5, ProbesTypes DEF Probes!TypeOK, WaitType, ThreadType
<1>7. Lone'
    BY <1>1, <1>5, UnheardIs DEF Lone
<1>8. loop.step = "round"
    BY <1>1, <1>2, ToStartIs DEF Idle
<1>9. Idle' /\ Asleep' /\ InRound' /\ Together'
    BY <1>1, <1>2, <1>3, <1>8 DEF Idle, Asleep, InRound, Together
<1>10. GoodNow' /\ Trusted' /\ ShownOK'
    BY <1>1, <1>2 DEF GoodNow, Trusted, ShownOK, Probes!Trust
<1>11. HeardOK'
    <2> SUFFICES ASSUME NEW q \in Probes!Probes, NEW i \in Probes!Slots, threads'[q][i].heard
                 PROVE  /\ waits'[q].step = "await"
                        /\ threads'[q][i].found = "OK" =>
                            since[q] + waits'[q].left <= ProbeTicks + Probes!Trust(q)
        BY <1>2 DEF HeardOK, Probes!Trust
    <2>1. q # p
        BY <1>1, <1>5, UnheardIs
    <2> QED
        BY <1>1, <1>3, <1>5, <2>1 DEF HeardOK
<1>12. DoneOK'
    BY <1>1, <1>2, <1>3 DEF DoneOK, Probes!Trust
<1> QED
    BY <1>6, <1>7, <1>9, <1>10, <1>11, <1>12, ProbesPartsNext

\* One thread of a probe moves on; who is the only one there stays so.
LEMMA OneThreadMoves ==
    ASSUME Probes!TypeOK, Lone, NEW p \in Probes!Probes, NEW i \in Probes!Slots, NEW t \in ThreadType,
           threads[p][i] # Probes!NoThread, threads' = [threads EXCEPT ![p][i] = t]
    PROVE  /\ threads' \in [Probes!Probes -> [Probes!Slots -> ThreadType]] /\ Lone'
           /\ threads'[p][i] = t
           /\ \A j \in Probes!Slots \ {i} : threads'[p][j] = Probes!NoThread /\ threads[p][j] = Probes!NoThread
           /\ \A q \in Probes!Probes \ {p} : threads'[q] = threads[q]
<1>1. threads \in [Probes!Probes -> [Probes!Slots -> ThreadType]]
    BY ProbesTypes
<1>2. threads' = [threads EXCEPT ![p] = [threads[p] EXCEPT ![i] = t]]
    BY <1>1
<1>3. \A j \in Probes!Slots \ {i} : threads[p][j] = Probes!NoThread
    BY SlotsAre DEF Lone
<1>4. /\ threads' \in [Probes!Probes -> [Probes!Slots -> ThreadType]] /\ threads'[p][i] = t
      /\ \A j \in Probes!Slots \ {i} : threads'[p][j] = Probes!NoThread
      /\ \A q \in Probes!Probes \ {p} : threads'[q] = threads[q]
    BY <1>1, <1>2, <1>3
<1>5. Lone'
    BY <1>4, SlotsAre DEF Lone
<1> QED
    BY <1>3, <1>4, <1>5

LEMMA ReadKept ==
    ASSUME Probes!ProbesInv, NEW p \in Probes!Probes, NEW i \in Probes!Slots, Probes!Read(p, i)
    PROVE  Probes!ProbesInv'
<1>1. /\ Probes!TypeOK /\ Lone /\ Idle /\ Asleep /\ InRound /\ Together
      /\ GoodNow /\ Trusted /\ HeardOK /\ DoneOK /\ ShownOK
    BY ProbesParts
<1>2. threads[p][i].step = "asks" /\ UNCHANGED <<good, since, loop, waits, shown>>
    BY DEF Probes!Read
<1> DEFINE trusted == p = "bundle" /\ proven > 0
           word == IF trusted THEN "OK" ELSE Probes!Judged(p)
           t == [threads[p][i] EXCEPT !.step = "found", !.found = word]
<1>3. threads' = [threads EXCEPT ![p][i] = t]
    <2>1. threads' = [threads EXCEPT ![p][i].step = "found", ![p][i].found = word]
        BY DEF Probes!Read
    <2>2. threads \in [Probes!Probes -> [Probes!Slots -> ThreadType]]
        BY <1>1, ProbesTypes
    <2> HIDE DEF word
    <2> QED
        BY <2>1, <2>2
<1>4. proven' = IF p = "bundle" /\ ~trusted THEN Probes!Keep(p) ELSE proven
    BY DEF Probes!Read
<1>5. word \in {"OK", "FAILED"} /\ (word = "OK" => trusted \/ good[p])
    BY <1>1, ProbesTypes DEF Probes!Judged
<1>6. t \in ThreadType /\ t.found = word /\ t.heard = threads[p][i].heard
    <2>1. threads[p][i] \in ThreadType /\ word \in Probes!Codes
        BY <1>1, <1>5, ProbesTypes DEF Probes!Codes
    <2> HIDE DEF word
    <2> QED
        BY <2>1 DEF ThreadType
<1>7. threads[p][i] # Probes!NoThread
    BY <1>2 DEF Probes!NoThread
<1>w. word = "OK" => since[p] <= Probes!Trust(p)
    <2>1. CASE trusted
        BY <1>1, <2>1, ProbesTypes, ProbeNumbers DEF Trusted, Probes!Trust
    <2>2. CASE ~trusted
        BY <1>1, <1>5, <2>2, ProbesTypes, ProbeNumbers DEF GoodNow
    <2> QED
        BY <2>1, <2>2
<1> HIDE DEF word, t
<1>8. /\ threads' \in [Probes!Probes -> [Probes!Slots -> ThreadType]] /\ Lone'
      /\ threads'[p][i] = t
      /\ \A j \in Probes!Slots \ {i} : threads'[p][j] = Probes!NoThread
      /\ \A q \in Probes!Probes \ {p} : threads'[q] = threads[q]
    BY <1>1, <1>3, <1>6, <1>7, OneThreadMoves
<1>9. proven' \in Nat /\ Trusted'
    <2>1. CASE p = "bundle" /\ ~trusted
        BY <1>1, <1>2, <1>4, <2>1, ProbesTypes, ProbeNumbers DEF Probes!Keep, Trusted, GoodNow
    <2>2. CASE ~(p = "bundle" /\ ~trusted)
        BY <1>1, <1>2, <1>4, <2>2, ProbesTypes DEF Trusted
    <2> QED
        BY <2>1, <2>2
<1>10. Probes!TypeOK'
    BY <1>1, <1>2, <1>8, <1>9, ProbesTypes DEF Probes!TypeOK, WaitType, ThreadType
<1>11. Idle' /\ Asleep' /\ InRound' /\ Together' /\ GoodNow' /\ DoneOK' /\ ShownOK'
    BY <1>1, <1>2 DEF Idle, Asleep, InRound, Together, GoodNow, DoneOK, ShownOK, Probes!Trust
<1>12. HeardOK'
    <2> SUFFICES ASSUME NEW q \in Probes!Probes, NEW j \in Probes!Slots, threads'[q][j].heard
                 PROVE  /\ waits[q].step = "await"
                        /\ threads'[q][j].found = "OK" => since[q] + waits[q].left <= ProbeTicks + Probes!Trust(q)
        BY <1>2 DEF HeardOK, Probes!Trust
    <2>1. CASE q # p
        BY <1>1, <1>8, <2>1 DEF HeardOK
    <2>2. CASE q = p /\ j # i
        BY <1>8, <2>2, NoThreadIs
    <2>3. CASE q = p /\ j = i
        <3>1. waits[p].step = "await" /\ waits[p].left <= ProbeTicks
            BY <1>1, <1>6, <1>8, <2>3 DEF HeardOK, Together
        <3> QED
            BY <1>1, <1>6, <1>8, <1>w, <2>3, <3>1, ProbesTypes, ProbeNumbers
    <2> QED
        BY <2>1, <2>2, <2>3
<1> QED
    BY <1>8, <1>9, <1>10, <1>11, <1>12, ProbesPartsNext

LEMMA TellKept ==
    ASSUME Probes!ProbesInv, NEW p \in Probes!Probes, NEW i \in Probes!Slots, Probes!Tell(p, i)
    PROVE  Probes!ProbesInv'
<1>1. /\ Probes!TypeOK /\ Lone /\ Idle /\ Asleep /\ InRound /\ Together
      /\ GoodNow /\ Trusted /\ HeardOK /\ DoneOK /\ ShownOK
    BY ProbesParts
<1>2. threads[p][i].step = "found" /\ UNCHANGED <<good, since, loop, shown, proven>>
    BY DEF Probes!Tell
<1> DEFINE t == [threads[p][i] EXCEPT !.step = "told", !.heard = FALSE]
<1>3. threads' = [threads EXCEPT ![p][i] = t]
    BY DEF Probes!Tell
<1>4. threads[p][i] \in ThreadType /\ threads[p][i] # Probes!NoThread
    BY <1>1, <1>2, ProbesTypes DEF Probes!NoThread
<1>5. t \in ThreadType /\ t.heard = FALSE
    BY <1>4 DEF ThreadType
<1> HIDE DEF t
<1>6. /\ threads' \in [Probes!Probes -> [Probes!Slots -> ThreadType]] /\ Lone'
      /\ threads'[p][i] = t
      /\ \A j \in Probes!Slots \ {i} : threads'[p][j] = Probes!NoThread
      /\ \A q \in Probes!Probes \ {p} : threads'[q] = threads[q]
    BY <1>1, <1>3, <1>4, <1>5, OneThreadMoves
<1>7. \A j \in Probes!Slots : threads'[p][j].heard = FALSE
    BY <1>5, <1>6, NoThreadIs
<1>8. GoodNow' /\ Trusted' /\ ShownOK'
    BY <1>1, <1>2 DEF GoodNow, Trusted, ShownOK, Probes!Trust
<1>9. CASE threads[p][i].heard
    <2>1. threads[p][i].found \in Probes!Codes
        BY <1>4 DEF ThreadType
    <2>2. /\ waits' \in [Probes!Probes -> WaitType]
          /\ waits'[p].step = "done" /\ waits'[p].code = threads[p][i].found
          /\ \A q \in Probes!Probes \ {p} : waits'[q] = waits[q]
        BY <1>1, <1>9, <2>1, AnswersIs DEF Probes!Tell
    <2>3. /\ waits[p].step = "await"
          /\ threads[p][i].found = "OK" => since[p] + waits[p].left <= ProbeTicks + Probes!Trust(p)
        BY <1>1, <1>9 DEF HeardOK
    <2>4. loop.step = "round"
        BY <1>1, <2>3, ToStartIs DEF Idle
    <2>5. Probes!TypeOK'
        BY <1>1, <1>2, <1>6, <2>2, ProbesTypes DEF Probes!TypeOK, WaitType, ThreadType
    <2>6. Idle' /\ Asleep' /\ InRound' /\ Together'
        BY <1>1, <1>2, <2>2, <2>4 DEF Idle, Asleep, InRound, Together
    <2>7. HeardOK'
        <3> SUFFICES ASSUME NEW q \in Probes!Probes, NEW j \in Probes!Slots, threads'[q][j].heard
                     PROVE  /\ waits'[q].step = "await"
                            /\ threads'[q][j].found = "OK" =>
                                since[q] + waits'[q].left <= ProbeTicks + Probes!Trust(q)
            BY <1>2 DEF HeardOK, Probes!Trust
        <3>1. q # p
            BY <1>7
        <3> QED
            BY <1>1, <1>6, <2>2, <3>1 DEF HeardOK
    <2>8. DoneOK'
        <3> SUFFICES ASSUME NEW q \in Probes!Probes, waits'[q].step = "done", waits'[q].code = "OK"
                     PROVE  /\ since[q] <= ProbeTicks + Probes!Trust(q)
                            /\ \A r \in Probes!Probes :
                                /\ waits'[r].step = "await" => since[q] + waits'[r].left <= ProbeTicks + Probes!Trust(q)
                                /\ waits'[r].step = "start" => since[q] <= Probes!Trust(q)
            BY <1>2 DEF DoneOK, Probes!Trust
        <3>1. CASE q # p
            BY <1>1, <2>2, <3>1 DEF DoneOK
        <3>2. CASE q = p
            <4>1. since[p] + waits[p].left <= ProbeTicks + Probes!Trust(p)
                BY <2>2, <2>3, <3>2
            <4>2. since[p] <= ProbeTicks + Probes!Trust(p)
                BY <1>1, <4>1, ProbesTypes, ProbeNumbers
            <4>3. ASSUME NEW r \in Probes!Probes, waits'[r].step = "await"
                  PROVE  since[p] + waits'[r].left <= ProbeTicks + Probes!Trust(p)
                <5>1. waits'[r] = waits[r] /\ waits[r].left = waits[p].left
                    BY <1>1, <2>2, <2>3, <4>3 DEF Together
                <5> QED
                    BY <4>1, <5>1
            <4>4. ASSUME NEW r \in Probes!Probes, waits'[r].step = "start"
                  PROVE  since[p] <= Probes!Trust(p)
                <5>1. waits[p].left = ProbeTicks
                    BY <1>1, <2>2, <2>3, <4>4 DEF Together
                <5> QED
                    BY <1>1, <4>1, <5>1, ProbesTypes, ProbeNumbers
            <4> QED
                BY <3>2, <4>2, <4>3, <4>4
        <3> QED
            BY <3>1, <3>2
    <2> QED
        BY <1>6, <1>8, <2>5, <2>6, <2>7, <2>8, ProbesPartsNext
<1>10. CASE ~threads[p][i].heard
    <2>1. UNCHANGED waits
        BY <1>10 DEF Probes!Tell
    <2>2. Probes!TypeOK'
        BY <1>1, <1>2, <1>6, <2>1, ProbesTypes DEF Probes!TypeOK, WaitType, ThreadType
    <2>3. Idle' /\ Asleep' /\ InRound' /\ Together' /\ DoneOK'
        BY <1>1, <1>2, <2>1 DEF Idle, Asleep, InRound, Together, DoneOK, Probes!Trust
    <2>4. HeardOK'
        <3> SUFFICES ASSUME NEW q \in Probes!Probes, NEW j \in Probes!Slots, threads'[q][j].heard
                     PROVE  /\ waits[q].step = "await"
                            /\ threads'[q][j].found = "OK" =>
                                since[q] + waits[q].left <= ProbeTicks + Probes!Trust(q)
            BY <1>2, <2>1 DEF HeardOK, Probes!Trust
        <3>1. q # p
            BY <1>7
        <3> QED
            BY <1>1, <1>6, <3>1 DEF HeardOK
    <2> QED
        BY <1>6, <1>8, <2>2, <2>3, <2>4, ProbesPartsNext
<1> QED
    BY <1>4, <1>9, <1>10 DEF ThreadType

LEMMA FinishKept ==
    ASSUME Probes!ProbesInv, NEW p \in Probes!Probes, NEW i \in Probes!Slots, Probes!Finish(p, i)
    PROVE  Probes!ProbesInv'
<1>1. /\ Probes!TypeOK /\ Lone /\ Idle /\ Asleep /\ InRound /\ Together
      /\ GoodNow /\ Trusted /\ HeardOK /\ DoneOK /\ ShownOK
    BY ProbesParts
<1>2. threads[p][i].step = "told" /\ UNCHANGED <<good, since, loop, waits, shown, proven>>
    BY DEF Probes!Finish
<1>3. threads' = [threads EXCEPT ![p][i] = Probes!NoThread] /\ threads[p][i] # Probes!NoThread
    BY <1>2 DEF Probes!Finish, Probes!NoThread
<1>4. /\ threads' \in [Probes!Probes -> [Probes!Slots -> ThreadType]] /\ Lone'
      /\ \A j \in Probes!Slots : threads'[p][j] = Probes!NoThread
      /\ \A q \in Probes!Probes \ {p} : threads'[q] = threads[q]
    BY <1>1, <1>3, OneThreadMoves, NoThreadIs
<1>5. Probes!TypeOK'
    BY <1>1, <1>2, <1>4, ProbesTypes DEF Probes!TypeOK, WaitType, ThreadType
<1>6. Idle' /\ Asleep' /\ InRound' /\ Together' /\ GoodNow' /\ Trusted' /\ DoneOK' /\ ShownOK'
    BY <1>1, <1>2 DEF Idle, Asleep, InRound, Together, GoodNow, Trusted, DoneOK, ShownOK, Probes!Trust
<1>7. HeardOK'
    BY <1>1, <1>2, <1>4, NoThreadIs DEF HeardOK, Probes!Trust
<1> QED
    BY <1>4, <1>5, <1>6, <1>7, ProbesPartsNext

LEMMA PublishKept ==
    ASSUME Probes!ProbesInv, Probes!Publish
    PROVE  Probes!ProbesInv'
<1>1. /\ Probes!TypeOK /\ Lone /\ Idle /\ Asleep /\ InRound /\ Together
      /\ GoodNow /\ Trusted /\ HeardOK /\ DoneOK /\ ShownOK
    BY ProbesParts
<1>2. UNCHANGED <<good, since, threads, proven>> /\ \A p \in Probes!Probes : waits[p].step = "done"
    BY DEF Probes!Publish, Probes!RoundOver
<1>3. shown' = [age |-> 0, codes |-> [p \in Probes!Probes |-> waits[p].code]]
    BY DEF Probes!Publish
<1>4. loop' = [step |-> "sleep", left |-> IntervalTicks]
    BY DEF Probes!Publish
<1>5. waits' = [p \in Probes!Probes |-> Probes!ToStart]
    BY DEF Probes!Publish
<1>6. waits' \in [Probes!Probes -> WaitType] /\ \A p \in Probes!Probes : waits'[p] = Probes!ToStart
    BY <1>5, ToStartIs
<1>7. /\ shown' \in [age : Nat, codes : [Probes!Probes -> Probes!Codes]]
      /\ shown'.age = 0 /\ \A p \in Probes!Probes : shown'.codes[p] = waits[p].code
    <2>1. \A p \in Probes!Probes : waits[p].code \in Probes!Codes
        BY <1>1, ProbesTypes DEF WaitType
    <2> QED
        BY <1>3, <2>1
<1>8. loop' \in [step : {"round", "sleep", "ended"}, left : Nat] /\ loop'.step = "sleep" /\ loop'.left = IntervalTicks
    BY <1>4, ProbeNumbers
<1>9. Probes!TypeOK' /\ Lone'
    BY <1>1, <1>2, <1>6, <1>7, <1>8, ProbesTypes DEF Probes!TypeOK, WaitType, ThreadType, Lone
<1>10. Idle' /\ Asleep' /\ InRound'
    BY <1>6, <1>7, <1>8, ProbeNumbers DEF Idle, Asleep, InRound
<1>11. Together' /\ DoneOK'
    BY <1>6, ToStartIs DEF Together, DoneOK
<1>12. GoodNow' /\ Trusted'
    BY <1>1, <1>2 DEF GoodNow, Trusted
<1>13. HeardOK'
    BY <1>1, <1>2 DEF HeardOK
<1>14. ShownOK'
    <2> SUFFICES ASSUME NEW p \in Probes!Probes, shown'.codes[p] = "OK"
                 PROVE  since[p] <= ProbeTicks + Probes!Trust(p) + 0
        BY <1>2, <1>7 DEF ShownOK, Probes!Trust
    <2>1. since[p] <= ProbeTicks + Probes!Trust(p)
        BY <1>1, <1>2, <1>7 DEF DoneOK
    <2> QED
        BY <2>1, ProbeNumbers
<1> QED
    BY <1>9, <1>10, <1>11, <1>12, <1>13, <1>14, ProbesPartsNext

LEMMA WakeKept ==
    ASSUME Probes!ProbesInv, Probes!Wake
    PROVE  Probes!ProbesInv'
<1>1. /\ Probes!TypeOK /\ Lone /\ Idle /\ Asleep /\ InRound /\ Together
      /\ GoodNow /\ Trusted /\ HeardOK /\ DoneOK /\ ShownOK
    BY ProbesParts
<1>2. loop.step = "sleep" /\ loop.left = 0 /\ UNCHANGED <<good, since, waits, threads, shown, proven>>
    BY DEF Probes!Wake, Probes!Slept
<1>3. loop' = [step |-> "round", left |-> 0]
    BY DEF Probes!Wake
<1>4. shown.age <= IntervalTicks /\ shown.age <= IntervalTicks + ProbeTicks
    BY <1>1, <1>2, ProbesTypes, ProbeNumbers DEF Asleep
<1>5. Probes!TypeOK' /\ Lone'
    BY <1>1, <1>2, <1>3, ProbesTypes DEF Probes!TypeOK, WaitType, ThreadType, Lone
<1>6. Idle' /\ Asleep' /\ InRound'
    BY <1>2, <1>3, <1>4 DEF Idle, Asleep, InRound
<1>7. Together' /\ GoodNow' /\ Trusted' /\ HeardOK' /\ DoneOK' /\ ShownOK'
    BY <1>1, <1>2 DEF Together, GoodNow, Trusted, HeardOK, DoneOK, ShownOK, Probes!Trust
<1> QED
    BY <1>5, <1>6, <1>7, ProbesPartsNext

LEMMA TurnKept ==
    ASSUME Probes!ProbesInv, NEW p \in Probes!Probes, Probes!Turn(p)
    PROVE  Probes!ProbesInv'
<1>1. /\ Probes!TypeOK /\ Lone /\ Idle /\ Asleep /\ InRound /\ Together
      /\ GoodNow /\ Trusted /\ HeardOK /\ DoneOK /\ ShownOK
    BY ProbesParts
<1>2. UNCHANGED <<loop, waits, threads, shown, proven>>
    BY DEF Probes!Turn
<1>3. good' = [good EXCEPT ![p] = ~good[p]] /\ since' = [since EXCEPT ![p] = IF good'[p] THEN 0 ELSE since[p]]
    BY DEF Probes!Turn
<1>4. good' \in [Probes!Probes -> BOOLEAN] /\ since' \in [Probes!Probes -> Nat]
    BY <1>1, <1>3, ProbesTypes
<1>5. \A q \in Probes!Probes : since'[q] <= since[q] /\ (good'[q] => since'[q] = 0)
    BY <1>1, <1>3, ProbesTypes DEF GoodNow
<1>6. Probes!TypeOK' /\ Lone'
    BY <1>1, <1>2, <1>4, ProbesTypes DEF Probes!TypeOK, WaitType, ThreadType, Lone
<1>7. Idle' /\ Asleep' /\ InRound' /\ Together' /\ GoodNow'
    BY <1>1, <1>2, <1>5 DEF Idle, Asleep, InRound, Together, GoodNow
<1>8. Trusted'
    BY <1>1, <1>2, <1>4, <1>5, ProbesTypes, ProbeNumbers DEF Trusted, Probes!Probes
<1>9. HeardOK'
    <2> SUFFICES ASSUME NEW q \in Probes!Probes, NEW j \in Probes!Slots, threads[q][j].heard
                 PROVE  /\ waits[q].step = "await"
                        /\ threads[q][j].found = "OK" => since'[q] + waits[q].left <= ProbeTicks + Probes!Trust(q)
        BY <1>2 DEF HeardOK, Probes!Trust
    <2>1. /\ waits[q].step = "await"
          /\ threads[q][j].found = "OK" => since[q] + waits[q].left <= ProbeTicks + Probes!Trust(q)
        BY <1>1 DEF HeardOK
    <2>2. since'[q] \in Nat /\ since'[q] <= since[q] /\ since[q] \in Nat /\ waits[q].left \in Nat
        BY <1>1, <1>4, <1>5, ProbesTypes
    <2> QED
        BY <2>1, <2>2, ProbeNumbers
<1>10. DoneOK'
    <2> SUFFICES ASSUME NEW q \in Probes!Probes, waits[q].step = "done", waits[q].code = "OK"
                 PROVE  /\ since'[q] <= ProbeTicks + Probes!Trust(q)
                        /\ \A r \in Probes!Probes :
                            /\ waits[r].step = "await" => since'[q] + waits[r].left <= ProbeTicks + Probes!Trust(q)
                            /\ waits[r].step = "start" => since'[q] <= Probes!Trust(q)
        BY <1>2 DEF DoneOK, Probes!Trust
    <2>1. /\ since[q] <= ProbeTicks + Probes!Trust(q)
          /\ \A r \in Probes!Probes :
            /\ waits[r].step = "await" => since[q] + waits[r].left <= ProbeTicks + Probes!Trust(q)
            /\ waits[r].step = "start" => since[q] <= Probes!Trust(q)
        BY <1>1 DEF DoneOK
    <2>2. since'[q] \in Nat /\ since'[q] <= since[q] /\ since[q] \in Nat
        BY <1>1, <1>4, <1>5, ProbesTypes
    <2>3. \A r \in Probes!Probes : waits[r].left \in Nat
        BY <1>1, ProbesTypes
    <2> QED
        BY <2>1, <2>2, <2>3, ProbeNumbers
<1>11. ShownOK'
    <2> SUFFICES ASSUME NEW q \in Probes!Probes, shown.codes[q] = "OK", shown.age <= StaleTicks
                 PROVE  since'[q] <= ProbeTicks + Probes!Trust(q) + shown.age
        BY <1>2 DEF ShownOK, Probes!Trust
    <2>1. since[q] <= ProbeTicks + Probes!Trust(q) + shown.age
        BY <1>1 DEF ShownOK
    <2>2. since'[q] \in Nat /\ since'[q] <= since[q] /\ since[q] \in Nat /\ shown.age \in Nat
        BY <1>1, <1>4, <1>5, ProbesTypes
    <2> QED
        BY <2>1, <2>2, ProbeNumbers
<1> QED
    BY <1>6, <1>7, <1>8, <1>9, <1>10, <1>11, ProbesPartsNext

LEMMA LessIs == ASSUME NEW n \in Nat PROVE Probes!Less(n) \in Nat /\ Probes!Less(n) = IF n = 0 THEN 0 ELSE n - 1
    BY DEF Probes!Less

LEMMA OlderIs ==
    ASSUME NEW n \in Nat, NEW m \in Nat
    PROVE  /\ Probes!Older(n, m) \in Nat /\ Probes!Older(n, m) <= n + 1
           /\ Probes!Older(n, m) < m => Probes!Older(n, m) = n + 1
    BY DEF Probes!Older

LEMMA WaitLess ==
    ASSUME NEW w \in WaitType
    PROVE  LET v == [w EXCEPT !.left = Probes!Less(w.left)]
           IN  v \in WaitType /\ v.step = w.step /\ v.code = w.code /\ v.left = Probes!Less(w.left)
<1>1. w.left \in Nat /\ Probes!Less(w.left) \in Nat
    BY LessIs DEF WaitType
<1> QED
    BY <1>1 DEF WaitType

LEMMA ProbesTickKept ==
    ASSUME Probes!ProbesInv, Probes!Tick
    PROVE  Probes!ProbesInv'
<1>1. /\ Probes!TypeOK /\ Lone /\ Idle /\ Asleep /\ InRound /\ Together
      /\ GoodNow /\ Trusted /\ HeardOK /\ DoneOK /\ ShownOK
    BY ProbesParts
<1>2. UNCHANGED <<good, threads>>
    BY DEF Probes!Tick
<1>3. /\ loop.step = "round" => \E p \in Probes!Probes : waits[p].step # "done"
      /\ loop.step = "sleep" => loop.left # 0
      /\ \A p \in Probes!Probes : loop.step = "round" => waits[p].step # "start"
      /\ \A p \in Probes!Probes : waits[p].step = "await" => waits[p].left # 0
    BY DEF Probes!Tick, Probes!RoundOver, Probes!Slept, Probes!Due, Probes!Overdue
<1>4. /\ since' \in [Probes!Probes -> Nat]
      /\ \A p \in Probes!Probes : since'[p] <= since[p] + 1 /\ (good[p] => since'[p] = 0)
    <2>1. since' = [p \in Probes!Probes |-> IF good[p] THEN 0 ELSE Probes!Older(since[p], Probes!Far)]
        BY DEF Probes!Tick
    <2>2. \A p \in Probes!Probes :
            since[p] \in Nat /\ Probes!Older(since[p], Probes!Far) \in Nat /\ Probes!Older(since[p], Probes!Far) <= since[p] + 1
        BY <1>1, ProbesTypes, ProbeNumbers, OlderIs
    <2> QED
        BY <2>1, <2>2
<1>5. /\ loop' \in [step : {"round", "sleep", "ended"}, left : Nat]
      /\ loop'.step = loop.step /\ loop'.left = Probes!Less(loop.left)
    <2>1. loop' = [loop EXCEPT !.left = Probes!Less(loop.left)]
        BY DEF Probes!Tick
    <2>2. Probes!Less(loop.left) \in Nat
        BY <1>1, ProbesTypes, LessIs
    <2> QED
        BY <1>1, <2>1, <2>2, ProbesTypes
<1>6. /\ waits' \in [Probes!Probes -> WaitType]
      /\ \A p \in Probes!Probes :
            /\ waits'[p].step = waits[p].step /\ waits'[p].code = waits[p].code
            /\ waits'[p].left = Probes!Less(waits[p].left)
            /\ waits[p] = Probes!ToStart => waits'[p] = Probes!ToStart
    <2>1. waits' = [p \in Probes!Probes |-> [waits[p] EXCEPT !.left = Probes!Less(waits[p].left)]]
        BY DEF Probes!Tick
    <2>2. [Probes!ToStart EXCEPT !.left = Probes!Less(Probes!ToStart.left)] = Probes!ToStart
        BY DEF Probes!ToStart, Probes!Less
    <2> QED
        BY <1>1, <2>1, <2>2, WaitLess, ProbesTypes
<1>7. /\ shown' \in [age : Nat, codes : [Probes!Probes -> Probes!Codes]]
      /\ shown'.codes = shown.codes /\ shown'.age \in Nat /\ shown'.age <= shown.age + 1
      /\ shown'.age <= StaleTicks => shown'.age = shown.age + 1
    <2>1. shown' = [shown EXCEPT !.age = Probes!Older(shown.age, StaleTicks + 1)]
        BY DEF Probes!Tick
    <2>2. /\ Probes!Older(shown.age, StaleTicks + 1) \in Nat
          /\ Probes!Older(shown.age, StaleTicks + 1) <= shown.age + 1
          /\ Probes!Older(shown.age, StaleTicks + 1) < StaleTicks + 1 =>
                Probes!Older(shown.age, StaleTicks + 1) = shown.age + 1
        <3>1. shown.age \in Nat /\ StaleTicks + 1 \in Nat
            BY <1>1, ProbesTypes, ProbeNumbers
        <3> QED
            BY <3>1, OlderIs
    <2>3. shown'.age = Probes!Older(shown.age, StaleTicks + 1)
        BY <1>1, <2>1, ProbesTypes
    <2>4. shown' \in [age : Nat, codes : [Probes!Probes -> Probes!Codes]] /\ shown'.codes = shown.codes
        BY <1>1, <2>1, <2>2, ProbesTypes
    <2> QED
        BY <2>2, <2>3, <2>4, ProbeNumbers
<1>8. proven' \in Nat /\ (proven' > 0 => proven' = proven - 1)
    BY <1>1, ProbesTypes, LessIs DEF Probes!Tick
<1>n. /\ loop.left \in Nat /\ shown.age \in Nat /\ proven \in Nat
      /\ \A p \in Probes!Probes : since[p] \in Nat /\ waits[p].left \in Nat /\ since'[p] \in Nat
    BY <1>1, <1>4, ProbesTypes
<1>l. \A p \in Probes!Probes : waits[p].step = "await" => waits'[p].left = waits[p].left - 1
    BY <1>3, <1>6, <1>n, LessIs
<1>9. Probes!TypeOK' /\ Lone'
    BY <1>1, <1>2, <1>4, <1>5, <1>6, <1>7, <1>8, ProbesTypes DEF Probes!TypeOK, WaitType, ThreadType, Lone
<1>10. Idle'
    BY <1>1, <1>5, <1>6 DEF Idle
<1>11. Asleep'
    <2> SUFFICES ASSUME loop.step = "sleep" PROVE shown'.age + loop'.left <= IntervalTicks
        BY <1>5 DEF Asleep
    <2>1. shown.age + loop.left <= IntervalTicks /\ loop'.left = loop.left - 1
        BY <1>1, <1>3, <1>5, <1>n, LessIs DEF Asleep
    <2> QED
        BY <1>7, <1>n, <2>1, ProbeNumbers
<1>12. InRound'
    <2> SUFFICES ASSUME loop.step = "round" PROVE shown'.age <= IntervalTicks + ProbeTicks
        BY <1>3, <1>5, <1>6 DEF InRound
    <2>1. PICK p \in Probes!Probes : waits[p].step = "await"
        BY <1>1, <1>3, ProbesTypes DEF WaitType
    <2>2. shown.age + waits[p].left <= IntervalTicks + ProbeTicks /\ waits[p].left >= 1
        BY <1>1, <1>3, <1>n, <2>1 DEF Together
    <2> QED
        BY <1>7, <1>n, <2>2, ProbeNumbers
<1>13. Together'
    <2> SUFFICES ASSUME NEW p \in Probes!Probes, waits[p].step = "await"
                 PROVE  /\ shown'.age + waits'[p].left <= IntervalTicks + ProbeTicks
                        /\ waits'[p].left <= ProbeTicks
                        /\ \A q \in Probes!Probes :
                            /\ waits[q].step = "await" => waits'[q].left = waits'[p].left
                            /\ waits[q].step = "start" => waits'[p].left = ProbeTicks
        BY <1>6 DEF Together
    <2>1. /\ shown.age + waits[p].left <= IntervalTicks + ProbeTicks
          /\ waits[p].left <= ProbeTicks
          /\ \A q \in Probes!Probes : waits[q].step = "await" => waits[q].left = waits[p].left
        BY <1>1 DEF Together
    <2>2. waits'[p].left = waits[p].left - 1 /\ waits[p].left \in Nat
        BY <1>l, <1>n
    <2>3. shown'.age + waits'[p].left <= IntervalTicks + ProbeTicks /\ waits'[p].left <= ProbeTicks
        BY <1>7, <1>n, <2>1, <2>2, ProbeNumbers
    <2>4. \A q \in Probes!Probes : waits[q].step = "await" => waits'[q].left = waits'[p].left
        BY <1>l, <2>1
    <2>5. loop.step = "round"
        BY <1>1, ToStartIs DEF Idle
    <2> QED
        BY <1>3, <2>3, <2>4, <2>5
<1>14. GoodNow'
    BY <1>2, <1>4 DEF GoodNow
<1>15. Trusted'
    <2> SUFFICES ASSUME proven' > 0 PROVE since'["bundle"] + proven' <= FilesTicks
        BY DEF Trusted
    <2>1. since["bundle"] + proven <= FilesTicks /\ proven' = proven - 1
        BY <1>1, <1>8, <1>n DEF Trusted
    <2>2. since'["bundle"] <= since["bundle"] + 1 /\ since'["bundle"] \in Nat /\ since["bundle"] \in Nat
        BY <1>4, <1>n DEF Probes!Probes
    <2> QED
        BY <1>n, <2>1, <2>2, ProbeNumbers
<1>16. HeardOK'
    <2> SUFFICES ASSUME NEW p \in Probes!Probes, NEW i \in Probes!Slots, threads[p][i].heard
                 PROVE  /\ waits[p].step = "await"
                        /\ threads[p][i].found = "OK" => since'[p] + waits'[p].left <= ProbeTicks + Probes!Trust(p)
        BY <1>2, <1>6 DEF HeardOK, Probes!Trust
    <2>1. /\ waits[p].step = "await"
          /\ threads[p][i].found = "OK" => since[p] + waits[p].left <= ProbeTicks + Probes!Trust(p)
        BY <1>1 DEF HeardOK
    <2>2. waits'[p].left = waits[p].left - 1 /\ since'[p] <= since[p] + 1
        BY <1>4, <1>l, <2>1
    <2> QED
        BY <1>n, <2>1, <2>2, ProbeNumbers
<1>17. DoneOK'
    <2> SUFFICES ASSUME NEW p \in Probes!Probes, waits[p].step = "done", waits[p].code = "OK"
                 PROVE  /\ since'[p] <= ProbeTicks + Probes!Trust(p)
                        /\ \A q \in Probes!Probes :
                            /\ waits[q].step = "await" => since'[p] + waits'[q].left <= ProbeTicks + Probes!Trust(p)
                            /\ waits[q].step = "start" => since'[p] <= Probes!Trust(p)
        BY <1>6 DEF DoneOK, Probes!Trust
    <2>1. loop.step = "round"
        BY <1>1, ToStartIs DEF Idle
    <2>2. ASSUME NEW q \in Probes!Probes, waits[q].step = "await"
          PROVE  since'[p] + waits'[q].left <= ProbeTicks + Probes!Trust(p) /\ waits'[q].left \in Nat
        <3>1. since[p] + waits[q].left <= ProbeTicks + Probes!Trust(p)
            BY <1>1, <2>2 DEF DoneOK
        <3>2. waits'[q].left = waits[q].left - 1 /\ waits[q].left # 0
            BY <1>3, <1>l, <2>2
        <3>3. since'[p] <= since[p] + 1 /\ since[p] \in Nat /\ since'[p] \in Nat /\ waits[q].left \in Nat
            BY <1>4, <1>n
        <3> QED
            BY <3>1, <3>2, <3>3, ProbeNumbers
    <2>3. PICK q \in Probes!Probes : waits[q].step = "await"
        BY <1>1, <1>3, <2>1, ProbesTypes DEF WaitType
    <2>4. since'[p] <= ProbeTicks + Probes!Trust(p)
        BY <1>n, <2>2, <2>3, ProbeNumbers
    <2> QED
        BY <1>3, <2>1, <2>2, <2>4
<1>18. ShownOK'
    <2> SUFFICES ASSUME NEW p \in Probes!Probes, shown.codes[p] = "OK", shown'.age <= StaleTicks
                 PROVE  since'[p] <= ProbeTicks + Probes!Trust(p) + shown'.age
        BY <1>7 DEF ShownOK, Probes!Trust
    <2>1. shown'.age = shown.age + 1
        BY <1>7
    <2>2. since[p] <= ProbeTicks + Probes!Trust(p) + shown.age
        BY <1>1, <1>n, <2>1, ProbeNumbers DEF ShownOK
    <2>3. since'[p] <= since[p] + 1
        BY <1>4
    <2> QED
        BY <1>n, <2>1, <2>2, <2>3, ProbeNumbers
<1> QED
    BY <1>9, <1>10, <1>11, <1>12, <1>13, <1>14, <1>15, <1>16, <1>17, <1>18, ProbesPartsNext

LEMMA ProbesStill == ASSUME Probes!ProbesInv, UNCHANGED Probes!vars PROVE Probes!ProbesInv'
<1>1. UNCHANGED <<good, since, loop, waits, threads, shown, proven>>
    BY DEF Probes!vars
<1>2. /\ Probes!TypeOK /\ Lone /\ Idle /\ Asleep /\ InRound /\ Together
      /\ GoodNow /\ Trusted /\ HeardOK /\ DoneOK /\ ShownOK
    BY ProbesParts
<1>3. Probes!TypeOK' /\ Lone' /\ Idle' /\ Asleep' /\ InRound' /\ Together'
    BY <1>1, <1>2 DEF Probes!TypeOK, Lone, Idle, Asleep, InRound, Together
<1>4. GoodNow' /\ Trusted' /\ HeardOK' /\ DoneOK' /\ ShownOK'
    BY <1>1, <1>2 DEF GoodNow, Trusted, HeardOK, DoneOK, ShownOK, Probes!Trust
<1> QED
    BY <1>3, <1>4, ProbesPartsNext

LEMMA InitProbed == Probes!Init => Probes!ProbesInv
<1> SUFFICES ASSUME Probes!Init PROVE Probes!ProbesInv
    OBVIOUS
<1>1. /\ loop = [step |-> "round", left |-> 0]
      /\ waits = [p \in Probes!Probes |-> Probes!ToStart]
      /\ threads = [p \in Probes!Probes |-> [i \in Probes!Slots |-> Probes!NoThread]]
      /\ shown = [age |-> 0, codes |-> [p \in Probes!Probes |-> "PROBE_NOT_RUN"]]
      /\ proven = 0
    BY DEF Probes!Init
<1>2. good \in [Probes!Probes -> BOOLEAN] /\ since = [p \in Probes!Probes |-> IF good[p] THEN 0 ELSE Probes!Far]
    BY DEF Probes!Init
<1>3. since \in [Probes!Probes -> Nat] /\ GoodNow
    BY <1>2, ProbeNumbers DEF GoodNow
<1>4. waits \in [Probes!Probes -> WaitType] /\ \A p \in Probes!Probes : waits[p].step = "start"
    BY <1>1, ToStartIs
<1>5. threads \in [Probes!Probes -> [Probes!Slots -> ThreadType]] /\ Lone /\ HeardOK
    BY <1>1, NoThreadIs, SlotsAre DEF Lone, HeardOK
<1>6. shown \in [age : Nat, codes : [Probes!Probes -> Probes!Codes]]
    BY <1>1 DEF Probes!Codes
<1>7. Probes!TypeOK
    BY <1>1, <1>2, <1>3, <1>4, <1>5, <1>6 DEF Probes!TypeOK, WaitType, ThreadType
<1>8. Idle /\ Asleep /\ InRound
    BY <1>1, ProbeNumbers DEF Idle, Asleep, InRound
<1>9. Together /\ DoneOK
    BY <1>4 DEF Together, DoneOK
<1>10. Trusted /\ ShownOK
    BY <1>1 DEF Trusted, ShownOK
<1> QED
    BY <1>3, <1>5, <1>7, <1>8, <1>9, <1>10, ProbesParts

LEMMA NextProbed == ASSUME Probes!ProbesInv, Probes!Next \/ UNCHANGED Probes!vars PROVE Probes!ProbesInv'
<1>1. ASSUME NEW p \in Probes!Probes,
             Probes!Start(p) \/ Probes!StartFails(p) \/ Probes!TimeOut(p) \/ Probes!Turn(p)
      PROVE  Probes!ProbesInv'
    BY <1>1, StartKept, StartFailsKept, TimeOutKept, TurnKept
<1>2. ASSUME NEW p \in Probes!Probes, NEW i \in Probes!Slots,
             Probes!Read(p, i) \/ Probes!Tell(p, i) \/ Probes!Finish(p, i)
      PROVE  Probes!ProbesInv'
    BY <1>2, ReadKept, TellKept, FinishKept
<1>3. CASE Probes!Publish \/ Probes!Wake \/ Probes!Tick
    BY <1>3, PublishKept, WakeKept, ProbesTickKept
<1>4. CASE UNCHANGED Probes!vars
    BY <1>4, ProbesStill
<1> QED
    BY <1>1, <1>2, <1>3, <1>4, Zenon DEF Probes!Next

LEMMA ProbesInvSound == Probes!ProbesInv => Probes!ProbesSound
<1> SUFFICES ASSUME Probes!ProbesInv PROVE Probes!ProbesSound
    OBVIOUS
<1>1. Probes!TypeOK /\ Asleep /\ InRound /\ ShownOK /\ Probes!OneThread
    BY ProbesParts, Zenon DEF Probes!ProbesInv
<1>2. loop.step # "ended" => shown.age <= IntervalTicks + ProbeTicks
    <2>1. loop.step \in {"round", "sleep", "ended"} /\ loop.left \in Nat /\ shown.age \in Nat
        BY <1>1, ProbesTypes
    <2> QED
        BY <1>1, <2>1, ProbeNumbers DEF Asleep, InRound
<1>3. ASSUME NEW p \in Probes!Probes, Probes!Code(p) = "OK"
      PROVE  since[p] <= ProbeTicks + StaleTicks + Probes!Trust(p)
    <2>1. shown.age <= StaleTicks /\ shown.codes[p] = "OK"
        BY <1>1, <1>3, ProbesTypes, ProbeNumbers DEF Probes!Code
    <2>2. since[p] <= ProbeTicks + Probes!Trust(p) + shown.age
        BY <1>1, <2>1 DEF ShownOK
    <2>3. since[p] \in Nat /\ shown.age \in Nat
        BY <1>1, ProbesTypes
    <2> QED
        BY <2>1, <2>2, <2>3, ProbeNumbers
<1>4. Probes!ShownLately
    <2>1. "store" \in Probes!Probes /\ "bundle" \in Probes!Probes
        BY DEF Probes!Probes
    <2>2. Probes!Trust("store") = 0 /\ Probes!Trust("bundle") = FilesTicks
        BY DEF Probes!Trust
    <2>3. Probes!Code("store") = "OK" => since["store"] <= ProbeTicks + StaleTicks
        BY <1>3, <2>1, <2>2, ProbeNumbers
    <2>4. Probes!Code("bundle") = "OK" => since["bundle"] <= ProbeTicks + StaleTicks + FilesTicks
        BY <1>3, <2>1, <2>2
    <2> QED
        BY <2>3, <2>4 DEF Probes!ShownLately
<1> QED
    BY <1>1, <1>2, <1>4 DEF Probes!ProbesSound, Probes!RoundsGoOn

-----------------------------------------------------------------------------
(* The rate decks, by the names their state has in Decks; their receipts   *)
(* are the kept ones.                                                      *)

decks == x1
lastSeq == x2
kept == x3
told == x4
runs == x5
unit == x6

USE DEF decks, lastSeq, kept, told, runs, unit

\* DecksInv, in the parts a step disturbs.
UnitSteps == {"rest", "wait", "insert", "rates", "receipt", "pin", "commit"}
Holding == {"insert", "rates", "receipt", "pin", "commit"}
UnitAsks == Decks!Requests \cup {Decks!Starts}
UnitType == [step : UnitSteps, asks : UnitAsks, deck : Decks!Rows, left : Nat]
Both(q, r) == q.asks = Decks!Starts /\ r.asks = Decks!Starts
Alone == \A u, v \in Units : unit[u].step \in Holding /\ unit[v].step \in Holding /\ u # v => Both(unit[u], unit[v])
NumberedPast(n) == \A i \in 1..Len(decks) : decks[i].seq < n
Wrote(q) ==
    /\ q.step \in {"insert", "rates", "receipt"} => q.asks # Decks!Starts
    /\ q.step = "pin" => q.asks = Decks!Starts
    /\ q.step = "commit" /\ q.asks = Decks!Starts => q.deck = Decks!Latest
    /\ q.step \in {"rates", "receipt", "commit"} /\ q.asks # Decks!Starts =>
        q.deck.key = q.asks.key /\ NumberedPast(q.deck.seq)
    /\ q.step \in {"receipt", "commit"} /\ q.asks # Decks!Starts => q.deck.rates = q.asks.rates
    /\ q.step = "commit" /\ q.asks # Decks!Starts => \A a \in kept : a.key # q.asks.key
Written == \A u \in Units : Wrote(unit[u])
ReceiptsMatch ==
    /\ \A i \in 1..Len(decks) : decks[i] \in kept
    /\ \A a \in kept : \E i \in 1..Len(decks) : decks[i] = a
Ordered == \A i, j \in 1..Len(decks) : i < j => decks[i].seq < decks[j].seq
Pinned == \A r \in runs : r.pinned = r.latest
OneKey == \A i, j \in 1..Len(decks) : decks[i].key = decks[j].key => i = j
TellsDecks == \A a \in told : \E i \in 1..Len(decks) : decks[i] = a
BooksOfDecks == lastSeq \in Nat /\ kept \subseteq Decks!Rows /\ told \subseteq Decks!Rows /\ runs \subseteq [pinned : Nat, latest : Nat]

LEMMA DecksParts ==
    Decks!DecksInv <=>
        /\ decks \in Seq(Decks!Rows) /\ BooksOfDecks /\ unit \in [Units -> UnitType]
        /\ Alone /\ Written /\ ReceiptsMatch /\ Ordered /\ Pinned /\ OneKey /\ TellsDecks
<1>1. Decks!TypeOK <=> decks \in Seq(Decks!Rows) /\ BooksOfDecks /\ unit \in [Units -> UnitType]
    BY Zenon DEF Decks!TypeOK, BooksOfDecks, UnitType, UnitSteps, UnitAsks
<1>2. Decks!Exclusive <=> Alone
    BY DEF Decks!Exclusive, Decks!Holders, Decks!Conflict, Decks!Saves, Alone, Both, Holding
<1>3. ASSUME decks \in Seq(Decks!Rows)
      PROVE  /\ Decks!WrittenSoFar <=> Written
             /\ Decks!ReceiptsOfDecks /\ Decks!DecksSound <=>
                    ReceiptsMatch /\ Ordered /\ Pinned /\ OneKey /\ TellsDecks
    <2>1. DOMAIN decks = 1..Len(decks)
        BY <1>3
    <2>2. \A k : Decks!Held(k) = {} <=> \A a \in kept : a.key # k
        BY DEF Decks!Held
    <2>3. Decks!WrittenSoFar <=> Written
        BY <2>1, <2>2, Zenon DEF Decks!WrittenSoFar, Decks!At, Decks!Saves, Written, Wrote, NumberedPast
    <2>4. Decks!ReceiptsOfDecks <=> ReceiptsMatch
        BY <2>1, Zenon DEF Decks!ReceiptsOfDecks, ReceiptsMatch
    <2>5. Decks!DecksSound <=> Ordered /\ Pinned /\ OneKey /\ TellsDecks
        BY <2>1, Zenon DEF Decks!DecksSound, Decks!CommitOrder, Decks!PinnedLatest, Decks!OneDeckPerKey, Ordered, Pinned, OneKey, TellsDecks
    <2> QED
        BY <2>3, <2>4, <2>5
<1> QED
    BY <1>1, <1>2, <1>3, Zenon DEF Decks!DecksInv

LEMMA DecksPartsNext ==
    Decks!DecksInv' <=>
        (/\ decks \in Seq(Decks!Rows) /\ BooksOfDecks /\ unit \in [Units -> UnitType]
         /\ Alone /\ Written /\ ReceiptsMatch /\ Ordered /\ Pinned /\ OneKey /\ TellsDecks)'
    BY DecksParts, PTL

LEMMA RowIs ==
    /\ \A r \in Decks!Rows : r.seq \in Nat /\ r.key \in DeckKeys \cup {0} /\ r.rates \in Rates \cup {0}
    /\ \A n \in Nat, k \in DeckKeys \cup {0}, s \in Rates \cup {0} :
        LET r == [seq |-> n, key |-> k, rates |-> s] IN r \in Decks!Rows /\ r.seq = n /\ r.key = k /\ r.rates = s
    /\ \A q, r \in Decks!Rows : q.seq = r.seq /\ q.key = r.key /\ q.rates = r.rates => q = r
    /\ Decks!NoDeck \in Decks!Rows
    BY DEF Decks!Rows, Decks!NoDeck

LEMMA AsksIs ==
    /\ \A a \in UnitAsks : a # Decks!Starts => a.key \in DeckKeys \cup {0} /\ a.rates \in Rates \cup {0}
    /\ Decks!Starts \in UnitAsks
    BY DEF UnitAsks, Decks!Requests

LEMMA UnitFields ==
    ASSUME NEW q \in UnitType
    PROVE  q.step \in UnitSteps /\ q.asks \in UnitAsks /\ q.deck \in Decks!Rows /\ q.left \in Nat
    BY DEF UnitType

LEMMA RestingIs ==
    Decks!Resting \in UnitType /\ Decks!Resting.step = "rest" /\ Decks!Resting.asks = Decks!Starts
    BY RowIs, AsksIs DEF Decks!Resting, UnitType, UnitSteps

LEMMA LatestIs == ASSUME decks \in Seq(Decks!Rows) PROVE Decks!Latest \in Decks!Rows
    BY RowIs DEF Decks!Latest, Decks!Last

\* What a unit does, beside the other units, while no save is committed.
LEMMA UnitMoves ==
    ASSUME unit \in [Units -> UnitType], Alone, Written, NEW u \in Units, NEW q \in UnitType,
           unit' = [unit EXCEPT ![u] = q], UNCHANGED <<decks, kept>>, Wrote(q),
           q.step \in Holding =>
                (unit[u].step \in Holding /\ q.asks = unit[u].asks)
                    \/ \A v \in Units \ {u} : unit[v].step \in Holding => Both(q, unit[v])
    PROVE  unit' \in [Units -> UnitType] /\ Alone' /\ Written'
<1>1. unit' \in [Units -> UnitType] /\ \A v \in Units : unit'[v] = IF v = u THEN q ELSE unit[v]
    OBVIOUS
<1>2. \A v \in Units \ {u} : q.step \in Holding /\ unit[v].step \in Holding => Both(q, unit[v])
    BY DEF Alone, Both
<1>3. Alone'
    BY <1>1, <1>2 DEF Alone, Both
<1>4. Written'
    <2> SUFFICES ASSUME NEW v \in Units PROVE Wrote(unit[v])'
        BY DEF Written
    <2>1. \A r : Wrote(r) => Wrote(r)'
        BY DEF Wrote, NumberedPast, Decks!Latest
    <2>2. Wrote(unit'[v])
        BY <1>1 DEF Written
    <2> QED
        BY <2>2 DEF Wrote, NumberedPast, Decks!Latest
<1> QED
    BY <1>1, <1>3, <1>4

LEMMA DecksKept ==
    ASSUME Decks!DecksInv, UNCHANGED <<decks, lastSeq, kept, told, runs>>,
           (unit \in [Units -> UnitType] /\ Alone /\ Written)'
    PROVE  Decks!DecksInv'
<1>1. (decks \in Seq(Decks!Rows) /\ BooksOfDecks)'
    BY DecksParts DEF BooksOfDecks
<1>2. (ReceiptsMatch /\ Ordered /\ Pinned /\ OneKey /\ TellsDecks)'
    <2>1. ReceiptsMatch /\ Ordered /\ Pinned /\ OneKey /\ TellsDecks
        BY DecksParts
    <2> QED
        BY <2>1 DEF ReceiptsMatch, Ordered, Pinned, OneKey, TellsDecks
<1> QED
    BY <1>1, <1>2, DecksPartsNext

LEMMA QueueIs ==
    ASSUME Decks!DecksInv, NEW u \in Units, NEW asks \in UnitAsks, Decks!Queue(u, asks), UNCHANGED <<decks, kept>>
    PROVE  (unit \in [Units -> UnitType] /\ Alone /\ Written)'
<1> DEFINE q == [Decks!Resting EXCEPT !.step = "wait", !.asks = asks, !.left = LockTicks]
<1>1. unit' = [unit EXCEPT ![u] = q]
    BY DEF Decks!Queue
<1>2. q \in UnitType /\ q.step = "wait"
    BY RestingIs, HandedOutIsTimed DEF UnitType, UnitSteps
<1> HIDE DEF q
<1>3. Wrote(q) /\ q.step \notin Holding
    BY <1>2 DEF Wrote, Holding
<1> QED
    BY <1>1, <1>2, <1>3, DecksParts, UnitMoves

LEMMA ReplayIs ==
    ASSUME Decks!DecksInv, NEW asks, Decks!Replay(asks), UNCHANGED <<decks, kept>>
    PROVE  told' \subseteq Decks!Rows /\ TellsDecks'
<1>1. told \subseteq Decks!Rows /\ kept \subseteq Decks!Rows /\ ReceiptsMatch /\ TellsDecks
    BY DecksParts DEF BooksOfDecks
<1>2. told' \subseteq told \cup kept
    BY DEF Decks!Replay, Decks!Held
<1> QED
    BY <1>1, <1>2 DEF ReceiptsMatch, TellsDecks

LEMMA AskKept ==
    ASSUME Decks!DecksInv, NEW u \in Units, NEW asks \in Decks!Requests, Decks!Ask(u, asks)
    PROVE  Decks!DecksInv'
<1>1. UNCHANGED <<decks, lastSeq, kept, runs>>
    BY DEF Decks!Ask
<1>2. CASE Decks!Held(asks.key) # {}
    <2>1. Decks!Replay(asks) /\ UNCHANGED unit
        BY <1>2 DEF Decks!Ask
    <2>2. told' \subseteq Decks!Rows /\ TellsDecks'
        BY <1>1, <2>1, ReplayIs
    <2>3. (decks \in Seq(Decks!Rows) /\ BooksOfDecks /\ unit \in [Units -> UnitType])'
        BY <1>1, <2>1, <2>2, DecksParts DEF BooksOfDecks
    <2>4. Alone' /\ Written'
        <3>1. Alone /\ Written
            BY DecksParts
        <3> QED
            BY <1>1, <2>1, <3>1 DEF Alone, Both, Written, Wrote, NumberedPast, Decks!Latest
    <2>5. (ReceiptsMatch /\ Ordered /\ Pinned /\ OneKey)'
        <3>1. ReceiptsMatch /\ Ordered /\ Pinned /\ OneKey
            BY DecksParts
        <3> QED
            BY <1>1, <3>1 DEF ReceiptsMatch, Ordered, Pinned, OneKey
    <2> QED
        BY <2>2, <2>3, <2>4, <2>5, DecksPartsNext
<1>3. CASE ~(Decks!Held(asks.key) # {})
    <2>1. Decks!Queue(u, asks) /\ UNCHANGED told
        BY <1>3 DEF Decks!Ask
    <2> QED
        BY <1>1, <2>1, QueueIs, DecksKept DEF UnitAsks
<1> QED
    BY <1>2, <1>3

LEMMA StartRunKept ==
    ASSUME Decks!DecksInv, NEW u \in Units, Decks!Start(u)
    PROVE  Decks!DecksInv'
<1>1. UNCHANGED <<decks, lastSeq, kept, told, runs>> /\ Decks!Queue(u, Decks!Starts)
    BY DEF Decks!Start, Decks!store
<1> QED
    BY <1>1, AsksIs, QueueIs, DecksKept

LEMMA GrantKept ==
    ASSUME Decks!DecksInv, NEW u \in Units, Decks!Grant(u)
    PROVE  Decks!DecksInv'
<1>1. UNCHANGED <<decks, lastSeq, kept, told, runs>> /\ unit[u].step = "wait"
    BY DEF Decks!Grant, Decks!store, Decks!At
<1>2. unit \in [Units -> UnitType] /\ unit[u] \in UnitType
    BY DecksParts
<1> DEFINE step == IF Decks!Saves(u) THEN "insert" ELSE "pin"
           left == IF Decks!Saves(u) THEN LockTicks ELSE 0
           q == [unit[u] EXCEPT !.step = step, !.left = left]
<1>3. unit' = [unit EXCEPT ![u] = q]
    <2>1. unit' = [unit EXCEPT ![u].step = step, ![u].left = left]
        BY DEF Decks!Grant
    <2> HIDE DEF step, left
    <2> QED
        BY <1>2, <2>1
<1>4. q \in UnitType /\ q.step = step /\ q.asks = unit[u].asks
    <2>1. step \in UnitSteps /\ left \in Nat
        BY HandedOutIsTimed DEF UnitSteps
    <2> HIDE DEF step, left
    <2> QED
        BY <1>2, <2>1 DEF UnitType
<1> HIDE DEF q
<1>5. Wrote(q)
    BY <1>4 DEF Wrote, Decks!Saves
<1>6. \A v \in Units \ {u} : unit[v].step \in Holding => Both(q, unit[v])
    <2>1. \A v \in Decks!Holders : ~Decks!Conflict(u, v)
        BY DEF Decks!Grant, Decks!Grantable
    <2> QED
        BY <1>4, <2>1 DEF Decks!Holders, Decks!Conflict, Decks!Saves, Both, Holding
<1>7. (unit \in [Units -> UnitType] /\ Alone /\ Written)'
    BY <1>1, <1>2, <1>3, <1>4, <1>5, <1>6, DecksParts, UnitMoves
<1> QED
    BY <1>1, <1>7, DecksKept

LEMMA EndsIs ==
    ASSUME Decks!DecksInv, NEW u \in Units, Decks!Ends(u), UNCHANGED <<decks, kept>>
    PROVE  (unit \in [Units -> UnitType] /\ Alone /\ Written)'
<1>1. unit' = [unit EXCEPT ![u] = Decks!Resting]
    BY DEF Decks!Ends
<1>2. Wrote(Decks!Resting) /\ Decks!Resting.step \notin Holding
    BY RestingIs DEF Wrote, Holding
<1> QED
    BY <1>1, <1>2, RestingIs, DecksParts, UnitMoves

LEMMA LetGoKept ==
    ASSUME Decks!DecksInv, NEW u \in Units, Decks!GiveUp(u) \/ Decks!Fail(u)
    PROVE  Decks!DecksInv'
<1>1. UNCHANGED <<decks, lastSeq, kept, told, runs>> /\ Decks!Ends(u)
    BY DEF Decks!GiveUp, Decks!Fail, Decks!store
<1> QED
    BY <1>1, EndsIs, DecksKept

LEMMA InsertKept ==
    ASSUME Decks!DecksInv, NEW u \in Units, Decks!Insert(u)
    PROVE  Decks!DecksInv'
<1>1. UNCHANGED <<decks, kept, told, runs>> /\ unit[u].step = "insert" /\ lastSeq' = lastSeq + 1
    BY DEF Decks!Insert, Decks!At
<1>2. /\ decks \in Seq(Decks!Rows) /\ BooksOfDecks /\ unit \in [Units -> UnitType]
      /\ Alone /\ Written /\ ReceiptsMatch /\ Ordered /\ Pinned /\ OneKey /\ TellsDecks
    BY DecksParts
<1>3. unit[u] \in UnitType /\ unit[u].asks # Decks!Starts /\ lastSeq' \in Nat
    BY <1>1, <1>2 DEF Written, Wrote, BooksOfDecks
<1> DEFINE deck == [seq |-> lastSeq', key |-> unit[u].asks.key, rates |-> 0]
           q == [unit[u] EXCEPT !.step = "rates", !.left = LockTicks, !.deck = deck]
<1>4. unit' = [unit EXCEPT ![u] = q]
    <2>1. unit' = [unit EXCEPT ![u].step = "rates", ![u].left = LockTicks, ![u].deck = deck]
        BY DEF Decks!Insert
    <2> HIDE DEF deck
    <2> QED
        BY <1>2, <2>1
<1>5. deck \in Decks!Rows /\ deck.seq = lastSeq' /\ deck.key = unit[u].asks.key
    <2>1. unit[u].asks.key \in DeckKeys \cup {0}
        BY <1>3, AsksIs, UnitFields
    <2> QED
        BY <1>3, <2>1, RowIs
<1>6. q \in UnitType /\ q.step = "rates" /\ q.asks = unit[u].asks /\ q.deck = deck
    <2>1. "rates" \in UnitSteps /\ LockTicks \in Nat
        BY HandedOutIsTimed DEF UnitSteps
    <2> HIDE DEF deck
    <2> QED
        BY <1>3, <1>5, <2>1 DEF UnitType
<1> HIDE DEF q, deck
<1>7. NumberedPast(lastSeq')
    <2>1. \A i \in DOMAIN decks : decks[i].seq < lastSeq'
        BY DEF Decks!Insert
    <2> QED
        BY <1>2, <2>1 DEF NumberedPast
<1>8. Wrote(q)
    <2>1. q.asks # Decks!Starts /\ q.deck.key = q.asks.key /\ q.deck.seq = lastSeq'
        BY <1>3, <1>5, <1>6
    <2> QED
        BY <1>6, <1>7, <2>1 DEF Wrote
<1>9. (unit \in [Units -> UnitType] /\ Alone /\ Written)'
    BY <1>1, <1>2, <1>4, <1>6, <1>8, UnitMoves DEF Holding
<1>10. (decks \in Seq(Decks!Rows) /\ BooksOfDecks)'
    BY <1>1, <1>2, <1>3 DEF BooksOfDecks
<1>11. (ReceiptsMatch /\ Ordered /\ Pinned /\ OneKey /\ TellsDecks)'
    BY <1>1, <1>2 DEF ReceiptsMatch, Ordered, Pinned, OneKey, TellsDecks
<1> QED
    BY <1>9, <1>10, <1>11, DecksPartsNext

LEMMA InsertRatesKept ==
    ASSUME Decks!DecksInv, NEW u \in Units, Decks!InsertRates(u)
    PROVE  Decks!DecksInv'
<1>1. UNCHANGED <<decks, lastSeq, kept, told, runs>> /\ unit[u].step = "rates"
    BY DEF Decks!InsertRates, Decks!At, Decks!store
<1>2. unit \in [Units -> UnitType] /\ unit[u] \in UnitType /\ Alone /\ Written
    BY DecksParts
<1>3. Wrote(unit[u]) /\ unit[u].deck \in Decks!Rows /\ unit[u].asks \in UnitAsks /\ unit[u].asks # Decks!Starts
    BY <1>1, <1>2, UnitFields DEF Written, Wrote
<1> DEFINE deck == [unit[u].deck EXCEPT !.rates = unit[u].asks.rates]
           q == [unit[u] EXCEPT !.step = "receipt", !.left = 0, !.deck = deck]
<1>4. unit' = [unit EXCEPT ![u] = q]
    <2>1. unit' = [unit EXCEPT ![u].step = "receipt", ![u].left = 0, ![u].deck.rates = unit[u].asks.rates]
        BY DEF Decks!InsertRates
    <2>2. [unit[u] EXCEPT !.step = "receipt", !.left = 0, !.deck.rates = unit[u].asks.rates] = q
        BY <1>2 DEF UnitType
    <2>3. unit' = [unit EXCEPT ![u] = [unit[u] EXCEPT !.step = "receipt", !.left = 0, !.deck.rates = unit[u].asks.rates]]
        BY <1>2, <2>1
    <2> QED
        BY <2>2, <2>3
<1>5. /\ deck \in Decks!Rows /\ deck.seq = unit[u].deck.seq /\ deck.key = unit[u].deck.key
      /\ deck.rates = unit[u].asks.rates
    BY <1>3, AsksIs DEF Decks!Rows
<1>6. q \in UnitType /\ q.step = "receipt" /\ q.asks = unit[u].asks /\ q.deck = deck
    <2>1. "receipt" \in UnitSteps /\ 0 \in Nat
        BY DEF UnitSteps
    <2> HIDE DEF deck
    <2> QED
        BY <1>2, <1>5, <2>1 DEF UnitType
<1> HIDE DEF q, deck
<1>7. Wrote(q)
    BY <1>1, <1>3, <1>5, <1>6 DEF Wrote
<1>8. (unit \in [Units -> UnitType] /\ Alone /\ Written)'
    BY <1>1, <1>2, <1>4, <1>6, <1>7, UnitMoves DEF Holding
<1> QED
    BY <1>1, <1>8, DecksKept

LEMMA Appended ==
    ASSUME NEW S, NEW s \in Seq(S), NEW e \in S
    PROVE  /\ Append(s, e) \in Seq(S) /\ Len(Append(s, e)) = Len(s) + 1
           /\ \A i \in 1..Len(s) : Append(s, e)[i] = s[i]
           /\ Append(s, e)[Len(s) + 1] = e
    BY AppendProperties

LEMMA RecordReceiptKept ==
    ASSUME Decks!DecksInv, NEW u \in Units, Decks!RecordReceipt(u)
    PROVE  Decks!DecksInv'
<1>1. UNCHANGED <<decks, lastSeq, kept, runs>> /\ unit[u].step = "receipt"
    BY DEF Decks!RecordReceipt, Decks!At
<1>2. unit \in [Units -> UnitType] /\ unit[u] \in UnitType /\ Alone /\ Written
    BY DecksParts
<1>3. Wrote(unit[u]) /\ unit[u].asks # Decks!Starts
    BY <1>1, <1>2 DEF Written, Wrote
<1>4. CASE Decks!Held(unit[u].asks.key) # {}
    <2>1. Decks!Ends(u) /\ Decks!Replay(unit[u].asks)
        BY <1>4 DEF Decks!RecordReceipt, Decks!Record
    <2>2. told' \subseteq Decks!Rows /\ TellsDecks'
        BY <1>1, <2>1, ReplayIs
    <2>3. (unit \in [Units -> UnitType] /\ Alone /\ Written)'
        BY <1>1, <2>1, EndsIs
    <2>4. (decks \in Seq(Decks!Rows) /\ BooksOfDecks)'
        BY <1>1, <2>2, DecksParts DEF BooksOfDecks
    <2>5. (ReceiptsMatch /\ Ordered /\ Pinned /\ OneKey)'
        <3>1. ReceiptsMatch /\ Ordered /\ Pinned /\ OneKey
            BY DecksParts
        <3> QED
            BY <1>1, <3>1 DEF ReceiptsMatch, Ordered, Pinned, OneKey
    <2> QED
        BY <2>2, <2>3, <2>4, <2>5, DecksPartsNext
<1>5. CASE ~(Decks!Held(unit[u].asks.key) # {})
    <2> DEFINE q == [unit[u] EXCEPT !.step = "commit", !.left = 0]
    <2>1. UNCHANGED told /\ unit' = [unit EXCEPT ![u].step = "commit", ![u].left = 0]
        BY <1>5 DEF Decks!RecordReceipt, Decks!Record, Decks!Go
    <2>2. unit' = [unit EXCEPT ![u] = q]
        BY <1>2, <2>1
    <2>3. q \in UnitType /\ q.step = "commit" /\ q.asks = unit[u].asks /\ q.deck = unit[u].deck
        <3>1. "commit" \in UnitSteps
            BY DEF UnitSteps
        <3> QED
            BY <1>2, <3>1 DEF UnitType
    <2> HIDE DEF q
    <2>4. \A a \in kept : a.key # unit[u].asks.key
        BY <1>5 DEF Decks!Held
    <2>5. Wrote(q)
        BY <1>1, <1>3, <2>3, <2>4 DEF Wrote
    <2>6. (unit \in [Units -> UnitType] /\ Alone /\ Written)'
        BY <1>1, <1>2, <2>2, <2>3, <2>5, UnitMoves DEF Holding
    <2> QED
        BY <1>1, <2>1, <2>6, DecksKept
<1> QED
    BY <1>4, <1>5

LEMMA CommitSaveKept ==
    ASSUME Decks!DecksInv, NEW u \in Units, Decks!CommitSave(u)
    PROVE  Decks!DecksInv'
<1>1. /\ decks \in Seq(Decks!Rows) /\ BooksOfDecks /\ unit \in [Units -> UnitType]
      /\ Alone /\ Written /\ ReceiptsMatch /\ Ordered /\ Pinned /\ OneKey /\ TellsDecks
    BY DecksParts
<1>2. unit[u].step = "commit" /\ unit[u].asks # Decks!Starts /\ UNCHANGED <<lastSeq, runs>>
    BY DEF Decks!CommitSave, Decks!At, Decks!Saves
<1> DEFINE deck == unit[u].deck
           answer == [seq |-> unit[u].deck.seq, key |-> unit[u].asks.key, rates |-> unit[u].asks.rates]
<1>3. decks' = Append(decks, deck) /\ kept' = kept \cup {answer} /\ told' = told \cup {answer}
    BY DEF Decks!CommitSave
<1>4. unit' = [unit EXCEPT ![u] = Decks!Resting]
    BY DEF Decks!CommitSave, Decks!Ends
<1>5. Wrote(unit[u]) /\ deck \in Decks!Rows /\ unit[u].asks \in UnitAsks
    BY <1>1, UnitFields DEF Written
<1>6. answer = deck
    <2>1. deck.key = unit[u].asks.key /\ deck.rates = unit[u].asks.rates
        BY <1>2, <1>5 DEF Wrote
    <2>2. answer = [seq |-> deck.seq, key |-> deck.key, rates |-> deck.rates]
        BY <2>1
    <2> QED
        BY <1>5, <2>2, RowIs
<1>7. NumberedPast(deck.seq) /\ \A a \in kept : a.key # deck.key
    BY <1>2, <1>5 DEF Wrote
<1> HIDE DEF deck, answer
<1>8. /\ decks' \in Seq(Decks!Rows) /\ Len(decks') = Len(decks) + 1 /\ Len(decks) \in Nat
      /\ \A i \in 1..Len(decks) : decks'[i] = decks[i]
      /\ decks'[Len(decks) + 1] = deck
    BY <1>1, <1>3, <1>5, Appended
<1>9. \A i \in 1..Len(decks') : i \in 1..Len(decks) \/ i = Len(decks) + 1
    BY <1>8
<1>10. BooksOfDecks'
    BY <1>1, <1>2, <1>3, <1>5, <1>6 DEF BooksOfDecks
<1>11. \A v \in Units : unit'[v].step \notin Holding
    BY <1>1, <1>2, <1>4, RestingIs DEF Alone, Both, Holding
<1>12. unit' \in [Units -> UnitType] /\ Alone'
    BY <1>1, <1>4, <1>11, RestingIs DEF Alone
<1>13. Written'
    BY <1>11 DEF Written, Wrote, Holding
<1>14. ReceiptsMatch'
    <2>1. \A i \in 1..Len(decks') : decks'[i] \in kept'
        BY <1>1, <1>3, <1>6, <1>8, <1>9 DEF ReceiptsMatch
    <2>2. ASSUME NEW a \in kept' PROVE \E i \in 1..Len(decks') : decks'[i] = a
        <3>1. CASE a \in kept
            <4>1. PICK i \in 1..Len(decks) : decks[i] = a
                BY <1>1, <3>1 DEF ReceiptsMatch
            <4> QED
                BY <1>8, <4>1
        <3>2. CASE a = deck
            BY <1>8, <3>2
        <3> QED
            BY <1>3, <1>6, <3>1, <3>2
    <2> QED
        BY <2>1, <2>2 DEF ReceiptsMatch
<1>15. TellsDecks'
    <2> SUFFICES ASSUME NEW a \in told' PROVE \E i \in 1..Len(decks') : decks'[i] = a
        BY DEF TellsDecks
    <2>1. CASE a \in told
        <3>1. PICK i \in 1..Len(decks) : decks[i] = a
            BY <1>1, <2>1 DEF TellsDecks
        <3> QED
            BY <1>8, <3>1
    <2>2. CASE a = deck
        BY <1>8, <2>2
    <2> QED
        BY <1>3, <1>6, <2>1, <2>2
<1>16. Ordered'
    <2> SUFFICES ASSUME NEW i \in 1..Len(decks'), NEW j \in 1..Len(decks'), i < j
                 PROVE  decks'[i].seq < decks'[j].seq
        BY DEF Ordered
    <2>1. i \in 1..Len(decks)
        BY <1>8
    <2>2. CASE j \in 1..Len(decks)
        BY <1>1, <1>8, <2>1, <2>2 DEF Ordered
    <2>3. CASE j = Len(decks) + 1
        BY <1>7, <1>8, <2>1, <2>3 DEF NumberedPast
    <2> QED
        BY <1>9, <2>2, <2>3
<1>17. OneKey'
    <2>1. \A i \in 1..Len(decks) : decks[i].key # deck.key
        BY <1>1, <1>7 DEF ReceiptsMatch
    <2> SUFFICES ASSUME NEW i \in 1..Len(decks'), NEW j \in 1..Len(decks'), decks'[i].key = decks'[j].key
                 PROVE  i = j
        BY DEF OneKey
    <2>2. CASE i \in 1..Len(decks) /\ j \in 1..Len(decks)
        BY <1>1, <1>8, <2>2 DEF OneKey
    <2>3. CASE i = Len(decks) + 1 \/ j = Len(decks) + 1
        BY <1>8, <1>9, <2>1, <2>3
    <2> QED
        BY <1>9, <2>2, <2>3
<1>18. Pinned'
    BY <1>1, <1>2 DEF Pinned
<1> QED
    BY <1>8, <1>10, <1>12, <1>13, <1>14, <1>15, <1>16, <1>17, <1>18, DecksPartsNext

LEMMA PinKept ==
    ASSUME Decks!DecksInv, NEW u \in Units, Decks!Pin(u)
    PROVE  Decks!DecksInv'
<1>1. UNCHANGED <<decks, lastSeq, kept, told, runs>> /\ unit[u].step = "pin"
    BY DEF Decks!Pin, Decks!At, Decks!store
<1>2. unit \in [Units -> UnitType] /\ unit[u] \in UnitType /\ Alone /\ Written /\ Decks!Latest \in Decks!Rows
    BY DecksParts, LatestIs
<1> DEFINE q == [unit[u] EXCEPT !.step = "commit", !.deck = Decks!Latest]
<1>3. unit' = [unit EXCEPT ![u] = q]
    <2>1. unit' = [unit EXCEPT ![u].step = "commit", ![u].deck = Decks!Latest]
        BY DEF Decks!Pin
    <2> QED
        BY <1>2, <2>1
<1>4. q \in UnitType /\ q.step = "commit" /\ q.asks = unit[u].asks /\ q.deck = Decks!Latest
    <2>1. "commit" \in UnitSteps
        BY DEF UnitSteps
    <2> QED
        BY <1>2, <2>1 DEF UnitType
<1> HIDE DEF q
<1>5. Wrote(q)
    <2>1. q.asks = Decks!Starts
        BY <1>1, <1>2, <1>4 DEF Written, Wrote
    <2> QED
        BY <1>4, <2>1 DEF Wrote
<1>6. (unit \in [Units -> UnitType] /\ Alone /\ Written)'
    BY <1>1, <1>2, <1>3, <1>4, <1>5, UnitMoves DEF Holding
<1> QED
    BY <1>1, <1>6, DecksKept

LEMMA CommitRunKept ==
    ASSUME Decks!DecksInv, NEW u \in Units, Decks!CommitRun(u)
    PROVE  Decks!DecksInv'
<1>1. UNCHANGED <<decks, lastSeq, kept, told>> /\ unit[u].step = "commit" /\ unit[u].asks = Decks!Starts
    BY DEF Decks!CommitRun, Decks!At, Decks!Saves
<1>2. /\ decks \in Seq(Decks!Rows) /\ BooksOfDecks /\ unit \in [Units -> UnitType]
      /\ Alone /\ Written /\ ReceiptsMatch /\ Ordered /\ Pinned /\ OneKey /\ TellsDecks
    BY DecksParts
<1>3. runs' = runs \cup {[pinned |-> unit[u].deck.seq, latest |-> Decks!Latest.seq]} /\ Decks!Ends(u)
    BY DEF Decks!CommitRun
<1>4. unit[u].deck = Decks!Latest /\ Decks!Latest.seq \in Nat
    BY <1>1, <1>2, LatestIs, RowIs DEF Written, Wrote
<1>5. BooksOfDecks' /\ Pinned'
    BY <1>1, <1>2, <1>3, <1>4 DEF BooksOfDecks, Pinned
<1>6. (unit \in [Units -> UnitType] /\ Alone /\ Written)'
    BY <1>1, <1>3, EndsIs
<1>7. (decks \in Seq(Decks!Rows) /\ ReceiptsMatch /\ Ordered /\ OneKey /\ TellsDecks)'
    BY <1>1, <1>2 DEF ReceiptsMatch, Ordered, OneKey, TellsDecks
<1> QED
    BY <1>5, <1>6, <1>7, DecksPartsNext

LEMMA DecksTickKept ==
    ASSUME Decks!DecksInv, Decks!Tick
    PROVE  Decks!DecksInv'
<1>1. UNCHANGED <<decks, lastSeq, kept, told, runs>>
    BY DEF Decks!Tick, Decks!store
<1>2. unit \in [Units -> UnitType] /\ Alone /\ Written
    BY DecksParts
<1>3. unit' = [u \in Units |-> [unit[u] EXCEPT !.left = Decks!Less(unit[u].left)]]
    BY DEF Decks!Tick
<1>4. ASSUME NEW u \in Units
      PROVE  /\ [unit[u] EXCEPT !.left = Decks!Less(unit[u].left)] \in UnitType
             /\ unit'[u].step = unit[u].step /\ unit'[u].asks = unit[u].asks /\ unit'[u].deck = unit[u].deck
    <2>1. unit[u] \in UnitType /\ Decks!Less(unit[u].left) \in Nat
        BY <1>2, UnitFields DEF Decks!Less
    <2> QED
        BY <1>3, <2>1 DEF UnitType
<1>5. unit' \in [Units -> UnitType]
    BY <1>3, <1>4
<1>6. Alone' /\ Written'
    <2>1. Alone'
        BY <1>2, <1>4 DEF Alone, Both
    <2>2. ASSUME NEW u \in Units PROVE Wrote(unit[u])'
        <3>1. Wrote(unit[u])
            BY <1>2 DEF Written
        <3> QED
            BY <1>1, <1>4, <3>1 DEF Wrote, NumberedPast, Decks!Latest
    <2> QED
        BY <2>1, <2>2 DEF Written
<1> QED
    BY <1>1, <1>5, <1>6, DecksKept

LEMMA DecksStill == ASSUME Decks!DecksInv, UNCHANGED Decks!vars PROVE Decks!DecksInv'
<1>1. UNCHANGED <<decks, lastSeq, kept, told, runs, unit>>
    BY DEF Decks!vars, Decks!store
<1>2. unit \in [Units -> UnitType] /\ Alone /\ Written
    BY DecksParts
<1>3. (unit \in [Units -> UnitType] /\ Alone /\ Written)'
    BY <1>1, <1>2 DEF Alone, Both, Written, Wrote, NumberedPast, Decks!Latest
<1> QED
    BY <1>1, <1>3, DecksKept

LEMMA InitDecked == Decks!Init => Decks!DecksInv
<1> SUFFICES ASSUME Decks!Init PROVE Decks!DecksInv
    OBVIOUS
<1>1. /\ decks = <<>> /\ lastSeq = 0 /\ kept = {} /\ told = {} /\ runs = {}
      /\ unit = [u \in Units |-> Decks!Resting]
    BY DEF Decks!Init
<1>2. decks \in Seq(Decks!Rows) /\ Len(decks) = 0 /\ BooksOfDecks
    BY <1>1 DEF BooksOfDecks
<1>3. unit \in [Units -> UnitType] /\ Alone /\ Written
    BY <1>1, RestingIs DEF Alone, Written, Wrote, Holding
<1>4. ReceiptsMatch /\ Ordered /\ Pinned /\ OneKey /\ TellsDecks
    BY <1>1, <1>2 DEF ReceiptsMatch, Ordered, Pinned, OneKey, TellsDecks
<1> QED
    BY <1>2, <1>3, <1>4, DecksParts

LEMMA NextDecked == ASSUME Decks!DecksInv, Decks!Next \/ UNCHANGED Decks!vars PROVE Decks!DecksInv'
<1>1. ASSUME NEW u \in Units, NEW asks \in Decks!Requests, Decks!Ask(u, asks)
      PROVE  Decks!DecksInv'
    BY <1>1, AskKept
<1>2. ASSUME NEW u \in Units, Decks!Start(u) \/ Decks!Grant(u) \/ Decks!GiveUp(u) \/ Decks!Fail(u)
      PROVE  Decks!DecksInv'
    BY <1>2, StartRunKept, GrantKept, LetGoKept
<1>3. ASSUME NEW u \in Units,
             Decks!Insert(u) \/ Decks!InsertRates(u) \/ Decks!RecordReceipt(u) \/ Decks!CommitSave(u)
      PROVE  Decks!DecksInv'
    BY <1>3, InsertKept, InsertRatesKept, RecordReceiptKept, CommitSaveKept
<1>4. ASSUME NEW u \in Units, Decks!Pin(u) \/ Decks!CommitRun(u)
      PROVE  Decks!DecksInv'
    BY <1>4, PinKept, CommitRunKept
<1>5. CASE Decks!Tick
    BY <1>5, DecksTickKept
<1>6. CASE UNCHANGED Decks!vars
    BY <1>6, DecksStill
<1> QED
    BY <1>1, <1>2, <1>3, <1>4, <1>5, <1>6, Zenon DEF Decks!Next

LEMMA DecksInvSound == Decks!DecksInv => Decks!DecksSound
    BY Zenon DEF Decks!DecksInv

-----------------------------------------------------------------------------
(* A connection's password, by the names its state has in Minting: what is *)
(* held is what was minted, who asks makes a call, a helper is a mint.     *)

minted == x1
refused == x2
minter == x3
mints == x4
calls == x5
life == x6
gone == x7

USE DEF minted, refused, minter, mints, calls, life, gone

\* MintingInv, in the parts a step disturbs.
MintSteps == {"rest", "try", "own", "join", "fall", "connect", "refused", "failed", "forget"}
Password == [step : MintSteps, live : BOOLEAN, left : Nat, waited : Nat, stirred : BOOLEAN,
             outcome : Minting!HeldTokens, good : BOOLEAN]
MintType == [step : {"none", "asking", "told"}, by : Callers \cup {Nobody}]
Joins == {d \in Callers : calls[d].step = "join"}
KeptTyped ==
    /\ minted \in Minting!HeldTokens /\ refused \in Nat /\ minter \in Callers \cup {Nobody}
    /\ life \in [Minting!Credentials -> Nat] /\ gone \subseteq Minting!Credentials
MintsTyped == mints \in [Minting!Threads -> MintType]
PasswordsTyped == calls \in [Callers -> Password]
LoneMint == mints[1] = Minting!NoHelper \/ mints[2] = Minting!NoHelper
Mutual ==
    /\ minter # Nobody => calls[minter].step \in {"own", "join", "fall"}
    /\ \A c \in Callers :
        /\ calls[c].step \in {"own", "join"} => minter = c
        /\ calls[c].step = "fall" => minter = c \/ calls[c].live
MintsTrue ==
    \A h \in Minting!Threads :
        /\ mints[h].step = "none" => mints[h].by = Nobody
        /\ mints[h].by # Nobody => mints[h].by \in Joins
HeldTrue ==
    /\ minted.refresh <= minted.expires
    /\ minted.expires > 0 => minted.token # 0 /\ life[minted.token] > minted.expires
    /\ minted.token \notin gone
ToldTrue ==
    \A c \in Callers : calls[c].outcome # Minting!NoneHeld =>
        /\ c \in Joins
        /\ calls[c].left = 0 \/ \E h \in Minting!Threads : mints[h] = [step |-> "told", by |-> c]
        /\ calls[c].outcome.token \in Minting!Credentials \ (gone \cup {minted.token})
        /\ life[calls[c].outcome.token] > calls[c].outcome.expires
JoinsEnd == \A d \in Joins : calls[d].left <= MintTicks
Patient(q) ==
    ~q.stirred =>
        /\ q.waited <= MintTicks
        /\ q.step \in {"try", "join"} => \A d \in Joins : q.waited + calls[d].left <= MintTicks
        /\ q.step \in {"try", "own", "join"} /\ q.waited > 0 =>
            minted.refresh > 0 \/ refused > 0 \/ Joins # {}
Prompt(c, q) ==
    /\ q.live /\ q.step = "try" => q.waited = 0
    /\ q.live /\ q.waited > 0 => minter = c
    /\ q.step = "connect" => q.good
Patience == JoinsEnd /\ \A c \in Callers : Patient(calls[c])
Promptness == \A c \in Callers : Prompt(c, calls[c])

LEMMA MintNumbers ==
    /\ TokenTicks \in Nat /\ MintTicks \in Nat /\ FailureTicks \in Nat /\ MaxTokens \in Nat
    /\ TokenTicks > 0 /\ FailureTicks > 0 /\ Lives \subseteq Nat /\ Nobody \notin Callers
    BY HandedOutIsTimed, IdentityIsBounded

LEMMA MintingSize == ASSUME NEW S PROVE Minting!Cardinality(S) = Cardinality(S)
    BY Zenon DEF Minting!Cardinality, Cardinality

LEMMA OneHelperIs == Minting!OneHelper <=> LoneMint
<1>1. CASE mints[1] = Minting!NoHelper /\ mints[2] = Minting!NoHelper
    <2>1. Minting!Running = {}
        BY <1>1 DEF Minting!Running, Minting!Threads
    <2> QED
        BY <1>1, <2>1, MintingSize, FS_EmptySet DEF Minting!OneHelper, LoneMint
<1>2. CASE mints[1] = Minting!NoHelper /\ mints[2] # Minting!NoHelper
    <2>1. Minting!Running = {2}
        BY <1>2 DEF Minting!Running, Minting!Threads
    <2> QED
        BY <1>2, <2>1, MintingSize, OneElement DEF Minting!OneHelper, LoneMint
<1>3. CASE mints[1] # Minting!NoHelper /\ mints[2] = Minting!NoHelper
    <2>1. Minting!Running = {1}
        BY <1>3 DEF Minting!Running, Minting!Threads
    <2> QED
        BY <1>3, <2>1, MintingSize, OneElement DEF Minting!OneHelper, LoneMint
<1>4. CASE mints[1] # Minting!NoHelper /\ mints[2] # Minting!NoHelper
    <2>1. Minting!Running = {1} \cup {2}
        BY <1>4 DEF Minting!Running, Minting!Threads
    <2>2. IsFiniteSet({1}) /\ Cardinality({1}) = 1 /\ 2 \notin {1}
        BY OneElement
    <2>3. Cardinality({1} \cup {2}) = 2
        BY <2>2, FS_AddElement
    <2> QED
        BY <1>4, <2>1, <2>3, MintingSize DEF Minting!OneHelper, LoneMint
<1> QED
    BY <1>1, <1>2, <1>3, <1>4

LEMMA MintingParts ==
    Minting!MintingInv <=>
        /\ KeptTyped /\ MintsTyped /\ PasswordsTyped /\ LoneMint /\ Mutual /\ MintsTrue
        /\ HeldTrue /\ ToldTrue /\ Patience /\ Promptness
<1>1. Minting!TypeOK <=> KeptTyped /\ MintsTyped /\ PasswordsTyped
    BY Zenon DEF Minting!TypeOK, KeptTyped, MintsTyped, PasswordsTyped, MintType, Password, MintSteps
<1> SUFFICES ASSUME KeptTyped, MintsTyped, PasswordsTyped
             PROVE  Minting!OneMinter /\ Minting!TakenLonger /\ Minting!OneMintLong /\ Minting!MintingSound <=>
                        /\ LoneMint /\ Mutual /\ MintsTrue
                        /\ HeldTrue /\ ToldTrue /\ Patience /\ Promptness
    BY <1>1, Zenon DEF Minting!MintingInv
<1>2. Minting!OneMinter <=> Mutual /\ MintsTrue
    BY DEF Minting!OneMinter, Minting!At, Minting!Passes, Mutual, MintsTrue, Joins, MintsTyped, MintType
<1>3. Minting!TakenLonger <=> HeldTrue /\ ToldTrue
    BY DEF Minting!TakenLonger, Minting!At, Minting!NoToken, HeldTrue, ToldTrue, Joins
<1>4. Minting!OneMintLong /\ Minting!MintingSound <=> LoneMint /\ Patience /\ Promptness
    <2>1. \A c \in Callers : calls[c].waited \in Nat
        BY DEF PasswordsTyped, Password
    <2>2. (\E d \in Callers : calls[d].step = "join") <=> Joins # {}
        BY DEF Joins
    <2>3. \A c \in Callers : calls[c].waited > MintTicks <=> ~(calls[c].waited <= MintTicks)
        BY <2>1, MintNumbers
    <2> QED
        BY <2>2, <2>3, OneHelperIs
        DEF Minting!OneMintLong, Minting!MintingSound, Minting!HandedGood, Minting!LiveNeverWaits, Minting!WaitsOneMint,
            Minting!At, Minting!Waits, Minting!Asking, Patience, Patient, Promptness, Prompt, JoinsEnd, Joins
<1> QED
    BY <1>2, <1>3, <1>4

LEMMA MintingPartsNext ==
    Minting!MintingInv' <=>
        (/\ KeptTyped /\ MintsTyped /\ PasswordsTyped /\ LoneMint /\ Mutual /\ MintsTrue
         /\ HeldTrue /\ ToldTrue /\ Patience /\ Promptness)'
    BY MintingParts, PTL

LEMMA PasswordFields ==
    ASSUME NEW q \in Password
    PROVE  /\ q.step \in MintSteps /\ q.live \in BOOLEAN /\ q.left \in Nat /\ q.waited \in Nat
           /\ q.stirred \in BOOLEAN /\ q.outcome \in Minting!HeldTokens /\ q.good \in BOOLEAN
    BY DEF Password

LEMMA TokenFields ==
    /\ \A t \in Minting!HeldTokens :
        /\ t.token \in Minting!Credentials \cup {0} /\ t.refresh \in Nat /\ t.expires \in Nat /\ t.young \in Nat
    /\ Minting!NoneHeld \in Minting!HeldTokens
    /\ Minting!NoneHeld.token = 0 /\ Minting!NoneHeld.refresh = 0 /\ Minting!NoneHeld.expires = 0
    /\ 0 \notin Minting!Credentials
    BY DEF Minting!HeldTokens, Minting!NoToken, Minting!NoneHeld, Minting!Credentials

LEMMA CalmIs ==
    LET r == Minting!Resting
    IN  /\ r \in Password /\ r.step = "rest" /\ r.live = FALSE /\ r.left = 0 /\ r.waited = 0
        /\ r.stirred = FALSE /\ r.outcome = Minting!NoneHeld /\ r.good = TRUE
    BY TokenFields DEF Minting!Resting, Password, MintSteps

\* What a caller does that is not in a mint, before or after.
LEMMA CallerMoves ==
    ASSUME Minting!MintingInv, NEW c \in Callers, NEW q \in Password,
           calls' = [calls EXCEPT ![c] = q], UNCHANGED <<minted, mints, life, gone>>,
           refused' \in Nat, refused > 0 => refused' > 0,
           calls[c].step # "join", q.step # "join", q.outcome = Minting!NoneHeld,
           \/ minter' = minter /\ minter # c /\ q.step # "own" /\ (q.step = "fall" => q.live)
           \/ minter' = c /\ minter \in {c, Nobody} /\ q.step \in {"own", "fall"}
           \/ minter' = Nobody /\ minter = c /\ q.step \notin {"own", "fall"},
           Patient(q) \/ Patient(q)',
           q.live /\ q.step = "try" => q.waited = 0, q.live /\ q.waited > 0 => minter' = c,
           q.step = "connect" => q.good
    PROVE  Minting!MintingInv'
<1>1. /\ KeptTyped /\ MintsTyped /\ PasswordsTyped /\ LoneMint /\ Mutual /\ MintsTrue
      /\ HeldTrue /\ ToldTrue /\ Patience /\ Promptness
    BY MintingParts
<1>2. PasswordsTyped' /\ \A d \in Callers : calls'[d] = IF d = c THEN q ELSE calls[d]
    BY <1>1 DEF PasswordsTyped
<1>3. Joins' = Joins /\ c \notin Joins /\ \A d \in Joins : calls'[d] = calls[d]
    BY <1>2 DEF Joins
<1>4. KeptTyped' /\ MintsTyped' /\ LoneMint' /\ HeldTrue'
    BY <1>1 DEF KeptTyped, MintsTyped, LoneMint, HeldTrue
<1>5. Mutual'
    <2>1. \A d \in Callers \ {c} : (calls[d].step \in {"own", "join"} => minter' = d)
                /\ (calls[d].step = "fall" => minter' = d \/ calls[d].live)
        BY <1>1, MintNumbers DEF Mutual
    <2>2. (q.step \in {"own", "join"} => minter' = c) /\ (q.step = "fall" => minter' = c \/ q.live)
        OBVIOUS
    <2>3. minter' # Nobody => calls'[minter'].step \in {"own", "join", "fall"}
        BY <1>1, <1>2 DEF Mutual, KeptTyped
    <2> QED
        BY <1>2, <2>1, <2>2, <2>3 DEF Mutual
<1>6. MintsTrue'
    BY <1>1, <1>3 DEF MintsTrue
<1>7. ToldTrue'
    <2> SUFFICES ASSUME NEW d \in Callers, calls'[d].outcome # Minting!NoneHeld
                 PROVE  /\ d \in Joins'
                        /\ calls'[d].left = 0 \/ \E h \in Minting!Threads : mints[h] = [step |-> "told", by |-> d]
                        /\ calls'[d].outcome.token \in Minting!Credentials \ (gone \cup {minted.token})
                        /\ life[calls'[d].outcome.token] > calls'[d].outcome.expires
        BY DEF ToldTrue
    <2>1. d # c /\ calls'[d] = calls[d]
        BY <1>2
    <2> QED
        BY <1>1, <1>3, <2>1 DEF ToldTrue
<1>8. Patience'
    <2>1. \A r : Patient(r) => Patient(r)'
        BY <1>3 DEF Patient
    <2>2. JoinsEnd'
        BY <1>1, <1>3 DEF Patience, JoinsEnd
    <2>3. ASSUME NEW d \in Callers PROVE Patient(calls[d])'
        <3>1. Patient(q)'
            BY <2>1
        <3>2. CASE d = c
            BY <1>2, <3>1, <3>2 DEF Patient
        <3>3. CASE d # c
            <4>1. Patient(calls[d]) /\ calls'[d] = calls[d]
                BY <1>1, <1>2, <3>3 DEF Patience
            <4> QED
                BY <1>3, <4>1 DEF Patient
        <3> QED
            BY <3>2, <3>3
    <2> QED
        BY <2>2, <2>3 DEF Patience
<1>9. Promptness'
    <2> SUFFICES ASSUME NEW d \in Callers PROVE Prompt(d, calls[d])'
        BY DEF Promptness
    <2>1. CASE d = c
        BY <1>2, <2>1 DEF Prompt
    <2>2. CASE d # c
        <3>1. Prompt(d, calls[d]) /\ calls'[d] = calls[d]
            BY <1>1, <1>2, <2>2 DEF Promptness
        <3>2. calls[d].live /\ calls[d].waited > 0 => minter' = d
            BY <1>1, <2>2, <3>1, MintNumbers DEF Prompt
        <3> QED
            BY <3>1, <3>2 DEF Prompt
    <2> QED
        BY <2>1, <2>2
<1> QED
    BY <1>2, <1>4, <1>5, <1>6, <1>7, <1>8, <1>9, MintingPartsNext

\* The token a caller is handed is one the server takes.
LEMMA HandedIs ==
    ASSUME Minting!MintingInv, NEW c \in Callers, NEW t, Minting!Handed(c, t),
           t = minted.token, minted.expires > 0
    PROVE  \E q \in Password :
                /\ calls' = [calls EXCEPT ![c] = q]
                /\ q.step = "connect" /\ q.good /\ q.live = FALSE /\ q.waited = 0 /\ q.stirred = FALSE
                /\ q.outcome = Minting!NoneHeld
<1> DEFINE q == [Minting!Resting EXCEPT !.step = "connect", !.good = life[t] > 0 /\ t \notin gone]
<1>1. calls' = [calls EXCEPT ![c] = q]
    BY DEF Minting!Handed
<1>2. (life[t] > 0 /\ t \notin gone) = TRUE
    <2>1. HeldTrue /\ KeptTyped
        BY MintingParts
    <2>2. life[t] > minted.expires /\ t \in Minting!Credentials
        BY <2>1, TokenFields DEF HeldTrue, KeptTyped
    <2>3. life[t] \in Nat /\ minted.expires \in Nat
        BY <2>1, <2>2, TokenFields DEF KeptTyped
    <2> QED
        BY <2>1, <2>2, <2>3 DEF HeldTrue
<1>3. q = [Minting!Resting EXCEPT !.step = "connect", !.good = TRUE]
    BY <1>2
<1>4. /\ q \in Password /\ q.step = "connect" /\ q.good /\ q.live = FALSE /\ q.waited = 0 /\ q.stirred = FALSE
      /\ q.outcome = Minting!NoneHeld
    BY <1>3, TokenFields DEF Minting!Resting, Password, MintSteps
<1> HIDE DEF q
<1> QED
    BY <1>1, <1>4

LEMMA FreshPatience ==
    ASSUME Minting!MintingInv, NEW q \in Password, q.waited = 0
    PROVE  Patient(q)
<1>1. Patience /\ PasswordsTyped
    BY MintingParts
<1>2. \A d \in Joins : calls[d].left \in Nat /\ calls[d].left <= MintTicks
    BY <1>1, PasswordFields DEF Patience, JoinsEnd, PasswordsTyped, Joins
<1> QED
    BY <1>2, MintNumbers DEF Patient

LEMMA LookKept ==
    ASSUME Minting!MintingInv, NEW c \in Callers, Minting!Look(c)
    PROVE  Minting!MintingInv'
<1>1. calls[c] = Minting!Resting /\ UNCHANGED <<minted, refused, minter, mints, life, gone>>
    BY DEF Minting!Look
<1>2. KeptTyped /\ PasswordsTyped /\ Mutual /\ HeldTrue
    BY MintingParts
<1>3. calls[c].step = "rest" /\ minter # c /\ refused \in Nat
    BY <1>1, <1>2, CalmIs, MintNumbers DEF Mutual, KeptTyped
<1>4. CASE minted.refresh > 0
    <2>1. Minting!Handed(c, minted.token)
        BY <1>4 DEF Minting!Look
    <2>2. minted.expires > 0
        BY <1>2, <1>4, TokenFields DEF HeldTrue, KeptTyped
    <2>3. PICK q \in Password :
                /\ calls' = [calls EXCEPT ![c] = q]
                /\ q.step = "connect" /\ q.good /\ q.live = FALSE /\ q.waited = 0 /\ q.stirred = FALSE
                /\ q.outcome = Minting!NoneHeld
        BY <2>1, <2>2, HandedIs
    <2>4. Patient(q)
        BY <2>3, FreshPatience
    <2> QED
        BY <1>1, <1>3, <2>3, <2>4, CallerMoves
<1>5. CASE ~(minted.refresh > 0)
    <2> DEFINE q == [calls[c] EXCEPT !.step = "try", !.live = minted.expires > 0]
    <2>1. calls' = [calls EXCEPT ![c].step = "try", ![c].live = minted.expires > 0]
        BY <1>5 DEF Minting!Look
    <2>2. calls' = [calls EXCEPT ![c] = q]
        BY <1>2, <2>1 DEF PasswordsTyped
    <2>3. (minted.expires > 0) \in BOOLEAN
        OBVIOUS
    <2>4. q \in Password /\ q.step = "try" /\ q.waited = 0 /\ q.outcome = Minting!NoneHeld
        <3>1. calls[c] \in Password /\ calls[c].waited = 0 /\ calls[c].outcome = Minting!NoneHeld
            BY <1>1, CalmIs
        <3>2. "try" \in MintSteps
            BY DEF MintSteps
        <3> QED
            BY <2>3, <3>1, <3>2 DEF Password
    <2> HIDE DEF q
    <2>5. Patient(q)
        BY <2>4, FreshPatience
    <2> QED
        <3>1. /\ calls[c].step # "join" /\ q.step # "join" /\ q.step # "own" /\ q.step # "fall" /\ q.step # "connect"
              /\ ~(q.waited > 0)
            BY <1>3, <2>4
        <3> QED
            BY <1>1, <1>3, <2>2, <2>4, <2>5, <3>1, CallerMoves
<1> QED
    BY <1>4, <1>5

LEMMA GoIs ==
    ASSUME Minting!MintingInv, NEW c \in Callers, NEW step \in MintSteps, Minting!Go(c, step)
    PROVE  \E q \in Password :
                /\ calls' = [calls EXCEPT ![c] = q]
                /\ q.step = step /\ q.live = calls[c].live /\ q.left = calls[c].left /\ q.waited = calls[c].waited
                /\ q.stirred = calls[c].stirred /\ q.outcome = calls[c].outcome /\ q.good = calls[c].good
<1>1. calls \in [Callers -> Password] /\ calls[c] \in Password
    BY MintingParts DEF PasswordsTyped
<1> DEFINE q == [calls[c] EXCEPT !.step = step]
<1>2. calls' = [calls EXCEPT ![c] = q]
    BY <1>1 DEF Minting!Go
<1>3. /\ q \in Password
      /\ q.step = step /\ q.live = calls[c].live /\ q.left = calls[c].left /\ q.waited = calls[c].waited
      /\ q.stirred = calls[c].stirred /\ q.outcome = calls[c].outcome /\ q.good = calls[c].good
    BY <1>1 DEF Password
<1> HIDE DEF q
<1> QED
    BY <1>2, <1>3

\* Who is not in a mint has been told nothing.
LEMMA ToldNothing ==
    ASSUME Minting!MintingInv, NEW c \in Callers, calls[c].step # "join"
    PROVE  calls[c].outcome = Minting!NoneHeld
    BY MintingParts DEF ToldTrue, Joins

LEMMA TryKept ==
    ASSUME Minting!MintingInv, NEW c \in Callers, Minting!Try(c)
    PROVE  Minting!MintingInv'
<1>1. calls[c].step = "try" /\ UNCHANGED <<minted, refused, mints, life, gone>>
    BY DEF Minting!Try, Minting!At
<1>2. KeptTyped /\ PasswordsTyped /\ Mutual /\ Patient(calls[c]) /\ Prompt(c, calls[c])
    BY MintingParts DEF Patience, Promptness
<1>3. minter # c /\ refused \in Nat /\ calls[c].outcome = Minting!NoneHeld
    BY <1>1, <1>2, ToldNothing, MintNumbers DEF Mutual, KeptTyped
<1>n. calls[c].waited \in Nat
    BY <1>2, PasswordFields DEF PasswordsTyped
<1>4. CASE minter = Nobody /\ minter' = c /\ Minting!Go(c, "own")
    <2>1. PICK q \in Password :
                /\ calls' = [calls EXCEPT ![c] = q]
                /\ q.step = "own" /\ q.live = calls[c].live /\ q.left = calls[c].left /\ q.waited = calls[c].waited
                /\ q.stirred = calls[c].stirred /\ q.outcome = calls[c].outcome /\ q.good = calls[c].good
        BY <1>4, GoIs DEF MintSteps
    <2>2. Patient(q)
        BY <1>1, <1>2, <2>1 DEF Patient
    <2> QED
        BY <1>1, <1>3, <1>4, <2>1, <2>2, CallerMoves
<1>5. CASE calls[c].live /\ Minting!Go(c, "fall") /\ UNCHANGED minter
    <2>1. PICK q \in Password :
                /\ calls' = [calls EXCEPT ![c] = q]
                /\ q.step = "fall" /\ q.live = calls[c].live /\ q.left = calls[c].left /\ q.waited = calls[c].waited
                /\ q.stirred = calls[c].stirred /\ q.outcome = calls[c].outcome /\ q.good = calls[c].good
        BY <1>5, GoIs DEF MintSteps
    <2>2. q.waited = 0
        BY <1>1, <1>2, <1>5, <2>1 DEF Prompt
    <2>3. Patient(q)
        BY <2>2, FreshPatience
    <2> QED
        <3>1. /\ calls[c].step # "join" /\ q.step # "join" /\ q.step # "own" /\ q.step # "try" /\ q.step # "connect"
              /\ ~(q.waited > 0) /\ q.live /\ minter' = minter /\ q.outcome = Minting!NoneHeld
            BY <1>1, <1>3, <1>5, <2>1, <2>2
        <3> QED
            BY <1>1, <1>3, <2>1, <2>3, <3>1, CallerMoves
<1> QED
    BY <1>4, <1>5 DEF Minting!Try, Minting!Passes

\* A mint begins: whoever waits for it has not waited before.
LEMMA MintBegins ==
    ASSUME Minting!MintingInv, NEW c \in Callers, calls[c].step = "own",
           minted.refresh = 0, refused = 0, Minting!Running = {},
           NEW h \in Minting!Threads, mints' = [mints EXCEPT ![h] = [step |-> "asking", by |-> c]],
           NEW q \in Password, calls' = [calls EXCEPT ![c] = q], q.step = "join", q.left = MintTicks,
           q.live = calls[c].live, q.waited = calls[c].waited, q.stirred = calls[c].stirred,
           q.outcome = calls[c].outcome, UNCHANGED <<minted, refused, minter, life, gone>>
    PROVE  Minting!MintingInv'
<1>1. /\ KeptTyped /\ MintsTyped /\ PasswordsTyped /\ LoneMint /\ Mutual /\ MintsTrue
      /\ HeldTrue /\ ToldTrue /\ Patience /\ Promptness
    BY MintingParts
<1>2. PasswordsTyped' /\ \A d \in Callers : calls'[d] = IF d = c THEN q ELSE calls[d]
    BY <1>1 DEF PasswordsTyped
<1>3. minter = c /\ q.outcome = Minting!NoneHeld
    BY <1>1, ToldNothing DEF Mutual
<1>4. Joins = {} /\ Joins' = {c}
    <2>1. \A d \in Callers : calls[d].step # "join"
        BY <1>1, <1>3 DEF Mutual
    <2> QED
        BY <1>2, <2>1 DEF Joins
<1>5. KeptTyped' /\ HeldTrue'
    BY <1>1 DEF KeptTyped, HeldTrue
<1>6. \A g \in Minting!Threads : mints[g] = Minting!NoHelper
    BY DEF Minting!Running
<1>7. MintsTyped' /\ \A g \in Minting!Threads : mints'[g] = IF g = h THEN [step |-> "asking", by |-> c] ELSE Minting!NoHelper
    BY <1>1, <1>6 DEF MintsTyped, MintType
<1>8. LoneMint'
    BY <1>7 DEF LoneMint, Minting!Threads
<1>9. MintsTrue'
    BY <1>4, <1>7 DEF MintsTrue, Minting!NoHelper
<1>10. Mutual'
    BY <1>1, <1>2, <1>3 DEF Mutual
<1>11. ToldTrue'
    BY <1>2, <1>3, ToldNothing, <1>4 DEF ToldTrue, Joins
<1>12. Patience'
    <2>1. JoinsEnd'
        BY <1>2, <1>4, MintNumbers DEF JoinsEnd
    <2>2. ASSUME NEW d \in Callers, NEW r \in Password, Patient(r), r.step \in {"try", "own", "join"}, ~r.stirred
          PROVE  r.waited = 0
        <3>1. r.waited > 0 => minted.refresh > 0 \/ refused > 0 \/ Joins # {}
            BY <2>2 DEF Patient
        <3>2. r.waited \in Nat
            BY PasswordFields
        <3> QED
            BY <1>4, <3>1, <3>2
    <2>3. ASSUME NEW d \in Callers PROVE Patient(calls[d])'
        <3>1. Patient(calls[d]) /\ calls[d] \in Password
            BY <1>1 DEF Patience, PasswordsTyped
        <3>2. \A e \in Joins' : calls'[e].left = MintTicks
            BY <1>2, <1>4
        <3>3. /\ calls'[d].stirred = calls[d].stirred /\ calls'[d].waited = calls[d].waited
              /\ calls[d].step \in {"own", "try", "join"} \/ calls'[d].step \notin {"own", "try", "join"}
            BY <1>2
        <3>4. CASE ~calls[d].stirred /\ calls[d].step \in {"own", "try", "join"}
            <4>1. calls[d].waited = 0
                BY <2>2, <3>1, <3>4
            <4> QED
                BY <1>4, <3>2, <3>3, <4>1, MintNumbers DEF Patient
        <3>5. CASE calls[d].stirred
            BY <3>3, <3>5 DEF Patient
        <3>6. CASE ~calls[d].stirred /\ calls[d].step \notin {"own", "try", "join"}
            BY <3>1, <3>3, <3>6 DEF Patient
        <3> QED
            BY <3>4, <3>5, <3>6
    <2> QED
        BY <2>1, <2>3 DEF Patience
<1>13. Promptness'
    BY <1>1, <1>2, <1>3 DEF Promptness, Prompt
<1> QED
    BY <1>2, <1>5, <1>7, <1>8, <1>9, <1>10, <1>11, <1>12, <1>13, MintingPartsNext

LEMMA OwnKept ==
    ASSUME Minting!MintingInv, NEW c \in Callers, Minting!Own(c)
    PROVE  Minting!MintingInv'
<1>1. calls[c].step = "own" /\ UNCHANGED <<minted, life, gone>>
    BY DEF Minting!Own, Minting!At
<1>2. KeptTyped /\ PasswordsTyped /\ Mutual /\ HeldTrue /\ Patient(calls[c]) /\ Prompt(c, calls[c])
    BY MintingParts DEF Patience, Promptness
<1>3. minter = c /\ refused \in Nat /\ minted.refresh \in Nat /\ minted.expires \in Nat /\ calls[c].outcome = Minting!NoneHeld
    BY <1>1, <1>2, ToldNothing, TokenFields DEF Mutual, KeptTyped
<1>4. CASE minted.refresh > 0
    <2>1. Minting!Handed(c, minted.token) /\ minter' = Nobody /\ UNCHANGED <<refused, mints>>
        BY <1>3, <1>4 DEF Minting!Own, Minting!LetGo
    <2>2. minted.expires > 0
        BY <1>2, <1>3, <1>4 DEF HeldTrue
    <2>3. PICK q \in Password :
                /\ calls' = [calls EXCEPT ![c] = q]
                /\ q.step = "connect" /\ q.good /\ q.live = FALSE /\ q.waited = 0 /\ q.stirred = FALSE
                /\ q.outcome = Minting!NoneHeld
        BY <2>1, <2>2, HandedIs
    <2>4. Patient(q)
        BY <2>3, FreshPatience
    <2> QED
        BY <1>1, <1>3, <2>1, <2>3, <2>4, CallerMoves
<1>5. CASE minted.refresh = 0 /\ (refused > 0 \/ Minting!Busy)
    <2>1. Minting!Go(c, "fall") /\ UNCHANGED <<minter, mints>> /\ (refused' = refused \/ refused' = FailureTicks)
        BY <1>3, <1>5 DEF Minting!Own
    <2>2. PICK q \in Password :
                /\ calls' = [calls EXCEPT ![c] = q]
                /\ q.step = "fall" /\ q.live = calls[c].live /\ q.left = calls[c].left /\ q.waited = calls[c].waited
                /\ q.stirred = calls[c].stirred /\ q.outcome = calls[c].outcome /\ q.good = calls[c].good
        BY <2>1, GoIs DEF MintSteps
    <2>3. Patient(q)
        BY <1>1, <1>2, <2>2 DEF Patient
    <2>4. refused' \in Nat /\ (refused > 0 => refused' > 0)
        BY <1>3, <2>1, MintNumbers
    <2> QED
        BY <1>1, <1>3, <2>1, <2>2, <2>3, <2>4, CallerMoves
<1>6. CASE minted.refresh = 0 /\ refused = 0 /\ ~Minting!Busy
    <2>1. PICK h \in Minting!Threads : mints' = [mints EXCEPT ![h] = [step |-> "asking", by |-> c]]
        BY <1>6 DEF Minting!Own
    <2>2. calls' = [calls EXCEPT ![c].step = "join", ![c].left = MintTicks] /\ UNCHANGED <<refused, minter>>
        BY <1>6 DEF Minting!Own
    <2> DEFINE q == [calls[c] EXCEPT !.step = "join", !.left = MintTicks]
    <2>3. calls' = [calls EXCEPT ![c] = q]
        BY <1>2, <2>2 DEF PasswordsTyped
    <2>4. /\ q \in Password /\ q.step = "join" /\ q.left = MintTicks /\ q.live = calls[c].live
          /\ q.waited = calls[c].waited /\ q.stirred = calls[c].stirred /\ q.outcome = calls[c].outcome
        <3>1. calls[c] \in Password /\ "join" \in MintSteps
            BY <1>2 DEF PasswordsTyped, MintSteps
        <3> QED
            BY <3>1, MintNumbers DEF Password
    <2> HIDE DEF q
    <2>5. Minting!Running = {}
        BY <1>6 DEF Minting!Busy
    <2> QED
        BY <1>1, <1>6, <2>1, <2>2, <2>3, <2>4, <2>5, MintBegins
<1> QED
    BY <1>3, <1>4, <1>5, <1>6

LEMMA FallKept ==
    ASSUME Minting!MintingInv, NEW c \in Callers, Minting!Fall(c)
    PROVE  Minting!MintingInv'
<1>1. calls[c].step = "fall" /\ UNCHANGED <<minted, refused, mints, life, gone>>
    BY DEF Minting!Fall, Minting!At
<1>2. minter' = IF minter = c THEN Nobody ELSE minter
    BY DEF Minting!Fall, Minting!LetGo
<1>3. refused \in Nat
    BY MintingParts DEF KeptTyped
<1>4. CASE minted.expires > 0
    <2>1. Minting!Handed(c, minted.token)
        BY <1>4 DEF Minting!Fall
    <2>2. PICK q \in Password :
                /\ calls' = [calls EXCEPT ![c] = q]
                /\ q.step = "connect" /\ q.good /\ q.live = FALSE /\ q.waited = 0 /\ q.stirred = FALSE
                /\ q.outcome = Minting!NoneHeld
        BY <1>4, <2>1, HandedIs
    <2>3. Patient(q)
        BY <2>2, FreshPatience
    <2> QED
        BY <1>1, <1>2, <1>3, <2>2, <2>3, CallerMoves
<1>5. CASE ~(minted.expires > 0)
    <2> DEFINE q == [Minting!Resting EXCEPT !.step = "refused"]
    <2>1. calls' = [calls EXCEPT ![c] = q]
        BY <1>5 DEF Minting!Fall
    <2>2. q \in Password /\ q.step = "refused" /\ q.live = FALSE /\ q.waited = 0 /\ q.outcome = Minting!NoneHeld
        BY TokenFields DEF Minting!Resting, Password, MintSteps
    <2> HIDE DEF q
    <2>3. Patient(q)
        BY <2>2, FreshPatience
    <2> QED
        BY <1>1, <1>2, <1>3, <2>1, <2>2, <2>3, CallerMoves
<1> QED
    BY <1>4, <1>5

LEMMA RestsIs ==
    ASSUME Minting!MintingInv, NEW c \in Callers, Minting!Rests(c), calls[c].step \notin {"own", "join", "fall"},
           UNCHANGED <<minted, refused, minter, mints, life, gone>>
    PROVE  Minting!MintingInv'
<1> DEFINE q == [Minting!Resting EXCEPT !.left = 1]
<1>1. calls' = [calls EXCEPT ![c] = q]
    BY DEF Minting!Rests
<1>2. q \in Password /\ q.step = "rest" /\ q.live = FALSE /\ q.waited = 0 /\ q.outcome = Minting!NoneHeld
    BY TokenFields DEF Minting!Resting, Password, MintSteps
<1> HIDE DEF q
<1>3. Patient(q)
    BY <1>2, FreshPatience
<1>4. minter # c /\ refused \in Nat
    BY MintingParts, MintNumbers DEF Mutual, KeptTyped
<1> QED
    BY <1>1, <1>2, <1>3, <1>4, CallerMoves

LEMMA WentOn ==
    ASSUME Minting!MintingInv, NEW c \in Callers, calls[c].step \in {"connect", "failed"},
           NEW step \in {"failed", "forget"}, Minting!Go(c, step), UNCHANGED <<minted, refused, minter, mints, life, gone>>
    PROVE  Minting!MintingInv'
<1>1. PICK q \in Password :
            /\ calls' = [calls EXCEPT ![c] = q]
            /\ q.step = step /\ q.live = calls[c].live /\ q.left = calls[c].left /\ q.waited = calls[c].waited
            /\ q.stirred = calls[c].stirred /\ q.outcome = calls[c].outcome /\ q.good = calls[c].good
    BY GoIs DEF MintSteps
<1>2. Mutual /\ refused \in Nat /\ Patient(calls[c]) /\ Prompt(c, calls[c])
    BY MintingParts DEF KeptTyped, Patience, Promptness
<1>3. minter # c /\ calls[c].outcome = Minting!NoneHeld
    BY <1>2, ToldNothing, MintNumbers DEF Mutual
<1>4. Patient(q) /\ (q.live /\ q.waited > 0 => minter = c)
    BY <1>1, <1>2 DEF Patient, Prompt
<1> QED
    BY <1>1, <1>2, <1>3, <1>4, CallerMoves

LEMMA LeaveKept ==
    ASSUME Minting!MintingInv, NEW c \in Callers, Minting!Leave(c)
    PROVE  Minting!MintingInv'
    BY RestsIs DEF Minting!Leave, Minting!At

LEMMA ConnectFailsKept ==
    ASSUME Minting!MintingInv, NEW c \in Callers, Minting!ConnectFails(c)
    PROVE  Minting!MintingInv'
    BY WentOn DEF Minting!ConnectFails, Minting!At

LEMMA NoteKept ==
    ASSUME Minting!MintingInv, NEW c \in Callers, Minting!Note(c)
    PROVE  Minting!MintingInv'
<1>1. calls[c].step = "failed" /\ UNCHANGED <<minted, refused, minter, mints, life, gone>>
    BY DEF Minting!Note, Minting!At
<1>2. Minting!Rests(c) \/ Minting!Go(c, "forget")
    BY DEF Minting!Note
<1> QED
    BY <1>1, <1>2, RestsIs, WentOn

\* Patience looks at no more than this of the calls, of what is held and of a refusal.
LEMMA PatienceSame ==
    ASSUME Patience, PasswordsTyped, PasswordsTyped', Joins' = Joins, UNCHANGED <<minted, refused>>,
           \A d \in Callers :
                /\ calls'[d].step = calls[d].step /\ calls'[d].waited = calls[d].waited
                /\ calls'[d].stirred = calls[d].stirred
                /\ calls'[d].left <= calls[d].left
    PROVE  Patience'
<1>1. Joins \subseteq Callers
    BY DEF Joins
<1>2. \A d \in Callers : calls[d].left \in Nat /\ calls'[d].left \in Nat /\ calls[d].waited \in Nat
    BY PasswordFields DEF PasswordsTyped
<1>3. JoinsEnd'
    BY <1>1, <1>2, MintNumbers DEF Patience, JoinsEnd
<1>4. ASSUME NEW d \in Callers PROVE Patient(calls[d])'
    <2>1. Patient(calls[d])
        BY DEF Patience
    <2>2. ASSUME NEW e \in Joins, calls[d].waited + calls[e].left <= MintTicks
          PROVE  calls[d].waited + calls'[e].left <= MintTicks
        <3>1. /\ calls[e].left \in Nat /\ calls'[e].left \in Nat /\ calls[d].waited \in Nat
              /\ calls'[e].left <= calls[e].left
            BY <1>1, <1>2
        <3> QED
            BY <2>2, <3>1, MintNumbers
    <2> QED
        BY <2>1, <2>2 DEF Patient
<1> QED
    BY <1>3, <1>4 DEF Patience

LEMMA MintKept ==
    ASSUME Minting!MintingInv, NEW h \in Minting!Threads, Minting!Mint(h)
    PROVE  Minting!MintingInv'
<1>1. /\ KeptTyped /\ MintsTyped /\ PasswordsTyped /\ LoneMint /\ Mutual /\ MintsTrue
      /\ HeldTrue /\ ToldTrue /\ Patience /\ Promptness
    BY MintingParts, SMTT(30)
<1>2. mints[h].step = "asking" /\ UNCHANGED <<minted, refused, minter, gone>>
    BY DEF Minting!Mint
<1>3. mints' = [mints EXCEPT ![h].step = "told"]
    BY DEF Minting!Mint
<1>4. /\ MintsTyped' /\ mints'[h] = [step |-> "told", by |-> mints[h].by]
      /\ \A g \in Minting!Threads \ {h} : mints'[g] = mints[g]
    <2>1. mints \in [Minting!Threads -> MintType] /\ mints[h] \in MintType
        BY <1>1 DEF MintsTyped
    <2>2. [mints[h] EXCEPT !.step = "told"] = [step |-> "told", by |-> mints[h].by]
        BY <2>1 DEF MintType
    <2>3. [step |-> "told", by |-> mints[h].by] \in MintType
        BY <2>1 DEF MintType
    <2>4. mints' = [mints EXCEPT ![h] = [step |-> "told", by |-> mints[h].by]]
        BY <1>3, <2>1, <2>2
    <2> QED
        BY <2>1, <2>3, <2>4 DEF MintsTyped
<1>5. LoneMint'
    <2>1. mints[h] # Minting!NoHelper
        BY <1>2 DEF Minting!NoHelper
    <2> QED
        BY <1>1, <1>4, <2>1 DEF LoneMint, Minting!Threads
<1>6. CASE UNCHANGED <<calls, life>>
    <2>1. Joins' = Joins
        BY <1>6 DEF Joins
    <2>2. KeptTyped' /\ PasswordsTyped' /\ Mutual' /\ HeldTrue' /\ Promptness'
        BY <1>1, <1>2, <1>6 DEF KeptTyped, PasswordsTyped, Mutual, HeldTrue, Promptness, Prompt
    <2>3. MintsTrue'
        BY <1>1, <1>4, <2>1 DEF MintsTrue
    <2>4. ToldTrue'
        <3> SUFFICES ASSUME NEW c \in Callers, calls[c].outcome # Minting!NoneHeld
                     PROVE  /\ c \in Joins'
                            /\ calls[c].left = 0 \/ \E g \in Minting!Threads : mints'[g] = [step |-> "told", by |-> c]
                            /\ calls[c].outcome.token \in Minting!Credentials \ (gone \cup {minted.token})
                            /\ life[calls[c].outcome.token] > calls[c].outcome.expires
            BY <1>2, <1>6 DEF ToldTrue
        <3>1. \A g \in Minting!Threads : mints[g] = [step |-> "told", by |-> c] => mints'[g] = mints[g]
            BY <1>2, <1>4
        <3>2. c \in Joins /\ (calls[c].left = 0 \/ \E g \in Minting!Threads : mints[g] = [step |-> "told", by |-> c])
            BY <1>1 DEF ToldTrue
        <3>3. /\ calls[c].outcome.token \in Minting!Credentials \ (gone \cup {minted.token})
              /\ life[calls[c].outcome.token] > calls[c].outcome.expires
            BY <1>1 DEF ToldTrue
        <3> QED
            BY <2>1, <3>1, <3>2, <3>3
    <2>5. Patience'
        <3>1. \A d \in Callers : calls[d].left \in Nat
            BY <1>1, PasswordFields DEF PasswordsTyped
        <3> QED
            BY <1>1, <1>2, <1>6, <2>1, <2>2, <3>1, PatienceSame
    <2> QED
        BY <1>4, <1>5, <2>2, <2>3, <2>4, <2>5, MintingPartsNext
<1>7. CASE ~UNCHANGED <<calls, life>>
    <2>1. PICK t \in Minting!Credentials, n \in Lives \cup {TokenTicks} :
            /\ t \notin Minting!Issued
            /\ life' = [life EXCEPT ![t] = n + Minting!Margin]
            /\ calls' = IF mints[h].by = Nobody THEN calls
                        ELSE [calls EXCEPT ![mints[h].by].outcome = [Minting!NoneHeld EXCEPT !.token = t, !.expires = n]]
        BY <1>7 DEF Minting!Mint
    <2>2. life[t] = 0 /\ t # minted.token /\ t \notin gone /\ n \in Nat
        BY <1>1, <2>1, MintNumbers DEF Minting!Issued, KeptTyped
    <2>3. /\ life' \in [Minting!Credentials -> Nat] /\ life'[t] = n + 1
          /\ \A s \in Minting!Credentials \ {t} : life'[s] = life[s]
        BY <1>1, <2>1, <2>2 DEF KeptTyped, Minting!Margin
    <2> DEFINE issued == [Minting!NoneHeld EXCEPT !.token = t, !.expires = n]
               b == mints[h].by
    <2>4. issued \in Minting!HeldTokens /\ issued.token = t /\ issued.expires = n
        BY <2>2 DEF Minting!NoneHeld, Minting!HeldTokens, Minting!NoToken
    <2>5. b # Nobody => b \in Callers /\ b \in Joins
        BY <1>1 DEF MintsTrue, Joins
    <2>6. calls' = IF b = Nobody THEN calls ELSE [calls EXCEPT ![b].outcome = issued]
        BY <2>1
    <2> HIDE DEF issued, b
    <2>7. /\ PasswordsTyped'
          /\ \A d \in Callers :
                /\ calls'[d].step = calls[d].step /\ calls'[d].waited = calls[d].waited
                /\ calls'[d].stirred = calls[d].stirred /\ calls'[d].live = calls[d].live
                /\ calls'[d].good = calls[d].good /\ calls'[d].left = calls[d].left
                /\ calls'[d].outcome = IF d = b THEN issued ELSE calls[d].outcome
        <3>1. CASE b = Nobody
            BY <1>1, <2>6, <3>1, MintNumbers DEF PasswordsTyped
        <3>2. CASE b # Nobody
            <4>1. calls \in [Callers -> Password] /\ b \in Callers
                BY <1>1, <2>5, <3>2 DEF PasswordsTyped
            <4> DEFINE q == [calls[b] EXCEPT !.outcome = issued]
            <4>2. /\ q \in Password /\ q.step = calls[b].step /\ q.waited = calls[b].waited
                  /\ q.stirred = calls[b].stirred /\ q.live = calls[b].live /\ q.good = calls[b].good
                  /\ q.left = calls[b].left /\ q.outcome = issued
                BY <2>4, <4>1 DEF Password
            <4>3. calls' = [calls EXCEPT ![b] = q]
                BY <2>6, <3>2, <4>1
            <4> HIDE DEF q
            <4> QED
                BY <4>1, <4>2, <4>3 DEF PasswordsTyped
        <3> QED
            BY <3>1, <3>2
    <2>8. Joins' = Joins
        BY <2>7 DEF Joins
    <2>9. KeptTyped'
        BY <1>1, <1>2, <2>3 DEF KeptTyped
    <2>10. Mutual'
        BY <1>1, <1>2, <2>7 DEF Mutual, KeptTyped
    <2>11. MintsTrue'
        BY <1>1, <1>4, <2>8 DEF MintsTrue
    <2>12. HeldTrue'
        <3>1. minted.expires > 0 => minted.token \in Minting!Credentials \ {t}
            BY <1>1, <2>2, TokenFields DEF HeldTrue, KeptTyped
        <3> QED
            BY <1>1, <1>2, <2>3, <3>1 DEF HeldTrue
    <2>13. ToldTrue'
        <3> SUFFICES ASSUME NEW c \in Callers, calls'[c].outcome # Minting!NoneHeld
                     PROVE  /\ c \in Joins
                            /\ calls[c].left = 0 \/ \E g \in Minting!Threads : mints'[g] = [step |-> "told", by |-> c]
                            /\ calls'[c].outcome.token \in Minting!Credentials \ (gone \cup {minted.token})
                            /\ life'[calls'[c].outcome.token] > calls'[c].outcome.expires
            BY <1>2, <2>7, <2>8 DEF ToldTrue
        <3>1. CASE c = b
            <4>1. c \in Joins /\ calls'[c].outcome = issued
                BY <2>5, <2>7, <3>1, MintNumbers
            <4>2. mints'[h] = [step |-> "told", by |-> c]
                BY <1>4, <3>1 DEF b
            <4>3. life'[issued.token] > issued.expires
                BY <2>2, <2>3, <2>4
            <4> QED
                BY <2>2, <2>4, <4>1, <4>2, <4>3
        <3>2. CASE c # b
            <4>1. calls'[c].outcome = calls[c].outcome
                BY <2>7, <3>2
            <4>2. \A g \in Minting!Threads : mints[g] = [step |-> "told", by |-> c] => mints'[g] = mints[g]
                BY <1>2, <1>4
            <4>3. /\ c \in Joins /\ (calls[c].left = 0 \/ \E g \in Minting!Threads : mints[g] = [step |-> "told", by |-> c])
                  /\ calls[c].outcome.token \in Minting!Credentials \ (gone \cup {minted.token})
                  /\ life[calls[c].outcome.token] > calls[c].outcome.expires
                BY <1>1, <4>1 DEF ToldTrue
            <4>4. calls[c].outcome.token # t
                <5>1. calls[c].outcome.expires \in Nat
                    BY <1>1, PasswordFields, TokenFields DEF PasswordsTyped
                <5> QED
                    BY <2>2, <4>3, <5>1
            <4> QED
                BY <2>3, <4>1, <4>2, <4>3, <4>4
        <3> QED
            BY <3>1, <3>2
    <2>14. Patience'
        <3>1. \A d \in Callers : calls[d].left \in Nat
            BY <1>1, PasswordFields DEF PasswordsTyped
        <3> QED
            BY <1>1, <1>2, <2>7, <2>8, <3>1, PatienceSame
    <2>15. Promptness'
        BY <1>1, <1>2, <2>7 DEF Promptness, Prompt
    <2> QED
        BY <1>4, <1>5, <2>7, <2>9, <2>10, <2>11, <2>12, <2>13, <2>14, <2>15, MintingPartsNext
<1> QED
    BY <1>6, <1>7

LEMMA FinishKeptMint ==
    ASSUME Minting!MintingInv, NEW h \in Minting!Threads, Minting!Finish(h)
    PROVE  Minting!MintingInv'
<1>1. /\ KeptTyped /\ MintsTyped /\ PasswordsTyped /\ LoneMint /\ Mutual /\ MintsTrue
      /\ HeldTrue /\ ToldTrue /\ Patience /\ Promptness
    BY MintingParts
<1>2. mints[h].step = "told" /\ UNCHANGED <<minted, refused, minter, life, gone>>
    BY DEF Minting!Finish
<1>3. mints' = [mints EXCEPT ![h] = Minting!NoHelper]
    BY DEF Minting!Finish
<1>4. /\ MintsTyped' /\ mints'[h] = Minting!NoHelper
      /\ \A g \in Minting!Threads \ {h} : mints'[g] = mints[g]
    BY <1>1, <1>3 DEF MintsTyped, MintType, Minting!NoHelper
<1>5. LoneMint'
    BY <1>1, <1>4 DEF LoneMint, Minting!Threads
<1> DEFINE b == mints[h].by
<1>6. calls' = IF b = Nobody THEN calls ELSE [calls EXCEPT ![b].left = 0]
    BY DEF Minting!Finish
<1>7. b # Nobody => b \in Callers
    BY <1>1 DEF MintsTrue, Joins
<1> HIDE DEF b
<1>n. \A d \in Callers : calls[d].left \in Nat
    BY <1>1, PasswordFields DEF PasswordsTyped
<1>8. /\ PasswordsTyped'
      /\ \A d \in Callers :
            /\ calls'[d].step = calls[d].step /\ calls'[d].waited = calls[d].waited
            /\ calls'[d].stirred = calls[d].stirred /\ calls'[d].live = calls[d].live
            /\ calls'[d].good = calls[d].good /\ calls'[d].outcome = calls[d].outcome
            /\ calls'[d].left = IF d = b THEN 0 ELSE calls[d].left
    <2>1. CASE b = Nobody
        BY <1>1, <1>6, <2>1, MintNumbers DEF PasswordsTyped
    <2>2. CASE b # Nobody
        <3>1. calls \in [Callers -> Password] /\ b \in Callers
            BY <1>1, <1>7, <2>2 DEF PasswordsTyped
        <3> DEFINE q == [calls[b] EXCEPT !.left = 0]
        <3>2. /\ q \in Password /\ q.step = calls[b].step /\ q.waited = calls[b].waited
              /\ q.stirred = calls[b].stirred /\ q.live = calls[b].live /\ q.good = calls[b].good
              /\ q.left = 0 /\ q.outcome = calls[b].outcome
            BY <3>1 DEF Password
        <3>3. calls' = [calls EXCEPT ![b] = q]
            BY <1>6, <2>2, <3>1
        <3> HIDE DEF q
        <3> QED
            BY <3>1, <3>2, <3>3 DEF PasswordsTyped
    <2> QED
        BY <2>1, <2>2
<1>9. Joins' = Joins
    BY <1>8 DEF Joins
<1>10. KeptTyped' /\ HeldTrue'
    BY <1>1, <1>2 DEF KeptTyped, HeldTrue
<1>11. Mutual'
    BY <1>1, <1>2, <1>8 DEF Mutual, KeptTyped
<1>12. MintsTrue'
    BY <1>1, <1>4, <1>9 DEF MintsTrue, Minting!NoHelper
<1>13. ToldTrue'
    <2> SUFFICES ASSUME NEW c \in Callers, calls[c].outcome # Minting!NoneHeld
                 PROVE  /\ c \in Joins
                        /\ calls'[c].left = 0 \/ \E g \in Minting!Threads : mints'[g] = [step |-> "told", by |-> c]
                        /\ calls[c].outcome.token \in Minting!Credentials \ (gone \cup {minted.token})
                        /\ life[calls[c].outcome.token] > calls[c].outcome.expires
        BY <1>2, <1>8, <1>9 DEF ToldTrue
    <2>1. /\ c \in Joins /\ (calls[c].left = 0 \/ \E g \in Minting!Threads : mints[g] = [step |-> "told", by |-> c])
          /\ calls[c].outcome.token \in Minting!Credentials \ (gone \cup {minted.token})
          /\ life[calls[c].outcome.token] > calls[c].outcome.expires
        BY <1>1 DEF ToldTrue
    <2>2. c # b => \A g \in Minting!Threads : mints[g] = [step |-> "told", by |-> c] => mints'[g] = mints[g]
        BY <1>4 DEF b
    <2> QED
        BY <1>8, <2>1, <2>2
<1>14. Patience'
    BY <1>1, <1>2, <1>8, <1>9, <1>n, PatienceSame
<1>15. Promptness'
    BY <1>1, <1>2, <1>8 DEF Promptness, Prompt
<1> QED
    BY <1>4, <1>5, <1>8, <1>10, <1>11, <1>12, <1>13, <1>14, <1>15, MintingPartsNext

\* Whoever leaves its mint leaves no mint that is anybody's: there was one.
LEMMA MintEnds ==
    ASSUME Minting!MintingInv, NEW c \in Callers, calls[c].step = "join",
           PasswordsTyped', calls'[c].step # "join", calls'[c].outcome = Minting!NoneHeld,
           \A d \in Callers \ {c} : calls'[d].step = calls[d].step /\ calls'[d].outcome = calls[d].outcome,
           mints' = [h \in Minting!Threads |-> IF mints[h].by = c THEN [mints[h] EXCEPT !.by = Nobody] ELSE mints[h]]
    PROVE  /\ MintsTyped' /\ LoneMint' /\ MintsTrue' /\ ToldTrue'
           /\ minter = c /\ Joins' = {}
           /\ \A d \in Callers \ {c} : calls[d].step \notin {"own", "join"}
<1>1. /\ MintsTyped /\ LoneMint /\ Mutual /\ MintsTrue /\ ToldTrue /\ PasswordsTyped
    BY MintingParts
<1>2. minter = c /\ \A d \in Callers \ {c} : calls[d].step \notin {"own", "join"}
    BY <1>1 DEF Mutual
<1>3. Joins = {c} /\ Joins' = {}
    BY <1>2 DEF Joins
<1>4. MintsTyped'
    <2>1. \A r \in MintType : [r EXCEPT !.by = Nobody] \in MintType
        BY DEF MintType
    <2> QED
        BY <1>1, <2>1 DEF MintsTyped
<1>5. LoneMint'
    BY <1>1, MintNumbers DEF LoneMint, Minting!NoHelper, Minting!Threads
<1>6. MintsTrue'
    <2> SUFFICES ASSUME NEW h \in Minting!Threads PROVE mints'[h].by = Nobody
        BY DEF MintsTrue
    <2>1. mints[h] \in MintType /\ (mints[h].by # Nobody => mints[h].by = c)
        BY <1>1, <1>3 DEF MintsTyped, MintsTrue
    <2>2. [mints[h] EXCEPT !.by = Nobody].by = Nobody
        BY <2>1 DEF MintType
    <2> QED
        BY <2>1, <2>2
<1>7. ToldTrue'
    <2>1. \A d \in Callers : calls'[d].outcome = Minting!NoneHeld
        BY <1>1, <1>3 DEF ToldTrue
    <2> QED
        BY <2>1 DEF ToldTrue
<1> QED
    BY <1>2, <1>3, <1>4, <1>5, <1>6, <1>7

LEMMA JoinFailsKept ==
    ASSUME Minting!MintingInv, NEW c \in Callers, Minting!Joined(c), calls[c].outcome = Minting!NoneHeld
    PROVE  Minting!MintingInv'
<1>1. /\ calls[c].step = "join" /\ Minting!Go(c, "fall") /\ refused' = FailureTicks
      /\ UNCHANGED <<minted, minter, life, gone>>
      /\ mints' = [h \in Minting!Threads |-> IF mints[h].by = c THEN [mints[h] EXCEPT !.by = Nobody] ELSE mints[h]]
    BY DEF Minting!Joined, Minting!At
<1>2. PICK q \in Password :
            /\ calls' = [calls EXCEPT ![c] = q]
            /\ q.step = "fall" /\ q.live = calls[c].live /\ q.left = calls[c].left /\ q.waited = calls[c].waited
            /\ q.stirred = calls[c].stirred /\ q.outcome = calls[c].outcome /\ q.good = calls[c].good
    BY <1>1, GoIs DEF MintSteps
<1>3. KeptTyped /\ PasswordsTyped /\ Mutual /\ HeldTrue /\ Patience /\ Promptness
    BY MintingParts
<1>4. PasswordsTyped' /\ \A d \in Callers : calls'[d] = IF d = c THEN q ELSE calls[d]
    BY <1>2, <1>3 DEF PasswordsTyped
<1>5. /\ MintsTyped' /\ LoneMint' /\ MintsTrue' /\ ToldTrue'
      /\ minter = c /\ Joins' = {}
      /\ \A d \in Callers \ {c} : calls[d].step \notin {"own", "join"}
    <2>1. /\ calls'[c].step # "join" /\ calls'[c].outcome = Minting!NoneHeld
          /\ \A d \in Callers \ {c} : calls'[d].step = calls[d].step /\ calls'[d].outcome = calls[d].outcome
        BY <1>2, <1>4
    <2> QED
        BY <1>1, <1>4, <2>1, MintEnds
<1>6. KeptTyped' /\ HeldTrue'
    BY <1>1, <1>3, MintNumbers DEF KeptTyped, HeldTrue
<1>7. Mutual'
    BY <1>1, <1>2, <1>3, <1>4, <1>5 DEF Mutual
<1>8. Patience'
    <2>1. \A r : Patient(r) => Patient(r)'
        BY <1>1, <1>5, MintNumbers DEF Patient
    <2>2. Patient(calls[c]) => Patient(q)
        BY <1>2 DEF Patient
    <2>3. ASSUME NEW d \in Callers PROVE Patient(calls[d])'
        <3>1. CASE d = c
            <4>1. Patient(q)'
                BY <1>3, <2>1, <2>2 DEF Patience
            <4> QED
                BY <1>4, <3>1, <4>1 DEF Patient
        <3>2. CASE d # c
            <4>1. Patient(calls[d]) /\ calls'[d] = calls[d]
                BY <1>3, <1>4, <3>2 DEF Patience
            <4> QED
                BY <1>1, <1>5, <4>1, MintNumbers DEF Patient
        <3> QED
            BY <3>1, <3>2
    <2>4. JoinsEnd'
        BY <1>5 DEF JoinsEnd
    <2> QED
        BY <2>3, <2>4 DEF Patience
<1>9. Promptness'
    BY <1>1, <1>2, <1>3, <1>4 DEF Promptness, Prompt
<1> QED
    BY <1>4, <1>5, <1>6, <1>7, <1>8, <1>9, MintingPartsNext

LEMMA JoinHasKept ==
    ASSUME Minting!MintingInv, NEW c \in Callers, Minting!Joined(c), calls[c].outcome # Minting!NoneHeld
    PROVE  Minting!MintingInv'
<1> DEFINE token == calls[c].outcome
           q == [Minting!Resting EXCEPT !.step = "connect", !.good = life[token.token] > 0]
<1>1. /\ calls[c].step = "join"
      /\ minted' = [token EXCEPT !.refresh = Minting!RefreshOf(token.expires), !.young = FailureTicks]
      /\ calls' = [d \in Callers |-> IF d = c THEN q
                ELSE [calls[d] EXCEPT !.stirred = @ \/ (Minting!Asking(d) /\ token.expires = 0)]]
      /\ minter' = IF minter = c THEN Nobody ELSE minter
      /\ UNCHANGED <<refused, life, gone>>
      /\ mints' = [h \in Minting!Threads |-> IF mints[h].by = c THEN [mints[h] EXCEPT !.by = Nobody] ELSE mints[h]]
    BY DEF Minting!Joined, Minting!At, Minting!LetGo
<1>2. KeptTyped /\ PasswordsTyped /\ Mutual /\ HeldTrue /\ ToldTrue /\ Patience /\ Promptness
    BY MintingParts
<1>3. /\ token \in Minting!HeldTokens /\ token.token \in Minting!Credentials \ gone
      /\ life[token.token] > token.expires /\ life[token.token] \in Nat /\ token.expires \in Nat
    BY <1>2, PasswordFields, TokenFields DEF ToldTrue, PasswordsTyped, KeptTyped
<1>4. /\ q \in Password /\ q.step = "connect" /\ q.good /\ q.live = FALSE /\ q.waited = 0 /\ q.stirred = FALSE
      /\ q.outcome = Minting!NoneHeld
    <2>1. (life[token.token] > 0) = TRUE
        BY <1>3
    <2> HIDE DEF token
    <2>2. q = [Minting!Resting EXCEPT !.step = "connect", !.good = TRUE]
        BY <2>1
    <2> QED
        BY <2>2, TokenFields DEF Minting!Resting, Password, MintSteps
<1>5. /\ minted' \in Minting!HeldTokens /\ minted'.token = token.token /\ minted'.expires = token.expires
      /\ minted'.refresh = Minting!RefreshOf(token.expires)
    <2>1. Minting!RefreshOf(token.expires) \in Nat
        BY <1>3, MintNumbers DEF Minting!RefreshOf
    <2> HIDE DEF token, q
    <2> QED
        BY <1>1, <1>3, <2>1, MintNumbers DEF Minting!HeldTokens
<1>6. minted'.refresh <= minted'.expires /\ (minted'.expires > 0 => minted'.refresh > 0)
    BY <1>3, <1>5, MintNumbers DEF Minting!RefreshOf
<1> HIDE DEF token, q
<1>7. /\ PasswordsTyped' /\ calls'[c] = q
      /\ \A d \in Callers \ {c} :
            /\ calls'[d].step = calls[d].step /\ calls'[d].outcome = calls[d].outcome /\ calls'[d].live = calls[d].live
            /\ calls'[d].waited = calls[d].waited /\ calls'[d].good = calls[d].good
            /\ calls'[d].stirred = (calls[d].stirred \/ (Minting!Asking(d) /\ token.expires = 0))
    <2>1. calls' = [d \in Callers |-> IF d = c THEN q
                ELSE [calls[d] EXCEPT !.stirred = @ \/ (Minting!Asking(d) /\ token.expires = 0)]]
        BY <1>1
    <2>2. \A d \in Callers :
            LET b == calls[d].stirred \/ (Minting!Asking(d) /\ token.expires = 0)
                r == [calls[d] EXCEPT !.stirred = b]
            IN  /\ r \in Password /\ r.step = calls[d].step /\ r.outcome = calls[d].outcome /\ r.live = calls[d].live
                /\ r.waited = calls[d].waited /\ r.good = calls[d].good /\ r.stirred = b
        <3>1. ASSUME NEW r \in Password, NEW b \in BOOLEAN
              PROVE  LET s == [r EXCEPT !.stirred = b]
                     IN  /\ s \in Password /\ s.step = r.step /\ s.outcome = r.outcome /\ s.live = r.live
                         /\ s.waited = r.waited /\ s.good = r.good /\ s.stirred = b
            BY DEF Password
        <3>2. \A d \in Callers : calls[d] \in Password
            BY <1>2 DEF PasswordsTyped
        <3>3. \A d \in Callers : (calls[d].stirred \/ (Minting!Asking(d) /\ token.expires = 0)) \in BOOLEAN
            OBVIOUS
        <3> QED
            BY <3>1, <3>2, <3>3
    <2>3. \A d \in Callers : calls'[d] \in Password
        BY <1>4, <2>1, <2>2
    <2> QED
        BY <2>1, <2>2, <2>3 DEF PasswordsTyped
<1>8. /\ MintsTyped' /\ LoneMint' /\ MintsTrue' /\ ToldTrue'
      /\ minter = c /\ Joins' = {}
      /\ \A d \in Callers \ {c} : calls[d].step \notin {"own", "join"}
    BY <1>1, <1>4, <1>7, MintEnds
<1>9. KeptTyped' /\ HeldTrue'
    BY <1>1, <1>2, <1>3, <1>5, <1>6, <1>8, TokenFields DEF KeptTyped, HeldTrue
<1>10. Mutual'
    <2>1. minter' = Nobody
        BY <1>1, <1>8
    <2>2. ASSUME NEW d \in Callers \ {c} PROVE calls'[d].step \notin {"own", "join"} /\ (calls'[d].step = "fall" => calls'[d].live)
        BY <1>2, <1>7, <1>8 DEF Mutual
    <2> QED
        BY <1>4, <1>7, <2>1, <2>2 DEF Mutual
<1>11. Patience'
    <2>1. JoinsEnd'
        BY <1>8 DEF JoinsEnd
    <2>2. ASSUME NEW d \in Callers PROVE Patient(calls[d])'
        <3>1. CASE d = c
            BY <1>4, <1>7, <1>8, <3>1, MintNumbers DEF Patient
        <3>2. CASE d # c
            <4>1. Patient(calls[d])
                BY <1>2 DEF Patience
            <4>2. SUFFICES ASSUME ~calls'[d].stirred
                           PROVE  /\ calls'[d].waited <= MintTicks
                                  /\ calls'[d].step \in {"try", "own", "join"} => minted'.refresh > 0
                BY <1>8 DEF Patient
            <4>3. ~calls[d].stirred /\ ~(Minting!Asking(d) /\ token.expires = 0)
                BY <1>7, <3>2, <4>2
            <4>4. calls[d].step \in {"try", "own", "join"} => minted'.refresh > 0
                BY <1>3, <1>5, <1>6, <4>3 DEF Minting!Asking, Minting!Waits, Minting!At
            <4> QED
                BY <1>7, <3>2, <4>1, <4>3, <4>4 DEF Patient
        <3> QED
            BY <3>1, <3>2
    <2> QED
        BY <2>1, <2>2 DEF Patience
<1>12. Promptness'
    <2>1. \A d \in Callers \ {c} : ~(calls[d].live /\ calls[d].waited > 0)
        BY <1>2, <1>8 DEF Promptness, Prompt
    <2> QED
        BY <1>2, <1>4, <1>7, <2>1 DEF Promptness, Prompt
<1> QED
    BY <1>7, <1>8, <1>9, <1>10, <1>11, <1>12, MintingPartsNext

LEMMA ForgetKept ==
    ASSUME Minting!MintingInv, NEW c \in Callers, Minting!Forget(c)
    PROVE  Minting!MintingInv'
<1> DEFINE q == [Minting!Resting EXCEPT !.left = 1]
<1>1. /\ calls[c].step = "forget" /\ minted' = Minting!NoneHeld /\ refused' = 0
      /\ gone' = gone \cup ({minted.token} \ {0})
      /\ calls' = [d \in Callers |-> IF d = c THEN q ELSE [calls[d] EXCEPT !.stirred = @ \/ Minting!Asking(d)]]
      /\ UNCHANGED <<minter, mints, life>>
    BY DEF Minting!Forget, Minting!At, Minting!NoToken
<1>2. /\ KeptTyped /\ MintsTyped /\ PasswordsTyped /\ LoneMint /\ Mutual /\ MintsTrue
      /\ HeldTrue /\ ToldTrue /\ Patience /\ Promptness
    BY MintingParts
<1>3. q \in Password /\ q.step = "rest" /\ q.live = FALSE /\ q.waited = 0 /\ q.outcome = Minting!NoneHeld
    BY TokenFields DEF Minting!Resting, Password, MintSteps
<1> HIDE DEF q
<1>4. /\ PasswordsTyped' /\ calls'[c] = q
      /\ \A d \in Callers \ {c} :
            /\ calls'[d].step = calls[d].step /\ calls'[d].outcome = calls[d].outcome /\ calls'[d].live = calls[d].live
            /\ calls'[d].waited = calls[d].waited /\ calls'[d].good = calls[d].good /\ calls'[d].left = calls[d].left
            /\ calls'[d].stirred = (calls[d].stirred \/ Minting!Asking(d))
    <2>1. calls' = [d \in Callers |-> IF d = c THEN q ELSE [calls[d] EXCEPT !.stirred = @ \/ Minting!Asking(d)]]
        BY <1>1
    <2>2. \A d \in Callers :
            LET b == calls[d].stirred \/ Minting!Asking(d)
                r == [calls[d] EXCEPT !.stirred = b]
            IN  /\ r \in Password /\ r.step = calls[d].step /\ r.outcome = calls[d].outcome /\ r.live = calls[d].live
                /\ r.waited = calls[d].waited /\ r.good = calls[d].good /\ r.left = calls[d].left /\ r.stirred = b
        <3>1. ASSUME NEW r \in Password, NEW b \in BOOLEAN
              PROVE  LET s == [r EXCEPT !.stirred = b]
                     IN  /\ s \in Password /\ s.step = r.step /\ s.outcome = r.outcome /\ s.live = r.live
                         /\ s.waited = r.waited /\ s.good = r.good /\ s.left = r.left /\ s.stirred = b
            BY DEF Password
        <3>2. \A d \in Callers : calls[d] \in Password
            BY <1>2 DEF PasswordsTyped
        <3>3. \A d \in Callers : (calls[d].stirred \/ Minting!Asking(d)) \in BOOLEAN
            OBVIOUS
        <3> QED
            BY <3>1, <3>2, <3>3
    <2>3. \A d \in Callers : calls'[d] \in Password
        BY <1>3, <2>1, <2>2
    <2> QED
        BY <2>1, <2>2, <2>3 DEF PasswordsTyped
<1>5. Joins' = Joins /\ c \notin Joins /\ minter # c
    BY <1>1, <1>2, <1>3, <1>4, MintNumbers DEF Joins, Mutual
<1>6. KeptTyped'
    BY <1>1, <1>2, TokenFields DEF KeptTyped
<1>7. HeldTrue'
    BY <1>1, <1>2, <1>6, TokenFields DEF KeptTyped, HeldTrue
<1>8. MintsTyped' /\ LoneMint' /\ MintsTrue'
    BY <1>1, <1>2, <1>5 DEF MintsTyped, LoneMint, MintsTrue
<1>9. Mutual'
    <2>1. minter # Nobody => minter \in Callers \ {c} /\ calls'[minter].step \in {"own", "join", "fall"}
        BY <1>2, <1>4, <1>5 DEF Mutual, KeptTyped
    <2>2. ASSUME NEW d \in Callers \ {c}
          PROVE  (calls'[d].step \in {"own", "join"} => minter = d) /\ (calls'[d].step = "fall" => minter = d \/ calls'[d].live)
        BY <1>2, <1>4 DEF Mutual
    <2> QED
        BY <1>1, <1>3, <1>4, <2>1, <2>2 DEF Mutual
<1>10. ToldTrue'
    <2> SUFFICES ASSUME NEW d \in Callers, calls'[d].outcome # Minting!NoneHeld
                 PROVE  /\ d \in Joins'
                        /\ calls'[d].left = 0 \/ \E h \in Minting!Threads : mints[h] = [step |-> "told", by |-> d]
                        /\ calls'[d].outcome.token \in Minting!Credentials \ (gone' \cup {minted'.token})
                        /\ life[calls'[d].outcome.token] > calls'[d].outcome.expires
        BY <1>1 DEF ToldTrue
    <2>1. d # c /\ calls'[d].outcome = calls[d].outcome /\ calls'[d].left = calls[d].left
        BY <1>3, <1>4
    <2>2. /\ d \in Joins
          /\ calls[d].left = 0 \/ \E h \in Minting!Threads : mints[h] = [step |-> "told", by |-> d]
          /\ calls[d].outcome.token \in Minting!Credentials \ (gone \cup {minted.token})
          /\ life[calls[d].outcome.token] > calls[d].outcome.expires
        BY <1>2, <2>1 DEF ToldTrue
    <2> QED
        BY <1>1, <1>5, <2>1, <2>2, TokenFields
<1>11. Patience'
    <2>1. JoinsEnd'
        BY <1>2, <1>4, <1>5 DEF Patience, JoinsEnd, Joins
    <2>2. ASSUME NEW d \in Callers PROVE Patient(calls[d])'
        <3>1. CASE d = c
            <4>1. q.waited <= MintTicks /\ q.step \notin {"try", "own", "join"}
                BY <1>3, MintNumbers
            <4> QED
                BY <1>4, <3>1, <4>1 DEF Patient
        <3>2. CASE d # c
            <4>1. Patient(calls[d])
                BY <1>2 DEF Patience
            <4>2. SUFFICES ASSUME ~calls'[d].stirred
                           PROVE  calls'[d].waited <= MintTicks /\ calls'[d].step \notin {"try", "own", "join"}
                BY DEF Patient
            <4>3. ~calls[d].stirred /\ ~Minting!Asking(d)
                BY <1>4, <3>2, <4>2
            <4> QED
                BY <1>4, <3>2, <4>1, <4>3 DEF Patient, Minting!Asking, Minting!Waits, Minting!At
        <3> QED
            BY <3>1, <3>2
    <2> QED
        BY <2>1, <2>2 DEF Patience
<1>12. Promptness'
    BY <1>1, <1>2, <1>3, <1>4 DEF Promptness, Prompt
<1> QED
    BY <1>4, <1>6, <1>7, <1>8, <1>9, <1>10, <1>11, <1>12, MintingPartsNext

\* The counter a tick takes one from.
LEMMA LessOf ==
    /\ \A n \in Nat : Minting!Less(n) \in Nat /\ Minting!Less(n) <= n /\ (n > 0 => Minting!Less(n) = n - 1)
    /\ \A m, n \in Nat : m <= n => Minting!Less(m) <= Minting!Less(n)
    /\ Minting!Less(0) = 0
    BY DEF Minting!Less

LEMMA MintingTickKept ==
    ASSUME Minting!MintingInv, Minting!Tick
    PROVE  Minting!MintingInv'
<1>1. /\ KeptTyped /\ MintsTyped /\ PasswordsTyped /\ LoneMint /\ Mutual /\ MintsTrue
      /\ HeldTrue /\ ToldTrue /\ Patience /\ Promptness
    BY MintingParts
<1>2. UNCHANGED <<minter, mints, gone>> /\ refused' = Minting!Less(refused)
    BY DEF Minting!Tick
<1>3. ASSUME NEW c \in Callers
      PROVE  /\ calls[c].step \notin {"own", "fall"}
             /\ calls[c].step = "try" => minter # Nobody /\ ~calls[c].live
             /\ calls[c].step = "join" => calls[c].left # 0
    BY DEF Minting!Tick, Minting!Runnable, Minting!At, Minting!Passes
<1>4. \A h \in Minting!Threads : mints[h].step # "told"
    BY DEF Minting!Tick
<1>5. minter # Nobody => minter \in Joins
    BY <1>1, <1>3 DEF Mutual, Joins, KeptTyped
<1>6. \A c \in Callers : calls[c].outcome = Minting!NoneHeld
    <2> SUFFICES ASSUME NEW c \in Callers, calls[c].outcome # Minting!NoneHeld PROVE FALSE
        OBVIOUS
    <2>1. c \in Joins /\ (calls[c].left = 0 \/ \E h \in Minting!Threads : mints[h] = [step |-> "told", by |-> c])
        BY <1>1 DEF ToldTrue
    <2>2. PICK h \in Minting!Threads : mints[h] = [step |-> "told", by |-> c]
        BY <1>3, <2>1 DEF Joins
    <2> QED
        BY <1>4, <2>2
<1>7. /\ PasswordsTyped'
      /\ \A c \in Callers :
            /\ calls'[c].step = calls[c].step /\ calls'[c].live = calls[c].live /\ calls'[c].good = calls[c].good
            /\ calls'[c].stirred = calls[c].stirred /\ calls'[c].left = Minting!Less(calls[c].left)
            /\ calls'[c].outcome = Minting!NoneHeld
            /\ calls'[c].waited = IF calls[c].step \in {"try", "join"} /\ calls[c].waited <= MintTicks
                                  THEN calls[c].waited + 1 ELSE calls[c].waited
    <2>1. calls' = [c \in Callers |-> [calls[c] EXCEPT
                !.left = Minting!Less(@), !.outcome.expires = Minting!Less(@),
                !.waited = IF Minting!Waits(c) /\ @ <= MintTicks THEN @ + 1 ELSE @]]
        BY DEF Minting!Tick
    <2>2. [Minting!NoneHeld EXCEPT !.expires = Minting!Less(0)] = Minting!NoneHeld
        BY LessOf DEF Minting!NoneHeld
    <2>3. ASSUME NEW c \in Callers
          PROVE  LET n == Minting!Less(calls[c].left)
                     w == IF calls[c].step \in {"try", "join"} /\ calls[c].waited <= MintTicks
                          THEN calls[c].waited + 1 ELSE calls[c].waited
                     r == [calls[c] EXCEPT !.left = n, !.outcome = Minting!NoneHeld, !.waited = w]
                 IN  /\ calls'[c] = r /\ r \in Password
                     /\ r.step = calls[c].step /\ r.live = calls[c].live /\ r.good = calls[c].good
                     /\ r.stirred = calls[c].stirred /\ r.left = n /\ r.outcome = Minting!NoneHeld /\ r.waited = w
        <3> DEFINE n == Minting!Less(calls[c].left)
                   w == IF calls[c].step \in {"try", "join"} /\ calls[c].waited <= MintTicks
                        THEN calls[c].waited + 1 ELSE calls[c].waited
        <3>1. calls[c] \in Password /\ calls[c].left \in Nat /\ calls[c].waited \in Nat
            BY <1>1, PasswordFields DEF PasswordsTyped
        <3>2. n \in Nat /\ w \in Nat
            BY <3>1, LessOf
        <3>3. calls'[c] = [calls[c] EXCEPT !.left = n, !.outcome = [calls[c].outcome EXCEPT !.expires = Minting!Less(@)], !.waited = w]
            BY <2>1, <3>1 DEF Minting!Waits
        <3>4. [calls[c].outcome EXCEPT !.expires = Minting!Less(@)] = Minting!NoneHeld
            BY <1>6, <2>2, TokenFields
        <3> HIDE DEF n, w
        <3>5. ASSUME NEW r \in Password
              PROVE  LET s == [r EXCEPT !.left = n, !.outcome = Minting!NoneHeld, !.waited = w]
                     IN  /\ s \in Password /\ s.step = r.step /\ s.live = r.live /\ s.good = r.good
                         /\ s.stirred = r.stirred /\ s.left = n /\ s.outcome = Minting!NoneHeld /\ s.waited = w
            BY <3>2, TokenFields DEF Password
        <3> QED
            BY <3>1, <3>3, <3>4, <3>5 DEF n, w
    <2>4. calls' \in [Callers -> Password]
        <3>1. \A c \in Callers : calls'[c] \in Password
            BY <2>3
        <3> QED
            BY <2>1, <3>1
    <2> QED
        BY <2>3, <2>4 DEF PasswordsTyped
<1>8. Joins' = Joins
    BY <1>7 DEF Joins
<1>9. /\ minted' \in Minting!HeldTokens /\ minted'.token = minted.token
      /\ minted'.refresh = Minting!Less(minted.refresh) /\ minted'.expires = Minting!Less(minted.expires)
    <2>1. minted' = [minted EXCEPT !.refresh = Minting!Less(@), !.expires = Minting!Less(@), !.young = Minting!Less(@)]
        BY DEF Minting!Tick
    <2>2. /\ minted \in Minting!HeldTokens
          /\ Minting!Less(minted.refresh) \in Nat /\ Minting!Less(minted.expires) \in Nat /\ Minting!Less(minted.young) \in Nat
        BY <1>1, TokenFields, LessOf DEF KeptTyped
    <2> QED
        BY <2>1, <2>2 DEF Minting!HeldTokens
<1>10. life' \in [Minting!Credentials -> Nat] /\ \A t \in Minting!Credentials : life'[t] = Minting!Less(life[t])
    BY <1>1, LessOf DEF Minting!Tick, KeptTyped
<1>11. KeptTyped'
    BY <1>1, <1>2, <1>9, <1>10, LessOf DEF KeptTyped
<1>12. HeldTrue'
    <2>1. minted.refresh \in Nat /\ minted.expires \in Nat /\ minted.token \in Minting!Credentials \cup {0}
        BY <1>1, TokenFields DEF KeptTyped
    <2>2. minted'.refresh <= minted'.expires
        BY <1>1, <1>9, <2>1, LessOf DEF HeldTrue
    <2>3. ASSUME minted'.expires > 0 PROVE minted.token # 0 /\ life'[minted.token] > minted'.expires
        <3>1. minted.expires > 0
            BY <1>9, <2>1, <2>3, LessOf
        <3>2. minted.token # 0 /\ life[minted.token] > minted.expires /\ life[minted.token] \in Nat
            BY <1>1, <2>1, <3>1 DEF HeldTrue, KeptTyped
        <3>3. life'[minted.token] = life[minted.token] - 1 /\ minted'.expires = minted.expires - 1
            BY <1>9, <1>10, <2>1, <3>1, <3>2, LessOf
        <3> QED
            BY <2>1, <3>2, <3>3
    <2> QED
        BY <1>1, <1>2, <1>9, <2>2, <2>3 DEF HeldTrue
<1>13. MintsTyped' /\ LoneMint' /\ MintsTrue'
    BY <1>1, <1>2, <1>8 DEF MintsTyped, LoneMint, MintsTrue
<1>14. Mutual'
    BY <1>1, <1>2, <1>7 DEF Mutual, KeptTyped
<1>15. ToldTrue'
    BY <1>7 DEF ToldTrue
<1>16. Patience'
    <2>1. \A d \in Joins : /\ d \in Callers /\ calls[d].left \in Nat /\ calls[d].left > 0
                           /\ calls'[d].left = calls[d].left - 1 /\ calls[d].left <= MintTicks
        <3>1. ASSUME NEW d \in Joins PROVE d \in Callers /\ calls[d].left \in Nat /\ calls[d].left # 0 /\ calls[d].left <= MintTicks
            BY <1>1, <1>3, PasswordFields DEF Joins, PasswordsTyped, Patience, JoinsEnd
        <3> QED
            BY <1>7, <3>1, LessOf
    <2>2. JoinsEnd'
        BY <1>8, <2>1, MintNumbers DEF JoinsEnd
    <2>3. ASSUME NEW c \in Callers PROVE Patient(calls[c])'
        <3>1. Patient(calls[c]) /\ calls[c].waited \in Nat
            BY <1>1, PasswordFields DEF Patience, PasswordsTyped
        <3>2. CASE calls[c].step \in {"try", "join"}
            <4>1. Joins # {}
                BY <1>3, <1>5, <3>2 DEF Joins
            <4>2. SUFFICES ASSUME ~calls[c].stirred
                           PROVE  calls'[c].waited <= MintTicks /\ \A d \in Joins : calls'[c].waited + calls'[d].left <= MintTicks
                BY <1>7, <1>8, <4>1 DEF Patient
            <4>3. calls'[c].waited = calls[c].waited + 1
                BY <1>7, <3>1, <3>2, <4>2 DEF Patient
            <4>4. ASSUME NEW d \in Joins PROVE calls'[c].waited + calls'[d].left <= MintTicks /\ calls'[c].waited <= MintTicks
                <5>1. calls[c].waited + calls[d].left <= MintTicks
                    BY <3>1, <3>2, <4>2 DEF Patient
                <5>2. calls[d].left \in Nat /\ calls[d].left > 0 /\ calls'[d].left = calls[d].left - 1
                    BY <2>1
                <5> QED
                    BY <3>1, <4>3, <5>1, <5>2, MintNumbers
            <4> QED
                BY <4>1, <4>4
        <3>3. CASE calls[c].step \notin {"try", "join"}
            BY <1>3, <1>7, <3>1, <3>3 DEF Patient
        <3> QED
            BY <3>2, <3>3
    <2> QED
        BY <2>2, <2>3 DEF Patience
<1>17. Promptness'
    <2> SUFFICES ASSUME NEW c \in Callers PROVE Prompt(c, calls[c])'
        BY DEF Promptness
    <2>1. Prompt(c, calls[c])
        BY <1>1 DEF Promptness
    <2>2. CASE calls[c].step = "try"
        BY <1>3, <1>7, <2>2 DEF Prompt
    <2>3. CASE calls[c].step = "join"
        BY <1>1, <1>2, <1>7, <2>3 DEF Prompt, Mutual
    <2>4. CASE calls[c].step \notin {"try", "join"}
        BY <1>2, <1>7, <2>1, <2>4 DEF Prompt
    <2> QED
        BY <2>2, <2>3, <2>4
<1> QED
    BY <1>7, <1>11, <1>12, <1>13, <1>14, <1>15, <1>16, <1>17, MintingPartsNext

LEMMA MintingStill == ASSUME Minting!MintingInv, UNCHANGED Minting!vars PROVE Minting!MintingInv'
<1>1. /\ KeptTyped /\ MintsTyped /\ PasswordsTyped /\ LoneMint /\ Mutual /\ MintsTrue
      /\ HeldTrue /\ ToldTrue /\ Patience /\ Promptness
    BY MintingParts
<1>2. UNCHANGED <<minted, refused, minter, mints, calls, life, gone>>
    BY DEF Minting!vars
<1>3. Joins' = Joins
    BY <1>2 DEF Joins
<1>4. KeptTyped' /\ MintsTyped' /\ PasswordsTyped' /\ LoneMint' /\ Mutual' /\ MintsTrue' /\ HeldTrue' /\ ToldTrue'
    BY <1>1, <1>2, <1>3 DEF KeptTyped, MintsTyped, PasswordsTyped, LoneMint, Mutual, MintsTrue, HeldTrue, ToldTrue
<1>5. Patience' /\ Promptness'
    BY <1>1, <1>2, <1>3 DEF Patience, JoinsEnd, Patient, Promptness, Prompt
<1> QED
    BY <1>4, <1>5, MintingPartsNext

LEMMA InitMinted == Minting!Init => Minting!MintingInv
<1> SUFFICES ASSUME Minting!Init PROVE Minting!MintingInv
    OBVIOUS
<1>1. /\ minted = Minting!NoneHeld /\ refused = 0 /\ minter = Nobody
      /\ mints = [h \in Minting!Threads |-> Minting!NoHelper]
      /\ calls = [c \in Callers |-> Minting!Resting]
      /\ life = [t \in Minting!Credentials |-> 0] /\ gone = {}
    BY DEF Minting!Init
<1>2. PasswordsTyped /\ \A c \in Callers : calls[c] = Minting!Resting
    BY <1>1, CalmIs DEF PasswordsTyped
<1>3. Joins = {}
    BY <1>2, CalmIs DEF Joins
<1>4. KeptTyped /\ HeldTrue
    BY <1>1, TokenFields DEF KeptTyped, HeldTrue
<1>5. MintsTyped /\ LoneMint /\ MintsTrue
    BY <1>1 DEF MintsTyped, LoneMint, MintsTrue, MintType, Minting!NoHelper, Minting!Threads
<1>6. Mutual /\ ToldTrue
    BY <1>1, <1>2, CalmIs DEF Mutual, ToldTrue
<1>7. Patience
    BY <1>2, <1>3, CalmIs, MintNumbers DEF Patience, JoinsEnd, Patient
<1>8. Promptness
    BY <1>2, CalmIs DEF Promptness, Prompt
<1> QED
    BY <1>2, <1>4, <1>5, <1>6, <1>7, <1>8, MintingParts

LEMMA NextMinted == ASSUME Minting!MintingInv, Minting!Next \/ UNCHANGED Minting!vars PROVE Minting!MintingInv'
<1>1. ASSUME NEW c \in Callers, Minting!Look(c) \/ Minting!Step(c) \/ Minting!ConnectFails(c)
      PROVE  Minting!MintingInv'
    BY <1>1, LookKept, TryKept, OwnKept, JoinFailsKept, JoinHasKept, FallKept, LeaveKept, ConnectFailsKept, NoteKept, ForgetKept
    DEF Minting!Step
<1>2. ASSUME NEW h \in Minting!Threads, Minting!Mint(h) \/ Minting!Finish(h)
      PROVE  Minting!MintingInv'
    BY <1>2, MintKept, FinishKeptMint
<1> QED
    BY <1>1, <1>2, MintingTickKept, MintingStill DEF Minting!Next

LEMMA MintingInvSound == Minting!MintingInv => Minting!MintingSound
    BY DEF Minting!MintingInv

-----------------------------------------------------------------------------
HandedOutPart ==
    /\ part = "minting" => Minting!MintingInv
    /\ part = "decks" => Decks!DecksInv
    /\ part = "probes" => Probes!ProbesInv

LEMMA HandedOutPartNext == ASSUME HandedOutPart, [MCNext]_mcvars PROVE HandedOutPart'
<1>1. CASE UNCHANGED mcvars
    <2>1. part' = part /\ UNCHANGED others
        BY <1>1 DEF mcvars
    <2>2. UNCHANGED Minting!vars /\ UNCHANGED Decks!vars /\ UNCHANGED Probes!vars
        BY <2>1 DEF others, Minting!vars, Decks!vars, Decks!store, Probes!vars
    <2> QED
        BY <2>1, <2>2, NextMinted, NextDecked, NextProbed DEF HandedOutPart
<1>2. CASE MCNext
    <2>1. part' = part
        BY <1>2, Zenon DEF MCNext
    <2>2. part = "minting" => Minting!Next
        BY <1>2, Zenon DEF MCNext
    <2>3. part = "decks" => Decks!Next
        BY <1>2, Zenon DEF MCNext
    <2>4. part = "probes" => Probes!Next
        BY <1>2, Zenon DEF MCNext
    <2> QED
        BY <2>1, <2>2, <2>3, <2>4, NextMinted, NextDecked, NextProbed DEF HandedOutPart
<1> QED
    BY <1>1, <1>2

\* What the process hands out (store/lakebase.py, store/rate_decks.py, api/health.py): for
\* any number of callers, units and tokens, any times and lives, and whatever a workspace,
\* a store and a filesystem answer or never do, one helper at most mints, nobody is handed
\* a token the server refuses or waits past one mint for one; a save is acknowledged over
\* the deck a run then pins, and no row is numbered below one already read; and health says
\* a store answers only while one lately did.
THEOREM HandedOutSoundHolds == MCSpec => []HandedOutSound
<1>1. MCInit => HandedOutPart
    <2>1. ASSUME MCInit, part = "minting" PROVE Minting!MintingInv
        <3>1. Minting!Init
            BY <2>1, Zenon DEF MCInit
        <3> QED
            BY <3>1, InitMinted
    <2>2. ASSUME MCInit, part = "decks" PROVE Decks!DecksInv
        <3>1. Decks!Init
            BY <2>2, Zenon DEF MCInit
        <3> QED
            BY <3>1, InitDecked
    <2>3. ASSUME MCInit, part = "probes" PROVE Probes!ProbesInv
        <3>1. Probes!Init
            BY <2>3, Zenon DEF MCInit
        <3> QED
            BY <3>1, InitProbed
    <2> QED
        BY <2>1, <2>2, <2>3 DEF HandedOutPart
<1>2. HandedOutPart /\ [MCNext]_mcvars => HandedOutPart'
    BY HandedOutPartNext
<1>3. HandedOutPart => HandedOutSound
    BY MintingInvSound, DecksInvSound, ProbesInvSound DEF HandedOutPart, HandedOutSound
<1> QED
    BY <1>1, <1>2, <1>3, PTL DEF MCSpec
=============================================================================
