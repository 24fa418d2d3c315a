------------------------------ MODULE Identity ------------------------------
(***************************************************************************)
(* Who is asking, behind the platform (api/identity.py): a token is asked  *)
(* of the workspace once, on a helper thread, for every request that       *)
(* brings it meanwhile; what the workspace said is remembered for a time,  *)
(* a refusal for a shorter one.                                            *)
(*                                                                         *)
(* What runs on the event loop between two awaits is one step; a leading   *)
(* request's lookup runs on a worker thread beside it, the round trip on a *)
(* helper that outlives the lookup when the workspace stalls.  Times are   *)
(* what is left of them, in ticks; a thread that can run does so within    *)
(* the tick.                                                               *)
(***************************************************************************)
EXTENDS Integers, FiniteSets

CONSTANTS
    Callers, Tokens,
    CacheTicks, NegativeTicks,      \* CACHE_SECONDS, NEGATIVE_SECONDS
    DeadlineTicks, SharedTicks,     \* SCIM_DEADLINE_SECONDS, SHARED_WAIT_SECONDS
    WaitingLimit,                   \* SCIM_WAITING_LIMIT, of each semaphore
    Capacity,                       \* CACHE_CAPACITY
    Nobody

VARIABLES
    cache,      \* _CACHE: what is left of each token's entry, and its age
    negative,   \* _NEGATIVE: what is left of each refusal
    inflight,   \* _INFLIGHT: the request that leads each token's lookup
    waiting, exchanges,     \* what is left of _WAITING and of _EXCHANGES
    ask,        \* each request: its step, token, time left, and what it was told
    helper      \* the round trips: whose each is, or nobody's once abandoned

remembered == <<cache, negative, inflight>>
vars == <<remembered, waiting, exchanges, ask, helper>>

Threads == 1..WaitingLimit

\* What was said, and how long ago the workspace said it.
Said(code, age) == [code |-> code, age |-> age]
NoAnswer == Said("NONE", 0)
Unavailable == Said("IDENTITY_UNAVAILABLE", 0)
Refused == Said("NOT_AUTHENTICATED", 0)
Resting == [step |-> "rest", token |-> Nobody, left |-> 0, answer |-> NoAnswer]
NoHelper == [step |-> "none", by |-> Nobody, left |-> 0, answer |-> NoAnswer]

Init ==
    /\ cache = [t \in Tokens |-> [left |-> 0, age |-> 0]]
    /\ negative = [t \in Tokens |-> 0]
    /\ inflight = [t \in Tokens |-> Nobody]
    /\ waiting = WaitingLimit /\ exchanges = WaitingLimit
    /\ ask = [r \in Callers |-> Resting] /\ helper = [h \in Threads |-> NoHelper]

At(r, step) == ask[r].step = step
Answered(r, answer) == ask' = [ask EXCEPT ![r] = [Resting EXCEPT !.step = "answered", !.answer = answer]]
Waits(r, t, step, left) ==
    ask' = [ask EXCEPT ![r] = [step |-> step, token |-> t, left |-> left, answer |-> NoAnswer]]

-----------------------------------------------------------------------------
(* actor_from_token, up to its first await.                                *)

Ask(r, t) ==
    /\ ask[r] = Resting
    /\ IF cache[t].left > 0
       THEN Answered(r, Said("ACTOR", cache[t].age)) /\ UNCHANGED <<waiting, inflight>>
       ELSE IF negative[t] > 0 THEN Answered(r, Refused) /\ UNCHANGED <<waiting, inflight>>
       ELSE IF waiting = 0 THEN Answered(r, Unavailable) /\ UNCHANGED <<waiting, inflight>>
       ELSE /\ waiting' = waiting - 1
            /\ IF inflight[t] # Nobody
               THEN Waits(r, t, "shared", SharedTicks) /\ UNCHANGED inflight
               ELSE Waits(r, t, "lookup", 0) /\ inflight' = [inflight EXCEPT ![t] = r]
    /\ UNCHANGED <<cache, negative, exchanges, helper>>

\* The response leaves; its client asks once a tick.
Leave(r) ==
    /\ At(r, "answered")
    /\ ask' = [ask EXCEPT ![r] = [Resting EXCEPT !.left = 1]]
    /\ UNCHANGED <<remembered, waiting, exchanges, helper>>

-----------------------------------------------------------------------------
(* _looked_up over scim_me, on a worker thread.                            *)

\* The helper is started, if a place is left and the thread starts.
Exchange(r) ==
    /\ At(r, "lookup")
    /\ \/ \E h \in Threads :
            /\ exchanges > 0 /\ helper[h] = NoHelper
            /\ \A g \in 1..(h - 1) : helper[g] # NoHelper
            /\ exchanges' = exchanges - 1
            /\ helper' = [helper EXCEPT ![h] = [NoHelper EXCEPT !.step = "asking", !.by = r, !.left = DeadlineTicks]]
            /\ ask' = [ask EXCEPT ![r].step = "exchange", ![r].left = DeadlineTicks]
       \/ /\ ask' = [ask EXCEPT ![r].step = "back", ![r].answer = Unavailable]
          /\ UNCHANGED <<exchanges, helper>>
    /\ UNCHANGED <<remembered, waiting>>

\* The workspace judges the token, whenever it comes to it.
Judge(h) ==
    /\ helper[h].step = "asking"
    /\ \E code \in {"ACTOR", "NOT_AUTHENTICATED"} :
         helper' = [helper EXCEPT ![h].step = "reading", ![h].answer = Said(code, 0)]
    /\ UNCHANGED <<remembered, waiting, exchanges, ask>>

\* _body_by: an answer whose body came in time.
Heard(h) == helper[h].step = "reading" /\ helper[h].left > 0

\* The round trip ends, answered or with the transport's fault; the asking thread
\* hears it unless it has gone.
Finish(h) ==
    /\ helper[h].step \in {"asking", "reading"}
    /\ exchanges' = exchanges + 1
    /\ helper' = [helper EXCEPT ![h] = NoHelper]
    /\ IF helper[h].by = Nobody THEN UNCHANGED ask
       ELSE \E answer \in {Unavailable} \cup (IF Heard(h) THEN {helper[h].answer} ELSE {}) :
              ask' = [ask EXCEPT ![helper[h].by].step = "heard", ![helper[h].by].answer = answer]
    /\ UNCHANGED <<remembered, waiting>>

\* Mutant: a wait that ended without an answer is taken up again.
AbandonNever(r) == At(r, "exchange") /\ ask[r].left = 0 /\ UNCHANGED vars

\* done.wait ends at the deadline; the helper is abandoned.
Abandon(r) ==
    /\ At(r, "exchange") /\ ask[r].left = 0
    /\ ask' = [ask EXCEPT ![r].step = "heard", ![r].answer = Unavailable]
    /\ helper' = [h \in Threads |->
            IF helper[h].by = r THEN [NoHelper EXCEPT !.step = "asking"] ELSE helper[h]]
    /\ UNCHANGED <<remembered, waiting, exchanges>>

Kept(book) == Cardinality({t \in Tokens : book[t] > 0})
Lefts == [t \in Tokens |-> cache[t].left]

\* _deny, on the clock of this moment and not of the call: none past the capacity.
Deny(t) == negative' = IF Kept(negative) < Capacity THEN [negative EXCEPT ![t] = NegativeTicks] ELSE negative

\* What the thread remembers of the answer: _remember or _deny.
Remember(r) ==
    LET t == ask[r].token
        answer == ask[r].answer
    IN
    /\ At(r, "heard")
    /\ ask' = [ask EXCEPT ![r].step = "back"]
    /\ CASE answer.code = "ACTOR" ->
              /\ cache' = IF Kept(Lefts) < Capacity
                          THEN [cache EXCEPT ![t] = [left |-> CacheTicks, age |-> answer.age]] ELSE cache
              /\ UNCHANGED negative
         [] answer.code = "NOT_AUTHENTICATED" -> Deny(t) /\ UNCHANGED cache
         [] OTHER -> UNCHANGED <<cache, negative>>
    /\ UNCHANGED <<inflight, waiting, exchanges, helper>>

-----------------------------------------------------------------------------
(* Back on the event loop.                                                 *)

\* Mutant: a lookup that found nobody is left for later requests to join.
LeaveFound(t, answer) == IF answer.code = "ACTOR" THEN [inflight EXCEPT ![t] = Nobody] ELSE inflight

\* The flight is closed: nobody joins it now.
LeaveFlight(t, answer) == [inflight EXCEPT ![t] = Nobody]

\* Whoever joined the flight is told.
Told(call, token, answer) ==
    IF call.step = "shared" /\ call.token = token THEN [call EXCEPT !.step = "told", !.answer = answer] ELSE call

\* _settle: the answer is everybody's who waits for it.
Settle(r) ==
    /\ At(r, "back")
    /\ ask' = [q \in Callers |->
            IF q = r THEN [Resting EXCEPT !.step = "answered", !.answer = ask[r].answer]
            ELSE Told(ask[q], ask[r].token, ask[r].answer)]
    /\ inflight' = LeaveFlight(ask[r].token, ask[r].answer)
    /\ waiting' = waiting + 1
    /\ UNCHANGED <<cache, negative, exchanges, helper>>

\* _shared: it was told, or has waited long enough.
Shared(r) ==
    /\ At(r, "told") \/ (At(r, "shared") /\ ask[r].left = 0)
    /\ Answered(r, IF At(r, "told") THEN ask[r].answer ELSE Unavailable)
    /\ waiting' = waiting + 1
    /\ UNCHANGED <<remembered, exchanges, helper>>

-----------------------------------------------------------------------------
Runnable(r) ==
    \/ ask[r].step \in {"lookup", "heard", "back", "told", "answered"}
    \/ ask[r].step \in {"exchange", "shared"} /\ ask[r].left = 0

Less(n) == IF n > 0 THEN n - 1 ELSE 0
Waited(call) == [call EXCEPT !.left = Less(@)]
\* What nobody serves any more has no age, and what is heard too late none past the deadline.
Older(entry) == [left |-> Less(entry.left), age |-> IF entry.left > 1 THEN entry.age + 1 ELSE 0]
Ran(trip) ==
    [trip EXCEPT !.left = Less(@),
                 !.answer.age = IF @ < DeadlineTicks /\ trip.step = "reading" THEN @ + 1 ELSE @]

\* Time passes, the same for all.
Tick ==
    /\ \A r \in Callers : ~Runnable(r)
    /\ cache' = [t \in Tokens |-> Older(cache[t])]
    /\ negative' = [t \in Tokens |-> Less(negative[t])]
    /\ ask' = [r \in Callers |-> Waited(ask[r])] /\ helper' = [h \in Threads |-> Ran(helper[h])]
    /\ UNCHANGED <<inflight, waiting, exchanges>>

Run(r) == Exchange(r) \/ Abandon(r) \/ Remember(r) \/ Settle(r) \/ Shared(r) \/ Leave(r)

Next ==
    \/ \E r \in Callers : Run(r) \/ \E t \in Tokens : Ask(r, t)
    \/ \E h \in Threads : Judge(h) \/ Finish(h)
    \/ Tick

\* Threads and the loop run, and time passes; a helper may never end.
Fairness == WF_vars(Tick) /\ \A r \in Callers : WF_vars(Run(r))

Spec == Init /\ [][Next]_vars /\ Fairness

-----------------------------------------------------------------------------
Leading == {r \in Callers : ask[r].step \in {"lookup", "exchange", "heard", "back"}}

\* A token is looked up by one request at a time, which its flight names, so that
\* whoever waits on one waits on a lookup that is being made.
OneFlight ==
    /\ \A t \in Tokens : {r \in Leading : ask[r].token = t} = {inflight[t]} \ {Nobody}
    /\ \A r \in Callers : At(r, "shared") => inflight[ask[r].token] # Nobody

\* The semaphores come back whatever ended a request: as many permits are out as
\* requests wait, and as many as helpers run, an abandoned one included.
Balanced ==
    /\ waiting + Cardinality({r \in Callers : ask[r].step \notin {"rest", "answered"}}) = WaitingLimit
    /\ exchanges + Cardinality({h \in Threads : helper[h] # NoHelper}) = WaitingLimit

\* F13: nobody is taken for a user on what the workspace said longer ago than the
\* cache's time and a lookup's.
AnswersAge ==
    \A r \in Callers :
        At(r, "answered") /\ ask[r].answer.code = "ACTOR" => ask[r].answer.age < CacheTicks + DeadlineTicks

\* CR-7: a token the workspace refuses is remembered so, however long the refusal
\* took, unless the book is full.
RefusalHolds ==
    \A r \in Callers :
        At(r, "back") /\ ask[r].answer.code = "NOT_AUTHENTICATED" =>
            negative[ask[r].token] > 0 \/ Kept(negative) = Capacity

IdentitySound == OneFlight /\ Balanced /\ AnswersAge /\ RefusalHolds

\* What IdentitySound rests on: a flight and its lead name each other, a helper and who
\* waits for it do, and an answer and the time its helper has left make a deadline at most.
Steps == {"rest", "answered", "shared", "lookup", "exchange", "heard", "back", "told"}
Words == [code : {"NONE", "ACTOR", "NOT_AUTHENTICATED", "IDENTITY_UNAVAILABLE"}, age : Nat]
TypeOK ==
    /\ cache \in [Tokens -> [left : Nat, age : Nat]] /\ negative \in [Tokens -> Nat]
    /\ inflight \in [Tokens -> Callers \cup {Nobody}]
    /\ waiting \in Int /\ exchanges \in Int
    /\ ask \in [Callers -> [step : Steps, token : Tokens \cup {Nobody}, left : Nat, answer : Words]]
    /\ helper \in [Threads -> [step : {"none", "asking", "reading"}, by : Callers \cup {Nobody},
                               left : Nat, answer : Words]]

Flights ==
    /\ \A r \in Leading : ask[r].token \in Tokens /\ inflight[ask[r].token] = r
    /\ \A t \in Tokens : inflight[t] # Nobody => inflight[t] \in Leading /\ ask[inflight[t]].token = t
    /\ \A r \in Callers : At(r, "shared") => ask[r].token \in Tokens /\ inflight[ask[r].token] # Nobody

Helpers ==
    /\ \A h \in Threads : helper[h].step = "none" => helper[h] = NoHelper
    /\ \A h \in Threads : helper[h].by # Nobody => At(helper[h].by, "exchange")
    /\ \A h, g \in Threads : helper[h].by = helper[g].by /\ helper[h].by # Nobody => h = g

Ages ==
    /\ \A t \in Tokens : cache[t].left > 0 => cache[t].age + cache[t].left < CacheTicks + DeadlineTicks
    /\ \A h \in Threads : helper[h].answer.age + helper[h].left <= DeadlineTicks
    /\ \A r \in Callers :
        ask[r].step \in {"heard", "back", "told"} /\ ask[r].answer.code = "ACTOR" => ask[r].answer.age < DeadlineTicks

IdentityInv ==
    TypeOK /\ Flights /\ Helpers /\ Balanced /\ Ages /\ AnswersAge /\ Kept(negative) <= Capacity /\ RefusalHolds

\* A request is answered, whatever the workspace and its helpers do.
Answers(r) == ~At(r, "rest") ~> At(r, "rest")
=============================================================================
