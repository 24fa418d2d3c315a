----------------------------- MODULE Completion -----------------------------
(***************************************************************************)
(* One call of ChatCompletions.complete (models.py, provider.py): up to    *)
(* Tries sends inside one deadline, each on a helper thread that may be    *)
(* abandoned; what a failure is read as, whether it is sent again, and     *)
(* what the Completion says of content, charge and how the call ended.     *)
(*                                                                         *)
(* An end is what one send came to.  Its fields are what the client gives  *)
(* the host to read; reached and cost are the gateway's own truth, which   *)
(* no code reads: whether a model worked on the send, and what it bills.   *)
(* A step of the call takes the time it takes: clock jumps by it.          *)
(***************************************************************************)
EXTENDS Naturals, Sequences, FiniteSets

CONSTANTS
    Timeout,        \* TIMEOUT_SECONDS, in ticks
    Tries,          \* RATE_LIMIT_TRIES
    WaitCap,        \* RETRY_AFTER_CAP_SECONDS
    FenceTicks      \* the longest check_resend takes: at most MinResend

MinResend == Timeout \div 2

VARIABLES
    step,       \* where complete stands
    clock,      \* since started
    sends,      \* each send: when it began, whether its thread runs, its end's truth
    end,        \* the end being read
    result      \* the Completion, or the refusal that stopped a re-send

vars == <<step, clock, sends, end, result>>

Sent == DOMAIN sends
Last == Len(sends)
Left == IF clock < Timeout THEN Timeout - clock ELSE 0

(* Ends.  A status or a body an error raises on when it is read is         *)
(* "unreadable"; counts are the client's reading, absent ones zero.        *)
In == 2
Most == 3
Bodies == {"none", "5xx", "429", "4xx", "retryable", "other", "unreadable"}
VendorEnds ==
    [how : {"vendor"}, conn : BOOLEAN, status : {"none", "unreadable", "200", "400", "429", "500"},
     headers : BOOLEAN, body : Bodies]
CutEnds == [how : {"cut"}, conn : BOOLEAN, body : Bodies]
Messages ==
    [how : {"message"}, finish : {"stop", "length", "content_filter", "other", "none"},
     content : {"none", "blank", "some", "huge"}, usage : BOOLEAN,
     input : {0, In, Most + 1}, output : 0..Most + 1, true_output : 0..1]
Others == [how : {"raised", "escaped", "foreign"}]
Silent == [how |-> "silent"]

\* What a gateway may do: a message with text took output; counts it states are
\* its own, and are absent or impossible otherwise.
Possible(e) ==
    /\ e.how = "vendor" => ~(e.conn /\ e.status # "none") /\ (~e.headers => e.status = "429")
    /\ e.how = "message" =>
        /\ e.content \in {"some", "huge"} => e.true_output = 1
        /\ e.output \in {0, e.true_output, Most + 1}
        /\ ~e.usage => e.input = 0 /\ e.output = 0
Ends == {e \in VendorEnds \cup CutEnds \cup Messages \cup Others : Possible(e)}

\* A 429 reached no model; a message and a cut did; nobody knows of the rest.
Reached(e) ==
    CASE e.how \in {"message", "cut"} -> {TRUE}
      [] e.how = "vendor" -> IF e.status = "429" THEN {FALSE} ELSE BOOLEAN
      [] OTHER -> BOOLEAN
Cost(e) == IF e.how = "message" THEN In + e.true_output ELSE In

\* A charge not known; a known one is never zero, for a request bills its input.
Unknown == 0
Empty == [content |-> FALSE, charge |-> Unknown, refusal |-> "none", drop |-> "none"]

Init ==
    /\ step = "idle" /\ clock = 0
    /\ sends = <<>>
    /\ end = Silent
    /\ result = Empty

-----------------------------------------------------------------------------
(* What a vendor error is read as.                                         *)

\* Mutant: a server's failure is asked again as a rate limit is.
RateLimitedOr5xx(e) == e.how = "vendor" /\ e.status \in {"429", "500"}

\* _rate_limited
RateLimited(e) == e.how = "vendor" /\ e.status = "429"

\* _declares
Declares(body) == body \in {"5xx", "429", "retryable"}

\* _declared
Declared(e) ==
    /\ ~e.conn
    /\ IF e.status # "none" THEN e.status \in {"400", "429", "500"} ELSE Declares(e.body)

\* _status_refusal
StatusRefusal(e) == IF e.status = "400" THEN "CALL_INVALID" ELSE "UNAVAILABLE"

\* _unanswered, and _cut_kind of a cut
Unanswered(refusal, drop) == [Empty EXCEPT !.refusal = refusal, !.drop = drop]
VendorResult(e) ==
    LET refusal == StatusRefusal(e)
    IN  IF e.status = "unreadable" THEN Unanswered("UNAVAILABLE", "RAISED")
        ELSE Unanswered(refusal, IF refusal = "UNAVAILABLE" /\ Declared(e) THEN "DECLARED" ELSE "VENDOR")
CutKind(e) == IF ~e.conn /\ Declares(e.body) THEN "DECLARED_AFTER_CONTENT" ELSE "RAISED"

-----------------------------------------------------------------------------
(* What a message is read as.                                              *)

Text(e) == e.content \in {"some", "huge"}

\* _charge, and _count's bounds
Charge(e) ==
    IF e.usage /\ e.input \in 1..Most /\ e.output \in 0..Most /\ (Text(e) => e.output > 0)
    THEN e.input + e.output ELSE Unknown

\* finish_refusal
FinishRefusal(finish) ==
    CASE finish = "stop" -> "none" [] finish = "length" -> "TRUNCATED"
      [] finish = "content_filter" -> "REFUSED" [] OTHER -> "RESPONSE_INVALID"

\* _completion
Completed(e) ==
    LET charge == Charge(e)
        refusal ==
            IF FinishRefusal(e.finish) # "none" THEN FinishRefusal(e.finish)
            ELSE IF e.content = "some" /\ charge # Unknown THEN "none" ELSE "RESPONSE_INVALID"
    IN  [content |-> refusal = "none", charge |-> charge, refusal |-> refusal, drop |-> "none"]

ResultOf(e) ==
    CASE e.how = "message" -> Completed(e)
      [] e.how = "vendor" -> VendorResult(e)
      [] e.how = "cut" -> Unanswered("UNAVAILABLE", CutKind(e))
      [] e.how = "raised" -> Unanswered("UNAVAILABLE", "RAISED")
      [] e.how = "escaped" -> Unanswered("UNAVAILABLE", "ESCAPED")
      [] e.how = "silent" -> Unanswered("UNAVAILABLE", "DEADLINE")
      [] e.how = "foreign" -> [Empty EXCEPT !.refusal = "RESPONSE_INVALID"]

-----------------------------------------------------------------------------
SendAt(time) ==
    /\ sends' = Append(sends, [began |-> time, running |-> TRUE, reached |-> FALSE, cost |-> 0])
    /\ step' = "call"

\* complete, once its name and its size are admissible; else nothing is sent.
Begin ==
    /\ step = "idle"
    /\ \/ SendAt(0) /\ UNCHANGED result
       \/ step' = "done" /\ result' = [Empty EXCEPT !.refusal = "CALL_INVALID"] /\ UNCHANGED sends
    /\ UNCHANGED <<clock, end>>

\* _invoked: the helper thread answers in the time left.
Answer(e, took, reached) ==
    /\ step = "call"
    /\ clock' = clock + took
    /\ sends' = [sends EXCEPT ![Last].running = FALSE, ![Last].reached = reached,
                              ![Last].cost = IF reached THEN Cost(e) ELSE 0]
    /\ end' = e
    /\ step' = "read"
    /\ UNCHANGED result

\* Nothing by the deadline: the thread is left to itself, and its model with it.
Abandon(reached) ==
    /\ step = "call"
    /\ clock' = clock + Left
    /\ sends' = [sends EXCEPT ![Last].reached = reached, ![Last].cost = IF reached THEN In ELSE 0]
    /\ end' = Silent
    /\ step' = "read"
    /\ UNCHANGED result

\* An abandoned thread ends when its socket does; nobody reads it.
ThreadEnds(i) ==
    /\ step = "done" /\ sends[i].running
    /\ sends' = [sends EXCEPT ![i].running = FALSE]
    /\ UNCHANGED <<step, clock, end, result>>

Conclude ==
    /\ step' = "done"
    /\ result' = ResultOf(end)
    /\ UNCHANGED <<clock, sends, end>>

\* _waited_out: a rate limit, a try left, and a wait that leaves a re-send its time.
WaitOut(wait) ==
    /\ step = "read"
    /\ RateLimited(end) /\ Last < Tries /\ end.headers
    /\ wait + MinResend <= Left
    /\ clock' = clock + wait
    /\ step' = "fence"
    /\ UNCHANGED <<sends, end, result>>

\* No try is left, or the wait would not leave the time.
RateLimitStands(wait) ==
    /\ step = "read" /\ RateLimited(end)
    /\ \/ Last = Tries
       \/ end.headers /\ wait + MinResend > Left
    /\ Conclude

\* _retry_after cannot read what the client raised.
RateLimitUnread ==
    /\ step = "read" /\ RateLimited(end) /\ Last < Tries /\ ~end.headers
    /\ step' = "done"
    /\ result' = Unanswered("UNAVAILABLE", "RAISED")
    /\ UNCHANGED <<clock, sends, end>>

Ended ==
    /\ step = "read" /\ ~RateLimited(end)
    /\ Conclude

\* check_resend: one installed check may refuse; else what is left is asked again.
Fence(took) ==
    /\ step = "fence"
    /\ clock' = clock + took
    /\ \/ /\ step' = "done"
          /\ result' = [Empty EXCEPT !.refusal = "STOPPED"]
          /\ UNCHANGED <<sends, end>>
       \/ /\ clock' + MinResend <= Timeout
          /\ SendAt(clock')
          /\ UNCHANGED <<end, result>>
       \/ /\ clock' + MinResend > Timeout
          /\ step' = "done"
          /\ result' = ResultOf(end)
          /\ UNCHANGED <<sends, end>>

Next ==
    \/ Begin
    \/ step = "call" /\ \E e \in Ends, took \in 0..Left : \E reached \in Reached(e) : Answer(e, took, reached)
    \/ \E reached \in BOOLEAN : Abandon(reached)
    \/ \E i \in Sent : ThreadEnds(i)
    \/ \E wait \in 0..WaitCap : WaitOut(wait) \/ RateLimitStands(wait)
    \/ RateLimitUnread
    \/ Ended
    \/ \E took \in 0..FenceTicks : Fence(took)

Spec == Init /\ [][Next]_vars

-----------------------------------------------------------------------------
PaidSends == {i \in Sent : sends[i].reached}

\* DP-5: however often it is sent, at most one send was ever a model's work, an
\* abandoned one included; one that a resend check stopped was none's.
OnePaid ==
    /\ Cardinality(PaidSends) <= 1
    /\ step = "done" /\ result.refusal = "STOPPED" => PaidSends = {}

\* ST-9, N11: no send begins without the time a generation needs, and the answer
\* is there by the one deadline, whatever the waits and the checks took.
InTime ==
    /\ \A i \in Sent : sends[i].began + MinResend <= Timeout
    /\ clock <= Timeout

\* F34, F35, CF-047, ST-11: what is handed on as an answer was whole, and charged
\* what the send cost; a charge is never more than that.
BilledTruly ==
    step = "done" /\ result.charge # Unknown =>
        /\ PaidSends = {Last}
        /\ result.charge <= sends[Last].cost
        /\ result.content => result.charge = sends[Last].cost /\ end.finish = "stop" /\ end.content = "some"

\* D110, D118: an ending the ledger may attempt again is one the provider stated,
\* with nothing left behind that may still be paid for; what is left behind is
\* named by the deadline it met.
DropTrue ==
    step = "done" =>
        /\ result.drop \in {"DECLARED", "DECLARED_AFTER_CONTENT"} => ~end.conn /\ \A i \in Sent : ~sends[i].running
        /\ (\E i \in Sent : sends[i].running) => result.drop = "DEADLINE"
        /\ result.drop = "DEADLINE" => clock = Timeout

CompletionSound == OnePaid /\ InTime /\ BilledTruly /\ DropTrue

-----------------------------------------------------------------------------
(* What the properties rest on.                                            *)

Refusals == {"none", "CALL_INVALID", "UNAVAILABLE", "TRUNCATED", "REFUSED", "RESPONSE_INVALID", "STOPPED"}
Drops == {"none", "RAISED", "VENDOR", "DECLARED", "DECLARED_AFTER_CONTENT", "ESCAPED", "DEADLINE"}

TypeOK ==
    /\ step \in {"idle", "call", "read", "fence", "done"} /\ clock \in 0..Timeout
    /\ sends \in Seq([began : 0..Timeout, running : BOOLEAN, reached : BOOLEAN, cost : Nat])
    /\ end \in Ends \cup {Silent}
    /\ result \in [content : BOOLEAN, charge : Nat, refusal : Refusals, drop : Drops]

\* A send that was no model's work, and whose thread is gone.
Clear(i) == ~sends[i].running /\ ~sends[i].reached

\* What is read is the last send's end.
LastEnd ==
    /\ IF end = Silent THEN clock = Timeout ELSE ~sends[Last].running
    /\ RateLimited(end) => ~sends[Last].reached
    /\ end.how = "message" => sends[Last].reached /\ sends[Last].cost = Cost(end)

\* Only a send that is clear is followed by another.
CompletionInv ==
    /\ TypeOK
    /\ \A i \in Sent : i < Last => Clear(i)
    /\ \A i \in Sent : sends[i].began + MinResend <= Timeout
    /\ step = "idle" <=> sends = <<>> /\ step # "done"
    /\ step = "call" => ~sends[Last].reached
    /\ step = "read" => LastEnd
    /\ step = "fence" => Clear(Last) /\ RateLimited(end) /\ clock + MinResend <= Timeout
    /\ OnePaid /\ BilledTruly /\ DropTrue
=============================================================================
