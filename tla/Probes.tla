-------------------------------- MODULE Probes --------------------------------
(***************************************************************************)
(* Readiness (api/health.py): one background task runs a round of probes,  *)
(* each on a thread of its own that may never end, and publishes what they *)
(* answered in time; a request reads the last round, if it is not stale.   *)
(* The bundle's probe trusts its last full pass over the files for a time. *)
(*                                                                         *)
(* Times are what is left of them, or gone by, in ticks.  The event loop   *)
(* does what it can within a tick; a thread takes as long as it likes, but *)
(* reads what it judges at one moment.  What is probed is external, and    *)
(* any dependency stands for the four that are asked anew each round.      *)
(***************************************************************************)
EXTENDS Naturals, FiniteSets

CONSTANTS IntervalTicks, DeadlineTicks, StaleTicks, FilesTicks

VARIABLES
    good,       \* whether each dependency is as it should be
    since,      \* how long ago it last was
    loop,       \* probe_loop: in a round, asleep, or ended
    waits,      \* _one of each probe: its step, its deadline, its code
    threads,    \* each probe's threads; the code starts none beside another
    shown,      \* the last round's codes, and their age
    proven      \* FileCheck.proven: what is left of its trust

vars == <<good, since, loop, waits, threads, shown, proven>>

Probes == {"store", "bundle"}
Slots == 1..2
NoThread == [step |-> "none", found |-> "none", heard |-> FALSE]
ToStart == [step |-> "start", left |-> 0, code |-> "none"]
Far == DeadlineTicks + StaleTicks + FilesTicks + 1

Init ==
    /\ good \in [Probes -> BOOLEAN] /\ since = [p \in Probes |-> IF good[p] THEN 0 ELSE Far]
    /\ loop = [step |-> "round", left |-> 0]
    /\ waits = [p \in Probes |-> ToStart]
    /\ threads = [p \in Probes |-> [i \in Slots |-> NoThread]]
    /\ shown = [age |-> 0, codes |-> [p \in Probes |-> "PROBE_NOT_RUN"]]
    /\ proven = 0

Alive(p) == {i \in Slots : threads[p][i] # NoThread}
Answers(p, code) == waits' = [waits EXCEPT ![p] = [ToStart EXCEPT !.step = "done", !.code = code]]
Unheard(p) == [i \in Slots |-> IF i \in Alive(p) THEN [threads[p][i] EXCEPT !.heard = FALSE] ELSE NoThread]

-----------------------------------------------------------------------------
(* _one.                                                                   *)

\* Mutant: a probe is started again once its round gave it up.
StartableAgain(p) == Cardinality(Alive(p)) < 2

Startable(p) == Alive(p) = {}

Due(p) == loop.step = "round" /\ waits[p].step = "start"

Start(p) ==
    /\ Due(p)
    /\ IF Startable(p)
       THEN /\ waits' = [waits EXCEPT ![p].step = "await", ![p].left = DeadlineTicks]
            /\ \E i \in Slots \ Alive(p) :
                 /\ \A j \in 1..(i - 1) : j \in Alive(p)
                 /\ threads' = [threads EXCEPT ![p][i] = [NoThread EXCEPT !.step = "asks", !.heard = TRUE]]
       ELSE Answers(p, "PROBE_TIMEOUT") /\ UNCHANGED threads
    /\ UNCHANGED <<good, since, loop, shown, proven>>

\* The process has no thread to give: the error ends the task, which nothing restarts.
StartFails(p) ==
    /\ Due(p) /\ Startable(p)
    /\ loop' = [step |-> "ended", left |-> 0]
    /\ waits' = [q \in Probes |-> ToStart]
    /\ threads' = [q \in Probes |-> Unheard(q)]
    /\ UNCHANGED <<good, since, shown, proven>>

Overdue(p) == waits[p].step = "await" /\ waits[p].left = 0

\* The thread is abandoned; what it says later is nobody's.
TimeOut(p) ==
    /\ Overdue(p)
    /\ Answers(p, "PROBE_TIMEOUT")
    /\ threads' = [threads EXCEPT ![p] = Unheard(p)]
    /\ UNCHANGED <<good, since, loop, shown, proven>>

-----------------------------------------------------------------------------
(* The threads.                                                            *)

Judged(p) == IF good[p] THEN "OK" ELSE "FAILED"

\* Mutant: a pass that failed is trusted as well.
KeepAlways(p) == FilesTicks

\* FileCheck.verify: a pass is kept, unless it failed.
Keep(p) == IF good[p] THEN FilesTicks ELSE 0

\* The files are read again once the pass before is too old; its OK is trusted till then.
Read(p, i) ==
    /\ threads[p][i].step = "asks"
    /\ \E trusted \in {p = "bundle" /\ proven > 0} :
        /\ threads' = [threads EXCEPT ![p][i].step = "found",
                                      ![p][i].found = IF trusted THEN "OK" ELSE Judged(p)]
        /\ proven' = IF p = "bundle" /\ ~trusted THEN Keep(p) ELSE proven
    /\ UNCHANGED <<good, since, loop, waits, shown>>

\* call_soon_threadsafe, and _settle.
Tell(p, i) ==
    /\ threads[p][i].step = "found"
    /\ threads' = [threads EXCEPT ![p][i] = [@ EXCEPT !.step = "told", !.heard = FALSE]]
    /\ IF threads[p][i].heard THEN Answers(p, threads[p][i].found) ELSE UNCHANGED waits
    /\ UNCHANGED <<good, since, loop, shown, proven>>

Finish(p, i) ==
    /\ threads[p][i].step = "told"
    /\ threads' = [threads EXCEPT ![p][i] = NoThread]
    /\ UNCHANGED <<good, since, loop, waits, shown, proven>>

-----------------------------------------------------------------------------
(* probe_once and probe_loop.                                              *)

RoundOver == loop.step = "round" /\ \A p \in Probes : waits[p].step = "done"

Publish ==
    /\ RoundOver
    /\ shown' = [age |-> 0, codes |-> [p \in Probes |-> waits[p].code]]
    /\ loop' = [step |-> "sleep", left |-> IntervalTicks]
    /\ waits' = [p \in Probes |-> ToStart]
    /\ UNCHANGED <<good, since, threads, proven>>

Slept == loop.step = "sleep" /\ loop.left = 0

Wake ==
    /\ Slept
    /\ loop' = [step |-> "round", left |-> 0]
    /\ UNCHANGED <<good, since, waits, threads, shown, proven>>

\* A dependency fails, or is restored.
Turn(p) ==
    /\ good' = [good EXCEPT ![p] = ~@]
    /\ since' = [since EXCEPT ![p] = IF good'[p] THEN 0 ELSE @]
    /\ UNCHANGED <<loop, waits, threads, shown, proven>>

Less(n) == IF n > 0 THEN n - 1 ELSE 0
Older(n, most) == IF n < most THEN n + 1 ELSE n

Tick ==
    /\ ~RoundOver /\ ~Slept /\ \A p \in Probes : ~Due(p) /\ ~Overdue(p)
    /\ since' = [p \in Probes |-> IF good[p] THEN 0 ELSE Older(since[p], Far)]
    /\ loop' = [loop EXCEPT !.left = Less(@)]
    /\ waits' = [p \in Probes |-> [waits[p] EXCEPT !.left = Less(@)]]
    /\ shown' = [shown EXCEPT !.age = Older(@, StaleTicks + 1)]
    /\ proven' = Less(proven)
    /\ UNCHANGED <<good, threads>>

Next ==
    \/ \E p \in Probes :
        \/ Start(p) \/ StartFails(p) \/ TimeOut(p) \/ Turn(p)
        \/ \E i \in Slots : Read(p, i) \/ Tell(p, i) \/ Finish(p, i)
    \/ Publish \/ Wake \/ Tick

Spec == Init /\ [][Next]_vars

-----------------------------------------------------------------------------
\* Mutant: the last round is shown however old it is.
CodeAnyAge(p) == shown.codes[p]

\* _document: what a request is shown.
Code(p) == IF shown.age > StaleTicks THEN "PROBE_STALE" ELSE shown.codes[p]

\* F47, ED-4: one thread of a probe at most, however long its threads live.
OneThread == \A p \in Probes : Cardinality(Alive(p)) <= 1

\* A dependency shown OK was so a deadline and a stale round ago at most; the bundle's
\* files, a pass's trust longer.
ShownLately ==
    /\ Code("store") = "OK" => since["store"] <= DeadlineTicks + StaleTicks
    /\ Code("bundle") = "OK" => since["bundle"] <= DeadlineTicks + StaleTicks + FilesTicks

\* MAX-02: a probe that never returns holds up no round; unless the task ended, what is
\* shown is no older than an interval and a deadline.
RoundsGoOn == loop.step # "ended" => shown.age <= IntervalTicks + DeadlineTicks

ProbesSound == OneThread /\ ShownLately /\ RoundsGoOn

-----------------------------------------------------------------------------
(* The inductive invariant of the part.                                    *)

Codes == {"none", "OK", "FAILED", "PROBE_TIMEOUT", "PROBE_NOT_RUN"}

TypeOK ==
    /\ good \in [Probes -> BOOLEAN] /\ since \in [Probes -> Nat]
    /\ loop \in [step : {"round", "sleep", "ended"}, left : Nat]
    /\ waits \in [Probes -> [step : {"start", "await", "done"}, left : Nat, code : Codes]]
    /\ threads \in
        [Probes -> [Slots -> [step : {"none", "asks", "found", "told"}, found : Codes, heard : BOOLEAN]]]
    /\ shown \in [age : Nat, codes : [Probes -> Codes]]
    /\ proven \in Nat

Waits(p, step) == waits[p].step = step
Trust(p) == IF p = "bundle" THEN FilesTicks ELSE 0

\* A round is one clock: its waits began together, and it ends with their deadline.
OneClock ==
    /\ loop.step # "round" => \A p \in Probes : waits[p] = ToStart
    /\ loop.step = "sleep" => shown.age + loop.left <= IntervalTicks
    /\ loop.step = "round" => shown.age <= IntervalTicks + DeadlineTicks
    /\ loop.step = "round" => \A p \in Probes : Waits(p, "start") => shown.age <= IntervalTicks
    /\ \A p \in Probes : Waits(p, "await") =>
        /\ shown.age + waits[p].left <= IntervalTicks + DeadlineTicks
        /\ waits[p].left <= DeadlineTicks
        /\ \A q \in Probes :
            /\ Waits(q, "await") => waits[q].left = waits[p].left
            /\ Waits(q, "start") => waits[p].left = DeadlineTicks

\* What is said OK was so lately: when it is kept, found, told, and shown.
OKLately ==
    /\ \A p \in Probes : good[p] => since[p] = 0
    /\ proven > 0 => since["bundle"] + proven <= FilesTicks
    /\ \A p \in Probes : \A i \in Slots : threads[p][i].heard =>
        /\ Waits(p, "await")
        /\ threads[p][i].found = "OK" => since[p] + waits[p].left <= DeadlineTicks + Trust(p)
    /\ \A p \in Probes : Waits(p, "done") /\ waits[p].code = "OK" =>
        /\ since[p] <= DeadlineTicks + Trust(p)
        /\ \A q \in Probes :
            /\ Waits(q, "await") => since[p] + waits[q].left <= DeadlineTicks + Trust(p)
            /\ Waits(q, "start") => since[p] <= Trust(p)
    /\ \A p \in Probes : shown.codes[p] = "OK" /\ shown.age <= StaleTicks =>
        since[p] <= DeadlineTicks + Trust(p) + shown.age

ProbesInv == TypeOK /\ OneThread /\ OneClock /\ OKLately
=============================================================================
