------------------------------- MODULE Serving -------------------------------
(***************************************************************************)
(* What a request may hold while it is served (api/edge.py EdgeGuard,      *)
(* api/stream.py StreamSlot, _TailResponse of api/app.py, admit_sources of *)
(* api/commands/cases.py, evidence/ingest.py, blobs.py): a place in        *)
(* flight, a tail's slot, an admission's place, and the blobs and rows an  *)
(* admitted pack leaves, through stalled bodies, refusals, clients that go *)
(* away and crashes.                                                       *)
(*                                                                         *)
(* Times are what is left of them, in ticks.  The unit an admission        *)
(* commits in is Governed's: here it is one step, which may fail.          *)
(***************************************************************************)
EXTENDS Integers, Sequences, FiniteSets

CONSTANTS
    Asks, Watcher,              \* requests, and whose each is
    InFlightLimit,              \* IN_FLIGHT_LIMIT
    StreamLimit, WatcherLimit,  \* STREAM_LIMIT, ACTOR_STREAM_LIMIT
    AdmissionSlots,             \* ADMISSION_SLOTS
    BodyTicks, SlotTicks,       \* a body's deadline, ADMISSION_WAIT_SECONDS
    Keys, Packs,
    MaxCrashes                  \* bounds the crashes

VARIABLES
    inflight,       \* EdgeGuard._in_flight
    open, held,     \* _Slots: in total and per actor
    places,         \* what is left of the admissions' semaphore
    req,            \* each request: its step, what it uploads, time left
    slot,           \* each tail's StreamSlot: whether held, and who may yet release it
    names, durable, \* the blobs at their address, and those a crash leaves there
    sources,        \* the packs admitted, with their key, in order
    receipts,       \* command receipts
    crashes

counts == <<inflight, open, held, places>>
store == <<names, durable, sources, receipts>>
vars == <<counts, req, slot, store, crashes>>

Watchers == {Watcher[r] : r \in Asks}
Nothing == "none"
Resting == [step |-> "rest", key |-> Nothing, pack |-> Nothing, left |-> 0]
NoSlot == [held |-> FALSE, by |-> {}]

Init ==
    /\ inflight = 0 /\ open = 0 /\ held = [a \in Watchers |-> 0]
    /\ places = AdmissionSlots
    /\ req = [r \in Asks |-> Resting] /\ slot = [r \in Asks |-> NoSlot]
    /\ names = {} /\ durable = {}
    /\ sources = <<>>
    /\ receipts = [k \in Keys |-> Nothing]
    /\ crashes = 0

At(r, step) == req[r].step = step
Go(r, step) == req' = [req EXCEPT ![r].step = step, ![r].left = 0]

-----------------------------------------------------------------------------
(* The edge.                                                               *)

\* EdgeGuard: refused at the limit, else counted, in one step of the loop.
Arrive(r) ==
    /\ req[r] = Resting /\ slot[r] = NoSlot
    /\ inflight < InFlightLimit
    /\ inflight' = inflight + 1
    /\ \/ Go(r, "watch")
       \/ \E k \in Keys, p \in Packs :
            req' = [req EXCEPT ![r] = [step |-> "body", key |-> k, pack |-> p, left |-> BodyTicks]]
    /\ UNCHANGED <<open, held, places, slot, store, crashes>>

\* The response is sent, or there is nobody to send it to.
Leave(r) ==
    /\ At(r, "leave")
    /\ inflight' = inflight - 1
    /\ req' = [req EXCEPT ![r] = Resting]
    /\ UNCHANGED <<open, held, places, slot, store, crashes>>

-----------------------------------------------------------------------------
(* A tail.                                                                 *)

\* take_stream_slot, after the watcher's standing: the slot is made with the
\* generator that may release it, and the collector that will if that never runs.
TakeSlot(r) ==
    /\ At(r, "watch")
    /\ IF open < StreamLimit /\ held[Watcher[r]] < WatcherLimit
       THEN /\ open' = open + 1 /\ held' = [held EXCEPT ![Watcher[r]] = @ + 1]
            /\ slot' = [slot EXCEPT ![r] = [held |-> TRUE, by |-> {"response", "generator", "collector"}]]
            /\ Go(r, "respond")
       ELSE UNCHANGED <<open, held, slot>> /\ Go(r, "leave")
    /\ UNCHANGED <<inflight, places, store, crashes>>

\* Mutant: each of its releases gives a slot back.
ReleaseEach(r) == TRUE

\* StreamSlot.release gives the slot back the first time only.
ReleaseHeld(r) == slot[r].held

Release(r, who) ==
    /\ slot' = [slot EXCEPT ![r] = [held |-> FALSE, by |-> @.by \ who]]
    /\ IF ReleaseHeld(r)
       THEN open' = open - 1 /\ held' = [held EXCEPT ![Watcher[r]] = @ - 1]
       ELSE UNCHANGED <<open, held>>

\* The response is never sent, and its generator never starts.
Unsent(r) ==
    /\ At(r, "respond")
    /\ slot' = [slot EXCEPT ![r].by = {"collector"}]
    /\ Go(r, "leave")
    /\ UNCHANGED <<counts, store, crashes>>

\* _TailResponse.__call__: the tail is on the wire until it is delivered, meets its
\* deadline, loses its standing, or is left.
Send(r) ==
    /\ At(r, "respond")
    /\ Go(r, "tail")
    /\ UNCHANGED <<counts, slot, store, crashes>>

EndTail(r) ==
    /\ At(r, "tail")
    /\ Release(r, {"response"})
    /\ Go(r, "close")
    /\ UNCHANGED <<inflight, places, store, crashes>>

\* tail.close(): its own finally, if it had started.
CloseTail(r) ==
    /\ At(r, "close")
    /\ \/ Release(r, {"generator"})
       \/ UNCHANGED <<open, held>> /\ slot' = [slot EXCEPT ![r].by = @ \ {"generator"}]
    /\ Go(r, "leave")
    /\ UNCHANGED <<inflight, places, store, crashes>>

\* weakref.finalize, once nothing names the generator.
Collect(r) ==
    /\ slot[r].by = {"collector"}
    /\ Release(r, {"collector"})
    /\ UNCHANGED <<inflight, places, req, store, crashes>>

-----------------------------------------------------------------------------
(* An admission.                                                           *)

\* Mutant: a body has no deadline.
StalledNever(r) == At(r, "body") /\ req[r].left = 0 /\ UNCHANGED vars

\* A pack arrives whole; or it is malformed, or not arrived by its deadline.
Body(r) ==
    /\ At(r, "body") /\ req[r].left > 0
    /\ \/ req' = [req EXCEPT ![r].step = "wait", ![r].left = SlotTicks]
       \/ Go(r, "leave")
    /\ UNCHANGED <<counts, slot, store, crashes>>

Stalled(r) ==
    /\ At(r, "body") /\ req[r].left = 0
    /\ Go(r, "leave")
    /\ UNCHANGED <<counts, slot, store, crashes>>

\* _admission_slot
Acquire(r) ==
    /\ At(r, "wait") /\ places > 0
    /\ places' = places - 1
    /\ Go(r, "read")
    /\ UNCHANGED <<inflight, open, held, slot, store, crashes>>

GiveUp(r) ==
    /\ At(r, "wait") /\ req[r].left = 0
    /\ Go(r, "leave")
    /\ UNCHANGED <<counts, slot, store, crashes>>

\* _peek: a stored receipt answers, or refuses another pack under its key.
Peek(r) ==
    /\ At(r, "read")
    /\ Go(r, IF receipts[req[r].key] = Nothing THEN "prepare" ELSE "answer")
    /\ UNCHANGED <<counts, slot, store, crashes>>

\* prepare_pack, within the pack's own time; any ceiling or reader may refuse it.
Prepare(r) ==
    /\ At(r, "prepare")
    /\ Go(r, "put") \/ Go(r, "answer")
    /\ UNCHANGED <<counts, slot, store, crashes>>

\* BlobStore.put, up to its rename: whole at its address, or not there at all.
Put(r) ==
    /\ At(r, "put")
    /\ \/ names' = names \cup {req[r].pack} /\ Go(r, "sync")
       \/ UNCHANGED names /\ Go(r, "answer")
    /\ UNCHANGED <<counts, slot, durable, sources, receipts, crashes>>

\* _sync_directory
Sync(r) ==
    /\ At(r, "sync")
    /\ durable' = durable \cup ({req[r].pack} \cap names)
    /\ Go(r, "commit")
    /\ UNCHANGED <<counts, slot, names, sources, receipts, crashes>>

\* admit_prepared in its governed unit: the rows and the receipt, or neither.
Commit(r) ==
    /\ At(r, "commit")
    /\ Go(r, "answer")
    /\ \/ /\ receipts[req[r].key] = Nothing
          /\ sources' = Append(sources, [key |-> req[r].key, pack |-> req[r].pack])
          /\ receipts' = [receipts EXCEPT ![req[r].key] = req[r].pack]
       \/ UNCHANGED <<sources, receipts>>
    /\ UNCHANGED <<counts, slot, names, durable, crashes>>

\* The slot's dependency ends with the answer.
Answer(r) ==
    /\ At(r, "answer")
    /\ places' = places + 1
    /\ Go(r, "leave")
    /\ UNCHANGED <<inflight, open, held, slot, store, crashes>>

-----------------------------------------------------------------------------
\* The process is gone, or the machine with what was not synced.
Crash ==
    /\ crashes < MaxCrashes
    /\ crashes' = crashes + 1
    /\ inflight' = 0 /\ open' = 0 /\ held' = [a \in Watchers |-> 0] /\ places' = AdmissionSlots
    /\ req' = [r \in Asks |-> Resting] /\ slot' = [r \in Asks |-> NoSlot]
    /\ names' \in {names, durable}
    /\ UNCHANGED <<durable, sources, receipts>>

Timed(r) == req[r].step \in {"body", "wait"} /\ req[r].left > 0
Tick ==
    /\ \E r \in Asks : Timed(r)
    /\ \A r \in Asks : req[r].step \in {"body", "wait"} => Timed(r)
    /\ req' = [r \in Asks |-> IF Timed(r) THEN [req[r] EXCEPT !.left = @ - 1] ELSE req[r]]
    /\ UNCHANGED <<counts, slot, store, crashes>>

\* What the server does of itself; a body comes, or does not.
Serve(r) ==
    \/ Leave(r) \/ TakeSlot(r) \/ Send(r) \/ EndTail(r) \/ CloseTail(r)
    \/ Stalled(r) \/ Acquire(r) \/ GiveUp(r) \/ Peek(r) \/ Prepare(r) \/ Put(r) \/ Sync(r) \/ Commit(r) \/ Answer(r)

Next ==
    \/ \E r \in Asks : Arrive(r) \/ Unsent(r) \/ Body(r) \/ Serve(r) \/ Collect(r)
    \/ Tick
    \/ Crash

Fairness == WF_vars(Tick) /\ \A r \in Asks : WF_vars(Serve(r)) /\ WF_vars(Collect(r))

Spec == Init /\ [][Next]_vars /\ Fairness

-----------------------------------------------------------------------------
Holding == {r \in Asks : slot[r].held}
Admitting == {r \in Asks : req[r].step \in {"read", "prepare", "put", "sync", "commit", "answer"}}

\* CF-051, MX-2, N5: what the counters say is out is what is held, so a place is
\* neither lost nor lent twice, whoever releases it and however a request ends.
Counted ==
    /\ inflight = Cardinality({r \in Asks : ~At(r, "rest")})
    /\ open = Cardinality(Holding) /\ open <= StreamLimit
    /\ \A a \in Watchers : held[a] = Cardinality({r \in Holding : Watcher[r] = a}) /\ held[a] <= WatcherLimit
    /\ places + Cardinality(Admitting) = AdmissionSlots

\* ED-1: whoever holds a tail's slot when the response is gone still lets it go.
SlotsReturn == \A r \in Holding : At(r, "leave") \/ At(r, "rest") => "collector" \in slot[r].by

\* A row names no blob that a refusal, a failed unit or a crash took away; a key
\* admits one pack once.
SourcesHeld ==
    /\ \A i \in DOMAIN sources : sources[i].pack \in names
    /\ \A i, j \in DOMAIN sources : sources[i].key = sources[j].key => i = j

ServingSound == Counted /\ SlotsReturn /\ SourcesHeld

\* What ServingSound rests on: a slot's collector may release it for as long as it is held,
\* and a pack is at its address before it is synced, and synced before its rows are written.
Uploading == {"body", "wait", "read", "prepare", "put", "sync", "commit", "answer"}
Steps == {"rest", "watch", "respond", "tail", "close", "leave"} \cup Uploading
TypeOK ==
    /\ inflight \in Int /\ open \in Int /\ held \in [Watchers -> Int] /\ places \in Int
    /\ req \in [Asks -> [step : Steps, key : Keys \cup {Nothing}, pack : Packs \cup {Nothing}, left : Nat]]
    /\ slot \in [Asks -> [held : BOOLEAN, by : SUBSET {"response", "generator", "collector"}]]
    /\ names \subseteq Packs /\ durable \subseteq names
    /\ sources \in Seq([key : Keys, pack : Packs])
    /\ receipts \in [Keys -> Packs \cup {Nothing}]

Collectable == \A r \in Asks : slot[r].held => "collector" \in slot[r].by
Fresh == \A r \in Asks : At(r, "watch") => ~slot[r].held
Stored ==
    /\ \A r \in Asks : req[r].step \in Uploading => req[r].key \in Keys /\ req[r].pack \in Packs
    /\ \A r \in Asks : At(r, "sync") => req[r].pack \in names
    /\ \A r \in Asks : At(r, "commit") => req[r].pack \in durable
    /\ \A i \in DOMAIN sources : sources[i].pack \in durable /\ receipts[sources[i].key] # Nothing
    /\ \A i, j \in DOMAIN sources : sources[i].key = sources[j].key => i = j

ServingInv == TypeOK /\ Counted /\ Collectable /\ Fresh /\ Stored

\* W3, F207: whatever a body, a slot or a watcher does, the request ends and its
\* place comes back; what it held of a tail does too.
Ends(r) == ~At(r, "rest") ~> At(r, "rest") /\ ~slot[r].held
=============================================================================
