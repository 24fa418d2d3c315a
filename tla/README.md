# CAOS: a verification project

CAOS turns the documents of a credit case into a reviewed, signed deliverable.
An analyst opens a case, admits sources, pins a run, and asks for it to be
executed; a worker drives the run through a route of modules, each of which is
one paid call to a model provider, judged and accepted or refused; approvers
release the run's gates and a deliverable is written, opined on, frozen and
filed. All durable state is in one PostgreSQL database (the *store*); documents
and answers are content-addressed blobs. Nothing else is shared: API processes
and workers meet only at the store's locks.

This directory holds TLA+ models of the parts in which that meeting is hard, the
TLC runs that check them, and TLAPS proofs about them. Paths below are relative
to the repository root; `caos/` is its Python package.

## 1. Inventory

### The parts that carry the concurrency, the money and the authority

| Component | State it keeps | Operations | Talks to | Hard behaviour |
|---|---|---|---|---|
| Run work queue `store/work.py` | `run_work`: state, lease token, expiry, cancel, requester, park reason | `enqueue_run`, `claim_run`, `require_lease` and its renewal, `release`, `stop`, `requeue_run`, `request_cancel`, `mark_work_done` | run lifecycle (same unit), commands, workers | leases that lapse under a live holder, cancel against claim, park against cancel, the per-actor cap |
| Worker loop `graph/worker.py` | a lease, the refusal its pass ended with | `work_once`, `_refused`, `_released`, `_settle`, `_forget` | queue, node execution, checkpointer | death at any point, a queue write that fails, a straggler writing after its run ended |
| Run lifecycle `store/runs.py`, `store/events.py` | `runs.status`, attempts, artifacts, `run_events` | start, `_transition` (complete, block, cancel), `start_attempt`, `accept_attempt` | queue, ledger, route | exactly one terminal move, one owner per node |
| Run commands `api/commands/execution.py` | none of their own | START, RETRY, CANCEL | governed commands, queue | a command that finds the run held and writes after it was let go |
| Call ledger and budget `store/outcomes.py`, `store/budget.py` | reservations, outcomes, refusals, owed-bill marks, the call hold | `reserve`, `call_hold`, `owe_bill`, `record_outcome`, `record_refusal`, replay queries | node execution | a paid call of minutes outliving lease, session or process; bills retried over cut sessions |
| Node execution `methodology/canonical.py`, `graph/runtime.py` | nothing durable | `execute_handoff`, `replay_billed`, `node_pass`, `run_route` | ledger, provider, blobs | which of call, replay, explain, re-attempt, stop comes next, from the ledger's word alone |
| Route engine and chain `graph/route.py`, `graph/build.py` | the pinned route; the position of a checkpoint thread | `resolve_route`, `dependency_order`, `frontier`, `_step`, `finish` | lifecycle, checkpointer | a stale position must neither lose a node nor run one twice |
| Checkpointer `graph/checkpoint.py` | LangGraph threads | write, read, delete | chain, worker | writes that no lease fences |
| Governed commands `store/commands.py`, `store/audit.py`, `store/members.py`, `store/cases.py`, `api/commands/*` | cases, members, audit chain, command receipts | open a case, grant, revoke, admit, withdraw; the envelope of every other command | every command | twins of one idempotency key, lost acknowledgements, standing lost between request and commit |
| Gates, sources, run inputs `store/gates.py`, `source_sets.py`, `run_inputs.py`, `routes.py` | source sets, pinned inputs, gate approvals | pin, approve, snapshot, withdraw | commands, lifecycle | an approval over a preview that has moved |
| Deliverable and filing `deliverable/` | revisions, opinions, freezes, filings | save, opine, freeze, file, verify | gates, audit | separate governed writes over one revision |
| Event stream `api/stream.py`, `api/events.py` | per-actor stream slots, a cursor of two sequences | connect, poll, disconnect | events, audit, members | rows appended between two reads, slots at their limit, standing revoked under a stream |
| Identity and edge `api/identity.py`, `api/edge.py` | what each token was answered, refusals, flights, permits, places in flight | look a token up, share a lookup, admit or turn away a request | the workspace, every request | a lookup on a thread that outlives it; a permit or place lost for the life of the process |
| Admission `api/commands/cases.py`, `evidence/ingest.py`, `blobs.py` | two slots, blobs, rows | take a body, extract, put, commit | governed commands | stalled bodies; a crash between a blob and the row that names it |
| Providers `models.py`, `provider.py`, `copilot.py` | nothing durable | send, wait out a limit, send again, read an ending; listen to a session | node execution | whether what failed was paid for, and may be sent again |
| Qualification `qualification/`, `api/commands/qualification.py` | snapshots, evidence, verdicts | perform a set, build its matrix, record, sign | runs, receipts | a flag an older release computed; two signatures at once |
| Store credential `store/lakebase.py` | the credential held, the time of the last refusal, one helper thread | hand out, mint, forget | every connection | a mint that hangs; a token forgotten while another waits |
| Rate decks `store/rate_decks.py`, `api/commands/rate_decks.py` | decks, their sequence, pins | save, pin at a run's creation | run creation, receipts | a run created while a deck is saved; a lock that queues everyone behind one holder |
| Book `store/book.py`, `api/commands/book.py`, `api/reads/book.py`, `model.py` | entries, live or withdrawn | add, withdraw, list, read a run's Model | runs, sources, members | a read of several statements under a grant that ends meanwhile; an add over figures another release computed |
| Readiness `api/health.py` | the last round's codes, probe threads, the last full pass | probe, publish, show | store, bundle, blobs, workspace | probes that never return; a round shown after its task ended |
| Console `frontend/src/app`, `sections` | what each view shows and of which read, what waits for Reload, the tail, a control's key | read, adopt, reload, refetch after a command, press | reads, the event stream, every command | answers out of order; a view that looks live and is not; a press repeated after an answer was lost |

What makes each correct, and where it is stated:

- queue and worker: one holder per run; the row and the status move together; an
  acknowledged cancel wins and is never parked; nothing is stranded (`RunQueue`);
- ledger: an answer is paid for once, judged once and accepted at most once; a
  call in flight keeps its node; the ceiling holds; nothing paid for is left
  unsettled (`CallLedger`);
- route: the order is topological and closed, a cycle is told from a chain
  (`Route`); a run ends for the reason its row says, and every node is accepted
  on the inputs its edges ask for (`RouteRun`);
- governed commands: a key buys one act; the chain alone accounts for members
  and sources; whoever is answered is answered for what it asked (`Governed`);
- authority: a node is accepted only on live sources, under gates that approvers
  of that moment released over exactly what the run pinned (`Authority`); the
  console offers what the commands would do (`Availability`);
- deliverable: what is filed is the newest revision, signed, frozen and filed by
  three people who are not its author, and is served for ever (`Deliverable`);
- stream: nothing at or before a browser's marker was skipped (`Stream`);
- identity and edge: one lookup per token, no answer older than it may be, what
  is counted is what is held, and every request ends (`Identity`, `Serving`);
- providers: a call is paid for once, is never charged less than it cost when it
  counts as an answer, and is sent again only if it was free (`Completion`,
  `Copilot`);
- qualification: a reviewer's word stands over runs that ended as their cases
  declared, once (`Qualification`);
- credential: one mint at a time, no token handed out that was forgotten or has
  run out, nobody with a live token waits (`Minting`);
- rate decks: a run pins the deck that is the latest when it commits, and waits
  for the lock end (`Decks`);
- book: an entry states what its adder was shown; a stranger is told the issuer's
  name and that run, and nothing else of the case (`Book`);
- readiness: nothing is shown that was last so too long ago, at the cost of one
  thread per probe (`Probes`);
- console: what stands on the screen without a mark is what the server has, never
  goes back, and goes when the reader's standing does (`Console`); presses of one
  body are one act until the reader is told otherwise (`Intents`).

### The rest

Pure transformations without shared state: methodology documents (handoff,
invocation, verification, bundle), calculators and forecasts, evidence extraction
and citation, rendering and packaging, wire shapes and the other read
endpoints. Around the system: migrations, scripts, vendored code.
`PROJECT.json` lists each of them with its files and why it is not modelled, and
the hazards of what is modelled, each at its line, with the properties that would
catch it going wrong.

## 2. Modules

| Module | Models | Composes or refines |
|---|---|---|
| `RunQueue` | queue, terminal transitions, queue commands, the worker's outer loop | implements `RunPromise` |
| `RunPromise` | what the queue promises of a run, without leases, tokens or clock | |
| `CallLedger` | one run's attempts: reserve, hold, call, bill, replay, judge, accept, explain, park | implements `LedgerPromise`; takes `RunQueue`'s `OneHolder` as given (`holder`) |
| `LedgerPromise` | what the ledger promises of an attempt, without workers, leases, locks or marks | |
| `Route` | `resolve_route` and `dependency_order` | |
| `RouteRun` | the walk of a pinned route by workers that lapse, crash and resume | takes its order from `Route` (`MCRouteRun` instantiates it); a paid attempt of `CallLedger` is one step |
| `Governed` | the receipt/audit/case-lock envelope with the five commands that write authority itself | |
| `Authority` | sources, source sets, pins, gates and their release, run commands, and the authority a worker reads before and after a call | the envelope is `Governed`'s, the lease `RunQueue`'s |
| `Availability` | what the console offers of those commands | extends `Authority` |
| `Deliverable` | save, sign, freeze, file, the reads that serve them and what the Report offers | the envelope is `Governed`'s |
| `Stream` | one browser's tail over two sequences | |
| `Serving` | what requests hold: places in flight, tail slots, admission slots, blobs and rows | the tail inside a slot is `Stream`'s |
| `Identity` | who a platform token is: caches, shared lookups, helper threads | |
| `Completion` | one gateway call of up to three sends | its end is an answer of `CallLedger` |
| `Copilot` | what one Copilot session's events make of a call | the same, for the other provider |
| `Qualification` | a set performed, its matrix, its snapshot, the verdicts | |
| `Minting` | the store's credential | |
| `Decks` | rate decks and the pin of a run | the run is `Authority`'s |
| `Probes` | the rounds behind readiness | |
| `Book` | the Book's entries and page, and the Model's read that serves and offers them | the envelope is `Governed`'s |
| `Console` | one section of the console over one document | its tail opens as `Stream`'s does, and tells what that would |
| `Intents` | one control's presses and the keys they are sent under | the server is `Governed`'s, a key buys one act |
| `RunQueueProofs`, `CallLedgerProofs`, `RouteRunProofs`, `GovernedProofs` | theorems about the four and `Route`, and that `RunQueue` implements `RunPromise`, `CallLedger` `LedgerPromise` | extend the module they prove about |
| `AuthorityProofs` | theorems about the commands and about what is offered of them | extends `Availability` |
| `ServicesProofs`, `RequestsProofs`, `ShownProofs` | theorems about `Deliverable` and the parts checked side by side | extend `MCServices` |
| `MC*` | instances for TLC | extend the module they check |

`MCServices` instantiates the parts from `Deliverable` to `Book` side by side:
`part` names the one a behaviour is of, the others stay as they began, and the
parts' variables share the names `x1` to `x11`. They share no state in the code
either; checking them in one run only saves runs. `MCRouteRun` puts
`Route` and `RouteRun` side by side too.

Operators beginning a comment with *Mutant* are deliberate faults of one
definition. They are not part of any specification; they show that the
properties notice.

### RunQueue

One step is one committed unit. Every unit on a run takes the case and run locks
first (`lock_run`) and `claim_run` locks the row it moves, so units on one run
serialise and one step per unit loses nothing. A worker's time between two units
is where the other sessions' steps interleave.

`status`, `state`, `token`, `cancel`, `requestedBy`, `requestedAt` are columns of
`runs` and `run_work`; `live` is "`lease_expires_at` is in the future"; `ended`
counts the run's terminal events, so that "ends once" can be said; `thread` says
whether the checkpointer has rows. `requestedAt` is a counter stamped by `Stamp`
for `now()`. A worker's `pc` follows `work_once`: idle, driving a pass, ended,
refused with a `code`, about to forget the thread. `StartRun`, `RetryRun`,
`CancelRun` are the commands; `DirectEnd` is a direct caller (`lease=None`) of a
run that was never queued; `Claim`, `Renew`, `EndHeld`, `FindEnded` the fenced
units; `RefuseFenced` what `require_running` refuses, `RefusePass` everything a
node's work can raise; `Settle*` the branches of `_refused` and `_released`;
`Expire` the lease of a holder that is gone, `Outlive` of one that is slow.
`Crash` also stands for a best-effort delete that fails.

### CallLedger

One run, attempts `<<node, ordinal>>`. `holder` replaces lease tokens: it is the
worker whose token matches the row, which is what `OneHolder` licenses. Which
node is ready is the route's business, so any node not accepted may be driven: a
superset of the code's behaviour. Money is in units of one call's price; a body,
a handle or a digest is only there or not there, as the kinds of an `outcome`.

The steps of a pass are the code's: `Look` reads the ledger and replays a billed
answer, refuses an unexplained charge or goes on; `Start` is `start_attempt` with
its refusals in their order; `Reserve`, `TakeHold` (`call_hold`, a session-level
advisory lock), `Check` (`check_call`), `Call`, `MarkOwed` (`owe_bill`, in a unit
of its own ahead of every try), `Record`, and `Reconnect` for the new session of
`_held_fresh`; then `Judge`, `Explain`, `Accept`, `Confirm`, `Block`, and
`Again`/`Leave` for what a refusal leads to. The session can be cut under the
call, the mark or the write (`CutCalling`, `CutBilling`), with the unit it was in
committed or not, which is also how a lost commit acknowledgement shows; its
backend may linger and keep the advisory lock (`ghost`) until `GhostEnds`. `Age`
and `MarkLapses` are `call_hold_seconds` and `BILL_OWED_SECONDS` passing; over a
call in flight they are disturbances, since the deadlines are chosen longer than
a call may last. `exposed` is a history variable: a disturbance took hold and mark
away under a call in flight. The properties promise nothing of an exposed call,
since the code does not.

### Route and RouteRun

`Route` is pure: a profile's edges, a pathway and whether the model extension is
asked for are chosen in `Init`, and one step resolves them. `Given` is Python's
`TopologicalSorter` round by round, each round sorted by stage and node id; it
gives the orders of the golden routes in `tests/parity/golden/routes`. It is
written as a recursive function so that the modules above it can be proved about.
The gate is taken to be on the pathway, as every catalog pathway has it.

`RouteRun` walks a route given as constants, of any shape that satisfies its
ASSUMEs (edges go forward in the order). `Frontier` is the engine's, recomputed
from the accepted attempts, the gate's readiness rows, the QA verdicts and named
objects. `Look` reads it outside the lock, `Accept` is a whole paid attempt with
the fence and the result, `Advance` is the checkpoint write, which no lease
fences, so `thread` may be ahead of or behind the holder's own position; `Claim`
may take the run over at any time. `Finish` and `BlockOn` end the run; `Leave`,
`Crash`, `Cancel`, `DropThread` are what `RunQueue` models in detail.

### Governed

A handler serves one request at a time: `Lookup` before the unit, then `Lock`
(prepare, case lock, standing under the lock, the twin check and the command's own
refusal), `Record` (the receipt's insert, which waits for a twin that has inserted
the key and not committed), and `Commit`, where the unit's writes, its event and
its receipt appear at once; `Twin` answers the receipt that was met. A unit's
uncommitted writes are invisible to others, so they are applied in `Commit`; what
a unit holds until then is its case (`Locked`) and its key (`Inserted`). `Fail` is
a fault anywhere before the commit, and `Commit` may also answer
`STORE_UNAVAILABLE`: the acknowledgement was lost. An event of the chain carries
the request that made it, as history: the code stores digests only. A case id is
drawn from a finite set in place of a fresh UUID; creating a case locks a row
nobody else can name, so only the receipt's key tells its twins apart.


### Authority and Availability

One case: its sources, the sets they are snapshot into, runs with their pin, their
gates and their place in the queue. A command is a unit: `Ask` begins it, `Commit`
decides under the case lock by `Answer`, the code's refusals in their order, and
applies it; `Abort` is a fault. `Show` is what an approver is shown of a gate, of
any run, at any earlier time; a release carries that preview, and nothing else
binds it. A pass `Read`s its authority, `Call`s for minutes, and `Accept`s or
`Complete`s in a unit (`CommitPass`) that reads it again. `SetStanding` stands for
every grant and revoke. `OneResolution` relates the three readers of a pin, which
pick among copies of one document by rules of their own (`Serving`, `Cited`,
`Gone`). `Availability` restates the console's checks from `availability.py`, a
second copy of the commands' order, so that the two can be compared.

### Deliverable

A run's revisions; `request` is what a person posts, on the revision and build
they were shown, and `Answer` the chain of refusals. `Drift` says what each build
makes of a draft: accepted, refused by its narrative rules, or not drawn. A filed
record keeps its row, its bytes, its events and the renderer and verifier in its
package; the reads prove it from these alone (`Receipted`, `Verified`). The head
is ordered by the time its unit began, which is before it waited for the lock, so
that `HeadIsLast` is not by construction.

### Stream and Serving

`Stream` takes one step per await of `case_tail`: what it read before the await is
in `tail`, and rows, standing and the connection change in between. `known` and
`between` are history: what the browser was told, and the rows a tail without a
marker cannot tell (section 5). `Serving` counts: each request's place, its tail's
slot with the parties that may still release it (`by`), the admission semaphore,
and an admission's order of blob, sync and row, with a crash that takes away
whatever was not synced.

### Identity

What runs on the loop between two awaits is one step; the leader's lookup is on a
worker thread, the round trip on a helper that may never end. Times are what is
left of them in ticks, and a thread that can run does so before time passes.

### Completion and Copilot

One call each. `Completion` is told an *end* of each send, whose fields are what
the client gives the host to read, with the gateway's own truth beside it: whether
a model worked, and what it bills. The code reads the one and the properties speak
of the other. `Copilot` hears session events in every order in which the runtime,
as `copilot.py` reads it, may send them.

### Qualification

A set is performed case by case, its runs moved on by others meanwhile (`Cancel`,
`Withdraw`); its matrix, record and flag are the recording release's. A signature
looks, writes, and may lose its answer and ask again under its key.

### Minting, Decks and Probes

`Minting` takes a step for each read of what another thread writes: a caller that
found a live token, one that waits for the lock, one that joins its helper.
`stirred` is history: what a waiter waited for was forgotten. `Decks` takes a step
per statement of the two units, with PostgreSQL's lock queue in `waiting`: granted
in the order of the requests. `told` is history. `Probes` takes a step per await of
a round and per thing a thread does; a reading is of one moment, and so is a pass
over the bundle's files, which takes some 70 ms.

### Book

A read of the Model is its statements one by one (`Visible` to `Offer`); an add or a
withdrawal is one step, since its case's lock is held from its first check. What a
release computes of a run is a constant (`Computes`), different by release and absent
where it has no grid; a digest is what it is a digest of. The page is one statement, a
function of the entries. `reviewed` is history: the figures the adder was shown.

### Console and Intents

`Console` takes a step per request served and per answer taken. `held` is the
Workspace's state, with the numbers of the reads it came from, which the code keeps
beside it or in the closures of its promises; `view` is the section's own copy
(`useDocumentRefetch`), taken or left by `Rendered` at each render. The document's
`v` counts the server's changes; its `id` is what tells Reload from replacement.
`server.remounts` chooses, for a behaviour, between a view remounted with its
identity (Report, Committee) and one that stays (Model). `older` is history: a
Reload put on screen a document that a later read had overtaken (section 5).
The tail opens in two steps, as `case_tail`'s response does: `Open` is the browser's
event and its refetch, `ReadHeads` the tail's read after it, and `SendCursor` the
first frame, which gives the browser its marker (`marked`). A change while the tail
is `opened` and without a marker is told by nobody; `untold` is history and says
that one fell there after the latest read was served (section 5).
`Intents` keeps the refs of `useCommand`; requests stay under way after the browser
has given up on them. `run` and `misled` are history: the keys pressed for one body
since the reader was last told, and whether one of the answers was a refusal that
had not looked, or looked before an earlier request came.

## 3. Runs

| Run | Instance | Shows |
|---|---|---|
| `queue_safety` | 2 runs, 2 workers, 2 actors, cap 1, 3 disturbances | `TypeOK`, `RowMatchesStatus`, `PlacesWithinCap`, `CancelWins`, and that `RunQueue` implements `RunPromise` (`KeepsPromise`) |
| `queue_liveness` | 2 runs, 2 workers, 1 actor, 2 disturbances, fair | `QueueMoves`: a cancel ends its run, and nothing is stranded |
| `straggler` | nobody crashes and every queue write is taken | violates `StragglerForgotten`: section 5 |
| `ledger_safety` | 2 nodes, 2 workers, 3 attempts, ceiling of 3 calls, 3 disturbances, all seven ways a call ends, combined as `Combined` says | `CallerAlone`, `PaidOnce`, `DropsBounded`, `WithinCeiling` |
| `ledger_liveness` | 1 node, 2 workers, 2 attempts, 1 disturbance, all seven ways a call ends, fair | `CallsSettle`: what was paid for is settled, and nothing keeps its node for ever; and that `CallLedger` implements `LedgerPromise` (`KeepsLedger`) |
| `route` | every profile of 4 modules and pathway of up to 3, or the walk of 5 nodes: gate, soft input, QA gate, named object; 2 workers | `ResolvedSound`; `EndedForReason`, `AcceptedOnItsInputs` |
| `governed` | 2 requests at once out of all commands of 2 users with shared keys on 2 cases, fair | `HistoryExplains`, `OnceUnderAKey`, `AnswerStands`, `EveryoneAnswered` |
| `authority` | 2 people, 2 copies of one document, 3 runs, a disturbance, combined as `Combined` says (about 560 000 states) | `ReleasedAsShown`, `OneResolution`, `ConcludedUnderAuthority`, `SuccessorsInLine`, `PinStands` |
| `authority_liveness` | 1 person, 1 run, 2 sources, workers of 2 builds, a disturbance, fair | `WithdrawnRests`, `OfferedIsAnswered` |
| `services` | thirteen parts side by side (about 1.5 M states together) | `HeadServes`, `FilingSound`, `FiledAsProven` of `Deliverable`; `PagesSound` (`ReportOffered` of `Deliverable`, `BookSound` of `Book`); `TailSound`, `ServingSound`, `IdentitySound`, `CallsSound`, `QualificationSound`, `HandedOutSound` (`Minting`, `Decks`, `Probes`), `ConsoleSound`, `NeverBack` of the others |
| `unfileable_head` | the same deliverables | violates `UnfileableSuperseded`: section 5 |
| `services_liveness` | stream, identity, serving, decks and console, fair | `TailLive`: every row is told and a revoked watcher let go; `RequestsEnd`: a lookup, an upload and a lock's wait end, and a view whose reader lost the standing goes |

A property named *Sound* is the conjunction of the named parts its module states.
Each property has a mutant in `PROJECT.json` that violates it.


### Bounds

A bound is enough when both sides of every limit are met and everyone who can race
is there at once.

- *Two workers and two runs* (queue): every race is between a holder and one that
  replaced it on one run; the second run is there for the cap and for the claim's
  order. The proofs remove both bounds for safety.
- *`MaxFaults`, `MaxCrashes`* count disturbances: crashes, lapses under a live
  holder, cuts, store faults, refusals a pass meets. Three let a run be lost, taken
  over and lost again while a late bill is still being written; elsewhere one or
  two, since a second undoes nothing the first has not.
- *`MaxQueued = 1`* (the code's cap is larger): the limit must be met. So with the
  capacities of `Identity` (1 flight, 2 waiters), `Serving` (3 in flight, 2 tails,
  1 per watcher, 1 admission) and the retries of `CallLedger` (`GuidedRetries` 1
  for 3, `BillTries` 2 for 3).
- *`MaxOrdinal`* 2 or 3 for `MAX_ATTEMPT_ORDINAL` 256: two show every relation
  between an attempt and the next, three a drop, its re-attempt and one beyond it.
- *`Ceiling = 3`*: two nodes with two attempts cannot all be paid from it.
- *Four modules, pathways of three*: cycles of two and three, chains of every node,
  a pathway without the extension's owner, repeated modules, stages against the
  order of the edges.
- *Two handlers* (governed): a twin and its other; a case, a key and a third
  party's revoke come between two requests of any number by being served in
  between.
- *Two revisions, three people or one revision, four people* (deliverable): author,
  signer, freezer and filer must differ, and a head must be superseded. Two builds
  and three drafts give every combination of accepted, refused and not drawn.
- *Ticks* (`Identity`, `Serving`, `Completion`, `Minting`, `Decks`, `Probes`):
  deadlines of one to four ticks that keep the order the code's have among
  themselves: a lookup's deadline below the caches' lives, a body's below the
  slot's, a probe's and the interval's sum below the staleness, one credential's
  life above the refusal's memory and one that is over when it arrives.
- *Three callers, two tokens* (minting): a mint, a waiter, and one that comes after
  what they wait for was forgotten. *Three units, two keys, two rates* (decks): a
  save, its twin and a creation of a run.
- *Three runs, two people* (authority): one run can have two successors, a line can
  be three long, and both people can ask for the successor of one run at once.
- *Three rows, pages of two* (stream): a full page, a short one, rows of both
  sequences on either side of the marker.
- *Six events* (Copilot), each of the kinds in `Twice` up to twice. *Sets of one
  and two cases, two releases, two signers* (qualification).
- *Two runs and one of another case, two releases, two copies* (book): a displayed
  entry, one of history and one cut; one copy withdrawn leaves the other; a release
  without a grid.
- *Two changes, one command's read, one failure* (console): a read can be overtaken
  by either kind of the other, and an identity can change, change again, and wait
  for Reload meanwhile. *Three presses of two bodies* (intents): a press, its retry,
  and one that may be taken for either.

Three runs leave out combinations, each by the state constraint of its MC module
(`Combined`, `Narrowed`), because together they are beyond a run of minutes:

- `MCCallLedger`: three disturbances only while calls end well, one with calls that
  end as they may; a third attempt only after drops; a second node only undisturbed.
- `MCAuthority`: a second copy with a second person, or a second run, or a
  disturbance. A third run, and a second person beside several runs, only where a run
  has blocked, of one copy, and every run that has not blocked is still to be pinned
  (`Answering`): there each of them may answer each of the blocked ones.
- `MCServices`: the fourth person only while there is one revision, and people in
  the order of their numbers, which nothing else tells apart; a sixth Copilot event
  only if it ends the session; two disturbances of a tail over two rows or fewer; a
  fourth request as a watcher and without a crash; a second signature over a set
  entered once; a standing lost after at most one change; of the Book, what the
  comment at `Narrowed` lists.

Symmetry of workers, actors, nodes, users or runs is used in `queue_safety`,
`ledger_safety`, `route`, `authority` and `services` (callers and tokens), never
with a liveness property. Deadlock
is checked in `governed`, `authority` and `authority_liveness`, where somebody can
always move; elsewhere the system may rest (a run parked with no command coming, a
call that has ended).

### Fairness

Fairness is only of what the code's scheduling guarantees, and nothing is assumed
of commands, clients, crashes or any other disturbance.

- `RunQueue`, `CallLedger`: weak. Workers poll (`Claim`); a pass ends, since every
  provider call has a deadline, every store statement a timeout, a bill a number of
  tries, and a route finitely many nodes; clocks run (`Expire`, `MarkLapses`) and
  the backend of a cut session ends (`GhostEnds`).
- `Governed`: the lock and the key's wait are granted by PostgreSQL's queues, so a
  request that waits for them is not overtaken for ever: strong fairness of `Lock`
  and `Record`, whose guards others switch off and on again; weak for the rest.
- `Authority`: weak for units that have begun, lapses, claims and calls; strong for
  a worker's drive of its run, which commands may interrupt and which a poll always
  tries again.
- `Stream`, `Identity`, `Serving`, `Decks`: time passes, a thread that can run runs,
  the server takes its own steps (the tail's, `Serve`, `Collect`, a wait's
  `GiveUp`). A helper inside a round trip may never end; the deadlines are what
  ends the wait for it.
- `Console`: requests are answered (`Serve`, `Arrive`), the stream's events arrive
  (`Deliver`), a closed one reconnects (`Reconnect`, a timer) or is refused
  (`Refuse`), and the server drops the stream of a reader whose standing is gone,
  as `TailLive` shows. Nothing is assumed of the reader, who may never press
  Reload or Retry.
- `Minting` states no liveness: its lock is a `threading.Lock`, which does not
  promise a waiter its turn.

## 4. Proofs

All theorems hold for every value of the constants allowed by the named ASSUMEs of
the module (for `Route`, by `Catalogued`, which `MCRouteRun` assumes of its
instance): any finite set of runs or nodes, any sets of workers, users, cases,
requests, sources, builds and drafts, any catalog, any route with forward edges, any
cap, ceiling and number of disturbances. What they assume is what the code or the
store's schema says: sources and users are numbered, a bound is a natural number, and
what stands for *nothing* is none of the things it could be taken for (`Fresh`,
`NoneIsNothing`, `NoneIsNoRow`, ...). Of the parts side by side: a call's times are
numbers and what its fence reads takes half of its timeout at most, where the code
allows a call 720 seconds and a statement 30 (`CallTimesAreNumbers`); the times of
tokens, decks and probes are numbers, and a minted token and a refusal last a tick or
more (`HandedOutIsTimed`); the console's changes have a bound (`ConsoleIsBounded`);
and runs have dates and issuers, and the entries from before list a run once
(`BookIsOfRuns`).

Every state invariant of every run is proved, and every action property: `CancelWins`,
`KeepsPromise`, `KeepsLedger`, `PinStands`, `ConcludedUnderAuthority`, `FiledAsProven`,
`NeverBack`.
A few results are of no run (`OneFate`, `OneHolder`, `EndedOnce`, `CancelNeverParked`,
`LiveClaimIsHolders`, `AcceptedFromFrontier`): what the others rest on, or follow from.

- **`RunQueueProofs`**: `TypeOK`, `OneHolder`, `RowMatchesStatus`, `EndedOnce`,
  `CancelNeverParked`, `PlacesWithinCap`, and the action properties `CancelWins`
  and `LiveClaimIsHolders`. One
  holder follows because a worker's token is never ahead of its run's, and two
  workers never have the same token on one run; a claim takes the next one.
  `CancelNeverParked` needs `RowMatchesStatus` (a parked row is of a running run)
  beside it. The cap counts a finite set: its proof is by the cardinality of the
  set a start or retry extends by one.
- **`PromiseKept`** (`RunQueueProofs`): `Spec => KeepsPromise`. A run's owner is the worker whose
  token matches its row, so a claim is `Take`, a release, a park, a crash or a
  forgotten lease of the holder `Leave`, a terminal move `End`, a cancel `Ask` or
  `AskAndEnd`, and a lapse, a renewal, a retry or a stale worker's settling a
  stutter. It rests on the token invariant (a claim's new token unseats whoever
  had the run) and on the row matching the status.
- **`CallLedgerProofs`**: `TypeOK`, `CallerAlone`, `PaidOnce`, `OneFate`,
  `DropsBounded`, `WithinCeiling`. An attempt has one caller, who alone writes its
  reservation and its bill. Until the bill is in, the call is covered by its lock, by
  its young reservation or by its live mark, unless a disturbance took the cover
  (`exposed`), and each of the three refuses a start at the node (`HeldElsewhere`,
  `BillOwed`). So an answer always arrives at its node's newest attempt: a charge that
  is owed a verdict is the newest one and refuses the start that would pay again, and
  the drop that spends the re-attempt is the newest one and refuses the next
  (`DropStopOwed`). What is committed is a fold over the attempts; that a reservation
  adds its price to it, and that what a bill does to it is its difference, is proved by
  induction over the finite set of attempts.
- **`LedgerPromiseKept`** (`CallLedgerProofs`): `Spec => KeepsLedger`. An attempt's fate
  is read off its rows and its caller (`FateOf`): begun (`open`), called for (`out`), given
  up unbilled (`dark`), billed as `free`, `lost` or `paid`, and then `refused` or
  `accepted`. A step of a worker moves the fate of the attempt it stands at or starts, and
  no other (`OthersFates`): a start is `Try`, `check_call` is `CallOut`, the row of the
  bill is `Bill`, a refusal, crash or fault before it is `GiveUp`, `record_refusal` is
  `Refuse`, `accept_attempt` is `Accept`, an end `End`, and a cut or the clock `Loosen`.
  The guards are what is worth the proof: a node is tried only when nothing at it is paid
  and undecided, lost or accepted, and no call is out but one left uncovered (the ledger's
  refusals and `CallCovered`); only the newest attempt is called for (`HolderNewest`); a
  verdict is reached once, in a running run, from `paid` (`HolderSettles`); and a run is
  blocked only on an answer that is paid and undecided. Two facts join the invariant for
  it: who explains or blocks does so of an answer that was read (`Deciding`), and nothing
  else was ever explained (`ExplainedRead`). `LedgerPromise` bounds neither what is
  uncovered nor how often: that only a disturbance uncovers a call is `CallerAlone`'s.
- **`RouteRunProofs`**: `TypeOK`, `EndedForReason`, `AcceptedOnItsInputs`,
  `AcceptedFromFrontier`. `EndedForReason` is not inductive: that `finish` finds
  no runnable node left behind depends on every position any worker or thread
  carries. The strengthening is that *nothing behind a position may run*
  (`BehindThread`, `BehindWorkers`, `BehindSteps`), and it is preserved because
  accepting a node only ever unblocks nodes further on in the order, and the
  gate's verdict, which can also unblock, comes before all it speaks of
  (`GateFirst`, `SilentUntilGate`). `HolderRuns` carries the frontier read made
  before the call over to the acceptance after it: in between nobody but the
  holder accepts.
  `ResolvedSound` is of `Route`. Its recursions are spelled out round by round:
  what the sorter has given out grows and is closed under sources (`Rounds`), and
  after as many rounds as there are nodes it can grow no more, since each round that
  is not the last adds a node (`Saturated`). What is left then is a set in which each
  has a source of its own, and no member of such a set is ever given out: that is
  `CycleRefused`. A round listed after those before it comes behind all its sources
  (`Continues`), which is `OrderSound`; that a round can be sorted at all is by
  counting, for each node, those before it (`Listable`).
- **`GovernedProofs`**: `TypeOK`, `OnceUnderAKey`, `AnswerStands`, `HistoryExplains`.
  The
  strengthening is that a unit about to commit is the only one that has inserted
  its key (`InsertedAlone`) and that no receipt is committed under it
  (`Unbought`); from these the commit adds one receipt and one event that no other
  has the key of. That a case is held by one unit at a time, for cases that exist
  and for ones being made, is part of the type invariant.
  `HistoryExplains` is a fold over a case's chain, proved to be its own recursion
  (`HistoryIs`) and to go one event further with each event (`HistoryGrows`). The event
  a commit appends was decided some steps earlier, by the standing and the rows of that
  moment; that they still are those of the commit (`Decided`) is because the case is
  held from the one to the other.
- **`AuthorityProofs`**: `TypeOK`, `SuccessorsInLine`, `PinStands`, `ReleasedAsShown`,
  `ConcludedUnderAuthority`, `OneResolution`, `OfferedIsAnswered`. A unit decides under
  the case lock and commits later; `Due` is what each decision consists of, and that it
  still stands at the commit is the inductive invariant, for every command and for a
  pass that accepts or completes. All it reads is moved under the lock alone, but for
  the queue's row: a claim takes it without the case's lock, and skips a run whose row
  a unit has locked (`RowLocked`, the `SKIP LOCKED` of `claim_run`). `OneResolution`
  and `OfferedIsAnswered` compare definitions that the code states twice, in different
  words: the readers of a pin, and the console's checks with the command's.
- **`ServicesProofs`**: `TailSound`, for any number of rows, any page and any number of
  faults. The inductive invariant `TailInv` says of three places in the two logs, the
  browser's marker, the tail's cursor and, while a frame is out, the place before its
  row, that every named row up to them was told (`Covered`); that the rows of a poll are
  the next ones after that place, the case's and then the run's, none beyond the run's
  terminal (`Chained`); and that a standing was judged since the last frame. The logs
  only grow and what was told stays told, so what others do leaves all of it
  (`TailStays`); a silent row, a frame and a page move a place by one row or none. A
  behaviour of the run is one part's, which is how a theorem about the part is one about
  the run (`StreamPart`).
  `QualificationSound`, for any set of cases, any releases, any requests to sign. The
  inductive invariant `WordInv` says that a matrix is built over runs that all ended, with
  rows that one of the releases would have met of those runs (`Faithful`), in the hands
  and in every snapshot; and that every word, and every request between its look and its
  write, is over a snapshot that may be signed at its date (`Endorsed`). A run that ended
  stays as it is, but for its sources (`RunsKept`), so a snapshot stays signable once it
  was; that a signature in flight may rely on what it read is this. One word per snapshot
  and one receipt per word are by the two finite sets growing together.
  `CallsSound`, for any sessions, timeouts and tries. Of a gateway call
  (`CompletionInv`): only a send whose thread is gone and that no model worked on is
  followed by another, since a rate limit is all that is sent again and the fence is
  waited out from the answer; so one send at most was paid, and what is read is the last
  send's end (`LastEnd`). Of a Copilot session (`CopilotInv`): until it is judged, it has
  told of all that runs in it and all it has cost (`WorkTold`): the dispatches open after
  its events are the agents running, and work that cost is by an event that names its
  model or is no quiet one. A checkpoint of the main agent's work, taken at rest and with
  nothing but the settling after it, is therefore of the whole cost (`CheckpointTrue`).
  The dispatches open after an event are a recursive function over the log (`OpenAfter`),
  whose equation is proved by induction over the events.
- **`RequestsProofs`**: `ServingSound`, for any requests, watchers and limits. Each
  counter is the cardinality of what is out (`CountsTrue`, `SlotsTrue`), and a step that
  moves one moves the other (`CountsMove`, `SlotsMove`). A slot that is held
  always has its collector left to let it go (`Collectable`), whoever else could have. A
  pack is at its address before it is synced and synced before its row (`UploadsTrue`),
  and only a crash takes back what was not.
  `IdentitySound`, for any callers, tokens and times. `IdentityInv` says that a lead and
  its flight name each other (`Flights`), which is why closing a flight leaves no other
  lead without one; that a helper is of one request that waits for it, or of nobody once
  abandoned (`Helpers`); and that the age of an answer and the time its helper has left
  are a deadline at most, so that what is heard in time is younger than that (`Ages`),
  and what is served of it younger than a cache's time more. That a refusal is
  remembered is with the book's size (`DenyKeeps`): it takes one more, or it is full.
  `ConsoleSound` and `NeverBack`, for any changes, reads, faults and presses. `ConsoleInv`
  numbers the reads: what waits for a Reload is of a later read than what is shown, and a
  read under way is later than what was taken (`Numbered`). The latest read is of what the
  server has, or the stream has something to say, or a flight is to be flown again
  (`LatestTrue`); so when nothing is on its way, what is shown unmarked is the server's.
  Nothing left to say (`Still`) is from the open on, before the heads are read, and but
  for `untold`: a change there leaves the latest read true if it is still to be served or
  another follows it (`Coming`), is news if the browser has a marker, and is else what
  the property excepts, as it does what `older` records.
  That the view goes back on nothing needs the same of what is not shown yet (`Forward`):
  the latest read under way, and what waits and is later than the view's own, are of no
  earlier a document than the view's. `IntentsInv`: while nothing misled the control it
  keeps to one key, and to none once it was told (`KeepsTheKey`), and a key buys one act.
- **`ShownProofs`**: of `Deliverable`, `TypeOK`, `FilingSound`, `FiledAsProven`, `HeadServes`,
  `ReportOffered`. A save is stamped when its unit begins and inserted when it has the
  lock. That the stamps are in the order of the inserts, so that the head is the last
  revision saved, is because a draft names the head it replaces, and that was saved
  before the draft's unit began (`Posted`). Nothing writes a filed row again, so what a
  receipt was proved from, it stays proved from. The way forward of `HeadServes` is by
  cases: an unfrozen head is signed, a frozen one that re-proves is filed, and
  otherwise a draft is saved over it.
  `PagesSound` of the Book, for any runs, dates, issuers, releases and bounds. The page
  is a function of the entries: an issuer's are in one order, live ones first and then the
  later (`LaterOrders`), of which there is one first, live since the issuer is served
  (`ShownIsOne`); what the history leaves out is behind all of it, and then there are
  more entries than it may hold (`HistoryIsNewest`), by counting those above an entry.
  What a Model offers and tells rests on its read (`BookInv`): the status it read and
  what was accepted by then are final (`ReadsLast`), since a complete run takes no more
  artifacts; its digest is of what it shows (`DigestShown`), so that an entry added with
  it has the figures its adder was shown, whichever release answers; and a grant is of a
  run the Book listed, which stays listed when it is withdrawn (`GrantOfEntry`).
  `HandedOutSound`, for any callers, units, keys, times and lives. What is handed out is
  as old as the step before left it plus what that step may take. Probes (`ProbesInv`): a
  round is one clock, whose waits began together and end with their deadline (`OneClock`),
  so what is shown as OK was so within a deadline, the trust in a pass over files and its
  own age (`OKLately`). Decks (`DecksInv`): who saves holds the lock alone and who starts
  runs holds it with none that saves (`Exclusive`), so the deck read under it is the
  latest until the pin commits, and a row's number is above all that are committed
  (`WrittenSoFar`); a deck and its receipt are of one commit. Tokens (`MintingInv`): one
  caller is in the middle of minting, but for those that passed it (`OneMinter`); the
  server takes a token longer than it is held, from before it is read (`TakenLonger`);
  and who waits is let go by the end of the mint it waits for, or finds it done or
  refused (`OneMintLong`).

Only model-checked: `QueueMoves`, `CallsSettle`, `EveryoneAnswered`, `WithdrawnRests`,
`TailLive` and `RequestsEnd`, which promise an end under fairness: the prover reaches no
ENABLED and no fairness of an action. A fold or a recursive function over
a finite set is within reach, as above, by spelling out its equation and by an induction
stated of sets; the library's induction theorems, stated of operators, are not used.

## 5. What was found

`straggler`: when a pass is stopped by a store fault that reaches the worker as the
refusal `STORE_UNAVAILABLE`, `_refused` gives the claim back and raises before
`_forget` (`caos/graph/worker.py:392`). If a cancel ended the run meanwhile and the
straggler wrote a checkpoint after that, the ended run's thread is left for good.
The comment at `worker.py:296-299` and the docstring of
`test_a_straggler_is_forgotten_when_the_pass_stops_or_its_store_faults` say such a
straggler is forgotten; that holds of the fault as a database error (`_released`),
not of the same fault once a unit has turned it into a refusal. The leftover is
storage, not behaviour: `RouteRun` shows that no thread, however stale, changes how
a run ends.

`unfileable_head`: `_fileable` (`caos/api/commands/deliverable.py:186`) says of a
frozen head that no longer re-proves, a cited source withdrawn among the reasons,
that it "takes a draft that supersedes it". After a cited source is withdrawn the
save of any draft derives the same accepted artifacts and is refused
`EVIDENCE_NOT_AVAILABLE`: such a run's deliverable can be neither filed nor
superseded.

Met while modelling, and no run's subject:

- *What the console offers.* `availability.py:3` promises each command's checks in
  the order the command makes them. A cancel is withheld as
  `RUN_CANCEL_REQUESTED` after the claim's lease lapsed, when the command would end
  the run; a filing is judged on its re-proof last, while the command re-proves
  first (`api/commands/deliverable.py:443`) and so answers an approver who is not
  independent with the narrative's refusal.
- *The stream's first page.* On a connection without a marker, a row committed
  between the read that the console makes when the stream opens and the tail's read
  of the heads is told by neither: the view stays as it was, unmarked, until the next
  event, read or reconnect. The console's comment says "every open refetches, because
  events between the document read and the stream's head are not replayed"
  (`sse.ts:23-24`), and `parse_marker` starts at the heads because "the browser
  refetches its documents on every `open` anyway" (`caos/api/events.py:91`); but the
  heads are read after the open (`caos/api/stream.py:229`). `Stream.between` records
  these rows and `TailSound` excepts them; `Console.untold` records that the shown
  document misses one, and `QuietIsCurrent` excepts it.
- *A role outlives its grant* by the cache's seconds, as decision F13 says, and a
  lookup's deadline more.
- *Slots.* A comment in `stream.py:66-77` speaks of a concurrency limit of 32 with
  eight slots left for requests; `edge.py` sets `STREAM_LIMIT` and 40.
- *A new shard.* `_sync_directory` (`blobs.py`) does not sync the entry of a newly
  made shard in its parent; `Serving` assumes that shards exist.
- *A blank answer* whose output count is absent is charged no output:
  `BilledTruly` says "not more than it cost", and equality only of what counts as an
  answer.
- *Qualification.* A snapshot of an earlier release that met a blocked hand-off by
  its status alone stays signable; the read shows only the latest decision of each
  model.
- *Mints.* `note_connect_failure` with nothing held, or racing another's mint,
  clears `_REFUSED_UNTIL` (`lakebase.py:159`), so every connection then in flight
  that fails allows one more mint, against MAX-03's one per `FAILURE_SECONDS`. A
  waiter may wait for another's mint and then make its own, longer than
  `MINT_SECONDS`, "the most any caller waits on a mint" (`lakebase.py:70`):
  `WaitsOneMint` excepts a waiter whose mint was forgotten meanwhile.
- *Readiness.* A probe thread that cannot be started raises out of the round and
  ends `probe_loop` for the life of the process (`StartFails`); readiness then says
  so by its age, and only a restart ends it. A file pass stamps its trust when it
  ends: one that hung would be trusted from its end and not from what it read.

- *Reload.* `adopt` holds a document of another identity for Reload and an
  unanswered refetch says that the view is no longer live. Reload takes the waiting
  document and clears that mark; if a read by a command came after it and showed a
  newer one, Reload puts the older on screen (`Workspace.tsx:175`), against "A later
  request supersedes earlier reads" (`useDocumentRefetch.ts:12`). A view that Reload
  remounts loses its command's read, and the Workspace's read which that read
  superseded was already dropped, so neither arrives. The next event or reconnect
  repairs both. `QuietIsCurrent` and `NeverBack` except what `older` records.
- *A transient refusal that settles.* `IN_DOUBT`, "the server's transient refusals
  (`TRANSIENT` in `caos/api/app.py`)" (`controls.tsx:127`), leaves out
  `CONCURRENCY_LIMIT_REACHED`, which `app.py:168` answers with 503 and which the
  edge and an admission answer before any receipt is read. A press whose answer was
  lost, retried under its key and so refused, settles the intent; the next press
  draws a new key and does the act again. So does a refusal given while the first
  request is still on its way. `OneAct` excepts what `misled` records.

Two things that look like gaps and are decisions of the code, modelled as such: a
charge with no generation handle is not owed a replay
(`tests/test_postgres_races.py:2299`, decision F11), and an administrator may
revoke their own standing and leave a case without one
(`caos/api/commands/members.py`).

## 6. Not modelled

Whole parts: methodology documents (hand-off, invocation, verification, bundle),
the calculators and forecasts, evidence extraction and citation, packaging and
rendering, wire shapes and read endpoints. They are pure functions from documents
to documents, without state, of long tables of field rules: what they decide is a
nondeterministic input of the models above, and a model of what they compute would
say again what their code says. They are also most of the package's lines, which is
why the modules stand for a seventh of them. The gateway and the Copilot runtime
are external, and modelled by what `completion` and `copilot.py` read of them.

Inside the modelled parts:

- Rows written before migration 0012 and their replay; `CALL_OUTCOME_CONFLICT`
  (a second, different bill of one attempt); the re-checks of `_execution_route`;
  `RUN_TERMINAL_STALE`; direct callers of `governed_write`.
- The recursion bound of `_with_second_attempt`'s frames: the ledger's own bounds
  are tighter and are what the model keeps. A standing refusal over the ceiling
  parks the run whatever its code, as does `BUDGET_CEILING_REACHED`.
- The audit chain's digests, receipts' bodies, and `after_event`; admission's
  earlier `_peek`, which is folded into `Lookup`. A request of a stranger is
  dropped without an answer: the private 404 changes nothing.
- `Ask` reads the standing at request time and at once; only `Lock`'s read counts.
- The provider factory, its prices and ceilings; Copilot's `_settled`, which
  `Completion` leaves to `Copilot`.
- What each key's reader computes of a hand-off, a set's digest and admission, and
  the release pack; a reviewer's re-send is assumed to come within the time
  `InTime` allows it.
- The identity headers' rules and the mapping of groups to roles.
- Migrations, schema checks, the checkpointer's set-up; a book entry's
  classification and a deck's rate digest; heartbeats.
- The console's navigation between sections, the Book's bindings of compared cases,
  drafts, rendering and the parsing of documents.
- Process boot, and the drain on shutdown, which is a `Crash` or an interrupted
  pass.

## 7. Plan

Done: the modules of section 2 and the proofs of section 4. Next: the set-up of a
store, its migrations under a polled advisory lock, and an index left invalid by a
concurrent build that was cut.
