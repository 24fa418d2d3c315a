------------------------------ MODULE MCServices ------------------------------
(***************************************************************************)
(* The parts that share no state with the run queue or with one another,   *)
(* checked side by side: a behaviour is one part's, and leaves the others' *)
(* variables as they began.                                                *)
(***************************************************************************)
EXTENDS MCDeliverable, TLC

CONSTANTS
    Parts,      \* the parts a run checks
    MaxRows, Page, MaxFaults,
    Callers, Tokens, CacheTicks, NegativeTicks, DeadlineTicks, SharedTicks, WaitingLimit, Capacity, Nobody,
    r1, r2, r3, t1, t2,
    MaxEvents, Twice, MaxWork,
    Asks, Watcher, InFlightLimit, StreamLimit, WatcherLimit, AdmissionSlots, BodyTicks, SlotTicks,
    Keys, Packs, MaxCrashes,
    Timeout, Tries, WaitCap, FenceTicks,
    Sets, Askers, Releases, Signs, Stands, Performs, MaxTime,
    TokenTicks, MintTicks, FailureTicks, Lives, MaxTokens,
    Units, DeckKeys, Rates, LockTicks, MaxDraws,
    IntervalTicks, ProbeTicks, StaleTicks, FilesTicks,
    MaxChanges, MaxReads, MaxMissed, Sayings, MaxPresses, MaxBusy,
    Case, LatestRun, Dated, Issuer, Copies, Cited, Builds, Computes(_, _),
    Accepted, History, Issuers, Published, NoGrid

\* Sizes and times are numbers, and a request, a token or a pack is not its absence.
ASSUME PageIsANumber == Page \in Nat
ASSUME IdentityIsBounded ==
    /\ IsFiniteSet(Callers) /\ IsFiniteSet(Tokens) /\ Nobody \notin Callers
    /\ {CacheTicks, NegativeTicks, DeadlineTicks, SharedTicks, WaitingLimit, Capacity} \subseteq Nat
    /\ NegativeTicks > 0
ASSUME SetsAreOfKinds == Sets \subseteq Seq({"cites", "refusal", "blocked"}) \ {<<>>}
ASSUME CallTimesAreNumbers ==
    {Timeout, Tries, WaitCap, FenceTicks} \subseteq Nat /\ FenceTicks <= Timeout \div 2
ASSUME HandedOutIsTimed ==
    /\ {TokenTicks, MintTicks, FailureTicks, MaxTokens, LockTicks} \subseteq Nat /\ Lives \subseteq Nat
    /\ TokenTicks > 0 /\ FailureTicks > 0
    /\ {IntervalTicks, ProbeTicks, StaleTicks, FilesTicks} \subseteq Nat
ASSUME ConsoleIsBounded == MaxChanges \in Nat
ASSUME BookIsOfRuns ==
    /\ LatestRun \in DOMAIN Case /\ {Dated, Issuer} \subseteq [DOMAIN Case -> Nat]
    /\ {Accepted, History, Issuers} \subseteq Nat /\ Builds # {}
    /\ Published \subseteq
        Seq([run : DOMAIN Case, live : BOOLEAN, figures : {NoGrid}, reviewed : {NoGrid}])
    /\ \A old \in Published : \A i, j \in DOMAIN old : old[i].run = old[j].run => i = j
ASSUME ServingIsBounded ==
    /\ IsFiniteSet(Asks) /\ "none" \notin Packs
    /\ {StreamLimit, WatcherLimit, AdmissionSlots, BodyTicks, SlotTicks} \subseteq Nat

\* Whose each request is: the first two are one watcher's.
MCWatcher == [r \in Asks |-> IF r = 2 THEN 1 ELSE r]

\* A run's sets of cases, and who asks for a signature, each under its own first key.
MCSets == {<<"cites">>, <<"refusal">>, <<"blocked">>, <<"cites", "refusal">>}
MCAskers == {[reviewer |-> "a", key |-> 1], [reviewer |-> "b", key |-> 1]}

\* Two runs of the case that is read and one of another, all of one issuer; a second release
\* has no figures for the second; the third may be in the Book from before.
MCCase == <<1, 1, 2>>
MCDated == <<2, 1, 1>>
MCIssuer == <<1, 1, 1>>
MCCopies == [d \in {"cited"} |-> {1, 2}]
MCComputes(b, r) == IF b = 2 /\ r = 2 THEN NoGrid ELSE b
MCPublished ==
    {<<>>} \cup {<<[run |-> 3, live |-> l, figures |-> NoGrid, reviewed |-> NoGrid]>> : l \in BOOLEAN}

VARIABLES part, x1, x2, x3, x4, x5, x6, x7, x8, x9, x10, x11
others == <<x1, x2, x3, x4, x5, x6, x7, x8, x9, x10, x11>>
mcvars == <<part, vars, others>>

Stream == INSTANCE Stream WITH
    audit <- x1, events <- x2, standing <- x3, faults <- x4, tail <- x5,
    marker <- x6, docs <- x7, known <- x8, between <- x9, late <- x10
Identity == INSTANCE Identity WITH
    cache <- x1, negative <- x2, inflight <- x3, waiting <- x4, exchanges <- x5, ask <- x6, helper <- x7
Copilot == INSTANCE Copilot WITH
    seen <- x1, open <- x2, spent <- x3, used <- x4, idled <- x5, verdict <- x6
Serving == INSTANCE Serving WITH
    inflight <- x1, open <- x2, held <- x3, places <- x4, req <- x5, slot <- x6,
    names <- x7, durable <- x8, sources <- x9, receipts <- x10, crashes <- x11
Completion == INSTANCE Completion WITH
    step <- x1, clock <- x2, sends <- x3, end <- x4, result <- x5
Qualification == INSTANCE Qualification WITH
    kinds <- x1, run <- x2, hands <- x3, snaps <- x4, verdicts <- x5, receipts <- x6, sign <- x7, clock <- x8
Minting == INSTANCE Minting WITH
    held <- x1, refused <- x2, minter <- x3, helper <- x4, ask <- x5, life <- x6, gone <- x7
Decks == INSTANCE Decks WITH
    Keys <- DeckKeys,
    decks <- x1, drawn <- x2, receipts <- x3, told <- x4, runs <- x5, unit <- x6, waiting <- x7
Probes == INSTANCE Probes WITH
    DeadlineTicks <- ProbeTicks,
    good <- x1, since <- x2, loop <- x3, waits <- x4, threads <- x5, shown <- x6, proven <- x7
Console == INSTANCE Console WITH
    MaxFaults <- MaxMissed,
    server <- x1, seq <- x2, flight <- x3, extra <- x4, held <- x5, view <- x6, tail <- x7, left <- x8, older <- x9,
    untold <- x10
Intents == INSTANCE Intents WITH
    key <- x1, last <- x2, settled <- x3, sent <- x4, requests <- x5, answers <- x6, acts <- x7,
    refusing <- x8, run <- x9, misled <- x10, busy <- x11
Book == INSTANCE Book WITH
    run <- x1, live <- x2, standing <- x3, entries <- x4, doc <- x5

from9 == <<x9, x10, x11>>
from8 == <<x8, x9, x10, x11>>
from7 == <<x7, x8, x9, x10, x11>>
from6 == <<x6, x7, x8, x9, x10, x11>>

MCInit ==
    /\ part \in Parts
    /\ Init
    /\ \/ /\ part = "deliverable"
          /\ x1 = 0 /\ x2 = 0 /\ x3 = 0 /\ x4 = 0 /\ x5 = 0 /\ x6 = 0 /\ x7 = 0 /\ x8 = 0 /\ x9 = 0 /\ x10 = 0 /\ x11 = 0
       \/ part = "stream" /\ Stream!Init /\ x11 = 0
       \/ part = "identity" /\ Identity!Init /\ x8 = 0 /\ x9 = 0 /\ x10 = 0 /\ x11 = 0
       \/ part = "copilot" /\ Copilot!Init /\ x7 = 0 /\ x8 = 0 /\ x9 = 0 /\ x10 = 0 /\ x11 = 0
       \/ part = "serving" /\ Serving!Init
       \/ part = "completion" /\ Completion!Init /\ x6 = 0 /\ x7 = 0 /\ x8 = 0 /\ x9 = 0 /\ x10 = 0 /\ x11 = 0
       \/ part = "qualification" /\ Qualification!Init /\ x9 = 0 /\ x10 = 0 /\ x11 = 0
       \/ part = "minting" /\ Minting!Init /\ x8 = 0 /\ x9 = 0 /\ x10 = 0 /\ x11 = 0
       \/ part = "decks" /\ Decks!Init /\ x8 = 0 /\ x9 = 0 /\ x10 = 0 /\ x11 = 0
       \/ part = "probes" /\ Probes!Init /\ x8 = 0 /\ x9 = 0 /\ x10 = 0 /\ x11 = 0
       \/ part = "console" /\ Console!Init /\ x11 = 0
       \/ part = "intents" /\ Intents!Init
       \/ part = "book" /\ Book!Init /\ x6 = 0 /\ x7 = 0 /\ x8 = 0 /\ x9 = 0 /\ x10 = 0 /\ x11 = 0

MCNext ==
    \/ part = "deliverable" /\ Next /\ UNCHANGED <<part, others>>
    \/ part = "stream" /\ Stream!Next /\ UNCHANGED <<part, vars, x11>>
    \/ part = "identity" /\ Identity!Next /\ UNCHANGED <<part, vars, from8>>
    \/ part = "copilot" /\ Copilot!Next /\ UNCHANGED <<part, vars, from7>>
    \/ part = "serving" /\ Serving!Next /\ UNCHANGED <<part, vars>>
    \/ part = "completion" /\ Completion!Next /\ UNCHANGED <<part, vars, from6>>
    \/ part = "qualification" /\ Qualification!Next /\ UNCHANGED <<part, vars, from9>>
    \/ part = "minting" /\ Minting!Next /\ UNCHANGED <<part, vars, from8>>
    \/ part = "decks" /\ Decks!Next /\ UNCHANGED <<part, vars, from8>>
    \/ part = "probes" /\ Probes!Next /\ UNCHANGED <<part, vars, from8>>
    \/ part = "console" /\ Console!Next /\ UNCHANGED <<part, vars, x11>>
    \/ part = "intents" /\ Intents!Next /\ UNCHANGED <<part, vars>>
    \/ part = "book" /\ Book!Next /\ UNCHANGED <<part, vars, from6>>

MCSpec == MCInit /\ [][MCNext]_mcvars

\* Left out: a sixth event that does not end the session, two faults over three rows, a
\* fourth request that is no watcher or sees a crash, a second request to sign over a set
\* entered twice, a standing lost after two changes, and in the Book: the second of two copies
\* withdrawn, add-backs left out but of a complete run by one release, before a run has
\* artifacts a second entry, beside three entries an unfinished read or another standing, and
\* where an entry was there before, a withdrawn source.
Narrowed ==
    /\ part = "deliverable" => Combined
    /\ part = "copilot" => Len(x1) < 6 \/ x1[6].says = "done"
    /\ part = "stream" => x4 < 2 \/ Len(x1) + Len(x2) < 3
    /\ part = "serving" => x5[4].step # "body" /\ (x11 = 0 \/ Serving!At(4, "rest"))
    /\ part = "console" => ~x1.gone \/ x1.v < 2
    /\ part = "qualification" => x3.entered < 2 \/ x7[2].step = "rest"
    /\ part = "book" =>
        /\ x2 # {1}
        /\ x5.exclude => x5.build = 1 /\ x5.asked = 1 /\ x1.complete
        /\ x1.accepted = 0 => Len(x4) < 2
        /\ Len(x4) = 3 => x5.step \in {"rest", "shown"} /\ x3 = "WRITER"
        /\ x4 # <<>> /\ x4[1].run = 3 => x2 = Book!Sources

\* No part tells its callers, its tokens, or its units apart.
Symmetry == Permutations(Callers) \cup Permutations(Tokens)

OfStream(A) == part = "stream" /\ A /\ UNCHANGED <<part, vars, x11>>
OfIdentity(A) == part = "identity" /\ A /\ UNCHANGED <<part, vars, from8>>
OfDecks(A) == part = "decks" /\ A /\ UNCHANGED <<part, vars, from8>>
OfConsole(A) == part = "console" /\ A /\ UNCHANGED <<part, vars, x11>>
OfServing(A) == part = "serving" /\ A /\ UNCHANGED <<part, vars>>

\* The fairness of the parts that promise an end.
MCLiveSpec ==
    /\ MCSpec
    /\ WF_mcvars(OfStream(Stream!CaseTail))
    /\ WF_mcvars(OfStream(Stream!Open))
    /\ WF_mcvars(OfStream(Stream!Refetch))
    /\ WF_mcvars(OfIdentity(Identity!Tick))
    /\ \A r \in Callers : WF_mcvars(OfIdentity(Identity!Run(r)))
    /\ WF_mcvars(OfDecks(Decks!Tick))
    /\ \A u \in Units : WF_mcvars(OfDecks(Decks!GiveUp(u)))
    /\ WF_mcvars(OfConsole(Console!Serve)) /\ WF_mcvars(OfConsole(Console!Arrive))
    /\ WF_mcvars(OfConsole(Console!Deliver)) /\ WF_mcvars(OfConsole(Console!Refuse))
    /\ WF_mcvars(OfConsole(Console!Reconnect)) /\ WF_mcvars(OfConsole(x1.gone /\ Console!Drop))
    /\ WF_mcvars(OfServing(Serving!Tick))
    /\ \A r \in Asks : WF_mcvars(OfServing(Serving!Serve(r))) /\ WF_mcvars(OfServing(Serving!Collect(r)))

-----------------------------------------------------------------------------
\* api/stream.py: what a browser was told up to its marker, and what it was not.
TailSound == part = "stream" => Stream!TailSound

\* api/identity.py: who is taken for whom, for how long, and at what cost.
IdentitySound == part = "identity" => Identity!IdentitySound

\* copilot.py, models.py, provider.py: what a call bills, whether it is sent again, and
\* how it ended.
CallsSound ==
    /\ part = "copilot" => Copilot!CallSound
    /\ part = "completion" => Completion!CompletionSound

\* api/edge.py, stream.py, commands/cases.py: what requests hold is what is counted.
ServingSound == part = "serving" => Serving!ServingSound

\* qualification/store.py: what a reviewer's word stands over, and how often.
QualificationSound == part = "qualification" => Qualification!QualificationSound

\* store/lakebase.py, store/rate_decks.py, api/health.py: what the process hands out is as
\* new as it should be, and nobody waits for it longer: a token, the latest deck, a probe's word.
HandedOutSound ==
    /\ part = "minting" => Minting!MintingSound
    /\ part = "decks" => Decks!DecksSound
    /\ part = "probes" => Probes!ProbesSound

\* deliverable/transitions.py, api/reads: what a page shows and offers is what the rows hold
\* and the command would answer: the Report of a draft, the Model of a run, the Book's own.
PagesSound ==
    /\ part = "deliverable" => ReportOffered
    /\ part = "book" => Book!BookSound

\* The console: what stands on the screen unmarked is the server's, but for what a Reload or
\* a tail's open left behind, and a press is one act.
ConsoleSound ==
    /\ part = "console" => Console!TypeOK /\ Console!QuietIsCurrent
    /\ part = "intents" => Intents!OneAct

\* app/useDocumentRefetch.ts: what a mounted view shows never goes back to an earlier
\* document, but by a Reload of one a later read has overtaken.
NeverBack ==
    [][part = "console" /\ x6'.mount = x6.mount /\ ~x9' => x6'.live.v >= x6.live.v]_mcvars

\* api/stream.py: a row of either half is told, and who lost its standing is let go.
Tells(row) == part = "stream" /\ Stream!Due(row) ~> part = "stream" /\ Stream!Reached(row)
TailLive ==
    /\ Tells(<<"AUDIT", 2>>) /\ Tells(<<"RUN", 1>>)
    /\ part = "stream" /\ ~x3 ~> part = "stream" /\ Stream!Unserved

\* api/identity.py: a request is answered, whatever the workspace and its helpers do;
\* api/edge.py, commands/cases.py: it ends and gives back what it holds;
\* store/rate_decks.py: a wait for the save lock ends, though its holder stay for ever;
\* app/Workspace.tsx: a view its reader has lost the standing for goes.
RequestsEnd ==
    /\ part = "identity" /\ ~Identity!At(r1, "rest") ~> part = "identity" /\ Identity!At(r1, "rest")
    /\ part = "serving" /\ ~Serving!At(1, "rest") ~>
        part = "serving" /\ Serving!At(1, "rest") /\ ~x6[1].held
    /\ part = "decks" /\ Decks!At(r1, "wait") ~> part = "decks" /\ ~Decks!At(r1, "wait")
    /\ part = "console" /\ x1.gone ~> part = "console" /\ x5.displayed = Console!Unavailable
=============================================================================
