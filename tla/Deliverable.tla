---------------------------- MODULE Deliverable ----------------------------
(***************************************************************************)
(* Save, sign, freeze and file (caos/deliverable/*, api/commands/          *)
(* deliverable.py, api/reads/reports.py, api/reads/deliverable.py): the    *)
(* revisions of one run's deliverable, each act a governed unit under the  *)
(* case lock, by people who act on what they were shown, through processes *)
(* of two builds whose narrative rules and renderer differ, while a cited  *)
(* source may be withdrawn.                                                *)
(*                                                                         *)
(* A revision's payload is its own (its id is in it), so a digest is the   *)
(* revision it names.  Standing, receipts of commands and the chain of     *)
(* digests are Governed's: here the chain is the sequence of its events.   *)
(***************************************************************************)
EXTENDS Naturals, Sequences, FiniteSets

CONSTANTS
    Users,
    Drafts,         \* what an analyst may write
    Versions,       \* builds of the host
    Drift,          \* what a build makes of a draft: "OK", or the stage that refuses
    MaxRevisions, MaxClock,     \* bound the saves, and the saves and signatures asked for
    None

ASSUME DraftsJudged == Drift \in [Versions -> [Drafts -> {"OK", "RULE", "RENDER"}]]
ASSUME UsersAreNumbered == Users \subseteq Nat \ {0}
ASSUME BoundsAreNaturals == MaxRevisions \in Nat /\ MaxClock \in Nat
ASSUME NoneIsNothing == None \notin Users \cup Versions \cup Drafts \cup Nat

VARIABLES
    clock,          \* the store's clock: when a unit began
    live,           \* the cited evidence still serves
    revisions,      \* deliverable_revisions, as they were inserted
    opinions,       \* deliverable_opinions of each revision
    publication,    \* deliverable_publications
    receipt,        \* deliverable_receipts, with the package filing stored
    trail,          \* the case's audit events
    request         \* each user's save or signature in flight

store == <<live, revisions, opinions, publication, receipt, trail>>
vars == <<clock, store, request>>

Ids == 1..MaxRevisions
Saved == 1..Len(revisions)
Acts == {"SAVE", "SIGN", "FREEZE", "FILE"}
Signers(r) == {o.by : o \in opinions[r]}
Frozen(r) == publication[r] # None
Filed(r) == Frozen(r) /\ publication[r].filedBy # None

Receipts == [revision : Ids, signedBy : Users, frozenBy : Users, filedBy : Users,
             renderer : Versions, event : Nat \ {0}]
Packages == [receipt : Receipts, renderer : Versions, export : Versions]
Requests == [act : Acts, by : Users, on : Ids \cup {None}, reviewed : Ids \cup {None},
             draft : Drafts \cup {None}, version : Versions, at : Nat]
Freezes == [frozenBy : Users, filedBy : Users \cup {None}]
Filings == [row : Receipts, package : Packages]

ASSUME NoneIsNoRow == None \notin Freezes \cup Filings

TypeOK ==
    /\ clock \in 0..MaxClock
    /\ live \in BOOLEAN
    /\ revisions \in Seq([by : Users, draft : Drafts, at : Nat]) /\ Len(revisions) <= MaxRevisions
    /\ opinions \in [Ids -> SUBSET [by : Users, at : Nat]]
    /\ publication \in [Ids -> Freezes \cup {None}]
    /\ receipt \in [Ids -> Filings \cup {None}]
    /\ trail \in Seq([action : Acts, by : Users, revision : Ids])
    /\ \A r \in Ids : (opinions[r] # {} \/ Frozen(r)) => r \in Saved
    /\ request \in [Users -> Requests \cup {None}]

Init ==
    /\ clock = 0
    /\ live = TRUE
    /\ revisions = <<>>
    /\ opinions = [r \in Ids |-> {}]
    /\ publication = [r \in Ids |-> None]
    /\ receipt = [r \in Ids |-> None]
    /\ trail = <<>>
    /\ request = [u \in Users |-> None]

-----------------------------------------------------------------------------
(* What the acts ask of the store.                                         *)

\* _latest and _open_head: the newest by the moment its unit began.
Newest ==
    IF revisions = <<>> THEN None
    ELSE CHOOSE r \in Saved : \A s \in Saved : revisions[s].at <= revisions[r].at

\* The first check that refuses, in the order the code makes them.
FirstRefusal(checks) ==
    LET hit == {i \in DOMAIN checks : checks[i][1]} IN
    IF hit = {} THEN "OK" ELSE checks[CHOOSE i \in hit : \A j \in hit : i <= j][2]

\* prove_revision by a process of build v: the saved bytes derived again.
Prove(r, v) ==
    IF ~live THEN "EVIDENCE_NOT_AVAILABLE"
    ELSE IF Drift[v][revisions[r].draft] = "RULE" THEN "NARRATIVE_REFUSED" ELSE "OK"

\* renderable
Render(r, v) == IF Drift[v][revisions[r].draft] = "RENDER" THEN "RENDER_REFUSED" ELSE "OK"

Fileable(r, v) == Prove(r, v) = "OK" /\ Render(r, v) = "OK"

\* Mutant: a frozen head is closed whether it can be filed or not (N77).
ClosedFrozen(r, v) == Frozen(r) /\ ~Filed(r)

\* save's test of a head that takes no draft (W5, N77).
Closed(r, v) == Frozen(r) /\ ~Filed(r) /\ Fileable(r, v)

\* Mutant: a draft is saved over whatever is the head by then.
SaveCodeBlind(q) ==
    IF Drift[q.version][q.draft] = "RULE" THEN "NARRATIVE_REFUSED"
    ELSE FirstRefusal(<<
        <<~live, "EVIDENCE_NOT_AVAILABLE">>,
        <<Drift[q.version][q.draft] = "RENDER", "RENDER_REFUSED">> >>)

\* save, then save_revision_in: q.on is the head the draft was composed against.
SaveCode(q) ==
    IF Newest # q.on THEN "COMMAND_EXPECTATION_STALE"
    ELSE IF Newest # None /\ Closed(Newest, q.version) THEN "DELIVERABLE_ALREADY_FROZEN"
    ELSE FirstRefusal(<<
        <<~live, "EVIDENCE_NOT_AVAILABLE">>,
        <<Drift[q.version][q.draft] = "RULE", "NARRATIVE_REFUSED">>,
        <<Drift[q.version][q.draft] = "RENDER", "RENDER_REFUSED">> >>)

\* Mutant: the reviewed digest is checked, but not that it is still the head's.
ReviewedBytes(q) == << <<q.reviewed # q.on, "DELIVERABLE_MOVED_SINCE_SIGNING">> >>

\* _reviewed
Reviewed(q) == <<
    <<q.reviewed # q.on, "DELIVERABLE_MOVED_SINCE_SIGNING">>,
    <<Newest # q.on, "COMMAND_EXPECTATION_STALE">> >>

\* Mutant: a frozen revision takes further signatures.
SignCodeAfter(q) == FirstRefusal(Reviewed(q) \o <<
    <<q.by = revisions[q.on].by, "APPROVER_NOT_INDEPENDENT">>,
    <<q.by \in Signers(q.on), "DELIVERABLE_ALREADY_SIGNED">> >>)

\* sign_opinion_in
SignCode(q) == FirstRefusal(Reviewed(q) \o <<
    <<q.by = revisions[q.on].by, "APPROVER_NOT_INDEPENDENT">>,
    <<Frozen(q.on), "DELIVERABLE_ALREADY_FROZEN">>,
    <<q.by \in Signers(q.on), "DELIVERABLE_ALREADY_SIGNED">> >>)

\* freeze_in
FreezeCode(q) == FirstRefusal(Reviewed(q) \o <<
    <<Frozen(q.on), "DELIVERABLE_ALREADY_FROZEN">>,
    <<opinions[q.on] = {}, "DELIVERABLE_NOT_SIGNED">>,
    <<q.by \in Signers(q.on), "APPROVER_NOT_INDEPENDENT">>,
    <<Prove(q.on, q.version) # "OK", Prove(q.on, q.version)>>,
    <<Render(q.on, q.version) # "OK", "RENDER_REFUSED">> >>)

\* Mutant: whoever did not sign may file.
FileCodeSigners(q) == FirstRefusal(Reviewed(q) \o <<
    <<Prove(q.on, q.version) # "OK", Prove(q.on, q.version)>>,
    <<~Frozen(q.on), "DELIVERABLE_NOT_FROZEN">>,
    <<opinions[q.on] = {}, "DELIVERABLE_NOT_SIGNED">>,
    <<q.by \in Signers(q.on), "APPROVER_NOT_INDEPENDENT">>,
    <<Filed(q.on), "DELIVERABLE_ALREADY_FILED">>,
    <<Render(q.on, q.version) # "OK", "RENDER_REFUSED">> >>)

\* file: the re-proof first (FP-04), then file_deliverable_in, then persist_receipt.
FileCode(q) == FirstRefusal(Reviewed(q) \o <<
    <<Prove(q.on, q.version) # "OK", Prove(q.on, q.version)>>,
    <<~Frozen(q.on), "DELIVERABLE_NOT_FROZEN">>,
    <<opinions[q.on] = {}, "DELIVERABLE_NOT_SIGNED">>,
    <<q.by \in Signers(q.on) \cup {publication[q.on].frozenBy}, "APPROVER_NOT_INDEPENDENT">>,
    <<Filed(q.on), "DELIVERABLE_ALREADY_FILED">>,
    <<Render(q.on, q.version) # "OK", "RENDER_REFUSED">> >>)

Answer(q) ==
    CASE q.act = "SAVE" -> SaveCode(q)
      [] q.act = "SIGN" -> SignCode(q)
      [] q.act = "FREEZE" -> FreezeCode(q)
      [] q.act = "FILE" -> IF Frozen(q.on) THEN FileCode(q)
                           ELSE FirstRefusal(Reviewed(q) \o <<
                                <<Prove(q.on, q.version) # "OK", Prove(q.on, q.version)>>,
                                <<TRUE, "DELIVERABLE_NOT_FROZEN">> >>)

-----------------------------------------------------------------------------
(* The acts.                                                               *)

\* What a client may post: the head or the digest it names is one it has seen.
Posts(u, act) ==
    {[act |-> act, by |-> u, on |-> on, reviewed |-> seen, draft |-> d, version |-> v, at |-> clock + 1] :
        on \in IF act = "SAVE" THEN Saved \cup {None} ELSE Saved,
        seen \in IF act = "SAVE" THEN {None} ELSE Saved,
        d \in IF act = "SAVE" THEN Drafts ELSE {None},
        v \in Versions}

\* The unit begins, which stamps the row it may insert, before it has the lock.
Begin(u) ==
    /\ request[u] = None
    /\ clock < MaxClock /\ clock' = clock + 1
    /\ \E act \in {"SAVE", "SIGN"} : \E q \in Posts(u, act) : request' = [request EXCEPT ![u] = q]
    /\ UNCHANGED store

\* Mutant: the event names the revision after the one acted on.
EventNext(q, r) == trail' = Append(trail, [action |-> q.act, by |-> q.by, revision |-> r + 1])

Event(q, r) == trail' = Append(trail, [action |-> q.act, by |-> q.by, revision |-> r])

SaveIn(q) ==
    /\ q.act = "SAVE"
    /\ Len(revisions) < MaxRevisions
    /\ revisions' = Append(revisions, [by |-> q.by, draft |-> q.draft, at |-> q.at])
    /\ Event(q, Len(revisions) + 1)
    /\ UNCHANGED <<live, opinions, publication, receipt>>

SignIn(q) ==
    /\ q.act = "SIGN"
    /\ opinions' = [opinions EXCEPT ![q.on] = @ \cup {[by |-> q.by, at |-> q.at]}]
    /\ Event(q, q.on)
    /\ UNCHANGED <<live, revisions, publication, receipt>>

FreezeIn(q) ==
    /\ q.act = "FREEZE"
    /\ publication' = [publication EXCEPT ![q.on] = [frozenBy |-> q.by, filedBy |-> None]]
    /\ Event(q, q.on)
    /\ UNCHANGED <<live, revisions, opinions, receipt>>

\* revision_signatures: the latest signature, of one moment the first by name.
LatestSigner(r) ==
    (CHOOSE o \in opinions[r] : \A p \in opinions[r] :
        p.at < o.at \/ (p.at = o.at /\ o.by <= p.by)).by

\* Receipt, of the rows as they are and the filing event.
ReceiptOf(r, filer, renderer, event) ==
    [revision |-> r, signedBy |-> LatestSigner(r), frozenBy |-> publication[r].frozenBy,
     filedBy |-> filer, renderer |-> renderer, event |-> event]

\* Mutant: the package carries the renderer of the build that froze or saved.
PackedBy(row, v) == [receipt |-> row, renderer |-> v, export |-> CHOOSE w \in Versions : TRUE]

\* build_package: the receipt, this build's renderer and the page it draws.
Packed(row, v) == [receipt |-> row, renderer |-> v, export |-> v]

\* file_deliverable_in, the event, then persist_receipt in the same unit.
FileIn(q) ==
    LET row == ReceiptOf(q.on, q.by, q.version, Len(trail) + 1) IN
    /\ q.act = "FILE"
    /\ publication' = [publication EXCEPT ![q.on].filedBy = q.by]
    /\ Event(q, q.on)
    /\ receipt' = [receipt EXCEPT ![q.on] = [row |-> row, package |-> Packed(row, q.version)]]
    /\ UNCHANGED <<live, revisions, opinions>>

Apply(q) == SaveIn(q) \/ SignIn(q) \/ FreezeIn(q) \/ FileIn(q)

\* The governed unit: decided and committed under the case lock, or refused; or it
\* fails, or its process dies, and nothing was written.
Serve(u) ==
    /\ request[u] # None
    /\ \/ Answer(request[u]) = "OK" /\ Apply(request[u])
       \/ UNCHANGED store
    /\ request' = [request EXCEPT ![u] = None]
    /\ UNCHANGED clock

\* A freeze or a filing inserts no row that its stamp orders.
ServeAtOnce(u) ==
    /\ request[u] = None
    /\ \E act \in {"FREEZE", "FILE"} : \E q \in Posts(u, act) : Answer(q) = "OK" /\ Apply(q)
    /\ UNCHANGED <<clock, request>>

\* withdraw_source, of a source an accepted artifact cites.
Withdraw ==
    /\ live
    /\ live' = FALSE
    /\ UNCHANGED <<clock, revisions, opinions, publication, receipt, trail, request>>

Next == (\E u \in Users : Begin(u) \/ Serve(u) \/ ServeAtOnce(u)) \/ Withdraw

Spec == Init /\ [][Next]_vars

-----------------------------------------------------------------------------
(* The reads.                                                              *)

\* read_filed_receipt: the rows, the receipt they make again, and the chain.
Receipted(r) ==
    /\ Filed(r) /\ receipt[r] # None
    /\ opinions[r] # {}
    /\ publication[r].frozenBy \notin Signers(r)
    /\ publication[r].filedBy \notin Signers(r) \cup {publication[r].frozenBy}
    /\ LET row == receipt[r].row IN
       /\ row = ReceiptOf(r, publication[r].filedBy, row.renderer, row.event)
       /\ row.event <= Len(trail)
       /\ trail[row.event] = [action |-> "FILE", by |-> row.filedBy, revision |-> r]
       /\ \A who \in Signers(r) : \E i \in DOMAIN trail :
            trail[i] = [action |-> "SIGN", by |-> who, revision |-> r]
       /\ \E i \in DOMAIN trail :
            trail[i] = [action |-> "FREEZE", by |-> row.frozenBy, revision |-> r]

\* verify_package, run from the package: its own renderer draws its own page.
Verified(r) ==
    LET package == receipt[r].package IN
    /\ package.receipt = receipt[r].row
    /\ package.renderer = package.receipt.renderer
    /\ package.export = package.renderer

\* _report_payload: the head that drifted after its freeze is served unproven.
ReportServed(r, v) ==
    \/ Prove(r, v) = "OK"
    \/ Prove(r, v) = "NARRATIVE_REFUSED" /\ r = Newest /\ Frozen(r) /\ ~Filed(r)

\* _filing_facts: the code a frozen and unfiled revision's proof or render refuses with.
Unfileable(r, v) ==
    IF ~Frozen(r) \/ Filed(r) THEN "OK"
    ELSE IF Prove(r, v) # "OK" THEN Prove(r, v) ELSE Render(r, v)

\* report_actions, act by act, to a member who may approve.
SaveOffer(r, v) == FirstRefusal(<<
    <<r # Newest, "COMMAND_EXPECTATION_STALE">>,
    <<Frozen(r) /\ ~Filed(r) /\ Unfileable(r, v) = "OK", "DELIVERABLE_ALREADY_FROZEN">> >>)

\* Mutant: the author is offered the signature of its own narrative.
SignOfferAny(u, r) == FirstRefusal(<<
    <<r # Newest, "COMMAND_EXPECTATION_STALE">>,
    <<Frozen(r), "DELIVERABLE_ALREADY_FROZEN">>,
    <<u \in Signers(r), "DELIVERABLE_ALREADY_SIGNED">> >>)

SignOffer(u, r) == FirstRefusal(<<
    <<r # Newest, "COMMAND_EXPECTATION_STALE">>,
    <<u = revisions[r].by, "APPROVER_NOT_INDEPENDENT">>,
    <<Frozen(r), "DELIVERABLE_ALREADY_FROZEN">>,
    <<u \in Signers(r), "DELIVERABLE_ALREADY_SIGNED">> >>)

FreezeOffer(u, r) == FirstRefusal(<<
    <<r # Newest, "COMMAND_EXPECTATION_STALE">>,
    <<Frozen(r), "DELIVERABLE_ALREADY_FROZEN">>,
    <<opinions[r] = {}, "DELIVERABLE_NOT_SIGNED">>,
    <<u \in Signers(r), "APPROVER_NOT_INDEPENDENT">> >>)

FileOffer(u, r, v) ==
    IF r # Newest THEN "COMMAND_EXPECTATION_STALE"
    ELSE IF ~Frozen(r) THEN "DELIVERABLE_NOT_FROZEN"
    ELSE FirstRefusal(<<
        <<opinions[r] = {}, "DELIVERABLE_NOT_SIGNED">>,
        <<u \in Signers(r) \cup {publication[r].frozenBy}, "APPROVER_NOT_INDEPENDENT">>,
        <<Filed(r), "DELIVERABLE_ALREADY_FILED">>,
        <<Unfileable(r, v) # "OK", Unfileable(r, v)>> >>)

\* The request that posts the revision the Report serves.
Posting(u, act, r, v, d) ==
    [act |-> act, by |-> u, on |-> r, reviewed |-> r, draft |-> d, version |-> v, at |-> clock]

-----------------------------------------------------------------------------
(* The properties.                                                         *)

\* One who has done nothing yet.
Bystander == 0

\* CF-026: the head is ordered by the moment its unit began, before it waited for
\* the lock; it is the last revision saved all the same.
HeadIsLast == Newest = IF revisions = <<>> THEN None ELSE Len(revisions)

\* FP-33: whatever order people act in, a deliverable is filed by one who neither
\* signed nor froze it, frozen by one who did not sign it, and signed by someone,
\* never its author.
FiledByThree ==
    \A r \in Ids : Frozen(r) =>
        /\ opinions[r] # {}
        /\ revisions[r].by \notin Signers(r)
        /\ publication[r].frozenBy \notin Signers(r)
        /\ publication[r].filedBy \notin Signers(r) \cup {publication[r].frozenBy}

\* Invariant 5: what is filed is the run's newest revision, on evidence that still
\* serves, and by a build that proves and draws it, in the moment it is filed.
FiledAsProven ==
    [][\A r \in Ids : Filed(r)' /\ ~Filed(r) =>
        /\ r = Len(revisions)
        /\ live
        /\ Drift[receipt'[r].row.renderer][revisions[r].draft] = "OK"]_vars

\* FP-05, FP-34: a filed record is served for ever from its own rows, bytes and
\* events, whatever is withdrawn, deployed, saved or signed after it, and its
\* package verifies under the verifier and renderer it carries.
FiledServed == \A r \in Ids : Filed(r) => Receipted(r) /\ Verified(r)

\* A filing stands behind three people, and stands ever after.
FilingSound == TypeOK /\ FiledByThree /\ FiledServed

\* N77: while the evidence serves, one who has done nothing in the head can move it
\* on in every build: sign it, freeze it, file it, or supersede it.
WayForward ==
    \A v \in Versions : revisions # <<>> /\ live /\ (\E d \in Drafts : Drift[v][d] = "OK") =>
        \E act \in Acts, d \in Drafts : Answer(Posting(Bystander, act, Newest, v, d)) = "OK"

\* The head is the last draft, and nobody can leave it where nothing moves it on.
HeadServes == HeadIsLast /\ WayForward

\* What the Report offers of save, sign, freeze and file is what the command would answer to
\* the revision it serves, for a draft or a page the build accepts.
ReportOffered ==
    \A u \in Users, r \in Saved, v \in Versions : ReportServed(r, v) =>
        /\ \A d \in Drafts : Drift[v][d] = "OK" =>
             SaveOffer(r, v) = Answer(Posting(u, "SAVE", r, v, d))
        /\ SignOffer(u, r) = Answer(Posting(u, "SIGN", r, v, None))
        /\ Render(r, v) = "OK" => FreezeOffer(u, r) = Answer(Posting(u, "FREEZE", r, v, None))
        /\ Fileable(r, v) => FileOffer(u, r, v) = Answer(Posting(u, "FILE", r, v, None))

\* _fileable of a frozen head that can no longer be filed: it takes a draft.
UnfileableSuperseded ==
    \A v \in Versions, u \in Users, d \in Drafts :
        revisions # <<>> /\ Frozen(Newest) /\ ~Filed(Newest) /\ ~Fileable(Newest, v) /\ Drift[v][d] = "OK" =>
            Answer(Posting(u, "SAVE", Newest, v, d)) = "OK"
=============================================================================
