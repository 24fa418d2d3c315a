-------------------------------- MODULE Book --------------------------------
(***************************************************************************)
(* The Book (api/commands/book.py, store/book.py, 0051_book_entries.sql,   *)
(* api/reads/book.py) and the Model it is added from and read through      *)
(* (api/reads/model.py, the case's half of api/reads/analysis.py,          *)
(* visible_run of api/deps.py): an analyst adds a completed run's figures  *)
(* to a desk-wide list, once and for good, and whoever the list tells of   *)
(* the run may read its Model while the entry is live.                     *)
(*                                                                         *)
(* A read is a statement at a time, each seeing what was committed before  *)
(* it.  An add or a withdrawal is a step: it holds its case's lock from    *)
(* its first check to its commit, as every write to the case does.         *)
(***************************************************************************)
EXTENDS Naturals, Sequences, FiniteSets

CONSTANTS
    Case,           \* the case of each run; the case that is read is 1
    LatestRun,      \* the last run started in case 1
    Dated,          \* each run's analysis date
    Issuer,         \* each run's issuer_key
    Copies,         \* the sources each pinned document of case 1 was captured under
    Cited,          \* the documents accepted handoffs cite
    Builds,         \* the releases that answer
    Computes(_, _), \* the figures a release's calculator has for a run, or NoGrid
    Accepted,       \* how many artifacts a run has when it is complete
    History, Issuers,   \* BOOK_HISTORY_MAX, BOOK_ISSUERS_MAX
    Published,      \* the entries there may be from before
    NoGrid

VARIABLES
    run,        \* case 1's first run: its accepted artifacts, and whether it is COMPLETE
    live,       \* the sources of case 1 that are not withdrawn
    standing,   \* the reader's standing on case 1
    entries,    \* book_entries, in the order of entry_seq
    doc         \* a Model document: what its read has found, then what it served

vars == <<run, live, standing, entries, doc>>

Runs == DOMAIN Case
Mine == {r \in Runs : Case[r] = 1}
First == CHOOSE r \in Mine : \A s \in Mine : r <= s
Unpinned == 0
Standings == {"none", "READER", "WRITER"}
Sources == UNION {Copies[d] : d \in DOMAIN Copies}

Artifacts(r) == IF r = First THEN run.accepted ELSE Accepted
Complete(r) == r = First => run.complete

NoDigest == [run |-> 0, artifacts |-> 0, figures |-> NoGrid]
NoDoc ==
    [step |-> "rest", asked |-> Unpinned, build |-> CHOOSE b \in Builds : TRUE, exclude |-> FALSE,
     as |-> "none", title |-> "", latest |-> 0, run |-> 0, complete |-> FALSE, artifacts |-> 0,
     digest |-> NoDigest, offer |-> FALSE]

Init ==
    /\ run \in [accepted : 0..Accepted, complete : {FALSE}]
    /\ live = Sources
    /\ standing \in Standings
    /\ entries \in Published
    /\ doc = NoDoc

TypeOK ==
    /\ run \in [accepted : 0..Accepted, complete : BOOLEAN] /\ live \subseteq Sources
    /\ standing \in Standings
    /\ \A i \in DOMAIN entries : entries[i].run \in Runs /\ entries[i].live \in BOOLEAN
    /\ doc.run \in Runs \cup {0} /\ doc.build \in Builds

-----------------------------------------------------------------------------
(* The entries.                                                            *)

EntriesOf(r) == {i \in DOMAIN entries : entries[i].run = r}
\* entry_run: the fact the grant rests on.
LiveEntry(r) == \E i \in EntriesOf(r) : entries[i].live

\* pinned_live_sources: a document counts while one source it was captured under is live.
CitedLive(r) == r \in Mine => \A d \in Cited : Copies[d] \cap live # {}

\* Mutant: the digest is over the artifacts only.
SnapshotOfArtifacts(r, n, figures) == [run |-> r, artifacts |-> n, figures |-> NoGrid]

\* snapshot_sha256: the artifacts the reader was shown, and every figure.
Snapshot(r, n, figures) == [run |-> r, artifacts |-> n, figures |-> figures]

\* The default add-backs, or those left out: other figures of the same run.
Figures(b, r, exclude) ==
    IF Computes(b, r) = NoGrid THEN NoGrid ELSE [by |-> Computes(b, r), exclude |-> exclude]

\* _add: what is checked, under the case lock; a withdrawn entry is no way back.
Addable(r, b, digest) ==
    /\ Complete(r) /\ Artifacts(r) > 0
    /\ CitedLive(r)
    /\ Figures(b, r, FALSE) # NoGrid
    /\ Snapshot(r, Artifacts(r), Figures(b, r, FALSE)) = digest
    /\ EntriesOf(r) = {}

Insert(r, b, reviewed) ==
    /\ entries' = Append(entries,
         [run |-> r, live |-> TRUE, figures |-> Figures(b, r, FALSE), reviewed |-> reviewed])
    /\ UNCHANGED <<run, live, standing, doc>>

\* The reader adds the run it was shown, whichever release answers now.
Add(b) ==
    /\ doc.step = "shown" /\ doc.digest # NoDigest /\ standing = "WRITER"
    /\ Addable(doc.run, b, doc.digest)
    /\ Insert(doc.run, b, Figures(doc.build, doc.run, doc.exclude))

\* Another writer of the case adds a run it has just been shown.
Colleague(r, b) ==
    /\ Addable(r, b, Snapshot(r, Artifacts(r), Figures(b, r, FALSE)))
    /\ Insert(r, b, Figures(b, r, FALSE))

\* withdraw_entry: once, by a writer of its case, bound to the digest its row states.
Withdraw(i) ==
    /\ entries[i].live
    /\ entries' = [entries EXCEPT ![i].live = FALSE]
    /\ UNCHANGED <<run, live, standing, doc>>

-----------------------------------------------------------------------------
(* The Model's read.                                                       *)

AskFor(r, b, exclude) ==
    /\ doc.step \in {"rest", "shown"}
    /\ doc' = [NoDoc EXCEPT !.step = "visible", !.asked = r, !.build = b, !.exclude = exclude]
    /\ UNCHANGED <<run, live, standing, entries>>

Refused == doc' = NoDoc
Go(step, found) == doc' = [found EXCEPT !.step = step]
Reads(step) == doc.step = step /\ UNCHANGED <<run, live, standing, entries>>
Granted(found) == found.as = "granted"

\* visible_run: the reader's standing, or the grant of a run with a live entry.
Visible ==
    /\ Reads("visible")
    /\ IF standing # "none" THEN Go("row", [doc EXCEPT !.as = standing])
       ELSE IF doc.asked # Unpinned /\ LiveEntry(doc.asked) THEN Go("row", [doc EXCEPT !.as = "granted"])
       ELSE Refused

\* Mutant: the grant is not looked at again where the title is read.
TitleOnce == IF Granted(doc) /\ LiveEntry(doc.asked) THEN "issuer" ELSE "case"

\* The case's title, or the issuer's of the live entry; none when it was withdrawn since.
Title == IF ~Granted(doc) THEN "case" ELSE IF LiveEntry(doc.asked) THEN "issuer" ELSE "none"

\* _case_row
Row ==
    /\ Reads("row")
    /\ IF Title = "none" THEN Refused
       ELSE Go("status", [doc EXCEPT !.title = Title,
                !.latest = IF Granted(doc) THEN 0 ELSE LatestRun,
                !.run = IF doc.asked = Unpinned THEN LatestRun ELSE doc.asked])

\* _displayed_status
Status ==
    /\ Reads("status")
    /\ Go("handoffs", [doc EXCEPT !.complete = Complete(doc.run)])

\* _handoffs: those accepted by now.
Handoffs ==
    /\ Reads("handoffs")
    /\ Go("model", [doc EXCEPT !.artifacts = Artifacts(doc.run)])

\* entry_snapshot: the default view's alone, and nothing before CP-1 is accepted.
DigestServed ==
    LET figures == Figures(doc.build, doc.run, doc.exclude) IN
    IF doc.artifacts = 0 \/ figures = NoGrid \/ doc.exclude \/ Granted(doc) THEN NoDigest
    ELSE Snapshot(doc.run, doc.artifacts, figures)

\* _model_document: what was accepted is served while what it cites is live.
Model ==
    /\ Reads("model")
    /\ IF doc.artifacts > 0 /\ ~CitedLive(doc.run) THEN Refused
       ELSE Go(IF Granted(doc) THEN "shown" ELSE "offer", [doc EXCEPT !.digest = DigestServed])

\* Mutant: the offer goes by the run's status as it is now.
OfferableNow(found) ==
    /\ found.digest # NoDigest /\ Complete(found.run) /\ found.as = "WRITER"
    /\ EntriesOf(found.run) = {}

\* _with_add_to_book: by the status and the standing read before, and the entry there is now.
Offerable(found) ==
    /\ found.digest # NoDigest /\ found.complete /\ found.as = "WRITER"
    /\ EntriesOf(found.run) = {}

Offer ==
    /\ Reads("offer")
    /\ Go("shown", [doc EXCEPT !.offer = Offerable(doc)])

-----------------------------------------------------------------------------
(* What changes meanwhile.                                                 *)

Accept ==
    /\ ~run.complete /\ run.accepted < Accepted /\ Sources \subseteq live
    /\ run' = [run EXCEPT !.accepted = @ + 1]
    /\ UNCHANGED <<live, standing, entries, doc>>

Finish ==
    /\ ~run.complete /\ run.accepted = Accepted /\ Sources \subseteq live
    /\ run' = [run EXCEPT !.complete = TRUE]
    /\ UNCHANGED <<live, standing, entries, doc>>

WithdrawSource(s) ==
    /\ s \in live
    /\ live' = live \ {s}
    /\ UNCHANGED <<run, standing, entries, doc>>

SetStanding(s) ==
    /\ standing' = s
    /\ UNCHANGED <<run, live, entries, doc>>

Next ==
    \/ \E r \in Mine \cup {Unpinned}, b \in Builds, exclude \in BOOLEAN : AskFor(r, b, exclude)
    \/ Visible \/ Row \/ Status \/ Handoffs \/ Model \/ Offer
    \/ \E b \in Builds : Add(b) \/ \E r \in Mine : Colleague(r, b)
    \/ \E i \in DOMAIN entries : Withdraw(i)
    \/ Accept \/ Finish
    \/ \E s \in Sources : WithdrawSource(s)
    \/ \E s \in Standings : SetStanding(s)

Spec == Init /\ [][Next]_vars

-----------------------------------------------------------------------------
(* The Book's page, one statement over the entries there are.              *)

Numbered == DOMAIN entries
Key(i) == Issuer[entries[i].run]
Peers(i) == {j \in Numbered : Key(j) = Key(i)}
Later(i, j) ==
    \/ Dated[entries[i].run] > Dated[entries[j].run]
    \/ Dated[entries[i].run] = Dated[entries[j].run] /\ i > j

\* Mutant: the displayed entry is the newest, live or not.
ShownNewest(i) == 1 + Cardinality({j \in Peers(i) : Later(j, i)})

\* row_number over an issuer's entries: by B4's order, and with the live ones first.
NewestRank(i) == 1 + Cardinality({j \in Peers(i) : Later(j, i)})
ShownRank(i) ==
    1 + Cardinality({j \in Peers(i) :
          \/ entries[j].live /\ ~entries[i].live
          \/ entries[j].live = entries[i].live /\ Later(j, i)})

Displays(i) == ShownRank(i) = 1 /\ entries[i].live
\* The issuers served, by key, to one past the bound.
KeysFound == {Key(i) : i \in {j \in Numbered : Displays(j)}}
KeysServed(bound) == {k \in KeysFound : Cardinality({l \in KeysFound : l < k}) < bound}
\* The rows of an issuer the statement returns: the displayed one and the newest.
RowsFound(k) == {i \in Numbered : Key(i) = k /\ (ShownRank(i) = 1 \/ NewestRank(i) <= History + 1)}

\* _issuer: the rows beside the displayed one, newest first, to the bound.
HistoryOf(k) ==
    LET others == {i \in RowsFound(k) : ShownRank(i) # 1} IN
    {i \in others : Cardinality({j \in others : Later(j, i)}) < History}
HistoryCut(k) == Cardinality({i \in Numbered : Key(i) = k}) - 1 > History
\* LIST_TRUNCATED
Truncated == KeysServed(Issuers + 1) # KeysServed(Issuers) \/ \E k \in KeysServed(Issuers) : HistoryCut(k)

-----------------------------------------------------------------------------
(* The properties.                                                         *)

\* Invariant 5: what an entry states is what its adder was shown, view and release both.
EntryAsReviewed == \A i \in Numbered : entries[i].figures = entries[i].reviewed

\* A run is in the Book once, whatever was withdrawn since.
OncePerRun == \A i, j \in Numbered : entries[i].run = entries[j].run => i = j

\* Spec B4, B7: an issuer's row is its newest live entry, its history is the newest of the
\* others, and the page says so where it leaves an entry out.
PageSound ==
    \A k \in KeysServed(Issuers) :
        LET all == {i \in Numbered : Key(i) = k}
            shown == {i \in all : ShownRank(i) = 1}
        IN
        /\ \A i \in shown : entries[i].live /\ \A j \in all \ {i} : entries[j].live => Later(i, j)
        /\ Cardinality(shown) = 1
        /\ \A i \in HistoryOf(k), j \in all \ (HistoryOf(k) \cup shown) : Later(i, j)
        /\ all # HistoryOf(k) \cup shown => Truncated

\* Spec B9: a stranger is told the issuer's name and the run the list told of, and nothing
\* else of the case, whatever is withdrawn and whoever joins while it reads.
StrangersTold ==
    doc.step = "shown" /\ Granted(doc) =>
        /\ doc.title = "issuer" /\ doc.latest = 0 /\ doc.run = doc.asked
        /\ EntriesOf(doc.run) # {}
        /\ doc.digest = NoDigest /\ ~doc.offer

\* What is offered would be done, unless the run was added, a source withdrawn, the standing
\* lost or the release changed since.
OfferAnswered ==
    doc.step = "shown" /\ doc.offer /\ EntriesOf(doc.run) = {} /\ CitedLive(doc.run) =>
        Addable(doc.run, doc.build, doc.digest)

BookSound ==
    /\ TypeOK /\ EntryAsReviewed /\ OncePerRun /\ PageSound
    /\ StrangersTold /\ OfferAnswered

-----------------------------------------------------------------------------
(* The inductive invariant of the part: what a read of the Model has found *)
(* stays as it was when it was read, or is of what never changes back.     *)

Grids ==
    {NoGrid} \cup [by : UNION {{Computes(b, r) : r \in Runs} : b \in Builds}, exclude : BOOLEAN]
Found == {"status", "handoffs", "model", "offer", "shown"}
Typed ==
    /\ run \in [accepted : 0..Accepted, complete : BOOLEAN] /\ live \subseteq Sources
    /\ standing \in Standings
    /\ entries \in Seq([run : Runs, live : BOOLEAN, figures : Grids, reviewed : Grids])
    /\ doc \in [step : Found \cup {"rest", "visible", "row"}, asked : Mine \cup {Unpinned},
                build : Builds, exclude : BOOLEAN, as : Standings \cup {"granted"},
                title : {"", "case", "issuer"}, latest : {0, LatestRun}, run : Runs \cup {0},
                complete : BOOLEAN, artifacts : 0..Accepted,
                digest : [run : Runs \cup {0}, artifacts : 0..Accepted, figures : Grids],
                offer : BOOLEAN]
    /\ doc.step \in Found => doc.run \in Runs

\* A complete run takes no more artifacts.
Closed == run.complete => run.accepted = Accepted

\* What was read complete stays so, and what was accepted of it by then is all there will be.
ReadsLast ==
    /\ doc.complete => doc.step \in Found \ {"status"} /\ Complete(doc.run)
    /\ doc.complete /\ doc.step \in {"model", "offer", "shown"} => doc.artifacts = Artifacts(doc.run)

\* A digest is of what the document shows, and the offer of the document's digest.
DigestShown ==
    /\ doc.digest = IF doc.step \in {"offer", "shown"} THEN DigestServed ELSE NoDigest
    /\ doc.offer => doc.step = "shown" /\ doc.digest # NoDigest /\ doc.complete /\ doc.as = "WRITER"

\* The grant is of a run the Book listed, and of nothing else of its case.
GrantOfEntry ==
    Granted(doc) =>
        /\ doc.step \in {"row"} \cup Found /\ doc.asked # Unpinned /\ EntriesOf(doc.asked) # {}
        /\ doc.step # "row" => doc.title = "issuer" /\ doc.latest = 0 /\ doc.run = doc.asked

BookInv ==
    /\ Typed /\ EntryAsReviewed /\ OncePerRun
    /\ Closed /\ ReadsLast /\ DigestShown /\ GrantOfEntry
=============================================================================
