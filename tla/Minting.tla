------------------------------- MODULE Minting -------------------------------
(***************************************************************************)
(* How a connection comes by its password (store/lakebase.py; connect of   *)
(* store/__init__.py, MintedConnection of graph/checkpoint.py): one held   *)
(* credential per process, one mint at a time on a helper thread that may  *)
(* never end, a held token handed out while the server accepts it, and     *)
(* every failed connection forgetting what is held.                        *)
(*                                                                         *)
(* A step is what a thread does between two reads of what others write.    *)
(* Times are what is left of them, in ticks; a thread that can run does so *)
(* within the tick.  The workspace that issues tokens is external.         *)
(***************************************************************************)
EXTENDS Naturals, FiniteSets

CONSTANTS
    Callers, Nobody,
    TokenTicks, MintTicks, FailureTicks,    \* TOKEN_SECONDS, MINT_SECONDS, FAILURE_SECONDS
    Lives,      \* what a credential may state of its life, less the margin
    MaxTokens   \* bounds the tokens issued; the workspace refuses the rest

VARIABLES
    held,       \* _CACHED
    refused,    \* what is left of _REFUSED_UNTIL
    minter,     \* who has _MINTING
    helper,     \* the mint threads: whose each is, or nobody's once abandoned
    ask,        \* each caller: its step, what it found and was handed
    life,       \* how long the server accepts each token
    gone        \* history: the tokens forgotten

vars == <<held, refused, minter, helper, ask, life, gone>>

Credentials == 1..MaxTokens
Threads == 1..2
NoToken == 0
Margin == 1     \* EXPIRY_MARGIN_SECONDS
NoneHeld == [token |-> NoToken, refresh |-> 0, expires |-> 0, young |-> 0]
NoHelper == [step |-> "none", by |-> Nobody]
Resting == [step |-> "rest", live |-> FALSE, left |-> 0, waited |-> 0, stirred |-> FALSE,
            outcome |-> NoneHeld, good |-> TRUE]

Init ==
    /\ held = NoneHeld /\ refused = 0 /\ minter = Nobody
    /\ helper = [h \in Threads |-> NoHelper]
    /\ ask = [c \in Callers |-> Resting]
    /\ life = [t \in Credentials |-> 0] /\ gone = {}

At(c, step) == ask[c].step = step
Go(c, step) == ask' = [ask EXCEPT ![c].step = step]
Running == {h \in Threads : helper[h] # NoHelper}
Issued == {t \in Credentials : life[t] > 0 \/ held.token = t} \cup gone

\* The token a caller is handed, and whether the server still takes it.
Handed(c, t) ==
    ask' = [ask EXCEPT ![c] = [Resting EXCEPT !.step = "connect", !.good = life[t] > 0 /\ t \notin gone]]
Waits(c) == ask[c].step \in {"try", "join"}
Asking(c) == Waits(c) \/ At(c, "own")
LetGo(c) == minter' = IF minter = c THEN Nobody ELSE minter

-----------------------------------------------------------------------------
(* _credential.                                                            *)

Look(c) ==
    /\ ask[c] = Resting
    /\ IF held.refresh > 0 THEN Handed(c, held.token)
       ELSE ask' = [ask EXCEPT ![c].step = "try", ![c].live = held.expires > 0]
    /\ UNCHANGED <<held, refused, minter, helper, life, gone>>

\* Mutant: whoever comes while a mint is in flight waits for it.
PassesNever(c) == FALSE

\* Who has a live token does not wait for the mint in flight.
Passes(c) == ask[c].live

\* _MINTING.acquire(blocking=not live)
Try(c) ==
    /\ At(c, "try")
    /\ \/ minter = Nobody /\ minter' = c /\ Go(c, "own")
       \/ minter # Nobody /\ Passes(c) /\ Go(c, "fall") /\ UNCHANGED minter
    /\ UNCHANGED <<held, refused, helper, life, gone>>

\* Mutant: an abandoned helper is left to itself, and another is started.
BusyMine == FALSE

\* _HELPER.is_alive()
Busy == Running # {}

\* The minter before may have answered; else _refreshed, up to the helper's start.
Own(c) ==
    /\ At(c, "own")
    /\ CASE held.refresh > 0 ->
              Handed(c, held.token) /\ LetGo(c) /\ UNCHANGED <<refused, helper>>
         [] held.refresh = 0 /\ refused > 0 ->
              Go(c, "fall") /\ UNCHANGED <<refused, helper, minter>>
         [] held.refresh = 0 /\ refused = 0 /\ Busy ->
              Go(c, "fall") /\ refused' = FailureTicks /\ UNCHANGED <<helper, minter>>
         [] OTHER ->
              /\ \E h \in Threads \ Running :
                    /\ \A g \in 1..(h - 1) : g \in Running
                    /\ helper' = [helper EXCEPT ![h] = [step |-> "asking", by |-> c]]
              /\ ask' = [ask EXCEPT ![c].step = "join", ![c].left = MintTicks]
              /\ UNCHANGED <<refused, minter>>
    /\ UNCHANGED <<held, life, gone>>

\* _mint, whenever the workspace comes to it: a token and its stated life, one with
\* none to read, or a refusal.
Mint(h) ==
    /\ helper[h].step = "asking"
    /\ helper' = [helper EXCEPT ![h].step = "told"]
    /\ \/ \E t \in Credentials, n \in Lives \cup {TokenTicks} :
            /\ t \notin Issued /\ \A s \in 1..(t - 1) : s \in Issued
            /\ life' = [life EXCEPT ![t] = n + Margin]
            /\ ask' = IF helper[h].by = Nobody THEN ask
                      ELSE [ask EXCEPT ![helper[h].by].outcome = [NoneHeld EXCEPT !.token = t, !.expires = n]]
       \/ UNCHANGED <<ask, life>>
    /\ UNCHANGED <<held, refused, minter, gone>>

\* The thread ends, and a join of it with it.
Finish(h) ==
    /\ helper[h].step = "told"
    /\ helper' = [helper EXCEPT ![h] = NoHelper]
    /\ ask' = IF helper[h].by = Nobody THEN ask ELSE [ask EXCEPT ![helper[h].by].left = 0]
    /\ UNCHANGED <<held, refused, minter, life, gone>>

\* Mutant: a token is refreshed by its age alone.
RefreshByAge(expires) == TokenTicks

RefreshOf(expires) == IF expires < TokenTicks THEN expires ELSE TokenTicks

\* minter.join ends with the thread or at the deadline; what it said by then counts.
Joined(c) ==
    LET told == ask[c].outcome IN
    /\ At(c, "join") /\ ask[c].left = 0
    /\ helper' = [h \in Threads |-> IF helper[h].by = c THEN [helper[h] EXCEPT !.by = Nobody] ELSE helper[h]]
    /\ IF told = NoneHeld
       THEN Go(c, "fall") /\ refused' = FailureTicks /\ UNCHANGED <<held, minter>>
       ELSE /\ held' = [told EXCEPT !.refresh = RefreshOf(told.expires), !.young = FailureTicks]
            /\ ask' = [d \in Callers |->
                    IF d = c THEN [Resting EXCEPT !.step = "connect", !.good = life[told.token] > 0]
                    ELSE [ask[d] EXCEPT !.stirred = @ \/ (Asking(d) /\ told.expires = 0)]]
            /\ LetGo(c)
            /\ UNCHANGED refused
    /\ UNCHANGED <<life, gone>>

\* _live_or_refused, which reads what is held afresh.
Fall(c) ==
    /\ At(c, "fall")
    /\ IF held.expires > 0 THEN Handed(c, held.token)
       ELSE ask' = [ask EXCEPT ![c] = [Resting EXCEPT !.step = "refused"]]
    /\ LetGo(c)
    /\ UNCHANGED <<held, refused, helper, life, gone>>

-----------------------------------------------------------------------------
(* connect.                                                                *)

\* The caller is done; it comes back once a tick.
Rests(c) == ask' = [ask EXCEPT ![c] = [Resting EXCEPT !.left = 1]]

Leave(c) ==
    /\ At(c, "refused") \/ At(c, "connect")
    /\ Rests(c)
    /\ UNCHANGED <<held, refused, minter, helper, life, gone>>

\* A connection fails: the store is down, or the token was refused early.
ConnectFails(c) ==
    /\ At(c, "connect")
    /\ Go(c, "failed")
    /\ UNCHANGED <<held, refused, minter, helper, life, gone>>

\* note_connect_failure keeps what was minted lately.
Note(c) ==
    /\ At(c, "failed")
    /\ IF held # NoneHeld /\ held.young > 0 THEN Rests(c) ELSE Go(c, "forget")
    /\ UNCHANGED <<held, refused, minter, helper, life, gone>>

\* invalidate_credential
Forget(c) ==
    /\ At(c, "forget")
    /\ held' = NoneHeld /\ refused' = 0
    /\ gone' = gone \cup ({held.token} \ {NoToken})
    /\ ask' = [d \in Callers |->
            IF d = c THEN [Resting EXCEPT !.left = 1] ELSE [ask[d] EXCEPT !.stirred = @ \/ Asking(d)]]
    /\ UNCHANGED <<minter, helper, life>>

-----------------------------------------------------------------------------
Runnable(c) ==
    \/ ask[c].step \in {"own", "fall", "refused", "failed", "forget"}
    \/ At(c, "try") /\ (minter = Nobody \/ Passes(c))
    \/ At(c, "join") /\ ask[c].left = 0

Less(n) == IF n > 0 THEN n - 1 ELSE 0

Tick ==
    /\ \A c \in Callers : ~Runnable(c)
    /\ \A h \in Threads : helper[h].step # "told"
    /\ held' = [held EXCEPT !.refresh = Less(@), !.expires = Less(@), !.young = Less(@)]
    /\ refused' = Less(refused)
    /\ ask' = [c \in Callers |-> [ask[c] EXCEPT
            !.left = Less(@), !.outcome.expires = Less(@),
            !.waited = IF Waits(c) /\ @ <= MintTicks THEN @ + 1 ELSE @]]
    /\ life' = [t \in Credentials |-> Less(life[t])]
    /\ UNCHANGED <<minter, helper, gone>>

Step(c) == Try(c) \/ Own(c) \/ Joined(c) \/ Fall(c) \/ Leave(c) \/ Note(c) \/ Forget(c)

Next ==
    \/ \E c \in Callers : Look(c) \/ Step(c) \/ ConnectFails(c)
    \/ \E h \in Threads : Mint(h) \/ Finish(h)
    \/ Tick

Spec == Init /\ [][Next]_vars

-----------------------------------------------------------------------------
\* R24-N01: however often mints fail and are abandoned, one thread at most runs.
OneHelper == Cardinality(Running) <= 1

\* ST-3: whatever is read before and minted, failed or forgotten meanwhile, a caller
\* is handed a token that no failed connection had it forget and the server takes.
HandedGood == \A c \in Callers : At(c, "connect") => ask[c].good

\* ST-1: while the server takes the token held, only the one that mints waits.
LiveNeverWaits == \A c \in Callers : ask[c].live /\ ask[c].waited > 0 => minter = c

\* MX-3: nobody waits longer than one mint may take, its own or another's, unless
\* what is held is forgotten meanwhile or a token comes with no life left.
WaitsOneMint == \A c \in Callers : ask[c].waited > MintTicks => ask[c].stirred

MintingSound == OneHelper /\ HandedGood /\ LiveNeverWaits /\ WaitsOneMint

-----------------------------------------------------------------------------
(* The inductive invariant of the part.                                    *)

HeldTokens == [token : Credentials \cup {NoToken}, refresh : Nat, expires : Nat, young : Nat]

TypeOK ==
    /\ held \in HeldTokens /\ refused \in Nat /\ minter \in Callers \cup {Nobody}
    /\ helper \in [Threads -> [step : {"none", "asking", "told"}, by : Callers \cup {Nobody}]]
    /\ ask \in [Callers ->
        [step : {"rest", "try", "own", "join", "fall", "connect", "refused", "failed", "forget"},
         live : BOOLEAN, left : Nat, waited : Nat, stirred : BOOLEAN, outcome : HeldTokens, good : BOOLEAN]]
    /\ life \in [Credentials -> Nat] /\ gone \subseteq Credentials

\* Who has _MINTING is in the middle of it, and whoever is has it, but for those that passed.
OneMinter ==
    /\ minter # Nobody => ask[minter].step \in {"own", "join", "fall"}
    /\ \A c \in Callers : At(c, "own") \/ At(c, "join") => minter = c
    /\ \A c \in Callers : At(c, "fall") => minter = c \/ Passes(c)
    /\ \A h \in Threads :
        /\ helper[h].step = "none" => helper[h].by = Nobody
        /\ helper[h].by # Nobody => At(helper[h].by, "join")

\* The server takes a token longer than it is held, and one that was minted until it is read.
TakenLonger ==
    /\ held.refresh <= held.expires
    /\ held.expires > 0 => held.token # NoToken /\ life[held.token] > held.expires
    /\ held.token \notin gone
    /\ \A c \in Callers : ask[c].outcome # NoneHeld =>
        LET told == ask[c].outcome IN
        /\ At(c, "join")
        /\ ask[c].left = 0 \/ \E h \in Threads : helper[h] = [step |-> "told", by |-> c]
        /\ told.token \in Credentials \ (gone \cup {held.token})
        /\ life[told.token] > told.expires

\* Who waits is let go by the end of the mint it waits for, or finds it done or refused.
OneMintLong ==
    /\ \A d \in Callers : At(d, "join") =>
        /\ ask[d].left <= MintTicks
        /\ \A c \in Callers : ~ask[c].stirred /\ Waits(c) => ask[c].waited + ask[d].left <= MintTicks
    /\ \A c \in Callers : ~ask[c].stirred /\ Asking(c) /\ ask[c].waited > 0 =>
        held.refresh > 0 \/ refused > 0 \/ \E d \in Callers : At(d, "join")
    /\ \A c \in Callers : ask[c].live /\ At(c, "try") => ask[c].waited = 0

MintingInv == TypeOK /\ OneMinter /\ TakenLonger /\ OneMintLong /\ MintingSound
=============================================================================
