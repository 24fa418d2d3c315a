------------------------------- MODULE Intents -------------------------------
(***************************************************************************)
(* The presses of one control of the console (sections/run/controls.tsx,   *)
(* useCommand; app/commands.ts, sendCommand) and the keys they are sent    *)
(* under.  A key is kept until an answer settles its press; an answer may  *)
(* be lost, unreadable or given before the command was looked at.  A       *)
(* request whose answer the browser has given up may still be served.      *)
(*                                                                         *)
(* The server is Governed's: a key buys one act, and then its receipt.     *)
(***************************************************************************)
EXTENDS Naturals, Sequences, FiniteSets

CONSTANTS
    Sayings,    \* the bodies of the presses
    MaxPresses, \* bounds the presses
    MaxBusy     \* bounds the answers given before the command was looked at

VARIABLES
    key,        \* intentRef, numbered as drawn
    last,       \* lastBodyRef
    settled,    \* settledRef
    sent,       \* the request in flight, or none
    requests,   \* what is on its way to the server, with the key and body of each
    answers,    \* what the server answered, by request
    acts,       \* the acts, in order, by key and body
    refusing,   \* the command's own checks refuse
    run,        \* history: the keys of this run of presses of one body, none of them told
    misled,     \* history: a refusal was taken for no act under a key that had acted or yet might
    busy

vars == <<key, last, settled, sent, requests, answers, acts, refusing, run, misled, busy>>

Unheard == "none"
Init ==
    /\ key = 0 /\ last = Unheard /\ settled = TRUE
    /\ sent = 0
    /\ requests = <<>> /\ answers = <<>>
    /\ acts = <<>>
    /\ refusing \in BOOLEAN
    /\ run = {} /\ misled = FALSE /\ busy = 0

Acted(k) == \E i \in DOMAIN acts : acts[i].key = k

-----------------------------------------------------------------------------
(* useCommand and sendCommand.                                             *)

RetriesSame(b) == ~settled /\ last = b

\* A press while one is in flight is not sent.
Press(b) ==
    /\ sent = 0 /\ Len(requests) < MaxPresses
    /\ key' = IF RetriesSame(b) THEN key ELSE key + 1
    /\ last' = b
    /\ requests' = Append(requests, [key |-> key', body |-> b])
    /\ answers' = Append(answers, Unheard)
    /\ sent' = Len(requests')
    /\ run' = (IF b = last THEN run ELSE {}) \cup {key'}
    /\ misled' = (b = last /\ misled)
    /\ UNCHANGED <<settled, acts, refusing, busy>>

\* IN_DOUBT names the store's, not the edge's.
Settles(answer) == answer \in {"ok", "REFUSED", "BUSY"}

\* It has acted, or may yet: a request under it is still on its way.
Untold(k) == Acted(k) \/ \E i \in DOMAIN requests : requests[i].key = k /\ answers[i] = Unheard

\* The answer arrives: whole, or as nothing the console can read.
Arrive ==
    /\ sent # 0 /\ answers[sent] # Unheard
    /\ \E answer \in {answers[sent], "UNREADABLE"} :
         /\ settled' = Settles(answer)
         /\ LET blind == answer \in {"REFUSED", "BUSY"} /\ \E k \in run : Untold(k) IN
            /\ misled' = ((misled \/ blind) /\ answer # "ok")
            /\ run' = IF answer \in {"ok", "REFUSED", "BUSY"} /\ ~blind THEN {} ELSE run
    /\ sent' = 0
    /\ UNCHANGED <<key, last, requests, answers, acts, refusing, busy>>

\* fetch throws: the request may still be under way, or never have left.
Offline ==
    /\ sent # 0
    /\ settled' = FALSE
    /\ sent' = 0
    /\ \/ UNCHANGED answers
       \/ answers[sent] = Unheard /\ answers' = [answers EXCEPT ![sent] = "LOST"]
    /\ UNCHANGED <<key, last, requests, acts, refusing, run, misled, busy>>

-----------------------------------------------------------------------------
(* The server.                                                             *)

Answer(i, a) == answers' = [answers EXCEPT ![i] = a]

\* govern: the key's receipt; or the command's own refusal; or the act, whose
\* commit may be acknowledged or not; or a store that did nothing.
Serve(i) ==
    /\ i \in DOMAIN requests /\ answers[i] = Unheard
    /\ \/ Acted(requests[i].key) /\ Answer(i, "ok") /\ UNCHANGED acts
       \/ ~Acted(requests[i].key) /\ refusing /\ Answer(i, "REFUSED") /\ UNCHANGED acts
       \/ /\ ~Acted(requests[i].key) /\ ~refusing
          /\ acts' = Append(acts, requests[i])
          /\ Answer(i, "ok") \/ Answer(i, "STORE_UNAVAILABLE")
       \/ Answer(i, "STORE_UNAVAILABLE") /\ UNCHANGED acts
    /\ UNCHANGED <<key, last, settled, sent, requests, refusing, run, misled, busy>>

\* EdgeGuard at its limit, or an admission's slot: typed, and before the receipt is read.
Busy(i) ==
    /\ i \in DOMAIN requests /\ answers[i] = Unheard /\ busy < MaxBusy
    /\ Answer(i, "BUSY")
    /\ busy' = busy + 1
    /\ UNCHANGED <<key, last, settled, sent, requests, acts, refusing, run, misled>>

\* What the command's checks read changes.
Move ==
    /\ refusing' = ~refusing
    /\ UNCHANGED <<key, last, settled, sent, requests, answers, acts, run, misled, busy>>

Next ==
    \/ \E b \in Sayings : Press(b)
    \/ Arrive \/ Offline
    \/ \E i \in 1..MaxPresses : Serve(i) \/ Busy(i)
    \/ Move

Spec == Init /\ [][Next]_vars

-----------------------------------------------------------------------------
\* AR-19, FE-8, MAX-01: presses of one body until one is told do at most one act, but
\* where a refusal was given without looking, or before an earlier request came.
OneAct == Cardinality({i \in DOMAIN acts : acts[i].key \in run}) <= 1 \/ misled

-----------------------------------------------------------------------------
(* The inductive invariant of the part.                                    *)

Pressed == [key : Nat, body : Sayings]
TypeOK == key \in Nat /\ requests \in Seq(Pressed) /\ acts \in Seq(Pressed)

\* The server's half: a key buys one act.
KeyActsOnce == \A i, j \in DOMAIN acts : acts[i].key = acts[j].key => i = j

\* The console's: while nothing misled it, it keeps to one key, and to none once it was told.
KeepsTheKey == ~misled => run \subseteq {key} /\ (settled /\ sent = 0 => run = {})

IntentsInv == TypeOK /\ KeyActsOnce /\ KeepsTheKey
=============================================================================
