----------------------------- MODULE MCGoverned -----------------------------
(***************************************************************************)
(* The governed commands on small instances: one user opens a case and     *)
(* shares it, the other acts on it while its standing is taken away.       *)
(***************************************************************************)
EXTENDS Governed

CONSTANTS a, b, k1, k2, c1, c2, h1, h2, s1

Asks(actor, key, command, scope, on, to) ==
    [actor |-> actor, key |-> key, command |-> command, scope |-> scope, on |-> on, to |-> to]

\* One title and another under one key, one share of the case, and a source
\* admitted and withdrawn under keys that are mixed up.
MCTwins ==
    {Asks(a, k1, "CREATE", NIL, t, None) : t \in {"title", "other"}}
    \cup UNION {{Asks(a, k1, "GRANT", c, b, "WRITER"), Asks(b, k1, "ADMIT", c, s1, None),
                 Asks(b, k1, "WITHDRAW", c, s1, None), Asks(b, k2, "WITHDRAW", c, s1, None)} :
                c \in Cases}

\* And the standing of either taken away by the other.
MCRequests ==
    MCTwins
    \cup UNION {{Asks(a, k2, "GRANT", c, b, "ADMIN"), Asks(a, k1, "REVOKE", c, b, None),
                 Asks(b, k1, "REVOKE", c, a, None)} : c \in {c1}}
=============================================================================
