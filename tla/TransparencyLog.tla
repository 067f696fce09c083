--------------------------- MODULE TransparencyLog ---------------------------
(***************************************************************************)
(* What a node's write path promises its clients, whatever happens inside: *)
(* an append-only log in which a content id appears at most once, and      *)
(* answers that each name the one place its content has in that log.      *)
(* Module Ingress implements this specification.                           *)
(***************************************************************************)
EXTENDS Naturals, Sequences

CONSTANT Content    \* content ids

VARIABLES
    log,       \* the witnessed content ids, in leaf order
    answers    \* every receipt ever handed to a client

logVars == <<log, answers>>

Logged == {log[i] : i \in 1..Len(log)}

Init ==
    /\ log = <<>>
    /\ answers = {}

\* One content id that is not yet in the log is witnessed at its end.
Witness(c) ==
    /\ c \notin Logged
    /\ log' = Append(log, c)
    /\ UNCHANGED answers

\* A client is told where its content is. Nothing is ever taken back.
Answer(i) ==
    /\ answers' = answers \cup {[content |-> log[i], leaf |-> i - 1]}
    /\ UNCHANGED log

Next ==
    \/ \E c \in Content : Witness(c)
    \/ \E i \in 1..Len(log) : Answer(i)

Spec == Init /\ [][Next]_logVars
=============================================================================
