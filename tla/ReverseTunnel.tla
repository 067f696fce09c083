---------------------------- MODULE ReverseTunnel ----------------------------
(***************************************************************************)
(* A node without a public address, tunnelled through an exit node: the    *)
(* node long-polls the exit for jobs and posts the answers, and the exit   *)
(* keeps each client's request waiting for its answer. One tunnelled node, *)
(* its client loop, and the exit's endpoint for it.                        *)
(*                                                                         *)
(* The answer to a poll is a message: it may come to a node that has given *)
(* the poll up, for the exit does not learn that a poll was abandoned.     *)
(***************************************************************************)
EXTENDS Naturals, Sequences, FiniteSets

CONSTANTS
    Req,        \* requests of clients
    MaxQueued,  \* maxQueued
    MaxPolls,   \* bound on the polls made
    MaxCloses,  \* bound on the closes
    NoPoll, NoJob

ASSUME TunnelTyped ==
    /\ IsFiniteSet(Req) /\ MaxQueued \in Nat \ {0} /\ MaxPolls \in Nat /\ MaxCloses \in Nat
    /\ NoPoll \notin Nat /\ NoJob \notin Req

Answered == {"unasked", "waiting", "answered", "timeout", "full", "absent", "closed"}

VARIABLES
    registered, \* the endpoint exists
    queue,      \* its queue
    poller,     \* the poll that waits for a job
    answer,     \* of each request; "waiting" while it has a waiter
    timers,     \* requests whose timer runs
    replies,    \* answers to polls on their way to the node
    handed,     \* the polls each job was given to
    loop,       \* where the node's client loop is
    current,    \* its poll
    job,        \* the job it serves
    polls, closes

tunnelVars ==
    <<registered, queue, poller, answer, timers, replies, handed, loop, current, job, polls,
      closes>>

Reply == [poll : Nat, job : Req \cup {NoJob}]

TunnelTypeOK ==
    /\ registered \in BOOLEAN /\ queue \in Seq(Req) /\ poller \in Nat \cup {NoPoll}
    /\ answer \in [Req -> Answered] /\ timers \subseteq Req /\ replies \subseteq Reply
    /\ handed \in [Req -> SUBSET Nat]
    /\ loop \in {"idle", "polling", "serving"} /\ current \in Nat
    /\ job \in Req \cup {NoJob} /\ polls \in Nat /\ closes \in Nat

TunnelInit ==
    /\ registered = FALSE /\ queue = <<>> /\ poller = NoPoll
    /\ answer = [r \in Req |-> "unasked"] /\ timers = {} /\ replies = {}
    /\ handed = [r \in Req |-> {}]
    /\ loop = "idle" /\ current = 0 /\ job = NoJob /\ polls = 0 /\ closes = 0

Unanswered == {r \in Req : answer[r] = "waiting"}

-----------------------------------------------------------------------------
(* The exit.                                                               *)

\* A waiter and its queue entry count twice.
HasRoom == Cardinality(Unanswered) + Len(queue) < MaxQueued

QueuedToo(r) == Append(queue, r)
QueuedUnlessPolled(r) == IF poller = NoPoll THEN Append(queue, r) ELSE queue

HandTo(p, r) ==
    /\ replies' = replies \cup {[poll |-> p, job |-> r]}
    /\ handed' = [handed EXCEPT ![r] = @ \cup {p}]

Exchange(r) ==
    /\ answer[r] = "unasked" /\ registered /\ HasRoom
    /\ answer' = [answer EXCEPT ![r] = "waiting"] /\ timers' = timers \cup {r}
    /\ queue' = QueuedUnlessPolled(r)
    /\ poller' = NoPoll
    /\ IF poller = NoPoll THEN UNCHANGED <<replies, handed>> ELSE HandTo(poller, r)
    /\ UNCHANGED <<registered, loop, current, job, polls, closes>>

TurnAway(r) ==
    /\ answer[r] = "unasked" /\ (registered => ~HasRoom)
    /\ answer' = [answer EXCEPT ![r] = IF registered THEN "full" ELSE "absent"]
    /\ UNCHANGED <<registered, queue, poller, timers, replies, handed, loop, current, job, polls,
                   closes>>

\* The job stays in the queue.
ClientTimeout(r) ==
    /\ r \in timers
    /\ answer' = [answer EXCEPT ![r] = "timeout"] /\ timers' = timers \ {r}
    /\ UNCHANGED <<registered, queue, poller, replies, handed, loop, current, job, polls, closes>>

\* A poll that waited is answered empty by the next one, its own timer or a close.
Empty_(p) == IF p = NoPoll THEN {} ELSE {[poll |-> p, job |-> NoJob]}

PollTimeout ==
    /\ poller # NoPoll
    /\ replies' = replies \cup Empty_(poller)
    /\ poller' = NoPoll
    /\ UNCHANGED <<registered, queue, answer, timers, handed, loop, current, job, polls, closes>>

Forgotten == [r \in Req |-> answer[r]]
ToldClosed == [r \in Req |-> IF r \in Unanswered THEN "closed" ELSE answer[r]]

Close ==
    /\ registered /\ closes < MaxCloses
    /\ registered' = FALSE /\ queue' = <<>> /\ poller' = NoPoll
    /\ replies' = replies \cup Empty_(poller)
    /\ answer' = ToldClosed /\ timers' = timers \ Unanswered
    /\ closes' = closes + 1
    /\ UNCHANGED <<handed, loop, current, job, polls>>

-----------------------------------------------------------------------------
(* The node and its polls.                                                 *)

Poll ==
    /\ loop = "idle" /\ polls < MaxPolls
    /\ polls' = polls + 1 /\ current' = polls' /\ loop' = "polling"
    /\ registered' = TRUE
    /\ IF queue # <<>>
       THEN /\ HandTo(polls', Head(queue))
            /\ queue' = Tail(queue) /\ poller' = poller
       ELSE /\ replies' = replies \cup Empty_(poller)
            /\ poller' = polls'
            /\ UNCHANGED <<queue, handed>>
    /\ UNCHANGED <<answer, timers, job, closes>>

TakeReply(m) ==
    /\ m \in replies /\ loop = "polling" /\ m.poll = current
    /\ replies' = replies \ {m}
    /\ job' = m.job
    /\ loop' = IF m.job = NoJob THEN "idle" ELSE "serving"
    /\ UNCHANGED <<registered, queue, poller, answer, timers, handed, current, polls, closes>>

\* The poll or the answer fails on its way, or the node restarts.
GiveUp ==
    /\ loop # "idle"
    /\ loop' = "idle" /\ job' = NoJob
    /\ UNCHANGED <<registered, queue, poller, answer, timers, replies, handed, current, polls,
                   closes>>

\* respond answers a client that still waits; of another it is told so.
Respond ==
    /\ loop = "serving"
    /\ answer' = IF registered /\ job \in Unanswered
                 THEN [answer EXCEPT ![job] = "answered"] ELSE answer
    /\ timers' = IF registered THEN timers \ {job} ELSE timers
    /\ loop' = "idle" /\ job' = NoJob
    /\ UNCHANGED <<registered, queue, poller, replies, handed, current, polls, closes>>

TunnelNext ==
    \/ \E r \in Req : Exchange(r) \/ TurnAway(r) \/ ClientTimeout(r)
    \/ \E m \in replies : TakeReply(m)
    \/ Poll \/ PollTimeout \/ Close \/ GiveUp \/ Respond

TunnelSpec == TunnelInit /\ [][TunnelNext]_tunnelVars

-----------------------------------------------------------------------------
\* reverse-tunnel.ts:141: "Hand it straight to a waiting poller when there is
\* one; otherwise it waits in the queue". A request whose client waits is in
\* the queue once, or was given to one poll, never both and never neither,
\* through polls abandoned, replaced or timed out and a tunnel closed and
\* opened again; and no job waits in the queue while a poll waits for one.
HandedOnce ==
    /\ \A r \in Unanswered :
          Cardinality(handed[r]) + Cardinality({i \in DOMAIN queue : queue[i] = r}) = 1
    /\ poller # NoPoll => queue = <<>>
=============================================================================
