------------------------------ MODULE CatchUp ------------------------------
(***************************************************************************)
(* Catching up with one peer. connect shakes hands, pulls the peer's log   *)
(* from a durable cursor, moves the cursor to the peer's advertised tree   *)
(* size, and opens a stream from there. Connections overlap: one is made   *)
(* at boot and one whenever the uplinks change.                            *)
(*                                                                         *)
(* The peer's log is the set of log indices it has committed. An index is  *)
(* taken before its transaction commits, and the transaction may abort; it *)
(* may commit after one with a later index (an idempotent envelope fixes   *)
(* its snapshot only when it is inserted). A restart wastes the rest of    *)
(* the index block. The tree size counts commits, yet the cursor and the   *)
(* range of a backfill are compared with indices.                          *)
(*                                                                         *)
(* An envelope is named by its index, and one plane is modelled.           *)
(***************************************************************************)
EXTENDS Integers

CONSTANTS
    Connection,     \* overlapping calls of connect, with their streams
    BlockSize,      \* indices the peer reserves at a time
    MaxBackfill,    \* MAX_BACKFILL, or Unbounded
    StreamLimit,    \* DEFAULT_STREAM_LIMIT, or Unbounded
    InOrder,        \* premise: the peer's transactions commit in index order
    AllAnswered,    \* premise: no frame is refused for a passing reason
    MaxIndex,       \* bound on the peer's indices
    Unbounded, Closed

ASSUME SyncTyped ==
    /\ BlockSize \in Nat \ {0} /\ MaxIndex \in Nat
    /\ InOrder \in BOOLEAN /\ AllAnswered \in BOOLEAN
    /\ MaxBackfill \in Nat \cup {Unbounded} /\ StreamLimit \in Nat \cup {Unbounded}
    /\ Unbounded \notin Nat

VARIABLES
    next,       \* the peer's next index
    pending,    \* indices of its open transactions
    log,        \* indices it has committed
    size,       \* leaves of its tree
    advertised, \* the size of the last head this node recorded; 0 for none
    cursor,     \* streamPosition
    stored,     \* what this node holds of the peer's log
    refused,    \* what it has refused for good
    conn        \* what each connection is doing

syncVars == <<next, pending, log, size, advertised, cursor, stored, refused, conn>>

SyncSteps == {"announced", "positioned", "backfill", "recorded", "opening", "stream", "done"}

\* A connection: the range it reads, the next index to look at, the frames
\* it has had in this pass, and what the peer's log held when it began.
Pass == [step : SyncSteps, from : Nat, to : Nat \cup {Unbounded}, at : Nat, count : Nat,
         promised : SUBSET Nat]

ASSUME IdleIsNoPass == Closed \notin Pass

SyncTypeOK ==
    /\ next \in Nat /\ size \in Nat /\ advertised \in Nat /\ cursor \in Nat
    /\ pending \subseteq Nat /\ log \subseteq Nat /\ stored \subseteq Nat /\ refused \subseteq Nat
    /\ conn \in [Connection -> Pass \cup {Closed}]

SyncInit ==
    /\ next = 0 /\ size = 0 /\ advertised = 0 /\ cursor = 0
    /\ pending = {} /\ log = {} /\ stored = {} /\ refused = {}
    /\ conn = [c \in Connection |-> Closed]

-----------------------------------------------------------------------------
(* The peer.                                                               *)

Allocate ==
    /\ next < MaxIndex
    /\ pending' = pending \cup {next}
    /\ next' = next + 1
    /\ UNCHANGED <<log, size, advertised, cursor, stored, refused, conn>>

Commit(i) ==
    /\ i \in pending
    /\ InOrder => \A j \in pending : i <= j
    /\ pending' = pending \ {i}
    /\ log' = log \cup {i}
    /\ size' = size + 1
    /\ UNCHANGED <<next, advertised, cursor, stored, refused, conn>>

Abort(i) ==
    /\ i \in pending
    /\ pending' = pending \ {i}
    /\ UNCHANGED <<next, log, size, advertised, cursor, stored, refused, conn>>

\* The next put of the new process reserves a new block.
PeerRestart ==
    /\ next % BlockSize # 0
    /\ next' = next + (BlockSize - (next % BlockSize))
    /\ pending' = {}
    /\ UNCHANGED <<log, size, advertised, cursor, stored, refused, conn>>

\* The peer's outbox delivers, or another peer does.
Push(i) ==
    /\ i \in log \ stored
    /\ stored' = stored \cup {i}
    /\ UNCHANGED <<next, pending, log, size, advertised, cursor, refused, conn>>

-----------------------------------------------------------------------------
(* This node.                                                              *)

ConnAt(c, step) == conn[c] # Closed /\ conn[c].step = step
ConnGoto(c, pass) == conn' = [conn EXCEPT ![c] = pass]

\* The handshake records the head the peer answers with, and so does gossip.
Connect(c) ==
    /\ conn[c] = Closed \/ ConnAt(c, "done")
    /\ advertised' = size
    /\ ConnGoto(c, [step |-> "announced", from |-> 0, to |-> Unbounded, at |-> 0, count |-> 0,
                promised |-> log])
    /\ UNCHANGED <<next, pending, log, size, cursor, stored, refused>>

Gossip ==
    /\ advertised' = size
    /\ UNCHANGED <<next, pending, log, size, cursor, stored, refused, conn>>

ReadCursor(c) ==
    /\ ConnAt(c, "announced")
    /\ ConnGoto(c, [conn[c] EXCEPT !.step = "positioned", !.from = cursor, !.at = cursor])
    /\ UNCHANGED <<next, pending, log, size, advertised, cursor, stored, refused>>

\* toIndex 0 asks for everything.
StartBackfill(c) ==
    /\ ConnAt(c, "positioned")
    /\ ConnGoto(c, [conn[c] EXCEPT !.step = "backfill",
                               !.to = IF advertised = 0 THEN Unbounded ELSE advertised])
    /\ UNCHANGED <<next, pending, log, size, advertised, cursor, stored, refused>>

\* select: what is left of the range, in the order of the log.
SkipsFirst(pass, i) == i > pass.at /\ (pass.to # Unbounded => i < pass.to)
InRange(pass, i) == i >= pass.at /\ (pass.to # Unbounded => i < pass.to)
AtLimit(pass) ==
    LET limit == IF pass.step = "backfill" THEN MaxBackfill ELSE StreamLimit
    IN  limit # Unbounded /\ pass.count >= limit
Remaining(pass) == {i \in log : InRange(pass, i)}
Over(pass) == AtLimit(pass) \/ Remaining(pass) = {}

\* The pipeline takes the frame, or answers a duplicate; refuses it for good;
\* or refuses it for now. Either way the loop goes on.
Frame(c, i) ==
    /\ ConnAt(c, "backfill") \/ ConnAt(c, "stream")
    /\ ~AtLimit(conn[c]) /\ i \in Remaining(conn[c]) /\ \A j \in Remaining(conn[c]) : i <= j
    /\ ConnGoto(c, [conn[c] EXCEPT !.at = i + 1, !.count = @ + 1])
    /\ \/ stored' = stored \cup {i} /\ UNCHANGED refused
       \/ refused' = refused \cup {i} /\ UNCHANGED stored
       \/ ~AllAnswered /\ UNCHANGED <<stored, refused>>
    /\ UNCHANGED <<next, pending, log, size, advertised, cursor>>

LastAcknowledged(a, b) == b
\* $max
Further(a, b) == IF a > b THEN a ELSE b

EndBackfill(c) ==
    LET b == conn[c] IN
    /\ ConnAt(c, "backfill") /\ Over(b)
    /\ cursor' = IF b.to # Unbounded /\ b.to > b.from THEN Further(cursor, b.to) ELSE cursor
    /\ ConnGoto(c, [b EXCEPT !.step = "recorded", !.count = 0])
    /\ UNCHANGED <<next, pending, log, size, advertised, stored, refused>>

\* startStream aborts the stream before it ...
StartStream(c) ==
    /\ ConnAt(c, "recorded")
    /\ conn' = [x \in Connection |->
          IF x = c THEN [conn[c] EXCEPT !.step = "opening"]
          ELSE IF ConnAt(x, "opening") \/ ConnAt(x, "stream") THEN Closed ELSE conn[x]]
    /\ UNCHANGED <<next, pending, log, size, advertised, cursor, stored, refused>>

OnePast(c) == cursor + 1
Since(c) == cursor

\* ... and pump reads the cursor again and streams from there.
OpenStream(c) ==
    /\ ConnAt(c, "opening")
    /\ ConnGoto(c, [conn[c] EXCEPT !.step = "stream", !.from = Since(c), !.at = Since(c),
                               !.to = Unbounded])
    /\ UNCHANGED <<next, pending, log, size, advertised, cursor, stored, refused>>

EndStream(c) ==
    /\ ConnAt(c, "stream") /\ Over(conn[c])
    /\ ConnGoto(c, [conn[c] EXCEPT !.step = "done"])
    /\ UNCHANGED <<next, pending, log, size, advertised, cursor, stored, refused>>

\* The link breaks, or reevaluate stops the stream.
Break(c) ==
    /\ conn[c] # Closed
    /\ ConnGoto(c, Closed)
    /\ UNCHANGED <<next, pending, log, size, advertised, cursor, stored, refused>>

\* This node restarts: the cursor and the recorded head are durable.
NodeRestart ==
    /\ conn' = [c \in Connection |-> Closed]
    /\ UNCHANGED <<next, pending, log, size, advertised, cursor, stored, refused>>

SyncNext ==
    \/ Allocate \/ PeerRestart \/ Gossip \/ NodeRestart
    \/ \E i \in pending : Commit(i) \/ Abort(i)
    \/ \E i \in log : Push(i)
    \/ \E c \in Connection :
          \/ Connect(c) \/ ReadCursor(c) \/ StartBackfill(c) \/ EndBackfill(c)
          \/ StartStream(c) \/ OpenStream(c) \/ EndStream(c) \/ Break(c)
          \/ \E i \in log : Frame(c, i)

SyncSpec == SyncInit /\ [][SyncNext]_syncVars

-----------------------------------------------------------------------------
\* NFR-R07, mongo-federation.ts:139: a late acknowledgement "must never rewind
\* the cursor", of however many connections.
CursorMovesOn == [][cursor' >= cursor]_syncVars

\* federation-sync.ts:137-140: the advertised size may only undershoot, for
\* "overshooting silently loses content forever". Nothing fetches what lies
\* below the cursor again, so all of it must have been stored or refused.
PassedIsSettled == \A i \in log : i < cursor => i \in stored \cup refused

\* The same, for a peer whose transactions commit in the order of their
\* indices, a backfill that is not cut short, and no passing refusals.
OrderlyPeer == InOrder /\ AllAnswered /\ MaxBackfill = Unbounded

OrderlyPassedIsSettled == OrderlyPeer => PassedIsSettled

\* federation-sync.ts:227-228: connect backfills first, "so nothing published
\* during the gap is lost (FG-04)". A connection whose stream has come to its
\* end has settled all the peer had when it began.
CaughtUp ==
    \A c \in Connection : ConnAt(c, "done") => conn[c].promised \subseteq stored \cup refused

OrderlyCaughtUp == OrderlyPeer /\ StreamLimit = Unbounded => CaughtUp
=============================================================================
