----------------------------- MODULE TreeHeads -----------------------------
(***************************************************************************)
(* Fork detection. A peer signs heads of its append-only log; they reach   *)
(* this node through four paths, in any order and any number of times;     *)
(* observePeerSth compares each with the one head the ledger holds.        *)
(*                                                                         *)
(* currentSth reads the tree, then stamps the clock, so calls that overlap *)
(* stamp out of order and calls within a millisecond stamp alike. In       *)
(* observePeerSth the comparison sits between two awaits: the read of the  *)
(* ledger and the unconditional write to it.                               *)
(*                                                                         *)
(* An honest log's root is a function of its size, so Honest stands for    *)
(* all of its roots. Heads are taken as genuinely signed.                  *)
(***************************************************************************)
EXTENDS Naturals

CONSTANTS
    Signer,         \* overlapping calls of currentSth at the peer
    Observer,       \* overlapping calls of observePeerSth at this node
    DistinctStamps, \* premise: the peer never stamps two heads alike
    MaxSize,        \* bound on the peer's log
    MaxClock,       \* bound on the clock, in milliseconds
    MaxLies,        \* bound on the heads signed for a log that is not the peer's
    NoHead,         \* lastPeerSth is null
    Resting

Keys == {"peer", "other"}
TreeRoots == {"honest", "rewritten"}
Head == [key : Keys, size : Nat, root : TreeRoots, time : Nat]

ASSUME BoundsTyped == MaxSize \in Nat /\ MaxClock \in Nat /\ MaxLies \in Nat
ASSUME PremiseTyped == DistinctStamps \in BOOLEAN
ASSUME NoHeadIsNone == NoHead \notin Head
ASSUME IdleIsNoCheck == Resting \notin Nat /\ Resting \notin [head : Head, previous : Head \cup {NoHead}]

VARIABLES
    leaves,     \* leaves of the peer's log
    clock,      \* the peer's clock
    signing,    \* the size each currentSth has read and has yet to stamp
    heads,      \* heads sent; a head may be delivered again and again
    lies,       \* how many of them the peer signed for another history
    ledger,     \* the ledger's head of this peer
    checking,   \* what each observePeerSth compares
    blocked     \* the peer was found to have forked

headVars == <<leaves, clock, signing, heads, lies, ledger, checking, blocked>>

HeadsTypeOK ==
    /\ leaves \in Nat /\ clock \in Nat /\ lies \in Nat
    /\ signing \in [Signer -> Nat \cup {Resting}]
    /\ heads \subseteq Head
    /\ ledger \in Head \cup {NoHead}
    /\ checking \in [Observer -> [head : Head, previous : Head \cup {NoHead}] \cup {Resting}]
    /\ blocked \in BOOLEAN

HeadsInit ==
    /\ leaves = 0 /\ clock = 1 /\ lies = 0
    /\ signing = [s \in Signer |-> Resting]
    /\ heads = {}
    /\ ledger = NoHead
    /\ checking = [o \in Observer |-> Resting]
    /\ blocked = FALSE

-----------------------------------------------------------------------------
(* The peer.                                                               *)

Grow ==
    /\ leaves < MaxSize
    /\ leaves' = leaves + 1
    /\ UNCHANGED <<clock, signing, heads, lies, ledger, checking, blocked>>

ClockTick ==
    /\ clock < MaxClock
    /\ clock' = clock + 1
    /\ UNCHANGED <<leaves, signing, heads, lies, ledger, checking, blocked>>

\* currentSth: the state is read ...
ReadTree(s) ==
    /\ signing[s] = Resting
    /\ signing' = [signing EXCEPT ![s] = leaves]
    /\ UNCHANGED <<leaves, clock, heads, lies, ledger, checking, blocked>>

\* ... and what was read is stamped with the clock, and sent.
Stamp(s) ==
    /\ signing[s] # Resting
    /\ DistinctStamps => \A h \in heads : h.time # clock
    /\ heads' = heads \cup
          {[key |-> "peer", size |-> signing[s], root |-> "honest", time |-> clock]}
    /\ signing' = [signing EXCEPT ![s] = Resting]
    /\ UNCHANGED <<leaves, clock, lies, ledger, checking, blocked>>

\* The peer signs a head of a rewritten log.
Lie ==
    /\ lies < MaxLies
    /\ lies' = lies + 1
    /\ \E n \in 0 .. MaxSize, root \in TreeRoots :
          heads' = heads \cup {[key |-> "peer", size |-> n, root |-> root, time |-> clock]}
    /\ UNCHANGED <<leaves, clock, signing, ledger, checking, blocked>>

\* A relayed head that belongs to another log, or to none. Bound: one.
Misattribute ==
    /\ \A h \in heads : h.key = "peer"
    /\ \E n \in 0 .. MaxSize :
          heads' = heads \cup {[key |-> "other", size |-> n, root |-> "rewritten", time |-> clock]}
    /\ UNCHANGED <<leaves, clock, signing, lies, ledger, checking, blocked>>

-----------------------------------------------------------------------------
(* This node: observePeerSth.                                              *)

AnyKey(head) == TRUE
OwnKey(head) == head.key = "peer"

\* A head that is not the peer's own is discarded; lastPeerSth is read.
Observe(o) ==
    /\ checking[o] = Resting
    /\ \E h \in heads :
          /\ OwnKey(h)
          /\ checking' = [checking EXCEPT ![o] = [head |-> h, previous |-> ledger]]
    /\ UNCHANGED <<leaves, clock, signing, heads, lies, ledger, blocked>>

NeverStale(head, previous) == FALSE

Stale(head, previous) == previous # NoHead /\ head.time < previous.time

\* regressed, or rewritten.
Contradicts(head, previous) ==
    /\ previous # NoHead
    /\ \/ head.size < previous.size
       \/ head.size = previous.size /\ head.root # previous.root

\* The verdict: stale heads are dropped, a contradiction blocks, and any
\* other head replaces the ledger's, whatever it has become.
Conclude(o) ==
    LET head == checking[o].head
        previous == checking[o].previous IN
    /\ checking[o] # Resting
    /\ \/ /\ Stale(head, previous)
          /\ UNCHANGED <<ledger, blocked>>
       \/ /\ ~Stale(head, previous) /\ Contradicts(head, previous)
          /\ blocked' = TRUE
          /\ UNCHANGED ledger
       \/ /\ ~Stale(head, previous) /\ ~Contradicts(head, previous)
          /\ ledger' = head
          /\ UNCHANGED blocked
    /\ checking' = [checking EXCEPT ![o] = Resting]
    /\ UNCHANGED <<leaves, clock, signing, heads, lies>>

\* This node restarts: the ledger is durable, calls are not.
ObserverRestart ==
    /\ checking' = [o \in Observer |-> Resting]
    /\ UNCHANGED <<leaves, clock, signing, heads, lies, ledger, blocked>>

HeadsNext ==
    \/ Grow \/ ClockTick
    \/ \E s \in Signer : ReadTree(s) \/ Stamp(s)
    \/ Lie \/ Misattribute
    \/ \E o \in Observer : Observe(o) \/ Conclude(o)
    \/ ObserverRestart

HeadsSpec == HeadsInit /\ [][HeadsNext]_headVars

-----------------------------------------------------------------------------
\* federation-inbox.ts:478-499: reordered and repeated observations of an
\* honest log are "NOT evidence of anything". A peer that signed only its
\* own history is never blocked, whatever order its heads arrive in.
HonestNeverBlocked == lies = 0 => ~blocked

\* The same, for a peer whose heads are stamped in the order of their sizes:
\* one at a time, and no two alike.
OrderlyStamps == DistinctStamps /\ \A s, t \in Signer : s = t

OrderlyNeverBlocked == OrderlyStamps /\ lies = 0 => ~blocked

\* One head of a log after another of the same log.
Follows(later, earlier) ==
    /\ later.time >= earlier.time
    /\ later.size >= earlier.size
    /\ later.size = earlier.size => later.root = earlier.root

\* federation-inbox.ts:459: "any check that can BLOCK must first verify the
\* claim belongs to the peer it names". A peer is blocked only if it has itself
\* signed two heads of which the one stamped no earlier does not follow the
\* other: whoever relayed them, however often and in whatever order, and
\* whatever a ledger that overlapping observations rolled back was holding.
BlockedOnEvidence ==
    blocked =>
        \E later, earlier \in {h \in heads : h.key = "peer"} :
            later.time >= earlier.time /\ ~Follows(later, earlier)

\* federation-inbox.ts:494-496: recording an older head "would roll the
\* ledger backwards". Each head the ledger takes follows the one it replaces.
LedgerOnlyGrows ==
    [][ledger # NoHead => ledger' # NoHead /\ Follows(ledger', ledger)]_headVars
=============================================================================
