------------------------------ MODULE Rebuild ------------------------------
(***************************************************************************)
(* rebuild-projections: the Forum collections are dropped one by one and   *)
(* every envelope of the log is projected again, in the order of its log   *)
(* index, with no record of which peer had delivered it. Calls of the      *)
(* node go on meanwhile: they authorize against, and write to, what is     *)
(* being rebuilt.                                                          *)
(*                                                                         *)
(* An idempotent envelope takes its index before its transaction begins,   *)
(* so it may commit after one with a later index; the others reserve a     *)
(* nonce first, and the conflict on the Merkle state keeps them in order.  *)
(***************************************************************************)
EXTENDS ForumProjection, FiniteSets

CONSTANTS
    Own,        \* this server
    Incoming,   \* what clients and peers submit
    Deliverer,  \* the peer that delivers an envelope, or Own
    BatchSize,  \* documents the cursor fetches at a time
    Quiet,      \* premise: the node is stopped while it is rebuilt
    InOrder,    \* premise: transactions commit in the order of their indices
    MaxCalls,   \* bound on the open calls
    MaxRebuilds \* bound on the rebuilds started

Idempotent == {"community", "post", "comment", "delete", "award"}

ASSUME LoggedTyped ==
    /\ IsFiniteSet(Incoming) /\ Incoming \subseteq Envelope
    /\ \A e \in Incoming :
          /\ e.kind = "community" => e.name # None
          /\ e.kind \notin {"post", "community"} => e.target \in Id
          /\ e.kind = "verb" => e.verb # None
    /\ Own \in Server /\ Deliverer \in [Incoming -> Server]
ASSUME RebuildTyped ==
    /\ BatchSize \in Nat \ {0} /\ MaxCalls \in Nat /\ MaxRebuilds \in Nat
    /\ Quiet \in BOOLEAN /\ InOrder \in BOOLEAN

NoIndex == -1
Call == [envelope : Incoming, index : Nat \cup {NoIndex}]
Fields == {"docs", "votes", "karma", "communities", "modlog"}

VARIABLES
    store,      \* the collections
    ideal,      \* what the commits alone have made of them
    log,        \* the committed envelopes with their indices
    nextIndex,  \* MongoEnvelopeStore.next
    opened,      \* calls that were authorized
    phase,      \* what the rebuild is doing
    left,       \* collections it has yet to drop
    at,         \* the index its cursor has come to
    batch,      \* what the cursor has fetched
    rebuilds    \* rebuilds started

rebuildVars == <<store, ideal, log, nextIndex, opened, phase, left, at, batch, rebuilds>>

RebuildTypeOK ==
    /\ store \in Collections /\ ideal \in Collections
    /\ log \subseteq Call /\ opened \subseteq Call /\ batch \subseteq log
    /\ nextIndex \in Nat /\ at \in Nat /\ rebuilds \in Nat
    /\ phase \in {"idle", "drop", "replay", "torn", "done"}
    /\ left \subseteq Fields

RebuildInit ==
    /\ store = Empty /\ ideal = Empty
    /\ log = {} /\ nextIndex = 0 /\ opened = {}
    /\ phase = "idle" /\ left = {} /\ at = 0 /\ batch = {} /\ rebuilds = 0

-----------------------------------------------------------------------------
(* The node.                                                               *)

Running == Quiet => phase \in {"idle", "done"}

Open(e) ==
    /\ Running
    /\ Cardinality(opened) < MaxCalls
    /\ \A c \in opened \cup log : c.envelope # e
    /\ Authorized(store, e, Deliverer[e])
    /\ opened' = opened \cup {[envelope |-> e, index |-> NoIndex]}
    /\ UNCHANGED <<store, ideal, log, nextIndex, phase, left, at, batch, rebuilds>>

\* put allocates before the first operation of the transaction.
TakeIndex(c) ==
    /\ Running
    /\ c \in opened /\ c.index = NoIndex /\ c.envelope.kind \in Idempotent
    /\ opened' = (opened \ {c}) \cup {[c EXCEPT !.index = nextIndex]}
    /\ nextIndex' = nextIndex + 1
    /\ UNCHANGED <<store, ideal, log, phase, left, at, batch, rebuilds>>

CommitCall(c) ==
    LET index == IF c.index = NoIndex THEN nextIndex ELSE c.index
        e == c.envelope IN
    /\ Running
    /\ c \in opened /\ (c.index = NoIndex => e.kind \notin Idempotent)
    /\ InOrder => \A d \in opened : d.index # NoIndex => d.index >= index
    /\ log' = log \cup {[c EXCEPT !.index = index]}
    /\ nextIndex' = IF c.index = NoIndex THEN nextIndex + 1 ELSE nextIndex
    /\ store' = Project(store, e, Deliverer[e])
    /\ ideal' = Project(ideal, e, Deliverer[e])
    /\ opened' = opened \ {c}
    /\ UNCHANGED <<phase, left, at, batch, rebuilds>>

-----------------------------------------------------------------------------
(* The rebuild.                                                            *)

AllButKarma == Fields \ {"karma"}
Derived == Fields

\* reset lists the collections; the node is stopped first, if it is.
StartRebuild ==
    /\ phase \in {"idle", "torn", "done"} /\ rebuilds < MaxRebuilds
    /\ phase' = "drop" /\ left' = Derived /\ at' = 0 /\ batch' = {}
    /\ rebuilds' = rebuilds + 1
    /\ opened' = IF Quiet THEN {} ELSE opened
    /\ UNCHANGED <<store, ideal, log, nextIndex>>

DropCollection(f) ==
    /\ phase = "drop" /\ f \in left
    /\ store' = [store EXCEPT ![f] = Empty[f]]
    /\ left' = left \ {f}
    /\ phase' = IF left' = {} THEN "replay" ELSE "drop"
    /\ UNCHANGED <<ideal, log, nextIndex, opened, at, batch, rebuilds>>

Ahead == {c \in log : c.index >= at}

\* range: the next documents by log index.
Fetch ==
    /\ phase = "replay" /\ batch = {} /\ Ahead # {}
    /\ batch' = {c \in Ahead : Cardinality({d \in Ahead : d.index < c.index}) < BatchSize}
    /\ UNCHANGED <<store, ideal, log, nextIndex, opened, phase, left, at, rebuilds>>

AnyOf(c, entries) == TRUE
FirstOf(c, entries) == \A d \in entries : c.index <= d.index

\* project without a context: every envelope is taken for this server's own.
ReplayOne(c) ==
    /\ phase = "replay" /\ c \in batch /\ FirstOf(c, batch)
    /\ store' = Project(store, c.envelope, Own)
    /\ batch' = batch \ {c} /\ at' = c.index + 1
    /\ UNCHANGED <<ideal, log, nextIndex, opened, phase, left, rebuilds>>

FinishRebuild ==
    /\ phase = "replay" /\ batch = {} /\ Ahead = {}
    /\ phase' = "done"
    /\ UNCHANGED <<store, ideal, log, nextIndex, opened, left, at, batch, rebuilds>>

\* The script dies; it is run again.
TearRebuild ==
    /\ phase \in {"drop", "replay"}
    /\ phase' = "torn" /\ left' = {} /\ batch' = {}
    /\ UNCHANGED <<store, ideal, log, nextIndex, opened, at, rebuilds>>

RebuildNext ==
    \/ \E e \in Incoming : Open(e)
    \/ \E c \in opened : TakeIndex(c) \/ CommitCall(c)
    \/ StartRebuild \/ Fetch \/ FinishRebuild \/ TearRebuild
    \/ \E f \in Fields : DropCollection(f)
    \/ \E c \in batch : ReplayOne(c)

RebuildSpec == RebuildInit /\ [][RebuildNext]_rebuildVars

-----------------------------------------------------------------------------
\* P1-G3, cli/index.ts:1: a rebuild "reconstructs every derived Forum
\* collection byte-identically". Once it has come to its end the collections
\* are what the commits had made of them, however often it was torn before.
RebuildReproduces == phase \in {"idle", "done"} => store = ideal

\* The same, for a node that is stopped first, whose transactions commit in
\* the order of their indices, and whose communities are its own.
OrderlyRebuild ==
    /\ Quiet /\ InOrder
    /\ \A e \in Incoming : e.kind = "community" => Deliverer[e] = Own

OrderlyRebuildReproduces == OrderlyRebuild => RebuildReproduces
=============================================================================
