------------------------------- MODULE Ingress -------------------------------
(***************************************************************************)
(* IngressPipeline.accept: the 19-step pipeline every envelope runs,       *)
(* whichever transport it arrived on, over the Mongo stores it writes.     *)
(* Each submission is one call of accept; calls interleave at every await, *)
(* the process may crash between any two steps, and a transaction may be   *)
(* aborted by a write conflict and run again by withTransaction.           *)
(*                                                                         *)
(* Data abstraction.  An envelope is its content id.  Its author, nonce,   *)
(* nullifier and registry row (idempotent, cost, federate) are constant    *)
(* functions of it, because the content id is a hash of the fields that    *)
(* fix them.  Hashes, signatures and keys are abstracted away.             *)
(***************************************************************************)
EXTENDS Naturals, Sequences, FiniteSets

CONSTANTS
    Req,            \* submissions: one call of accept each
    Content,        \* content ids
    Peer,           \* federation peers
    Local,          \* LOCAL_ORIGIN, the origin that carries no peerId
    Nonce,          \* (author key, nonce) pairs
    NonceOf,        \* the pair an envelope carries
    IdempotentC,    \* contents whose registry row is idempotent
    Nullifier,      \* (nullifier, epoch, scope) triples
    NoNullifier,    \* the row does not list the NULLIFIER gate
    NullifierOf,    \* the triple an envelope claims
    Subject,        \* credit subjects
    SubjectOf,      \* creditSubjectFor
    CostOf,         \* creditCost of the envelope's registry row
    InitCredits,    \* credits a subject starts with
    FederatedC,     \* contents whose registry row federates
    BlockSize,      \* log indices reserved per counter update (256 in the code)
    MaxAborts,      \* bound on aborts by a transaction that is still open
    MaxCrashes,     \* bound on process crashes
    NoReceipt       \* no receipt is stored, or none was given

ASSUME LocalIsNoPeer == Local \notin Peer
ASSUME BlockSizeIsPositive == BlockSize \in Nat \ {0}
ASSUME BoundsAreNaturals ==
    /\ MaxAborts \in Nat /\ MaxCrashes \in Nat /\ InitCredits \in Nat
ASSUME EnvelopeFieldsTyped ==
    /\ NonceOf \in [Content -> Nonce]
    /\ NullifierOf \in [Content -> Nullifier \cup {NoNullifier}]
    /\ NoNullifier \notin Nullifier
    /\ SubjectOf \in [Content -> Subject]
    /\ CostOf \in [Content -> Nat]
    /\ IdempotentC \subseteq Content /\ FederatedC \subseteq Content

Origin == Peer \cup {Local}

\* A receipt names both positions the content was given: the storage log
\* index, reserved in blocks, and the Merkle leaf index, dense.
Receipt == [content : Content, logIndex : Nat, leafIndex : Nat, treeSize : Nat]

ASSUME NoReceiptIsNone == NoReceipt \notin Receipt

VARIABLES
    receiptOf,   \* envelopes collection: the receipt persisted with each content
    originOf,    \* federation ledger, direction IN: where each content came from
    leaves,      \* merkle_leaves in index order
    nonces,      \* ingress_nonces
    claimed,     \* Redis nullifier keys
    credits,     \* Redis credit balances
    outbox,      \* federation_outbox rows, <<content, peer>>
    counter,     \* counters document envelope_log_index
    next, end,   \* MongoEnvelopeStore.next and .end: the block in memory
    pc,          \* where each submission is
    content,     \* the envelope each submission carries
    origin,      \* its IngressOrigin
    index,       \* the log index (or block start) it holds
    leaf,        \* the leaf index witness.append returned
    snapshot,    \* leaves when its transaction began
    aborts,      \* aborts by a transaction still open, so far
    answer,      \* the receipt it resolved to
    crashes      \* process crashes so far

stores == <<receiptOf, originOf, leaves, nonces, claimed, credits, outbox, counter>>
memory == <<next, end>>
calls == <<pc, content, origin, index, leaf, snapshot, aborts, answer>>
vars == <<stores, memory, calls, crashes>>

InTx == {"reserve", "allocate", "install", "insert", "append", "commit"}
\* The typed codes a refusal carries; those of steps 1 to 10 are one.
Codes == {"INVALID", "REPLAY", "CREDENTIAL_INVALID", "NULLIFIER_SPENT",
          "INSUFFICIENT_CREDITS", "FORBIDDEN"}
Finished == {"answered", "failed", "lost"} \cup Codes
Steps == InTx \cup Finished
    \cup {"idle", "dedupe", "replay", "claim", "charge", "authorise", "fanout"}

TypeOK ==
    /\ receiptOf \in [Content -> Receipt \cup {NoReceipt}]
    /\ originOf \in [Content -> Origin]
    /\ leaves \in Seq(Content)
    /\ nonces \subseteq Nonce
    /\ claimed \subseteq Nullifier
    /\ credits \in [Subject -> Nat]
    /\ outbox \subseteq Content \X Peer
    /\ counter \in Nat /\ next \in Nat /\ end \in Nat
    /\ pc \in [Req -> Steps]
    /\ content \in [Req -> Content]
    /\ origin \in [Req -> Origin]
    /\ index \in [Req -> Nat]
    /\ leaf \in [Req -> Nat]
    /\ snapshot \in [Req -> Nat]
    /\ aborts \in [Req -> Nat]
    /\ answer \in [Req -> Receipt \cup {NoReceipt}]
    /\ crashes \in Nat

Init ==
    /\ receiptOf = [c \in Content |-> NoReceipt]
    /\ originOf = [c \in Content |-> Local]
    /\ leaves = <<>> /\ nonces = {} /\ claimed = {}
    /\ credits = [s \in Subject |-> InitCredits]
    /\ outbox = {}
    /\ counter = 0 /\ next = 0 /\ end = 0
    /\ pc = [r \in Req |-> "idle"]
    /\ content \in [Req -> Content]
    /\ origin \in [Req -> Origin]
    /\ index = [r \in Req |-> 0]
    /\ leaf = [r \in Req |-> 0]
    /\ snapshot = [r \in Req |-> 0]
    /\ aborts = [r \in Req |-> 0]
    /\ answer = [r \in Req |-> NoReceipt]
    /\ crashes = 0

Stored(c) == receiptOf[c] # NoReceipt

Goto(r, step) == pc' = [pc EXCEPT ![r] = step]

Locals == <<content, origin, index, leaf, snapshot, aborts, answer>>

Reject(r, code) == Goto(r, code) /\ UNCHANGED <<stores, memory, Locals, crashes>>

-----------------------------------------------------------------------------
(* Steps 1 to 15, before the transaction.                                  *)

\* accept is called. The pure checks of steps 1 to 10 either pass or throw.
Submit(r) ==
    /\ pc[r] = "idle"
    /\ \E step \in {"dedupe", "INVALID"} : Goto(r, step)
    /\ UNCHANGED <<stores, memory, Locals, crashes>>

\* DUPLICATE is answered with the stored receipt (receiptForExisting).
AnswerStored(r) ==
    /\ Goto(r, "answered")
    /\ answer' = [answer EXCEPT ![r] = receiptOf[content[r]]]
    /\ UNCHANGED <<stores, memory, content, origin, index, leaf, snapshot, aborts, crashes>>

\* Step 11. reader.has, then reader.get: an envelope is never deleted.
Dedupe(r) ==
    /\ pc[r] = "dedupe"
    /\ \/ /\ Stored(content[r])
          /\ AnswerStored(r)
       \/ /\ ~Stored(content[r])
          /\ Goto(r, "replay")
          /\ UNCHANGED <<stores, memory, Locals, crashes>>

NonceUsed(r) == content[r] \notin IdempotentC /\ NonceOf[content[r]] \in nonces

\* Step 12, a read; step 13 is skipped for an envelope a peer delivered.
Replay(r) ==
    /\ pc[r] = "replay"
    /\ \/ NonceUsed(r) /\ Reject(r, "REPLAY")
       \/ /\ ~NonceUsed(r)
          /\ Goto(r, IF origin[r] = Local THEN "claim" ELSE "authorise")
          /\ UNCHANGED <<stores, memory, Locals, crashes>>

NeverSpent(n) == FALSE

\* SET NX on the nullifier's key fails.
Spent(n) == n \in claimed

\* Step 13, first half. Proof of work and credential are read-only and may
\* fail; the nullifier claim is SET NX and is never taken back.
Claim(r) ==
    LET n == NullifierOf[content[r]] IN
    /\ pc[r] = "claim"
    /\ \/ Reject(r, "CREDENTIAL_INVALID")
       \/ Spent(n) /\ Reject(r, "NULLIFIER_SPENT")
       \/ /\ ~Spent(n)
          /\ claimed' = IF n = NoNullifier THEN claimed ELSE claimed \cup {n}
          /\ Goto(r, "charge")
          /\ UNCHANGED <<receiptOf, originOf, leaves, nonces, credits, outbox, counter>>
          /\ UNCHANGED <<memory, Locals, crashes>>

AlwaysAffordable(s, cost) == TRUE
Unbilled(s, cost) == credits

\* Step 13, second half. The consume script decrements or refuses, atomically.
Affordable(s, cost) == credits[s] >= cost
Debit(s, cost) == [credits EXCEPT ![s] = @ - cost]

Charge(r) ==
    LET s == SubjectOf[content[r]]
        cost == CostOf[content[r]] IN
    /\ pc[r] = "charge"
    /\ \/ /\ ~Affordable(s, cost)
          /\ Reject(r, "INSUFFICIENT_CREDITS")
       \/ /\ Affordable(s, cost)
          /\ credits' = Debit(s, cost)
          /\ Goto(r, "authorise")
          /\ UNCHANGED <<receiptOf, originOf, leaves, nonces, claimed, outbox, counter>>
          /\ UNCHANGED <<memory, Locals, crashes>>

\* Steps 14 and 15. The handler may refuse; neither step writes.
Authorise(r) ==
    /\ pc[r] = "authorise"
    /\ \E step \in {"reserve", "FORBIDDEN"} : Goto(r, step)
    /\ UNCHANGED <<stores, memory, Locals, crashes>>

-----------------------------------------------------------------------------
(* Steps 16 and 17: the callback withTransaction runs, once or again.      *)

\* Submissions whose transaction has written, and not committed, the row.
HoldsNonce(q, n) ==
    /\ pc[q] \in {"allocate", "install", "insert", "append", "commit"}
    /\ content[q] \notin IdempotentC
    /\ NonceOf[content[q]] = n
HoldsContent(q, c) == pc[q] \in {"append", "commit"} /\ content[q] = c
HoldsTree(q) == pc[q] = "commit"

\* A write conflict aborts the transaction; withTransaction runs it again,
\* and meets the same conflict while the other transaction stays open: that
\* spinning is bounded, after which the model waits for the other to end.
RerunStatement(r) ==
    /\ Goto(r, pc[r])
    /\ UNCHANGED <<stores, memory, content, origin, index, leaf, snapshot, answer, crashes>>

Abort(r) ==
    /\ index' = [index EXCEPT ![r] = 0]
    /\ Goto(r, "reserve")
    /\ UNCHANGED <<stores, memory, content, origin, leaf, snapshot, answer, crashes>>

Spin(r) ==
    /\ aborts[r] < MaxAborts
    /\ aborts' = [aborts EXCEPT ![r] = @ + 1]
    /\ Abort(r)

NoReserve(r) == FALSE

\* nonces.reserve found the row another transaction committed.
NonceTaken(r) == NonceUsed(r)

\* The transaction's first operation fixes its snapshot: nonces.reserve, or
\* the insert when there is no nonce to reserve.
Begin(r) == snapshot' = [snapshot EXCEPT ![r] = Len(leaves)]

TxReserve(r) ==
    /\ pc[r] = "reserve"
    /\ \/ NonceTaken(r) /\ Reject(r, "REPLAY")
       \/ /\ ~NonceTaken(r)
          /\ content[r] \notin IdempotentC =>
                \A q \in Req \ {r} : ~HoldsNonce(q, NonceOf[content[r]])
          /\ IF content[r] \in IdempotentC THEN UNCHANGED snapshot ELSE Begin(r)
          /\ Goto(r, "allocate")
          /\ UNCHANGED <<stores, memory, content, origin, index, leaf, aborts, answer, crashes>>

\* allocate, from the block in memory.
AllocateFromBlock(r) ==
    /\ pc[r] = "allocate"
    /\ next < end
    /\ next' = next + 1
    /\ index' = [index EXCEPT ![r] = next]
    /\ Goto(r, "insert")
    /\ UNCHANGED <<stores, end, content, origin, leaf, snapshot, aborts, answer, crashes>>

\* allocate, no index left: $inc the counter. The reply is processed later.
ReserveBlock(r) ==
    /\ pc[r] = "allocate"
    /\ next >= end
    /\ counter' = counter + BlockSize
    /\ index' = [index EXCEPT ![r] = counter]
    /\ Goto(r, "install")
    /\ UNCHANGED <<receiptOf, originOf, leaves, nonces, claimed, credits, outbox>>
    /\ UNCHANGED <<memory, content, origin, leaf, snapshot, aborts, answer, crashes>>

ReuseFirst(start) == start

\* The block's first index is used at once.
AfterFirst(start) == start + 1

\* The reply replaces the block in memory, whatever another call left there.
InstallBlock(r) ==
    /\ pc[r] = "install"
    /\ next' = AfterFirst(index[r])
    /\ end' = index[r] + BlockSize
    /\ Goto(r, "insert")
    /\ UNCHANGED <<stores, Locals, crashes>>

NoUniqueIndex(c) == FALSE

\* The insert fails on the unique _id.
DuplicateKey(c) == Stored(c)

\* writer.put: the unique _id decides. DuplicateContentError becomes the
\* stored receipt once the transaction has been abandoned.
TxInsert(r) ==
    /\ pc[r] = "insert"
    /\ \/ /\ DuplicateKey(content[r])
          /\ AnswerStored(r)
       \/ /\ ~DuplicateKey(content[r])
          /\ \A q \in Req \ {r} : ~HoldsContent(q, content[r])
          /\ IF content[r] \in IdempotentC THEN Begin(r) ELSE UNCHANGED snapshot
          /\ Goto(r, "append")
          /\ UNCHANGED <<stores, memory, content, origin, index, leaf, aborts, answer, crashes>>
       \/ /\ ~DuplicateKey(content[r])
          /\ \E q \in Req \ {r} : HoldsContent(q, content[r])
          /\ Spin(r)

\* Ledger row, handler.project and witness.append: the leaf is the size the
\* snapshot shows, and the update of the Merkle state conflicts when that
\* document was replaced since, or has another open writer.
NoTreeLock(r) == FALSE
TreeOpen(r) == \E q \in Req \ {r} : HoldsTree(q)

TxAppend(r) ==
    /\ pc[r] = "append"
    /\ Len(leaves) = snapshot[r]
    /\ ~TreeOpen(r)
    /\ leaf' = [leaf EXCEPT ![r] = snapshot[r]]
    /\ Goto(r, "commit")
    /\ UNCHANGED <<stores, memory, content, origin, index, snapshot, aborts, answer, crashes>>

TxAppendConflict(r) ==
    /\ pc[r] = "append"
    /\ \/ Len(leaves) # snapshot[r] /\ Abort(r) /\ UNCHANGED aborts
       \/ Len(leaves) = snapshot[r] /\ TreeOpen(r) /\ Spin(r)

LeafFromLogIndex(r) ==
    [content |-> content[r], logIndex |-> index[r], leafIndex |-> index[r],
     treeSize |-> leaf[r] + 1]

\* signReceipt over the tree the transaction sees, recordReceipt, commit.
SignReceipt(r) ==
    [content |-> content[r], logIndex |-> index[r], leafIndex |-> leaf[r],
     treeSize |-> leaf[r] + 1]

TxCommit(r) ==
    /\ pc[r] = "commit"
    /\ receiptOf' = [receiptOf EXCEPT ![content[r]] = SignReceipt(r)]
    /\ originOf' = [originOf EXCEPT ![content[r]] = origin[r]]
    /\ leaves' = Append(leaves, content[r])
    /\ nonces' = IF content[r] \in IdempotentC THEN nonces
                 ELSE nonces \cup {NonceOf[content[r]]}
    /\ Goto(r, "fanout")
    /\ UNCHANGED <<claimed, credits, outbox, counter, memory, Locals, crashes>>

\* Any other error inside the transaction is thrown to the caller.
TxError(r) ==
    /\ pc[r] \in InTx
    /\ Goto(r, "failed")
    /\ UNCHANGED <<stores, memory, Locals, crashes>>

-----------------------------------------------------------------------------
(* Steps 18 and 19, after the commit.                                      *)

FanoutToAll(r) == IF content[r] \in FederatedC THEN Peer ELSE {}

\* excludePeers: the origin is not sent its own envelope back.
FanoutTo(r) ==
    IF content[r] \in FederatedC THEN Peer \ {origin[r]} ELSE {}

\* enqueue writes one row per peer. It may throw part way: the error is
\* swallowed and the caller gets the receipt either way.
Fanout(r) ==
    /\ pc[r] = "fanout"
    /\ \E sent \in SUBSET FanoutTo(r) :
          outbox' = outbox \cup {<<content[r], p>> : p \in sent}
    /\ answer' = [answer EXCEPT ![r] = SignReceipt(r)]
    /\ Goto(r, "answered")
    /\ UNCHANGED <<receiptOf, originOf, leaves, nonces, claimed, credits, counter>>
    /\ UNCHANGED <<memory, content, origin, index, leaf, snapshot, aborts, crashes>>

\* The process dies: memory is lost, open transactions are rolled back and
\* every caller still waiting loses its connection.
Crash ==
    /\ crashes < MaxCrashes
    /\ crashes' = crashes + 1
    /\ next' = 0 /\ end' = 0
    /\ pc' = [r \in Req |->
                IF pc[r] \in Finished \cup {"idle"} THEN pc[r] ELSE "lost"]
    /\ UNCHANGED <<stores, Locals>>

Step(r) ==
    \/ Dedupe(r) \/ Replay(r) \/ Claim(r) \/ Charge(r) \/ Authorise(r)
    \/ TxReserve(r)
    \/ AllocateFromBlock(r) \/ ReserveBlock(r) \/ InstallBlock(r)
    \/ TxInsert(r) \/ TxAppend(r) \/ TxAppendConflict(r) \/ TxCommit(r)
    \/ Fanout(r)

\* Every submission has ended and none is left to make.
Quiescent == (\A r \in Req : pc[r] \in Finished) /\ UNCHANGED vars

Next ==
    \/ \E r \in Req : Submit(r) \/ Step(r) \/ TxError(r)
    \/ Crash
    \/ Quiescent

\* An await that can resume does: the event loop starves no pending call.
Spec ==
    /\ Init
    /\ [][Next]_vars
    /\ \A r \in Req : WF_vars(Step(r))
=============================================================================
