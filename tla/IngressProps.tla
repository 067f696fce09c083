---------------------------- MODULE IngressProps ----------------------------
(***************************************************************************)
(* What the write path of module Ingress is for: one log position per      *)
(* content, one receipt per content, nothing admitted twice for one nonce, *)
(* one nullifier or one payment, and no envelope sent back where it came   *)
(* from.                                                                   *)
(***************************************************************************)
EXTENDS Ingress, Functions

\* VP-02. The log holds each accepted content exactly once, at the leaf its
\* receipt names, in the tree its receipt was signed over: a retried or
\* interleaved transaction neither skips a leaf nor takes another's.
ReceiptMatchesLog ==
    /\ \A c \in Content : Stored(c) =>
        /\ receiptOf[c].leafIndex < Len(leaves)
        /\ leaves[receiptOf[c].leafIndex + 1] = c
        /\ receiptOf[c].treeSize = receiptOf[c].leafIndex + 1
    /\ \A i \in 1..Len(leaves) :
        /\ Stored(leaves[i])
        /\ receiptOf[leaves[i]].leafIndex = i - 1

\* ADR-001 C-2. Blocks are installed in whatever order their replies arrive,
\* abandoned by a crash or by a retry, yet no two envelopes share a log index.
LogIndexUnique ==
    \A c, d \in Content :
        c # d /\ Stored(c) /\ Stored(d) =>
            receiptOf[c].logIndex # receiptOf[d].logIndex

\* ER-01. Every caller that gets a receipt gets the one receipt that is
\* persisted, whichever of the three paths answered it.
OneReceiptPerContent ==
    \A r \in Req : pc[r] = "answered" =>
        Stored(content[r]) /\ answer[r] = receiptOf[content[r]]

\* P1-G8. Of two different actions that carry the same nonce only one is ever
\* applied, though the early check of step 12 reads and does not reserve.
NonceAppliedOnce ==
    \A c, d \in Content \ IdempotentC :
        c # d /\ Stored(c) /\ Stored(d) => NonceOf[c] # NonceOf[d]

\* The epoch quota: a nullifier admits one local submission, so one content.
NullifierAdmitsOne ==
    \A c, d \in Content :
        /\ c # d /\ Stored(c) /\ Stored(d)
        /\ originOf[c] = Local /\ originOf[d] = Local
        /\ NullifierOf[c] # NoNullifier
        => NullifierOf[c] # NullifierOf[d]

\* Admission cost is charged at origin: whatever was accepted locally for a
\* subject has been paid for out of that subject's balance.
LocalOf(s) == {c \in Content : Stored(c) /\ originOf[c] = Local /\ SubjectOf[c] = s}

AdmittedIsPaid ==
    \A s \in Subject :
        credits[s] + SumFunctionOnSet(CostOf, LocalOf(s)) <= InitCredits

\* FD-14. An outbox row never carries content back to the peer it came from,
\* and never content that is not in the log.
NoEcho ==
    \A row \in outbox : Stored(row[1]) /\ originOf[row[1]] # row[2]

-----------------------------------------------------------------------------
(* Inductive strengthenings: what the open calls hold, besides the stores. *)

\* The nonces of open transactions are neither used nor shared.
Holding(r) == HoldsNonce(r, NonceOf[content[r]])

NonceInv ==
    /\ \A c \in Content \ IdempotentC : Stored(c) => NonceOf[c] \in nonces
    /\ \A r \in Req : Holding(r) => NonceOf[content[r]] \notin nonces
    /\ \A r, s \in Req : r # s /\ Holding(r) /\ Holding(s)
        => NonceOf[content[r]] # NonceOf[content[s]]
    /\ NonceAppliedOnce

\* The nullifiers of local calls past the claim are claimed, not shared, and
\* on no content admitted before.
Admitted(c) == Stored(c) /\ originOf[c] = Local /\ NullifierOf[c] # NoNullifier

Admitting(r) ==
    /\ pc[r] \in InTx \cup {"charge", "authorise"}
    /\ origin[r] = Local /\ NullifierOf[content[r]] # NoNullifier

NullifierInv ==
    /\ \A c \in Content : Admitted(c) => NullifierOf[c] \in claimed
    /\ \A r \in Req : Admitting(r) => NullifierOf[content[r]] \in claimed
    /\ \A r, s \in Req : r # s /\ Admitting(r) /\ Admitting(s)
        => NullifierOf[content[r]] # NullifierOf[content[s]]
    /\ \A r \in Req, c \in Content : Admitting(r) /\ Admitted(c)
        => NullifierOf[content[r]] # NullifierOf[c]
    /\ NullifierAdmitsOne

\* A local call past the charge has paid for what it is about to admit.
Paying(r) == pc[r] \in InTx \cup {"authorise"} /\ origin[r] = Local
PayingFor(s) == {r \in Req : Paying(r) /\ SubjectOf[content[r]] = s}
Owed == [r \in Req |-> CostOf[content[r]]]

PaidInv ==
    \A s \in Subject :
        /\ IsFiniteSet(LocalOf(s)) /\ IsFiniteSet(PayingFor(s))
        /\ credits[s] + SumFunctionOnSet(CostOf, LocalOf(s))
              + SumFunctionOnSet(Owed, PayingFor(s)) <= InitCredits

\* One open transaction has written the Merkle state, at the log's end; no two
\* have inserted the same content; a call in fanout holds what was committed.
Writing(r) == pc[r] \in {"append", "commit"}

TreeInv ==
    /\ ReceiptMatchesLog
    /\ \A c \in Content : Stored(c) => receiptOf[c].content = c
    /\ \A r \in Req : Writing(r) => ~Stored(content[r])
    /\ \A r, s \in Req : r # s /\ Writing(r) /\ Writing(s) => content[r] # content[s]
    /\ \A r \in Req : HoldsTree(r) => leaf[r] = Len(leaves)
    /\ \A r, s \in Req : HoldsTree(r) /\ HoldsTree(s) => r = s
    /\ \A r \in Req : pc[r] = "fanout" =>
        /\ receiptOf[content[r]] = SignReceipt(r)
        /\ originOf[content[r]] = origin[r]
    /\ OneReceiptPerContent
    /\ NoEcho

\* Every index below the counter has at most one owner: a stored envelope, an
\* open transaction, a reply still to be installed, or the block in memory.
Held(r) ==
    CASE pc[r] = "install" -> index[r]..(index[r] + BlockSize - 1)
      [] pc[r] \in {"insert", "append", "commit"} -> {index[r]}
      [] OTHER -> {}

InBlock(i) == next <= i /\ i < end

IndexInv ==
    /\ end <= counter
    /\ \A r \in Req : \A i \in Held(r) : i < counter /\ ~InBlock(i)
    /\ \A r, s \in Req : r # s => Held(r) \cap Held(s) = {}
    /\ \A c \in Content : Stored(c) =>
        /\ receiptOf[c].logIndex < counter
        /\ ~InBlock(receiptOf[c].logIndex)
        /\ \A r \in Req : receiptOf[c].logIndex \notin Held(r)
    /\ LogIndexUnique

-----------------------------------------------------------------------------
\* Every call of accept that passed the pure checks ends, conflicts, retries
\* and crashes included: no two transactions keep aborting each other.
EveryCallEnds ==
    \A r \in Req : pc[r] = "dedupe" ~> pc[r] \in Finished

\* The module implements the log it promises.
Given == {answer[r] : r \in Req} \ {NoReceipt}
Log == INSTANCE TransparencyLog WITH
    log <- leaves,
    answers <- {[content |-> a.content, leaf |-> a.leafIndex] : a \in Given}
ImplementsLog == Log!Spec

\* ER-01 as dedupe.ts states it: answering a duplicate with the original
\* receipt "makes retry safe". A caller whose content is in the log would then
\* never be refused.
RetryIsSafe ==
    [][ \A r \in Req :
            pc[r] # pc'[r] /\ pc'[r] \in {"REPLAY", "NULLIFIER_SPENT"}
                => ~Stored(content[r]) ]_vars

\* Step 19 as ingress.ts states it: "the durable outbox adapter retries
\* delivery independently", so an accepted envelope is queued for its peers
\* in the end, whatever a first attempt met.
AcceptedIsQueued ==
    \A c \in FederatedC, p \in Peer :
        Stored(c) /\ originOf[c] # p ~> <<c, p>> \in outbox
=============================================================================
