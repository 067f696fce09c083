---------------------------- MODULE IngressProofs ----------------------------
(***************************************************************************)
(* Theorems about module Ingress for any number of submissions, contents,  *)
(* peers, aborts and crashes.                                              *)
(***************************************************************************)
EXTENDS IngressProps, Sums, TLAPS

USE DEF Origin, vars, stores, memory, calls, Locals, Goto, Reject

\* Every step of the pipeline, of a crash or of the idle system keeps the
\* stores, the block in memory and every call well typed; in particular the
\* atomic debit never takes a balance below zero.
LEMMA TypeStep == TypeOK /\ [Next]_vars => TypeOK'
<1> SUFFICES ASSUME TypeOK, [Next]_vars PROVE TypeOK'
  OBVIOUS
<1> USE DEF TypeOK, Steps, Finished, InTx, Codes
<1>1. CASE UNCHANGED vars
  BY <1>1
<1>2. CASE Crash
  BY <1>2 DEF Crash
<1>3. ASSUME NEW r \in Req, Submit(r) \/ Step(r) \/ TxError(r) PROVE TypeOK'
  <2>1. CASE Submit(r)
    BY <2>1 DEF Submit
  <2>2. CASE TxError(r)
    BY <2>2 DEF TxError
  <2>3. CASE Dedupe(r)
    BY <2>3 DEF Dedupe, AnswerStored, Stored
  <2>4. CASE Replay(r)
    BY <2>4 DEF Replay
  <2>5. CASE Claim(r)
    <3>1. NullifierOf[content[r]] \in Nullifier \cup {NoNullifier}
      BY EnvelopeFieldsTyped
    <3>2. claimed' \subseteq Nullifier
      BY <2>5, <3>1 DEF Claim
    <3>3. pc' \in [Req -> Steps]
      BY <2>5 DEF Claim
    <3>4. QED
      BY <2>5, <3>2, <3>3 DEF Claim
  <2>6. CASE Charge(r)
    <3> DEFINE s == SubjectOf[content[r]]
               cost == CostOf[content[r]]
    <3>1. s \in Subject /\ cost \in Nat
      BY EnvelopeFieldsTyped
    <3>2. credits' \in [Subject -> Nat]
      <4>1. CASE credits' = credits
        BY <4>1
      <4>2. CASE credits[s] >= cost /\ credits' = [credits EXCEPT ![s] = @ - cost]
        <5>1. credits[s] \in Nat /\ credits[s] - cost \in Nat
          BY <4>2, <3>1
        <5>2. QED
          BY <4>2, <5>1
      <4>3. QED
        BY <2>6, <4>1, <4>2 DEF Charge, Affordable, Debit
    <3>3. pc' \in [Req -> Steps]
      BY <2>6 DEF Charge
    <3>4. QED
      BY <2>6, <3>2, <3>3 DEF Charge
  <2>7. CASE Authorise(r)
    BY <2>7 DEF Authorise
  <2>8. CASE TxReserve(r)
    <3>1. Len(leaves) \in Nat
      OBVIOUS
    <3>2. snapshot' \in [Req -> Nat]
      BY <2>8, <3>1 DEF TxReserve, Begin
    <3>3. pc' \in [Req -> Steps]
      BY <2>8 DEF TxReserve
    <3>4. QED
      BY <2>8, <3>2, <3>3 DEF TxReserve
  <2>9. CASE AllocateFromBlock(r)
    BY <2>9 DEF AllocateFromBlock
  <2>10. CASE ReserveBlock(r)
    BY <2>10, BlockSizeIsPositive DEF ReserveBlock
  <2>11. CASE InstallBlock(r)
    BY <2>11, BlockSizeIsPositive DEF InstallBlock, AfterFirst
  <2>12. CASE TxInsert(r)
    <3>1. CASE AnswerStored(r)
      BY <2>12, <3>1 DEF AnswerStored
    <3>2. CASE Spin(r)
      BY <3>2 DEF Spin, Abort
    <3>3. CASE /\ IF content[r] \in IdempotentC THEN Begin(r) ELSE UNCHANGED snapshot
               /\ Goto(r, "append")
               /\ UNCHANGED <<stores, memory, content, origin, index, leaf, aborts, answer, crashes>>
      <4>1. Len(leaves) \in Nat
        OBVIOUS
      <4>2. snapshot' \in [Req -> Nat]
        BY <3>3, <4>1 DEF Begin
      <4>3. QED
        BY <3>3, <4>2
    <3>4. QED
      BY <2>12, <3>1, <3>2, <3>3 DEF TxInsert
  <2>13. CASE TxAppend(r)
    BY <2>13 DEF TxAppend
  <2>14. CASE TxAppendConflict(r)
    <3>1. CASE Abort(r) /\ UNCHANGED aborts
      BY <3>1 DEF Abort
    <3>2. CASE Spin(r)
      BY <3>2 DEF Spin, Abort
    <3>3. QED
      BY <2>14, <3>1, <3>2 DEF TxAppendConflict
  <2>15. CASE TxCommit(r)
    <3>1. SignReceipt(r) \in Receipt
      BY DEF SignReceipt, Receipt
    <3>2. receiptOf' \in [Content -> Receipt \cup {NoReceipt}]
      BY <2>15, <3>1 DEF TxCommit
    <3>3. leaves' \in Seq(Content)
      BY <2>15 DEF TxCommit
    <3>4. nonces' \subseteq Nonce
      <4>1. NonceOf[content[r]] \in Nonce
        BY EnvelopeFieldsTyped
      <4>2. QED
        BY <2>15, <4>1 DEF TxCommit
    <3>5. originOf' \in [Content -> Origin] /\ pc' \in [Req -> Steps]
      BY <2>15 DEF TxCommit
    <3>6. QED
      BY <2>15, <3>2, <3>3, <3>4, <3>5 DEF TxCommit
  <2>16. CASE Fanout(r)
    BY <2>16 DEF Fanout, FanoutTo, SignReceipt, Receipt
  <2>17. QED
    BY <1>3, <2>1, <2>2, <2>3, <2>4, <2>5, <2>6, <2>7, <2>8, <2>9, <2>10, <2>11,
       <2>12, <2>13, <2>14, <2>15, <2>16 DEF Step
<1>4. QED
  BY <1>1, <1>2, <1>3 DEF Next, Quiescent

\* The stores, the block in memory and the calls are always well typed.
THEOREM TypeCorrect == Spec => []TypeOK
<1>1. Init => TypeOK
  BY BoundsAreNaturals DEF Init, TypeOK, Steps
<1>2. QED
  BY <1>1, TypeStep, PTL DEF Spec

-----------------------------------------------------------------------------
(* The nonce: used by at most one accepted envelope.                       *)

\* A step that commits nothing and opens no transaction cannot disturb it.
LEMMA NonceFrame ==
  ASSUME NonceInv, UNCHANGED <<receiptOf, nonces, content>>,
         \A q \in Req : Holding(q)' => Holding(q)
  PROVE  NonceInv'
  BY DEF NonceInv, NonceAppliedOnce, Stored

LEMMA NonceStep == TypeOK /\ NonceInv /\ [Next]_vars => NonceInv'
<1> SUFFICES ASSUME TypeOK, NonceInv, [Next]_vars PROVE NonceInv'
  OBVIOUS
<1>t. pc \in [Req -> Steps] /\ content \in [Req -> Content]
  BY DEF TypeOK
<1> USE DEF Holding, HoldsNonce
<1>1. CASE UNCHANGED vars
  BY <1>1, NonceFrame
<1>2. CASE Crash
  <2>1. \A q \in Req : Holding(q)' => Holding(q)
    BY <1>2, <1>t DEF Crash, Finished, Codes
  <2>2. QED
    BY <1>2, <2>1, NonceFrame DEF Crash
<1>3. ASSUME NEW r \in Req, Submit(r) \/ Step(r) \/ TxError(r) PROVE NonceInv'
  <2>1. CASE TxReserve(r)
    <3>1. CASE Reject(r, "REPLAY")
      BY <3>1, <1>t, NonceFrame
    <3>2. CASE /\ ~NonceTaken(r) /\ Goto(r, "allocate")
               /\ content[r] \notin IdempotentC =>
                    \A q \in Req \ {r} : ~HoldsNonce(q, NonceOf[content[r]])
               /\ UNCHANGED <<receiptOf, nonces, content>>
      <4>1. \A q \in Req : q # r => (Holding(q)' <=> Holding(q))
        BY <3>2, <1>t
      <4>2. \A q \in Req : Holding(q)' => NonceOf[content[q]] \notin nonces
        BY <3>2, <4>1 DEF NonceInv, NonceTaken, NonceUsed
      <4>3. \A q, s \in Req : q # s /\ Holding(q)' /\ Holding(s)'
                => NonceOf[content[q]] # NonceOf[content[s]]
        BY <3>2, <4>1 DEF NonceInv
      <4>4. QED
        BY <3>2, <4>2, <4>3 DEF NonceInv, NonceAppliedOnce, Stored
    <3>3. QED
      BY <2>1, <3>1, <3>2 DEF TxReserve
  <2>2. CASE TxCommit(r)
    <3> DEFINE c == content[r]
    <3>1. /\ pc[r] = "commit" /\ pc' = [pc EXCEPT ![r] = "fanout"]
          /\ receiptOf' = [receiptOf EXCEPT ![c] = SignReceipt(r)]
          /\ content' = content
          /\ nonces' = IF c \in IdempotentC THEN nonces ELSE nonces \cup {NonceOf[c]}
      BY <2>2 DEF TxCommit
    <3>2. \A q \in Req : Holding(q)' => q # r /\ Holding(q)
      BY <3>1, <1>t
    <3>3. c \notin IdempotentC => Holding(r) /\ NonceOf[c] \notin nonces
      BY <3>1 DEF NonceInv
    <3>4. \A d \in Content : Stored(d)' => d = c \/ Stored(d)
      BY <3>1, <1>t DEF Stored, TypeOK
    <3>5. \A d \in Content \ IdempotentC : Stored(d)' => NonceOf[d] \in nonces'
      BY <3>1, <3>4 DEF NonceInv
    <3>6. \A q \in Req : Holding(q)' => NonceOf[content[q]] \notin nonces'
      BY <3>1, <3>2, <3>3 DEF NonceInv
    <3>7. \A q, s \in Req : q # s /\ Holding(q)' /\ Holding(s)'
              => NonceOf[content[q]] # NonceOf[content[s]]
      BY <3>2 DEF NonceInv
    <3>8. NonceAppliedOnce'
      BY <3>3, <3>4 DEF NonceAppliedOnce, NonceInv
    <3>9. QED
      BY <3>1, <3>5, <3>6, <3>7, <3>8 DEF NonceInv
  <2>3. CASE /\ UNCHANGED <<receiptOf, nonces, content>>
             /\ \E step : /\ pc' = [pc EXCEPT ![r] = step]
                          /\ Holding(r) \/ step \notin InTx \/ step = "reserve"
    <3>1. \A q \in Req : Holding(q)' => Holding(q)
      BY <2>3, <1>t DEF InTx
    <3>2. QED
      BY <2>3, <3>1, NonceFrame
  <2>4. QED
    <3> USE DEF InTx
    <3>1. CASE Submit(r)
      BY <3>1, <2>3 DEF Submit
    <3>2. CASE TxError(r)
      BY <3>2, <1>t, NonceFrame DEF TxError
    <3>3. CASE Dedupe(r) \/ Replay(r) \/ Claim(r)
      BY <3>3, <2>3 DEF Dedupe, AnswerStored, Replay, Claim
    <3>4. CASE Charge(r) \/ Authorise(r)
      BY <3>4, <2>3 DEF Charge, Authorise
    <3>5. CASE AllocateFromBlock(r)
      BY <3>5, <1>t, NonceFrame DEF AllocateFromBlock
    <3>6. CASE ReserveBlock(r)
      BY <3>6, <1>t, NonceFrame DEF ReserveBlock
    <3>7. CASE InstallBlock(r)
      BY <3>7, <1>t, NonceFrame DEF InstallBlock
    <3>8. CASE TxInsert(r)
      BY <3>8, <1>t, NonceFrame DEF TxInsert, AnswerStored, Spin, Abort
    <3>9. CASE TxAppend(r)
      BY <3>9, <1>t, NonceFrame DEF TxAppend
    <3>10. CASE TxAppendConflict(r)
      BY <3>10, <1>t, NonceFrame DEF TxAppendConflict, Spin, Abort
    <3>11. CASE Fanout(r)
      BY <3>11, <1>t, NonceFrame DEF Fanout
    <3>12. QED
      BY <1>3, <2>1, <2>2, <3>1, <3>2, <3>3, <3>4, <3>5, <3>6, <3>7, <3>8, <3>9,
         <3>10, <3>11 DEF Step
<1>4. QED
  BY <1>1, <1>2, <1>3 DEF Next, Quiescent

\* Two different non-idempotent envelopes with one nonce are never both applied.
THEOREM NonceCorrect == Spec => []NonceAppliedOnce
<1>1. Init => NonceInv
  BY DEF Init, NonceInv, NonceAppliedOnce, Stored, Holding, HoldsNonce
<1>2. NonceInv => NonceAppliedOnce
  BY DEF NonceInv
<1>3. QED
  BY <1>1, <1>2, NonceStep, TypeCorrect, PTL DEF Spec

-----------------------------------------------------------------------------
(* The nullifier: used by at most one content admitted from here.          *)

\* A step that commits nothing and admits no further call cannot disturb it.
LEMMA NullifierFrame ==
  ASSUME NullifierInv, UNCHANGED <<receiptOf, originOf, content, origin>>,
         claimed \subseteq claimed',
         \A q \in Req : Admitting(q)' => Admitting(q)
  PROVE  NullifierInv'
<1>1. \A c \in Content : Admitted(c)' <=> Admitted(c)
  BY DEF Admitted, Stored
<1>2. NullifierAdmitsOne'
  BY DEF NullifierInv, NullifierAdmitsOne, Stored
<1>3. QED
  BY <1>1, <1>2 DEF NullifierInv

\* The claim: SET NX gives the caller a nullifier nobody has.
LEMMA NullifierClaim ==
  ASSUME TypeOK, NullifierInv, NEW r \in Req, Claim(r)
  PROVE  NullifierInv'
<1> DEFINE n == NullifierOf[content[r]]
<1>t. pc \in [Req -> Steps]
  BY DEF TypeOK
<1>1. UNCHANGED <<receiptOf, originOf, content, origin>> /\ claimed \subseteq claimed'
  BY DEF Claim
<1>2. CASE \E code : Reject(r, code) /\ code \in Codes
  <2>1. \A q \in Req : Admitting(q)' => Admitting(q)
    BY <1>2, <1>t DEF Admitting, Codes, InTx
  <2>2. QED
    BY <1>1, <2>1, NullifierFrame
<1>3. CASE /\ n \notin claimed /\ Goto(r, "charge")
           /\ claimed' = IF n = NoNullifier THEN claimed ELSE claimed \cup {n}
  <2>1. \A q \in Req : q # r => (Admitting(q)' <=> Admitting(q))
    BY <1>1, <1>3, <1>t DEF Admitting
  <2>2. Admitting(r)' => n \in claimed'
    BY <1>1, <1>3 DEF Admitting
  <2>3. \A c \in Content : Admitted(c)' <=> Admitted(c)
    BY <1>1 DEF Admitted, Stored
  <2>4. \A q \in Req : q # r /\ Admitting(q) => NullifierOf[content[q]] # n
    BY <1>3 DEF NullifierInv
  <2>5. \A c \in Content : Admitted(c) => NullifierOf[c] # n
    BY <1>3 DEF NullifierInv
  <2>6. \A q \in Req : Admitting(q)' => NullifierOf[content'[q]] \in claimed'
    BY <1>1, <2>1, <2>2 DEF NullifierInv
  <2>7. \A q, s \in Req : q # s /\ Admitting(q)' /\ Admitting(s)'
          => NullifierOf[content'[q]] # NullifierOf[content'[s]]
    BY <1>1, <2>1, <2>4 DEF NullifierInv
  <2>8. \A q \in Req, c \in Content : Admitting(q)' /\ Admitted(c)'
          => NullifierOf[content'[q]] # NullifierOf[c]
    BY <1>1, <2>1, <2>3, <2>5 DEF NullifierInv
  <2>9. NullifierAdmitsOne'
    BY <1>1 DEF NullifierInv, NullifierAdmitsOne, Stored
  <2>10. \A c \in Content : Admitted(c)' => NullifierOf[c] \in claimed'
    BY <1>1, <2>3 DEF NullifierInv
  <2>11. QED
    BY <2>6, <2>7, <2>8, <2>9, <2>10 DEF NullifierInv
<1>4. QED
  BY <1>2, <1>3 DEF Claim, Spent, Codes

\* The commit: what was the call's becomes the content's.
LEMMA NullifierCommit ==
  ASSUME TypeOK, NullifierInv, NEW r \in Req, TxCommit(r)
  PROVE  NullifierInv'
<1>0. PICK c \in Content : c = content[r]
  BY DEF TypeOK
<1>1. /\ pc[r] = "commit" /\ pc' = [pc EXCEPT ![r] = "fanout"]
      /\ receiptOf' = [receiptOf EXCEPT ![c] = SignReceipt(r)]
      /\ originOf' = [originOf EXCEPT ![c] = origin[r]]
      /\ UNCHANGED <<claimed, content, origin>>
  BY <1>0 DEF TxCommit
<1>t. /\ pc \in [Req -> Steps]
      /\ receiptOf \in [Content -> Receipt \cup {NoReceipt}]
      /\ originOf \in [Content -> Origin]
  BY DEF TypeOK
<1>2. \A q \in Req : Admitting(q)' => q # r /\ Admitting(q)
  BY <1>1, <1>t DEF Admitting, InTx
<1>3. \A d \in Content : d # c => (Admitted(d)' <=> Admitted(d))
  BY <1>1, <1>t DEF Admitted, Stored
<1>4. Admitted(c)' => Admitting(r)
  BY <1>0, <1>1, <1>t DEF Admitted, Admitting, InTx
<1>5. \A d \in Content : Admitted(d)' => NullifierOf[d] \in claimed'
  BY <1>0, <1>1, <1>3, <1>4 DEF NullifierInv
<1>6. \A q \in Req : Admitting(q)' => NullifierOf[content'[q]] \in claimed'
  BY <1>1, <1>2 DEF NullifierInv
<1>7. \A q, s \in Req : q # s /\ Admitting(q)' /\ Admitting(s)'
        => NullifierOf[content'[q]] # NullifierOf[content'[s]]
  BY <1>1, <1>2 DEF NullifierInv
<1>8. \A q \in Req, d \in Content : Admitting(q)' /\ Admitted(d)'
        => NullifierOf[content'[q]] # NullifierOf[d]
  BY <1>0, <1>1, <1>2, <1>3, <1>4 DEF NullifierInv
<1>9. \A d \in Content : d # c /\ Admitted(c)' /\ Admitted(d)'
        => NullifierOf[c] # NullifierOf[d]
  BY <1>0, <1>3, <1>4 DEF NullifierInv
<1>10. \A d, e \in Content : d # e /\ Admitted(d)' /\ Admitted(e)'
        => NullifierOf[d] # NullifierOf[e]
  <2>1. \A d, e \in Content : d # e /\ Admitted(d) /\ Admitted(e)
          => NullifierOf[d] # NullifierOf[e]
    BY DEF NullifierInv, NullifierAdmitsOne, Admitted
  <2>2. ASSUME NEW d \in Content, NEW e \in Content, d # e, Admitted(d)', Admitted(e)'
        PROVE  NullifierOf[d] # NullifierOf[e]
    <3>1. CASE d = c
      BY <2>2, <3>1, <1>9
    <3>2. CASE e = c
      BY <2>2, <3>2, <1>9
    <3>3. CASE d # c /\ e # c
      BY <2>2, <3>3, <1>3, <2>1
    <3>4. QED
      BY <3>1, <3>2, <3>3
  <2>3. QED
    BY <2>2
<1>11. \A d, e \in Content : d # e /\ Admitted(d)' /\ Stored(e)' /\ originOf'[e] = Local
        => NullifierOf[d] # NullifierOf[e]
  BY <1>10 DEF Admitted
<1>12. NullifierAdmitsOne'
  BY <1>11 DEF NullifierAdmitsOne, Admitted
<1>13. QED
  BY <1>5, <1>6, <1>7, <1>8, <1>12 DEF NullifierInv

LEMMA NullifierStep == TypeOK /\ NullifierInv /\ [Next]_vars => NullifierInv'
<1> SUFFICES ASSUME TypeOK, NullifierInv, [Next]_vars PROVE NullifierInv'
  OBVIOUS
<1>t. pc \in [Req -> Steps]
  BY DEF TypeOK
<1>1. CASE UNCHANGED vars
  BY <1>1, NullifierFrame DEF Admitting
<1>2. CASE Crash
  <2>1. \A q \in Req : Admitting(q)' => Admitting(q)
    BY <1>2, <1>t DEF Crash, Admitting, InTx, Finished, Codes
  <2>2. QED
    BY <1>2, <2>1, NullifierFrame DEF Crash
<1>3. ASSUME NEW r \in Req, Submit(r) \/ Step(r) \/ TxError(r) PROVE NullifierInv'
  <2>1. ASSUME UNCHANGED <<receiptOf, originOf, claimed, content, origin>>,
               NEW step, pc' = [pc EXCEPT ![r] = step],
               pc[r] \in InTx \cup {"charge", "authorise"}
                 \/ step \notin InTx \cup {"charge", "authorise"}
                 \/ origin[r] # Local
        PROVE  NullifierInv'
    <3>1. \A q \in Req : Admitting(q)' => Admitting(q)
      BY <2>1, <1>t DEF Admitting
    <3>2. QED
      BY <2>1, <3>1, NullifierFrame
  <2> USE DEF InTx
  <2>2. CASE Submit(r)
    BY <2>2, <2>1 DEF Submit
  <2>3. CASE TxError(r)
    BY <2>3, <2>1 DEF TxError
  <2>4. CASE Dedupe(r)
    BY <2>4, <2>1 DEF Dedupe, AnswerStored
  <2>5. CASE Replay(r)
    BY <2>5, <2>1 DEF Replay
  <2>6. CASE Charge(r)
    BY <2>6, <2>1 DEF Charge
  <2>7. CASE Authorise(r)
    BY <2>7, <2>1 DEF Authorise
  <2>8. CASE TxReserve(r)
    BY <2>8, <2>1 DEF TxReserve
  <2>9. CASE AllocateFromBlock(r)
    BY <2>9, <2>1 DEF AllocateFromBlock
  <2>10. CASE ReserveBlock(r)
    BY <2>10, <2>1 DEF ReserveBlock
  <2>11. CASE InstallBlock(r)
    BY <2>11, <2>1 DEF InstallBlock
  <2>12. CASE TxInsert(r)
    BY <2>12, <2>1 DEF TxInsert, AnswerStored, Spin, Abort
  <2>13. CASE TxAppend(r)
    BY <2>13, <2>1 DEF TxAppend
  <2>14. CASE TxAppendConflict(r)
    BY <2>14, <2>1 DEF TxAppendConflict, Spin, Abort
  <2>15. CASE Fanout(r)
    BY <2>15, <2>1 DEF Fanout
  <2>16. QED
    BY <1>3, <2>2, <2>3, <2>4, <2>5, <2>6, <2>7, <2>8, <2>9, <2>10, <2>11, <2>12,
       <2>13, <2>14, <2>15, NullifierClaim, NullifierCommit DEF Step
<1>4. QED
  BY <1>1, <1>2, <1>3 DEF Next, Quiescent

\* The epoch quota for every number of submissions, crashes and retries: no
\* two contents admitted from here claim one nullifier.
THEOREM NullifierCorrect == Spec => []NullifierAdmitsOne
<1>1. Init => NullifierInv
  BY DEF Init, NullifierInv, NullifierAdmitsOne, Admitted, Admitting, Stored, InTx
<1>2. NullifierInv => NullifierAdmitsOne
  BY DEF NullifierInv
<1>3. QED
  BY <1>1, <1>2, NullifierStep, TypeCorrect, PTL DEF Spec

-----------------------------------------------------------------------------
(* The log index: every index below the counter has at most one owner.     *)

\* Whatever owns an index, the index is a number.
LEMMA IndexNat ==
  ASSUME TypeOK
  PROVE  /\ \A r \in Req : Held(r) \subseteq Nat
         /\ \A c \in Content : Stored(c) => receiptOf[c].logIndex \in Nat
<1>1. \A r \in Req : index[r] \in Nat
  BY DEF TypeOK
<1>2. \A r \in Req : Held(r) \subseteq Nat
  BY <1>1, BlockSizeIsPositive DEF Held
<1>3. QED
  BY <1>2 DEF TypeOK, Stored, Receipt

\* A step that neither reserves, installs nor commits only lets indices go.
LEMMA IndexFrame ==
  ASSUME TypeOK, IndexInv, UNCHANGED <<receiptOf, counter>>,
         \A q \in Req : Held(q)' \subseteq Held(q),
         \A i \in Nat : InBlock(i)' => InBlock(i),
         end' <= counter
  PROVE  IndexInv'
<1>1. \A q, s \in Req : q # s => Held(q)' \cap Held(s)' = {}
  BY DEF IndexInv
<1>2. \A q \in Req : \A i \in Held(q)' : i < counter /\ ~InBlock(i)'
  BY IndexNat DEF IndexInv
<1>3. \A c \in Content : Stored(c)' =>
        /\ receiptOf[c].logIndex < counter
        /\ ~InBlock(receiptOf[c].logIndex)'
        /\ \A q \in Req : receiptOf[c].logIndex \notin Held(q)'
  BY IndexNat DEF IndexInv, Stored
<1>4. LogIndexUnique'
  BY DEF IndexInv, LogIndexUnique, Stored
<1>5. QED
  BY <1>1, <1>2, <1>3, <1>4 DEF IndexInv, InBlock

LEMMA IndexStep == TypeOK /\ IndexInv /\ [Next]_vars => IndexInv'
<1> SUFFICES ASSUME TypeOK, IndexInv, [Next]_vars PROVE IndexInv'
  OBVIOUS
<1>t. /\ pc \in [Req -> Steps] /\ index \in [Req -> Nat]
      /\ counter \in Nat /\ next \in Nat /\ end \in Nat
      /\ end <= counter /\ BlockSize \in Nat \ {0}
  BY BlockSizeIsPositive DEF TypeOK, IndexInv
<1> USE DEF InTx
<1>1. CASE UNCHANGED vars
  BY <1>1, <1>t, IndexFrame DEF Held, InBlock
<1>2. CASE Crash
  <2>1. \A q \in Req : Held(q)' \subseteq Held(q)
    BY <1>2, <1>t DEF Crash, Held, Finished, Codes
  <2>2. \A i \in Nat : InBlock(i)' => InBlock(i)
    BY <1>2 DEF Crash, InBlock
  <2>3. QED
    BY <1>2, <1>t, <2>1, <2>2, IndexFrame DEF Crash
<1>3. ASSUME NEW r \in Req, Submit(r) \/ Step(r) \/ TxError(r) PROVE IndexInv'
  <2>1. CASE AllocateFromBlock(r)
    <3>0. PICK n \in Nat : n = next
      BY <1>t
    <3>1. /\ next < end /\ next' = next + 1 /\ end' = end
          /\ index' = [index EXCEPT ![r] = next]
          /\ pc[r] = "allocate" /\ pc' = [pc EXCEPT ![r] = "insert"]
          /\ UNCHANGED <<receiptOf, counter>>
      BY <2>1 DEF AllocateFromBlock
    <3>2. \A q \in Req : q # r => Held(q)' = Held(q)
      BY <3>1, <1>t DEF Held
    <3>3. Held(r)' = {n}
      BY <3>0, <3>1, <1>t DEF Held
    <3>4. InBlock(n) /\ n < counter
      BY <3>0, <3>1, <1>t DEF InBlock
    <3>5. \A i \in Nat : i = n \/ InBlock(i)' => InBlock(i)
      BY <3>0, <3>1, <1>t DEF InBlock
    <3>6. ~InBlock(n)'
      BY <3>0, <3>1, <1>t DEF InBlock
    <3>7. \A q, s \in Req : q # s => Held(q)' \cap Held(s)' = {}
      BY <3>2, <3>3, <3>4 DEF IndexInv
    <3>8. \A q \in Req : \A i \in Held(q)' : i < counter /\ ~InBlock(i)'
      BY <3>1, <3>2, <3>3, <3>4, <3>5, <3>6, IndexNat DEF IndexInv
    <3>9. \A c \in Content : Stored(c) =>
            /\ ~InBlock(receiptOf[c].logIndex)'
            /\ \A q \in Req : receiptOf[c].logIndex \notin Held(q)'
      BY <3>1, <3>2, <3>3, <3>4, <3>5, IndexNat DEF IndexInv
    <3>10. QED
      BY <3>1, <3>7, <3>8, <3>9 DEF IndexInv, LogIndexUnique, Stored, InBlock
  <2>2. CASE ReserveBlock(r)
    <3>1. /\ counter' = counter + BlockSize
          /\ index' = [index EXCEPT ![r] = counter]
          /\ pc[r] = "allocate" /\ pc' = [pc EXCEPT ![r] = "install"]
          /\ UNCHANGED <<receiptOf, next, end>>
      BY <2>2 DEF ReserveBlock
    <3>2. \A q \in Req : q # r => Held(q)' = Held(q)
      BY <3>1, <1>t DEF Held
    <3>3. Held(r)' = counter..(counter + BlockSize - 1)
      BY <3>1, <1>t DEF Held
    <3>4. counter' \in Nat /\ counter < counter'
      BY <3>1, <1>t
    <3>5. \A i \in Held(r)' : i \in Int /\ counter <= i /\ i < counter'
      BY <3>1, <3>3, <1>t
    <3>6. \A q \in Req : q # r => \A i \in Held(q) : i \in Int /\ i < counter
      BY <1>t DEF IndexInv, Held
    <3>7. \A q, s \in Req : q # s => Held(q)' \cap Held(s)' = {}
      BY <3>2, <3>5, <3>6, <1>t DEF IndexInv
    <3>8. \A q \in Req : \A i \in Held(q)' : i < counter' /\ ~InBlock(i)'
      <4>1. \A i \in Held(r)' : ~InBlock(i)'
        BY <3>1, <3>5, <1>t DEF InBlock
      <4>2. ASSUME NEW q \in Req, q # r, NEW i \in Held(q)'
            PROVE  i < counter' /\ ~InBlock(i)'
        <5>1. i \in Held(q) /\ i \in Int /\ i < counter /\ ~InBlock(i)
          BY <4>2, <3>2, <3>6 DEF IndexInv
        <5>2. QED
          BY <5>1, <3>1, <3>4, <1>t DEF InBlock
      <4>3. QED
        BY <3>5, <4>1, <4>2
    <3>9. \A c \in Content : Stored(c) =>
            /\ receiptOf[c].logIndex \in Nat /\ receiptOf[c].logIndex < counter
            /\ ~InBlock(receiptOf[c].logIndex)
            /\ \A q \in Req : receiptOf[c].logIndex \notin Held(q)
      BY DEF IndexInv, TypeOK, Stored, Receipt
    <3>10. \A c \in Content : Stored(c) =>
            \A q \in Req : receiptOf[c].logIndex \notin Held(q)'
      BY <3>2, <3>5, <3>9, <1>t
    <3>11. \A c \in Content : Stored(c) => receiptOf[c].logIndex < counter'
      BY <3>4, <3>9, <1>t
    <3>12. end' <= counter'
      BY <3>1, <3>4, <1>t
    <3>13. QED
      BY <3>1, <3>7, <3>8, <3>9, <3>10, <3>11, <3>12
         DEF IndexInv, LogIndexUnique, Stored, InBlock
  <2>3. CASE InstallBlock(r)
    <3>1. /\ next' = index[r] + 1 /\ end' = index[r] + BlockSize
          /\ pc[r] = "install" /\ pc' = [pc EXCEPT ![r] = "insert"]
          /\ UNCHANGED <<receiptOf, counter, index>>
      BY <2>3 DEF InstallBlock, AfterFirst
    <3>2. \A q \in Req : q # r => Held(q)' = Held(q)
      BY <3>1, <1>t DEF Held
    <3>3. Held(r)' = {index[r]} /\ Held(r) = index[r]..(index[r] + BlockSize - 1)
      BY <3>1, <1>t DEF Held
    <3>4. index[r] \in Held(r) /\ index[r] + BlockSize - 1 \in Held(r)
      BY <3>3, <1>t
    <3>5. \A i \in Int : InBlock(i)' => i \in Held(r) /\ i # index[r]
      BY <3>1, <3>3, <1>t DEF InBlock
    <3>6. end' <= counter
      <4>1. index[r] + BlockSize - 1 < counter
        BY <3>4 DEF IndexInv
      <4>2. QED
        BY <3>1, <4>1, <1>t
    <3>7. \A q, s \in Req : q # s => Held(q)' \cap Held(s)' = {}
      BY <3>2, <3>3, <3>4 DEF IndexInv
    <3>8. \A q \in Req : \A i \in Held(q)' : i \in Int /\ i < counter /\ ~InBlock(i)'
      <4>1. \A q \in Req : \A i \in Held(q)' : i \in Int
        BY <3>1, <1>t DEF Held
      <4>2. ~InBlock(index[r])' /\ index[r] < counter
        BY <3>1, <3>4, <1>t DEF IndexInv, InBlock
      <4>3. ASSUME NEW q \in Req, q # r, NEW i \in Held(q)'
            PROVE  i < counter /\ ~InBlock(i)'
        <5>1. i \in Held(q) /\ i \in Int /\ i < counter /\ i \notin Held(r)
          BY <4>3, <4>1, <3>2 DEF IndexInv
        <5>2. QED
          BY <5>1, <3>5
      <4>4. QED
        BY <4>1, <4>2, <4>3, <3>1, <3>3
    <3>9. \A c \in Content : Stored(c) =>
            /\ receiptOf[c].logIndex \in Nat /\ receiptOf[c].logIndex < counter
            /\ \A q \in Req : receiptOf[c].logIndex \notin Held(q)
      BY DEF IndexInv, TypeOK, Stored, Receipt
    <3>10. \A c \in Content : Stored(c) =>
            /\ ~InBlock(receiptOf[c].logIndex)'
            /\ \A q \in Req : receiptOf[c].logIndex \notin Held(q)'
      <4>1. ASSUME NEW c \in Content, Stored(c)
            PROVE  ~InBlock(receiptOf[c].logIndex)'
        BY <4>1, <3>1, <3>5, <3>9
      <4>2. \A c \in Content : Stored(c) =>
              \A q \in Req : receiptOf[c].logIndex \notin Held(q)'
        BY <3>2, <3>3, <3>4, <3>9
      <4>3. QED
        BY <3>1, <4>1, <4>2
    <3>11. QED
      BY <3>1, <3>6, <3>7, <3>8, <3>9, <3>10
         DEF IndexInv, LogIndexUnique, Stored, InBlock
  <2>4. CASE TxCommit(r)
    <3> DEFINE c == content[r]
    <3>1. /\ pc[r] = "commit" /\ pc' = [pc EXCEPT ![r] = "fanout"]
          /\ receiptOf' = [receiptOf EXCEPT ![c] = SignReceipt(r)]
          /\ UNCHANGED <<counter, next, end, index>>
      BY <2>4 DEF TxCommit
    <3>2. \A q \in Req : q # r => Held(q)' = Held(q)
      BY <3>1, <1>t DEF Held
    <3>3. Held(r)' = {} /\ Held(r) = {index[r]}
      BY <3>1, <1>t DEF Held
    <3>4. c \in Content /\ receiptOf'[c].logIndex = index[r]
      BY <3>1 DEF TypeOK, SignReceipt
    <3>5. \A d \in Content : d # c => receiptOf'[d] = receiptOf[d]
      BY <3>1 DEF TypeOK
    <3>6. \A q \in Req : Held(q)' \subseteq Held(q)
      BY <3>2, <3>3
    <3>7. \A d \in Content : Stored(d)' => d = c \/ Stored(d)
      BY <3>5 DEF Stored
    <3>8. /\ index[r] < counter /\ ~InBlock(index[r])
          /\ \A q \in Req : index[r] \notin Held(q)'
      BY <3>2, <3>3 DEF IndexInv
    <3>9. \A d \in Content : Stored(d)' =>
            /\ receiptOf'[d].logIndex < counter
            /\ ~InBlock(receiptOf'[d].logIndex)
            /\ \A q \in Req : receiptOf'[d].logIndex \notin Held(q)'
      BY <3>4, <3>5, <3>6, <3>7, <3>8 DEF IndexInv
    <3>10. \A d \in Content : d # c /\ Stored(d) => receiptOf[d].logIndex # index[r]
      BY <3>3 DEF IndexInv
    <3>11. LogIndexUnique'
      BY <3>4, <3>5, <3>7, <3>10 DEF LogIndexUnique, IndexInv
    <3>12. \A q, s \in Req : q # s => Held(q)' \cap Held(s)' = {}
      BY <3>6 DEF IndexInv
    <3>13. \A q \in Req : \A i \in Held(q)' : i < counter /\ ~InBlock(i)
      BY <3>6 DEF IndexInv
    <3>14. \A i : InBlock(i)' <=> InBlock(i)
      BY <3>1 DEF InBlock
    <3>15. QED
      BY <3>1, <3>9, <3>11, <3>12, <3>13, <3>14 DEF IndexInv
  <2>5. CASE /\ UNCHANGED <<receiptOf, counter, next, end>>
             /\ \A q \in Req : Held(q)' \subseteq Held(q)
    BY <2>5, <1>t, IndexFrame DEF InBlock
  <2>6. QED
    <3> USE DEF Held
    <3>1. CASE Submit(r)
      BY <3>1, <1>t, <2>5 DEF Submit
    <3>2. CASE TxError(r)
      BY <3>2, <1>t, <2>5 DEF TxError
    <3>3. CASE Dedupe(r)
      BY <3>3, <1>t, <2>5 DEF Dedupe, AnswerStored
    <3>4. CASE Replay(r)
      BY <3>4, <1>t, <2>5 DEF Replay
    <3>5. CASE Claim(r)
      BY <3>5, <1>t, <2>5 DEF Claim
    <3>6. CASE Charge(r)
      BY <3>6, <1>t, <2>5 DEF Charge
    <3>7. CASE Authorise(r)
      BY <3>7, <1>t, <2>5 DEF Authorise
    <3>8. CASE TxReserve(r)
      BY <3>8, <1>t, <2>5 DEF TxReserve
    <3>9. CASE TxInsert(r)
      BY <3>9, <1>t, <2>5 DEF TxInsert, AnswerStored, Spin, Abort
    <3>10. CASE TxAppend(r)
      BY <3>10, <1>t, <2>5 DEF TxAppend
    <3>11. CASE TxAppendConflict(r)
      BY <3>11, <1>t, <2>5 DEF TxAppendConflict, Spin, Abort
    <3>12. CASE Fanout(r)
      BY <3>12, <1>t, <2>5 DEF Fanout
    <3>13. QED
      BY <1>3, <2>1, <2>2, <2>3, <2>4, <3>1, <3>2, <3>3, <3>4, <3>5, <3>6, <3>7,
         <3>8, <3>9, <3>10, <3>11, <3>12 DEF Step
<1>4. QED
  BY <1>1, <1>2, <1>3 DEF Next, Quiescent

\* Two accepted envelopes never share a log index, however blocks are lost.
THEOREM LogIndexCorrect == Spec => []LogIndexUnique
<1>1. Init => IndexInv
  BY DEF Init, IndexInv, LogIndexUnique, Stored, Held
<1>2. IndexInv => LogIndexUnique
  BY DEF IndexInv
<1>3. QED
  BY <1>1, <1>2, IndexStep, TypeCorrect, PTL DEF Spec

-----------------------------------------------------------------------------
(* The witnessed log and the receipts that name its leaves.                *)

\* A step that commits nothing keeps it, if no call gains a claim on the tree.
LEMMA TreeFrame ==
  ASSUME TreeInv, UNCHANGED <<receiptOf, originOf, leaves, content, outbox>>,
         \A q \in Req : Writing(q)' => Writing(q),
         \A q \in Req : HoldsTree(q)' => HoldsTree(q) /\ leaf'[q] = leaf[q],
         \A q \in Req : pc'[q] = "fanout" =>
            /\ pc[q] = "fanout" /\ index'[q] = index[q]
            /\ leaf'[q] = leaf[q] /\ origin'[q] = origin[q],
         \A q \in Req : pc'[q] = "answered" =>
            Stored(content[q]) /\ answer'[q] = receiptOf[content[q]]
  PROVE  TreeInv'
<1>1. ReceiptMatchesLog'
  BY DEF TreeInv, ReceiptMatchesLog, Stored
<1>2. OneReceiptPerContent'
  BY DEF OneReceiptPerContent, Stored
<1>3. NoEcho'
  BY DEF TreeInv, NoEcho, Stored
<1>4. \A q \in Req : pc'[q] = "fanout" =>
        /\ receiptOf'[content'[q]] = SignReceipt(q)'
        /\ originOf'[content'[q]] = origin'[q]
  BY DEF TreeInv, SignReceipt
<1>5. \A q, s \in Req : HoldsTree(q)' /\ HoldsTree(s)' => q = s
  BY DEF TreeInv
<1>6. \A q \in Req : HoldsTree(q)' => leaf'[q] = Len(leaves')
  BY DEF TreeInv
<1>7. \A q \in Req : Writing(q)' => ~Stored(content[q])'
  BY DEF TreeInv, Stored
<1>8. \A q, s \in Req : q # s /\ Writing(q)' /\ Writing(s)' => content'[q] # content'[s]
  BY DEF TreeInv
<1>9. \A c \in Content : Stored(c)' => receiptOf'[c].content = c
  BY DEF TreeInv, Stored
<1>10. QED
  BY <1>1, <1>2, <1>3, <1>4, <1>5, <1>6, <1>7, <1>8, <1>9 DEF TreeInv, Stored

\* The commit: the new leaf is at the end of the log, under a receipt of its own.
LEMMA TreeCommit ==
  ASSUME TypeOK, TreeInv, NEW r \in Req, TxCommit(r)
  PROVE  TreeInv'
<1> DEFINE c == content[r]
           rc == SignReceipt(r)
<1>1. /\ pc[r] = "commit" /\ pc' = [pc EXCEPT ![r] = "fanout"]
      /\ receiptOf' = [receiptOf EXCEPT ![c] = rc]
      /\ originOf' = [originOf EXCEPT ![c] = origin[r]]
      /\ leaves' = Append(leaves, c)
      /\ UNCHANGED <<outbox, content, origin, index, leaf, answer>>
  BY DEF TxCommit
<1>t. /\ pc \in [Req -> Steps] /\ content \in [Req -> Content] /\ c \in Content
      /\ leaves \in Seq(Content) /\ Len(leaves) \in Nat
      /\ receiptOf \in [Content -> Receipt \cup {NoReceipt}]
      /\ originOf \in [Content -> Origin]
  BY DEF TypeOK
<1>2. /\ rc.content = c /\ rc.leafIndex = Len(leaves) /\ rc.treeSize = Len(leaves) + 1
      /\ rc \in Receipt /\ rc # NoReceipt
  <2>1. leaf[r] = Len(leaves)
    BY <1>1 DEF TreeInv, HoldsTree
  <2>2. rc \in Receipt
    BY DEF SignReceipt, Receipt, TypeOK
  <2>3. QED
    BY <2>1, <2>2, NoReceiptIsNone DEF SignReceipt
<1>3. ~Stored(c)
  BY <1>1 DEF TreeInv, Writing
<1>4. Stored(c)' /\ \A d \in Content : d # c => (Stored(d)' <=> Stored(d))
  BY <1>1, <1>t, <1>2 DEF Stored
<1>5. \A d \in Content : Stored(d) => d # c /\ receiptOf'[d] = receiptOf[d]
                                         /\ originOf'[d] = originOf[d]
  BY <1>1, <1>t, <1>3
<1>6. receiptOf'[c] = rc /\ originOf'[c] = origin[r]
  BY <1>1, <1>t
<1>7. /\ Len(leaves') = Len(leaves) + 1 /\ leaves'[Len(leaves) + 1] = c
      /\ \A i \in 1..Len(leaves) : leaves'[i] = leaves[i] /\ leaves[i] \in Content
  BY <1>1, <1>t
<1>8. ReceiptMatchesLog'
  <2>1. ASSUME NEW d \in Content, Stored(d)'
        PROVE  /\ receiptOf'[d].leafIndex < Len(leaves')
               /\ leaves'[receiptOf'[d].leafIndex + 1] = d
               /\ receiptOf'[d].treeSize = receiptOf'[d].leafIndex + 1
    <3>1. CASE d = c
      BY <3>1, <1>2, <1>6, <1>7, <1>t
    <3>2. CASE d # c
      <4>1. Stored(d) /\ receiptOf'[d] = receiptOf[d]
        BY <3>2, <2>1, <1>4, <1>5
      <4>2. /\ receiptOf[d].leafIndex \in Nat
            /\ receiptOf[d].leafIndex < Len(leaves)
            /\ leaves[receiptOf[d].leafIndex + 1] = d
            /\ receiptOf[d].treeSize = receiptOf[d].leafIndex + 1
        BY <4>1, <1>t DEF TreeInv, ReceiptMatchesLog, Stored, Receipt
      <4>3. receiptOf[d].leafIndex + 1 \in 1..Len(leaves)
        BY <4>2, <1>t
      <4>4. QED
        BY <4>1, <4>2, <4>3, <1>7, <1>t
    <3>3. QED
      BY <3>1, <3>2
  <2>2. ASSUME NEW i \in 1..Len(leaves')
        PROVE  Stored(leaves[i])' /\ receiptOf'[leaves'[i]].leafIndex = i - 1
    <3>1. CASE i = Len(leaves) + 1
      <4>1. leaves'[i] = c /\ i - 1 = Len(leaves)
        BY <3>1, <1>7, <1>t
      <4>2. receiptOf'[c] # NoReceipt /\ receiptOf'[c].leafIndex = Len(leaves)
        BY <1>2, <1>6
      <4>3. QED
        BY <4>1, <4>2 DEF Stored
    <3>2. CASE i \in 1..Len(leaves)
      <4>1. Stored(leaves[i]) /\ receiptOf[leaves[i]].leafIndex = i - 1
        BY <3>2 DEF TreeInv, ReceiptMatchesLog
      <4>2. QED
        BY <3>2, <4>1, <1>4, <1>5, <1>7
    <3>3. QED
      BY <3>1, <3>2, <1>7, <1>t
  <2>3. QED
    BY <2>1, <2>2 DEF ReceiptMatchesLog
<1>9. \A q \in Req : q # r => pc'[q] = pc[q]
  BY <1>1, <1>t
<1>10. pc'[r] = "fanout"
  BY <1>1, <1>t
<1>11. \A q \in Req : Writing(q)' => q # r /\ Writing(q) /\ content[q] # c
  BY <1>1, <1>9, <1>10 DEF Writing, TreeInv
<1>12. \A q \in Req : ~HoldsTree(q)'
  BY <1>1, <1>9, <1>10 DEF HoldsTree, TreeInv
<1>13. \A q \in Req : Writing(q)' => ~Stored(content[q])'
  BY <1>1, <1>4, <1>11, <1>t DEF TreeInv
<1>14. \A q \in Req : pc'[q] = "fanout" =>
          receiptOf'[content'[q]] = SignReceipt(q)' /\ originOf'[content'[q]] = origin'[q]
  <2>1. \A q \in Req : SignReceipt(q)' = SignReceipt(q)
    BY <1>1 DEF SignReceipt
  <2>2. \A q \in Req : q # r /\ pc[q] = "fanout" =>
            /\ receiptOf[content[q]] = SignReceipt(q) /\ SignReceipt(q) # NoReceipt
            /\ originOf[content[q]] = origin[q]
    <3>1. \A q \in Req : SignReceipt(q) \in Receipt
      BY DEF SignReceipt, Receipt, TypeOK
    <3>2. QED
      BY <3>1, NoReceiptIsNone DEF TreeInv
  <2>3. \A q \in Req : q # r /\ pc[q] = "fanout" => Stored(content[q])
    BY <2>2 DEF Stored
  <2>4. QED
    BY <1>1, <1>5, <1>6, <1>9, <2>1, <2>2, <2>3, <1>t
<1>15. OneReceiptPerContent'
  <2>1. ASSUME NEW q \in Req, pc'[q] = "answered"
        PROVE  Stored(content[q])' /\ answer'[q] = receiptOf'[content'[q]]
    <3>1. q # r /\ pc[q] = "answered" /\ answer[q] = receiptOf[content[q]]
      BY <2>1, <1>9, <1>10 DEF TreeInv, OneReceiptPerContent
    <3>2. Stored(content[q])
      BY <3>1 DEF TreeInv, OneReceiptPerContent
    <3>3. QED
      BY <3>1, <3>2, <1>1, <1>5, <1>t DEF Stored
  <2>2. QED
    BY <2>1 DEF OneReceiptPerContent
<1>16. NoEcho'
  BY <1>1, <1>4, <1>5 DEF TreeInv, NoEcho, TypeOK
<1>17. \A d \in Content : Stored(d)' => receiptOf'[d].content = d
  BY <1>2, <1>4, <1>5, <1>6 DEF TreeInv
<1>18. \A q, s \in Req : q # s /\ Writing(q)' /\ Writing(s)' => content'[q] # content'[s]
  BY <1>1, <1>11 DEF TreeInv
<1>19. QED
  BY <1>1, <1>8, <1>12, <1>13, <1>14, <1>15, <1>16, <1>17, <1>18 DEF TreeInv

LEMMA TreeStep == TypeOK /\ TreeInv /\ [Next]_vars => TreeInv'
<1> SUFFICES ASSUME TypeOK, TreeInv, [Next]_vars PROVE TreeInv'
  OBVIOUS
<1>t. /\ pc \in [Req -> Steps] /\ leaf \in [Req -> Nat] /\ index \in [Req -> Nat]
      /\ answer \in [Req -> Receipt \cup {NoReceipt}]
  BY DEF TypeOK
<1>a. \A q \in Req : pc[q] = "answered" =>
        Stored(content[q]) /\ answer[q] = receiptOf[content[q]]
  BY DEF TreeInv, OneReceiptPerContent
<1> USE DEF Writing, HoldsTree, InTx
<1>1. CASE UNCHANGED vars
  BY <1>1, <1>a, TreeFrame
<1>2. CASE Crash
  <2>1. \A q \in Req :
          \/ pc'[q] = "lost"
          \/ /\ pc'[q] = pc[q]
             /\ pc[q] \in Finished \cup {"idle"}
    <3>1. \A q \in Req : pc'[q] = IF pc[q] \in Finished \cup {"idle"} THEN pc[q] ELSE "lost"
      BY <1>2 DEF Crash
    <3>2. QED
      BY <3>1
  <2>2. \A q \in Req : pc'[q] \notin {"append", "commit", "fanout"}
    BY <2>1 DEF Finished, Codes
  <2>3. QED
    BY <1>2, <1>a, <2>1, <2>2, TreeFrame DEF Crash
<1>3. ASSUME NEW r \in Req, Submit(r) \/ Step(r) \/ TxError(r) PROVE TreeInv'
  <2>1. CASE /\ UNCHANGED <<receiptOf, originOf, leaves, content, outbox, answer,
                           leaf, origin>>
             /\ \A q \in Req : q # r => index'[q] = index[q]
             /\ \E step : /\ pc' = [pc EXCEPT ![r] = step]
                          /\ step \notin {"append", "commit", "fanout", "answered"}
    BY <2>1, <1>t, <1>a, TreeFrame
  <2>2. CASE AnswerStored(r) /\ Stored(content[r])
    BY <2>2, <1>t, <1>a, TreeFrame DEF AnswerStored
  <2>3. CASE TxInsert(r)
    <3>1. CASE AnswerStored(r) /\ Stored(content[r])
      BY <3>1, <2>2
    <3>2. CASE Spin(r)
      <4>1. pc' = [pc EXCEPT ![r] = "reserve"] /\ index' = [index EXCEPT ![r] = 0]
        BY <3>2 DEF Spin, Abort
      <4>2. UNCHANGED <<receiptOf, originOf, leaves, content, outbox, answer, leaf, origin>>
        BY <3>2 DEF Spin, Abort
      <4>3. QED
        BY <4>1, <4>2, <2>1, <1>t
    <3>3. CASE /\ ~Stored(content[r]) /\ Goto(r, "append")
               /\ \A q \in Req \ {r} : ~HoldsContent(q, content[r])
               /\ UNCHANGED <<stores, memory, content, origin, index, leaf, aborts, answer, crashes>>
      <4>1. \A q \in Req : q # r => pc'[q] = pc[q]
        BY <3>3, <1>t
      <4>2. pc'[r] = "append"
        BY <3>3, <1>t
      <4>3. \A q \in Req : Writing(q)' => q = r \/ (Writing(q) /\ content[q] # content[r])
        BY <3>3, <4>1 DEF HoldsContent
      <4>4. \A q \in Req : HoldsTree(q)' => HoldsTree(q)
        BY <4>1, <4>2
      <4>5. \A q \in Req : pc'[q] = "fanout" => pc[q] = "fanout"
        BY <4>1, <4>2
      <4>6. OneReceiptPerContent'
        BY <3>3, <4>1, <4>2, <1>a DEF OneReceiptPerContent, Stored
      <4>7. ReceiptMatchesLog' /\ NoEcho'
        BY <3>3 DEF TreeInv, ReceiptMatchesLog, NoEcho, Stored
      <4>8. \A q, s \in Req : q # s /\ Writing(q)' /\ Writing(s)' => content'[q] # content'[s]
        BY <3>3, <4>3 DEF TreeInv
      <4>9. \A q \in Req : Writing(q)' => ~Stored(content[q])'
        BY <3>3, <4>3 DEF TreeInv, Stored
      <4>10. \A q \in Req : SignReceipt(q)' = SignReceipt(q)
        BY <3>3 DEF SignReceipt
      <4>11. QED
        BY <3>3, <4>4, <4>5, <4>6, <4>7, <4>8, <4>9, <4>10 DEF TreeInv, Stored
    <3>4. QED
      BY <2>3, <3>1, <3>2, <3>3 DEF TxInsert, DuplicateKey
  <2>4. CASE TxAppend(r)
    <3>1. /\ pc[r] = "append" /\ pc' = [pc EXCEPT ![r] = "commit"]
          /\ leaf' = [leaf EXCEPT ![r] = snapshot[r]] /\ snapshot[r] = Len(leaves)
          /\ \A q \in Req \ {r} : ~HoldsTree(q)
          /\ UNCHANGED <<receiptOf, originOf, leaves, content, origin, outbox, answer, index>>
      BY <2>4 DEF TxAppend, TreeOpen
    <3>2. \A q \in Req : q # r => pc'[q] = pc[q] /\ leaf'[q] = leaf[q]
      BY <3>1, <1>t
    <3>3. pc'[r] = "commit" /\ leaf'[r] = Len(leaves)
      BY <3>1, <1>t
    <3>4. \A q \in Req : HoldsTree(q)' => q = r
      BY <3>1, <3>2
    <3>5. \A q \in Req : Writing(q)' => Writing(q)
      BY <3>1, <3>2
    <3>6. \A q \in Req : pc'[q] = "fanout" => pc[q] = "fanout" /\ SignReceipt(q)' = SignReceipt(q)
      BY <3>1, <3>2, <3>3 DEF SignReceipt
    <3>7. OneReceiptPerContent'
      BY <3>1, <3>2, <3>3, <1>a DEF OneReceiptPerContent, Stored
    <3>8. ReceiptMatchesLog' /\ NoEcho'
      BY <3>1 DEF TreeInv, ReceiptMatchesLog, NoEcho, Stored
    <3>9. QED
      BY <3>1, <3>3, <3>4, <3>5, <3>6, <3>7, <3>8 DEF TreeInv, Stored
  <2>5. CASE TxCommit(r)
    BY <2>5, TreeCommit
  <2>6. CASE Fanout(r)
    <3>1. /\ pc[r] = "fanout" /\ pc' = [pc EXCEPT ![r] = "answered"]
          /\ answer' = [answer EXCEPT ![r] = SignReceipt(r)]
          /\ UNCHANGED <<receiptOf, originOf, leaves, content, origin, index, leaf>>
          /\ \E sent \in SUBSET FanoutTo(r) :
                outbox' = outbox \cup {<<content[r], p>> : p \in sent}
      BY <2>6 DEF Fanout
    <3>2. \A q \in Req : q # r => pc'[q] = pc[q] /\ answer'[q] = answer[q]
      BY <3>1, <1>t
    <3>3. pc'[r] = "answered" /\ answer'[r] = SignReceipt(r)
      BY <3>1, <1>t
    <3>4. /\ receiptOf[content[r]] = SignReceipt(r) /\ originOf[content[r]] = origin[r]
          /\ Stored(content[r])
      <4>1. SignReceipt(r) \in Receipt
        BY DEF SignReceipt, Receipt, TypeOK
      <4>2. QED
        BY <3>1, <4>1, NoReceiptIsNone DEF TreeInv, Stored
    <3>5. OneReceiptPerContent'
      BY <3>1, <3>2, <3>3, <3>4, <1>a DEF OneReceiptPerContent, Stored
    <3>6. \A row \in outbox' : Stored(row[1]) /\ originOf[row[1]] # row[2]
      <4>1. \A p \in FanoutTo(r) : p # origin[r]
        BY DEF FanoutTo
      <4>2. QED
        BY <3>1, <3>4, <4>1 DEF TreeInv, NoEcho
    <3>7. NoEcho'
      BY <3>1, <3>6 DEF NoEcho, Stored
    <3>8. ReceiptMatchesLog'
      BY <3>1 DEF TreeInv, ReceiptMatchesLog, Stored
    <3>9. \A q \in Req : pc'[q] = "fanout" => pc[q] = "fanout" /\ SignReceipt(q)' = SignReceipt(q)
      BY <3>1, <3>2, <3>3 DEF SignReceipt
    <3>10. \A q \in Req : (Writing(q)' => Writing(q)) /\ (HoldsTree(q)' => HoldsTree(q))
      BY <3>2, <3>3
    <3>11. QED
      BY <3>1, <3>5, <3>7, <3>8, <3>9, <3>10 DEF TreeInv, Stored
  <2>7. QED
    <3>1. CASE Submit(r)
      BY <3>1, <2>1 DEF Submit
    <3>2. CASE TxError(r)
      <4>1. pc' = [pc EXCEPT ![r] = "failed"]
        BY <3>2 DEF TxError
      <4>2. /\ UNCHANGED <<receiptOf, originOf, leaves, content, outbox, answer>>
            /\ UNCHANGED <<leaf, origin, index>>
        BY <3>2 DEF TxError
      <4>3. \E step : /\ pc' = [pc EXCEPT ![r] = step]
                      /\ step \notin {"append", "commit", "fanout", "answered"}
        <5>1. "failed" \notin {"append", "commit", "fanout", "answered"}
          OBVIOUS
        <5>2. QED
          BY <4>1, <5>1, Zenon
      <4>4. QED
        BY <4>2, <4>3, <2>1
    <3>3. CASE Dedupe(r)
      BY <3>3, <2>1, <2>2 DEF Dedupe
    <3>4. CASE Replay(r)
      BY <3>4, <2>1 DEF Replay
    <3>5. CASE Claim(r)
      BY <3>5, <2>1 DEF Claim
    <3>6. CASE Charge(r)
      BY <3>6, <2>1 DEF Charge
    <3>7. CASE Authorise(r)
      BY <3>7, <2>1 DEF Authorise
    <3>8. CASE TxReserve(r)
      BY <3>8, <2>1 DEF TxReserve
    <3>9. CASE AllocateFromBlock(r)
      BY <3>9, <1>t, <2>1 DEF AllocateFromBlock
    <3>10. CASE ReserveBlock(r)
      BY <3>10, <1>t, <2>1 DEF ReserveBlock
    <3>11. CASE InstallBlock(r)
      BY <3>11, <2>1 DEF InstallBlock
    <3>12. CASE TxAppendConflict(r)
      BY <3>12, <1>t, <2>1 DEF TxAppendConflict, Spin, Abort
    <3>13. QED
      BY <1>3, <2>3, <2>4, <2>5, <2>6, <3>1, <3>2, <3>3, <3>4, <3>5, <3>6, <3>7,
         <3>8, <3>9, <3>10, <3>11, <3>12 DEF Step
<1>4. QED
  BY <1>1, <1>2, <1>3 DEF Next, Quiescent

LEMMA TreeInvariant == Spec => []TreeInv
<1>1. Init => TreeInv
  BY DEF Init, TreeInv, ReceiptMatchesLog, OneReceiptPerContent, NoEcho, Stored, Writing,
         HoldsTree
<1>2. QED
  BY <1>1, TreeStep, TypeCorrect, PTL DEF Spec

\* VP-02 for every number of submissions: the witnessed log is exactly the
\* accepted contents, each at the leaf its receipt names.
THEOREM ReceiptCorrect == Spec => []ReceiptMatchesLog
BY TreeInvariant, PTL DEF TreeInv

\* ER-01: every receipt ever handed out is the persisted one.
THEOREM OneReceiptCorrect == Spec => []OneReceiptPerContent
BY TreeInvariant, PTL DEF TreeInv

\* FD-14: no queued row leads back to where the content came from.
THEOREM NoEchoCorrect == Spec => []NoEcho
BY TreeInvariant, PTL DEF TreeInv

-----------------------------------------------------------------------------
(* The balances: what was admitted, and what is about to be, has been paid.*)

\* The three parts of the bound are numbers, and so are the costs.
LEMMA PaidNumbers ==
    ASSUME TypeOK, PaidInv, NEW s \in Subject
    PROVE  /\ credits[s] \in Nat /\ InitCredits \in Nat
           /\ \A c \in LocalOf(s) : CostOf[c] \in Nat
           /\ \A r \in Req : Owed[r] \in Nat
           /\ SumFunctionOnSet(CostOf, LocalOf(s)) \in Nat
           /\ SumFunctionOnSet(Owed, PayingFor(s)) \in Nat
<1>1. credits[s] \in Nat /\ InitCredits \in Nat
  BY BoundsAreNaturals DEF TypeOK
<1>2. \A c \in LocalOf(s) : CostOf[c] \in Nat
  BY EnvelopeFieldsTyped DEF LocalOf
<1>3. \A r \in Req : Owed[r] \in Nat
  BY EnvelopeFieldsTyped DEF Owed, TypeOK
<1>4. \A r \in PayingFor(s) : Owed[r] \in Nat
  BY <1>3 DEF PayingFor
<1>5. SumFunctionOnSet(CostOf, LocalOf(s)) \in Nat
  BY <1>2, SumOfFewer DEF PaidInv
<1>6. SumFunctionOnSet(Owed, PayingFor(s)) \in Nat
  BY <1>4, SumOfFewer DEF PaidInv
<1>7. QED
  BY <1>1, <1>2, <1>3, <1>5, <1>6

\* A step that charges nobody and admits nothing lets calls end at most.
LEMMA PaidFrame ==
    ASSUME TypeOK, PaidInv, UNCHANGED <<receiptOf, originOf, credits, content, origin>>,
           \A q \in Req : Paying(q)' => Paying(q)
    PROVE  PaidInv'
<1> SUFFICES ASSUME NEW s \in Subject
             PROVE  /\ IsFiniteSet(LocalOf(s))' /\ IsFiniteSet(PayingFor(s))'
                    /\ (credits[s] + SumFunctionOnSet(CostOf, LocalOf(s))
                          + SumFunctionOnSet(Owed, PayingFor(s)) <= InitCredits)'
  BY DEF PaidInv
<1>1. /\ LocalOf(s)' = LocalOf(s) /\ Owed' = Owed /\ PayingFor(s)' \subseteq PayingFor(s)
      /\ credits' = credits
  BY DEF LocalOf, Stored, Owed, PayingFor
<1>2. /\ IsFiniteSet(LocalOf(s)) /\ IsFiniteSet(PayingFor(s))
      /\ credits[s] + SumFunctionOnSet(CostOf, LocalOf(s))
            + SumFunctionOnSet(Owed, PayingFor(s)) <= InitCredits
  BY DEF PaidInv
<1>3. PICK later \in SUBSET PayingFor(s) : later = PayingFor(s)'
  BY <1>1
<1>4. \A r \in PayingFor(s) : Owed[r] \in Nat
  BY PaidNumbers DEF PayingFor
<1>5. /\ SumFunctionOnSet(Owed, later) \in Nat
      /\ SumFunctionOnSet(Owed, later) <= SumFunctionOnSet(Owed, PayingFor(s))
  BY <1>2, <1>4, SumOfFewer
<1>6. IsFiniteSet(later)
  BY <1>2, FS_Subset
<1>7. PICK a \in Nat, b \in Nat, e \in Nat, k \in Nat :
        /\ a = credits[s] /\ b = SumFunctionOnSet(CostOf, LocalOf(s))
        /\ e = SumFunctionOnSet(Owed, PayingFor(s)) /\ k = SumFunctionOnSet(Owed, later)
  BY <1>5, PaidNumbers
<1>8. k <= e /\ a + b + e <= InitCredits /\ InitCredits \in Nat
  BY <1>2, <1>5, <1>7, PaidNumbers
<1>9. a + b + k <= InitCredits
  BY <1>8
<1>10. QED
  BY <1>1, <1>2, <1>3, <1>6, <1>7, <1>9

\* The charge: what leaves the balance is what the call now owes.
LEMMA PaidCharge ==
    ASSUME TypeOK, PaidInv, NEW r \in Req, Charge(r)
    PROVE  PaidInv'
<1>t. pc \in [Req -> Steps] /\ content \in [Req -> Content] /\ credits \in [Subject -> Nat]
  BY DEF TypeOK
<1>1. CASE Reject(r, "INSUFFICIENT_CREDITS")
  <2>1. \A q \in Req : Paying(q)' => Paying(q)
    BY <1>1, <1>t DEF Paying, InTx
  <2>2. QED
    BY <1>1, <2>1, PaidFrame
<1>2. CASE ~Reject(r, "INSUFFICIENT_CREDITS")
  <2> DEFINE u == SubjectOf[content[r]]
             cost == CostOf[content[r]]
  <2>1. /\ pc[r] = "charge" /\ credits[u] >= cost
        /\ credits' = [credits EXCEPT ![u] = @ - cost] /\ pc' = [pc EXCEPT ![r] = "authorise"]
        /\ UNCHANGED <<receiptOf, originOf, content, origin>>
    BY <1>2 DEF Charge, Affordable, Debit
  <2>2. u \in Subject /\ cost \in Nat
    BY <1>t, EnvelopeFieldsTyped
  <2>3. \A q \in Req : Paying(q)' <=> (Paying(q) \/ (q = r /\ origin[r] = Local))
    BY <1>t, <2>1 DEF Paying, InTx
  <2>4. ~Paying(r)
    BY <2>1 DEF Paying, InTx
  <2>5. Owed' = Owed /\ Owed[r] = cost
    BY <2>1 DEF Owed
  <2>6. ASSUME NEW s \in Subject
        PROVE  /\ IsFiniteSet(LocalOf(s))' /\ IsFiniteSet(PayingFor(s))'
               /\ (credits[s] + SumFunctionOnSet(CostOf, LocalOf(s))
                     + SumFunctionOnSet(Owed, PayingFor(s)) <= InitCredits)'
    <3>1. /\ IsFiniteSet(LocalOf(s)) /\ IsFiniteSet(PayingFor(s))
          /\ credits[s] + SumFunctionOnSet(CostOf, LocalOf(s))
                + SumFunctionOnSet(Owed, PayingFor(s)) <= InitCredits
      BY DEF PaidInv
    <3>2. LocalOf(s)' = LocalOf(s)
      BY <2>1 DEF LocalOf, Stored
    <3>3. CASE s # u
      <4>1. PayingFor(s)' = PayingFor(s) /\ credits'[s] = credits[s]
        BY <1>t, <2>1, <2>3, <3>3 DEF PayingFor
      <4>2. QED
        BY <2>5, <3>1, <3>2, <4>1
    <3>4. CASE s = u /\ origin[r] = Local
      <4>1. PICK later : later = PayingFor(s)'
        OBVIOUS
      <4>2. later = PayingFor(s) \cup {r} /\ r \notin PayingFor(s)
        BY <2>1, <2>3, <2>4, <3>4, <4>1 DEF PayingFor
      <4>3. \A q \in PayingFor(s) \cup {r} : Owed[q] \in Int
        <5>1. \A q \in Req : Owed[q] \in Nat
          BY PaidNumbers
        <5>2. QED
          BY <5>1 DEF PayingFor
      <4>4. SumFunctionOnSet(Owed, later) = SumFunctionOnSet(Owed, PayingFor(s)) + cost
        BY <2>5, <3>1, <4>2, <4>3, SumOfOneMore
      <4>5. IsFiniteSet(later)
        BY <3>1, <4>2, FS_AddElement
      <4>6. PICK a \in Nat, b \in Nat, e \in Nat, k \in Nat :
              /\ a = credits[s] /\ b = SumFunctionOnSet(CostOf, LocalOf(s))
              /\ e = SumFunctionOnSet(Owed, PayingFor(s)) /\ k = cost
        BY <2>2, PaidNumbers
      <4>7. credits'[s] = a - k /\ a + b + e <= InitCredits /\ InitCredits \in Nat
        BY <1>t, <2>1, <3>1, <3>4, <4>6, PaidNumbers
      <4>8. (a - k) + b + (e + k) <= InitCredits
        BY <4>7
      <4>9. QED
        BY <2>5, <3>1, <3>2, <4>1, <4>4, <4>5, <4>6, <4>7, <4>8
    <3>5. CASE s = u /\ origin[r] # Local
      <4>1. PayingFor(s)' = PayingFor(s)
        BY <2>1, <2>3, <3>5 DEF PayingFor
      <4>2. PICK a \in Nat, b \in Nat, e \in Nat, k \in Nat :
              /\ a = credits[s] /\ b = SumFunctionOnSet(CostOf, LocalOf(s))
              /\ e = SumFunctionOnSet(Owed, PayingFor(s)) /\ k = cost
        BY <2>2, PaidNumbers
      <4>3. credits'[s] = a - k /\ a + b + e <= InitCredits /\ InitCredits \in Nat
        BY <1>t, <2>1, <3>1, <3>5, <4>2, PaidNumbers
      <4>4. (a - k) + b + e <= InitCredits
        BY <4>3
      <4>5. QED
        BY <2>5, <3>1, <3>2, <4>1, <4>2, <4>3, <4>4
    <3>6. QED
      BY <3>3, <3>4, <3>5
  <2>7. QED
    BY <2>6 DEF PaidInv
<1>3. QED
  BY <1>1, <1>2

\* The commit: what the call owed is what the content admitted has cost.
LEMMA PaidCommit ==
    ASSUME TypeOK, TreeInv, PaidInv, NEW r \in Req, TxCommit(r)
    PROVE  PaidInv'
<1> DEFINE c == content[r]
           u == SubjectOf[content[r]]
           cost == CostOf[content[r]]
<1>t. /\ pc \in [Req -> Steps] /\ content \in [Req -> Content] /\ c \in Content
      /\ receiptOf \in [Content -> Receipt \cup {NoReceipt}] /\ originOf \in [Content -> Origin]
      /\ index \in [Req -> Nat] /\ leaf \in [Req -> Nat]
  BY DEF TypeOK
<1>1. /\ pc[r] = "commit" /\ pc' = [pc EXCEPT ![r] = "fanout"]
      /\ receiptOf' = [receiptOf EXCEPT ![c] = SignReceipt(r)]
      /\ originOf' = [originOf EXCEPT ![c] = origin[r]]
      /\ UNCHANGED <<credits, content, origin>>
  BY DEF TxCommit
<1>2. ~Stored(c)
  BY <1>1 DEF TreeInv, Writing
<1>3. SignReceipt(r) # NoReceipt
  <2>1. SignReceipt(r) \in Receipt
    BY <1>t DEF SignReceipt, Receipt
  <2>2. QED
    BY <2>1, NoReceiptIsNone
<1>4. \A q \in Req : Paying(q)' <=> Paying(q) /\ q # r
  BY <1>t, <1>1 DEF Paying, InTx
<1>5. Paying(r) <=> origin[r] = Local
  BY <1>1 DEF Paying, InTx
<1>6. Owed' = Owed /\ Owed[r] = cost /\ credits' = credits
  BY <1>1 DEF Owed
<1>7. ASSUME NEW s \in Subject
      PROVE  /\ IsFiniteSet(LocalOf(s))' /\ IsFiniteSet(PayingFor(s))'
             /\ (credits[s] + SumFunctionOnSet(CostOf, LocalOf(s))
                   + SumFunctionOnSet(Owed, PayingFor(s)) <= InitCredits)'
  <2>1. /\ IsFiniteSet(LocalOf(s)) /\ IsFiniteSet(PayingFor(s))
        /\ credits[s] + SumFunctionOnSet(CostOf, LocalOf(s))
              + SumFunctionOnSet(Owed, PayingFor(s)) <= InitCredits
    BY DEF PaidInv
  <2>2. CASE s # u \/ origin[r] # Local
    <3>1. PayingFor(s)' = PayingFor(s)
      BY <1>1, <1>4, <1>5, <2>2 DEF PayingFor
    <3>2. LocalOf(s)' = LocalOf(s)
      BY <1>t, <1>1, <1>2, <2>2 DEF LocalOf, Stored
    <3>3. QED
      BY <1>6, <2>1, <3>1, <3>2
  <2>3. CASE s = u /\ origin[r] = Local
    <3>1. PICK later, local : later = PayingFor(s)' /\ local = LocalOf(s)'
      OBVIOUS
    <3>2. later = PayingFor(s) \ {r} /\ r \in PayingFor(s)
      BY <1>1, <1>4, <1>5, <2>3, <3>1 DEF PayingFor
    <3>3. local = LocalOf(s) \cup {c} /\ c \notin LocalOf(s)
      BY <1>t, <1>1, <1>2, <1>3, <2>3, <3>1 DEF LocalOf, Stored
    <3>4. IsFiniteSet(later) /\ IsFiniteSet(local)
      BY <2>1, <3>2, <3>3, FS_AddElement, FS_Subset
    <3>5. SumFunctionOnSet(CostOf, local) = SumFunctionOnSet(CostOf, LocalOf(s)) + cost
      <4>1. \A d \in LocalOf(s) \cup {c} : CostOf[d] \in Int
        BY <1>t, EnvelopeFieldsTyped DEF LocalOf
      <4>2. QED
        BY <2>1, <3>3, <4>1, SumOfOneMore
    <3>6. /\ SumFunctionOnSet(Owed, PayingFor(s)) = SumFunctionOnSet(Owed, later) + cost
          /\ SumFunctionOnSet(Owed, later) \in Int
      <4>1. PayingFor(s) = later \cup {r} /\ r \notin later
        BY <3>2
      <4>2. \A q \in later \cup {r} : Owed[q] \in Int
        <5>1. \A q \in Req : Owed[q] \in Nat
          BY PaidNumbers
        <5>2. QED
          BY <4>1, <5>1 DEF PayingFor
      <4>3. QED
        BY <1>6, <3>4, <4>1, <4>2, SumOfOneMore
    <3>7. PICK a \in Nat, b \in Nat, e \in Int, k \in Nat :
            /\ a = credits[s] /\ b = SumFunctionOnSet(CostOf, LocalOf(s))
            /\ e = SumFunctionOnSet(Owed, later) /\ k = cost
      BY <1>t, <3>6, PaidNumbers, EnvelopeFieldsTyped
    <3>8. a + b + (e + k) <= InitCredits /\ InitCredits \in Nat
      BY <2>1, <3>6, <3>7, PaidNumbers
    <3>9. a + (b + k) + e <= InitCredits
      BY <3>8
    <3>10. QED
      BY <1>6, <3>1, <3>4, <3>5, <3>7, <3>9
  <2>4. QED
    BY <2>2, <2>3
<1>8. QED
  BY <1>7 DEF PaidInv

LEMMA PaidStep == TypeOK /\ TreeInv /\ PaidInv /\ [Next]_vars => PaidInv'
<1> SUFFICES ASSUME TypeOK, TreeInv, PaidInv, [Next]_vars PROVE PaidInv'
  OBVIOUS
<1>t. pc \in [Req -> Steps]
  BY DEF TypeOK
<1>1. CASE UNCHANGED vars
  BY <1>1, PaidFrame DEF Paying
<1>2. CASE Crash
  <2>1. \A q \in Req : Paying(q)' => Paying(q)
    BY <1>2, <1>t DEF Crash, Paying, InTx, Finished, Codes
  <2>2. QED
    BY <1>2, <2>1, PaidFrame DEF Crash
<1>3. ASSUME NEW r \in Req, Submit(r) \/ Step(r) \/ TxError(r) PROVE PaidInv'
  <2>1. ASSUME UNCHANGED <<receiptOf, originOf, credits, content, origin>>,
               NEW step, pc' = [pc EXCEPT ![r] = step],
               \/ pc[r] \in InTx \cup {"authorise"}
               \/ step \notin InTx \cup {"authorise"}
               \/ origin[r] # Local
        PROVE  PaidInv'
    <3>1. \A q \in Req : Paying(q)' => Paying(q)
      BY <2>1, <1>t DEF Paying
    <3>2. QED
      BY <2>1, <3>1, PaidFrame
  <2> USE DEF InTx
  <2>2. CASE Submit(r)
    BY <2>2, <2>1 DEF Submit
  <2>3. CASE TxError(r)
    BY <2>3, <2>1 DEF TxError
  <2>4. CASE Dedupe(r)
    BY <2>4, <2>1 DEF Dedupe, AnswerStored
  <2>5. CASE Replay(r)
    BY <2>5, <2>1 DEF Replay
  <2>6. CASE Claim(r)
    BY <2>6, <2>1 DEF Claim
  <2>7. CASE Authorise(r)
    BY <2>7, <2>1 DEF Authorise
  <2>8. CASE TxReserve(r)
    BY <2>8, <2>1 DEF TxReserve
  <2>9. CASE AllocateFromBlock(r)
    BY <2>9, <2>1 DEF AllocateFromBlock
  <2>10. CASE ReserveBlock(r)
    BY <2>10, <2>1 DEF ReserveBlock
  <2>11. CASE InstallBlock(r)
    BY <2>11, <2>1 DEF InstallBlock
  <2>12. CASE TxInsert(r)
    BY <2>12, <2>1 DEF TxInsert, AnswerStored, Spin, Abort
  <2>13. CASE TxAppend(r)
    BY <2>13, <2>1 DEF TxAppend
  <2>14. CASE TxAppendConflict(r)
    BY <2>14, <2>1 DEF TxAppendConflict, Spin, Abort
  <2>15. CASE Fanout(r)
    BY <2>15, <2>1 DEF Fanout
  <2>16. QED
    BY <1>3, <2>2, <2>3, <2>4, <2>5, <2>6, <2>7, <2>8, <2>9, <2>10, <2>11, <2>12,
       <2>13, <2>14, <2>15, PaidCharge, PaidCommit DEF Step
<1>4. QED
  BY <1>1, <1>2, <1>3 DEF Next, Quiescent

\* Admission is charged at origin (ingress.ts, step 13): with any number of
\* submissions for a subject open at once, conflicts, refusals after the
\* charge, retries and crashes included, what was admitted from here never
\* cost more than the balance lost.
THEOREM AdmittedIsPaidCorrect == Spec => []AdmittedIsPaid
<1>1. Init => PaidInv
  <2>1. SUFFICES ASSUME Init, NEW s \in Subject
                 PROVE  /\ IsFiniteSet(LocalOf(s)) /\ IsFiniteSet(PayingFor(s))
                        /\ credits[s] + SumFunctionOnSet(CostOf, LocalOf(s))
                              + SumFunctionOnSet(Owed, PayingFor(s)) <= InitCredits
    BY DEF PaidInv
  <2>2. LocalOf(s) = {} /\ PayingFor(s) = {} /\ credits[s] = InitCredits
    BY <2>1 DEF Init, LocalOf, PayingFor, Paying, Stored, InTx
  <2>3. SumFunctionOnSet(CostOf, {}) = 0 /\ SumFunctionOnSet(Owed, {}) = 0
    BY SumOfNone
  <2>4. InitCredits \in Nat /\ IsFiniteSet({})
    BY BoundsAreNaturals, FS_EmptySet
  <2>5. QED
    BY <2>2, <2>3, <2>4
<1>2. TypeOK /\ PaidInv => AdmittedIsPaid
  <2>1. SUFFICES ASSUME TypeOK, PaidInv, NEW s \in Subject
                 PROVE  credits[s] + SumFunctionOnSet(CostOf, LocalOf(s)) <= InitCredits
    BY DEF AdmittedIsPaid
  <2>2. PICK a \in Nat, b \in Nat, e \in Nat :
          /\ a = credits[s] /\ b = SumFunctionOnSet(CostOf, LocalOf(s))
          /\ e = SumFunctionOnSet(Owed, PayingFor(s))
    BY <2>1, PaidNumbers
  <2>3. a + b + e <= InitCredits /\ InitCredits \in Nat
    BY <2>1, <2>2, PaidNumbers DEF PaidInv
  <2>4. QED
    BY <2>2, <2>3
<1>3. QED
  BY <1>1, <1>2, PaidStep, TypeCorrect, TreeInvariant, PTL DEF Spec

-----------------------------------------------------------------------------
(* The pipeline implements the log it promises.                            *)

\* A receipt is handed out once: only a call that has ended has one.
AnswerInv == \A r \in Req : answer[r] # NoReceipt => pc[r] = "answered"

\* What the log's answers are in the pipeline.
Place(a) == [content |-> a.content, leaf |-> a.leafIndex]
Answers == {Place(a) : a \in Given}

LEMMA AnswerStep == TypeOK /\ AnswerInv /\ [Next]_vars => AnswerInv'
<1> SUFFICES ASSUME TypeOK, AnswerInv, [Next]_vars PROVE AnswerInv'
  OBVIOUS
<1>t. pc \in [Req -> Steps] /\ answer \in [Req -> Receipt \cup {NoReceipt}]
  BY DEF TypeOK
<1> USE DEF AnswerInv
<1>1. CASE UNCHANGED vars
  BY <1>1
<1>2. CASE Crash
  BY <1>2, <1>t DEF Crash, Finished
<1>3. ASSUME NEW r \in Req, Submit(r) \/ Step(r) \/ TxError(r) PROVE AnswerInv'
  <2>1. CASE AnswerStored(r)
    BY <2>1, <1>t DEF AnswerStored
  <2>2. ASSUME pc[r] # "answered", UNCHANGED answer, NEW step, pc' = [pc EXCEPT ![r] = step]
        PROVE  AnswerInv'
    BY <2>2, <1>t
  <2> USE DEF InTx
  <2>3. CASE Submit(r)
    BY <2>3, <2>2 DEF Submit
  <2>4. CASE TxError(r)
    BY <2>4, <2>2 DEF TxError
  <2>5. CASE Dedupe(r)
    BY <2>5, <2>1, <2>2 DEF Dedupe
  <2>6. CASE Replay(r) \/ Claim(r)
    BY <2>6, <2>2 DEF Replay, Claim
  <2>7. CASE Charge(r) \/ Authorise(r)
    BY <2>7, <2>2 DEF Charge, Authorise
  <2>8. CASE TxReserve(r)
    BY <2>8, <2>2 DEF TxReserve
  <2>9. CASE AllocateFromBlock(r)
    BY <2>9, <2>2 DEF AllocateFromBlock
  <2>10. CASE ReserveBlock(r)
    BY <2>10, <2>2 DEF ReserveBlock
  <2>11. CASE InstallBlock(r)
    BY <2>11, <2>2 DEF InstallBlock
  <2>12. CASE TxInsert(r)
    BY <2>12, <2>1, <2>2 DEF TxInsert, Spin, Abort
  <2>13. CASE TxAppend(r)
    BY <2>13, <2>2 DEF TxAppend
  <2>14. CASE TxAppendConflict(r)
    BY <2>14, <2>2 DEF TxAppendConflict, Spin, Abort
  <2>15. CASE TxCommit(r)
    BY <2>15, <2>2 DEF TxCommit
  <2>16. CASE Fanout(r)
    BY <2>16, <1>t DEF Fanout
  <2>17. QED
    BY <1>3, <2>3, <2>4, <2>5, <2>6, <2>7, <2>8, <2>9, <2>10, <2>11, <2>12, <2>13,
       <2>14, <2>15, <2>16 DEF Step
<1>4. QED
  BY <1>1, <1>2, <1>3 DEF Next, Quiescent

\* A call that is handed the persisted receipt is told its content's place.
LEMMA AnswerMapped ==
  ASSUME TypeOK, TreeInv, AnswerInv, NEW r \in Req, pc[r] # "answered", Stored(content[r]),
         answer' = [answer EXCEPT ![r] = receiptOf[content[r]]], UNCHANGED leaves
  PROVE  Log!Next
<1>1. PICK c \in Content : c = content[r]
  BY DEF TypeOK
<1>2. PICK a \in Receipt : a = receiptOf[c]
  BY <1>1 DEF TypeOK, Stored
<1>3. /\ a.content = c /\ a.leafIndex \in Nat
      /\ a.leafIndex < Len(leaves) /\ leaves[a.leafIndex + 1] = c
  BY <1>1, <1>2 DEF TreeInv, ReceiptMatchesLog, Stored, Receipt
<1>4. PICK i \in Nat : i = a.leafIndex + 1
  BY <1>3
<1>5. i \in 1..Len(leaves) /\ leaves[i] = c /\ i - 1 = a.leafIndex
  <2>1. Len(leaves) \in Nat
    BY DEF TypeOK
  <2>2. i \in 1..Len(leaves) /\ i - 1 = a.leafIndex
    BY <1>3, <1>4, <2>1
  <2>3. QED
    BY <1>3, <1>4, <2>2
<1>6. answer[r] = NoReceipt /\ answer' = [answer EXCEPT ![r] = a]
  BY <1>1, <1>2 DEF AnswerInv
<1>7. Given' = Given \cup {a}
  BY <1>2, <1>6, NoReceiptIsNone DEF Given, TypeOK
<1>8. Answers' = Answers \cup {Place(a)}
  BY <1>7 DEF Answers
<1>9. Place(a) = [content |-> leaves[i], leaf |-> i - 1]
  BY <1>3, <1>5 DEF Place
<1>10. Log!Answer(i)
  BY <1>8, <1>9 DEF Log!Answer, Answers, Place
<1>11. QED
  BY <1>5, <1>10 DEF Log!Next

LEMMA LogStep ==
  TypeOK /\ TreeInv /\ AnswerInv /\ [Next]_vars => [Log!Next]_(Log!logVars)
<1> SUFFICES ASSUME TypeOK, TreeInv, AnswerInv, [Next]_vars
             PROVE  Log!Next \/ UNCHANGED <<leaves, Answers>>
  BY DEF Log!logVars, Answers, Place
<1>1. CASE UNCHANGED <<leaves, answer>>
  BY <1>1 DEF Answers, Given, Place
<1>2. CASE UNCHANGED vars \/ Crash
  BY <1>1, <1>2 DEF Crash
<1>3. ASSUME NEW r \in Req, TxCommit(r) PROVE Log!Next
  <2>1. PICK c \in Content : c = content[r]
    BY DEF TypeOK
  <2>2. leaves' = Append(leaves, c) /\ UNCHANGED answer /\ ~Stored(c)
    BY <1>3, <2>1 DEF TxCommit, TreeInv, Writing
  <2>3. c \notin {leaves[i] : i \in 1..Len(leaves)}
    BY <2>2 DEF TreeInv, ReceiptMatchesLog
  <2>4. Log!Witness(c)
    BY <2>2, <2>3 DEF Log!Witness, Log!Logged, Given
  <2>5. QED
    BY <2>4 DEF Log!Next
<1>4. ASSUME NEW r \in Req, pc[r] # "answered", AnswerStored(r), Stored(content[r])
      PROVE  Log!Next
  BY <1>4, AnswerMapped DEF AnswerStored
<1>5. ASSUME NEW r \in Req, Fanout(r) PROVE Log!Next
  <2>1. pc[r] = "fanout" /\ receiptOf[content[r]] = SignReceipt(r)
    BY <1>5 DEF Fanout, TreeInv
  <2>2. Stored(content[r])
    <3>1. SignReceipt(r) \in Receipt
      BY DEF SignReceipt, Receipt, TypeOK
    <3>2. QED
      BY <2>1, <3>1, NoReceiptIsNone DEF Stored
  <2>3. QED
    BY <1>5, <2>1, <2>2, AnswerMapped DEF Fanout
<1>6. ASSUME NEW r \in Req, Submit(r) \/ Step(r) \/ TxError(r)
      PROVE  Log!Next \/ UNCHANGED <<leaves, answer>>
  <2>1. CASE Submit(r) \/ TxError(r)
    BY <2>1 DEF Submit, TxError
  <2>2. CASE Dedupe(r)
    BY <2>2, <1>4 DEF Dedupe
  <2>3. CASE TxInsert(r)
    BY <2>3, <1>4 DEF TxInsert, DuplicateKey, Spin, Abort
  <2>4. CASE Replay(r) \/ Claim(r) \/ Charge(r) \/ Authorise(r)
    BY <2>4 DEF Replay, Claim, Charge, Authorise
  <2>5. CASE TxReserve(r) \/ AllocateFromBlock(r) \/ ReserveBlock(r) \/ InstallBlock(r)
    BY <2>5 DEF TxReserve, AllocateFromBlock, ReserveBlock, InstallBlock
  <2>6. CASE TxAppend(r) \/ TxAppendConflict(r)
    BY <2>6 DEF TxAppend, TxAppendConflict, Spin, Abort
  <2>7. QED
    BY <1>6, <2>1, <2>2, <2>3, <2>4, <2>5, <2>6, <1>3, <1>5 DEF Step
<1>7. QED
  BY <1>1, <1>2, <1>6 DEF Next, Quiescent

\* Whatever a call, a conflict or a crash does, the write path is seen from
\* outside as an append-only log that holds each content at most once and
\* tells every client the one place of its content.
THEOREM LogImplemented == Spec => ImplementsLog
<1>1. Init => Log!Init
  BY DEF Init, Log!Init, Given
<1>2. Init => AnswerInv
  BY DEF Init, AnswerInv
<1>3. Spec => []AnswerInv
  BY <1>2, AnswerStep, TypeCorrect, PTL DEF Spec
<1>4. QED
  BY <1>1, <1>3, LogStep, TypeCorrect, TreeInvariant, PTL DEF Spec, Log!Spec, ImplementsLog
=============================================================================
