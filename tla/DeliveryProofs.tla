--------------------------- MODULE DeliveryProofs ---------------------------
(***************************************************************************)
(* The two ways an envelope takes between nodes. The outbox loses nothing  *)
(* and its ledger is true, for every number of overlapping passes, peers,  *)
(* envelopes, errors and crashes: what a pass carries over an await is     *)
(* only what the peer has, and it only retires rows of a peer that was cut *)
(* off. Catching up with a peer that commits in the order of its indices   *)
(* loses nothing either, for every log, hole, restart, and number of       *)
(* connections: what such a peer has yet to commit lies at or above its    *)
(* tree size, so neither the cursor nor a pass ever gets past it.          *)
(***************************************************************************)
EXTENDS FederationOutbox, CatchUp, Sums, TLAPS

-----------------------------------------------------------------------------
(* The outbox.                                                             *)

Share == Batch \cup {Idle}

\* What a batch relies on when it takes rows out of the queue.
Sound(b, p, has, cut) ==
    /\ \A c \in b.accepted : <<c, p>> \in has
    /\ b.recorded \subseteq b.accepted
    /\ b.step # "answered" => b.recorded = {}
    /\ b.step = "retire" => p \in cut

Backed ==
    /\ Peer \ trusted \subseteq wasCut
    /\ \A d \in Drainer, p \in Peer : batches[d][p] # Idle => Sound(batches[d][p], p, held, wasCut)

IInv == TypeOK /\ Backed /\ NothingLost /\ LedgerIsTrue

-----------------------------------------------------------------------------
(* The writes to a row.                                                    *)

LEMMA DeadLetterEntry ==
    ASSUME NEW entry \in Entry \cup {NoRow}
    PROVE  /\ DeadLetter(entry) \in Entry \cup {NoRow}
           /\ DeadLetter(entry) = NoRow => entry = NoRow
<1>1. CASE entry = NoRow
    BY <1>1 DEF DeadLetter
<1>2. CASE entry # NoRow
  <2>1. DeadLetter(entry) = [attempts |-> entry.attempts + 1, due |-> entry.due, dead |-> TRUE]
      BY <1>2 DEF DeadLetter, Entry
  <2>2. DeadLetter(entry) \in Entry
      BY <1>2, <2>1 DEF Entry
  <2> QED BY <2>2, NoneIsNone
<1> QED BY <1>1, <1>2

LEMMA RetryEntry ==
    ASSUME NEW entry \in Entry \cup {NoRow}, NEW n \in Nat, NEW at \in Int, NEW hint \in Int
    PROVE  /\ Retry(entry, n, at, hint) \in Entry \cup {NoRow}
           /\ Retry(entry, n, at, hint) = NoRow => entry = NoRow
<1>1. CASE Exhausted(n)
    BY <1>1, DeadLetterEntry DEF Retry
<1>2. CASE ~Exhausted(n)
  <2>1. n + 1 \in 0 .. MAX_DELIVERY_ATTEMPTS
      BY <1>2, ConstantsTyped DEF Exhausted
  <2>2. at + Later(backoffDelayMs(n + 1), hint) \in Int
      BY <2>1, DelaysTyped DEF Later
  <2>3. ASSUME NEW t \in Int
        PROVE  /\ Postponed(entry, t) \in Entry \cup {NoRow}
               /\ Postponed(entry, t) = NoRow => entry = NoRow
    <3>1. CASE entry = NoRow
        BY <3>1 DEF Postponed
    <3>2. CASE entry # NoRow
      <4>1. Postponed(entry, t) =
               [attempts |-> entry.attempts + 1, due |-> t, dead |-> entry.dead]
          BY <3>2 DEF Postponed, Entry
      <4>2. Postponed(entry, t) \in Entry
          BY <3>2, <4>1 DEF Entry
      <4> QED BY <4>2, NoneIsNone
    <3> QED BY <3>1, <3>2
  <2> QED BY <1>2, <2>2, <2>3 DEF Retry
<1> QED BY <1>1, <1>2

\* A write changes one row, and leaves the collection typed.
LEMMA WriteRow ==
    ASSUME TypeOK, NEW row \in Row, NEW entry \in Entry \cup {NoRow}, Write(row, entry)
    PROVE  /\ rows' \in [Row -> Entry \cup {NoRow}]
           /\ rows'[row] = entry
           /\ \A other \in Row \ {row} : rows'[other] = rows[other]
BY DEF Write, TypeOK

-----------------------------------------------------------------------------
(* The steps of a batch.                                                   *)

LEMMA GotoShare ==
    ASSUME TypeOK, NEW d \in Drainer, NEW p \in Peer, NEW b \in Share, Goto(d, p, b)
    PROVE  /\ batches' \in [Drainer -> [Peer -> Share]]
           /\ batches'[d][p] = b
           /\ \A e \in Drainer, q \in Peer : <<e, q>> # <<d, p>> => batches'[e][q] = batches[e][q]
BY DEF Goto, TypeOK, Share

\* The other batches keep their support while held and wasCut only grow.
LEMMA GotoBacked ==
    ASSUME IInv, NEW d \in Drainer, NEW p \in Peer, NEW b \in Share, Goto(d, p, b),
           held \subseteq held', UNCHANGED <<trusted, wasCut>>, b # Idle => Sound(b, p, held', wasCut')
    PROVE  Backed'
<1>1. TypeOK /\ Backed
    BY DEF IInv
<1>2. ASSUME NEW e \in Drainer, NEW q \in Peer, batches'[e][q] # Idle
      PROVE  Sound(batches'[e][q], q, held', wasCut')
  <2>1. CASE <<e, q>> = <<d, p>>
      BY <1>1, <1>2, <2>1, GotoShare DEF Sound
  <2>2. CASE <<e, q>> # <<d, p>>
    <3>1. batches'[e][q] = batches[e][q]
        BY <1>1, <2>2, GotoShare
    <3> QED BY <1>1, <1>2, <3>1 DEF Backed, Sound
  <2> QED BY <2>1, <2>2
<1> QED BY <1>1, <1>2 DEF Backed

LEMMA SettledShare ==
    ASSUME NEW b \in Batch, NEW c
    PROVE  /\ Settled(b, c) \in Share
           /\ Settled(b, c) # Idle =>
                 /\ Settled(b, c).step = b.step
                 /\ Settled(b, c).accepted = b.accepted
                 /\ Settled(b, c).recorded = {}
BY DEF Settled, Share, Batch

\* No row is lost when every row that goes has been delivered, or its peer
\* has been cut off.
LEMMA LostNothing ==
    ASSUME IInv, wanted' = wanted, held \subseteq held', wasCut \subseteq wasCut',
           ledger' = ledger,
           \A row \in Row : rows'[row] = NoRow =>
              rows[row] = NoRow \/ row \in held' \/ row[2] \in wasCut'
    PROVE  NothingLost' /\ LedgerIsTrue'
BY DEF IInv, TypeOK, NothingLost, LedgerIsTrue

\* A step of a batch that settles a row, or none.
LEMMA SettleStep ==
    ASSUME IInv, NEW d \in Drainer, NEW p \in Peer, NEW c \in Content,
           batches[d][p] # Idle,
           NEW entry \in Entry \cup {NoRow}, Write(<<c, p>>, entry),
           entry = NoRow => rows[<<c, p>>] = NoRow \/ <<c, p>> \in held \/ p \in wasCut,
           Goto(d, p, Settled(batches[d][p], c)),
           UNCHANGED <<ledger, held, late, trusted, now, fanouts, faults, wanted, wasCut>>
    PROVE  IInv'
<1> DEFINE b == batches[d][p]
<1>1. TypeOK /\ Backed
    BY DEF IInv
<1>2. b \in Batch /\ <<c, p>> \in Row
    BY <1>1 DEF TypeOK, Row
<1>3. Settled(b, c) \in Share
    BY <1>2, SettledShare
<1>4. TypeOK'
    BY <1>1, <1>2, <1>3, WriteRow, GotoShare DEF TypeOK, Share
<1>5. Settled(b, c) # Idle => Sound(Settled(b, c), p, held', wasCut')
    BY <1>1, <1>2, SettledShare DEF Backed, Sound
<1>6. Backed'
    BY <1>3, <1>5, GotoBacked
<1>7. \A row \in Row : rows'[row] = NoRow =>
         rows[row] = NoRow \/ row \in held' \/ row[2] \in wasCut'
    BY <1>1, <1>2, WriteRow
<1> QED BY <1>4, <1>6, <1>7, LostNothing DEF IInv

\* A step of a batch that leaves the queue and the ledger alone.
LEMMA QuietStep ==
    ASSUME IInv, NEW d \in Drainer, NEW p \in Peer, NEW b \in Share, Goto(d, p, b),
           b # Idle => Sound(b, p, held', wasCut'),
           held \subseteq held', held' \subseteq Row, late' \subseteq Row, faults' \in Nat,
           UNCHANGED <<rows, ledger, trusted, now, fanouts, wanted, wasCut>>
    PROVE  IInv'
<1>1. TypeOK'
    BY GotoShare DEF IInv, TypeOK, Share
<1>2. Backed'
    BY GotoBacked
<1> QED BY <1>1, <1>2, LostNothing DEF IInv

-----------------------------------------------------------------------------
(* One lemma per group of actions.                                         *)

LEMMA FanoutStep == ASSUME IInv, NEW c \in Content, Fanout(c) PROVE IInv'
<1>1. PICK to \in SUBSET Peer \ {{}} :
         /\ rows' = [row \in Row |->
               IF row \in {c} \X to THEN QueuedEntry(rows[row]) ELSE rows[row]]
         /\ wanted' = wanted \cup {c} \X to
    BY DEF Fanout
<1>2. ASSUME NEW entry \in Entry \cup {NoRow}
      PROVE  QueuedEntry(entry) \in Entry
    BY <1>2 DEF QueuedEntry, Entry, IInv, TypeOK
<1>3. \A row \in Row : rows'[row] \in Entry \cup {NoRow}
    BY <1>1, <1>2 DEF IInv, TypeOK
<1>4. \A row \in Row : row \in {c} \X to => rows'[row] # NoRow
    BY <1>1, <1>2, NoneIsNone DEF IInv, TypeOK
<1>5. \A row \in Row : row \notin {c} \X to => rows'[row] = rows[row]
    BY <1>1
<1>6. wanted' \subseteq Row
    BY <1>1 DEF IInv, TypeOK, Row
<1>7. TypeOK'
    BY <1>1, <1>3, <1>6 DEF IInv, TypeOK, Fanout
<1>8. Backed' /\ LedgerIsTrue'
    BY DEF IInv, Backed, Sound, LedgerIsTrue, Fanout
<1>9. NothingLost'
    BY <1>1, <1>4, <1>5, <1>6 DEF IInv, NothingLost, Fanout
<1> QED BY <1>7, <1>8, <1>9 DEF IInv

LEMMA DrainStep == ASSUME IInv, NEW d \in Drainer, Drain(d) PROVE IInv'
<1>1. PICK taken \in Leases \ {{}} :
         batches' = [batches EXCEPT ![d] =
            [p \in Peer |->
               LET contents == {c \in Content : <<c, p>> \in taken}
               IN  IF contents = {} THEN Idle ELSE NewBatch(contents, p)]]
    BY DEF Drain
<1> DEFINE contents(p) == {c \in Content : <<c, p>> \in taken}
<1>2. \A row \in taken : rows[row] \in Entry
    BY DEF Leases, Due, Live, IInv, TypeOK
<1>3. ASSUME NEW p \in Peer
      PROVE  /\ NewBatch(contents(p), p) \in Batch
             /\ NewBatch(contents(p), p).accepted = {}
             /\ NewBatch(contents(p), p).recorded = {}
             /\ NewBatch(contents(p), p).step = "peer"
  <2>1. [c \in Content |-> IF c \in contents(p) THEN rows[<<c, p>>].attempts ELSE 0]
           \in [Content -> Nat]
      BY <1>2 DEF Entry
  <2> QED BY <2>1 DEF NewBatch, Batch, Steps, IInv, TypeOK
<1>4. batches' \in [Drainer -> [Peer -> Share]]
    BY <1>1, <1>3 DEF IInv, TypeOK, Share
<1>5. \A e \in Drainer \ {d} : batches'[e] = batches[e]
    BY <1>1 DEF IInv, TypeOK
<1>6. \A p \in Peer : batches'[d][p] = Idle \/ batches'[d][p] = NewBatch(contents(p), p)
    BY <1>1 DEF IInv, TypeOK
<1>7. Backed'
  <2>1. ASSUME NEW e \in Drainer, NEW q \in Peer, batches'[e][q] # Idle
        PROVE  Sound(batches'[e][q], q, held', wasCut')
    <3>1. CASE e = d
        BY <1>3, <1>6, <2>1, <3>1 DEF Sound
    <3>2. CASE e # d
        BY <1>5, <2>1, <3>2 DEF IInv, Backed, Drain, Sound
    <3> QED BY <3>1, <3>2
  <2> QED BY <2>1 DEF IInv, Backed, Drain
<1>8. TypeOK'
    BY <1>4 DEF IInv, TypeOK, Drain, Share
<1> QED BY <1>7, <1>8, LostNothing DEF IInv, Drain

LEMMA PassStep ==
    ASSUME IInv, NEW d \in Drainer, NEW p \in Peer,
           CheckPeer(d, p) \/ Send(d, p) \/ Answer(d, p) \/ Abandon(d, p) \/ DbError(d, p)
    PROVE  IInv'
<1> DEFINE b == batches[d][p]
<1>1. TypeOK /\ Backed
    BY DEF IInv
<1>2. b \in Batch /\ b # Idle /\ Sound(b, p, held, wasCut)
    BY <1>1 DEF TypeOK, Backed, CheckPeer, Send, Answer, Abandon, DbError, At
<1>3. faults \in Nat /\ late \subseteq Row /\ held \subseteq Row
    BY <1>1 DEF TypeOK
<1>4. CASE CheckPeer(d, p)
  <2> DEFINE share == [b EXCEPT !.step = IF p \in trusted THEN "read" ELSE "retire"]
  <2>1. share \in Share
      BY <1>2 DEF Share, Batch, Steps
  <2>2. Sound(share, p, held', wasCut')
      BY <1>1, <1>2, <1>4 DEF Sound, Batch, CheckPeer, Backed, At
  <2> QED BY <1>3, <1>4, <2>1, <2>2, QuietStep DEF CheckPeer
<1>5. CASE Send(d, p)
  <2> DEFINE share == [b EXCEPT !.step = "sent", !.frames = b.left]
  <2>1. share \in Share
      BY <1>2 DEF Share, Batch, Steps
  <2>2. Sound(share, p, held', wasCut')
      BY <1>2, <1>5 DEF Sound, Batch, Send, At
  <2> QED BY <1>3, <1>5, <2>1, <2>2, QuietStep DEF Send
<1>6. CASE Answer(d, p)
  <2>1. PICK accepted \in SUBSET b.frames, hint \in Hint :
        \E unwanted \in SUBSET (b.frames \ accepted) :
           /\ held' = held \cup accepted \X {p}
           /\ Goto(d, p, [b EXCEPT !.step = "answered", !.accepted = accepted,
                                   !.refused = unwanted, !.hint = hint])
      BY <1>6 DEF Answer
  <2>2. PICK unwanted \in SUBSET (b.frames \ accepted) :
           /\ held' = held \cup accepted \X {p}
           /\ Goto(d, p, [b EXCEPT !.step = "answered", !.accepted = accepted,
                                   !.refused = unwanted, !.hint = hint])
      BY <2>1
  <2> DEFINE share == [b EXCEPT !.step = "answered", !.accepted = accepted,
                               !.refused = unwanted, !.hint = hint]
  <2>3. share \in Share
    <3>1. accepted \subseteq Content /\ unwanted \subseteq Content /\ hint \in Int
        BY <1>2, ConstantsTyped DEF Batch
    <3> QED BY <1>2, <3>1 DEF Share, Batch, Steps
  <2>4. held' \subseteq Row /\ held \subseteq held'
      BY <1>2, <1>3, <2>2 DEF Row, Batch
  <2>5. Sound(share, p, held', wasCut')
      BY <1>2, <1>6, <2>2 DEF Sound, Batch, Answer, At
  <2> QED BY <1>2, <1>3, <1>6, <2>2, <2>3, <2>4, <2>5, QuietStep DEF Answer
<1>7. CASE Abandon(d, p)
  <2> DEFINE share == [b EXCEPT !.step = "failing"]
  <2>1. share \in Share
      BY <1>2 DEF Share, Batch, Steps
  <2>2. Sound(share, p, held', wasCut')
      BY <1>2, <1>7 DEF Sound, Batch, Abandon, At
  <2>3. late' \subseteq Row
      BY <1>2, <1>3, <1>7 DEF Abandon, Row, Batch
  <2> QED BY <1>3, <1>7, <2>1, <2>2, <2>3, QuietStep DEF Abandon
<1>8. CASE DbError(d, p)
  <2> DEFINE share == IF b.step = "answered"
                     THEN [b EXCEPT !.step = "failing", !.left = b.frames, !.recorded = {}]
                     ELSE Idle
  <2>1. share \in Share
      BY <1>2 DEF Share, Batch, Steps
  <2>2. share # Idle => Sound(share, p, held', wasCut')
      BY <1>2, <1>8 DEF Sound, Batch, DbError
  <2> QED BY <1>3, <1>8, <2>1, <2>2, QuietStep DEF DbError
<1> QED BY <1>4, <1>5, <1>6, <1>7, <1>8

LEMMA RowStep ==
    ASSUME IInv, NEW d \in Drainer, NEW p \in Peer, NEW c \in Content,
           \/ Retire(d, p, c) \/ ReadMissing(d, p, c)
           \/ Succeed(d, p, c) \/ Reject(d, p, c) \/ Fail(d, p, c)
    PROVE  IInv'
<1> DEFINE b == batches[d][p]
           row == <<c, p>>
<1>1. TypeOK /\ Backed
    BY DEF IInv
<1>2. b \in Batch /\ b # Idle /\ Sound(b, p, held, wasCut)
    BY <1>1 DEF TypeOK, Backed, Retire, ReadMissing, Succeed, Reject, Fail, At
<1>3. rows[row] \in Entry \cup {NoRow} /\ b.leased[c] \in Nat /\ b.now \in Int /\ b.hint \in Int
    BY <1>1, <1>2 DEF TypeOK, Row, Batch
<1>4. CASE Retire(d, p, c)
    BY <1>2, <1>4, SettleStep DEF Retire, At, Sound
<1>5. CASE ReadMissing(d, p, c)
    BY <1>2, <1>3, <1>5, DeadLetterEntry, SettleStep DEF ReadMissing
<1>6. CASE Succeed(d, p, c)
    BY <1>2, <1>6, SettleStep DEF Succeed, Sound
<1>7. CASE Reject(d, p, c)
  <2>1. PICK entry \in Entry \cup {NoRow} :
           Write(row, entry) /\ (entry = NoRow => rows[row] = NoRow)
      BY <1>3, <1>7, DeadLetterEntry, RetryEntry DEF Reject
  <2> QED BY <1>2, <1>7, <2>1, SettleStep DEF Reject
<1>8. CASE Fail(d, p, c)
  <2> DEFINE entry == Retry(rows[row], b.leased[c], b.now, 0)
  <2>1. entry \in Entry \cup {NoRow} /\ (entry = NoRow => rows[row] = NoRow)
      BY <1>3, RetryEntry
  <2>2. /\ Write(row, entry) /\ Goto(d, p, Settled(b, c)) /\ c \in b.left
        /\ UNCHANGED <<ledger, held, late, trusted, now, fanouts, faults, wanted, wasCut>>
      BY <1>8 DEF Fail
  <2> HIDE DEF entry
  <2> QED BY <1>2, <2>1, <2>2, SettleStep
<1> QED BY <1>4, <1>5, <1>6, <1>7, <1>8

LEMMA RecordStep ==
    ASSUME IInv, NEW d \in Drainer, NEW p \in Peer, NEW c \in Content, Record(d, p, c)
    PROVE  IInv'
<1> DEFINE b == batches[d][p]
           share == [b EXCEPT !.recorded = {c}]
<1>1. TypeOK /\ Backed /\ NothingLost /\ LedgerIsTrue
    BY DEF IInv
<1>2. b \in Batch /\ Sound(b, p, held, wasCut) /\ c \in b.accepted
    BY <1>1 DEF TypeOK, Backed, Record, At, Acknowledged
<1>3. share \in Share
    BY <1>2 DEF Share, Batch
<1>4. Sound(share, p, held', wasCut')
    BY <1>2 DEF Sound, Batch, Record, At
<1>5. Backed'
    BY <1>3, <1>4, GotoBacked DEF Record
<1>6. <<c, p>> \in held /\ <<c, p>> \in Row
    BY <1>2 DEF Sound, Row
<1>7. ledger' \subseteq held' /\ ledger' \subseteq Row
    BY <1>1, <1>6 DEF Record, LedgerIsTrue, TypeOK
<1>8. TypeOK'
    BY <1>1, <1>3, <1>7, GotoShare DEF TypeOK, Record, Share
<1>9. NothingLost'
    BY <1>1 DEF NothingLost, Record
<1> QED BY <1>5, <1>7, <1>8, <1>9 DEF IInv, LedgerIsTrue

LEMMA WorldStep ==
    ASSUME IInv,
           \/ \E row \in Row : LateArrival(row)
           \/ \E p \in Peer : CutOff(p) \/ Reinstate(p)
           \/ Crash \/ Wait
    PROVE  IInv'
<1>1. TypeOK /\ Backed
    BY DEF IInv
<1>2. ASSUME NEW row \in Row, LateArrival(row) PROVE IInv'
    BY <1>2 DEF LateArrival, IInv, TypeOK, Backed, Sound, NothingLost, LedgerIsTrue
<1>3. ASSUME NEW p \in Peer, CutOff(p) PROVE IInv'
    BY <1>3 DEF CutOff, IInv, TypeOK, Backed, Sound, NothingLost, LedgerIsTrue
<1>4. ASSUME NEW p \in Peer, Reinstate(p) PROVE IInv'
    BY <1>4 DEF Reinstate, IInv, TypeOK, Backed, Sound, NothingLost, LedgerIsTrue
<1>5. CASE Crash
  <2>1. faults' \in Nat /\ late' \subseteq Row /\ batches' \in [Drainer -> [Peer -> Share]]
      BY <1>1, <1>5 DEF Crash, TypeOK, Share
  <2> QED BY <1>5, <2>1 DEF Crash, IInv, TypeOK, Backed, NothingLost, LedgerIsTrue, Share
<1>6. CASE Wait
  <2>1. PICK t \in Instants : now' = t
      BY <1>6 DEF Wait
  <2>2. \A row \in Row : Live(row) => rows[row].due \in Int
      BY <1>1 DEF TypeOK, Live, Entry
  <2>3. \A b \in Waiting : b.now + DeliverTimeout \in Int
      BY <1>1, ConstantsTyped DEF TypeOK, Waiting, Batch
  <2>4. now' \in Int
      BY <2>1, <2>2, <2>3 DEF Instants
  <2>5. TypeOK'
      BY <1>1, <1>6, <2>4 DEF TypeOK, Wait
  <2> QED BY <1>6, <2>5 DEF IInv, Backed, Sound, NothingLost, LedgerIsTrue, Wait
<1> QED BY <1>2, <1>3, <1>4, <1>5, <1>6

LEMMA StepInv == IInv /\ [Next]_vars => IInv'
<1> SUFFICES ASSUME IInv, [Next]_vars PROVE IInv'
    OBVIOUS
<1>1. CASE \E c \in Content : Fanout(c)
    BY <1>1, FanoutStep
<1>2. CASE \E d \in Drainer : Drain(d)
    BY <1>2, DrainStep
<1>3. ASSUME NEW d \in Drainer, NEW p \in Peer, BatchStep(d, p) \/ DbError(d, p) PROVE IInv'
    BY <1>3, PassStep, RowStep, RecordStep DEF BatchStep, Timeout, Unreachable
<1>4. CASE \/ \E row \in Row : LateArrival(row)
           \/ \E p \in Peer : CutOff(p) \/ Reinstate(p)
           \/ Crash \/ Wait
    BY <1>4, WorldStep
<1>5. CASE UNCHANGED vars
    BY <1>5 DEF vars, IInv, TypeOK, Backed, Sound, NothingLost, LedgerIsTrue
<1> QED BY <1>1, <1>2, <1>3, <1>4, <1>5 DEF Next

LEMMA InitInv == Init => IInv
<1> SUFFICES ASSUME Init PROVE IInv
    OBVIOUS
<1>1. TypeOK
    BY DEF Init, TypeOK
<1>2. Backed
    BY DEF Init, Backed
<1>3. NothingLost /\ LedgerIsTrue
    BY DEF Init, NothingLost, LedgerIsTrue
<1> QED BY <1>1, <1>2, <1>3 DEF IInv

\* The queue, the batches in progress and the ledger keep their shape.
THEOREM TypeCorrect == Spec => []TypeOK
<1>1. IInv => TypeOK
    BY DEF IInv
<1> QED BY <1>1, InitInv, StepInv, PTL DEF Spec

\* A row leaves the queue only when its peer has the envelope or has been
\* cut off since, whatever overlaps, is abandoned, throws or crashes.
THEOREM NothingLostCorrect == Spec => []NothingLost
<1>1. IInv => NothingLost
    BY DEF IInv
<1> QED BY <1>1, InitInv, StepInv, PTL DEF Spec

\* The ledger never says of a peer that it has an envelope it has not taken.
THEOREM LedgerIsTrueCorrect == Spec => []LedgerIsTrue
<1>1. IInv => LedgerIsTrue
    BY DEF IInv
<1> QED BY <1>1, InitInv, StepInv, PTL DEF Spec

-----------------------------------------------------------------------------
(* Rows move on.                                                           *)

\* What a write may make of a row.
MovedOn(entry, before) ==
    entry # NoRow =>
        IF before = NoRow THEN entry.attempts = 0
        ELSE entry.attempts >= before.attempts /\ (before.dead => entry.dead)

LEMMA SameMovesOn == ASSUME NEW entry \in Entry \cup {NoRow} PROVE entry # NoRow => MovedOn(entry, entry)
BY DEF MovedOn, Entry

LEMMA DeadLetterMovesOn ==
    ASSUME NEW entry \in Entry \cup {NoRow} PROVE MovedOn(DeadLetter(entry), entry)
<1>1. CASE entry = NoRow
    BY <1>1 DEF DeadLetter, MovedOn
<1>2. CASE entry # NoRow
  <2>1. DeadLetter(entry) = [attempts |-> entry.attempts + 1, due |-> entry.due, dead |-> TRUE]
      BY <1>2 DEF DeadLetter, Entry
  <2> QED BY <1>2, <2>1 DEF MovedOn, Entry
<1> QED BY <1>1, <1>2

LEMMA RetryMovesOn ==
    ASSUME NEW entry \in Entry \cup {NoRow}, NEW n, NEW at, NEW hint
    PROVE  MovedOn(Retry(entry, n, at, hint), entry)
<1>1. ASSUME NEW t PROVE MovedOn(Postponed(entry, t), entry)
  <2>1. CASE entry = NoRow
      BY <2>1 DEF Postponed, MovedOn
  <2>2. CASE entry # NoRow
    <3>1. Postponed(entry, t) =
             [attempts |-> entry.attempts + 1, due |-> t, dead |-> entry.dead]
        BY <2>2 DEF Postponed, Entry
    <3> QED BY <2>2, <3>1 DEF MovedOn, Entry
  <2> QED BY <2>1, <2>2
<1> QED BY <1>1, DeadLetterMovesOn DEF Retry

LEMMA RowsStep ==
    ASSUME TypeOK, [Next]_vars PROVE \A row \in Row : MovedOn(rows'[row], rows[row])
<1> USE DEF TypeOK
<1>1. CASE UNCHANGED rows
    BY <1>1, SameMovesOn DEF MovedOn
<1>2. ASSUME NEW row \in Row, NEW entry, Write(row, entry), MovedOn(entry, rows[row])
      PROVE  \A other \in Row : MovedOn(rows'[other], rows[other])
  <2>1. rows'[row] = entry /\ \A other \in Row \ {row} : rows'[other] = rows[other]
      BY <1>2 DEF Write
  <2> QED BY <1>2, <2>1, SameMovesOn DEF MovedOn
<1>3. ASSUME NEW c \in Content, Fanout(c)
      PROVE  \A row \in Row : MovedOn(rows'[row], rows[row])
  <2>1. \A row \in Row : rows'[row] = rows[row] \/ rows'[row] = QueuedEntry(rows[row])
      BY <1>3 DEF Fanout
  <2>2. ASSUME NEW entry \in Entry \cup {NoRow} PROVE MovedOn(QueuedEntry(entry), entry)
      BY <2>2, SameMovesOn DEF QueuedEntry, MovedOn
  <2> QED BY <2>1, <2>2, SameMovesOn DEF MovedOn
<1>4. ASSUME NEW d \in Drainer, NEW p \in Peer, NEW c \in Content,
             \/ Retire(d, p, c) \/ ReadMissing(d, p, c)
             \/ Succeed(d, p, c) \/ Reject(d, p, c) \/ Fail(d, p, c)
      PROVE  \A row \in Row : MovedOn(rows'[row], rows[row])
  <2>1. <<c, p>> \in Row /\ rows[<<c, p>>] \in Entry \cup {NoRow}
      BY DEF Row
  <2>2. MovedOn(NoRow, rows[<<c, p>>])
      BY DEF MovedOn
  <2>3. CASE Retire(d, p, c) \/ Succeed(d, p, c)
      BY <2>1, <2>2, <2>3, <1>2 DEF Retire, Succeed
  <2>4. CASE ReadMissing(d, p, c)
      BY <2>1, <2>4, <1>2, DeadLetterMovesOn DEF ReadMissing
  <2>5. CASE Fail(d, p, c)
      BY <2>1, <2>5, <1>2, RetryMovesOn DEF Fail
  <2>6. CASE Reject(d, p, c)
    <3> DEFINE b == batches[d][p]
    <3>1. CASE c \in b.refused
        BY <2>1, <2>6, <3>1, <1>2, DeadLetterMovesOn DEF Reject
    <3>2. CASE c \notin b.refused
        BY <2>1, <2>6, <3>2, <1>2, RetryMovesOn DEF Reject
    <3> QED BY <3>1, <3>2
  <2> QED BY <1>4, <2>3, <2>4, <2>5, <2>6
<1>5. ASSUME NEW d \in Drainer, NEW p \in Peer,
             \/ CheckPeer(d, p) \/ Send(d, p) \/ Answer(d, p) \/ Timeout(d, p)
             \/ Unreachable(d, p) \/ DbError(d, p) \/ \E c \in Content : Record(d, p, c)
      PROVE  UNCHANGED rows
    BY <1>5 DEF CheckPeer, Send, Answer, Timeout, Unreachable, Abandon, DbError, Record
<1>6. ASSUME \/ \E d \in Drainer : Drain(d)
             \/ \E row \in Row : LateArrival(row)
             \/ \E p \in Peer : CutOff(p) \/ Reinstate(p)
             \/ Crash \/ Wait \/ UNCHANGED vars
      PROVE  UNCHANGED rows
    BY <1>6 DEF Drain, LateArrival, CutOff, Reinstate, Crash, Wait, vars
<1> QED BY <1>1, <1>3, <1>4, <1>5, <1>6 DEF Next, BatchStep

\* No overlapping pass, error or repeated fanout brings a settled row back,
\* revives a dead letter or takes attempts from a row
\* (mongo-federation.ts:384-386).
THEOREM RowsMoveOnCorrect == Spec => RowsMoveOn
<1>1. TypeOK /\ [Next]_vars =>
         [\A row \in Row :
             rows'[row] # NoRow =>
                IF rows[row] = NoRow THEN rows'[row].attempts = 0
                ELSE /\ rows'[row].attempts >= rows[row].attempts
                     /\ rows[row].dead => rows'[row].dead]_vars
    BY RowsStep DEF MovedOn
<1> QED BY <1>1, TypeCorrect, PTL DEF Spec, RowsMoveOn

-----------------------------------------------------------------------------
(***************************************************************************)
(* What the overlap costs. While passes do not overlap, and no error comes *)
(* between two rows of a batch, every row that a batch has yet to settle   *)
(* is as it was leased, and then the schedule is kept.                     *)
(***************************************************************************)
\* One pass at a time, and its batches are not cut in two.
Alone ==
    /\ IsFiniteSet(Row)
    /\ \A d, e \in Drainer : d = e
    /\ MaxFaults = 0 \/ BatchSize = 1

\* A row that waits is due after the delays of its attempts.
Timely(entry, t) ==
    entry # NoRow =>
        IF entry.dead THEN entry.attempts >= MAX_DELIVERY_ATTEMPTS => t >= Schedule
        ELSE /\ entry.attempts = 0 \/ entry.attempts < MAX_DELIVERY_ATTEMPTS
             /\ entry.due >= Waited(entry.attempts)

\* What a batch has yet to settle is as it was leased.
AsLeased(b, p, table, t) ==
    /\ b.now <= t /\ b.hint >= 0 /\ b.recorded \subseteq b.left
    /\ \A c \in b.left :
          LET entry == table[<<c, p>>] IN
          entry # NoRow /\ ~entry.dead /\ entry.due <= b.now /\ entry.attempts = b.leased[c]
    /\ b.step = "sent" => b.frames = b.left
    /\ BatchSize = 1 =>
          (\A c, e \in b.left : c = e) /\ (b.step = "answered" => b.frames = b.left)

Scheduled ==
    /\ now >= 0
    /\ \A row \in Row : Timely(rows[row], now)
    /\ \A d \in Drainer, p \in Peer :
          batches[d][p] # Idle => AsLeased(batches[d][p], p, rows, now)

\* Nothing is waited for before the first attempt, and each attempt adds its
\* delay.
LEMMA WaitedGrows ==
    /\ Waited(0) = 0
    /\ \A n \in Nat : n < MAX_DELIVERY_ATTEMPTS =>
          Waited(n) \in Int /\ Waited(n + 1) = Waited(n) + backoffDelayMs(n + 1)
<1>1. Waited(0) = 0
  <2>1. 1 .. 0 = {}
      OBVIOUS
  <2> QED BY <2>1, SumOfNone DEF Waited
<1>2. ASSUME NEW n \in Nat, n < MAX_DELIVERY_ATTEMPTS
      PROVE  Waited(n) \in Int /\ Waited(n + 1) = Waited(n) + backoffDelayMs(n + 1)
  <2>1. IsFiniteSet(1 .. n) /\ n + 1 \notin 1 .. n /\ 1 .. n + 1 = (1 .. n) \cup {n + 1}
      BY FS_Interval
  <2>2. \A k \in (1 .. n) \cup {n + 1} :
           Delays[k] = backoffDelayMs(k) /\ Delays[k] \in Int
    <3> SUFFICES ASSUME NEW k \in (1 .. n) \cup {n + 1}
                 PROVE  Delays[k] = backoffDelayMs(k) /\ Delays[k] \in Int
        OBVIOUS
    <3>1. k \in 1 .. MAX_DELIVERY_ATTEMPTS /\ k \in 0 .. MAX_DELIVERY_ATTEMPTS
        BY <1>2, ConstantsTyped
    <3>2. Delays[k] = backoffDelayMs(k)
        BY <3>1 DEF Delays
    <3>3. backoffDelayMs(k) \in Nat
        BY <3>1, DelaysTyped
    <3> QED BY <3>2, <3>3
  <2>3. /\ SumFunctionOnSet(Delays, 1 .. n) \in Int
        /\ SumFunctionOnSet(Delays, (1 .. n) \cup {n + 1})
             = SumFunctionOnSet(Delays, 1 .. n) + Delays[n + 1]
      BY <2>1, <2>2, SumOfOneMore
  <2> QED BY <2>1, <2>2, <2>3 DEF Waited
<1> QED BY <1>1, <1>2

\* A row given up on its last attempt has waited for the whole schedule.
LEMMA DeadLetterTimely ==
    ASSUME NEW entry \in Entry, ~entry.dead, NEW t \in Int, Timely(entry, t), entry.due <= t
    PROVE  Timely(DeadLetter(entry), t)
<1>1. /\ DeadLetter(entry) = [attempts |-> entry.attempts + 1, due |-> entry.due, dead |-> TRUE]
      /\ entry.attempts \in Nat /\ entry.due \in Int /\ entry # NoRow
    BY NoneIsNone DEF DeadLetter, Entry
<1>2. /\ entry.attempts = 0 \/ entry.attempts < MAX_DELIVERY_ATTEMPTS
      /\ entry.due >= Waited(entry.attempts)
    BY <1>1 DEF Timely
<1>3. ASSUME entry.attempts + 1 >= MAX_DELIVERY_ATTEMPTS
      PROVE  t >= Schedule
  <2>1. CASE MAX_DELIVERY_ATTEMPTS = 0
    <3>1. 1 .. MAX_DELIVERY_ATTEMPTS - 1 = {} /\ 1 .. 0 = {}
        BY <2>1
    <3>2. Schedule = Waited(0) /\ entry.attempts = 0
        BY <1>1, <1>2, <2>1, <3>1 DEF Schedule, Waited
    <3> QED BY <1>1, <1>2, <3>2, WaitedGrows
  <2>2. CASE MAX_DELIVERY_ATTEMPTS # 0
    <3>1. entry.attempts = MAX_DELIVERY_ATTEMPTS - 1 /\ entry.attempts < MAX_DELIVERY_ATTEMPTS
        BY <1>1, <1>2, <1>3, <2>2, ConstantsTyped
    <3>2. Waited(entry.attempts) = Schedule /\ Waited(entry.attempts) \in Int
        BY <1>1, <3>1, WaitedGrows DEF Schedule
    <3> QED BY <1>1, <1>2, <3>2
  <2> QED BY <2>1, <2>2
<1> QED BY <1>1, <1>3 DEF Timely

\* A row that is tried again waits for its next delay, or as long as the
\* peer asks.
LEMMA RetryTimely ==
    ASSUME NEW entry \in Entry, ~entry.dead, NEW t \in Int, Timely(entry, t),
           NEW at \in Int, at <= t, entry.due <= at, NEW hint \in Int, hint >= 0
    PROVE  Timely(Retry(entry, entry.attempts, at, hint), t)
<1>1. /\ entry.attempts \in Nat /\ entry.due \in Int /\ entry # NoRow
      /\ entry.attempts = 0 \/ entry.attempts < MAX_DELIVERY_ATTEMPTS
      /\ entry.due >= Waited(entry.attempts)
    BY NoneIsNone DEF Entry, Timely
<1>2. CASE Exhausted(entry.attempts)
    BY <1>1, <1>2, DeadLetterTimely DEF Retry
<1>3. CASE ~Exhausted(entry.attempts)
  <2> DEFINE delay == backoffDelayMs(entry.attempts + 1)
             due == at + Later(delay, hint)
  <2>1. entry.attempts + 1 \in 0 .. MAX_DELIVERY_ATTEMPTS /\ entry.attempts + 1 < MAX_DELIVERY_ATTEMPTS
      BY <1>1, <1>3, ConstantsTyped DEF Exhausted
  <2>2. delay \in Nat
      BY <2>1, DelaysTyped
  <2>3. /\ Waited(entry.attempts) \in Int
        /\ Waited(entry.attempts + 1) = Waited(entry.attempts) + delay
      BY <1>1, <2>1, WaitedGrows, ConstantsTyped
  <2> HIDE DEF delay
  <2>4. due \in Int /\ due >= at + delay
      BY <2>2 DEF Later
  <2>5. due >= Waited(entry.attempts + 1)
      BY <1>1, <2>2, <2>3, <2>4
  <2>6. Retry(entry, entry.attempts, at, hint) = Postponed(entry, due)
      BY <1>3 DEF Retry, delay
  <2> HIDE DEF due
  <2>7. Postponed(entry, due) = [attempts |-> entry.attempts + 1, due |-> due, dead |-> FALSE]
      BY <1>1 DEF Postponed, Entry
  <2>8. Timely(Postponed(entry, due), t)
      BY <2>1, <2>5, <2>7 DEF Timely
  <2> QED BY <2>6, <2>8
<1> QED BY <1>2, <1>3

\* A batch whose rows are where they were is as it was leased.
LEMMA AsLeasedFrame ==
    ASSUME NEW b \in Batch, NEW p, NEW table, NEW t \in Int, AsLeased(b, p, table, t),
           NEW after, NEW u \in Int, t <= u,
           \A c \in b.left : after[<<c, p>>] = table[<<c, p>>]
    PROVE  AsLeased(b, p, after, u)
<1>1. b.now <= u
    BY DEF Batch, AsLeased
<1> QED BY <1>1 DEF AsLeased

\* Later, a row is as timely.
LEMMA TimelyLater ==
    ASSUME NEW entry, NEW t \in Int, NEW u \in Int, t <= u, Timely(entry, t), Schedule \in Int
    PROVE  Timely(entry, u)
BY DEF Timely

LEMMA ScheduleTyped == Schedule \in Int
<1>1. CASE MAX_DELIVERY_ATTEMPTS = 0
  <2>1. 1 .. MAX_DELIVERY_ATTEMPTS - 1 = {} /\ 1 .. 0 = {}
      BY <1>1
  <2>2. Schedule = Waited(0)
      BY <1>1, <2>1 DEF Schedule, Waited
  <2> QED BY <2>2, WaitedGrows
<1>2. CASE MAX_DELIVERY_ATTEMPTS # 0
  <2>1. MAX_DELIVERY_ATTEMPTS - 1 \in Nat /\ MAX_DELIVERY_ATTEMPTS - 1 < MAX_DELIVERY_ATTEMPTS
      BY <1>2, ConstantsTyped
  <2> QED BY <2>1, WaitedGrows DEF Schedule
<1> QED BY <1>1, <1>2

\* A batch settles a row, and what is left is as it was.
LEMMA SettleTimely ==
    ASSUME IInv, Alone, Scheduled, NEW d \in Drainer, NEW p \in Peer, NEW c \in Content,
           batches[d][p] # Idle, c \in batches[d][p].left, batches[d][p].step # "sent",
           NEW entry \in Entry \cup {NoRow}, Write(<<c, p>>, entry), Timely(entry, now),
           Goto(d, p, Settled(batches[d][p], c)), now' = now
    PROVE  Scheduled'
<1> DEFINE b == batches[d][p]
<1>1. TypeOK /\ b \in Batch /\ <<c, p>> \in Row /\ now \in Int
    BY DEF IInv, TypeOK, Row
<1>2. /\ rows' \in [Row -> Entry \cup {NoRow}] /\ rows'[<<c, p>>] = entry
      /\ \A other \in Row \ {<<c, p>>} : rows'[other] = rows[other]
    BY <1>1, WriteRow
<1>3. Settled(b, c) \in Share
    BY <1>1, SettledShare
<1>4. /\ batches'[d][p] = Settled(b, c)
      /\ \A q \in Peer : q # p => batches'[d][q] = batches[d][q]
    BY <1>1, <1>3, GotoShare
<1>5. \A row \in Row : Timely(rows'[row], now')
    BY <1>2 DEF Scheduled
<1>7. ASSUME NEW q \in Peer, batches'[d][q] # Idle
      PROVE  AsLeased(batches'[d][q], q, rows', now')
  <2>1. CASE q # p
    <3>1. /\ batches'[d][q] = batches[d][q] /\ batches[d][q] \in Batch
          /\ AsLeased(batches[d][q], q, rows, now)
        BY <1>1, <1>4, <1>7, <2>1 DEF TypeOK, Scheduled
    <3>2. \A e \in batches[d][q].left : rows'[<<e, q>>] = rows[<<e, q>>]
        BY <1>2, <2>1, <3>1 DEF Batch, Row
    <3> QED BY <1>1, <3>1, <3>2, AsLeasedFrame
  <2>2. CASE q = p
    <3>1. AsLeased(b, p, rows, now)
        BY DEF Scheduled
    <3> DEFINE rest == [b EXCEPT !.left = @ \ {c}, !.recorded = {}]
    <3>2. batches'[d][q] = rest /\ b.left # {c}
        BY <1>4, <1>7, <2>2 DEF Settled
    <3>3. /\ rest.left = b.left \ {c} /\ rest.recorded = {} /\ rest.now = b.now /\ rest.hint = b.hint
          /\ rest.leased = b.leased /\ rest.step = b.step /\ rest.frames = b.frames
        BY <1>1 DEF Batch
    <3>4. BatchSize # 1
      <4>1. ASSUME BatchSize = 1 PROVE b.left = {c}
          BY <3>1, <4>1 DEF AsLeased
      <4> QED BY <3>2, <4>1
    <3>5. \A e \in b.left \ {c} : rows'[<<e, p>>] = rows[<<e, p>>]
        BY <1>1, <1>2 DEF Batch, Row
    <3> HIDE DEF rest
    <3>6. AsLeased(rest, p, rows', now')
        BY <3>1, <3>3, <3>4, <3>5 DEF AsLeased
    <3> QED BY <2>2, <3>2, <3>6
  <2> QED BY <2>1, <2>2
<1>8. \A e \in Drainer, q \in Peer : batches'[e][q] # Idle => AsLeased(batches'[e][q], q, rows', now')
    BY <1>7 DEF Alone
<1> QED BY <1>5, <1>8 DEF Scheduled

\* A batch takes a step that settles no row.
LEMMA GotoTimely ==
    ASSUME IInv, Alone, Scheduled, NEW d \in Drainer, NEW p \in Peer, NEW b \in Share,
           Goto(d, p, b), b # Idle => AsLeased(b, p, rows, now), rows' = rows, now' = now
    PROVE  Scheduled'
<1>1. TypeOK
    BY DEF IInv
<1>2. /\ batches'[d][p] = b
      /\ \A q \in Peer : q # p => batches'[d][q] = batches[d][q]
    BY <1>1, GotoShare
<1>3. \A e \in Drainer, q \in Peer : batches'[e][q] # Idle => AsLeased(batches'[e][q], q, rows, now)
    BY <1>2 DEF Alone, Scheduled
<1> QED BY <1>3 DEF Scheduled

LEMMA SettlesTimely ==
    ASSUME IInv, Alone, Scheduled, NEW d \in Drainer, NEW p \in Peer, NEW c \in Content,
           \/ Retire(d, p, c) \/ ReadMissing(d, p, c)
           \/ Succeed(d, p, c) \/ Reject(d, p, c) \/ Fail(d, p, c)
    PROVE  Scheduled'
<1> DEFINE b == batches[d][p]
           row == <<c, p>>
<1>1. TypeOK /\ b \in Batch /\ b # Idle /\ row \in Row /\ now \in Int
    BY DEF IInv, TypeOK, Row, Retire, ReadMissing, Succeed, Reject, Fail, At
<1>2. AsLeased(b, p, rows, now) /\ Timely(rows[row], now)
    BY <1>1 DEF Scheduled
<1>3. Timely(NoRow, now)
    BY DEF Timely
<1>4. ASSUME c \in b.left
      PROVE  /\ rows[row] \in Entry /\ ~rows[row].dead /\ rows[row].due <= b.now
             /\ rows[row].attempts = b.leased[c] /\ b.now \in Int /\ b.now <= now
             /\ b.hint \in Int /\ b.hint >= 0 /\ rows[row].due <= now
  <2>1. /\ rows[row] \in Entry /\ ~rows[row].dead /\ rows[row].due <= b.now
        /\ rows[row].attempts = b.leased[c] /\ b.now <= now /\ b.hint >= 0
      BY <1>1, <1>2, <1>4 DEF AsLeased, TypeOK
  <2>2. b.now \in Int /\ b.hint \in Int /\ rows[row].due \in Int
      BY <1>1, <2>1 DEF Batch, Entry
  <2> QED BY <1>1, <2>1, <2>2
<1>5. ASSUME c \in b.left
      PROVE  /\ DeadLetter(rows[row]) \in Entry \cup {NoRow}
             /\ Timely(DeadLetter(rows[row]), now)
    BY <1>1, <1>2, <1>4, <1>5, DeadLetterEntry, DeadLetterTimely
<1>6. ASSUME c \in b.left, NEW hint \in Int, hint >= 0
      PROVE  /\ Retry(rows[row], b.leased[c], b.now, hint) \in Entry \cup {NoRow}
             /\ Timely(Retry(rows[row], b.leased[c], b.now, hint), now)
  <2>1. b.leased[c] \in Nat
      BY <1>1 DEF Batch
  <2> QED BY <1>1, <1>2, <1>4, <1>6, <2>1, RetryEntry, RetryTimely
<1>7. CASE Retire(d, p, c)
    BY <1>1, <1>3, <1>7, SettleTimely DEF Retire, At
<1>8. CASE ReadMissing(d, p, c)
    BY <1>1, <1>5, <1>8, SettleTimely DEF ReadMissing, At
<1>9. CASE Succeed(d, p, c)
  <2>1. c \in b.left
      BY <1>2, <1>9 DEF Succeed, AsLeased
  <2> QED BY <1>1, <1>3, <1>9, <2>1, SettleTimely DEF Succeed, At
<1>10. CASE Reject(d, p, c)
  <2>1. PICK entry \in Entry \cup {NoRow} :
           Write(row, entry) /\ Timely(entry, now)
      BY <1>4, <1>5, <1>6, <1>10 DEF Reject
  <2> QED BY <1>1, <1>10, <2>1, SettleTimely DEF Reject, At
<1>11. CASE Fail(d, p, c)
  <2>1. PICK entry \in Entry \cup {NoRow} :
           Write(row, entry) /\ Timely(entry, now)
      BY <1>6, <1>11 DEF Fail
  <2> QED BY <1>1, <1>11, <2>1, SettleTimely DEF Fail, At
<1> QED BY <1>7, <1>8, <1>9, <1>10, <1>11

\* The steps of a batch that settle no row.
LEMMA PassTimely ==
    ASSUME IInv, Alone, Scheduled, NEW d \in Drainer, NEW p \in Peer,
           \/ CheckPeer(d, p) \/ Send(d, p) \/ Answer(d, p) \/ Abandon(d, p) \/ DbError(d, p)
           \/ \E c \in Content : Record(d, p, c)
    PROVE  Scheduled'
<1> DEFINE b == batches[d][p]
<1>1. TypeOK /\ b \in Batch /\ b # Idle /\ AsLeased(b, p, rows, now)
  <2>1. b # Idle
      BY DEF CheckPeer, Send, Answer, Abandon, DbError, Record, At
  <2> QED BY <2>1 DEF IInv, TypeOK, Scheduled
<1>2. CASE CheckPeer(d, p)
  <2> DEFINE share == [b EXCEPT !.step = IF p \in trusted THEN "read" ELSE "retire"]
  <2>1. share \in Share
      BY <1>1 DEF Share, Batch, Steps
  <2>2. AsLeased(share, p, rows, now)
      BY <1>1 DEF AsLeased, Batch
  <2> QED BY <1>2, <2>1, <2>2, GotoTimely DEF CheckPeer
<1>3. CASE Send(d, p)
  <2> DEFINE share == [b EXCEPT !.step = "sent", !.frames = b.left]
  <2>1. share \in Share
      BY <1>1 DEF Share, Batch, Steps
  <2>2. AsLeased(share, p, rows, now)
      BY <1>1 DEF AsLeased, Batch
  <2> QED BY <1>3, <2>1, <2>2, GotoTimely DEF Send
<1>4. CASE Answer(d, p)
  <2>1. PICK accepted \in SUBSET b.frames, hint \in Hint :
        \E unwanted \in SUBSET (b.frames \ accepted) :
           Goto(d, p, [b EXCEPT !.step = "answered", !.accepted = accepted,
                                !.refused = unwanted, !.hint = hint])
      BY <1>4 DEF Answer
  <2>2. PICK unwanted \in SUBSET (b.frames \ accepted) :
           Goto(d, p, [b EXCEPT !.step = "answered", !.accepted = accepted,
                                !.refused = unwanted, !.hint = hint])
      BY <2>1
  <2> DEFINE share == [b EXCEPT !.step = "answered", !.accepted = accepted,
                               !.refused = unwanted, !.hint = hint]
  <2>3. accepted \subseteq Content /\ unwanted \subseteq Content /\ hint \in Int /\ hint >= 0
      BY <1>1, ConstantsTyped DEF Batch
  <2>4. share \in Share
      BY <1>1, <2>3 DEF Share, Batch, Steps
  <2>5. /\ share.step = "answered" /\ share.hint = hint /\ share.now = b.now
        /\ share.left = b.left /\ share.leased = b.leased /\ share.frames = b.frames
        /\ share.recorded = b.recorded
      BY <1>1 DEF Batch
  <2>6. b.step = "sent"
      BY <1>4 DEF Answer, At
  <2> HIDE DEF share
  <2>7. AsLeased(share, p, rows, now)
      BY <1>1, <2>3, <2>5, <2>6 DEF AsLeased
  <2> QED BY <1>4, <2>2, <2>4, <2>7, GotoTimely DEF Answer, share
<1>5. CASE Abandon(d, p)
  <2> DEFINE share == [b EXCEPT !.step = "failing"]
  <2>1. share \in Share
      BY <1>1 DEF Share, Batch, Steps
  <2>2. AsLeased(share, p, rows, now)
      BY <1>1 DEF AsLeased, Batch
  <2> QED BY <1>5, <2>1, <2>2, GotoTimely DEF Abandon
<1>6. CASE DbError(d, p)
  <2> DEFINE again == [b EXCEPT !.step = "failing", !.left = b.frames, !.recorded = {}]
             share == IF b.step = "answered" THEN again ELSE Idle
  <2>1. share \in Share /\ Goto(d, p, share) /\ rows' = rows /\ now' = now
      BY <1>1, <1>6 DEF Share, Batch, Steps, DbError
  <2>2. BatchSize = 1
      BY <1>6 DEF Alone, DbError, IInv, TypeOK
  <2>3. ASSUME b.step = "answered" PROVE AsLeased(again, p, rows, now)
    <3>1. b.frames = b.left
        BY <1>1, <2>2, <2>3 DEF AsLeased
    <3>2. /\ again.step = "failing" /\ again.hint = b.hint /\ again.now = b.now
          /\ again.left = b.left /\ again.leased = b.leased /\ again.recorded = {}
        BY <1>1, <3>1 DEF Batch
    <3> HIDE DEF again
    <3> QED BY <1>1, <3>2 DEF AsLeased
  <2>4. share # Idle => AsLeased(share, p, rows, now)
      BY <2>3
  <2> HIDE DEF share
  <2> QED BY <2>1, <2>4, GotoTimely
<1>7. ASSUME NEW c \in Content, Record(d, p, c) PROVE Scheduled'
  <2> DEFINE share == [b EXCEPT !.recorded = {c}]
  <2>1. share \in Share /\ c \in b.left
      BY <1>1, <1>7 DEF Share, Batch, Record
  <2>2. AsLeased(share, p, rows, now)
      BY <1>1, <2>1 DEF AsLeased, Batch
  <2> QED BY <1>7, <2>1, <2>2, GotoTimely DEF Record
<1> QED BY <1>2, <1>3, <1>4, <1>5, <1>6, <1>7

\* A row that is written is due now, and those that are there keep.
LEMMA FanoutTimely ==
    ASSUME IInv, Scheduled, NEW c \in Content, Fanout(c)
    PROVE  Scheduled'
<1>1. TypeOK /\ now' = now /\ batches' = batches /\ now \in Int
    BY DEF IInv, TypeOK, Fanout
<1>2. PICK to \in SUBSET Peer \ {{}} :
         rows' = [row \in Row |->
            IF row \in {c} \X to THEN QueuedEntry(rows[row]) ELSE rows[row]]
    BY DEF Fanout
<1>3. \A row \in Row :
         \/ rows'[row] = rows[row]
         \/ rows[row] = NoRow /\ rows'[row] = [attempts |-> 0, due |-> now, dead |-> FALSE]
    BY <1>2 DEF QueuedEntry
<1>4. Timely([attempts |-> 0, due |-> now, dead |-> FALSE], now)
    BY WaitedGrows DEF Timely, Scheduled
<1>5. \A row \in Row : Timely(rows'[row], now')
    BY <1>1, <1>3, <1>4 DEF Scheduled
<1>7. ASSUME NEW d \in Drainer, NEW p \in Peer, batches[d][p] # Idle
      PROVE  AsLeased(batches[d][p], p, rows', now)
  <2>1. batches[d][p] \in Batch /\ AsLeased(batches[d][p], p, rows, now)
      BY <1>1, <1>7 DEF TypeOK, Scheduled
  <2>2. \A e \in batches[d][p].left : rows'[<<e, p>>] = rows[<<e, p>>]
      BY <1>3, <2>1 DEF AsLeased, Batch, Row
  <2> QED BY <1>1, <2>1, <2>2, AsLeasedFrame
<1> QED BY <1>1, <1>5, <1>7 DEF Scheduled

\* A pass leases rows that are due.
LEMMA DrainTimely ==
    ASSUME IInv, Alone, Scheduled, NEW d \in Drainer, Drain(d)
    PROVE  Scheduled'
<1>1. PICK taken \in Leases \ {{}} :
         batches' = [batches EXCEPT ![d] =
            [p \in Peer |->
               LET contents == {c \in Content : <<c, p>> \in taken}
               IN  IF contents = {} THEN Idle ELSE NewBatch(contents, p)]]
    BY DEF Drain
<1> DEFINE contents(p) == {c \in Content : <<c, p>> \in taken}
<1>2. TypeOK /\ rows' = rows /\ now' = now /\ now \in Int
    BY DEF IInv, TypeOK, Drain
<1>3. taken \subseteq Due /\ Cardinality(taken) = Lesser(BatchSize, Cardinality(Due))
    BY DEF Leases
<1>4. BatchSize = 1 => \A one, other \in taken : one = other
  <2> SUFFICES ASSUME BatchSize = 1 PROVE \A one, other \in taken : one = other
      OBVIOUS
  <2>1. IsFiniteSet(Due) /\ IsFiniteSet(taken)
      BY <1>3, FS_Subset DEF Alone, Due
  <2>2. Cardinality(Due) \in Nat /\ Cardinality(taken) \in Nat
      BY <2>1, FS_CardinalityType
  <2>3. Cardinality(taken) <= 1
      BY <1>3, <2>2 DEF Lesser
  <2> SUFFICES ASSUME NEW one \in taken, NEW other \in taken, one # other PROVE FALSE
      OBVIOUS
  <2>4. Cardinality({one, other}) = 2
    <3>1. IsFiniteSet({one}) /\ Cardinality({one}) = 1
        BY FS_Singleton
    <3>2. {one, other} = {one} \cup {other} /\ other \notin {one}
        OBVIOUS
    <3> QED BY <3>1, <3>2, FS_AddElement
  <2>5. Cardinality({one, other}) <= Cardinality(taken)
      BY <2>1, FS_Subset
  <2> QED BY <2>2, <2>3, <2>4, <2>5
<1>5. ASSUME NEW p \in Peer
      PROVE  AsLeased(NewBatch(contents(p), p), p, rows, now)
  <2> DEFINE b == NewBatch(contents(p), p)
  <2>1. /\ b.now = now /\ b.hint = 0 /\ b.recorded = {} /\ b.left = contents(p) /\ b.step = "peer"
        /\ \A c \in contents(p) : b.leased[c] = rows[<<c, p>>].attempts
      BY DEF NewBatch
  <2>2. \A c \in contents(p) :
           rows[<<c, p>>] # NoRow /\ ~rows[<<c, p>>].dead /\ rows[<<c, p>>].due <= now
      BY <1>3 DEF Due, Live
  <2>3. BatchSize = 1 => \A c, e \in contents(p) : c = e
      BY <1>4
  <2> HIDE DEF b, contents
  <2> QED BY <1>2, <2>1, <2>2, <2>3 DEF AsLeased, b
<1>6. \A p \in Peer : batches'[d][p] = Idle \/ batches'[d][p] = NewBatch(contents(p), p)
    BY <1>1, <1>2 DEF TypeOK
<1> HIDE DEF contents
<1>7. \A e \in Drainer, p \in Peer : batches'[e][p] # Idle => AsLeased(batches'[e][p], p, rows, now)
    BY <1>5, <1>6 DEF Alone
<1> QED BY <1>2, <1>7 DEF Scheduled

LEMMA WorldTimely ==
    ASSUME IInv, Scheduled,
           \/ \E row \in Row : LateArrival(row)
           \/ \E p \in Peer : CutOff(p) \/ Reinstate(p)
           \/ Crash \/ Wait \/ UNCHANGED vars
    PROVE  Scheduled'
<1>1. TypeOK /\ now \in Int /\ rows' = rows
    BY DEF IInv, TypeOK, LateArrival, CutOff, Reinstate, Crash, Wait, vars
<1>2. CASE Crash
    BY <1>1, <1>2 DEF Crash, Scheduled
<1>3. CASE Wait
  <2>1. batches' = batches /\ now' \in Instants
      BY <1>3 DEF Wait
  <2>2. \A row \in Row : Live(row) => rows[row].due \in Int
      BY <1>1 DEF TypeOK, Live, Entry
  <2>3. \A b \in Waiting : b.now + DeliverTimeout \in Int
      BY <1>1, ConstantsTyped DEF TypeOK, Waiting, Batch
  <2>4. now' \in Int /\ now <= now'
      BY <1>1, <2>1, <2>2, <2>3 DEF Instants
  <2>5. \A row \in Row : Timely(rows[row], now')
      BY <1>1, <2>4, ScheduleTyped, TimelyLater DEF Scheduled
  <2>6. ASSUME NEW d \in Drainer, NEW p \in Peer, batches[d][p] # Idle
        PROVE  AsLeased(batches[d][p], p, rows, now')
      BY <1>1, <2>4, <2>6, AsLeasedFrame DEF Scheduled, TypeOK
  <2> QED BY <1>1, <2>1, <2>4, <2>5, <2>6 DEF Scheduled
<1>4. CASE \/ \E row \in Row : LateArrival(row)
           \/ \E p \in Peer : CutOff(p) \/ Reinstate(p)
           \/ UNCHANGED vars
  <2>1. UNCHANGED <<rows, batches, now>>
      BY <1>4 DEF LateArrival, CutOff, Reinstate, vars
  <2> QED BY <2>1 DEF Scheduled
<1> QED BY <1>2, <1>3, <1>4

LEMMA TimelyStep == Alone /\ IInv /\ Scheduled /\ [Next]_vars => Scheduled'
<1> SUFFICES ASSUME Alone, IInv, Scheduled, [Next]_vars PROVE Scheduled'
    OBVIOUS
<1>1. CASE \E c \in Content : Fanout(c)
    BY <1>1, FanoutTimely
<1>2. CASE \E d \in Drainer : Drain(d)
    BY <1>2, DrainTimely
<1>3. ASSUME NEW d \in Drainer, NEW p \in Peer, BatchStep(d, p) \/ DbError(d, p)
      PROVE  Scheduled'
    BY <1>3, PassTimely, SettlesTimely DEF BatchStep, Timeout, Unreachable
<1>4. CASE \/ \E row \in Row : LateArrival(row)
           \/ \E p \in Peer : CutOff(p) \/ Reinstate(p)
           \/ Crash \/ Wait \/ UNCHANGED vars
    BY <1>4, WorldTimely
<1> QED BY <1>1, <1>2, <1>3, <1>4 DEF Next

LEMMA TimelyInit == Init => Scheduled
BY DEF Init, Scheduled, Timely

\* While passes do not overlap and no error cuts a batch in two, a row that
\* is given up for want of an answer has waited for the whole schedule.
THEOREM FullScheduleCorrect == ASSUME Alone PROVE Spec => []FullSchedule
<1>1. Scheduled => FullSchedule
    BY DEF Scheduled, FullSchedule, GaveUp, Timely
<1>2. IInv /\ Scheduled /\ [Next]_vars => Scheduled'
    BY TimelyStep
<1> QED BY <1>1, <1>2, InitInv, StepInv, TimelyInit, PTL DEF Spec

-----------------------------------------------------------------------------
(***************************************************************************)
(* The limit on attempts, whatever overlaps. A pass that has leased a row  *)
(* short of the limit and has yet to settle it may count one more attempt; *)
(* there is one such share for each pass, and an error that fails a batch  *)
(* again gives one back.                                                   *)
(***************************************************************************)
\* The passes that may still postpone the row.
InHand(row) ==
    {d \in Drainer :
        /\ batches[d][row[2]] # Idle
        /\ row[1] \in batches[d][row[2]].left
        /\ ~Exhausted(batches[d][row[2]].leased[row[1]])}

RowBounded(row) ==
    Live(row) =>
        rows[row].attempts + Cardinality(InHand(row))
            < MAX_DELIVERY_ATTEMPTS + (Cardinality(Drainer) - 1) + faults

Bounded == \A row \in Row : RowBounded(row)

LEMMA HandsCounted ==
    ASSUME NEW hands \in SUBSET Drainer
    PROVE  /\ IsFiniteSet(hands) /\ Cardinality(hands) \in Nat
           /\ Cardinality(Drainer) \in Nat \ {0} /\ Cardinality(hands) <= Cardinality(Drainer)
<1>1. IsFiniteSet(Drainer) /\ Drainer # {}
    BY SomePass
<1>2. IsFiniteSet(hands) /\ Cardinality(hands) <= Cardinality(Drainer)
    BY <1>1, FS_Subset
<1>3. Cardinality(hands) \in Nat /\ Cardinality(Drainer) \in Nat
    BY <1>1, <1>2, FS_CardinalityType
<1>4. Cardinality(Drainer) # 0
    BY <1>1, FS_EmptySet
<1> QED BY <1>2, <1>3, <1>4

\* A row that is not counted up keeps its bound while no pass takes it in hand.
LEMMA StaysBounded ==
    ASSUME TypeOK, NEW row \in Row, RowBounded(row), InHand(row)' \subseteq InHand(row),
           Live(row)' => Live(row) /\ rows'[row].attempts = rows[row].attempts,
           faults' \in Nat, faults' >= faults
    PROVE  RowBounded(row)'
<1>1. InHand(row) \subseteq Drainer /\ InHand(row)' \subseteq Drainer
    BY DEF InHand
<1>2. Cardinality(InHand(row)') <= Cardinality(InHand(row))
    BY <1>1, HandsCounted, FS_Subset
<1>3. SUFFICES ASSUME Live(row)' PROVE RowBounded(row)'
    BY DEF RowBounded
<1>4. rows[row].attempts \in Nat /\ faults \in Nat
    BY <1>3 DEF TypeOK, Live, Entry
<1>5. Cardinality(InHand(row)) \in Nat /\ Cardinality(InHand(row)') \in Nat /\ Cardinality(Drainer) \in Nat
    BY <1>1, HandsCounted
<1>6. /\ rows'[row].attempts = rows[row].attempts
      /\ rows[row].attempts + Cardinality(InHand(row))
           < MAX_DELIVERY_ATTEMPTS + (Cardinality(Drainer) - 1) + faults
    BY <1>3 DEF RowBounded
<1>7. rows'[row].attempts + Cardinality(InHand(row)')
         < MAX_DELIVERY_ATTEMPTS + (Cardinality(Drainer) - 1) + faults'
    BY <1>2, <1>4, <1>5, <1>6, ConstantsTyped
<1> QED BY <1>7 DEF RowBounded

\* A row with few attempts is within its bound, whoever has it in hand.
LEMMA FewAttempts ==
    ASSUME TypeOK', NEW row \in Row,
           Live(row)' => rows'[row].attempts + 1 < MAX_DELIVERY_ATTEMPTS
    PROVE  RowBounded(row)'
<1>1. SUFFICES ASSUME Live(row)' PROVE RowBounded(row)'
    BY DEF RowBounded
<1>2. rows'[row].attempts \in Nat /\ faults' \in Nat
    BY <1>1 DEF TypeOK, Live, Entry
<1>3. InHand(row)' \subseteq Drainer
    BY DEF InHand
<1>4. /\ Cardinality(InHand(row)') \in Nat /\ Cardinality(Drainer) \in Nat
      /\ Cardinality(InHand(row)') <= Cardinality(Drainer)
    BY <1>3, HandsCounted
<1>5. rows'[row].attempts + Cardinality(InHand(row)')
         < MAX_DELIVERY_ATTEMPTS + (Cardinality(Drainer) - 1) + faults'
    BY <1>1, <1>2, <1>4, ConstantsTyped
<1> QED BY <1>5 DEF RowBounded

\* A batch that only lets rows go takes none in hand.
LEMMA HandsLetGo ==
    ASSUME TypeOK, NEW d \in Drainer, NEW p \in Peer, NEW b \in Share, Goto(d, p, b),
           batches[d][p] # Idle,
           b # Idle => b.left \subseteq batches[d][p].left /\ b.leased = batches[d][p].leased
    PROVE  \A row \in Row :
              /\ InHand(row)' \subseteq InHand(row)
              /\ row[2] = p /\ (b = Idle \/ row[1] \notin b.left) => d \notin InHand(row)'
<1> TAKE row \in Row
<1>1. row[1] \in Content /\ row[2] \in Peer
    BY DEF Row
<1>2. ASSUME NEW e \in InHand(row)' PROVE e \in InHand(row)
  <2>1. /\ e \in Drainer /\ batches'[e][row[2]] # Idle /\ row[1] \in batches'[e][row[2]].left
        /\ ~Exhausted(batches'[e][row[2]].leased[row[1]])
      BY <1>2 DEF InHand
  <2>2. CASE <<e, row[2]>> = <<d, p>>
    <3>1. batches'[e][row[2]] = b
        BY <2>2, GotoShare
    <3> QED BY <2>1, <2>2, <3>1 DEF InHand
  <2>3. CASE <<e, row[2]>> # <<d, p>>
    <3>1. batches'[e][row[2]] = batches[e][row[2]]
        BY <1>1, <2>1, <2>3, GotoShare
    <3> QED BY <2>1, <3>1 DEF InHand
  <2> QED BY <2>2, <2>3
<1>3. row[2] = p /\ (b = Idle \/ row[1] \notin b.left) => d \notin InHand(row)'
    BY GotoShare DEF InHand
<1> QED BY <1>2, <1>3

\* A step of a batch that settles no row and takes none in hand.
LEMMA QuietBounded ==
    ASSUME TypeOK, Bounded, NEW d \in Drainer, NEW p \in Peer, NEW b \in Share, Goto(d, p, b),
           batches[d][p] # Idle,
           b # Idle => b.left \subseteq batches[d][p].left /\ b.leased = batches[d][p].leased,
           UNCHANGED rows, faults' \in Nat, faults' >= faults
    PROVE  Bounded'
<1>1. \A row \in Row : InHand(row)' \subseteq InHand(row)
    BY HandsLetGo
<1>2. \A row \in Row : Live(row)' => Live(row) /\ rows'[row].attempts = rows[row].attempts
    BY DEF Live
<1> QED BY <1>1, <1>2, StaysBounded DEF Bounded

\* A batch settles a row: it is gone or dead, or one share pays for one
\* attempt.
LEMMA SettleBounded ==
    ASSUME TypeOK, Bounded, NEW d \in Drainer, NEW p \in Peer, NEW c \in Content,
           batches[d][p] # Idle, NEW entry \in Entry \cup {NoRow}, Write(<<c, p>>, entry),
           entry # NoRow /\ ~entry.dead =>
              /\ Live(<<c, p>>) /\ entry.attempts = rows[<<c, p>>].attempts + 1
              /\ d \in InHand(<<c, p>>),
           Goto(d, p, Settled(batches[d][p], c)), faults' = faults
    PROVE  Bounded'
<1> DEFINE b == batches[d][p]
           mine == <<c, p>>
<1>1. b \in Batch /\ mine \in Row /\ faults \in Nat
    BY DEF TypeOK, Row
<1>2. Settled(b, c) \in Share
    BY <1>1, SettledShare
<1>3. Settled(b, c) # Idle =>
         Settled(b, c).left = b.left \ {c} /\ Settled(b, c).leased = b.leased
    BY <1>1 DEF Settled, Batch
<1>4. \A row \in Row : InHand(row)' \subseteq InHand(row)
    BY <1>2, <1>3, HandsLetGo
<1>5. d \notin InHand(mine)'
  <2>1. mine[1] = c /\ mine[2] = p
      OBVIOUS
  <2> HIDE DEF mine
  <2> QED BY <1>1, <1>2, <1>3, <2>1, HandsLetGo
<1>6. rows'[mine] = entry /\ \A other \in Row \ {mine} : rows'[other] = rows[other]
    BY <1>1, WriteRow
<1>7. \A other \in Row \ {mine} : RowBounded(other)'
    BY <1>1, <1>4, <1>6, StaysBounded DEF Bounded, Live
<1>8. RowBounded(mine)'
  <2> SUFFICES ASSUME Live(mine)' PROVE RowBounded(mine)'
      BY DEF RowBounded
  <2>1. entry # NoRow /\ ~entry.dead
      BY <1>6 DEF Live
  <2>2. Live(mine) /\ rows'[mine].attempts = rows[mine].attempts + 1 /\ d \in InHand(mine)
      BY <1>6, <2>1
  <2>3. InHand(mine) \subseteq Drainer /\ InHand(mine)' \subseteq InHand(mine) \ {d}
      BY <1>1, <1>4, <1>5 DEF InHand
  <2>4. /\ IsFiniteSet(InHand(mine)) /\ Cardinality(InHand(mine)) \in Nat
        /\ Cardinality(Drainer) \in Nat
      BY <2>3, HandsCounted
  <2>5. /\ IsFiniteSet(InHand(mine) \ {d})
        /\ Cardinality(InHand(mine) \ {d}) = Cardinality(InHand(mine)) - 1
      BY <2>2, <2>4, FS_RemoveElement
  <2>6. Cardinality(InHand(mine)') <= Cardinality(InHand(mine)) - 1
      BY <2>3, <2>5, FS_Subset
  <2>7. Cardinality(InHand(mine)') \in Nat
      BY <2>3, HandsCounted
  <2>8. rows[mine].attempts \in Nat
      BY <1>1, <2>2 DEF TypeOK, Live, Entry
  <2>9. rows[mine].attempts + Cardinality(InHand(mine))
           < MAX_DELIVERY_ATTEMPTS + (Cardinality(Drainer) - 1) + faults
      BY <1>1, <2>2 DEF Bounded, RowBounded
  <2>10. rows'[mine].attempts + Cardinality(InHand(mine)')
            < MAX_DELIVERY_ATTEMPTS + (Cardinality(Drainer) - 1) + faults'
      BY <1>1, <2>2, <2>4, <2>6, <2>7, <2>8, <2>9, ConstantsTyped
  <2> QED BY <2>10 DEF RowBounded
<1> QED BY <1>7, <1>8 DEF Bounded

LEMMA SettlesBounded ==
    ASSUME TypeOK, Bounded, NEW d \in Drainer, NEW p \in Peer, NEW c \in Content,
           \/ Retire(d, p, c) \/ ReadMissing(d, p, c)
           \/ Succeed(d, p, c) \/ Reject(d, p, c) \/ Fail(d, p, c)
    PROVE  Bounded'
<1> DEFINE b == batches[d][p]
           mine == <<c, p>>
<1>1. b \in Batch /\ b # Idle /\ mine \in Row /\ rows[mine] \in Entry \cup {NoRow}
    BY DEF TypeOK, Row, Retire, ReadMissing, Succeed, Reject, Fail, At
<1>2. /\ DeadLetter(rows[mine]) \in Entry \cup {NoRow}
      /\ DeadLetter(rows[mine]) # NoRow => DeadLetter(rows[mine]).dead
    BY <1>1, DeadLetterEntry DEF DeadLetter, Entry
<1>3. ASSUME NEW hint \in Int, c \in b.left
      PROVE  LET entry == Retry(rows[mine], b.leased[c], b.now, hint) IN
             /\ entry \in Entry \cup {NoRow}
             /\ entry # NoRow /\ ~entry.dead =>
                   /\ Live(mine) /\ entry.attempts = rows[mine].attempts + 1
                   /\ d \in InHand(mine)
  <2> DEFINE entry == Retry(rows[mine], b.leased[c], b.now, hint)
  <2>1. entry \in Entry \cup {NoRow}
      BY <1>1, <1>3, RetryEntry DEF Batch
  <2>2. CASE Exhausted(b.leased[c])
      BY <1>2, <2>1, <2>2 DEF Retry
  <2>3. CASE ~Exhausted(b.leased[c])
    <3>1. PICK t : entry = Postponed(rows[mine], t)
        BY <2>3 DEF Retry
    <3> HIDE DEF entry
    <3>2. entry # NoRow /\ ~entry.dead =>
             Live(mine) /\ entry.attempts = rows[mine].attempts + 1
      <4>1. CASE rows[mine] = NoRow
          BY <3>1, <4>1 DEF Postponed
      <4>2. CASE rows[mine] # NoRow
        <5>1. entry = [attempts |-> rows[mine].attempts + 1, due |-> t, dead |-> rows[mine].dead]
            BY <1>1, <3>1, <4>2 DEF Postponed, Entry
        <5> QED BY <4>2, <5>1 DEF Live
      <4> QED BY <4>1, <4>2
    <3>3. d \in InHand(mine)
        BY <1>1, <1>3, <2>3 DEF InHand
    <3> QED BY <2>1, <3>2, <3>3 DEF entry
  <2> QED BY <2>2, <2>3
<1>4. CASE Retire(d, p, c) \/ Succeed(d, p, c)
    BY <1>1, <1>4, SettleBounded DEF Retire, Succeed
<1>5. CASE ReadMissing(d, p, c)
    BY <1>1, <1>2, <1>5, SettleBounded DEF ReadMissing
<1>6. CASE Reject(d, p, c)
  <2>1. PICK entry \in Entry \cup {NoRow} :
           /\ Write(mine, entry)
           /\ entry # NoRow /\ ~entry.dead =>
                 /\ Live(mine) /\ entry.attempts = rows[mine].attempts + 1
                 /\ d \in InHand(mine)
    <3>1. b.hint \in Int
        BY <1>1 DEF Batch
    <3> QED BY <1>2, <1>3, <1>6, <3>1 DEF Reject
  <2> QED BY <1>1, <1>6, <2>1, SettleBounded DEF Reject
<1>7. CASE Fail(d, p, c)
  <2>1. PICK entry \in Entry \cup {NoRow} :
           /\ Write(mine, entry)
           /\ entry # NoRow /\ ~entry.dead =>
                 /\ Live(mine) /\ entry.attempts = rows[mine].attempts + 1
                 /\ d \in InHand(mine)
      BY <1>3, <1>7 DEF Fail
  <2> QED BY <1>1, <1>7, <2>1, SettleBounded DEF Fail
<1> QED BY <1>4, <1>5, <1>6, <1>7

LEMMA PassBounded ==
    ASSUME TypeOK, Bounded, NEW d \in Drainer, NEW p \in Peer,
           \/ CheckPeer(d, p) \/ Send(d, p) \/ Answer(d, p) \/ Abandon(d, p)
           \/ \E c \in Content : Record(d, p, c)
    PROVE  Bounded'
<1> DEFINE b == batches[d][p]
<1>1. b \in Batch /\ b # Idle /\ faults' = faults /\ faults \in Nat /\ rows' = rows
  <2>1. b # Idle /\ faults' = faults /\ rows' = rows
      BY DEF CheckPeer, Send, Answer, Abandon, Record, At
  <2> QED BY <2>1 DEF TypeOK
<1>2. PICK share \in Batch : Goto(d, p, share) /\ share.left = b.left /\ share.leased = b.leased
  <2>1. CASE CheckPeer(d, p)
    <3> DEFINE share == [b EXCEPT !.step = IF p \in trusted THEN "read" ELSE "retire"]
    <3>1. share \in Batch /\ share.left = b.left /\ share.leased = b.leased
        BY <1>1 DEF Batch, Steps
    <3> QED BY <2>1, <3>1 DEF CheckPeer
  <2>2. CASE Send(d, p)
    <3> DEFINE share == [b EXCEPT !.step = "sent", !.frames = b.left]
    <3>1. share \in Batch /\ share.left = b.left /\ share.leased = b.leased
        BY <1>1 DEF Batch, Steps
    <3> QED BY <2>2, <3>1 DEF Send
  <2>3. CASE Answer(d, p)
    <3>1. PICK accepted \in SUBSET b.frames, hint \in Hint :
          \E unwanted \in SUBSET (b.frames \ accepted) :
             Goto(d, p, [b EXCEPT !.step = "answered", !.accepted = accepted,
                                  !.refused = unwanted, !.hint = hint])
        BY <2>3 DEF Answer
    <3>2. PICK unwanted \in SUBSET (b.frames \ accepted) :
             Goto(d, p, [b EXCEPT !.step = "answered", !.accepted = accepted,
                                  !.refused = unwanted, !.hint = hint])
        BY <3>1
    <3> DEFINE share == [b EXCEPT !.step = "answered", !.accepted = accepted,
                                 !.refused = unwanted, !.hint = hint]
    <3>3. accepted \subseteq Content /\ unwanted \subseteq Content /\ hint \in Int
        BY <1>1, ConstantsTyped DEF Batch
    <3>4. share \in Batch /\ share.left = b.left /\ share.leased = b.leased
        BY <1>1, <3>3 DEF Batch, Steps
    <3> QED BY <3>2, <3>4
  <2>4. CASE Abandon(d, p)
    <3> DEFINE share == [b EXCEPT !.step = "failing"]
    <3>1. share \in Batch /\ share.left = b.left /\ share.leased = b.leased
        BY <1>1 DEF Batch, Steps
    <3> QED BY <2>4, <3>1 DEF Abandon
  <2>5. ASSUME NEW c \in Content, Record(d, p, c)
        PROVE  \E share \in Batch :
                  Goto(d, p, share) /\ share.left = b.left /\ share.leased = b.leased
    <3> DEFINE share == [b EXCEPT !.recorded = {c}]
    <3>1. share \in Batch /\ share.left = b.left /\ share.leased = b.leased
        BY <1>1 DEF Batch, Steps
    <3> QED BY <2>5, <3>1 DEF Record
  <2> QED BY <2>1, <2>2, <2>3, <2>4, <2>5
<1> QED BY <1>1, <1>2, QuietBounded DEF Share

\* An error that fails a batch again takes its rows in hand again, and is one
\* more fault.
LEMMA DbErrorBounded ==
    ASSUME TypeOK, Bounded, NEW d \in Drainer, NEW p \in Peer, DbError(d, p)
    PROVE  Bounded'
<1> DEFINE b == batches[d][p]
<1>1. /\ b \in Batch /\ b # Idle /\ rows' = rows
      /\ faults \in Nat /\ faults' = faults + 1 /\ faults' \in Nat
    BY DEF TypeOK, DbError
<1>2. CASE b.step # "answered"
  <2>1. Goto(d, p, Idle) /\ Idle \in Share
      BY <1>2 DEF DbError, Share
  <2> QED BY <1>1, <2>1, QuietBounded
<1>3. CASE b.step = "answered"
  <2> DEFINE again == [b EXCEPT !.step = "failing", !.left = b.frames, !.recorded = {}]
  <2>1. Goto(d, p, again) /\ again \in Share
      BY <1>1, <1>3 DEF DbError, Share, Batch, Steps
  <2>2. \A e \in Drainer, q \in Peer : <<e, q>> # <<d, p>> => batches'[e][q] = batches[e][q]
      BY <2>1, GotoShare
  <2>3. ASSUME NEW row \in Row PROVE RowBounded(row)'
    <3>1. InHand(row)' \subseteq InHand(row) \cup {d}
      <4>1. row[2] \in Peer
          BY DEF Row
      <4>2. ASSUME NEW e \in Drainer, e # d PROVE batches'[e][row[2]] = batches[e][row[2]]
          BY <2>2, <4>1, <4>2
      <4> QED BY <4>2 DEF InHand
    <3>2. SUFFICES ASSUME Live(row)' PROVE RowBounded(row)'
        BY DEF RowBounded
    <3>3. Live(row) /\ rows[row].attempts \in Nat /\ rows'[row] = rows[row]
        BY <1>1, <3>2 DEF Live, TypeOK, Entry
    <3>4. InHand(row) \subseteq Drainer /\ InHand(row)' \subseteq Drainer
        BY DEF InHand
    <3>5. /\ IsFiniteSet(InHand(row)) /\ Cardinality(InHand(row)) \in Nat
          /\ Cardinality(InHand(row)') \in Nat /\ Cardinality(Drainer) \in Nat
        BY <3>4, HandsCounted
    <3>6. /\ IsFiniteSet(InHand(row) \cup {d})
          /\ Cardinality(InHand(row) \cup {d}) <= Cardinality(InHand(row)) + 1
      <4>1. CASE d \in InHand(row)
        <5>1. InHand(row) \cup {d} = InHand(row)
            BY <4>1
        <5>2. /\ IsFiniteSet(InHand(row) \cup {d})
              /\ Cardinality(InHand(row) \cup {d}) = Cardinality(InHand(row))
            BY <3>5, <5>1, Zenon
        <5> QED BY <3>5, <5>2
      <4>2. CASE d \notin InHand(row)
        <5>1. /\ IsFiniteSet(InHand(row) \cup {d})
              /\ Cardinality(InHand(row) \cup {d}) = Cardinality(InHand(row)) + 1
            BY <3>5, <4>2, FS_AddElement
        <5> QED BY <3>5, <5>1
      <4> QED BY <4>1, <4>2
    <3>7. Cardinality(InHand(row)') <= Cardinality(InHand(row)) + 1
      <4>1. Cardinality(InHand(row)') <= Cardinality(InHand(row) \cup {d})
          BY <3>1, <3>6, FS_Subset
      <4>2. Cardinality(InHand(row) \cup {d}) \in Nat
          BY <3>6, FS_CardinalityType
      <4> QED BY <3>5, <3>6, <4>1, <4>2
    <3>8. rows[row].attempts + Cardinality(InHand(row))
             < MAX_DELIVERY_ATTEMPTS + (Cardinality(Drainer) - 1) + faults
        BY <3>3 DEF Bounded, RowBounded
    <3>9. rows'[row].attempts + Cardinality(InHand(row)')
             < MAX_DELIVERY_ATTEMPTS + (Cardinality(Drainer) - 1) + faults'
        BY <1>1, <3>3, <3>5, <3>7, <3>8, ConstantsTyped
    <3> QED BY <3>9 DEF RowBounded
  <2> QED BY <2>3 DEF Bounded
<1> QED BY <1>2, <1>3

\* A row that fanout writes has had no attempt.
LEMMA FanoutBounded ==
    ASSUME TypeOK, Bounded, NEW c \in Content, Fanout(c)
    PROVE  Bounded'
<1>1. faults' = faults /\ batches' = batches /\ faults \in Nat
    BY DEF TypeOK, Fanout
<1>2. \A row \in Row :
         \/ rows'[row] = rows[row]
         \/ rows[row] = NoRow /\ rows'[row] = [attempts |-> 0, due |-> now, dead |-> FALSE]
    BY DEF Fanout, QueuedEntry
<1>3. ASSUME NEW row \in Row PROVE RowBounded(row)'
  <2>1. InHand(row)' = InHand(row) /\ InHand(row) \subseteq Drainer
      BY <1>1 DEF InHand
  <2>2. CASE rows'[row] = rows[row]
      BY <1>1, <2>1, <2>2, StaysBounded DEF Bounded, Live
  <2>3. CASE rows'[row] = [attempts |-> 0, due |-> now, dead |-> FALSE]
    <3>1. /\ Cardinality(InHand(row)) \in Nat /\ Cardinality(Drainer) \in Nat \ {0}
          /\ Cardinality(InHand(row)) <= Cardinality(Drainer)
        BY <2>1, HandsCounted
    <3>2. MAX_DELIVERY_ATTEMPTS \in Nat \ {0}
        BY SomePass, ConstantsTyped
    <3>3. MAX_DELIVERY_ATTEMPTS = 1 => InHand(row) = {}
      <4> SUFFICES ASSUME MAX_DELIVERY_ATTEMPTS = 1, NEW d \in InHand(row) PROVE FALSE
          OBVIOUS
      <4>1. d \in Drainer /\ batches[d][row[2]] \in Batch /\ row[1] \in Content
          BY DEF InHand, TypeOK, Row
      <4>2. batches[d][row[2]].leased[row[1]] \in Nat
          BY <4>1 DEF Batch
      <4> QED BY <4>2 DEF InHand, Exhausted
    <3>4. MAX_DELIVERY_ATTEMPTS = 1 => Cardinality(InHand(row)) = 0
        BY <3>3, FS_EmptySet
    <3>5. Cardinality(InHand(row))
             < MAX_DELIVERY_ATTEMPTS + (Cardinality(Drainer) - 1) + faults
        BY <1>1, <3>1, <3>2, <3>4
    <3>6. rows'[row].attempts = 0
        BY <2>3
    <3> QED BY <1>1, <2>1, <3>1, <3>5, <3>6 DEF RowBounded
  <2> QED BY <1>2, <2>2, <2>3
<1> QED BY <1>3 DEF Bounded

\* A pass takes in hand only rows short of the limit.
LEMMA DrainBounded ==
    ASSUME TypeOK, TypeOK', Bounded, NEW d \in Drainer, Drain(d)
    PROVE  Bounded'
<1>1. PICK taken \in Leases \ {{}} :
         batches' = [batches EXCEPT ![d] =
            [p \in Peer |->
               LET contents == {c \in Content : <<c, p>> \in taken}
               IN  IF contents = {} THEN Idle ELSE NewBatch(contents, p)]]
    BY DEF Drain
<1> DEFINE contents(p) == {c \in Content : <<c, p>> \in taken}
<1>2. rows' = rows /\ faults' = faults /\ faults \in Nat
    BY DEF TypeOK, Drain
<1>3. \A p \in Peer : batches'[d][p] = Idle \/ batches'[d][p] = NewBatch(contents(p), p)
    BY <1>1 DEF TypeOK
<1>4. \A e \in Drainer \ {d} : batches'[e] = batches[e]
    BY <1>1 DEF TypeOK
<1>5. ASSUME NEW row \in Row PROVE RowBounded(row)'
  <2>1. row[1] \in Content /\ row[2] \in Peer /\ row = <<row[1], row[2]>>
      BY DEF Row
  <2>2. InHand(row)' \ {d} \subseteq InHand(row)
      BY <1>4 DEF InHand
  <2>3. CASE d \in InHand(row)'
    <3>1. /\ batches'[d][row[2]] = NewBatch(contents(row[2]), row[2])
          /\ row[1] \in batches'[d][row[2]].left
          /\ ~Exhausted(batches'[d][row[2]].leased[row[1]])
        BY <1>3, <2>1, <2>3 DEF InHand
    <3>2. row[1] \in contents(row[2])
        BY <3>1 DEF NewBatch
    <3>3. batches'[d][row[2]].leased[row[1]] = rows[row].attempts
        BY <2>1, <3>1, <3>2 DEF NewBatch
    <3>4. Live(row)' => rows'[row].attempts + 1 < MAX_DELIVERY_ATTEMPTS
      <4> SUFFICES ASSUME Live(row)' PROVE rows'[row].attempts + 1 < MAX_DELIVERY_ATTEMPTS
          OBVIOUS
      <4>1. rows[row].attempts \in Nat
          BY <1>2 DEF TypeOK, Live, Entry
      <4> QED BY <1>2, <3>1, <3>3, <4>1, ConstantsTyped DEF Exhausted
    <3> QED BY <3>4, FewAttempts
  <2>4. CASE d \notin InHand(row)'
      BY <1>2, <2>2, <2>4, StaysBounded DEF Bounded, Live
  <2> QED BY <2>3, <2>4
<1> QED BY <1>5 DEF Bounded

LEMMA WorldBounded ==
    ASSUME TypeOK, Bounded,
           \/ \E row \in Row : LateArrival(row)
           \/ \E p \in Peer : CutOff(p) \/ Reinstate(p)
           \/ Crash \/ Wait \/ UNCHANGED vars
    PROVE  Bounded'
<1>1. rows' = rows /\ faults \in Nat /\ faults' \in {faults, faults + 1}
    BY DEF TypeOK, LateArrival, CutOff, Reinstate, Crash, Wait, vars
<1>2. \A row \in Row : InHand(row)' \subseteq InHand(row)
  <2>1. CASE Crash
      BY <2>1 DEF Crash, InHand, Row
  <2>2. CASE batches' = batches
      BY <2>2 DEF InHand
  <2> QED BY <2>1, <2>2 DEF LateArrival, CutOff, Reinstate, Wait, vars
<1> QED BY <1>1, <1>2, StaysBounded DEF Bounded, Live

LEMMA BoundedStep == IInv /\ Bounded /\ [Next]_vars => Bounded'
<1> SUFFICES ASSUME IInv, Bounded, [Next]_vars PROVE Bounded'
    OBVIOUS
<1>1. TypeOK /\ TypeOK'
    BY StepInv DEF IInv
<1>2. CASE \E c \in Content : Fanout(c)
    BY <1>1, <1>2, FanoutBounded
<1>3. CASE \E d \in Drainer : Drain(d)
    BY <1>1, <1>3, DrainBounded
<1>4. ASSUME NEW d \in Drainer, NEW p \in Peer, BatchStep(d, p) \/ DbError(d, p)
      PROVE  Bounded'
    BY <1>1, <1>4, PassBounded, SettlesBounded, DbErrorBounded DEF BatchStep, Timeout, Unreachable
<1>5. CASE \/ \E row \in Row : LateArrival(row)
           \/ \E p \in Peer : CutOff(p) \/ Reinstate(p)
           \/ Crash \/ Wait \/ UNCHANGED vars
    BY <1>1, <1>5, WorldBounded
<1> QED BY <1>2, <1>3, <1>4, <1>5 DEF Next

LEMMA BoundedInit == Init => Bounded
BY DEF Init, Bounded, RowBounded, Live

\* A row that has not been given up has had fewer attempts than the limit,
\* but for one more for every other pass and for every error, whatever
\* overlaps, times out, throws or crashes.
THEOREM AttemptsAreBoundedCorrect == Spec => []AttemptsAreBounded
<1>1. ASSUME IInv, Bounded, NEW row \in Row, Live(row)
      PROVE  rows[row].attempts < MAX_DELIVERY_ATTEMPTS + (Cardinality(Drainer) - 1) + faults
  <2>1. InHand(row) \subseteq Drainer
      BY DEF InHand
  <2>2. Cardinality(InHand(row)) \in Nat /\ Cardinality(Drainer) \in Nat
      BY <2>1, HandsCounted
  <2>3. rows[row].attempts \in Nat /\ faults \in Nat
      BY <1>1 DEF IInv, TypeOK, Live, Entry
  <2> QED BY <1>1, <2>2, <2>3, ConstantsTyped DEF Bounded, RowBounded
<1>2. IInv /\ Bounded => AttemptsAreBounded
    BY <1>1 DEF AttemptsAreBounded
<1> QED BY <1>2, InitInv, StepInv, BoundedInit, BoundedStep, PTL DEF Spec

-----------------------------------------------------------------------------
(* Catching up.                                                            *)

Dealt == stored \cup refused

\* The peer's log grows at its end only.
LogInv ==
    /\ size <= next
    /\ \A i \in log \cup pending : i < next
    /\ \A j \in pending : size <= j /\ \A i \in log : i < j
    /\ advertised <= size /\ cursor <= size

\* What a pass has gone by is settled, and nothing is yet to appear there.
PassInv(pass) ==
    /\ pass.promised \subseteq log
    /\ pass.at <= next /\ \A j \in pending : pass.at <= j
    /\ pass.to # Unbounded => pass.to <= size
    /\ \A i \in log : i < pass.at => i \in Dealt
    /\ pass.step \in {"stream", "done"} => pass.to = Unbounded
    /\ pass.step = "done" /\ StreamLimit = Unbounded => pass.promised \subseteq Dealt

SyncInv ==
    OrderlyPeer => /\ LogInv /\ PassedIsSettled
               /\ \A c \in Connection : conn[c] # Closed => PassInv(conn[c])

SyncIInv == SyncTypeOK /\ SyncInv

-----------------------------------------------------------------------------
LEMMA GotoType ==
    ASSUME SyncTypeOK, NEW c \in Connection, NEW pass \in Pass \cup {Closed}, ConnGoto(c, pass)
    PROVE  conn' \in [Connection -> Pass \cup {Closed}] /\ conn'[c] = pass
           /\ \A x \in Connection \ {c} : conn'[x] = conn[x]
BY DEF SyncTypeOK, ConnGoto

LEMMA PeerType ==
    SyncTypeOK /\ (Allocate \/ PeerRestart \/ Gossip \/ \E i \in pending : Commit(i) \/ Abort(i)) => SyncTypeOK'
<1> SUFFICES ASSUME SyncTypeOK, Allocate \/ PeerRestart \/ Gossip \/ \E i \in pending : Commit(i) \/ Abort(i)
             PROVE  SyncTypeOK'
    OBVIOUS
<1>1. CASE Allocate
    BY <1>1 DEF SyncTypeOK, Allocate
<1>2. CASE PeerRestart
  <2>1. next' \in Nat
      BY <1>2, SyncTyped DEF SyncTypeOK, PeerRestart
  <2> QED BY <1>2, <2>1 DEF SyncTypeOK, PeerRestart
<1>3. CASE Gossip
    BY <1>3 DEF SyncTypeOK, Gossip
<1>4. ASSUME NEW i \in pending, Commit(i) PROVE SyncTypeOK'
    BY <1>4 DEF SyncTypeOK, Commit
<1>5. ASSUME NEW i \in pending, Abort(i) PROVE SyncTypeOK'
    BY <1>5 DEF SyncTypeOK, Abort
<1> QED BY <1>1, <1>2, <1>3, <1>4, <1>5

\* A restart of the peer only moves its next index up.
LEMMA RestartSkips == SyncTypeOK /\ PeerRestart => next' >= next
BY SyncTyped DEF SyncTypeOK, PeerRestart

LEMMA PeerStep ==
    ASSUME SyncIInv, Allocate \/ PeerRestart \/ Gossip \/ \E i \in pending : Commit(i) \/ Abort(i)
    PROVE  SyncIInv'
<1>t. SyncTypeOK /\ SyncTypeOK'
    BY PeerType DEF SyncIInv
<1> SUFFICES ASSUME OrderlyPeer PROVE SyncInv'
    BY <1>t DEF SyncIInv, SyncInv, OrderlyPeer
<1>1. /\ LogInv /\ PassedIsSettled
      /\ \A c \in Connection : conn[c] # Closed => PassInv(conn[c]) /\ conn[c] \in Pass
    BY DEF SyncIInv, SyncInv, SyncTypeOK
<1>2. CASE Allocate
  <2>1. LogInv'
      BY <1>1, <1>2, <1>t DEF LogInv, Allocate, SyncTypeOK
  <2> QED BY <1>1, <1>2, <1>t, <2>1
          DEF SyncInv, PassedIsSettled, PassInv, Dealt, Allocate, SyncTypeOK, Pass
<1>3. CASE PeerRestart
  <2>1. next' >= next
      BY <1>3, <1>t, RestartSkips
  <2>2. LogInv'
      BY <1>1, <1>3, <1>t, <2>1 DEF LogInv, PeerRestart, SyncTypeOK
  <2> QED BY <1>1, <1>3, <1>t, <2>1, <2>2
          DEF SyncInv, PassedIsSettled, PassInv, Dealt, PeerRestart, SyncTypeOK, Pass
<1>4. CASE Gossip
    BY <1>1, <1>4, <1>t DEF SyncInv, LogInv, PassedIsSettled, PassInv, Dealt, Gossip, SyncTypeOK
<1>5. ASSUME NEW i \in pending, Commit(i) PROVE SyncInv'
  <2>1. \A j \in pending \ {i} : i < j
      BY <1>5, <1>t DEF Commit, OrderlyPeer, SyncTypeOK
  <2>2. size <= i /\ i < next
      BY <1>1, <1>5 DEF LogInv
  <2>3. LogInv'
      BY <1>1, <1>5, <1>t, <2>1, <2>2 DEF LogInv, Commit, SyncTypeOK
  <2>4. PassedIsSettled'
      BY <1>1, <1>5, <1>t, <2>2 DEF LogInv, PassedIsSettled, Commit, SyncTypeOK
  <2>5. ASSUME NEW c \in Connection, conn[c] # Closed PROVE PassInv(conn[c])'
      BY <1>1, <1>5, <1>t, <2>5 DEF PassInv, Dealt, Commit, SyncTypeOK, Pass
  <2> QED BY <1>5, <2>3, <2>4, <2>5 DEF SyncInv, Commit
<1>6. ASSUME NEW i \in pending, Abort(i) PROVE SyncInv'
    BY <1>1, <1>6, <1>t DEF SyncInv, LogInv, PassedIsSettled, PassInv, Dealt, Abort, SyncTypeOK
<1> QED BY <1>2, <1>3, <1>4, <1>5, <1>6

-----------------------------------------------------------------------------
\* A step of a connection that leaves the log alone and settles what it goes by.
LEMMA ReadStep ==
    ASSUME SyncIInv, NEW c \in Connection, NEW pass \in Pass \cup {Closed}, ConnGoto(c, pass),
           UNCHANGED <<next, pending, log, size>>,
           advertised' \in Nat, cursor' \in Nat, stored' \subseteq Nat, refused' \subseteq Nat,
           OrderlyPeer => advertised' <= size /\ cursor' <= size,
           stored \subseteq stored', refused \subseteq refused',
           OrderlyPeer => PassedIsSettled',
           OrderlyPeer /\ pass # Closed => PassInv(pass)'
    PROVE  SyncIInv'
<1>1. SyncTypeOK
    BY DEF SyncIInv
<1>2. SyncTypeOK'
    BY <1>1, GotoType DEF SyncTypeOK
<1> SUFFICES ASSUME OrderlyPeer PROVE SyncInv'
    BY <1>2 DEF SyncIInv, SyncInv, OrderlyPeer
<1>3. LogInv'
    BY <1>1 DEF SyncIInv, SyncInv, LogInv
<1>4. ASSUME NEW x \in Connection, conn'[x] # Closed PROVE PassInv(conn[x])'
  <2>1. CASE x = c
      BY <1>1, <1>4, <2>1, GotoType DEF PassInv, Dealt
  <2>2. CASE x # c
    <3>1. conn'[x] = conn[x]
        BY <1>1, <2>2, GotoType
    <3> QED BY <1>4, <3>1 DEF SyncIInv, SyncInv, PassInv, Dealt
  <2> QED BY <2>1, <2>2
<1> QED BY <1>3, <1>4 DEF SyncInv

\* The same when nothing but the connection changes.
LEMMA SyncQuietStep ==
    ASSUME SyncIInv, NEW c \in Connection, NEW pass \in Pass \cup {Closed}, ConnGoto(c, pass),
           UNCHANGED <<next, pending, log, size, advertised, cursor, stored, refused>>,
           OrderlyPeer /\ pass # Closed => PassInv(pass)
    PROVE  SyncIInv'
<1>1. OrderlyPeer => advertised' <= size /\ cursor' <= size /\ PassedIsSettled'
    BY DEF SyncIInv, SyncInv, LogInv, PassedIsSettled
<1>2. OrderlyPeer /\ pass # Closed => PassInv(pass)'
    BY DEF PassInv, Dealt
<1> QED BY <1>1, <1>2, ReadStep DEF SyncIInv, SyncTypeOK

LEMMA FrameStep ==
    ASSUME SyncIInv, NEW c \in Connection, NEW i \in log, Frame(c, i)
    PROVE  SyncIInv'
<1>1. SyncTypeOK /\ conn[c] \in Pass /\ i \in Nat
    BY DEF SyncIInv, SyncTypeOK, Frame, ConnAt
<1>2. PICK pass \in Pass : pass = [conn[c] EXCEPT !.at = i + 1, !.count = @ + 1]
  <2>1. conn[c].count + 1 \in Nat /\ i + 1 \in Nat
      BY <1>1 DEF Pass
  <2>2. [conn[c] EXCEPT !.at = i + 1, !.count = @ + 1] \in Pass
      BY <1>1, <2>1 DEF Pass
  <2> QED BY <2>2
<1>3. /\ pass.at = i + 1 /\ pass.to = conn[c].to
      /\ pass.promised = conn[c].promised /\ pass.step = conn[c].step
    BY <1>1, <1>2 DEF Pass
<1>4. /\ stored' \subseteq Nat /\ refused' \subseteq Nat
      /\ stored \subseteq stored' /\ refused \subseteq refused'
    BY <1>1 DEF Frame, SyncTypeOK
<1>5. ASSUME OrderlyPeer PROVE PassedIsSettled' /\ PassInv(pass)'
  <2>1. LogInv /\ PassedIsSettled /\ PassInv(conn[c])
      BY <1>5 DEF SyncIInv, SyncInv, Frame, ConnAt
  <2>2. PassedIsSettled'
      BY <2>1, <1>4 DEF PassedIsSettled, Frame
  <2>3. i \in Dealt'
      BY <1>5 DEF Frame, Dealt, OrderlyPeer
  <2>4. \A j \in log : j < i + 1 => j \in Dealt'
    <3>1. ASSUME NEW j \in log, j < i + 1, j # i PROVE j < conn[c].at
        BY <1>1, <2>1, <3>1 DEF Frame, Remaining, InRange, SyncTypeOK, Pass
    <3> QED BY <1>1, <1>4, <2>1, <2>3, <3>1 DEF PassInv, Dealt
  <2>5. i + 1 <= next /\ \A j \in pending : i + 1 <= j
      BY <1>1, <2>1 DEF LogInv, SyncTypeOK
  <2>6. conn[c].step # "done"
      BY DEF Frame, ConnAt
  <2> QED BY <1>3, <2>1, <2>2, <2>4, <2>5, <2>6 DEF PassInv, Frame, Dealt
<1>6. ConnGoto(c, pass)
    BY <1>2 DEF Frame
<1> QED BY <1>1, <1>4, <1>5, <1>6, ReadStep DEF SyncIInv, SyncInv, LogInv, Frame, SyncTypeOK

LEMMA ConnectStep ==
    ASSUME SyncIInv, NEW c \in Connection, Connect(c)
    PROVE  SyncIInv'
<1> DEFINE pass == [step |-> "announced", from |-> 0, to |-> Unbounded, at |-> 0,
                    count |-> 0, promised |-> log]
<1>1. SyncTypeOK
    BY DEF SyncIInv
<1>2. pass \in Pass
    BY <1>1 DEF Pass, SyncSteps, SyncTypeOK
<1>3. OrderlyPeer => advertised' <= size /\ cursor' <= size /\ PassedIsSettled'
    BY <1>1 DEF SyncIInv, SyncInv, LogInv, PassedIsSettled, Connect, SyncTypeOK
<1>4. OrderlyPeer => PassInv(pass)'
    BY <1>1 DEF PassInv, Connect, SyncTypeOK
<1>5. /\ advertised' \in Nat /\ cursor' \in Nat /\ stored' \subseteq Nat /\ refused' \subseteq Nat
      /\ ConnGoto(c, pass) /\ UNCHANGED <<next, pending, log, size, stored, refused>>
    BY <1>1 DEF Connect, SyncTypeOK
<1> QED BY <1>2, <1>3, <1>4, <1>5, ReadStep

LEMMA ReadCursorStep ==
    ASSUME SyncIInv, NEW c \in Connection, ReadCursor(c)
    PROVE  SyncIInv'
<1>1. SyncTypeOK /\ conn[c] \in Pass
    BY DEF SyncIInv, SyncTypeOK, ReadCursor, ConnAt
<1>2. PICK pass \in Pass :
        pass = [conn[c] EXCEPT !.step = "positioned", !.from = cursor, !.at = cursor]
    BY <1>1 DEF Pass, SyncSteps, SyncTypeOK
<1>3. /\ pass.at = cursor /\ pass.promised = conn[c].promised /\ pass.step = "positioned"
      /\ pass.to = conn[c].to
    BY <1>1, <1>2 DEF Pass
<1>4. OrderlyPeer => PassInv(pass)
    BY <1>1, <1>3 DEF SyncIInv, SyncInv, LogInv, PassInv, PassedIsSettled, Dealt, SyncTypeOK,
                      ReadCursor, ConnAt
<1>5. ConnGoto(c, pass) /\ UNCHANGED <<next, pending, log, size, advertised, cursor, stored, refused>>
    BY <1>2 DEF ReadCursor
<1> QED BY <1>4, <1>5, SyncQuietStep

LEMMA StartBackfillStep ==
    ASSUME SyncIInv, NEW c \in Connection, StartBackfill(c)
    PROVE  SyncIInv'
<1>1. SyncTypeOK /\ conn[c] \in Pass
    BY DEF SyncIInv, SyncTypeOK, StartBackfill, ConnAt
<1>2. PICK pass \in Pass :
        pass = [conn[c] EXCEPT !.step = "backfill",
                               !.to = IF advertised = 0 THEN Unbounded ELSE advertised]
    BY <1>1 DEF Pass, SyncSteps, SyncTypeOK
<1>3. /\ pass.at = conn[c].at /\ pass.promised = conn[c].promised /\ pass.step = "backfill"
      /\ pass.to = Unbounded \/ pass.to = advertised
    BY <1>1, <1>2 DEF Pass
<1>4. OrderlyPeer => PassInv(pass)
    BY <1>1, <1>3 DEF SyncIInv, SyncInv, LogInv, PassInv, SyncTypeOK, StartBackfill, ConnAt
<1>5. ConnGoto(c, pass) /\ UNCHANGED <<next, pending, log, size, advertised, cursor, stored, refused>>
    BY <1>2 DEF StartBackfill
<1> QED BY <1>4, <1>5, SyncQuietStep

LEMMA EndBackfillStep ==
    ASSUME SyncIInv, NEW c \in Connection, EndBackfill(c)
    PROVE  SyncIInv'
<1>1. SyncTypeOK /\ conn[c] \in Pass /\ conn[c].step = "backfill"
    BY DEF SyncIInv, SyncTypeOK, EndBackfill, ConnAt
<1>2. PICK pass \in Pass : pass = [conn[c] EXCEPT !.step = "recorded", !.count = 0]
    BY <1>1 DEF Pass, SyncSteps
<1>3. /\ pass.at = conn[c].at /\ pass.to = conn[c].to /\ pass.step = "recorded"
      /\ pass.promised = conn[c].promised
    BY <1>1, <1>2 DEF Pass
<1>4. cursor' = cursor \/ (conn[c].to # Unbounded /\ cursor' = conn[c].to)
    BY DEF EndBackfill, Further
<1>5. cursor' \in Nat
    BY <1>1, <1>4 DEF Pass, SyncTypeOK
<1>6. ASSUME OrderlyPeer PROVE cursor' <= size /\ PassedIsSettled' /\ PassInv(pass)'
  <2>1. LogInv /\ PassedIsSettled /\ PassInv(conn[c])
      BY <1>1, <1>6 DEF SyncIInv, SyncInv, EndBackfill, ConnAt
  <2>2. cursor' <= size
      BY <1>4, <2>1 DEF LogInv, PassInv
  <2>3. Remaining(conn[c]) = {}
      BY <1>1, <1>6 DEF EndBackfill, Over, AtLimit, OrderlyPeer
  <2>4. ASSUME NEW i \in log, conn[c].to # Unbounded, i < conn[c].to PROVE i < conn[c].at
      BY <1>1, <2>3, <2>4 DEF Remaining, InRange, Pass, SyncTypeOK
  <2>5. PassedIsSettled'
      BY <1>4, <2>1, <2>4 DEF PassedIsSettled, PassInv, Dealt, EndBackfill
  <2>6. PassInv(pass)'
      BY <1>3, <2>1 DEF PassInv, Dealt, EndBackfill
  <2> QED BY <2>2, <2>5, <2>6
<1>7. ConnGoto(c, pass)
    BY <1>2 DEF EndBackfill
<1>8. OrderlyPeer => advertised' <= size
    BY DEF SyncIInv, SyncInv, LogInv, EndBackfill
<1> QED BY <1>1, <1>5, <1>6, <1>7, <1>8, ReadStep DEF EndBackfill, SyncTypeOK

LEMMA OpenStreamStep ==
    ASSUME SyncIInv, NEW c \in Connection, OpenStream(c)
    PROVE  SyncIInv'
<1>1. SyncTypeOK /\ conn[c] \in Pass
    BY DEF SyncIInv, SyncTypeOK, OpenStream, ConnAt
<1>2. PICK pass \in Pass :
        pass = [conn[c] EXCEPT !.step = "stream", !.from = Since(c), !.at = Since(c),
                               !.to = Unbounded]
    BY <1>1 DEF Pass, SyncSteps, SyncTypeOK, Since
<1>3. /\ pass.at = cursor /\ pass.to = Unbounded /\ pass.step = "stream"
      /\ pass.promised = conn[c].promised
    BY <1>1, <1>2 DEF Pass, Since
<1>4. OrderlyPeer => PassInv(pass)
    BY <1>1, <1>3 DEF SyncIInv, SyncInv, LogInv, PassInv, PassedIsSettled, Dealt, SyncTypeOK,
                      OpenStream, ConnAt
<1>5. ConnGoto(c, pass) /\ UNCHANGED <<next, pending, log, size, advertised, cursor, stored, refused>>
    BY <1>2 DEF OpenStream
<1> QED BY <1>4, <1>5, SyncQuietStep

LEMMA EndStreamStep ==
    ASSUME SyncIInv, NEW c \in Connection, EndStream(c)
    PROVE  SyncIInv'
<1>1. SyncTypeOK /\ conn[c] \in Pass /\ conn[c].step = "stream"
    BY DEF SyncIInv, SyncTypeOK, EndStream, ConnAt
<1>2. PICK pass \in Pass : pass = [conn[c] EXCEPT !.step = "done"]
    BY <1>1 DEF Pass, SyncSteps
<1>3. /\ pass.at = conn[c].at /\ pass.to = conn[c].to /\ pass.step = "done"
      /\ pass.promised = conn[c].promised
    BY <1>1, <1>2 DEF Pass
<1>4. ASSUME OrderlyPeer PROVE PassInv(pass)
  <2>1. PassInv(conn[c])
      BY <1>1, <1>4 DEF SyncIInv, SyncInv, EndStream, ConnAt
  <2>2. conn[c].to = Unbounded
      BY <1>1, <2>1 DEF PassInv
  <2>3. ASSUME StreamLimit = Unbounded, NEW i \in log PROVE i \in Dealt
    <3>1. Remaining(conn[c]) = {}
        BY <1>1, <2>3 DEF EndStream, Over, AtLimit
    <3>2. i < conn[c].at
        BY <1>1, <2>2, <3>1 DEF Remaining, InRange, Pass, SyncTypeOK
    <3> QED BY <2>1, <3>2 DEF PassInv
  <2> QED BY <1>3, <2>1, <2>2, <2>3 DEF PassInv
<1>5. ConnGoto(c, pass) /\ UNCHANGED <<next, pending, log, size, advertised, cursor, stored, refused>>
    BY <1>2 DEF EndStream
<1> QED BY <1>4, <1>5, SyncQuietStep

\* startStream moves its own connection on and drops the others' streams.
LEMMA StartStreamStep ==
    ASSUME SyncIInv, NEW c \in Connection, StartStream(c)
    PROVE  SyncIInv'
<1>1. SyncTypeOK /\ conn[c] \in Pass /\ conn[c].step = "recorded"
    BY DEF SyncIInv, SyncTypeOK, StartStream, ConnAt
<1>2. PICK pass \in Pass : pass = [conn[c] EXCEPT !.step = "opening"]
    BY <1>1 DEF Pass, SyncSteps
<1>3. /\ pass.at = conn[c].at /\ pass.to = conn[c].to /\ pass.step = "opening"
      /\ pass.promised = conn[c].promised
    BY <1>1, <1>2 DEF Pass
<1>4. \A x \in Connection : conn'[x] \in {pass, Closed, conn[x]}
    BY <1>2 DEF StartStream
<1>t. conn' \in [Connection -> Pass \cup {Closed}]
  <2>1. conn' = [x \in Connection |-> conn'[x]]
      BY DEF StartStream
  <2> QED BY <1>1, <1>4, <2>1 DEF SyncTypeOK
<1>5. SyncTypeOK'
    BY <1>1, <1>t DEF SyncTypeOK, StartStream
<1>6. ASSUME OrderlyPeer PROVE SyncInv'
  <2>1. LogInv /\ PassedIsSettled /\ PassInv(conn[c])
      BY <1>1, <1>6, IdleIsNoPass DEF SyncIInv, SyncInv
  <2>2. LogInv' /\ PassedIsSettled'
      BY <2>1 DEF LogInv, PassedIsSettled, StartStream
  <2>3. PassInv(pass)'
      BY <1>3, <2>1 DEF PassInv, Dealt, StartStream
  <2>4. ASSUME NEW x \in Connection, conn'[x] # Closed PROVE PassInv(conn[x])'
    <3>1. CASE conn'[x] = pass
        BY <2>3, <3>1 DEF PassInv, Dealt
    <3>2. CASE conn'[x] = conn[x]
        BY <1>6, <2>4, <3>2 DEF SyncIInv, SyncInv, PassInv, Dealt, StartStream
    <3> QED BY <1>4, <2>4, <3>1, <3>2
  <2> QED BY <2>2, <2>4 DEF SyncInv
<1> QED BY <1>5, <1>6 DEF SyncIInv, SyncInv, OrderlyPeer

\* What comes from elsewhere, and what is forgotten, takes nothing away.
LEMMA OtherStep ==
    ASSUME SyncIInv, NodeRestart \/ (\E i \in log : Push(i)) \/ (\E c \in Connection : Break(c))
    PROVE  SyncIInv'
<1>1. SyncTypeOK
    BY DEF SyncIInv
<1>2. CASE NodeRestart
    BY <1>1, <1>2 DEF SyncIInv, SyncInv, OrderlyPeer, SyncTypeOK, LogInv, PassedIsSettled, NodeRestart
<1>3. ASSUME NEW i \in log, Push(i) PROVE SyncIInv'
    BY <1>1, <1>3 DEF SyncIInv, SyncInv, OrderlyPeer, SyncTypeOK, LogInv, PassedIsSettled, PassInv,
                      Dealt, Push
<1>4. ASSUME NEW c \in Connection, Break(c) PROVE SyncIInv'
    BY <1>4, SyncQuietStep DEF Break
<1> QED BY <1>2, <1>3, <1>4

LEMMA SyncStepInv == SyncIInv /\ [SyncNext]_syncVars => SyncIInv'
<1> SUFFICES ASSUME SyncIInv, [SyncNext]_syncVars PROVE SyncIInv'
    OBVIOUS
<1>1. CASE SyncNext
    BY <1>1, PeerStep, OtherStep, ConnectStep, ReadCursorStep, StartBackfillStep, FrameStep, EndBackfillStep,
       StartStreamStep, OpenStreamStep, EndStreamStep DEF SyncNext
<1>2. CASE UNCHANGED syncVars
    BY <1>2 DEF SyncIInv, SyncInv, OrderlyPeer, SyncTypeOK, LogInv, PassedIsSettled, PassInv, Dealt, syncVars
<1> QED BY <1>1, <1>2

LEMMA SyncInitInv == SyncInit => SyncIInv
BY DEF SyncInit, SyncIInv, SyncTypeOK, SyncInv, LogInv, PassedIsSettled

LEMMA Inductive == SyncSpec => []SyncIInv
BY SyncInitInv, SyncStepInv, PTL DEF SyncSpec

\* The types hold whatever the peer and the connections do.
THEOREM SyncTypeCorrect == SyncSpec => []SyncTypeOK
<1>1. SyncIInv => SyncTypeOK
    BY DEF SyncIInv
<1> QED BY Inductive, <1>1, PTL

\* No step of any connection, late acknowledgements and restarts included,
\* moves the durable cursor back (NFR-R07, mongo-federation.ts:139).
THEOREM CursorCorrect == SyncSpec => CursorMovesOn
<1>1. ASSUME SyncTypeOK, [SyncNext]_syncVars PROVE cursor' >= cursor
  <2>1. CASE UNCHANGED cursor
      BY <1>1, <2>1 DEF SyncTypeOK
  <2>2. ASSUME NEW c \in Connection, EndBackfill(c) PROVE cursor' >= cursor
    <3>1. cursor \in Nat /\ (conn[c].to = Unbounded \/ conn[c].to \in Nat)
        BY <1>1, <2>2 DEF SyncTypeOK, EndBackfill, ConnAt, Pass
    <3> QED BY <2>2, <3>1 DEF EndBackfill, Further
  <2>3. CASE \E i \in log : Push(i)
      BY <2>1, <2>3 DEF Push
  <2>4. CASE \E i \in pending : Commit(i) \/ Abort(i)
      BY <2>1, <2>4 DEF Commit, Abort
  <2>5. CASE Allocate \/ PeerRestart \/ Gossip \/ NodeRestart \/ UNCHANGED syncVars
      BY <2>1, <2>5 DEF Allocate, PeerRestart, Gossip, NodeRestart, syncVars
  <2>6. ASSUME NEW c \in Connection,
               \/ Connect(c) \/ ReadCursor(c) \/ StartBackfill(c) \/ StartStream(c)
               \/ OpenStream(c) \/ EndStream(c) \/ Break(c) \/ \E i \in log : Frame(c, i)
        PROVE  UNCHANGED cursor
      BY <2>6 DEF Connect, ReadCursor, StartBackfill, StartStream, OpenStream, EndStream, Break,
                  Frame
  <2> QED BY <1>1, <2>1, <2>2, <2>3, <2>4, <2>5, <2>6 DEF SyncNext
<1>2. SyncTypeOK /\ [SyncNext]_syncVars => [cursor' >= cursor]_syncVars
    BY <1>1
<1> QED BY <1>2, SyncTypeCorrect, PTL DEF SyncSpec, CursorMovesOn

\* With an orderly peer the cursor never passes an envelope this node has
\* neither taken nor refused for good (federation-sync.ts:137-140).
THEOREM OrderlyPassedCorrect == SyncSpec => []OrderlyPassedIsSettled
<1>1. SyncIInv => OrderlyPassedIsSettled
    BY DEF SyncIInv, SyncInv, OrderlyPassedIsSettled
<1> QED BY Inductive, <1>1, PTL

\* With an orderly peer and an unlimited stream, a connection that has run to
\* its end has settled all the peer held when it began (FG-04,
\* federation-sync.ts:227-228).
THEOREM OrderlyCaughtUpCorrect == SyncSpec => []OrderlyCaughtUp
<1>1. ASSUME SyncIInv, OrderlyPeer, StreamLimit = Unbounded, NEW c \in Connection, ConnAt(c, "done")
      PROVE  conn[c].promised \subseteq Dealt
    BY <1>1 DEF SyncIInv, SyncInv, PassInv, ConnAt
<1>2. SyncIInv => OrderlyCaughtUp
    BY <1>1 DEF OrderlyCaughtUp, CaughtUp, Dealt
<1> QED BY Inductive, <1>2, PTL
=============================================================================
