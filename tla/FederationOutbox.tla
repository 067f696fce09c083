------------------------- MODULE FederationOutbox -------------------------
(***************************************************************************)
(* The durable outbound queue (the outbox collection) and its drainer.     *)
(* Fanout writes one row per peer. A drain pass leases due rows, splits    *)
(* them by peer, and each peer's batch runs on its own: it reads the peer  *)
(* and the envelopes, delivers, and settles its rows one write at a time.  *)
(*                                                                         *)
(* A lease is a query that marks nothing, and a timer starts a pass every  *)
(* second whether or not the last has ended: passes overlap, and every one *)
(* settles rows by the attempt count and the time it leased them with. The *)
(* deadline ends the wait for a delivery, never the delivery.              *)
(*                                                                         *)
(* A batch is modelled for one plane. Which peers are eligible is left to  *)
(* fanout's choice; rows of one class are leased, and a batch's rows are   *)
(* settled, in any order.                                                  *)
(***************************************************************************)
EXTENDS Integers, FiniteSets, Functions

CONSTANTS
    Drainer,                \* overlapping drain passes
    Peer, Content,
    Priority,               \* the class of each envelope; 0 drains first
    Missing,                \* envelopes that are not in the log
    BatchSize,              \* rows a pass leases
    MAX_DELIVERY_ATTEMPTS, INITIAL_BACKOFF_MS, MAX_BACKOFF_MS,
    DeliverTimeout,         \* deliverTimeoutMs
    Hint,                   \* backpressure hints a peer may give
    MaxFanouts,             \* bound on the calls of enqueue
    MaxFaults,              \* bound on database errors and crashes
    NoRow, Idle

Row == Content \X Peer      \* the row's _id
Entry == {e \in [attempts : Nat, due : Int, dead : BOOLEAN] : e.dead => e.attempts > 0}
Steps == {"peer", "retire", "read", "sent", "answered", "failing"}

\* A peer's share of a pass: the attempts it leased each row with, the rows
\* it has yet to settle, the frames it sent and what the peer said of them.
Batch == [step : Steps, now : Int, leased : [Content -> Nat],
          left : SUBSET Content, frames : SUBSET Content, accepted : SUBSET Content,
          refused : SUBSET Content, recorded : SUBSET Content, hint : Int]

ASSUME NoneIsNone == NoRow \notin Entry /\ Idle \notin Batch
ASSUME ConstantsTyped ==
    /\ Priority \in [Content -> Nat] /\ Missing \subseteq Content
    /\ Hint \subseteq Nat /\ BatchSize \in Nat \ {0}
    /\ {MAX_DELIVERY_ATTEMPTS, INITIAL_BACKOFF_MS, MAX_BACKOFF_MS, DeliverTimeout,
        MaxFanouts, MaxFaults} \subseteq Nat
ASSUME SomePass == IsFiniteSet(Drainer) /\ Drainer # {} /\ MAX_DELIVERY_ATTEMPTS > 0

VARIABLES
    rows,       \* the outbox collection
    batches,    \* what each pass is doing for each peer
    ledger,     \* the (content, OUT) entries of the ledger, with their peer
    held,       \* rows whose peer has accepted the envelope
    late,       \* frames sent by calls this node no longer waits for
    trusted,    \* the peer is known and at PROBATION or above
    now,
    fanouts, faults,
    wanted,     \* history: the rows fanout has written
    wasCut      \* history: the peers that have been below PROBATION

vars == <<rows, batches, ledger, held, late, trusted, now, fanouts, faults, wanted, wasCut>>

TypeOK ==
    /\ rows \in [Row -> Entry \cup {NoRow}]
    /\ batches \in [Drainer -> [Peer -> Batch \cup {Idle}]]
    /\ ledger \subseteq Row /\ held \subseteq Row /\ late \subseteq Row /\ wanted \subseteq Row
    /\ trusted \subseteq Peer /\ wasCut \subseteq Peer
    /\ now \in Int /\ fanouts \in Nat /\ faults \in Nat

Live(row) == rows[row] # NoRow /\ ~rows[row].dead
Due == {row \in Row : Live(row) /\ rows[row].due <= now}

Init ==
    /\ rows = [row \in Row |-> NoRow]
    /\ batches = [d \in Drainer |-> [p \in Peer |-> Idle]]
    /\ ledger = {} /\ held = {} /\ late = {}
    /\ trusted = Peer
    /\ now = 0
    /\ fanouts = 0 /\ faults = 0
    /\ wanted = {} /\ wasCut = {}

-----------------------------------------------------------------------------
(* The schedule.                                                           *)

Lesser(a, b) == IF a < b THEN a ELSE b
Later(a, b) == IF a > b THEN a ELSE b

backoffDelayMs(n) == IF n <= 0 THEN 0 ELSE Lesser(INITIAL_BACKOFF_MS * 2 ^ (n - 1), MAX_BACKOFF_MS)

ASSUME DelaysTyped == \A n \in 0 .. MAX_DELIVERY_ATTEMPTS : backoffDelayMs(n) \in Nat

\* fail with no next attempt: the row is a dead letter.
DeletedLetter(entry) == NoRow
DeadLetter(entry) ==
    IF entry = NoRow THEN NoRow ELSE [entry EXCEPT !.dead = TRUE, !.attempts = @ + 1]

\* fail with a next attempt. updateOne of a row that is gone writes nothing.
UpsertPostponed(entry, at) ==
    IF entry = NoRow THEN [attempts |-> 1, due |-> at, dead |-> FALSE]
    ELSE [entry EXCEPT !.due = at, !.attempts = @ + 1]
Postponed(entry, at) ==
    IF entry = NoRow THEN NoRow ELSE [entry EXCEPT !.due = at, !.attempts = @ + 1]

ExactlyAtLimit(attempts) == attempts + 1 = MAX_DELIVERY_ATTEMPTS
Exhausted(attempts) == attempts + 1 >= MAX_DELIVERY_ATTEMPTS

SoonerRetry(entry, attempts, at, hint) ==
    IF Exhausted(attempts) THEN DeadLetter(entry)
    ELSE Postponed(entry, at + Lesser(backoffDelayMs(attempts + 1), hint))
UnwrittenRetry(entry, attempts, at, hint) == entry

\* nextRetry, and the peer's hint where it is later.
Retry(entry, attempts, at, hint) ==
    IF Exhausted(attempts) THEN DeadLetter(entry)
    ELSE Postponed(entry, at + Later(backoffDelayMs(attempts + 1), hint))

-----------------------------------------------------------------------------
(* Fanout.                                                                 *)

\* $setOnInsert: a row that is there already keeps its attempts.
QueuedEntry(entry) == IF entry = NoRow THEN [attempts |-> 0, due |-> now, dead |-> FALSE] ELSE entry

\* enqueue. The peers are read before the rows are written, and the bulk
\* write may stop between two rows.
Fanout(c) ==
    /\ fanouts < MaxFanouts
    /\ fanouts' = fanouts + 1
    /\ \E to \in SUBSET Peer \ {{}} :
          /\ rows' = [row \in Row |->
                IF row \in {c} \X to THEN QueuedEntry(rows[row]) ELSE rows[row]]
          /\ wanted' = wanted \cup {c} \X to
    /\ UNCHANGED <<batches, ledger, held, late, trusted, now, faults, wasCut>>

-----------------------------------------------------------------------------
(* A drain pass.                                                           *)

NewBatch(contents, p) ==
    [step |-> "peer", now |-> now,
     leased |-> [c \in Content |-> IF c \in contents THEN rows[<<c, p>>].attempts ELSE 0],
     left |-> contents, frames |-> {}, accepted |-> {}, refused |-> {}, recorded |-> {}, hint |-> 0]

\* lease: due rows, the most urgent classes first.
Leases ==
    {taken \in SUBSET Due :
        /\ Cardinality(taken) = Lesser(BatchSize, Cardinality(Due))
        /\ \A row \in taken, other \in Due \ taken : Priority[row[1]] <= Priority[other[1]]}

Drain(d) ==
    /\ \A p \in Peer : batches[d][p] = Idle
    /\ \E taken \in Leases \ {{}} :
          batches' = [batches EXCEPT ![d] =
             [p \in Peer |->
                LET contents == {c \in Content : <<c, p>> \in taken}
                IN  IF contents = {} THEN Idle ELSE NewBatch(contents, p)]]
    /\ UNCHANGED <<rows, ledger, held, late, trusted, now, fanouts, faults, wanted, wasCut>>

At(d, p, step) == batches[d][p] # Idle /\ batches[d][p].step = step
Goto(d, p, batch) == batches' = [batches EXCEPT ![d][p] = batch]
\* The next row, or the end of the batch.
Settled(b, c) == IF b.left = {c} THEN Idle ELSE [b EXCEPT !.left = @ \ {c}, !.recorded = {}]
Write(row, entry) == rows' = [rows EXCEPT ![row] = entry]

CheckPeer(d, p) ==
    /\ At(d, p, "peer")
    /\ Goto(d, p, [batches[d][p] EXCEPT !.step = IF p \in trusted THEN "read" ELSE "retire"])
    /\ UNCHANGED <<rows, ledger, held, late, trusted, now, fanouts, faults, wanted, wasCut>>

\* The peer was blocked after the row was written: succeed.
Retire(d, p, c) ==
    /\ At(d, p, "retire") /\ c \in batches[d][p].left
    /\ Write(<<c, p>>, NoRow)
    /\ Goto(d, p, Settled(batches[d][p], c))
    /\ UNCHANGED <<ledger, held, late, trusted, now, fanouts, faults, wanted, wasCut>>

\* "envelope not in log"
ReadMissing(d, p, c) ==
    /\ At(d, p, "read") /\ c \in batches[d][p].left \cap Missing
    /\ Write(<<c, p>>, DeadLetter(rows[<<c, p>>]))
    /\ Goto(d, p, Settled(batches[d][p], c))
    /\ UNCHANGED <<ledger, held, late, trusted, now, fanouts, faults, wanted, wasCut>>

Send(d, p) ==
    LET b == batches[d][p] IN
    /\ At(d, p, "read") /\ b.left \cap Missing = {}
    /\ Goto(d, p, [b EXCEPT !.step = "sent", !.frames = b.left])
    /\ UNCHANGED <<rows, ledger, held, late, trusted, now, fanouts, faults, wanted, wasCut>>

\* The peer runs its pipeline on every frame and acknowledges: accepted,
\* refused for good, or neither (a retryable refusal, or no word of it).
Answer(d, p) ==
    LET b == batches[d][p] IN
    /\ At(d, p, "sent")
    /\ \E accepted \in SUBSET b.frames, hint \in Hint :
       \E refused \in SUBSET (b.frames \ accepted) :
          /\ held' = held \cup accepted \X {p}
          /\ Goto(d, p, [b EXCEPT !.step = "answered", !.accepted = accepted,
                                  !.refused = refused, !.hint = hint])
    /\ UNCHANGED <<rows, ledger, late, trusted, now, fanouts, faults, wanted, wasCut>>

Abandon(d, p) ==
    LET b == batches[d][p] IN
    /\ At(d, p, "sent")
    /\ late' = late \cup b.frames \X {p}
    /\ Goto(d, p, [b EXCEPT !.step = "failing"])
    /\ UNCHANGED <<rows, ledger, held, trusted, now, fanouts, faults, wanted, wasCut>>

\* withDeadline rejects; or the connection breaks, before or after the peer
\* has taken frames.
Timeout(d, p) == Abandon(d, p) /\ now >= batches[d][p].now + DeliverTimeout
Unreachable(d, p) == Abandon(d, p)

\* The peer takes a frame of a call this node has given up on.
LateArrival(row) ==
    /\ row \in late \ held
    /\ held' = held \cup {row}
    /\ UNCHANGED <<rows, batches, ledger, late, trusted, now, fanouts, faults, wanted, wasCut>>

NotRefused(b, c) == c \notin b.refused
Acknowledged(b, c) == c \in b.accepted

\* recordOutbound. The index is unique on (content_id, direction), and the
\* duplicate-key error is swallowed.
Record(d, p, c) ==
    LET b == batches[d][p] IN
    /\ At(d, p, "answered") /\ b.recorded = {}
    /\ c \in b.left /\ Acknowledged(b, c)
    /\ ledger' = IF \E q \in Peer : <<c, q>> \in ledger THEN ledger ELSE ledger \cup {<<c, p>>}
    /\ Goto(d, p, [b EXCEPT !.recorded = {c}])
    /\ UNCHANGED <<rows, held, late, trusted, now, fanouts, faults, wanted, wasCut>>

Succeed(d, p, c) ==
    LET b == batches[d][p] IN
    /\ At(d, p, "answered") /\ b.recorded = {c}
    /\ Write(<<c, p>>, NoRow)
    /\ Goto(d, p, Settled(b, c))
    /\ UNCHANGED <<ledger, held, late, trusted, now, fanouts, faults, wanted, wasCut>>

\* The rejection is permanent, or it is not and the row is tried again.
Reject(d, p, c) ==
    LET b == batches[d][p] IN
    /\ At(d, p, "answered") /\ b.recorded = {}
    /\ c \in b.left /\ ~Acknowledged(b, c)
    /\ Write(<<c, p>>, IF c \in b.refused THEN DeadLetter(rows[<<c, p>>])
                       ELSE Retry(rows[<<c, p>>], b.leased[c], b.now, b.hint))
    /\ Goto(d, p, Settled(b, c))
    /\ UNCHANGED <<ledger, held, late, trusted, now, fanouts, faults, wanted, wasCut>>

\* The catch block fails every frame, those settled already included.
Fail(d, p, c) ==
    LET b == batches[d][p] IN
    /\ At(d, p, "failing") /\ c \in b.left
    /\ Write(<<c, p>>, Retry(rows[<<c, p>>], b.leased[c], b.now, 0))
    /\ Goto(d, p, Settled(b, c))
    /\ UNCHANGED <<ledger, held, late, trusted, now, fanouts, faults, wanted, wasCut>>

\* A database call throws: into the catch block, or out of the pass.
DbError(d, p) ==
    LET b == batches[d][p] IN
    /\ batches[d][p] # Idle /\ ~At(d, p, "sent")
    /\ faults < MaxFaults /\ faults' = faults + 1
    /\ Goto(d, p, IF b.step = "answered"
                  THEN [b EXCEPT !.step = "failing", !.left = b.frames, !.recorded = {}]
                  ELSE Idle)
    /\ UNCHANGED <<rows, ledger, held, late, trusted, now, fanouts, wanted, wasCut>>

Crash ==
    /\ faults < MaxFaults /\ faults' = faults + 1
    /\ late' = late \cup
          {row \in Row : \E d \in Drainer : At(d, row[2], "sent") /\ row[1] \in batches[d][row[2]].frames}
    /\ batches' = [d \in Drainer |-> [p \in Peer |-> Idle]]
    /\ UNCHANGED <<rows, ledger, held, trusted, now, fanouts, wanted, wasCut>>

-----------------------------------------------------------------------------
(* The environment: the peer's trust, and time.                            *)

CutOff(p) ==
    /\ p \in trusted
    /\ trusted' = trusted \ {p}
    /\ wasCut' = wasCut \cup {p}
    /\ UNCHANGED <<rows, batches, ledger, held, late, now, fanouts, faults, wanted>>

Reinstate(p) ==
    /\ trusted' = trusted \cup {p}
    /\ UNCHANGED <<rows, batches, ledger, held, late, now, fanouts, faults, wanted, wasCut>>

Waiting == {b \in {batches[d][p] : d \in Drainer, p \in Peer} : b # Idle /\ b.step = "sent"}

\* Time passes to the next instant at which anything depends on it.
Instants ==
    {t \in {rows[row].due : row \in {r \in Row : Live(r)}}
           \cup {b.now + DeliverTimeout : b \in Waiting} : t > now}

Wait ==
    /\ \E t \in Instants : (\A u \in Instants : t <= u) /\ now' = t
    /\ UNCHANGED <<rows, batches, ledger, held, late, trusted, fanouts, faults, wanted, wasCut>>

BatchStep(d, p) ==
    \/ CheckPeer(d, p) \/ Send(d, p) \/ Answer(d, p) \/ Timeout(d, p) \/ Unreachable(d, p)
    \/ \E c \in Content :
          \/ Retire(d, p, c) \/ ReadMissing(d, p, c) \/ Record(d, p, c)
          \/ Succeed(d, p, c) \/ Reject(d, p, c) \/ Fail(d, p, c)

Next ==
    \/ \E c \in Content : Fanout(c)
    \/ \E d \in Drainer : Drain(d)
    \/ \E d \in Drainer, p \in Peer : BatchStep(d, p) \/ DbError(d, p)
    \/ \E row \in Row : LateArrival(row)
    \/ \E p \in Peer : CutOff(p) \/ Reinstate(p)
    \/ Crash \/ Wait

Spec == Init /\ [][Next]_vars

\* The timer starts passes for as long as the process runs, a pass runs to
\* its end (withDeadline bounds the one await that could hang), and the
\* clock goes on.
Fairness ==
    /\ \A d \in Drainer : WF_vars(Drain(d))
    /\ \A d \in Drainer, p \in Peer : WF_vars(BatchStep(d, p))
    /\ WF_vars(Wait)

LiveSpec == Spec /\ Fairness

-----------------------------------------------------------------------------
\* docs/09-TASKS.md:111, T2.8: the queue survives a restart "with no loss".
\* A row leaves the queue only when its peer has the envelope, or has been
\* cut off since: through overlapping passes, abandoned deliveries, database
\* errors and crashes.
NothingLost ==
    \A row \in wanted : rows[row] = NoRow => row \in held \/ row[2] \in wasCut

\* federation-outbox.ts:361: an OUT entry of the ledger "means this peer has it".
LedgerIsTrue == ledger \subseteq held

\* A row a pass settles late is not brought back, a dead letter is not
\* revived, and no enqueue resets the attempts of a row that is there
\* (mongo-federation.ts:384-386).
RowsMoveOn ==
    [][\A row \in Row :
          rows'[row] # NoRow =>
             IF rows[row] = NoRow THEN rows'[row].attempts = 0
             ELSE /\ rows'[row].attempts >= rows[row].attempts
                  /\ rows[row].dead => rows'[row].dead]_vars

\* FD-06: every row is delivered, retired or dead-lettered in the end.
EveryRowSettles == \A row \in Row : Live(row) ~> ~Live(row)

\* federation-outbox.ts:321: the peer's hint "beats our backoff schedule when
\* it is longer". What one answer postponed, no other brings forward.
HintHolds ==
    [][\A row \in Row :
          Live(row) /\ rows'[row] # NoRow => rows'[row].due >= rows[row].due]_vars

Delays == [n \in 1 .. MAX_DELIVERY_ATTEMPTS |-> backoffDelayMs(n)]
Waited(attempts) == SumFunctionOnSet(Delays, 1 .. attempts)
Schedule == Waited(MAX_DELIVERY_ATTEMPTS - 1)

GaveUp(row) ==
    rows[row] # NoRow /\ rows[row].dead /\ rows[row].attempts >= MAX_DELIVERY_ATTEMPTS

\* backoff.ts:27: a row that runs out of attempts has waited for the whole
\* schedule. (The clock starts at 0.)
FullSchedule == \A row \in Row : GaveUp(row) => now >= Schedule

\* backoff.ts:24, "a queue that retries forever is a queue that hides a
\* permanent failure": a row is dead-lettered at MAX_DELIVERY_ATTEMPTS. Passes
\* that overlap count one failure several times, by counts they leased before,
\* and may step over the limit. They never step far: a row still in the live
\* queue has had fewer attempts than that, but for one more for every other
\* pass and for every error that fails a batch again.
AttemptsAreBounded ==
    \A row \in Row :
        Live(row) =>
            rows[row].attempts < MAX_DELIVERY_ATTEMPTS + (Cardinality(Drainer) - 1) + faults

\* federation-outbox.ts:361: and a peer that was sent the envelope has its
\* OUT entry once its row is settled.
DeliveredIsRecorded ==
    \A row \in wanted : rows[row] = NoRow /\ row[2] \notin wasCut => row \in ledger
=============================================================================
