-------------------------------- MODULE Relay --------------------------------
(***************************************************************************)
(* The Reticulum relay: a sidecar that cuts envelopes into frames, keeps   *)
(* the frames in SQLite until the link took them, and puts them together   *)
(* again on the other side. One sending sidecar and one receiving.         *)
(*                                                                         *)
(* Two things drain the same rows: the loop of the daemon and every Send   *)
(* call. Each works on the rows it read when it began and awaits the link  *)
(* between them. The link gives no receipt: one that reports a failure may *)
(* have carried the frame, and one that reports none may have lost it. The *)
(* reassembler keeps sets, so that frames overtake each other decides      *)
(* nothing; neither does the count of attempts. Both are left out.         *)
(***************************************************************************)
EXTENDS Naturals, FiniteSets, SequencesExt

CONSTANTS
    Msg,        \* envelopes
    Parts,      \* the number of frames of each
    Sender,     \* Send calls in progress
    Loop,       \* the drain loop of the daemon
    Limit,      \* due: rows read at once
    MaxInbound, \* size of the inbound queue
    MaxSends, MaxRestarts \* bounds on the Send calls and the restarts

ASSUME RelayTyped ==
    /\ IsFiniteSet(Msg) /\ Parts \in [Msg -> Nat \ {0}] /\ Loop \notin Sender
    /\ Limit \in Nat \ {0} /\ MaxInbound \in Nat /\ MaxSends \in Nat /\ MaxRestarts \in Nat

Pass == Sender \cup {Loop}
Frame == [id : Nat, msg : Msg, part : Nat]

VARIABLES
    outbound,   \* the table outbound, by id
    lastId,     \* ids given
    drain,      \* what each drain has yet to send, if it runs
    alive,      \* the drain loop runs
    left,       \* ids of the frames the link has taken
    pending,    \* the reassembler: parts held of each envelope
    inbound,    \* completed envelopes nobody has taken
    taken,      \* envelopes Receive has given out
    discarded,  \* completed while the queue was full
    lost,       \* history: envelopes of which a frame was lost on the way or
                \* forgotten by the reassembler
    sends, restarts

relayVars ==
    <<outbound, lastId, drain, alive, left, pending, inbound, taken, discarded, lost, sends,
      restarts>>

RelayTypeOK ==
    /\ outbound \in Seq(Frame) /\ lastId \in Nat /\ alive \in BOOLEAN /\ left \subseteq Nat
    /\ drain \in [Pass -> [at : {"idle", "sending", "carried"}, list : Seq(Frame)]]
    /\ pending \in [Msg -> SUBSET Nat] /\ inbound \in Seq(Msg)
    /\ taken \subseteq Msg /\ discarded \subseteq Msg /\ lost \subseteq Msg
    /\ sends \in Nat /\ restarts \in Nat

Quiet == [at |-> "idle", list |-> <<>>]

RelayInit ==
    /\ outbound = <<>> /\ lastId = 0 /\ drain = [d \in Pass |-> Quiet] /\ alive = TRUE
    /\ left = {} /\ pending = [m \in Msg |-> {}] /\ inbound = <<>>
    /\ taken = {} /\ discarded = {} /\ lost = {} /\ sends = 0 /\ restarts = 0

DueFrames(table) == SubSeq(table, 1, IF Len(table) < Limit THEN Len(table) ELSE Limit)

\* A drain with nothing left has returned.
Draining(list) == [at |-> IF list = <<>> THEN "idle" ELSE "sending", list |-> list]

-----------------------------------------------------------------------------
(* The sending side.                                                       *)

\* send: the rows are read in the step that commits them.
SendEnvelope(s, m) ==
    LET frames == [k \in 1..Parts[m] |-> [id |-> lastId + k, msg |-> m, part |-> k]]
    IN
    /\ drain[s].at = "idle" /\ sends < MaxSends
    /\ outbound' = outbound \o frames /\ lastId' = lastId + Parts[m]
    /\ drain' = [drain EXCEPT ![s] = Draining(DueFrames(outbound'))]
    /\ sends' = sends + 1
    /\ UNCHANGED <<alive, left, pending, inbound, taken, discarded, lost, restarts>>

LoopDrains ==
    /\ alive /\ drain[Loop].at = "idle" /\ outbound # <<>>
    /\ drain' = [drain EXCEPT ![Loop] = Draining(DueFrames(outbound))]
    /\ UNCHANGED <<outbound, lastId, alive, left, pending, inbound, taken, discarded, lost,
                   sends, restarts>>

LatestOnly(m, part) == {part}
Gathered(m, part) == pending[m] \cup {part}

\* The reassembler takes the part, and the envelope is complete or is not.
Accept(m, part) ==
    LET held == Gathered(m, part)
        complete == Cardinality(held) = Parts[m]
        full == Len(inbound) >= MaxInbound
    IN
    /\ pending' = [pending EXCEPT ![m] = IF complete THEN {} ELSE held]
    /\ inbound' = IF complete /\ ~full THEN Append(inbound, m) ELSE inbound
    /\ discarded' = IF complete /\ full THEN discarded \cup {m} ELSE discarded

\* The link takes the frame; what the sender will hear of it is open.
Transmit(d) ==
    /\ drain[d].at = "sending"
    /\ drain' = [drain EXCEPT ![d].at = "carried"]
    /\ left' = left \cup {Head(drain[d].list).id}

\* The frame arrives.
Carry(d) ==
    LET frame == Head(drain[d].list) IN
    /\ Transmit(d)
    /\ Accept(frame.msg, frame.part)
    /\ UNCHANGED <<outbound, lastId, alive, taken, lost, sends, restarts>>

\* The frame does not arrive. Nobody is told: the result of Packet.send is
\* ignored, and a TCP write is over when its bytes have gone to the system.
Lose(d) ==
    /\ Transmit(d)
    /\ lost' = lost \cup {Head(drain[d].list).msg}
    /\ UNCHANGED <<outbound, lastId, alive, pending, inbound, taken, discarded, sends, restarts>>

Without(id) == RemoveFirstMatch(outbound, LAMBDA frame : frame.id = id)

\* send has returned, whatever became of the frame: succeed.
Sent(d) ==
    /\ drain[d].at = "carried"
    /\ outbound' = Without(Head(drain[d].list).id)
    /\ drain' = [drain EXCEPT ![d] = Draining(Tail(@.list))]
    /\ UNCHANGED <<lastId, alive, left, pending, inbound, taken, discarded, lost, sends,
                   restarts>>

GoesOn(d) == Draining(Tail(drain[d].list))
Breaks(d) == Quiet

\* LinkUnavailable: the row stays, and the rows after it wait.
LinkDown(d) ==
    /\ drain[d].at # "idle"
    /\ drain' = [drain EXCEPT ![d] = Breaks(d)]
    /\ UNCHANGED <<outbound, lastId, alive, left, pending, inbound, taken, discarded, lost,
                   sends, restarts>>

\* Any other exception leaves drain_once, and ends the loop if it is the loop's.
Raise(d) ==
    /\ drain[d].at # "idle"
    /\ drain' = [drain EXCEPT ![d] = Quiet]
    /\ alive' = (alive /\ d # Loop)
    /\ UNCHANGED <<outbound, lastId, left, pending, inbound, taken, discarded, lost, sends,
                   restarts>>

SenderRestarts ==
    /\ restarts < MaxRestarts
    /\ drain' = [d \in Pass |-> Quiet] /\ alive' = TRUE /\ restarts' = restarts + 1
    /\ UNCHANGED <<outbound, lastId, left, pending, inbound, taken, discarded, lost, sends>>

-----------------------------------------------------------------------------
(* The receiving side.                                                     *)

Take ==
    /\ inbound # <<>>
    /\ taken' = taken \cup {Head(inbound)} /\ inbound' = Tail(inbound)
    /\ UNCHANGED <<outbound, lastId, drain, alive, left, pending, discarded, lost, sends, restarts>>

\* expire after the timeout, or a restart of the process.
Forget(m) ==
    /\ pending[m] # {}
    /\ pending' = [pending EXCEPT ![m] = {}]
    /\ lost' = lost \cup {m}
    /\ UNCHANGED <<outbound, lastId, drain, alive, left, inbound, taken, discarded, sends, restarts>>

RelayNext ==
    \/ \E s \in Sender, m \in Msg : SendEnvelope(s, m)
    \/ \E d \in Pass : Carry(d) \/ Lose(d) \/ Sent(d) \/ LinkDown(d) \/ Raise(d)
    \/ LoopDrains \/ SenderRestarts \/ Take
    \/ \E m \in Msg : Forget(m)

RelaySpec == RelayInit /\ [][RelayNext]_relayVars

-----------------------------------------------------------------------------
\* services/relay/README.md:50: the queue "resumes in frame order after a link
\* returns". The frames that have left are the first of the queue, through
\* drains that overlap, fail half way and are cut off by a restart: no frame
\* leaves before one that was queued earlier.
ResumesInOrder == \A id \in left : \A earlier \in 1..id : earlier \in left

Owed(m) == \E i \in DOMAIN outbound : outbound[i].msg = m
Arrived(m) == m \in taken \cup discarded

\* An envelope with a frame in the queue reaches the other side, or finds the
\* queue there full: unless the link or the reassembler has lost a frame of
\* that envelope, or the loop has ended on an exception that is not the
\* link's. Frames lost of one envelope cost no other, however the drains
\* overlap, repeat frames and break off.
OwedArrives == \A m \in Msg : Owed(m) ~> Arrived(m) \/ m \in lost \/ ~alive
=============================================================================
