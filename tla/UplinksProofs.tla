--------------------------- MODULE UplinksProofs ---------------------------
(***************************************************************************)
(* When the node is at rest no stream is on a dead uplink and the bridge's *)
(* islands are the paths of now, for every number of uplinks, scopes,      *)
(* peers and rounds that overlap, if the directory answers. What makes it  *)
(* so: every change of an uplink leaves somebody who has yet to refresh    *)
(* the islands, and somebody who has yet to come to each peer.             *)
(***************************************************************************)
EXTENDS Uplinks, WellFoundedInduction, TLAPS

\* Somebody has yet to refresh the islands.
WillRefresh == \E c \in Worker : work[c].at \in {"quiet", "moved"}

\* Somebody has yet to stop the peer's stream.
WillStop(c, p) ==
    \/ work[c].at \in {"moved", "listing"}
    \/ work[c].at \in {"peers", "connecting"} /\ p \in work[c].todo

Dead(p) == stream[p] \in Uplink /\ state[stream[p]] = "down"

IslandsInv == \A p \in Neighbour : island[p] \in {Nowhere, Select(p)} \/ WillRefresh
StreamsInv == \A p \in Neighbour : Dead(p) => \E c \in Worker : WillStop(c, p)

IInv == UplinksTypeOK /\ (~faulty => IslandsInv /\ StreamsInv)

-----------------------------------------------------------------------------
(* Paths.                                                                  *)

LEMMA MinimalIsLeast ==
    ASSUME NEW Less, NEW S, S \subseteq Nat, \A m, n \in Nat : m < n => <<m, n>> \in Less,
           \E n \in S : \A m \in S : <<m, n>> \notin Less
    PROVE  Least(S) \in S
<1>1. PICK n \in S : \A m \in S : <<m, n>> \notin Less
    OBVIOUS
<1>2. ASSUME NEW m \in S PROVE n <= m
  <2>1. m \in Nat /\ n \in Nat /\ ~(m < n)
      BY <1>1, Zenon
  <2> QED BY <2>1
<1> QED BY <1>2 DEF Least

LEMMA LeastIsIn == ASSUME NEW S, S \subseteq Nat, S # {} PROVE Least(S) \in S
<1> DEFINE Less == OpToRel(<, Nat)
<1>1. IsWellFoundedOn(Less, Nat)
    BY NatLessThanWellFounded
<1>2. \A m, n \in Nat : m < n => <<m, n>> \in Less
    BY DEF OpToRel
<1> HIDE DEF Less
<1>3. \E n \in S : \A m \in S : <<m, n>> \notin Less
    BY <1>1, WFMin
<1> QED BY <1>2, <1>3, MinimalIsLeast

\* selectPath gives an uplink that is not down, or none.
LEMMA SelectCarries ==
    ASSUME UplinksTypeOK, NEW p \in Neighbour
    PROVE  Select(p) = Nowhere \/ (Select(p) \in Uplink /\ state[Select(p)] # "down")
<1>1. CASE Reachable(p) = {}
    BY <1>1 DEF Select
<1>2. CASE Reachable(p) # {}
  <2> DEFINE s == Least(Reachable(p))
             usable == {u \in Uplink : Carries(u, s)}
  <2>1. Reachable(p) \subseteq Nat
      BY UplinksTyped DEF Reachable
  <2>2. s \in Reachable(p)
      BY <1>2, <2>1, LeastIsIn
  <2>3. usable # {} /\ usable \subseteq Nat
      BY <2>2, UplinksTyped DEF Reachable
  <2>4. Least(usable) \in usable
      BY <2>3, LeastIsIn
  <2>5. Select(p) = Least(usable)
      BY <1>2 DEF Select
  <2> QED BY <2>4, <2>5 DEF Carries
<1> QED BY <1>1, <1>2

\* A path depends on the uplinks' states and live scopes alone.
LEMMA SelectSame ==
    ASSUME UNCHANGED <<live, state>>, NEW p \in Neighbour PROVE Select(p)' = Select(p)
BY DEF Select, Reachable, Carries

-----------------------------------------------------------------------------
(* Types.                                                                  *)

LEMMA GoesType ==
    ASSUME UplinksTypeOK, NEW c \in Worker, NEW w \in WorkerState, work' = [work EXCEPT ![c] = w]
    PROVE  /\ work' \in [Worker -> WorkerState] /\ work'[c] = w
           /\ \A d \in Worker \ {c} : work'[d] = work[d]
BY DEF UplinksTypeOK

LEMMA RestType ==
    ASSUME NEW at \in {"idle", "quiet", "moved", "listing"}
    PROVE  /\ [Rest EXCEPT !.at = at] \in WorkerState
           /\ [Rest EXCEPT !.at = at].at = at
BY DEF Rest, WorkerState

LEMMA OnwardType ==
    ASSUME UplinksTypeOK, NEW c \in Worker, Onward(c), work[c].at = "connecting"
    PROVE  /\ work' \in [Worker -> WorkerState]
           /\ \A d \in Worker \ {c} : work'[d] = work[d]
           /\ work[c].todo # {} => work'[c].at = "peers" /\ work'[c].todo = work[c].todo
<1> DEFINE w == IF work[c].todo = {} THEN Rest
                ELSE [work[c] EXCEPT !.at = "peers", !.peer = Nowhere]
<1>1. w \in WorkerState /\ (work[c].todo # {} => w.at = "peers" /\ w.todo = work[c].todo)
    BY DEF UplinksTypeOK, Rest, WorkerState
<1>2. work' = [work EXCEPT ![c] = w]
    BY DEF Onward
<1> HIDE DEF w
<1> QED BY <1>1, <1>2, GoesType

-----------------------------------------------------------------------------
(* One lemma for each shape of step.                                       *)

\* An uplink may have changed: a round, or an operator.
LEMMA ChangeStep ==
    ASSUME IInv, NEW c \in Worker, work[c].at = "idle",
           live' \in [Uplink -> SUBSET Scope],
           failures' \in [Uplink -> [Scope -> 0..Threshold]],
           forced' \in [Uplink -> Forced], state' \in [Uplink -> State],
           Goes(c, "moved") \/ (state' = state /\ Goes(c, "quiet")),
           UNCHANGED <<island, stream, boot, faulty>>
    PROVE  IInv'
<1>1. UplinksTypeOK
    BY DEF IInv
<1>2. PICK at \in {"quiet", "moved"} : Goes(c, at) /\ (at = "quiet" => state' = state)
    OBVIOUS
<1>3. /\ work' \in [Worker -> WorkerState] /\ work'[c].at = at
      /\ \A d \in Worker \ {c} : work'[d] = work[d]
    BY <1>1, <1>2, RestType, GoesType DEF Goes
<1>4. UplinksTypeOK'
    BY <1>1, <1>3 DEF UplinksTypeOK
<1>5. WillRefresh'
    BY <1>3 DEF WillRefresh
<1>6. ASSUME ~faulty, NEW p \in Neighbour, Dead(p)' PROVE \E d \in Worker : WillStop(d, p)'
  <2>1. CASE at = "moved"
      BY <1>3, <2>1 DEF WillStop
  <2>2. CASE at = "quiet"
    <3>1. Dead(p)
        BY <1>2, <1>6, <2>2 DEF Dead
    <3>2. PICK d \in Worker : WillStop(d, p)
        BY <1>6, <3>1 DEF IInv, StreamsInv
    <3>3. d # c
        BY <3>2 DEF WillStop
    <3> QED BY <1>3, <3>2, <3>3 DEF WillStop
  <2> QED BY <2>1, <2>2
<1> QED BY <1>4, <1>5, <1>6 DEF IInv, IslandsInv, StreamsInv

\* The uplinks and the streams stay, and whoever was to stop a stream still is.
LEMMA IslandStep ==
    ASSUME IInv, work' \in [Worker -> WorkerState],
           island' \in [Neighbour -> Uplink \cup {Nowhere}],
           UNCHANGED <<live, failures, forced, state, stream, boot, faulty>>,
           ~faulty => IslandsInv',
           \A c \in Worker, p \in Neighbour : WillStop(c, p) => WillStop(c, p)'
    PROVE  IInv'
<1>1. UplinksTypeOK'
    BY DEF IInv, UplinksTypeOK
<1>2. StreamsInv => StreamsInv'
    BY DEF StreamsInv, Dead
<1> QED BY <1>1, <1>2 DEF IInv

\* The uplinks and the islands stay; a stream is stopped, or is made where the
\* uplink is not down, or stays and whoever was to stop it still is.
LEMMA TaskStep ==
    ASSUME IInv, work' \in [Worker -> WorkerState], stream' \in [Neighbour -> Stream],
           boot' \subseteq Neighbour,
           UNCHANGED <<live, failures, forced, state, island, faulty>>,
           WillRefresh => WillRefresh',
           \A p \in Neighbour : Dead(p)' =>
              Dead(p) /\ \A c \in Worker : WillStop(c, p) => WillStop(c, p)'
    PROVE  IInv'
<1>1. UplinksTypeOK'
    BY DEF IInv, UplinksTypeOK
<1>2. IslandsInv => IslandsInv'
    BY SelectSame DEF IslandsInv
<1>3. StreamsInv => StreamsInv'
    BY DEF StreamsInv
<1> QED BY <1>1, <1>2, <1>3 DEF IInv

-----------------------------------------------------------------------------
(* The actions.                                                            *)

LEMMA ProbedStep ==
    ASSUME IInv, NEW c \in Worker, NEW ok \in Rounds, Probed(c, ok) PROVE IInv'
<1>1. UplinksTypeOK
    BY DEF IInv
<1>2. live' \in [Uplink -> SUBSET Scope]
    BY UplinksTyped DEF Probed, StillLive
<1>3. \A u \in Uplink, s \in Scope : Failed(u, s, ok[u]) \in 0..Threshold
    BY <1>1, UplinksTyped DEF Failed, UplinksTypeOK
<1>4. failures' \in [Uplink -> [Scope -> 0..Threshold]]
    BY <1>3, UplinksTyped DEF Probed
<1>5. \A u \in Uplink : forced[u] \in Forced
    BY <1>1 DEF UplinksTypeOK
<1>6. \A u \in Uplink : Judged(live'[u], u, forced[u]) \in State
    BY <1>5 DEF Judged, Measured, Forced, State
<1>7. state' \in [Uplink -> State]
    BY <1>6 DEF Probed
<1>8. Goes(c, "moved") \/ (state' = state /\ Goes(c, "quiet"))
    BY DEF Probed
<1>9. forced' \in [Uplink -> Forced] /\ work[c].at = "idle"
      /\ UNCHANGED <<island, stream, boot, faulty>>
    BY <1>1 DEF Probed, UplinksTypeOK
<1> QED BY <1>2, <1>4, <1>7, <1>8, <1>9, ChangeStep

LEMMA ForceStep ==
    ASSUME IInv, NEW c \in Worker, NEW u \in Uplink, NEW override \in Forced,
           ForceUplink(c, u, override)
    PROVE  IInv'
<1>1. UplinksTypeOK
    BY DEF IInv
<1>2. Judged(live[u], u, override) \in State
    BY DEF Judged, Measured, Forced, State
<1>3. state' \in [Uplink -> State] /\ forced' \in [Uplink -> Forced]
    BY <1>1, <1>2 DEF ForceUplink, UplinksTypeOK
<1>4. /\ work[c].at = "idle" /\ Goes(c, "moved")
      /\ UNCHANGED <<live, failures, island, stream, boot, faulty>>
    BY DEF ForceUplink
<1> QED BY <1>1, <1>3, <1>4, ChangeStep DEF UplinksTypeOK

LEMMA RefreshStep ==
    ASSUME IInv, NEW c \in Worker, RefreshQuiet(c) \/ RefreshMoved(c) \/ RefreshFails(c)
    PROVE  IInv'
<1>1. UplinksTypeOK
    BY DEF IInv
<1>2. PICK at \in {"quiet", "moved"} :
         \/ Refresh(c, at, Islands)
         \/ faulty /\ Refresh(c, at, island)
    BY DEF RefreshQuiet, RefreshMoved, RefreshFails, QuietIslands
<1>3. PICK to \in {"idle", "listing"} : Goes(c, to) /\ (at = "moved" => to = "listing")
    BY <1>2 DEF Refresh
<1>4. /\ work' \in [Worker -> WorkerState] /\ work'[c].at = to
      /\ \A d \in Worker \ {c} : work'[d] = work[d]
    BY <1>1, <1>3, RestType, GoesType DEF Goes
<1>5. work[c].at = at /\ UNCHANGED <<live, failures, forced, state, stream, boot, faulty>>
    BY <1>2 DEF Refresh
<1>6. Islands \in [Neighbour -> Uplink \cup {Nowhere}]
    BY <1>1, SelectCarries DEF Islands
<1>7. island' = Islands \/ (faulty /\ island' = island)
    BY <1>2 DEF Refresh
<1>8. island' \in [Neighbour -> Uplink \cup {Nowhere}]
    BY <1>1, <1>6, <1>7 DEF UplinksTypeOK
<1>9. ~faulty => IslandsInv'
  <2>1. ASSUME island' = Islands, NEW p \in Neighbour PROVE island'[p] = Select(p)'
      BY <1>5, <2>1, SelectSame DEF Islands
  <2> QED BY <1>7, <2>1 DEF IslandsInv
<1>10. \A d \in Worker, p \in Neighbour : WillStop(d, p) => WillStop(d, p)'
    BY <1>3, <1>4, <1>5 DEF WillStop
<1> QED BY <1>4, <1>5, <1>8, <1>9, <1>10, IslandStep

LEMMA UplinkForPeerStep ==
    ASSUME IInv, NEW p \in Neighbour, UplinkForPeer(p) PROVE IInv'
<1>1. UplinksTypeOK
    BY DEF IInv
<1>2. Select(p) \in Uplink
    BY <1>1, SelectCarries DEF UplinkForPeer
<1>3. /\ island' = [island EXCEPT ![p] = Select(p)]
      /\ UNCHANGED <<live, failures, forced, state, stream, work, boot, faulty>>
    BY DEF UplinkForPeer
<1>4. island' \in [Neighbour -> Uplink \cup {Nowhere}]
    BY <1>1, <1>2, <1>3 DEF UplinksTypeOK
<1>5. \A q \in Neighbour : island'[q] = island[q] \/ (q = p /\ island'[q] = Select(q))
    BY <1>1, <1>3 DEF UplinksTypeOK
<1>6. IslandsInv => IslandsInv'
    BY <1>3, <1>5, SelectSame DEF IslandsInv, WillRefresh
<1>7. \A d \in Worker, q \in Neighbour : WillStop(d, q) => WillStop(d, q)'
    BY <1>3 DEF WillStop
<1> QED BY <1>1, <1>3, <1>4, <1>6, <1>7, IslandStep DEF IInv, UplinksTypeOK

LEMMA ListStep ==
    ASSUME IInv, NEW c \in Worker, ListPeers(c) \/ ListFails(c) PROVE IInv'
<1>1. UplinksTypeOK
    BY DEF IInv
<1> DEFINE w == [Rest EXCEPT !.at = "peers", !.todo = Neighbour]
<1>2. w \in WorkerState /\ w.at = "peers" /\ w.todo = Neighbour
    BY DEF Rest, WorkerState
<1>3. /\ work[c].at = "listing"
      /\ UNCHANGED <<live, failures, forced, state, island, stream, boot, faulty>>
    BY DEF ListPeers, ListFails
<1>4. CASE ListPeers(c)
  <2>1. work' = [work EXCEPT ![c] = w]
      BY <1>4 DEF ListPeers
  <2> HIDE DEF w
  <2>2. /\ work' \in [Worker -> WorkerState] /\ work'[c] = w
        /\ \A d \in Worker \ {c} : work'[d] = work[d]
      BY <1>1, <1>2, <2>1, GoesType
  <2>3. WillRefresh => WillRefresh'
      BY <1>3, <2>2 DEF WillRefresh
  <2>4. \A d \in Worker, p \in Neighbour : WillStop(d, p) => WillStop(d, p)'
      BY <1>2, <1>3, <2>2 DEF WillStop
  <2>5. \A p \in Neighbour : Dead(p)' => Dead(p)
      BY <1>3 DEF Dead
  <2> QED BY <1>1, <1>3, <2>2, <2>3, <2>4, <2>5, TaskStep DEF UplinksTypeOK
<1>5. CASE ListFails(c)
  <2>1. faulty /\ Goes(c, "idle")
      BY <1>5 DEF ListFails
  <2>2. work' \in [Worker -> WorkerState]
      BY <1>1, <2>1, RestType, GoesType DEF Goes
  <2>3. UplinksTypeOK'
      BY <1>1, <1>3, <2>2 DEF UplinksTypeOK
  <2> QED BY <1>3, <2>1, <2>3 DEF IInv
<1> QED BY <1>4, <1>5

LEMMA ReconnectStep ==
    ASSUME IInv, NEW c \in Worker, NEW p \in Neighbour, Reconnect(c, p) PROVE IInv'
<1>1. UplinksTypeOK
    BY DEF IInv
<1> DEFINE w == [at |-> "connecting", peer |-> p, todo |-> work[c].todo \ {p}]
<1>2. /\ work[c].at = "peers" /\ work' = [work EXCEPT ![c] = w]
      /\ stream' = [stream EXCEPT ![p] = Nowhere]
      /\ UNCHANGED <<live, failures, forced, state, island, boot, faulty>>
    BY DEF Reconnect, StopStream
<1>3. w \in WorkerState /\ w.at = "connecting" /\ w.todo = work[c].todo \ {p}
    BY <1>1 DEF UplinksTypeOK, WorkerState
<1> HIDE DEF w
<1>4. /\ work' \in [Worker -> WorkerState] /\ work'[c] = w
      /\ \A d \in Worker \ {c} : work'[d] = work[d]
    BY <1>1, <1>2, <1>3, GoesType
<1>5. WillRefresh => WillRefresh'
    BY <1>2, <1>4 DEF WillRefresh
<1>6. stream' \in [Neighbour -> Stream] /\ stream'[p] = Nowhere
      /\ \A q \in Neighbour \ {p} : stream'[q] = stream[q]
    BY <1>1, <1>2 DEF UplinksTypeOK, Stream
<1>7. \A q \in Neighbour : Dead(q)' => q # p /\ Dead(q)
    BY <1>2, <1>6, UplinksTyped DEF Dead
<1>8. \A d \in Worker, q \in Neighbour \ {p} : WillStop(d, q) => WillStop(d, q)'
    BY <1>2, <1>3, <1>4 DEF WillStop
<1> QED BY <1>1, <1>2, <1>4, <1>5, <1>6, <1>7, <1>8, TaskStep DEF UplinksTypeOK

LEMMA ConnectAtStartStep ==
    ASSUME IInv, NEW c \in Worker, NEW p \in Neighbour, ConnectAtStart(c, p) PROVE IInv'
<1>1. UplinksTypeOK
    BY DEF IInv
<1> DEFINE w == [at |-> "connecting", peer |-> p, todo |-> {}]
<1>2. /\ work[c].at = "idle" /\ work' = [work EXCEPT ![c] = w] /\ boot' = boot \ {p}
      /\ UNCHANGED <<live, failures, forced, state, island, stream, faulty>>
    BY DEF ConnectAtStart
<1>3. w \in WorkerState
    BY DEF WorkerState
<1> HIDE DEF w
<1>4. /\ work' \in [Worker -> WorkerState]
      /\ \A d \in Worker \ {c} : work'[d] = work[d]
    BY <1>1, <1>2, <1>3, GoesType
<1>5. WillRefresh => WillRefresh'
    BY <1>2, <1>4 DEF WillRefresh
<1>6. \A d \in Worker, q \in Neighbour : WillStop(d, q) => WillStop(d, q)'
    BY <1>2, <1>4 DEF WillStop
<1>7. \A q \in Neighbour : Dead(q)' => Dead(q)
    BY <1>2 DEF Dead
<1> QED BY <1>1, <1>2, <1>4, <1>5, <1>6, <1>7, TaskStep DEF UplinksTypeOK

LEMMA ConnectStep ==
    ASSUME IInv, NEW c \in Worker, Connected(c) \/ ConnectFails(c) PROVE IInv'
<1>1. UplinksTypeOK
    BY DEF IInv
<1>2. /\ work[c].at = "connecting" /\ Onward(c)
      /\ stream' = stream \/ stream' = [stream EXCEPT ![work[c].peer] = Opening]
      /\ UNCHANGED <<live, failures, forced, state, island, boot, faulty>>
    BY DEF Connected, ConnectFails
<1>3. WillRefresh => WillRefresh'
    BY <1>1, <1>2, OnwardType DEF WillRefresh
<1>4. \A d \in Worker, q \in Neighbour : WillStop(d, q) => WillStop(d, q)'
    BY <1>1, <1>2, OnwardType DEF WillStop
<1>5. stream' \in [Neighbour -> Stream]
    BY <1>1, <1>2 DEF UplinksTypeOK, Stream
<1>6. \A q \in Neighbour : stream'[q] = stream[q] \/ stream'[q] = Opening
    BY <1>1, <1>2 DEF UplinksTypeOK
<1>7. \A q \in Neighbour : Dead(q)' => Dead(q)
    BY <1>2, <1>6, UplinksTyped DEF Dead
<1> QED BY <1>1, <1>2, <1>3, <1>4, <1>5, <1>7, OnwardType, TaskStep DEF UplinksTypeOK

LEMMA StreamStep ==
    ASSUME IInv, NEW p \in Neighbour, DialStream(p) \/ StreamEnds(p) PROVE IInv'
<1>1. UplinksTypeOK
    BY DEF IInv
<1>2. UNCHANGED <<live, failures, forced, state, island, work, boot, faulty>>
    BY DEF DialStream, StreamEnds
<1>3. PICK to \in Stream : /\ stream' = [stream EXCEPT ![p] = to]
                           /\ to \in Uplink => state[to] # "down"
    BY <1>1, SelectCarries, UplinksTyped DEF DialStream, StreamEnds, Dialled, Stream
<1>4. stream' \in [Neighbour -> Stream] /\ stream'[p] = to
      /\ \A q \in Neighbour \ {p} : stream'[q] = stream[q]
    BY <1>1, <1>3 DEF UplinksTypeOK
<1>5. \A q \in Neighbour : Dead(q)' => Dead(q)
    BY <1>2, <1>3, <1>4 DEF Dead
<1>6. /\ WillRefresh => WillRefresh'
      /\ \A d \in Worker, q \in Neighbour : WillStop(d, q) => WillStop(d, q)'
    BY <1>2 DEF WillRefresh, WillStop
<1> QED BY <1>1, <1>2, <1>4, <1>5, <1>6, TaskStep DEF UplinksTypeOK

-----------------------------------------------------------------------------
LEMMA StepInv == IInv /\ [UplinksNext]_uplinkVars => IInv'
<1> SUFFICES ASSUME IInv, [UplinksNext]_uplinkVars PROVE IInv'
    OBVIOUS
<1>1. CASE UplinksNext
    BY <1>1, ProbedStep, ForceStep, RefreshStep, UplinkForPeerStep, ListStep, ReconnectStep,
       ConnectAtStartStep, ConnectStep, StreamStep DEF UplinksNext
<1>2. CASE UNCHANGED uplinkVars
  <2>1. \A p \in Neighbour : Select(p)' = Select(p)
      BY <1>2, SelectSame DEF uplinkVars
  <2> QED BY <1>2, <2>1 DEF uplinkVars, IInv, UplinksTypeOK, IslandsInv, StreamsInv, WillRefresh,
                            WillStop, Dead
<1> QED BY <1>1, <1>2

LEMMA InitInv == UplinksInit => IInv
<1> SUFFICES ASSUME UplinksInit PROVE IInv
    OBVIOUS
<1>1. UplinksTypeOK
    BY UplinksTyped DEF UplinksInit, UplinksTypeOK, Rest, WorkerState, Stream, State, Forced
<1>2. IslandsInv
    BY DEF UplinksInit, IslandsInv
<1>3. StreamsInv
    BY UplinksTyped DEF UplinksInit, StreamsInv, Dead
<1> QED BY <1>1, <1>2, <1>3 DEF IInv

LEMMA Inductive == UplinksSpec => []IInv
BY InitInv, StepInv, PTL DEF UplinksSpec

\* Uplinks, islands, streams and tasks are well formed, whatever overlaps.
THEOREM UplinksTypeCorrect == UplinksSpec => []UplinksTypeOK
<1>1. IInv => UplinksTypeOK
    BY DEF IInv
<1> QED BY Inductive, <1>1, PTL

\* BR-07, transport-supervisor.ts:5: no round, override or failed connection
\* leaves a stream on an uplink that is down.
THEOREM DeadStreamsCorrect == UplinksSpec => []NoStreamOnDeadUplink
<1>1. ASSUME IInv, AtRest, ~faulty, NEW p \in Neighbour, stream[p] \in Uplink
      PROVE  state[stream[p]] # "down"
    BY <1>1 DEF IInv, StreamsInv, Dead, WillStop, AtRest
<1>2. IInv => NoStreamOnDeadUplink
    BY <1>1 DEF NoStreamOnDeadUplink
<1> QED BY Inductive, <1>2, PTL

\* At rest the islands the bridge charges are the paths there are.
THEOREM IslandsCorrect == UplinksSpec => []IslandsAreCurrent
<1>1. IInv => IslandsAreCurrent
    BY DEF IInv, IslandsInv, WillRefresh, AtRest, IslandsAreCurrent
<1> QED BY Inductive, <1>1, PTL
=============================================================================
