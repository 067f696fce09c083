-------------------------------- MODULE Uplinks --------------------------------
(***************************************************************************)
(* A node with several uplinks: rounds of probes that fold into each       *)
(* uplink's health, an operator who overrides them, and the supervisor     *)
(* that, after a change, tells the bridge which island each peer is on and *)
(* brings every peer's stream down and up again. A round is started by a   *)
(* timer whether or not the last one has ended, so rounds, overrides and   *)
(* the connections made at the start overlap at every await.               *)
(*                                                                         *)
(* A peer has one endpoint in each scope it can be reached in. Endpoints   *)
(* that are backing off, equal systems and round trips are left out of the *)
(* ranking; the bridge's trusted uplinks and its quotas too.               *)
(***************************************************************************)
EXTENDS Naturals, FiniteSets

CONSTANTS
    Uplink,     \* by priority: the lowest first
    Scope,      \* by rank: the narrowest is the lowest
    Declares,   \* declaredScopes of each uplink
    Neighbour,
    Endpoints,  \* scopes in which each peer can be reached
    Worker,     \* rounds, overrides and connections in progress
    Threshold,  \* failureThreshold
    Nowhere,    \* no path, or no stream
    Opening,    \* a stream that has yet to dial
    Routed      \* a stream on whatever uplink the operating system chose

ASSUME UplinksTyped ==
    /\ Uplink \subseteq Nat /\ Scope \subseteq Nat /\ IsFiniteSet(Uplink)
    /\ Declares \in [Uplink -> SUBSET Scope] /\ Endpoints \in [Neighbour -> SUBSET Scope]
    /\ Threshold \in Nat \ {0} /\ Uplink \cap {Nowhere, Opening, Routed} = {}

State == {"up", "degraded", "down"}
Forced == {"auto", "up", "down"}
Stream == Uplink \cup {Nowhere, Opening, Routed}

\* quiet, moved: about to refresh the bridge. todo: the peers a task has yet to
\* come to, while it connects one, or none.
WorkerState == [at : {"idle", "quiet", "moved", "listing", "peers", "connecting"},
              peer : Neighbour \cup {Nowhere}, todo : SUBSET Neighbour]

VARIABLES
    live,       \* scopes of each uplink that are live
    failures,   \* consecutive failures of each, as far as the threshold
    forced,     \* forcedState
    state,      \* state
    island,     \* uplinkByPeer
    stream,     \* the uplink each peer's stream is on
    work,
    boot,       \* configured peers the start has yet to connect
    faulty      \* premise: the directory may fail to answer

uplinkVars == <<live, failures, forced, state, island, stream, work, boot, faulty>>

UplinksTypeOK ==
    /\ live \in [Uplink -> SUBSET Scope] /\ failures \in [Uplink -> [Scope -> 0..Threshold]]
    /\ forced \in [Uplink -> Forced] /\ state \in [Uplink -> State]
    /\ island \in [Neighbour -> Uplink \cup {Nowhere}] /\ stream \in [Neighbour -> Stream]
    /\ work \in [Worker -> WorkerState] /\ boot \subseteq Neighbour /\ faulty \in BOOLEAN

Rest == [at |-> "idle", peer |-> Nowhere, todo |-> {}]

\* Born up. No peer has a stream yet, and the bridge knows no island.
UplinksInit ==
    /\ live = Declares /\ failures = [u \in Uplink |-> [s \in Scope |-> 0]]
    /\ forced = [u \in Uplink |-> "auto"] /\ state = [u \in Uplink |-> "up"]
    /\ island = [p \in Neighbour |-> Nowhere] /\ stream = [p \in Neighbour |-> Nowhere]
    /\ work = [c \in Worker |-> Rest] /\ boot = Neighbour /\ faulty \in BOOLEAN

-----------------------------------------------------------------------------
(* Paths.                                                                  *)

Least(S) == CHOOSE n \in S : \A m \in S : n <= m

\* isSelectable and liveScopes.
Carries(u, s) == state[u] # "down" /\ s \in live[u]

Reachable(p) == {s \in Endpoints[p] : \E u \in Uplink : Carries(u, s)}

\* selectPath: the narrowest scope that is live, over the first uplink there.
Select(p) ==
    IF Reachable(p) = {} THEN Nowhere
    ELSE Least({u \in Uplink : Carries(u, Least(Reachable(p)))})

\* dial: without a path the operating system chooses one.
Dialled(p) == IF Select(p) = Nowhere THEN Routed ELSE Select(p)

-----------------------------------------------------------------------------
(* Health.                                                                 *)

\* deriveState
Measured(scopes, u) ==
    IF scopes = {} THEN "down" ELSE IF scopes = Declares[u] THEN "up" ELSE "degraded"

Judged(scopes, u, override) == IF override = "auto" THEN Measured(scopes, u) ELSE override

Failed(u, s, ok) == IF s \in ok THEN 0
                    ELSE IF failures[u][s] < Threshold THEN failures[u][s] + 1 ELSE Threshold

\* applyProbeRound: dead after so many failures, alive at the first success.
StillLive(u, ok) ==
    {s \in Declares[u] : s \in ok \/ (s \in live[u] /\ Failed(u, s, ok) < Threshold)}

Goes(c, at) == work' = [work EXCEPT ![c] = [Rest EXCEPT !.at = at]]

\* The scopes in which each uplink answers a round of probes.
Rounds == {ok \in [Uplink -> SUBSET Scope] : \A u \in Uplink : ok[u] \subseteq Declares[u]}

\* probeAll has its results and folds them in, and tick looks at what moved.
Probed(c, ok) ==
    /\ work[c].at = "idle"
    /\ live' = [u \in Uplink |-> StillLive(u, ok[u])]
    /\ failures' = [u \in Uplink |->
                       [s \in Scope |-> IF s \in Declares[u] THEN Failed(u, s, ok[u]) ELSE 0]]
    /\ state' = [u \in Uplink |-> Judged(live'[u], u, forced[u])]
    /\ Goes(c, IF state' = state THEN "quiet" ELSE "moved")
    /\ UNCHANGED <<forced, island, stream, boot, faulty>>

\* forceUplink
ForceUplink(c, u, override) ==
    /\ work[c].at = "idle"
    /\ forced' = [forced EXCEPT ![u] = override]
    /\ state' = [state EXCEPT ![u] = Judged(live[u], u, override)]
    /\ Goes(c, "moved")
    /\ UNCHANGED <<live, failures, island, stream, boot, faulty>>

-----------------------------------------------------------------------------
(* The supervisor.                                                         *)

Islands == [p \in Neighbour |-> Select(p)]

\* The directory has answered, or has failed and that is swallowed. select
\* awaits nothing outside the process: refresh is one step from there on.
Refresh(c, at, islands) ==
    /\ work[c].at = at
    /\ island' = islands
    /\ Goes(c, IF at = "quiet" THEN "idle" ELSE "listing")
    /\ UNCHANGED <<live, failures, forced, state, stream, boot, faulty>>

LastIslands == island
QuietIslands == Islands

RefreshQuiet(c) == Refresh(c, "quiet", QuietIslands)
RefreshMoved(c) == Refresh(c, "moved", Islands)
RefreshFails(c) == faulty /\ \E at \in {"quiet", "moved"} : Refresh(c, at, island)

\* A peer the bridge has no island for is looked up when an envelope needs it.
UplinkForPeer(p) ==
    /\ island[p] = Nowhere /\ Select(p) # Nowhere
    /\ island' = [island EXCEPT ![p] = Select(p)]
    /\ UNCHANGED <<live, failures, forced, state, stream, work, boot, faulty>>

\* reevaluate has the list of the peers; where the directory fails, it throws.
ListPeers(c) ==
    /\ work[c].at = "listing"
    /\ work' = [work EXCEPT ![c] = [Rest EXCEPT !.at = "peers", !.todo = Neighbour]]
    /\ UNCHANGED <<live, failures, forced, state, island, stream, boot, faulty>>

ListFails(c) ==
    /\ faulty /\ work[c].at = "listing"
    /\ Goes(c, "idle")
    /\ UNCHANGED <<live, failures, forced, state, island, stream, boot, faulty>>

LeftToConnect(p) == stream
StopStream(p) == [stream EXCEPT ![p] = Nowhere]

\* The peer's stream is stopped in the step that begins to connect it.
Reconnect(c, p) ==
    /\ work[c].at = "peers" /\ p \in work[c].todo
    /\ stream' = StopStream(p)
    /\ work' = [work EXCEPT ![c] =
                   [at |-> "connecting", peer |-> p, todo |-> work[c].todo \ {p}]]
    /\ UNCHANGED <<live, failures, forced, state, island, boot, faulty>>

\* federation.runtime connects each configured peer as the node starts.
ConnectAtStart(c, p) ==
    /\ work[c].at = "idle" /\ p \in boot
    /\ boot' = boot \ {p}
    /\ work' = [work EXCEPT ![c] = [at |-> "connecting", peer |-> p, todo |-> {}]]
    /\ UNCHANGED <<live, failures, forced, state, island, stream, faulty>>

Onward(c) ==
    work' = [work EXCEPT ![c] = IF @.todo = {} THEN Rest
                                ELSE [@ EXCEPT !.at = "peers", !.peer = Nowhere]]

\* connect has shaken hands and caught up, and startStream takes over.
Connected(c) ==
    /\ work[c].at = "connecting"
    /\ stream' = [stream EXCEPT ![work[c].peer] = Opening]
    /\ Onward(c)
    /\ UNCHANGED <<live, failures, forced, state, island, boot, faulty>>

ConnectFails(c) ==
    /\ work[c].at = "connecting"
    /\ Onward(c)
    /\ UNCHANGED <<live, failures, forced, state, island, stream, boot, faulty>>

\* pump has read its position and dials.
DialStream(p) ==
    /\ stream[p] = Opening
    /\ stream' = [stream EXCEPT ![p] = Dialled(p)]
    /\ UNCHANGED <<live, failures, forced, state, island, work, boot, faulty>>

\* The peer closes the stream, or the link fails and the socket says so.
StreamEnds(p) ==
    /\ stream[p] # Nowhere
    /\ stream' = [stream EXCEPT ![p] = Nowhere]
    /\ UNCHANGED <<live, failures, forced, state, island, work, boot, faulty>>

UplinksNext ==
    \/ \E c \in Worker :
          \/ \E ok \in Rounds : Probed(c, ok)
          \/ \E u \in Uplink, override \in Forced : ForceUplink(c, u, override)
          \/ RefreshQuiet(c) \/ RefreshMoved(c) \/ RefreshFails(c)
          \/ ListPeers(c) \/ ListFails(c) \/ Connected(c) \/ ConnectFails(c)
          \/ \E p \in Neighbour : Reconnect(c, p) \/ ConnectAtStart(c, p)
    \/ \E p \in Neighbour : UplinkForPeer(p) \/ DialStream(p) \/ StreamEnds(p)

\* What ends a wait of a task's.
Resumes(c) ==
    \/ RefreshQuiet(c) \/ RefreshMoved(c) \/ ListPeers(c) \/ Connected(c) \/ ConnectFails(c)
    \/ \E p \in Neighbour : Reconnect(c, p)

\* The timer starts round after round, and every task is answered or times out.
UplinksSpec ==
    /\ UplinksInit /\ [][UplinksNext]_uplinkVars
    /\ WF_uplinkVars(\E c \in Worker, ok \in Rounds : Probed(c, ok))
    /\ \A c \in Worker : WF_uplinkVars(Resumes(c))

-----------------------------------------------------------------------------
AtRest == \A c \in Worker : work[c].at = "idle"

\* transport-supervisor.ts:5 (BR-07): "Existing streams on a failed uplink are
\* torn down". When no round, override or connection is in progress, no stream
\* is on an uplink that is down, through rounds and overrides that overlap and
\* connections that fail, if the directory answers.
NoStreamOnDeadUplink ==
    AtRest /\ ~faulty => \A p \in Neighbour : stream[p] \in Uplink => state[stream[p]] # "down"

\* The bridge charges a crossing to the islands the peers are on: at rest, a
\* peer it has an island for is reached over that uplink.
IslandsAreCurrent ==
    AtRest /\ ~faulty => \A p \in Neighbour : island[p] \in {Nowhere, Select(p)}

\* transport-supervisor.ts:147-149 says of a peer that could not be connected
\* that "the next tick tries again".
NextTickTriesAgain ==
    \A p \in Neighbour :
        p \notin boot /\ stream[p] = Nowhere
            ~> stream[p] # Nowhere \/ \E c \in Worker : work[c].peer = p
=============================================================================
