-------------------------------- MODULE Mesh --------------------------------
(***************************************************************************)
(* The client's mesh over a local network: a device that stores an         *)
(* envelope relays it to the peers it did not come from, and one that had  *)
(* it already relays nothing. The store of a plane is one value, read and  *)
(* written back whole, so a put that overlaps another may undo it, and an  *)
(* envelope may be new to a device twice.                                  *)
(*                                                                         *)
(* Frames are verified before they are stored, and those that fail are not *)
(* modelled; the time to live and the hourly quota neither: they are hours *)
(* and thousands of frames, and only refuse.                               *)
(***************************************************************************)
EXTENDS Naturals, FiniteSets

CONSTANTS
    Device,     \* all within reach of each other
    Carried,    \* envelopes of one plane
    MaxHops,    \* MESH_MAX_HOPS
    MaxStarts   \* bound on the syncs

ASSUME MeshTyped ==
    /\ IsFiniteSet(Device) /\ MaxHops \in Nat /\ MaxStarts \in Nat

StoredRow == [content : Carried, hops : 0..MaxHops]
MeshFrame == [to : Device, from : Device, content : Carried, hops : 0..MaxHops]

VARIABLES
    store,      \* each device's rows
    air,        \* frames sent
    puts,       \* frames being stored: on each device, with the rows it has read
    starts

meshVars == <<store, air, puts, starts>>

MeshTypeOK ==
    /\ store \in [Device -> SUBSET StoredRow] /\ air \subseteq MeshFrame /\ starts \in Nat
    /\ puts \subseteq [frame : MeshFrame, rows : SUBSET StoredRow]

MeshInit == store = [d \in Device |-> {}] /\ air = {} /\ puts = {} /\ starts = 0

Contents(rows) == {row.content : row \in rows}
MeshRow(frame) == [content |-> frame.content, hops |-> frame.hops]

Starts == starts < MaxStarts /\ starts' = starts + 1

-----------------------------------------------------------------------------
\* What a device offers: its rows as they were stored, and what its outbox
\* holds that the store does not.
Offerable(d, queued) ==
    [content : queued \ Contents(store[d]), hops : {0}]
        \cup {[content |-> row.content, hops |-> row.hops] : row \in store[d]}

\* syncWithPeer, to a peer that has just appeared; broadcastToLan, to all.
Sync(d, peers, queued) ==
    /\ Starts /\ Offerable(d, queued) # {}
    /\ air' = air \cup {[to |-> peer, from |-> d, content |-> o.content, hops |-> o.hops] :
                        peer \in peers, o \in Offerable(d, queued)}
    /\ UNCHANGED <<store, puts>>

\* Offered by the store; no screen calls it yet.
ClearPlane(d) ==
    /\ store[d] # {}
    /\ store' = [store EXCEPT ![d] = {}]
    /\ UNCHANGED <<air, puts, starts>>

\* onFrame, up to where put has read the store: receive refuses a frame that
\* has come too far.
Receive(frame) ==
    /\ frame \in air
    /\ air' = air \ {frame}
    /\ puts' = IF frame.hops >= MaxHops THEN puts
               ELSE puts \cup {[frame |-> frame, rows |-> store[frame.to]]}
    /\ UNCHANGED <<store, starts>>

FrameLost(frame) ==
    /\ frame \in air
    /\ air' = air \ {frame}
    /\ UNCHANGED <<store, puts, starts>>

SameHops(frame) == frame.hops
OneHopMore(frame) == frame.hops + 1

Relayed(frame) ==
    [to : Device \ {frame.to, frame.from}, from : {frame.to}, content : {frame.content},
     hops : {OneHopMore(frame)}]

\* setItem has resolved: what another put wrote since the read is gone.
WritePlane(p) ==
    /\ p \in puts
    /\ puts' = puts \ {p}
    /\ IF p.frame.content \in Contents(p.rows) THEN UNCHANGED <<store, air>>
       ELSE /\ store' = [store EXCEPT ![p.frame.to] = p.rows \cup {MeshRow(p.frame)}]
            /\ air' = air \cup Relayed(p.frame)
    /\ UNCHANGED starts

MeshNext ==
    \/ \E d \in Device :
          \/ \E queued \in SUBSET Carried :
                \/ Sync(d, Device \ {d}, queued)
                \/ \E peer \in Device \ {d} : Sync(d, {peer}, queued)
          \/ ClearPlane(d)
    \/ \E frame \in air : Receive(frame) \/ FrameLost(frame)
    \/ \E p \in puts : WritePlane(p)

MeshSpec == MeshInit /\ [][MeshNext]_meshVars

-----------------------------------------------------------------------------
\* lan.ts:165: that a device relays nothing it already had "is what terminates
\* the flood, not a counter". Here the devices forget: overlapping puts undo
\* each other and a plane may be cleared again and again. The flood still ends
\* once nobody syncs, and it is the count of hops that ends it.
FloodDies == <>[](air = {} /\ puts = {})
=============================================================================
