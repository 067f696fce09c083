----------------------------- MODULE MCDelivery -----------------------------
(***************************************************************************)
(* The two ways an envelope takes between nodes, for TLC: passes of the    *)
(* federation outbox that push it, and connections that fetch it. Each     *)
(* behaviour is one of the two while the other rests.                      *)
(***************************************************************************)
EXTENDS MCFederationOutbox, CatchUp

CONSTANTS c1, c2

\* Two passes, and two connections, are interchangeable.
Symmetry == Permutations({d1, d2}) \cup Permutations({c1, c2})

VARIABLE part   \* the machine that runs

DeliveryInit == Init /\ SyncInit /\ part \in {"passes", "sync"}

DeliveryNext ==
    /\ UNCHANGED part
    /\ \/ part = "passes" /\ Next /\ UNCHANGED syncVars
       \/ part = "sync" /\ SyncNext /\ UNCHANGED vars

DeliverySpec == DeliveryInit /\ [][DeliveryNext]_<<vars, syncVars, part>>
=============================================================================
