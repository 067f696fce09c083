----------------------------- MODULE MCUplinks -----------------------------
(***************************************************************************)
(* A node with two uplinks, the first of which reaches a second, narrower  *)
(* scope, and a peer with an endpoint in each, for TLC.                    *)
(***************************************************************************)
EXTENDS Uplinks, TLC

CONSTANT p1

MCDeclares == 1 :> {1, 2} @@ 2 :> {2}
MCEndpoints == p1 :> {1, 2}
=============================================================================
