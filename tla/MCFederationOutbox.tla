------------------------ MODULE MCFederationOutbox ------------------------
(***************************************************************************)
(* Instances of FederationOutbox for TLC.                                  *)
(***************************************************************************)
EXTENDS FederationOutbox, TLC

CONSTANTS d1, d2, p1, p2, urgent, bulk, gone

MCPriority == [c \in Content |-> IF c = bulk THEN 1 ELSE 0]
=============================================================================
