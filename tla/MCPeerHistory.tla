--------------------------- MODULE MCPeerHistory ---------------------------
(***************************************************************************)
(* The instances of MCPeers, with the history variables of PeerHistory.    *)
(***************************************************************************)
EXTENDS MCPeers, PeerHistory
=============================================================================
