------------------------------ MODULE MCPeers ------------------------------
(***************************************************************************)
(* Instances of PeerDirectory for TLC: two roots the operator trusts, the  *)
(* peer the calls are about, and another stranger.                         *)
(***************************************************************************)
EXTENDS PeerDirectory, TLC

CONSTANTS c1, c2, root1, root2, s1, s2

MCAdmin == [p \in Peer |-> IF p \in {root1, root2} THEN "TRUSTED" ELSE Unspecified]

Voucher(a, p, l) == [asserter |-> a, peer |-> p, level |-> l]

\* Both roots and a stranger back s1.
WebVouches ==
    {Voucher(root1, s1, "TRUSTED"), Voucher(root2, s1, "TRUSTED"),
     Voucher(s2, s1, "TRUSTED")}
NoVouches == {}
=============================================================================
