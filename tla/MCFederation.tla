---------------------------- MODULE MCFederation ----------------------------
(***************************************************************************)
(* The state machines by which a node follows its peers, for TLC: the      *)
(* directory and its trust, the tree heads, and the uplinks they are       *)
(* reached over. Each behaviour is one of the three while the others rest. *)
(***************************************************************************)
EXTENDS PeerDirectory, TreeHeads, MCUplinks

CONSTANTS c1, c2, root1, root2, s1, s2, o1, o2

\* Two roots the operator trusts, the peer the calls are about, and a stranger.
MCAdmin == [p \in Peer |-> IF p \in {root1, root2} THEN "TRUSTED" ELSE Unspecified]

\* Both roots and a stranger back s1.
WebVouches ==
    {[asserter |-> a, peer |-> s1, level |-> "TRUSTED"] : a \in {root1, root2, s2}}

\* Calls and workers, observations, and the two roots, are interchangeable.
Symmetry ==
    Permutations({c1, c2}) \cup Permutations({o1, o2}) \cup Permutations({root1, root2})

VARIABLE part   \* the machine that runs

FederationInit ==
    /\ Init /\ HeadsInit /\ UplinksInit
    /\ part \in {"peers", "heads", "uplinks"}
    /\ part # "uplinks" => ~faulty

FederationNext ==
    /\ UNCHANGED part
    /\ \/ part = "peers" /\ Next /\ UNCHANGED <<headVars, uplinkVars>>
       \/ part = "heads" /\ HeadsNext /\ UNCHANGED <<vars, uplinkVars>>
       \/ part = "uplinks" /\ UplinksNext /\ UNCHANGED <<vars, headVars>>

FederationSpec ==
    FederationInit /\ [][FederationNext]_<<vars, headVars, uplinkVars, part>>
=============================================================================
