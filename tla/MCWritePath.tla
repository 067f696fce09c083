---------------------------- MODULE MCWritePath ----------------------------
(***************************************************************************)
(* The path of a write for TLC: the pipeline that accepts an envelope, and *)
(* the Forum's machines that derive collections from what it accepted.     *)
(* Each behaviour is one of them while the others rest.                    *)
(***************************************************************************)
EXTENDS MCForum, MCIngress

WriteInit ==
    /\ Init /\ ForumInit
    /\ part # "ingress" => /\ content = [r \in Req |-> a]
                           /\ origin = [r \in Req |-> Local]

WriteNext ==
    \/ part = "ingress" /\ Next /\ UNCHANGED <<contentVars, rebuildVars, communityVars, part>>
    \/ ForumNext /\ UNCHANGED vars

WriteSpec ==
    /\ WriteInit
    /\ [][WriteNext]_<<vars, contentVars, rebuildVars, communityVars, part>>
    /\ \A r \in Req : WF_vars(part = "ingress" /\ Step(r))
=============================================================================
