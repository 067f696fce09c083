------------------------------ MODULE MCEdges ------------------------------
(***************************************************************************)
(* The queues that store and forward, for TLC: the federation outbox with  *)
(* one pass at a time, a tunnelled node, the client's outbox, the file of  *)
(* the audit log, the radio relay and the client's mesh. Each behaviour is *)
(* one of them while the others rest.                                      *)
(***************************************************************************)
EXTENDS ReverseTunnel, ClientOutbox, AuditLog, Relay, Mesh, MCFederationOutbox

CONSTANTS x, y, c1, c2, m1, m2, Edge

MCPlane == {{x}}
\* Two of the three certificates have one key.
MCKeyOf == "x" :> 1 @@ "y" :> 1 @@ "z" :> 2
MCParts == m1 :> 2 @@ m2 :> 1

VARIABLE part   \* the machine that runs

edgesVars == <<vars, tunnelVars, outboxVars, auditVars, relayVars, meshVars, part>>

EdgesInit ==
    /\ Init /\ TunnelInit /\ ClientInit /\ AuditInit /\ RelayInit /\ MeshInit
    /\ part \in Edge
    /\ part # "audit" => whole

EdgesNext ==
    /\ UNCHANGED part
    /\ \/ part = "passes" /\ Next
          /\ UNCHANGED <<tunnelVars, outboxVars, auditVars, relayVars, meshVars>>
       \/ part = "tunnel" /\ TunnelNext
          /\ UNCHANGED <<vars, outboxVars, auditVars, relayVars, meshVars>>
       \/ part = "outbox" /\ ClientNext
          /\ UNCHANGED <<vars, tunnelVars, auditVars, relayVars, meshVars>>
       \/ part = "audit" /\ AuditNext
          /\ UNCHANGED <<vars, tunnelVars, outboxVars, relayVars, meshVars>>
       \/ part = "relay" /\ RelayNext
          /\ UNCHANGED <<vars, tunnelVars, outboxVars, auditVars, meshVars>>
       \/ part = "mesh" /\ MeshNext
          /\ UNCHANGED <<vars, tunnelVars, outboxVars, auditVars, relayVars>>

PassesFair ==
    /\ \A d \in Drainer : WF_vars(part = "passes" /\ Drain(d))
    /\ \A d \in Drainer, p \in Peer : WF_vars(part = "passes" /\ BatchStep(d, p))
    /\ WF_vars(part = "passes" /\ Wait)

\* The daemon's loop comes round each second and its link, however often it
\* fails, carries a frame now and then and says so. Someone takes what is
\* complete. A device serves the frames that reach it.
RelayFair ==
    /\ WF_relayVars(part = "relay" /\ LoopDrains)
    /\ WF_relayVars(part = "relay" /\ Take)
    /\ SF_relayVars(part = "relay" /\ Carry(Loop))
    /\ SF_relayVars(part = "relay" /\ Sent(Loop))

MeshFair ==
    /\ WF_meshVars(part = "mesh" /\ \E frame \in air : Receive(frame))
    /\ WF_meshVars(part = "mesh" /\ \E p \in puts : WritePlane(p))

EdgesSpec == EdgesInit /\ [][EdgesNext]_edgesVars /\ PassesFair /\ RelayFair /\ MeshFair
=============================================================================
