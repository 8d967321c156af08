------------------------------- MODULE MCParts ------------------------------
(***************************************************************************)
(* Parts of the controller and of a proxy side by side.  They share no     *)
(* state that is modelled, so a behaviour is one of one part: the sessions *)
(* of the discovery server, the lease loop and the partitioned rebuild of  *)
(* the controller; requests of one route, the UDP sessions of one listener *)
(* and the application of discovery messages of a proxy.                   *)
(***************************************************************************)
EXTENDS NodeSessions, Leadership, MCRebuild, RequestPath, UdpSessions, IncrementalApply, TLC

VARIABLE part

partsVars == <<sessionVars, leaderVars, rebuildVars, reqVars, udpVars, applyVars, part>>

PartsInit ==
  /\ part \in {"sessions", "leadership", "rebuild", "http", "udp", "apply"}
  /\ SessionsInit /\ LeaderInit /\ RebuildInit /\ ReqInit /\ UdpInit /\ ApplyInit

\* Sessions are numbered in the order in which they are accepted.
AcceptedInOrder == \A s, t \in Sessions : s < t /\ spc[t] # "new" => spc[s] # "new"

PartsNext ==
  \/ /\ part = "sessions" /\ SessionsNext /\ AcceptedInOrder'
     /\ UNCHANGED <<leaderVars, rebuildVars, reqVars, udpVars, applyVars, part>>
  \/ /\ part = "leadership" /\ LeaderNext
     /\ UNCHANGED <<sessionVars, rebuildVars, reqVars, udpVars, applyVars, part>>
  \/ /\ part = "rebuild" /\ RebuildNext
     /\ UNCHANGED <<sessionVars, leaderVars, reqVars, udpVars, applyVars, part>>
  \/ /\ part = "http" /\ ReqNext
     /\ UNCHANGED <<sessionVars, leaderVars, rebuildVars, udpVars, applyVars, part>>
  \/ /\ part = "udp" /\ UdpNext
     /\ UNCHANGED <<sessionVars, leaderVars, rebuildVars, reqVars, applyVars, part>>
  \/ /\ part = "apply" /\ ApplyNext
     /\ UNCHANGED <<sessionVars, leaderVars, rebuildVars, reqVars, udpVars, part>>

PartsSpec == PartsInit /\ [][PartsNext]_partsVars

-----------------------------------------------------------------------------
(* Two Gateway partitions and an Ingress one, a TCP and a TLS cell, one endpoint. *)

Carries(body, refs) == [body |-> body, refs |-> refs]

MCTableOf == [p \in Partitions |-> IF p = "i1" THEN "ingress" ELSE "gateway"]
MCCellOf == [k \in CellKeys |-> k]
MCForms ==
  [k \in ResourceKeys |->
     CASE k = "g1" -> {Carries("plain", {"e"}), Carries("plain", {}), Carries("shadowing", {"e"}), Carries("bad", {})}
       [] k = "g2" -> {Carries("shadowing", {}), Carries("plain", {"e"}), Carries("empty", {"e"})}
       [] k = "i1" -> {Carries("plain", {"e"})}
       [] k = "tcp" -> {Carries("plain", {"e"}), Carries("plain", {})}
       [] k = "tls" -> {Carries("plain", {}), Carries("alt", {})}
       [] OTHER -> {Carries("a", {}), Carries("b", {}), Carries("bad", {})}]

=============================================================================
