----------------------------- MODULE MCStreams ------------------------------
(***************************************************************************)
(* The discovery planes, side by side: one stream between the controller   *)
(* and a proxy, and a relay between the controller and a leaf.  A          *)
(* behaviour is one of one part.                                           *)
(***************************************************************************)
EXTENDS DiscoveryStream, RelayTier

CONSTANTS g1, g2, l1, c1, c2

VARIABLE part

planeVars == <<vars, relayVars, part>>

\* A route that refers to an endpoint set does not compile without it.
Dangling == {c \in Contents : c["route"] # Absent /\ c["ep"] = Absent}

OneLeaf == [l \in {l1} |-> g1]

\* One Gateway in the shared pool, two in the namespace of a namespace relay.
SmallFleet == [t \in Tiers |-> IF t = "shared" THEN {g1} ELSE {g1, g2}]

PlaneInit ==
  /\ part \in {"stream", "relay"}
  /\ Init /\ RelayInit
  /\ part # "relay" => tier = "shared"

OnStream(A) == part = "stream" /\ A /\ UNCHANGED <<relayVars, part>>
OnTier(A) == part = "relay" /\ A /\ UNCHANGED <<vars, part>>

\* A bound: a rebuild has edits of at most one Gateway.
OneAtATime == \A g, h \in ctrl.todo : g = h

PlaneNext == OnStream(Next) \/ OnTier(RelayNext /\ OneAtATime')

\* Weaker than the fairness of both modules: some step of each group is taken.
PlaneFairness ==
  /\ WF_planeVars(\/ OnStream(MidRebuildNotify \/ NotifyRebuilt)
                  \/ OnTier(PublishStep \/ UpStep \/ RelayStep \/ LeafStep(l1)
                             \/ ReportRoster \/ FoldRoster))
  /\ WF_planeVars(OnStream(OpenStream \/ OnRebuild \/ HandleAck \/ HandleNack \/ Client))

PlaneSpec == PlaneInit /\ [][PlaneNext]_planeVars /\ PlaneFairness

\* NamespaceConverges of RelayTier: through a namespace relay every leaf's folded Ack
\* reaches the stamps it is gated on, and is honest.
NamespaceSettles == <>[](part = "relay" /\ tier = "namespace" => AllReached /\ LeafAckHonest)
=============================================================================
