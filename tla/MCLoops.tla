----------------------------- MODULE MCLoops --------------------------------
(***************************************************************************)
(* Loops that must come to rest, side by side: the VIP Service of a shared *)
(* Gateway, the relay of a namespace with its leaves, the listeners of a   *)
(* proxy, and a Gateway that moves between the pool and a dedicated proxy. *)
(* A behaviour is one of one part.                                         *)
(***************************************************************************)
EXTENDS VipService, RelayLifecycle, EdgeListeners, DedicatedCutover

CONSTANT p1

VARIABLE part

loopVars == <<vipVars, lifeVars, edgeVars, cutVars, part>>

\* One listener or two, no requested address, one of each kind, and the
\* conformance ladder's [unusable, usable].
MCSpecs ==
  { [ports |-> {80}, addrs |-> a, params |-> "no"] :
      a \in {{}, {"ip1"}, {"ip2"}, {"ip1", "bad"}, {"bad"}, {Host}, {BadType, "ip1"}} }
  \cup
  { [ports |-> {80, 443}, addrs |-> a, params |-> "no"] : a \in {{}, {"ip1"}} }

PlainSpec == [ports |-> {80}, addrs |-> {}, params |-> "no"]

LoopInit ==
  /\ part \in {"vip", "relay", "edge", "dedicated"}
  /\ VipInit /\ LifeInit /\ EdgeInit /\ CutInit
  /\ part # "vip" => gw.spec = PlainSpec
  /\ part # "relay" => threshold = 1
  /\ part # "edge" => \A a \in Addrs : want[a] = "off"
  /\ part # "dedicated" => vipUp = "yes"

OnVip(A) == part = "vip" /\ A /\ UNCHANGED <<lifeVars, edgeVars, cutVars, part>>
OnRelay(A) == part = "relay" /\ A /\ UNCHANGED <<vipVars, edgeVars, cutVars, part>>
OnEdge(A) == part = "edge" /\ A /\ UNCHANGED <<vipVars, lifeVars, cutVars, part>>
OnDedicated(A) == part = "dedicated" /\ A /\ UNCHANGED <<vipVars, lifeVars, edgeVars, part>>

LoopNext ==
  OnVip(VipNext) \/ OnRelay(LifeNext) \/ OnEdge(EdgeNext) \/ OnDedicated(CutNext)

\* A task of the listeners: Cardinality(Addrs) = 1, and each change makes one at most.
OnTask(i) == OnEdge(i \in TaskIds /\ (StopAccepting(i) \/ DrainEnds(i)))
ASSUME FourTasks == (MaxDesired + 1) * Cardinality(Addrs) = 4

\* The operator's handler is enabled while its key is due or it is under way, and its
\* steps are those that move oper.pc, mishaps apart; saying so spares TLC the evaluation
\* of ENABLED HandlerStep.
OperatorRuns ==
  \/ []<>(part = "dedicated" => oper.pc = "idle" /\ (keyDue = "no" \/ gseen.exists = "gone"))
  \/ []<><<oper'.pc # oper.pc>>_loopVars

\* The fairness of the modules: a condition holds for the part that runs.
LoopFairness ==
  /\ WF_loopVars(OnVip(Deliver) \/ OnRelay(PassRead) \/ OnEdge(AcceptorStep))
  /\ OperatorRuns
  /\ WF_loopVars(OnVip(AssignLb) \/ OnRelay(PassCall) \/ OnTask(1) \/ OnDedicated(CutSurroundings))
  /\ WF_loopVars(OnVip(PassStep) \/ OnRelay(PublishSets) \/ OnTask(2))
  /\ WF_loopVars(OnRelay(CooldownElapses) \/ OnTask(3))
  /\ WF_loopVars(OnRelay(RelayMoves) \/ OnTask(4))
  /\ WF_loopVars(OnRelay(FoldLeaves)) /\ WF_loopVars(OnRelay(ProxyMoves(p1)))

LoopSpec == LoopInit /\ [][LoopNext]_loopVars /\ LoopFairness

\* VipConverges of VipService, where the VIP pass is the part that runs: once edits
\* and mishaps stop, the Service has the last spec's ports and address, or none
\* and a published failure.
VipSettles == <>[](part = "vip" => Provisioned(gw.spec))

\* DrainUnlessStray of RelayLifecycle: a relay that is switched off, or whose Gateways
\* are gone, is reclaimed, unless a half-failed apply left it without a record, and its
\* leaves end on the controller.
RelayDrains == <>[](part = "relay" => Drained \/ StrayLeft)

\* SettleUnlessStale of RelayLifecycle: a leaf stays on a stream it has read from,
\* unless the relay goes on replaying a directive the controller does not stand by.
RelaySettles == <>[](part = "relay" => AllServed) \/ <>[]ReplaysStale

\* CutoverSettles of DedicatedCutover: the Gateway ends in the plane its mode names,
\* served at its last generation and Programmed, unless something was left behind.
CutoverRests == <>[](part = "dedicated" => CutSettled \/ LeftBehind)

\* ListenersConverge and ShutdownEnds of EdgeListeners: every port that stays desired
\* is served in the mode asked for, unless its bind failed in the last pass; and a
\* shutdown ends the acceptor and its tasks however long their connections stay.
ListenersSettle == <>[](part = "edge" => AsDesired) /\ ShutdownEnds
=============================================================================
