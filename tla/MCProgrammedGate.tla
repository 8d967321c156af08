-------------------------- MODULE MCProgrammedGate --------------------------
EXTENDS ProgrammedGate

Spec(ports, addrs, params) == [ports |-> ports, addrs |-> addrs, params |-> params]

\* A second listener is added.
MCListenerSpecs == { Spec({80}, {}, "no"), Spec({80, 443}, {}, "no") }

\* A requested address, for the run with mishaps.
MCPinnedSpec == { Spec({80}, {"ip1"}, "no") }

\* Mishaps within one generation of it; MCProgrammed has the edits.
MishapNext == GateNext /\ gw' = gw

\* Weaker than GateFairness: some step of each group is taken.  The handler is enabled
\* while the key is due or it is under way, and its steps are those that move h.pc, a
\* failover apart; saying so spares TLC the evaluation of ENABLED Handler.
HandlerRuns == []<>(h.pc = "idle" /\ due = "no") \/ []<><<h'.pc # h.pc>>_gateVars
MishapFairness ==
  /\ WF_gateVars(DeliverGateway) /\ WF_gateVars(VipPass) /\ HandlerRuns
  /\ WF_gateVars(\/ DeliverService \/ (RebuildWorld /\ world' # world)
                 \/ \E n \in Nodes : NodeConnect(n) \/ NodeApply(n) \/ NodeReport(n))

MishapSpec == GateInit /\ [][MishapNext]_gateVars /\ MishapFairness
=============================================================================
