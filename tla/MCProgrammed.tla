---------------------------- MODULE MCProgrammed ----------------------------
(***************************************************************************)
(* The two halves of what Programmed=True means, side by side: the         *)
(* publication, whose captured sequence proves the content of a view, and  *)
(* the status handler, which relies on it.  A behaviour is one of one part. *)
(***************************************************************************)
EXTENDS Publication, ProgrammedGate, TLC

VARIABLE part

programmedVars == <<vars, gateVars, part>>

\* Streams of one scope compete for its cache slot; streams of different scopes
\* share nothing they write.
SameScope == {[t \in Tasks |-> s] : s \in Scopes}

GatewaySpec(ports, addrs, params) == [ports |-> ports, addrs |-> addrs, params |-> params]

\* Edits from a requested address to an automatic one, or to an unusable one beside
\* it under an unsupported parametersRef.
MCRepinSpecs ==
  { GatewaySpec({80}, {}, "no"), GatewaySpec({80}, {"ip1"}, "no"),
    GatewaySpec({80}, {"ip1", "bad"}, "yes") }

ProgrammedInit ==
  /\ part \in {"publication", "gate"}
  /\ Init /\ GateInit
  /\ part = "publication" => gw.spec = GatewaySpec({80}, {}, "no")
  /\ part = "gate" => /\ gw.spec = GatewaySpec({80}, {"ip1"}, "no")
                      /\ \A t \in Tasks : call[t].scope = "SharedPool"

\* A build fails only for a cell the streams read.
FailureRead ==
  \A t \in Tasks :
    IF call[t].scope = "SharedPool"
    THEN \A g \in Gateways : Blank(cells'[Dedicated][g]) => Blank(cells[Dedicated][g])
    ELSE failed' = failed

\* The mishap of this run is a route that does not compile, there before the Gateway is
\* edited: after the edit and before its rebuild is the same, and later the table has the
\* generation.  MCProgrammedGateMishap.cfg has the other mishaps, within one generation.
GateStepOrEdit == (EditRoutes /\ gw.gen = 1) \/ (GateNext /\ faults' = faults)

ProgrammedNext ==
  \/ part = "publication" /\ Next /\ FailureRead /\ UNCHANGED <<gateVars, part>>
  \/ part = "gate" /\ GateStepOrEdit /\ UNCHANGED <<vars, part>>

ProgrammedSpec == ProgrammedInit /\ [][ProgrammedNext]_programmedVars

Symmetry == Permutations(Tasks)
=============================================================================
