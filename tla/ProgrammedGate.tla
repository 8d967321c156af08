--------------------------- MODULE ProgrammedGate ---------------------------
(***************************************************************************)
(* When a shared-mode Gateway is reported Programmed:                      *)
(* reconcile_gateway_inner of coxswain-controller/src/controller/mod.rs,   *)
(* with the status it builds (controller/gateway_status.rs), the           *)
(* validation of requested addresses (status_common/addresses.rs) and the  *)
(* patch that is pinned to the resourceVersion the handler read.           *)
(*                                                                         *)
(* The handler reads six things one after the other, each owned by another *)
(* task: the Gateway from the watch store, the VIP Service from the API,   *)
(* the VIP reconciler's verdict with the listener health, the bound ports  *)
(* of the proxies, the publish stamp, and their acknowledgements.          *)
(*                                                                         *)
(* VipService is the VIP reconciler.  Publication and DiscoveryStream are  *)
(* abstracted to what they guarantee: an acknowledged sequence proves that *)
(* the proxy applied what the stamped rebuild stored, which is the table   *)
(* of an earlier rebuild when a route did not compile.  A sequence is the  *)
(* number of the stamp it belongs to, which is all the gate compares.      *)
(*                                                                         *)
(* Abstracted: one listener per port, broken when the client CA it refers  *)
(* to does not resolve (unserviceable and not accepted); the replica       *)
(* leads (Leadership, StatusWorker) and owns the Gateway's class; the      *)
(* Gateway is not deleted.                                                 *)
(***************************************************************************)
EXTENDS VipService

CONSTANT Nodes   \* the proxies of the shared pool

VARIABLES
  status,   \* the Gateway's status in the API
  seen,     \* the status in the watch store, next to store
  synced,   \* "yes" when the watch store has the latest resourceVersion
  broken,   \* ports whose listener cannot be served now
  routes,   \* "bad" while a route of the pool, of any Gateway or Ingress, does not compile
  svcs,     \* ports of the VIP Service in the reflector's Service store
  world,    \* what the last rebuild stamped and stored: [stamp, gen, health], the
            \* generation in the routing table (content, 0: none), and whether the
            \* build failed and the table is an earlier one (kept)
  app,      \* per proxy, what it applied and listens on: [gen, kept, ports, open]
  row,      \* per proxy, its row in the node registry, or None
  due,      \* "yes" when the status queue holds the Gateway
  h         \* the handler that is running

gateVars == <<vipVars, status, seen, synced, broken, routes, svcs, world, app, row, due, h>>

NoHealth == [cover |-> {}, bad |-> {}, mapped |-> {}]
NoStatus == [acc |-> "none", agen |-> 0, prog |-> "none", pgen |-> 0,
             addrs |-> {}, lbad |-> {}]
NoCells == [stamp |-> 0, gen |-> 0, health |-> NoHealth, content |-> 0, kept |-> "no"]
NoApp == [gen |-> 0, kept |-> "no", ports |-> {}, open |-> {}]
Idle == [pc |-> "idle", fresh |-> "no", pool |-> {}, read |-> None, await |-> {},
         bound |-> "no", stamp |-> 0, good |-> None, held |-> None]

YesNo(p) == IF p THEN "yes" ELSE "no"
PortsOf(svc) == IF svc = None THEN {} ELSE svc.ports

\* subsystem_ready: the first rebuild whose routing tables both compiled is past.
Ready == world.content > 0
Connected == {n \in Nodes : row[n] # None}

-----------------------------------------------------------------------------
\* Types.

Verdicts == {"none", "True", "Pending", "Invalid", "AddressNotUsable"}
Statuses == [acc : {"none", "Accepted", "SomeValid", "NoneValid",
                    "InvalidParameters", "UnsupportedAddress"},
             agen : 0..MaxGen, prog : Verdicts, pgen : 0..MaxGen,
             addrs : SUBSET (Ips \cup {"lb"}), lbad : SUBSET Ports]
Healths == [cover : SUBSET Ports, bad : SUBSET Ports, mapped : SUBSET Ports]

\* A row of the node registry; the ports are unknown until the first report.
Rows == [acked : Nat, bound : (SUBSET Ports) \cup {None}]

ASSUME NoneAssumption == None \notin Rows

GateTypeOK ==
  /\ VipTypeOK
  /\ status \in Statuses /\ seen \in Statuses
  /\ synced \in {"yes", "no"} /\ due \in {"yes", "no"}
  /\ broken \in SUBSET Ports /\ svcs \in SUBSET Ports /\ routes \in {"ok", "bad"}
  /\ world.health \in Healths /\ world.stamp \in Nat
  /\ world.kept = "no" => world.content = world.gen
  /\ \A n \in Nodes : row[n] # None => row[n].acked \in 0..world.stamp
  /\ h.pool \subseteq Nodes

GateInit ==
  /\ VipInit
  /\ status = NoStatus /\ seen = NoStatus /\ synced = "yes"
  /\ broken = {} /\ svcs = {} /\ routes = "ok"
  /\ world = NoCells
  /\ app = [n \in Nodes |-> NoApp]
  /\ row = [n \in Nodes |-> None]
  /\ due = "yes" /\ h = Idle

-----------------------------------------------------------------------------
\* The API object and the watches.  Every write of the object makes the copies
\* the store and a running handler hold stale.

EditGateway ==
  /\ Edit /\ synced' = "no" /\ h' = [h EXCEPT !.fresh = "no"]
  /\ UNCHANGED <<status, seen, broken, routes, svcs, world, app, row, due>>

DeliverGateway ==
  /\ synced = "no" /\ synced' = "yes"
  /\ store' = gw /\ seen' = status
  /\ UNCHANGED <<gw, vip, pass, failures, faults>>
  /\ UNCHANGED <<status, broken, routes, svcs, world, app, row, due, h>>

DeliverService ==
  /\ svcs # PortsOf(vip) /\ svcs' = PortsOf(vip)
  /\ UNCHANGED <<vipVars, status, seen, synced, broken, routes, world, app, row, due, h>>

\* A Secret or ConfigMap a listener refers to goes away or comes back.
Break ==
  /\ \E p \in Ports : broken' = IF p \in broken THEN broken \ {p} ELSE broken \cup {p}
  /\ Fault
  /\ UNCHANGED <<gw, store, vip, pass, failures>>
  /\ UNCHANGED <<status, seen, synced, routes, svcs, world, app, row, due, h>>

\* A route with a path or a regular expression that does not compile is written, or the
\* last such route is mended or removed.
EditRoutes ==
  /\ routes' = (IF routes = "ok" THEN "bad" ELSE "ok") /\ Fault
  /\ UNCHANGED <<gw, store, vip, pass, failures>>
  /\ UNCHANGED <<status, seen, synced, broken, svcs, world, app, row, due, h>>

GateRest == UNCHANGED <<status, seen, synced, broken, routes, svcs, world, app, row, due, h>>

VipAssign == AssignLb /\ GateRest
VipLost == LoseService /\ GateRest
VipPass == PassStep /\ GateRest

-----------------------------------------------------------------------------
\* The rebuild.  It may run at any time, for an event of any watched object,
\* and ends by enqueueing the Gateway.  The stamp moves only when the generation
\* or the fingerprint of the health does; that its parts are stored in the
\* right order is the subject of Publication.  A table that does not compile is not
\* stored: the last one stays, and the rebuild stamps and notifies all the same.

RebuildWorld ==
  LET ports == store.spec.ports
      health == [cover |-> ports, bad |-> broken \cap ports, mapped |-> svcs \cap ports]
      moved == world.stamp = 0 \/ world.gen # store.gen \/ world.health # health
  IN
  /\ world' = [stamp |-> IF moved THEN world.stamp + 1 ELSE world.stamp,
               gen |-> store.gen, health |-> health,
               content |-> IF routes = "ok" THEN store.gen ELSE world.content,
               kept |-> YesNo(routes # "ok")]
  /\ due' = "yes"
  /\ UNCHANGED <<vipVars, status, seen, synced, broken, routes, svcs, app, row, h>>

\* The ports of the published world.
Served == world.health.mapped \ world.health.bad

-----------------------------------------------------------------------------
\* The proxies.  A connection is made once the controller is ready; registry
\* changes other than acknowledgements enqueue the Gateway.

NodeConnect(n) ==
  /\ row[n] = None /\ Ready
  /\ row' = [row EXCEPT ![n] = [acked |-> 0, bound |-> None]]
  /\ due' = "yes"
  /\ UNCHANGED <<vipVars, status, seen, synced, broken, routes, svcs, world, app, h>>

\* The proxy applies the current view and acknowledges the captured sequence.
NodeApply(n) ==
  /\ row[n] # None
  /\ app' = [app EXCEPT ![n] = [gen |-> world.content, kept |-> world.kept,
                                ports |-> Served, open |-> app[n].open]]
  /\ row' = [row EXCEPT ![n] = [acked |-> world.stamp, bound |-> row[n].bound]]
  /\ <<app', row'>> # <<app, row>>
  /\ UNCHANGED <<vipVars, status, seen, synced, broken, routes, svcs, world, due, h>>

\* Its acceptor listens on the ports of the view and reports them.
NodeReport(n) ==
  /\ row[n] # None
  /\ app' = [app EXCEPT ![n].open = app[n].ports]
  /\ row' = [row EXCEPT ![n].bound = app[n].ports]
  /\ <<app', row'>> # <<app, row>>
  /\ due' = "yes"
  /\ UNCHANGED <<vipVars, status, seen, synced, broken, routes, svcs, world, h>>

\* The stream breaks; the proxy keeps its last-good world, or has died.
NodeDrop(n) ==
  /\ row[n] # None /\ row' = [row EXCEPT ![n] = None] /\ Fault
  /\ app' \in {app, [app EXCEPT ![n] = NoApp]}
  /\ due' = "yes" /\ h' = [h EXCEPT !.pool = @ \ {n}]
  /\ UNCHANGED <<gw, store, vip, pass, failures>>
  /\ UNCHANGED <<status, seen, synced, broken, routes, svcs, world>>

\* Another replica takes over: everything the controller holds is rebuilt from
\* the API, and no proxy is connected yet.
Failover ==
  /\ Fault
  /\ store' = gw /\ seen' = status /\ synced' = "yes"
  /\ pass' = NoPass
  /\ failures' = "no"
  /\ svcs' = PortsOf(vip)
  /\ world' = NoCells
  /\ row' = [n \in Nodes |-> None] /\ due' = "yes" /\ h' = Idle
  /\ UNCHANGED <<gw, vip, status, broken, routes, app>>

-----------------------------------------------------------------------------
\* The decision.  Its operators take the handler's record, whose fields hold
\* what the handler read.

Engaged(spec) == spec.addrs # {}

\* evaluate_static_addresses: every requested address must be the one the VIP
\* has; what is published is the intersection.
StaticOverride(spec, addr) ==
  IF BadType \in spec.addrs THEN "Invalid"
  ELSE IF Engaged(spec) /\ ~(spec.addrs \subseteq {addr}) THEN "AddressNotUsable"
  ELSE None
StaticAddrs(spec, addr) == IF BadType \in spec.addrs THEN {} ELSE spec.addrs \cap {addr}

\* should_hold_pending: an AddressNotUsable that no authority confirms.
ShouldHold(r) ==
  /\ StaticOverride(r.spec, r.addr) = "AddressNotUsable"
  /\ r.failed = "no"
  /\ \/ r.addr = None
     \/ r.spec.addrs \cap Ips # {} /\ StaticAddrs(r.spec, r.addr) = {}

Override(r) == IF ShouldHold(r) THEN None ELSE StaticOverride(r.spec, r.addr)

\* gateway_programmed_at_current_gen: the anti-flap latch.
Latched(r) == r.st.prog = "True" /\ r.st.pgen >= r.gen

\* Mutant: the published addresses are those resolved now.
StatusAddrsWiped(r) == IF ShouldHold(r) THEN {} ELSE StaticAddrs(r.spec, r.addr)

\* A latched Gateway whose VIP does not resolve keeps its published addresses.
StatusAddrs(r) ==
  LET addrs == IF ShouldHold(r) THEN {} ELSE StaticAddrs(r.spec, r.addr) IN
  IF Latched(r) /\ Engaged(r.spec) /\ Override(r) = None /\ addrs = {}
  THEN r.st.addrs ELSE addrs

SettledNegative(r) ==
  /\ r.ready = "yes"
  /\ r.spec.params = "yes" \/ (r.health.cover # {} /\ r.health.cover \subseteq r.health.bad)

\* awaited_internal_ports: a port whose listener has settled negative is not
\* waited for; one that no health entry claims is.
AwaitedPorts(r) ==
  IF r.ready = "no" THEN r.ports
  ELSE r.ports \ (r.health.mapped \cap r.health.bad)

AllBound(ports) ==
  Connected # {} /\ \A n \in Connected : row[n].bound # None /\ ports \subseteq row[n].bound
AllAcked(id) == Connected # {} /\ \A n \in Connected : row[n].acked >= id

Converged(r, proxiesBound) ==
  \/ SettledNegative(r)
  \/ /\ Latched(r) \/ (r.addr # None /\ proxiesBound)
     /\ ~Engaged(r.spec) \/ Override(r) # None \/ StatusAddrs(r) # {}

DesiredProgrammed(r, proxiesBound) ==
  IF Override(r) # None THEN Override(r)
  ELSE IF SettledNegative(r) THEN "Invalid"
  ELSE IF ~Converged(r, proxiesBound) THEN "Pending"
  ELSE "True"

DesiredAccepted(spec, bad) ==
  IF spec.params = "yes" THEN "InvalidParameters"
  ELSE IF BadType \in spec.addrs THEN "UnsupportedAddress"
  ELSE IF spec.ports \cap bad = {} THEN "Accepted"
  ELSE IF spec.ports \subseteq bad THEN "NoneValid" ELSE "SomeValid"

\* build_gateway_status_patch. A held Programmed is stamped one generation
\* back; without a requested or a resolved address the field is left alone.
BuildStatus(r, proxiesBound, bad) ==
  [acc |-> DesiredAccepted(r.spec, bad), agen |-> r.gen,
   prog |-> DesiredProgrammed(r, proxiesBound),
   pgen |-> IF Override(r) = None /\ ~Converged(r, proxiesBound) THEN r.gen - 1 ELSE r.gen,
   addrs |-> IF Engaged(r.spec) THEN StatusAddrs(r)
             ELSE IF r.addr # None THEN {r.addr} ELSE r.st.addrs,
   lbad |-> r.spec.ports \cap bad]

\* gateway_needs_status_patch, against the status the handler read.
NeedsPatch(r, out) ==
  \/ r.st.acc # out.acc \/ r.st.prog # out.prog \/ r.st.addrs # out.addrs
  \/ r.st.lbad # out.lbad
  \/ r.st.agen < r.gen \/ r.st.pgen < r.gen

-----------------------------------------------------------------------------
\* The handler.

Rest == UNCHANGED <<gw, store, vip, pass, failures, seen, broken, routes, svcs,
                    world, app, row>>

Leave(again) == h' = Idle /\ due' = YesNo(due = "yes" \/ again = "yes")

\* The handler takes the object out of the store and reads its VIP Service. A
\* 404 and a failed call both read as "not provisioned".
Start ==
  /\ due = "yes" /\ h.pc = "idle" /\ due' = "no"
  /\ \E svc \in {vip, None} :
       /\ IF svc = vip THEN NoFault ELSE Fault
       /\ h' = [Idle EXCEPT !.pc = "facts", !.fresh = synced, !.pool = Connected,
                 !.read = [gen |-> store.gen, spec |-> store.spec, st |-> seen,
                           addr |-> Address(svc), ports |-> PortsOf(svc)]]
  /\ Rest /\ UNCHANGED <<status, synced>>

\* What the handler will do, but for the proxies' answer: the status to write
\* (or None) and whether to requeue. Before the subsystem is ready only a first
\* status is written, from empty health.
Decision(r, proxiesBound) ==
  LET bad == IF r.ready = "yes" THEN r.health.bad ELSE {}
      out == BuildStatus(r, proxiesBound, bad)
      settled == /\ r.ready = "yes" /\ Converged(r, proxiesBound)
                 /\ ~SettledNegative(r) /\ Override(r) # "AddressNotUsable"
      writes == /\ NeedsPatch(r, out)
                /\ r.ready = "yes" \/ r.st.acc \notin {"Accepted", "SomeValid"}
  IN [out |-> IF writes THEN out ELSE None, again |-> YesNo(~settled),
      first |-> YesNo(out.prog = "True" /\ ~Latched(r)), gen |-> r.gen,
      ports |-> r.spec.ports]

Decide(decision) ==
  IF decision.out = None THEN Leave(decision.again)
  ELSE /\ h' = [Idle EXCEPT !.pc = "patch", !.fresh = h.fresh, !.pool = h.pool,
                            !.good = decision]
       /\ due' = due

\* What the handler read at its start, and what it reads now.
WithFacts(r) ==
  [gen |-> r.gen, spec |-> r.spec, st |-> r.st, addr |-> r.addr, ports |-> r.ports,
   failed |-> failures, ready |-> YesNo(Ready), health |-> world.health]

\* The VIP reconciler's verdict, readiness and health fix the decision but for
\* the proxies. A latched or settled Gateway skips them.
Facts ==
  /\ h.pc = "facts"
  /\ LET r == WithFacts(h.read) IN
     IF Latched(r) \/ SettledNegative(r) THEN Decide(Decision(r, TRUE))
     ELSE /\ h' = [Idle EXCEPT !.pc = "bound", !.fresh = h.fresh, !.pool = h.pool,
                               !.await = AwaitedPorts(r),
                               !.good = Decision(r, TRUE), !.held = Decision(r, FALSE)]
          /\ due' = due
  /\ Rest /\ UNCHANGED <<faults, status, synced>>

ReadBound ==
  /\ h.pc = "bound"
  /\ h' = [h EXCEPT !.pc = "stamp", !.await = {}, !.bound = YesNo(AllBound(h.await))]
  /\ Rest /\ UNCHANGED <<faults, status, synced, due>>

\* Mutant: the generation of the stamp is not compared.
StampCoversAny(gen) == world.stamp > 0
StampCovers(gen) == world.stamp > 0 /\ world.gen >= gen

ReadGateStamp ==
  /\ h.pc = "stamp"
  /\ IF StampCovers(h.good.gen)
     THEN h' = [h EXCEPT !.pc = "acked", !.stamp = world.stamp] /\ due' = due
     ELSE Decide(h.held)
  /\ Rest /\ UNCHANGED <<faults, status, synced>>

ReadAcked ==
  /\ h.pc = "acked"
  /\ Decide(IF h.bound = "yes" /\ AllAcked(h.stamp) THEN h.good ELSE h.held)
  /\ Rest /\ UNCHANGED <<faults, status, synced>>

\* The patch is pinned to the resourceVersion that was read.
Land ==
  /\ h.pc = "patch" /\ h.fresh = "yes"
  /\ status' = h.good.out /\ synced' = "no" /\ Leave(h.good.again)
  /\ Rest /\ UNCHANGED faults

\* Mutant: a refused patch waits for the next event.
RefusedQuiet ==
  /\ h.pc = "patch" /\ Leave("no")
  /\ \/ h.fresh = "no" /\ NoFault
     \/ h.fresh = "yes" /\ Fault
  /\ Rest /\ UNCHANGED <<status, synced>>

\* A stale patch gets a 409, any other error is retried as well.
Refused ==
  /\ h.pc = "patch" /\ Leave("yes")
  /\ \/ h.fresh = "no" /\ NoFault
     \/ h.fresh = "yes" /\ Fault
  /\ Rest /\ UNCHANGED <<status, synced>>

Handler == Start \/ Facts \/ ReadBound \/ ReadGateStamp \/ ReadAcked \/ Land \/ Refused

GateNext ==
  \/ EditGateway \/ DeliverGateway \/ DeliverService \/ Break \/ EditRoutes
  \/ VipAssign \/ VipLost \/ VipPass
  \/ RebuildWorld \/ Failover \/ Handler
  \/ \E n \in Nodes : NodeConnect(n) \/ NodeApply(n) \/ NodeReport(n) \/ NodeDrop(n)

GateSpec == GateInit /\ [][GateNext]_gateVars

(***************************************************************************)
(* Watches deliver, the rebuild task, the VIP task and the status worker   *)
(* keep running (a requeue is a timer that fires), proxies reconnect, read *)
(* their stream and bind.                                                  *)
(***************************************************************************)
GateFairness ==
  /\ WF_gateVars(DeliverGateway) /\ WF_gateVars(DeliverService)
  /\ WF_gateVars(RebuildWorld /\ world' # world)
  /\ WF_gateVars(VipAssign) /\ WF_gateVars(VipPass)
  /\ WF_gateVars(Handler)
  /\ \A n \in Nodes : /\ WF_gateVars(NodeConnect(n)) /\ WF_gateVars(NodeApply(n))
                      /\ WF_gateVars(NodeReport(n))
GateFairSpec == GateSpec /\ GateFairness

-----------------------------------------------------------------------------
\* Properties.

ProgrammedNow == status.prog = "True" /\ status.pgen = gw.gen

\* An established Programmed=True is never taken back to Pending within its
\* generation: not by a lost Service, a pool that empties, a failover that
\* empties the registry, nor a handler with a stale view (the latch and the
\* pinned resourceVersion together).
NoFlap == [][ProgrammedNow /\ gw' = gw => status'.prog # "Pending"]_gateVars

\* A Gateway that requested addresses and is Programmed at its generation
\* publishes at least one, and only requested ones, through every repin of
\* its Service.
TrueHasAddress ==
  ProgrammedNow /\ Engaged(gw.spec) =>
    status.addrs # {} /\ status.addrs \subseteq gw.spec.addrs

\* A handler about to write a first Programmed=True for a generation has proof:
\* every proxy that stayed connected while it ran has applied a world that
\* contains the generation, or one of a rebuild whose table build failed, which
\* holds the last table that compiled.
ProgrammedProven ==
  h.pc = "patch" /\ h.good.first = "yes" =>
    \A n \in h.pool : app[n].gen >= h.good.gen \/ app[n].kept = "yes"

\* "Ack: every connected node must have Ack'd a snapshot containing this Gateway's
\* current generation" (mod.rs:1482). FAILS: one route of any Gateway that does not
\* compile keeps the whole table as it was, the rebuild stamps the new generation all the
\* same, and the stamp is all the gate compares.
ContentProgrammed ==
  h.pc = "patch" /\ h.good.first = "yes" => \A n \in h.pool : app[n].gen >= h.good.gen

\* What Programmed=True says is so: where it is published there is an address, and
\* where it is first written there is proof.
ProgrammedHonest == TrueHasAddress /\ ProgrammedProven

\* What the status should be once everything is quiet.
Verdict(spec) ==
  IF BadType \in spec.addrs THEN "Invalid"
  ELSE IF Engaged(spec) /\ ~(Cardinality(spec.addrs) = 1 /\ spec.addrs \subseteq Ips \ OutOfRange)
  THEN "AddressNotUsable"
  ELSE IF spec.params = "yes" \/ spec.ports \subseteq broken THEN "Invalid" ELSE "True"
PublishedAddrs(spec) ==
  IF BadType \in spec.addrs THEN {}
  ELSE IF Engaged(spec) THEN spec.addrs \cap (Ips \ OutOfRange) ELSE {"lb"}

\* Once edits and mishaps stop, the status is that of the last spec, at its
\* generation, with the addresses and listeners that are really there: the gate
\* neither stays Pending nor goes quiet on a stale negative.  A controller that starts
\* while a route does not compile never becomes ready, and reports nothing more.
Settles ==
  <>[](\/ /\ status.prog = Verdict(gw.spec) /\ status.pgen = gw.gen
          /\ status.agen = gw.gen /\ status.addrs = PublishedAddrs(gw.spec)
          /\ status.lbad = broken \cap gw.spec.ports
       \/ routes = "bad" /\ ~Ready)

\* "every connected shared-pool proxy node must have reported the VIP's internal
\* ports bound - otherwise Programmed=True races real traffic into a
\* not-yet-listening port" (mod.rs, the bind half of the gate). FAILS: the ports
\* are those of the live Service, which the VIP reconciler may not have brought
\* to the handler's generation yet.
PortsProgrammed ==
  h.pc = "patch" /\ h.good.first = "yes" =>
    \A n \in h.pool : h.good.ports \subseteq app[n].open

\* AddressNotUsable at a generation is a settled result for that generation.
\* FAILS: vip_failures names the Gateway and not the generation, so the verdict
\* on the previous spec confirms the mismatch of the new one.
NegativeIsReal ==
  status.prog = "AddressNotUsable" /\ status.pgen = gw.gen =>
    Verdict(gw.spec) = "AddressNotUsable"

\* gateway_needs_status_patch "prevents redundant patches and watch-feedback
\* loops". FAILS: a held Programmed is stamped below the generation, which the
\* staleness test always finds stale, so every pass over a held Gateway writes
\* the status that is already there.
NoPatchChurn == [][Land => status' # status]_gateVars
=============================================================================
