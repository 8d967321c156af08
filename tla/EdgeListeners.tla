---------------------------- MODULE EdgeListeners ----------------------------
(***************************************************************************)
(* The proxy's acceptor: it keeps the bound listeners equal to the set the *)
(* routing state asks for, while every listener is a task of its own that  *)
(* accepts, drains and releases its slot in the gauges.                    *)
(*                                                                         *)
(* A reconcile pass is not atomic: it cancels the listeners that go away   *)
(* and switches the ones that change in place, then binds the new ones one *)
(* after the other, and only then publishes the bound ports.  The listener *)
(* tasks run meanwhile, so a port can be bound again before the task that  *)
(* held it has noticed its cancellation.                                   *)
(***************************************************************************)
EXTENDS Integers, Sequences, FiniteSets

CONSTANTS
  Addrs,          \* the socket addresses a Gateway may ask for
  Modes,          \* the stream modes: ListenerProtocol with its PROXY config
  ConnLimit,      \* MAX_CONCURRENT_CONNECTIONS, the permits of one listener
  MaxDesired,     \* bound: changes of the desired set
  MaxBindErrors   \* bound: binds that another process makes fail

ASSUME ConnLimitAssumption == ConnLimit \in Nat \ {0}

VARIABLES
  want,      \* the watch of desired specs: the mode of each address, or off
  unseen,    \* the watch changed since the acceptor last read it
  acceptor,  \* the acceptor task: pc, the addresses to bind, those that failed
  tasks,     \* the listener tasks, by the order in which they were spawned
  activeOf,  \* active: the task of each address, 0 for none
  slots,     \* coxswain_proxy_listeners_active, per state
  boundPorts,\* the published bound-port set
  stopping,  \* the global shutdown was signalled
  edgeLeft   \* what is left of the bounds

edgeVars == <<want, unseen, acceptor, tasks, activeOf, slots, boundPorts, stopping, edgeLeft>>

ListenerSpecs == [Addrs -> Modes \cup {"udp", "off"}]
TaskIds == DOMAIN tasks
Family(mode) == IF mode = "udp" THEN "datagram" ELSE "stream"
Bound == {a \in Addrs : activeOf[a] # 0}

\* A stream task frees its socket when it stops accepting, a UDP one when it ends.
HoldsSocket(t) == t.phase = "accepting" \/ (t.mode = "udp" /\ t.phase = "draining")
LiveTasks == {i \in TaskIds : tasks[i].phase # "done"}

EdgeTypeOK ==
  /\ want \in ListenerSpecs /\ unseen \in BOOLEAN /\ stopping \in BOOLEAN
  /\ acceptor.pc \in {"select", "adding", "joining", "exited"}
  /\ acceptor.add \subseteq Addrs /\ acceptor.failed \subseteq Addrs
  /\ acceptor.pc # "adding" => acceptor.add = {}
  /\ \A i \in TaskIds :
       /\ tasks[i].phase \in {"accepting", "draining", "done"}
       /\ tasks[i].conns \in 0 .. ConnLimit
       /\ tasks[i].phase = "done" => tasks[i].conns = 0
  /\ \A a \in Bound : activeOf[a] \in TaskIds /\ tasks[activeOf[a]].addr = a
  /\ boundPorts \subseteq Addrs

EdgeInit ==
  /\ want \in ListenerSpecs
  /\ unseen = TRUE
  /\ acceptor = [pc |-> "select", spec |-> [a \in Addrs |-> "off"], add |-> {}, failed |-> {}]
  /\ tasks = <<>>
  /\ activeOf = [a \in Addrs |-> 0]
  /\ slots = [serving |-> 0, draining |-> 0]
  /\ boundPorts = {}
  /\ stopping = FALSE
  /\ edgeLeft = [desired |-> MaxDesired, errors |-> MaxBindErrors]

-----------------------------------------------------------------------------
(* The desired set and the shutdown signal *)

SpecsChange ==
  /\ edgeLeft.desired > 0
  /\ want' \in ListenerSpecs \ {want}
  /\ unseen' = TRUE
  /\ edgeLeft' = [edgeLeft EXCEPT !.desired = @ - 1]
  /\ UNCHANGED <<acceptor, tasks, activeOf, slots, boundPorts, stopping>>

SignalShutdown ==
  /\ ~stopping
  /\ stopping' = TRUE
  /\ UNCHANGED <<want, unseen, acceptor, tasks, activeOf, slots, boundPorts, edgeLeft>>

-----------------------------------------------------------------------------
(* The acceptor *)

ModeOf(a) == tasks[activeOf[a]].mode

\* plan_listener_changes: a change of transport family is a remove and an add;
\* any other change is switched in place.
Flips(a) == /\ a \in Bound /\ want[a] # "off"
            /\ Family(ModeOf(a)) # Family(want[a])

PlanRemove == {a \in Bound : want[a] = "off" \/ Flips(a)}
PlanAdd == {a \in Addrs : want[a] # "off" /\ (a \notin Bound \/ Flips(a))}
PlanSwitch == {a \in Bound : want[a] # "off" /\ ~Flips(a) /\ ModeOf(a) # want[a]}

IsActive(i) == activeOf[tasks[i].addr] = i

\* The reconcile up to its first bind.  The select is biased: the shutdown arm
\* goes before the change of the specs.
ReconcileListeners ==
  /\ acceptor.pc = "select" /\ ~stopping /\ unseen
  /\ unseen' = FALSE
  /\ tasks' = [i \in TaskIds |->
                 CASE IsActive(i) /\ tasks[i].addr \in PlanRemove ->
                        [tasks[i] EXCEPT !.token = "cancelled"]
                   [] IsActive(i) /\ tasks[i].addr \in PlanSwitch ->
                        [tasks[i] EXCEPT !.mode = want[tasks[i].addr]]
                   [] OTHER -> tasks[i]]
  /\ activeOf' = [a \in Addrs |-> IF a \in PlanRemove THEN 0 ELSE activeOf[a]]
  /\ slots' = [serving |-> slots.serving - Cardinality(PlanRemove),
               draining |-> slots.draining + Cardinality(PlanRemove)]
  /\ acceptor' = [pc |-> "adding", spec |-> want, add |-> PlanAdd, failed |-> {}]
  /\ UNCHANGED <<want, boundPorts, stopping, edgeLeft>>

\* Without SO_REUSEPORT a second socket of the same family is refused.
SocketFree(a, mode) ==
  ~ \E i \in TaskIds : /\ tasks[i].addr = a /\ HoldsSocket(tasks[i])
                       /\ Family(tasks[i].mode) = Family(mode)

BindListener(a) ==
  /\ acceptor.pc = "adding" /\ a \in acceptor.add
  /\ SocketFree(a, acceptor.spec[a])
  /\ tasks' = Append(tasks, [addr |-> a, mode |-> acceptor.spec[a], token |-> "live",
                             phase |-> "accepting", conns |-> 0])
  /\ activeOf' = [activeOf EXCEPT ![a] = Len(tasks) + 1]
  /\ slots' = [slots EXCEPT !.serving = @ + 1]
  /\ acceptor' = [acceptor EXCEPT !.add = @ \ {a}]
  /\ UNCHANGED <<want, unseen, boundPorts, stopping, edgeLeft>>

\* The address stays out of active; only another change of the specs tries again.
BindFails(a) ==
  /\ acceptor.pc = "adding" /\ a \in acceptor.add
  /\ \/ ~SocketFree(a, acceptor.spec[a]) /\ UNCHANGED edgeLeft
     \/ /\ edgeLeft.errors > 0
        /\ edgeLeft' = [edgeLeft EXCEPT !.errors = @ - 1]
  /\ acceptor' = [acceptor EXCEPT !.add = @ \ {a}, !.failed = @ \cup {a}]
  /\ UNCHANGED <<want, unseen, tasks, activeOf, slots, boundPorts, stopping>>

\* Mutant: the ports that were asked for are published.
PublishBoundPortsWanted ==
  /\ acceptor.pc = "adding" /\ acceptor.add = {}
  /\ boundPorts' = {a \in Addrs : acceptor.spec[a] # "off"}
  /\ acceptor' = [acceptor EXCEPT !.pc = "select"]
  /\ UNCHANGED <<want, unseen, tasks, activeOf, slots, stopping, edgeLeft>>
PublishBoundPorts ==
  /\ acceptor.pc = "adding" /\ acceptor.add = {}
  /\ boundPorts' = Bound
  /\ acceptor' = [acceptor EXCEPT !.pc = "select"]
  /\ UNCHANGED <<want, unseen, tasks, activeOf, slots, stopping, edgeLeft>>

\* signal_all_drain cancels the tokens and leaves the gauges alone.
ShutdownArm ==
  /\ acceptor.pc = "select" /\ stopping
  /\ tasks' = [i \in TaskIds |->
                 IF IsActive(i) THEN [tasks[i] EXCEPT !.token = "cancelled"] ELSE tasks[i]]
  /\ acceptor' = [acceptor EXCEPT !.pc = "joining"]
  /\ UNCHANGED <<want, unseen, activeOf, slots, boundPorts, stopping, edgeLeft>>

AcceptorExits ==
  /\ acceptor.pc = "joining" /\ LiveTasks = {}
  /\ acceptor' = [acceptor EXCEPT !.pc = "exited"]
  /\ UNCHANGED <<want, unseen, tasks, activeOf, slots, boundPorts, stopping, edgeLeft>>

-----------------------------------------------------------------------------
(* A listener task *)

Stops(t) == t.token = "cancelled" \/ stopping

AcceptConn(i) ==
  /\ tasks[i].phase = "accepting" /\ tasks[i].mode # "udp" /\ ~Stops(tasks[i])
  /\ tasks[i].conns < ConnLimit
  /\ tasks' = [tasks EXCEPT ![i].conns = @ + 1]
  /\ UNCHANGED <<want, unseen, acceptor, activeOf, slots, boundPorts, stopping, edgeLeft>>

ConnEnds(i) ==
  /\ tasks[i].conns > 0
  /\ tasks' = [tasks EXCEPT ![i].conns = @ - 1]
  /\ UNCHANGED <<want, unseen, acceptor, activeOf, slots, boundPorts, stopping, edgeLeft>>

\* The accept loop breaks and drops the socket before the drain window.
StopAccepting(i) ==
  /\ tasks[i].phase = "accepting" /\ Stops(tasks[i])
  /\ tasks' = [tasks EXCEPT ![i].phase = "draining"]
  /\ UNCHANGED <<want, unseen, acceptor, activeOf, slots, boundPorts, stopping, edgeLeft>>

\* release_listener_slot: the state is read off the token.
Released(t) ==
  IF t.token = "cancelled" THEN [slots EXCEPT !.draining = @ - 1]
                           ELSE [slots EXCEPT !.serving = @ - 1]
\* Mutant: a drain that runs into its timeout forgets the slot.
DrainEndsLeaking(i) ==
  /\ tasks[i].phase = "draining"
  /\ tasks' = [tasks EXCEPT ![i].phase = "done", ![i].conns = 0]
  /\ slots' = IF tasks[i].conns = 0 THEN Released(tasks[i]) ELSE slots
  /\ UNCHANGED <<want, unseen, acceptor, activeOf, boundPorts, stopping, edgeLeft>>

\* Mutant: the drain has no timeout.
DrainEndsPatient(i) ==
  /\ tasks[i].phase = "draining" /\ tasks[i].conns = 0
  /\ tasks' = [tasks EXCEPT ![i].phase = "done"]
  /\ slots' = Released(tasks[i])
  /\ UNCHANGED <<want, unseen, acceptor, activeOf, boundPorts, stopping, edgeLeft>>
\* The drain is complete, or its timeout aborts the connections that are left.
DrainEnds(i) ==
  /\ tasks[i].phase = "draining"
  /\ tasks' = [tasks EXCEPT ![i].phase = "done", ![i].conns = 0]
  /\ slots' = Released(tasks[i])
  /\ UNCHANGED <<want, unseen, acceptor, activeOf, boundPorts, stopping, edgeLeft>>

-----------------------------------------------------------------------------
AcceptorStep ==
  \/ ReconcileListeners \/ PublishBoundPorts \/ ShutdownArm \/ AcceptorExits
  \/ \E a \in Addrs : BindListener(a) \/ BindFails(a)

EdgeNext ==
  \/ SpecsChange \/ SignalShutdown \/ AcceptorStep
  \/ \E i \in TaskIds : AcceptConn(i) \/ ConnEnds(i) \/ StopAccepting(i) \/ DrainEnds(i)

\* The tasks are scheduled; nothing obliges a peer or the control plane.
EdgeFairness ==
  /\ WF_edgeVars(AcceptorStep)
  /\ \A i \in 1 .. (MaxDesired + 1) * Cardinality(Addrs) :
       WF_edgeVars(i \in TaskIds /\ (StopAccepting(i) \/ DrainEnds(i)))

EdgeSpec == EdgeInit /\ [][EdgeNext]_edgeVars /\ EdgeFairness

-----------------------------------------------------------------------------
(* Properties *)

\* Every unfinished listener holds exactly one slot of the gauges, on every way
\* out of run_listener; before a shutdown the draining ones are those that a
\* reconcile removed.
SlotsConserved ==
  /\ slots.serving + slots.draining = Cardinality(LiveTasks)
  /\ ~stopping =>
       slots.draining = Cardinality({i \in LiveTasks : tasks[i].token = "cancelled"})

\* What publish_bound_ports tells the controller is true between two passes: the
\* ports with a running accept loop in the mode that pass asked for; a failed
\* bind never enters the set and a draining listener has left it.
BoundPortsTrue ==
  acceptor.pc = "select" /\ ~stopping =>
    /\ boundPorts = {tasks[i].addr : i \in {j \in TaskIds :
                       tasks[j].phase = "accepting" /\ tasks[j].token = "live"}}
    /\ \A a \in boundPorts : ModeOf(a) = acceptor.spec[a]

\* What the acceptor tells others of its listeners is the truth: the ports it reports
\* to the controller and the slots of its gauges.
ListenersAccounted == BoundPortsTrue /\ SlotsConserved

AsDesired ==
  ~stopping =>
    /\ \A a \in Addrs : want[a] # "off" /\ a \notin acceptor.failed =>
         a \in Bound /\ ModeOf(a) = want[a] /\ tasks[activeOf[a]].phase = "accepting"
    /\ \A i \in TaskIds : want[tasks[i].addr] = "off" => tasks[i].phase = "done"

\* Every port that stays desired is served in the mode asked for, unless its
\* bind failed in the last pass; every other listener ends.
ListenersConverge == <>[]AsDesired

\* A shutdown ends although connections may stay open for ever: every listener
\* task gives up at its drain timeout and the acceptor joins the last of them.
ShutdownEnds == <>[](stopping => acceptor.pc = "exited")

\* docs/src/reference/observability.md:66: both series return to zero once every
\* listener is gone.
SlotsReturnToZero == LiveTasks = {} => slots = [serving |-> 0, draining |-> 0]
=============================================================================
