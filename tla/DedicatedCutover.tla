-------------------------- MODULE DedicatedCutover --------------------------
(***************************************************************************)
(* One Gateway that moves between the shared pool and a dedicated proxy:   *)
(* the operator's reconcile_inner (operator/reconciler.rs) with its        *)
(* finalizer, provisioning, status patch and hand-back, against the        *)
(* rebuild that serves the Gateway from the pool or from the dedicated     *)
(* registry (reconciler/dedicated.rs), the streams of both planes, the VIP *)
(* and the shared status writer, which runs before the operator in the     *)
(* same handler.                                                           *)
(*                                                                         *)
(* The mode is a parametersRef, the Gateway's own (an edit, and so a new   *)
(* generation) or that of its class (no new generation).  Content is the   *)
(* generation it was built from.  A route that does not compile leaves the *)
(* pool with its last table and a dedicated proxy with an empty one.       *)
(***************************************************************************)
EXTENDS Naturals, FiniteSets

CONSTANTS
  ClassNames,     \* GatewayClasses of this controller
  MaxCutEvents,   \* bound on edits (of the Gateway, its class, its parameters) and mishaps
  MaxCutMishaps   \* of these, failed calls, lost pods and failovers

ASSUME CutoverAssumption ==
  /\ ClassNames # {} /\ "pool" \notin ClassNames
  /\ MaxCutEvents \in Nat /\ MaxCutMishaps \in Nat

VARIABLES
  gobj,           \* the Gateway in the API server
  gseen,          \* the Gateway in the controller's store
  classRef,       \* class -> has a parametersRef
  params,         \* the CoxswainGatewayParameters object exists
  badRoute,       \* a route that does not compile: "none", the Gateway's "own", an "other"
  vipUp,          \* the VIP Service of the shared pool exists
  provisioned,    \* the dedicated resources: <<class, part>>
  pods,           \* classes whose Deployment has a Ready, connected proxy
  rebuildDue, keyDue,   \* a rebuild is triggered; the Gateway's key is queued
  published, stampOf,   \* the cells of the last rebuild, and what its stamp covers
  serves, credited, listens, \* per plane: applied, credited, reported
  oper,           \* the handler
  cutEvents, cutMishaps

cutVars == <<gobj, gseen, classRef, params, badRoute, vipUp, provisioned, pods, rebuildDue, keyDue,
             published, stampOf, serves, credited, listens, oper, cutEvents, cutMishaps>>

Planes == {"pool"} \cup ClassNames
ResourceParts == {"service", "deployment"}
YN(b) == IF b THEN "yes" ELSE "no"

\* What a plane may serve: nothing, or the Gateway at a generation; "unbound": in the
\* pool, without the internal port that only a VIP Service gives it.
Nothing == [gen |-> 0, port |-> "no"]
Content(g, port) == [gen |-> g, port |-> port]

\* A registry entry whose table was not built: the listeners, and no route.
Blank == Content(0, "yes")

NoStamp == [gen |-> 0, cut |-> "no", port |-> "no"]
OperIdle == [pc |-> "idle", gw |-> <<>>, want |-> <<>>]

Cond(st, g) == [st |-> st, gen |-> g]
NoCond == Cond("none", 0)

-----------------------------------------------------------------------------
(* Reading a Gateway. *)

\* params::resolve, over the reference of the class and the Gateway's own.
ProxyMode(g) ==
  IF g.ref = "no" /\ classRef[g.cls] = "no" THEN "shared"
  ELSE IF params = "yes" THEN "dedicated" ELSE "missing"

\* Mutant: the condition must be of a later generation than the Gateway.
CutOverLater(g) == g.dpr.st = "True" /\ g.dpr.gen > g.gen

\* gateway_is_cut_over: DedicatedProxyReady=True at the Gateway's generation.
CutOverAt(g) == g.dpr.st = "True" /\ g.dpr.gen >= g.gen

\* shared_pool_is_serving, and gateway_programmed_at_current_gen.
ProgrammedAt(g) == g.prog.st = "True" /\ g.prog.gen >= g.gen

-----------------------------------------------------------------------------
(* Edits. *)

CutEvent == cutEvents < MaxCutEvents /\ cutEvents' = cutEvents + 1

EditRest == UNCHANGED <<gseen, vipUp, provisioned, pods, keyDue, published, stampOf,
                        serves, credited, listens, oper, cutMishaps>>

\* The Gateway's own parametersRef is set or removed, its class is changed, or
\* something else of its spec.
EditGateway ==
  /\ gobj.exists = "yes" /\ CutEvent
  /\ \E r \in {"yes", "no"}, c \in ClassNames :
       gobj' = [gobj EXCEPT !.gen = @ + 1, !.ref = r, !.cls = c]
  /\ UNCHANGED <<classRef, params, badRoute, rebuildDue>> /\ EditRest

DeleteGateway ==
  /\ gobj.exists = "yes" /\ CutEvent
  /\ gobj' = [gobj EXCEPT !.exists = IF gobj.fin = "yes" THEN "deleting" ELSE "gone"]
  /\ UNCHANGED <<classRef, params, badRoute, rebuildDue>> /\ EditRest

EditClass(c) ==
  /\ CutEvent /\ classRef' = [classRef EXCEPT ![c] = YN(@ = "no")] /\ rebuildDue' = "yes"
  /\ UNCHANGED <<gobj, params, badRoute>> /\ EditRest

EditParams ==
  /\ CutEvent /\ params' = YN(params = "no") /\ rebuildDue' = "yes"
  /\ UNCHANGED <<gobj, classRef, badRoute>> /\ EditRest

\* A route is written whose path or regular expression does not compile, or is mended.
EditRoute ==
  /\ CutEvent /\ badRoute' \in {"none", "own", "other"} \ {badRoute} /\ rebuildDue' = "yes"
  /\ UNCHANGED <<gobj, classRef, params>> /\ EditRest

-----------------------------------------------------------------------------
(* The store, the rebuild and the VIP. *)

DeliverObject ==
  /\ gseen # gobj /\ gseen' = gobj /\ rebuildDue' = "yes"
  /\ UNCHANGED <<gobj, classRef, params, badRoute, vipUp, provisioned, pods, keyDue, published, stampOf,
                 serves, credited, listens, oper, cutEvents, cutMishaps>>

InPool(g) == g.exists # "gone" /\ ~CutOverAt(g)

\* The pool's table has the routes of every Gateway that is not cut over: one of them
\* that does not compile fails the build of all.
PoolFails(g) == badRoute = "other" \/ (badRoute = "own" /\ InPool(g))

\* A Gateway that is cut over is in the dedicated registry, any other in the pool's cells.
\* A failed build keeps the pool's table, of generation old, while the listeners follow;
\* in the registry, where every rebuild starts from empty cells, it leaves an empty table.
CellsOf(g, old) ==
  [pool |-> Content(IF PoolFails(g) THEN old ELSE IF InPool(g) THEN g.gen ELSE 0,
                    IF InPool(g) THEN vipUp ELSE "no"),
   registry |-> IF g.exists = "gone" \/ InPool(g) THEN Nothing
                ELSE IF badRoute = "own" THEN Blank ELSE Content(g.gen, "yes"),
   sa |-> g.cls]

\* The stamp of the Gateway moves with its generation and with its listener health, which
\* tells the two planes apart and a pending port from an allocated one; not with what the
\* build made of the routes.
StampNow(g) ==
  IF g.exists = "gone" THEN NoStamp
  ELSE [gen |-> g.gen, cut |-> YN(CutOverAt(g)), port |-> vipUp]

\* The rebuild stores the cells, stamps, and enqueues the Gateway.
RebuildCells ==
  /\ rebuildDue = "yes" /\ rebuildDue' = "no" /\ keyDue' = YN(gseen.exists # "gone")
  /\ published' = CellsOf(gseen, published.pool.gen)
  /\ stampOf' = StampNow(gseen)
  /\ credited' = IF stampOf' = stampOf THEN credited ELSE [p \in Planes |-> "no"]
  /\ UNCHANGED <<gobj, gseen, classRef, params, badRoute, vipUp, provisioned, pods, serves, listens,
                 oper, cutEvents, cutMishaps>>

\* The VIP reconciler: a VIP for a shared Gateway, none for any other.
VipFollows ==
  /\ vipUp' = YN(gseen.exists = "yes" /\ ProxyMode(gseen) = "shared") /\ vipUp' # vipUp
  /\ rebuildDue' = "yes"
  /\ UNCHANGED <<gobj, gseen, classRef, params, badRoute, provisioned, pods, keyDue, published, stampOf,
                 serves, credited, listens, oper, cutEvents, cutMishaps>>

-----------------------------------------------------------------------------
(* The planes.  The pool is always there; a class is, while its Deployment *)
(* has a Ready pod.                                                        *)

Up(p) == p = "pool" \/ p \in pods

\* The view of a plane: the registry's, for the proxy it names; otherwise the empty
\* world, at sequence 0.
ViewOf(p) ==
  IF p = "pool" THEN published.pool
  ELSE IF published.sa = p THEN published.registry ELSE Nothing

\* Mutant: an acknowledged empty world credits the Gateway as any other.
CreditsAll(p, content) == TRUE

\* The empty world of a Gateway scope is sequence 0, and credits nothing.
Credits(p, content) == p = "pool" \/ content # Nothing

PlaneRest == UNCHANGED <<gobj, gseen, classRef, params, badRoute, vipUp, provisioned, rebuildDue,
                         published, stampOf, oper>>

\* The stream (DiscoveryStream) brings the view: applied and acknowledged when it changed,
\* and acknowledged as it stands when it did not.
ApplyView(p) ==
  /\ Up(p) /\ serves' = [serves EXCEPT ![p] = ViewOf(p)]
  /\ credited' = [credited EXCEPT ![p] = YN(@ = "yes" \/ (stampOf # NoStamp /\ Credits(p, ViewOf(p))))]
  /\ <<serves', credited'>> # <<serves, credited>>
  /\ PlaneRest /\ UNCHANGED <<pods, keyDue, listens, cutEvents, cutMishaps>>

\* The acceptor has followed the listeners; a changed report enqueues the Gateway.
ReportPorts(p) ==
  /\ Up(p) /\ listens[p] # serves[p].port
  /\ listens' = [listens EXCEPT ![p] = serves[p].port] /\ keyDue' = "yes"
  /\ PlaneRest /\ UNCHANGED <<pods, serves, credited, cutEvents, cutMishaps>>

\* A pod is Ready once it has applied its first snapshot, an empty one too.
PodReady(c) ==
  /\ <<c, "deployment">> \in provisioned /\ c \notin pods
  /\ pods' = pods \cup {c} /\ keyDue' = "yes"
  /\ PlaneRest /\ UNCHANGED <<serves, credited, listens, cutEvents, cutMishaps>>

\* Its proxies are gone.
Stopped(c) ==
  /\ pods' = pods \ {c}
  /\ serves' = [serves EXCEPT ![c] = Nothing]
  /\ credited' = [credited EXCEPT ![c] = "no"] /\ listens' = [listens EXCEPT ![c] = "no"]

CutMishap == CutEvent /\ cutMishaps < MaxCutMishaps /\ cutMishaps' = cutMishaps + 1

PodLost(c) ==
  /\ c \in pods /\ CutMishap /\ Stopped(c) /\ keyDue' = "yes"
  /\ PlaneRest

-----------------------------------------------------------------------------
(* The handler of the Gateway's key. *)

HandlerRest == UNCHANGED <<gseen, classRef, params, badRoute, vipUp, rebuildDue, published, stampOf>>
PlanesKept == UNCHANGED <<pods, serves, credited, listens>>

\* Every connected proxy of the Gateway has acknowledged the stamp, and listens.
AllConnected(ps) ==
  ps # {} /\ \A p \in ps : credited[p] = "yes" /\ listens[p] = "yes"

\* Both gates: a stamp of this generation, acknowledged, and the ports bound; or already
\* Programmed at this generation.
Proven(g, ps) == ProgrammedAt(g) \/ (stampOf # NoStamp /\ stampOf.gen >= g.gen /\ AllConnected(ps))

\* A held Programmed is stamped one generation back.
ProgrammedOf(g, st) == Cond(st, IF st = "Pending" THEN g.gen - 1 ELSE g.gen)

\* The shared writer: skips a dedicated Gateway; its patch is pinned to the object read.
SharedVerdict(g) == ProgrammedOf(g, IF Proven(g, {"pool"}) /\ (vipUp = "yes" \/ ProgrammedAt(g))
                                    THEN "True" ELSE "Pending")

SharedWrites(g) == g.exists = "yes" /\ ProxyMode(g) = "shared" /\ stampOf # NoStamp

\* Requeued while Programmed is held, and when the pinned patch was refused.
SharedRequeues(g) ==
  SharedWrites(g) /\ (SharedVerdict(g).st # "True" \/ (SharedVerdict(g) # g.prog /\ gobj # g))

\* The handler takes the object out of the store and runs the shared writer first.
TakeKey ==
  /\ oper.pc = "idle" /\ keyDue = "yes" /\ gseen.exists # "gone"
  /\ gobj' = IF SharedWrites(gseen) /\ gobj = gseen
             THEN [gobj EXCEPT !.prog = SharedVerdict(gseen)] ELSE gobj
  /\ keyDue' = YN(SharedRequeues(gseen))
  /\ oper' = [pc |-> "start", gw |-> gseen, want |-> <<>>]
  /\ HandlerRest /\ PlanesKept /\ UNCHANGED <<provisioned, cutEvents, cutMishaps>>

At(pc) == oper.pc = pc
Goto(pc) == oper' = [oper EXCEPT !.pc = pc]
\* The handler ends, with a requeue or without.
Finish(again) == oper' = OperIdle /\ keyDue' = YN(keyDue = "yes" \/ again)

\* A merge patch that is not pinned: it changes its fields of whatever is there.
Patched(new) == gobj' = IF gobj.exists = "gone" THEN gobj ELSE new

StepRest == HandlerRest /\ UNCHANGED <<cutEvents, cutMishaps>>

\* Deletion: the finalizer is dropped; the resources go by their owner references.
FinalizeDeleted ==
  /\ At("start") /\ oper.gw.exists = "deleting"
  /\ IF oper.gw.fin = "yes"
     THEN gobj' = [gobj EXCEPT !.exists = "gone", !.fin = "no"]
     ELSE UNCHANGED gobj
  /\ Finish(FALSE) /\ StepRest /\ PlanesKept /\ UNCHANGED provisioned

\* The garbage collector, after the Gateway is gone.
CollectGarbage(c) ==
  /\ gobj.exists = "gone" /\ \E piece \in ResourceParts : <<c, piece>> \in provisioned
  /\ provisioned' = provisioned \ ({c} \X ResourceParts)
  /\ Stopped(c)
  /\ UNCHANGED <<gobj, keyDue, oper, cutEvents, cutMishaps>> /\ HandlerRest

Alive == At("start") /\ oper.gw.exists = "yes"
Leaving == Alive /\ ProxyMode(oper.gw) = "shared" /\ oper.gw.fin = "yes"

NeverOurs ==
  /\ Alive /\ ProxyMode(oper.gw) = "shared" /\ oper.gw.fin = "no"
  /\ Finish(FALSE) /\ StepRest /\ PlanesKept /\ UNCHANGED <<gobj, provisioned>>

\* Hand-back, step 1: clear our conditions while DedicatedProxyReady is there.
ClearStatus ==
  /\ Leaving /\ oper.gw.dpr.st # "none"
  /\ Patched([gobj EXCEPT !.prog = NoCond, !.dpr = NoCond])
  /\ Finish(TRUE) /\ StepRest /\ PlanesKept /\ UNCHANGED provisioned

\* Step 2: wait until the shared pool is Programmed at this generation.
AwaitPool ==
  /\ Leaving /\ oper.gw.dpr.st = "none" /\ ~ProgrammedAt(oper.gw)
  /\ Finish(TRUE) /\ StepRest /\ PlanesKept /\ UNCHANGED <<gobj, provisioned>>

\* Step 3: the resources, named after the class of the object read, and then the finalizer.
DeleteDeployment ==
  /\ Leaving /\ oper.gw.dpr.st = "none" /\ ProgrammedAt(oper.gw) /\ Goto("deleteService")
  /\ provisioned' = provisioned \ {<<oper.gw.cls, "deployment">>}
  /\ Stopped(oper.gw.cls)
  /\ StepRest /\ UNCHANGED <<gobj, keyDue>>

DeleteService ==
  /\ At("deleteService") /\ Goto("unfinalize")
  /\ provisioned' = provisioned \ {<<oper.gw.cls, "service">>}
  /\ StepRest /\ PlanesKept /\ UNCHANGED <<gobj, keyDue>>

RemoveFinalizer ==
  /\ At("unfinalize")
  /\ Patched([gobj EXCEPT !.fin = "no", !.exists = IF gobj.exists = "deleting" THEN "gone" ELSE @])
  /\ Finish(FALSE) /\ StepRest /\ PlanesKept /\ UNCHANGED provisioned

\* The parameters a reference names do not exist.
RejectParams ==
  /\ Alive /\ ProxyMode(oper.gw) = "missing"
  /\ Patched([gobj EXCEPT !.prog = ProgrammedOf(oper.gw, "Invalid"), !.dpr = Cond("False", oper.gw.gen)])
  /\ Finish(TRUE) /\ StepRest /\ PlanesKept /\ UNCHANGED provisioned

Entering == Alive /\ ProxyMode(oper.gw) = "dedicated"

AddFinalizer ==
  /\ Entering /\ oper.gw.fin = "no"
  /\ Patched([gobj EXCEPT !.fin = "yes"])
  /\ Finish(TRUE) /\ StepRest /\ PlanesKept /\ UNCHANGED provisioned

ApplyService ==
  /\ Entering /\ oper.gw.fin = "yes" /\ Goto("applyDeployment")
  /\ provisioned' = provisioned \cup {<<oper.gw.cls, "service">>}
  /\ StepRest /\ PlanesKept /\ UNCHANGED <<gobj, keyDue>>

ApplyDeployment ==
  /\ At("applyDeployment") /\ Goto("judge")
  /\ provisioned' = provisioned \cup {<<oper.gw.cls, "deployment">>}
  /\ StepRest /\ PlanesKept /\ UNCHANGED <<gobj, keyDue>>

\* programmed_outcome: a Ready pod, an address, and the bind and ack gate.
DedicatedVerdict(g) ==
  IF pods # {} /\ <<g.cls, "service">> \in provisioned /\ Proven(g, pods) THEN "True" ELSE "Pending"

\* The pods, the Service, the stamp and the registry are read; the patch follows.
Judge ==
  /\ At("judge")
  /\ oper' = [oper EXCEPT !.pc = "patch",
                !.want = [prog |-> ProgrammedOf(oper.gw, DedicatedVerdict(oper.gw)),
                          dpr |-> Cond(IF pods # {} THEN "True" ELSE "False", oper.gw.gen),
                          bound |-> YN(Proven(oper.gw, pods))]]
  /\ StepRest /\ PlanesKept /\ UNCHANGED <<gobj, provisioned, keyDue>>

\* One merge patch; left out when the object read has all of it. Requeued while the proxy
\* has not bound.
PatchStatus ==
  /\ At("patch")
  /\ IF oper.gw.prog = oper.want.prog /\ oper.gw.dpr = oper.want.dpr
     THEN UNCHANGED gobj
     ELSE Patched([gobj EXCEPT !.prog = oper.want.prog, !.dpr = oper.want.dpr])
  /\ Finish(oper.want.bound = "no") /\ StepRest /\ PlanesKept /\ UNCHANGED provisioned

\* A call of the operator fails: the handler ends and is retried after a backoff.
OperatorFails ==
  /\ oper.pc # "idle" /\ CutMishap
  /\ Finish(TRUE) /\ HandlerRest /\ PlanesKept /\ UNCHANGED <<gobj, provisioned>>

\* Another replica takes over, wherever the handler was, with an empty registry of nodes.
\* Its cells are those of its own rebuilds, which saw the same routes (one that only
\* starts under a route that does not compile is not ready: ProgrammedGate).
FailOver ==
  /\ CutMishap
  /\ oper' = OperIdle /\ keyDue' = "yes" /\ gseen' = gobj /\ rebuildDue' = "yes"
  /\ stampOf' = NoStamp
  /\ credited' = [p \in Planes |-> "no"] /\ listens' = [p \in Planes |-> "no"]
  /\ UNCHANGED <<gobj, classRef, params, badRoute, vipUp, provisioned, pods, published, serves>>

-----------------------------------------------------------------------------
\* A Gateway that settled in the pool, or on a dedicated proxy, under its first class.
SettledIn(mode, c) ==
  LET ded == mode = "dedicated"
      g == [exists |-> "yes", gen |-> 1, ref |-> YN(ded), cls |-> c, fin |-> YN(ded),
            prog |-> Cond("True", 1), dpr |-> IF ded THEN Cond("True", 1) ELSE NoCond]
  IN
  /\ gobj = g /\ gseen = g
  /\ classRef = [k \in ClassNames |-> "no"] /\ params = "yes" /\ badRoute = "none"
  /\ vipUp = YN(~ded)
  /\ provisioned = IF ded THEN {c} \X ResourceParts ELSE {}
  /\ pods = IF ded THEN {c} ELSE {}
  /\ rebuildDue = "no" /\ keyDue = "no"
  /\ published = CellsOf(g, 0) /\ stampOf = StampNow(g)
  /\ serves = [p \in Planes |-> IF Up(p) THEN ViewOf(p) ELSE Nothing]
  /\ credited = [p \in Planes |-> YN(Up(p))]
  /\ listens = [p \in Planes |-> serves[p].port]
  /\ oper = OperIdle
  /\ cutEvents = 0 /\ cutMishaps = 0

CutInit == \E c \in ClassNames, mode \in {"shared", "dedicated"} : SettledIn(mode, c)

HandlerStep ==
  \/ TakeKey \/ FinalizeDeleted \/ NeverOurs \/ ClearStatus \/ AwaitPool
  \/ DeleteDeployment \/ DeleteService \/ RemoveFinalizer
  \/ RejectParams \/ AddFinalizer
  \/ ApplyService \/ ApplyDeployment \/ Judge \/ PatchStatus

PlaneStep(p) == ApplyView(p) \/ ReportPorts(p)

ClusterStep(c) == PodReady(c) \/ CollectGarbage(c)

\* Watches, rebuilds, the VIP pass, streams and the cluster: each comes to an end by itself.
CutSurroundings ==
  \/ DeliverObject \/ RebuildCells \/ VipFollows
  \/ \E p \in Planes : PlaneStep(p)
  \/ \E c \in ClassNames : ClusterStep(c)

CutNext ==
  \/ EditGateway \/ DeleteGateway \/ EditParams \/ EditRoute \/ \E c \in ClassNames : EditClass(c)
  \/ CutSurroundings \/ \E c \in ClassNames : PodLost(c)
  \/ HandlerStep \/ OperatorFails \/ FailOver

\* The handler runs, and what surrounds it is not starved by its requeues.
CutFairness == WF_cutVars(CutSurroundings) /\ WF_cutVars(HandlerStep)

CutSpec == CutInit /\ [][CutNext]_cutVars /\ CutFairness

-----------------------------------------------------------------------------
(* Correctness. *)

CutTypeOK ==
  /\ gobj.exists \in {"yes", "deleting", "gone"} /\ gobj.cls \in ClassNames
  /\ gobj.fin \in {"yes", "no"} /\ gobj.ref \in {"yes", "no"}
  /\ gobj.prog.st \in {"none", "True", "Pending", "Invalid"} /\ gobj.dpr.st \in {"none", "True", "False"}
  /\ classRef \in [ClassNames -> {"yes", "no"}] /\ {params, vipUp, rebuildDue, keyDue} \subseteq {"yes", "no"}
  /\ badRoute \in {"none", "own", "other"}
  /\ provisioned \subseteq ClassNames \X ResourceParts
  /\ pods \subseteq {c \in ClassNames : <<c, "deployment">> \in provisioned}

\* A plane serves when its routes are there, of whatever generation, and traffic reaches it.
PoolServes == vipUp = "yes" /\ serves["pool"].port = "yes" /\ serves["pool"].gen > 0
DedicatedServes == \E c \in pods : serves[c].gen > 0 /\ <<c, "service">> \in provisioned

\* Resources, or a DedicatedProxyReady, that no finalizer and no class name leads to any more.
LeftBehind ==
  /\ gobj.exists = "yes"
  /\ \/ \E c \in ClassNames \ {gobj.cls}, piece \in ResourceParts : <<c, piece>> \in provisioned
     \/ ProxyMode(gobj) = "shared" /\ gobj.fin = "no" /\ (provisioned # {} \/ gobj.dpr # NoCond)

\* The Gateway is where its mode says, and its status says so; the tables are those of the
\* last generation, but for what a route that does not compile holds back.
CutSettled ==
  CASE gobj.exists = "gone" -> provisioned = {}
    [] gobj.exists = "deleting" -> FALSE
    [] ProxyMode(gobj) = "shared" ->
         /\ gobj.fin = "no" /\ provisioned = {} /\ gobj.dpr = NoCond
         /\ gobj.prog = Cond("True", gobj.gen) /\ vipUp = "yes" /\ serves["pool"].port = "yes"
         /\ badRoute = "none" => serves["pool"].gen = gobj.gen
    [] ProxyMode(gobj) = "missing" ->
         gobj.prog = Cond("Invalid", gobj.gen) /\ gobj.dpr = Cond("False", gobj.gen)
    [] OTHER ->
         /\ gobj.fin = "yes" /\ {gobj.cls} \X ResourceParts \subseteq provisioned
         /\ gobj.dpr = Cond("True", gobj.gen) /\ gobj.prog = Cond("True", gobj.gen)
         /\ serves[gobj.cls] = IF badRoute = "own" THEN Blank ELSE Content(gobj.gen, "yes")
         /\ serves["pool"].port = "no" /\ (badRoute # "other" => serves["pool"] = Nothing)

\* Once edits and mishaps stop, the Gateway ends in the plane its mode names, served at its
\* last generation and Programmed, and the other plane has let go of it - unless resources
\* were left behind. A route that does not compile does not hold the hand-over up.
CutoverSettles == <>[](CutSettled \/ LeftBehind)

\* The operator finds a generation Programmed that it did not have before only while a
\* dedicated proxy serves that generation, or was given the listeners without a table
\* because a route of the Gateway does not compile.
DedicatedHonest ==
  [][(At("judge") /\ oper'.pc = "patch" /\ oper'.want.prog.st = "True" /\ ~ProgrammedAt(oper.gw))
       => \E c \in pods : serves[c].gen >= oper.gw.gen \/ serves[c] = Blank]_cutVars

\* A failed build "leaves the previous snapshot in place and lets the failure surface in
\* logs without taking the proxy down" (route_builder.rs:735). FAILS: each rebuild of a
\* dedicated Gateway starts from empty cells (dedicated.rs:110), so one route that does
\* not compile takes all routes of the Gateway away from its proxy.
FailedBuildKeepsTable == [][\A c \in pods : serves[c].gen > 0 => serves'[c] # Blank]_cutVars

\* The operator deletes a dedicated proxy that serves, of a Gateway that is to be shared,
\* only once the pool serves the Gateway.
TeardownCovered ==
  [][(At("start") /\ oper'.pc = "deleteService" /\ ProxyMode(gobj) = "shared" /\ gobj.exists = "yes"
      /\ DedicatedServes /\ <<gobj.cls, "deployment">> \in provisioned \ provisioned') => PoolServes]_cutVars

\* While a Gateway is handed back, the dedicated proxy bridges its traffic until the pool serves.
HandoffBridged ==
  [][(ProxyMode(gobj) = "shared" /\ gobj.fin = "yes" /\ DedicatedServes) => (DedicatedServes' \/ PoolServes')]_cutVars

\* The hand-back leaves no resources.
NothingLeftBehind == ~LeftBehind
=============================================================================
