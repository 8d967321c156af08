-------------------------- MODULE ControllerProofs --------------------------
(***************************************************************************)
(* Proofs about four loops of the controller: the lease (Leadership), the  *)
(* operator's handler (DedicatedCutover), the relay of a namespace         *)
(* (RelayLifecycle) and the VIP reconciler (VipService).                   *)
(*                                                                         *)
(* Every leader steps back within StaleBound of its last confirmed hold,   *)
(* whatever the lease parameters, the number of replicas and the outcomes  *)
(* of the attempts.  The invariant LoopsKnow says, for each place of the   *)
(* loop, how old the hold can be there.                                    *)
(*                                                                         *)
(* The operator finds a Gateway newly Programmed only on a dedicated proxy *)
(* that serves it, or that was given no table because a route does not     *)
(* compile.  The invariant CutInv says what a credit proves.               *)
(*                                                                         *)
(* Leaves are directed only at a relay that is deployed and tracked, and   *)
(* stand where the last directive they read said.  The invariant LifeInv   *)
(* relates the record, the Deployment and the published sets at each place *)
(* of a pass, and each channel to the last directive sent on it.           *)
(*                                                                         *)
(* No pass of the VIP reconciler disturbs a Service that is right.         *)
(***************************************************************************)
EXTENDS Leadership, DedicatedCutover, RelayLifecycle, VipService, TLAPS

USE DEF Attempting, BusyAt, LaterOf

LEMMA DeadlineFacts ==
  /\ ErrorDeadline \in Nat /\ StaleBound \in Nat /\ AttemptBy \in Nat
  /\ ErrorDeadline + Renew - 1 <= AttemptBy
  /\ Rehydrate <= AttemptBy
  /\ Startup + Renew <= AttemptBy
  /\ Renew <= AttemptBy
  /\ StaleBound = AttemptBy + Renew
BY LeaseAssumption DEF ErrorDeadline, StaleBound, AttemptBy

-----------------------------------------------------------------------------
(* Types *)

LEMMA TypeInit == LeaderInit => LeaderTypeOK
BY LeaseAssumption DEF LeaderInit, LeaderTypeOK

LEMMA TypePass == LeaderTypeOK /\ TimePasses => LeaderTypeOK'
<1> SUFFICES ASSUME LeaderTypeOK, TimePasses PROVE LeaderTypeOK'
  OBVIOUS
<1>1. leaseAge' \in 0 .. TTL + 1
  BY LeaseAssumption DEF LeaderTypeOK, TimePasses
<1>2. since' \in [Replicas -> Nat] /\ spent' \in [Replicas -> Nat] /\ until' \in [Replicas -> Int]
  BY DEF LeaderTypeOK, TimePasses
<1> QED
  BY <1>1, <1>2 DEF LeaderTypeOK, TimePasses

LEMMA TypeStep == ASSUME LeaderTypeOK, NEW r \in Replicas, ReplicaStep(r) PROVE LeaderTypeOK'
<1> USE LeaseAssumption DEF LeaderTypeOK, Becomes, After, lease
<1>1. CASE PodStart(r) BY <1>1 DEF PodStart
<1>2. CASE TickDue(r) BY <1>2 DEF TickDue
<1>3. CASE GetLease(r) BY <1>3 DEF GetLease
<1>4. CASE PutLease(r) BY <1>4 DEF PutLease
<1>5. CASE ObserveLeading(r) BY <1>5 DEF ObserveLeading
<1>6. CASE ObserveStandby(r) BY <1>6 DEF ObserveStandby
<1>7. CASE ObserveError(r) BY <1>7 DEF ObserveError
<1>8. CASE RehydrationEnds(r) BY <1>8 DEF RehydrationEnds
<1>9. CASE EnterLoop(r) BY <1>9 DEF EnterLoop
<1>10. CASE GracefulShutdown(r) BY <1>10 DEF GracefulShutdown
<1>11. CASE StepDown(r) BY <1>11 DEF StepDown
<1>12. CASE PodExit(r) BY <1>12 DEF PodExit
<1> QED
  BY <1>1, <1>2, <1>3, <1>4, <1>5, <1>6, <1>7, <1>8, <1>9, <1>10, <1>11, <1>12 DEF ReplicaStep, Observe

\* The type invariant holds in every state of the lease loops.
THEOREM TypeCorrect == LeaderSpec => []LeaderTypeOK
<1>1. LeaderTypeOK /\ [LeaderNext]_leaderVars => LeaderTypeOK'
  <2>1. ASSUME LeaderTypeOK, UNCHANGED leaderVars PROVE LeaderTypeOK'
    BY <2>1 DEF LeaderTypeOK, leaderVars, lease
  <2> QED
    BY <2>1, TypePass, TypeStep DEF LeaderNext
<1> QED
  BY TypeInit, <1>1, PTL DEF LeaderSpec

-----------------------------------------------------------------------------
(* What the loop knows of its last hold *)

LEMMA KnowInit == LeaderInit => LoopsKnow
<1> SUFFICES ASSUME LeaderInit, NEW r \in Replicas PROVE LoopKnows(r)
  BY DEF LoopsKnow
<1>1. lpc[r] = "down" /\ leading[r] = "no" /\ until[r] = 0
  BY DEF LeaderInit
<1> QED
  BY <1>1, LeaseAssumption DEF LoopKnows

\* Time passes only while nothing of the replica is due.
LEMMA KnowPass == ASSUME LeaderTypeOK, LoopsKnow, TimePasses PROVE LoopsKnow'
<1> SUFFICES ASSUME NEW q \in Replicas PROVE LoopKnows(q)'
  BY DEF LoopsKnow
<1>1. LoopKnows(q) /\ ~Due(q)
  BY DEF LoopsKnow, TimePasses
<1>2. /\ lpc' = lpc /\ phase' = phase /\ leading' = leading
      /\ since'[q] = IF leading[q] = "yes" THEN since[q] + 1 ELSE since[q]
      /\ spent'[q] = IF lpc[q] \in BusyAt THEN spent[q] + 1 ELSE spent[q]
      /\ until'[q] = IF phase[q] = "loop" THEN until[q] - 1 ELSE until[q]
  BY DEF TimePasses, LeaderTypeOK
<1>3. since[q] \in Nat /\ spent[q] \in Nat /\ until[q] \in Int
  BY DEF LeaderTypeOK
<1> QED
  BY <1>1, <1>2, <1>3, LeaseAssumption, DeadlineFacts DEF LoopKnows, Due

\* A step of one replica leaves what the others know alone.
LEMMA KnowOthers ==
  ASSUME LeaderTypeOK, LoopsKnow, NEW r \in Replicas, ReplicaStep(r), NEW q \in Replicas, q # r
  PROVE  LoopKnows(q)'
<1>1. /\ lpc'[q] = lpc[q] /\ phase'[q] = phase[q] /\ leading'[q] = leading[q]
      /\ since'[q] = since[q] /\ spent'[q] = spent[q] /\ until'[q] = until[q]
  <2> USE DEF LeaderTypeOK, Becomes, After
  <2>1. CASE PodStart(r) BY <2>1 DEF PodStart
  <2>2. CASE TickDue(r) BY <2>2 DEF TickDue
  <2>3. CASE GetLease(r) BY <2>3 DEF GetLease
  <2>4. CASE PutLease(r) BY <2>4 DEF PutLease
  <2>5. CASE ObserveLeading(r) BY <2>5 DEF ObserveLeading
  <2>6. CASE ObserveStandby(r) BY <2>6 DEF ObserveStandby
  <2>7. CASE ObserveError(r) BY <2>7 DEF ObserveError
  <2>8. CASE RehydrationEnds(r) BY <2>8 DEF RehydrationEnds
  <2>9. CASE EnterLoop(r) BY <2>9 DEF EnterLoop
  <2>10. CASE GracefulShutdown(r) BY <2>10 DEF GracefulShutdown
  <2>11. CASE StepDown(r) BY <2>11 DEF StepDown
  <2>12. CASE PodExit(r) BY <2>12 DEF PodExit
  <2> QED
    BY <2>1, <2>2, <2>3, <2>4, <2>5, <2>6, <2>7, <2>8, <2>9, <2>10, <2>11, <2>12 DEF ReplicaStep, Observe
<1> QED
  BY <1>1 DEF LoopsKnow, LoopKnows

\* A step of the replica itself: one case per action of its loop.
LEMMA KnowOwn ==
  ASSUME LeaderTypeOK, LoopsKnow, NEW r \in Replicas, ReplicaStep(r) PROVE LoopKnows(r)'
<1> USE LeaseAssumption, DeadlineFacts DEF Becomes, After, LoopKnows
<1>0. /\ LoopKnows(r)
      /\ since[r] \in Nat /\ spent[r] \in Nat /\ until[r] \in Int
      /\ leading[r] \in {"yes", "no"}
  BY DEF LoopsKnow, LeaderTypeOK
<1>1. CASE PodStart(r) BY <1>0, <1>1 DEF PodStart, LeaderTypeOK
<1>2. CASE TickDue(r) BY <1>0, <1>2 DEF TickDue, LeaderTypeOK
<1>3. CASE GetLease(r) BY <1>0, <1>3 DEF GetLease, LeaderTypeOK
<1>4. CASE PutLease(r) BY <1>0, <1>4 DEF PutLease, LeaderTypeOK
<1>5. CASE ObserveLeading(r) BY <1>0, <1>5 DEF ObserveLeading, LeaderTypeOK
<1>6. CASE ObserveStandby(r) BY <1>0, <1>6 DEF ObserveStandby, LeaderTypeOK
<1>7. CASE ObserveError(r) BY <1>0, <1>7 DEF ObserveError, Survives, LeaderTypeOK
<1>8. CASE RehydrationEnds(r) BY <1>0, <1>8 DEF RehydrationEnds, LeaderTypeOK
<1>9. CASE EnterLoop(r) BY <1>0, <1>9 DEF EnterLoop, LeaderTypeOK
<1>10. CASE GracefulShutdown(r) BY <1>0, <1>10 DEF GracefulShutdown, LeaderTypeOK
<1>11. CASE StepDown(r) BY <1>0, <1>11 DEF StepDown, LeaderTypeOK
<1>12. CASE PodExit(r) BY <1>0, <1>12 DEF PodExit, LeaderTypeOK
<1> QED
  BY <1>1, <1>2, <1>3, <1>4, <1>5, <1>6, <1>7, <1>8, <1>9, <1>10, <1>11, <1>12 DEF ReplicaStep, Observe

LEMMA KnowBounds == LeaderTypeOK /\ LoopsKnow => StaleLeaderBounded
<1> SUFFICES ASSUME LeaderTypeOK, LoopsKnow, NEW r \in Replicas, leading[r] = "yes"
             PROVE  since[r] <= StaleBound
  BY DEF StaleLeaderBounded
<1>1. LoopKnows(r) /\ since[r] \in Nat /\ spent[r] \in Nat
  BY DEF LoopsKnow, LeaderTypeOK
<1> QED
  BY <1>1, LeaseAssumption, DeadlineFacts DEF LoopKnows

\* No replica leads longer than StaleBound past its last confirmed hold, for
\* every choice of TTL, renew interval and rehydration bounds.
THEOREM StaleLeaderCorrect == LeaderSpec => []StaleLeaderBounded
<1>1. LeaderTypeOK /\ LoopsKnow /\ [LeaderNext]_leaderVars => LoopsKnow'
  <2> SUFFICES ASSUME LeaderTypeOK, LoopsKnow, [LeaderNext]_leaderVars PROVE LoopsKnow'
    OBVIOUS
  <2>1. CASE UNCHANGED leaderVars
    BY <2>1 DEF leaderVars, LoopsKnow, LoopKnows
  <2>2. CASE TimePasses
    BY <2>2, KnowPass
  <2>3. ASSUME NEW r \in Replicas, ReplicaStep(r) PROVE LoopsKnow'
    BY <2>3, KnowOwn, KnowOthers DEF LoopsKnow
  <2> QED
    BY <2>1, <2>2, <2>3 DEF LeaderNext
<1> QED
  BY TypeCorrect, KnowInit, <1>1, KnowBounds, PTL DEF LeaderSpec

-----------------------------------------------------------------------------
(***************************************************************************)
(* The operator's verdict (DedicatedCutover).                              *)
(***************************************************************************)

\* Records with the fields of a Gateway and of the handler.
IsGateway(x) ==
  x = [exists |-> x.exists, gen |-> x.gen, ref |-> x.ref, cls |-> x.cls, fin |-> x.fin,
       prog |-> x.prog, dpr |-> x.dpr]
IsOperator(x) == x = [pc |-> x.pc, gw |-> x.gw, want |-> x.want]

CutShapes ==
  /\ IsGateway(gobj) /\ gobj.gen \in Nat /\ gseen.gen \in Nat /\ 0 < gseen.gen
  /\ IsOperator(oper)
  /\ DOMAIN serves = Planes /\ DOMAIN credited = Planes
  /\ pods \subseteq ClassNames

\* The store lags behind the object, and a generation has one class.
StoreLags ==
  gseen.gen =< gobj.gen /\ (gseen.gen = gobj.gen => gseen.cls = gobj.cls)

\* The stamp is that of the cells that are published.
StampOfCells ==
  stampOf # NoStamp =>
    /\ stampOf.gen \in Nat /\ stampOf.gen =< gseen.gen
    /\ stampOf.gen = gseen.gen => published.sa = gseen.cls
    /\ IF stampOf.cut = "yes" THEN published.registry \in {Content(stampOf.gen, "yes"), Blank}
                              ELSE published.registry = Nothing

\* A dedicated proxy is credited only for the Gateway itself, at the generation it serves, or
\* without a table when a route of the Gateway does not compile.
CreditServes ==
  \A c \in ClassNames : credited[c] = "yes" =>
    /\ stampOf # NoStamp /\ stampOf.cut = "yes" /\ published.sa = c
    /\ serves[c] \in {Content(stampOf.gen, "yes"), Blank}

CutInv == CutShapes /\ StoreLags /\ StampOfCells /\ CreditServes

LEMMA StampedGenerations ==
  ASSUME NEW g, NEW old, StampNow(g) # NoStamp
  PROVE  /\ g.exists # "gone" /\ StampNow(g).gen = g.gen
         /\ StampNow(g).cut = "yes" <=> CutOverAt(g)
         /\ CellsOf(g, old).sa = g.cls
         /\ IF StampNow(g).cut = "yes" THEN CellsOf(g, old).registry \in {Content(g.gen, "yes"), Blank}
                                       ELSE CellsOf(g, old).registry = Nothing
BY DEF StampNow, CellsOf, InPool, YN

LEMMA CutInitially == CutInit => CutInv
<1> SUFFICES ASSUME NEW c \in ClassNames, NEW m \in {"shared", "dedicated"}, SettledIn(m, c)
             PROVE  CutInv
  BY DEF CutInit
<1> DEFINE ded == m = "dedicated"
<1>1. /\ IsGateway(gobj) /\ gseen = gobj /\ gobj.gen = 1 /\ gobj.cls = c /\ gobj.exists = "yes"
      /\ CutOverAt(gobj) <=> ded
      /\ published = CellsOf(gobj, 0) /\ badRoute = "none" /\ stampOf = StampNow(gobj)
      /\ pods = IF ded THEN {c} ELSE {}
      /\ serves = [p \in Planes |-> IF Up(p) THEN ViewOf(p) ELSE Nothing]
      /\ credited = [p \in Planes |-> YN(Up(p))]
      /\ oper = OperIdle
  BY DEF SettledIn, IsGateway, CutOverAt, Cond, NoCond
<1>2. CutShapes
  BY <1>1 DEF CutShapes, OperIdle, IsOperator
<1>3. StoreLags
  BY <1>1 DEF StoreLags
<1>4. /\ stampOf # NoStamp /\ stampOf.gen = 1 /\ (stampOf.cut = "yes" <=> ded)
      /\ published.sa = c
      /\ published.registry = IF stampOf.cut = "yes" THEN Content(1, "yes") ELSE Nothing
  BY <1>1 DEF StampNow, NoStamp, CellsOf, InPool, YN
<1>5. StampOfCells
  BY <1>1, <1>4 DEF StampOfCells
<1>6. ASSUME NEW k \in ClassNames, credited[k] = "yes"
      PROVE  ded /\ k = c /\ serves[k] = Content(1, "yes")
  <2>1. k \in Planes /\ k # "pool"
    BY CutoverAssumption DEF Planes
  <2>2. Up(k)
    BY <1>1, <1>6, <2>1 DEF YN
  <2>3. ded /\ k = c
    BY <1>1, <2>1, <2>2 DEF Up
  <2>4. serves[k] = Content(1, "yes")
    BY <1>1, <1>4, <2>1, <2>2, <2>3 DEF ViewOf
  <2> QED BY <2>3, <2>4
<1>7. CreditServes
  BY <1>4, <1>6 DEF CreditServes
<1> QED BY <1>2, <1>3, <1>5, <1>7 DEF CutInv

\* A step that leaves the planes, the cells and the generation alone.
LEMMA CutApart ==
  ASSUME CutInv, UNCHANGED <<gseen, published, stampOf, serves, credited>>,
         IsGateway(gobj'), gobj'.gen = gobj.gen, gobj'.cls = gobj.cls,
         IsOperator(oper'), pods' \subseteq ClassNames
  PROVE  CutInv'
<1>1. CutShapes'
  BY DEF CutInv, CutShapes
<1>2. StoreLags'
  BY DEF CutInv, StoreLags
<1>3. StampOfCells' /\ CreditServes'
  BY DEF CutInv, StampOfCells, CreditServes
<1> QED BY <1>1, <1>2, <1>3 DEF CutInv

\* The edits and the watch.
LEMMA CutEdits ==
  ASSUME CutInv, EditGateway \/ DeliverObject
  PROVE  CutInv'
<1>1. UNCHANGED <<published, stampOf, serves, credited, oper, pods>>
  BY DEF EditGateway, EditRest, DeliverObject
<1>2. CASE EditGateway
  <2>1. PICK r \in {"yes", "no"}, c \in ClassNames : gobj' = [gobj EXCEPT !.gen = @ + 1, !.ref = r, !.cls = c]
    BY <1>2 DEF EditGateway
  <2>2. IsGateway(gobj') /\ gobj'.gen = gobj.gen + 1
    BY <2>1 DEF CutInv, CutShapes, IsGateway
  <2>3. gseen' = gseen
    BY <1>2 DEF EditGateway, EditRest
  <2>4. CutShapes' /\ StoreLags'
    BY <1>1, <2>2, <2>3 DEF CutInv, CutShapes, StoreLags
  <2>5. StampOfCells' /\ CreditServes'
    BY <1>1, <2>3 DEF CutInv, StampOfCells, CreditServes
  <2> QED BY <2>4, <2>5 DEF CutInv
<1>3. CASE DeliverObject
  <2>1. gseen' = gobj /\ gobj' = gobj
    BY <1>3 DEF DeliverObject
  <2>2. CutShapes' /\ StoreLags'
    BY <1>1, <2>1 DEF CutInv, CutShapes, StoreLags
  <2>3. StampOfCells'
    BY <1>1, <2>1 DEF CutInv, CutShapes, StoreLags, StampOfCells
  <2>4. CreditServes'
    BY <1>1 DEF CutInv, CreditServes
  <2> QED BY <2>2, <2>3, <2>4 DEF CutInv
<1> QED BY <1>2, <1>3

\* A rebuild that stamps anew takes every credit back; one that does not names the same proxy.
LEMMA CutRebuild ==
  ASSUME CutInv, RebuildCells
  PROVE  CutInv'
<1>1. /\ published' = CellsOf(gseen, published.pool.gen) /\ stampOf' = StampNow(gseen)
      /\ UNCHANGED <<gobj, gseen, serves, oper, pods>>
      /\ credited' = IF stampOf' = stampOf THEN credited ELSE [p \in Planes |-> "no"]
  BY DEF RebuildCells
<1>2. CutShapes' /\ StoreLags'
  BY <1>1 DEF CutInv, CutShapes, StoreLags
<1>3. StampOfCells'
  BY <1>1, StampedGenerations DEF CutInv, CutShapes, StampOfCells
<1>4. CASE stampOf' = stampOf
  <2>1. ASSUME NEW c \in ClassNames, credited[c] = "yes"
        PROVE  stampOf # NoStamp /\ stampOf.cut = "yes" /\ CellsOf(gseen, published.pool.gen).sa = c
               /\ serves[c] \in {Content(stampOf.gen, "yes"), Blank}
    <3>1. stampOf # NoStamp /\ stampOf.cut = "yes" /\ published.sa = c
          /\ serves[c] \in {Content(stampOf.gen, "yes"), Blank}
      BY <2>1 DEF CutInv, CreditServes
    <3>2. stampOf.gen = gseen.gen /\ CellsOf(gseen, published.pool.gen).sa = gseen.cls
      BY <1>1, <1>4, <3>1, StampedGenerations
    <3> QED BY <3>1, <3>2 DEF CutInv, StampOfCells
  <2>2. CreditServes'
    BY <1>1, <1>4, <2>1 DEF CreditServes
  <2> QED BY <1>2, <1>3, <2>2 DEF CutInv
<1>5. CASE stampOf' # stampOf
  <2>1. CreditServes'
    BY <1>1, <1>5 DEF CreditServes, Planes
  <2> QED BY <1>2, <1>3, <2>1 DEF CutInv
<1> QED BY <1>4, <1>5

\* A proxy is credited for what it has just applied; the empty world credits nothing.
LEMMA CutApply ==
  ASSUME CutInv, NEW p \in Planes, ApplyView(p)
  PROVE  CutInv'
<1>1. /\ serves' = [serves EXCEPT ![p] = ViewOf(p)]
      /\ credited' = [credited EXCEPT ![p] = YN(@ = "yes" \/ (stampOf # NoStamp /\ Credits(p, ViewOf(p))))]
      /\ UNCHANGED <<gobj, gseen, published, stampOf, oper, pods>>
  BY DEF ApplyView, PlaneRest
<1>2. CutShapes' /\ StoreLags' /\ StampOfCells'
  BY <1>1 DEF CutInv, CutShapes, StoreLags, StampOfCells
<1>3. ASSUME NEW c \in ClassNames, credited'[c] = "yes"
      PROVE  stampOf # NoStamp /\ stampOf.cut = "yes" /\ published.sa = c
             /\ serves'[c] \in {Content(stampOf.gen, "yes"), Blank}
  <2>1. c \in Planes /\ c # "pool"
    BY CutoverAssumption DEF Planes
  <2>2. CASE c # p
    BY <1>1, <1>3, <2>1, <2>2 DEF CutInv, CutShapes, CreditServes
  <2>3. CASE c = p
    <3>1. serves'[c] = ViewOf(c) /\ (credited[c] = "yes" \/ (stampOf # NoStamp /\ ViewOf(c) # Nothing))
      BY <1>1, <1>3, <2>1, <2>3 DEF CutInv, CutShapes, Credits, YN
    <3>2. stampOf # NoStamp /\ stampOf.cut = "yes" /\ published.sa = c
      BY <2>1, <3>1 DEF CutInv, CreditServes, StampOfCells, ViewOf
    <3>3. ViewOf(c) \in {Content(stampOf.gen, "yes"), Blank}
      BY <2>1, <3>2 DEF CutInv, StampOfCells, ViewOf
    <3> QED BY <3>1, <3>2, <3>3
  <2> QED BY <2>2, <2>3
<1>4. CreditServes'
  BY <1>1, <1>3 DEF CreditServes
<1> QED BY <1>2, <1>4 DEF CutInv

\* A proxy that stops, and a failover.
LEMMA CutStops ==
  ASSUME CutInv, NEW c, Stopped(c),
         UNCHANGED <<gobj, gseen, published, stampOf>>, IsOperator(oper')
  PROVE  CutInv'
<1>1. CutShapes' /\ StoreLags' /\ StampOfCells'
  BY DEF CutInv, CutShapes, StoreLags, StampOfCells, Stopped
<1>2. CreditServes'
  BY DEF CutInv, CutShapes, CreditServes, Stopped, Planes
<1> QED BY <1>1, <1>2 DEF CutInv

LEMMA CutFailOver ==
  ASSUME CutInv, FailOver
  PROVE  CutInv'
<1>1. CutShapes' /\ StoreLags'
  BY DEF CutInv, CutShapes, StoreLags, FailOver, OperIdle, IsOperator
<1>2. StampOfCells' /\ CreditServes'
  BY DEF StampOfCells, CreditServes, FailOver, Planes
<1> QED BY <1>1, <1>2 DEF CutInv

\* The other steps of the handler change fields of the object that are not its generation
\* or class.
LEMMA CutHandler ==
  ASSUME CutInv, HandlerStep, ~DeleteDeployment
  PROVE  CutInv'
<1>1. UNCHANGED <<gseen, published, stampOf, serves, credited, pods>>
  BY DEF HandlerStep, StepRest, HandlerRest, PlanesKept, TakeKey, FinalizeDeleted, NeverOurs, ClearStatus,
         AwaitPool, DeleteService, RemoveFinalizer, RejectParams, AddFinalizer,
         ApplyService, ApplyDeployment, Judge, PatchStatus
<1>2. IsOperator(oper')
  BY DEF CutInv, CutShapes, HandlerStep, TakeKey, FinalizeDeleted, NeverOurs, ClearStatus, AwaitPool,
         DeleteService, RemoveFinalizer, RejectParams, AddFinalizer, ApplyService, ApplyDeployment, Judge,
         PatchStatus, Finish, Goto, OperIdle, IsOperator
<1>3. IsGateway(gobj)
  BY DEF CutInv, CutShapes
<1>4. IsGateway(gobj') /\ gobj'.gen = gobj.gen /\ gobj'.cls = gobj.cls
  <2>1. CASE TakeKey
    BY <1>3, <2>1 DEF TakeKey, IsGateway
  <2>2. CASE FinalizeDeleted \/ RemoveFinalizer \/ AddFinalizer
    BY <1>3, <2>2 DEF FinalizeDeleted, RemoveFinalizer, AddFinalizer, Patched, IsGateway
  <2>3. CASE ClearStatus \/ RejectParams \/ PatchStatus
    BY <1>3, <2>3 DEF ClearStatus, RejectParams, PatchStatus, Patched, IsGateway
  <2>4. CASE NeverOurs \/ AwaitPool \/ DeleteService \/ ApplyService \/ ApplyDeployment \/ Judge
    BY <1>3, <2>4 DEF NeverOurs, AwaitPool, DeleteService, ApplyService, ApplyDeployment, Judge
  <2> QED BY <2>1, <2>2, <2>3, <2>4 DEF HandlerStep
<1>5. pods' \subseteq ClassNames
  BY <1>1 DEF CutInv, CutShapes
<1> QED BY <1>1, <1>2, <1>4, <1>5, CutApart

LEMMA CutStep ==
  ASSUME CutInv, [CutNext]_cutVars
  PROVE  CutInv'
<1>0. IsGateway(gobj) /\ IsOperator(oper) /\ pods \subseteq ClassNames
  BY DEF CutInv, CutShapes
<1>1. CASE UNCHANGED cutVars
  BY <1>0, <1>1, CutApart DEF cutVars
<1>2. CASE EditGateway \/ DeliverObject
  BY <1>2, CutEdits
<1>3. CASE DeleteGateway
  <2>1. IsGateway(gobj') /\ gobj'.gen = gobj.gen /\ gobj'.cls = gobj.cls
    BY <1>0, <1>3 DEF DeleteGateway, IsGateway
  <2> QED BY <1>0, <1>3, <2>1, CutApart DEF DeleteGateway, EditRest
<1>4. CASE EditParams \/ EditRoute \/ VipFollows \/ \E c \in ClassNames : EditClass(c)
  BY <1>0, <1>4, CutApart DEF EditParams, EditRoute, EditClass, EditRest, VipFollows
<1>5. CASE RebuildCells
  BY <1>5, CutRebuild
<1>6. CASE \E p \in Planes : PlaneStep(p)
  <2>1. PICK p \in Planes : PlaneStep(p)
    BY <1>6
  <2>2. CASE ApplyView(p)
    BY <2>2, CutApply
  <2>3. CASE ReportPorts(p)
    BY <1>0, <2>3, CutApart DEF ReportPorts, PlaneRest
  <2> QED BY <2>1, <2>2, <2>3 DEF PlaneStep
<1>7. CASE \E c \in ClassNames : ClusterStep(c)
  <2>1. PICK c \in ClassNames : ClusterStep(c)
    BY <1>7
  <2>2. CASE PodReady(c)
    BY <1>0, <2>2, CutApart DEF PodReady, PlaneRest
  <2>3. CASE CollectGarbage(c)
    BY <1>0, <2>3, CutStops DEF CollectGarbage, HandlerRest
  <2> QED BY <2>1, <2>2, <2>3 DEF ClusterStep
<1>8. CASE \E c \in ClassNames : PodLost(c)
  BY <1>0, <1>8, CutStops DEF PodLost, PlaneRest
<1>9. CASE HandlerStep /\ ~DeleteDeployment
  BY <1>9, CutHandler
<1>10. CASE DeleteDeployment
  <2>1. IsOperator(oper')
    BY <1>0, <1>10 DEF DeleteDeployment, Goto, IsOperator
  <2>2. Stopped(oper.gw.cls) /\ UNCHANGED <<gobj, gseen, published, stampOf>>
    BY <1>10 DEF DeleteDeployment, StepRest, HandlerRest
  <2> QED BY <2>1, <2>2, CutStops
<1>11. CASE OperatorFails
  <2>1. IsOperator(oper')
    BY <1>11 DEF OperatorFails, Finish, OperIdle, IsOperator
  <2> QED BY <1>0, <1>11, <2>1, CutApart DEF OperatorFails, HandlerRest, PlanesKept
<1>12. CASE FailOver
  BY <1>12, CutFailOver
<1> QED BY <1>1, <1>2, <1>3, <1>4, <1>5, <1>6, <1>7, <1>8, <1>9, <1>10, <1>11, <1>12 DEF CutNext, CutSurroundings

LEMMA CutAlways == CutSpec => []CutInv
<1>1. CutInv /\ [CutNext]_cutVars => CutInv'
  BY CutStep
<1> QED BY <1>1, CutInitially, PTL DEF CutSpec

\* A verdict of True at a generation that was not Programmed before comes from the stamp and
\* the credits, and so from a proxy that serves it or was given no table.
LEMMA VerdictProven ==
  ASSUME CutInv, [CutNext]_cutVars, At("judge"), oper'.pc = "patch", oper'.want.prog.st = "True",
         ~ProgrammedAt(oper.gw)
  PROVE  \E c \in pods : serves[c].gen >= oper.gw.gen \/ serves[c] = Blank
<1>1. Judge
  <2>1. oper' # oper
    BY DEF At
  <2>2. CASE HandlerStep
    BY <2>2 DEF HandlerStep, TakeKey, FinalizeDeleted, NeverOurs, ClearStatus, AwaitPool, DeleteDeployment,
                DeleteService, RemoveFinalizer, RejectParams, AddFinalizer, ApplyService, ApplyDeployment,
                PatchStatus, At, Alive, Leaving, Entering
  <2>3. CASE OperatorFails \/ FailOver
    BY <2>3 DEF OperatorFails, FailOver, Finish, OperIdle
  <2>4. CASE ~HandlerStep /\ ~OperatorFails /\ ~FailOver
    BY <2>1, <2>4 DEF CutNext, CutSurroundings, cutVars, EditGateway, DeleteGateway, EditParams, EditRoute, EditClass, EditRest,
                      DeliverObject, RebuildCells, VipFollows, PlaneStep, ClusterStep, ApplyView, ReportPorts,
                      PodReady, CollectGarbage, PodLost, PlaneRest
  <2> QED BY <2>2, <2>3, <2>4
<1>2. oper'.want.prog = ProgrammedOf(oper.gw, DedicatedVerdict(oper.gw))
  BY <1>1 DEF Judge, CutInv, CutShapes, IsOperator
<1>3. DedicatedVerdict(oper.gw) = "True"
  BY <1>2 DEF ProgrammedOf, Cond
<1>4. pods # {} /\ stampOf # NoStamp /\ stampOf.gen >= oper.gw.gen /\ AllConnected(pods)
  BY <1>3 DEF DedicatedVerdict, Proven
<1>5. PICK c \in pods : credited[c] = "yes"
  BY <1>4 DEF AllConnected
<1>6. serves[c].gen = stampOf.gen \/ serves[c] = Blank
  BY <1>5 DEF CutInv, CutShapes, CreditServes, Content
<1> QED BY <1>4, <1>5, <1>6

\* programmed_outcome and the gate behind it, against credits, failovers, class changes and
\* lost pods: whatever classes there are and however often the Gateway is edited, the operator
\* finds a generation newly Programmed only while a dedicated proxy serves it, or serves the
\* listeners without a table because a route of the Gateway does not compile.
THEOREM OperatorProgramsServed == CutSpec => DedicatedHonest
<1>1. CutInv /\ [CutNext]_cutVars =>
        [(At("judge") /\ oper'.pc = "patch" /\ oper'.want.prog.st = "True" /\ ~ProgrammedAt(oper.gw))
           => \E c \in pods : serves[c].gen >= oper.gw.gen \/ serves[c] = Blank]_cutVars
  BY VerdictProven
<1> QED BY <1>1, CutAlways, PTL DEF CutSpec, DedicatedHonest

\* The types of the Gateway in its three copies, and of what the handler is to write.
GatewayTyped(g) ==
  /\ g.exists \in {"yes", "deleting", "gone"} /\ g.cls \in ClassNames
  /\ g.fin \in {"yes", "no"} /\ g.ref \in {"yes", "no"}
  /\ g.prog.st \in {"none", "True", "Pending", "Invalid"} /\ g.dpr.st \in {"none", "True", "False"}

CutTyped ==
  /\ CutTypeOK /\ GatewayTyped(gseen)
  /\ oper.pc # "idle" => GatewayTyped(oper.gw)
  /\ oper.pc = "patch" => oper.want.prog.st \in {"True", "Pending"} /\ oper.want.dpr.st \in {"True", "False"}

\* The steps outside the handler change the object only by an edit.
LEMMA CutTypedOutside ==
  ASSUME CutInv, CutTyped, EditGateway \/ DeleteGateway \/ EditParams \/ EditRoute \/ (\E c \in ClassNames : EditClass(c))
                           \/ CutSurroundings \/ (\E c \in ClassNames : PodLost(c)) \/ OperatorFails \/ FailOver
  PROVE  CutTyped'
<1> USE DEF CutTyped, CutTypeOK
<1>0. IsGateway(gobj) /\ GatewayTyped(gobj) /\ pods \subseteq ClassNames /\ \A b : YN(b) \in {"yes", "no"}
  BY DEF CutInv, CutShapes, GatewayTyped, YN
<1>1. ASSUME GatewayTyped(gobj)', GatewayTyped(gseen)', UNCHANGED oper \/ oper' = OperIdle,
             classRef' \in [ClassNames -> {"yes", "no"}], {params, vipUp, rebuildDue, keyDue}' \subseteq {"yes", "no"},
             badRoute' \in {"none", "own", "other"}, provisioned' \subseteq ClassNames \X ResourceParts,
             pods' \subseteq {c \in ClassNames : <<c, "deployment">> \in provisioned'}
      PROVE  CutTyped'
  BY <1>1 DEF GatewayTyped, OperIdle
<1>2. CASE EditGateway
  <2>1. PICK r \in {"yes", "no"}, c \in ClassNames : gobj' = [gobj EXCEPT !.gen = @ + 1, !.ref = r, !.cls = c]
    BY <1>2 DEF EditGateway
  <2>2. GatewayTyped(gobj)' BY <1>0, <2>1 DEF GatewayTyped, IsGateway
  <2>3. UNCHANGED <<gseen, oper, classRef, params, badRoute, vipUp, rebuildDue, keyDue, provisioned, pods>>
    BY <1>2 DEF EditGateway, EditRest
  <2>4. GatewayTyped(gseen)' BY <2>3 DEF GatewayTyped
  <2> QED BY <1>1, <2>2, <2>3, <2>4
<1>3. CASE DeleteGateway
  <2>1. GatewayTyped(gobj)' BY <1>0, <1>3 DEF DeleteGateway, GatewayTyped, IsGateway
  <2> QED BY <1>1, <1>3, <2>1 DEF DeleteGateway, EditRest, GatewayTyped
<1>4. CASE EditParams \/ EditRoute \/ \E c \in ClassNames : EditClass(c)
  <2>1. /\ classRef' \in [ClassNames -> {"yes", "no"}] /\ {params, rebuildDue}' \subseteq {"yes", "no"}
        /\ badRoute' \in {"none", "own", "other"}
    BY <1>4, <1>0 DEF EditParams, EditRoute, EditClass
  <2> QED BY <1>0, <1>1, <1>4, <2>1 DEF EditParams, EditRoute, EditClass, EditRest, GatewayTyped
<1>5. CASE DeliverObject \/ RebuildCells \/ VipFollows
  BY <1>0, <1>1, <1>5 DEF DeliverObject, RebuildCells, VipFollows, GatewayTyped
<1>6. CASE \E p \in Planes : PlaneStep(p)
  BY <1>0, <1>1, <1>6 DEF PlaneStep, ApplyView, ReportPorts, PlaneRest, GatewayTyped
<1>7. ASSUME NEW c \in ClassNames, PodReady(c) PROVE CutTyped'
  BY <1>0, <1>1, <1>7 DEF PodReady, PlaneRest, GatewayTyped
<1>8. ASSUME NEW c \in ClassNames, CollectGarbage(c) PROVE CutTyped'
  <2>1. pods' \subseteq {d \in ClassNames : <<d, "deployment">> \in provisioned'}
    BY <1>8 DEF CollectGarbage, Stopped, ResourceParts
  <2>2. provisioned' \subseteq ClassNames \X ResourceParts
    BY <1>8 DEF CollectGarbage
  <2> QED BY <1>0, <1>1, <1>8, <2>1, <2>2 DEF CollectGarbage, HandlerRest, GatewayTyped
<1>9. ASSUME NEW c \in ClassNames, PodLost(c) PROVE CutTyped'
  BY <1>0, <1>1, <1>9 DEF PodLost, Stopped, PlaneRest, GatewayTyped
<1>10. CASE OperatorFails
  BY <1>0, <1>1, <1>10 DEF OperatorFails, Finish, HandlerRest, PlanesKept, GatewayTyped
<1>11. CASE FailOver
  BY <1>0, <1>1, <1>11 DEF FailOver, GatewayTyped
<1> QED BY <1>2, <1>3, <1>4, <1>5, <1>6, <1>7, <1>8, <1>9, <1>10, <1>11 DEF CutSurroundings, ClusterStep

\* The handler writes conditions of its own, and resources of the class it read.
LEMMA CutTypedHandler ==
  ASSUME CutInv, CutTyped, HandlerStep
  PROVE  CutTyped'
<1> USE DEF CutTyped, CutTypeOK
<1>0. IsGateway(gobj) /\ GatewayTyped(gobj) /\ IsOperator(oper) /\ \A b : YN(b) \in {"yes", "no"}
  BY DEF CutInv, CutShapes, GatewayTyped, YN
<1>a. UNCHANGED <<gseen, classRef, params, badRoute, vipUp, rebuildDue>>
  BY DEF HandlerStep, TakeKey, FinalizeDeleted, NeverOurs, ClearStatus, AwaitPool, DeleteDeployment, DeleteService,
         RemoveFinalizer, RejectParams, AddFinalizer, ApplyService, ApplyDeployment, Judge, PatchStatus, StepRest, HandlerRest
<1>1. ASSUME GatewayTyped(gobj)', keyDue' \in {"yes", "no"},
             oper'.pc # "idle" => GatewayTyped(oper.gw)',
             oper'.pc = "patch" => oper'.want.prog.st \in {"True", "Pending"} /\ oper'.want.dpr.st \in {"True", "False"},
             provisioned' \subseteq ClassNames \X ResourceParts,
             pods' \subseteq {c \in ClassNames : <<c, "deployment">> \in provisioned'}
      PROVE  CutTyped'
  BY <1>a, <1>1 DEF GatewayTyped
<1>2. ASSUME NEW again, Finish(again) PROVE keyDue' \in {"yes", "no"} /\ oper'.pc = "idle"
  BY <1>0, <1>2 DEF Finish, OperIdle
<1>3. ASSUME NEW new, Patched(new), GatewayTyped(new) PROVE GatewayTyped(gobj)'
  BY <1>0, <1>3 DEF Patched, GatewayTyped
<1>4. ASSUME GatewayTyped(gobj)', oper'.pc = "idle", keyDue' \in {"yes", "no"}, UNCHANGED <<pods, provisioned>>
      PROVE  CutTyped'
  BY <1>1, <1>4
<1>5. CASE TakeKey
  <2>1. GatewayTyped(gobj)'
    <3>1. SharedVerdict(gseen).st \in {"True", "Pending"}
      BY DEF SharedVerdict, ProgrammedOf, Cond
    <3> QED BY <1>0, <1>5, <3>1 DEF TakeKey, GatewayTyped, IsGateway
  <2>2. oper'.pc = "start" /\ oper'.gw = gseen /\ keyDue' \in {"yes", "no"} /\ UNCHANGED <<pods, provisioned>>
    BY <1>0, <1>5 DEF TakeKey, PlanesKept
  <2> QED BY <1>1, <1>a, <2>1, <2>2 DEF GatewayTyped
<1>6. CASE FinalizeDeleted
  <2>1. GatewayTyped(gobj)' BY <1>0, <1>6 DEF FinalizeDeleted, GatewayTyped, IsGateway
  <2> QED BY <1>2, <1>4, <1>6, <2>1 DEF FinalizeDeleted, PlanesKept
<1>7. CASE NeverOurs \/ AwaitPool
  <2>1. GatewayTyped(gobj)' BY <1>0, <1>7 DEF NeverOurs, AwaitPool, GatewayTyped
  <2> QED BY <1>2, <1>4, <1>7, <2>1 DEF NeverOurs, AwaitPool, PlanesKept
<1>8. CASE ClearStatus
  <2>1. GatewayTyped([gobj EXCEPT !.prog = NoCond, !.dpr = NoCond]) BY <1>0 DEF GatewayTyped, IsGateway, NoCond, Cond
  <2> QED BY <1>2, <1>3, <1>4, <1>8, <2>1 DEF ClearStatus, PlanesKept
<1>9. CASE RemoveFinalizer
  <2>1. GatewayTyped([gobj EXCEPT !.fin = "no", !.exists = IF gobj.exists = "deleting" THEN "gone" ELSE @])
    BY <1>0 DEF GatewayTyped, IsGateway
  <2> QED BY <1>2, <1>3, <1>4, <1>9, <2>1 DEF RemoveFinalizer, PlanesKept
<1>10. CASE RejectParams
  <2>1. GatewayTyped([gobj EXCEPT !.prog = ProgrammedOf(oper.gw, "Invalid"), !.dpr = Cond("False", oper.gw.gen)])
    BY <1>0 DEF GatewayTyped, IsGateway, ProgrammedOf, Cond
  <2> QED BY <1>2, <1>3, <1>4, <1>10, <2>1 DEF RejectParams, PlanesKept
<1>11. CASE AddFinalizer
  <2>1. GatewayTyped([gobj EXCEPT !.fin = "yes"]) BY <1>0 DEF GatewayTyped, IsGateway
  <2> QED BY <1>2, <1>3, <1>4, <1>11, <2>1 DEF AddFinalizer, PlanesKept
<1>12. CASE PatchStatus
  <2>1. GatewayTyped([gobj EXCEPT !.prog = oper.want.prog, !.dpr = oper.want.dpr])
    BY <1>0, <1>12 DEF GatewayTyped, IsGateway, PatchStatus, At
  <2>2. GatewayTyped(gobj)' BY <1>0, <1>3, <1>12, <2>1 DEF PatchStatus, GatewayTyped
  <2> QED BY <1>2, <1>4, <1>12, <2>2 DEF PatchStatus, PlanesKept
<1>13. CASE Judge
  <2>1. GatewayTyped(oper.gw) /\ oper'.pc = "patch" /\ oper'.gw = oper.gw
    BY <1>0, <1>13 DEF Judge, At, IsOperator
  <2>2. oper'.want.prog.st \in {"True", "Pending"} /\ oper'.want.dpr.st \in {"True", "False"}
    BY <1>0, <1>13 DEF Judge, IsOperator, ProgrammedOf, DedicatedVerdict, Cond
  <2> QED BY <1>0, <1>1, <1>13, <2>1, <2>2 DEF Judge, PlanesKept, GatewayTyped
<1>14. ASSUME NEW pc, pc \notin {"idle", "patch"}, oper.pc # "idle", Goto(pc), UNCHANGED <<gobj, keyDue>>,
              provisioned' \subseteq ClassNames \X ResourceParts,
              pods' \subseteq {c \in ClassNames : <<c, "deployment">> \in provisioned'}
       PROVE  CutTyped'
  <2>1. oper'.pc = pc /\ oper'.gw = oper.gw BY <1>0, <1>14 DEF Goto, IsOperator
  <2> QED BY <1>0, <1>1, <1>14, <2>1 DEF GatewayTyped
<1>15. CASE DeleteDeployment
  <2>1. oper.pc = "start" /\ Goto("deleteService") /\ UNCHANGED <<gobj, keyDue>>
        /\ provisioned' = provisioned \ {<<oper.gw.cls, "deployment">>} /\ pods' = pods \ {oper.gw.cls}
    BY <1>15 DEF DeleteDeployment, Leaving, Alive, At, Stopped
  <2> QED BY <1>14, <2>1
<1>16. CASE DeleteService
  <2>1. oper.pc = "deleteService" /\ Goto("unfinalize") /\ UNCHANGED <<gobj, keyDue, pods>>
        /\ provisioned' = provisioned \ {<<oper.gw.cls, "service">>}
    BY <1>16 DEF DeleteService, At, PlanesKept
  <2> QED BY <1>14, <2>1
<1>17. CASE ApplyService \/ ApplyDeployment
  <2>1. oper.pc \in {"start", "applyDeployment"} /\ (Goto("applyDeployment") \/ Goto("judge")) /\ UNCHANGED <<gobj, keyDue, pods>>
        /\ \E piece \in ResourceParts : provisioned' = provisioned \cup {<<oper.gw.cls, piece>>}
    BY <1>17 DEF ApplyService, ApplyDeployment, Entering, Alive, At, PlanesKept, ResourceParts
  <2>2. oper.gw.cls \in ClassNames BY <2>1 DEF GatewayTyped
  <2> QED BY <1>14, <2>1, <2>2
<1> QED BY <1>5, <1>6, <1>7, <1>8, <1>9, <1>10, <1>11, <1>12, <1>13, <1>15, <1>16, <1>17 DEF HandlerStep

\* The type invariant of DedicatedCutover; with it, a proxy is Ready only where its
\* Deployment is.
THEOREM CutTypes == CutSpec => []CutTypeOK
<1>1. CutInit => CutTyped
  <2> SUFFICES ASSUME NEW c \in ClassNames, NEW m \in {"shared", "dedicated"}, SettledIn(m, c) PROVE CutTyped
    BY DEF CutInit
  <2> QED BY DEF SettledIn, CutTyped, CutTypeOK, GatewayTyped, YN, Cond, NoCond, OperIdle, ResourceParts
<1>2. CutInv /\ CutTyped /\ [CutNext]_cutVars => CutTyped'
  <2> SUFFICES ASSUME CutInv, CutTyped, [CutNext]_cutVars PROVE CutTyped'
    OBVIOUS
  <2>1. CASE UNCHANGED cutVars
    BY <2>1 DEF cutVars, CutTyped, CutTypeOK, GatewayTyped
  <2> QED BY <2>1, CutTypedOutside, CutTypedHandler DEF CutNext
<1>3. CutTyped => CutTypeOK
  BY DEF CutTyped
<1> QED BY <1>1, <1>2, <1>3, CutAlways, PTL DEF CutSpec

(***************************************************************************)
(* The relay of a namespace                                                *)
(***************************************************************************)

Directives == Upstreams \cup {"none"}
RecordType == [state : {"none", "Provisioning", "Active", "Draining"}, below : {"no", "waiting", "expired"}]
RelayType == [stream : {"down", "open", "synced"}, last : Directives, loaded : {"yes", "no"},
              retained : Directives, inbox : Seq(Upstreams)]
LeafType == [at : Upstreams, on : Directives, last : Directives,
             inbox : Seq(Upstreams \cup {"snapshot"}), applied : {"yes", "no"}]

LifeShapes ==
  /\ threshold \in Thresholds
  /\ mode \in {"auto", "on", "off", "gone"}
  /\ record \in RecordType
  /\ relayPass \in [pc : {"idle", "call", "publish"}, act : {"none", "apply", "delete"}, next : RecordType]
  /\ relaySets \in [authz : {"yes", "no"}, active : {"yes", "no"}]
  /\ deployed \in {"yes", "no", "stray"}
  /\ relay \in RelayType
  /\ leaf \in [Proxies -> LeafType]
  /\ folded \subseteq Proxies

\* The record, the Deployment, the relay and the published sets, at every place of the pass.
Tracked ==
  /\ record.state = "none" => record = NoRecord /\ deployed # "yes"
  /\ record.state = "Active" => deployed = "yes"
  /\ deployed = "stray" => record = NoRecord /\ relaySets.authz = "no"
  /\ deployed # "yes" => relay = NoRelay
  /\ relay.stream # "down" => relaySets.authz = "yes"
  /\ relay.stream = "synced" => relay.loaded = "yes"
  /\ relayPass.pc # "publish" => relaySets = Published(record)
  /\ relaySets.active = "yes" => relaySets.authz = "yes" /\ deployed = "yes" /\ record.state \in {"Active", "Draining"}
  /\ relayPass.pc = "call" =>
       \/ relayPass.act = "apply" /\ record.state = "none" /\ relayPass.next.state = "Provisioning"
       \/ relayPass.act = "delete" /\ record.state \in {"Provisioning", "Draining"}

\* The last directive of a channel is the last one sent; without one on its way the leaf has
\* followed it.
AllSnapshots(s) == \A i \in 1 .. Len(s) : s[i] = "snapshot"
EndsWith(s, last, at) ==
  /\ \A i \in 1 .. Len(s) :
       s[i] # "snapshot" /\ (\A j \in i + 1 .. Len(s) : s[j] = "snapshot") => s[i] = last
  /\ AllSnapshots(s) => last \in {"none", at}

LeafFollows(l) ==
  /\ Len(l.inbox) <= Capacity
  /\ l.on = "none" => l.inbox = <<>>
  /\ l.on # "none" =>
       /\ l.on = l.at
       /\ l.applied = "yes" \/ \E i \in 1 .. Len(l.inbox) : l.inbox[i] = "snapshot"
       /\ EndsWith(l.inbox, l.last, l.at)

\* Behind a relay that has loaded; what it retains is never forgotten under an open stream.
Behind(l, r) == l.on = "relay" => r.loaded = "yes" /\ (l.last # "none" => r.retained # "none")

LeavesFollow == \A p \in Proxies : LeafFollows(leaf[p]) /\ Behind(leaf[p], relay)

LifeInv == LifeShapes /\ Tracked /\ LeavesFollow

-----------------------------------------------------------------------------
(* Channels *)

Messages == Upstreams \cup {"snapshot"}

LEMMA ChannelSends ==
  ASSUME NEW s \in Seq(Messages), NEW d \in Upstreams, NEW at
  PROVE  /\ Append(s, d) \in Seq(Messages) /\ Len(Append(s, d)) = Len(s) + 1
         /\ EndsWith(Append(s, d), d, at)
         /\ (\E i \in 1 .. Len(s) : s[i] = "snapshot")
              => \E i \in 1 .. Len(Append(s, d)) : Append(s, d)[i] = "snapshot"
<1> DEFINE t == Append(s, d)
<1>1. t \in Seq(Messages) /\ Len(t) = Len(s) + 1 /\ t[Len(s) + 1] = d /\ \A i \in 1 .. Len(s) : t[i] = s[i]
  BY DEF Messages
<1>2. Len(s) \in Nat /\ d # "snapshot"
  BY DEF Upstreams
<1>3. ASSUME NEW i \in 1 .. Len(t), t[i] # "snapshot", \A j \in i + 1 .. Len(t) : t[j] = "snapshot"
      PROVE  t[i] = d
  <2>1. CASE i = Len(t) BY <1>1, <2>1
  <2>2. CASE i # Len(t)
    <3>1. Len(t) \in i + 1 .. Len(t) BY <1>1, <1>2, <2>2
    <3> QED BY <1>1, <1>2, <1>3, <3>1
  <2> QED BY <2>1, <2>2
<1>4. ~AllSnapshots(t)
  BY <1>1, <1>2 DEF AllSnapshots
<1>5. EndsWith(t, d, at)
  BY <1>3, <1>4 DEF EndsWith
<1>6. ASSUME NEW i \in 1 .. Len(s), s[i] = "snapshot" PROVE \E k \in 1 .. Len(t) : t[k] = "snapshot"
  BY <1>1, <1>2, <1>6
<1> QED BY <1>1, <1>5, <1>6

LEMMA ChannelReads ==
  ASSUME NEW s \in Seq(Messages), s # <<>>, NEW last, NEW at, EndsWith(s, last, at), Head(s) \in {"snapshot", at}
  PROVE  /\ Tail(s) \in Seq(Messages) /\ Len(Tail(s)) = Len(s) - 1
         /\ EndsWith(Tail(s), last, at)
         /\ (\E i \in 1 .. Len(s) : s[i] = "snapshot") /\ Head(s) # "snapshot"
              => \E i \in 1 .. Len(Tail(s)) : Tail(s)[i] = "snapshot"
<1> DEFINE t == Tail(s)
<1>1. t \in Seq(Messages) /\ Len(t) = Len(s) - 1 /\ Head(s) = s[1] /\ \A i \in 1 .. Len(t) : t[i] = s[i + 1]
  OBVIOUS
<1>2. Len(s) \in Nat /\ Len(s) > 0
  OBVIOUS
<1>3. ASSUME NEW i \in 1 .. Len(t), t[i] # "snapshot", \A j \in i + 1 .. Len(t) : t[j] = "snapshot"
      PROVE  t[i] = last
  <2>1. i + 1 \in 1 .. Len(s) /\ s[i + 1] # "snapshot"
    BY <1>1, <1>2, <1>3
  <2>2. ASSUME NEW j \in (i + 1) + 1 .. Len(s) PROVE s[j] = "snapshot"
    <3>1. j - 1 \in i + 1 .. Len(t) /\ j - 1 \in 1 .. Len(t) /\ t[j - 1] = s[(j - 1) + 1]
      BY <1>1, <1>2
    <3>2. (j - 1) + 1 = j OBVIOUS
    <3> QED BY <1>3, <3>1, <3>2
  <2>3. s[i + 1] = last
    BY <2>1, <2>2 DEF EndsWith
  <2> QED BY <1>1, <2>3
<1>4. ASSUME AllSnapshots(t) PROVE last \in {"none", at}
  <2>1. ASSUME NEW j \in 2 .. Len(s) PROVE s[j] = "snapshot"
    <3>1. j - 1 \in 1 .. Len(t) /\ t[j - 1] = s[(j - 1) + 1]
      BY <1>1, <1>2
    <3>2. (j - 1) + 1 = j OBVIOUS
    <3> QED BY <1>4, <3>1, <3>2 DEF AllSnapshots
  <2>2. CASE Head(s) = "snapshot"
    <3>1. ASSUME NEW j \in 1 .. Len(s) PROVE s[j] = "snapshot"
      <4>1. CASE j = 1 BY <1>1, <2>2, <4>1
      <4>2. CASE j # 1
        <5>1. j \in 2 .. Len(s) BY <4>2
        <5> QED BY <2>1, <5>1
      <4> QED BY <4>1, <4>2
    <3> QED BY <3>1 DEF EndsWith, AllSnapshots
  <2>3. CASE Head(s) # "snapshot"
    <3>1. 1 \in 1 .. Len(s) /\ 1 + 1 = 2 BY <1>2
    <3>2. s[1] = last
      BY <1>1, <2>1, <2>3, <3>1 DEF EndsWith
    <3> QED BY <1>1, <2>3, <3>2
  <2> QED BY <2>2, <2>3
<1>5. EndsWith(t, last, at)
  BY <1>3, <1>4 DEF EndsWith
<1>6. ASSUME NEW i \in 1 .. Len(s), s[i] = "snapshot", Head(s) # "snapshot"
      PROVE  \E k \in 1 .. Len(t) : t[k] = "snapshot"
  <2>1. i # 1 BY <1>1, <1>6
  <2>2. i - 1 \in 1 .. Len(t) /\ t[i - 1] = s[(i - 1) + 1] BY <1>1, <1>2, <2>1
  <2>3. (i - 1) + 1 = i OBVIOUS
  <2> QED BY <1>6, <2>2, <2>3
<1> QED BY <1>1, <1>5, <1>6

LEMMA ChannelOpens ==
  ASSUME NEW told, NEW at
  PROVE  /\ told \in Upstreams => EndsWith(<<told, "snapshot">>, told, at)
         /\ told \in {"none", at} => EndsWith(<<"snapshot">>, told, at)
<1>1. ASSUME told \in Upstreams PROVE EndsWith(<<told, "snapshot">>, told, at)
  <2>1. told # "snapshot" BY <1>1 DEF Upstreams
  <2> QED BY <2>1 DEF EndsWith, AllSnapshots
<1>2. ASSUME told \in {"none", at} PROVE EndsWith(<<"snapshot">>, told, at)
  BY <1>2 DEF EndsWith, AllSnapshots
<1> QED BY <1>1, <1>2

-----------------------------------------------------------------------------
(* The pass *)

LEMMA LifeInitially == LifeInit => LifeInv
<1> SUFFICES ASSUME LifeInit PROVE LifeInv
  OBVIOUS
<1>1. LifeShapes
  BY DEF LifeInit, LifeShapes, RecordType, RelayType, LeafType, Directives, Upstreams, NoRecord, Idle, NoRelay, NewProxy
<1>2. Tracked
  BY DEF LifeInit, Tracked, NoRecord, Idle, NoRelay, Published
<1>3. LeavesFollow
  BY CapacityAssumption DEF LifeInit, LeavesFollow, LeafFollows, Behind, NewProxy
<1> QED BY <1>1, <1>2, <1>3 DEF LifeInv

LEMMA ObservedKeeps ==
  ASSUME NEW rec \in RecordType
  PROVE  Observed(rec) \in RecordType /\ Observed(rec).state = rec.state
BY DEF Observed, RecordType

LEMMA StoredShape ==
  ASSUME NEW rec \in RecordType, NEW st \in {"none", "Provisioning", "Active", "Draining"}
  PROVE  Stored(rec, st) \in RecordType /\ Stored(rec, st).state = st
<1>1. Fresh(st) \in RecordType /\ Fresh(st).state = st
  BY DEF Fresh, RecordType
<1>2. NoRecord \in RecordType /\ NoRecord.state = "none"
  BY DEF NoRecord, RecordType
<1>3. [rec EXCEPT !.state = st] \in RecordType /\ [rec EXCEPT !.state = st].state = st
  BY DEF RecordType
<1> QED BY <1>1, <1>2, <1>3, ObservedKeeps DEF Stored

\* What RelayRecord::decide can answer in each state; a relay is found Ready only while its
\* Deployment is there.
LEMMA Decisions ==
  ASSUME LifeShapes, Tracked, NEW rec \in RecordType
  PROVE  LET d == Decide(rec) IN
         /\ rec.state = "none" => d \in {<<"apply", "Provisioning">>, <<"none", "none">>}
         /\ rec.state = "Provisioning" => d \in {<<"delete", "none">>, <<"none", "Provisioning">>, <<"none", "Active">>}
         /\ rec.state = "Active" => d \in {<<"none", "Draining">>, <<"none", "Active">>}
         /\ rec.state = "Draining" => d \in {<<"delete", "none">>, <<"none", "Draining">>, <<"none", "Active">>}
         /\ d[2] = "Active" /\ rec.state # "Active" => deployed = "yes"
<1>1. Ready => deployed = "yes"
  BY DEF Ready, Tracked, NoRelay
<1>2. rec.state \in {"none", "Provisioning", "Active", "Draining"}
  BY DEF RecordType
<1>3. CASE rec.state = "none" BY <1>3 DEF Decide
<1>4. CASE rec.state = "Provisioning" BY <1>1, <1>4 DEF Decide
<1>5. CASE rec.state = "Active" BY <1>5 DEF Decide
<1>6. CASE rec.state = "Draining" BY <1>1, <1>6 DEF Decide
<1> QED BY <1>2, <1>3, <1>4, <1>5, <1>6

LEMMA ReadStep == ASSUME LifeInv, PassRead PROVE LifeInv'
<1> DEFINE rec == Observed(record)
           d == Decide(rec)
           next == Stored(rec, d[2])
<1>0. LifeShapes /\ Tracked /\ LeavesFollow BY DEF LifeInv
<1>1. rec \in RecordType /\ rec.state = record.state
  BY <1>0, ObservedKeeps DEF LifeShapes
<1>2. /\ record.state = "none" => d \in {<<"apply", "Provisioning">>, <<"none", "none">>}
      /\ record.state = "Provisioning" => d \in {<<"delete", "none">>, <<"none", "Provisioning">>, <<"none", "Active">>}
      /\ record.state = "Active" => d \in {<<"none", "Draining">>, <<"none", "Active">>}
      /\ record.state = "Draining" => d \in {<<"delete", "none">>, <<"none", "Draining">>, <<"none", "Active">>}
      /\ d[2] = "Active" /\ record.state # "Active" => deployed = "yes"
  BY <1>0, <1>1, Decisions
<1>3. record.state \in {"none", "Provisioning", "Active", "Draining"}
  BY <1>0 DEF LifeShapes, RecordType
<1>4. d[2] \in {"none", "Provisioning", "Active", "Draining"}
  BY <1>2, <1>3
<1>5. next \in RecordType /\ next.state = d[2] /\ (d[2] = "none" => next = NoRecord)
  BY <1>1, <1>4, StoredShape DEF Stored
<1>6. UNCHANGED <<threshold, mode, relaySets, deployed, relay, leaf, folded>> /\ relaySets = Published(record)
  BY <1>0 DEF PassRead, Tracked
<1>7. LeavesFollow'
  BY <1>0, <1>6 DEF LeavesFollow
<1> HIDE DEF rec, d, next
<1>8. CASE d[1] = "none" /\ record' = next /\ relayPass' = [Idle EXCEPT !.pc = "publish"]
  <2>1. LifeShapes'
    BY <1>0, <1>5, <1>6, <1>8 DEF LifeShapes, Idle, NoRecord, RecordType
  <2>2. relayPass'.pc = "publish"
    BY <1>8 DEF Idle
  <2>3. /\ record'.state = "none" => record' = NoRecord /\ record.state = "none"
        /\ record'.state = "Active" => deployed = "yes"
        /\ record.state \in {"Active", "Draining"} => record'.state \in {"Active", "Draining"}
        /\ record.state = "none" => record'.state = "none"
    BY <1>0, <1>2, <1>3, <1>5, <1>8 DEF Tracked
  <2>4. deployed = "stray" => record.state = "none"
    BY <1>0 DEF Tracked, NoRecord
  <2>5. Tracked'
    BY <1>0, <1>6, <2>2, <2>3, <2>4 DEF Tracked
  <2> QED BY <1>7, <2>1, <2>5 DEF LifeInv
<1>9. CASE d[1] # "none" /\ record' = record /\ relayPass' = [pc |-> "call", act |-> d[1], next |-> next]
  <2>1. d[1] \in {"apply", "delete"}
    BY <1>2, <1>3, <1>9
  <2>2. LifeShapes'
    BY <1>0, <1>5, <1>6, <1>9, <2>1 DEF LifeShapes
  <2>3. \/ d[1] = "apply" /\ record.state = "none" /\ next.state = "Provisioning"
        \/ d[1] = "delete" /\ record.state \in {"Provisioning", "Draining"}
    BY <1>2, <1>3, <1>5, <1>9
  <2>4. Tracked'
    BY <1>0, <1>6, <1>9, <2>3 DEF Tracked, Published
  <2> QED BY <1>7, <2>2, <2>4 DEF LifeInv
<1> QED BY <1>8, <1>9 DEF PassRead, rec, d, next

LEMMA ClosedFollows ==
  ASSUME NEW l \in LeafType
  PROVE  Closed(l) \in LeafType /\ Closed(l).on = "none" /\ Closed(l).at = l.at /\ LeafFollows(Closed(l))
<1>1. Closed(l).on = "none" /\ Closed(l).inbox = <<>> /\ Closed(l).at = l.at
  BY DEF Closed, LeafType
<1>2. <<>> \in Seq(Upstreams \cup {"snapshot"}) /\ Len(<<>>) = 0
  OBVIOUS
<1>3. Closed(l) \in LeafType
  BY <1>2 DEF Closed, LeafType, Directives
<1> QED BY <1>1, <1>2, <1>3, CapacityAssumption DEF LeafFollows

\* What CutOff leaves of the leaves.
LEMMA CutOffKeeps ==
  ASSUME LifeInv, CutOff
  PROVE  /\ relay' = NoRelay /\ relay' \in RelayType /\ folded' \subseteq Proxies
         /\ leaf' \in [Proxies -> LeafType] /\ LeavesFollow'
<1>1. relay' = NoRelay /\ relay' \in RelayType /\ folded' \subseteq Proxies
  BY DEF CutOff, NoRelay, RelayType, Directives
<1>2. ASSUME NEW p \in Proxies
      PROVE  leaf'[p] \in LeafType /\ LeafFollows(leaf'[p]) /\ leaf'[p].on # "relay"
  <2>1. leaf[p] \in LeafType /\ LeafFollows(leaf[p])
    BY DEF LifeInv, LifeShapes, LeavesFollow
  <2>2. CASE leaf[p].on = "relay"
    <3>1. leaf'[p] = Closed(leaf[p])
      BY <2>2 DEF CutOff
    <3> QED BY <2>1, <3>1, ClosedFollows
  <2>3. CASE leaf[p].on # "relay"
    BY <2>1, <2>3 DEF CutOff
  <2> QED BY <2>2, <2>3
<1>3. leaf' \in [Proxies -> LeafType]
  <2>1. leaf' = [p \in Proxies |-> leaf'[p]] BY DEF CutOff
  <2> QED BY <1>2, <2>1
<1> QED BY <1>1, <1>2, <1>3 DEF LeavesFollow, Behind

LEMMA CallStep == ASSUME LifeInv, Provision \/ Delete \/ CallFails PROVE LifeInv'
<1>0. LifeShapes /\ Tracked /\ LeavesFollow /\ relayPass.pc = "call"
  BY DEF LifeInv, Provision, Delete, CallFails
<1>1. relaySets = Published(record) /\ relayPass' = [Idle EXCEPT !.pc = "publish"]
      /\ UNCHANGED <<threshold, mode, relaySets>>
  BY <1>0 DEF Tracked, Provision, Delete, CallFails
<1>2. relayPass' \in [pc : {"idle", "call", "publish"}, act : {"none", "apply", "delete"}, next : RecordType]
      /\ relayPass'.pc = "publish"
  BY <1>1 DEF Idle, NoRecord, RecordType
<1>3. CASE Provision
  <2>1. record' = relayPass.next /\ record'.state = "Provisioning" /\ deployed' = "yes" /\ UNCHANGED <<relay, leaf, folded>>
        /\ record.state = "none"
    BY <1>0, <1>3 DEF Provision, Tracked
  <2>2. LifeShapes' BY <1>0, <1>1, <1>2, <2>1 DEF LifeShapes
  <2>3. Tracked' BY <1>0, <1>1, <1>2, <2>1 DEF Tracked, Published, NoRelay
  <2>4. LeavesFollow' BY <1>0, <2>1 DEF LeavesFollow
  <2> QED BY <2>2, <2>3, <2>4 DEF LifeInv
<1>4. CASE Delete
  <2>1. record' = NoRecord /\ deployed' = "no" /\ record.state \in {"Provisioning", "Draining"}
    BY <1>0, <1>4 DEF Delete, Tracked
  <2>2. relay' = NoRelay /\ relay' \in RelayType /\ folded' \subseteq Proxies
        /\ leaf' \in [Proxies -> LeafType] /\ LeavesFollow'
    BY <1>4, CutOffKeeps DEF Delete
  <2>3. LifeShapes' BY <1>0, <1>1, <1>2, <2>1, <2>2 DEF LifeShapes, NoRecord, RecordType
  <2>4. Tracked' BY <1>0, <1>1, <1>2, <2>1, <2>2 DEF Tracked, Published, NoRelay, NoRecord
  <2> QED BY <2>2, <2>3, <2>4 DEF LifeInv
<1>5. CASE CallFails
  <2>1. UNCHANGED record BY <1>5 DEF CallFails
  <2>2. CASE UNCHANGED <<deployed, relay, leaf, folded>>
    <3>1. LifeShapes' BY <1>0, <1>1, <1>2, <2>1, <2>2 DEF LifeShapes
    <3>2. Tracked' BY <1>0, <1>1, <1>2, <2>1, <2>2 DEF Tracked
    <3>3. LeavesFollow' BY <1>0, <2>2 DEF LeavesFollow
    <3> QED BY <3>1, <3>2, <3>3 DEF LifeInv
  <2>3. CASE relayPass.act = "apply" /\ deployed' = "stray" /\ UNCHANGED <<relay, leaf, folded>>
    <3>1. LifeShapes' BY <1>0, <1>1, <1>2, <2>1, <2>3 DEF LifeShapes
    <3>2. record = NoRecord /\ deployed # "yes" /\ relay = NoRelay
      BY <1>0, <2>3 DEF Tracked
    <3>3. Tracked' BY <1>0, <1>1, <1>2, <2>1, <2>3, <3>2 DEF Tracked, Published, NoRecord, NoRelay
    <3>4. LeavesFollow' BY <1>0, <2>3 DEF LeavesFollow
    <3> QED BY <3>1, <3>3, <3>4 DEF LifeInv
  <2>4. CASE relayPass.act = "delete" /\ deployed' = "no" /\ CutOff
    <3>1. relay' = NoRelay /\ relay' \in RelayType /\ folded' \subseteq Proxies
          /\ leaf' \in [Proxies -> LeafType] /\ LeavesFollow'
      BY <2>4, CutOffKeeps
    <3>2. LifeShapes' BY <1>0, <1>1, <1>2, <2>1, <2>4, <3>1 DEF LifeShapes
    <3>3. record.state \in {"Provisioning", "Draining"}
      BY <1>0, <2>4 DEF Tracked
    <3>4. Tracked' BY <1>0, <1>1, <1>2, <2>1, <2>4, <3>1, <3>3 DEF Tracked, Published, NoRelay
    <3> QED BY <3>1, <3>2, <3>4 DEF LifeInv
  <2> QED BY <1>5, <2>2, <2>3, <2>4 DEF CallFails
<1> QED BY <1>3, <1>4, <1>5

LEMMA PublishStep == ASSUME LifeInv, PublishSets PROVE LifeInv'
<1>1. LifeShapes /\ Tracked /\ LeavesFollow BY DEF LifeInv
<1>2. /\ relaySets' = Published(record) /\ relayPass' = Idle
      /\ UNCHANGED <<threshold, mode, record, deployed, relay, leaf, folded>>
  BY DEF PublishSets
<1>3. LifeShapes' BY <1>1, <1>2 DEF LifeShapes, Published, Idle, NoRecord, RecordType
<1>4. Tracked' BY <1>1, <1>2 DEF Tracked, Published, Idle, NoRecord, NoRelay
<1>5. LeavesFollow' BY <1>1, <1>2 DEF LeavesFollow
<1> QED BY <1>3, <1>4, <1>5 DEF LifeInv

LEMMA QuietStep ==
  ASSUME LifeInv, mode' \in {"auto", "on", "off", "gone"},
         record' \in RecordType, record'.state = record.state, record.state = "none" => record' = record,
         UNCHANGED <<threshold, relayPass, relaySets, deployed, relay, leaf, folded>>
  PROVE  LifeInv'
<1>1. LifeShapes /\ Tracked /\ LeavesFollow BY DEF LifeInv
<1>2. LifeShapes' BY <1>1 DEF LifeShapes
<1>3. Published(record') = Published(record) BY DEF Published
<1>4. Tracked' BY <1>1, <1>3 DEF Tracked, NoRecord
<1>5. LeavesFollow' BY <1>1 DEF LeavesFollow
<1> QED BY <1>2, <1>4, <1>5 DEF LifeInv

LEMMA UnpluggedType ==
  ASSUME NEW r \in RelayType
  PROVE  /\ Unplugged(r) \in RelayType /\ Unplugged(r).stream = "down"
         /\ Unplugged(r).loaded = r.loaded /\ Unplugged(r).retained = r.retained
         /\ r = NoRelay => Unplugged(r) = NoRelay
<1>1. <<>> \in Seq(Upstreams) /\ "none" \in Directives BY DEF Directives
<1>2. r.loaded \in {"yes", "no"} /\ r.retained \in Directives BY DEF RelayType
<1>3. Unplugged(r) \in RelayType BY <1>1 DEF Unplugged, RelayType
<1>4. Unplugged(r).stream = "down" /\ Unplugged(r).loaded = r.loaded /\ Unplugged(r).retained = r.retained
  BY DEF Unplugged, RelayType
<1>5. Unplugged(NoRelay) = NoRelay
  <2>1. ASSUME NEW e, NEW u, u = [stream |-> "down", last |-> "none", loaded |-> "no", retained |-> "none", inbox |-> e]
        PROVE  [u EXCEPT !.stream = "down", !.last = "none", !.inbox = e] = u
    <3> DEFINE v == [u EXCEPT !.stream = "down", !.last = "none", !.inbox = e]
    <3>1. u = [x \in DOMAIN u |-> u[x]] /\ v = [x \in DOMAIN u |-> v[x]] BY <2>1
    <3>2. u.stream = "down" /\ u.last = "none" /\ u.inbox = e BY <2>1
    <3>3. \A x \in DOMAIN u : v[x] = u[x] BY <3>2
    <3>4. v = u
      <4> HIDE DEF v
      <4> QED BY <3>1, <3>3
    <3> QED BY <3>4
  <2> QED BY <2>1 DEF Unplugged, NoRelay
<1> QED BY <1>3, <1>4, <1>5

LEMMA PromoteStep == ASSUME LifeInv, Promote PROVE LifeInv'
<1>1. LifeShapes /\ Tracked /\ LeavesFollow BY DEF LifeInv
<1>2. record' \in RecordType /\ record' = Rehydrated /\ relaySets' = Published(Rehydrated) /\ relayPass' = Idle
  BY DEF Promote, Rehydrated, Fresh, NoRecord, RecordType
<1>3. relay' = Unplugged(relay) /\ relay' \in RelayType /\ relay'.stream = "down"
      /\ relay'.loaded = relay.loaded /\ relay'.retained = relay.retained
      /\ (relay = NoRelay => relay' = NoRelay)
  BY <1>1, UnpluggedType DEF Promote, LifeShapes
<1>4. ASSUME NEW p \in Proxies
      PROVE  leaf'[p] \in LeafType /\ LeafFollows(leaf'[p]) /\ Behind(leaf'[p], relay')
  <2>1. leaf[p] \in LeafType /\ LeafFollows(leaf[p]) /\ Behind(leaf[p], relay)
    BY <1>1 DEF LifeShapes, LeavesFollow
  <2>2. CASE leaf[p].on = "controller"
    <3>1. leaf'[p] = Closed(leaf[p]) BY <2>2 DEF Promote
    <3> QED BY <2>1, <3>1, ClosedFollows DEF Behind
  <2>3. CASE leaf[p].on # "controller"
    <3>1. leaf'[p] = leaf[p] BY <2>3 DEF Promote
    <3> QED BY <1>3, <2>1, <3>1 DEF Behind
  <2> QED BY <2>2, <2>3
<1>5. leaf' \in [Proxies -> LeafType]
  <2>1. leaf' = [p \in Proxies |-> leaf'[p]] BY DEF Promote
  <2> QED BY <1>4, <2>1
<1>6. LifeShapes'
  <2>1. relaySets' \in [authz : {"yes", "no"}, active : {"yes", "no"}]
    BY <1>2 DEF Published
  <2>2. relayPass' \in [pc : {"idle", "call", "publish"}, act : {"none", "apply", "delete"}, next : RecordType]
    BY <1>2 DEF Idle, NoRecord, RecordType
  <2>3. deployed' \in {"yes", "no", "stray"} /\ folded' \subseteq Proxies /\ UNCHANGED <<threshold, mode>>
    BY DEF Promote
  <2> QED BY <1>1, <1>2, <1>3, <1>5, <2>1, <2>2, <2>3 DEF LifeShapes
<1>7. Tracked'
  BY <1>1, <1>2, <1>3 DEF LifeShapes, Tracked, Promote, Published, Rehydrated, Fresh, NoRecord, NoRelay, Idle
<1> QED BY <1>4, <1>6, <1>7 DEF LifeInv, LeavesFollow

-----------------------------------------------------------------------------
(* The relay and the leaves *)

\* A step of the relay that forgets neither its snapshot nor its directive.
LEMMA RelayKeeps ==
  ASSUME LifeInv, relay' \in RelayType, folded' \subseteq Proxies,
         UNCHANGED <<threshold, mode, record, relayPass, relaySets, deployed, leaf>>,
         relay.loaded = "yes" => relay'.loaded = "yes",
         relay.retained # "none" => relay'.retained # "none",
         relay' # relay => deployed = "yes",
         relay'.stream # "down" => relaySets.authz = "yes",
         relay'.stream = "synced" => relay'.loaded = "yes"
  PROVE  LifeInv'
<1>1. LifeShapes /\ Tracked /\ LeavesFollow BY DEF LifeInv
<1>2. LifeShapes' BY <1>1 DEF LifeShapes
<1>3. Tracked' BY <1>1 DEF Tracked
<1>4. LeavesFollow' BY <1>1 DEF LeavesFollow, Behind
<1> QED BY <1>2, <1>3, <1>4 DEF LifeInv

LEMMA TargetUpstream == Target \in Upstreams /\ (LifeInv /\ relay # NoRelay => deployed = "yes")
BY DEF Target, Upstreams, LifeInv, Tracked

LEMMA RelayStep ==
  ASSUME LifeInv, RelayMoves \/ FoldLeaves \/ RelayDrop
  PROVE  LifeInv'
<1>0. LifeShapes /\ Tracked /\ relay \in RelayType /\ relay.inbox \in Seq(Upstreams)
      /\ (relay.stream = "synced" => relay.loaded = "yes") /\ (relay.stream # "down" => relaySets.authz = "yes")
      /\ folded \subseteq Proxies
  BY DEF LifeInv, LifeShapes, Tracked, RelayType
<1>1. CASE RelayConnect
  <2>1. deployed = "yes" /\ relaySets.authz = "yes"
    BY <1>0, <1>1 DEF RelayConnect, LifeShapes, Tracked
  <2>2. relay' = [relay EXCEPT !.stream = "open", !.last = Target,
                    !.inbox = IF Target # RelaySeed THEN <<Target>> ELSE <<>>]
        /\ UNCHANGED <<threshold, mode, record, relayPass, relaySets, deployed, leaf, folded>>
    BY <1>1 DEF RelayConnect, RelayOnly
  <2>3. (IF Target # RelaySeed THEN <<Target>> ELSE <<>>) \in Seq(Upstreams)
    BY TargetUpstream
  <2>4. relay' \in RelayType /\ relay'.stream = "open" /\ relay'.loaded = relay.loaded /\ relay'.retained = relay.retained
    BY <1>0, <2>2, <2>3, TargetUpstream DEF RelayType, Directives
  <2> QED BY <1>0, <2>1, <2>2, <2>4, RelayKeeps
<1>2. CASE RelaySync
  <2>1. relay' = [relay EXCEPT !.stream = "synced", !.loaded = "yes"] /\ relay.stream = "open"
        /\ UNCHANGED <<threshold, mode, record, relayPass, relaySets, deployed, leaf, folded>>
    BY <1>2 DEF RelaySync, RelayOnly
  <2>2. relay' \in RelayType /\ relay'.loaded = "yes" /\ relay'.retained = relay.retained
    BY <1>0, <2>1 DEF RelayType
  <2>3. deployed = "yes"
    BY <2>1, TargetUpstream DEF NoRelay
  <2> QED BY <1>0, <2>1, <2>2, <2>3, RelayKeeps
<1>3. CASE RelayPush
  <2>1. relay' = [relay EXCEPT !.last = Target, !.inbox = Append(@, Target)] /\ relay.stream # "down"
        /\ UNCHANGED <<threshold, mode, record, relayPass, relaySets, deployed, leaf, folded>>
    BY <1>3 DEF RelayPush, RelayOnly
  <2>2. Append(relay.inbox, Target) \in Seq(Upstreams)
    BY <1>0, TargetUpstream
  <2>3. relay' \in RelayType /\ relay'.loaded = relay.loaded /\ relay'.retained = relay.retained /\ relay'.stream = relay.stream
    BY <1>0, <2>1, <2>2, TargetUpstream DEF RelayType, Directives
  <2>4. deployed = "yes"
    BY <2>1, TargetUpstream DEF NoRelay
  <2> QED BY <1>0, <2>1, <2>3, <2>4, RelayKeeps
<1>4. CASE RelayRetain
  <2>1. relay' = [relay EXCEPT !.inbox = Tail(@), !.retained = Head(relay.inbox)] /\ relay.inbox # <<>>
        /\ UNCHANGED <<threshold, mode, record, relayPass, relaySets, deployed, leaf, folded>>
    BY <1>4 DEF RelayRetain, RelayOnly
  <2>2. Tail(relay.inbox) \in Seq(Upstreams) /\ Head(relay.inbox) \in Upstreams
    BY <1>0, <2>1
  <2>3. relay' \in RelayType /\ relay'.loaded = relay.loaded /\ relay'.retained # "none" /\ relay'.stream = relay.stream
    BY <1>0, <2>1, <2>2 DEF RelayType, Directives, Upstreams
  <2>4. deployed = "yes"
    BY <2>1, TargetUpstream DEF NoRelay
  <2> QED BY <1>0, <2>1, <2>3, <2>4, RelayKeeps
<1>5. CASE FoldLeaves
  BY <1>0, <1>5, RelayKeeps DEF FoldLeaves, RelayOnly
<1>6. CASE RelayDrop
  <2>1. relay' = Unplugged(relay) /\ relay.stream # "down" /\ folded' = {}
        /\ UNCHANGED <<threshold, mode, record, relayPass, relaySets, deployed, leaf>>
    BY <1>6 DEF RelayDrop
  <2>2. relay' \in RelayType /\ relay'.loaded = relay.loaded /\ relay'.retained = relay.retained /\ relay'.stream = "down"
    BY <1>0, <2>1, UnpluggedType
  <2>3. deployed = "yes"
    BY <2>1, TargetUpstream DEF NoRelay
  <2> QED BY <2>1, <2>2, <2>3, RelayKeeps
<1> QED BY <1>1, <1>2, <1>3, <1>4, <1>5, <1>6 DEF RelayMoves

LEMMA RestartStep == ASSUME LifeInv, PodRestart PROVE LifeInv'
<1>1. LifeShapes /\ Tracked BY DEF LifeInv
<1>2. relay' = NoRelay /\ relay' \in RelayType /\ folded' \subseteq Proxies
      /\ leaf' \in [Proxies -> LeafType] /\ LeavesFollow'
  BY CutOffKeeps DEF PodRestart
<1>3. UNCHANGED <<threshold, mode, record, relayPass, relaySets, deployed>>
  BY DEF PodRestart
<1>4. LifeShapes' BY <1>1, <1>2, <1>3 DEF LifeShapes
<1>5. Tracked' BY <1>1, <1>2, <1>3 DEF Tracked, NoRelay
<1> QED BY <1>2, <1>4, <1>5 DEF LifeInv

\* A step of one leaf.
LEMMA LeafKeeps ==
  ASSUME LifeInv, NEW p \in Proxies, NEW l \in LeafType, LeafFollows(l), Behind(l, relay),
         leaf' = [leaf EXCEPT ![p] = l],
         UNCHANGED <<threshold, mode, record, relayPass, relaySets, deployed, relay, folded>>
  PROVE  LifeInv'
<1>1. LifeShapes /\ Tracked /\ LeavesFollow BY DEF LifeInv
<1>2. LifeShapes' BY <1>1 DEF LifeShapes
<1>3. Tracked' BY <1>1 DEF Tracked
<1>4. LeavesFollow'
  <2>1. ASSUME NEW q \in Proxies PROVE LeafFollows(leaf'[q]) /\ Behind(leaf'[q], relay')
    BY <1>1 DEF LifeShapes, LeavesFollow
  <2> QED BY <2>1 DEF LeavesFollow
<1> QED BY <1>2, <1>3, <1>4 DEF LifeInv

LEMMA OpenStep ==
  ASSUME LifeInv, NEW p \in Proxies, OpenDirect(p) \/ OpenBehind(p)
  PROVE  LifeInv'
<1> DEFINE up == leaf[p].at
           told == IF up = "controller" THEN Target ELSE relay.retained
           sent == IF up = "controller" THEN Target # "controller" ELSE relay.retained # "none"
           box == IF sent THEN <<told, "snapshot">> ELSE <<"snapshot">>
           l == [at |-> up, on |-> up, applied |-> "no", last |-> told, inbox |-> box]
<1>0. LifeShapes /\ leaf[p] \in LeafType /\ up \in Upstreams /\ relay.retained \in Directives
  BY DEF LifeInv, LifeShapes, LeafType, RelayType
<1>1. leaf' = [leaf EXCEPT ![p] = l] /\ UNCHANGED <<threshold, mode, record, relayPass, relaySets, deployed, relay, folded>>
  BY <1>0 DEF OpenDirect, OpenBehind, Open, LeafOnly, Upstreams
<1>2. up = "relay" => relay.loaded = "yes"
  BY DEF OpenDirect, OpenBehind
<1>3. told \in Directives /\ (sent => told \in Upstreams) /\ (~sent => told \in {"none", up})
  BY <1>0, TargetUpstream DEF Directives, Upstreams
<1>4. box \in Seq(Upstreams \cup {"snapshot"}) /\ Len(box) <= 2 /\ Len(box) >= 1
      /\ \E i \in 1 .. Len(box) : box[i] = "snapshot"
  <2>1. CASE sent
    <3>1. box = <<told, "snapshot">> BY <2>1
    <3>2. told \in Upstreams \cup {"snapshot"} BY <1>3, <2>1
    <3> HIDE DEF told, sent, box
    <3>3. <<told, "snapshot">> \in Seq(Upstreams \cup {"snapshot"}) BY <3>2
    <3>4. box \in Seq(Upstreams \cup {"snapshot"}) /\ Len(box) = 2 /\ box[2] = "snapshot"
      BY <3>1, <3>3
    <3> QED BY <3>4
  <2>2. CASE ~sent
    <3>1. box = <<"snapshot">> BY <2>2
    <3>2. box \in Seq(Upstreams \cup {"snapshot"}) /\ Len(box) = 1 /\ box[1] = "snapshot"
      BY <3>1
    <3> QED BY <3>2
  <2> QED BY <2>1, <2>2
<1>5. EndsWith(box, told, up)
  BY <1>3, ChannelOpens
<1>6. Behind(l, relay)
  <2>1. up = "relay" /\ told # "none" => relay.retained # "none"
    BY <1>0
  <2> QED BY <1>2, <2>1 DEF Behind
<1> HIDE DEF told, sent, box
<1>7. l \in LeafType
  BY <1>0, <1>3, <1>4 DEF LeafType, Directives
<1>8. LeafFollows(l)
  BY <1>0, <1>4, <1>5, CapacityAssumption DEF LeafFollows, Upstreams
<1> QED BY <1>1, <1>6, <1>7, <1>8, LeafKeeps

LEMMA ForwardStep ==
  ASSUME LifeInv, NEW p \in Proxies, Forward(p)
  PROVE  LifeInv'
<1> DEFINE d == Forwardable(p)
           l == [leaf[p] EXCEPT !.last = d, !.inbox = Append(@, d)]
<1>0. leaf[p] \in LeafType /\ leaf[p].inbox \in Seq(Messages) /\ LeafFollows(leaf[p]) /\ Behind(leaf[p], relay)
      /\ relay.retained \in Directives
  BY DEF LifeInv, LifeShapes, LeavesFollow, LeafType, RelayType, Messages
<1>1. leaf' = [leaf EXCEPT ![p] = l] /\ UNCHANGED <<threshold, mode, record, relayPass, relaySets, deployed, relay, folded>>
  BY DEF Forward, LeafOnly, LifeInv, LifeShapes
<1>2. leaf[p].on # "none" /\ leaf[p].last # d /\ Len(leaf[p].inbox) < Capacity /\ leaf[p].on \in Upstreams
  BY <1>0 DEF Forward, LeafType, Directives
<1>3. d \in Upstreams /\ (leaf[p].on = "relay" => relay.retained # "none")
  BY <1>0, <1>2, TargetUpstream DEF Forwardable, Behind, Directives, Upstreams
<1>4. /\ Append(leaf[p].inbox, d) \in Seq(Messages) /\ Len(Append(leaf[p].inbox, d)) = Len(leaf[p].inbox) + 1
      /\ EndsWith(Append(leaf[p].inbox, d), d, leaf[p].at)
      /\ (\E i \in 1 .. Len(leaf[p].inbox) : leaf[p].inbox[i] = "snapshot")
              => \E i \in 1 .. Len(Append(leaf[p].inbox, d)) : Append(leaf[p].inbox, d)[i] = "snapshot"
  BY <1>0, <1>3, ChannelSends
<1>5. l.at = leaf[p].at /\ l.on = leaf[p].on /\ l.applied = leaf[p].applied /\ l.last = d
      /\ l.inbox = Append(leaf[p].inbox, d)
  BY <1>0 DEF LeafType
<1>6. l \in LeafType
  BY <1>0, <1>3, <1>4 DEF LeafType, Directives, Messages
<1>7. Behind(l, relay)
  BY <1>0, <1>3, <1>5 DEF Behind
<1> HIDE DEF l, d
<1>8. Len(l.inbox) <= Capacity
  BY <1>0, <1>2, <1>4, <1>5, CapacityAssumption
<1>9. LeafFollows(l)
  BY <1>0, <1>2, <1>4, <1>5, <1>8 DEF LeafFollows
<1> QED BY <1>1, <1>6, <1>7, <1>9, LeafKeeps

LEMMA LeafReadStep ==
  ASSUME LifeInv, NEW p \in Proxies, Read(p)
  PROVE  LifeInv'
<1> DEFINE msg == Head(leaf[p].inbox)
           rest == Tail(leaf[p].inbox)
<1>0. leaf[p] \in LeafType /\ leaf[p].inbox \in Seq(Messages) /\ LeafFollows(leaf[p]) /\ Behind(leaf[p], relay)
      /\ leaf[p].inbox # <<>> /\ leaf[p].on # "none" /\ leaf[p].on = leaf[p].at
      /\ EndsWith(leaf[p].inbox, leaf[p].last, leaf[p].at)
  BY DEF LifeInv, LifeShapes, LeavesFollow, LeafType, LeafFollows, Messages, Read
<1>1. UNCHANGED <<threshold, mode, record, relayPass, relaySets, deployed, relay, folded>>
      /\ leaf' = [leaf EXCEPT ![p] = IF msg = "snapshot"
                                 THEN [leaf[p] EXCEPT !.inbox = rest, !.applied = "yes"]
                                 ELSE Repointed(leaf[p], msg)]
  <2>1. Applied(leaf[p]) = [leaf[p] EXCEPT !.inbox = rest, !.applied = "yes"] BY DEF Applied
  <2> QED BY <2>1 DEF Read, LeafOnly
<1>2. msg \in Messages
  BY <1>0
<1>3. CASE msg \in {"snapshot", leaf[p].at}
  <2> DEFINE l == IF msg = "snapshot" THEN [leaf[p] EXCEPT !.inbox = rest, !.applied = "yes"]
                                      ELSE [leaf[p] EXCEPT !.inbox = rest]
  <2>1. leaf' = [leaf EXCEPT ![p] = l]
    BY <1>1, <1>3 DEF Repointed
  <2>2. /\ rest \in Seq(Messages) /\ Len(rest) = Len(leaf[p].inbox) - 1
        /\ EndsWith(rest, leaf[p].last, leaf[p].at)
        /\ (\E i \in 1 .. Len(leaf[p].inbox) : leaf[p].inbox[i] = "snapshot") /\ msg # "snapshot"
             => \E i \in 1 .. Len(rest) : rest[i] = "snapshot"
    BY <1>0, <1>3, ChannelReads
  <2>3. l.at = leaf[p].at /\ l.on = leaf[p].on /\ l.last = leaf[p].last /\ l.inbox = rest
        /\ l.applied = IF msg = "snapshot" THEN "yes" ELSE leaf[p].applied
    BY <1>0 DEF LeafType
  <2>4. l \in LeafType
    BY <1>0, <2>2 DEF LeafType, Messages
  <2> HIDE DEF l, rest, msg
  <2>5. Behind(l, relay)
    BY <1>0, <2>3 DEF Behind
  <2>6. Len(l.inbox) <= Capacity
    BY <1>0, <2>2, <2>3, CapacityAssumption DEF LeafFollows
  <2>7. LeafFollows(l)
    BY <1>0, <2>2, <2>3, <2>6 DEF LeafFollows
  <2> QED BY <1>1, <2>1, <2>4, <2>5, <2>7, LeafKeeps
<1>4. CASE msg \notin {"snapshot", leaf[p].at}
  <2> DEFINE l == [Closed(leaf[p]) EXCEPT !.at = msg]
  <2>1. leaf' = [leaf EXCEPT ![p] = l]
    BY <1>1, <1>4 DEF Repointed
  <2>2. msg \in Upstreams
    BY <1>2, <1>4 DEF Messages
  <2>3. Closed(leaf[p]) \in LeafType /\ Closed(leaf[p]).on = "none" /\ LeafFollows(Closed(leaf[p]))
    BY <1>0, ClosedFollows
  <2>4. l \in LeafType /\ l.on = "none" /\ l.inbox = Closed(leaf[p]).inbox
    BY <2>2, <2>3 DEF LeafType
  <2>5. LeafFollows(l) /\ Behind(l, relay)
    BY <2>3, <2>4 DEF LeafFollows, Behind
  <2> QED BY <1>1, <2>1, <2>4, <2>5, LeafKeeps
<1> QED BY <1>3, <1>4

LEMMA LeafLeaves ==
  ASSUME LifeInv, NEW p \in Proxies, Rebootstrap(p) \/ Refresh(p) \/ LeafDown(p)
  PROVE  LifeInv'
<1> DEFINE c == Closed(leaf[p])
<1>0. leaf[p] \in LeafType /\ LeafFollows(leaf[p]) /\ leaf \in [Proxies -> LeafType]
  BY DEF LifeInv, LifeShapes, LeavesFollow
<1>1. c \in LeafType /\ c.on = "none" /\ LeafFollows(c)
  BY <1>0, ClosedFollows
<1>2. UNCHANGED <<threshold, mode, record, relayPass, relaySets, deployed, relay, folded>>
  BY DEF Rebootstrap, Refresh, LeafDown, LeafOnly
<1>3. CASE Rebootstrap(p)
  <2> DEFINE l == [leaf[p] EXCEPT !.at = Target]
  <2>1. leaf' = [leaf EXCEPT ![p] = l] /\ leaf[p].on = "none"
    BY <1>0, <1>3 DEF Rebootstrap
  <2>2. l \in LeafType /\ l.on = "none" /\ l.inbox = leaf[p].inbox
    BY <1>0, <2>1, TargetUpstream DEF LeafType
  <2>3. LeafFollows(l) /\ Behind(l, relay)
    BY <1>0, <2>1, <2>2 DEF LeafFollows, Behind
  <2> QED BY <1>2, <2>1, <2>2, <2>3, LeafKeeps
<1>4. CASE Refresh(p)
  <2> DEFINE l == [c EXCEPT !.at = Target]
  <2>1. leaf' = [leaf EXCEPT ![p] = l]
    BY <1>0, <1>4 DEF Refresh
  <2>2. l \in LeafType /\ l.on = "none" /\ l.inbox = c.inbox
    BY <1>1, TargetUpstream DEF LeafType
  <2>3. LeafFollows(l) /\ Behind(l, relay)
    BY <1>1, <2>2 DEF LeafFollows, Behind
  <2> QED BY <1>2, <2>1, <2>2, <2>3, LeafKeeps
<1>5. CASE LeafDown(p)
  <2>1. leaf' = [leaf EXCEPT ![p] = c]
    BY <1>0, <1>5 DEF LeafDown
  <2>2. Behind(c, relay)
    BY <1>1 DEF Behind
  <2> QED BY <1>1, <1>2, <2>1, <2>2, LeafKeeps
<1> QED BY <1>3, <1>4, <1>5

LEMMA LifeStep == ASSUME LifeInv, [LifeNext]_lifeVars PROVE LifeInv'
<1>0. mode \in {"auto", "on", "off", "gone"} /\ record \in RecordType
  BY DEF LifeInv, LifeShapes
<1>1. CASE UNCHANGED lifeVars
  BY <1>0, <1>1, QuietStep DEF lifeVars
<1>2. CASE PassRead BY <1>2, ReadStep
<1>3. CASE PassCall \/ CallFails BY <1>3, CallStep DEF PassCall
<1>4. CASE PublishSets BY <1>4, PublishStep
<1>5. CASE CooldownElapses
  <2>1. record' \in RecordType /\ record'.state = record.state /\ record.state # "none"
    BY <1>0, <1>5 DEF CooldownElapses, RecordType, LifeInv, Tracked, NoRecord
  <2> QED BY <1>0, <1>5, <2>1, QuietStep DEF CooldownElapses
<1>6. CASE Promote BY <1>6, PromoteStep
<1>7. CASE \E m \in {"auto", "on", "off", "gone"} : EditPolicy(m)
  BY <1>0, <1>7, QuietStep DEF EditPolicy
<1>8. CASE RelayMoves \/ FoldLeaves \/ RelayDrop BY <1>8, RelayStep
<1>9. CASE PodRestart BY <1>9, RestartStep
<1>10. CASE \E p \in Proxies : ProxyMoves(p) \/ Refresh(p) \/ LeafDown(p)
  BY <1>10, OpenStep, ForwardStep, LeafReadStep, LeafLeaves DEF ProxyMoves
<1> QED BY <1>1, <1>2, <1>3, <1>4, <1>5, <1>6, <1>7, <1>8, <1>9, <1>10 DEF LifeNext

LEMMA LifeAlways == LifeSpec => []LifeInv
<1>1. LifeInv /\ [LifeNext]_lifeVars => LifeInv'
  BY LifeStep
<1> QED BY <1>1, LifeInitially, PTL DEF LifeSpec

\* The type invariant of RelayLifecycle holds in every state of a relay's life.
THEOREM LifeTypes == LifeSpec => []LifeTypeOK
<1>1. LifeInv => LifeTypeOK
  <2> SUFFICES ASSUME LifeInv PROVE LifeTypeOK
    OBVIOUS
  <2>1. LifeShapes /\ Tracked BY DEF LifeInv
  <2>2. ASSUME NEW p \in Proxies PROVE leaf[p].on \in Upstreams \cup {"none"} /\ leaf[p].at \in Upstreams
    BY <2>1 DEF LifeShapes, LeafType, Directives
  <2> QED BY <2>1, <2>2 DEF LifeTypeOK, LifeShapes, Tracked, RecordType, RelayType
<1> QED BY <1>1, LifeAlways, PTL

\* publish_relay_sets, converge and apply_repoint, for any number of leaves, any threshold and
\* channel, and however many failed calls, failovers, restarts and edits: leaves are directed
\* only at a relay that is deployed and tracked, and a leaf that has read its stream serves
\* from where it was told to be.
THEOREM DirectivesCorrect == LifeSpec => []DirectivesSound
<1>1. LifeInv => DirectivesSound
  <2> SUFFICES ASSUME LifeInv PROVE DirectivesSound
    OBVIOUS
  <2>1. MakeBeforeBreak
    BY DEF LifeInv, Tracked, MakeBeforeBreak, NoRelay
  <2>2. ASSUME NEW p \in Proxies PROVE StandsWhereTold(p)
    <3>1. leaf[p] \in LeafType /\ LeafFollows(leaf[p])
      BY DEF LifeInv, LifeShapes, LeavesFollow
    <3>2. leaf[p].inbox = <<>> => AllSnapshots(leaf[p].inbox) /\ ~\E i \in 1 .. Len(leaf[p].inbox) : leaf[p].inbox[i] = "snapshot"
      BY DEF AllSnapshots
    <3> QED BY <3>1, <3>2 DEF StandsWhereTold, LeafFollows, EndsWith
  <2> QED BY <2>1, <2>2 DEF DirectivesSound
<1> QED BY <1>1, LifeAlways, PTL

(***************************************************************************)
(* The VIP reconciler                                                      *)
(***************************************************************************)

LEMMA VipTypesStep == ASSUME VipTypeOK, [VipNext]_vipVars PROVE VipTypeOK'
<1> USE SpecsAssumption, BoundsAssumption, AddressAssumption
<1>0. NoPass \in Passes
  BY DEF NoPass, Passes
<1>1. ASSUME NEW spec \in Specs PROVE spec \in SpecType /\ spec.ports \in SUBSET Ports /\ Candidates(spec) \subseteq Ips
  BY <1>1 DEF SpecType, Candidates
<1>2. ASSUME NEW f \in {"yes", "no"}, Finished(f) PROVE pass' \in Passes
  BY <1>2 DEF Finished, VipTypeOK, Passes
<1>3. pass.spec \in Specs
  BY DEF VipTypeOK, Passes
<1>4. ASSUME NEW ip \in Ips PROVE Pinned(ip) \in Services
  BY <1>1, <1>3, <1>4 DEF Pinned, Services
<1>5. Fault \/ NoFault => faults' \in 0 .. MaxFaults
  BY DEF Fault, NoFault, VipTypeOK
<1>6. ASSUME NEW e \in Services \cup {None}, Call(e) PROVE vip' \in Services \cup {None} /\ faults' \in 0 .. MaxFaults
  BY <1>5, <1>6 DEF Call, VipTypeOK
<1>7. CASE Edit \/ Deliver \/ PassStart \/ Publish \/ UNCHANGED vipVars
  <2>1. CASE Edit
    BY <2>1 DEF Edit, VipTypeOK, Objects
  <2>2. CASE Deliver
    BY <2>2 DEF Deliver, VipTypeOK
  <2>3. CASE PassStart
    BY <2>3 DEF PassStart, VipTypeOK, Objects, Passes
  <2>4. CASE Publish
    BY <1>0, <2>4 DEF Publish, VipTypeOK, Passes
  <2>5. CASE UNCHANGED vipVars
    BY <2>5 DEF vipVars, VipTypeOK
  <2> QED BY <1>7, <2>1, <2>2, <2>3, <2>4, <2>5
<1>8. CASE AssignLb \/ LoseService
  BY <1>5, <1>8 DEF AssignLb, LoseService, VipTypeOK, Services
<1>9. CASE ReadFails
  BY <1>2, <1>5, <1>9 DEF ReadFails, VipTypeOK
<1>10. CASE ApplyAuto
  <2>1. [kind |-> "auto", ip |-> IF vip = None THEN "auto" ELSE vip.ip,
         lb |-> IF vip # None /\ vip.kind = "auto" THEN vip.lb ELSE "no", ports |-> pass.spec.ports] \in Services
    BY <1>1, <1>3 DEF Services, VipTypeOK
  <2> QED BY <1>2, <1>6, <1>10, <2>1 DEF ApplyAuto, VipTypeOK
<1>11. CASE KeepPinned
  <2>1. Pinned(Live) \in Services
    BY <1>1, <1>3, <1>4, <1>11 DEF KeepPinned
  <2> QED BY <1>2, <1>6, <1>11, <2>1 DEF KeepPinned, VipTypeOK
<1>12. CASE FreeStale
  BY <1>2, <1>6, <1>12 DEF FreeStale, VipTypeOK
<1>13. CASE BindCandidate
  BY <1>1, <1>2, <1>3, <1>4, <1>13 DEF BindCandidate, VipTypeOK
<1>14. CASE RejectCandidates
  <2>1. vip' \in Services \cup {None}
    BY <1>1, <1>3, <1>4, <1>14 DEF RejectCandidates, VipTypeOK
  <2>2. pass' \in Passes
    BY <1>2, <1>14 DEF RejectCandidates
  <2> QED BY <1>5, <1>14, <2>1, <2>2 DEF RejectCandidates, VipTypeOK
<1> QED BY <1>7, <1>8, <1>9, <1>10, <1>11, <1>12, <1>13, <1>14 DEF VipNext, PassStep, Bind

LEMMA VipTypesHold == VipSpec => []VipTypeOK
<1>1. VipInit => VipTypeOK
  BY SpecsAssumption, BoundsAssumption DEF VipInit, VipTypeOK, Objects, NoPass, Passes
<1> QED BY <1>1, VipTypesStep, PTL DEF VipSpec

\* The type invariant of VipService.
THEOREM VipTypes == VipSpec => []VipTypeOK
BY VipTypesHold

\* What a resting Service is, case by case of what the spec requests.
RestsAuto == Candidates(gw.spec) = {} /\ vip # None /\ vip.kind = "auto" /\ vip.lb = "yes"
             /\ vip.ports = gw.spec.ports /\ failures = "no"
RestsPinned == Candidates(gw.spec) \ OutOfRange # {} /\ vip # None /\ vip.kind = "static"
               /\ vip.ip \in Candidates(gw.spec) /\ vip.ports = gw.spec.ports /\ failures = "no"
RestsRejected == Candidates(gw.spec) # {} /\ Candidates(gw.spec) \ OutOfRange = {} /\ vip = None /\ failures = "yes"

LEMMA ProvisionedCases ==
  ASSUME VipTypeOK
  PROVE  Provisioned(gw.spec) <=> RestsAuto \/ RestsPinned \/ RestsRejected
<1>1. vip # None => vip.ip \in Ips \cup {"auto"} /\ vip.kind \in {"static", "auto"}
  BY DEF VipTypeOK, Services
<1>2. Address(vip) = "lb" <=> vip # None /\ vip.kind = "auto" /\ vip.lb = "yes"
  BY <1>1, AddressAssumption DEF Address
<1> QED BY <1>2 DEF Provisioned, RestsAuto, RestsPinned, RestsRejected

\* What the running pass, if any, will do to a Service at rest.
PassAgrees == store = gw /\ (pass.pc # "idle" => pass.spec = gw.spec)
              /\ (pass.pc = "publish" => pass.failed = failures)

LEMMA RestingStep ==
  ASSUME VipTypeOK, Resting, [VipNext]_vipVars, gw' = gw, faults' = faults
  PROVE  Resting'
<1> USE AddressAssumption
<1>0. PassAgrees /\ (RestsAuto \/ RestsPinned \/ RestsRejected) /\ ~Fault
  BY ProvisionedCases, BoundsAssumption DEF Resting, PassAgrees, Fault, VipTypeOK
<1>1. VipTypeOK'
  BY VipTypesStep
<1>2. SUFFICES PassAgrees' /\ (RestsAuto \/ RestsPinned \/ RestsRejected)'
  <2>1. Provisioned(gw.spec)' <=> (RestsAuto \/ RestsPinned \/ RestsRejected)'
    BY <1>1, ProvisionedCases, PTL
  <2> QED BY <1>2, <2>1 DEF Resting, PassAgrees
<1>3. ASSUME UNCHANGED <<vip, failures>> PROVE (RestsAuto \/ RestsPinned \/ RestsRejected)'
  BY <1>0, <1>3 DEF RestsAuto, RestsPinned, RestsRejected
<1>4. ASSUME NEW f, Finished(f), f = failures, UNCHANGED <<store, failures>> PROVE PassAgrees' \/ pass.pc # "bind"
  BY <1>0, <1>4 DEF Finished, PassAgrees, VipTypeOK, Passes
<1>5. CASE Edit \/ LoseService \/ ReadFails
  BY <1>0, <1>5 DEF Edit, LoseService, ReadFails, VipTypeOK, Objects
<1>6. CASE Deliver
  BY <1>0, <1>6 DEF Deliver, PassAgrees
<1>7. CASE AssignLb
  BY <1>0, <1>7 DEF AssignLb, RestsAuto, RestsPinned, RestsRejected
<1>8. CASE PassStart
  BY <1>0, <1>3, <1>8 DEF PassStart, PassAgrees
<1>9. CASE ApplyAuto
  <2>1. RestsAuto /\ pass.spec = gw.spec
    BY <1>0, <1>9 DEF ApplyAuto, PassAgrees, RestsAuto, RestsPinned, RestsRejected
  <2>2. vip' = [kind |-> "auto", ip |-> vip.ip, lb |-> "yes", ports |-> gw.spec.ports]
    BY <1>0, <1>9, <2>1 DEF ApplyAuto, Call, RestsAuto
  <2>3. vip' # None
    BY <1>1, <2>1, <2>2 DEF VipTypeOK, RestsAuto, Services, Objects
  <2>4. RestsAuto'
    BY <1>9, <2>1, <2>2, <2>3 DEF ApplyAuto, RestsAuto
  <2> QED BY <1>4, <1>9, <2>1, <2>4 DEF ApplyAuto, RestsAuto
<1>10. CASE KeepPinned
  <2>0. None \notin Candidates(pass.spec)
    BY DEF Candidates
  <2>1. RestsPinned /\ pass.spec = gw.spec
    BY <1>0, <1>10, <2>0 DEF KeepPinned, Static, Live, PassAgrees, RestsAuto, RestsPinned, RestsRejected
  <2>2. vip' = [kind |-> "static", ip |-> vip.ip, lb |-> "no", ports |-> gw.spec.ports]
    BY <1>0, <1>10, <2>1 DEF KeepPinned, Call, RestsPinned, Pinned, Live
  <2>3. vip' # None
    BY <1>1, <2>1, <2>2 DEF VipTypeOK, RestsPinned, Services
  <2>4. RestsPinned'
    BY <1>10, <2>1, <2>2, <2>3 DEF KeepPinned, RestsPinned
  <2> QED BY <1>4, <1>10, <2>1, <2>4 DEF KeepPinned, Static, RestsPinned
<1>11. CASE FreeStale \/ BindCandidate
  BY <1>0, <1>11 DEF FreeStale, BindCandidate, Static, Live, PassAgrees, RestsAuto, RestsPinned, RestsRejected, VipTypeOK, Services
<1>12. CASE RejectCandidates
  <2>1. RestsRejected /\ pass.spec = gw.spec
    BY <1>0, <1>12 DEF RejectCandidates, Static, Live, PassAgrees, RestsAuto, RestsPinned, RestsRejected, VipTypeOK, Services
  <2>2. vip' = vip /\ Finished("yes") /\ UNCHANGED <<store, failures>> /\ pass.pc = "bind"
    BY <1>12, <2>1 DEF RejectCandidates, RestsRejected, Static
  <2> QED BY <1>3, <1>4, <2>1, <2>2 DEF RestsRejected
<1>13. CASE Publish
  BY <1>0, <1>3, <1>13 DEF Publish, PassAgrees, NoPass
<1>14. CASE UNCHANGED vipVars
  BY <1>0, <1>3, <1>14 DEF vipVars, PassAgrees
<1> QED BY <1>5, <1>6, <1>7, <1>8, <1>9, <1>10, <1>11, <1>12, <1>13, <1>14 DEF VipNext, PassStep, Bind

\* reconcile_all_vips, for any ports, addresses and specs: no pass disturbs a Service that
\* is what the spec asks for, at any point of that pass.
THEOREM RightServiceLeftAlone == VipSpec => StaysProvisioned
<1>1. VipTypeOK /\ [VipNext]_vipVars => [Resting /\ gw' = gw /\ faults' = faults => Resting']_vipVars
  BY RestingStep
<1> QED BY <1>1, VipTypesHold, PTL DEF VipSpec, StaysProvisioned
=============================================================================
