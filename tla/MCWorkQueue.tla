---------------------------- MODULE MCWorkQueue -----------------------------
(***************************************************************************)
(* The work queue with any caller, and the same queue under the status     *)
(* worker, side by side: a behaviour is one of one part.                   *)
(***************************************************************************)
EXTENDS StatusWorker

CONSTANTS gw, rt

VARIABLE part

workVars == <<world, todo, leader, promoting, handlers>>
partVars == <<wvars, part>>

PartInit == part \in {"queue", "worker"} /\ WorkerInit

OnQueue(A) == part = "queue" /\ A /\ UNCHANGED <<workVars, part>>

\* Only the Gateway is ever there.
OnWorker(A) == part = "worker" /\ A /\ version'[rt] = 0 /\ UNCHANGED part
QueueOnly(A) == A /\ UNCHANGED workVars

PartNext == OnQueue(QueueNext) \/ OnWorker(WorkerNext)

\* The fairness of the two modules: a condition holds for the part that runs.
PartFairness ==
  /\ WF_partVars(OnQueue(Get) \/ OnWorker(QueueOnly(Get)))
  /\ WF_partVars(OnQueue(NotifyOne) \/ OnWorker(QueueOnly(NotifyOne)))
  /\ WF_partVars(OnQueue(Pass) \/ OnWorker(QueueOnly(Pass)))
  /\ WF_partVars(OnQueue(Take) \/ OnWorker(Rebuild))
  /\ WF_partVars(OnWorker(EnqueueAll))
  /\ SF_partVars(OnWorker(Spawn)) /\ SF_partVars(OnWorker(Handler(gw)))
  /\ SF_partVars(OnWorker(AddTodo(gw))) /\ SF_partVars(OnWorker(Land(gw)))

PartSpec == PartInit /\ [][PartNext]_partVars /\ PartFairness

\* KeysServed of WorkQueue, with any caller: a ready key is handed out, whatever else is
\* added in the meantime, and a delayed key comes out, unless the queue is shut.
\* The queue tells no two keys apart, so one stands for all.
QueueServes ==
  /\ part = "queue" /\ gw \in queued ~> gw \in processing
  /\ part = "queue" /\ InDelay(gw) ~> (gw \in queued \cup processing \/ shut = "yes")

\* Under the worker every key in `processing` has the one handler or hand-off that will
\* take it out, also when a handler panics (ProcessingOwned).
WorkerOwnsProcessing == part = "worker" => ProcessingOwned
=============================================================================
