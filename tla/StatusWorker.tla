---------------------------- MODULE StatusWorker ----------------------------
(***************************************************************************)
(* The status worker over the work queue: the reflector's rebuilds, the    *)
(* node registry and promotions add keys, run_status_worker hands each to  *)
(* a handler under a semaphore, and a handler reads the object, writes its *)
(* status if the replica leads, and asks to be run again or not.  A DoneGuard *)
(* ends the handler also when it panics.                                   *)
(*                                                                         *)
(* An object is its version, a status the version it was computed from.    *)
(***************************************************************************)
EXTENDS WorkQueue

CONSTANTS
  Gateways,    \* the keys whose handlers see how their write went
  Permits,     \* WORKER_CONCURRENCY
  MaxChanges   \* bound: changes of objects

ASSUME WorkerAssumption == /\ Gateways \subseteq Keys
                           /\ Permits \in Nat \ {0} /\ MaxChanges \in Nat

VARIABLES
  version, written,  \* the version of an object (0: absent) and of its status
  clock,             \* changes so far
  rebuild,           \* a change no rebuild has covered yet
  todo,              \* keys that a rebuild, a promotion or the registry is adding
  leader, promoting, \* the flag, and a promotion that has not added the world yet
  hpc, seen,         \* per key, the handler: where it is and the version it read
  excused            \* keys whose last handler panicked or dropped a failed write

world == <<version, written, clock, rebuild>>
handlers == <<hpc, seen, excused>>
wvars == <<qvars, world, todo, leader, promoting, handlers>>

WorkerTypeOK ==
  /\ QueueTypeOK
  /\ version \in [Keys -> Nat] /\ written \in [Keys -> Nat] /\ clock \in Nat
  /\ rebuild \in {"no", "yes"} /\ leader \in {"no", "yes"} /\ promoting \in {"no", "yes"}
  /\ todo \subseteq Keys
  /\ hpc \in [Keys -> {"idle", "start", "patch", "send", "requeue", "done"}]
  /\ seen \in [Keys -> Nat]
  /\ excused \subseteq Keys

WorkerInit ==
  /\ QueueInit
  /\ version = [k \in Keys |-> 0] /\ written = [k \in Keys |-> 0]
  /\ clock = 0 /\ rebuild = "no" /\ todo = {}
  /\ leader = "no" /\ promoting = "no"
  /\ hpc = [k \in Keys |-> "idle"] /\ seen = [k \in Keys |-> 0]
  /\ excused = {}

-----------------------------------------------------------------------------
(* What makes work *)

\* An object is created, changed or deleted; the watch makes a rebuild due.
Change(k, v) ==
  /\ clock < MaxChanges
  /\ clock' = clock + 1
  /\ version' = [version EXCEPT ![k] = v]
  /\ written' = [written EXCEPT ![k] = IF v = 0 THEN 0 ELSE @]
  /\ rebuild' = "yes"
  /\ UNCHANGED <<qvars, todo, leader, promoting, handlers>>

Present == {k \in Keys : version[k] # 0}

\* A rebuild has published its cells: enqueue_status_keys goes over the stores.
Rebuild ==
  /\ rebuild = "yes"
  /\ rebuild' = "no"
  /\ todo' = todo \cup Present
  /\ UNCHANGED <<qvars, version, written, clock, leader, promoting, handlers>>

\* A proxy connected, bound or released a port, or left; an Ack does not fire.
RegistryChanged ==
  /\ ~(Gateways \cap Present \subseteq todo)
  /\ todo' = todo \cup (Gateways \cap Present)
  /\ UNCHANGED <<qvars, world, leader, promoting, handlers>>

Promote ==
  /\ leader = "no"
  /\ leader' = "yes"
  /\ promoting' = "yes"
  /\ UNCHANGED <<qvars, world, todo, handlers>>

\* After the rehydration, enqueue_all_status.
EnqueueAll ==
  /\ promoting = "yes"
  /\ promoting' = "no"
  /\ todo' = todo \cup Present
  /\ UNCHANGED <<qvars, world, leader, handlers>>

Demote ==
  /\ leader = "yes" /\ promoting = "no"
  /\ leader' = "no"
  /\ UNCHANGED <<qvars, world, todo, promoting, handlers>>

AddTodo(k) ==
  /\ k \in todo
  /\ Add(k)
  /\ todo' = todo \ {k}
  /\ UNCHANGED <<world, leader, promoting, handlers>>

-----------------------------------------------------------------------------
(* The worker and its handlers *)

\* A permit is free: the handler of the key is spawned.
Spawn ==
  /\ Cardinality({k \in Keys : hpc[k] # "idle"}) < Permits
  /\ hpc' = IF held \in Keys THEN [hpc EXCEPT ![held] = "start"] ELSE hpc
  /\ Take
  /\ UNCHANGED <<world, todo, leader, promoting, seen, excused>>

\* resolve, and the leader check at the top of every reconcile.
Enter(k) ==
  /\ hpc[k] = "start"
  /\ hpc' = [hpc EXCEPT ![k] = IF version[k] = 0 THEN "done"
                               ELSE IF leader = "no" THEN "requeue" ELSE "patch"]
  /\ seen' = [seen EXCEPT ![k] = IF leader = "no" THEN 0 ELSE version[k]]
  /\ excused' = excused \ {k}
  /\ UNCHANGED <<qvars, world, todo, leader, promoting>>

\* What a handler that decided asks for: only a Gateway's can ask to be run again.
Asks(k) == {"done"} \cup (IF k \in Gateways THEN {"requeue"} ELSE {})

\* What was read is not used past the write.
Forgotten(k) == seen' = [seen EXCEPT ![k] = 0]

\* leader_write_fence: a replica that no longer leads does not write, and the
\* handler does not notice.
Fence(k) ==
  /\ hpc[k] = "patch"
  /\ \/ leader = "yes" /\ hpc' = [hpc EXCEPT ![k] = "send"] /\ UNCHANGED seen
     \/ leader = "no" /\ Forgotten(k) /\ \E p \in Asks(k) : hpc' = [hpc EXCEPT ![k] = p]
  /\ UNCHANGED <<qvars, world, todo, leader, promoting, excused>>

\* The patch lands, also if leadership was lost on its way.  A Gateway's pins the
\* resourceVersion it read.
Land(k) ==
  /\ hpc[k] = "send" /\ version[k] # 0
  /\ k \in Gateways => seen[k] = version[k]
  /\ written' = [written EXCEPT ![k] = seen[k]]
  /\ \E p \in Asks(k) : hpc' = [hpc EXCEPT ![k] = p]
  /\ Forgotten(k)
  /\ UNCHANGED <<qvars, version, clock, rebuild, todo, leader, promoting, excused>>

\* 404: the object is gone, and the write counts as landed.
Gone(k) ==
  /\ hpc[k] = "send" /\ version[k] = 0 /\ k \in Gateways
  /\ \E p \in Asks(k) : hpc' = [hpc EXCEPT ![k] = p]
  /\ Forgotten(k)
  /\ UNCHANGED <<qvars, world, todo, leader, promoting, excused>>

\* Mutant: a Gateway whose write failed waits for the next change.
PatchFailsQuietly(k) ==
  /\ hpc[k] = "send"
  /\ hpc' = [hpc EXCEPT ![k] = "done"]
  /\ Forgotten(k)
  /\ excused' = IF k \in Gateways THEN excused ELSE excused \cup {k}
  /\ UNCHANGED <<qvars, world, todo, leader, promoting>>

\* The write conflicts or fails: a Gateway is run again, other kinds log it.
PatchFails(k) ==
  /\ hpc[k] = "send"
  /\ hpc' = [hpc EXCEPT ![k] = IF k \in Gateways THEN "requeue" ELSE "done"]
  /\ Forgotten(k)
  /\ excused' = IF k \in Gateways THEN excused ELSE excused \cup {k}
  /\ UNCHANGED <<qvars, world, todo, leader, promoting>>

\* Mutant: without the guard the panicking handler leaves its key in processing.
PanicUnguarded(k) ==
  /\ hpc[k] \in {"start", "patch", "send"}
  /\ hpc' = [hpc EXCEPT ![k] = "idle"]
  /\ Forgotten(k)
  /\ excused' = excused \cup {k}
  /\ UNCHANGED <<qvars, world, todo, leader, promoting>>

\* A handler panics; its guard is dropped.
Panic(k) ==
  /\ hpc[k] \in {"start", "patch", "send"}
  /\ hpc' = [hpc EXCEPT ![k] = "done"]
  /\ Forgotten(k)
  /\ excused' = excused \cup {k}
  /\ UNCHANGED <<qvars, world, todo, leader, promoting>>

Requeue(k, d) ==
  /\ hpc[k] = "requeue"
  /\ AddAfter(k, d)
  /\ hpc' = [hpc EXCEPT ![k] = "done"]
  /\ UNCHANGED <<world, todo, leader, promoting, seen, excused>>

\* The guard is dropped, and with it the key is done and the permit free.
GuardDropped(k) ==
  /\ hpc[k] = "done"
  /\ Finished(k)
  /\ hpc' = [hpc EXCEPT ![k] = "idle"]
  /\ UNCHANGED <<world, todo, leader, promoting, seen, excused>>

QueueStep == (Get \/ NotifyOne \/ Pass) /\ UNCHANGED <<world, todo, leader, promoting, handlers>>

Handler(k) == Enter(k) \/ Fence(k) \/ Land(k) \/ Gone(k) \/ PatchFails(k) \/ Panic(k)
              \/ (\E d \in Delays : Requeue(k, d)) \/ GuardDropped(k)

WorkerNext ==
  \/ QueueStep \/ Rebuild \/ RegistryChanged \/ Promote \/ EnqueueAll \/ Demote \/ Spawn
  \/ \E k \in Keys : \/ Handler(k) \/ AddTodo(k)
                     \/ \E v \in {0, clock + 1} : Change(k, v)

WorkerSpec == WorkerInit /\ [][WorkerNext]_wvars

\* Tasks are scheduled, time passes, rebuilds follow changes, and an API that is
\* asked again and again takes the write.
WorkerLiveSpec ==
  /\ WorkerSpec
  /\ WF_wvars(Get /\ UNCHANGED <<world, todo, leader, promoting, handlers>>)
  /\ WF_wvars(NotifyOne /\ UNCHANGED <<world, todo, leader, promoting, handlers>>)
  /\ WF_wvars(Pass /\ UNCHANGED <<world, todo, leader, promoting, handlers>>)
  /\ WF_wvars(Rebuild) /\ WF_wvars(EnqueueAll) /\ SF_wvars(Spawn)
  /\ \A k \in Keys : /\ SF_wvars(Handler(k)) /\ SF_wvars(AddTodo(k)) /\ SF_wvars(Land(k))

-----------------------------------------------------------------------------
(* Properties *)

Waiting(k) == k \in todo \cup queued \cup dirty \cup {held}
              \/ \E i \in DOMAIN delayed : delayed[i].key = k

\* Never a lost change (run_status_worker; workqueue.rs, "a change that lands
\* mid-reconcile is never lost"): while the replica leads, an object whose status
\* is not of its current version is waiting somewhere, or its handler is about
\* to write that version or to ask for another run; unless its last handler
\* panicked, or dropped a failed write, which the code leaves to the next rebuild.
ChangeNotLost ==
  leader = "yes" =>
    \A k \in Present : written[k] # version[k] =>
      \/ rebuild = "yes" \/ promoting = "yes" \/ Waiting(k) \/ k \in excused
      \/ hpc[k] \in {"start", "requeue"}
      \/ hpc[k] \in {"patch", "send"} /\ seen[k] = version[k]

\* DoneGuard: a key is in processing exactly while its handler exists or the
\* worker holds it, so no key is stuck there and none is handled twice at once.
ProcessingOwned ==
  /\ processing = {k \in Keys : hpc[k] # "idle" \/ k = held}
  /\ held \in Keys => hpc[held] = "idle"

\* Once changes end and the replica leads for good, every status reaches its
\* object's version, unless handlers go on panicking or dropping failed writes.
StatusSettles ==
  (<>[](leader = "yes") /\ <>[](excused = {})) => <>[](\A k \in Present : written[k] = version[k])

\* proxy.rs:3185, "Bounded work: the queue de-duplicates": a key has at most one
\* run scheduled for later. FAILS: add_after pushes another entry for a key that
\* has one already.
BoundedWork == \A k \in Keys : Cardinality({i \in DOMAIN delayed : delayed[i].key = k}) <= 1

=============================================================================
