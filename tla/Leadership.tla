----------------------------- MODULE Leadership -----------------------------
(***************************************************************************)
(* The lease loop of the controller replicas (Controller::run_controllers) *)
(* and the pure decision LeadershipState it feeds, in discrete time.  One  *)
(* lease is kept by the Kubernetes API; each replica tries to acquire or   *)
(* renew it once per renew interval, gives an attempt up after one renew   *)
(* interval, tolerates errors until a deadline counted from its last       *)
(* confirmed hold, and on promotion rehydrates the relay sets inline.      *)
(*                                                                         *)
(* The tasks are taken to be scheduled promptly: time does not pass while  *)
(* a timer of the loop is due.  The lease library is external: reading the *)
(* lease and writing it are two requests, so two replicas may both acquire *)
(* an expired one, and an attempt may fail before or after its write.      *)
(***************************************************************************)
EXTENDS Integers

CONSTANTS
  Replicas,   \* controller pods
  NoHolder,       \* nobody holds the lease
  TTL,        \* lease.ttl
  Renew,      \* lease.renew_interval, also the bound of one attempt
  Rehydrate,  \* twice REHYDRATE_BOUND: the longest inline rehydration on promotion
  MaxBehind,    \* bound: how far the renewal interval may be behind when time passes
  Startup     \* the longest rehydration at startup, which the code does not bound

\* ControllerConfig::new refuses a renew interval above a third of the TTL.
ASSUME LeaseAssumption == /\ TTL \in Nat /\ Renew \in Nat \ {0} /\ 3 * Renew <= TTL
                          /\ Rehydrate \in Nat /\ Startup \in Nat /\ MaxBehind \in Nat
ASSUME HolderAssumption == NoHolder \notin Replicas

VARIABLES
  holder,   \* Lease.spec.holderIdentity
  leaseAge, \* time since the lease was renewed, counted up to TTL + 1
  lpc,      \* where the replica's loop is
  phase,    \* "boot" until the select loop is entered
  leading,  \* LeadershipState.is_leader, and the leadership watch
  fence,    \* the AtomicBool leader_write_fence reads
  since,    \* time since last_confirmed, 0 while standby
  spent,    \* time spent in the current attempt or rehydration
  until     \* time until the renewal interval ticks; negative: ticks are owed

lease == <<holder, leaseAge>>
leaderVars == <<lease, lpc, phase, leading, fence, since, spent, until>>

Attempting == {"get", "put", "acquired", "refused"}
BusyAt == Attempting \cup {"rehydrate", "startup"}

LeaderTypeOK ==
  /\ holder \in Replicas \cup {NoHolder}
  /\ leaseAge \in 0 .. TTL + 1
  /\ lpc \in [Replicas -> BusyAt \cup {"down", "wait", "stopping", "released"}]
  /\ phase \in [Replicas -> {"boot", "loop"}]
  /\ leading \in [Replicas -> {"yes", "no"}]
  /\ fence \in [Replicas -> {"yes", "no"}]
  /\ since \in [Replicas -> Nat]
  /\ spent \in [Replicas -> Nat]
  /\ until \in [Replicas -> Int]

LeaderInit ==
  /\ holder = NoHolder
  /\ leaseAge = TTL + 1
  /\ lpc = [r \in Replicas |-> "down"]
  /\ phase = [r \in Replicas |-> "boot"]
  /\ leading = [r \in Replicas |-> "no"]
  /\ fence = [r \in Replicas |-> "no"]
  /\ since = [r \in Replicas |-> 0]
  /\ spent = [r \in Replicas |-> 0]
  /\ until = [r \in Replicas |-> 0]

-----------------------------------------------------------------------------
(* Time *)

\* Something of r is due: an attempt's timeout, a tick, the end of a bound.
Due(r) ==
  \/ lpc[r] \in Attempting /\ spent[r] >= Renew
  \/ lpc[r] = "wait" /\ until[r] <= 0
  \/ lpc[r] = "rehydrate" /\ spent[r] >= Rehydrate
  \/ lpc[r] = "startup" /\ spent[r] >= Startup

TimePasses ==
  /\ \A r \in Replicas : ~Due(r) /\ until[r] > -MaxBehind
  /\ leaseAge' = IF leaseAge > TTL THEN leaseAge ELSE leaseAge + 1
  /\ since' = [r \in Replicas |-> IF leading[r] = "yes" THEN since[r] + 1 ELSE since[r]]
  /\ spent' = [r \in Replicas |-> IF lpc[r] \in BusyAt THEN spent[r] + 1 ELSE spent[r]]
  /\ until' = [r \in Replicas |-> IF phase[r] = "loop" THEN until[r] - 1 ELSE until[r]]
  /\ UNCHANGED <<holder, lpc, phase, leading, fence>>

-----------------------------------------------------------------------------
(* LeadershipState *)

\* LeadershipState::new.
ErrorDeadline == IF TTL - Renew >= Renew THEN TTL - Renew ELSE Renew

\* Mutant: errors are tolerated up to the TTL.
SurvivesToTTL(r) == leading[r] = "yes" /\ since[r] < TTL

\* observe(RenewError): a leader stays one until the deadline.
Survives(r) == leading[r] = "yes" /\ since[r] < ErrorDeadline

\* What observe and the code after it set: the state, the watch and the flag.
Becomes(r, l, s) ==
  /\ leading' = [leading EXCEPT ![r] = l]
  /\ fence' = [fence EXCEPT ![r] = l]
  /\ since' = [since EXCEPT ![r] = s]

-----------------------------------------------------------------------------
(* The loop *)

\* A pod starts: the first attempt is made before anything else.
PodStart(r) ==
  /\ lpc[r] = "down"
  /\ lpc' = [lpc EXCEPT ![r] = "get"]
  /\ phase' = [phase EXCEPT ![r] = "boot"]
  /\ spent' = [spent EXCEPT ![r] = 0]
  /\ UNCHANGED <<lease, leading, fence, since, until>>

\* The interval ticks; missed ticks are made up for at once.
TickDue(r) ==
  /\ lpc[r] = "wait"
  /\ until[r] <= 0
  /\ lpc' = [lpc EXCEPT ![r] = "get"]
  /\ spent' = [spent EXCEPT ![r] = 0]
  /\ until' = [until EXCEPT ![r] = @ + Renew]
  /\ UNCHANGED <<lease, phase, leading, fence, since>>

\* The lease is read: free, expired or one's own, it may be written.
GetLease(r) ==
  /\ lpc[r] = "get"
  /\ lpc' = [lpc EXCEPT ![r] = IF holder = r \/ leaseAge > TTL THEN "put" ELSE "refused"]
  /\ UNCHANGED <<lease, phase, leading, fence, since, spent, until>>

PutLease(r) ==
  /\ lpc[r] = "put"
  /\ holder' = r
  /\ leaseAge' = 0
  /\ lpc' = [lpc EXCEPT ![r] = "acquired"]
  /\ UNCHANGED <<phase, leading, fence, since, spent, until>>

\* Where the loop goes after an observation: at startup the rehydration is not
\* bounded; on a promotion it is; the select loop waits for the next tick.
After(r, l) ==
  /\ lpc' = [lpc EXCEPT ![r] = IF phase[r] = "boot" THEN "startup"
                             ELSE IF l = "yes" /\ leading[r] = "no" THEN "rehydrate"
                             ELSE "wait"]
  /\ spent' = [spent EXCEPT ![r] = 0]
  /\ UNCHANGED <<lease, phase, until>>

ObserveLeading(r) ==
  /\ lpc[r] = "acquired"
  /\ Becomes(r, "yes", 0)
  /\ After(r, "yes")

ObserveStandby(r) ==
  /\ lpc[r] = "refused"
  /\ Becomes(r, "no", 0)
  /\ After(r, "no")

\* The attempt fails, or times out; a standby is never promoted by it.
ObserveError(r) ==
  /\ lpc[r] \in Attempting
  /\ IF Survives(r) THEN UNCHANGED <<leading, fence, since>> ELSE Becomes(r, "no", 0)
  /\ After(r, "no")

\* The inline rehydration ends or times out.
RehydrationEnds(r) ==
  /\ lpc[r] = "rehydrate"
  /\ lpc' = [lpc EXCEPT ![r] = "wait"]
  /\ spent' = [spent EXCEPT ![r] = 0]
  /\ UNCHANGED <<lease, phase, leading, fence, since, until>>

\* The select loop is entered; its first tick is one interval away.
EnterLoop(r) ==
  /\ lpc[r] = "startup"
  /\ lpc' = [lpc EXCEPT ![r] = "wait"]
  /\ phase' = [phase EXCEPT ![r] = "loop"]
  /\ until' = [until EXCEPT ![r] = Renew]
  /\ spent' = [spent EXCEPT ![r] = 0]
  /\ UNCHANGED <<lease, leading, fence, since>>

\* Graceful shutdown: the watch is set first, then the label is given up, at
\* most two seconds; the flag is left as it is and the handlers that were
\* spawned keep running.  The renewal interval is not polled again.
GracefulShutdown(r) ==
  /\ lpc[r] = "wait"
  /\ leading' = [leading EXCEPT ![r] = "no"]
  /\ since' = [since EXCEPT ![r] = 0]
  /\ until' = [until EXCEPT ![r] = 0]
  /\ phase' = [phase EXCEPT ![r] = "boot"]
  /\ lpc' = [lpc EXCEPT ![r] = IF leading[r] = "yes" THEN "stopping" ELSE "released"]
  /\ UNCHANGED <<lease, fence, spent>>

\* LeaseLock::step_down releases the lease if it is still held; it may fail.
StepDown(r) ==
  /\ lpc[r] = "stopping"
  /\ \/ holder = r /\ holder' = NoHolder /\ leaseAge' = TTL + 1
     \/ UNCHANGED lease
  /\ lpc' = [lpc EXCEPT ![r] = "released"]
  /\ UNCHANGED <<phase, leading, fence, since, spent, until>>

\* The process ends, after a shutdown or by a crash at any moment.
PodExit(r) ==
  /\ lpc[r] # "down"
  /\ Becomes(r, "no", 0)
  /\ lpc' = [lpc EXCEPT ![r] = "down"]
  /\ phase' = [phase EXCEPT ![r] = "boot"]
  /\ spent' = [spent EXCEPT ![r] = 0]
  /\ until' = [until EXCEPT ![r] = 0]
  /\ UNCHANGED lease

Observe(r) == ObserveLeading(r) \/ ObserveStandby(r) \/ ObserveError(r)
ReplicaStep(r) == PodStart(r) \/ TickDue(r) \/ GetLease(r) \/ PutLease(r) \/ Observe(r)
           \/ RehydrationEnds(r) \/ EnterLoop(r) \/ GracefulShutdown(r) \/ StepDown(r) \/ PodExit(r)

LeaderNext == TimePasses \/ \E r \in Replicas : ReplicaStep(r)

LeaderSpec == LeaderInit /\ [][LeaderNext]_leaderVars

-----------------------------------------------------------------------------
(* Properties *)

LaterOf(m, n) == IF m > n THEN m ELSE n

\* The longest a replica can lead on without a confirmed hold.
StaleBound == LaterOf(ErrorDeadline + 2 * Renew - 1, LaterOf(Rehydrate + Renew, Startup + 2 * Renew))

\* A leader cut off from the API steps back (LeadershipState, "bounded by a wall-clock
\* deadline"): whatever its attempts do, and however long the inline
\* rehydrations take within their bounds, it never leads longer than StaleBound
\* after its last confirmed hold.
StaleLeaderBounded == \A r \in Replicas : leading[r] = "yes" => since[r] <= StaleBound

\* The last moment a leader can begin an attempt, counted from its last hold.
AttemptBy == StaleBound - Renew

\* The inductive part of StaleLeaderBounded: what the loop of one replica knows
\* of its last confirmed hold at each place it can be.
LoopKnows(r) ==
  /\ until[r] <= Renew
  /\ lpc[r] \in {"wait", "rehydrate"} => phase[r] = "loop"
  /\ lpc[r] = "startup" => phase[r] = "boot" /\ spent[r] <= Startup
  /\ lpc[r] \in Attempting => spent[r] <= Renew
  /\ lpc[r] = "rehydrate" => spent[r] <= Rehydrate
  /\ leading[r] = "yes" =>
       /\ lpc[r] \in BusyAt \cup {"wait"}
       /\ lpc[r] \in Attempting => phase[r] = "loop" /\ since[r] - spent[r] <= AttemptBy
       /\ lpc[r] = "startup" => since[r] <= spent[r]
       /\ lpc[r] = "rehydrate" => since[r] <= spent[r] /\ since[r] + until[r] <= Renew
       /\ lpc[r] = "wait" => since[r] <= AttemptBy /\ since[r] + until[r] <= AttemptBy

\* Every replica's loop knows how old its hold is.
LoopsKnow == \A r \in Replicas : LoopKnows(r)

\* mod.rs:832, "one renew interval of fencing margin before the lease can be stolen":
\* a replica that leads was confirmed within the TTL. FAILS: the deadline is only
\* compared when an attempt returns, see StaleBound.
FencedBeforeTtl == \A r \in Replicas : leading[r] = "yes" => since[r] <= TTL

\* mod.rs:88, REHYDRATE_BOUND: an apiserver call inline in the loop "could erode the
\* renew-before-TTL fencing margin": no leader is still rehydrating when its
\* lease has expired unrenewed. FAILS when Startup exceeds the TTL: the code does
\* not bound the rehydration at startup.
RenewsInTime ==
  \A r \in Replicas : leading[r] = "yes" /\ lpc[r] \in {"startup", "rehydrate"} => since[r] <= TTL

\* mod.rs:1300, the fence "narrows the stale-leader double-writer window ... to
\* one patch RTT": the flag it reads is not set in a replica that has announced
\* its demotion and released the lease. FAILS: the shutdown arm leaves the flag set.
FenceFollowsWatch == \A r \in Replicas : fence[r] = "yes" => leading[r] = "yes"

=============================================================================
