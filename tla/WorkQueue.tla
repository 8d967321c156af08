----------------------------- MODULE WorkQueue ------------------------------
(***************************************************************************)
(* RateLimitingWorkqueue: the ready queue with its de-duplication, the     *)
(* keys in processing and the dirty ones, the heap of delayed keys, and    *)
(* the single consumer parked on a Notify and a timer.  Every critical     *)
(* section is one step, the consumer's one step per delayed key it drains; *)
(* the wake-up that add, add_after and done send after they have released  *)
(* the lock is a step of its own.                                          *)
(***************************************************************************)
EXTENDS Naturals, Sequences, FiniteSets

CONSTANTS
  Keys,        \* the objects queued
  None,        \* no key, no alarm
  Delays,      \* the delays asked of add_after
  Base, Cap,   \* RateLimitConfig
  MaxAttempts, \* bound: the attempts counted per key
  MaxDelayed,  \* bound: delayed entries
  MaxOwed      \* bound: callers between their critical section and notify_one

ASSUME QueueAssumption == /\ None \notin Keys \cup Nat
                          /\ Delays \subseteq Nat /\ Base \in Nat \ {0} /\ Cap \in Nat \ {0}
                          /\ MaxAttempts \in Nat /\ MaxDelayed \in Nat /\ MaxOwed \in Nat

\* The shifts delay_for is clamped to do not leave Nat.
ASSUME ShiftAssumption == \A s \in 0 .. 20 : 2^s \in Nat

VARIABLES
  ready, queued,       \* keys to hand out: in order, and as a set
  processing, dirty,   \* keys handed out and not done; those added again since
  delayed,             \* the heap, as entries [key, left] by deadline
  attempts,            \* rate-limiter counters
  shut,                \* shutdown
  cpc, held,           \* the consumer: where it is and the key it was handed
  permit, heard, owed, \* Notify: stored permit, the waiter's notification, callers about to notify
  alarm                \* time until the parked consumer's timer fires

sets == <<ready, queued, processing, dirty>>
notify == <<permit, heard, owed>>
qvars == <<sets, delayed, attempts, shut, cpc, held, notify, alarm>>

QueueTypeOK ==
  /\ ready \in Seq(Keys) /\ queued \subseteq Keys
  /\ processing \subseteq Keys /\ dirty \subseteq Keys
  /\ delayed \in Seq([key : Keys, left : Nat])
  /\ attempts \in [Keys -> Nat]
  /\ shut \in {"no", "yes"}
  /\ cpc \in {"enable", "drain", "parked", "holding", "ended"}
  /\ held \in Keys \cup {None}
  /\ permit \in {"no", "yes"} /\ heard \in {"no", "permit", "one"} /\ owed \in Nat
  /\ alarm \in Nat \cup {None}

QueueInit ==
  /\ ready = <<>> /\ queued = {} /\ processing = {} /\ dirty = {}
  /\ delayed = <<>>
  /\ attempts = [k \in Keys |-> 0]
  /\ shut = "no"
  /\ cpc = "enable" /\ held = None
  /\ permit = "no" /\ heard = "no" /\ owed = 0
  /\ alarm = None

-----------------------------------------------------------------------------
(* Inner *)

\* The mutex is free: the consumer is not inside its critical section.
Free == cpc # "drain" /\ owed < MaxOwed

\* Mutant: a key in processing is queued at once.
WakesEager(k, busy) == shut = "no" /\ k \notin queued

\* enqueue pushes the key and asks for a wake-up.
Wakes(k, busy) == shut = "no" /\ k \notin busy \cup queued

\* Mutant: a key that is being processed is not marked.
EnqueueForgetful(k, busy, dirt) ==
  /\ ready' = IF Wakes(k, busy) THEN Append(ready, k) ELSE ready
  /\ queued' = IF Wakes(k, busy) THEN queued \cup {k} ELSE queued
  /\ dirty' = dirt

\* Mutant: the newest key is handed out first.
EnqueueFront(k, busy, dirt) ==
  /\ ready' = IF Wakes(k, busy) THEN <<k>> \o ready ELSE ready
  /\ queued' = IF Wakes(k, busy) THEN queued \cup {k} ELSE queued
  /\ dirty' = IF shut = "no" /\ k \in busy THEN dirt \cup {k} ELSE dirt

\* Inner::enqueue.
Enqueue(k, busy, dirt) ==
  /\ ready' = IF Wakes(k, busy) THEN Append(ready, k) ELSE ready
  /\ queued' = IF Wakes(k, busy) THEN queued \cup {k} ELSE queued
  /\ dirty' = IF shut = "no" /\ k \in busy THEN dirt \cup {k} ELSE dirt

\* The heap with one more entry, behind those of the same deadline.
Scheduled(k, d) ==
  LET n == Cardinality({i \in DOMAIN delayed : delayed[i].left <= d})
  IN SubSeq(delayed, 1, n) \o <<[key |-> k, left |-> d]>> \o SubSeq(delayed, n + 1, Len(delayed))

-----------------------------------------------------------------------------
(* Notify *)

\* notify_one: the registered waiter hears it, or a permit is stored.
NotifyOne ==
  /\ owed > 0
  /\ owed' = owed - 1
  /\ IF cpc \in {"drain", "parked"} /\ heard = "no"
     THEN heard' = "one" /\ UNCHANGED permit
     ELSE permit' = "yes" /\ UNCHANGED heard
  /\ UNCHANGED <<sets, delayed, attempts, shut, cpc, held, alarm>>

\* A Notified that is dropped passes on a notification it has not consumed.
DropNotified == /\ permit' = IF heard = "one" THEN "yes" ELSE permit
                /\ heard' = "no"
                /\ UNCHANGED owed

-----------------------------------------------------------------------------
(* Operations *)

Add(k) ==
  /\ Free
  /\ Enqueue(k, processing, dirty)
  /\ owed' = IF Wakes(k, processing) THEN owed + 1 ELSE owed
  /\ UNCHANGED <<processing, delayed, attempts, shut, cpc, held, permit, heard, alarm>>

\* Mutant: the consumer is not told of a new deadline.
AddDelayedQuietly(k, d) ==
  /\ Free /\ d > 0 /\ Len(delayed) < MaxDelayed
  /\ delayed' = IF shut = "yes" THEN delayed ELSE Scheduled(k, d)
  /\ UNCHANGED <<sets, shut, cpc, held, owed, permit, heard, alarm>>

\* add_after with a delay.
AddDelayed(k, d) ==
  /\ Free /\ d > 0 /\ Len(delayed) < MaxDelayed
  /\ delayed' = IF shut = "yes" THEN delayed ELSE Scheduled(k, d)
  /\ owed' = IF shut = "yes" THEN owed ELSE owed + 1
  /\ UNCHANGED <<sets, shut, cpc, held, permit, heard, alarm>>

AddAfter(k, d) == (IF d = 0 THEN Add(k) ELSE AddDelayed(k, d)) /\ UNCHANGED attempts

\* RateLimitConfig::delay_for, with its shift clamped.
DelayFor(n) ==
  LET s == IF n > 20 THEN 20 ELSE n
  IN IF Base * 2^s < Cap THEN Base * 2^s ELSE Cap

\* The counter moves in a critical section before add_after's; nothing reads it
\* in between.
AddRateLimited(k) ==
  /\ attempts[k] < MaxAttempts
  /\ AddDelayed(k, DelayFor(attempts[k]))
  /\ attempts' = [attempts EXCEPT ![k] = @ + 1]

Forget(k) ==
  /\ Free
  /\ attempts' = [attempts EXCEPT ![k] = 0]
  /\ UNCHANGED <<sets, delayed, shut, cpc, held, notify, alarm>>

\* Mutant: the mark of a key added while it ran is cleared and nothing more.
FinishedForgetful(k) ==
  /\ Free
  /\ processing' = processing \ {k}
  /\ dirty' = dirty \ {k}
  /\ UNCHANGED <<ready, queued, delayed, attempts, shut, cpc, held, notify, alarm>>

\* The handler of k has finished.
Finished(k) ==
  LET again == k \in dirty
      busy == processing \ {k}
  IN /\ Free
     /\ processing' = busy
     /\ IF again THEN Enqueue(k, busy, dirty \ {k}) ELSE UNCHANGED <<ready, queued, dirty>>
     /\ owed' = IF again /\ Wakes(k, busy) THEN owed + 1 ELSE owed
     /\ UNCHANGED <<delayed, attempts, shut, cpc, held, permit, heard, alarm>>

\* shutdown notifies twice: the waiter, and a permit for one that comes later.
Shutdown ==
  /\ Free
  /\ shut' = "yes"
  /\ owed' = owed + 2
  /\ UNCHANGED <<sets, delayed, attempts, cpc, held, permit, heard, alarm>>

-----------------------------------------------------------------------------
(* get *)

\* The waiter is registered before the state is looked at.
Enable ==
  /\ cpc = "enable"
  /\ heard' = IF permit = "yes" THEN "permit" ELSE "no"
  /\ permit' = "no"
  /\ cpc' = "drain"
  /\ UNCHANGED <<sets, delayed, attempts, shut, held, owed, alarm>>

IsDue == delayed # <<>> /\ delayed[1].left = 0

\* drain_due, one entry; the lock is held.
DrainDue ==
  /\ cpc = "drain" /\ IsDue
  /\ Enqueue(delayed[1].key, processing, dirty)
  /\ delayed' = Tail(delayed)
  /\ UNCHANGED <<processing, attempts, shut, cpc, held, notify, alarm>>

HandOut ==
  /\ cpc = "drain" /\ ~IsDue /\ ready # <<>>
  /\ held' = Head(ready)
  /\ ready' = Tail(ready)
  /\ queued' = queued \ {Head(ready)}
  /\ processing' = processing \cup {Head(ready)}
  /\ cpc' = "holding"
  /\ DropNotified
  /\ UNCHANGED <<dirty, delayed, attempts, shut, alarm>>

End ==
  /\ cpc = "drain" /\ ~IsDue /\ ready = <<>> /\ shut = "yes"
  /\ cpc' = "ended"
  /\ DropNotified
  /\ UNCHANGED <<sets, delayed, attempts, shut, held, alarm>>

Park ==
  /\ cpc = "drain" /\ ~IsDue /\ ready = <<>> /\ shut = "no"
  /\ cpc' = "parked"
  /\ alarm' = IF delayed = <<>> THEN None ELSE delayed[1].left
  /\ UNCHANGED <<sets, delayed, attempts, shut, held, notify>>

\* The notification is consumed, or the timer fires and it is dropped.
Wake ==
  /\ cpc = "parked"
  /\ \/ heard # "no" /\ heard' = "no" /\ UNCHANGED <<permit, owed>>
     \/ alarm = 0 /\ DropNotified
  /\ cpc' = "enable"
  /\ alarm' = None
  /\ UNCHANGED <<sets, delayed, attempts, shut, held>>

\* Time left after one unit; what is overdue stays due.
Less(n) == IF n = 0 THEN 0 ELSE n - 1

Pass ==
  /\ delayed' = [i \in DOMAIN delayed |-> [delayed[i] EXCEPT !.left = Less(@)]]
  /\ alarm' = IF alarm = None THEN None ELSE Less(alarm)
  /\ UNCHANGED <<sets, attempts, shut, cpc, held, notify>>

Get == Enable \/ DrainDue \/ HandOut \/ End \/ Park \/ Wake

-----------------------------------------------------------------------------
(* The consumer's task, any number of handlers and any caller *)

Take ==
  /\ cpc = "holding"
  /\ cpc' = "enable"
  /\ held' = None
  /\ UNCHANGED <<sets, delayed, attempts, shut, notify, alarm>>

Done(k) == k \in processing /\ k # held /\ Finished(k)

QueueNext ==
  \/ Get \/ Take \/ NotifyOne \/ Pass \/ Shutdown
  \/ \E k \in Keys : \/ Add(k) \/ Done(k) \/ AddRateLimited(k) \/ Forget(k)
                     \/ \E d \in Delays : AddAfter(k, d)

QueueSpec == QueueInit /\ [][QueueNext]_qvars

\* The consumer's task runs, callers that released the lock go on to notify,
\* time passes.
QueueLiveSpec == QueueSpec /\ WF_qvars(Get) /\ WF_qvars(Take) /\ WF_qvars(NotifyOne) /\ WF_qvars(Pass)

-----------------------------------------------------------------------------
(* Properties *)

\* The ready queue and its set agree, and a key is in one place only.
QueueShape ==
  /\ queued = {ready[i] : i \in DOMAIN ready}
  /\ \A i, j \in DOMAIN ready : ready[i] = ready[j] => i = j
  /\ processing \cap queued = {}
  /\ dirty \subseteq processing

\* get, "the wakeup is loss-free either way": a consumer that sleeps while a key
\* is ready, the queue is shut, or a delayed key is due before its timer has a
\* notification on the way.
NoLostWakeup ==
  cpc = "parked" /\ (\/ ready # <<>> \/ shut = "yes"
                     \/ delayed # <<>> /\ (alarm # None => delayed[1].left < alarm))
    => heard # "no" \/ owed > 0

RA == INSTANCE RunAgain WITH pending <- queued \cup dirty, running <- processing, closed <- shut

\* The module doc's guarantees: the queue implements the two sets of RunAgain.
Guarantees == RA!Spec

InDelay(k) == \E i \in DOMAIN delayed : delayed[i].key = k

\* A ready key is handed out, whatever else is added in the meantime; a delayed
\* key comes out: it is ready, or is being handled, or the queue is shut.
KeysServed ==
  \A k \in Keys :
    /\ k \in queued ~> k \in processing
    /\ InDelay(k) ~> (k \in queued \cup processing \/ shut = "yes")

=============================================================================
