-------------------------- MODULE WorkQueueProofs ---------------------------
(***************************************************************************)
(* For any set of keys, delays and callers: the work queue keeps its shape *)
(* (QueueShape), its consumer never sleeps through work (NoLostWakeup),    *)
(* and it implements the two sets of RunAgain.  Over it, the status worker *)
(* owns every key in processing and forgets no change of an object.        *)
(***************************************************************************)
EXTENDS MCWorkQueue, SequenceTheorems, FiniteSetTheorems, TLAPS

Elems(s) == {s[i] : i \in DOMAIN s}
Distinct(s) == \A i, j \in DOMAIN s : s[i] = s[j] => i = j

-----------------------------------------------------------------------------
(* Sequences *)

LEMMA AppendElems ==
  ASSUME NEW s \in Seq(Keys), NEW k \in Keys, k \notin Elems(s), Distinct(s)
  PROVE  /\ Append(s, k) \in Seq(Keys)
         /\ Elems(Append(s, k)) = Elems(s) \cup {k}
         /\ Distinct(Append(s, k))
         /\ Append(s, k) # <<>>
<1> DEFINE t == Append(s, k)
<1>1. /\ t \in Seq(Keys) /\ Len(t) = Len(s) + 1
      /\ \A i \in 1 .. Len(s) : t[i] = s[i]
      /\ t[Len(s) + 1] = k
  OBVIOUS
<1>2. DOMAIN t = DOMAIN s \cup {Len(s) + 1} /\ Len(s) \in Nat /\ DOMAIN s = 1 .. Len(s)
  BY <1>1
<1>3. Elems(t) = Elems(s) \cup {k}
  BY <1>1, <1>2 DEF Elems
<1>4. Distinct(t)
  BY <1>1, <1>2 DEF Distinct, Elems
<1> QED
  BY <1>1, <1>3, <1>4

LEMMA TailElems ==
  ASSUME NEW s \in Seq(Keys), s # <<>>, Distinct(s)
  PROVE  /\ Tail(s) \in Seq(Keys)
         /\ Head(s) \in Elems(s)
         /\ Elems(Tail(s)) = Elems(s) \ {Head(s)}
         /\ Distinct(Tail(s))
<1> DEFINE t == Tail(s)
<1>1. /\ Len(s) \in Nat /\ Len(s) > 0 /\ DOMAIN s = 1 .. Len(s)
      /\ t \in Seq(Keys) /\ DOMAIN t = 1 .. Len(s) - 1
      /\ \A i \in 1 .. Len(s) - 1 : t[i] = s[i + 1]
      /\ Head(s) = s[1]
  OBVIOUS
<1>2. Head(s) \in Elems(s)
  BY <1>1 DEF Elems
<1>3. Elems(t) \subseteq Elems(s) \ {Head(s)}
  BY <1>1 DEF Elems, Distinct
<1>4. ASSUME NEW x \in Elems(s) \ {Head(s)} PROVE x \in Elems(t)
  <2>1. PICK i \in DOMAIN s : x = s[i]
    BY DEF Elems
  <2>2. i # 1 /\ i - 1 \in DOMAIN t /\ t[i - 1] = x
    BY <1>1, <2>1
  <2> QED
    BY <2>2 DEF Elems
<1>5. Distinct(t)
  BY <1>1 DEF Distinct
<1> QED
  BY <1>1, <1>2, <1>3, <1>4, <1>5

LEMMA EmptyElems == ASSUME NEW s \in Seq(Keys) PROVE s = <<>> <=> Elems(s) = {}
BY DEF Elems

-----------------------------------------------------------------------------
(* The shape of the queue *)

\* QueueShape with the types it needs.
Shape ==
  /\ ready \in Seq(Keys)
  /\ queued = Elems(ready) /\ Distinct(ready)
  /\ processing \subseteq Keys /\ processing \cap queued = {}
  /\ dirty \subseteq processing
  /\ delayed \in Seq([key : Keys, left : Nat])
  /\ attempts \in [Keys -> Nat]
  /\ held \in Keys \cup {None}
  /\ shut \in {"no", "yes"}
  /\ owed \in Nat
  /\ alarm \in Nat \cup {None}

\* Inner::enqueue keeps the shape, and wakes the consumer of what it pushes.
LEMMA EnqueueShape ==
  ASSUME Shape, NEW k \in Keys, NEW busy \in SUBSET processing, NEW dirt \in SUBSET busy,
         Enqueue(k, busy, dirt)
  PROVE  /\ ready' \in Seq(Keys) /\ queued' = Elems(ready') /\ Distinct(ready')
         /\ busy \cap queued' = {} /\ dirty' \subseteq busy
         /\ ready' = <<>> => ready = <<>>
         /\ ready = <<>> /\ ready' # <<>> => Wakes(k, busy)
<1>1. CASE Wakes(k, busy)
  BY <1>1, AppendElems DEF Shape, Enqueue, Wakes
<1>2. CASE ~Wakes(k, busy)
  BY <1>2 DEF Shape, Enqueue
<1> QED
  BY <1>1, <1>2

Entry == [key : Keys, left : Nat]

LEMMA ScheduledIsHeap ==
  ASSUME delayed \in Seq(Entry), NEW k \in Keys, NEW d \in Nat
  PROVE  Scheduled(k, d) \in Seq(Entry)
<1> DEFINE S == {i \in DOMAIN delayed : delayed[i].left <= d}
           n == Cardinality(S)
<1>1. Len(delayed) \in Nat /\ DOMAIN delayed = 1 .. Len(delayed)
  OBVIOUS
<1>2. IsFiniteSet(1 .. Len(delayed)) /\ Cardinality(1 .. Len(delayed)) = Len(delayed)
  BY <1>1, FS_Interval
<1>3. n \in Nat /\ n <= Len(delayed)
  BY <1>1, <1>2, FS_Subset, FS_CardinalityType
<1> HIDE DEF n
<1>a. /\ \A i \in 1 .. n : delayed[i] \in Entry
      /\ \A i \in n + 1 .. Len(delayed) : delayed[i] \in Entry
  BY <1>1, <1>3
<1>b. 1 \in Int /\ n \in Int /\ n + 1 \in Int /\ Len(delayed) \in Int
  BY <1>1, <1>3
<1>4. SubSeq(delayed, 1, n) \in Seq(Entry) /\ SubSeq(delayed, n + 1, Len(delayed)) \in Seq(Entry)
  BY <1>a, <1>b, SubSeqProperties, Zenon
<1>5. <<[key |-> k, left |-> d]>> \in Seq(Entry)
  BY DEF Entry
<1> QED
  BY <1>4, <1>5, ConcatProperties DEF Scheduled, n

LEMMA DelayIsNat == ASSUME NEW n \in Nat PROVE DelayFor(n) \in Nat
<1> DEFINE s == IF n > 20 THEN 20 ELSE n
<1>1. s \in 0 .. 20
  OBVIOUS
<1> HIDE DEF s
<1>2. 2^s \in Nat
  BY <1>1, ShiftAssumption
<1>3. Base * 2^s \in Nat /\ Cap \in Nat
  BY <1>2, QueueAssumption
<1> QED
  BY <1>3 DEF DelayFor, s

LEMMA PassKeepsHeap ==
  ASSUME delayed \in Seq(Entry), Pass
  PROVE  /\ delayed' \in Seq(Entry)
         /\ delayed' = <<>> <=> delayed = <<>>
         /\ delayed # <<>> => delayed'[1].left = Less(delayed[1].left) /\ delayed[1].left \in Nat
<1>1. Len(delayed) \in Nat /\ DOMAIN delayed = 1 .. Len(delayed)
  OBVIOUS
<1>a. \A i \in 1 .. Len(delayed) : delayed[i] \in Entry
  OBVIOUS
<1>2. \A i \in 1 .. Len(delayed) : delayed[i] \in Entry /\ delayed[i].left \in Nat
  BY <1>a DEF Entry
<1>3. \A n \in Nat : Less(n) \in Nat
  BY DEF Less
<1>4. \A i \in 1 .. Len(delayed) : [delayed[i] EXCEPT !.left = Less(@)] \in Entry
                                 /\ [delayed[i] EXCEPT !.left = Less(@)].left = Less(delayed[i].left)
  BY <1>2, <1>3 DEF Entry
<1>5. delayed' = [i \in 1 .. Len(delayed) |-> [delayed[i] EXCEPT !.left = Less(@)]]
  BY <1>1 DEF Pass
<1>6. delayed' \in [1 .. Len(delayed) -> Entry]
  BY <1>4, <1>5
<1>7. delayed' \in Seq(Entry) /\ Len(delayed') = Len(delayed)
  BY <1>1, <1>6
<1>8. delayed' = <<>> <=> delayed = <<>>
  BY <1>7, EmptySeq
<1>9. delayed # <<>> => 1 \in 1 .. Len(delayed)
  BY <1>1
<1> QED
  BY <1>2, <1>4, <1>5, <1>7, <1>8, <1>9

-----------------------------------------------------------------------------
(* The invariant: the shape, and no sleep through work *)

Inv == Shape /\ NoLostWakeup

LEMMA InvInit == QueueInit => Inv
<1> SUFFICES ASSUME QueueInit PROVE Inv
  OBVIOUS
<1>1. Elems(ready) = {} /\ Distinct(ready)
  BY DEF QueueInit, Elems, Distinct
<1> QED
  BY <1>1 DEF QueueInit, Inv, Shape, NoLostWakeup

\* A caller's critical section that leaves the consumer where it is either wakes
\* it or gives it nothing to do.
LEMMA CallerKeepsInv ==
  ASSUME Inv, NEW k \in Keys,
         \/ Add(k) \/ Done(k) \/ AddRateLimited(k) \/ Forget(k) \/ \E d \in Delays : AddAfter(k, d)
  PROVE  Inv'
<1> USE DEF Inv
<1>1. ASSUME Add(k) PROVE Inv'
  <2>1. /\ ready' \in Seq(Keys) /\ queued' = Elems(ready') /\ Distinct(ready')
        /\ processing \cap queued' = {} /\ dirty' \subseteq processing
        /\ ready = <<>> /\ ready' # <<>> => Wakes(k, processing)
    <3>1. Enqueue(k, processing, dirty) /\ processing \in SUBSET processing /\ dirty \in SUBSET processing
      BY <1>1 DEF Add, Shape
    <3> QED
      BY <3>1, EnqueueShape, Zenon
  <2>2. Shape'
    BY <1>1, <2>1 DEF Add, Shape
  <2>3. NoLostWakeup'
    BY <1>1, <2>1 DEF Add, Shape, NoLostWakeup
  <2> QED
    BY <2>2, <2>3
<1>2. ASSUME NEW d \in Nat, AddDelayed(k, d), attempts' \in [Keys -> Nat] PROVE Inv'
  <2>1. delayed' \in Seq(Entry)
    BY <1>2, ScheduledIsHeap DEF AddDelayed, Shape, Entry
  <2>2. Shape'
    BY <1>2, <2>1 DEF AddDelayed, Shape, Entry, sets
  <2>3. NoLostWakeup'
    BY <1>2 DEF AddDelayed, Shape, NoLostWakeup, sets
  <2> QED
    BY <2>2, <2>3
<1>3. ASSUME NEW d \in Delays, AddAfter(k, d) PROVE Inv'
  <2>1. d \in Nat /\ attempts' \in [Keys -> Nat]
    BY <1>3, QueueAssumption DEF AddAfter, Shape
  <2> QED
    BY <1>1, <1>2, <1>3, <2>1 DEF AddAfter
<1>4. ASSUME AddRateLimited(k) PROVE Inv'
  <2>1. AddDelayed(k, DelayFor(attempts[k]))
    BY <1>4 DEF AddRateLimited
  <2>2. DelayFor(attempts[k]) \in Nat
    BY DelayIsNat DEF Shape
  <2>3. attempts' \in [Keys -> Nat]
    BY <1>4 DEF AddRateLimited, Shape
  <2> QED
    BY <1>2, <2>1, <2>2, <2>3
<1>5. ASSUME Forget(k) PROVE Inv'
  BY <1>5 DEF Forget, Shape, NoLostWakeup, sets, notify
<1>6. ASSUME Done(k) PROVE Inv'
  <2> DEFINE busy == processing \ {k}
  <2>1. Finished(k) /\ k \in processing /\ k \notin queued
    BY <1>6 DEF Done, Shape
  <2>2. CASE k \in dirty
    <3>1. Enqueue(k, busy, dirty \ {k})
      BY <2>1, <2>2 DEF Finished
    <3>a. busy \in SUBSET processing /\ dirty \ {k} \in SUBSET busy
      BY DEF Shape
    <3> HIDE DEF busy
    <3>2. /\ ready' \in Seq(Keys) /\ queued' = Elems(ready') /\ Distinct(ready')
          /\ busy \cap queued' = {} /\ dirty' \subseteq busy
          /\ ready = <<>> /\ ready' # <<>> => Wakes(k, busy)
      BY <3>a, <3>1, EnqueueShape, Zenon
    <3> USE DEF busy
    <3>3. Shape'
      BY <2>1, <3>2 DEF Finished, Shape
    <3>4. NoLostWakeup'
      BY <2>1, <2>2, <3>2 DEF Finished, Shape, NoLostWakeup
    <3> QED
      BY <3>3, <3>4
  <2>3. CASE k \notin dirty
    BY <2>1, <2>3 DEF Finished, Shape, NoLostWakeup
  <2> QED
    BY <2>2, <2>3
<1> QED
  BY <1>1, <1>3, <1>4, <1>5, <1>6

\* The consumer's own steps: it parks only when there is nothing to do.
LEMMA ConsumerKeepsInv ==
  ASSUME Inv, Get \/ Take \/ NotifyOne \/ Shutdown
  PROVE  Inv'
<1> USE DEF Inv
<1>1. CASE Enable
  BY <1>1 DEF Enable, Shape, NoLostWakeup, sets
<1>2. CASE DrainDue
  <2>1. delayed[1] \in Entry /\ Tail(delayed) \in Seq(Entry)
    <3>1. delayed \in Seq(Entry) /\ delayed # <<>>
      BY <1>2 DEF DrainDue, IsDue, Shape, Entry
    <3> QED
      BY <3>1
  <2>2. delayed[1].key \in Keys
    BY <2>1 DEF Entry
  <2>3. /\ ready' \in Seq(Keys) /\ queued' = Elems(ready') /\ Distinct(ready')
        /\ processing \cap queued' = {} /\ dirty' \subseteq processing
    <3>1. /\ Enqueue(delayed[1].key, processing, dirty)
          /\ processing \in SUBSET processing /\ dirty \in SUBSET processing
      BY <1>2 DEF DrainDue, Shape
    <3> QED
      BY <2>2, <3>1, EnqueueShape, Zenon
  <2> QED
    BY <1>2, <2>1, <2>3 DEF DrainDue, Shape, NoLostWakeup, Entry, notify
<1>3. CASE HandOut
  <2>1. /\ Tail(ready) \in Seq(Keys) /\ Head(ready) \in Elems(ready)
        /\ Elems(Tail(ready)) = Elems(ready) \ {Head(ready)} /\ Distinct(Tail(ready))
    BY <1>3, TailElems DEF HandOut, Shape
  <2>2. Head(ready) \in Keys
    BY <1>3 DEF HandOut, Shape
  <2> QED
    BY <1>3, <2>1, <2>2 DEF HandOut, DropNotified, Shape, NoLostWakeup
<1>4. CASE End
  BY <1>4 DEF End, DropNotified, Shape, NoLostWakeup, sets
<1>5. CASE Park
  <2>1. delayed # <<>> => delayed[1] \in Entry
    <3>1. delayed \in Seq(Entry)
      BY DEF Shape, Entry
    <3> QED
      BY <3>1
  <2>2. alarm' \in Nat \cup {None}
    BY <1>5, <2>1 DEF Park, Entry
  <2>3. Shape'
    BY <1>5, <2>2 DEF Park, Shape, sets, notify
  <2>4. NoLostWakeup'
    BY <1>5, <2>1, QueueAssumption DEF Park, Shape, NoLostWakeup, sets, notify, Entry
  <2> QED
    BY <2>3, <2>4
<1>6. CASE Wake
  BY <1>6 DEF Wake, DropNotified, Shape, NoLostWakeup, sets
<1>7. CASE Take
  BY <1>7 DEF Take, Shape, NoLostWakeup, sets, notify
<1>8. CASE NotifyOne
  BY <1>8 DEF NotifyOne, Shape, NoLostWakeup, sets
<1>9. CASE Shutdown
  BY <1>9 DEF Shutdown, Shape, NoLostWakeup, sets
<1> QED
  BY <1>1, <1>2, <1>3, <1>4, <1>5, <1>6, <1>7, <1>8, <1>9 DEF Get

\* Time: the timer and the first deadline move together.
LEMMA TimeKeepsInv == ASSUME Inv, Pass PROVE Inv'
<1> USE DEF Inv
<1>1. /\ delayed' \in Seq(Entry) /\ (delayed' = <<>> <=> delayed = <<>>)
      /\ delayed # <<>> => delayed'[1].left = Less(delayed[1].left) /\ delayed[1].left \in Nat
  BY PassKeepsHeap DEF Shape, Entry
<1>2. alarm' \in Nat \cup {None} /\ (alarm' # None => alarm # None /\ alarm \in Nat /\ alarm' = Less(alarm))
      /\ (alarm # None => alarm' # None)
  BY QueueAssumption DEF Pass, Shape, Less
<1>3. Shape'
  BY <1>1, <1>2 DEF Pass, Shape, Entry, sets, notify
<1>4. NoLostWakeup'
  BY <1>1, <1>2 DEF Pass, NoLostWakeup, Less, sets, notify
<1> QED
  BY <1>3, <1>4

LEMMA InvStep == Inv /\ [QueueNext]_qvars => Inv'
<1> SUFFICES ASSUME Inv, [QueueNext]_qvars PROVE Inv'
  OBVIOUS
<1>1. CASE UNCHANGED qvars
  BY <1>1 DEF qvars, sets, notify, Inv, Shape, NoLostWakeup
<1>2. CASE QueueNext
  BY <1>2, CallerKeepsInv, ConsumerKeepsInv, TimeKeepsInv DEF QueueNext
<1> QED
  BY <1>1, <1>2

\* The ready queue, its set, the processing and the dirty keys agree, always.
THEOREM QueueShapeCorrect == QueueSpec => []QueueShape
<1>1. Inv => QueueShape
  BY DEF Inv, Shape, QueueShape, Elems, Distinct
<1> QED
  BY InvInit, InvStep, <1>1, PTL DEF QueueSpec

\* The consumer of get never sleeps through a key that is ready or due.
THEOREM WakeupCorrect == QueueSpec => []NoLostWakeup
<1>1. Inv => NoLostWakeup
  BY DEF Inv
<1> QED
  BY InvInit, InvStep, <1>1, PTL DEF QueueSpec

-----------------------------------------------------------------------------
(* Refinement *)

\* The variables of RunAgain.
avars == <<queued \cup dirty, processing, shut>>

\* Inner::enqueue asks for the key to run, or is refused by a queue that is shut.
LEMMA EnqueueAsks ==
  ASSUME NEW k \in Keys, Enqueue(k, processing, dirty), UNCHANGED <<processing, shut>>,
         shut \in {"no", "yes"}
  PROVE  RA!Ask(k) \/ UNCHANGED avars
<1>1. CASE shut = "no"
  <2>1. queued' \cup dirty' = queued \cup dirty \cup {k}
    BY <1>1 DEF Enqueue, Wakes
  <2> QED
    BY <1>1, <2>1 DEF RA!Ask
<1>2. CASE shut = "yes"
  BY <1>2 DEF Enqueue, Wakes, avars
<1> QED
  BY <1>1, <1>2

LEMMA StepImplements == Inv /\ [QueueNext]_qvars => [RA!Next]_avars
<1> SUFFICES ASSUME Inv, [QueueNext]_qvars PROVE RA!Next \/ UNCHANGED avars
  OBVIOUS
<1> USE DEF Inv
<1>1. ASSUME UNCHANGED <<sets, shut>> PROVE UNCHANGED avars
  BY <1>1 DEF sets, avars
<1>2. ASSUME NEW k \in Keys, Add(k) PROVE RA!Next \/ UNCHANGED avars
  BY <1>2, EnqueueAsks DEF Add, Shape, RA!Next
<1>3. CASE DrainDue
  <2>1. delayed \in Seq(Entry) /\ delayed # <<>>
    BY <1>3 DEF DrainDue, IsDue, Shape, Entry
  <2>2. delayed[1] \in Entry
    BY <2>1
  <2>3. delayed[1].key \in Keys
    BY <2>2 DEF Entry
  <2> QED
    BY <1>3, <2>3, EnqueueAsks DEF DrainDue, Shape, RA!Next
<1>4. CASE HandOut
  <2>1. Head(ready) \in Keys /\ Head(ready) \in queued
    BY <1>4, TailElems DEF HandOut, Shape
  <2>2. Head(ready) \notin processing /\ Head(ready) \notin dirty
    BY <2>1 DEF Shape
  <2>3. queued' \cup dirty' = (queued \cup dirty) \ {Head(ready)}
    BY <1>4, <2>2 DEF HandOut
  <2>4. RA!Run(Head(ready))
    BY <1>4, <2>1, <2>2, <2>3 DEF HandOut, RA!Run
  <2> QED
    BY <2>1, <2>4 DEF RA!Next
<1>5. ASSUME NEW k \in Keys, Done(k) PROVE RA!Next
  <2>1. Finished(k) /\ k \in processing /\ k \notin queued
    BY <1>5 DEF Done, Shape
  <2>2. processing' = processing \ {k} /\ shut' = shut
    BY <2>1 DEF Finished
  <2>3. \/ queued' \cup dirty' = queued \cup dirty
        \/ shut = "yes" /\ queued' \cup dirty' = (queued \cup dirty) \ {k}
    <3>1. CASE k \notin dirty
      BY <2>1, <3>1 DEF Finished
    <3>2. CASE k \in dirty /\ shut = "no"
      <4>1. Wakes(k, processing \ {k})
        BY <2>1, <3>2 DEF Wakes
      <4>2. queued' = queued \cup {k} /\ dirty' = dirty \ {k}
        BY <2>1, <3>2, <4>1 DEF Finished, Enqueue
      <4> QED
        BY <3>2, <4>2
    <3>3. CASE k \in dirty /\ shut = "yes"
      <4>1. queued' = queued /\ dirty' = dirty \ {k}
        BY <2>1, <3>3 DEF Finished, Enqueue, Wakes
      <4> QED
        BY <2>1, <3>3, <4>1
    <3> QED
      BY <3>1, <3>2, <3>3 DEF Shape
  <2>4. RA!Finish(k)
    BY <2>1, <2>2, <2>3 DEF RA!Finish
  <2> QED
    BY <2>4 DEF RA!Next
<1>6. CASE Shutdown
  BY <1>6 DEF Shutdown, sets, RA!Next, RA!Close
<1>7. ASSUME NEW k \in Keys, AddRateLimited(k) \/ Forget(k) PROVE UNCHANGED avars
  BY <1>1, <1>7 DEF AddRateLimited, AddDelayed, Forget
<1>8. ASSUME NEW k \in Keys, NEW d \in Delays, AddAfter(k, d) PROVE RA!Next \/ UNCHANGED avars
  BY <1>1, <1>2, <1>8 DEF AddAfter, AddDelayed
<1>9. CASE Enable \/ End \/ Park \/ Wake \/ Take \/ NotifyOne \/ Pass \/ UNCHANGED qvars
  <2>1. UNCHANGED <<sets, shut>>
    BY <1>9, Zenon DEF Enable, End, Park, Wake, Take, NotifyOne, Pass, qvars
  <2> QED
    BY <1>1, <2>1
<1> QED
  BY <1>2, <1>3, <1>4, <1>5, <1>6, <1>7, <1>8, <1>9 DEF QueueNext, Get

\* The queue implements RunAgain: a key added before it is taken runs once, one
\* added while it runs runs once more, none runs twice at a time.
THEOREM GuaranteesCorrect == QueueSpec => Guarantees
<1>1. QueueInit => RA!Init
  BY DEF QueueInit, RA!Init
<1> QED
  BY InvInit, InvStep, <1>1, StepImplements, PTL DEF QueueSpec, Guarantees, RA!Spec, avars

-----------------------------------------------------------------------------
(* Where a key waits in the queue *)

KeysOf(heap) == {heap[i].key : i \in DOMAIN heap}
InQueue(k) == k \in queued \cup dirty \cup {held} \cup KeysOf(delayed)

\* The consumer holds a key exactly between the hand-out and the hand-over.
HeldWhile == cpc = "holding" <=> held \in Keys

LEMMA ScheduledKeys ==
  ASSUME delayed \in Seq(Entry), NEW k \in Keys, NEW d \in Nat
  PROVE  KeysOf(delayed) \cup {k} \subseteq KeysOf(Scheduled(k, d))
<1> DEFINE S == {i \in DOMAIN delayed : delayed[i].left <= d}
           n == Cardinality(S)
           N == Len(delayed)
           a == SubSeq(delayed, 1, n)
           e == <<[key |-> k, left |-> d]>>
           b == SubSeq(delayed, n + 1, N)
           t == a \o e \o b
<1>1. N \in Nat /\ DOMAIN delayed = 1 .. N
  OBVIOUS
<1>2. IsFiniteSet(1 .. N) /\ Cardinality(1 .. N) = N
  BY <1>1, FS_Interval
<1>3. n \in Nat /\ n <= N
  BY <1>1, <1>2, FS_Subset, FS_CardinalityType
<1>4. t = Scheduled(k, d)
  BY DEF Scheduled
<1> HIDE DEF n
<1>x. /\ \A i \in 1 .. n : delayed[i] \in Entry
      /\ \A i \in n + 1 .. N : delayed[i] \in Entry
  BY <1>1, <1>3
<1>y. 1 \in Int /\ n \in Int /\ n + 1 \in Int /\ N \in Int
  BY <1>1, <1>3
<1> HIDE DEF N
<1>5. /\ a \in Seq(Entry) /\ Len(a) = n
      /\ \A i \in 1 .. n : a[i] = delayed[i]
  <2>1. a \in Seq(Entry)
    BY <1>x, <1>y, SubSeqProperties, Zenon
  <2>2. Len(a) = n
    BY <1>3
  <2>3. \A i \in 1 .. n : a[i] = delayed[i]
    BY <1>3
  <2> QED BY <2>1, <2>2, <2>3
<1>6. /\ b \in Seq(Entry) /\ Len(b) = N - n
      /\ \A i \in 1 .. N - n : b[i] = delayed[n + i]
  <2>1. b \in Seq(Entry)
    BY <1>x, <1>y, SubSeqProperties, Zenon
  <2>2. Len(b) = N - n
    BY <1>1, <1>3
  <2>3. \A i \in 1 .. N - n : b[i] = delayed[n + i]
    BY <1>1, <1>3
  <2> QED BY <2>1, <2>2, <2>3
<1>7. /\ DOMAIN t = 1 .. N + 1
      /\ \A i \in 1 .. n : t[i] = delayed[i]
      /\ t[n + 1].key = k
      /\ \A i \in 1 .. N - n : t[n + 1 + i] = delayed[n + i]
  <2>1. e \in Seq(Entry) /\ Len(e) = 1 /\ e[1].key = k
    BY DEF Entry
  <2> HIDE DEF a, b, e
  <2>2. /\ a \o e \in Seq(Entry) /\ Len(a \o e) = n + 1
        /\ \A i \in 1 .. n + 1 : (a \o e)[i] = IF i <= n THEN a[i] ELSE e[i - n]
    <3>1. /\ a \o e \in Seq(Entry) /\ Len(a \o e) = Len(a) + Len(e)
          /\ \A i \in 1 .. Len(a) + Len(e) : (a \o e)[i] = IF i <= Len(a) THEN a[i] ELSE e[i - Len(a)]
      BY <1>5, <2>1, ConcatProperties, Zenon
    <3> QED BY <1>5, <2>1, <3>1
  <2>3. /\ t \in Seq(Entry) /\ Len(t) = n + 1 + (N - n)
        /\ \A i \in 1 .. n + 1 + (N - n) : t[i] = IF i <= n + 1 THEN (a \o e)[i] ELSE b[i - (n + 1)]
    <3> DEFINE ae == a \o e
    <3>1. ae \in Seq(Entry) /\ Len(ae) = n + 1
      BY <2>2
    <3> HIDE DEF ae
    <3>2. /\ ae \o b \in Seq(Entry) /\ Len(ae \o b) = Len(ae) + Len(b)
          /\ \A i \in 1 .. Len(ae) + Len(b) : (ae \o b)[i] = IF i <= Len(ae) THEN ae[i] ELSE b[i - Len(ae)]
      BY <1>6, <3>1, ConcatProperties, Zenon
    <3>3. t = ae \o b
      BY DEF ae
    <3> HIDE DEF t
    <3>4. /\ t \in Seq(Entry) /\ Len(t) = n + 1 + (N - n)
          /\ \A i \in 1 .. n + 1 + (N - n) : t[i] = IF i <= n + 1 THEN ae[i] ELSE b[i - (n + 1)]
      BY <1>6, <3>1, <3>2, <3>3
    <3> QED BY <3>4 DEF ae
  <2> HIDE DEF t
  <2>4. n + 1 + (N - n) = N + 1 /\ N + 1 \in Nat
    BY <1>1, <1>3
  <2>5. DOMAIN t = 1 .. N + 1
    BY <2>3, <2>4
  <2>6. \A i \in 1 .. n : t[i] = delayed[i]
    <3> SUFFICES ASSUME NEW i \in 1 .. n PROVE t[i] = delayed[i]
      OBVIOUS
    <3>1. i \in 1 .. n + 1 + (N - n) /\ i \in 1 .. n + 1 /\ i <= n + 1 /\ i <= n
      BY <1>1, <1>3
    <3>2. t[i] = (a \o e)[i]
      BY <2>3, <3>1
    <3>3. (a \o e)[i] = a[i]
      BY <2>2, <3>1
    <3> QED BY <1>5, <3>2, <3>3
  <2>7. t[n + 1].key = k
    BY <1>1, <1>3, <2>1, <2>2, <2>3
  <2>8. ASSUME NEW i \in 1 .. N - n PROVE t[n + 1 + i] = delayed[n + i]
    <3> DEFINE j == n + 1 + i
    <3>1. j \in 1 .. n + 1 + (N - n) /\ ~(j <= n + 1) /\ j - (n + 1) = i
      BY <1>1, <1>3
    <3> HIDE DEF j
    <3>2. t[j] = b[j - (n + 1)]
      BY <2>3, <3>1
    <3>3. t[j] = b[i]
      BY <3>1, <3>2
    <3> QED BY <1>6, <3>3 DEF j
  <2> QED BY <2>5, <2>6, <2>7, <2>8
<1> HIDE DEF t
<1>8. k \in KeysOf(t)
  <2>1. n + 1 \in DOMAIN t
    BY <1>1, <1>3, <1>7
  <2> QED BY <1>7, <2>1 DEF KeysOf
<1>9. ASSUME NEW i \in 1 .. N PROVE delayed[i].key \in KeysOf(t)
  <2>1. CASE i <= n
    <3>1. i \in DOMAIN t /\ t[i] = delayed[i]
      BY <1>1, <1>3, <1>7, <2>1
    <3> QED BY <3>1 DEF KeysOf
  <2>2. CASE i > n
    <3> DEFINE j == i - n
    <3>1. j \in 1 .. N - n /\ n + j = i /\ n + 1 + j \in 1 .. N + 1
      BY <1>1, <1>3, <2>2
    <3>2. t[n + 1 + j] = delayed[i]
      BY <1>7, <3>1
    <3> QED BY <1>7, <3>1, <3>2 DEF KeysOf
  <2> QED BY <1>1, <1>3, <2>1, <2>2
<1> QED BY <1>1, <1>4, <1>8, <1>9 DEF KeysOf

\* Inner::enqueue of an open queue: the key is ready or dirty, and no other moves.
LEMMA EnqueueKeeps ==
  ASSUME NEW k, NEW busy, NEW dirt, Enqueue(k, busy, dirt), shut = "no"
  PROVE  queued' \cup dirty' = queued \cup dirt \cup {k}
  BY DEF Enqueue, Wakes

\* A key that is added waits.
LEMMA AddedWaits ==
  ASSUME Inv, shut = "no", NEW k \in Keys,
         Add(k) \/ \E d \in Delays : AddAfter(k, d)
  PROVE  InQueue(k)' /\ \A x \in Keys : InQueue(x) => InQueue(x)'
<1>1. CASE Add(k)
  BY <1>1, EnqueueKeeps DEF Add, InQueue
<1>2. ASSUME NEW d \in Delays, AddDelayed(k, d)
      PROVE  InQueue(k)' /\ \A x \in Keys : InQueue(x) => InQueue(x)'
  <2>1. delayed' = Scheduled(k, d) /\ UNCHANGED <<queued, dirty, held>>
    BY <1>2 DEF AddDelayed, sets
  <2>2. KeysOf(delayed) \cup {k} \subseteq KeysOf(Scheduled(k, d))
    BY ScheduledKeys, QueueAssumption DEF Inv, Shape, Entry
  <2> QED BY <2>1, <2>2 DEF InQueue, KeysOf
<1> QED BY <1>1, <1>2 DEF AddAfter

\* The consumer, a notification and time keep every key that waits.
LEMMA GetKeeps ==
  ASSUME Inv, HeldWhile, shut = "no", Get \/ NotifyOne \/ Pass
  PROVE  HeldWhile' /\ shut' = "no" /\ \A x \in Keys : InQueue(x) => InQueue(x)'
<1>1. CASE DrainDue
  <2>1. delayed \in Seq(Entry) /\ delayed # <<>>
    BY <1>1 DEF DrainDue, IsDue, Inv, Shape, Entry
  <2>2. /\ Len(delayed) \in Nat /\ DOMAIN delayed = 1 .. Len(delayed)
        /\ DOMAIN Tail(delayed) = 1 .. Len(delayed) - 1
        /\ \A i \in 1 .. Len(delayed) - 1 : Tail(delayed)[i] = delayed[i + 1]
    BY <2>1
  <2>3. KeysOf(delayed) \subseteq KeysOf(Tail(delayed)) \cup {delayed[1].key}
    <3> SUFFICES ASSUME NEW i \in 1 .. Len(delayed), i # 1
                 PROVE  delayed[i].key \in KeysOf(Tail(delayed))
      BY <2>2 DEF KeysOf
    <3>1. i - 1 \in 1 .. Len(delayed) - 1 /\ Tail(delayed)[i - 1] = delayed[i]
      BY <2>2
    <3> QED BY <2>2, <3>1 DEF KeysOf
  <2>4. queued' \cup dirty' = queued \cup dirty \cup {delayed[1].key}
    BY <1>1, EnqueueKeeps DEF DrainDue
  <2> QED BY <1>1, <2>3, <2>4 DEF DrainDue, InQueue, KeysOf, HeldWhile
<1>2. CASE HandOut
  <2>1. Head(ready) \in Keys /\ held \notin Keys
    BY <1>2 DEF HandOut, Inv, Shape, HeldWhile
  <2> QED BY <1>2, <2>1 DEF HandOut, InQueue, HeldWhile, KeysOf
<1>3. CASE Pass
  <2>1. delayed \in Seq(Entry)
    BY DEF Inv, Shape, Entry
  <2>2. DOMAIN delayed' = DOMAIN delayed /\ \A i \in DOMAIN delayed : delayed'[i].key = delayed[i].key
    <3>1. \A i \in DOMAIN delayed : delayed[i] \in Entry
      BY <2>1
    <3> QED BY <1>3, <3>1 DEF Pass, Entry
  <2>3. KeysOf(delayed') = KeysOf(delayed)
    BY <2>2 DEF KeysOf
  <2> QED BY <1>3, <2>3 DEF Pass, InQueue, HeldWhile, sets, KeysOf
<1>4. CASE Enable \/ End \/ Park \/ Wake \/ NotifyOne
  <2>1. UNCHANGED <<sets, delayed, shut, held>> /\ ((cpc # "holding" /\ cpc' # "holding") \/ cpc' = cpc)
    BY <1>4, Zenon DEF Enable, End, Park, Wake, NotifyOne
  <2> QED BY <2>1 DEF sets, InQueue, KeysOf, HeldWhile
<1> QED BY <1>1, <1>2, <1>3, <1>4 DEF Get

\* A handler that ends leaves its key waiting if it was dirty.
LEMMA FinishedKeeps ==
  ASSUME shut = "no", NEW k \in Keys, Finished(k)
  PROVE  \A x \in Keys : InQueue(x) => InQueue(x)'
<1>1. queued' \cup dirty' = queued \cup dirty
  <2>1. CASE k \in dirty
    <3>1. queued' \cup dirty' = queued \cup (dirty \ {k}) \cup {k}
      BY <2>1, EnqueueKeeps DEF Finished
    <3> QED BY <2>1, <3>1
  <2>2. CASE k \notin dirty
    BY <2>2 DEF Finished
  <2> QED BY <2>1, <2>2
<1> QED BY <1>1 DEF Finished, InQueue, KeysOf

-----------------------------------------------------------------------------
(* The status worker *)

Places == {"idle", "start", "patch", "send", "requeue", "done"}

WorkerTypes ==
  /\ version \in [Keys -> Nat] /\ written \in [Keys -> Nat] /\ seen \in [Keys -> Nat]
  /\ clock \in Nat
  /\ hpc \in [Keys -> Places]

\* The queue is open and in shape, and each key in processing has its handler.
WorkerBase == Inv /\ HeldWhile /\ shut = "no" /\ WorkerTypes /\ ProcessingOwned

Covered(k) == rebuild = "yes" \/ k \in todo \/ InQueue(k)

\* A handler that is about to write a version that has passed will run again, which
\* is what makes a write that lands late harmless.
NoStaleHandler ==
  \A k \in Present : hpc[k] \in {"patch", "send"} /\ seen[k] # version[k] => Covered(k)

WorkerInv == WorkerBase /\ NoStaleHandler /\ ChangeNotLost

LEMMA WaitingInQueue == ASSUME NEW k PROVE Waiting(k) <=> k \in todo \/ InQueue(k)
  BY DEF Waiting, InQueue, KeysOf

LEMMA WorkerInitInv == WorkerInit => WorkerInv
<1> SUFFICES ASSUME WorkerInit PROVE WorkerInv
  OBVIOUS
<1>1. Inv
  BY InvInit DEF WorkerInit
<1>2. Present = {} /\ \A k \in Keys : hpc[k] = "idle"
  BY DEF WorkerInit, Present
<1>3. HeldWhile /\ held \notin Keys /\ processing = {} /\ shut = "no"
  BY QueueAssumption DEF WorkerInit, QueueInit, HeldWhile
<1>4. WorkerTypes
  BY DEF WorkerInit, WorkerTypes, Places
<1>5. ProcessingOwned
  BY <1>2, <1>3 DEF ProcessingOwned
<1> QED BY <1>1, <1>2, <1>3, <1>4, <1>5 DEF WorkerInv, WorkerBase, NoStaleHandler, ChangeNotLost

\* Nothing of the queue moves.
LEMMA QueueStays ==
  ASSUME WorkerBase, UNCHANGED qvars
  PROVE  /\ Inv' /\ HeldWhile' /\ shut' = "no" /\ processing' = processing /\ held' = held
         /\ \A x \in Keys : InQueue(x)' <=> InQueue(x)
<1>1. Inv'
  BY InvStep DEF WorkerBase
<1> QED BY <1>1 DEF WorkerBase, HeldWhile, InQueue, KeysOf, qvars, sets

\* What makes work: every key that may be behind is noted.
LEMMA SourceStep ==
  ASSUME WorkerInv,
         \/ Rebuild \/ RegistryChanged \/ Promote \/ EnqueueAll \/ Demote
         \/ \E k \in Keys, v \in {0, clock + 1} : Change(k, v)
  PROVE  WorkerInv'
<1>1. UNCHANGED qvars /\ UNCHANGED handlers
  BY DEF Rebuild, RegistryChanged, Promote, EnqueueAll, Demote, Change
<1>2. /\ Inv' /\ HeldWhile' /\ shut' = "no" /\ processing' = processing /\ held' = held
      /\ \A x \in Keys : InQueue(x)' <=> InQueue(x)
  BY <1>1, QueueStays DEF WorkerInv
<1>3. WorkerTypes'
  BY <1>1 DEF WorkerInv, WorkerBase, WorkerTypes, handlers, world,
              Rebuild, RegistryChanged, Promote, EnqueueAll, Demote, Change
<1>4. ProcessingOwned'
  BY <1>1, <1>2 DEF WorkerInv, WorkerBase, ProcessingOwned, handlers
<1>5. WorkerBase'
  BY <1>2, <1>3, <1>4 DEF WorkerBase
<1>6. CASE Rebuild \/ EnqueueAll
  <2>1. todo' = todo \cup Present /\ Present' = Present /\ UNCHANGED <<version, written, leader>>
    BY <1>6 DEF Rebuild, EnqueueAll, Present, world
  <2>2. NoStaleHandler'
    BY <2>1 DEF NoStaleHandler, Covered
  <2>3. ChangeNotLost'
    BY <2>1 DEF ChangeNotLost, Waiting
  <2> QED BY <1>5, <2>2, <2>3 DEF WorkerInv
<1>7. CASE \E k \in Keys, v \in {0, clock + 1} : Change(k, v)
  <2>1. rebuild' = "yes"
    BY <1>7 DEF Change
  <2> QED BY <1>5, <2>1 DEF WorkerInv, NoStaleHandler, ChangeNotLost, Covered
<1>8. CASE RegistryChanged \/ Promote \/ Demote
  <2>1. /\ UNCHANGED world /\ Present' = Present /\ todo \subseteq todo'
        /\ leader' = "yes" => promoting' = "yes" \/ (leader = "yes" /\ promoting' = promoting)
    BY <1>8 DEF RegistryChanged, Promote, Demote, world, Present
  <2>2. UNCHANGED <<version, written, rebuild, hpc, seen, excused>>
    BY <1>1, <2>1 DEF world, handlers
  <2>3. NoStaleHandler'
    BY <1>2, <2>1, <2>2 DEF WorkerInv, NoStaleHandler, Covered, Present
  <2>4. ASSUME NEW k \in Keys PROVE Waiting(k) => Waiting(k)'
    BY <1>2, <2>1, WaitingInQueue DEF Waiting, InQueue, KeysOf
  <2>5. ChangeNotLost'
    BY <2>1, <2>2, <2>4 DEF WorkerInv, ChangeNotLost, Present
  <2> QED BY <1>5, <2>3, <2>5 DEF WorkerInv
<1> QED BY <1>6, <1>7, <1>8

\* The queue moves on its own or a key is added to it: no key that waits is lost.
LEMMA QueueMoves ==
  ASSUME WorkerInv, QueueStep \/ \E k \in Keys : AddTodo(k)
  PROVE  WorkerInv'
<1>1. /\ UNCHANGED <<world, leader, promoting, handlers>>
      /\ Get \/ NotifyOne \/ Pass \/ \E k \in Keys : Add(k)
  BY DEF QueueStep, AddTodo
<1>2. UNCHANGED <<version, written, clock, rebuild, hpc, seen, excused>> /\ Present' = Present
  BY <1>1 DEF world, handlers, Present
<1>3. Inv'
  BY <1>1, InvStep DEF WorkerInv, WorkerBase, QueueNext
<1>4. HeldWhile' /\ shut' = "no" /\ \A x \in Keys : InQueue(x) => InQueue(x)'
  <2>1. CASE Get \/ NotifyOne \/ Pass
    BY <2>1, GetKeeps DEF WorkerInv, WorkerBase
  <2>2. ASSUME NEW k \in Keys, Add(k)
        PROVE  HeldWhile' /\ shut' = "no" /\ \A x \in Keys : InQueue(x) => InQueue(x)'
    BY <2>2, AddedWaits DEF WorkerInv, WorkerBase, Add, HeldWhile
  <2> QED BY <1>1, <2>1, <2>2
<1>5. \A x \in Keys : x \in todo \/ InQueue(x) => x \in todo' \/ InQueue(x)'
  <2>1. CASE todo' = todo
    BY <1>4, <2>1
  <2>2. ASSUME NEW k \in Keys, Add(k), todo' = todo \ {k}
        PROVE  \A x \in Keys : x \in todo \/ InQueue(x) => x \in todo' \/ InQueue(x)'
    BY <1>4, <2>2, AddedWaits DEF WorkerInv, WorkerBase
  <2> QED BY <2>1, <2>2 DEF QueueStep, AddTodo
<1>6. ProcessingOwned'
  <2>1. CASE HandOut
    <3>1. Head(ready) \in Keys /\ Head(ready) \in queued
      BY <2>1, TailElems DEF HandOut, WorkerInv, WorkerBase, Inv, Shape
    <3>2. Head(ready) \notin processing /\ held \notin Keys
      BY <2>1, <3>1 DEF HandOut, WorkerInv, WorkerBase, Inv, Shape, HeldWhile
    <3>3. hpc[Head(ready)] = "idle"
      BY <3>1, <3>2 DEF WorkerInv, WorkerBase, ProcessingOwned
    <3> QED BY <1>2, <2>1, <3>1, <3>2, <3>3 DEF HandOut, WorkerInv, WorkerBase, ProcessingOwned
  <2>2. CASE UNCHANGED <<processing, held>>
    BY <1>2, <2>2 DEF WorkerInv, WorkerBase, ProcessingOwned
  <2>3. HandOut \/ UNCHANGED <<processing, held>>
    BY <1>1, Zenon DEF Get, Enable, DrainDue, End, Park, Wake, NotifyOne, Pass, Add, sets
  <2> QED BY <2>1, <2>2, <2>3
<1>7. WorkerBase'
  BY <1>2, <1>3, <1>4, <1>6 DEF WorkerInv, WorkerBase, WorkerTypes
<1>8. NoStaleHandler'
  BY <1>2, <1>5 DEF WorkerInv, NoStaleHandler, Covered, Present
<1>9. ASSUME NEW k \in Keys, Waiting(k) PROVE Waiting(k)'
  <2>1. k \in todo' \/ InQueue(k)'
    BY <1>5, <1>9, WaitingInQueue
  <2> QED BY <2>1 DEF Waiting, InQueue, KeysOf
<1>10. ChangeNotLost'
  BY <1>1, <1>2, <1>9 DEF WorkerInv, ChangeNotLost, Present
<1> QED BY <1>7, <1>8, <1>10 DEF WorkerInv

\* The steps of a handler that leave the queue alone.
HandlerStep(k) == Enter(k) \/ Fence(k) \/ Land(k) \/ Gone(k) \/ PatchFails(k) \/ Panic(k)

LEMMA HandlerBase ==
  ASSUME WorkerInv, NEW k \in Keys, HandlerStep(k)
  PROVE  /\ WorkerBase'
         /\ UNCHANGED <<version, rebuild, todo, leader, promoting>> /\ Present' = Present
         /\ \A x \in Keys : InQueue(x)' <=> InQueue(x)
         /\ \A x \in Keys \ {k} : hpc'[x] = hpc[x] /\ seen'[x] = seen[x] /\ written'[x] = written[x]
                                  /\ (x \in excused' <=> x \in excused)
         /\ k \notin excused' => k \notin excused \/ Enter(k)
<1> USE DEF HandlerStep
<1>1. UNCHANGED qvars /\ UNCHANGED <<version, clock, rebuild, todo, leader, promoting>>
  BY Zenon DEF Enter, Fence, Land, Gone, PatchFails, Panic, world
<1>2. /\ Inv' /\ HeldWhile' /\ shut' = "no" /\ processing' = processing /\ held' = held
      /\ \A x \in Keys : InQueue(x)' <=> InQueue(x)
  BY <1>1, QueueStays DEF WorkerInv
<1>3. /\ hpc[k] # "idle"
      /\ \E p \in Places \ {"idle"} : hpc' = [hpc EXCEPT ![k] = p]
  <2>1. WorkerTypes
    BY DEF WorkerInv, WorkerBase
  <2>2. CASE Enter(k)
    BY <2>1, <2>2 DEF Enter, WorkerTypes, Places
  <2>3. CASE Fence(k)
    BY <2>1, <2>3 DEF Fence, Asks, WorkerTypes, Places
  <2>4. CASE Land(k)
    BY <2>1, <2>4 DEF Land, Asks, WorkerTypes, Places
  <2>5. CASE Gone(k)
    BY <2>1, <2>5 DEF Gone, Asks, WorkerTypes, Places
  <2>6. CASE PatchFails(k)
    BY <2>1, <2>6 DEF PatchFails, WorkerTypes, Places
  <2>7. CASE Panic(k)
    BY <2>1, <2>7 DEF Panic, WorkerTypes, Places
  <2> QED BY <2>2, <2>3, <2>4, <2>5, <2>6, <2>7
<1>4. \E n \in Nat : seen' = [seen EXCEPT ![k] = n]
  <2>1. WorkerTypes
    BY DEF WorkerInv, WorkerBase
  <2> QED BY <2>1 DEF Enter, Fence, Land, Gone, PatchFails, Panic, Forgotten, WorkerTypes
<1>5. \E n \in Nat : written' = [written EXCEPT ![k] = n]
  <2>1. WorkerTypes
    BY DEF WorkerInv, WorkerBase
  <2> QED BY <2>1 DEF Enter, Fence, Land, Gone, PatchFails, Panic, world, WorkerTypes
<1>6. \/ Enter(k) /\ excused' = excused \ {k}
      \/ excused' = excused \/ excused' = excused \cup {k}
  BY DEF Enter, Fence, Land, Gone, PatchFails, Panic
<1>7. WorkerTypes'
  BY <1>1, <1>3, <1>4, <1>5 DEF WorkerInv, WorkerBase, WorkerTypes
<1>8. ProcessingOwned'
  BY <1>2, <1>3, <1>7 DEF WorkerInv, WorkerBase, ProcessingOwned, WorkerTypes
<1>9. Present' = Present
  BY <1>1 DEF Present
<1>10. \A x \in Keys \ {k} : hpc'[x] = hpc[x] /\ seen'[x] = seen[x] /\ written'[x] = written[x]
  BY <1>3, <1>4, <1>5 DEF WorkerInv, WorkerBase, WorkerTypes
<1> QED BY <1>1, <1>2, <1>6, <1>7, <1>8, <1>9, <1>10 DEF WorkerBase

\* A handler drops what it knew only when its key is written, waits, or is excused.
LEMMA HandlerMoves ==
  ASSUME WorkerInv, NEW k \in Keys, HandlerStep(k)
  PROVE  WorkerInv'
<1>1. /\ WorkerBase'
      /\ UNCHANGED <<version, rebuild, todo, leader, promoting>> /\ Present' = Present
      /\ \A x \in Keys : InQueue(x)' <=> InQueue(x)
      /\ \A x \in Keys \ {k} : hpc'[x] = hpc[x] /\ seen'[x] = seen[x] /\ written'[x] = written[x]
                               /\ (x \in excused' <=> x \in excused)
      /\ k \notin excused' => k \notin excused \/ Enter(k)
  BY HandlerBase
<1>t. WorkerTypes
  BY DEF WorkerInv, WorkerBase
<1>2. \A x \in Keys : Covered(x)' <=> Covered(x)
  BY <1>1 DEF Covered
<1>3. ASSUME NEW x \in Keys PROVE Waiting(x)' <=> Waiting(x)
  <2>1. Waiting(x)' <=> x \in todo' \/ InQueue(x)'
    BY DEF Waiting, InQueue, KeysOf
  <2> QED BY <1>1, <2>1, WaitingInQueue
<1>4. ASSUME k \in Present, hpc'[k] \in {"patch", "send"}, seen'[k] # version[k]
      PROVE  Covered(k)
  <2>1. CASE Enter(k)
    BY <1>4, <1>t, <2>1 DEF Enter, WorkerTypes
  <2>2. CASE Fence(k)
    BY <1>4, <1>t, <2>2 DEF Fence, Asks, WorkerTypes, WorkerInv, NoStaleHandler
  <2>3. CASE Land(k) \/ Gone(k)
    BY <1>4, <1>t, <2>3 DEF Land, Gone, Asks, WorkerTypes
  <2>4. CASE PatchFails(k) \/ Panic(k)
    BY <1>4, <1>t, <2>4 DEF PatchFails, Panic, WorkerTypes
  <2> QED BY <2>1, <2>2, <2>3, <2>4 DEF HandlerStep
<1>5. NoStaleHandler'
  BY <1>1, <1>2, <1>4 DEF WorkerInv, NoStaleHandler, Present
<1>6. ASSUME leader = "yes", k \in Present, written'[k] # version[k]
      PROVE  \/ rebuild = "yes" \/ promoting = "yes" \/ Waiting(k) \/ k \in excused'
             \/ hpc'[k] \in {"start", "requeue"}
             \/ hpc'[k] \in {"patch", "send"} /\ seen'[k] = version[k]
  <2> DEFINE Excuse == rebuild = "yes" \/ promoting = "yes" \/ Waiting(k) \/ k \in excused
  <2>1. \/ Excuse \/ hpc[k] \in {"start", "requeue"}
        \/ hpc[k] \in {"patch", "send"} /\ seen[k] = version[k]
        \/ written[k] = version[k]
    BY <1>6 DEF WorkerInv, ChangeNotLost
  <2>2. CASE Enter(k)
    BY <1>6, <1>t, <2>2 DEF Enter, Present, WorkerTypes
  <2>3. CASE Fence(k)
    BY <1>6, <1>t, <2>1, <2>3 DEF Fence, world, WorkerTypes
  <2>4. CASE Land(k)
    <3>1. hpc[k] = "send" /\ seen[k] # version[k] /\ excused' = excused
      BY <1>6, <1>t, <2>4 DEF Land, WorkerTypes
    <3>2. Covered(k)
      BY <1>6, <3>1 DEF WorkerInv, NoStaleHandler
    <3> QED BY <3>2, WaitingInQueue DEF Covered
  <2>5. CASE Gone(k)
    BY <1>6, <2>5 DEF Gone, Present
  <2>6. CASE PatchFails(k)
    BY <1>6, <1>t, <2>6 DEF PatchFails, WorkerTypes
  <2>7. CASE Panic(k)
    BY <2>7 DEF Panic
  <2> QED BY <2>2, <2>3, <2>4, <2>5, <2>6, <2>7 DEF HandlerStep
<1>7. ChangeNotLost'
  <2> SUFFICES ASSUME leader = "yes", NEW x \in Present, written'[x] # version[x]
               PROVE  \/ rebuild = "yes" \/ promoting = "yes" \/ Waiting(x) \/ x \in excused'
                      \/ hpc'[x] \in {"start", "requeue"}
                      \/ hpc'[x] \in {"patch", "send"} /\ seen'[x] = version[x]
    BY <1>1, <1>3 DEF ChangeNotLost, Present
  <2>1. x \in Keys
    BY DEF Present
  <2>2. CASE x # k
    BY <1>1, <2>1, <2>2 DEF WorkerInv, ChangeNotLost
  <2> QED BY <1>6, <2>2
<1> QED BY <1>1, <1>5, <1>7 DEF WorkerInv

\* The hand-over, the request to run again and the end of a handler.
LEMMA QueueOfHandler ==
  ASSUME WorkerInv, Spawn \/ \E k \in Keys : GuardDropped(k) \/ \E d \in Delays : Requeue(k, d)
  PROVE  WorkerInv'
<1>t. WorkerTypes /\ Inv /\ HeldWhile /\ shut = "no" /\ ProcessingOwned
  BY DEF WorkerInv, WorkerBase
<1>1. UNCHANGED <<world, todo, leader, promoting, seen, excused>>
  BY Zenon DEF Spawn, GuardDropped, Requeue
<1>2. UNCHANGED <<version, written, clock, rebuild>> /\ Present' = Present
  BY <1>1 DEF world, Present
<1>3. CASE Spawn
  <2>1. Take /\ held \in Keys
    BY <1>3, <1>t DEF Spawn, Take, HeldWhile
  <2>2. hpc' = [hpc EXCEPT ![held] = "start"] /\ held' = None /\ hpc[held] = "idle"
    BY <1>3, <1>t, <2>1 DEF Spawn, Take, ProcessingOwned
  <2>3. Inv'
    BY <1>t, <2>1, InvStep DEF QueueNext
  <2>4. HeldWhile' /\ shut' = "no"
    BY <1>t, <2>1, QueueAssumption DEF Take, HeldWhile
  <2>5. WorkerTypes'
    BY <1>t, <1>1, <1>2, <2>1, <2>2 DEF WorkerTypes, Places
  <2>6. ProcessingOwned'
    BY <1>t, <2>1, <2>2, QueueAssumption DEF ProcessingOwned, Take, sets, WorkerTypes
  <2>7. \A x \in Keys \ {held} : InQueue(x) => InQueue(x)'
    BY <2>1 DEF Take, sets, InQueue, KeysOf
  <2>8. \A x \in Keys \ {held} : Waiting(x) => Waiting(x)'
    BY <1>1, <2>1 DEF Take, sets, Waiting
  <2>9. \A x \in Keys : hpc'[x] = IF x = held THEN "start" ELSE hpc[x]
    BY <1>t, <2>1, <2>2 DEF WorkerTypes
  <2>10. NoStaleHandler'
    BY <1>1, <1>2, <2>7, <2>9 DEF WorkerInv, NoStaleHandler, Covered, Present
  <2>11. ChangeNotLost'
    BY <1>1, <1>2, <2>8, <2>9 DEF WorkerInv, ChangeNotLost, Present
  <2> QED BY <2>3, <2>4, <2>5, <2>6, <2>10, <2>11 DEF WorkerInv, WorkerBase
<1>4. ASSUME NEW k \in Keys, NEW d \in Delays, Requeue(k, d) PROVE WorkerInv'
  <2>1. AddAfter(k, d) /\ hpc[k] = "requeue" /\ hpc' = [hpc EXCEPT ![k] = "done"]
    BY <1>4 DEF Requeue
  <2>2. Inv'
    BY <1>t, <2>1, InvStep DEF QueueNext
  <2>3. /\ UNCHANGED <<processing, held, cpc, shut>>
    BY <2>1 DEF AddAfter, Add, AddDelayed, sets
  <2>4. InQueue(k)' /\ \A x \in Keys : InQueue(x) => InQueue(x)'
    BY <1>t, <2>1, AddedWaits
  <2>5. \A x \in Keys : Waiting(x) => Waiting(x)'
    BY <1>1, <2>4, WaitingInQueue DEF Waiting, InQueue, KeysOf
  <2>6. Waiting(k)'
    BY <2>4 DEF Waiting, InQueue, KeysOf
  <2>7. \A x \in Keys : hpc'[x] = IF x = k THEN "done" ELSE hpc[x]
    BY <1>t, <2>1 DEF WorkerTypes
  <2>8. WorkerBase'
    BY <1>t, <1>1, <1>2, <2>1, <2>2, <2>3, <2>7 DEF WorkerBase, HeldWhile, WorkerTypes, ProcessingOwned, Places
  <2>9. NoStaleHandler'
    BY <1>1, <1>2, <2>4, <2>7 DEF WorkerInv, NoStaleHandler, Covered, Present
  <2>10. ChangeNotLost'
    BY <1>1, <1>2, <2>5, <2>6, <2>7 DEF WorkerInv, ChangeNotLost, Present
  <2> QED BY <2>8, <2>9, <2>10 DEF WorkerInv
<1>5. ASSUME NEW k \in Keys, GuardDropped(k) PROVE WorkerInv'
  <2>1. Finished(k) /\ hpc[k] = "done" /\ hpc' = [hpc EXCEPT ![k] = "idle"]
    BY <1>5 DEF GuardDropped
  <2>2. k \in processing /\ k # held
    BY <1>t, <2>1 DEF ProcessingOwned
  <2>3. Inv'
    BY <1>t, <2>1, <2>2, InvStep DEF QueueNext, Done
  <2>4. UNCHANGED <<held, cpc, shut>> /\ processing' = processing \ {k}
    BY <2>1 DEF Finished
  <2>5. \A x \in Keys : InQueue(x) => InQueue(x)'
    BY <1>t, <2>1, FinishedKeeps
  <2>6. \A x \in Keys : Waiting(x) => Waiting(x)'
    BY <1>1, <2>5, WaitingInQueue DEF Waiting, InQueue, KeysOf
  <2>7. \A x \in Keys : hpc'[x] = IF x = k THEN "idle" ELSE hpc[x]
    BY <1>t, <2>1 DEF WorkerTypes
  <2>8. WorkerBase'
    BY <1>t, <1>1, <1>2, <2>1, <2>2, <2>3, <2>4, <2>7 DEF WorkerBase, HeldWhile, WorkerTypes, ProcessingOwned, Places
  <2>9. NoStaleHandler'
    BY <1>1, <1>2, <2>5, <2>7 DEF WorkerInv, NoStaleHandler, Covered, Present
  <2>10. ChangeNotLost'
    BY <1>1, <1>2, <2>1, <2>6, <2>7 DEF WorkerInv, ChangeNotLost, Present
  <2> QED BY <2>8, <2>9, <2>10 DEF WorkerInv
<1> QED BY <1>3, <1>4, <1>5

LEMMA WorkerInvStep == WorkerInv /\ [WorkerNext]_wvars => WorkerInv'
<1> SUFFICES ASSUME WorkerInv, [WorkerNext]_wvars PROVE WorkerInv'
  OBVIOUS
<1>1. CASE UNCHANGED wvars
  <2>1. UNCHANGED qvars /\ UNCHANGED <<version, written, clock, rebuild, todo, leader, promoting, hpc, seen, excused>>
    BY <1>1 DEF wvars, world, handlers
  <2>2. /\ Inv' /\ HeldWhile' /\ shut' = "no" /\ processing' = processing /\ held' = held
        /\ \A x \in Keys : InQueue(x)' <=> InQueue(x)
    BY <2>1, QueueStays DEF WorkerInv
  <2>3. \A x \in Keys : Waiting(x) => Waiting(x)'
    BY <2>1, <2>2, WaitingInQueue DEF Waiting, InQueue, KeysOf
  <2>4. WorkerBase'
    BY <2>1, <2>2 DEF WorkerInv, WorkerBase, WorkerTypes, ProcessingOwned
  <2> QED BY <2>1, <2>2, <2>3, <2>4 DEF WorkerInv, NoStaleHandler, ChangeNotLost, Covered, Present
<1>2. CASE WorkerNext
  BY <1>2, SourceStep, QueueMoves, HandlerMoves, QueueOfHandler DEF WorkerNext, Handler, HandlerStep
<1> QED BY <1>1, <1>2

LEMMA WorkerInvHolds == WorkerSpec => []WorkerInv
  BY WorkerInitInv, WorkerInvStep, PTL DEF WorkerSpec

\* For any keys, permits, delays and changes, whichever handlers panic, conflict or
\* write late: on a leader a change that is not in the status yet is on its way to
\* it (run_status_worker, RateLimitingWorkqueue).
THEOREM WorkerLosesNoChange == WorkerSpec => []ChangeNotLost
<1>1. WorkerInv => ChangeNotLost
  BY DEF WorkerInv
<1> QED BY <1>1, WorkerInvHolds, PTL

\* A key in processing has exactly one handler, or is held by the worker (DoneGuard).
THEOREM OneHandlerPerKey == WorkerSpec => []ProcessingOwned
<1>1. WorkerInv => ProcessingOwned
  BY DEF WorkerInv, WorkerBase
<1> QED BY <1>1, WorkerInvHolds, PTL

\* The same in the composition that the run checks, where the queue may also be driven by
\* any caller: under the worker every key in processing has its one handler or hand-off.
THEOREM WorkerPartOwns == PartSpec => []WorkerOwnsProcessing
<1> DEFINE I == part = "worker" => WorkerInv
<1>1. PartInit => I
  BY WorkerInitInv DEF PartInit
<1>2. I /\ [PartNext]_partVars => I'
  <2> SUFFICES ASSUME I, [PartNext]_partVars, part' = "worker" PROVE WorkerInv'
    BY DEF WorkerInv
  <2>1. part = "worker" /\ [WorkerNext]_wvars
    BY DEF PartNext, OnQueue, OnWorker, partVars
  <2> QED BY <2>1, WorkerInvStep
<1>3. I => WorkerOwnsProcessing
  BY DEF WorkerInv, WorkerBase, WorkerOwnsProcessing
<1> QED BY <1>1, <1>2, <1>3, PTL DEF PartSpec
=============================================================================
