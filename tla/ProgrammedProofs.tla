-------------------------- MODULE ProgrammedProofs --------------------------
(***************************************************************************)
(* Proofs about what Programmed=True rests on: the sequences the publish   *)
(* index stamps (Publication), for any set of Gateways, cells and streams, *)
(* and the decision of the status handler that reads them                  *)
(* (ProgrammedGate), for any pool, specs, edits and faults.                *)
(***************************************************************************)
EXTENDS Publication, ProgrammedGate, TLAPS

(***************************************************************************)
(* The inductive invariant of Publication.                                 *)
(***************************************************************************)

\* The store only moves forward, so nothing published or stamped is ahead of it.
StoreAhead ==
  \A g \in Gateways :
    /\ rb.snap[g].rev <= live[g].rev
    /\ stamps[g].rev <= live[g].rev

\* A cell stored by the running rebuild is no older than what it will stamp, unless its
\* build failed.
StoredCovers ==
  \A c \in Cells, g \in Gateways :
    /\ rb.pc \in {"early", "late"} /\ c \notin rb.todo => Shows(c, g, cells[c], counter + 1, rb.snap[g].rev)
    /\ rb.pc = "stamp" => Shows(c, g, cells[c], counter, rb.snap[g].rev)

\* Stamps lag the counter, strictly so between the bump and the map store, and
\* every cell shows what is stamped.
StampsCovered ==
  \A g \in Gateways :
    /\ stamps[g].seq <= counter
    /\ rb.pc = "stamp" => stamps[g].seq < counter
    /\ stamps[g].seq > 0 => \A c \in Cells : Shows(c, g, cells[c], stamps[g].seq, stamps[g].rev)

\* World w, loaded from cell c under captured sequence q, shows every stamp up to q:
\* the ones in the map, and the ones the rebuild that bumped to q is about to write.
Carries(q, c, w) ==
  \A g \in Gateways :
    /\ 0 < stamps[g].seq /\ stamps[g].seq <= q => Shows(c, g, w, stamps[g].seq, stamps[g].rev)
    /\ rb.pc = "stamp" /\ q = counter => Shows(c, g, w, counter, rb.snap[g].rev)

\* The view of scope s, built but for the cells in rest.
SoundView(v, s, rest) ==
  /\ v.seq <= counter
  /\ \A c \in Needed(s) \ rest : Carries(v.seq, c, v.content[c])

ViewsSound ==
  /\ \A t \in Tasks :
       /\ pc[t] = "build" => SoundView(view[t], call[t].scope, todo[t])
       /\ pc[t] = "have" => SoundView(view[t], call[t].scope, {})
  /\ \A s \in cached : SoundView(slots[s].view, s, {})

FenceInv == StoreAhead /\ StoredCovers /\ StampsCovered /\ ViewsSound

-----------------------------------------------------------------------------
(* Type correctness *)

USE DedicatedAssumption, ScopeAssumption, BoundAssumption, TablesAssumption

LEMMA NeededCells == \A s \in Scopes : Needed(s) \subseteq Cells
  BY DEF Needed, Cells, Scopes

LEMMA NoViewType == NoView \in Views
  BY DEF NoView, Views, NoWorld, NoVersion, Worlds, Versions

LEMMA InitType == Init => TypeOK
  <1> SUFFICES ASSUME Init PROVE TypeOK
    OBVIOUS
  <1>1. NoWorld \in Worlds
    BY DEF NoWorld, NoVersion, Worlds, Versions
  <1>2. NoSlot \in [gen : Nat, view : Views]
    BY NoViewType DEF NoSlot
  <1>3. NoStamp \in Stamps
    BY DEF NoStamp, Stamps
  <1>4. Init => call \in [Tasks -> [scope : Scopes, gen : Nat]]
    BY SubscribedAssumption DEF Init
  <1> QED
    BY <1>1, <1>2, <1>3, <1>4, NoViewType DEF Init, TypeOK

LEMMA BuiltType ==
  ASSUME TypeOK, NEW t \in Tasks
  PROVE  Built(t) \in Views
  BY NoViewType DEF TypeOK, Built, Views

LEMMA WatchStep == TypeOK /\ Watch => \E g \in Gateways, gen \in Nat : WatchEvent(g, gen)
  BY DEF Watch, TypeOK, Worlds, Versions

\* What the three ways to deal with a cell have in common.
LEMMA StoreShape ==
  ASSUME TypeOK, StoreStep
  PROVE  \E c \in Cells, w \in Worlds :
           /\ Storing(c)
           /\ cells' = [cells EXCEPT ![c] = w]
           /\ failed \subseteq failed' /\ failed' \subseteq Tables \X Nat
           /\ \/ <<c, counter + 1>> \in failed' /\ w = cells[c]
              \/ \A g \in Gateways : w[g] = live[g] \/ (c = Dedicated /\ Blank(w[g]))
<1> USE DEF TypeOK
<1> DEFINE Shape == \E c \in Cells, w \in Worlds :
             /\ Storing(c)
             /\ cells' = [cells EXCEPT ![c] = w]
             /\ failed \subseteq failed' /\ failed' \subseteq Tables \X Nat
             /\ \/ <<c, counter + 1>> \in failed' /\ w = cells[c]
                \/ \A g \in Gateways : w[g] = live[g] \/ (c = Dedicated /\ Blank(w[g]))
<1>1. ASSUME NEW c \in SharedCells, StoreCell(c) PROVE Shape
  <2>1. c \in Cells
    BY DEF Cells
  <2> QED BY <1>1, <2>1 DEF StoreCell
<1>2. ASSUME NEW c \in Tables, KeepCell(c) PROVE Shape
  <2>1. c \in Cells /\ cells[c] \in Worlds /\ cells' = [cells EXCEPT ![c] = cells[c]]
    BY <1>2 DEF Cells, KeepCell
  <2>2. failed' = failed \cup {<<c, counter + 1>>} /\ failed' \subseteq Tables \X Nat
    BY <1>2 DEF KeepCell
  <2> QED BY <1>2, <2>1, <2>2 DEF KeepCell
<1>3. ASSUME NEW bad \in SUBSET {g \in Gateways : live[g].gen > 0}, StoreRegistry(bad) PROVE Shape
  <2> DEFINE w == [g \in Gateways |-> IF g \in bad THEN [gen |-> live[g].gen, rev |-> 0] ELSE live[g]]
  <2>1. w \in Worlds /\ Dedicated \in Cells
    BY DEF Worlds, Versions, Cells
  <2>2. \A g \in Gateways : w[g] = live[g] \/ Blank(w[g])
    BY DEF Blank
  <2>3. Storing(Dedicated) /\ cells' = [cells EXCEPT ![Dedicated] = w] /\ failed' = failed
    BY <1>3 DEF StoreRegistry
  <2> HIDE DEF w
  <2> QED BY <2>1, <2>2, <2>3
<1> QED BY <1>1, <1>2, <1>3 DEF StoreStep

LEMMA StoreType == TypeOK /\ StoreStep => TypeOK'
  <1> SUFFICES ASSUME TypeOK, StoreStep PROVE TypeOK'
    OBVIOUS
  <1>1. PICK c \in Cells, w \in Worlds :
          Storing(c) /\ cells' = [cells EXCEPT ![c] = w] /\ failed' \subseteq Tables \X Nat
    BY StoreShape
  <1> QED BY <1>1 DEF TypeOK, Storing, taskVars, cacheVars

LEMMA NextType == TypeOK /\ [Next]_vars => TypeOK'
  <1> SUFFICES ASSUME TypeOK, [Next]_vars PROVE TypeOK'
    OBVIOUS
  <1> USE DEF TypeOK
  <1>1. ASSUME NEW g \in Gateways, NEW gen \in Nat, WatchEvent(g, gen) PROVE TypeOK'
    BY <1>1 DEF WatchEvent, taskVars, cacheVars, Worlds, Versions
  <1>2. CASE RebuildStart
    BY <1>2 DEF RebuildStart, taskVars, cacheVars
  <1>3. CASE StoreStep
    BY <1>3, StoreType
  <1>4. CASE MidRebuildNotify
    <2>1. tick' \in Nat
      BY <1>4 DEF MidRebuildNotify
    <2>2. rb' \in [pc : {"idle", "early", "late", "stamp", "notify"}, snap : Worlds,
                   todo : SUBSET Cells]
      BY <1>4 DEF MidRebuildNotify
    <2> QED
      BY <1>4, <2>1, <2>2 DEF MidRebuildNotify, taskVars, cacheVars
  <1>5. CASE BumpCounter
    <2>1. counter' \in Nat
      BY <1>5 DEF BumpCounter
    <2>2. rb' \in [pc : {"idle", "early", "late", "stamp", "notify"}, snap : Worlds,
                   todo : SUBSET Cells]
      BY <1>5 DEF BumpCounter
    <2> QED
      BY <1>5, <2>1, <2>2 DEF BumpCounter, taskVars, cacheVars
  <1>6. CASE StoreStamps
    <2>1. PICK fp \in [Gateways -> Fingerprints] :
            stamps' = [g \in Gateways |-> StampOf(g, fp[g])]
      BY <1>6 DEF StoreStamps
    <2>2. ASSUME NEW g \in Gateways PROVE StampOf(g, fp[g]) \in Stamps
      BY <2>1 DEF StampOf, Stamps, NoStamp, Worlds, Versions
    <2> QED
      BY <1>6, <2>1, <2>2 DEF StoreStamps, taskVars, cacheVars
  <1>7. CASE NotifyRebuilt
    <2>1. tick' \in Nat /\ settledTick' \in Nat
      BY <1>7 DEF NotifyRebuilt
    <2>2. rb' \in [pc : {"idle", "early", "late", "stamp", "notify"}, snap : Worlds,
                   todo : SUBSET Cells]
      BY <1>7 DEF NotifyRebuilt
    <2> QED
      BY <1>7, <2>1, <2>2 DEF NotifyRebuilt, taskVars, cacheVars
  <1>8. ASSUME NEW t \in Tasks, TaskStep(t) PROVE TypeOK'
    <2>1. CASE Wake(t)
      BY <2>1 DEF Wake, pubVars, cacheVars
    <2>d. CASE LookupDenied(t)
      BY <2>d, NoViewType DEF LookupDenied, pubVars, cacheVars
    <2>2. CASE LookupHit(t)
      BY <2>2 DEF LookupHit, pubVars, cacheVars
    <2>3. CASE LookupMiss(t)
      BY <2>3 DEF LookupMiss, pubVars, cacheVars
    <2>4. CASE CaptureSeq(t)
      <3>1. [seq |-> counter, content |-> NoView.content, meta |-> NoView.meta] \in Views
        BY NoViewType DEF Views
      <3>2. Needed(call[t].scope) \in SUBSET Cells
        BY NeededCells
      <3> QED
        BY <2>4, <3>1, <3>2 DEF CaptureSeq, pubVars, cacheVars
    <2>5. ASSUME NEW c \in Cells, LoadCell(t, c) PROVE TypeOK'
      <3>1. WithCell(view[t], c, cells[c]) \in Views
        BY DEF Views, WithCell
      <3> QED
        BY <2>5, <3>1 DEF LoadCell, pubVars, cacheVars
    <2>6. ASSUME NEW g \in Gateways, ReadStamp(t, g) PROVE TypeOK'
      <3>1. WithMeta(view[t], g, stamps[g].seq) \in Views
        BY DEF Views, Stamps, WithMeta
      <3> QED
        BY <2>6, <3>1 DEF ReadStamp, pubVars, cacheVars
    <2>7. CASE StoreView(t)
      <3>1. Built(t) \in Views
        BY BuiltType
      <3>2. view' \in [Tasks -> Views]
        BY <2>7, <3>1 DEF StoreView
      <3>3. slots' \in [Scopes -> [gen : Nat, view : Views]]
        <4>1. CASE Hit(t)
          BY <2>7, <4>1 DEF StoreView, cacheVars
        <4>2. CASE ~Hit(t)
          <5>1. [gen |-> call[t].gen, view |-> Built(t)] \in [gen : Nat, view : Views]
            BY <3>1
          <5> QED
            BY <2>7, <4>2, <5>1 DEF StoreView
        <4> QED
          BY <4>1, <4>2
      <3>4. cached' \subseteq Scopes
        BY <2>7 DEF StoreView, cacheVars
      <3>5. pc' \in [Tasks -> {"idle", "lookup", "capture", "build", "have"}]
        BY <2>7 DEF StoreView
      <3> QED
        BY <2>7, <3>2, <3>3, <3>4, <3>5 DEF StoreView, pubVars
    <2>8. CASE Done(t)
      BY <2>8, NoViewType DEF Done, pubVars, cacheVars, Scopes
    <2> QED
      BY <1>8, <2>1, <2>d, <2>2, <2>3, <2>4, <2>5, <2>6, <2>7, <2>8 DEF TaskStep
  <1>9. CASE UNCHANGED vars
    BY <1>9 DEF vars, pubVars, cacheVars, taskVars
  <1> QED
    BY <1>1, <1>2, <1>3, <1>4, <1>5, <1>6, <1>7, <1>8, <1>9, WatchStep DEF Next, Rebuild

\* Type correctness of the publication pipeline, for every instance.
THEOREM TypeCorrect == Spec => []TypeOK
  BY InitType, NextType, PTL DEF Spec

-----------------------------------------------------------------------------
(* The publication fence *)

LEMMA InitFence == Init => FenceInv
  BY DEF Init, FenceInv, StoreAhead, StoredCovers, StampsCovered, ViewsSound,
         NoWorld, NoVersion, NoStamp, Cells

LEMMA FenceStep == TypeOK /\ FenceInv /\ [Next]_vars => FenceInv'
  <1> SUFFICES ASSUME TypeOK, FenceInv, [Next]_vars PROVE FenceInv'
    OBVIOUS
  <1> USE DEF FenceInv
  <1>type. TypeOK'
    BY NextType
  \* Steps of the publisher leave every view alone.
  <1>pub. ASSUME UNCHANGED <<cacheVars, taskVars>>,
                 \A q \in Nat, c \in Cells, w \in Worlds : q <= counter /\ Carries(q, c, w) => Carries(q, c, w)',
                 counter <= counter'
          PROVE  ViewsSound'
    <2>1. ASSUME NEW v \in Views, NEW s \in Scopes, NEW rest \in SUBSET Cells, SoundView(v, s, rest)
          PROVE  SoundView(v, s, rest)'
      <3>1. v.seq \in Nat /\ \A c \in Cells : v.content[c] \in Worlds
        BY DEF Views
      <3> QED
        BY <1>pub, <2>1, <3>1, NeededCells, <1>type DEF SoundView, TypeOK
    <2>2. \A t \in Tasks : view[t] \in Views /\ call[t].scope \in Scopes /\ todo[t] \in SUBSET Cells
      BY DEF TypeOK
    <2>3. \A s \in Scopes : slots[s].view \in Views
      BY DEF TypeOK
    <2>4. cached \subseteq Scopes
      BY DEF TypeOK
    <2>5. pc' = pc /\ call' = call /\ view' = view /\ todo' = todo /\ slots' = slots /\ cached' = cached
      BY <1>pub DEF cacheVars, taskVars
    <2> QED
      BY <2>1, <2>2, <2>3, <2>4, <2>5 DEF ViewsSound
  <1>1. ASSUME NEW g \in Gateways, NEW gen \in Nat, WatchEvent(g, gen) PROVE FenceInv'
    <2>1. StoreAhead'
      <3>1. \A k \in Gateways : live'[k].rev >= live[k].rev /\ live'[k].rev \in Nat /\ live[k].rev \in Nat
        BY <1>1 DEF WatchEvent, TypeOK, Worlds, Versions
      <3>2. \A k \in Gateways : rb.snap[k].rev \in Nat /\ stamps[k].rev \in Nat
        BY DEF TypeOK, Worlds, Versions, Stamps
      <3> QED BY <1>1, <3>1, <3>2 DEF WatchEvent, StoreAhead
    <2>2. StoredCovers' /\ StampsCovered'
      <3>1. UNCHANGED <<rb, cells, counter, stamps, failed>>
        BY <1>1 DEF WatchEvent
      <3> QED BY <3>1 DEF StoredCovers, StampsCovered, Shows
    <2>3. ViewsSound'
      <3>1. UNCHANGED <<rb, cells, counter, stamps, failed, cacheVars, taskVars>> /\ counter \in Nat
        BY <1>1 DEF WatchEvent, TypeOK
      <3>2. \A q \in Nat, c \in Cells, w \in Worlds : Carries(q, c, w) => Carries(q, c, w)'
        BY <3>1 DEF Carries, Shows
      <3> QED BY <3>1, <3>2, <1>pub
    <2> QED
      BY <2>1, <2>2, <2>3
  <1>2. CASE RebuildStart
    <2>1. StoreAhead'
      BY <1>2 DEF RebuildStart, StoreAhead, TypeOK, Worlds, Versions
    <2>2. StoredCovers' /\ StampsCovered'
      <3>1. UNCHANGED <<cells, counter, stamps, failed>>
        BY <1>2 DEF RebuildStart
      <3>2. rb'.pc = "early" /\ rb'.todo = Cells
        BY <1>2 DEF RebuildStart, TypeOK
      <3>3. StoredCovers'
        BY <3>2 DEF StoredCovers
      <3>4. StampsCovered'
        BY <3>1, <3>2 DEF StampsCovered, Shows
      <3> QED BY <3>3, <3>4
    <2>3. ViewsSound'
      BY <1>2, <1>pub DEF RebuildStart, Carries, Shows, TypeOK
    <2> QED
      BY <2>1, <2>2, <2>3
  <1>3. CASE StoreStep
    <2>1. PICK c \in Cells, w \in Worlds :
            /\ Storing(c) /\ cells' = [cells EXCEPT ![c] = w] /\ failed \subseteq failed'
            /\ \/ <<c, counter + 1>> \in failed' /\ w = cells[c]
               \/ \A g \in Gateways : w[g] = live[g] \/ (c = Dedicated /\ Blank(w[g]))
      BY <1>3, StoreShape
    <2>2. /\ rb.pc \in {"early", "late"} /\ rb'.pc = rb.pc /\ rb'.snap = rb.snap
          /\ rb'.todo = rb.todo \ {c} /\ counter' = counter /\ stamps' = stamps /\ live' = live
          /\ UNCHANGED <<cacheVars, taskVars>>
      BY <2>1 DEF Storing, TypeOK
    <2>3. \A d \in Cells : cells'[d] = IF d = c THEN w ELSE cells[d]
      BY <2>1 DEF TypeOK
    <2>4. \A d, g, u, q, n : Shows(d, g, u, q, n) => Shows(d, g, u, q, n)'
      BY <2>1 DEF Shows
    <2>5. ASSUME NEW g \in Gateways, NEW n \in Nat, n <= live[g].rev, NEW q,
                 w = cells[c] => q = counter + 1 \/ Shows(c, g, w, q, n)
          PROVE  Shows(c, g, w, q, n)'
      <3>1. live[g].rev \in Nat
        BY DEF TypeOK, Worlds, Versions
      <3>2. CASE w[g] = live[g] \/ (c = Dedicated /\ Blank(w[g]))
        BY <2>5, <3>1, <3>2 DEF Shows
      <3>3. CASE <<c, counter + 1>> \in failed' /\ w = cells[c]
        BY <2>4, <2>5, <3>3 DEF Shows
      <3> QED BY <2>1, <3>2, <3>3
    <2>6. StoreAhead'
      BY <2>2 DEF StoreAhead
    <2>7. StoredCovers'
      <3> SUFFICES ASSUME NEW d \in Cells, NEW g \in Gateways, d \notin rb'.todo
                   PROVE  Shows(d, g, cells[d], counter + 1, rb.snap[g].rev)'
        BY <2>2 DEF StoredCovers
      <3>1. CASE d = c
        <4>1. rb.snap[g].rev \in Nat /\ rb.snap[g].rev <= live[g].rev
          BY DEF TypeOK, Worlds, Versions, StoreAhead
        <4>2. Shows(c, g, w, counter + 1, rb.snap[g].rev)'
          BY <2>2, <2>5, <4>1 DEF Shows
        <4> QED BY <2>2, <2>3, <3>1, <4>2 DEF Shows
      <3>2. CASE d # c
        BY <2>2, <2>3, <2>4, <3>2 DEF StoredCovers, Shows
      <3> QED BY <3>1, <3>2
    <2>8. StampsCovered'
      <3> SUFFICES ASSUME NEW g \in Gateways, stamps[g].seq > 0, NEW d \in Cells
                   PROVE  Shows(d, g, cells[d], stamps[g].seq, stamps[g].rev)'
        BY <2>2 DEF StampsCovered
      <3>0. Shows(d, g, cells[d], stamps[g].seq, stamps[g].rev)
        BY DEF StampsCovered
      <3>1. CASE d = c
        <4>1. stamps[g].rev \in Nat /\ stamps[g].rev <= live[g].rev
          BY DEF TypeOK, Stamps, StoreAhead
        <4>2. Shows(c, g, w, stamps[g].seq, stamps[g].rev)'
          BY <2>2, <2>5, <3>0, <3>1, <4>1 DEF Shows
        <4> QED BY <2>2, <2>3, <3>1, <4>2 DEF Shows
      <3>2. CASE d # c
        BY <2>2, <2>3, <2>4, <3>0, <3>2 DEF Shows
      <3> QED BY <3>1, <3>2
    <2>9. ViewsSound'
      <3>1. \A q \in Nat, d \in Cells, u \in Worlds : Carries(q, d, u) => Carries(q, d, u)'
        BY <2>2, <2>4 DEF Carries, Shows
      <3> QED BY <1>pub, <2>2, <3>1 DEF TypeOK
    <2> QED
      BY <2>6, <2>7, <2>8, <2>9
  <1>4. CASE MidRebuildNotify
    <2>1. StoreAhead' /\ StoredCovers' /\ StampsCovered'
      BY <1>4 DEF MidRebuildNotify, StoreAhead, StoredCovers, StampsCovered, Shows, TypeOK
    <2>2. ViewsSound'
      BY <1>4, <1>pub DEF MidRebuildNotify, Carries, Shows, TypeOK
    <2> QED
      BY <2>1, <2>2
  <1>5. CASE BumpCounter
    <2>1. StoreAhead' /\ StoredCovers'
      BY <1>5 DEF BumpCounter, StoreAhead, StoredCovers, Shows, TypeOK
    <2>2. StampsCovered'
      BY <1>5 DEF BumpCounter, StampsCovered, Shows, TypeOK, Stamps
    <2>3. ViewsSound'
      BY <1>5, <1>pub DEF BumpCounter, Carries, Shows, TypeOK
    <2> QED
      BY <2>1, <2>2, <2>3
  <1>6. CASE StoreStamps
    <2>1. PICK fp \in [Gateways -> Fingerprints] :
            stamps' = [g \in Gateways |-> StampOf(g, fp[g])]
      BY <1>6 DEF StoreStamps
    <2>2. ASSUME NEW g \in Gateways
          PROVE  \/ stamps'[g] = stamps[g]
                 \/ stamps'[g].seq = 0
                 \/ stamps'[g].seq = counter /\ stamps'[g].rev = rb.snap[g].rev
      BY <2>1 DEF StampOf, NoStamp
    <2>s. /\ rb.pc = "stamp" /\ rb'.pc = "notify" /\ rb'.snap = rb.snap /\ counter' = counter
          /\ failed' = failed /\ cells' = cells /\ live' = live
      BY <1>6 DEF StoreStamps, TypeOK
    <2>3. StoreAhead' /\ StoredCovers'
      <3>1. ASSUME NEW g \in Gateways PROVE stamps'[g].rev <= live[g].rev
        <4>1. StampOf(g, fp[g]).rev \in {0, stamps[g].rev, rb.snap[g].rev} /\ live[g].rev \in Nat
          BY DEF StampOf, NoStamp, TypeOK, Worlds, Versions
        <4> QED BY <2>1, <4>1 DEF StoreAhead
      <3> QED BY <2>s, <3>1 DEF StoreAhead, StoredCovers
    <2>4. StampsCovered'
      <3>1. ASSUME NEW g \in Gateways, NEW c \in Cells, stamps'[g].seq > 0
            PROVE  Shows(c, g, cells[c], stamps'[g].seq, stamps'[g].rev)
        BY <2>2, <2>s, <3>1 DEF StampsCovered, StoredCovers
      <3>2. ASSUME NEW g \in Gateways PROVE stamps'[g].seq <= counter
        BY <2>2 DEF StampsCovered, TypeOK
      <3> QED BY <2>s, <3>1, <3>2 DEF StampsCovered, Shows
    <2>5. ASSUME NEW q \in Nat, NEW c \in Cells, NEW w \in Worlds, q <= counter, Carries(q, c, w)
          PROVE  Carries(q, c, w)'
      <3>1. rb.pc = "stamp" /\ rb'.pc # "stamp" /\ counter' = counter /\ counter \in Nat
        BY <1>6 DEF StoreStamps, TypeOK
      <3>2. ASSUME NEW g \in Gateways, 0 < stamps'[g].seq, stamps'[g].seq <= q
            PROVE  Shows(c, g, w, stamps'[g].seq, stamps'[g].rev)
        <4>1. CASE stamps'[g] = stamps[g]
          BY <2>5, <3>2, <4>1 DEF Carries
        <4>2. CASE stamps'[g].seq = counter /\ stamps'[g].rev = rb.snap[g].rev
          <5>1. q = counter
            BY <2>5, <3>1, <3>2, <4>2
          <5> QED
            BY <2>5, <3>1, <4>2, <5>1 DEF Carries
        <4> QED
          BY <2>2, <3>2, <4>1, <4>2
      <3> QED
        BY <2>s, <3>1, <3>2 DEF Carries, Shows
    <2>6. ViewsSound'
      BY <1>6, <2>5, <1>pub DEF StoreStamps, TypeOK
    <2> QED
      BY <2>3, <2>4, <2>6
  <1>7. CASE NotifyRebuilt
    <2>1. StoreAhead' /\ StoredCovers' /\ StampsCovered'
      BY <1>7 DEF NotifyRebuilt, StoreAhead, StoredCovers, StampsCovered, Shows, TypeOK
    <2>2. ViewsSound'
      BY <1>7, <1>pub DEF NotifyRebuilt, Carries, Shows, TypeOK
    <2> QED
      BY <2>1, <2>2
  <1>8. ASSUME NEW t \in Tasks, TaskStep(t) PROVE FenceInv'
    <2>pub. UNCHANGED pubVars
      BY <1>8, Zenon DEF TaskStep, Wake, LookupDenied, LookupHit, LookupMiss, CaptureSeq, LoadCell, ReadStamp,
                         StoreView, Done
    <2>1. StoreAhead' /\ StoredCovers' /\ StampsCovered'
      BY <2>pub DEF pubVars, StoreAhead, StoredCovers, StampsCovered, Shows
    <2>2. \A v, s, rest : SoundView(v, s, rest)' <=> SoundView(v, s, rest)
      BY <2>pub DEF pubVars, SoundView, Carries, Shows
    <2>3. ViewsSound'
      <3>1. CASE Wake(t)
        BY <3>1, <2>2 DEF Wake, cacheVars, ViewsSound, TypeOK
      <3>empty. SoundView(NoView, call[t].scope, {})
        <4>1. 0 <= counter
          BY DEF TypeOK
        <4>2. ASSUME NEW c \in Cells PROVE Carries(0, c, NoView.content[c])
          BY DEF Carries, StampsCovered, TypeOK, Stamps
        <4> QED
          BY <4>1, <4>2, NeededCells DEF SoundView, NoView, TypeOK
      <3>d. CASE LookupDenied(t)
        BY <3>d, <3>empty, <2>2 DEF LookupDenied, cacheVars, ViewsSound, TypeOK
      <3>2. CASE LookupHit(t)
        BY <3>2, <2>2 DEF LookupHit, Hit, cacheVars, ViewsSound, TypeOK
      <3>3. CASE LookupMiss(t)
        BY <3>3, <2>2 DEF LookupMiss, cacheVars, ViewsSound, TypeOK
      <3>4. CASE CaptureSeq(t)
        <4>1. SoundView(view'[t], call[t].scope, todo'[t])
          BY <3>4 DEF CaptureSeq, SoundView, TypeOK
        <4> QED
          BY <3>4, <4>1, <2>2 DEF CaptureSeq, cacheVars, ViewsSound, TypeOK
      <3>5. ASSUME NEW c \in Cells, LoadCell(t, c) PROVE ViewsSound'
        <4>1. SoundView(view[t], call[t].scope, todo[t])
          BY <3>5 DEF LoadCell, ViewsSound
        <4>2. view'[t] = WithCell(view[t], c, cells[c]) /\ todo'[t] = todo[t] \ {c}
          BY <3>5 DEF LoadCell, TypeOK
        <4>3. view'[t].seq = view[t].seq
          BY <4>2 DEF WithCell
        <4>4. view[t].content \in [Cells -> Worlds]
          BY DEF TypeOK, Views
        <4>5. \A d \in Cells : view'[t].content[d] = IF d = c THEN cells[c] ELSE view[t].content[d]
          BY <4>2, <4>4 DEF WithCell
        <4>6. Carries(view[t].seq, c, cells[c])
          BY <4>1 DEF Carries, SoundView, StampsCovered, StoredCovers
        <4>7. SoundView(view'[t], call[t].scope, todo'[t])
          <5>1. view'[t].seq <= counter
            BY <4>1, <4>3 DEF SoundView
          <5>2. ASSUME NEW d \in Needed(call[t].scope) \ todo'[t]
                PROVE  Carries(view'[t].seq, d, view'[t].content[d])
            <6>1. d \in Cells
              BY NeededCells DEF TypeOK
            <6>2. CASE d = c
              BY <6>2, <4>3, <4>5, <4>6
            <6>3. CASE d # c
              BY <6>1, <6>3, <4>1, <4>2, <4>3, <4>5 DEF SoundView
            <6> QED
              BY <6>2, <6>3
          <5> QED
            BY <5>1, <5>2 DEF SoundView
        <4> QED
          BY <3>5, <4>7, <2>2 DEF LoadCell, cacheVars, ViewsSound, TypeOK
      <3>6. ASSUME NEW g \in Gateways, ReadStamp(t, g) PROVE ViewsSound'
        <4>1. view'[t].seq = view[t].seq /\ view'[t].content = view[t].content /\ todo'[t] = todo[t]
          BY <3>6 DEF ReadStamp, WithMeta, TypeOK
        <4>2. SoundView(view'[t], call[t].scope, todo'[t])
          BY <3>6, <4>1 DEF ReadStamp, ViewsSound, SoundView
        <4> QED
          BY <3>6, <4>2, <2>2 DEF ReadStamp, cacheVars, ViewsSound, TypeOK
      <3>7. CASE StoreView(t)
        <4>2. SoundView(view[t], call[t].scope, {})
          BY <3>7 DEF StoreView, ViewsSound, SoundView
        <4>3. SoundView(Built(t), call[t].scope, {})
          BY <3>empty, <4>2 DEF Built
        <4>4. CASE Hit(t)
          BY <3>7, <4>4, <2>2 DEF StoreView, Hit, cacheVars, ViewsSound, TypeOK
        <4>5. CASE ~Hit(t)
          BY <3>7, <4>5, <4>3, <2>2 DEF StoreView, ViewsSound, TypeOK
        <4> QED
          BY <4>4, <4>5
      <3>8. CASE Done(t)
        BY <3>8, <2>2 DEF Done, cacheVars, ViewsSound, TypeOK
      <3> QED
        BY <1>8, <3>1, <3>d, <3>2, <3>3, <3>4, <3>5, <3>6, <3>7, <3>8 DEF TaskStep
    <2> QED
      BY <2>1, <2>3
  <1>9. CASE UNCHANGED vars
    BY <1>9 DEF vars, pubVars, cacheVars, taskVars, StoreAhead, StoredCovers, StampsCovered,
                ViewsSound, SoundView, Carries, Shows
  <1> QED
    BY <1>1, <1>2, <1>3, <1>4, <1>5, <1>6, <1>7, <1>8, <1>9, WatchStep DEF Next, Rebuild

LEMMA FenceImplies == TypeOK /\ FenceInv => FenceHonest
  BY DEF TypeOK, FenceInv, ViewsSound, SoundView, Carries, FenceHonest, Proves

\* The fence behind the `Programmed` ack gate holds whatever the number of
\* streams, cells and Gateways and however rebuilds and builds interleave.
THEOREM FenceCorrect == Spec => []FenceHonest
  <1>1. Init => TypeOK /\ FenceInv
    BY InitType, InitFence
  <1>2. TypeOK /\ FenceInv /\ [Next]_vars => (TypeOK /\ FenceInv)'
    BY NextType, FenceStep
  <1> QED
    BY <1>1, <1>2, FenceImplies, PTL DEF Spec

-----------------------------------------------------------------------------
(* The trailing tick *)

\* No tick read or cached is ahead of the watch.
TicksPast ==
  /\ settledTick <= tick
  /\ \A t \in Tasks : call[t].gen <= tick
  /\ \A s \in Scopes : slots[s].gen <= tick

\* A build that started for a settled tick captured its sequence after it.
TrailInv ==
  /\ TicksPast
  /\ rb.pc \in {"stamp", "notify"} => counter > 0
  /\ \A t \in Tasks :
       /\ pc[t] = "build" /\ settledTick > 0 /\ call[t].gen >= settledTick => view[t].seq >= SettledSeq
       /\ pc[t] = "have" => CaughtUp(view[t], call[t].scope, call[t].gen)
  /\ \A s \in cached : CaughtUp(slots[s].view, s, slots[s].gen)

LEMMA InitTrail == Init => TrailInv
  BY DEF Init, TrailInv, TicksPast, NoSlot

LEMMA NoViewEmpty == \A s \in Scopes \ {"SharedPool"} : EmptyWorld(s, NoView.content)
  BY DEF EmptyWorld, NoView, NoWorld, NoVersion, Scopes, Cells

LEMMA TrailStep == TypeOK /\ TrailInv /\ [Next]_vars => TrailInv'
  <1> SUFFICES ASSUME TypeOK, TrailInv, [Next]_vars PROVE TrailInv'
    OBVIOUS
  <1>type. TypeOK'
    BY NextType
  \* A publisher step that moves neither the settled tick nor the settled sequence.
  <1>pub. ASSUME UNCHANGED <<cacheVars, taskVars>>, settledTick' = settledTick, tick' >= tick,
                 SettledSeq' = SettledSeq, rb'.pc \in {"stamp", "notify"} => counter' > 0
          PROVE  TrailInv'
    <2>1. TicksPast'
      BY <1>pub, <1>type DEF TrailInv, TicksPast, TypeOK, cacheVars, taskVars
    <2> QED
      BY <1>pub, <2>1 DEF TrailInv, CaughtUp, cacheVars, taskVars
  <1>1. ASSUME NEW g \in Gateways, NEW gen \in Nat, WatchEvent(g, gen) PROVE TrailInv'
    BY <1>1, <1>pub DEF WatchEvent, SettledSeq, TrailInv, TypeOK
  <1>2. CASE RebuildStart
    BY <1>2, <1>pub DEF RebuildStart, SettledSeq, TypeOK
  <1>3. CASE StoreStep
    BY <1>3, <1>pub DEF StoreStep, StoreCell, KeepCell, StoreRegistry, Storing, SettledSeq, TypeOK
  <1>4. CASE MidRebuildNotify
    BY <1>4, <1>pub DEF MidRebuildNotify, SettledSeq, TypeOK
  <1>5. CASE BumpCounter
    <2>1. SettledSeq' = SettledSeq
      BY <1>5 DEF BumpCounter, SettledSeq, TypeOK
    <2>2. counter' > 0 /\ tick' >= tick
      BY <1>5 DEF BumpCounter, TypeOK
    <2> QED
      BY <1>5, <2>1, <2>2, <1>pub DEF BumpCounter
  <1>6. CASE StoreStamps
    BY <1>6, <1>pub DEF StoreStamps, SettledSeq, TrailInv, TypeOK
  <1>7. CASE NotifyRebuilt
    <2>1. TicksPast'
      BY <1>7 DEF NotifyRebuilt, TrailInv, TicksPast, TypeOK, cacheVars, taskVars
    <2>2. \A t \in Tasks : ~(call'[t].gen >= settledTick')
      BY <1>7 DEF NotifyRebuilt, TrailInv, TicksPast, TypeOK, taskVars
    <2>3. \A s \in Scopes : ~(slots'[s].gen >= settledTick')
      BY <1>7 DEF NotifyRebuilt, TrailInv, TicksPast, TypeOK, cacheVars
    <2>4. rb'.pc = "idle"
      BY <1>7 DEF NotifyRebuilt, TypeOK
    <2> QED
      BY <2>1, <2>2, <2>3, <2>4, <1>type DEF TrailInv, CaughtUp, TypeOK
  <1>8. ASSUME NEW t \in Tasks, TaskStep(t) PROVE TrailInv'
    <2>pub. UNCHANGED pubVars
      BY <1>8, Zenon DEF TaskStep, Wake, LookupDenied, LookupHit, LookupMiss, CaptureSeq, LoadCell, ReadStamp,
                         StoreView, Done
    <2>1. SettledSeq' = SettledSeq /\ settledTick' = settledTick /\ tick' = tick
          /\ rb' = rb /\ counter' = counter
      BY <2>pub DEF pubVars, SettledSeq
    <2>2. \A v, s, n : CaughtUp(v, s, n)' <=> CaughtUp(v, s, n)
      BY <2>1 DEF CaughtUp, EmptyWorld
    <2>3. SettledSeq <= counter
      BY DEF SettledSeq, TypeOK
    <2>4. CASE Wake(t)
      BY <2>4, <2>1, <2>2 DEF Wake, cacheVars, TrailInv, TicksPast, TypeOK
    <2>d. CASE LookupDenied(t)
      <3>1. CaughtUp(NoView, call[t].scope, call[t].gen)
        BY <2>d, NoViewEmpty DEF LookupDenied, CaughtUp, Scopes
      <3> QED
        BY <2>d, <3>1, <2>1, <2>2 DEF LookupDenied, cacheVars, TrailInv, TicksPast, TypeOK
    <2>5. CASE LookupHit(t)
      <3>1. CaughtUp(slots[call[t].scope].view, call[t].scope, call[t].gen)
        BY <2>5 DEF LookupHit, Hit, TrailInv, CaughtUp, TypeOK
      <3> QED
        BY <2>5, <3>1, <2>1, <2>2 DEF LookupHit, cacheVars, TrailInv, TicksPast, TypeOK
    <2>6. CASE LookupMiss(t)
      BY <2>6, <2>1, <2>2 DEF LookupMiss, cacheVars, TrailInv, TicksPast, TypeOK
    <2>7. CASE CaptureSeq(t)
      BY <2>7, <2>1, <2>2, <2>3 DEF CaptureSeq, cacheVars, TrailInv, TicksPast, TypeOK
    <2>8. ASSUME NEW c \in Cells, LoadCell(t, c) PROVE TrailInv'
      <3>1. view'[t].seq = view[t].seq
        BY <2>8 DEF LoadCell, WithCell, TypeOK
      <3> QED
        BY <2>8, <3>1, <2>1, <2>2 DEF LoadCell, cacheVars, TrailInv, TicksPast, TypeOK
    <2>9. ASSUME NEW g \in Gateways, ReadStamp(t, g) PROVE TrailInv'
      <3>1. view'[t].seq = view[t].seq
        BY <2>9 DEF ReadStamp, WithMeta, TypeOK
      <3> QED
        BY <2>9, <3>1, <2>1, <2>2 DEF ReadStamp, cacheVars, TrailInv, TicksPast, TypeOK
    <2>10. CASE StoreView(t)
      <3>1. CASE Hit(t)
        <4>1. CaughtUp(slots[call[t].scope].view, call[t].scope, call[t].gen)
          BY <3>1 DEF Hit, TrailInv, CaughtUp, TypeOK
        <4> QED
          BY <2>10, <3>1, <4>1, <2>1, <2>2 DEF StoreView, cacheVars, TrailInv, TicksPast, TypeOK
      <3>2. CASE ~Hit(t)
        <4>1. CaughtUp(Built(t), call[t].scope, call[t].gen)
          <5>1. CASE EmptyWorld(call[t].scope, view[t].content)
            <6>1. call[t].scope \in Scopes \ {"SharedPool"}
              BY <5>1 DEF EmptyWorld, Scopes
            <6> QED
              BY <5>1, <6>1, NoViewEmpty DEF Built, CaughtUp
          <5>2. CASE ~EmptyWorld(call[t].scope, view[t].content)
            BY <2>10, <5>2 DEF StoreView, Built, CaughtUp, TrailInv
          <5> QED
            BY <5>1, <5>2
        <4> QED
          <5>1. \A s \in cached' : CaughtUp(slots'[s].view, s, slots'[s].gen)
            BY <2>10, <3>2, <4>1 DEF StoreView, TrailInv, TypeOK
          <5>2. \A u \in Tasks : pc'[u] = "have" => CaughtUp(view'[u], call[u].scope, call[u].gen)
            BY <2>10, <3>2, <4>1 DEF StoreView, TrailInv, TypeOK
          <5>3. \A u \in Tasks : pc'[u] = "build" => pc[u] = "build" /\ view'[u] = view[u]
            BY <2>10, <3>2 DEF StoreView, TypeOK
          <5>4. TicksPast'
            <6>1. slots'[call[t].scope].gen = call[t].gen /\ \A s \in Scopes \ {call[t].scope} : slots'[s] = slots[s]
              BY <2>10, <3>2 DEF StoreView, TypeOK
            <6>2. UNCHANGED <<settledTick, tick, call>>
              BY <2>10 DEF StoreView, pubVars
            <6> QED BY <6>1, <6>2 DEF TrailInv, TicksPast, TypeOK
          <5>5. call' = call
            BY <2>10 DEF StoreView
          <5> QED
            BY <5>1, <5>2, <5>3, <5>4, <5>5, <2>1, <2>2 DEF TrailInv
      <3> QED
        BY <3>1, <3>2
    <2>11. CASE Done(t)
      BY <2>11, <2>1, <2>2 DEF Done, cacheVars, TrailInv, TicksPast, TypeOK
    <2> QED
      BY <1>8, <2>4, <2>d, <2>5, <2>6, <2>7, <2>8, <2>9, <2>10, <2>11 DEF TaskStep
  <1>9. CASE UNCHANGED vars
    BY <1>9 DEF vars, pubVars, cacheVars, taskVars, TrailInv, TicksPast, CaughtUp, SettledSeq
  <1> QED
    BY <1>1, <1>2, <1>3, <1>4, <1>5, <1>6, <1>7, <1>8, <1>9, WatchStep DEF Next, Rebuild

\* No stream that woke on a settled rebuild is left with an older sequence, so a
\* quiet cluster cannot strand the ack gate below a Gateway's stamp.
THEOREM TrailingTickCorrect == Spec => []TrailingTickFresh
  <1>1. Init => TypeOK /\ TrailInv
    BY InitType, InitTrail
  <1>2. TypeOK /\ TrailInv /\ [Next]_vars => (TypeOK /\ TrailInv)'
    BY NextType, TrailStep
  <1>3. TrailInv => TrailingTickFresh
    BY DEF TrailInv, TrailingTickFresh
  <1> QED
    BY <1>1, <1>2, <1>3, PTL DEF Spec

-----------------------------------------------------------------------------
(***************************************************************************)
(* The status handler (ProgrammedGate) and its inductive invariant.        *)
(***************************************************************************)

\* A record with the handler's fields.
IsHandler(x) ==
  x = [pc |-> x.pc, fresh |-> x.fresh, pool |-> x.pool, read |-> x.read, await |-> x.await,
       bound |-> x.bound, stamp |-> x.stamp, good |-> x.good, held |-> x.held]

\* The fields of the handler, of a proxy and of its row.
GateShapes ==
  /\ gw \in Objects /\ store \in Objects
  /\ world.stamp \in Nat /\ world.gen \in Nat /\ world.content \in Nat /\ status.pgen \in Nat
  /\ world.kept = "yes" \/ world.content = world.gen
  /\ Ready => world.stamp > 0
  /\ IsHandler(h)
  /\ world.health.mapped \subseteq Ports
  /\ DOMAIN app = Nodes /\ row \in [Nodes -> Rows \cup {None}]
  /\ \A n \in Nodes :
       /\ app[n] = [gen |-> app[n].gen, kept |-> app[n].kept, ports |-> app[n].ports, open |-> app[n].open]
       /\ app[n].gen \in Nat
       /\ app[n].ports \subseteq Ports

\* The copies of the Gateway lag behind it; the store's is up to date when it says so.
CopiesLag ==
  /\ store.gen =< gw.gen /\ world.gen =< store.gen /\ status.pgen =< gw.gen
  /\ synced = "yes" => store = gw /\ seen = status

\* A proxy has generation gen, or a world of a rebuild whose table build failed.
HasGen(n, gen) == app[n].gen >= gen \/ app[n].kept = "yes"

\* A row's acknowledgement is of this controller's sequence space; the latest one proves
\* that the proxy has what the stamped rebuild stored.
RowsHonest ==
  /\ \A n \in Nodes : row[n] # None =>
       /\ Ready /\ row[n].acked =< world.stamp
       /\ row[n].acked = world.stamp => HasGen(n, world.gen)
  /\ h.pool \subseteq Connected

\* What may be written over the status that is there.
Writable(d) ==
  d.out # None =>
    /\ d.out.pgen \in Nat /\ d.out.pgen =< gw.gen
    /\ ProgrammedNow => d.out.prog # "Pending"
    /\ d.out.prog = "True" /\ d.out.pgen = gw.gen /\ Engaged(gw.spec)
         => d.out.addrs # {} /\ d.out.addrs \subseteq gw.spec.addrs

\* While its copy is fresh, what the handler read is what is there, and what it decided
\* may be written.
HandlerSound ==
  /\ h.pc = "facts" => /\ h.read.gen \in Nat
                       /\ h.fresh = "yes" => h.read.gen = gw.gen /\ h.read.spec = gw.spec /\ h.read.st = status
  /\ h.pc \in {"bound", "stamp", "acked", "patch"} /\ h.fresh = "yes" => Writable(h.good)
  /\ h.pc = "patch" => h.good.out # None
  /\ h.pc \in {"bound", "stamp", "acked"} => /\ h.fresh = "yes" => Writable(h.held)
                                             /\ h.held.first = "no" /\ h.good.gen \in Nat

\* The stamp the handler holds covers the generation it decides on, and a proxy whose
\* acknowledgement reaches the stamp has applied that generation.
StampProves ==
  /\ h.pc = "acked" => /\ 0 < h.stamp /\ h.stamp \in Nat /\ h.stamp =< world.stamp /\ h.good.gen =< world.gen
                       /\ \A n \in Nodes : row[n] # None /\ row[n].acked >= h.stamp => HasGen(n, h.good.gen)
  /\ h.pc = "patch" /\ h.good.first = "yes" => h.good.gen \in Nat /\ h.good.gen =< world.gen

GateInv == GateShapes /\ CopiesLag /\ RowsHonest /\ HandlerSound /\ StampProves /\ ProgrammedHonest

\* The verdicts.
LEMMA Overrides == \A r : Override(r) \in {None, "Invalid", "AddressNotUsable"}
BY DEF Override, StaticOverride

\* A fresh handler never decides to write Pending over True, nor True without an address.
LEMMA DecisionWritable ==
  ASSUME GateInv, NEW r, r.gen = gw.gen, r.spec = gw.spec, r.st = status, NEW pb \in BOOLEAN
  PROVE  Writable(Decision(r, pb))
<1> DEFINE d == Decision(r, pb)
           bad == IF r.ready = "yes" THEN r.health.bad ELSE {}
<1> SUFFICES ASSUME d.out # None PROVE Writable(d)
  BY DEF Writable
<1>1. gw.gen \in Nat /\ gw.gen > 0 /\ status.pgen \in Nat /\ status.pgen =< gw.gen
  BY DEF GateInv, GateShapes, CopiesLag, Objects
<1>2. d.out = BuildStatus(r, pb, bad)
  BY DEF Decision
<1>3. /\ d.out.prog = DesiredProgrammed(r, pb)
      /\ d.out.pgen = IF Override(r) = None /\ ~Converged(r, pb) THEN r.gen - 1 ELSE r.gen
      /\ Engaged(gw.spec) => d.out.addrs = StatusAddrs(r)
  BY <1>2 DEF BuildStatus
<1> HIDE DEF d
<1>4. Latched(r) => ProgrammedNow
  BY <1>1 DEF Latched, ProgrammedNow
<1>5. ProgrammedNow => Latched(r)
  BY <1>1 DEF Latched, ProgrammedNow
<1>6. ASSUME ProgrammedNow PROVE d.out.prog # "Pending"
  <2>1. CASE Override(r) # None
    BY <1>3, <2>1, Overrides DEF DesiredProgrammed
  <2>2. CASE SettledNegative(r)
    BY <1>3, <2>1, <2>2 DEF DesiredProgrammed
  <2>3. CASE Override(r) = None /\ ~SettledNegative(r)
    <3>1. Engaged(gw.spec) => status.addrs # {}
      BY <1>6 DEF GateInv, ProgrammedHonest, TrueHasAddress
    <3>2. Engaged(r.spec) => StatusAddrs(r) # {}
      BY <1>5, <1>6, <2>3, <3>1 DEF StatusAddrs
    <3>3. Converged(r, pb)
      BY <1>5, <1>6, <3>2 DEF Converged
    <3> QED BY <1>3, <2>3, <3>3 DEF DesiredProgrammed
  <2> QED BY <2>1, <2>2, <2>3
<1>7. ASSUME d.out.prog = "True", Engaged(gw.spec)
      PROVE  d.out.addrs # {} /\ d.out.addrs \subseteq gw.spec.addrs
  <2>1. Override(r) = None /\ ~SettledNegative(r) /\ Converged(r, pb)
    BY <1>3, <1>7, Overrides DEF DesiredProgrammed
  <2>2. StatusAddrs(r) # {}
    BY <1>7, <2>1 DEF Converged
  <2>3. StaticAddrs(r.spec, r.addr) \subseteq gw.spec.addrs
    BY DEF StaticAddrs
  <2>4. Latched(r) => status.addrs \subseteq gw.spec.addrs
    BY <1>4, <1>7 DEF GateInv, ProgrammedHonest, TrueHasAddress
  <2>5. StatusAddrs(r) \subseteq gw.spec.addrs
    BY <2>3, <2>4 DEF StatusAddrs
  <2> QED BY <1>3, <1>7, <2>2, <2>5
<1>8. d.out.pgen \in Nat /\ d.out.pgen =< gw.gen
  BY <1>1, <1>3
<1> QED BY <1>6, <1>7, <1>8 DEF Writable

\* A decision that says True for the first time was made with the proxies' consent.
LEMMA FirstNeedsProxies ==
  ASSUME NEW r, NEW pb \in BOOLEAN, Decision(r, pb).first = "yes"
  PROVE  pb /\ ~Latched(r) /\ ~SettledNegative(r)
<1> DEFINE bad == IF r.ready = "yes" THEN r.health.bad ELSE {}
           out == BuildStatus(r, pb, bad)
<1>1. Decision(r, pb).first = YesNo(out.prog = "True" /\ ~Latched(r))
  BY DEF Decision
<1>2. out.prog = "True" /\ ~Latched(r)
  BY <1>1 DEF YesNo
<1>3. DesiredProgrammed(r, pb) = "True"
  BY <1>2 DEF BuildStatus
<1>4. ~SettledNegative(r) /\ Converged(r, pb)
  BY <1>3, Overrides DEF DesiredProgrammed
<1> QED BY <1>2, <1>4 DEF Converged

LEMMA DecisionFields ==
  ASSUME NEW r, NEW pb \in BOOLEAN
  PROVE  Decision(r, pb).gen = r.gen /\ Decision(r, pb).first \in {"yes", "no"}
BY DEF Decision, YesNo

LEMMA GateInitially == GateInit => GateInv
<1> SUFFICES ASSUME GateInit PROVE GateInv
  OBVIOUS
<1>1. gw \in Objects /\ gw.gen = 1 /\ store = gw
  BY BoundsAssumption DEF GateInit, VipInit, Objects
<1>2. GateShapes
  BY <1>1 DEF GateInit, GateShapes, NoCells, NoApp, NoHealth, NoStatus, Idle, IsHandler, Ready
<1>3. CopiesLag
  BY <1>1 DEF GateInit, CopiesLag, NoCells, NoStatus
<1>4. RowsHonest /\ HandlerSound /\ StampProves
  BY DEF GateInit, RowsHonest, HandlerSound, StampProves, Idle
<1>5. ProgrammedHonest
  BY DEF GateInit, ProgrammedHonest, TrueHasAddress, ProgrammedProven, ProgrammedNow, NoStatus, Idle
<1> QED BY <1>2, <1>3, <1>4, <1>5 DEF GateInv

\* A step of the VIP reconciler, the cloud, the Service watch or a listener's references.
LEMMA GateApart ==
  ASSUME GateInv, UNCHANGED <<gw, store, status, seen, synced, world, app, row, h>>
  PROVE  GateInv'
<1> USE DEF GateInv
<1>1. GateShapes' /\ CopiesLag'
  BY DEF GateShapes, CopiesLag, Ready
<1>2. RowsHonest' /\ StampProves'
  BY DEF RowsHonest, StampProves, HasGen, Ready, Connected
<1>3. HandlerSound'
  BY DEF HandlerSound, Writable, ProgrammedNow
<1>4. ProgrammedHonest'
  BY DEF ProgrammedHonest, TrueHasAddress, ProgrammedProven, ProgrammedNow
<1> QED BY <1>1, <1>2, <1>3, <1>4

\* An edit makes every copy stale, the handler's too.
LEMMA GateEdit ==
  ASSUME GateInv, EditGateway
  PROVE  GateInv'
<1> USE DEF GateInv
<1>1. /\ gw' \in Objects /\ gw'.gen = gw.gen + 1 /\ gw.gen \in Nat
      /\ synced' = "no" /\ h' = [h EXCEPT !.fresh = "no"]
      /\ UNCHANGED <<store, status, seen, world, app, row>>
  <2>1. PICK s \in Specs : gw' = [gen |-> gw.gen + 1, spec |-> s]
    BY DEF EditGateway, Edit
  <2>2. gw.gen \in 1..MaxGen /\ gw.gen < MaxGen
    BY DEF GateShapes, Objects, EditGateway, Edit
  <2> QED BY <2>1, <2>2, BoundsAssumption DEF Objects, EditGateway, Edit
<1>2. /\ h'.fresh = "no" /\ h'.pc = h.pc /\ h'.pool = h.pool /\ h'.read = h.read /\ h'.stamp = h.stamp
      /\ h'.good = h.good /\ h'.held = h.held
      /\ IsHandler(h')
  BY <1>1 DEF GateShapes, IsHandler
<1>3. GateShapes'
  BY <1>1, <1>2 DEF GateShapes, Ready
<1>4. CopiesLag'
  BY <1>1 DEF CopiesLag, GateShapes, Objects
<1>5. RowsHonest' /\ StampProves'
  BY <1>1, <1>2 DEF RowsHonest, StampProves, HasGen, Ready, Connected
<1>6. HandlerSound'
  BY <1>1, <1>2 DEF HandlerSound
<1>7. ProgrammedHonest'
  <2>1. ~ProgrammedNow'
    BY <1>1 DEF ProgrammedNow, CopiesLag, GateShapes
  <2> QED BY <1>1, <1>2, <2>1 DEF ProgrammedHonest, TrueHasAddress, ProgrammedProven
<1> QED BY <1>3, <1>4, <1>5, <1>6, <1>7

LEMMA GateDeliver ==
  ASSUME GateInv, DeliverGateway
  PROVE  GateInv'
<1> USE DEF GateInv, DeliverGateway
<1>1. GateShapes'
  BY DEF GateShapes, Ready
<1>2. CopiesLag'
  BY DEF CopiesLag, GateShapes, Objects
<1>3. RowsHonest' /\ StampProves'
  BY DEF RowsHonest, StampProves, HasGen, Ready, Connected
<1>4. HandlerSound'
  BY DEF HandlerSound, Writable, ProgrammedNow
<1>5. ProgrammedHonest'
  BY DEF ProgrammedHonest, TrueHasAddress, ProgrammedProven, ProgrammedNow
<1> QED BY <1>1, <1>2, <1>3, <1>4, <1>5

\* A rebuild moves the stamp with the generation: no row that was up to date is any more.
\* What it stores under an old stamp does not touch what a proxy has applied.
LEMMA GateRebuild ==
  ASSUME GateInv, RebuildWorld
  PROVE  GateInv'
<1> USE DEF GateInv
<1>1. UNCHANGED <<gw, store, status, seen, synced, app, row, h>>
  BY DEF RebuildWorld, vipVars
<1>2. /\ world'.gen = store.gen
      /\ world'.stamp = world.stamp + 1 \/ (world'.stamp = world.stamp /\ world.stamp # 0 /\ world.gen = store.gen)
      /\ world'.content = store.gen \/ (world'.content = world.content /\ world'.kept = "yes")
  BY DEF RebuildWorld, YesNo
<1>3. /\ store.gen \in Nat /\ world.gen \in Nat /\ world.stamp \in Nat /\ world.content \in Nat
      /\ world.gen =< store.gen /\ store.gen > 0
  BY DEF GateShapes, CopiesLag, Objects
<1>4. /\ world'.stamp \in Nat /\ world'.gen \in Nat /\ world'.gen =< store.gen /\ world'.content \in Nat
      /\ world.stamp =< world'.stamp /\ world.gen =< world'.gen /\ world'.stamp > 0
      /\ world'.stamp = world.stamp => world'.gen = world.gen
      /\ world'.kept = "yes" \/ world'.content = world'.gen
      /\ Ready => Ready'
  BY <1>2, <1>3 DEF Ready
<1>9. world'.health.mapped \subseteq Ports
  <2>1. store.spec.ports \subseteq Ports
    BY SpecsAssumption DEF GateShapes, Objects, SpecType
  <2> QED BY <2>1 DEF RebuildWorld
<1>5. GateShapes' /\ CopiesLag'
  BY <1>1, <1>4, <1>9 DEF GateShapes, CopiesLag
<1>6. RowsHonest'
  <2>1. ASSUME NEW n \in Nodes, row[n] # None
        PROVE  /\ Ready' /\ row[n].acked =< world'.stamp
               /\ row[n].acked = world'.stamp => HasGen(n, world'.gen)
    <3>1. row[n].acked \in Nat
      BY <2>1 DEF GateShapes, Rows
    <3> QED BY <1>3, <1>4, <2>1, <3>1 DEF RowsHonest
  <2> QED BY <1>1, <2>1 DEF RowsHonest, HasGen, Connected
<1>7. StampProves'
  <2>1. h.pc = "acked" => h.good.gen \in Nat
    BY DEF HandlerSound
  <2> QED BY <1>1, <1>3, <1>4, <2>1 DEF StampProves, HasGen
<1>8. HandlerSound' /\ ProgrammedHonest'
  BY <1>1 DEF HandlerSound, Writable, ProgrammedNow, ProgrammedHonest, TrueHasAddress, ProgrammedProven
<1> QED BY <1>5, <1>6, <1>7, <1>8

LEMMA GateNode ==
  ASSUME GateInv, NEW n \in Nodes, NodeConnect(n) \/ NodeApply(n) \/ NodeReport(n)
  PROVE  GateInv'
<1> USE DEF GateInv
<1>1. UNCHANGED <<gw, store, status, seen, synced, world, h>>
  BY DEF NodeConnect, NodeApply, NodeReport, vipVars
<1>2. /\ DOMAIN app' = Nodes /\ DOMAIN row' = Nodes
      /\ \A m \in Nodes : m # n => app'[m] = app[m] /\ row'[m] = row[m]
  BY DEF NodeConnect, NodeApply, NodeReport, GateShapes
<1>3. /\ app[n] = [gen |-> app[n].gen, kept |-> app[n].kept, ports |-> app[n].ports, open |-> app[n].open]
      /\ world.stamp \in Nat /\ world.gen \in Nat /\ world.content \in Nat /\ app[n].ports \subseteq Ports
      /\ app[n].gen \in Nat /\ (world.kept = "yes" \/ world.content = world.gen) /\ (Ready => world.stamp > 0)
      /\ row[n] # None => row[n] \in Rows
      /\ Served \subseteq Ports
  BY DEF GateShapes, Served
<1>4. /\ app'[n] = [gen |-> app'[n].gen, kept |-> app'[n].kept, ports |-> app'[n].ports, open |-> app'[n].open]
      /\ app'[n].ports \subseteq Ports
      /\ row'[n] \in Rows
      /\ Ready
      /\ \/ /\ app'[n].gen = app[n].gen /\ app'[n].kept = app[n].kept
            /\ row[n] = None /\ row'[n].acked = 0
         \/ /\ app'[n].gen = world.content /\ app'[n].kept = world.kept
            /\ row[n] # None /\ row'[n].acked = world.stamp
         \/ /\ app'[n].gen = app[n].gen /\ app'[n].kept = app[n].kept
            /\ row[n] # None /\ row'[n].acked = row[n].acked
  <2>1. CASE NodeConnect(n)
    <3>1. app' = app /\ row'[n] = [acked |-> 0, bound |-> None] /\ row[n] = None /\ Ready
      BY <2>1 DEF NodeConnect, GateShapes
    <3> QED BY <1>3, <3>1 DEF Rows
  <2>2. CASE NodeApply(n)
    <3>1. /\ app'[n] = [gen |-> world.content, kept |-> world.kept, ports |-> Served, open |-> app[n].open]
          /\ row'[n] = [acked |-> world.stamp, bound |-> row[n].bound] /\ row[n] # None
      BY <2>2 DEF NodeApply, GateShapes
    <3>2. Ready
      BY <3>1 DEF RowsHonest
    <3> QED BY <1>3, <3>1, <3>2 DEF Rows
  <2>3. CASE NodeReport(n)
    <3>1. row[n] # None /\ row[n] \in Rows
      BY <1>3, <2>3 DEF NodeReport
    <3>2. /\ app'[n] = [app[n] EXCEPT !.open = app[n].ports]
          /\ row'[n] = [row[n] EXCEPT !.bound = app[n].ports]
      BY <2>3 DEF NodeReport, GateShapes
    <3>3. app'[n] = [gen |-> app[n].gen, kept |-> app[n].kept, ports |-> app[n].ports, open |-> app[n].ports]
      BY <1>3, <3>2
    <3>4. row'[n] = [acked |-> row[n].acked, bound |-> app[n].ports]
      BY <3>1, <3>2 DEF Rows
    <3>5. Ready
      BY <3>1 DEF RowsHonest
    <3> QED BY <1>3, <3>1, <3>3, <3>4, <3>5 DEF Rows
  <2> QED BY <2>1, <2>2, <2>3
<1>5. row'[n] # None /\ row'[n].acked \in Nat /\ app'[n].gen \in Nat
  BY <1>3, <1>4, NoneAssumption DEF Rows
<1>6. GateShapes' /\ CopiesLag'
  <2>1. row' \in [Nodes -> Rows \cup {None}]
    BY <1>2, <1>4 DEF GateShapes, NodeConnect, NodeApply, NodeReport
  <2> QED BY <1>1, <1>2, <1>4, <1>5, <2>1 DEF GateShapes, CopiesLag, Ready
<1>7. RowsHonest'
  <2>1. row'[n].acked =< world.stamp /\ (row'[n].acked = world.stamp => HasGen(n, world.gen)')
    BY <1>1, <1>3, <1>4 DEF RowsHonest, HasGen
  <2>2. \A m \in Nodes \ {n} : row[m] # None /\ row[m].acked = world.stamp => HasGen(m, world.gen)'
    BY <1>1, <1>2 DEF RowsHonest, HasGen
  <2> QED BY <1>1, <1>2, <1>4, <1>5, <2>1, <2>2 DEF RowsHonest, Ready, Connected
<1>8. StampProves'
  <2>1. ASSUME h.pc = "acked", row'[n].acked >= h.stamp PROVE HasGen(n, h.good.gen)'
    <3>1. h.good.gen \in Nat /\ h.good.gen =< world.gen /\ h.stamp \in Nat /\ h.stamp > 0
      BY <2>1 DEF StampProves, HandlerSound
    <3>2. row[n] # None /\ row[n].acked >= h.stamp => HasGen(n, h.good.gen)
      BY <2>1 DEF StampProves
    <3>3. h' = h
      BY <1>1
    <3> QED BY <1>3, <1>4, <2>1, <3>1, <3>2, <3>3 DEF HasGen
  <2>2. ASSUME h.pc = "acked", NEW m \in Nodes \ {n}, row[m] # None, row[m].acked >= h.stamp
        PROVE  HasGen(m, h.good.gen)'
    BY <1>1, <1>2, <2>2 DEF StampProves, HasGen
  <2> QED BY <1>1, <1>2, <2>1, <2>2 DEF StampProves
<1>9. HandlerSound'
  BY <1>1 DEF HandlerSound, Writable, ProgrammedNow
<1>10. ProgrammedHonest'
  <2>1. ASSUME h.pc = "patch", h.good.first = "yes", NEW m \in h.pool PROVE HasGen(m, h.good.gen)'
    <3>1. m \in Nodes /\ HasGen(m, h.good.gen) /\ h.good.gen =< world.gen /\ h.good.gen \in Nat
      BY <2>1 DEF ProgrammedHonest, ProgrammedProven, RowsHonest, Connected, StampProves, HasGen
    <3>2. h' = h
      BY <1>1
    <3> QED BY <1>2, <1>3, <1>4, <3>1, <3>2 DEF HasGen
  <2> QED BY <1>1, <2>1 DEF ProgrammedHonest, TrueHasAddress, ProgrammedProven, ProgrammedNow, HasGen
<1> QED BY <1>6, <1>7, <1>8, <1>9, <1>10

\* A proxy that leaves is no longer one the handler answers for.
LEMMA GateDrop ==
  ASSUME GateInv, NEW n \in Nodes, NodeDrop(n)
  PROVE  GateInv'
<1> USE DEF GateInv
<1>1. /\ UNCHANGED <<gw, store, status, seen, synced, world>> /\ h' = [h EXCEPT !.pool = @ \ {n}]
      /\ row' = [row EXCEPT ![n] = None]
      /\ app' \in {app, [app EXCEPT ![n] = NoApp]}
  BY DEF NodeDrop
<1>2. /\ h'.fresh = h.fresh /\ h'.pc = h.pc /\ h'.pool = h.pool \ {n} /\ h'.read = h.read /\ h'.stamp = h.stamp
      /\ h'.good = h.good /\ h'.held = h.held
      /\ IsHandler(h')
  BY <1>1 DEF GateShapes, IsHandler
<1>3. /\ DOMAIN app' = Nodes /\ row' \in [Nodes -> Rows \cup {None}] /\ row'[n] = None
      /\ \A m \in Nodes : m # n => app'[m] = app[m] /\ row'[m] = row[m]
      /\ app'[n] = [gen |-> app'[n].gen, kept |-> app'[n].kept, ports |-> app'[n].ports, open |-> app'[n].open]
      /\ app'[n].gen \in Nat /\ app'[n].ports \subseteq Ports
  BY <1>1 DEF GateShapes, NoApp
<1>4. GateShapes'
  BY <1>1, <1>2, <1>3 DEF GateShapes, Ready
<1>5. CopiesLag'
  BY <1>1 DEF CopiesLag
<1>6. RowsHonest' /\ StampProves'
  BY <1>1, <1>2, <1>3 DEF RowsHonest, StampProves, HasGen, Ready, Connected
<1>7. HandlerSound'
  BY <1>1, <1>2 DEF HandlerSound, Writable, ProgrammedNow
<1>8. ProgrammedHonest'
  <2>1. h.pool \subseteq Nodes
    BY DEF RowsHonest, Connected
  <2> QED BY <1>1, <1>2, <1>3, <2>1 DEF ProgrammedHonest, TrueHasAddress, ProgrammedProven, ProgrammedNow
<1> QED BY <1>4, <1>5, <1>6, <1>7, <1>8

LEMMA GateFailover ==
  ASSUME GateInv, Failover
  PROVE  GateInv'
<1> USE DEF GateInv, Failover
<1>1. GateShapes'
  BY DEF GateShapes, NoCells, NoHealth, Idle, IsHandler, Ready
<1>2. CopiesLag'
  BY DEF CopiesLag, GateShapes, Objects, NoCells
<1>3. RowsHonest' /\ StampProves' /\ HandlerSound'
  BY DEF RowsHonest, StampProves, HandlerSound, Idle
<1>4. ProgrammedHonest'
  BY DEF ProgrammedHonest, TrueHasAddress, ProgrammedProven, ProgrammedNow, Idle
<1> QED BY <1>1, <1>2, <1>3, <1>4

-----------------------------------------------------------------------------
\* The handler's steps.

\* What every step of the handler but Land leaves alone.
LEMMA GateHandler ==
  ASSUME GateInv, Rest, UNCHANGED <<status, synced>>,
         IsHandler(h'),
         h'.pool \subseteq Connected
  PROVE  /\ GateShapes' /\ CopiesLag' /\ RowsHonest' /\ TrueHasAddress'
         /\ \A d : Writable(d)' <=> Writable(d)
<1> USE DEF GateInv, Rest
<1>1. GateShapes' /\ CopiesLag'
  BY DEF GateShapes, CopiesLag, Ready
<1>2. RowsHonest'
  BY DEF RowsHonest, HasGen, Ready, Connected
<1>3. TrueHasAddress'
  BY DEF ProgrammedHonest, TrueHasAddress, ProgrammedNow
<1> QED BY <1>1, <1>2, <1>3 DEF Writable, ProgrammedNow

\* The handler is done: it leaves, or goes on to write what it decided.
LEMMA GateDecide ==
  ASSUME GateInv, Rest, UNCHANGED <<status, synced>>, NEW d, Decide(d),
         h.fresh = "yes" => Writable(d),
         d.first = "yes" => d.gen \in Nat /\ d.gen =< world.gen /\ \A n \in h.pool : HasGen(n, d.gen)
  PROVE  GateInv'
<1>1. h.pool \subseteq Connected
  BY DEF GateInv, RowsHonest
<1>2. \/ h' = Idle
      \/ /\ d.out # None
         /\ h' = [pc |-> "patch", fresh |-> h.fresh, pool |-> h.pool, read |-> None, await |-> {},
                  bound |-> "no", stamp |-> 0, good |-> d, held |-> None]
  BY DEF Decide, Leave, Idle
<1>3. /\ IsHandler(h')
      /\ h'.pool \subseteq Connected
      /\ \/ h'.pc = "idle"
         \/ h'.pc = "patch" /\ h'.fresh = h.fresh /\ h'.pool = h.pool /\ h'.good = d /\ d.out # None
  BY <1>1, <1>2 DEF Idle, IsHandler
<1>4. /\ GateShapes' /\ CopiesLag' /\ RowsHonest' /\ TrueHasAddress'
      /\ \A e : Writable(e)' <=> Writable(e)
  BY <1>3, GateHandler
<1>5. h'.pc = "patch" /\ h'.fresh = "yes" => Writable(h.good)'
  BY <1>3, <1>4 DEF Writable, ProgrammedNow, Rest
<1>6. HandlerSound'
  BY <1>3, <1>5 DEF HandlerSound
<1>7. StampProves' /\ ProgrammedProven'
  BY <1>3 DEF StampProves, ProgrammedProven, HasGen, Rest
<1> QED BY <1>4, <1>6, <1>7 DEF GateInv, ProgrammedHonest

LEMMA GateStart ==
  ASSUME GateInv, Start
  PROVE  GateInv'
<1>1. PICK svc \in {vip, None} :
         h' = [Idle EXCEPT !.pc = "facts", !.fresh = synced, !.pool = Connected,
                 !.read = [gen |-> store.gen, spec |-> store.spec, st |-> seen,
                           addr |-> Address(svc), ports |-> PortsOf(svc)]]
  BY DEF Start
<1>2. Rest /\ UNCHANGED <<status, synced>>
  BY DEF Start
<1>3. /\ IsHandler(h')
      /\ h'.pc = "facts" /\ h'.fresh = synced /\ h'.pool = Connected
      /\ h'.read.gen = store.gen /\ h'.read.spec = store.spec /\ h'.read.st = seen
  BY <1>1 DEF Idle, IsHandler
<1>4. GateShapes' /\ CopiesLag' /\ RowsHonest' /\ TrueHasAddress'
  BY <1>2, <1>3, GateHandler
<1>5. HandlerSound'
  BY <1>2, <1>3 DEF HandlerSound, GateInv, GateShapes, CopiesLag, Objects, Rest
<1>6. StampProves' /\ ProgrammedProven'
  BY <1>3 DEF StampProves, ProgrammedProven
<1> QED BY <1>4, <1>5, <1>6 DEF GateInv, ProgrammedHonest

\* The verdict, readiness and health fix what the handler may write; only a verdict that
\* still waits for the proxies can be a first True.
LEMMA GateFacts ==
  ASSUME GateInv, Facts
  PROVE  GateInv'
<1> DEFINE r == WithFacts(h.read)
<1>1. h.pc = "facts" /\ Rest /\ UNCHANGED <<status, synced>>
  BY DEF Facts
<1>2. r.gen = h.read.gen /\ r.spec = h.read.spec /\ r.st = h.read.st
  BY DEF WithFacts
<1>3. /\ h.read.gen \in Nat
      /\ h.fresh = "yes" => h.read.gen = gw.gen /\ h.read.spec = gw.spec /\ h.read.st = status
  BY <1>1 DEF GateInv, HandlerSound
<1>4. \/ (Latched(r) \/ SettledNegative(r)) /\ Decide(Decision(r, TRUE))
      \/ h' = [Idle EXCEPT !.pc = "bound", !.fresh = h.fresh, !.pool = h.pool,
                           !.await = AwaitedPorts(r),
                           !.good = Decision(r, TRUE), !.held = Decision(r, FALSE)]
  BY DEF Facts
<1> HIDE DEF r
<1>5. h.fresh = "yes" => Writable(Decision(r, TRUE)) /\ Writable(Decision(r, FALSE))
  BY <1>2, <1>3, DecisionWritable
<1>6. CASE (Latched(r) \/ SettledNegative(r)) /\ Decide(Decision(r, TRUE))
  <2>1. Decision(r, TRUE).first # "yes"
    BY <1>6, FirstNeedsProxies
  <2> QED BY <1>1, <1>5, <1>6, <2>1, GateDecide
<1>7. CASE h' = [Idle EXCEPT !.pc = "bound", !.fresh = h.fresh, !.pool = h.pool,
                             !.await = AwaitedPorts(r),
                             !.good = Decision(r, TRUE), !.held = Decision(r, FALSE)]
  <2>1. /\ IsHandler(h')
        /\ h'.pc = "bound" /\ h'.fresh = h.fresh /\ h'.pool = h.pool
        /\ h'.good = Decision(r, TRUE) /\ h'.held = Decision(r, FALSE)
    BY <1>7 DEF Idle, IsHandler
  <2>2. h'.pool \subseteq Connected
    BY <2>1 DEF GateInv, RowsHonest
  <2>3. /\ GateShapes' /\ CopiesLag' /\ RowsHonest' /\ TrueHasAddress'
        /\ \A e : Writable(e)' <=> Writable(e)
    BY <1>1, <2>1, <2>2, GateHandler
  <2>4. h'.held.first = "no" /\ h'.good.gen \in Nat
    <3>1. Decision(r, FALSE).first = "no"
      BY DecisionFields, FirstNeedsProxies
    <3>2. Decision(r, TRUE).gen = r.gen
      BY DecisionFields
    <3> QED BY <1>2, <1>3, <2>1, <3>1, <3>2
  <2>5. h'.fresh = "yes" => Writable(h.good)' /\ Writable(h.held)'
    BY <1>1, <1>5, <2>1 DEF Writable, ProgrammedNow, Rest
  <2>6. HandlerSound'
    BY <2>1, <2>4, <2>5 DEF HandlerSound
  <2>7. StampProves' /\ ProgrammedProven'
    BY <2>1 DEF StampProves, ProgrammedProven
  <2> QED BY <2>3, <2>6, <2>7 DEF GateInv, ProgrammedHonest
<1> QED BY <1>4, <1>6, <1>7

LEMMA GateReadBound ==
  ASSUME GateInv, ReadBound
  PROVE  GateInv'
<1>1. h.pc = "bound" /\ Rest /\ UNCHANGED <<status, synced>>
  BY DEF ReadBound
<1>2. /\ IsHandler(h')
      /\ h'.pc = "stamp" /\ h'.fresh = h.fresh /\ h'.pool = h.pool
      /\ h'.good = h.good /\ h'.held = h.held
  BY DEF ReadBound, GateInv, GateShapes, IsHandler
<1>3. h'.pool \subseteq Connected
  BY <1>2 DEF GateInv, RowsHonest
<1>4. GateShapes' /\ CopiesLag' /\ RowsHonest' /\ TrueHasAddress'
  BY <1>1, <1>2, <1>3, GateHandler
<1>5. HandlerSound'
  BY <1>1, <1>2 DEF HandlerSound, GateInv, Writable, ProgrammedNow, Rest
<1>6. StampProves' /\ ProgrammedProven'
  BY <1>2 DEF StampProves, ProgrammedProven
<1> QED BY <1>4, <1>5, <1>6 DEF GateInv, ProgrammedHonest

\* The stamp is that of a rebuild that had the generation: an acknowledgement that reaches
\* it is the latest there is.
LEMMA GateReadGateStamp ==
  ASSUME GateInv, ReadGateStamp
  PROVE  GateInv'
<1>1. h.pc = "stamp" /\ Rest /\ UNCHANGED <<status, synced>>
  BY DEF ReadGateStamp
<1>2. /\ h.fresh = "yes" => Writable(h.good) /\ Writable(h.held)
      /\ h.held.first = "no" /\ h.good.gen \in Nat
  BY <1>1 DEF GateInv, HandlerSound
<1>3. CASE ~StampCovers(h.good.gen)
  <2>1. Decide(h.held)
    BY <1>3 DEF ReadGateStamp
  <2> QED BY <1>1, <1>2, <2>1, GateDecide
<1>4. CASE StampCovers(h.good.gen)
  <2>1. h' = [h EXCEPT !.pc = "acked", !.stamp = world.stamp] /\ 0 < world.stamp /\ h.good.gen =< world.gen
        /\ world.gen \in Nat /\ world.stamp \in Nat
    BY <1>2, <1>4 DEF ReadGateStamp, StampCovers, GateInv, GateShapes
  <2>2. /\ IsHandler(h')
        /\ h'.pc = "acked" /\ h'.fresh = h.fresh /\ h'.pool = h.pool
        /\ h'.good = h.good /\ h'.held = h.held /\ h'.stamp = world.stamp
    BY <2>1 DEF GateInv, GateShapes, IsHandler
  <2>3. h'.pool \subseteq Connected
    BY <2>2 DEF GateInv, RowsHonest
  <2>4. GateShapes' /\ CopiesLag' /\ RowsHonest' /\ TrueHasAddress'
    BY <1>1, <2>2, <2>3, GateHandler
  <2>5. HandlerSound'
    BY <1>1, <1>2, <2>2 DEF HandlerSound, Writable, ProgrammedNow, Rest
  <2>6. ASSUME NEW n \in Nodes, row[n] # None, row[n].acked >= world.stamp
        PROVE  HasGen(n, h.good.gen)
    <3>1. row[n].acked = world.stamp /\ app[n].gen \in Nat
      BY <2>1, <2>6 DEF GateInv, GateShapes, RowsHonest, Rows
    <3>2. HasGen(n, world.gen)
      BY <2>6, <3>1 DEF GateInv, RowsHonest
    <3> QED BY <1>2, <2>1, <3>1, <3>2 DEF HasGen
  <2>7. StampProves' /\ ProgrammedProven'
    BY <1>1, <2>1, <2>2, <2>6 DEF StampProves, ProgrammedProven, HasGen, Rest
  <2> QED BY <2>4, <2>5, <2>7 DEF GateInv, ProgrammedHonest
<1> QED BY <1>3, <1>4

LEMMA GateReadAcked ==
  ASSUME GateInv, ReadAcked
  PROVE  GateInv'
<1>1. h.pc = "acked" /\ Rest /\ UNCHANGED <<status, synced>>
  BY DEF ReadAcked
<1>2. /\ h.fresh = "yes" => Writable(h.good) /\ Writable(h.held)
      /\ h.held.first = "no" /\ h.good.gen \in Nat
  BY <1>1 DEF GateInv, HandlerSound
<1>3. CASE h.bound = "yes" /\ AllAcked(h.stamp)
  <2>1. Decide(h.good)
    BY <1>3 DEF ReadAcked
  <2>2. \A n \in h.pool : HasGen(n, h.good.gen)
    BY <1>1, <1>3 DEF AllAcked, Connected, GateInv, RowsHonest, StampProves
  <2>3. h.good.gen =< world.gen
    BY <1>1 DEF GateInv, StampProves
  <2> QED BY <1>1, <1>2, <2>1, <2>2, <2>3, GateDecide
<1>4. CASE ~(h.bound = "yes" /\ AllAcked(h.stamp))
  <2>1. Decide(h.held)
    BY <1>4 DEF ReadAcked
  <2> QED BY <1>1, <1>2, <2>1, GateDecide
<1> QED BY <1>3, <1>4

\* The patch lands only on the object the handler read.
LEMMA GateLand ==
  ASSUME GateInv, Land
  PROVE  GateInv' /\ (ProgrammedNow => status'.prog # "Pending")
<1>1. /\ h.pc = "patch" /\ h.fresh = "yes" /\ status' = h.good.out /\ synced' = "no" /\ h' = Idle
      /\ UNCHANGED <<gw, store, seen, world, app, row>>
  BY DEF Land, Leave, Rest
<1>2. Writable(h.good) /\ h.good.out # None
  BY <1>1 DEF GateInv, HandlerSound
<1>3. /\ status'.pgen \in Nat /\ status'.pgen =< gw.gen
      /\ ProgrammedNow => status'.prog # "Pending"
      /\ status'.prog = "True" /\ status'.pgen = gw.gen /\ Engaged(gw.spec)
           => status'.addrs # {} /\ status'.addrs \subseteq gw.spec.addrs
  BY <1>1, <1>2 DEF Writable
<1>4. GateShapes'
  BY <1>1, <1>3 DEF GateInv, GateShapes, Idle, IsHandler, Ready
<1>5. CopiesLag'
  BY <1>1, <1>3 DEF GateInv, CopiesLag
<1>6. RowsHonest' /\ StampProves' /\ HandlerSound'
  BY <1>1 DEF GateInv, RowsHonest, StampProves, HandlerSound, HasGen, Ready, Connected, Idle
<1>7. ProgrammedHonest'
  BY <1>1, <1>3 DEF ProgrammedHonest, TrueHasAddress, ProgrammedProven, ProgrammedNow, Idle
<1> QED BY <1>3, <1>4, <1>5, <1>6, <1>7 DEF GateInv

LEMMA GateRefused ==
  ASSUME GateInv, Refused
  PROVE  GateInv'
<1>1. h' = Idle /\ Rest /\ UNCHANGED <<status, synced>>
  BY DEF Refused, Leave
<1>2. /\ IsHandler(h')
      /\ h'.pc = "idle" /\ h'.pool \subseteq Connected
  BY <1>1 DEF Idle, IsHandler
<1>3. GateShapes' /\ CopiesLag' /\ RowsHonest' /\ TrueHasAddress'
  BY <1>1, <1>2, GateHandler
<1>4. HandlerSound' /\ StampProves' /\ ProgrammedProven'
  BY <1>2 DEF HandlerSound, StampProves, ProgrammedProven
<1> QED BY <1>3, <1>4 DEF GateInv, ProgrammedHonest

-----------------------------------------------------------------------------
\* Every step keeps the invariant, and none takes an established True back to Pending.

LEMMA GateStep ==
  ASSUME GateInv, [GateNext]_gateVars
  PROVE  GateInv' /\ (ProgrammedNow /\ gw' = gw => status'.prog # "Pending")
<1>1. ASSUME GateInv', status' = status
      PROVE  GateInv' /\ (ProgrammedNow /\ gw' = gw => status'.prog # "Pending")
  BY <1>1 DEF ProgrammedNow
<1>2. CASE UNCHANGED gateVars
  BY <1>1, <1>2, GateApart DEF gateVars, vipVars
<1>3. CASE EditGateway
  BY <1>1, <1>3, GateEdit DEF EditGateway
<1>4. CASE DeliverGateway
  BY <1>1, <1>4, GateDeliver DEF DeliverGateway
<1>5. CASE DeliverService \/ Break \/ EditRoutes
  BY <1>1, <1>5, GateApart DEF DeliverService, Break, EditRoutes, vipVars
<1>6. CASE VipAssign \/ VipLost \/ VipPass
  <2>1. UNCHANGED <<gw, store, status, seen, synced, world, app, row, h>>
    <3>1. PassStep => UNCHANGED <<gw, store>>
      BY DEF PassStep, PassStart, Bind, ApplyAuto, ReadFails, KeepPinned, FreeStale, BindCandidate,
             RejectCandidates, Publish
    <3> QED BY <1>6, <3>1 DEF VipAssign, VipLost, VipPass, GateRest, AssignLb, LoseService
  <2> QED BY <1>1, <2>1, GateApart
<1>7. CASE RebuildWorld
  BY <1>1, <1>7, GateRebuild DEF RebuildWorld
<1>8. CASE Failover
  BY <1>1, <1>8, GateFailover DEF Failover
<1>9. ASSUME NEW n \in Nodes, NodeConnect(n) \/ NodeApply(n) \/ NodeReport(n) \/ NodeDrop(n)
      PROVE  GateInv' /\ (ProgrammedNow /\ gw' = gw => status'.prog # "Pending")
  <2>1. status' = status
    BY <1>9 DEF NodeConnect, NodeApply, NodeReport, NodeDrop
  <2> QED BY <1>1, <1>9, <2>1, GateNode, GateDrop
<1>10. CASE Handler
  <2>1. CASE Start
    BY <1>1, <2>1, GateStart DEF Start
  <2>2. CASE Facts
    BY <1>1, <2>2, GateFacts DEF Facts
  <2>3. CASE ReadBound
    BY <1>1, <2>3, GateReadBound DEF ReadBound
  <2>4. CASE ReadGateStamp
    BY <1>1, <2>4, GateReadGateStamp DEF ReadGateStamp
  <2>5. CASE ReadAcked
    BY <1>1, <2>5, GateReadAcked DEF ReadAcked
  <2>6. CASE Land
    BY <2>6, GateLand
  <2>7. CASE Refused
    BY <1>1, <2>7, GateRefused DEF Refused
  <2> QED BY <1>10, <2>1, <2>2, <2>3, <2>4, <2>5, <2>6, <2>7 DEF Handler
<1> QED BY <1>2, <1>3, <1>4, <1>5, <1>6, <1>7, <1>8, <1>9, <1>10 DEF GateNext

LEMMA GateAlways == GateSpec => []GateInv
<1>1. GateInv /\ [GateNext]_gateVars => GateInv'
  BY GateStep
<1> QED BY <1>1, GateInitially, PTL DEF GateSpec

\* reconcile_gateway_inner, build_gateway_status_patch and the VIP it reads: a Gateway that
\* is Programmed at its generation and requested addresses publishes some of them and no
\* other, and a handler that is about to write a first True for a generation has proof that
\* every proxy that stayed connected applied it, or applied a world of a rebuild whose table
\* did not compile, for any pool, specs, edits and faults.
THEOREM ProgrammedMeansIt == GateSpec => []ProgrammedHonest
<1>1. GateInv => ProgrammedHonest
  BY DEF GateInv
<1> QED BY <1>1, GateAlways, PTL

\* gateway_programmed_at_current_gen with the patch pinned to the resourceVersion: no step of
\* any task takes an established True back to Pending within its generation.
THEOREM ProgrammedNeverFlaps == GateSpec => NoFlap
<1>1. GateInv /\ [GateNext]_gateVars => [ProgrammedNow /\ gw' = gw => status'.prog # "Pending"]_gateVars
  BY GateStep
<1> QED BY <1>1, GateAlways, PTL DEF GateSpec, NoFlap

=============================================================================
