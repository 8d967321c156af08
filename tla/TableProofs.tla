---------------------------- MODULE TableProofs ----------------------------
(***************************************************************************)
(* Theorems about routing tables that are updated in part: on a proxy by   *)
(* the messages of the discovery stream (IncrementalApply), in the         *)
(* controller by a rebuild that compiles what has changed                  *)
(* (PartitionedRebuild).  Both equal a table built from nothing.           *)
(***************************************************************************)
EXTENDS IncrementalApply, PartitionedRebuild, FiniteSetTheorems, TLAPS

-----------------------------------------------------------------------------
(* A proxy's tables and cells *)

\* A function from the resource keys to what each may carry.
World(w) ==
  /\ w = [k \in ResourceKeys |-> w[k]]
  /\ \A k \in ResourceKeys : w[k] \in NextForms(k)

RouterTable(w) ==
  [routers |-> [p \in Partitions |-> Router(w, p)], conflicts |-> {p \in Partitions : Shadows(w, p)}]
CellTable(w) == [k \in CellKeys |-> IF w[k] = Missing THEN Missing ELSE Compiled(w, k)]

\* The cache, its reverse index and the cells agree; before the first full snapshot
\* all of them are empty.
ApplyInv ==
  /\ World(committed)
  /\ index = RefsOf(committed)
  /\ Sound(committed)
  /\ tables = RouterTable(committed)
  /\ cells = CellTable(committed)

-----------------------------------------------------------------------------

\* What a held partition or cell resource refers to is an endpoint.
LEMMA RefsAreEndpoints ==
  ASSUME NEW w, World(w), NEW k \in Partitions \cup CellKeys, w[k] # Missing
  PROVE  w[k].refs \subseteq EndpointIds
  BY FormsAssumption DEF World, ResourceKeys, NextForms

LEMMA NearbyWorld ==
  ASSUME World(committed), NEW w \in Nearby
  PROVE  World(w)
<1>1. PICK c \in ResourceKeys \X ResourceKeys :
        w \in {[committed EXCEPT ![c[1]] = f, ![c[2]] = g] : f \in NextForms(c[1]), g \in NextForms(c[2])}
  BY DEF Nearby
<1>2. PICK f \in NextForms(c[1]), g \in NextForms(c[2]) :
        w = [committed EXCEPT ![c[1]] = f, ![c[2]] = g]
  BY <1>1
<1>3. c[1] \in ResourceKeys /\ c[2] \in ResourceKeys
  OBVIOUS
<1>4. w = [k \in ResourceKeys |-> IF k = c[2] THEN g ELSE IF k = c[1] THEN f ELSE committed[k]]
  BY <1>2, <1>3 DEF World
<1> QED
  BY <1>4 DEF World

\* A resource that no changed endpoint dirtied sees the endpoints it saw before.
LEMMA SameEndpoints ==
  ASSUME NEW w, World(w), NEW k \in Partitions \cup CellKeys,
         w[k] # Missing, k \notin EndpointDirty(w)
  PROVE  \A e \in w[k].refs : w[e] = committed[e]
<1> SUFFICES ASSUME NEW e \in w[k].refs, w[e] # committed[e] PROVE FALSE
  OBVIOUS
<1>1. e \in EndpointIds /\ k \in ResourceKeys
  BY RefsAreEndpoints DEF ResourceKeys
<1>2. e \in ChangedEndpoints(w)
  BY <1>1 DEF ChangedEndpoints
<1>3. k \in RefsOf(w)[e]
  BY <1>1 DEF RefsOf, Held
<1> QED BY <1>2, <1>3 DEF EndpointDirty

\* So it compiles as before, and to the same.
LEMMA SameCompiled ==
  ASSUME NEW w, World(w), NEW k \in Partitions \cup CellKeys,
         w[k] # Missing, w[k] = committed[k], k \notin EndpointDirty(w)
  PROVE  Compiled(w, k) = Compiled(committed, k) /\ (Compiles(w, k) <=> Compiles(committed, k))
  BY SameEndpoints DEF Compiled, Compiles

\* The messages of the server: a delta names every key that differs.
NamesChanges(full, msg, w) ==
  full = "yes" \/ \A k \in ResourceKeys : w[k] # committed[k] => k \in msg

LEMMA NamedNames ==
  ASSUME NEW full \in {"yes", "no"}, NEW w, NEW msg \in Named(full, w)
  PROVE  NamesChanges(full, msg, w)
  BY DEF Named, NamesChanges

\* A cell that is not rebuilt has no changed resource and no dirtied one.
LEMMA CleanCell ==
  ASSUME NEW full, NEW w, NEW msg, NamesChanges(full, msg, w),
         NEW k \in CellKeys, CellOf[k] \notin RebuiltCells(full, msg, w)
  PROVE  w[k] = committed[k] /\ k \notin EndpointDirty(w)
<1>1. k \notin EndpointDirty(w)
  BY DEF RebuiltCells
<1>2. CellOf[k] \in Touched(full, msg) => w[k] = committed[k]
  BY DEF RebuiltCells
<1>3. w[k] # committed[k] => CellOf[k] \in Touched(full, msg)
  BY DEF NamesChanges, Touched, PortCells, ResourceKeys
<1> QED BY <1>1, <1>2, <1>3

\* A held partition that is not dirty is as committed.
LEMMA CleanPartition ==
  ASSUME NEW w, NEW p \in Held(w, Partitions), p \notin DirtyPartitions(w)
  PROVE  w[p] = committed[p] /\ p \notin EndpointDirty(w)
  BY DEF DirtyPartitions

\* What compiled in part compiles as a whole.
LEMMA PartSound ==
  ASSUME ApplyInv, NEW full, NEW w, NEW msg, World(w), NamesChanges(full, msg, w),
         CompileSucceeds(full, msg, w)
  PROVE  Sound(w)
<1>1. PoolBuilds(w)
  BY DEF CompileSucceeds
<1>2. ASSUME NEW p \in Held(w, Partitions) PROVE Compiles(w, p)
  <2>1. p \in Partitions /\ w[p] # Missing
    BY DEF Held
  <2>2. CASE p \in DirtyPartitions(w)
    BY <2>2 DEF CompileSucceeds
  <2>3. CASE p \notin DirtyPartitions(w)
    <3>1. w[p] = committed[p] /\ p \notin EndpointDirty(w)
      BY <2>3, CleanPartition
    <3>2. Compiles(committed, p)
      BY <2>1, <3>1 DEF ApplyInv, Sound, Held
    <3> QED BY <2>1, <3>1, <3>2, SameCompiled
  <2> QED BY <2>2, <2>3
<1>3. ASSUME NEW k \in Held(w, CellKeys) PROVE Compiles(w, k)
  <2>1. k \in CellKeys /\ w[k] # Missing
    BY DEF Held
  <2>2. CASE CellOf[k] \in RebuiltCells(full, msg, w)
    BY <2>2 DEF CompileSucceeds
  <2>3. CASE CellOf[k] \notin RebuiltCells(full, msg, w)
    <3>1. w[k] = committed[k] /\ k \notin EndpointDirty(w)
      BY <2>1, <2>3, CleanCell
    <3>2. Compiles(committed, k)
      BY <2>1, <3>1 DEF ApplyInv, Sound, Held
    <3> QED BY <2>1, <3>1, <3>2, SameCompiled
  <2> QED BY <2>2, <2>3
<1> QED BY <1>1, <1>2, <1>3 DEF Sound, Held

\* rebuild_route_table: fresh partitions and spliced ones make the whole table.
LEMMA SpliceIsWhole ==
  ASSUME ApplyInv, NEW w, World(w)
  PROVE  Spliced(w) = RouterTable(w)
<1> DEFINE fresh == DirtyPartitions(w)
           restored == RestoredTables(w)
           live == {p \in Partitions : TableOf[p] \notin restored \/ p \in Held(w, Partitions) \ fresh}
<1>1. fresh \subseteq Held(w, Partitions) /\ \A p \in fresh : p \in Partitions /\ p \notin live
  BY DEF DirtyPartitions, RestoredTables, Held
<1>2. ASSUME NEW p \in live
      PROVE  w[p] = committed[p] /\ Router(w, p) = Router(committed, p) /\ p \in Partitions
  <2>1. CASE w[p] # Missing
    <3>1. p \in Held(w, Partitions) \ fresh
      BY <1>1, <2>1 DEF Held
    <3>2. w[p] = committed[p] /\ p \notin EndpointDirty(w)
      BY <3>1, CleanPartition
    <3> QED BY <2>1, <3>2, SameCompiled DEF Router
  <2>2. CASE w[p] = Missing
    <3>1. TableOf[p] \notin restored
      BY <2>2 DEF Held
    <3>2. committed[p] = Missing
      BY <2>2, <3>1 DEF RestoredTables, Held
    <3> QED BY <2>2, <3>2 DEF Router
  <2> QED BY <2>1, <2>2
<1>3. ASSUME NEW p \in Partitions, p \notin live, p \notin fresh
      PROVE  w[p] = Missing
  BY <1>3 DEF Held
<1>4. tables.routers = [p \in Partitions |-> Router(committed, p)]
      /\ tables.conflicts = {p \in Partitions : Shadows(committed, p)}
  BY DEF ApplyInv, RouterTable
<1> DEFINE routers == [p \in Partitions |->
                         IF p \in live THEN tables.routers[p]
                         ELSE IF p \in fresh THEN Router(w, p) ELSE Missing]
           conflicts == (tables.conflicts \cap live) \cup {p \in fresh : Shadows(w, p)}
<1>5. Spliced(w) = [routers |-> routers, conflicts |-> conflicts]
  BY DEF Spliced
<1> HIDE DEF live, fresh
<1>6. \A p \in Partitions : routers[p] = Router(w, p)
  BY <1>2, <1>3, <1>4 DEF Router
<1>7. conflicts = {p \in Partitions : Shadows(w, p)}
  BY <1>1, <1>2, <1>3, <1>4 DEF Shadows
<1>8. routers = [p \in Partitions |-> Router(w, p)]
  BY <1>6
<1> HIDE DEF routers, conflicts
<1> QED BY <1>5, <1>7, <1>8 DEF RouterTable

\* Phase D keeps cache, index, tables and cells in agreement.
LEMMA CommitStep ==
  ASSUME ApplyInv, NEW full, NEW w, NEW msg, World(w), NamesChanges(full, msg, w),
         CompileSucceeds(full, msg, w), Commit(full, msg, w)
  PROVE  ApplyInv'
<1>1. committed' = w /\ index' = RefsOf(w) /\ Sound(w) /\ tables' = RouterTable(w)
  BY PartSound, SpliceIsWhole DEF Commit
<1>2. cells' = CellTable(w)
  <2>1. ASSUME NEW k \in CellKeys, CellOf[k] \notin RebuiltCells(full, msg, w)
        PROVE  cells[k] = IF w[k] = Missing THEN Missing ELSE Compiled(w, k)
    <3>1. w[k] = committed[k] /\ k \notin EndpointDirty(w)
      BY <2>1, CleanCell
    <3>2. cells[k] = IF committed[k] = Missing THEN Missing ELSE Compiled(committed, k)
      BY DEF ApplyInv, CellTable
    <3> QED BY <3>1, <3>2, SameCompiled
  <2> QED BY <2>1 DEF Commit, CellTable
<1>3. World(committed)'
  BY <1>1 DEF World, NextForms
<1> QED
  BY <1>1, <1>2, <1>3 DEF ApplyInv, RefsOf, Held, Sound, PoolBuilds, Compiles, RouterTable, Router,
                          Compiled, Shadows, CellTable

-----------------------------------------------------------------------------
(* The steps. *)

LEMMA CacheUnchanged ==
  ASSUME ApplyInv, UNCHANGED <<committed, index, tables, cells>>
  PROVE  ApplyInv'
  BY DEF ApplyInv, World, NextForms, RefsOf, Held, Sound, PoolBuilds, Compiles, RouterTable, Router,
         Compiled, Shadows, CellTable

LEMMA ApplyStep ==
  ASSUME ApplyInv, NEW full \in {"yes", "no"}, NEW w \in Nearby, NEW claimed,
         Apply(full, w, claimed)
  PROVE  ApplyInv'
<1>1. PICK msg \in Named(full, w) :
        \/ /\ Accepts(full, msg, w, claimed)
           /\ IF hasFull = "yes" /\ w = committed
              THEN UNCHANGED <<committed, index, tables, cells, hasFull>>
              ELSE Commit(full, msg, w)
        \/ UNCHANGED applyVars
  BY DEF Apply
<1>2. World(w) /\ NamesChanges(full, msg, w)
  BY NearbyWorld, NamedNames DEF ApplyInv
<1>3. CASE Accepts(full, msg, w, claimed) /\ ~(hasFull = "yes" /\ w = committed) /\ Commit(full, msg, w)
  <2>1. CompileSucceeds(full, msg, w)
    BY <1>3 DEF Accepts
  <2> QED BY <1>2, <1>3, <2>1, CommitStep
<1>4. CASE UNCHANGED <<committed, index, tables, cells>>
  BY <1>4, CacheUnchanged
<1> QED BY <1>1, <1>3, <1>4 DEF applyVars

LEMMA ApplyInvHolds == ApplySpec => []ApplyInv
<1>1. ApplyInit => ApplyInv
  <2> SUFFICES ASSUME ApplyInit PROVE ApplyInv
    OBVIOUS
  <2>1. \A k \in ResourceKeys : committed[k] = Missing
    BY DEF ApplyInit
  <2>2. World(committed)
    BY DEF ApplyInit, World, NextForms
  <2>3. index = RefsOf(committed)
    BY <2>1 DEF ApplyInit, RefsOf, Held, ResourceKeys
  <2>4. Sound(committed)
    BY <2>1 DEF Sound, PoolBuilds, Held, ResourceKeys
  <2>5. tables = RouterTable(committed)
    BY <2>1 DEF ApplyInit, RouterTable, Router, Shadows, ResourceKeys
  <2>6. cells = CellTable(committed)
    BY <2>1 DEF ApplyInit, CellTable, ResourceKeys
  <2> QED BY <2>2, <2>3, <2>4, <2>5, <2>6 DEF ApplyInv
<1>2. ApplyInv /\ [ApplyNext]_applyVars => ApplyInv'
  <2> SUFFICES ASSUME ApplyInv, [ApplyNext]_applyVars PROVE ApplyInv'
    OBVIOUS
  <2>1. CASE ApplyFull
    BY <2>1, ApplyStep DEF ApplyFull
  <2>2. CASE ApplyDelta
    BY <2>2, ApplyStep DEF ApplyDelta
  <2>3. CASE ApplyMismatched
    BY <2>3, ApplyStep DEF ApplyMismatched
  <2>4. CASE Reconnect
    BY <2>4, CacheUnchanged DEF Reconnect
  <2>5. CASE UNCHANGED applyVars
    BY <2>5, CacheUnchanged DEF applyVars
  <2> QED BY <2>1, <2>2, <2>3, <2>4, <2>5 DEF ApplyNext
<1> QED BY <1>1, <1>2, PTL DEF ApplySpec

\* For any set of partitions, port cells and endpoints, and any resources: the live
\* tables with their conflicts and the live cells are what compiling the cached
\* world from nothing gives (ResourceCache, apply_message).
THEOREM CacheAndCellsAgree == ApplySpec => []CellsFollowCache
<1>1. ApplyInv => CellsFollowCache
  BY DEF ApplyInv, CellsFollowCache, RouterTable, CellTable
<1> QED BY <1>1, ApplyInvHolds, PTL

\* A delta refuses exactly the worlds that do not compile as a whole: checking the
\* removed endpoints and recompiling what changed loses nothing and lets nothing by.
LEMMA DeltaTakesTheSound ==
  ASSUME ApplyInv, hasFull = "yes", expectFull = "no", NEW w \in Nearby, NEW msg \in Named("no", w)
  PROVE  Accepts("no", msg, w, "right") <=> Sound(w)
<1>1. World(w) /\ NamesChanges("no", msg, w)
  BY NearbyWorld, NamedNames DEF ApplyInv
<1>2. ASSUME Accepts("no", msg, w, "right") PROVE Sound(w)
  <2>1. CASE w = committed
    BY <2>1 DEF ApplyInv
  <2>2. CASE CompileSucceeds("no", msg, w)
    BY <1>1, <2>2, PartSound
  <2> QED BY <1>2, <2>1, <2>2 DEF Accepts
<1>3. ASSUME Sound(w) PROVE Accepts("no", msg, w, "right")
  <2>1. RemovalsUnreferenced(w)
    BY <1>3 DEF RemovalsUnreferenced, RefsOf, Held, Sound, Compiles
  <2>2. CompileSucceeds("no", msg, w)
    BY <1>3 DEF CompileSucceeds, Sound, DirtyPartitions, Held
  <2> QED BY <2>1, <2>2 DEF Accepts
<1> QED BY <1>2, <1>3

\* In every state of a session, a delta to any world near the cached one is accepted
\* exactly when the full snapshot of that world would be (invariant 6, Nack and resync).
THEOREM DeltaEquivalentToFull == ApplySpec => []DeltaAsGoodAsFull
<1>1. ApplyInv => DeltaAsGoodAsFull
  BY DeltaTakesTheSound DEF DeltaAsGoodAsFull
<1> QED BY <1>1, ApplyInvHolds, PTL

-----------------------------------------------------------------------------
(* The controller's table: what was and what is *)

\* What a route or a Gateway says, at first or later.
RouteTexts == RouteSpecs \cup {FirstSpec[r] : r \in RouteNames}
FrontTexts == FrontSpecs \cup {FirstSpec[g] : g \in Fronts}

\* What the stores, the indexes and the epoch are.
Routes == [RouteNames -> [rev : Nat, spec : RouteTexts]]
FrontTable == [Fronts -> [rev : Nat, spec : FrontTexts, cut : {"yes", "no"}]]
Indexes == [policies : Nat, fronts : FrontTable, admitted : SUBSET RouteNames]
Epochs == [policies : Nat, fronts : [Fronts -> Nat]]

\* Routes as they were: no revision is from the future, a revision that is still there
\* stands for the object it stood for, and none is now another object's.
PastRoutes(R) ==
  /\ R \in Routes
  /\ \A r \in RouteNames : R[r].rev <= lastRev
  /\ \A r, q \in RouteNames : R[r].rev = routeObj[q].rev /\ R[r].rev > 0 => r = q /\ R[r] = routeObj[q]
  /\ \A r \in RouteNames, t \in Targets : R[r].rev = targetRev[t] => R[r].rev = 0

PastTargets(T) ==
  /\ T \in [Targets -> Nat]
  /\ \A t \in Targets : T[t] <= lastRev
  /\ \A t, u \in Targets : T[t] = targetRev[u] /\ T[t] > 0 => t = u
  /\ \A t \in Targets, q \in RouteNames : T[t] = routeObj[q].rev => T[t] = 0

\* Indexes as they were: revisions grow, and a Gateway that kept its own may only have
\* been cut over.
PastIndex(I) ==
  /\ I \in Indexes
  /\ I.policies <= policyRev
  /\ \A g \in Fronts : /\ I.fronts[g].rev <= frontObj[g].rev
                       /\ I.fronts[g].rev = frontObj[g].rev => I.fronts[g].spec = frontObj[g].spec

Stores ==
  /\ PastRoutes(routeObj) /\ PastTargets(targetRev) /\ PastIndex(IndexNow)
  /\ lastRev \in Nat /\ lastRev <= MaxRev
  /\ policyRev <= lastRev /\ \A g \in Fronts : frontObj[g].rev <= lastRev

\* Epochs in the order in which they come.
Upto(e, f) == e.policies <= f.policies /\ \A g \in Fronts : e.fronts[g] <= f.fronts[g]
EpochOf(I) == [policies |-> I.policies, fronts |-> StoreEpoch(I.fronts)]

\* No cut-over is missing from I that reaches a route of R with several parents.
CutsSeen(R, I) ==
  \A r \in RouteNames, g \in Fronts :
    /\ R[r].rev > 0 /\ R[r].rev = routeObj[r].rev
    /\ g \in Range(R[r].spec.parents) /\ Len(R[r].spec.parents) > 1
    /\ I.fronts[g].rev = frontObj[g].rev
    => I.fronts[g].cut = frontObj[g].cut

\* A router made of R, I and the targets M, whose fingerprint was taken from R, I, the
\* targets T and the epoch e, is as good as its fingerprint.
Faithful(R, I, T, M, e) ==
  /\ e = EpochOf(I)
  /\ \A t \in Targets : T[t] = 0 \/ T[t] = targetRev[t] => M[t] = T[t]
  /\ CutsSeen(R, I)

\* What a cache entry was made of.
Backed(k, c) ==
  \E R, I, T, M :
    /\ PastRoutes(R) /\ PastIndex(I) /\ PastTargets(T) /\ M \in [Targets -> Nat]
    /\ c.fp.sum = RouteSum(k, R, I, T) /\ c.router = Compile(k, R, I, M)
    /\ raced = "no" /\ c.fp.epoch = EpochNow => Faithful(R, I, T, M, c.fp.epoch)

CacheBacked ==
  \A k \in DOMAIN pcache : /\ pcache[k].router # {}
                           /\ pcache[k].fp.epoch \in Epochs /\ Upto(pcache[k].fp.epoch, cachedEpoch)
                           /\ Backed(k, pcache[k])

EpochsInOrder ==
  /\ cachedEpoch \in Epochs /\ Upto(cachedEpoch, EpochNow)
  /\ rpc \in {"epoch", "planned"} =>
       epoch \in Epochs /\ Upto(cachedEpoch, epoch) /\ Upto(epoch, EpochNow)

\* What the pass under way has read, and what of it is still good unless a gap was hit.
PassReads ==
  /\ rpc \in {"idle", "started", "indexed", "epoch", "planned"}
  /\ rpc # "idle" => PastRoutes(snap)
  /\ rpc \in {"indexed", "epoch", "planned"} => PastIndex(idx) /\ (raced # "now" => CutsSeen(snap, idx))
  /\ rpc = "indexed" /\ raced # "now" => EpochOf(idx) = EpochNow
  /\ rpc \in {"epoch", "planned"} /\ raced # "now" => EpochOf(idx) = epoch

\* The plan, made when the targets were T.
FpsOf(T) == [k \in LiveKeys(snap, idx) |-> [sum |-> RouteSum(k, snap, idx, T), epoch |-> epoch]]

Dirty == {k \in DOMAIN planned.fps : ~Cached(k, planned.fps[k])}

PlanMade ==
  rpc = "planned" =>
    /\ \E T : /\ PastTargets(T) /\ planned.fps = FpsOf(T)
              /\ raced # "now" => \A t \in Targets : T[t] = 0 => targetRev[t] = 0
              /\ event = "no" => T = targetRev
    /\ planned.dirty = Dirty

\* Without an event since the pass began, what it has read is what is there.
PassCurrent ==
  event = "no" /\ rpc # "idle" =>
    /\ snap = routeObj
    /\ rpc # "started" => idx = IndexNow
    /\ rpc \in {"epoch", "planned"} => epoch = EpochNow

\* A cached router is what its fingerprint says, or a gap was hit in the present epoch;
\* what the running pass has read is good for its own entries in the same sense.
RebuildInv == Stores /\ CacheBacked /\ EpochsInOrder /\ PassReads /\ PlanMade /\ PassCurrent /\ RebuildFresh

-----------------------------------------------------------------------------
(* What a fingerprint tells *)

\* What RouteSum counts: for each bound route its revision and those of its targets.
Items(k, R, I, T) ==
  UNION {LET it == FingerprintItems(R[r], T)
         IN {<<r, i, it[i]>> : i \in DOMAIN it} : r \in Members(k, R, I)}

LEMMA ItemSeq ==
  ASSUME NEW R \in Routes, NEW T \in [Targets -> Nat], NEW r \in RouteNames
  PROVE  /\ R[r].spec.targets \in Seq(Targets) /\ R[r].spec.parents \in Seq(Fronts) /\ R[r].rev \in Nat
         /\ DOMAIN FingerprintItems(R[r], T) = 1 .. (Len(R[r].spec.targets) + 1)
         /\ FingerprintItems(R[r], T)[1] = R[r].rev
         /\ \A i \in 1 .. Len(R[r].spec.targets) :
              FingerprintItems(R[r], T)[i + 1] = T[R[r].spec.targets[i]]
<1>1. R[r].spec \in RouteTexts /\ R[r].rev \in Nat
  BY DEF Routes
<1>2. R[r].spec.targets \in Seq(Targets) /\ R[r].spec.parents \in Seq(Fronts)
  BY <1>1, RebuildAssumption DEF RouteTexts
<1> DEFINE V == VersionsOf(R[r], T)
           n == Len(R[r].spec.targets)
<1>3. n \in Nat /\ DOMAIN R[r].spec.targets = 1 .. n
  BY <1>2
<1>4. V = [i \in 1 .. n |-> T[R[r].spec.targets[i]]]
  BY <1>3 DEF VersionsOf
<1>5. \A i \in 1 .. n : R[r].spec.targets[i] \in Targets
  BY <1>2
<1>6. V \in Seq(Nat) /\ Len(V) = n
  <2>1. V \in [1 .. n -> Nat]
    BY <1>4, <1>5
  <2> QED BY <1>3, <2>1
<1>7. FingerprintItems(R[r], T) = <<R[r].rev>> \o V
  BY DEF FingerprintItems
<1> HIDE DEF V
<1>8. /\ Len(<<R[r].rev>> \o V) = 1 + n /\ DOMAIN (<<R[r].rev>> \o V) = 1 .. (n + 1)
      /\ (<<R[r].rev>> \o V)[1] = R[r].rev
      /\ \A i \in 1 .. n : (<<R[r].rev>> \o V)[i + 1] = V[i]
  BY <1>1, <1>3, <1>6
<1> QED BY <1>1, <1>2, <1>3, <1>4, <1>7, <1>8

LEMMA ItemsFinite ==
  ASSUME NEW k, NEW R \in Routes, NEW I, NEW T \in [Targets -> Nat]
  PROVE  IsFiniteSet(Items(k, R, I, T))
<1> DEFINE Own(r) == {<<r, i, FingerprintItems(R[r], T)[i]>> : i \in DOMAIN FingerprintItems(R[r], T)}
           M == Members(k, R, I)
           all == {Own(r) : r \in M}
<1>1. M \subseteq RouteNames /\ IsFiniteSet(M)
  <2>1. RouteNames \subseteq ObjectNames
    BY DEF ObjectNames
  <2>2. M \subseteq RouteNames
    BY DEF Members
  <2> QED BY <2>1, <2>2, FS_Subset, ObjectsAssumption
<1>2. ASSUME NEW r \in M PROVE IsFiniteSet(Own(r))
  <2> DEFINE n == Len(R[r].spec.targets) + 1
             f == [i \in 1 .. n |-> <<r, i, FingerprintItems(R[r], T)[i]>>]
  <2>1. n \in Nat /\ DOMAIN FingerprintItems(R[r], T) = 1 .. n
    BY <1>1, ItemSeq
  <2>2. f \in Surjection(1 .. n, Own(r))
    BY <2>1 DEF Surjection
  <2>3. IsFiniteSet(1 .. n)
    BY <2>1, FS_Interval
  <2> QED BY <2>2, <2>3, FS_Surjection
<1>3. IsFiniteSet(all)
  <2> DEFINE f == [r \in M |-> Own(r)]
  <2> HIDE DEF Own
  <2>1. f \in Surjection(M, all)
    BY DEF Surjection
  <2> HIDE DEF f, all, M
  <2> QED BY <1>1, <2>1, FS_Surjection
<1>4. \A X \in all : IsFiniteSet(X)
  BY <1>2
<1>5. Items(k, R, I, T) = UNION all
  BY DEF Items
<1> HIDE DEF all
<1> QED BY <1>3, <1>4, <1>5, FS_UNION

\* A revision is in the sum exactly if one of the items has it.
LEMMA SumHas ==
  ASSUME NEW k, NEW R \in Routes, NEW I, NEW T \in [Targets -> Nat], NEW v \in 0 .. MaxRev
  PROVE  RouteSum(k, R, I, T)[v] # 0 <=> \E x \in Items(k, R, I, T) : x[3] = v
<1> DEFINE X == Items(k, R, I, T)
           Y == {x \in X : x[3] = v}
<1>1. RouteSum(k, R, I, T) = Fold(X)
  BY DEF RouteSum, Items
<1>2. RouteSum(k, R, I, T)[v] = Cardinality(Y)
  BY <1>1 DEF Fold
<1>3. IsFiniteSet(Y)
  <2> HIDE DEF X
  <2>1. IsFiniteSet(X)
    BY ItemsFinite DEF X
  <2> QED BY <2>1, FS_Subset
<1>4. Cardinality(Y) # 0 <=> Y # {}
  <2> HIDE DEF Y
  <2> QED BY <1>3, FS_EmptySet
<1> QED BY <1>2, <1>4

\* The revisions that a fingerprint has summed.
Summed(k, R, I, T) ==
  {v \in 0 .. MaxRev : \E r \in Members(k, R, I) :
     v = R[r].rev \/ \E i \in DOMAIN R[r].spec.targets : v = T[R[r].spec.targets[i]]}

LEMMA ItemsAre ==
  ASSUME NEW k, NEW R \in Routes, NEW I, NEW T \in [Targets -> Nat], NEW v \in 0 .. MaxRev
  PROVE  (\E x \in Items(k, R, I, T) : x[3] = v) <=> v \in Summed(k, R, I, T)
<1> DEFINE it(q) == FingerprintItems(R[q], T)
<1>1. (\E x \in Items(k, R, I, T) : x[3] = v) <=>
      \E r \in Members(k, R, I) : \E i \in DOMAIN it(r) : it(r)[i] = v
  <2>1. ASSUME NEW x \in Items(k, R, I, T), x[3] = v
        PROVE  \E r \in Members(k, R, I) : \E i \in DOMAIN it(r) : it(r)[i] = v
    <3>1. PICK r \in Members(k, R, I) : x \in {<<r, i, it(r)[i]>> : i \in DOMAIN it(r)}
      BY <2>1 DEF Items
    <3>2. PICK i \in DOMAIN it(r) : x = <<r, i, it(r)[i]>>
      BY <3>1
    <3> QED BY <2>1, <3>2
  <2>2. ASSUME NEW r \in Members(k, R, I), NEW i \in DOMAIN it(r), it(r)[i] = v
        PROVE  \E x \in Items(k, R, I, T) : x[3] = v
    <3>1. <<r, i, it(r)[i]>> \in Items(k, R, I, T)
      BY DEF Items
    <3> QED BY <2>2, <3>1
  <2> QED BY <2>1, <2>2
<1>2. ASSUME NEW r \in Members(k, R, I)
      PROVE  (\E i \in DOMAIN it(r) : it(r)[i] = v) <=>
             \/ v = R[r].rev
             \/ \E i \in DOMAIN R[r].spec.targets : v = T[R[r].spec.targets[i]]
  <2> DEFINE n == Len(R[r].spec.targets)
  <2>0. r \in RouteNames
    BY DEF Members
  <2>1. /\ n \in Nat /\ DOMAIN R[r].spec.targets = 1 .. n
        /\ DOMAIN it(r) = 1 .. (n + 1) /\ it(r)[1] = R[r].rev
        /\ \A i \in 1 .. n : it(r)[i + 1] = T[R[r].spec.targets[i]]
    <3>1. R[r].spec.targets \in Seq(Targets) /\ DOMAIN it(r) = 1 .. (n + 1) /\ it(r)[1] = R[r].rev
      BY <2>0, ItemSeq
    <3>2. \A i \in 1 .. n : it(r)[i + 1] = T[R[r].spec.targets[i]]
      BY <2>0, ItemSeq
    <3>3. n \in Nat /\ DOMAIN R[r].spec.targets = 1 .. n
      BY <3>1
    <3> QED BY <3>1, <3>2, <3>3
  <2> HIDE DEF it
  <2>2. \A i \in 1 .. (n + 1) : i = 1 \/ (i - 1 \in 1 .. n /\ it(r)[i] = T[R[r].spec.targets[i - 1]])
    <3> TAKE i \in 1 .. (n + 1)
    <3>1. CASE i = 1
      BY <3>1
    <3>2. CASE i # 1
      <4>1. i - 1 \in 1 .. n /\ (i - 1) + 1 = i
        BY <2>1, <3>2
      <4> QED BY <2>1, <4>1
    <3> QED BY <3>1, <3>2
  <2>3. 1 \in 1 .. (n + 1) /\ \A i \in 1 .. n : i + 1 \in 1 .. (n + 1)
    BY <2>1
  <2>4. ASSUME NEW i \in DOMAIN it(r), it(r)[i] = v
        PROVE  v = R[r].rev \/ \E j \in DOMAIN R[r].spec.targets : v = T[R[r].spec.targets[j]]
    <3>1. CASE i = 1
      BY <2>1, <2>4, <3>1
    <3>2. CASE i # 1
      <4>1. i - 1 \in 1 .. n /\ it(r)[i] = T[R[r].spec.targets[i - 1]]
        BY <2>1, <2>2, <3>2
      <4> QED BY <2>1, <2>4, <4>1
    <3> QED BY <3>1, <3>2
  <2>5. ASSUME v = R[r].rev \/ \E j \in DOMAIN R[r].spec.targets : v = T[R[r].spec.targets[j]]
        PROVE  \E i \in DOMAIN it(r) : it(r)[i] = v
    <3>1. CASE v = R[r].rev
      BY <2>1, <2>3, <3>1
    <3>2. CASE \E j \in DOMAIN R[r].spec.targets : v = T[R[r].spec.targets[j]]
      BY <2>1, <2>3, <3>2
    <3> QED BY <2>5, <3>1, <3>2
  <2> QED BY <2>4, <2>5
<1> QED BY <1>1, <1>2 DEF Summed


LEMMA SumTells ==
  ASSUME NEW k, NEW R \in Routes, NEW I, NEW T \in [Targets -> Nat]
  PROVE  Summed(k, R, I, T) = {v \in 0 .. MaxRev : RouteSum(k, R, I, T)[v] # 0}
<1>1. \A v \in 0 .. MaxRev : RouteSum(k, R, I, T)[v] # 0 <=> v \in Summed(k, R, I, T)
  BY SumHas, ItemsAre
<1> QED BY <1>1 DEF Summed

\* Routes and targets with the sum of the present ones are the present ones.
LEMMA SumCovers ==
  ASSUME NEW R, NEW I, NEW T, NEW k,
         PastRoutes(R), PastTargets(T), Stores,
         RouteSum(k, R, I, T) = RouteSum(k, routeObj, IndexNow, targetRev)
  PROVE  /\ \A r \in Members(k, R, I) : r \in Members(k, routeObj, IndexNow) /\ R[r] = routeObj[r]
         /\ \A r \in Members(k, routeObj, IndexNow) : r \in Members(k, R, I)
         /\ \A r \in Members(k, R, I) : \A i \in DOMAIN R[r].spec.targets :
              T[R[r].spec.targets[i]] = targetRev[R[r].spec.targets[i]]
<1> DEFINE Old == Members(k, R, I)
           New == Members(k, routeObj, IndexNow)
<1>0. /\ R \in Routes /\ T \in [Targets -> Nat] /\ routeObj \in Routes /\ targetRev \in [Targets -> Nat]
      /\ lastRev \in Nat /\ MaxRev \in Nat /\ lastRev <= MaxRev
  BY ObjectsAssumption DEF PastRoutes, PastTargets, Stores
<1>1. /\ \A r \in Old : r \in RouteNames /\ R[r].rev > 0
      /\ \A r \in New : r \in RouteNames /\ routeObj[r].rev > 0
  BY DEF Members
<1>2. /\ \A r \in RouteNames : R[r].rev \in 0 .. MaxRev /\ routeObj[r].rev \in 0 .. MaxRev
      /\ \A t \in Targets : T[t] \in 0 .. MaxRev /\ targetRev[t] \in 0 .. MaxRev
  <2>1. \A r \in RouteNames : R[r].rev \in Nat /\ routeObj[r].rev \in Nat
    BY <1>0 DEF Routes
  <2>2. \A r \in RouteNames : R[r].rev <= lastRev /\ routeObj[r].rev <= lastRev
    BY DEF PastRoutes, Stores
  <2>3. \A t \in Targets : T[t] <= lastRev /\ targetRev[t] <= lastRev /\ T[t] \in Nat /\ targetRev[t] \in Nat
    BY <1>0 DEF PastTargets, Stores
  <2> QED BY <1>0, <2>1, <2>2, <2>3
<1>3. \A r \in RouteNames : \A i \in DOMAIN R[r].spec.targets : R[r].spec.targets[i] \in Targets
  BY <1>0, ItemSeq
<1>4. \A r \in RouteNames : \A i \in DOMAIN routeObj[r].spec.targets : routeObj[r].spec.targets[i] \in Targets
  BY <1>0, ItemSeq
\* What one side has, the other has.
<1>5. ASSUME NEW v \in 0 .. MaxRev
      PROVE  (\E r \in Old : v = R[r].rev \/ \E i \in DOMAIN R[r].spec.targets : v = T[R[r].spec.targets[i]]) <=>
             (\E r \in New : v = routeObj[r].rev
                             \/ \E i \in DOMAIN routeObj[r].spec.targets : v = targetRev[routeObj[r].spec.targets[i]])
  <2>1. Summed(k, R, I, T) = {w \in 0 .. MaxRev : RouteSum(k, R, I, T)[w] # 0}
    BY <1>0, SumTells
  <2>2. Summed(k, routeObj, IndexNow, targetRev)
          = {w \in 0 .. MaxRev : RouteSum(k, routeObj, IndexNow, targetRev)[w] # 0}
    BY <1>0, SumTells
  <2>3. v \in Summed(k, R, I, T) <=> v \in Summed(k, routeObj, IndexNow, targetRev)
    BY <2>1, <2>2
  <2> QED BY <2>3 DEF Summed
<1>6. ASSUME NEW r \in Old PROVE r \in New /\ R[r] = routeObj[r]
  <2>1. R[r].rev \in 0 .. MaxRev /\ r \in RouteNames /\ R[r].rev > 0
    BY <1>1, <1>2
  <2>2. PICK q \in New : R[r].rev = routeObj[q].rev
                 \/ \E i \in DOMAIN routeObj[q].spec.targets : R[r].rev = targetRev[routeObj[q].spec.targets[i]]
    BY <1>5, <2>1
  <2>3. q \in RouteNames
    BY <1>1
  <2>4. R[r].rev = routeObj[q].rev
    BY <1>4, <2>1, <2>2, <2>3 DEF PastRoutes
  <2>5. r = q /\ R[r] = routeObj[q]
    BY <2>1, <2>3, <2>4 DEF PastRoutes
  <2> QED BY <2>5
<1>7. ASSUME NEW q \in New PROVE q \in Old
  <2>1. routeObj[q].rev \in 0 .. MaxRev /\ q \in RouteNames /\ routeObj[q].rev > 0
    BY <1>1, <1>2
  <2>2. PICK r \in Old : routeObj[q].rev = R[r].rev
                 \/ \E i \in DOMAIN R[r].spec.targets : routeObj[q].rev = T[R[r].spec.targets[i]]
    BY <1>5, <2>1
  <2>3. r \in RouteNames
    BY <1>1
  <2>4. routeObj[q].rev = R[r].rev
    BY <1>3, <2>1, <2>2, <2>3 DEF PastTargets
  <2>5. r = q
    BY <2>1, <2>3, <2>4 DEF PastRoutes
  <2> QED BY <2>5
<1>8. ASSUME NEW r \in Old, NEW i \in DOMAIN R[r].spec.targets
      PROVE  T[R[r].spec.targets[i]] = targetRev[R[r].spec.targets[i]]
  <2> DEFINE t == R[r].spec.targets[i]
  <2>1. t \in Targets /\ r \in New /\ r \in RouteNames /\ R[r] = routeObj[r]
    BY <1>1, <1>3, <1>6
  <2>2. CASE T[t] > 0
    <3>1. T[t] \in 0 .. MaxRev
      BY <1>2, <2>1
    <3>2. PICK q \in New : T[t] = routeObj[q].rev
                   \/ \E j \in DOMAIN routeObj[q].spec.targets : T[t] = targetRev[routeObj[q].spec.targets[j]]
      BY <1>5, <3>1
    <3>3. q \in RouteNames
      BY <1>1
    <3>4. T[t] # routeObj[q].rev
      BY <2>1, <2>2, <3>3 DEF PastTargets
    <3>5. PICK j \in DOMAIN routeObj[q].spec.targets : T[t] = targetRev[routeObj[q].spec.targets[j]]
      BY <3>2, <3>4
    <3>6. t = routeObj[q].spec.targets[j]
      BY <1>4, <2>1, <2>2, <3>3, <3>5 DEF PastTargets
    <3> QED BY <3>5, <3>6
  <2>3. CASE targetRev[t] > 0
    <3>1. targetRev[t] \in 0 .. MaxRev
      BY <1>2, <2>1
    <3>2. PICK q \in Old : targetRev[t] = R[q].rev
                   \/ \E j \in DOMAIN R[q].spec.targets : targetRev[t] = T[R[q].spec.targets[j]]
      <4>1. i \in DOMAIN routeObj[r].spec.targets /\ targetRev[t] = targetRev[routeObj[r].spec.targets[i]]
        BY <2>1
      <4> QED BY <1>5, <2>1, <3>1, <4>1
    <3>3. q \in RouteNames /\ R[q].rev > 0
      BY <1>1
    <3>4. targetRev[t] # R[q].rev
      BY <2>1, <3>3 DEF PastRoutes
    <3>5. PICK j \in DOMAIN R[q].spec.targets : targetRev[t] = T[R[q].spec.targets[j]]
      BY <3>2, <3>4
    <3>6. t = R[q].spec.targets[j]
      BY <1>3, <2>1, <2>3, <3>3, <3>5 DEF PastTargets
    <3> QED BY <3>5, <3>6
  <2>4. CASE ~(T[t] > 0) /\ ~(targetRev[t] > 0)
    BY <1>2, <2>1, <2>4
  <2> QED BY <2>2, <2>3, <2>4
<1> QED BY <1>6, <1>7, <1>8

\* To a route with parents P the Gateways look the same in F and in G.
Alike(P, F, G) ==
  \A i \in DOMAIN P : /\ P[i] \in Owned(F) <=> P[i] \in Owned(G)
                      /\ F[P[i]].rev = G[P[i]].rev /\ F[P[i]].spec = G[P[i]].spec

\* Under an unchanged fingerprint a route sees the Gateways it saw.
LEMMA ParentsStand ==
  ASSUME NEW R, NEW I, NEW k, NEW r \in RouteNames,
         R \in Routes, PastIndex(I), Stores, EpochOf(I) = EpochNow, CutsSeen(R, I),
         R[r] = routeObj[r], r \in Members(k, R, I), r \in Members(k, routeObj, IndexNow)
  PROVE  Alike(R[r].spec.parents, I.fronts, frontObj)
<1> DEFINE P == R[r].spec.parents
<1>1. P \in Seq(Fronts) /\ R[r].rev > 0
  <2>1. R[r].spec \in RouteTexts
    BY DEF Routes
  <2> QED BY <2>1, RebuildAssumption DEF Members, RouteTexts
<1>2. I.fronts \in FrontTable /\ frontObj \in FrontTable
  BY DEF PastIndex, Indexes, Stores, IndexNow
<1>3. \A g \in Fronts : I.fronts[g].rev = frontObj[g].rev /\ I.fronts[g].spec = frontObj[g].spec
  <2>1. StoreEpoch(I.fronts) = StoreEpoch(frontObj)
    BY DEF EpochOf, EpochNow
  <2>2. \A g \in Fronts : StoreEpoch(I.fronts)[g] = I.fronts[g].rev /\ StoreEpoch(frontObj)[g] = frontObj[g].rev
    BY <1>2 DEF StoreEpoch, FrontTable
  <2> QED BY <2>1, <2>2 DEF PastIndex
<1>4. \A i \in DOMAIN P : P[i] \in Fronts
  BY <1>1
<1>5. CASE Len(P) > 1
  <2>1. \A i \in DOMAIN P : I.fronts[P[i]].cut = frontObj[P[i]].cut
    <3> TAKE i \in DOMAIN P
    <3>1. P[i] \in Range(P) /\ P[i] \in Fronts
      BY <1>4 DEF Range
    <3> QED BY <1>1, <1>3, <1>5, <3>1 DEF CutsSeen
  <2> QED BY <1>3, <1>4, <2>1 DEF Owned, Alike
<1>6. CASE ~(Len(P) > 1)
  <2>1. PICK i \in DOMAIN P : P[i] \in Owned(I.fronts)
    BY DEF Members, BindingsOf
  <2>2. PICK j \in DOMAIN P : P[j] \in Owned(frontObj)
    BY DEF Members, BindingsOf, IndexNow
  <2>3. \A m \in DOMAIN P : m = i /\ m = j
    BY <1>1, <1>6
  <2> QED BY <1>3, <1>4, <2>1, <2>2, <2>3 DEF Alike
<1> QED BY <1>5, <1>6

\* A faithful entry with the present fingerprint is what compiling now gives.
LEMMA RouterStands ==
  ASSUME NEW R, NEW I, NEW T, NEW M, NEW k,
         PastRoutes(R), PastIndex(I), PastTargets(T), M \in [Targets -> Nat], Stores,
         Faithful(R, I, T, M, EpochNow),
         RouteSum(k, R, I, T) = RouteSum(k, routeObj, IndexNow, targetRev)
  PROVE  Compile(k, R, I, M) = Compile(k, routeObj, IndexNow, targetRev)
<1>1. /\ R \in Routes /\ T \in [Targets -> Nat] /\ EpochOf(I) = EpochNow /\ CutsSeen(R, I)
      /\ I.policies = policyRev
  BY DEF PastRoutes, PastTargets, Faithful, EpochOf, EpochNow
<1>2. /\ Members(k, R, I) = Members(k, routeObj, IndexNow)
      /\ \A r \in Members(k, R, I) : R[r] = routeObj[r]
      /\ \A r \in Members(k, R, I) : \A i \in DOMAIN R[r].spec.targets :
           T[R[r].spec.targets[i]] = targetRev[R[r].spec.targets[i]]
  BY SumCovers
<1>3. ASSUME NEW r \in Members(k, R, I)
      PROVE  Entry(r, R[r], I, M) = Entry(r, routeObj[r], IndexNow, targetRev)
  <2>1. r \in RouteNames /\ R[r] = routeObj[r]
    BY <1>2 DEF Members
  <2> DEFINE P == R[r].spec.parents
  <2>2. Alike(P, I.fronts, frontObj)
    BY <1>1, <1>2, <2>1, ParentsStand
  <2>3. VersionsOf(R[r], M) = VersionsOf(R[r], targetRev)
    <3>1. \A i \in DOMAIN R[r].spec.targets : R[r].spec.targets[i] \in Targets
      BY <1>1, <2>1, ItemSeq
    <3>2. \A i \in DOMAIN R[r].spec.targets : M[R[r].spec.targets[i]] = targetRev[R[r].spec.targets[i]]
      BY <1>2, <3>1 DEF Faithful
    <3> QED BY <3>2 DEF VersionsOf
  <2>4. Owned(I.fronts) \cap Range(P) = Owned(frontObj) \cap Range(P)
    BY <2>2 DEF Range, Alike
  <2>5. ClientCert(R[r].spec, I.fronts) = ClientCert(R[r].spec, frontObj)
    <3> DEFINE having(F) == {i \in DOMAIN P : P[i] \in Owned(F) /\ F[P[i]].spec.cert = "cert"}
               first(F) == {i \in having(F) : \A j \in having(F) : i <= j}
    <3>1. having(I.fronts) = having(frontObj)
      BY <2>2 DEF Alike
    <3>2. first(I.fronts) = first(frontObj)
      BY <3>1
    <3>3. \A i \in first(frontObj) : i \in DOMAIN P
      OBVIOUS
    <3> HIDE DEF first
    <3>4. {<<P[i], I.fronts[P[i]].rev>> : i \in first(I.fronts)} = {<<P[i], frontObj[P[i]].rev>> : i \in first(frontObj)}
      BY <2>2, <3>2, <3>3 DEF Alike
    <3> QED BY <3>4 DEF ClientCert, first
  <2> QED BY <1>1, <2>1, <2>3, <2>4, <2>5 DEF Entry, IndexNow
<1>4. {m \in Members(k, R, I) : Installs(R[m])} = {m \in Members(k, routeObj, IndexNow) : Installs(routeObj[m])}
  BY <1>2
<1> QED BY <1>3, <1>4 DEF Compile

-----------------------------------------------------------------------------
(* Writes of the stores *)

StoreTypes ==
  /\ routeObj \in Routes /\ targetRev \in [Targets -> Nat] /\ frontObj \in FrontTable
  /\ policyRev \in Nat /\ admitted \subseteq RouteNames /\ lastRev \in Nat

\* The stores keep their types.
LEMMA StoresTyped == Stores => StoreTypes
  BY DEF Stores, StoreTypes, PastRoutes, PastTargets, PastIndex, Indexes, IndexNow

\* Every event writes one object at most, under the next revision or none.
Writes ==
  /\ lastRev' = lastRev + 1 /\ lastRev < MaxRev /\ StoreTypes'
  /\ \A r \in RouteNames : routeObj'[r] = routeObj[r] \/ routeObj'[r].rev \in {0, lastRev + 1}
  /\ \A t \in Targets : targetRev'[t] \in {targetRev[t], 0, lastRev + 1}
  /\ \A r, q \in RouteNames : routeObj'[r].rev = lastRev + 1 /\ routeObj'[q].rev = lastRev + 1 => r = q
  /\ \A t, u \in Targets : targetRev'[t] = lastRev + 1 /\ targetRev'[u] = lastRev + 1 => t = u
  /\ \A r \in RouteNames, t \in Targets : ~(routeObj'[r].rev = lastRev + 1 /\ targetRev'[t] = lastRev + 1)
  /\ policyRev' \in {policyRev, lastRev + 1}
  /\ \A g \in Fronts : \/ frontObj'[g].rev = lastRev + 1
                       \/ frontObj'[g].rev = frontObj[g].rev /\ frontObj'[g].spec = frontObj[g].spec

LEMMA EventWrites ==
  ASSUME Stores, WorldEvent
  PROVE  Writes
<1>0. StoreTypes /\ MaxRev \in Nat
  BY StoresTyped, ObjectsAssumption
<1>1. /\ \A r \in RouteNames : routeObj[r].rev <= lastRev /\ routeObj[r].rev \in Nat
      /\ \A t \in Targets : targetRev[t] <= lastRev /\ targetRev[t] \in Nat
  BY <1>0 DEF Stores, PastRoutes, PastTargets, StoreTypes, Routes
<1>2. ASSUME NEW r \in RouteNames, NEW s \in RouteSpecs, EditRoute(r, s)
      PROVE  Writes
  BY <1>0, <1>1, <1>2 DEF EditRoute, NextRev, Writes, StoreTypes, Routes, RouteTexts
<1>3. ASSUME NEW r \in RouteNames, DeleteRoute(r)
      PROVE  Writes
  BY <1>0, <1>1, <1>3 DEF DeleteRoute, NextRev, Writes, StoreTypes, Routes
<1>4. ASSUME NEW r \in RouteNames, Relabel(r)
      PROVE  Writes
  BY <1>0, <1>1, <1>4 DEF Relabel, NextRev, Writes, StoreTypes
<1>5. ASSUME NEW t \in Targets, EditTarget(t)
      PROVE  Writes
  BY <1>0, <1>1, <1>5 DEF EditTarget, NextRev, Writes, StoreTypes
<1>6. ASSUME EditPolicies
      PROVE  Writes
  BY <1>0, <1>1, <1>6 DEF EditPolicies, NextRev, Writes, StoreTypes
<1>7. ASSUME NEW g \in Fronts, NEW s \in FrontSpecs, EditFront(g, s)
      PROVE  Writes
  BY <1>0, <1>1, <1>7 DEF EditFront, NextRev, Writes, StoreTypes, FrontTable, FrontTexts
<1>8. ASSUME NEW g \in CutOvers, CutOver(g)
      PROVE  Writes
  <2>1. g \in Fronts
    BY ObjectsAssumption
  <2> QED BY <1>0, <1>1, <1>8, <2>1 DEF CutOver, NextRev, Writes, StoreTypes, FrontTable
<1> QED BY <1>2, <1>3, <1>4, <1>5, <1>6, <1>7, <1>8 DEF WorldEvent

\* What was in the past stays there.
LEMMA PastStays ==
  ASSUME Stores, Writes
  PROVE  /\ \A R : PastRoutes(R) => PastRoutes(R)'
         /\ \A T : PastTargets(T) => PastTargets(T)'
         /\ \A I : PastIndex(I) => PastIndex(I)'
         /\ Stores'
<1>0. StoreTypes /\ StoreTypes' /\ MaxRev \in Nat
  BY StoresTyped, ObjectsAssumption DEF Writes
<1>1. ASSUME NEW R, PastRoutes(R) PROVE PastRoutes(R)'
  <2>1. \A r \in RouteNames : R[r].rev \in Nat /\ R[r].rev <= lastRev
    BY <1>1 DEF PastRoutes, Routes
  <2> QED BY <1>0, <1>1, <2>1 DEF PastRoutes, Writes, StoreTypes
<1>2. ASSUME NEW T, PastTargets(T) PROVE PastTargets(T)'
  <2>1. \A t \in Targets : T[t] \in Nat /\ T[t] <= lastRev
    BY <1>2 DEF PastTargets
  <2> QED BY <1>0, <1>2, <2>1 DEF PastTargets, Writes, StoreTypes
<1>3. \A g \in Fronts : frontObj[g].rev \in Nat /\ frontObj'[g].rev \in Nat
  BY <1>0 DEF StoreTypes, FrontTable
<1>4. ASSUME NEW I, PastIndex(I) PROVE PastIndex(I)'
  <2>1. /\ \A g \in Fronts : I.fronts[g].rev \in Nat /\ frontObj[g].rev <= lastRev
        /\ I.policies \in Nat /\ policyRev <= lastRev
    BY <1>4 DEF PastIndex, Indexes, FrontTable, Stores
  <2> QED BY <1>0, <1>3, <1>4, <2>1 DEF PastIndex, Writes, StoreTypes
<1>5. Stores'
  <2>1. /\ \A r \in RouteNames : routeObj[r].rev \in Nat /\ routeObj'[r].rev \in Nat /\ routeObj[r].rev <= lastRev
        /\ \A t \in Targets : targetRev[t] \in Nat /\ targetRev'[t] \in Nat /\ targetRev[t] <= lastRev
    BY <1>0 DEF StoreTypes, Routes, Stores, PastRoutes, PastTargets
  <2>2. PastRoutes(routeObj)'
    <3>1. \A r, q \in RouteNames : routeObj'[r].rev = routeObj'[q].rev /\ routeObj'[r].rev > 0 => r = q
      BY <1>0, <2>1 DEF Writes, Stores, PastRoutes, StoreTypes
    <3>2. \A r \in RouteNames, t \in Targets : routeObj'[r].rev = targetRev'[t] => routeObj'[r].rev = 0
      BY <1>0, <2>1 DEF Writes, Stores, PastRoutes, StoreTypes
    <3>3. \A r \in RouteNames : routeObj'[r].rev <= lastRev'
      BY <1>0, <2>1 DEF Writes, StoreTypes
    <3> QED BY <1>0, <3>1, <3>2, <3>3 DEF PastRoutes, StoreTypes
  <2>3. PastTargets(targetRev)'
    <3>1. \A t, u \in Targets : targetRev'[t] = targetRev'[u] /\ targetRev'[t] > 0 => t = u
      BY <1>0, <2>1 DEF Writes, Stores, PastTargets, StoreTypes
    <3>2. \A t \in Targets, q \in RouteNames : targetRev'[t] = routeObj'[q].rev => targetRev'[t] = 0
      BY <2>2 DEF PastRoutes
    <3>3. \A t \in Targets : targetRev'[t] <= lastRev'
      BY <1>0, <2>1 DEF Writes, StoreTypes
    <3> QED BY <1>0, <3>1, <3>2, <3>3 DEF PastTargets, StoreTypes
  <2>4. PastIndex(IndexNow)'
    BY <1>0, <1>3 DEF PastIndex, IndexNow, Indexes, StoreTypes
  <2>5. lastRev' <= MaxRev /\ policyRev' <= lastRev' /\ \A g \in Fronts : frontObj'[g].rev <= lastRev'
    BY <1>0, <1>3 DEF Writes, Stores, StoreTypes
  <2> QED BY <1>0, <2>2, <2>3, <2>4, <2>5 DEF Stores, StoreTypes
<1> QED BY <1>1, <1>2, <1>4, <1>5

\* Epochs grow, and never come back.
LEMMA EpochsGrow ==
  ASSUME Stores, Writes
  PROVE  /\ EpochNow \in Epochs /\ EpochNow' \in Epochs
         /\ \A e \in Epochs : Upto(e, EpochNow) => Upto(e, EpochNow')
         /\ EpochNow' = EpochNow \/ \A e \in Epochs : Upto(e, EpochNow) => e # EpochNow'
<1>0. StoreTypes /\ StoreTypes'
  BY StoresTyped DEF Writes
<1>1. /\ EpochNow = [policies |-> policyRev, fronts |-> [g \in Fronts |-> frontObj[g].rev]]
      /\ EpochNow' = [policies |-> policyRev', fronts |-> [g \in Fronts |-> frontObj'[g].rev]]
  BY <1>0 DEF EpochNow, StoreEpoch, StoreTypes, FrontTable
<1>2. /\ \A g \in Fronts : frontObj[g].rev \in Nat /\ frontObj'[g].rev \in Nat
      /\ policyRev \in Nat /\ policyRev' \in Nat /\ lastRev \in Nat
  BY <1>0 DEF StoreTypes, FrontTable
<1>3. /\ policyRev <= lastRev /\ policyRev' \in {policyRev, lastRev + 1}
      /\ \A g \in Fronts : frontObj[g].rev <= lastRev /\ frontObj'[g].rev \in {frontObj[g].rev, lastRev + 1}
  BY DEF Stores, Writes
<1>4. EpochNow \in Epochs /\ EpochNow' \in Epochs
  BY <1>1, <1>2 DEF Epochs
<1>5. ASSUME NEW e \in Epochs, Upto(e, EpochNow)
      PROVE  /\ Upto(e, EpochNow')
             /\ EpochNow' = EpochNow \/ e # EpochNow'
  <2>1. e.policies \in Nat /\ \A g \in Fronts : e.fronts[g] \in Nat
    BY DEF Epochs
  <2>2. e.policies <= policyRev /\ \A g \in Fronts : e.fronts[g] <= frontObj[g].rev
    BY <1>1, <1>5 DEF Upto
  <2>3. e.policies <= policyRev' /\ \A g \in Fronts : e.fronts[g] <= frontObj'[g].rev
    BY <1>2, <1>3, <2>1, <2>2
  <2>4. Upto(e, EpochNow')
    BY <1>1, <2>3 DEF Upto
  <2>5. ASSUME e = EpochNow' PROVE EpochNow' = EpochNow
    <3>1. e.policies = policyRev' /\ \A g \in Fronts : e.fronts[g] = frontObj'[g].rev
      BY <1>1, <2>5
    <3>2. policyRev' = policyRev /\ \A g \in Fronts : frontObj'[g].rev = frontObj[g].rev
      BY <1>2, <1>3, <2>2, <3>1
    <3> QED BY <1>1, <3>2
  <2> QED BY <2>4, <2>5
<1> QED BY <1>4, <1>5

LEMMA EpochOrder ==
  /\ \A e, f, h \in Epochs : Upto(e, f) /\ Upto(f, h) => Upto(e, h)
  /\ \A e, f \in Epochs : Upto(e, f) /\ Upto(f, e) => e = f
  /\ \A e \in Epochs : Upto(e, e)
<1>1. \A e \in Epochs : e.policies \in Nat /\ \A g \in Fronts : e.fronts[g] \in Nat
  BY DEF Epochs
<1>2. ASSUME NEW e \in Epochs, NEW f \in Epochs, Upto(e, f), Upto(f, e)
      PROVE  e = f
  <2>1. e.policies = f.policies /\ \A g \in Fronts : e.fronts[g] = f.fronts[g]
    BY <1>1, <1>2 DEF Upto
  <2>2. e.fronts = f.fronts
    BY <2>1 DEF Epochs
  <2> QED BY <2>1, <2>2 DEF Epochs
<1>3. ASSUME NEW e \in Epochs, NEW f \in Epochs, NEW h \in Epochs, Upto(e, f), Upto(f, h)
      PROVE  Upto(e, h)
  BY <1>1, <1>3 DEF Upto
<1>4. \A e \in Epochs : Upto(e, e)
  BY <1>1 DEF Upto
<1> QED BY <1>2, <1>3, <1>4

\* An event keeps the cut-overs seen unless it is one that a route could miss.
LEMMA CutsStaySeen ==
  ASSUME Stores, Writes, NEW R, NEW I, PastRoutes(R), PastIndex(I), CutsSeen(R, I),
         \A r \in RouteNames, g \in Fronts :
           \/ frontObj'[g].rev = lastRev + 1 \/ frontObj'[g].cut = frontObj[g].cut
           \/ ~(g \in Range(routeObj[r].spec.parents) /\ Len(routeObj[r].spec.parents) > 1)
  PROVE  CutsSeen(R, I)'
<1> SUFFICES ASSUME NEW r \in RouteNames, NEW g \in Fronts,
                    R[r].rev > 0, R[r].rev = routeObj'[r].rev,
                    g \in Range(R[r].spec.parents), Len(R[r].spec.parents) > 1,
                    I.fronts[g].rev = frontObj'[g].rev
             PROVE  I.fronts[g].cut = frontObj'[g].cut
  BY DEF CutsSeen
<1>1. R[r].rev \in Nat /\ R[r].rev <= lastRev /\ lastRev \in Nat
  BY DEF PastRoutes, Routes, Stores
<1>2. routeObj'[r] = routeObj[r] /\ R[r] = routeObj[r]
  BY <1>1 DEF Writes, PastRoutes
<1>3. I.fronts[g].rev \in Nat /\ I.fronts[g].rev <= lastRev
  <2>1. I.fronts[g].rev \in Nat /\ I.fronts[g].rev <= frontObj[g].rev /\ frontObj[g].rev <= lastRev
    BY DEF PastIndex, Indexes, FrontTable, Stores
  <2>2. frontObj[g].rev \in Nat
    BY StoresTyped DEF StoreTypes, FrontTable
  <2> QED BY <1>1, <2>1, <2>2
<1>4. frontObj'[g].rev # lastRev + 1
  BY <1>1, <1>3
<1>5. frontObj'[g].rev = frontObj[g].rev /\ frontObj'[g].cut = frontObj[g].cut
  BY <1>2, <1>4 DEF Writes
<1> QED BY <1>2, <1>5 DEF CutsSeen

\* What an event does to the rest; the ghost marks the three gaps.
GapsMarked ==
  /\ event' = "yes" /\ UNCHANGED <<passVars, keptVars>> /\ raced' \in {raced, "now"}
  /\ rpc = "indexed" /\ raced' # "now" => EpochNow' = EpochNow
  /\ rpc = "planned" /\ raced' # "now" => \A t \in Targets : targetRev[t] = 0 => targetRev'[t] = 0
  /\ raced' # "now" => \A r \in RouteNames, g \in Fronts :
       \/ frontObj'[g].rev = lastRev + 1 \/ frontObj'[g].cut = frontObj[g].cut
       \/ ~(g \in Range(routeObj[r].spec.parents) /\ Len(routeObj[r].spec.parents) > 1)

LEMMA EventsMark ==
  ASSUME Stores, WorldEvent
  PROVE  GapsMarked
<1>0. StoreTypes
  BY StoresTyped
<1>1. ASSUME NEW r \in RouteNames, NEW s \in RouteSpecs, EditRoute(r, s)
      PROVE  GapsMarked
  BY <1>1 DEF EditRoute, Written, EpochNow, GapsMarked
<1>2. ASSUME NEW r \in RouteNames, DeleteRoute(r)
      PROVE  GapsMarked
  BY <1>2 DEF DeleteRoute, Written, EpochNow, GapsMarked
<1>3. ASSUME NEW r \in RouteNames, Relabel(r)
      PROVE  GapsMarked
  BY <1>3 DEF Relabel, Written, EpochNow, GapsMarked
<1>4. ASSUME NEW t \in Targets, EditTarget(t)
      PROVE  GapsMarked
  <2>1. \A u \in Targets : u # t => targetRev'[u] = targetRev[u]
    BY <1>0, <1>4 DEF EditTarget, StoreTypes
  <2> QED BY <1>4, <2>1 DEF EditTarget, Written, EpochNow, GapsMarked
<1>5. ASSUME EditPolicies
      PROVE  GapsMarked
  BY <1>5 DEF EditPolicies, Written, Racing, GapsMarked
<1>6. ASSUME NEW g \in Fronts, NEW s \in FrontSpecs, EditFront(g, s)
      PROVE  GapsMarked
  <2>1. \A h \in Fronts : frontObj'[h].rev = lastRev + 1 \/ frontObj'[h].cut = frontObj[h].cut
    BY <1>0, <1>6 DEF EditFront, StoreTypes, FrontTable
  <2> QED BY <1>6, <2>1 DEF EditFront, Written, Racing, GapsMarked
<1>7. ASSUME NEW g \in CutOvers, CutOver(g)
      PROVE  GapsMarked
  <2>1. g \in Fronts
    BY ObjectsAssumption
  <2>2. \A h \in Fronts : frontObj'[h].rev = frontObj[h].rev /\ (h # g => frontObj'[h].cut = frontObj[h].cut)
    BY <1>0, <1>7, <2>1 DEF CutOver, StoreTypes, FrontTable
  <2>3. EpochNow' = EpochNow
    <3>1. DOMAIN frontObj = Fronts /\ DOMAIN frontObj' = Fronts
      BY <1>0, <1>7, <2>1 DEF CutOver, StoreTypes, FrontTable
    <3>2. StoreEpoch(frontObj') = StoreEpoch(frontObj)
      BY <2>2, <3>1 DEF StoreEpoch
    <3>3. policyRev' = policyRev
      BY <1>7 DEF CutOver
    <3> QED BY <3>2, <3>3 DEF EpochNow
  <2>4. raced' # "now" => \A r \in RouteNames : ~(g \in Range(routeObj[r].spec.parents) /\ Len(routeObj[r].spec.parents) > 1)
    BY <1>7 DEF CutOver, Written
  <2> QED BY <1>7, <2>2, <2>3, <2>4 DEF CutOver, Written, GapsMarked
<1> QED BY <1>1, <1>2, <1>3, <1>4, <1>5, <1>6, <1>7 DEF WorldEvent

-----------------------------------------------------------------------------
(* The invariant is inductive *)

LEMMA EventKeeps ==
  ASSUME RebuildInv, WorldEvent
  PROVE  RebuildInv'
<1>0. Stores /\ Writes /\ GapsMarked
  BY EventWrites, EventsMark DEF RebuildInv
<1>1. /\ Stores'
      /\ \A R : PastRoutes(R) => PastRoutes(R)'
      /\ \A T : PastTargets(T) => PastTargets(T)'
      /\ \A I : PastIndex(I) => PastIndex(I)'
  BY <1>0, PastStays
<1>2. /\ EpochNow \in Epochs /\ EpochNow' \in Epochs
      /\ \A e \in Epochs : Upto(e, EpochNow) => Upto(e, EpochNow')
      /\ EpochNow' = EpochNow \/ \A e \in Epochs : Upto(e, EpochNow) => e # EpochNow'
  BY <1>0, EpochsGrow
<1>3. /\ event' = "yes" /\ raced' \in {raced, "now"}
      /\ rpc' = rpc /\ snap' = snap /\ idx' = idx /\ epoch' = epoch /\ planned' = planned
      /\ pcache' = pcache /\ table' = table /\ cachedEpoch' = cachedEpoch
  BY <1>0 DEF GapsMarked, passVars, keptVars
<1>4. raced' # "now" => \A R, I : PastRoutes(R) /\ PastIndex(I) /\ CutsSeen(R, I) => CutsSeen(R, I)'
  <2>1. SUFFICES ASSUME raced' # "now", NEW R, NEW I, PastRoutes(R), PastIndex(I), CutsSeen(R, I)
                 PROVE  CutsSeen(R, I)'
    OBVIOUS
  <2> QED BY <1>0, <2>1, CutsStaySeen DEF GapsMarked
<1>5. CacheBacked'
  <2> SUFFICES ASSUME NEW k \in DOMAIN pcache
               PROVE  /\ pcache[k].router # {}
                      /\ pcache[k].fp.epoch \in Epochs /\ Upto(pcache[k].fp.epoch, cachedEpoch)
                      /\ Backed(k, pcache[k])'
    BY <1>3 DEF CacheBacked
  <2> DEFINE c == pcache[k]
  <2>1. c.router # {} /\ c.fp.epoch \in Epochs /\ Upto(c.fp.epoch, cachedEpoch) /\ Backed(k, c)
    BY DEF RebuildInv, CacheBacked
  <2>2. Upto(c.fp.epoch, EpochNow)
    BY <1>2, <2>1, EpochOrder DEF RebuildInv, EpochsInOrder
  <2>3. PICK R, I, T, M :
          /\ PastRoutes(R) /\ PastIndex(I) /\ PastTargets(T) /\ M \in [Targets -> Nat]
          /\ c.fp.sum = RouteSum(k, R, I, T) /\ c.router = Compile(k, R, I, M)
          /\ raced = "no" /\ c.fp.epoch = EpochNow => Faithful(R, I, T, M, c.fp.epoch)
    BY <2>1 DEF Backed
  <2>4. ASSUME raced' = "no", c.fp.epoch = EpochNow'
        PROVE  Faithful(R, I, T, M, c.fp.epoch)'
    <3>1. raced = "no" /\ EpochNow' = EpochNow
      BY <1>2, <1>3, <2>1, <2>2, <2>4
    <3>2. Faithful(R, I, T, M, c.fp.epoch)
      BY <2>3, <2>4, <3>1
    <3>3. CutsSeen(R, I)'
      BY <1>4, <2>3, <2>4, <3>2 DEF Faithful
    <3>4. \A t \in Targets : T[t] = 0 \/ T[t] = targetRev'[t] => M[t] = T[t]
      <4>1. \A t \in Targets : T[t] \in Nat /\ T[t] <= lastRev /\ targetRev'[t] \in {targetRev[t], 0, lastRev + 1}
        BY <1>0, <2>3 DEF PastTargets, Writes
      <4>2. lastRev \in Nat
        BY <1>0 DEF Stores
      <4> QED BY <3>2, <4>1, <4>2 DEF Faithful
    <3> QED BY <1>3, <3>2, <3>3, <3>4 DEF Faithful
  <2>5. PastRoutes(R)' /\ PastIndex(I)' /\ PastTargets(T)'
    BY <1>1, <2>3
  <2>6. Backed(k, c)'
    BY <1>3, <2>3, <2>4, <2>5 DEF Backed
  <2> QED BY <2>1, <2>6
<1>6. EpochsInOrder'
  BY <1>2, <1>3 DEF RebuildInv, EpochsInOrder
<1>7. PassReads'
  <2>1. rpc # "idle" => PastRoutes(snap)'
    BY <1>1, <1>3 DEF RebuildInv, PassReads
  <2>2. rpc \in {"indexed", "epoch", "planned"} => PastIndex(idx)'
    BY <1>1, <1>3 DEF RebuildInv, PassReads
  <2>3. rpc \in {"indexed", "epoch", "planned"} /\ raced' # "now" => CutsSeen(snap, idx)'
    BY <1>3, <1>4 DEF RebuildInv, PassReads
  <2>4. rpc = "indexed" /\ raced' # "now" => EpochOf(idx) = EpochNow'
    BY <1>0, <1>3 DEF RebuildInv, PassReads, GapsMarked
  <2> QED BY <1>3, <2>1, <2>2, <2>3, <2>4 DEF RebuildInv, PassReads
<1>8. PlanMade'
  <2> SUFFICES ASSUME rpc = "planned" PROVE PlanMade'
    BY <1>3 DEF PlanMade
  <2>1. PICK T : /\ PastTargets(T) /\ planned.fps = FpsOf(T)
                 /\ raced # "now" => \A t \in Targets : T[t] = 0 => targetRev[t] = 0
    BY DEF RebuildInv, PlanMade
  <2>2. PastTargets(T)' /\ planned.fps = FpsOf(T)'
    BY <1>1, <1>3, <2>1 DEF FpsOf
  <2>3. raced' # "now" => \A t \in Targets : T[t] = 0 => targetRev'[t] = 0
    BY <1>0, <1>3, <2>1 DEF GapsMarked
  <2>4. planned.dirty = Dirty /\ Dirty' = Dirty
    BY <1>3 DEF RebuildInv, PlanMade, Cached, Dirty
  <2> QED BY <1>3, <2>2, <2>3, <2>4 DEF PlanMade
<1>9. PassCurrent' /\ RebuildFresh'
  BY <1>3 DEF PassCurrent, RebuildFresh, AtRest
<1> QED BY <1>1, <1>5, <1>6, <1>7, <1>8, <1>9 DEF RebuildInv

\* While the stores, what the last pass left and the ghost stay, so do these.
LEMMA QuietKeeps ==
  ASSUME UNCHANGED worldVars
  PROVE  /\ Stores => Stores'
         /\ EpochNow' = EpochNow /\ IndexNow' = IndexNow
         /\ \A R : PastRoutes(R)' <=> PastRoutes(R)
         /\ \A T : PastTargets(T)' <=> PastTargets(T)
         /\ \A I : PastIndex(I)' <=> PastIndex(I)
         /\ \A R, I : CutsSeen(R, I)' <=> CutsSeen(R, I)
         /\ \A R, I, T, M, e : Faithful(R, I, T, M, e)' <=> Faithful(R, I, T, M, e)
<1>1. /\ routeObj' = routeObj /\ frontObj' = frontObj /\ targetRev' = targetRev /\ policyRev' = policyRev
      /\ admitted' = admitted /\ lastRev' = lastRev
  BY DEF worldVars
<1>2. EpochNow' = EpochNow /\ IndexNow' = IndexNow
  BY <1>1 DEF EpochNow, IndexNow
<1>3. /\ \A R : PastRoutes(R)' <=> PastRoutes(R)
      /\ \A T : PastTargets(T)' <=> PastTargets(T)
      /\ \A I : PastIndex(I)' <=> PastIndex(I)
      /\ \A R, I : CutsSeen(R, I)' <=> CutsSeen(R, I)
  BY <1>1 DEF PastRoutes, PastTargets, PastIndex, CutsSeen
<1>4. \A R, I, T, M, e : Faithful(R, I, T, M, e)' <=> Faithful(R, I, T, M, e)
  BY <1>1, <1>3 DEF Faithful
<1>5. Stores => Stores'
  BY <1>1, <1>2 DEF Stores, PastRoutes, PastTargets, PastIndex
<1> QED BY <1>2, <1>3, <1>4, <1>5

LEMMA CacheStays ==
  ASSUME CacheBacked, UNCHANGED <<worldVars, keptVars>>, raced' = "no" => raced = "no"
  PROVE  CacheBacked'
<1>1. UNCHANGED worldVars /\ pcache' = pcache /\ cachedEpoch' = cachedEpoch
  BY DEF keptVars
<1>2. ASSUME NEW k \in DOMAIN pcache PROVE Backed(k, pcache[k])'
  <2>1. PICK R, I, T, M :
          /\ PastRoutes(R) /\ PastIndex(I) /\ PastTargets(T) /\ M \in [Targets -> Nat]
          /\ pcache[k].fp.sum = RouteSum(k, R, I, T) /\ pcache[k].router = Compile(k, R, I, M)
          /\ raced = "no" /\ pcache[k].fp.epoch = EpochNow => Faithful(R, I, T, M, pcache[k].fp.epoch)
    BY DEF CacheBacked, Backed
  <2>2. PastRoutes(R)' /\ PastIndex(I)' /\ PastTargets(T)' /\ EpochNow' = EpochNow
    BY <1>1, <2>1, QuietKeeps
  <2>3. raced' = "no" /\ pcache[k].fp.epoch = EpochNow => Faithful(R, I, T, M, pcache[k].fp.epoch)'
    <3> DEFINE e == pcache[k].fp.epoch
    <3>1. e' = e
      BY <1>1
    <3>2. Faithful(R, I, T, M, e)' <=> Faithful(R, I, T, M, e)
      BY <1>1, <3>1, QuietKeeps DEF worldVars, Faithful, CutsSeen
    <3> QED BY <2>1, <3>2
  <2> QED BY <1>1, <2>1, <2>2, <2>3 DEF Backed
<1> QED BY <1>1, <1>2 DEF CacheBacked

LEMMA StartKeeps ==
  ASSUME RebuildInv, StartPass
  PROVE  RebuildInv'
<1>1. /\ UNCHANGED <<worldVars, keptVars>> /\ UNCHANGED worldVars /\ raced' = raced /\ cachedEpoch' = cachedEpoch
      /\ rpc' = "started" /\ snap' = routeObj /\ routeObj' = routeObj
  BY DEF StartPass, worldVars, keptVars
<1>2. Stores' /\ EpochNow' = EpochNow /\ CacheBacked'
  BY <1>1, QuietKeeps, CacheStays DEF RebuildInv
<1>3. PastRoutes(snap)'
  BY <1>1, <1>2 DEF Stores, PastRoutes
<1>4. EpochsInOrder' /\ PlanMade' /\ RebuildFresh'
  BY <1>1, <1>2 DEF RebuildInv, EpochsInOrder, PlanMade, RebuildFresh, AtRest
<1>5. PassReads' /\ PassCurrent'
  BY <1>1, <1>3 DEF PassReads, PassCurrent
<1> QED BY <1>2, <1>4, <1>5 DEF RebuildInv

LEMMA IndexKeeps ==
  ASSUME RebuildInv, BuildIndexes
  PROVE  RebuildInv'
<1>1. /\ UNCHANGED <<worldVars, keptVars>> /\ UNCHANGED worldVars /\ raced' = raced /\ cachedEpoch' = cachedEpoch
      /\ rpc = "started" /\ rpc' = "indexed" /\ snap' = snap /\ idx' = IndexNow /\ event' = event
      /\ routeObj' = routeObj /\ frontObj' = frontObj
  BY DEF BuildIndexes, worldVars, keptVars
<1>2. Stores' /\ EpochNow' = EpochNow /\ IndexNow' = IndexNow /\ CacheBacked'
  BY <1>1, QuietKeeps, CacheStays DEF RebuildInv
<1>3. PastRoutes(snap)'
  BY <1>1, QuietKeeps DEF RebuildInv, PassReads, PastRoutes, worldVars
<1>4. PastIndex(idx)' /\ CutsSeen(snap, idx)' /\ EpochOf(idx)' = EpochNow'
  <2>1. idx' = IndexNow'
    BY <1>1, <1>2
  <2> QED BY <1>2, <2>1 DEF Stores, PastIndex, CutsSeen, IndexNow, EpochOf, EpochNow
<1>5. EpochsInOrder' /\ PlanMade' /\ RebuildFresh'
  BY <1>1, <1>2 DEF RebuildInv, EpochsInOrder, PlanMade, RebuildFresh, AtRest
<1>6. PassReads' /\ PassCurrent'
  BY <1>1, <1>2, <1>3, <1>4 DEF RebuildInv, PassReads, PassCurrent
<1> QED BY <1>2, <1>5, <1>6 DEF RebuildInv

LEMMA EpochKeeps ==
  ASSUME RebuildInv, ComputeEpoch
  PROVE  RebuildInv'
<1>1. /\ UNCHANGED <<worldVars, keptVars>> /\ UNCHANGED worldVars /\ raced' = raced /\ cachedEpoch' = cachedEpoch
      /\ rpc = "indexed" /\ rpc' = "epoch" /\ snap' = snap /\ idx' = idx /\ epoch' = EpochNow /\ event' = event
      /\ routeObj' = routeObj /\ frontObj' = frontObj
  BY DEF ComputeEpoch, worldVars, keptVars
<1>2. Stores' /\ EpochNow' = EpochNow /\ IndexNow' = IndexNow /\ CacheBacked'
  BY <1>1, QuietKeeps, CacheStays DEF RebuildInv
<1>3. PastRoutes(snap)' /\ PastIndex(idx)' /\ (raced # "now" => CutsSeen(snap, idx)')
  BY <1>1 DEF RebuildInv, PassReads, PastRoutes, PastIndex, CutsSeen, worldVars
<1>4. EpochNow \in Epochs
  BY StoresTyped DEF RebuildInv, EpochNow, StoreEpoch, Epochs, StoreTypes, FrontTable
<1>5. EpochsInOrder'
  BY <1>1, <1>2, <1>4, EpochOrder DEF RebuildInv, EpochsInOrder
<1>6. PlanMade' /\ RebuildFresh'
  BY <1>1, <1>2 DEF RebuildInv, PlanMade, RebuildFresh, AtRest
<1>7. PassReads' /\ PassCurrent'
  <2>1. raced # "now" => EpochOf(idx)' = epoch'
    BY <1>1 DEF RebuildInv, PassReads, EpochOf
  <2> QED BY <1>1, <1>2, <1>3, <2>1 DEF RebuildInv, PassReads, PassCurrent
<1> QED BY <1>2, <1>5, <1>6, <1>7 DEF RebuildInv

LEMMA PlanKeeps ==
  ASSUME RebuildInv, Plan
  PROVE  RebuildInv'
<1>1. /\ UNCHANGED <<worldVars, keptVars>> /\ UNCHANGED worldVars /\ raced' = raced /\ cachedEpoch' = cachedEpoch
      /\ rpc = "epoch" /\ rpc' = "planned" /\ snap' = snap /\ idx' = idx /\ epoch' = epoch /\ event' = event
      /\ routeObj' = routeObj /\ frontObj' = frontObj /\ targetRev' = targetRev /\ pcache' = pcache
  BY DEF Plan, worldVars, keptVars
<1>2. Stores' /\ EpochNow' = EpochNow /\ IndexNow' = IndexNow /\ CacheBacked'
  BY <1>1, QuietKeeps, CacheStays DEF RebuildInv
<1>3. PastRoutes(snap)' /\ PastIndex(idx)' /\ (raced # "now" => CutsSeen(snap, idx)')
  BY <1>1 DEF RebuildInv, PassReads, PastRoutes, PastIndex, CutsSeen, worldVars
<1>4. EpochsInOrder' /\ RebuildFresh'
  BY <1>1, <1>2 DEF RebuildInv, EpochsInOrder, RebuildFresh, AtRest
<1>5. PassReads' /\ PassCurrent'
  BY <1>1, <1>2, <1>3 DEF RebuildInv, PassReads, PassCurrent, EpochOf
<1>6. PlanMade'
  <2>1. /\ planned'.fps = FpsOf(targetRev)
        /\ planned'.dirty = {k \in DOMAIN planned'.fps : ~Cached(k, planned'.fps[k])}
    BY DEF Plan, PlannedFor, FpsOf
  <2>2. planned'.fps = FpsOf(targetRev)'
    BY <1>1, <2>1 DEF FpsOf
  <2>3. planned'.dirty = Dirty'
    BY <1>1, <2>1 DEF Dirty, Cached
  <2>4. PastTargets(targetRev)'
    BY <1>2 DEF Stores
  <2> QED BY <1>1, <2>2, <2>3, <2>4 DEF PlanMade
<1> QED BY <1>2, <1>4, <1>5, <1>6 DEF RebuildInv

\* What the pass has made of the plan.
LEMMA PlanKnown ==
  ASSUME RebuildInv, rpc = "planned", NEW T, planned.fps = FpsOf(T), planned.dirty = Dirty
  PROVE  /\ DOMAIN planned.fps = LiveKeys(snap, idx)
         /\ \A k \in DOMAIN planned.fps :
              /\ planned.fps[k] = [sum |-> RouteSum(k, snap, idx, T), epoch |-> epoch]
              /\ k \in DOMAIN Assembled <=> (k \in planned.dirty => Compile(k, snap, idx, targetRev) # {})
         /\ DOMAIN Assembled \subseteq DOMAIN planned.fps
         /\ \A k \in DOMAIN Assembled :
              Assembled[k] = IF k \in planned.dirty THEN Compile(k, snap, idx, targetRev) ELSE pcache[k].router
         /\ planned.dirty \subseteq DOMAIN planned.fps
         /\ \A k \in DOMAIN planned.fps \ planned.dirty : k \in DOMAIN pcache /\ pcache[k].fp = planned.fps[k]
<1>1. DOMAIN planned.fps = LiveKeys(snap, idx) /\ planned.dirty \subseteq DOMAIN planned.fps
  BY DEF FpsOf, Dirty
<1>2. \A k \in DOMAIN planned.fps : planned.fps[k] = [sum |-> RouteSum(k, snap, idx, T), epoch |-> epoch]
  BY DEF FpsOf
<1>3. \A k \in DOMAIN planned.fps \ planned.dirty : k \in DOMAIN pcache /\ pcache[k].fp = planned.fps[k]
  BY DEF Dirty, Cached
<1> DEFINE fresh == [k \in planned.dirty |-> Compile(k, snap, idx, targetRev)]
           kept == {k \in DOMAIN planned.fps : k \in planned.dirty => fresh[k] # {}}
<1>4. Assembled = [k \in kept |-> IF k \in planned.dirty THEN fresh[k] ELSE pcache[k].router]
  BY DEF Assembled
<1>5. \A k \in planned.dirty : fresh[k] = Compile(k, snap, idx, targetRev)
  OBVIOUS
<1>6. DOMAIN Assembled = kept
  BY <1>4
<1> HIDE DEF fresh
<1> QED BY <1>1, <1>2, <1>3, <1>4, <1>5, <1>6

\* A gap is forgotten only when no entry of its epoch is left.
LEMMA GapForgotten ==
  ASSUME RebuildInv, PublishTable, raced' = "no"
  PROVE  /\ raced # "now"
         /\ \A e \in Epochs : Upto(e, cachedEpoch) /\ e = EpochNow => raced = "no"
<1>1. raced = "no" \/ (raced = "cached" /\ epoch # cachedEpoch)
  BY DEF PublishTable
<1>2. rpc = "planned"
  BY DEF PublishTable
<1>3. /\ cachedEpoch \in Epochs /\ epoch \in Epochs
      /\ Upto(cachedEpoch, epoch) /\ Upto(epoch, EpochNow)
  BY <1>2 DEF RebuildInv, EpochsInOrder
<1>4. ASSUME NEW e \in Epochs, Upto(e, cachedEpoch), e = EpochNow
      PROVE  epoch = cachedEpoch
  <2>1. Upto(epoch, cachedEpoch)
    BY <1>3, <1>4, EpochOrder
  <2> QED BY <1>3, <2>1, EpochOrder
<1> QED BY <1>1, <1>4

LEMMA PublishKeepsCache ==
  ASSUME RebuildInv, PublishTable
  PROVE  CacheBacked'
<1>1. /\ UNCHANGED worldVars /\ rpc = "planned" /\ pcache' = Retained /\ cachedEpoch' = epoch
      /\ targetRev' = targetRev
  BY DEF PublishTable, EndPass, worldVars
<1>2. PICK T : /\ PastTargets(T) /\ planned.fps = FpsOf(T) /\ planned.dirty = Dirty
               /\ raced # "now" => \A t \in Targets : T[t] = 0 => targetRev[t] = 0
  BY <1>1 DEF RebuildInv, PlanMade
<1>3. /\ EpochNow' = EpochNow
      /\ \A R : PastRoutes(R)' <=> PastRoutes(R)
      /\ \A U : PastTargets(U)' <=> PastTargets(U)
      /\ \A I : PastIndex(I)' <=> PastIndex(I)
      /\ \A R, I, U, M, e : Faithful(R, I, U, M, e)' <=> Faithful(R, I, U, M, e)
  BY <1>1, QuietKeeps
<1>4. /\ PastRoutes(snap) /\ PastIndex(idx) /\ targetRev \in [Targets -> Nat]
      /\ epoch \in Epochs /\ cachedEpoch \in Epochs /\ Upto(cachedEpoch, epoch)
  BY <1>1 DEF RebuildInv, PassReads, EpochsInOrder, Stores, PastTargets
\* An entry that the cache had.
<1>5. ASSUME NEW k \in DOMAIN pcache, NEW c, c.fp = pcache[k].fp, c.router = pcache[k].router
      PROVE  c.router # {} /\ c.fp.epoch \in Epochs /\ Upto(c.fp.epoch, epoch) /\ Backed(k, c)'
  <2>1. /\ c.router # {} /\ c.fp.epoch \in Epochs /\ Upto(c.fp.epoch, cachedEpoch)
        /\ Backed(k, pcache[k])
    BY <1>5 DEF RebuildInv, CacheBacked
  <2>2. Upto(c.fp.epoch, epoch)
    BY <1>4, <2>1, EpochOrder
  <2>3. PICK R, I, U, M :
          /\ PastRoutes(R) /\ PastIndex(I) /\ PastTargets(U) /\ M \in [Targets -> Nat]
          /\ c.fp.sum = RouteSum(k, R, I, U) /\ c.router = Compile(k, R, I, M)
          /\ raced = "no" /\ c.fp.epoch = EpochNow => Faithful(R, I, U, M, c.fp.epoch)
    BY <1>5, <2>1 DEF Backed
  <2>4. raced' = "no" /\ c.fp.epoch = EpochNow => Faithful(R, I, U, M, c.fp.epoch)
    BY <2>1, <2>3, GapForgotten
  <2>5. Backed(k, c)'
    BY <1>3, <2>3, <2>4 DEF Backed
  <2> QED BY <2>1, <2>2, <2>5
\* An entry that the pass compiled.
<1>6. ASSUME NEW k, NEW c, Compile(k, snap, idx, targetRev) # {},
             c = [fp |-> [sum |-> RouteSum(k, snap, idx, T), epoch |-> epoch],
                  router |-> Compile(k, snap, idx, targetRev)]
      PROVE  c.router # {} /\ c.fp.epoch \in Epochs /\ Upto(c.fp.epoch, epoch) /\ Backed(k, c)'
  <2>1. c.router # {} /\ c.fp.epoch = epoch /\ Upto(epoch, epoch)
    BY <1>4, <1>6, EpochOrder
  <2>2. raced' = "no" => Faithful(snap, idx, T, targetRev, epoch)
    <3> SUFFICES ASSUME raced' = "no" PROVE Faithful(snap, idx, T, targetRev, epoch)
      OBVIOUS
    <3>1. raced # "now"
      BY GapForgotten
    <3>2. epoch = EpochOf(idx) /\ CutsSeen(snap, idx)
      BY <1>1, <3>1 DEF RebuildInv, PassReads
    <3> QED BY <1>2, <3>1, <3>2 DEF Faithful
  <2>3. /\ PastRoutes(snap) /\ PastIndex(idx) /\ PastTargets(T) /\ targetRev \in [Targets -> Nat]
        /\ c.fp.sum = RouteSum(k, snap, idx, T) /\ c.router = Compile(k, snap, idx, targetRev)
        /\ raced' = "no" /\ c.fp.epoch = EpochNow => Faithful(snap, idx, T, targetRev, c.fp.epoch)
    BY <1>2, <1>4, <1>6, <2>1, <2>2
  <2>4. \E R, I, U, M :
          /\ PastRoutes(R) /\ PastIndex(I) /\ PastTargets(U) /\ M \in [Targets -> Nat]
          /\ c.fp.sum = RouteSum(k, R, I, U) /\ c.router = Compile(k, R, I, M)
          /\ raced' = "no" /\ c.fp.epoch = EpochNow => Faithful(R, I, U, M, c.fp.epoch)
    BY <2>3
  <2>5. Backed(k, c)'
    BY <1>3, <2>4 DEF Backed
  <2> QED BY <1>4, <2>1, <2>5
<1> DEFINE stale == (DOMAIN planned.fps \cap DOMAIN pcache) \ DOMAIN Assembled
<1>7. /\ DOMAIN Retained = DOMAIN Assembled \cup stale
      /\ \A k \in DOMAIN Assembled : Retained[k] = [fp |-> planned.fps[k], router |-> Assembled[k]]
      /\ \A k \in stale : Retained[k] = pcache[k]
  BY DEF Retained
<1>8. ASSUME NEW k \in DOMAIN Retained, NEW c, c = Retained[k]
      PROVE  c.router # {} /\ c.fp.epoch \in Epochs /\ Upto(c.fp.epoch, epoch) /\ Backed(k, c)'
  <2>1. CASE k \in DOMAIN Assembled
    <3>1. c = [fp |-> planned.fps[k], router |-> Assembled[k]]
      BY <1>7, <1>8, <2>1
    <3>2. CASE k \in planned.dirty
      <4>1. /\ planned.fps[k] = [sum |-> RouteSum(k, snap, idx, T), epoch |-> epoch]
            /\ Assembled[k] = Compile(k, snap, idx, targetRev) /\ Compile(k, snap, idx, targetRev) # {}
        BY <1>1, <1>2, <2>1, <3>2, PlanKnown
      <4>2. c = [fp |-> [sum |-> RouteSum(k, snap, idx, T), epoch |-> epoch],
                 router |-> Compile(k, snap, idx, targetRev)]
        BY <3>1, <4>1
      <4> QED BY <1>6, <4>1, <4>2
    <3>3. CASE k \notin planned.dirty
      <4>1. k \in DOMAIN pcache /\ pcache[k].fp = planned.fps[k] /\ Assembled[k] = pcache[k].router
        BY <1>1, <1>2, <2>1, <3>3, PlanKnown
      <4>2. c.fp = pcache[k].fp /\ c.router = pcache[k].router
        BY <3>1, <4>1
      <4> QED BY <1>5, <4>1, <4>2
    <3> QED BY <3>2, <3>3
  <2>2. CASE k \in stale
    <3>1. k \in DOMAIN pcache /\ c = pcache[k]
      BY <1>7, <1>8, <2>2
    <3> QED BY <1>5, <3>1
  <2> QED BY <1>7, <2>1, <2>2
<1>9. ASSUME NEW k \in DOMAIN Retained
      PROVE  /\ pcache'[k].router # {} /\ pcache'[k].fp.epoch \in Epochs /\ Upto(pcache'[k].fp.epoch, epoch)
             /\ Backed(k, pcache[k])'
  <2>1. PICK c : c = Retained[k] /\ c = pcache'[k]
    BY <1>1
  <2>2. c.router # {} /\ c.fp.epoch \in Epochs /\ Upto(c.fp.epoch, epoch) /\ Backed(k, c)'
    BY <1>8, <2>1
  <2>3. Backed(k, pcache[k])'
    BY <2>1, <2>2 DEF Backed
  <2> QED BY <2>1, <2>2, <2>3
<1> QED BY <1>1, <1>9 DEF CacheBacked

LEMMA PublishFresh ==
  ASSUME RebuildInv, PublishTable
  PROVE  RebuildFresh'
<1>1. /\ UNCHANGED worldVars /\ rpc = "planned" /\ table' = Assembled /\ event' = event
      /\ routeObj' = routeObj /\ targetRev' = targetRev /\ frontObj' = frontObj /\ policyRev' = policyRev
      /\ admitted' = admitted
  BY DEF PublishTable, EndPass, worldVars
<1> SUFFICES ASSUME event = "no", raced' = "no" PROVE Assembled = Whole
  BY <1>1 DEF RebuildFresh, AtRest, Whole, IndexNow
<1>2. snap = routeObj /\ idx = IndexNow /\ epoch = EpochNow
  BY <1>1 DEF RebuildInv, PassCurrent
<1>3. planned.fps = FpsOf(targetRev) /\ planned.dirty = Dirty
  BY <1>1 DEF RebuildInv, PlanMade
<1> DEFINE keys == {k \in LiveKeys(routeObj, IndexNow) : Compile(k, routeObj, IndexNow, targetRev) # {}}
           now(k) == Compile(k, routeObj, IndexNow, targetRev)
<1>4. /\ DOMAIN planned.fps = LiveKeys(routeObj, IndexNow)
      /\ \A k \in DOMAIN planned.fps :
           /\ planned.fps[k] = [sum |-> RouteSum(k, routeObj, IndexNow, targetRev), epoch |-> EpochNow]
           /\ k \in DOMAIN Assembled <=> (k \in planned.dirty => now(k) # {})
      /\ DOMAIN Assembled \subseteq DOMAIN planned.fps
      /\ \A k \in DOMAIN Assembled : Assembled[k] = IF k \in planned.dirty THEN now(k) ELSE pcache[k].router
      /\ \A k \in DOMAIN planned.fps \ planned.dirty : k \in DOMAIN pcache /\ pcache[k].fp = planned.fps[k]
  BY <1>1, <1>2, <1>3, PlanKnown
\* A clean partition's router is the one that would be compiled now.
<1>5. ASSUME NEW k \in DOMAIN planned.fps, k \notin planned.dirty
      PROVE  pcache[k].router = now(k) /\ now(k) # {}
  <2>1. /\ k \in DOMAIN pcache
        /\ pcache[k].fp = [sum |-> RouteSum(k, routeObj, IndexNow, targetRev), epoch |-> EpochNow]
    BY <1>4, <1>5
  <2>2. /\ pcache[k].router # {} /\ pcache[k].fp.epoch \in Epochs /\ Upto(pcache[k].fp.epoch, cachedEpoch)
        /\ Backed(k, pcache[k])
    BY <2>1 DEF RebuildInv, CacheBacked
  <2>3. raced = "no" /\ pcache[k].fp.epoch = EpochNow
    BY <2>1, <2>2, GapForgotten
  <2>4. PICK R, I, T, M :
          /\ PastRoutes(R) /\ PastIndex(I) /\ PastTargets(T) /\ M \in [Targets -> Nat]
          /\ pcache[k].fp.sum = RouteSum(k, R, I, T) /\ pcache[k].router = Compile(k, R, I, M)
          /\ Faithful(R, I, T, M, EpochNow)
    BY <2>2, <2>3 DEF Backed
  <2>5. RouteSum(k, R, I, T) = RouteSum(k, routeObj, IndexNow, targetRev)
    BY <2>1, <2>4
  <2>6. Compile(k, R, I, M) = now(k)
    BY <2>4, <2>5, RouterStands DEF RebuildInv
  <2> QED BY <2>2, <2>4, <2>6
<1>6. DOMAIN Assembled = keys
  BY <1>4, <1>5
<1>7. \A k \in DOMAIN Assembled : Assembled[k] = now(k)
  BY <1>4, <1>5
<1>8. Assembled = [k \in DOMAIN Assembled |-> Assembled[k]]
  BY DEF Assembled
<1> QED BY <1>6, <1>7, <1>8 DEF Whole

LEMMA PublishKeeps ==
  ASSUME RebuildInv, PublishTable
  PROVE  RebuildInv'
<1>1. UNCHANGED worldVars /\ rpc = "planned" /\ rpc' = "idle" /\ cachedEpoch' = epoch
  BY DEF PublishTable, EndPass
<1>2. Stores' /\ EpochNow' = EpochNow
  BY <1>1, QuietKeeps DEF RebuildInv
<1>3. CacheBacked' /\ RebuildFresh'
  BY PublishKeepsCache, PublishFresh
<1>4. EpochsInOrder'
  BY <1>1, <1>2 DEF RebuildInv, EpochsInOrder
<1>5. PassReads' /\ PlanMade' /\ PassCurrent'
  BY <1>1 DEF PassReads, PlanMade, PassCurrent
<1> QED BY <1>2, <1>3, <1>4, <1>5 DEF RebuildInv

LEMMA FailKeeps ==
  ASSUME RebuildInv, BuildFails
  PROVE  RebuildInv'
<1>1. /\ UNCHANGED <<worldVars, keptVars>> /\ UNCHANGED worldVars /\ rpc = "planned" /\ rpc' = "idle"
      /\ cachedEpoch' = cachedEpoch /\ event' = event /\ (raced' = "no" => raced = "no")
      /\ routeObj' = routeObj /\ Breaks(planned.dirty, snap, idx)
  BY DEF BuildFails, EndPass, keptVars, worldVars
<1>2. Stores' /\ EpochNow' = EpochNow /\ IndexNow' = IndexNow
  BY <1>1, QuietKeeps DEF RebuildInv
<1>3. CacheBacked'
  BY <1>1, CacheStays DEF RebuildInv
<1>4. EpochsInOrder'
  BY <1>1, <1>2 DEF RebuildInv, EpochsInOrder
<1>5. PassReads' /\ PlanMade' /\ PassCurrent'
  BY <1>1 DEF PassReads, PlanMade, PassCurrent
<1>6. RebuildFresh'
  <2>1. ASSUME event = "no" PROVE ~WholeBuilds
    <3>1. snap = routeObj /\ idx = IndexNow
      BY <1>1, <2>1 DEF RebuildInv, PassCurrent
    <3>2. planned.dirty \subseteq LiveKeys(snap, idx)
      BY <1>1 DEF RebuildInv, PlanMade, Dirty, FpsOf
    <3> QED BY <1>1, <3>1, <3>2 DEF WholeBuilds, Breaks
  <2>2. WholeBuilds' <=> WholeBuilds
    BY <1>1, <1>2 DEF WholeBuilds
  <2> QED BY <1>1, <2>1, <2>2 DEF RebuildFresh, AtRest
<1> QED BY <1>2, <1>3, <1>4, <1>5, <1>6 DEF RebuildInv

LEMMA RebuildInitInv == RebuildInit => RebuildInv
<1> SUFFICES ASSUME RebuildInit PROVE RebuildInv
  OBVIOUS
<1>1. /\ RouteNames \subseteq ObjectNames /\ Fronts \subseteq ObjectNames /\ Targets \subseteq ObjectNames
      /\ "policies" \in ObjectNames
  BY DEF ObjectNames
<1>2. /\ Cardinality(ObjectNames) \in Nat /\ lastRev = Cardinality(ObjectNames)
      /\ \A x \in ObjectNames : FirstRev[x] \in Nat /\ 0 < FirstRev[x] /\ FirstRev[x] <= lastRev
  BY ObjectsAssumption, FS_CardinalityType DEF RebuildInit
<1>3. StoreTypes
  BY <1>1, <1>2 DEF StoreTypes, RebuildInit, Routes, FrontTable, RouteTexts, FrontTexts
<1>4. PastRoutes(routeObj)
  <2>1. \A r \in RouteNames : routeObj[r].rev = FirstRev[r]
    BY DEF RebuildInit
  <2>2. \A t \in Targets : targetRev[t] = FirstRev[t]
    BY DEF RebuildInit
  <2>3. \A r, q \in RouteNames : FirstRev[r] = FirstRev[q] => r = q
    BY <1>1, ObjectsAssumption
  <2>4. \A r \in RouteNames, t \in Targets : FirstRev[r] # FirstRev[t]
    BY <1>1, ObjectsAssumption
  <2> QED BY <1>1, <1>2, <1>3, <2>1, <2>2, <2>3, <2>4 DEF PastRoutes, StoreTypes
<1>5. PastTargets(targetRev)
  <2>1. \A t \in Targets : targetRev[t] = FirstRev[t]
    BY DEF RebuildInit
  <2>2. \A t, u \in Targets : FirstRev[t] = FirstRev[u] => t = u
    BY <1>1, ObjectsAssumption
  <2> QED BY <1>1, <1>2, <1>3, <1>4, <2>1, <2>2 DEF PastTargets, PastRoutes, StoreTypes
<1>6. PastIndex(IndexNow)
  <2>1. \A g \in Fronts : frontObj[g].rev \in Nat
    BY <1>3 DEF StoreTypes, FrontTable
  <2> QED BY <1>3, <2>1 DEF PastIndex, IndexNow, Indexes, StoreTypes
<1>7. Stores
  BY <1>1, <1>2, <1>3, <1>4, <1>5, <1>6, ObjectsAssumption DEF Stores, StoreTypes, RebuildInit
<1>8. EpochNow \in Epochs
  BY <1>3 DEF EpochNow, StoreEpoch, Epochs, StoreTypes, FrontTable
<1>9. EpochsInOrder
  BY <1>8, EpochOrder DEF EpochsInOrder, RebuildInit
<1>10. CacheBacked
  BY DEF CacheBacked, RebuildInit
<1>11. PassReads /\ PlanMade /\ PassCurrent /\ RebuildFresh
  BY DEF PassReads, PlanMade, PassCurrent, RebuildFresh, AtRest, RebuildInit
<1> QED BY <1>7, <1>9, <1>10, <1>11 DEF RebuildInv

LEMMA RebuildStutters ==
  ASSUME RebuildInv, UNCHANGED rebuildVars
  PROVE  RebuildInv'
<1>1. /\ UNCHANGED <<worldVars, keptVars>> /\ UNCHANGED worldVars /\ raced' = raced /\ event' = event
      /\ rpc' = rpc /\ snap' = snap /\ idx' = idx /\ epoch' = epoch /\ planned' = planned
      /\ pcache' = pcache /\ table' = table /\ cachedEpoch' = cachedEpoch
      /\ routeObj' = routeObj /\ targetRev' = targetRev /\ frontObj' = frontObj /\ policyRev' = policyRev
      /\ admitted' = admitted /\ lastRev' = lastRev
  BY DEF rebuildVars, worldVars, passVars, keptVars
<1>2. Stores' /\ CacheBacked' /\ EpochNow' = EpochNow /\ IndexNow' = IndexNow
  BY <1>1, QuietKeeps, CacheStays DEF RebuildInv
<1>3. EpochsInOrder'
  BY <1>1, <1>2 DEF RebuildInv, EpochsInOrder
<1>4. PassReads'
  BY <1>1, <1>2 DEF RebuildInv, PassReads, PastRoutes, PastIndex, CutsSeen, EpochOf
<1>5. PlanMade'
  <2>1. \A T : (PastTargets(T)' <=> PastTargets(T)) /\ FpsOf(T)' = FpsOf(T)
    BY <1>1 DEF PastTargets, FpsOf
  <2>2. Dirty' = Dirty
    BY <1>1 DEF Dirty, Cached
  <2> QED BY <1>1, <2>1, <2>2 DEF RebuildInv, PlanMade
<1>6. PassCurrent'
  BY <1>1, <1>2 DEF RebuildInv, PassCurrent
<1>7. RebuildFresh'
  BY <1>1, <1>2 DEF RebuildInv, RebuildFresh, AtRest, WholeBuilds, Whole
<1> QED BY <1>2, <1>3, <1>4, <1>5, <1>6, <1>7 DEF RebuildInv

LEMMA RebuildInductive == RebuildInv /\ [RebuildNext]_rebuildVars => RebuildInv'
<1> SUFFICES ASSUME RebuildInv, [RebuildNext]_rebuildVars PROVE RebuildInv'
  OBVIOUS
<1> QED BY EventKeeps, StartKeeps, IndexKeeps, EpochKeeps, PlanKeeps, PublishKeeps, FailKeeps, RebuildStutters
        DEF RebuildNext

\* build_gateway_routes (route_builder.rs:353): once a rebuild has run for every event, the
\* table put together from kept and compiled partitions is the one a rebuild from nothing
\* would publish, unless one of the three gaps was hit since the epoch last changed.
THEOREM PartitionsStayFresh == RebuildSpec => []RebuildFresh
<1>1. RebuildInv => RebuildFresh
  BY DEF RebuildInv
<1> QED BY <1>1, RebuildInitInv, RebuildInductive, PTL DEF RebuildSpec
=============================================================================
