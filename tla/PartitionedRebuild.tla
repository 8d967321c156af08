------------------------- MODULE PartitionedRebuild -------------------------
(***************************************************************************)
(* The partitioned rebuild of the Gateway routing table (coxswain-         *)
(* reflector, reconciler/{proxy,route_builder,gateway_partition,cache}.rs  *)
(* and fingerprint.rs).  Every pass folds a fingerprint over the routes    *)
(* bound to a (port, host) partition and over a rebuild-wide epoch; a      *)
(* partition whose fingerprint has not moved keeps its compiled router,    *)
(* the others are compiled anew.                                           *)
(*                                                                         *)
(* A pass is one synchronous call, but the stores it reads are live: the   *)
(* watches of other threads write them between any two of its reads.       *)
(*                                                                         *)
(* A stored object is its revision (resourceVersion, or uid and            *)
(* generation), 0 while it does not exist; the API server numbers writes   *)
(* of all objects with one counter, so no two writes share a revision.     *)
(* "The policies" are the targetRef-attached ones and the Secrets and      *)
(* grants behind them, read into indexes once per pass; "targets" are what *)
(* a route names itself: Services with their endpoints, ExtensionRef CRs.  *)
(***************************************************************************)
EXTENDS Naturals, Sequences, FiniteSets, Functions

CONSTANTS
  RouteNames,    \* HTTPRoutes and GRPCRoutes
  RouteSpecs,    \* what a route may say: [parents, targets, rules]
  Fronts,        \* the Gateways of the shared pool
  FrontSpecs,    \* what a Gateway may say: [keys, cert]
  CutOvers,      \* the Gateways that may be cut over to a dedicated proxy
  Targets,       \* Services and CRs
  FirstRev,      \* the revision each object starts with
  FirstSpec,     \* the specification each route and Gateway starts with
  MaxRev         \* bound on the writes

ObjectNames == RouteNames \cup Fronts \cup Targets \cup {"policies"}

\* "some": rules that install entries; "none": rules that install nothing;
\* "broken": an entry the table builder rejects.
ASSUME RebuildAssumption ==
  /\ \A s \in RouteSpecs \cup {FirstSpec[r] : r \in RouteNames} :
       s.parents \in Seq(Fronts) /\ s.targets \in Seq(Targets) /\ s.rules \in {"some", "none", "broken"}
  /\ \A s \in FrontSpecs \cup {FirstSpec[g] : g \in Fronts} : s.cert \in {"cert", "none"}

\* Objects of different kinds are different objects, each with its first revision.
ASSUME ObjectsAssumption ==
  /\ IsFiniteSet(ObjectNames) /\ RouteNames \cap Targets = {} /\ CutOvers \subseteq Fronts
  /\ \A x \in ObjectNames : FirstRev[x] \in 1..Cardinality(ObjectNames)
  /\ \A x, y \in ObjectNames : FirstRev[x] = FirstRev[y] => x = y
  /\ MaxRev \in Nat /\ Cardinality(ObjectNames) <= MaxRev

VARIABLES
  routeObj,      \* route -> [rev, spec]
  frontObj,      \* Gateway -> [rev, spec, cut]
  targetRev, policyRev, admitted, lastRev,   \* admitted: routes whose namespace the listeners admit
  event,         \* a store event has not been seen by a rebuild yet
  rpc, snap, idx, epoch, planned,            \* the pass under way
  pcache, table, cachedEpoch,                \* what the last pass left
  raced          \* ghost: an input changed where the fingerprints do not see it

worldVars == <<routeObj, frontObj, targetRev, policyRev, admitted, lastRev>>
passVars == <<rpc, snap, idx, epoch, planned>>
keptVars == <<pcache, table, cachedEpoch>>
rebuildVars == <<worldVars, event, passVars, keptVars, raced>>

-----------------------------------------------------------------------------
(* What a route compiles to. *)

\* The Gateways the shared pool serves: a Gateway that is cut over is left out.
Owned(fronts) == {g \in Fronts : fronts[g].rev > 0 /\ fronts[g].cut = "no"}

\* The partitions of a route: the listeners of its served parents that admit it.
BindingsOf(route, spec, fronts, adm) ==
  IF route \in adm
  THEN UNION {fronts[spec.parents[i]].spec.keys :
                i \in {j \in DOMAIN spec.parents : spec.parents[j] \in Owned(fronts)}}
  ELSE {}

\* The client certificate of the first parent that has one; {}: no parent has.
ClientCert(spec, fronts) ==
  LET having == {i \in DOMAIN spec.parents : /\ spec.parents[i] \in Owned(fronts)
                                            /\ fronts[spec.parents[i]].spec.cert = "cert"}
      first == {i \in having : \A j \in having : i <= j}
  IN {<<spec.parents[i], fronts[spec.parents[i]].rev>> : i \in first}

\* The versions of what a route names, in order and as often as it names them.
VersionsOf(obj, targets) == [i \in DOMAIN obj.spec.targets |-> targets[obj.spec.targets[i]]]

\* What a route installs in each of its partitions.
Entry(route, obj, index, targets) ==
  [route |-> route, rev |-> obj.rev, rules |-> obj.spec.rules,
   targets |-> VersionsOf(obj, targets),
   policies |-> index.policies,
   mandates |-> Owned(index.fronts) \cap Range(obj.spec.parents),
   cert |-> ClientCert(obj.spec, index.fronts)]

\* The routes bound to a partition.
Members(key, routes, index) ==
  {r \in RouteNames : routes[r].rev > 0 /\ key \in BindingsOf(r, routes[r].spec, index.fronts, index.admitted)}

LiveKeys(routes, index) ==
  UNION {BindingsOf(r, routes[r].spec, index.fronts, index.admitted) : r \in {q \in RouteNames : routes[q].rev > 0}}

\* A rule without a usable match installs nothing.
Installs(obj) == obj.spec.rules # "none"

\* The router of one partition.
Compile(key, routes, index, targets) ==
  {Entry(r, routes[r], index, targets) : r \in {m \in Members(key, routes, index) : Installs(routes[m])}}

\* A builder that was given a broken entry fails as a whole.
Breaks(keys, routes, index) ==
  \E k \in keys, r \in RouteNames : r \in Members(k, routes, index) /\ routes[r].spec.rules = "broken"

-----------------------------------------------------------------------------
(* Fingerprints.  A fingerprint is a sum of hashes; it is the bag of the   *)
(* revisions that were hashed, so that different bags are different sums.  *)

\* route_fingerprint: the route's own version, and that of each target it names,
\* once for every time it names it.
FingerprintItems(obj, targets) == <<obj.rev>> \o VersionsOf(obj, targets)

\* Mutant: the contributions are XORed, so two equal ones cancel.
FoldXor(items) == [v \in 0..MaxRev |-> Cardinality({x \in items : x[3] = v}) % 2]

\* wrapping_add: how often each revision was added.
Fold(items) == [v \in 0..MaxRev |-> Cardinality({x \in items : x[3] = v})]

RouteSum(key, routes, index, targets) ==
  Fold(UNION {LET it == FingerprintItems(routes[r], targets)
              IN {<<r, i, it[i]>> : i \in DOMAIN it} : r \in Members(key, routes, index)})

\* store_epoch: the change tokens of the objects of a store.  A cut-over is a status
\* condition and moves no token.
StoreEpoch(objs) == [x \in DOMAIN objs |-> objs[x].rev]

\* compute_global_epoch: the policies and the Gateways, each under its tag.
EpochNow == [policies |-> policyRev, fronts |-> StoreEpoch(frontObj)]

\* The ownership, the policy indexes, the client certificates and the effective listeners.
IndexNow == [policies |-> policyRev, fronts |-> frontObj, admitted |-> admitted]

-----------------------------------------------------------------------------
(* Events of the watches. *)

\* A write that the epoch folds, between the index reads and the epoch.
Racing == rpc = "indexed"

\* A store event; `far`: a change that the fingerprints miss.
Written(far) ==
  /\ event' = "yes"
  /\ raced' = IF far THEN "now" ELSE raced
  /\ UNCHANGED <<passVars, keptVars>>

NextRev == lastRev < MaxRev /\ lastRev' = lastRev + 1

EditRoute(r, spec) ==
  /\ NextRev
  /\ routeObj' = [routeObj EXCEPT ![r] = [rev |-> lastRev + 1, spec |-> spec]]
  /\ Written(FALSE) /\ UNCHANGED <<frontObj, targetRev, policyRev, admitted>>

DeleteRoute(r) ==
  /\ NextRev /\ routeObj[r].rev > 0
  /\ routeObj' = [routeObj EXCEPT ![r].rev = 0]
  /\ Written(FALSE) /\ UNCHANGED <<frontObj, targetRev, policyRev, admitted>>

\* A target is created between its fingerprint and its translation: should it be deleted
\* again, its absence has the fingerprint it had.
EditTarget(t) ==
  /\ NextRev
  /\ \E v \in {0, lastRev + 1} \ {targetRev[t]} : targetRev' = [targetRev EXCEPT ![t] = v]
  /\ Written(rpc = "planned" /\ targetRev[t] = 0) /\ UNCHANGED <<routeObj, frontObj, policyRev, admitted>>

EditPolicies ==
  /\ NextRev /\ policyRev' = lastRev + 1
  /\ Written(Racing) /\ UNCHANGED <<routeObj, frontObj, targetRev, admitted>>

\* A new generation: the DedicatedProxyReady condition of the old one no longer counts.
EditFront(g, spec) ==
  /\ NextRev
  /\ frontObj' = [frontObj EXCEPT ![g] = [rev |-> lastRev + 1, spec |-> spec, cut |-> "no"]]
  /\ Written(Racing) /\ UNCHANGED <<routeObj, targetRev, policyRev, admitted>>

\* The operator writes DedicatedProxyReady: a status write.  It reaches the partitions of
\* another Gateway when a route has both as parents.
CutOver(g) ==
  /\ NextRev /\ frontObj[g].cut = "no"
  /\ frontObj' = [frontObj EXCEPT ![g].cut = "yes"]
  /\ Written(\E r \in RouteNames : g \in Range(routeObj[r].spec.parents) /\ Len(routeObj[r].spec.parents) > 1)
  /\ UNCHANGED <<routeObj, targetRev, policyRev, admitted>>

\* A namespace is relabelled: the listeners admit the route, or no longer do.
Relabel(r) ==
  /\ NextRev
  /\ admitted' = IF r \in admitted THEN admitted \ {r} ELSE admitted \cup {r}
  /\ Written(FALSE) /\ UNCHANGED <<routeObj, frontObj, targetRev, policyRev>>

-----------------------------------------------------------------------------
(* The pass. *)

NotRead == <<>>

\* A rebuild begins, after the debounce of an event or on a tick of the resync interval:
\* the routes are read once.
StartPass ==
  /\ rpc = "idle"
  /\ event' = "no" /\ rpc' = "started" /\ snap' = routeObj
  /\ UNCHANGED <<worldVars, idx, epoch, planned, keptVars, raced>>

\* The indexes are built from the live stores.
BuildIndexes ==
  /\ rpc = "started" /\ rpc' = "indexed"
  /\ idx' = IndexNow
  /\ UNCHANGED <<worldVars, event, snap, epoch, planned, keptVars, raced>>

\* compute_global_epoch, after the indexes and from the live stores again.
ComputeEpoch ==
  /\ rpc = "indexed" /\ rpc' = "epoch"
  /\ epoch' = EpochNow
  /\ UNCHANGED <<worldVars, event, snap, idx, planned, keptVars, raced>>

PlannedFor(key) == [sum |-> RouteSum(key, snap, idx, targetRev), epoch |-> epoch]

\* The cache answers only under an equal fingerprint.
Cached(key, fp) == key \in DOMAIN pcache /\ pcache[key].fp = fp

\* gateway_partition::plan: fingerprint every live partition, and find the dirty ones.
Plan ==
  /\ rpc = "epoch" /\ rpc' = "planned"
  /\ planned' = LET fps == [k \in LiveKeys(snap, idx) |-> PlannedFor(k)]
                IN [fps |-> fps, dirty |-> {k \in DOMAIN fps : ~Cached(k, fps[k])}]
  /\ UNCHANGED <<worldVars, event, snap, idx, epoch, keptVars, raced>>

\* The routes of the dirty partitions are translated, reading their targets again; the
\* clean ones are spliced from the cache; a dirty one that installed nothing is dropped.
Assembled ==
  LET fresh == [k \in planned.dirty |-> Compile(k, snap, idx, targetRev)]
      kept == {k \in DOMAIN planned.fps : k \in planned.dirty => fresh[k] # {}}
  IN [k \in kept |-> IF k \in planned.dirty THEN fresh[k] ELSE pcache[k].router]

\* What the cache holds after the pass: retain_only keeps the entry of a live partition
\* whose routes installed nothing this time.
Retained ==
  LET new == Assembled
      stale == (DOMAIN planned.fps \cap DOMAIN pcache) \ DOMAIN new
  IN [k \in DOMAIN new \cup stale |->
        IF k \in DOMAIN new THEN [fp |-> planned.fps[k], router |-> new[k]] ELSE pcache[k]]

\* What the pass has read ends with it.
EndPass ==
  /\ rpc' = "idle" /\ snap' = NotRead /\ idx' = NotRead /\ epoch' = NotRead /\ planned' = NotRead
  /\ UNCHANGED <<worldVars, event>>

PublishTable ==
  /\ rpc = "planned" /\ ~Breaks(planned.dirty, snap, idx)
  /\ table' = Assembled /\ pcache' = Retained /\ cachedEpoch' = epoch
  /\ raced' = CASE raced = "now" -> "cached"
                [] raced = "cached" /\ epoch # cachedEpoch -> "no"
                [] OTHER -> raced
  /\ EndPass

\* The table builder fails: the previous table and the cache stay.
BuildFails ==
  /\ rpc = "planned" /\ Breaks(planned.dirty, snap, idx)
  /\ raced' = IF raced = "now" THEN "cached" ELSE raced
  /\ UNCHANGED keptVars /\ EndPass

-----------------------------------------------------------------------------
RebuildInit ==
  /\ routeObj = [r \in RouteNames |-> [rev |-> FirstRev[r], spec |-> FirstSpec[r]]]
  /\ frontObj = [g \in Fronts |-> [rev |-> FirstRev[g], spec |-> FirstSpec[g], cut |-> "no"]]
  /\ targetRev = [t \in Targets |-> FirstRev[t]] /\ policyRev = FirstRev["policies"]
  /\ admitted = RouteNames
  /\ lastRev = Cardinality(ObjectNames)
  /\ event = "yes" /\ rpc = "idle"
  /\ snap = NotRead /\ idx = NotRead /\ epoch = NotRead /\ planned = NotRead
  /\ pcache = <<>> /\ table = <<>> /\ cachedEpoch = EpochNow /\ raced = "no"

WorldEvent ==
  \/ \E r \in RouteNames, s \in RouteSpecs : EditRoute(r, s)
  \/ \E r \in RouteNames : DeleteRoute(r)
  \/ \E r \in RouteNames : Relabel(r)
  \/ \E t \in Targets : EditTarget(t)
  \/ EditPolicies
  \/ \E g \in Fronts, s \in FrontSpecs : EditFront(g, s)
  \/ \E g \in CutOvers : CutOver(g)

RebuildNext ==
  \/ WorldEvent
  \/ StartPass \/ BuildIndexes \/ ComputeEpoch \/ Plan \/ PublishTable \/ BuildFails

RebuildSpec == RebuildInit /\ [][RebuildNext]_rebuildVars

-----------------------------------------------------------------------------
(* Correctness. *)

\* The table of the stores as they are now, compiled from nothing.
Whole ==
  LET keys == {k \in LiveKeys(routeObj, IndexNow) : Compile(k, routeObj, IndexNow, targetRev) # {}}
  IN [k \in keys |-> Compile(k, routeObj, IndexNow, targetRev)]

WholeBuilds == ~Breaks(LiveKeys(routeObj, IndexNow), routeObj, IndexNow)

AtRest == rpc = "idle" /\ event = "no"

\* Once a rebuild has run for every event, the published table is the one a rebuild from
\* nothing would publish, whatever was reused: a partition keeps its router only while no
\* route bound to it, nothing such a route names, no policy and no Gateway has changed.
\* Not when one of three gaps was hit: a write between the index reads and the epoch, a
\* target created between its fingerprint and its translation, or a cut-over that reaches
\* another Gateway's partitions; then it holds again from the next change of the epoch on.
RebuildFresh == (AtRest /\ raced = "no" /\ WholeBuilds) => table = Whole

\* build_gateway_routes "never serves a partition it hasn't just verified is still
\* correct": at rest the table is the whole table.
NeverStale == (AtRest /\ WholeBuilds) => table = Whole
=============================================================================
