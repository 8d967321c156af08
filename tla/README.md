# Verification of coxswain's control plane

Coxswain is a Kubernetes Gateway API and Ingress controller with its own proxies. A controller watches the API, rebuilds
routing tables, and distributes them over a gRPC discovery stream to shared-pool proxies, to the dedicated proxies of
single Gateways, and through relays. It writes back statuses, above all `Programmed=True`, which promises that every
connected proxy really serves a Gateway. This directory holds TLA+ models of the parts that carry that promise and of
the proxies' own concurrent parts, TLC configurations that check them on small instances, and TLAPS proofs for every
instance.

Every definition is translated from the code and `PROJECT.json` (`map`) names its lines. Its `components` lists every
part of the system, modelled or not, its `hazards` what can go wrong and where.

## 1. Inventory

### The parts, their state and their operations

| part | code | state | operations |
|---|---|---|---|
| rebuild loop | `coxswain-reflector/src/reconciler/proxy.rs`, `status.rs` | watch stores, routing cells (lock-free swaps), rebuild tick | watch event, debounced rebuild, store of each cell, mid-rebuild tick, stamp, trailing tick |
| publish index | `coxswain-core/src/publish_index.rs` | sequence counter, sticky stamp (generation, fingerprint, sequence) per Gateway | `stamp_rebuild`, `current_seq`, `get`, `advance_to` (relay) |
| view cache, materialization | `coxswain-discovery/src/server/view_cache.rs`, `materialize.rs` | one slot per scope, tagged with a tick | `view_for`, build outside the lock, store |
| discovery server | `coxswain-discovery/src/server/stream.rs`, `mod.rs` | per stream: acknowledged and pending world | open, push, `handle_ack`, `handle_nack`, rebuild, close |
| node-id claims | `coxswain-discovery/src/server/identity.rs` | node id -> fingerprint and generation | `claim_node_id`, `release_node_id` |
| node registry | `coxswain-core/src/node_registry.rs` | one row per node: version, target, sequence, bound ports, parent relay | `connect`, `record_ack`, `advance_acked_seq`, `record_target`, `apply_roster`, `evict_children`, `disconnect`, gate queries |
| discovery client | `coxswain-discovery/src/client.rs`, `apply.rs` | resource cache, compiled cells, endpoint choice | dial, stage, self-check, compile, commit, Ack or Nack, repoint |
| incremental apply | `coxswain-discovery/src/apply.rs` | resource cache, endpoint index, route tables, per-port cells | apply a full or a delta, splice or recompile each partition and cell, refuse, reconnect |
| relay tier | `coxswain-discovery/src/relay.rs`, `coxswain-bin/src/roles/relay.rs` | an applied world served again, downstream sequence, roster | re-materialize, advance, roster report, restart |
| relay lifecycle, directives | `coxswain-controller/src/operator/relay_*.rs`, `coxswain-discovery/src/upstream.rs` | a record per namespace, two published sets, retained directive | pass, call, publish, rehydrate, seed and push of directives, repoint, re-bootstrap |
| partitioned rebuild | `coxswain-reflector/src/reconciler/{proxy,route_builder,gateway_partition,cache,global_epoch}.rs` | fingerprints and routers of the last pass, epoch | index reads, epoch, plan, splice or compile, publish |
| lease loop | `coxswain-controller/src/controller/mod.rs` | `LeadershipState`, the flag of the write fence, the leadership watch | attempt, observe, rehydrate, step down |
| work queue | `coxswain-core/src/workqueue.rs` | ready queue, `queued`, `processing`, `dirty`, delayed heap, attempts | `add`, `add_after`, `add_rate_limited`, `get`, `done`, `forget`, `shutdown` |
| status worker | `controller/mod.rs`, `gateway_events.rs` | permits, handlers | key sources, spawn, handler, `DoneGuard` |
| VIP reconciler | `coxswain-controller/src/operator/vip.rs` | the VIP Service of a Gateway, `vip_failures` | the pass every 15 s or when triggered |
| Gateway status decision | `controller/mod.rs`, `gateway_status.rs`, `status_common/addresses.rs` | the Gateway's conditions and addresses | `reconcile_gateway_inner`, pinned patch |
| operator | `coxswain-controller/src/operator/reconciler.rs`, `coxswain-reflector/src/reconciler/dedicated.rs` | finalizer, dedicated resources, conditions of a Gateway, dedicated registry | provision, judge, patch, hand back, delete |
| acceptor, UDP | `coxswain-proxy/src/edge/accept.rs`, `udp.rs` | listener tasks, gauge slots, bound ports; UDP sessions and permits | reconcile, bind, drain, shutdown; receive, set up, pump, idle, abort |
| request path | `coxswain-proxy/src/hooks.rs`, `retry.rs`, `policy/circuit_breaker.rs`, `coxswain-core/.../backend.rs` | context of a request, in-use counters, breakers | pick, connect, retry, break off, record, sweep, release |
| the rest | builders, tables, wire encoding, health, admin, identity, CLI | mostly pure or read-only | see `components` |

### How they interact

One rebuild task writes the cells, the counter, the stamps and the tick without any lock that a reader shares; every
stream task reads tick, counter, cells and stamps in its own order. Streams write the node registry, keyed by node id and
not by session. The registry, the rebuild and a promotion put keys into the work queue; the handlers it feeds read the
watch store, the VIP Service, `vip_failures`, the registry, the stamps and the registry again, then patch the status. The
VIP reconciler owns the Service and tells nobody when it changed. The lease loop gates all writes through one flag.

A Gateway moves between the shared pool and a dedicated proxy by way of its own status: the operator writes
`DedicatedProxyReady`, the rebuild reads it to decide who serves, and the operator reads what the streams credit.
Relays sit between: they apply what a proxy would apply and serve it again, and report their leaves upwards. In a proxy,
what the stream applied becomes the desired listeners of the acceptor, whose bound ports travel back to the gate.

### What is hard

- ordering without locks between rebuild and view builds (`FenceHonest`, `TrailingTickFresh`);
- acknowledgements for a world that has moved on, Nacks, coalesced rebuilds and lost sessions (`streams`);
- a second hop that outlives both ends, with a sequence space that is not its own (`streams`, `relay_stranded`);
- caches that must equal a rebuild from nothing: on the proxy per message (`CellsFollowCache`), in the controller per
  partition while watches write the stores it reads (`RebuildFresh`, `rebuild_stale`);
- sessions of one node id that overlap (`parts`, `sessions_exit`);
- time: a leader that cannot reach the API must stop before another one starts (`StaleLeaderBounded`);
- wake-ups, re-adds during a handler, panics and promotions in the middle of a handler (`workqueue`);
- control loops made of several calls, any of which may fail or be overtaken by an edit: the VIP's delete and create, the
  relay of a namespace, listeners that are unbound and bound again, the move of a Gateway between pool and dedicated
  proxy (`loops`, `relay_pingpong`, `cutover_blackout`);
- six reads of six tasks' state behind one status (`programmed`, `gate_mishap`, `gate_ports`);
- aborts at any point of a request or of a UDP session (`InUseExact`, `SessionsAccounted`).

## 2. Modules

| module | models | uses |
|---|---|---|
| `Publication` | rebuild, publish index, view cache, materialization | |
| `Replica` | abstract: what a stream promises its node | |
| `DiscoveryStream` | one node's stream, both ends, over sessions | instantiates `Replica` |
| `NodeSessions` | claims and registry rows of overlapping sessions | |
| `Leadership` | lease loops of all replicas, in discrete time | |
| `RunAgain` | abstract: what the queue promises | |
| `WorkQueue` | `RateLimitingWorkqueue` | instantiates `RunAgain` |
| `StatusWorker` | the worker, its handlers and its sources of keys | extends `WorkQueue` |
| `VipService` | the VIP reconciler, seen by one Gateway | |
| `ProgrammedGate` | the status of a shared Gateway | extends `VipService` |
| `RelayTier` | controller, a shared or a namespace relay, leaves | |
| `RelayLifecycle` | the control loop of a namespace's relay, directives, leaves that move | |
| `DedicatedCutover` | one Gateway between the pool and a dedicated proxy | |
| `PartitionedRebuild` | the Gateway table, rebuilt in part from live stores | |
| `IncrementalApply` | how a proxy applies a discovery message | |
| `EdgeListeners` | the acceptor and its listener tasks | |
| `UdpSessions` | the sessions of one UDP listener | |
| `RequestPath` | concurrent requests, least-connections counters, breakers | |

The theorems and their proofs are in modules of their own:

| module | theorems on |
|---|---|
| `ProgrammedProofs` | `Publication`, `ProgrammedGate` |
| `DiscoveryStreamProofs` | `DiscoveryStream`, with its refinement of `Replica` |
| `RelayTierProofs` | `RelayTier` |
| `NodeSessionsProofs` | `NodeSessions` |
| `ControllerProofs` | `Leadership`, `DedicatedCutover` |
| `WorkQueueProofs` | `WorkQueue`, with its refinement of `RunAgain`, and `StatusWorker` |
| `ProxyProofs` | `UdpSessions`, `RequestPath`, `EdgeListeners` |
| `TableProofs` | `IncrementalApply`, `PartitionedRebuild` |

The `MC` modules give constants their values and put components side by side that one run can check:

| module | components |
|---|---|
| `MCProgrammed` | `Publication`, `ProgrammedGate` |
| `MCStreams` | `DiscoveryStream`, `RelayTier` |
| `MCWorkQueue` | `WorkQueue` with any caller, `StatusWorker` |
| `MCLoops` | `VipService`, `RelayLifecycle`, `EdgeListeners`, `DedicatedCutover` |
| `MCParts` | `NodeSessions`, `Leadership`, `PartitionedRebuild` (`MCRebuild`), `RequestPath`, `UdpSessions`, `IncrementalApply` |
| `MCProgrammedGate`, `MCNodeSessions`, `MCRelayTier`, `MCRebuild` | one component |

Side by side means: a variable `part`, chosen in the initial state and never changed, says which component takes all the
steps; the others keep their initial state. The reachable states are the disjoint union of those of the components, and
a property of one component is checked exactly as if it ran alone.

Operators described as mutants are plausible bugs of the code next to the definition they change; nothing uses them,
`PROJECT.json` pairs each with the property that notices it.

### State and actions against the code

**Publication.** A cell is, per Gateway, the generation it was built from and a revision that counts watch events, a
history variable the code has not. `RebuildStart` takes the snapshot of generations (proxy.rs:3270), `StoreCell` stores
one cell, `KeepCell` is a table whose build failed and which stays as it was (route_builder.rs:499), `StoreRegistry`
replaces the registry of the dedicated Gateways, with an empty table for each whose build failed (dedicated.rs:110);
`failed` remembers which rebuild failed which table, a history variable too. `MidRebuildNotify` is the tick that comes
with the route statuses before the last cells are stored, `BumpCounter` and `StoreStamps` are the two halves of
`stamp_rebuild`, `NotifyRebuilt` the trailing tick. A task goes through `Wake`, `LookupDenied | LookupHit | LookupMiss`,
`CaptureSeq`, `LoadCell`, `ReadStamp` (namespace scope), `StoreView` and `Done`, each a step of its own, because nothing
in the code makes two of them atomic. The order among the cells is left open on both sides.

**DiscoveryStream.** Server (`acked`, `pending`), wire (`down`, `up`), client cache and registry row. A content maps
keys to values; a version is the content itself, since the code's version is a hash of it. Messages are full or delta
(`FullOf`, `DeltaOf`), staged and checked against the version they claim (`Staged`, `Applies`), and refused as a whole
when the world does not compile (`Bad`). `CloseStream` loses everything on the wire at any moment; the next `OpenStream`
starts from a full snapshot.

**NodeSessions.** A session claims, connects, acknowledges, reports a roster when it is a relay, and exits in three
critical sections: `Release`, `Disconnect`, `EvictChildren`. A roster carries for each leaf a sequence which the leaf
has reached behind a relay (`below`, `LeafApplies`) and perhaps passed since; `RosterReport` stores it in the leaf's
row. A superseded session exits by `ReleaseSuperseded`.

**Leadership.** `pc` is the place in the loop, `since` the time since the last confirmed hold, `spent` the time in the
current attempt or rehydration, `until` the time to the next tick, negative when ticks are owed (`MissedTickBehavior`).
The lease library reads and writes the Lease in two requests (`GetLease`, `PutLease`); an attempt may fail, hang up to
its bound, or fail after its write took effect. Time does not pass while something of the loop is due.

**WorkQueue.** One action per critical section. `notify_one` is called after the lock is released, so it is a step of
its own (`owed` counts callers on their way) and follows tokio's rules for a permit and for a waiter that was enabled.
`get` is `Enable`, `DrainDue`, `HandOut | End | Park`, `Wake`. Delays are time left; `DelayFor` is `base << min(n, 20)`
capped.

**StatusWorker.** An object is its version, a status the version it was computed from. `Rebuild`, `RegistryChanged` and
`Promote` make `todo`, which `AddTodo` adds key by key; `Spawn` needs a permit; a handler enters, passes the write fence,
sends, and lands, finds the object gone, fails or panics; `GuardDropped` ends it in every case.

**VipService.** A pass copies the spec from the lagging store, then does one of: apply without an address, fail to read,
keep the pinned Service, free a stale one, bind a candidate, or have all candidates rejected; then publishes
`vip_failures`. A failed call may or may not have taken effect.

**ProgrammedGate.** The handler is `Start` (Gateway and VIP Service), `Facts` (failure verdict, listener health),
`ReadBound`, `ReadGateStamp`, `ReadAcked`, then `Land` or `Refused`; what it would write under each outcome is computed
where the code computes it. `RebuildWorld` stores a world and its stamp, `NodeApply` applies and acknowledges,
`NodeReport` binds and reports. What `Publication` and `DiscoveryStream` establish is assumed here: an acknowledged
sequence proves the world stamped with it. `EditRoutes` writes or mends a route that does not compile; while there is
one, a rebuild keeps the table of the generation it has (`content`), says so (`kept`, history) and stamps all the same.

**RelayTier.** A controller (`PublishStore`, then the two halves of `stamp_rebuild`, `PublishBump` and `PublishStamp`), a
relay and its leaves; the content of a Gateway is a revision. `UpStep` is the controller's stream: capture of the
sequence, load of the content, read of the stamps (namespace scope), push if the content changed. `RelayStep` stages,
stores cell by cell, and only then advances the downstream counter; `LeafStep` is the relay's stream to a leaf, in the
same order. `ReportRoster` and `FoldRoster` carry the leaves' acknowledgements to the controller's registry. `UpDrop`,
`RelayNack`, `RelayRestart`, `LeafDrop` and `Failover` are the mishaps; a new controller counts in a sequence space of
its own.

**RelayLifecycle.** One namespace. A pass of the leader reads the registry and decides (`PassRead`), makes one call
(`PassCall`, or `CallFails`: an apply or a delete is several requests, and one that fails may have done the part that
matters; `deployed = "stray"` is a Deployment no record knows of), then commits the record and publishes the sets of
provisioned and active relays (`PublishSets`); `CooldownElapses` is the only clock, `Promote` a new leader that
rehydrates its records from the Deployments there are, a stray one included. `RelayMoves` and `ProxyMoves` are the
clients: open a stream, get the seed directive and the snapshot, follow a pushed directive, or repeat one (`Repointed`
is the no-op test). `EditPolicy` changes demand or override; `RelayDrop`, `PodRestart`, `Refresh` (SVID) and `LeafDown`
are the troubles.

**DedicatedCutover.** The Gateway in the API and in the store, its class, its parameters, the rendered resources, pods,
cells, and per plane what is served, credited and listened on. The handler is `TakeKey`, then one of `FinalizeDeleted`,
`NeverOurs`, the hand-back (`ClearStatus`, `AwaitPool`, the two deletes, `RemoveFinalizer`), `RejectParams`, or
provisioning (`AddFinalizer`, `ApplyService`, `ApplyDeployment`, `Judge`, `PatchStatus`). `DeliverObject`, `RebuildCells`,
`VipFollows`, `ApplyView`, `ReportPorts`, `PodReady` and `CollectGarbage` surround it. The stream between rebuild and
proxy is one step here; `DiscoveryStream` justifies that. `EditRoute` breaks a route of this Gateway or of another one:
a failed build keeps the pool's table, which all its Gateways share, and leaves an empty one in the registry (`CellsOf`).

**PartitionedRebuild.** Stored objects are revisions. `WorldEvent` writes a store between any two steps of a pass:
`StartPass` (the snapshots of routes and Gateways), `BuildIndexes`, `ComputeEpoch`, `Plan` (fingerprints against the
cache), `PublishTable` or `BuildFails`. Translating a rule is reduced to what it depends on.

**IncrementalApply.** `ApplyFull`, `ApplyDelta` and `ApplyMismatched` stage a message over the cache, check version,
references and compilation, and either commit with the partitions and cells that `Touched` names, or leave everything
alone. `Reconnect` makes the next message a full one.

**EdgeListeners.** `AcceptorStep` is one pass of the acceptor in its steps (cancel and switch, bind one address after the
other, publish the bound ports, join); every listener task accepts, notices its cancellation (`StopAccepting`) and drains
to the end or to its timeout (`DrainEnds`).

**UdpSessions.** The receive loop (`RepeatDatagram`, `FirstDatagram`, `DroppedDatagram`) and one task per session
(`Establish`, `SetupFails`, `RecvError`, `IdleTick`), which a drain aborts wherever it stands (`UdpDrain`, `Aborted`,
`UdpExit`).

**RequestPath.** `RequestStep` calls the hooks in Pingora's order, with a client abort possible at each await.
`PeerTlsFails` is the call that passes the breaker's gate and ends in `apply_upstream_tls`; `unmade` counts those.
`SweepBreakers` and `OpenElapses` are the registry's sweep and the breakers' clock.

## 3. Runs

All runs finish in less than three minutes on two cores.

| run | checks | bounds, and why they are enough |
|---|---|---|
| `programmed` | `FenceHonest`, `TrailingTickFresh`; `ProgrammedHonest` | a shared cell and the registry, two streams of one scope (each of the three kinds), two rebuilds, one watch event: a rebuild can fall into every gap of a build, a second one can follow it, and two builders race for the cache slot. Streams of different scopes share nothing they write. The one shared cell is a table, so every rebuild may fail to build it (a failure in a cell that no stream of the scope reads is left out). The proofs cover all sizes, deletions included. The gate: a requested address edited to an automatic one or to an unusable one, two generations, one proxy, and one edit of a route before the Gateway's: the table does not compile when the second generation comes |
| `gate_mishap` | `NoFlap`, `Settles` | one generation with a requested address, one mishap at any point: lost Service, broken listener, route that does not compile, failed call, dropped stream, failover |
| `streams` | `BaselineKept`, `CreditHonest`, `KeepsPromise` (refinement of `Replica`), `Converges`; `SharedAckHonest`, `NoBlackout`, `NamespaceSettles` | two keys, one a reference to the other so that worlds can fail to compile, two rebuilds, two sessions: a rebuild during an unacknowledged push, during a Nack, and with a lost session. The tier: two cells, two rebuilds with edits of one Gateway each, one leaf, one mishap; two Gateways behind a namespace relay, so that one can advance the other's sequence |
| `parts` | `ClaimsExact`, `RowsAccounted`, `DirectRowEndsByOwnExit`; `StaleLeaderBounded`; `RebuildFresh`; `InUseExact`, `ErrorsBacked`, `BudgetUntilStale`; `SessionsAccounted`, `NeverEvictsAnother`; `CellsFollowCache`, `DeltaAsGoodAsFull` | three sessions of a relay and a leaf under two identities (an old session, its successor, and a relay whose roster names the same leaf); TTL 6 and renewal 2, the smallest instance in which three renewals fit the TTL, two replicas; two routes on two Gateways, one of which may be cut over, and three writes; two requests, two endpoints, one retry; two UDP clients, two sessions, five datagrams; three partitions in two tables, two cells, one endpoint, messages that differ from the cache in up to two keys |
| `workqueue` | `QueueShape`, `NoLostWakeup`, `Guarantees` (refinement of `RunAgain`), `QueueServes` (`KeysServed`, for one of two keys the queue does not tell apart); `ChangeNotLost`, `WorkerOwnsProcessing`, `StatusSettles` | two keys, delays 0 and 1, backoff up to 3, two delayed entries, one caller on its way to notify; one Gateway and one permit under the worker, two changes, promotions and demotions without bound |
| `loops` | `VipSettles`, `StaysProvisioned`; `DirectivesSound`, `RelayDrains`, `RelaySettles`; `ListenersAccounted`, `ListenersSettle`; `DedicatedHonest`, `CutoverRests` | VIP: nine specs (seven kinds of requested addresses on one port, two of them on two ports), three generations, two mishaps: a repin, a repin during a repin, and two failures in between. Relay: one leaf, thresholds 1 and 2, two edits, one trouble, one failover. Listeners: one address, two modes, three changes, one failed bind: a port can go and come back while its old task drains. Dedicated: two events, one of which may be a mishap, or an edit of a route that does not compile |
| `sessions_exit` | `LiveSessionHasRow`, violated | three sessions, no relay |
| `gate_ports` | `PortsProgrammed`, violated | a second listener is added |
| `rebuild_stale` | `NeverStale`, violated | as in `parts`, two writes |
| `relay_stranded` | `StampsReached`, violated | a shared relay, one Gateway, no mishap |
| `relay_pingpong` | `LeavesSettle`, violated | one leaf, one lost stream, no edit |
| `cutover_blackout` | `HandoffBridged`, violated | one edit, no mishap |

Symmetry is used in `programmed` and `sessions_exit`, which check safety only. `CHECK_DEADLOCK FALSE` is set where the
bounds on sessions, writes or events end every behaviour.

### What the passing runs say

- *A captured sequence proves content, as far as it could be built.* Whatever the interleaving of stores and loads, and
  for stamps assigned later too, `captured >= stamp.seq` implies the stamped revision is in every cell of the view, but
  for a table that the stamping rebuild failed to build and an entry of the registry whose table failed. A later failure
  takes nothing away that an earlier rebuild proved of a shared table.
- *No stranded gate.* A stream that wakes on the trailing tick of a rebuild gets a view with its sequence or a newer one,
  also from the cache. With `Converges`, a node is credited although the last rebuild changed nothing.
- *The stream is an atomic replica.* Only whole, compilable worlds are served; the credited sequence is of a world the
  client committed in this session; the stale-Ack arm of `handle_ack` is not reachable.
- *A second hop keeps the fence.* Through a shared relay a leaf's acknowledgement proves the content as long as one
  controller leads; a namespace relay reaches every stamp in the end, and by then honestly, also across a failover;
  no leaf is blanked by a relay that restarts.
- *What is reused is what would be rebuilt.* Tables and cells of a proxy equal those compiled from the cached world, and a
  delta is accepted exactly when the full snapshot would be. The controller's table equals one built from nothing unless
  one of three named gaps was hit (section 4).
- *A leader is stale for a bounded time.* At most `StaleBound` = max(TTL - Renew + 2 Renew - 1, rehydration + Renew,
  startup + 2 Renew) after its last hold. The first term exceeds the TTL as soon as Renew > 1 unit, see below.
- *The queue loses nothing.* A key added before it is taken runs once, one added while it runs runs once more, none runs
  twice at a time; keys stuck by a panic do not exist.
- *Loops come to rest.* VIPs, the relay of a namespace, the listeners of a proxy and the plane of a Gateway reach what
  was asked for last. Three of these have an exception, which the property names: leaves settle unless the relay replays
  a stale directive (`relay_pingpong`), a relay is reclaimed unless an apply that failed half-way left its Deployment
  behind, a Gateway settles unless resources were left behind (section 4). A VIP Service that is right is not touched
  again.
- *Make before break.* Leaves are directed only at a relay that is deployed and tracked, and a leaf that has read its
  stream to the end stands where the last directive put it, also when calls fail half-way or the leader changes.
- *The registry leaks in one way only.* A row outlives its session only if a later claim superseded that session, and
  no row carries a sequence that no client under its node id has applied, be it over a stream of its own or behind a
  relay that reported it.
- *What a proxy says of its listeners is true.* Ports reported as bound have a live listener, and its gauges count its
  tasks.
- *`Programmed` is proven when first written, keeps an address, is not taken back within a generation, and settles*; for a
  dedicated Gateway it is first found while a dedicated proxy serves the generation. Both with one exception: where the
  table failed to build, the proof is of the stamp and the listeners, and the routes are those of the last table that
  compiled, or none (section 4).
- *A breaker's errors have a cause.* Each is of an attempt that failed or was abandoned, or of a call that its gate let
  through and that ended before it was made because the upstream TLS could not be set up.
- *Aborts leak nothing.* Neither a request nor a UDP session loses a counter, a permit or an entry wherever it is cut.

### Fairness

- `DiscoveryStream`: weak fairness of the running rebuild's ticks, of both ends' tasks and of redialling. The runtime
  schedules every task and `Supervisor::run` redials for ever (client.rs:540). Starting a rebuild and losing a session
  are not fair.
- `RelayTier`: the same for both hops, the reporter and the fold. `MCStreams` checks both modules under less: some step of
  the rebuild or of the tier, and some step of the stream, is taken while there is one.
- `RelayLifecycle`: weak fairness of the pass, which an interval repeats, of the cooldown, and of the clients, which
  redial.
- `DedicatedCutover`: the handler runs (its requeues are timers), and the surroundings (watches, rebuild, VIP pass,
  streams, kubelet) take some step while there is one: one condition for all, since each of them comes to an end.
- `EdgeListeners`: the acceptor and every listener task are scheduled and a drain's timer fires. No peer is obliged to
  close.
- `WorkQueue`: weak fairness of `get`, of its consumer, of callers that released the lock, and of time.
- `StatusWorker`: in addition strong fairness of `Spawn`, of each handler, of each add, and of `Land`. A semaphore and a
  lock are granted in order, and an API that is asked again and again takes a write at last. `StatusSettles` assumes a
  replica that goes on leading and handlers that stop panicking or dropping writes.
- `VipService`: weak fairness of the watch, of the cloud's assignment, and of the pass, which an interval repeats
  (vip.rs:70-94) whether triggered or not.
- `ProgrammedGate`: weak fairness of watches, rebuilds that change something, the VIP pass, the handler (a requeue is a
  timer) and of the proxies' connecting, applying and reporting.

## 4. Where code and comments disagree

Checked by a run:

- **`sessions_exit`** (stream.rs:632): `release_node_id` and `disconnect` are two critical sections. A session that
  claims and connects between them loses its row. The comment at stream.rs:426-432 explains the claim check by the need
  not to delete the new session's live row.
- **`gate_ports`** (mod.rs:1501): the bind half waits for the ports of the live VIP Service, which may still be those of
  the previous generation. `Programmed=True` is written for a generation whose new listener nobody listens on. The
  comment at mod.rs:1479 gives avoiding just this as the reason for the wait.

- **`rebuild_stale`** (proxy.rs:3379): the epoch is hashed from the live stores after the indexes were read from them. A
  policy, Secret or Gateway written in between is in the epoch and not in the routers cached under it, and the rebuild
  the event triggers finds the partition clean. route_builder.rs:353 says a partition is never served that has not
  "just [been] verified".
- **`relay_stranded`** (apply.rs:313): a relay of the shared pool advances its downstream sequence only with a message,
  and a message is sent only for new content. A stream that wakes in the middle of a rebuild sends the new content under
  the old sequence, and nothing follows. discovery-protocol.md:105 promises that a leaf acknowledges the stamp.
- **`relay_pingpong`** (stream.rs:782): a directive is sent only when seed and target differ. A relay whose upstream
  stream breaks while it becomes active is sent none, goes on replaying the old one to its leaves, and the controller
  directs them back: they change sides for ever.
- **`cutover_blackout`** (dedicated.rs:72): a Gateway is in the dedicated registry only while `DedicatedProxyReady=True`
  names its current generation. A spec edit makes it stale, the proxy is sent the empty world, and nothing else serves
  until the pool does or the operator has written the condition again. reconciler.rs:117 and :1033 say that the dedicated
  proxy keeps bridging traffic.

Also stated in the modules as the code or its documentation states them, and violated. Each was checked on the component
alone, under its own specification; unless the table says otherwise the constants have the values of the
configuration that checks the component:

| property | violated with | what happens |
|---|---|---|
| `Publication!MetaHonest` | `SharedCells = {}`, `Tables = {}`, `MaxRev = 2`, one task of any scope | materialize.rs:190 loads the registry, :222 the stamps: a namespace view can carry a new `publish_seq` over the old entry, and a relay advances to it |
| `Publication!StampNamesConfig` | the same with `MaxRev = 3` | a Gateway deleted and re-created between two rebuilds keeps its predecessor's stamp (publish_index.rs:94) |
| `Publication!StampNamesConfig` | as in `programmed` | the build of the table fails, and the rebuild stamps the new generation over the old table (proxy.rs:3746) |
| `NodeSessions!EveryRowHasSession` | | a superseded session connects or folds a roster after its successor left; its exit skips the cleanup (server/mod.rs:434) |
| `NodeSessions!CreditIsOwn` | | a late Ack of a superseded session raises its successor's row (node_registry.rs:593) |
| `Leadership!FencedBeforeTtl` | | an error just before the deadline, then an attempt that hangs: leading past the TTL (mod.rs:879) |
| `Leadership!RenewsInTime` | `Startup = 9`, `MaxBehind = 4` | the startup rehydration has no bound (mod.rs:499) |
| `Leadership!FenceFollowsWatch` | | shutdown leaves the fence's flag set (mod.rs:593) |
| `StatusWorker!BoundedWork` | | every trigger of a key that requeues itself starts another chain (workqueue.rs:241, against proxy.rs:3185) |
| `VipService!FailureDefinitive` | the one requested address `ip1`, `MaxGen = 1`, `MaxFaults = 1` | a timeout or a 500 counts as a permanent rejection (vip.rs:496) |
| `ProgrammedGate!NegativeIsReal` | specs with the one address `bad` and the one address `ip1`, `MaxGen = 2`, `MaxFaults = 0` | `vip_failures` carries no generation (mod.rs:1415) |
| `ProgrammedGate!NoPatchChurn` | the one requested address `ip1`, `MaxGen = 1`, `MaxFaults = 0` | a held `Programmed` always looks stale and is patched again (gateway_status.rs:284, :399) |
| `ProgrammedGate!ContentProgrammed` | as in `programmed` | one route of any Gateway that does not compile keeps the whole table as it was (route_builder.rs:506); a generation edited meanwhile is stamped, acknowledged and found `Programmed` while no proxy has its routes (mod.rs:1482 "every connected node must have Ack'd a snapshot containing this Gateway's current generation") |
| `RelayTier!LeafAckHonest` | `Tiers = {"namespace"}`, `MaxMishaps = 0` | the stamps are read after the registry (`MetaHonest`), and a relay advances all its leaves to the highest stamp it sees: one acknowledges its Gateway's stamp over the content before (materialize.rs:222); it is overwritten by the next message |
| `RelayTier!LeafAckHonest` | `Tiers = {"shared"}`, `MaxMishaps = 1` | after a failover the relay repeats its roster to the new controller, whose sequences restarted: an acknowledgement of the old sequence space passes for a stamp of the new one (publish_index.rs:139) |
| `RelayLifecycle!DrainCompletes` | | an apply that fails after the Deployment leaves it without a record, and the loop deletes only what it has a record of: it stays until a failover rehydrates it (relay_converge.rs:91 "a failed I/O changed nothing", shared_install.rs:179) |
| `RequestPath!AttemptsWithinBudget` | | the trigger of an earlier response retry is not cleared, so that a later error is retried past `attempts` (retry.rs:91, against docs/src/operations/retries.md:16). What does hold is `BudgetUntilStale`: every try past the budget is a repeat on a reused connection or follows such a trigger |
| `RequestPath!ErrorsFromAttempts` | | a CA or client certificate that does not parse ends the call behind the breaker's gate with the address set (hooks.rs:582), and `logging` records an error of an endpoint that was never dialled (hooks.rs:1036-1038: a call on which "no real upstream attempt was made" is not recorded) |
| `EdgeListeners!SlotsReturnToZero` | | at a shutdown a slot is taken from a state it was not counted in: one series ends above zero and the other below (docs/src/reference/observability.md:66) |
| `DedicatedCutover!NothingLeftBehind` | `ClassNames = {"a", "b"}`, `MaxCutEvents = 2`, `MaxCutMishaps = 0` | resources are named after the class: after a change of `gatewayClassName` the hand-back deletes under the new name, and the old proxy stays connected with the empty world and holds `Programmed` back (reconciler.rs:1049, against :1048 "never re-leaking the proxy") |
| `DedicatedCutover!TeardownCovered` | the same | a `parametersRef` taken from the class bumps no generation, so that the old `Programmed=True` passes for the pool's, and the dedicated proxy is deleted before the pool serves (reconciler.rs:1038) |
| `DedicatedCutover!FailedBuildKeepsTable` | | every rebuild of a dedicated Gateway starts from empty cells and ignores that the build failed (dedicated.rs:118): one route that does not compile takes all routes of the Gateway from its proxy, under a new stamp (route_builder.rs:735 "leaves the previous snapshot in place") |

Met while reading, and not the subject of a property:

- A route that does not compile when a controller starts keeps its first table from being published, and with it the
  readiness of the controller, until the route is mended (proxy.rs:3162); `Settles` exempts this.

- Two further gaps in the partitioned rebuild, which `RebuildFresh` names: a target absent when the plan is made, created
  before the translation and deleted again; and a cut-over, which is a status condition while the epoch folds uid and
  generation only (dedicated.rs:274).
- The finalizer is removed by an unpinned patch decided from the store: after a flip of the class it can leave
  `DedicatedProxyReady=True` at the current generation without a finalizer; the pool then drops a Gateway that has no
  dedicated proxy until its next generation.
- A class `parametersRef` without a namespace means dedicated to the status writer (controller/mod.rs:2364) and shared to
  the operator (params.rs:81): neither writes the Gateway's status.
- A delete of a relay that fails after the Deployment went leaves the record Draining; if demand returns before the retry,
  the record waits for a readiness that nothing will bring about, and no apply is made while the demand lasts
  (relay_autoscaler.rs:357-366).
- Listener isolation drops a hostname for all ports and parentRefs of a route (bindings.rs:248).

## 5. Proofs

Proved by TLAPS for every value of the constants that satisfies the named assumptions:

| theorem | statement |
|---|---|
| `ProgrammedProofs!TypeCorrect` | `Spec => []TypeOK` (`Publication`) |
| `ProgrammedProofs!FenceCorrect` | `Spec => []FenceHonest` |
| `ProgrammedProofs!TrailingTickCorrect` | `Spec => []TrailingTickFresh` |
| `ProgrammedProofs!ProgrammedMeansIt` | `GateSpec => []ProgrammedHonest` |
| `ProgrammedProofs!ProgrammedNeverFlaps` | `GateSpec => NoFlap` (an action property) |
| `DiscoveryStreamProofs!StreamTypes` | `Spec => []TypeOK` (`DiscoveryStream`) |
| `DiscoveryStreamProofs!BaselineCorrect` | `Spec => []BaselineKept` |
| `DiscoveryStreamProofs!CreditCorrect` | `Spec => []CreditHonest` |
| `DiscoveryStreamProofs!StreamImplementsReplica` | `Spec => KeepsPromise`: the stream implements `Replica` |
| `RelayTierProofs!RelayTypes` | `RelaySpec => []RelayTypeOK` |
| `RelayTierProofs!LeafNeverBlanked` | `RelaySpec => NoBlackout` (an action property) |
| `RelayTierProofs!SharedTierFenced` | `RelaySpec => []SharedAckHonest` |
| `NodeSessionsProofs!SessionTypesHold` | `SessionsSpec => []SessionsTypeOK` |
| `NodeSessionsProofs!ClaimsNeitherStolenNorLeaked` | `SessionsSpec => []ClaimsExact` |
| `NodeSessionsProofs!DirectRowsAreSafe` | `SessionsSpec => DirectRowEndsByOwnExit` (an action property) |
| `NodeSessionsProofs!RowsNeverMadeUp` | `SessionsSpec => []RowsAccounted` |
| `ControllerProofs!TypeCorrect` | `LeaderSpec => []LeaderTypeOK` |
| `ControllerProofs!StaleLeaderCorrect` | `LeaderSpec => []StaleLeaderBounded` |
| `ControllerProofs!CutTypes` | `CutSpec => []CutTypeOK` |
| `ControllerProofs!LifeTypes` | `LifeSpec => []LifeTypeOK` |
| `ControllerProofs!DirectivesCorrect` | `LifeSpec => []DirectivesSound` |
| `ControllerProofs!VipTypes` | `VipSpec => []VipTypeOK` |
| `ControllerProofs!RightServiceLeftAlone` | `VipSpec => StaysProvisioned` (an action property) |
| `ControllerProofs!OperatorProgramsServed` | `CutSpec => DedicatedHonest` (an action property) |
| `WorkQueueProofs!QueueShapeCorrect` | `QueueSpec => []QueueShape` |
| `WorkQueueProofs!WakeupCorrect` | `QueueSpec => []NoLostWakeup` |
| `WorkQueueProofs!GuaranteesCorrect` | `QueueSpec => Guarantees`: the queue implements `RunAgain` |
| `WorkQueueProofs!WorkerLosesNoChange` | `WorkerSpec => []ChangeNotLost` |
| `WorkQueueProofs!OneHandlerPerKey` | `WorkerSpec => []ProcessingOwned` |
| `WorkQueueProofs!WorkerPartOwns` | `PartSpec => []WorkerOwnsProcessing` (queue and worker as the run composes them) |
| `ProxyProofs!UdpTypes`, `RequestTypes` | `UdpSpec => []UdpTypeOK`, `ReqSpec => []ReqTypeOK` |
| `ProxyProofs!UdpSessionsAccounted` | `UdpSpec => []SessionsAccounted` |
| `ProxyProofs!UdpEvictsOwn` | `UdpSpec => NeverEvictsAnother` (an action property) |
| `ProxyProofs!CountersExact` | `ReqSpec => []InUseExact` |
| `ProxyProofs!BreakerErrorsBacked` | `ReqSpec => []ErrorsBacked` |
| `ProxyProofs!BudgetCorrect` | `ReqSpec => []BudgetUntilStale` |
| `ProxyProofs!BoundPortsCorrect` | `EdgeSpec => []BoundPortsTrue` |
| `ProxyProofs!ListenerSlotsExact` | `EdgeSpec => [](EdgeTypeOK /\ SlotsConserved)` |
| `ProxyProofs!ListenersReportedTruly` | `EdgeSpec => []ListenersAccounted` |
| `TableProofs!CacheAndCellsAgree` | `ApplySpec => []CellsFollowCache` |
| `TableProofs!DeltaEquivalentToFull` | `ApplySpec => []DeltaAsGoodAsFull` |
| `TableProofs!PartitionsStayFresh` | `RebuildSpec => []RebuildFresh` |

Hardly any of these invariants is inductive as it stands. What had to be added, and why:

*Fence.* `FenceHonest` speaks of finished views only. `FenceInv` adds: nothing published is ahead of
the watch store (`StoreAhead`); a cell the running rebuild has stored is as new as its snapshot, and all are once the
counter is bumped (`StoredCovers`); no stamp is above the
counter or newer than the cells (`StampsCovered`); and a view under construction, of which some cells are not loaded yet,
is sound because what it will load carries every stamp its captured sequence covers (`ViewsSound`). The last one is
where capturing before loading is needed. A table the running rebuild failed to build is exempt by its entry in `failed`
under the sequence about to be bumped, and that entry is never taken out, so the exemption is there when the stamp is
written; an entry of an earlier sequence exempts nothing of a later stamp.

*Trailing tick.* `TrailInv` relates the tick a task woke on to the sequence it captured, for tasks in every phase and for
every cache slot; `TicksPast` says that ticks and slots never run ahead of the watch.

*Gate.* The handler decides from six reads and writes later, so `GateInv` states what each of them is still worth: the
copies of the Gateway lag behind it (`CopiesLag`); an acknowledgement of the latest sequence proves the last rebuild's
world, or one that was kept because the build failed (`RowsHonest`, `HasGen`); a handler whose copy is fresh has decided
something that may be written over the status there is now (`HandlerSound` with `Writable`), which is what the pinned
patch relies on; and a proxy that reaches the stamp the handler holds has applied the generation it decides on, whatever
was rebuilt meanwhile (`StampProves`). `NoFlap` then follows from `Writable` for `Land`; all other actions leave the
status alone or start a new generation.

*Stream.* `StreamInv`: between sessions nothing of the last one is left (`ClosedShape`); a session waits for a reply or
the client is on its target (`OpenShape`); the server's baseline is the client's cache unless an Ack of the next world
is on the wire (`BaselineHeld`); and whatever is on the wire is about the pending view (`WireShape`). Applying a delta to
the world it was made from gives the world it was made for, so every step of the stream is an offer, a commit or a
forgotten session of `Replica`, or a stutter.

*Relay tier.* `TierOrdered` orders the copies of the world along both hops: leaf, view on its way to the leaf, relay,
snapshot on its way to the relay, controller; no step reverses the order, hence `NoBlackout`. `TierFresh` attaches to
each copy the sequence it is labelled with: the copy has everything stamped up to that sequence, and, between the bump
and the stamps, also what is about to be stamped. It is stated for a shared relay under one controller, because
`LeafAckHonest` is false without either condition (section 4). A namespace relay advances to the highest stamp it sees:
that such a maximum exists is proved from well-foundedness of the naturals.

*Sessions.* `ClaimInv`: generations of claims grow and no two sessions share one, and a session that was granted a claim
knows its node and generation. For `RowsAccounted`, `RowInv` adds that a session deletes its direct row before it evicts
its children, and that a session which skipped the cleanup found a newer claim, so that it is not the newest of its node
id and never will be again. A credit is real because the sequence of a row was an acknowledgement of a session under that
node id or was reported by a relay of a leaf that had reached it, and what a client has applied only grows, on
either side.

*Leadership.* `LoopsKnow` states for each place in the loop how old the hold can be and how it relates to the next tick;
it is inductive per replica, since replicas share only the Lease, of which no more than its type is used.

*Cut-over.* `CutInv`: the store lags behind the object and a generation has one class (`StoreLags`); the stamp is that
of the published cells (`StampOfCells`); and a dedicated proxy that is credited serves the stamped generation, or has
the empty table of a failed build (`CreditServes`). The operator compares its copy with the stamp, which is why one
class per generation is needed. `CutTyped` adds to the types that a proxy is Ready only where its Deployment is.

*Relay life.* `LifeInv`: `Tracked` relates the record, the Deployment, the relay's stream and the two published sets at
every place of a pass (outside the gap between the call and the publication the sets are those of the record; a stray
Deployment has no record and no stream); `LeavesFollow` says that the last directive in a leaf's channel is the last one
sent to it, and that a relay replays only what it has read, so a leaf that has read to the end stands there. An earlier
form of the model let a failed call change nothing, as the comment in relay_converge.rs has it. `Tracked` had to state
why that is so, apply.rs gives no reason, and the model now has the calls that fail half-way and `DrainCompletes` its
counterexample.

*VIP.* `StaysProvisioned` is proved from the types alone: `Resting` includes what the running pass has still to say. The
proof splits on what the spec asks for (an automatic address, a usable one, only rejected ones) and shows of each step
of the pass that it agrees with it.

*Work queue and worker.* `Shape` adds the types to `QueueShape`; with `NoLostWakeup` it is inductive: a caller either
leaves the consumer nothing to do or owes it a notification. Every step of the queue is then
a step of `RunAgain` or a stutter. `WorkerInv` adds that a key is in processing exactly while it has a handler or the
worker holds it, and that a handler about to write a version that has passed will run again (`NoStaleHandler`); this is
what makes a write that lands late harmless. `WorkerPartOwns` carries the invariant over to the composition of
`MCWorkQueue`, in which the steps of the queue alone leave the worker's variables as they are.

*Proxy.* `UdpInv` adds that the listener exits after its last task. `ReqInv` counts the requests that hold an endpoint,
those that may still be recorded against a breaker, those among them that were never made (`unmade`) included
(`Chargeable`), and the tries of each context (`CtxOK`). The proof corrected a property: `BudgetUntilStale` once
exempted only requests whose present trigger is a response, and with a budget of two or more a connect retry in between
overwrites the trigger; it now bounds the tries of every request. `EdgeInv`: before a shutdown the tokens in `active`
are exactly the live ones (`TokensOwned`), and a pass binds only free addresses and keeps the modes it read
(`PassKept`).

*Apply.* `ApplyInv`: reverse index, tables and cells are functions of the committed world. The step shows that a
partition or cell that is not recompiled depends on nothing the message changed.

*Rebuild.* `RebuildInv` says of every cache entry that there were routes, indexes and targets it was made of (`Backed`),
which the stores have moved on from only forwards: a revision that is still there stands for the same object, none has
become another's, epochs never come back (`PastRoutes`, `PastTargets`, `PastIndex`, `EpochsInOrder`). So an equal sum
means equal members, revisions and targets (`SumCovers`), an equal epoch equal policies and Gateways, and the router is
what compiling now would give (`RouterStands`). `Faithful` is what the three gaps break; the proof needs each of the
marks the ghost `raced` makes, and shows that forgetting them at the next epoch is sound because no entry of the old
epoch can match again. It does not need the multiplicities in the sum: a XOR fails because it can cancel to nothing.

Assumptions are those the modules name. They exclude no configuration the code accepts: bounds are naturals, limits
(sessions, connections, permits, retries of a request, generations) at least one, marks for "absent" are not values
(`DedicatedAssumption`, `TablesAssumption`, `ScopeAssumption`, the `NoneAssumption`s, `MarkAssumption`,
`NoClaimAssumption`, `HolderAssumption` ...), sets of requests are finite, given functions have their types
(`SubscribedAssumption`, `ServesAssumption`, `ThresholdsAssumption`, `CapacityAssumption`, `AddressAssumption`,
`LeafGatewayAssumption`, `FormsAssumption`, `SpecsAssumption`, `RebuildAssumption`). Five say something of the program:
`LeaseAssumption` (three renewals fit the TTL, as `ControllerConfig::new` demands), `BadAssumption` (the empty world
compiles), `CutoverAssumption` (the pool is not a class, and there is one), `ObjectsAssumption` (no two objects start
with one revision, as an API server numbers them) and `ShiftAssumption` (2^0 .. 2^20 are naturals, which the provers
know nothing of). TLC evaluates each of them in the run of its module.

Only model-checked is all liveness: `Converges`, `NamespaceSettles`, `Settles`, `QueueServes`, `StatusSettles`,
`VipSettles`, `RelayDrains`, `RelaySettles`, `ListenersSettle` and `CutoverRests`. Fairness and ENABLED are out of the
prover's reach. Every invariant and every other action property of the passing runs is stated by a theorem.

## 6. Not modelled

- Generated Gateway API types, the end-to-end harness, and the tests inside the source files, which together are more than
  half of the repository's lines.
- What a rule, a filter, an Ingress annotation or a backend reference is translated to (`gateway_api/`, `ingress/`), what
  manifests are rendered, how resources are encoded on the wire: large pure conversions without state, order or
  concurrency. The models keep what such a result depends on, not what it is. For the same reason a map of the code that
  covers a large share of its lines is out of reach: most of the lines are of this kind.
- Routing tables and host and path precedence; listener merge and allocation of internal ports; health registry; rebuild
  debounce; leader label; external auth and JWKS; rate limiter.
- Bootstrap, SVIDs and certificates, of which only the denial in `LookupDenied` and the refresh in `RelayLifecycle`
  appear.
- Admin API, command line, metrics: read-only or plumbing.
- In modelled parts: the trust bundle copy, identity ServiceAccount, static addresses and settled-negative listeners of a
  dedicated Gateway; the number of a relay's replicas; TLS termination and passthrough of one connection; weights of a
  backend group; the repoint of the shared pool, which is that of a namespace with another resolver.

Abstractions worth knowing: a version hash is collision-free; the tasks of one process are scheduled promptly in
`Leadership`; one Gateway in `VipService`, `ProgrammedGate` and `DedicatedCutover`, so allocation of internal ports
between Gateways is not covered; components that are checked side by side do not interact, and where one relies on
another (the gate on publication and stream, the cut-over and the relay on the stream) it assumes what that one's
properties say.

## 7. Plan

1. Proofs: `MetaHonest` under the conditions in which it holds, from which the honest part of `LeafAckHonest` for a
   namespace relay would follow. `TeardownCovered` has no such condition yet: it is violated without edits of the
   class, too.
2. Rebuild debounce and leader label; health registry with the supervisor's readiness; the JWKS cache over failed fetches.
3. Port allocation over several Gateways with the fallback to the store; listener merge, host and path precedence as
   operators against a reference definition.
4. A gate over two planes: `ProgrammedGate` with a relay in front of its proxy.
