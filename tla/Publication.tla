---------------------------- MODULE Publication ----------------------------
(***************************************************************************)
(* How the controller publishes a routing world and how discovery streams  *)
(* read it.                                                                *)
(*                                                                         *)
(* One reflector task rebuilds: it stores the routing cells one after the  *)
(* other, bumps the publish counter, replaces the stamp map and ticks the  *)
(* rebuild watch.  Any number of stream tasks build views meanwhile: each  *)
(* reads the tick, looks in the view cache, and on a miss captures the     *)
(* counter, loads the cells one by one outside the lock and stores the     *)
(* view in its scope's slot.  No lock covers both sides: the order of the  *)
(* stores and loads is all that makes the `Programmed` ack gate sound.     *)
(*                                                                         *)
(* The content of a cell is abstracted to the version of each Gateway as   *)
(* of the moment the cell was built: its metadata.generation (0: not in    *)
(* the cell) and, as a history the code does not have, its revision, which *)
(* counts the Gateway's watch events and is not reset by a re-creation.    *)
(* The order of the stores among the cells, and of the loads, is left      *)
(* open: nothing here depends on it.                                       *)
(*                                                                         *)
(* A route that does not compile fails the build of its table.  The        *)
(* rebuild goes on, bumps, stamps and ticks; the shared tables keep what   *)
(* they held, a dedicated Gateway's entry is stored with an empty table.   *)
(***************************************************************************)
EXTENDS Integers

CONSTANTS
  Gateways,      \* Gateway object keys
  SharedCells,   \* ingress, gateway, tls, client_certs, listener_status, L4 tables
  Tables,        \* those of them whose build may fail: the L7 tables
  Dedicated,     \* the dedicated-Gateway registry cell
  Tasks,         \* discovery stream tasks, each builds one view at a time
  Subscriptions, \* the ways the streams may subscribe: a scope for each of them
  MaxRev,        \* bound: watch events of one Gateway
  MaxRebuilds,   \* bound: rebuilds
  Fingerprints   \* values of the listener-status fingerprint

ASSUME DedicatedAssumption == Dedicated \notin SharedCells
ASSUME TablesAssumption == Tables \subseteq SharedCells
ASSUME ScopeAssumption == "SharedPool" \notin Gateways /\ "Namespace" \notin Gateways
ASSUME BoundAssumption == MaxRev \in Nat /\ MaxRebuilds \in Nat

Cells == SharedCells \cup {Dedicated}

\* Subscription scopes: the shared pool, one namespace, or one Gateway.
Scopes == {"SharedPool", "Namespace"} \cup Gateways

ASSUME SubscribedAssumption == Subscriptions \subseteq [Tasks -> Scopes]

VARIABLES
  live,        \* the version of each Gateway in the watch store
  cells,       \* the published cells
  rb,          \* the rebuild task: pc, stamp_gateways snapshot, cells to store
  counter,     \* PublishIndexInner.counter
  stamps,      \* PublishIndexInner.map, seq 0 when the Gateway is absent
  tick,        \* the rebuild watch's generation
  slots,       \* the view cache: one (generation, view) slot per scope
  cached,      \* the scopes whose slot is filled
  pc,          \* where each stream task is in its view_for call
  call,        \* its arguments: the scope it subscribed to and the tick it read
  view,        \* the view it builds or holds
  todo,        \* the cells it has still to load
  metaTodo,    \* the Gateways whose stamp it has still to look up
  settledTick, \* history: the tick that ended the last completed rebuild
  failed       \* history: the failed table builds, each with the sequence its rebuild bumps to

pubVars == <<live, cells, rb, counter, stamps, tick, settledTick, failed>>
taskVars == <<pc, call, view, todo, metaTodo>>
cacheVars == <<slots, cached>>
vars == <<pubVars, cacheVars, taskVars>>

Versions == [gen : Nat, rev : Nat]
NoVersion == [gen |-> 0, rev |-> 0]

Worlds == [Gateways -> Versions]
NoWorld == [g \in Gateways |-> NoVersion]

\* A registry entry whose table was not built: it stands for its generation and has none
\* of its routes.
Blank(v) == v.gen > 0 /\ v.rev = 0

\* A materialized view: the captured sequence, what each cell held when it was
\* loaded, and the GatewayMeta.publish_seq of each Gateway (Namespace scope).
Views == [seq : Nat, content : [Cells -> Worlds], meta : [Gateways -> Nat]]
NoView == [seq |-> 0, content |-> [c \in Cells |-> NoWorld], meta |-> [g \in Gateways |-> 0]]

\* A PublishStamp; rev is history, the revision it was first assigned for.
Stamps == [gen : Nat, fp : Fingerprints \cup {0}, seq : Nat, rev : Nat]
NoStamp == [gen |-> 0, fp |-> 0, seq |-> 0, rev |-> 0]

NoSlot == [gen |-> 0, view |-> NoView]

TypeOK ==
  /\ live \in Worlds
  /\ cells \in [Cells -> Worlds]
  /\ rb \in [pc : {"idle", "early", "late", "stamp", "notify"}, snap : Worlds,
             todo : SUBSET Cells]
  /\ counter \in Nat
  /\ stamps \in [Gateways -> Stamps]
  /\ tick \in Nat
  /\ slots \in [Scopes -> [gen : Nat, view : Views]]
  /\ cached \subseteq Scopes
  /\ pc \in [Tasks -> {"idle", "lookup", "capture", "build", "have"}]
  /\ call \in [Tasks -> [scope : Scopes, gen : Nat]]
  /\ view \in [Tasks -> Views]
  /\ todo \in [Tasks -> SUBSET Cells]
  /\ metaTodo \in [Tasks -> SUBSET Gateways]
  /\ settledTick \in Nat
  /\ failed \subseteq Tables \X Nat

Init ==
  /\ live = NoWorld
  /\ cells = [c \in Cells |-> NoWorld]
  /\ rb = [pc |-> "idle", snap |-> NoWorld, todo |-> {}]
  /\ counter = 0
  /\ stamps = [g \in Gateways |-> NoStamp]
  /\ tick = 0
  /\ slots = [s \in Scopes |-> NoSlot]
  /\ cached = {}
  /\ pc = [t \in Tasks |-> "idle"]
  /\ \E sub \in Subscriptions : call = [t \in Tasks |-> [scope |-> sub[t], gen |-> 0]]
  /\ view = [t \in Tasks |-> NoView]
  /\ todo = [t \in Tasks |-> {}]
  /\ metaTodo = [t \in Tasks |-> {}]
  /\ settledTick = 0
  /\ failed = {}

-----------------------------------------------------------------------------
(* The watch store and the rebuild task *)

\* A watch event: the Gateway is created or its spec changes, which counts its
\* generation up, or it is deleted; a re-created Gateway counts from 1 again.
WatchEvent(g, gen) ==
  /\ live[g].rev < MaxRev
  /\ live' = [live EXCEPT ![g] = [gen |-> gen, rev |-> live[g].rev + 1]]
  /\ UNCHANGED <<cells, rb, counter, stamps, tick, settledTick, failed, cacheVars, taskVars>>

\* The loop wakes on the trigger or on the resync tick; the generations that
\* will be stamped are read before any cell is built.
RebuildStart ==
  /\ rb.pc = "idle"
  /\ counter < MaxRebuilds
  /\ rb' = [pc |-> "early", snap |-> live, todo |-> Cells]
  /\ UNCHANGED <<live, cells, counter, stamps, tick, settledTick, failed, cacheVars, taskVars>>

\* A rebuild that has not yet stored cell c.
Storing(c) ==
  /\ rb.pc \in {"early", "late"}
  /\ c \in rb.todo
  /\ rb' = [rb EXCEPT !.todo = @ \ {c}]
  /\ UNCHANGED <<live, counter, stamps, tick, settledTick, cacheVars, taskVars>>

\* A shared cell is built from the store as it is now, and stored.
StoreCell(c) ==
  /\ Storing(c)
  /\ cells' = [cells EXCEPT ![c] = live]
  /\ UNCHANGED failed

\* The table does not compile: the previous one stays.
KeepCell(c) ==
  /\ Storing(c)
  /\ failed' = failed \cup {<<c, counter + 1>>}
  /\ UNCHANGED cells

\* The registry of the dedicated Gateways is replaced as a whole; those in bad have a
\* route that does not compile and get an entry without a table.
StoreRegistry(bad) ==
  /\ Storing(Dedicated)
  /\ cells' = [cells EXCEPT ![Dedicated] =
                 [g \in Gateways |-> IF g \in bad THEN [gen |-> live[g].gen, rev |-> 0] ELSE live[g]]]
  /\ UNCHANGED failed

\* route_status.store_and_notify, half way through: streams wake early.
MidRebuildNotify ==
  /\ rb.pc = "early"
  /\ tick' = tick + 1
  /\ rb' = [rb EXCEPT !.pc = "late"]
  /\ UNCHANGED <<live, cells, counter, stamps, settledTick, failed, cacheVars, taskVars>>

\* stamp_rebuild, first half: the publication fence.
BumpCounter ==
  /\ rb.pc = "late"
  /\ rb.todo = {}
  /\ counter' = counter + 1
  /\ rb' = [rb EXCEPT !.pc = "stamp"]
  /\ UNCHANGED <<live, cells, stamps, tick, settledTick, failed, cacheVars, taskVars>>

\* The stamp of one Gateway: sticky per (generation, fingerprint).
StampOf(g, fp) ==
  IF rb.snap[g].gen = 0 THEN NoStamp
  ELSE IF stamps[g].seq > 0 /\ stamps[g].gen = rb.snap[g].gen /\ stamps[g].fp = fp
       THEN stamps[g]
       ELSE [gen |-> rb.snap[g].gen, fp |-> fp, seq |-> counter, rev |-> rb.snap[g].rev]

\* stamp_rebuild, second half: the map is replaced.
StoreStamps ==
  /\ rb.pc = "stamp"
  /\ \E fp \in [Gateways -> Fingerprints] :
       stamps' = [g \in Gateways |-> StampOf(g, fp[g])]
  /\ rb' = [rb EXCEPT !.pc = "notify"]
  /\ UNCHANGED <<live, cells, counter, tick, settledTick, failed, cacheVars, taskVars>>

\* notify_rebuilt: the trailing tick.
NotifyRebuilt ==
  /\ rb.pc = "notify"
  /\ tick' = tick + 1
  /\ settledTick' = tick + 1
  /\ rb' = [rb EXCEPT !.pc = "idle"]
  /\ UNCHANGED <<live, cells, counter, stamps, failed, cacheVars, taskVars>>

-----------------------------------------------------------------------------
(* The stream tasks *)

\* The cells a scope's view is made from.
Needed(s) == IF s = "SharedPool" THEN SharedCells ELSE {Dedicated}

\* Fail closed: a Gateway that is not cut over, or a namespace without one.
EmptyWorld(s, content) ==
  \/ s \in Gateways /\ content[Dedicated][s].gen = 0
  \/ s = "Namespace" /\ \A g \in Gateways : content[Dedicated][g].gen = 0

\* The stream reads the rebuild tick (on open, on an Ack, on a change).
Wake(t) ==
  /\ pc[t] = "idle"
  /\ call' = [call EXCEPT ![t] = [scope |-> call[t].scope, gen |-> tick]]
  /\ pc' = [pc EXCEPT ![t] = "lookup"]
  /\ UNCHANGED <<pubVars, cacheVars, view, todo, metaTodo>>

\* Mutant: any cached view will do.
HitAny(t) == call[t].scope \in cached

\* A cached view for this or a newer tick.
Hit(t) == call[t].scope \in cached /\ slots[call[t].scope].gen >= call[t].gen

\* gateway_svid_denied: a peer whose SVID does not match the Gateway's entry is
\* handed an empty world that is not cached.
LookupDenied(t) ==
  /\ pc[t] = "lookup"
  /\ call[t].scope \in Gateways
  /\ cells[Dedicated][call[t].scope].gen > 0
  /\ view' = [view EXCEPT ![t] = NoView]
  /\ pc' = [pc EXCEPT ![t] = "have"]
  /\ UNCHANGED <<pubVars, cacheVars, call, todo, metaTodo>>

\* cached_view, fast path.
LookupHit(t) ==
  /\ pc[t] = "lookup"
  /\ Hit(t)
  /\ view' = [view EXCEPT ![t] = slots[call[t].scope].view]
  /\ pc' = [pc EXCEPT ![t] = "have"]
  /\ UNCHANGED <<pubVars, cacheVars, call, todo, metaTodo>>

\* cached_view, miss: the lock is dropped before the build.
LookupMiss(t) ==
  /\ pc[t] = "lookup"
  /\ ~Hit(t)
  /\ pc' = [pc EXCEPT ![t] = "capture"]
  /\ UNCHANGED <<pubVars, cacheVars, call, view, todo, metaTodo>>

\* materialize: the sequence is captured before any cell is loaded.
CaptureSeq(t) ==
  /\ pc[t] = "capture"
  /\ view' = [view EXCEPT ![t] = [seq |-> counter, content |-> NoView.content, meta |-> NoView.meta]]
  /\ todo' = [todo EXCEPT ![t] = Needed(call[t].scope)]
  /\ metaTodo' = [metaTodo EXCEPT ![t] = {}]
  /\ pc' = [pc EXCEPT ![t] = "build"]
  /\ UNCHANGED <<pubVars, cacheVars, call>>

\* View v with world w loaded for cell c; with publish_seq n for Gateway g.
WithCell(v, c, w) == [seq |-> v.seq, content |-> [v.content EXCEPT ![c] = w], meta |-> v.meta]
WithMeta(v, g, n) == [seq |-> v.seq, content |-> v.content, meta |-> [v.meta EXCEPT ![g] = n]]

\* One cell is loaded; loading the registry for a namespace fixes the set of
\* Gateways whose stamps build_namespace_view then looks up one by one.
LoadCell(t, c) ==
  /\ pc[t] = "build"
  /\ c \in todo[t]
  /\ view' = [view EXCEPT ![t] = WithCell(view[t], c, cells[c])]
  /\ todo' = [todo EXCEPT ![t] = @ \ {c}]
  /\ metaTodo' = [metaTodo EXCEPT ![t] =
                    IF call[t].scope = "Namespace" THEN {g \in Gateways : cells[c][g].gen > 0} ELSE {}]
  /\ UNCHANGED <<pubVars, cacheVars, pc, call>>

\* source.publish.get(key), after the registry was loaded.
ReadStamp(t, g) ==
  /\ pc[t] = "build"
  /\ todo[t] = {}
  /\ g \in metaTodo[t]
  /\ view' = [view EXCEPT ![t] = WithMeta(view[t], g, stamps[g].seq)]
  /\ metaTodo' = [metaTodo EXCEPT ![t] = @ \ {g}]
  /\ UNCHANGED <<pubVars, cacheVars, pc, call, todo>>

\* Mutant: the sequence is captured once the cells are loaded.
BuiltLateCapture(t) ==
  IF EmptyWorld(call[t].scope, view[t].content) THEN NoView
  ELSE [seq |-> counter, content |-> view[t].content, meta |-> view[t].meta]

\* What the build returns: an empty world carries sequence 0.
Built(t) == IF EmptyWorld(call[t].scope, view[t].content) THEN NoView
            ELSE view[t]

\* The build is over: prefer a same-or-newer cached view, else cache this one.
StoreView(t) ==
  /\ pc[t] = "build"
  /\ todo[t] = {}
  /\ metaTodo[t] = {}
  /\ IF Hit(t)
     THEN /\ view' = [view EXCEPT ![t] = slots[call[t].scope].view]
          /\ UNCHANGED cacheVars
     ELSE /\ view' = [view EXCEPT ![t] = Built(t)]
          /\ slots' = [slots EXCEPT ![call[t].scope] =
                         [gen |-> call[t].gen, view |-> Built(t)]]
          /\ cached' = cached \cup {call[t].scope}
  /\ pc' = [pc EXCEPT ![t] = "have"]
  /\ UNCHANGED <<pubVars, call, todo, metaTodo>>

\* The stream has used the view (record_target, push_if_changed).
Done(t) ==
  /\ pc[t] = "have"
  /\ pc' = [pc EXCEPT ![t] = "idle"]
  /\ view' = [view EXCEPT ![t] = NoView]
  /\ call' = [call EXCEPT ![t] = [scope |-> call[t].scope, gen |-> 0]]
  /\ UNCHANGED <<pubVars, cacheVars, todo, metaTodo>>

StoreStep ==
  \/ \E c \in SharedCells : StoreCell(c)
  \/ \E c \in Tables : KeepCell(c)
  \/ \E bad \in SUBSET {g \in Gateways : live[g].gen > 0} : StoreRegistry(bad)

Rebuild == RebuildStart \/ StoreStep \/ MidRebuildNotify \/ BumpCounter \/ StoreStamps \/ NotifyRebuilt

TaskStep(t) == Wake(t) \/ LookupDenied(t) \/ LookupHit(t) \/ LookupMiss(t) \/ CaptureSeq(t) \/ (\E c \in Cells : LoadCell(t, c))
               \/ (\E g \in Gateways : ReadStamp(t, g)) \/ StoreView(t) \/ Done(t)

Watch == \E g \in Gateways : \E gen \in {0, live[g].gen + 1} : live[g].gen + gen > 0 /\ WatchEvent(g, gen)

Next == Watch \/ Rebuild \/ (\E t \in Tasks : TaskStep(t))

Spec == Init /\ [][Next]_vars

-----------------------------------------------------------------------------
(* Properties *)

\* World w, loaded from cell c, has the revision n of Gateway g that the rebuild with
\* sequence q stamped, unless that very rebuild could not build the cell, or the
\* Gateway's own table could not be built when the cell was last stored.
Shows(c, g, w, q, n) ==
  w[g].rev >= n \/ <<c, q>> \in failed \/ (c = Dedicated /\ Blank(w[g]))

\* What the ack gate infers from a view taken for scope s: a captured sequence
\* at or above a Gateway's stamp proves that every cell the view was made from
\* carries the revision the stamp was assigned for, or a later one, as far as the
\* tables could be built.
Proves(v, s) ==
  \A g \in Gateways, c \in Needed(s) :
    0 < stamps[g].seq /\ stamps[g].seq <= v.seq
      => Shows(c, g, v.content[c], stamps[g].seq, stamps[g].rev)

\* The publication fence (publish_index.rs, materialize.rs): the inference holds
\* for every view a stream holds and for every cached view, at all times, even
\* for stamps written after the view was built; a later rebuild that fails keeps what
\* an earlier one proved of a shared table.
FenceHonest ==
  /\ \A t \in Tasks : pc[t] = "have" => Proves(view[t], call[t].scope)
  /\ \A s \in cached : Proves(slots[s].view, s)

\* The sequence of the last rebuild whose stamps and trailing tick are out.
SettledSeq == IF rb.pc \in {"stamp", "notify"} THEN counter - 1 ELSE counter

\* A view taken for scope s at tick n is not behind the last settled rebuild.
CaughtUp(v, s, n) ==
  settledTick > 0 /\ n >= settledTick /\ ~EmptyWorld(s, v.content) => v.seq >= SettledSeq

\* The trailing tick (RouteStatusHandle::notify_rebuilt): a stream that woke on
\* the tick ending a rebuild, or later, is never handed a non-empty view that
\* captured an earlier sequence, not even from a cache filled by a stream that
\* woke half way through that rebuild; else a quiet cluster strands the gate.
TrailingTickFresh ==
  \A t \in Tasks : pc[t] = "have" => CaughtUp(view[t], call[t].scope, call[t].gen)

\* discovery-protocol.md, "guarantees a leaf never acks a fresh seq over stale
\* content": the publish_seq a namespace view carries for a Gateway, which a
\* relay re-stamps its leaves' Acks with, is over content at least as new as
\* the stamp it was read from. FAILS: build_namespace_view loads the registry
\* before it reads the stamps, and a rebuild may replace both in between.
MetaHonest ==
  \A t \in Tasks, g \in Gateways :
    pc[t] = "have" /\ call[t].scope = "Namespace" /\ stamps[g].seq > 0
      /\ view[t].meta[g] = stamps[g].seq
      => view[t].content[Dedicated][g].rev >= stamps[g].rev

\* publish_index.rs:10, "`captured >= stamp.seq` proves the built snapshot contains
\* that generation's config": once a rebuild has written its stamps, a held
\* view at or above a Gateway's stamp carries the revision that rebuild saw.
\* Unlike FenceHonest this also speaks of a Gateway deleted and re-created, and of a
\* table that was not built. FAILS: stamp_rebuild keeps the stamp of a predecessor with
\* the same generation and fingerprint, and rebuild() stamps whether or not the tables
\* were built.
StampNamesConfig ==
  \A t \in Tasks, g \in Gateways :
    pc[t] = "have" /\ rb.pc \in {"notify", "idle"} /\ 0 < stamps[g].seq /\ stamps[g].seq <= view[t].seq
      => \A c \in Needed(call[t].scope) : view[t].content[c][g].rev >= rb.snap[g].rev

=============================================================================
