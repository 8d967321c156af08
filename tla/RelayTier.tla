----------------------------- MODULE RelayTier ------------------------------
(***************************************************************************)
(* The relay tier: a controller, one relay that subscribes to it, and the  *)
(* leaves that subscribe to the relay.                                     *)
(*                                                                         *)
(* A shared relay rebuilds the flat routing cells and re-stamps them with  *)
(* the sequence of the envelope; a namespace relay rebuilds the dedicated  *)
(* registry (one cell) and re-stamps it with the highest publish_seq of    *)
(* the GatewayMeta resources it holds.  A leaf's Ack reaches the relay's   *)
(* registry and rides a RosterReport to the controller, whose `Programmed` *)
(* gate compares it with the Gateway's stamp.  The stream protocol below   *)
(* (deltas, nonces, resync) is DiscoveryStream; here a snapshot is the     *)
(* world it carries, and one is in flight per stream.                      *)
(*                                                                         *)
(* The content of a Gateway is abstracted to a revision (0: not there).    *)
(* The API server outlives every controller, so `world` does too.          *)
(***************************************************************************)
EXTENDS Integers, FiniteSetsExt

CONSTANTS
  RelayGateways,   \* Gateways
  Serves,          \* the Gateways of the shared pool, and of the relay's namespace
  RelayCells,      \* the cells a shared relay stores one after the other
  Leaves,          \* proxies behind the relay
  Tiers,           \* the relay's shape: a subset of {"shared", "namespace"}
  LeafGateway,     \* the Gateway a leaf of a namespace relay subscribes to
  MaxPublishes,    \* bound: rebuilds with edits to publish
  MaxMishaps       \* bound: streams lost, relays restarted, failovers

ASSUME BoundsAssumption == MaxPublishes \in Nat /\ MaxMishaps \in Nat
ASSUME GatewaysAssumption == RelayGateways # {}
ASSUME TiersAssumption == Tiers \subseteq {"shared", "namespace"}
ASSUME ServesAssumption == Serves \in [Tiers -> SUBSET RelayGateways]
ASSUME LeafGatewayAssumption == LeafGateway \in [Leaves -> RelayGateways]

VARIABLES
  tier,     \* which shape the relay has
  world,    \* the revision of each Gateway's content in the leader's cells
  ctrl,     \* the leader's rebuild and publish index: pc, counter, stamps, todo
  feed,     \* the stream controller -> relay: pc, dirty, view, acked baseline
  relay,    \* the relay: cells, cells still to store, publish counter, loaded
  fan,      \* the streams relay -> leaf: pc, dirty, view, acked baseline
  leafHeld, \* what each leaf applied last
  leafRow,  \* last_acked_seq of each leaf in the relay's registry
  report,   \* the roster the reporter sent to the upstream client
  folded,   \* last_acked_seq of each leaf in the controller's registry
  budget    \* what is left of the bounds, and history: has the leader changed

relayVars == <<tier, world, ctrl, feed, relay, fan, leafHeld, leafRow, report, folded, budget>>

Revisions == [RelayGateways -> Nat]
NoRevision == [g \in RelayGateways |-> 0]
NoCells == [c \in RelayCells |-> NoRevision]
NoStamps == [g \in RelayGateways |-> [seq |-> 0, rev |-> 0]]

\* A view on the upstream stream: captured sequence, content, publish_seqs.
NoUpView == [seq |-> 0, content |-> NoRevision, meta |-> NoRevision]
\* A view on a downstream stream, and the baseline of a stream that has none.
NoDownView == [seq |-> 0, content |-> NoCells]
NoBaseline == [content |-> NoRevision, meta |-> NoRevision, known |-> "no"]

DownIdle == [pc |-> "down", dirty |-> "no", todo |-> {}, view |-> NoDownView,
             acked |-> NoCells, known |-> "no"]
UpIdle == [pc |-> "down", dirty |-> "no", view |-> NoUpView, acked |-> NoBaseline]

\* The states of the leader's index, of a stream to the relay, of the relay, and of a
\* stream to a leaf.
YesNo == {"yes", "no"}
Budgets == [publishes : Nat, mishaps : Nat, leader : {"first", "another"}]
CellWorlds == [RelayCells -> Revisions]
Controllers == [pc : {"idle", "stored", "bumped"}, counter : Nat, todo : SUBSET RelayGateways,
                stamps : [RelayGateways -> [seq : Nat, rev : Nat]]]
UpStreams == [pc : {"down", "idle", "load", "meta", "push", "sent", "apply"}, dirty : YesNo,
              view : [seq : Nat, content : Revisions, meta : Revisions],
              acked : [content : Revisions, meta : Revisions, known : YesNo]]
RelayStates == [cells : CellWorlds, todo : SUBSET RelayCells, counter : Nat, loaded : YesNo]
DownStreams == [pc : {"down", "idle", "load", "push", "sent", "applied"}, dirty : YesNo,
                todo : SUBSET RelayCells, view : [seq : Nat, content : CellWorlds],
                acked : CellWorlds, known : YesNo]

RelayTypeOK ==
  /\ tier \in Tiers
  /\ world \in Revisions
  /\ ctrl \in Controllers
  /\ feed \in UpStreams
  /\ relay \in RelayStates
  /\ fan \in [Leaves -> DownStreams]
  /\ leafHeld \in [Leaves -> CellWorlds]
  /\ leafRow \in [Leaves -> Nat] /\ report \in [Leaves -> Nat] /\ folded \in [Leaves -> Nat]
  /\ budget \in Budgets

RelayInit ==
  /\ tier \in Tiers
  /\ world = NoRevision
  /\ ctrl = [pc |-> "idle", counter |-> 0, todo |-> {}, stamps |-> NoStamps]
  /\ feed = UpIdle
  /\ relay = [cells |-> NoCells, todo |-> {}, counter |-> 0, loaded |-> "no"]
  /\ fan = [l \in Leaves |-> DownIdle]
  /\ leafHeld = [l \in Leaves |-> NoCells]
  /\ leafRow = [l \in Leaves |-> 0]
  /\ report = [l \in Leaves |-> 0]
  /\ folded = [l \in Leaves |-> 0]
  /\ budget = [publishes |-> MaxPublishes, mishaps |-> MaxMishaps, leader |-> "first"]

-----------------------------------------------------------------------------
(* The leading controller *)

\* Every stream of the controller hears of a rebuild.
Wake(s) == [s EXCEPT !.dirty = "yes"]

\* A rebuild stores its cells; `changed` Gateways have new content, `edited`
\* ones a new generation whose content is the same, both get a new stamp.  A table that
\* does not compile stays as it is: its Gateways are `edited` then, and a revision is what
\* the cells have, whatever the Gateway asks for.
PublishStore(changed, edited) ==
  /\ ctrl.pc = "idle"
  /\ budget.publishes > 0
  /\ budget' = [budget EXCEPT !.publishes = @ - 1]
  /\ world' = [g \in RelayGateways |-> IF g \in changed THEN world[g] + 1 ELSE world[g]]
  /\ ctrl' = [ctrl EXCEPT !.pc = "stored", !.todo = changed \cup edited]
  /\ feed' = Wake(feed)
  /\ UNCHANGED <<tier, relay, fan, leafHeld, leafRow, report, folded>>

\* stamp_rebuild, the fence.
PublishBump ==
  /\ ctrl.pc = "stored"
  /\ ctrl' = [ctrl EXCEPT !.pc = "bumped", !.counter = @ + 1]
  /\ UNCHANGED <<tier, world, feed, relay, fan, leafHeld, leafRow, report, folded, budget>>

\* stamp_rebuild, the map; then the trailing notification.
PublishStamp ==
  /\ ctrl.pc = "bumped"
  /\ ctrl' = [ctrl EXCEPT !.pc = "idle", !.todo = {}, !.stamps =
       [g \in RelayGateways |-> IF g \in ctrl.todo /\ world[g] > 0
                                THEN [seq |-> ctrl.counter, rev |-> world[g]] ELSE @[g]]]
  /\ feed' = Wake(feed)
  /\ UNCHANGED <<tier, world, relay, fan, leafHeld, leafRow, report, folded, budget>>

\* A stream that ends takes the relay's leaves out of the registry.
UpLost == feed' = UpIdle /\ folded' = [l \in Leaves |-> 0]

\* Another controller leads, one that started after the last edit: its first rebuild
\* stamped the same API objects in a sequence space that began with its process.
Failover ==
  /\ budget.mishaps > 0
  /\ ctrl.pc = "idle" /\ relay.todo = {} /\ feed.pc # "apply"
  /\ ctrl.counter > 0
  /\ ctrl' = [ctrl EXCEPT !.counter = 1, !.stamps =
       [g \in RelayGateways |-> IF world[g] > 0 THEN [seq |-> 1, rev |-> world[g]] ELSE @[g]]]
  /\ UpLost
  /\ budget' = [budget EXCEPT !.mishaps = @ - 1, !.leader = "another"]
  /\ UNCHANGED <<tier, world, relay, fan, leafHeld, leafRow, report>>

-----------------------------------------------------------------------------
(* The upstream stream: the controller's discovery server, the relay's client *)

UpConnect ==
  /\ feed.pc = "down"
  /\ feed' = [UpIdle EXCEPT !.pc = "idle", !.dirty = "yes"]
  /\ UNCHANGED <<tier, world, ctrl, relay, fan, leafHeld, leafRow, report, folded, budget>>

UpDrop ==
  /\ feed.pc \notin {"down", "apply"}
  /\ budget.mishaps > 0
  /\ UpLost
  /\ budget' = [budget EXCEPT !.mishaps = @ - 1]
  /\ UNCHANGED <<tier, world, ctrl, relay, fan, leafHeld, leafRow, report>>

UpOnly == UNCHANGED <<tier, world, ctrl, relay, fan, leafHeld, leafRow, report, folded, budget>>

\* materialize: the sequence, then the cells, then (build_namespace_view) the
\* stamp of every Gateway found there.
UpCapture ==
  /\ feed.pc = "idle" /\ feed.dirty = "yes"
  /\ feed' = [feed EXCEPT !.pc = "load", !.dirty = "no", !.view.seq = ctrl.counter]
  /\ UpOnly

UpLoad ==
  /\ feed.pc = "load"
  /\ feed' = [feed EXCEPT !.pc = IF tier = "namespace" THEN "meta" ELSE "push",
                      !.view.content = world]
  /\ UpOnly

\* Mutant: the GatewayMeta carries no sequence.
UpMetaNone ==
  /\ feed.pc = "meta"
  /\ feed' = [feed EXCEPT !.pc = "push", !.view.meta = NoRevision]
  /\ UpOnly

UpMeta ==
  /\ feed.pc = "meta"
  /\ feed' = [feed EXCEPT !.pc = "push", !.view.meta =
       [g \in RelayGateways |-> IF feed.view.content[g] > 0 THEN ctrl.stamps[g].seq ELSE 0]]
  /\ UpOnly

\* The world the relay acknowledged last is the one just built.
UpUnchanged ==
  /\ feed.acked.known = "yes"
  /\ feed.acked.content = feed.view.content
  /\ feed.acked.meta = feed.view.meta

\* push_if_changed: the content decides, the sequence is not part of it.  An
\* unchanged world only advances the relay's own row, which the gate skips.
UpPush ==
  /\ feed.pc = "push"
  /\ feed' = IF UpUnchanged THEN [feed EXCEPT !.pc = "idle", !.view = NoUpView]
           ELSE [feed EXCEPT !.pc = "sent"]
  /\ UpOnly

-----------------------------------------------------------------------------
(* The relay applies a snapshot *)

\* The sequence the relay re-stamps its downstream world with.
UpstreamSeq == IF tier = "shared" THEN feed.view.seq
               ELSE Max({feed.view.meta[g] : g \in RelayGateways})

\* Mutant: the counter is advanced when the message is staged.
RelayStageEarly ==
  /\ feed.pc = "sent"
  /\ feed' = [feed EXCEPT !.pc = "apply"]
  /\ relay' = [relay EXCEPT !.todo = RelayCells, !.counter = Max({@, UpstreamSeq})]
  /\ UNCHANGED <<tier, world, ctrl, fan, leafHeld, leafRow, report, folded, budget>>

\* The message is staged and self-checked, then committed; a session's first
\* message is a full, so what is committed is the whole world.
RelayStage ==
  /\ feed.pc = "sent"
  /\ feed' = [feed EXCEPT !.pc = "apply"]
  /\ relay' = [relay EXCEPT !.todo = RelayCells]
  /\ UNCHANGED <<tier, world, ctrl, fan, leafHeld, leafRow, report, folded, budget>>

\* A world that does not decode: Nack, last-good kept, the server resyncs.
RelayNack ==
  /\ feed.pc = "sent"
  /\ budget.mishaps > 0
  /\ feed' = [UpIdle EXCEPT !.pc = "idle", !.dirty = "yes"]
  /\ budget' = [budget EXCEPT !.mishaps = @ - 1]
  /\ UNCHANGED <<tier, world, ctrl, relay, fan, leafHeld, leafRow, report, folded>>

\* Flat cells are stored one by one; the dedicated registry is one cell.
RelayStore(cs) ==
  /\ feed.pc = "apply"
  /\ cs \subseteq relay.todo /\ cs # {}
  /\ IF tier = "shared" THEN \E c \in cs : cs = {c} ELSE cs = RelayCells
  /\ relay' = [relay EXCEPT !.todo = @ \ cs, !.cells =
                 [c \in RelayCells |-> IF c \in cs THEN feed.view.content ELSE @[c]]]
  /\ UNCHANGED <<tier, world, ctrl, feed, fan, leafHeld, leafRow, report, folded, budget>>

\* advance_to (never back), then the post-apply signal to the downstream
\* streams; the Ack promotes the baseline and makes the server look again.
RelayCommit ==
  /\ feed.pc = "apply" /\ relay.todo = {}
  /\ relay' = [relay EXCEPT !.counter = Max({@, UpstreamSeq}), !.loaded = "yes"]
  /\ fan' = [l \in Leaves |-> Wake(fan[l])]
  /\ feed' = [UpIdle EXCEPT !.pc = "idle", !.dirty = "yes", !.acked =
              [content |-> feed.view.content, meta |-> feed.view.meta, known |-> "yes"]]
  /\ UNCHANGED <<tier, world, ctrl, leafHeld, leafRow, report, folded, budget>>

\* The relay process is replaced.
RelayRestart ==
  /\ budget.mishaps > 0
  /\ relay' = [cells |-> NoCells, todo |-> {}, counter |-> 0, loaded |-> "no"]
  /\ UpLost
  /\ fan' = [l \in Leaves |-> DownIdle]
  /\ leafRow' = [l \in Leaves |-> 0]
  /\ report' = [l \in Leaves |-> 0]
  /\ budget' = [budget EXCEPT !.mishaps = @ - 1]
  /\ UNCHANGED <<tier, world, ctrl, leafHeld>>

-----------------------------------------------------------------------------
(* The downstream streams: the relay's discovery server, the leaves' clients *)

DownOnly == UNCHANGED <<tier, world, ctrl, feed, relay, report, folded, budget>>

\* Mutant: the relay serves before its first snapshot.
LeafConnectUnready(l) ==
  /\ fan[l].pc = "down"
  /\ fan' = [fan EXCEPT ![l] = [DownIdle EXCEPT !.pc = "idle", !.dirty = "yes"]]
  /\ leafRow' = [leafRow EXCEPT ![l] = 0]
  /\ UNCHANGED leafHeld /\ DownOnly

\* A leaf reaches the relay through its Service, once the pod is ready: the
\* first upstream snapshot was applied.  Its row starts without an Ack.
LeafConnect(l) ==
  /\ fan[l].pc = "down"
  /\ relay.loaded = "yes"
  /\ fan' = [fan EXCEPT ![l] = [DownIdle EXCEPT !.pc = "idle", !.dirty = "yes"]]
  /\ leafRow' = [leafRow EXCEPT ![l] = 0]
  /\ UNCHANGED leafHeld /\ DownOnly

LeafDrop(l) ==
  /\ fan[l].pc # "down"
  /\ budget.mishaps > 0
  /\ fan' = [fan EXCEPT ![l] = DownIdle]
  /\ leafRow' = [leafRow EXCEPT ![l] = 0]
  /\ budget' = [budget EXCEPT !.mishaps = @ - 1]
  /\ UNCHANGED <<tier, world, ctrl, feed, relay, report, folded, leafHeld>>

LeafCapture(l) ==
  /\ fan[l].pc = "idle" /\ fan[l].dirty = "yes"
  /\ fan' = [fan EXCEPT ![l].pc = "load", ![l].dirty = "no", ![l].todo = RelayCells,
                          ![l].view = [seq |-> relay.counter, content |-> NoCells]]
  /\ UNCHANGED <<leafHeld, leafRow>> /\ DownOnly

\* What a leaf's scope shows of a cell.
Visible(l, w) == IF tier = "shared" THEN w
                 ELSE [g \in RelayGateways |-> IF g = LeafGateway[l] THEN w[g] ELSE 0]

LeafLoad(l, cs) ==
  /\ fan[l].pc = "load"
  /\ cs \subseteq fan[l].todo /\ cs # {}
  /\ IF tier = "shared" THEN \E c \in cs : cs = {c} ELSE cs = RelayCells
  /\ fan' = [fan EXCEPT ![l].todo = @ \ cs,
       ![l].pc = IF fan[l].todo = cs THEN "push" ELSE "load",
       ![l].view.content = [c \in RelayCells |->
                              IF c \in cs THEN Visible(l, relay.cells[c]) ELSE @[c]]]
  /\ UNCHANGED <<leafHeld, leafRow>> /\ DownOnly

\* A Gateway without an entry is an empty world at sequence 0.
ViewSeq(l) == IF tier = "namespace" /\ \A c \in RelayCells : fan[l].view.content[c] = NoRevision
              THEN 0 ELSE fan[l].view.seq

\* An unchanged world advances the row without a push.
LeafPush(l) ==
  /\ fan[l].pc = "push"
  /\ IF fan[l].known = "yes" /\ fan[l].acked = fan[l].view.content
     THEN /\ leafRow' = [leafRow EXCEPT ![l] = Max({@, ViewSeq(l)})]
          /\ fan' = [fan EXCEPT ![l].pc = "idle", ![l].view = NoDownView]
     ELSE /\ fan' = [fan EXCEPT ![l].pc = "sent"]
          /\ UNCHANGED leafRow
  /\ UNCHANGED leafHeld /\ DownOnly

LeafApply(l) ==
  /\ fan[l].pc = "sent"
  /\ leafHeld' = [leafHeld EXCEPT ![l] = fan[l].view.content]
  /\ fan' = [fan EXCEPT ![l].pc = "applied"]
  /\ UNCHANGED leafRow /\ DownOnly

\* record_ack, the promoted baseline, and the second look at the world.
LeafAck(l) ==
  /\ fan[l].pc = "applied"
  /\ leafRow' = [leafRow EXCEPT ![l] = Max({@, ViewSeq(l)})]
  /\ fan' = [fan EXCEPT ![l] = [DownIdle EXCEPT !.pc = "idle", !.dirty = "yes",
                                    !.acked = fan[l].view.content, !.known = "yes"]]
  /\ UNCHANGED leafHeld /\ DownOnly

-----------------------------------------------------------------------------
(* The roster *)

\* The debounced reporter republishes the whole downstream registry.
ReportRoster ==
  /\ report # leafRow
  /\ report' = leafRow
  /\ UNCHANGED <<tier, world, ctrl, feed, relay, fan, leafHeld, leafRow, folded, budget>>

\* RosterReport: on (re)connect and on every change; apply_roster replaces the
\* relay's children wholesale.
FoldRoster ==
  /\ feed.pc # "down"
  /\ folded # report
  /\ folded' = report
  /\ UNCHANGED <<tier, world, ctrl, feed, relay, fan, leafHeld, leafRow, report, budget>>

UpStep == UpConnect \/ UpCapture \/ UpLoad \/ UpMeta \/ UpPush
RelayStep == RelayStage \/ (\E cs \in SUBSET RelayCells : RelayStore(cs)) \/ RelayCommit
LeafStep(l) == LeafConnect(l) \/ LeafCapture(l) \/ (\E cs \in SUBSET RelayCells : LeafLoad(l, cs))
               \/ LeafPush(l) \/ LeafApply(l) \/ LeafAck(l)
PublishStep == PublishBump \/ PublishStamp

RelayNext ==
  \/ \E changed, edited \in SUBSET Serves[tier] : PublishStore(changed, edited)
  \/ PublishStep
  \/ Failover
  \/ UpStep \/ UpDrop
  \/ RelayStep \/ RelayNack \/ RelayRestart
  \/ \E l \in Leaves : LeafStep(l) \/ LeafDrop(l)
  \/ ReportRoster \/ FoldRoster

RelaySafety == RelayInit /\ [][RelayNext]_relayVars

\* The tasks run, the supervisor and the leaves reconnect, the reporter and
\* the client forward the roster.  No fairness on edits, losses or failovers.
RelaySpec ==
  /\ RelaySafety
  /\ WF_relayVars(PublishStep) /\ WF_relayVars(UpStep) /\ WF_relayVars(RelayStep)
  /\ \A l \in Leaves : WF_relayVars(LeafStep(l))
  /\ WF_relayVars(ReportRoster) /\ WF_relayVars(FoldRoster)

-----------------------------------------------------------------------------
(* Properties *)

\* The Gateways whose `Programmed` gate reads leaf l's row.
GatedOn(l) == IF tier = "shared" THEN RelayGateways ELSE {LeafGateway[l]}

\* gateway_node_acked over the folded rows.
GateAcked(l, g) == ctrl.stamps[g].seq > 0 /\ folded[l] >= ctrl.stamps[g].seq

\* The fence across the tier (discovery-protocol.md, "a leaf never acks a fresh
\* seq over stale content"; advance_to after the cells are stored): when the
\* gate counts a leaf as converged on a Gateway's stamp, every cell of the leaf
\* carries the content the stamp was assigned for, or newer.
LeafAckHonest ==
  \A l \in Leaves : \A g \in GatedOn(l) :
    GateAcked(l, g) => \A c \in RelayCells : leafHeld[l][c][g] >= ctrl.stamps[g].rev

\* The same for a shared relay, whose envelope sequence was captured before the
\* cells were read: through relay restarts, lost streams and rejected messages, as
\* long as one controller leads.  A relay outlives its controller and advance_to
\* never regresses, so a roster can name a sequence of the controller before.
SharedAckHonest == tier = "shared" /\ budget.leader = "first" => LeafAckHonest

\* A relay never blanks a leaf (last-good, readiness on the first snapshot):
\* a Gateway that the leaf serves does not disappear, in any cell, because a
\* relay restarts or a stream is lost.
NoBlackout ==
  [][\A l \in Leaves, c \in RelayCells, g \in RelayGateways :
       leafHeld'[l][c][g] >= leafHeld[l][c][g]]_relayVars

\* The other half of the sentence ("a leaf acks a seq >= its Gateway's
\* controller stamp"): once the controller stops rebuilding, every leaf's
\* folded Ack reaches the stamps it is gated on, so Programmed is not stranded.
AllReached == \A l \in Leaves : \A g \in GatedOn(l) : ctrl.stamps[g].seq > 0 => GateAcked(l, g)
StampsReached == <>[]AllReached

\* A namespace relay converges (GatewayMeta is a resource, so a new stamp is a
\* new world): the gate opens for every leaf, and by then the leaf holds what
\* the stamp was assigned for, whatever was acknowledged on the way.
NamespaceConverges == tier = "namespace" => <>[](AllReached /\ LeafAckHonest)

=============================================================================
