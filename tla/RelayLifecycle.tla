--------------------------- MODULE RelayLifecycle ---------------------------
(***************************************************************************)
(* The relay of one namespace: the leader's control loop that provisions,  *)
(* activates, drains and deletes it, the directives that move the leaves   *)
(* between the controller and the relay, and the leaves that follow them.  *)
(*                                                                         *)
(* One pass of the loop reads the registry, performs one call to the API   *)
(* server and only then commits the record and publishes the two sets: the *)
(* three are steps of their own.  A directive travels on the stream ahead  *)
(* of the snapshot; the relay keeps the last one it was sent and replays   *)
(* it to every leaf that subscribes.  The number of the relay's replicas   *)
(* is left out; what a snapshot carries is RelayTier.                      *)
(***************************************************************************)
EXTENDS Integers, Sequences, FiniteSets

CONSTANTS
  Proxies,         \* the dedicated proxies of the namespace (leaves)
  Thresholds,      \* values of activation_threshold, the leaves worth a relay
  Capacity,        \* messages a stream's outbound channel holds
  MaxEdits,        \* bound: changes of the policy or of the demand
  MaxTroubles,     \* bound: failed calls, lost streams, restarts, SVID refreshes
  MaxLeaderships   \* bound: changes of the leading controller

ASSUME ThresholdsAssumption == Thresholds \subseteq Nat \ {0}
ASSUME CapacityAssumption == Capacity \in Nat /\ Capacity >= 2

VARIABLES
  threshold, \* --relay-min-proxy-replicas of this installation
  mode,      \* demand and enabled_override: auto, on, off, gone (no Gateway left)
  record,    \* RelayRecord: state (or none), and the cooldown clock below_since
  relayPass, \* the control loop: idle, a call to make, the sets to publish
  relaySets, \* published: authz (provisioned_relays), active (active_relays)
  deployed,  \* the relay's Deployment in the API server: no, yes, or stray (left by an
             \* apply that failed after it, no record of it)
  relay,     \* the relay process
  leaf,      \* the leaves' clients and their streams
  folded,    \* the leaves the controller has folded behind the relay
  left       \* what is left of the bounds

lifeVars == <<threshold, mode, record, relayPass, relaySets, deployed, relay, leaf, folded, left>>

Upstreams == {"controller", "relay"}

NoRecord == [state |-> "none", below |-> "no"]
Fresh(state) == [state |-> state, below |-> "no"]
Idle == [pc |-> "idle", act |-> "none", next |-> NoRecord]

\* stream: its upstream half; last: last_upstream of that stream; loaded: a
\* snapshot was applied, so the pod serves; retained: the latest-directive
\* cell; inbox: directives on their way on the upstream stream.
NoRelay == [stream |-> "down", last |-> "none", loaded |-> "no", retained |-> "none",
            inbox |-> <<>>]
Unplugged(r) == [r EXCEPT !.stream = "down", !.last = "none", !.inbox = <<>>]

\* at: the upstream cell; on: where its stream ends; last: the directive this
\* stream was sent; inbox: messages not yet read; applied: a snapshot was read.
Closed(l) == [l EXCEPT !.on = "none", !.last = "none", !.inbox = <<>>, !.applied = "no"]
NewProxy == [at |-> "controller", on |-> "none", last |-> "none", inbox |-> <<>>,
             applied |-> "no"]

LifeTypeOK ==
  /\ threshold \in Thresholds
  /\ mode \in {"auto", "on", "off", "gone"}
  /\ record \in [state : {"none", "Provisioning", "Active", "Draining"},
                 below : {"no", "waiting", "expired"}]
  /\ record.state = "none" => record = NoRecord
  /\ relayPass.pc \in {"idle", "call", "publish"}
  /\ relaySets \in [authz : {"yes", "no"}, active : {"yes", "no"}]
  /\ relaySets.active = "yes" => relaySets.authz = "yes"
  /\ deployed \in {"yes", "no", "stray"}
  /\ relay.stream \in {"down", "open", "synced"}
  /\ relay.stream = "synced" => relay.loaded = "yes"
  /\ deployed # "yes" => relay = NoRelay
  /\ \A p \in Proxies : leaf[p].on \in Upstreams \cup {"none"} /\ leaf[p].at \in Upstreams
  /\ folded \subseteq Proxies

LifeInit ==
  /\ threshold \in Thresholds
  /\ mode = "auto"
  /\ record = NoRecord
  /\ relayPass = Idle
  /\ relaySets = [authz |-> "no", active |-> "no"]
  /\ deployed = "no"
  /\ relay = NoRelay
  /\ leaf = [p \in Proxies |-> NewProxy]
  /\ folded = {}
  /\ left = [edits |-> MaxEdits, troubles |-> MaxTroubles, leaderships |-> MaxLeaderships]

-----------------------------------------------------------------------------
(* What the leader's registry and resolver answer *)

\* resolve_namespace: the relay while it is published active.
Target == IF relaySets.active = "yes" THEN "relay" ELSE "controller"

Direct == {p \in Proxies : leaf[p].on = "controller"}

\* namespace_leaf_count, relay_ready, relay_subscriber_count.
Signal == Cardinality(Direct \cup folded)
Ready == relay.stream = "synced"
Subscribers == IF relay.stream = "down" THEN 0 ELSE Cardinality(folded)

\* RelayRecord::observe: the cooldown clock.
Observed(rec) ==
  [rec EXCEPT !.below = IF Signal >= threshold THEN "no"
                        ELSE IF @ = "no" THEN "waiting" ELSE @]

\* A namespace without a Gateway is not even looked at for a new relay.
ShouldActivate ==
  \/ mode = "on" /\ Signal >= 1
  \/ mode = "auto" /\ Signal >= threshold

ShouldDeactivate(rec) ==
  \/ mode \in {"off", "gone"}
  \/ mode = "auto" /\ Signal < threshold /\ rec.below = "expired"

\* Mutant: a relay that is no longer wanted is deleted at once, not drained first.
DecideAbrupt(rec) ==
  CASE rec.state = "none" -> IF ShouldActivate THEN <<"apply", "Provisioning">> ELSE <<"none", "none">>
    [] rec.state # "none" /\ ShouldDeactivate(rec) -> <<"delete", "none">>
    [] OTHER -> IF Ready THEN <<"none", "Active">> ELSE <<"none", rec.state>>

\* should_provision and RelayRecord::decide: the call to make, the next state.
Decide(rec) ==
  CASE rec.state = "none" -> IF ShouldActivate THEN <<"apply", "Provisioning">> ELSE <<"none", "none">>
    [] rec.state = "Provisioning" ->
         IF ShouldDeactivate(rec) THEN <<"delete", "none">>
         ELSE IF Ready THEN <<"none", "Active">> ELSE <<"none", "Provisioning">>
    [] rec.state = "Active" -> IF ShouldDeactivate(rec) THEN <<"none", "Draining">> ELSE <<"none", "Active">>
    [] rec.state = "Draining" ->
         IF ShouldActivate
         THEN IF Ready THEN <<"none", "Active">> ELSE <<"none", "Draining">>
         ELSE IF Subscribers = 0 THEN <<"delete", "none">> ELSE <<"none", "Draining">>

-----------------------------------------------------------------------------
(* The control loop *)

\* The record to store: cleared, new, or moved on with what was observed.
Stored(rec, state) == IF state = "none" THEN NoRecord
                      ELSE IF record.state = "none" THEN Observed(Fresh(state))
                      ELSE [rec EXCEPT !.state = state]

\* Reads the inputs, observes, decides.  Without a call the record is stored at
\* once; with one, only when it succeeded.
PassRead ==
  /\ relayPass.pc = "idle"
  /\ LET rec == Observed(record)
         d == Decide(rec)
         next == Stored(rec, d[2])
     IN IF d[1] = "none"
        THEN /\ record' = next
             /\ relayPass' = [Idle EXCEPT !.pc = "publish"]
        ELSE /\ relayPass' = [pc |-> "call", act |-> d[1], next |-> next]
             /\ UNCHANGED record
  /\ UNCHANGED <<threshold, mode, relaySets, deployed, relay, leaf, folded, left>>

\* The pod is gone, and so are the streams it served.
CutOff ==
  /\ relay' = NoRelay
  /\ leaf' = [p \in Proxies |-> IF leaf[p].on = "relay" THEN Closed(leaf[p]) ELSE leaf[p]]
  /\ folded' = {}

\* apply_relay_at: server-side apply of what may exist already.
Provision ==
  /\ relayPass.pc = "call" /\ relayPass.act = "apply"
  /\ deployed' = "yes"
  /\ record' = relayPass.next
  /\ relayPass' = [Idle EXCEPT !.pc = "publish"]
  /\ UNCHANGED <<threshold, mode, relaySets, relay, leaf, folded, left>>

Delete ==
  /\ relayPass.pc = "call" /\ relayPass.act = "delete"
  /\ deployed' = "no" /\ CutOff
  /\ record' = NoRecord
  /\ relayPass' = [Idle EXCEPT !.pc = "publish"]
  /\ UNCHANGED <<threshold, mode, relaySets, left>>

Trouble == left.troubles > 0 /\ left' = [left EXCEPT !.troubles = @ - 1]

\* Converge::Retry: nothing is stored, not even the observation. The resources are
\* applied and deleted one after the other, so that the Deployment may be there, or
\* gone, when the call fails.
CallFails ==
  /\ relayPass.pc = "call"
  /\ Trouble
  /\ \/ UNCHANGED <<deployed, relay, leaf, folded>>
     \/ relayPass.act = "apply" /\ deployed' = "stray" /\ UNCHANGED <<relay, leaf, folded>>
     \/ relayPass.act = "delete" /\ deployed' = "no" /\ CutOff
  /\ relayPass' = [Idle EXCEPT !.pc = "publish"]
  /\ UNCHANGED <<threshold, mode, record, relaySets>>

Published(rec) == [authz |-> IF rec.state = "none" THEN "no" ELSE "yes",
                   active |-> IF rec.state = "Active" THEN "yes" ELSE "no"]

PublishSets ==
  /\ relayPass.pc = "publish"
  /\ relaySets' = Published(record)
  /\ relayPass' = Idle
  /\ UNCHANGED <<threshold, mode, record, deployed, relay, leaf, folded, left>>

\* The cooldown (minutes) outlasts every reconnect (seconds): it runs out only
\* when there are too few leaves, not while they are between two streams.
CooldownElapses ==
  /\ Cardinality(Proxies) < threshold
  /\ record.below = "waiting"
  /\ record' = [record EXCEPT !.below = "expired"]
  /\ UNCHANGED <<threshold, mode, relayPass, relaySets, deployed, relay, leaf, folded, left>>

\* rehydrate_provisioned_relays: the Deployment alone says what was there.
Rehydrated == IF deployed = "no" THEN NoRecord ELSE Fresh("Active")

\* A standby leads: its registry is empty and it serves the streams anew.
Promote ==
  /\ left.leaderships > 0
  /\ left' = [left EXCEPT !.leaderships = @ - 1]
  /\ record' = Rehydrated
  /\ relaySets' = Published(Rehydrated)
  /\ deployed' = IF deployed = "no" THEN "no" ELSE "yes"
  /\ relayPass' = Idle
  /\ relay' = Unplugged(relay)
  /\ folded' = {}
  /\ leaf' = [p \in Proxies |-> IF leaf[p].on = "controller" THEN Closed(leaf[p]) ELSE leaf[p]]
  /\ UNCHANGED <<threshold, mode>>

EditPolicy(m) ==
  /\ left.edits > 0 /\ m # mode
  /\ left' = [left EXCEPT !.edits = @ - 1]
  /\ mode' = m
  /\ UNCHANGED <<threshold, record, relayPass, relaySets, deployed, relay, leaf, folded>>

-----------------------------------------------------------------------------
(* The relay's upstream stream *)

\* Mutant: seeded with the best upstream, as if the leaves had followed.
RelaySeedGated == Target

\* seed_or_push_upstream, Namespace scope: the relay's own endpoint, ungated.
RelaySeed == "relay"

RelayOnly == UNCHANGED <<threshold, mode, record, relayPass, relaySets, deployed, left>>

\* The subscribe is authorized by the published set.
RelayConnect ==
  /\ deployed # "no" /\ relay.stream = "down"
  /\ relaySets.authz = "yes"
  /\ relay' = [relay EXCEPT !.stream = "open", !.last = Target,
                 !.inbox = IF Target # RelaySeed THEN <<Target>> ELSE <<>>]
  /\ UNCHANGED <<leaf, folded>> /\ RelayOnly

\* The first snapshot is applied and acknowledged.
RelaySync ==
  /\ relay.stream = "open"
  /\ relay' = [relay EXCEPT !.stream = "synced", !.loaded = "yes"]
  /\ UNCHANGED <<leaf, folded>> /\ RelayOnly

\* A tick of the repoint set on the relay's stream.
RelayPush ==
  /\ relay.stream # "down" /\ relay.last # Target
  /\ Len(relay.inbox) < Capacity
  /\ relay' = [relay EXCEPT !.last = Target, !.inbox = Append(@, Target)]
  /\ UNCHANGED <<leaf, folded>> /\ RelayOnly

\* UpstreamDirectiveHandler::Forward: kept for the leaves, present and later.
RelayRetain ==
  /\ relay.inbox # <<>>
  /\ relay' = [relay EXCEPT !.inbox = Tail(@), !.retained = Head(relay.inbox)]
  /\ UNCHANGED <<leaf, folded>> /\ RelayOnly

\* The roster: the relay's registry replaces its children in the controller's.
FoldLeaves ==
  /\ relay.stream # "down"
  /\ folded # {p \in Proxies : leaf[p].on = "relay"}
  /\ folded' = {p \in Proxies : leaf[p].on = "relay"}
  /\ UNCHANGED <<relay, leaf>> /\ RelayOnly

RelayDrop ==
  /\ relay.stream # "down"
  /\ Trouble
  /\ relay' = Unplugged(relay)
  /\ folded' = {}
  /\ UNCHANGED <<threshold, mode, record, relayPass, relaySets, deployed, leaf>>

PodRestart ==
  /\ deployed # "no" /\ relay # NoRelay
  /\ Trouble
  /\ CutOff
  /\ UNCHANGED <<threshold, mode, record, relayPass, relaySets, deployed>>

-----------------------------------------------------------------------------
(* The leaves *)

LeafOnly == UNCHANGED <<threshold, mode, record, relayPass, relaySets, deployed, relay, folded, left>>

Open(p, up, told, sent) ==
  leaf' = [leaf EXCEPT ![p] = [at |-> leaf[p].at, on |-> up, applied |-> "no", last |-> told,
             inbox |-> IF sent THEN <<told, "snapshot">> ELSE <<"snapshot">>]]

\* LeafServed by the controller: seeded with the controller, then compared with the
\* best upstream.
OpenDirect(p) ==
  /\ leaf[p].on = "none" /\ leaf[p].at = "controller"
  /\ Open(p, "controller", Target, Target # "controller")
  /\ LeafOnly

\* LeafServed by the relay, once its pod is ready: the retained directive is
\* replayed ahead of the snapshot.
OpenBehind(p) ==
  /\ leaf[p].on = "none" /\ leaf[p].at = "relay"
  /\ relay.loaded = "yes"
  /\ Open(p, "relay", relay.retained, relay.retained # "none")
  /\ LeafOnly

\* A tick of the repoint set, or a new directive in the relay's cell.
Forwardable(p) == IF leaf[p].on = "controller" THEN Target ELSE relay.retained
Forward(p) ==
  /\ leaf[p].on # "none" /\ leaf[p].last # Forwardable(p)
  /\ Len(leaf[p].inbox) < Capacity
  /\ leaf' = [leaf EXCEPT ![p].last = Forwardable(p),
                          ![p].inbox = Append(@, Forwardable(p))]
  /\ LeafOnly

\* Mutant: a repoint to where the leaf is breaks the stream too.
RepointedAlways(l, msg) == [Closed(l) EXCEPT !.at = msg]

\* apply_repoint: the upstream the leaf is already on changes nothing; another
\* one is stored and the stream is broken, the rest of it unread.
Repointed(l, msg) == IF msg = l.at THEN [l EXCEPT !.inbox = Tail(@)]
                     ELSE [Closed(l) EXCEPT !.at = msg]

Applied(l) == [l EXCEPT !.inbox = Tail(@), !.applied = "yes"]

Read(p) ==
  /\ leaf[p].inbox # <<>>
  /\ LET msg == Head(leaf[p].inbox) IN
     leaf' = [leaf EXCEPT ![p] = IF msg = "snapshot" THEN Applied(leaf[p]) ELSE Repointed(leaf[p], msg)]
  /\ LeafOnly

\* Dials to a relay that is not there fail until the supervisor pokes the
\* bootstrap loop, which asks the controller for the best upstream.
Rebootstrap(p) ==
  /\ leaf[p].on = "none" /\ leaf[p].at = "relay" /\ relay.loaded = "no"
  /\ leaf' = [leaf EXCEPT ![p].at = Target]
  /\ LeafOnly

\* The scheduled refresh of the SVID does the same on a live stream.
Refresh(p) ==
  /\ Trouble
  /\ leaf' = [leaf EXCEPT ![p] = [Closed(@) EXCEPT !.at = Target]]
  /\ UNCHANGED <<threshold, mode, record, relayPass, relaySets, deployed, relay, folded>>

LeafDown(p) ==
  /\ leaf[p].on # "none"
  /\ Trouble
  /\ leaf' = [leaf EXCEPT ![p] = Closed(@)]
  /\ UNCHANGED <<threshold, mode, record, relayPass, relaySets, deployed, relay, folded>>

-----------------------------------------------------------------------------

PassCall == Provision \/ Delete
RelayMoves == RelayConnect \/ RelaySync \/ RelayPush \/ RelayRetain
ProxyMoves(p) == OpenDirect(p) \/ OpenBehind(p) \/ Forward(p) \/ Read(p) \/ Rebootstrap(p)

LifeNext ==
  \/ PassRead \/ PassCall \/ CallFails \/ PublishSets \/ CooldownElapses
  \/ Promote \/ \E m \in {"auto", "on", "off", "gone"} : EditPolicy(m)
  \/ RelayMoves \/ FoldLeaves \/ RelayDrop \/ PodRestart
  \/ \E p \in Proxies : ProxyMoves(p) \/ Refresh(p) \/ LeafDown(p)

\* The resync interval drives the loop and time passes; the supervisors of the
\* relay and of the leaves reconnect and read.  A pod that never comes up, an
\* API server that always refuses, and endless edits are left out by no
\* fairness on edits and troubles, which are bounded.
LifeFairness ==
  /\ WF_lifeVars(PassRead) /\ WF_lifeVars(PassCall) /\ WF_lifeVars(PublishSets)
  /\ WF_lifeVars(CooldownElapses)
  /\ WF_lifeVars(RelayMoves) /\ WF_lifeVars(FoldLeaves)
  /\ \A p \in Proxies : WF_lifeVars(ProxyMoves(p))

LifeSpec == LifeInit /\ [][LifeNext]_lifeVars /\ LifeFairness

-----------------------------------------------------------------------------
(* Properties *)

LeafServed(p) == leaf[p].on # "none" /\ leaf[p].applied = "yes"

LeavesHome ==
  record = NoRecord /\ \A p \in Proxies : LeafServed(p) /\ leaf[p].on = "controller"

Drained == mode \in {"off", "gone"} => LeavesHome /\ deployed = "no"

\* A relay that is switched off, or whose Gateways are gone, is reclaimed
\* (#652, "the relay's drain wedges"): through failovers, lost streams, failed
\* calls and leaves that subscribe late, the Deployment goes and every leaf
\* ends on a stream of the controller with a snapshot read from it. FAILS: an apply
\* that fails after the Deployment leaves it without a record, and the loop only
\* deletes what it has a record of (relay_converge.rs:91, "a failed I/O changed nothing").
DrainCompletes == <>[]Drained

\* The one way not to: what such an apply left behind.
StrayLeft == LeavesHome /\ deployed = "stray"
DrainUnlessStray == <>[](Drained \/ StrayLeft)

AllServed == \A p \in Proxies : LeafServed(p)

\* Moving between upstreams ends (#658, "the client loops forever and never
\* reads a snapshot" is what the no-op repoint is to prevent): once nothing is
\* edited and nothing fails, every leaf stays on a stream it has read from.
LeavesSettle == <>[]AllServed

\* The one way not to: the relay goes on replaying a directive the controller
\* no longer stands by.
ReplaysStale == relay.retained = "controller" /\ Target = "relay"
SettleUnlessStale == <>[]AllServed \/ <>[]ReplaysStale

\* Make before break (publish_relay_sets, "the make-before-break invariant"): leaves are
\* directed at the relay only while its Deployment is there and its record says so or is
\* about to be published, and a stream of the relay is open only while the published set
\* authorizes it. No failed call, failover or half-done pass opens a gap.
MakeBeforeBreak ==
  /\ relaySets.active = "yes" => deployed = "yes" /\ record.state \in {"Active", "Draining"}
  /\ relay.stream # "down" => deployed = "yes" /\ relaySets.authz = "yes"

\* A leaf that has read its stream to the end serves a snapshot of it and is where the
\* last directive on it said, also when directives overtook each other's effects: none is
\* lost by a break, and the bounded channel takes all that is sent (apply_repoint, #658).
StandsWhereTold(p) ==
  /\ Len(leaf[p].inbox) <= Capacity
  /\ leaf[p].on # "none" /\ leaf[p].inbox = <<>> =>
       leaf[p].applied = "yes" /\ leaf[p].last \in {"none", leaf[p].on}

\* What the directives promise, at both ends.
DirectivesSound == MakeBeforeBreak /\ \A p \in Proxies : StandsWhereTold(p)

=============================================================================
