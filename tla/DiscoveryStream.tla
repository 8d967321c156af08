--------------------------- MODULE DiscoveryStream ---------------------------
(***************************************************************************)
(* The delta protocol of one discovery stream: the server task that pushes *)
(* the next world only after the previous one was Acked, the client that   *)
(* stages, checks and commits each message, the two FIFO directions of the *)
(* gRPC stream, and the node's row in the registry.  Sessions end at any   *)
(* time; the client's cache outlives them, the server's baseline does not. *)
(*                                                                         *)
(* A world maps each canonical resource key to a resource or to Absent.    *)
(* Its version is a hash of that map, taken to be injective, so a version  *)
(* is the map itself.  What a view may contain while a rebuild runs is the *)
(* guarantee module Publication establishes: any mixture of the old and    *)
(* the new cells under the old sequence, and the new sequence only over    *)
(* the new cells.                                                          *)
(***************************************************************************)
EXTENDS Naturals, Sequences

CONSTANTS
  Keys,         \* canonical resource keys
  Vals,         \* resources
  Absent,       \* no resource under the key
  Keep,         \* a delta does not mention the key
  Nil,         \* no baseline, nothing pending, no row
  Bad,          \* worlds phase A or C of apply_message rejects (dangling ref, bad regex)
  MaxRebuilds,  \* bound: rebuilds
  MaxSessions   \* bound: sessions

Contents == [Keys -> Vals \cup {Absent}]
NoContent == [k \in Keys |-> Absent]

Views == [content : Contents, seq : Nat]
Rows == [version : Contents \cup {Nil}, target : Contents \cup {Nil}, seq : Nat]

ASSUME NoneAssumption == Nil \notin Contents /\ Nil \notin Views /\ Nil \notin Rows
ASSUME MarkAssumption == Absent \notin Vals /\ Keep \notin Vals /\ Keep # Absent
ASSUME BadAssumption == Bad \subseteq Contents /\ NoContent \notin Bad
ASSUME LimitAssumption == MaxRebuilds \in Nat /\ MaxSessions \in Nat

VARIABLES
  settled,     \* the world, with its sequence, of the last completed rebuild
  coming,      \* the world the running rebuild stores
  rebuilding,  \* "no", "yes", or "ticked" after the mid-rebuild tick
  session,     \* number of sessions opened
  open,        \* "yes" while the session lives
  changed,     \* "yes" when rebuild_rx has a change this stream has not seen
  acked,       \* StreamState.acked_resources, or Nil
  pending,     \* StreamState.pending (and in_flight, which moves with it)
  down,        \* snapshots on their way to the client
  up,          \* Acks and Nacks on their way to the server
  cache,       \* the client's committed cache, and the cells compiled from it
  expectFull,  \* "yes" until the first apply of the session
  row,         \* the node's registry row
  served,      \* history: every view the server task has acted upon in this session
  held         \* history: every world the client has committed in this session

source == <<settled, coming, rebuilding>>
server == <<changed, acked, pending>>
client == <<cache, expectFull, held>>
vars == <<source, session, open, server, down, up, client, row, served>>

Messages == [kind : {"full", "delta"}, change : [Keys -> Vals \cup {Absent, Keep}],
             version : Contents]
Replies == [kind : {"ack", "nack"}, version : Contents]
NewRow == [version |-> Nil, target |-> Nil, seq |-> 0]

TypeOK ==
  /\ settled \in Views
  /\ coming \in Contents
  /\ rebuilding \in {"no", "yes", "ticked"}
  /\ session \in Nat
  /\ open \in {"yes", "no"}
  /\ changed \in {"yes", "no"}
  /\ acked \in Contents \cup {Nil}
  /\ pending \in Views \cup {Nil}
  /\ down \in Seq(Messages)
  /\ up \in Seq(Replies)
  /\ cache \in Contents
  /\ expectFull \in {"yes", "no"}
  /\ row \in Rows \cup {Nil}
  /\ served \subseteq Views
  /\ held \subseteq Contents

Init ==
  /\ settled = [content |-> NoContent, seq |-> 0]
  /\ coming = NoContent
  /\ rebuilding = "no"
  /\ session = 0
  /\ open = "no"
  /\ changed = "no"
  /\ acked = Nil
  /\ pending = Nil
  /\ down = <<>>
  /\ up = <<>>
  /\ cache = NoContent
  /\ expectFull = "yes"
  /\ row = Nil
  /\ served = {}
  /\ held = {}

-----------------------------------------------------------------------------
(* The source of views *)

RebuildBegin ==
  /\ rebuilding = "no"
  /\ settled.seq < MaxRebuilds
  /\ coming' \in Contents
  /\ rebuilding' = "yes"
  /\ UNCHANGED <<settled, session, open, server, down, up, client, row, served>>

\* The tick half way through a rebuild.
MidRebuildNotify ==
  /\ rebuilding = "yes"
  /\ rebuilding' = "ticked"
  /\ changed' = open
  /\ UNCHANGED <<settled, coming, session, open, acked, pending, down, up, client, row, served>>

\* The stamps are written and the trailing tick goes out.
NotifyRebuilt ==
  /\ rebuilding = "ticked"
  /\ settled' = [content |-> coming, seq |-> settled.seq + 1]
  /\ rebuilding' = "no"
  /\ changed' = open
  /\ UNCHANGED <<coming, session, open, acked, pending, down, up, client, row, served>>

\* What view_for may return now.
ViewsNow ==
  IF rebuilding = "no" THEN {settled}
  ELSE {[content |-> c, seq |-> settled.seq] :
          c \in {d \in Contents : \A k \in Keys : d[k] \in {settled.content[k], coming[k]}}}
       \cup {[content |-> coming, seq |-> settled.seq + 1]}

-----------------------------------------------------------------------------
(* The server task *)

FullOf(v) == [kind |-> "full", change |-> v.content, version |-> v.content]

\* Upserts are the keys whose hash moved, tombstones the keys that vanished.
DeltaOf(v, base) ==
  [kind |-> "delta",
   change |-> [k \in Keys |-> IF v.content[k] = base[k] THEN Keep ELSE v.content[k]],
   version |-> v.content]

\* build_outbound: an empty delta is not sent.
Outbound(v, base) == IF base = Nil THEN FullOf(v) ELSE DeltaOf(v, base)
Unchanged(v, base) == base # Nil /\ v.content = base

\* NodeRegistry::record_target, record_ack and advance_acked_seq.
WithTarget(r, v) == [r EXCEPT !.target = v.content]
MaxOf(m, n) == IF m > n THEN m ELSE n
WithAck(r, version, seq) == [r EXCEPT !.version = version, !.seq = MaxOf(@, seq)]

\* Mutant: the sequence is overwritten instead of raised.
WithSeqPlain(r, seq) == [r EXCEPT !.seq = seq]

WithSeq(r, seq) == [r EXCEPT !.seq = MaxOf(@, seq)]

\* Mutant: the sequence is credited when the world is sent.
PushCredits(base, r) ==
  \E v \in ViewsNow :
    /\ served' = served \cup {v}
    /\ row' = WithSeq(WithTarget(r, v), v.seq)
    /\ IF Unchanged(v, base) THEN pending' = Nil /\ UNCHANGED down
       ELSE pending' = v /\ down' = Append(down, Outbound(v, base))

\* view_for, record_target, then push_if_changed against base, or
\* advance_acked_seq when there is nothing to send; r is the row so far.
PushIfChanged(base, r) ==
  \E v \in ViewsNow :
    /\ served' = served \cup {v}
    /\ IF Unchanged(v, base)
       THEN /\ row' = WithSeq(WithTarget(r, v), v.seq)
            /\ pending' = Nil
            /\ UNCHANGED down
       ELSE /\ row' = WithTarget(r, v)
            /\ pending' = v
            /\ down' = Append(down, Outbound(v, base))

\* A session opens: Subscribe is accepted, the row is connected and the initial
\* full is sent.
OpenStream ==
  /\ open = "no"
  /\ session < MaxSessions
  /\ session' = session + 1
  /\ open' = "yes"
  /\ expectFull' = "yes"
  /\ changed' = "no"
  /\ acked' = Nil
  /\ PushIfChanged(Nil, NewRow)
  /\ UNCHANGED <<source, up, cache, held>>

\* rebuild_rx.changed(): coalesced while a snapshot is in flight.
OnRebuild ==
  /\ open = "yes"
  /\ changed = "yes"
  /\ changed' = "no"
  /\ IF pending # Nil
     THEN UNCHANGED <<pending, down, row, served>>
     ELSE PushIfChanged(acked, row)
  /\ UNCHANGED <<source, session, open, acked, up, client>>

\* Mutant: the Acked world does not become the baseline.
HandleAckUnpromoted ==
  /\ open = "yes"
  /\ up # <<>>
  /\ Head(up).kind = "ack"
  /\ up' = Tail(up)
  /\ acked' = IF acked = Nil THEN pending.content ELSE acked
  /\ PushIfChanged(acked', WithAck(row, Head(up).version, pending.seq))
  /\ UNCHANGED <<source, session, open, changed, client>>

\* Mutant: the world is not looked at again after an Ack.
HandleAckFinal ==
  /\ open = "yes"
  /\ up # <<>>
  /\ Head(up).kind = "ack"
  /\ up' = Tail(up)
  /\ acked' = pending.content
  /\ row' = WithAck(row, Head(up).version, pending.seq)
  /\ pending' = Nil
  /\ UNCHANGED <<source, session, open, changed, client, down, served>>

\* An Ack for the world in flight promotes it to the baseline, records its
\* sequence and looks at the current world; any other Ack promotes nothing.
HandleAck ==
  /\ open = "yes"
  /\ up # <<>>
  /\ Head(up).kind = "ack"
  /\ up' = Tail(up)
  /\ LET version == Head(up).version IN
     IF pending # Nil /\ pending.content = version
     THEN /\ acked' = pending.content
          /\ PushIfChanged(pending.content, WithAck(row, version, pending.seq))
     ELSE /\ UNCHANGED acked
          /\ IF pending = Nil
             THEN PushIfChanged(acked, WithAck(row, version, 0))
             ELSE /\ row' = WithAck(row, version, 0)
                  /\ UNCHANGED <<pending, down, served>>
  /\ UNCHANGED <<source, session, open, changed, client>>

\* A Nack: a full of the current world replaces what was in flight; the
\* baseline stays.
HandleNack ==
  /\ open = "yes"
  /\ up # <<>>
  /\ Head(up).kind = "nack"
  /\ up' = Tail(up)
  /\ \E v \in ViewsNow :
       /\ served' = served \cup {v}
       /\ row' = WithTarget(row, v)
       /\ pending' = v
       /\ down' = Append(down, FullOf(v))
  /\ UNCHANGED <<source, session, open, changed, acked, client>>

\* The stream ends (client gone, transport error, demotion, repoint): what was
\* on the wire is lost, the row is disconnected, the client keeps its cache.
CloseStream ==
  /\ open = "yes"
  /\ open' = "no"
  /\ changed' = "no"
  /\ acked' = Nil
  /\ pending' = Nil
  /\ down' = <<>>
  /\ up' = <<>>
  /\ row' = Nil
  /\ served' = {}
  /\ held' = {}
  /\ UNCHANGED <<source, session, cache, expectFull>>

-----------------------------------------------------------------------------
(* The client *)

\* Phase A: the world a message leads to from the committed cache.
Staged(m) ==
  IF m.kind = "full" THEN m.change
  ELSE [k \in Keys |-> IF m.change[k] = Keep THEN cache[k] ELSE m.change[k]]

\* The session gate, the version self-check and the compile.
Applies(m) ==
  /\ m.kind = "full" \/ expectFull = "no"
  /\ Staged(m) = m.version
  /\ Staged(m) \notin Bad

ClientAck ==
  /\ down # <<>>
  /\ Applies(Head(down))
  /\ cache' = Staged(Head(down))
  /\ held' = held \cup {Staged(Head(down))}
  /\ expectFull' = "no"
  /\ up' = Append(up, [kind |-> "ack", version |-> Head(down).version])
  /\ down' = Tail(down)
  /\ UNCHANGED <<source, session, open, server, row, served>>

\* Rejected: nothing live is touched.
ClientNack ==
  /\ down # <<>>
  /\ ~Applies(Head(down))
  /\ up' = Append(up, [kind |-> "nack", version |-> Head(down).version])
  /\ down' = Tail(down)
  /\ UNCHANGED <<source, session, open, server, client, row, served>>

-----------------------------------------------------------------------------

Source == RebuildBegin \/ MidRebuildNotify \/ NotifyRebuilt
Server == OpenStream \/ OnRebuild \/ HandleAck \/ HandleNack
Client == ClientAck \/ ClientNack

Next == Source \/ Server \/ Client \/ CloseStream

Spec == Init /\ [][Next]_vars

\* A running rebuild completes, the tasks on both ends are scheduled and the
\* supervisor keeps redialling; rebuilds start and sessions end at will.
Fairness == /\ WF_vars(MidRebuildNotify) /\ WF_vars(NotifyRebuilt)
            /\ WF_vars(OpenStream) /\ WF_vars(OnRebuild)
            /\ WF_vars(HandleAck) /\ WF_vars(HandleNack)
            /\ WF_vars(Client)

FairSpec == Spec /\ Fairness

-----------------------------------------------------------------------------
(* Properties *)

\* One snapshot in flight (stream.rs, push-after-Ack): between the server's send
\* and its handling of the reply there is exactly one message on the wire, and
\* it answers for the world the server has pending; so the stale-Ack arm of
\* handle_ack is unreachable and no Ack is ever credited to another world.
OneInFlight ==
  /\ Len(down) + Len(up) = (IF pending = Nil THEN 0 ELSE 1)
  /\ \A i \in DOMAIN down : down[i].version = pending.content
  /\ \A i \in DOMAIN up : up[i].version = pending.content

\* The diff baseline is what the client holds (apply_message, F6 self-check): a
\* message reaching the client always leads to the world its version names,
\* whatever was Nacked, coalesced or lost with a session before it.  A mismatch
\* would not be wrong routing but an endless full resync.
NeverMismatched == \A i \in DOMAIN down : Staged(down[i]) = down[i].version

\* The push protocol never diffs against a world the client does not hold, because
\* it never has two worlds under way.
BaselineKept == OneInFlight /\ NeverMismatched

\* Honest convergence (handle_ack, advance_acked_seq): the sequence credited to
\* the node is the sequence of a view whose very content the client has
\* committed in this session, even when it was credited without a push.
AckedMeansApplied ==
  row # Nil /\ row.seq > 0 => \E v \in served : v.seq = row.seq /\ v.content \in held

\* all_in_sync: when the registry shows the node on its target version and no
\* message is in flight, the client does hold the target.
InSyncMeansHeld ==
  row # Nil /\ pending = Nil /\ row.version = row.target => cache = row.target

\* What the registry shows of a node is true of the node.
CreditHonest == AckedMeansApplied /\ InSyncMeansHeld

\* The promise the protocol keeps: the node's row and cache behave as an atomic
\* replica with an honest, monotone credit.
R == INSTANCE Replica WITH offered <- served, serving <- cache, committed <- held,
                           credit <- IF row = Nil THEN 0 ELSE row.seq

KeepsPromise == R!Spec

InStep == cache = settled.content /\ row # Nil /\ row.seq = settled.seq

\* Convergence (#531 liveness on a quiet cluster): when rebuilds and session
\* losses stop, a client whose final world compiles ends up serving it, and its
\* row ends at the final sequence although the last rebuild changed nothing.
Converges == <>[](open = "yes" /\ settled.content \notin Bad => InStep)

=============================================================================
