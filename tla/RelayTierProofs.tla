-------------------------- MODULE RelayTierProofs ---------------------------
(***************************************************************************)
(* Proofs about the relay tier (RelayTier), for every number of Gateways,  *)
(* cells and leaves, both shapes of the relay, and any number of restarts, *)
(* lost streams and rejected messages:                                     *)
(*                                                                         *)
(*   RelayTypes        every state of the tier has the type it declares;   *)
(*   LeafNeverBlanked  no step takes content away from a leaf;             *)
(*   SharedTierFenced  a leaf behind a shared relay is counted as          *)
(*                     converged on a stamp only when it serves what was   *)
(*                     stamped, as long as one controller leads.           *)
(*                                                                         *)
(* Two invariants carry them.  TierOrdered orders the copies of the world: *)
(* what a leaf holds is never ahead of what its stream carries, that never *)
(* ahead of the relay's cells, those never ahead of what the relay is      *)
(* applying, and that never ahead of the controller.  TierFresh follows a  *)
(* sequence down the same chain, and says what a copy labelled with it has *)
(* at least.                                                               *)
(***************************************************************************)
EXTENDS RelayTier, WellFoundedInduction, TLAPS

-----------------------------------------------------------------------------
(* The greatest element *)

\* Every non-empty set of naturals has a least element.
LEMMA LeastOf ==
  ASSUME NEW T \in SUBSET Nat, T # {}
  PROVE  \E x \in T : \A y \in T : x =< y
<1> DEFINE R == {ss \in Nat \X Nat : ss[1] < ss[2]}
<1>1. IsWellFoundedOn(R, Nat)
  BY NatLessThanWellFounded, Zenon DEF OpToRel
<1>2. \E x \in T : \A y \in T : ~(<<y, x>> \in R)
  BY <1>1, WFMin, Zenon
<1>3. PICK x \in T : \A y \in T : ~(<<y, x>> \in R)
  BY <1>2
<1>4. ASSUME NEW y \in T PROVE x =< y
  <2>1. ~(<<y, x>> \in R) /\ x \in Nat /\ y \in Nat
    BY <1>3, <1>4
  <2> QED BY <2>1
<1> QED BY <1>4

\* Max finds the greatest element of a bounded set of naturals.
LEMMA MaxOf ==
  ASSUME NEW S \in SUBSET Nat, S # {}, NEW b \in Nat, \A x \in S : x =< b
  PROVE  Max(S) \in S /\ \A x \in S : x =< Max(S)
<1> DEFINE U == {n \in Nat : \A x \in S : x =< n}
<1>1. PICK u \in U : \A y \in U : u =< y
  BY LeastOf
<1>2. PICK s \in S : TRUE
  OBVIOUS
<1>3. u \in S
  <2>1. CASE u = 0
    BY <1>1, <2>1, <1>2, s =< u
  <2>2. CASE u > 0
    <3> SUFFICES ASSUME u \notin S PROVE FALSE
      OBVIOUS
    <3>1. u - 1 \in U
      BY <1>1, <2>2
    <3> QED BY <1>1, <3>1
  <2> QED BY <2>1, <2>2, <1>1
<1> QED BY <1>1, <1>3 DEF Max

\* advance_to and record_ack take the later of two sequences.
LEMMA Later ==
  ASSUME NEW a \in Nat, NEW b \in Nat
  PROVE  /\ Max({a, b}) \in Nat
         /\ Max({a, b}) = a \/ Max({a, b}) = b
         /\ a =< Max({a, b}) /\ b =< Max({a, b})
<1>1. {a, b} \in SUBSET Nat /\ {a, b} # {} /\ \A x \in {a, b} : x =< a + b
  OBVIOUS
<1>2. Max({a, b}) \in {a, b} /\ \A x \in {a, b} : x =< Max({a, b})
  BY <1>1, MaxOf
<1> QED BY <1>2

-----------------------------------------------------------------------------
(* The copies of the world, in order *)

\* A stamp is no later than the counter, names content that exists, and content no
\* newer than the controller's; a GatewayMeta carries such a stamp.
StampsBounded ==
  /\ ctrl.pc = "bumped" => ctrl.counter > 0
  /\ \A g \in RelayGateways :
       /\ ctrl.stamps[g].seq =< ctrl.counter
       /\ ctrl.stamps[g].rev =< world[g]
       /\ world[g] = 0 => ctrl.stamps[g].seq = 0
       /\ feed.view.meta[g] =< ctrl.counter

\* A snapshot on its way to the relay has its content.
InFlight == feed.pc \in {"meta", "push", "sent", "apply"}

\* The relay is behind what it is applying, and that is behind the controller.
RelayBehind ==
  /\ relay.todo # {} => feed.pc = "apply"
  /\ feed.pc = "apply" => \A c \in RelayCells \ relay.todo : relay.cells[c] = feed.view.content
  /\ \A c \in RelayCells, g \in RelayGateways :
       /\ relay.cells[c][g] =< world[g]
       /\ InFlight => relay.cells[c][g] =< feed.view.content[g]
  /\ InFlight => \A g \in RelayGateways : feed.view.content[g] =< world[g]

\* Leaf l would not lose anything by serving world w in cell c.
Covers(l, c, w) == \A g \in RelayGateways : leafHeld[l][c][g] =< Visible(l, w)[g]

\* A leaf is behind the controller, behind a snapshot the relay receives, and behind
\* the cells of a relay that is ready.
LeavesBehind ==
  \A l \in Leaves, c \in RelayCells :
    /\ Covers(l, c, world)
    /\ InFlight => Covers(l, c, feed.view.content)
    /\ relay.loaded = "yes" => Covers(l, c, relay.cells[c])

\* The view that a stream carries to a leaf, in cell c, lies between the leaf's
\* content and the relay's.
Between(l, c) ==
  \A g \in RelayGateways : /\ leafHeld[l][c][g] =< fan[l].view.content[c][g]
                           /\ fan[l].view.content[c][g] =< Visible(l, relay.cells[c])[g]

\* The cells whose content the view of leaf l has.
Read(l) == IF fan[l].pc = "load" THEN RelayCells \ fan[l].todo
           ELSE IF fan[l].pc \in {"push", "sent", "applied"} THEN RelayCells ELSE {}

\* Only a relay that is ready serves; the baseline of a stream is what the leaf holds.
StreamsBetween ==
  \A l \in Leaves :
    /\ fan[l].pc # "down" => relay.loaded = "yes"
    /\ \A c \in Read(l) : Between(l, c)
    /\ fan[l].pc = "applied" => leafHeld[l] = fan[l].view.content
    /\ fan[l].pc # "applied" /\ fan[l].known = "yes" => leafHeld[l] = fan[l].acked

TierOrdered == RelayTypeOK /\ StampsBounded /\ RelayBehind /\ LeavesBehind /\ StreamsBetween

\* What a scope shows of a cell, Gateway by Gateway.
LEMMA VisibleAt ==
  ASSUME NEW l \in Leaves, NEW w \in Revisions
  PROVE  /\ Visible(l, w) \in Revisions
         /\ \A g \in RelayGateways :
              Visible(l, w)[g] = IF tier = "shared" \/ g = LeafGateway[l] THEN w[g] ELSE 0
BY DEF Visible, Revisions

\* A newer world shows no less.
LEMMA CoversMore ==
  ASSUME NEW l \in Leaves, NEW c \in RelayCells, NEW w \in Revisions, NEW x \in Revisions,
         leafHeld \in [Leaves -> CellWorlds], Covers(l, c, w),
         \A g \in RelayGateways : w[g] =< x[g]
  PROVE  Covers(l, c, x)
<1>1. \A g \in RelayGateways : leafHeld[l][c][g] \in Nat /\ w[g] \in Nat /\ x[g] \in Nat
  BY DEF CellWorlds, Revisions
<1> QED BY <1>1, VisibleAt DEF Covers, Revisions

\* The sequence a namespace relay re-stamps with is one of the stamps it received.
LEMMA UpstreamSeqType ==
  ASSUME RelayTypeOK, StampsBounded
  PROVE  UpstreamSeq \in Nat
<1> DEFINE S == {feed.view.meta[g] : g \in RelayGateways}
<1>1. feed.view.seq \in Nat /\ feed.view.meta \in Revisions /\ ctrl.counter \in Nat
  BY DEF RelayTypeOK, UpStreams, Controllers
<1>2. S \in SUBSET Nat /\ S # {} /\ \A x \in S : x =< ctrl.counter
  BY <1>1, GatewaysAssumption DEF StampsBounded, Revisions
<1>3. Max(S) \in Nat
  BY <1>1, <1>2, MaxOf
<1> QED BY <1>1, <1>3 DEF UpstreamSeq

\* The sequence a leaf's Ack credits.
LEMMA ViewSeqType ==
  ASSUME RelayTypeOK, NEW l \in Leaves
  PROVE  ViewSeq(l) \in Nat
BY DEF RelayTypeOK, DownStreams, ViewSeq

-----------------------------------------------------------------------------
(* TierOrdered holds at first *)

LEMMA OrderedInit == RelayInit => TierOrdered
<1> SUFFICES ASSUME RelayInit PROVE TierOrdered
  OBVIOUS
<1>1. NoRevision \in Revisions /\ NoCells \in CellWorlds
  BY DEF NoRevision, NoCells, Revisions, CellWorlds
<1>2. RelayTypeOK
  BY <1>1, BoundsAssumption DEF RelayInit, RelayTypeOK, Budgets, Controllers, UpStreams, RelayStates, DownStreams, UpIdle,
       DownIdle, NoUpView, NoDownView, NoBaseline, NoStamps, YesNo
<1>3. StampsBounded
  BY DEF RelayInit, StampsBounded, NoStamps, UpIdle, NoUpView, NoRevision
<1>4. RelayBehind
  BY DEF RelayInit, RelayBehind, InFlight, UpIdle, NoCells, NoRevision
<1>5. LeavesBehind
  BY DEF RelayInit, LeavesBehind, InFlight, Covers, Visible, UpIdle, NoCells, NoRevision
<1>6. StreamsBetween
  BY DEF RelayInit, StreamsBetween, Read, DownIdle
<1> QED BY <1>2, <1>3, <1>4, <1>5, <1>6 DEF TierOrdered

-----------------------------------------------------------------------------
(* What each part is made of, Gateway by Gateway *)

LEMMA Naturals ==
  ASSUME RelayTypeOK
  PROVE  /\ \A g \in RelayGateways :
              /\ world[g] \in Nat /\ feed.view.content[g] \in Nat /\ feed.view.meta[g] \in Nat
              /\ ctrl.stamps[g].seq \in Nat /\ ctrl.stamps[g].rev \in Nat
         /\ ctrl.counter \in Nat /\ feed.view.seq \in Nat /\ relay.counter \in Nat
         /\ \A c \in RelayCells, g \in RelayGateways : relay.cells[c][g] \in Nat
         /\ \A l \in Leaves, c \in RelayCells, g \in RelayGateways :
              leafHeld[l][c][g] \in Nat /\ fan[l].view.content[c][g] \in Nat
         /\ \A l \in Leaves : fan[l].view.seq \in Nat
<1>1. /\ world \in Revisions /\ feed.view.content \in Revisions /\ feed.view.meta \in Revisions
      /\ ctrl.stamps \in [RelayGateways -> [seq : Nat, rev : Nat]]
      /\ ctrl.counter \in Nat /\ feed.view.seq \in Nat /\ relay.counter \in Nat
  BY DEF RelayTypeOK, Controllers, UpStreams, RelayStates
<1>2. relay.cells \in CellWorlds
  BY DEF RelayTypeOK, RelayStates
<1>3. \A l \in Leaves : leafHeld[l] \in CellWorlds /\ fan[l].view.content \in CellWorlds /\ fan[l].view.seq \in Nat
  BY DEF RelayTypeOK, DownStreams
<1>4. ASSUME NEW w \in CellWorlds, NEW c \in RelayCells, NEW g \in RelayGateways PROVE w[c][g] \in Nat
  BY DEF CellWorlds, Revisions
<1> QED BY <1>1, <1>2, <1>3, <1>4 DEF Revisions

\* One unit of a bound is spent.
LEMMA Spent ==
  ASSUME RelayTypeOK
  PROVE  /\ budget.mishaps > 0 => /\ [budget EXCEPT !.mishaps = @ - 1] \in Budgets
                                 /\ [budget EXCEPT !.mishaps = @ - 1, !.leader = "another"] \in Budgets
         /\ budget.publishes > 0 => [budget EXCEPT !.publishes = @ - 1] \in Budgets
<1>1. budget \in Budgets
  BY DEF RelayTypeOK
<1>2. budget.mishaps > 0 => budget.mishaps - 1 \in Nat
  BY <1>1 DEF Budgets
<1>3. budget.publishes > 0 => budget.publishes - 1 \in Nat
  BY <1>1 DEF Budgets
<1> QED BY <1>1, <1>2, <1>3 DEF Budgets

-----------------------------------------------------------------------------
(* The controller's steps keep TierOrdered *)

LEMMA OrderedPublishStore ==
  ASSUME TierOrdered, NEW changed \in SUBSET RelayGateways, NEW edited \in SUBSET RelayGateways,
         PublishStore(changed, edited)
  PROVE  TierOrdered'
<1> USE DEF TierOrdered, PublishStore, Wake
<1>1. RelayTypeOK'
  <2>1. world' \in Revisions
    BY Naturals DEF Revisions
  <2>2. budget' \in Budgets
    BY Spent
  <2>3. feed' \in UpStreams
    BY DEF RelayTypeOK, UpStreams, YesNo
  <2>4. ctrl' \in Controllers
    BY DEF RelayTypeOK, Controllers
  <2> QED BY <2>1, <2>2, <2>3, <2>4 DEF RelayTypeOK
<1>2. /\ feed'.view = feed.view /\ feed'.pc = feed.pc /\ ctrl'.counter = ctrl.counter
      /\ ctrl'.stamps = ctrl.stamps /\ ctrl'.pc = "stored"
      /\ \A g \in RelayGateways : world[g] \in Nat /\ world'[g] \in Nat /\ world[g] =< world'[g]
  BY Naturals DEF RelayTypeOK, UpStreams, Controllers
<1>3. StampsBounded'
  BY <1>2, Naturals DEF StampsBounded
<1>4. RelayBehind'
  BY <1>2, Naturals DEF RelayBehind, InFlight
<1>5. LeavesBehind'
  <2> SUFFICES ASSUME NEW l \in Leaves, NEW c \in RelayCells
               PROVE  /\ Covers(l, c, world)'
                      /\ InFlight' => Covers(l, c, feed.view.content)'
                      /\ relay'.loaded = "yes" => Covers(l, c, relay.cells[c])'
    BY DEF LeavesBehind
  <2>1. Covers(l, c, world')
    BY <1>1, <1>2, CoversMore DEF LeavesBehind, RelayTypeOK
  <2> QED BY <1>2, <2>1 DEF LeavesBehind, Covers, Visible, InFlight
<1>6. StreamsBetween'
  BY DEF StreamsBetween, Read, Between, Visible
<1> QED BY <1>1, <1>3, <1>4, <1>5, <1>6

LEMMA OrderedPublish ==
  ASSUME TierOrdered, PublishStep
  PROVE  TierOrdered'
<1> USE DEF TierOrdered
<1>1. /\ feed' = feed \/ feed' = Wake(feed)
      /\ UNCHANGED <<tier, world, relay, fan, leafHeld, leafRow, report, folded, budget>>
  BY DEF PublishStep, PublishBump, PublishStamp
<1>2. feed' \in UpStreams /\ feed'.view = feed.view /\ feed'.pc = feed.pc
  BY <1>1 DEF Wake, RelayTypeOK, UpStreams, YesNo
<1>3. ctrl' \in Controllers
  <2>1. CASE PublishBump
    <3>1. ctrl.counter + 1 \in Nat /\ ctrl \in Controllers
      BY Naturals DEF RelayTypeOK
    <3> QED BY <2>1, <3>1 DEF PublishBump, Controllers
  <2>2. CASE PublishStamp
    BY <2>2, Naturals DEF PublishStamp, RelayTypeOK, Controllers
  <2> QED BY <2>1, <2>2 DEF PublishStep
<1>4. RelayTypeOK'
  BY <1>1, <1>2, <1>3 DEF RelayTypeOK
<1>5. StampsBounded'
  <2>1. CASE PublishBump
    <3>1. ctrl'.stamps = ctrl.stamps /\ ctrl'.counter = ctrl.counter + 1
      BY <2>1 DEF PublishBump, RelayTypeOK, Controllers
    <3> QED BY <1>1, <1>2, <3>1, Naturals DEF StampsBounded
  <2>2. CASE PublishStamp
    <3>1. /\ ctrl'.counter = ctrl.counter /\ ctrl'.pc = "idle"
          /\ ctrl'.stamps = [g \in RelayGateways |-> IF g \in ctrl.todo /\ world[g] > 0
                               THEN [seq |-> ctrl.counter, rev |-> world[g]] ELSE ctrl.stamps[g]]
      BY <2>2 DEF PublishStamp, RelayTypeOK, Controllers
    <3>2. ASSUME NEW g \in RelayGateways
          PROVE  /\ ctrl'.stamps[g].seq =< ctrl.counter /\ ctrl'.stamps[g].rev =< world[g]
                 /\ world[g] = 0 => ctrl'.stamps[g].seq = 0
      BY <3>1, Naturals DEF StampsBounded
    <3> QED BY <1>1, <1>2, <3>1, <3>2 DEF StampsBounded
  <2> QED BY <2>1, <2>2 DEF PublishStep
<1>6. RelayBehind'
  BY <1>1, <1>2 DEF RelayBehind, InFlight
<1>7. LeavesBehind'
  BY <1>1, <1>2 DEF LeavesBehind, Covers, Visible, InFlight
<1>8. StreamsBetween'
  BY <1>1 DEF StreamsBetween, Read, Between, Visible
<1> QED BY <1>4, <1>5, <1>6, <1>7, <1>8

\* A stream to the relay that starts over carries nothing yet.
LEMMA OrderedUpReset ==
  ASSUME TierOrdered, feed' \in UpStreams, feed'.pc \in {"down", "idle"}, feed'.view = NoUpView, relay.todo = {},
         UNCHANGED <<tier, world, relay, fan, leafHeld>>
  PROVE  RelayBehind' /\ LeavesBehind' /\ StreamsBetween'
<1> USE DEF TierOrdered
<1>1. ~InFlight' /\ feed'.pc # "apply"
  BY DEF InFlight
<1>2. RelayBehind'
  BY <1>1 DEF RelayBehind
<1>3. LeavesBehind'
  BY <1>1 DEF LeavesBehind, Covers, Visible
<1>4. StreamsBetween'
  BY DEF StreamsBetween, Read, Between, Visible
<1> QED BY <1>2, <1>3, <1>4

LEMMA IdleTypes ==
  /\ UpIdle \in UpStreams /\ [UpIdle EXCEPT !.pc = "idle", !.dirty = "yes"] \in UpStreams
  /\ DownIdle \in DownStreams /\ [DownIdle EXCEPT !.pc = "idle", !.dirty = "yes"] \in DownStreams
  /\ NoRevision \in Revisions /\ NoCells \in CellWorlds
  /\ [l \in Leaves |-> 0] \in [Leaves -> Nat]
<1>1. NoRevision \in Revisions /\ NoCells \in CellWorlds
  BY DEF NoRevision, NoCells, Revisions, CellWorlds
<1>2. UpIdle \in UpStreams
  BY <1>1 DEF UpIdle, UpStreams, NoUpView, NoBaseline, YesNo
<1>3. DownIdle \in DownStreams
  BY <1>1 DEF DownIdle, DownStreams, NoDownView, YesNo
<1> QED BY <1>1, <1>2, <1>3 DEF UpStreams, DownStreams, YesNo

LEMMA OrderedFailover ==
  ASSUME TierOrdered, Failover
  PROVE  TierOrdered'
<1> USE DEF TierOrdered
<1>1. feed' = UpIdle /\ feed' \in UpStreams /\ folded' \in [Leaves -> Nat]
  BY IdleTypes DEF Failover, UpLost
<1>2. /\ ctrl'.counter = 1 /\ ctrl'.pc = "idle"
      /\ ctrl'.stamps = [g \in RelayGateways |-> IF world[g] > 0 THEN [seq |-> 1, rev |-> world[g]]
                                                 ELSE ctrl.stamps[g]]
  BY DEF Failover, RelayTypeOK, Controllers
<1>3. ctrl' \in Controllers /\ budget' \in Budgets
  <2>1. ctrl' \in Controllers
    <3>1. [g \in RelayGateways |-> IF world[g] > 0 THEN [seq |-> 1, rev |-> world[g]] ELSE ctrl.stamps[g]]
            \in [RelayGateways -> [seq : Nat, rev : Nat]]
      BY Naturals DEF RelayTypeOK, Controllers
    <3> QED BY <3>1 DEF Failover, RelayTypeOK, Controllers
  <2>2. budget' \in Budgets
    BY Spent DEF Failover
  <2> QED BY <2>1, <2>2
<1>4. RelayTypeOK'
  BY <1>1, <1>3 DEF RelayTypeOK, Failover
<1>5. StampsBounded'
  <2>1. \A g \in RelayGateways : feed'.view.meta[g] = 0
    BY <1>1 DEF UpIdle, NoUpView, NoRevision
  <2>2. world' = world
    BY DEF Failover
  <2>3. ASSUME NEW g \in RelayGateways
        PROVE  ctrl'.stamps[g].seq =< 1 /\ ctrl'.stamps[g].rev =< world[g] /\ (world[g] = 0 => ctrl'.stamps[g].seq = 0)
    BY <1>2, Naturals DEF StampsBounded
  <2> QED BY <1>2, <2>1, <2>2, <2>3 DEF StampsBounded
<1>6. RelayBehind' /\ LeavesBehind' /\ StreamsBetween'
  BY <1>1, OrderedUpReset DEF Failover, UpIdle
<1> QED BY <1>4, <1>5, <1>6

-----------------------------------------------------------------------------
(* The upstream stream's steps keep TierOrdered *)

\* The stream starts over: a connect, a loss, a rejected message.
LEMMA OrderedUpRestart ==
  ASSUME TierOrdered, UpConnect \/ UpDrop \/ RelayNack
  PROVE  TierOrdered'
<1> USE DEF TierOrdered
<1>1. /\ feed' = UpIdle \/ feed' = [UpIdle EXCEPT !.pc = "idle", !.dirty = "yes"]
      /\ feed.pc # "apply"
      /\ UNCHANGED <<tier, world, ctrl, relay, fan, leafHeld, leafRow, report>>
  BY DEF UpConnect, UpDrop, RelayNack, UpLost
<1>2. feed' \in UpStreams /\ feed'.view = NoUpView /\ feed'.pc \in {"down", "idle"} /\ relay.todo = {}
  <2>1. feed' \in UpStreams
    BY <1>1, IdleTypes
  <2>2. feed'.view = NoUpView /\ feed'.pc \in {"down", "idle"}
    <3>1. CASE feed' = UpIdle
      BY <3>1 DEF UpIdle
    <3>2. CASE feed' = [UpIdle EXCEPT !.pc = "idle", !.dirty = "yes"]
      BY <3>2 DEF UpIdle
    <3> QED BY <1>1, <3>1, <3>2
  <2>3. relay.todo = {}
    BY <1>1 DEF RelayBehind
  <2> QED BY <2>1, <2>2, <2>3
<1>3. folded' \in [Leaves -> Nat] /\ budget' \in Budgets
  BY Spent DEF UpConnect, UpDrop, RelayNack, UpLost, RelayTypeOK
<1>4. RelayTypeOK'
  BY <1>1, <1>2, <1>3 DEF RelayTypeOK
<1>5. StampsBounded'
  BY <1>1, <1>2, Naturals DEF StampsBounded, NoUpView, NoRevision
<1> QED BY <1>1, <1>2, <1>4, <1>5, OrderedUpReset

LEMMA OrderedUpCapture ==
  ASSUME TierOrdered, UpCapture
  PROVE  TierOrdered'
<1> USE DEF TierOrdered, UpCapture, UpOnly
<1>1. /\ feed' \in UpStreams /\ feed'.pc = "load" /\ feed'.view.meta = feed.view.meta
      /\ UNCHANGED <<tier, world, ctrl, relay, fan, leafHeld, leafRow, report, folded, budget>>
  BY Naturals DEF RelayTypeOK, UpStreams, YesNo
<1>2. RelayTypeOK'
  BY <1>1 DEF RelayTypeOK
<1>3. StampsBounded'
  BY <1>1 DEF StampsBounded
<1>4. relay.todo = {} /\ ~InFlight'
  BY <1>1 DEF RelayBehind, InFlight
<1>5. RelayBehind'
  BY <1>1, <1>4 DEF RelayBehind
<1>6. LeavesBehind'
  BY <1>1, <1>4 DEF LeavesBehind, Covers, Visible
<1>7. StreamsBetween'
  BY <1>1 DEF StreamsBetween, Read, Between, Visible
<1> QED BY <1>2, <1>3, <1>5, <1>6, <1>7

LEMMA OrderedUpLoad ==
  ASSUME TierOrdered, UpLoad
  PROVE  TierOrdered'
<1> USE DEF TierOrdered, UpLoad, UpOnly
<1>1. /\ feed' \in UpStreams /\ feed'.pc # "apply"
      /\ feed'.view.meta = feed.view.meta /\ feed'.view.content = world
      /\ UNCHANGED <<tier, world, ctrl, relay, fan, leafHeld, leafRow, report, folded, budget>>
  BY DEF RelayTypeOK, UpStreams
<1>2. RelayTypeOK'
  BY <1>1 DEF RelayTypeOK
<1>3. StampsBounded'
  BY <1>1 DEF StampsBounded
<1>4. RelayBehind'
  BY <1>1, Naturals DEF RelayBehind
<1>5. LeavesBehind'
  BY <1>1 DEF LeavesBehind, Covers, Visible
<1>6. StreamsBetween'
  BY <1>1 DEF StreamsBetween, Read, Between, Visible
<1> QED BY <1>2, <1>3, <1>4, <1>5, <1>6

\* A step that keeps the content that is on its way.
LEMMA OrderedInFlight ==
  ASSUME TierOrdered, feed' \in UpStreams, InFlight' => InFlight, feed'.view.content = feed.view.content \/ ~InFlight',
         feed'.pc # "apply", feed.pc # "apply", \A g \in RelayGateways : feed'.view.meta[g] =< ctrl.counter,
         UNCHANGED <<tier, world, ctrl, relay, fan, leafHeld, leafRow, report, folded, budget>>
  PROVE  TierOrdered'
<1> USE DEF TierOrdered
<1>1. RelayTypeOK'
  BY DEF RelayTypeOK
<1>2. StampsBounded'
  BY DEF StampsBounded
<1>3. RelayBehind'
  BY DEF RelayBehind
<1>4. LeavesBehind'
  BY DEF LeavesBehind, Covers, Visible
<1>5. StreamsBetween'
  BY DEF StreamsBetween, Read, Between, Visible
<1> QED BY <1>1, <1>2, <1>3, <1>4, <1>5

LEMMA OrderedUpMeta ==
  ASSUME TierOrdered, UpMeta
  PROVE  TierOrdered'
<1> USE DEF TierOrdered, UpMeta, UpOnly
<1>1. [g \in RelayGateways |-> IF feed.view.content[g] > 0 THEN ctrl.stamps[g].seq ELSE 0] \in Revisions
  BY Naturals DEF Revisions
<1>2. /\ feed' \in UpStreams /\ feed'.pc = "push" /\ feed'.view.content = feed.view.content
      /\ feed'.view.meta = [g \in RelayGateways |-> IF feed.view.content[g] > 0 THEN ctrl.stamps[g].seq ELSE 0]
  BY <1>1 DEF RelayTypeOK, UpStreams
<1>3. \A g \in RelayGateways : feed'.view.meta[g] =< ctrl.counter
  BY <1>2, Naturals DEF StampsBounded
<1> QED BY <1>2, <1>3, OrderedInFlight DEF InFlight

LEMMA OrderedUpPush ==
  ASSUME TierOrdered, UpPush
  PROVE  TierOrdered'
<1> USE DEF TierOrdered, UpPush, UpOnly
<1>1. CASE UpUnchanged
  <2>1. feed' = [feed EXCEPT !.pc = "idle", !.view = NoUpView] /\ NoUpView \in [seq : Nat, content : Revisions, meta : Revisions]
    BY <1>1, IdleTypes DEF NoUpView
  <2>2. feed' \in UpStreams /\ feed'.pc = "idle" /\ feed'.view = NoUpView
    BY <2>1 DEF RelayTypeOK, UpStreams
  <2>3. \A g \in RelayGateways : feed'.view.meta[g] =< ctrl.counter
    BY <2>2, Naturals DEF NoUpView, NoRevision
  <2> QED BY <2>2, <2>3, OrderedInFlight DEF InFlight
<1>2. CASE ~UpUnchanged
  <2>1. feed' \in UpStreams /\ feed'.pc = "sent" /\ feed'.view = feed.view
    BY <1>2 DEF RelayTypeOK, UpStreams
  <2>2. \A g \in RelayGateways : feed'.view.meta[g] =< ctrl.counter
    BY <2>1 DEF StampsBounded
  <2> QED BY <2>1, <2>2, OrderedInFlight DEF InFlight
<1> QED BY <1>1, <1>2

-----------------------------------------------------------------------------
(* The relay's steps keep TierOrdered *)

LEMMA OrderedStage ==
  ASSUME TierOrdered, RelayStage
  PROVE  TierOrdered'
<1> USE DEF TierOrdered, RelayStage
<1>1. /\ feed' \in UpStreams /\ feed'.pc = "apply" /\ feed'.view = feed.view
      /\ relay' \in RelayStates /\ relay'.todo = RelayCells /\ relay'.cells = relay.cells
      /\ relay'.loaded = relay.loaded
      /\ UNCHANGED <<tier, world, ctrl, fan, leafHeld, leafRow, report, folded, budget>>
  BY DEF RelayTypeOK, UpStreams, RelayStates
<1>2. RelayTypeOK'
  BY <1>1 DEF RelayTypeOK
<1>3. StampsBounded'
  BY <1>1 DEF StampsBounded
<1>4. InFlight /\ InFlight'
  BY <1>1 DEF InFlight
<1>5. RelayBehind'
  BY <1>1, <1>4 DEF RelayBehind
<1>6. LeavesBehind'
  BY <1>1, <1>4 DEF LeavesBehind, Covers, Visible
<1>7. StreamsBetween'
  BY <1>1 DEF StreamsBetween, Read, Between, Visible
<1> QED BY <1>2, <1>3, <1>5, <1>6, <1>7

LEMMA OrderedStore ==
  ASSUME TierOrdered, NEW cs \in SUBSET RelayCells, RelayStore(cs)
  PROVE  TierOrdered'
<1> USE DEF TierOrdered, RelayStore
<1> DEFINE new == [c \in RelayCells |-> IF c \in cs THEN feed.view.content ELSE relay.cells[c]]
<1>1. /\ relay \in RelayStates /\ feed.view.content \in Revisions /\ feed.pc = "apply" /\ InFlight
      /\ UNCHANGED <<tier, world, ctrl, feed, fan, leafHeld, leafRow, report, folded, budget>>
  BY DEF RelayTypeOK, UpStreams, InFlight
<1>2. new \in CellWorlds
  BY <1>1 DEF RelayStates, CellWorlds
<1>3. /\ relay' \in RelayStates /\ relay'.cells = new /\ relay'.todo = relay.todo \ cs
      /\ relay'.loaded = relay.loaded
  BY <1>1, <1>2 DEF RelayStates
<1>4. ASSUME NEW c \in RelayCells
      PROVE  \A g \in RelayGateways : relay.cells[c][g] =< new[c][g] /\ new[c][g] =< feed.view.content[g]
  BY <1>1, Naturals DEF RelayBehind
<1>5. RelayTypeOK'
  BY <1>1, <1>3 DEF RelayTypeOK
<1>6. StampsBounded'
  BY <1>1 DEF StampsBounded
<1>7. RelayBehind'
  <2>1. \A c \in RelayCells \ relay'.todo : new[c] = feed.view.content
    BY <1>1, <1>3 DEF RelayBehind
  <2>2. ASSUME NEW c \in RelayCells, NEW g \in RelayGateways
        PROVE  new[c][g] =< world[g]
    <3>1. new[c][g] \in Nat
      BY <1>2 DEF CellWorlds, Revisions
    <3> QED BY <1>1, <1>4, <3>1, Naturals DEF RelayBehind
  <2> HIDE DEF new
  <2> QED BY <1>1, <1>3, <1>4, <2>1, <2>2 DEF RelayBehind, InFlight
<1>8. LeavesBehind'
  <2>1. ASSUME NEW l \in Leaves, NEW c \in RelayCells, relay.loaded = "yes" PROVE Covers(l, c, new[c])
    <3>1. relay.cells[c] \in Revisions /\ new[c] \in Revisions /\ leafHeld \in [Leaves -> CellWorlds]
      BY <1>1, <1>2 DEF RelayStates, CellWorlds, RelayTypeOK
    <3>2. Covers(l, c, relay.cells[c])
      BY <2>1 DEF LeavesBehind
    <3> HIDE DEF new
    <3> QED BY <1>4, <3>1, <3>2, CoversMore
  <2> HIDE DEF new
  <2> QED BY <1>1, <1>3, <2>1 DEF LeavesBehind, Covers, Visible, InFlight
<1>9. StreamsBetween'
  <2>1. ASSUME NEW l \in Leaves, NEW c \in RelayCells, Between(l, c) PROVE Between(l, c)'
    <3>1. relay.cells[c] \in Revisions /\ new[c] \in Revisions
      BY <1>1, <1>2 DEF RelayStates, CellWorlds
    <3> HIDE DEF new
    <3>2. \A g \in RelayGateways : Visible(l, relay.cells[c])[g] =< Visible(l, new[c])[g]
      BY <1>4, <3>1, VisibleAt DEF Revisions
    <3>3. \A g \in RelayGateways : Visible(l, new[c])[g] \in Nat /\ Visible(l, relay.cells[c])[g] \in Nat
      BY <3>1, VisibleAt DEF Revisions
    <3>4. Visible(l, relay.cells[c])' = Visible(l, new[c])
      BY <1>1, <1>3 DEF Visible
    <3> QED BY <1>1, <2>1, <3>2, <3>3, <3>4, Naturals DEF Between
  <2>2. \A l \in Leaves : Read(l)' = Read(l) /\ Read(l) \subseteq RelayCells
    BY <1>1 DEF Read
  <2> QED BY <1>1, <1>3, <2>1, <2>2 DEF StreamsBetween
<1> QED BY <1>5, <1>6, <1>7, <1>8, <1>9

LEMMA OrderedCommit ==
  ASSUME TierOrdered, RelayCommit
  PROVE  TierOrdered'
<1> USE DEF TierOrdered, RelayCommit
<1>1. /\ feed \in UpStreams /\ relay \in RelayStates /\ feed.pc = "apply" /\ relay.todo = {}
      /\ UNCHANGED <<tier, world, ctrl, leafHeld, leafRow, report, folded, budget>>
  BY DEF RelayTypeOK
<1>2. Max({relay.counter, UpstreamSeq}) \in Nat
  BY Naturals, UpstreamSeqType, Later
<1>3. /\ relay' \in RelayStates /\ relay'.cells = relay.cells /\ relay'.todo = {} /\ relay'.loaded = "yes"
  BY <1>1, <1>2 DEF RelayStates, YesNo
<1>4. feed' \in UpStreams /\ feed'.pc = "idle" /\ feed'.view = NoUpView
  <2>1. UpIdle \in UpStreams /\ UpIdle.view = NoUpView
    BY IdleTypes DEF UpIdle
  <2> QED BY <1>1, <2>1 DEF UpStreams, YesNo
<1>5. /\ fan' \in [Leaves -> DownStreams]
      /\ \A l \in Leaves : /\ fan'[l].pc = fan[l].pc /\ fan'[l].view = fan[l].view /\ fan'[l].todo = fan[l].todo
                           /\ fan'[l].known = fan[l].known /\ fan'[l].acked = fan[l].acked
  <2>1. \A l \in Leaves : fan[l] \in DownStreams
    BY DEF RelayTypeOK
  <2>2. ASSUME NEW d \in DownStreams
        PROVE  /\ Wake(d) \in DownStreams /\ Wake(d).pc = d.pc /\ Wake(d).view = d.view /\ Wake(d).todo = d.todo
               /\ Wake(d).known = d.known /\ Wake(d).acked = d.acked
    BY DEF DownStreams, Wake, YesNo
  <2>3. fan' = [l \in Leaves |-> Wake(fan[l])]
    OBVIOUS
  <2> QED BY <2>1, <2>2, <2>3
<1>6. RelayTypeOK'
  BY <1>1, <1>3, <1>4, <1>5 DEF RelayTypeOK
<1>7. StampsBounded'
  BY <1>1, <1>4, Naturals DEF StampsBounded, NoUpView, NoRevision
<1>8. ~InFlight' /\ InFlight
  BY <1>1, <1>4 DEF InFlight
<1>9. RelayBehind'
  BY <1>1, <1>3, <1>4, <1>8 DEF RelayBehind
<1>10. LeavesBehind'
  <2>1. \A l \in Leaves, c \in RelayCells : Covers(l, c, relay.cells[c])
    BY <1>1, <1>8 DEF LeavesBehind, RelayBehind
  <2> QED BY <1>1, <1>3, <1>8, <2>1 DEF LeavesBehind, Covers, Visible
<1>11. StreamsBetween'
  BY <1>1, <1>3, <1>5 DEF StreamsBetween, Read, Between, Visible
<1> QED BY <1>6, <1>7, <1>9, <1>10, <1>11

LEMMA OrderedRestart ==
  ASSUME TierOrdered, RelayRestart
  PROVE  TierOrdered'
<1> USE DEF TierOrdered, RelayRestart
<1>1. /\ feed' = UpIdle /\ fan' = [l \in Leaves |-> DownIdle]
      /\ relay' = [cells |-> NoCells, todo |-> {}, counter |-> 0, loaded |-> "no"]
      /\ UNCHANGED <<tier, world, ctrl, leafHeld>>
  BY DEF UpLost
<1>2. RelayTypeOK'
  BY <1>1, IdleTypes, Spent DEF UpLost, RelayTypeOK, RelayStates, YesNo
<1>3. StampsBounded'
  BY <1>1, Naturals DEF StampsBounded, UpIdle, NoUpView, NoRevision
<1>4. ~InFlight' /\ feed'.pc = "down"
  BY <1>1 DEF InFlight, UpIdle
<1>5. RelayBehind'
  BY <1>1, <1>4, Naturals DEF RelayBehind, NoCells, NoRevision
<1>6. LeavesBehind'
  BY <1>1, <1>4 DEF LeavesBehind, Covers, Visible
<1>7. StreamsBetween'
  BY <1>1 DEF StreamsBetween, Read, DownIdle
<1> QED BY <1>2, <1>3, <1>5, <1>6, <1>7

-----------------------------------------------------------------------------
(* The leaves' steps keep TierOrdered *)

\* A step of leaf l's stream that applies nothing: the other leaves keep theirs.
LEMMA OrderedLeaf ==
  ASSUME TierOrdered, NEW l \in Leaves, NEW s \in DownStreams, fan' = [fan EXCEPT ![l] = s],
         leafRow' \in [Leaves -> Nat], report' \in [Leaves -> Nat], folded' \in [Leaves -> Nat],
         budget' \in Budgets,
         UNCHANGED <<tier, world, ctrl, feed, relay, leafHeld>>,
         s.pc # "down" => relay.loaded = "yes",
         \A c \in Read(l)' : Between(l, c)',
         s.pc = "applied" => leafHeld[l] = s.view.content,
         s.pc # "applied" /\ s.known = "yes" => leafHeld[l] = s.acked
  PROVE  TierOrdered'
<1> USE DEF TierOrdered
<1>1. RelayTypeOK'
  BY DEF RelayTypeOK
<1>2. StampsBounded'
  BY DEF StampsBounded
<1>3. RelayBehind'
  BY DEF RelayBehind, InFlight
<1>4. LeavesBehind'
  BY DEF LeavesBehind, Covers, Visible, InFlight
<1>5. StreamsBetween'
  <2>1. \A m \in Leaves : fan'[m] = IF m = l THEN s ELSE fan[m]
    BY DEF RelayTypeOK
  <2>2. ASSUME NEW m \in Leaves, m # l
        PROVE  Read(m)' = Read(m) /\ \A c \in RelayCells : Between(m, c)' <=> Between(m, c)
    BY <2>1, <2>2 DEF Read, Between, Visible
  <2>3. \A m \in Leaves : Read(m) \subseteq RelayCells
    BY DEF Read
  <2> QED BY <2>1, <2>2, <2>3 DEF StreamsBetween
<1> QED BY <1>1, <1>2, <1>3, <1>4, <1>5

LEMMA OrderedLeafJoin ==
  ASSUME TierOrdered, NEW l \in Leaves, LeafConnect(l) \/ LeafDrop(l) \/ LeafCapture(l)
  PROVE  TierOrdered'
<1> USE DEF TierOrdered
<1>1. fan[l] \in DownStreams /\ leafRow \in [Leaves -> Nat] /\ report \in [Leaves -> Nat] /\ folded \in [Leaves -> Nat]
      /\ budget \in Budgets /\ fan \in [Leaves -> DownStreams]
  BY DEF RelayTypeOK
<1>2. CASE LeafConnect(l)
  <2> DEFINE s == [DownIdle EXCEPT !.pc = "idle", !.dirty = "yes"]
  <2>1. s \in DownStreams /\ s.pc = "idle" /\ s.known = "no"
    BY IdleTypes DEF DownIdle
  <2>2. Read(l)' = {}
    BY <1>1, <1>2, <2>1 DEF LeafConnect, Read
  <2> QED BY <1>1, <1>2, <2>1, <2>2, OrderedLeaf DEF LeafConnect, DownOnly
<1>3. CASE LeafDrop(l)
  <2>1. DownIdle \in DownStreams /\ DownIdle.pc = "down" /\ DownIdle.known = "no"
    BY IdleTypes DEF DownIdle
  <2>2. Read(l)' = {}
    BY <1>1, <1>3, <2>1 DEF LeafDrop, Read
  <2> QED BY <1>1, <1>3, <2>1, <2>2, Spent, OrderedLeaf DEF LeafDrop
<1>4. CASE LeafCapture(l)
  <2> DEFINE s == [fan[l] EXCEPT !.pc = "load", !.dirty = "no", !.todo = RelayCells,
                                 !.view = [seq |-> relay.counter, content |-> NoCells]]
  <2>1. /\ s \in DownStreams /\ s.pc = "load" /\ s.todo = RelayCells
        /\ s.known = fan[l].known /\ s.acked = fan[l].acked
    BY <1>1, IdleTypes, Naturals DEF DownStreams, YesNo
  <2>2. fan' = [fan EXCEPT ![l] = s]
    BY <1>1, <1>4 DEF LeafCapture
  <2> HIDE DEF s
  <2>3. Read(l)' = {}
    BY <1>1, <2>1, <2>2 DEF Read
  <2>4. relay.loaded = "yes" /\ (fan[l].known = "yes" => leafHeld[l] = fan[l].acked)
    BY <1>4 DEF LeafCapture, StreamsBetween
  <2>5. UNCHANGED <<tier, world, ctrl, feed, relay, leafHeld, leafRow, report, folded, budget>>
    BY <1>4 DEF LeafCapture, DownOnly
  <2>6. \A c \in Read(l)' : Between(l, c)'
    BY <2>3
  <2> QED BY <1>1, <2>1, <2>2, <2>4, <2>5, <2>6, OrderedLeaf
<1> QED BY <1>2, <1>3, <1>4

LEMMA OrderedLeafLoad ==
  ASSUME TierOrdered, NEW l \in Leaves, NEW cs \in SUBSET RelayCells, LeafLoad(l, cs)
  PROVE  TierOrdered'
<1> USE DEF TierOrdered
<1> DEFINE new == [c \in RelayCells |-> IF c \in cs THEN Visible(l, relay.cells[c]) ELSE fan[l].view.content[c]]
           s == [fan[l] EXCEPT !.todo = @ \ cs, !.pc = IF fan[l].todo = cs THEN "push" ELSE "load", !.view.content = new]
<1>1. /\ fan \in [Leaves -> DownStreams] /\ fan[l] \in DownStreams /\ fan[l].pc = "load" /\ relay.loaded = "yes"
      /\ relay.cells \in CellWorlds
      /\ UNCHANGED <<tier, world, ctrl, feed, relay, leafHeld, leafRow, report, folded, budget>>
  BY DEF RelayTypeOK, LeafLoad, DownOnly, StreamsBetween, RelayStates
<1>2. new \in CellWorlds
  BY <1>1, VisibleAt DEF DownStreams, CellWorlds
<1> HIDE DEF new
<1>3. /\ s \in DownStreams /\ s.view.content = new /\ s.todo = fan[l].todo \ cs
      /\ s.pc = IF fan[l].todo = cs THEN "push" ELSE "load"
      /\ s.known = fan[l].known /\ s.acked = fan[l].acked
  BY <1>1, <1>2 DEF DownStreams
<1>4. fan' = [fan EXCEPT ![l] = s]
  BY <1>1 DEF LeafLoad, new
<1> HIDE DEF s
<1>5. Read(l)' \subseteq Read(l) \cup cs /\ Read(l) \subseteq RelayCells
  BY <1>1, <1>3, <1>4 DEF Read, DownStreams
<1>6. ASSUME NEW c \in Read(l)' PROVE Between(l, c)'
  <2>1. c \in RelayCells /\ fan'[l].view.content = new /\ Visible(l, relay.cells[c])' = Visible(l, relay.cells[c])
    BY <1>1, <1>3, <1>4, <1>5 DEF Visible
  <2>2. CASE c \in cs
    <3>1. new[c] = Visible(l, relay.cells[c]) /\ new[c] \in Revisions
      BY <2>1, <2>2, <1>2 DEF new, CellWorlds
    <3>2. \A g \in RelayGateways : leafHeld[l][c][g] =< new[c][g] /\ new[c][g] \in Nat
      BY <1>1, <2>1, <3>1 DEF LeavesBehind, Covers, Revisions
    <3> QED BY <1>1, <2>1, <3>1, <3>2 DEF Between
  <2>3. CASE c \notin cs
    <3>1. new[c] = fan[l].view.content[c] /\ Between(l, c)
      BY <1>5, <1>6, <2>1, <2>3 DEF new, StreamsBetween
    <3> QED BY <1>1, <2>1, <3>1 DEF Between
  <2> QED BY <2>2, <2>3
<1>7. fan[l].known = "yes" => leafHeld[l] = fan[l].acked
  BY <1>1 DEF StreamsBetween
<1>8. report \in [Leaves -> Nat] /\ folded \in [Leaves -> Nat] /\ leafRow \in [Leaves -> Nat] /\ budget \in Budgets
  BY DEF RelayTypeOK
<1> QED BY <1>1, <1>3, <1>4, <1>6, <1>7, <1>8, OrderedLeaf

LEMMA OrderedLeafPush ==
  ASSUME TierOrdered, NEW l \in Leaves, LeafPush(l)
  PROVE  TierOrdered'
<1> USE DEF TierOrdered
<1>1. /\ fan \in [Leaves -> DownStreams] /\ fan[l] \in DownStreams /\ fan[l].pc = "push" /\ relay.loaded = "yes"
      /\ (fan[l].known = "yes" => leafHeld[l] = fan[l].acked)
      /\ report \in [Leaves -> Nat] /\ folded \in [Leaves -> Nat] /\ leafRow \in [Leaves -> Nat] /\ budget \in Budgets
      /\ UNCHANGED <<tier, world, ctrl, feed, relay, leafHeld, report, folded, budget>>
  BY DEF RelayTypeOK, LeafPush, DownOnly, StreamsBetween
<1>2. leafRow[l] \in Nat /\ ViewSeq(l) \in Nat
  BY <1>1, ViewSeqType
<1>3. Max({leafRow[l], ViewSeq(l)}) \in Nat
  BY <1>2, Later
<1>4. CASE fan[l].known = "yes" /\ fan[l].acked = fan[l].view.content
  <2> DEFINE s == [fan[l] EXCEPT !.pc = "idle", !.view = NoDownView]
  <2>1. NoDownView \in [seq : Nat, content : CellWorlds]
    BY IdleTypes DEF NoDownView
  <2>2. s \in DownStreams /\ s.pc = "idle" /\ s.known = fan[l].known /\ s.acked = fan[l].acked
    BY <1>1, <2>1 DEF DownStreams
  <2>3. fan' = [fan EXCEPT ![l] = s] /\ leafRow' \in [Leaves -> Nat]
    BY <1>1, <1>3, <1>4 DEF LeafPush
  <2> HIDE DEF s
  <2>4. Read(l)' = {}
    BY <1>1, <2>2, <2>3 DEF Read
  <2> QED BY <1>1, <2>2, <2>3, <2>4, OrderedLeaf
<1>5. CASE ~(fan[l].known = "yes" /\ fan[l].acked = fan[l].view.content)
  <2> DEFINE s == [fan[l] EXCEPT !.pc = "sent"]
  <2>1. s \in DownStreams /\ s.pc = "sent" /\ s.known = fan[l].known /\ s.acked = fan[l].acked /\ s.view = fan[l].view
    BY <1>1 DEF DownStreams
  <2>2. fan' = [fan EXCEPT ![l] = s] /\ leafRow' = leafRow
    BY <1>1, <1>5 DEF LeafPush
  <2> HIDE DEF s
  <2>3. Read(l)' = RelayCells /\ Read(l) = RelayCells
    BY <1>1, <2>1, <2>2 DEF Read
  <2>4. \A c \in RelayCells : Between(l, c)'
    BY <1>1, <2>1, <2>2, <2>3 DEF StreamsBetween, Between, Visible
  <2> QED BY <1>1, <2>1, <2>2, <2>3, <2>4, OrderedLeaf
<1> QED BY <1>4, <1>5

LEMMA OrderedLeafAck ==
  ASSUME TierOrdered, NEW l \in Leaves, LeafAck(l)
  PROVE  TierOrdered'
<1> USE DEF TierOrdered
<1> DEFINE s == [DownIdle EXCEPT !.pc = "idle", !.dirty = "yes", !.acked = fan[l].view.content, !.known = "yes"]
<1>1. /\ fan \in [Leaves -> DownStreams] /\ fan[l].view.content \in CellWorlds /\ fan[l].pc = "applied"
      /\ relay.loaded = "yes" /\ leafHeld[l] = fan[l].view.content
      /\ report \in [Leaves -> Nat] /\ folded \in [Leaves -> Nat] /\ leafRow \in [Leaves -> Nat] /\ budget \in Budgets
      /\ UNCHANGED <<tier, world, ctrl, feed, relay, leafHeld, report, folded, budget>>
  BY DEF RelayTypeOK, DownStreams, LeafAck, DownOnly, StreamsBetween
<1>2. leafRow[l] \in Nat /\ ViewSeq(l) \in Nat
  BY <1>1, ViewSeqType
<1>3. Max({leafRow[l], ViewSeq(l)}) \in Nat
  BY <1>2, Later
<1>4. s \in DownStreams /\ s.pc = "idle" /\ s.acked = fan[l].view.content
  BY <1>1, IdleTypes DEF DownIdle, DownStreams, YesNo
<1>5. fan' = [fan EXCEPT ![l] = s] /\ leafRow' \in [Leaves -> Nat]
  BY <1>1, <1>3 DEF LeafAck
<1> HIDE DEF s
<1>6. Read(l)' = {}
  BY <1>1, <1>4, <1>5 DEF Read
<1> QED BY <1>1, <1>4, <1>5, <1>6, OrderedLeaf

LEMMA OrderedLeafApply ==
  ASSUME TierOrdered, NEW l \in Leaves, LeafApply(l)
  PROVE  TierOrdered'
<1> USE DEF TierOrdered
<1> DEFINE new == fan[l].view.content
<1>1. /\ fan \in [Leaves -> DownStreams] /\ fan[l] \in DownStreams /\ fan[l].pc = "sent" /\ relay.loaded = "yes"
      /\ new \in CellWorlds /\ leafHeld \in [Leaves -> CellWorlds]
      /\ UNCHANGED <<tier, world, ctrl, feed, relay, leafRow, report, folded, budget>>
  BY DEF RelayTypeOK, DownStreams, LeafApply, DownOnly, StreamsBetween
<1>2. /\ \A m \in Leaves : leafHeld'[m] = IF m = l THEN new ELSE leafHeld[m]
      /\ leafHeld' \in [Leaves -> CellWorlds]
  BY <1>1 DEF LeafApply
<1>3. /\ fan' \in [Leaves -> DownStreams]
      /\ \A m \in Leaves : m # l => fan'[m] = fan[m]
      /\ fan'[l].pc = "applied" /\ fan'[l].view = fan[l].view
  BY <1>1 DEF LeafApply, DownStreams
<1>4. ASSUME NEW c \in RelayCells, NEW g \in RelayGateways
      PROVE  new[c][g] \in Nat /\ leafHeld[l][c][g] =< new[c][g] /\ new[c][g] =< Visible(l, relay.cells[c])[g]
  <2>1. Read(l) = RelayCells
    BY <1>1 DEF Read
  <2> QED BY <2>1, Naturals DEF StreamsBetween, Between
<1> HIDE DEF new
<1>5. RelayTypeOK'
  BY <1>1, <1>2, <1>3 DEF RelayTypeOK
<1>6. StampsBounded'
  BY <1>1 DEF StampsBounded
<1>7. RelayBehind'
  BY <1>1 DEF RelayBehind, InFlight
<1>8. LeavesBehind'
  <2>1. ASSUME NEW c \in RelayCells, NEW w \in Revisions, \A g \in RelayGateways : relay.cells[c][g] =< w[g],
               NEW g \in RelayGateways
        PROVE  new[c][g] =< Visible(l, w)[g]
    <3>1. relay.cells[c] \in Revisions
      BY DEF RelayTypeOK, RelayStates, CellWorlds
    <3>2. Visible(l, relay.cells[c])[g] =< Visible(l, w)[g]
      BY <2>1, <3>1, VisibleAt DEF Revisions
    <3>3. Visible(l, relay.cells[c])[g] \in Nat /\ Visible(l, w)[g] \in Nat
      BY <3>1, VisibleAt DEF Revisions
    <3> QED BY <1>4, <3>2, <3>3
  <2>2. ASSUME NEW c \in RelayCells
        PROVE  /\ \A g \in RelayGateways : new[c][g] =< Visible(l, world)[g] /\ new[c][g] =< Visible(l, relay.cells[c])[g]
               /\ InFlight => \A g \in RelayGateways : new[c][g] =< Visible(l, feed.view.content)[g]
    <3>1. world \in Revisions /\ feed.view.content \in Revisions
      BY DEF RelayTypeOK, UpStreams
    <3> QED BY <1>4, <2>1, <3>1 DEF RelayBehind
  <2>4. InFlight' = InFlight
    BY <1>1 DEF InFlight
  <2> SUFFICES ASSUME NEW m \in Leaves, NEW c \in RelayCells
               PROVE  /\ Covers(m, c, world)'
                      /\ InFlight' => Covers(m, c, feed.view.content)'
                      /\ relay'.loaded = "yes" => Covers(m, c, relay.cells[c])'
    BY DEF LeavesBehind
  <2>5. CASE m = l
    BY <1>1, <1>2, <2>2, <2>4, <2>5 DEF Covers, Visible
  <2>6. CASE m # l
    BY <1>1, <1>2, <2>4, <2>6 DEF LeavesBehind, Covers, Visible
  <2> QED BY <2>5, <2>6
<1>9. StreamsBetween'
  <2>1. ASSUME NEW m \in Leaves, m # l
        PROVE  Read(m)' = Read(m) /\ \A c \in RelayCells : Between(m, c)' <=> Between(m, c)
    BY <1>1, <1>2, <1>3, <2>1 DEF Read, Between, Visible
  <2>2. \A c \in RelayCells : Between(l, c)'
    BY <1>1, <1>2, <1>3, <1>4 DEF Between, Visible, new
  <2>3. \A m \in Leaves : Read(m) \subseteq RelayCells /\ Read(m)' \subseteq RelayCells
    BY DEF Read
  <2>4. leafHeld'[l] = fan'[l].view.content
    BY <1>2, <1>3 DEF new
  <2> QED BY <1>1, <1>2, <1>3, <2>1, <2>2, <2>3, <2>4 DEF StreamsBetween
<1> QED BY <1>5, <1>6, <1>7, <1>8, <1>9

LEMMA OrderedRoster ==
  ASSUME TierOrdered, ReportRoster \/ FoldRoster \/ UNCHANGED relayVars
  PROVE  TierOrdered'
<1> USE DEF TierOrdered
<1>1. /\ UNCHANGED <<tier, world, ctrl, feed, relay, fan, leafHeld, leafRow, budget>>
      /\ report' \in [Leaves -> Nat] /\ folded' \in [Leaves -> Nat]
  BY DEF ReportRoster, FoldRoster, RelayTypeOK, relayVars
<1>2. RelayTypeOK'
  BY <1>1 DEF RelayTypeOK
<1>3. StampsBounded'
  BY <1>1 DEF StampsBounded
<1>4. RelayBehind'
  BY <1>1 DEF RelayBehind, InFlight
<1>5. LeavesBehind'
  BY <1>1 DEF LeavesBehind, Covers, Visible, InFlight
<1>6. StreamsBetween'
  BY <1>1 DEF StreamsBetween, Read, Between, Visible
<1> QED BY <1>2, <1>3, <1>4, <1>5, <1>6

\* The steps of the specification, taken apart.
LEMMA Steps ==
  ASSUME RelayTypeOK, [RelayNext]_relayVars
  PROVE  \/ \E changed, edited \in SUBSET RelayGateways : PublishStore(changed, edited)
         \/ PublishStep
         \/ Failover
         \/ UpConnect \/ UpDrop \/ RelayNack
         \/ UpCapture \/ UpLoad \/ UpMeta \/ UpPush
         \/ RelayStage \/ (\E cs \in SUBSET RelayCells : RelayStore(cs)) \/ RelayCommit \/ RelayRestart
         \/ \E l \in Leaves : \/ LeafConnect(l) \/ LeafDrop(l) \/ LeafCapture(l)
                              \/ \E cs \in SUBSET RelayCells : LeafLoad(l, cs)
                              \/ LeafPush(l) \/ LeafApply(l) \/ LeafAck(l)
         \/ ReportRoster \/ FoldRoster \/ UNCHANGED relayVars
<1>1. Serves[tier] \subseteq RelayGateways
  BY ServesAssumption DEF RelayTypeOK
<1>2. (\E changed, edited \in SUBSET Serves[tier] : PublishStore(changed, edited))
        => \E changed, edited \in SUBSET RelayGateways : PublishStore(changed, edited)
  BY <1>1
<1> QED BY <1>2, Zenon DEF RelayNext, UpStep, RelayStep, LeafStep

LEMMA OrderedNext == TierOrdered /\ [RelayNext]_relayVars => TierOrdered'
<1> SUFFICES ASSUME TierOrdered, [RelayNext]_relayVars PROVE TierOrdered'
  OBVIOUS
<1>1. RelayTypeOK
  BY DEF TierOrdered
<1> QED BY <1>1, Steps, OrderedPublishStore, OrderedPublish, OrderedFailover, OrderedUpRestart, OrderedUpCapture,
          OrderedUpLoad, OrderedUpMeta, OrderedUpPush, OrderedStage, OrderedStore, OrderedCommit, OrderedRestart,
          OrderedLeafJoin, OrderedLeafLoad, OrderedLeafPush, OrderedLeafApply, OrderedLeafAck, OrderedRoster

LEMMA OrderedAlways == RelaySafety => []TierOrdered
BY OrderedInit, OrderedNext, PTL DEF RelaySafety

\* RelayTypes: every state of the controller's index, of the two kinds of streams, of
\* the relay and of the roster has the type it declares; in particular the sequence a
\* namespace relay re-stamps with, the highest of the stamps it received, exists.
THEOREM RelayTypes == RelaySpec => []RelayTypeOK
BY OrderedAlways, PTL DEF RelaySpec, TierOrdered

\* LeafNeverBlanked: whatever is lost or restarted, in both shapes of the relay and
\* across failovers, no step takes a Gateway's content away from a leaf or puts an
\* older one in its place: a relay that restarts serves only once it has applied a
\* snapshot, and what it serves is never older than what the leaf has.
THEOREM LeafNeverBlanked == RelaySpec => NoBlackout
<1>1. TierOrdered /\ [RelayNext]_relayVars
        => [\A l \in Leaves, c \in RelayCells, g \in RelayGateways : leafHeld'[l][c][g] >= leafHeld[l][c][g]]_relayVars
  <2> SUFFICES ASSUME TierOrdered, [RelayNext]_relayVars, NEW l \in Leaves, NEW c \in RelayCells, NEW g \in RelayGateways
               PROVE  leafHeld'[l][c][g] >= leafHeld[l][c][g]
    OBVIOUS
  <2>1. RelayTypeOK
    BY DEF TierOrdered
  <2>2. leafHeld' = leafHeld \/ \E m \in Leaves : LeafApply(m)
    BY <2>1, Steps DEF PublishStore, PublishStep, PublishBump, PublishStamp, Failover, UpConnect, UpDrop, RelayNack,
         UpCapture, UpLoad, UpMeta, UpPush, UpOnly, RelayStage, RelayStore, RelayCommit, RelayRestart, LeafConnect,
         LeafDrop, LeafCapture, LeafLoad, LeafPush, LeafAck, ReportRoster, FoldRoster, relayVars
  <2>3. ASSUME NEW m \in Leaves, LeafApply(m) PROVE leafHeld'[l][c][g] >= leafHeld[l][c][g]
    <3>1. leafHeld'[l] = IF l = m THEN fan[l].view.content ELSE leafHeld[l]
      BY <2>1, <2>3 DEF LeafApply, RelayTypeOK
    <3>2. l = m => leafHeld[l][c][g] =< fan[l].view.content[c][g]
      BY <2>3 DEF TierOrdered, LeafApply, StreamsBetween, Read, Between
    <3> QED BY <2>1, <3>1, <3>2, Naturals
  <2> QED BY <2>1, <2>2, <2>3, Naturals
<1> QED BY <1>1, OrderedAlways, PTL DEF RelaySpec, RelaySafety, NoBlackout

-----------------------------------------------------------------------------
(* What a sequence vouches for *)

\* A copy w labelled with sequence s, when the controller's index is k and its content
\* is top: s was assigned, w has what every stamp up to s was assigned for, and, between
\* the fence and the stamps, what the stamps are about to be assigned for.
Fresh(k, top, s, w) ==
  /\ s =< k.counter
  /\ \A g \in RelayGateways :
       /\ k.stamps[g].seq > 0 /\ s >= k.stamps[g].seq => w[g] >= k.stamps[g].rev
       /\ k.pc = "bumped" /\ s >= k.counter => w[g] >= top[g]

\* The label of every copy on the way from the controller to the folded roster.
FeedFresh == /\ feed.view.seq =< ctrl.counter
             /\ InFlight => Fresh(ctrl, world, feed.view.seq, feed.view.content)
RelayFresh == \A c \in RelayCells : Fresh(ctrl, world, relay.counter, relay.cells[c])
FanFresh ==
  \A l \in Leaves :
    /\ fan[l].view.seq =< relay.counter
    /\ \A c \in Read(l) : Fresh(ctrl, world, fan[l].view.seq, fan[l].view.content[c])
RowsFresh ==
  \A l \in Leaves, c \in RelayCells :
    /\ Fresh(ctrl, world, leafRow[l], leafHeld[l][c])
    /\ Fresh(ctrl, world, report[l], leafHeld[l][c])
    /\ Fresh(ctrl, world, folded[l], leafHeld[l][c])

AllFresh == FeedFresh /\ RelayFresh /\ FanFresh /\ RowsFresh

\* One controller leads, and the relay is a shared one.
OneLeader == tier = "shared" /\ budget.leader = "first"

TierFresh == OneLeader => AllFresh

\* The controller's own content is fresh under every sequence it assigned: a sequence
\* captured before the content is read is an honest label.
LEMMA FreshTop ==
  ASSUME TierOrdered, NEW s \in Nat, s =< ctrl.counter
  PROVE  Fresh(ctrl, world, s, world)
<1>1. RelayTypeOK /\ StampsBounded
  BY DEF TierOrdered
<1> QED BY <1>1, Naturals DEF Fresh, StampsBounded

\* Newer content, and an older label, are as fresh.
LEMMA FreshMore ==
  ASSUME TierOrdered, NEW s \in Nat, NEW t \in Nat, NEW w \in Revisions, NEW x \in Revisions,
         Fresh(ctrl, world, s, w), t =< s, \A g \in RelayGateways : w[g] =< x[g]
  PROVE  Fresh(ctrl, world, t, x)
<1>1. RelayTypeOK
  BY DEF TierOrdered
<1>2. \A g \in RelayGateways : w[g] \in Nat /\ x[g] \in Nat
  BY DEF Revisions
<1> QED BY <1>1, <1>2, Naturals DEF Fresh

\* Nothing is vouched for by the sequence of a process that has just started.
LEMMA FreshZero ==
  ASSUME TierOrdered, NEW w
  PROVE  Fresh(ctrl, world, 0, w)
<1>1. RelayTypeOK /\ StampsBounded
  BY DEF TierOrdered
<1> QED BY <1>1, Naturals DEF Fresh, StampsBounded

\* A rebuild keeps every label honest: new content is stored before the fence moves,
\* and a stamp is assigned behind the fence, for content no later capture can miss.
LEMMA FreshPublish ==
  ASSUME TierOrdered, PublishStep \/ \E changed, edited \in SUBSET RelayGateways : PublishStore(changed, edited)
  PROVE  \A s \in Nat : \A w \in Revisions : Fresh(ctrl, world, s, w) => Fresh(ctrl', world', s, w)
<1> SUFFICES ASSUME NEW s \in Nat, NEW w \in Revisions, Fresh(ctrl, world, s, w)
             PROVE  Fresh(ctrl', world', s, w)
  OBVIOUS
<1>1. RelayTypeOK /\ StampsBounded /\ ctrl \in Controllers
  BY DEF TierOrdered, RelayTypeOK
<1>2. CASE \E changed, edited \in SUBSET RelayGateways : PublishStore(changed, edited)
  <2>1. ctrl'.counter = ctrl.counter /\ ctrl'.stamps = ctrl.stamps /\ ctrl'.pc = "stored"
    BY <1>1, <1>2 DEF PublishStore, Controllers
  <2> QED BY <2>1 DEF Fresh
<1>3. CASE PublishBump
  <2>1. ctrl'.counter = ctrl.counter + 1 /\ ctrl'.stamps = ctrl.stamps
    BY <1>1, <1>3 DEF PublishBump, Controllers
  <2> QED BY <1>1, <2>1, Naturals DEF Fresh
<1>4. CASE PublishStamp
  <2>1. /\ ctrl'.counter = ctrl.counter /\ ctrl'.pc = "idle" /\ ctrl.pc = "bumped"
        /\ ctrl'.stamps = [g \in RelayGateways |-> IF g \in ctrl.todo /\ world[g] > 0
                             THEN [seq |-> ctrl.counter, rev |-> world[g]] ELSE ctrl.stamps[g]]
    BY <1>1, <1>4 DEF PublishStamp, Controllers
  <2>2. ASSUME NEW g \in RelayGateways, s >= ctrl'.stamps[g].seq, ctrl'.stamps[g].seq > 0
        PROVE  w[g] >= ctrl'.stamps[g].rev
    <3>1. CASE g \in ctrl.todo /\ world[g] > 0
      BY <2>1, <2>2, <3>1 DEF Fresh
    <3>2. CASE ~(g \in ctrl.todo /\ world[g] > 0)
      BY <2>1, <2>2, <3>2 DEF Fresh
    <3> QED BY <3>1, <3>2
  <2> QED BY <2>1, <2>2 DEF Fresh
<1> QED BY <1>2, <1>3, <1>4 DEF PublishStep

-----------------------------------------------------------------------------
(* Every step keeps the labels honest *)

\* The values that carry labels.
LEMMA Worlds ==
  ASSUME TierOrdered
  PROVE  /\ RelayTypeOK /\ world \in Revisions /\ feed.view.content \in Revisions
         /\ feed.view.seq \in Nat /\ relay.counter \in Nat /\ ctrl.counter \in Nat
         /\ \A c \in RelayCells : relay.cells[c] \in Revisions
         /\ \A l \in Leaves : /\ fan[l].view.seq \in Nat /\ leafRow[l] \in Nat /\ report[l] \in Nat /\ folded[l] \in Nat
                              /\ \A c \in RelayCells : fan[l].view.content[c] \in Revisions /\ leafHeld[l][c] \in Revisions
         /\ \A l \in Leaves : Read(l) \subseteq RelayCells
<1>1. RelayTypeOK
  BY DEF TierOrdered
<1>2. /\ feed \in UpStreams /\ relay \in RelayStates /\ fan \in [Leaves -> DownStreams]
      /\ leafHeld \in [Leaves -> CellWorlds] /\ world \in Revisions
      /\ leafRow \in [Leaves -> Nat] /\ report \in [Leaves -> Nat] /\ folded \in [Leaves -> Nat]
  BY <1>1 DEF RelayTypeOK
<1>3. \A l \in Leaves : fan[l].view.content \in CellWorlds /\ leafHeld[l] \in CellWorlds /\ fan[l].view.seq \in Nat
  BY <1>2 DEF DownStreams
<1>4. relay.cells \in CellWorlds
  BY <1>2 DEF RelayStates
<1>5. \A l \in Leaves : Read(l) \subseteq RelayCells
  BY DEF Read
<1> QED BY <1>1, <1>2, <1>3, <1>4, <1>5, Naturals DEF CellWorlds, UpStreams

LEMMA FreshController ==
  ASSUME TierOrdered, AllFresh,
         PublishStep \/ \E changed, edited \in SUBSET RelayGateways : PublishStore(changed, edited)
  PROVE  AllFresh'
<1>1. /\ feed' = feed \/ feed' = Wake(feed)
      /\ UNCHANGED <<tier, relay, fan, leafHeld, leafRow, report, folded>>
  BY DEF PublishStep, PublishBump, PublishStamp, PublishStore
<1>2. feed'.view = feed.view /\ feed'.pc = feed.pc /\ InFlight' = InFlight
  BY <1>1, Worlds DEF Wake, RelayTypeOK, UpStreams, InFlight
<1>3. \A s \in Nat : \A w \in Revisions : Fresh(ctrl, world, s, w) => Fresh(ctrl', world', s, w)
  BY FreshPublish
<1>4. ctrl.counter =< ctrl'.counter /\ ctrl'.counter \in Nat
  <2>1. ctrl'.counter = ctrl.counter \/ ctrl'.counter = ctrl.counter + 1
    <3>1. ctrl \in Controllers
      BY Worlds DEF RelayTypeOK
    <3>2. CASE PublishBump
      BY <3>1, <3>2 DEF PublishBump, Controllers
    <3>3. CASE PublishStamp
      BY <3>1, <3>3 DEF PublishStamp, Controllers
    <3>4. CASE \E changed, edited \in SUBSET RelayGateways : PublishStore(changed, edited)
      BY <3>1, <3>4 DEF PublishStore, Controllers
    <3> QED BY <3>2, <3>3, <3>4 DEF PublishStep
  <2> QED BY <2>1, Worlds
<1>5. FeedFresh'
  BY <1>2, <1>3, <1>4, Worlds DEF AllFresh, FeedFresh
<1>6. RelayFresh'
  BY <1>1, <1>3, Worlds DEF AllFresh, RelayFresh
<1>7. FanFresh'
  <2>1. \A l \in Leaves : Read(l)' = Read(l)
    BY <1>1 DEF Read
  <2> QED BY <1>1, <1>3, <2>1, Worlds DEF AllFresh, FanFresh
<1>8. RowsFresh'
  BY <1>1, <1>3, Worlds DEF AllFresh, RowsFresh
<1> QED BY <1>5, <1>6, <1>7, <1>8 DEF AllFresh

\* The parts of the label chain that a step leaves alone.
LEMMA FreshFrame ==
  ASSUME UNCHANGED <<ctrl, world>>
  PROVE  /\ feed' = feed => (FeedFresh => FeedFresh')
         /\ relay' = relay => (RelayFresh => RelayFresh')
         /\ relay' = relay /\ fan' = fan => (FanFresh => FanFresh')
         /\ UNCHANGED <<leafHeld, leafRow, report, folded>> => (RowsFresh => RowsFresh')
BY DEF FeedFresh, InFlight, RelayFresh, FanFresh, Read, RowsFresh

LEMMA FreshUpstream ==
  ASSUME TierOrdered, AllFresh,
         \/ UpConnect \/ UpDrop \/ RelayNack \/ UpCapture \/ UpLoad \/ UpMeta \/ UpPush
  PROVE  AllFresh'
<1>1. /\ UNCHANGED <<tier, world, ctrl, relay, fan, leafHeld, leafRow, report>>
      /\ folded' = folded \/ folded' = [l \in Leaves |-> 0]
  BY DEF UpConnect, UpDrop, RelayNack, UpCapture, UpLoad, UpMeta, UpPush, UpOnly, UpLost
<1>2. RelayFresh' /\ FanFresh'
  BY <1>1, FreshFrame DEF AllFresh
<1>3. RowsFresh'
  BY <1>1, FreshZero DEF AllFresh, RowsFresh
<1>4. FeedFresh'
  <2>1. CASE UpConnect \/ UpDrop \/ RelayNack
    <3>1. feed' = UpIdle \/ feed' = [UpIdle EXCEPT !.pc = "idle", !.dirty = "yes"]
      BY <2>1 DEF UpConnect, UpDrop, RelayNack, UpLost
    <3>2. feed'.view.seq = 0 /\ ~InFlight'
      <4>1. CASE feed' = UpIdle
        BY <4>1 DEF UpIdle, NoUpView, InFlight
      <4>2. CASE feed' = [UpIdle EXCEPT !.pc = "idle", !.dirty = "yes"]
        BY <4>2 DEF UpIdle, NoUpView, InFlight
      <4> QED BY <3>1, <4>1, <4>2
    <3> QED BY <1>1, <3>2, Worlds DEF FeedFresh
  <2>2. CASE UpCapture
    <3>1. feed'.view.seq = ctrl.counter /\ feed'.pc = "load"
      BY <2>2, Worlds DEF UpCapture, RelayTypeOK, UpStreams
    <3> QED BY <1>1, <3>1, Worlds DEF FeedFresh, InFlight
  <2>3. CASE UpLoad
    <3>1. feed'.view.seq = feed.view.seq /\ feed'.view.content = world
      BY <2>3, Worlds DEF UpLoad, RelayTypeOK, UpStreams
    <3> QED BY <1>1, <3>1, Worlds, FreshTop DEF FeedFresh, AllFresh
  <2>4. CASE UpMeta
    <3>1. feed'.view.seq = feed.view.seq /\ feed'.view.content = feed.view.content /\ InFlight
      BY <2>4, Worlds DEF UpMeta, RelayTypeOK, UpStreams, InFlight
    <3> QED BY <1>1, <3>1 DEF FeedFresh, AllFresh
  <2>5. CASE UpPush
    <3>1. CASE UpUnchanged
      <4>1. feed'.view.seq = 0 /\ feed'.pc = "idle"
        BY <2>5, <3>1, Worlds DEF UpPush, RelayTypeOK, UpStreams, NoUpView
      <4> QED BY <1>1, <4>1, Worlds DEF FeedFresh, InFlight
    <3>2. CASE ~UpUnchanged
      <4>1. feed'.view = feed.view /\ InFlight
        BY <2>5, <3>2, Worlds DEF UpPush, RelayTypeOK, UpStreams, InFlight
      <4> QED BY <1>1, <4>1 DEF FeedFresh, AllFresh
    <3> QED BY <3>1, <3>2
  <2> QED BY <2>1, <2>2, <2>3, <2>4, <2>5
<1> QED BY <1>2, <1>3, <1>4 DEF AllFresh

\* The cells are stored before the counter moves, so the old label stays honest while
\* they are; the counter then moves to the label the content came with.
LEMMA FreshRelay ==
  ASSUME TierOrdered, AllFresh, tier = "shared",
         \/ RelayStage \/ (\E cs \in SUBSET RelayCells : RelayStore(cs)) \/ RelayCommit \/ RelayRestart
  PROVE  AllFresh'
<1>1. UNCHANGED <<tier, world, ctrl, leafHeld>>
  BY DEF RelayStage, RelayStore, RelayCommit, RelayRestart
<1>2. CASE RelayStage
  <2>1. /\ feed'.view = feed.view /\ InFlight /\ relay'.counter = relay.counter /\ relay'.cells = relay.cells
        /\ UNCHANGED <<fan, leafRow, report, folded>>
    BY <1>2, Worlds DEF RelayStage, RelayTypeOK, UpStreams, RelayStates, InFlight
  <2>2. \A l \in Leaves : Read(l)' = Read(l)
    BY <2>1 DEF Read
  <2> QED BY <1>1, <2>1, <2>2, FreshFrame DEF AllFresh, FeedFresh, RelayFresh, FanFresh
<1>3. CASE \E cs \in SUBSET RelayCells : RelayStore(cs)
  <2> PICK cs \in SUBSET RelayCells : RelayStore(cs)
    BY <1>3
  <2>1. /\ relay'.counter = relay.counter /\ InFlight
        /\ relay'.cells = [c \in RelayCells |-> IF c \in cs THEN feed.view.content ELSE relay.cells[c]]
        /\ UNCHANGED <<feed, fan, leafRow, report, folded>>
    BY Worlds DEF RelayStore, RelayTypeOK, RelayStates, InFlight
  <2>2. ASSUME NEW c \in RelayCells PROVE Fresh(ctrl, world, relay.counter, relay'.cells[c])
    <3>1. Fresh(ctrl, world, relay.counter, relay.cells[c])
      BY DEF AllFresh, RelayFresh
    <3>2. \A g \in RelayGateways : relay.cells[c][g] =< feed.view.content[g]
      BY <2>1 DEF TierOrdered, RelayBehind
    <3>3. Fresh(ctrl, world, relay.counter, feed.view.content)
      BY <3>1, <3>2, Worlds, FreshMore
    <3> QED BY <2>1, <3>1, <3>3
  <2>3. \A l \in Leaves : Read(l)' = Read(l)
    BY <2>1 DEF Read
  <2> QED BY <1>1, <2>1, <2>2, <2>3, FreshFrame DEF AllFresh, RelayFresh, FanFresh
<1>4. CASE RelayCommit
  <2>1. /\ relay'.counter = Max({relay.counter, feed.view.seq}) /\ relay'.cells = relay.cells
        /\ InFlight /\ UNCHANGED <<leafRow, report, folded>>
    BY <1>4, Worlds DEF RelayCommit, UpstreamSeq, RelayTypeOK, RelayStates, InFlight
  <2>2. /\ relay'.counter \in Nat /\ relay.counter =< relay'.counter
        /\ relay'.counter = relay.counter \/ relay'.counter = feed.view.seq
    BY <2>1, Worlds, Later
  <2>3. feed'.view.seq = 0 /\ ~InFlight'
    BY <1>4 DEF RelayCommit, UpIdle, NoUpView, InFlight
  <2>4. FeedFresh'
    BY <1>1, <2>3, Worlds DEF FeedFresh
  <2>5. ASSUME NEW c \in RelayCells PROVE Fresh(ctrl, world, relay'.counter, relay'.cells[c])
    <3>1. Fresh(ctrl, world, relay.counter, relay.cells[c]) /\ Fresh(ctrl, world, feed.view.seq, feed.view.content)
      BY <2>1 DEF AllFresh, RelayFresh, FeedFresh
    <3>2. relay.cells[c] = feed.view.content
      BY <1>4 DEF TierOrdered, RelayBehind, RelayCommit
    <3> QED BY <2>1, <2>2, <3>1, <3>2
  <2>6. /\ \A l \in Leaves : fan'[l].view = fan[l].view /\ fan'[l].pc = fan[l].pc /\ fan'[l].todo = fan[l].todo
    BY <1>4, Worlds DEF RelayCommit, Wake, RelayTypeOK, DownStreams
  <2>7. \A l \in Leaves : Read(l)' = Read(l)
    BY <2>6 DEF Read
  <2>8. FanFresh'
    BY <1>1, <2>2, <2>6, <2>7, Worlds DEF AllFresh, FanFresh
  <2> QED BY <1>1, <2>1, <2>4, <2>5, <2>8, FreshFrame DEF AllFresh, RelayFresh
<1>5. CASE RelayRestart
  <2>1. /\ relay'.counter = 0 /\ feed' = UpIdle /\ fan' = [l \in Leaves |-> DownIdle]
        /\ \A l \in Leaves : leafRow'[l] = 0 /\ report'[l] = 0 /\ folded'[l] = 0
    BY <1>5 DEF RelayRestart, UpLost
  <2>2. FeedFresh'
    BY <1>1, <2>1, Worlds DEF FeedFresh, InFlight, UpIdle, NoUpView
  <2>3. RelayFresh' /\ RowsFresh'
    BY <1>1, <2>1, FreshZero DEF RelayFresh, RowsFresh
  <2>4. FanFresh'
    BY <2>1 DEF FanFresh, Read, DownIdle, NoDownView
  <2> QED BY <2>2, <2>3, <2>4 DEF AllFresh
<1> QED BY <1>2, <1>3, <1>4, <1>5

\* A step of leaf l's stream that applies nothing.
LEMMA FreshLeaf ==
  ASSUME TierOrdered, AllFresh, NEW l \in Leaves, NEW s, NEW row, fan' = [fan EXCEPT ![l] = s],
         leafRow' = [leafRow EXCEPT ![l] = row],
         UNCHANGED <<world, ctrl, feed, relay, leafHeld, report, folded>>,
         s.view.seq =< relay.counter,
         \A c \in Read(l)' : Fresh(ctrl, world, s.view.seq, s.view.content[c]),
         \A c \in RelayCells : Fresh(ctrl, world, row, leafHeld[l][c])
  PROVE  AllFresh'
<1>1. fan \in [Leaves -> DownStreams] /\ leafRow \in [Leaves -> Nat]
  BY Worlds DEF RelayTypeOK
<1>2. \A m \in Leaves : /\ fan'[m] = IF m = l THEN s ELSE fan[m]
                        /\ leafRow'[m] = IF m = l THEN row ELSE leafRow[m]
  BY <1>1
<1>3. \A m \in Leaves : m # l => Read(m)' = Read(m)
  BY <1>2 DEF Read
<1>4. FanFresh'
  BY <1>2, <1>3 DEF AllFresh, FanFresh
<1>5. RowsFresh'
  BY <1>2 DEF AllFresh, RowsFresh
<1> QED BY <1>4, <1>5, FreshFrame DEF AllFresh

\* record_ack and a quiet push take a label that is honest for what the leaf holds.
LEMMA FreshCredit ==
  ASSUME TierOrdered, AllFresh, tier = "shared", NEW l \in Leaves,
         \A c \in RelayCells : Fresh(ctrl, world, fan[l].view.seq, leafHeld[l][c])
  PROVE  \A c \in RelayCells : Fresh(ctrl, world, Max({leafRow[l], ViewSeq(l)}), leafHeld[l][c])
<1>1. ViewSeq(l) = fan[l].view.seq
  BY DEF ViewSeq
<1>2. Max({leafRow[l], ViewSeq(l)}) = leafRow[l] \/ Max({leafRow[l], ViewSeq(l)}) = fan[l].view.seq
  BY <1>1, Worlds, Later
<1> QED BY <1>2 DEF AllFresh, RowsFresh

LEMMA FreshLeaves ==
  ASSUME TierOrdered, AllFresh, tier = "shared", NEW l \in Leaves,
         \/ LeafConnect(l) \/ LeafDrop(l) \/ LeafCapture(l)
         \/ \E cs \in SUBSET RelayCells : LeafLoad(l, cs)
         \/ LeafPush(l) \/ LeafAck(l)
  PROVE  AllFresh'
<1>1. /\ UNCHANGED <<tier, world, ctrl, feed, relay, leafHeld, report, folded>>
      /\ fan \in [Leaves -> DownStreams] /\ fan[l] \in DownStreams /\ leafRow \in [Leaves -> Nat]
  BY Worlds DEF LeafConnect, LeafDrop, LeafCapture, LeafLoad, LeafPush, LeafAck, DownOnly, RelayTypeOK
<1>2. leafRow = [leafRow EXCEPT ![l] = leafRow[l]]
  BY <1>1
<1>3. /\ \A c \in RelayCells : Fresh(ctrl, world, 0, leafHeld[l][c]) /\ Fresh(ctrl, world, leafRow[l], leafHeld[l][c])
      /\ fan[l].view.seq =< relay.counter /\ 0 =< relay.counter
      /\ \A c \in Read(l) : Fresh(ctrl, world, fan[l].view.seq, fan[l].view.content[c])
  BY FreshZero, Worlds DEF AllFresh, RowsFresh, FanFresh
<1>4. CASE LeafConnect(l)
  <2> DEFINE s == [DownIdle EXCEPT !.pc = "idle", !.dirty = "yes"]
  <2>1. fan' = [fan EXCEPT ![l] = s] /\ leafRow' = [leafRow EXCEPT ![l] = 0] /\ s.view.seq = 0 /\ s.pc = "idle"
    BY <1>4 DEF LeafConnect, DownIdle, NoDownView
  <2> HIDE DEF s
  <2>2. Read(l)' = {}
    BY <1>1, <2>1 DEF Read
  <2> QED BY <1>1, <1>3, <2>1, <2>2, FreshLeaf
<1>5. CASE LeafDrop(l)
  <2>1. fan' = [fan EXCEPT ![l] = DownIdle] /\ leafRow' = [leafRow EXCEPT ![l] = 0]
        /\ DownIdle.view.seq = 0 /\ DownIdle.pc = "down"
    BY <1>5 DEF LeafDrop, DownIdle, NoDownView
  <2>2. Read(l)' = {}
    BY <1>1, <2>1 DEF Read
  <2> QED BY <1>1, <1>3, <2>1, <2>2, FreshLeaf
<1>6. CASE LeafCapture(l)
  <2> DEFINE s == [fan[l] EXCEPT !.pc = "load", !.dirty = "no", !.todo = RelayCells,
                                 !.view = [seq |-> relay.counter, content |-> NoCells]]
  <2>1. fan' = [fan EXCEPT ![l] = s] /\ leafRow' = leafRow
        /\ s.view.seq = relay.counter /\ s.pc = "load" /\ s.todo = RelayCells
    BY <1>1, <1>6 DEF LeafCapture, DownStreams
  <2> HIDE DEF s
  <2>2. Read(l)' = {}
    BY <1>1, <2>1 DEF Read
  <2>3. s.view.seq =< relay.counter /\ leafRow' = [leafRow EXCEPT ![l] = leafRow[l]]
    BY <1>2, <2>1, Worlds
  <2>4. \A c \in Read(l)' : Fresh(ctrl, world, s.view.seq, s.view.content[c])
    BY <2>2
  <2> QED BY <1>1, <1>3, <2>1, <2>3, <2>4, FreshLeaf
<1>7. ASSUME NEW cs \in SUBSET RelayCells, LeafLoad(l, cs) PROVE AllFresh'
  <2> DEFINE new == [c \in RelayCells |-> IF c \in cs THEN relay.cells[c] ELSE fan[l].view.content[c]]
             s == [fan[l] EXCEPT !.todo = @ \ cs, !.pc = IF fan[l].todo = cs THEN "push" ELSE "load", !.view.content = new]
  <2>1. /\ fan' = [fan EXCEPT ![l] = s] /\ leafRow' = leafRow /\ fan[l].pc = "load"
        /\ s.view.seq = fan[l].view.seq /\ s.view.content = new /\ s.todo = fan[l].todo \ cs
        /\ s.pc = IF fan[l].todo = cs THEN "push" ELSE "load"
    BY <1>1, <1>7 DEF LeafLoad, Visible, DownStreams
  <2> HIDE DEF s
  <2>2. Read(l)' \subseteq Read(l) \cup cs
    BY <1>1, <2>1 DEF Read, DownStreams
  <2>3. ASSUME NEW c \in Read(l)' PROVE Fresh(ctrl, world, fan[l].view.seq, new[c])
    <3>1. CASE c \in cs
      <4>1. Fresh(ctrl, world, relay.counter, relay.cells[c]) /\ c \in RelayCells
        BY <3>1 DEF AllFresh, RelayFresh
      <4>2. \A g \in RelayGateways : relay.cells[c][g] =< relay.cells[c][g]
        BY <4>1, Worlds, Naturals
      <4>3. Fresh(ctrl, world, fan[l].view.seq, relay.cells[c])
        BY <1>3, <4>1, <4>2, Worlds, FreshMore
      <4> QED BY <3>1, <4>1, <4>3
    <3>2. CASE c \notin cs
      BY <1>3, <2>2, <2>3, <3>2, Worlds
    <3> QED BY <3>1, <3>2
  <2> HIDE DEF new
  <2> QED BY <1>1, <1>2, <1>3, <2>1, <2>3, FreshLeaf
<1>8. CASE LeafPush(l)
  <2>1. Read(l) = RelayCells
    BY <1>8 DEF Read, LeafPush
  <2>2. CASE fan[l].known = "yes" /\ fan[l].acked = fan[l].view.content
    <3> DEFINE s == [fan[l] EXCEPT !.pc = "idle", !.view = NoDownView]
               row == Max({leafRow[l], ViewSeq(l)})
    <3>1. fan' = [fan EXCEPT ![l] = s] /\ leafRow' = [leafRow EXCEPT ![l] = row] /\ s.view.seq = 0 /\ s.pc = "idle"
      BY <1>1, <1>8, <2>2 DEF LeafPush, DownStreams, NoDownView
    <3>2. leafHeld[l] = fan[l].view.content
      BY <1>8, <2>2 DEF TierOrdered, StreamsBetween, LeafPush
    <3>3. \A c \in RelayCells : Fresh(ctrl, world, row, leafHeld[l][c])
      BY <1>3, <2>1, <3>2, FreshCredit
    <3> HIDE DEF s, row
    <3>4. Read(l)' = {}
      BY <1>1, <3>1 DEF Read
    <3> QED BY <1>1, <1>3, <3>1, <3>3, <3>4, FreshLeaf
  <2>3. CASE ~(fan[l].known = "yes" /\ fan[l].acked = fan[l].view.content)
    <3> DEFINE s == [fan[l] EXCEPT !.pc = "sent"]
    <3>1. fan' = [fan EXCEPT ![l] = s] /\ leafRow' = leafRow /\ s.view = fan[l].view /\ s.pc = "sent"
      BY <1>1, <1>8, <2>3 DEF LeafPush, DownStreams
    <3> HIDE DEF s
    <3>2. Read(l)' = RelayCells
      BY <1>1, <3>1 DEF Read
    <3>3. leafRow' = [leafRow EXCEPT ![l] = leafRow[l]] /\ s.view.seq =< relay.counter
      BY <1>2, <1>3, <3>1
    <3>4. \A c \in Read(l)' : Fresh(ctrl, world, s.view.seq, s.view.content[c])
      BY <1>3, <2>1, <3>1, <3>2
    <3> QED BY <1>1, <1>3, <3>1, <3>3, <3>4, FreshLeaf
  <2> QED BY <2>2, <2>3
<1>9. CASE LeafAck(l)
  <2> DEFINE s == [DownIdle EXCEPT !.pc = "idle", !.dirty = "yes", !.acked = fan[l].view.content, !.known = "yes"]
             row == Max({leafRow[l], ViewSeq(l)})
  <2>1. Read(l) = RelayCells /\ leafHeld[l] = fan[l].view.content
    BY <1>9 DEF Read, LeafAck, TierOrdered, StreamsBetween
  <2>2. fan' = [fan EXCEPT ![l] = s] /\ leafRow' = [leafRow EXCEPT ![l] = row] /\ s.view.seq = 0 /\ s.pc = "idle"
    BY <1>9 DEF LeafAck, DownIdle, NoDownView
  <2>3. \A c \in RelayCells : Fresh(ctrl, world, row, leafHeld[l][c])
    BY <1>3, <2>1, FreshCredit
  <2> HIDE DEF s, row
  <2>4. Read(l)' = {}
    BY <1>1, <2>2 DEF Read
  <2> QED BY <1>1, <1>3, <2>2, <2>3, <2>4, FreshLeaf
<1> QED BY <1>4, <1>5, <1>6, <1>7, <1>8, <1>9

LEMMA FreshLeafApply ==
  ASSUME TierOrdered, AllFresh, NEW l \in Leaves, LeafApply(l)
  PROVE  AllFresh'
<1>1. /\ UNCHANGED <<tier, world, ctrl, feed, relay, leafRow, report, folded>>
      /\ fan \in [Leaves -> DownStreams] /\ leafHeld \in [Leaves -> CellWorlds] /\ fan[l].pc = "sent"
  BY Worlds DEF LeafApply, DownOnly, RelayTypeOK
<1>2. /\ \A m \in Leaves : leafHeld'[m] = IF m = l THEN fan[l].view.content ELSE leafHeld[m]
      /\ \A m \in Leaves : fan'[m].view = fan[m].view /\ Read(m)' = Read(m)
  <2>1. \A m \in Leaves : leafHeld'[m] = IF m = l THEN fan[l].view.content ELSE leafHeld[m]
    BY <1>1 DEF LeafApply
  <2>2. \A m \in Leaves : m # l => fan'[m] = fan[m]
    BY <1>1 DEF LeafApply
  <2>3. fan'[l].view = fan[l].view /\ fan'[l].pc = "applied"
    BY <1>1 DEF LeafApply, DownStreams
  <2>4. \A m \in Leaves : Read(m)' = Read(m)
    BY <1>1, <2>2, <2>3 DEF Read
  <2> QED BY <2>1, <2>2, <2>3, <2>4
<1>3. \A c \in RelayCells, g \in RelayGateways : leafHeld[l][c][g] =< fan[l].view.content[c][g]
  BY <1>1 DEF TierOrdered, StreamsBetween, Read, Between
<1>4. \A s \in Nat : \A c \in RelayCells :
        Fresh(ctrl, world, s, leafHeld[l][c]) => Fresh(ctrl, world, s, fan[l].view.content[c])
  <2> SUFFICES ASSUME NEW s \in Nat, NEW c \in RelayCells, Fresh(ctrl, world, s, leafHeld[l][c])
               PROVE  Fresh(ctrl, world, s, fan[l].view.content[c])
    OBVIOUS
  <2>1. leafHeld[l][c] \in Revisions /\ fan[l].view.content[c] \in Revisions /\ s =< s
    BY Worlds
  <2> QED BY <1>3, <2>1, FreshMore
<1>5. FanFresh'
  BY <1>1, <1>2 DEF AllFresh, FanFresh
<1>6. RowsFresh'
  BY <1>1, <1>2, <1>4, Worlds DEF AllFresh, RowsFresh
<1> QED BY <1>1, <1>5, <1>6, FreshFrame DEF AllFresh

LEMMA FreshRoster ==
  ASSUME AllFresh, ReportRoster \/ FoldRoster \/ UNCHANGED relayVars
  PROVE  AllFresh'
<1>1. /\ UNCHANGED <<tier, world, ctrl, feed, relay, fan, leafHeld, leafRow>>
      /\ report' = report \/ report' = leafRow
      /\ folded' = folded \/ folded' = report
  BY DEF ReportRoster, FoldRoster, relayVars
<1>2. RowsFresh'
  BY <1>1 DEF AllFresh, RowsFresh
<1> QED BY <1>1, <1>2, FreshFrame DEF AllFresh

\* What a step may take from the bounds.
Spends(b, c) == c \in {b, [b EXCEPT !.mishaps = @ - 1], [b EXCEPT !.publishes = @ - 1]}

\* The shape of the relay never changes, and only a failover changes the leader.
LEMMA KeptByController ==
  ASSUME \/ \E changed, edited \in SUBSET RelayGateways : PublishStore(changed, edited)
         \/ PublishStep \/ UpConnect \/ UpDrop \/ RelayNack
         \/ UpCapture \/ UpLoad \/ UpMeta \/ UpPush
  PROVE  UNCHANGED tier /\ Spends(budget, budget')
BY DEF Spends, PublishStore, PublishStep, PublishBump, PublishStamp, UpConnect, UpDrop, RelayNack, UpCapture, UpLoad,
       UpMeta, UpPush, UpOnly

LEMMA KeptByRelay ==
  ASSUME \/ RelayStage \/ (\E cs \in SUBSET RelayCells : RelayStore(cs)) \/ RelayCommit \/ RelayRestart
         \/ ReportRoster \/ FoldRoster \/ UNCHANGED relayVars
  PROVE  UNCHANGED tier /\ Spends(budget, budget')
BY DEF Spends, RelayStage, RelayStore, RelayCommit, RelayRestart, ReportRoster, FoldRoster, relayVars

LEMMA KeptByLeaf ==
  ASSUME NEW l \in Leaves,
         \/ LeafConnect(l) \/ LeafDrop(l) \/ LeafCapture(l)
         \/ \E cs \in SUBSET RelayCells : LeafLoad(l, cs)
         \/ LeafPush(l) \/ LeafApply(l) \/ LeafAck(l)
  PROVE  UNCHANGED tier /\ Spends(budget, budget')
BY DEF Spends, LeafConnect, LeafDrop, LeafCapture, LeafLoad, LeafPush, LeafApply, LeafAck, DownOnly

LEMMA FreshInit == RelayInit => AllFresh
<1> SUFFICES ASSUME RelayInit PROVE AllFresh
  OBVIOUS
<1>1. \A w : Fresh(ctrl, world, 0, w)
  BY OrderedInit, FreshZero
<1>2. FeedFresh
  BY DEF RelayInit, FeedFresh, InFlight, UpIdle, NoUpView
<1>3. RelayFresh /\ RowsFresh
  BY <1>1 DEF RelayInit, RelayFresh, RowsFresh
<1>4. FanFresh
  BY DEF RelayInit, FanFresh, Read, DownIdle, NoDownView
<1> QED BY <1>2, <1>3, <1>4 DEF AllFresh

LEMMA FreshNext == TierOrdered /\ TierFresh /\ [RelayNext]_relayVars => TierFresh'
<1> SUFFICES ASSUME TierOrdered, TierFresh, [RelayNext]_relayVars, OneLeader' PROVE AllFresh'
  BY DEF TierFresh
<1>1. RelayTypeOK
  BY DEF TierOrdered
<1>2. Failover => budget'.leader = "another"
  BY <1>1 DEF Failover, RelayTypeOK, Budgets
<1>3. ~Failover
  BY <1>2 DEF OneLeader
<1>4. UNCHANGED tier /\ Spends(budget, budget')
  BY <1>1, <1>3, Steps, KeptByController, KeptByRelay, KeptByLeaf, Zenon
<1>5. budget'.leader = budget.leader
  BY <1>1, <1>4 DEF Spends, RelayTypeOK, Budgets
<1>6. AllFresh /\ tier = "shared"
  BY <1>4, <1>5 DEF OneLeader, TierFresh
<1> QED BY <1>1, <1>3, <1>6, Steps, FreshController, FreshUpstream, FreshRelay, FreshLeaves, FreshLeafApply, FreshRoster

LEMMA FreshAlways == RelaySafety => [](TierOrdered /\ TierFresh)
<1>1. RelayInit => TierFresh
  BY FreshInit DEF TierFresh
<1> QED BY <1>1, OrderedInit, OrderedNext, FreshNext, PTL DEF RelaySafety

\* SharedTierFenced: while one controller leads, when the Programmed gate counts a leaf
\* behind a shared relay as converged on a Gateway's stamp, every cell of that leaf has
\* the content the stamp was assigned for, or newer, through every interleaving of the
\* rebuild, the two streams, the relay's cell-by-cell store and the roster.
THEOREM SharedTierFenced == RelaySpec => []SharedAckHonest
<1>1. TierOrdered /\ TierFresh => SharedAckHonest
  <2> SUFFICES ASSUME TierOrdered, TierFresh, OneLeader, NEW l \in Leaves, NEW g \in GatedOn(l), GateAcked(l, g),
                      NEW c \in RelayCells
               PROVE  leafHeld[l][c][g] >= ctrl.stamps[g].rev
    BY DEF SharedAckHonest, LeafAckHonest, OneLeader
  <2>1. g \in RelayGateways
    BY DEF GatedOn, OneLeader
  <2>2. Fresh(ctrl, world, folded[l], leafHeld[l][c])
    BY DEF TierFresh, AllFresh, RowsFresh
  <2> QED BY <2>1, <2>2 DEF Fresh, GateAcked
<1> QED BY <1>1, FreshAlways, PTL DEF RelaySpec

=============================================================================
