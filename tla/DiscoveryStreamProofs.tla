----------------------- MODULE DiscoveryStreamProofs ------------------------
(***************************************************************************)
(* For any resources, worlds, rebuilds and sessions: the diff baseline is  *)
(* what the client holds, the node's row is honest, and the stream         *)
(* implements the atomic replica.                                          *)
(***************************************************************************)
EXTENDS DiscoveryStream, TLAPS

\* Between sessions nothing of the last one is left but the client's cache.
ClosedShape ==
  open = "no" =>
    /\ pending = Nil /\ acked = Nil
    /\ down = <<>> /\ up = <<>>
    /\ row = Nil /\ served = {} /\ held = {}

\* A session waits for a reply, or the client is on the target of its row.
OpenShape ==
  open = "yes" => row # Nil /\ (pending = Nil => acked # Nil /\ row.target = acked)

\* The baseline is a world the client committed in this session, and still its
\* cache unless an Ack of the next one is on the wire.
BaselineHeld ==
  acked # Nil =>
    /\ acked \in held
    /\ expectFull = "no"
    /\ (\A i \in DOMAIN up : up[i].kind = "nack") => cache = acked

\* What is on the wire is about the pending view: its full, its delta against the
\* baseline, or the Ack of a client that holds it.
WireShape ==
  pending # Nil =>
    /\ pending \in served
    /\ \A i \in DOMAIN down :
         down[i] = FullOf(pending) \/ (acked # Nil /\ down[i] = DeltaOf(pending, acked))
    /\ \A i \in DOMAIN up :
         up[i].kind = "ack" => cache = pending.content /\ cache \in held /\ expectFull = "no"

StreamInv ==
  TypeOK /\ ClosedShape /\ OpenShape /\ BaselineHeld /\ WireShape /\ OneInFlight /\ AckedMeansApplied

-----------------------------------------------------------------------------
(* The operators *)

LEMMA ViewsNowTyped == TypeOK => ViewsNow \subseteq Views
  BY DEF TypeOK, ViewsNow, Views, Contents

LEMMA FullTyped ==
  ASSUME NEW v \in Views
  PROVE  FullOf(v) \in Messages /\ FullOf(v).version = v.content /\ FullOf(v).kind = "full"
         /\ FullOf(v).change = v.content
  BY DEF FullOf, Messages, Views, Contents

LEMMA DeltaTyped ==
  ASSUME NEW v \in Views, NEW base \in Contents
  PROVE  DeltaOf(v, base) \in Messages /\ DeltaOf(v, base).version = v.content
         /\ DeltaOf(v, base).kind = "delta"
  BY DEF DeltaOf, Messages, Views, Contents

\* apply_message on a delta: from the world it was diffed against it leads to the
\* world it was diffed from.
LEMMA DeltaRestores ==
  ASSUME NEW v \in Views, cache \in Contents
  PROVE  Staged(DeltaOf(v, cache)) = v.content
<1> DEFINE d == DeltaOf(v, cache)
<1>1. d.kind = "delta" /\ d.change = [k \in Keys |-> IF v.content[k] = cache[k] THEN Keep ELSE v.content[k]]
  BY DEF DeltaOf
<1>2. v.content \in [Keys -> Vals \cup {Absent}]
  BY DEF Views, Contents
<1>3. \A k \in Keys : (IF d.change[k] = Keep THEN cache[k] ELSE d.change[k]) = v.content[k]
  <2> SUFFICES ASSUME NEW k \in Keys
               PROVE  (IF d.change[k] = Keep THEN cache[k] ELSE d.change[k]) = v.content[k]
    OBVIOUS
  <2>1. d.change[k] = IF v.content[k] = cache[k] THEN Keep ELSE v.content[k]
    BY <1>1
  <2>2. v.content[k] # Keep
    BY <1>2, MarkAssumption
  <2> QED BY <2>1, <2>2
<1>4. Staged(d) = [k \in Keys |-> IF d.change[k] = Keep THEN cache[k] ELSE d.change[k]]
  BY <1>1 DEF Staged
<1> QED
  BY <1>2, <1>3, <1>4

LEMMA RowTyped ==
  ASSUME NEW r \in Rows, NEW v \in Views, NEW version \in Contents, NEW seq \in Nat
  PROVE  /\ WithTarget(r, v) \in Rows
         /\ WithTarget(r, v).seq = r.seq /\ WithTarget(r, v).target = v.content
         /\ WithSeq(r, seq) \in Rows
         /\ WithSeq(r, seq).seq = MaxOf(r.seq, seq) /\ WithSeq(r, seq).target = r.target
         /\ WithAck(r, version, seq) \in Rows
         /\ WithAck(r, version, seq).seq = MaxOf(r.seq, seq)
  BY DEF WithTarget, WithSeq, WithAck, MaxOf, Rows, Views

LEMMA OneOfTwo ==
  ASSUME NEW a \in Nat, NEW b \in Nat, b # 0, a + b \in {0, 1}
  PROVE  a = 0 /\ b = 1 /\ a + b # 0
  OBVIOUS

\* A reply on the wire is the only message there.
LEMMA UpWire ==
  ASSUME TypeOK, OneInFlight, up # <<>>
  PROVE  /\ pending \in Views /\ down = <<>> /\ Tail(up) = <<>>
         /\ Head(up) = up[1] /\ Head(up) \in Replies /\ Head(up).version = pending.content
         /\ DOMAIN up = {1}
<1>1. Len(up) \in Nat /\ Len(down) \in Nat /\ Len(up) # 0
  BY DEF TypeOK
<1>2. Len(down) + Len(up) \in {0, 1} /\ (Len(down) + Len(up) # 0 => pending # Nil)
  BY DEF OneInFlight
<1>3. pending # Nil /\ Len(up) = 1 /\ Len(down) = 0
  BY <1>1, <1>2, OneOfTwo
<1>4. down = <<>> /\ Tail(up) = <<>> /\ Head(up) = up[1] /\ DOMAIN up = {1}
  BY <1>3 DEF TypeOK
<1>5. up[1] \in Replies
  BY <1>4 DEF TypeOK
<1> QED
  BY <1>3, <1>4, <1>5 DEF TypeOK, OneInFlight

\* A snapshot on the wire is the only message there.
LEMMA DownWire ==
  ASSUME TypeOK, OneInFlight, down # <<>>
  PROVE  /\ pending \in Views /\ up = <<>> /\ Tail(down) = <<>>
         /\ Head(down) = down[1] /\ Head(down) \in Messages /\ Head(down).version = pending.content
         /\ DOMAIN down = {1}
<1>1. Len(up) \in Nat /\ Len(down) \in Nat /\ Len(down) # 0
  BY DEF TypeOK
<1>2. Len(up) + Len(down) \in {0, 1} /\ (Len(up) + Len(down) # 0 => pending # Nil)
  BY <1>1 DEF OneInFlight
<1>3. pending # Nil /\ Len(down) = 1 /\ Len(up) = 0
  BY <1>1, <1>2, OneOfTwo
<1>4. up = <<>> /\ Tail(down) = <<>> /\ Head(down) = down[1] /\ DOMAIN down = {1}
  BY <1>3 DEF TypeOK
<1>5. down[1] \in Messages
  BY <1>4 DEF TypeOK
<1> QED
  BY <1>3, <1>4, <1>5 DEF TypeOK, OneInFlight

LEMMA AppendOne ==
  ASSUME NEW S, NEW m \in S
  PROVE  /\ Append(<<>>, m) \in Seq(S) /\ Append(<<>>, m) = <<m>>
         /\ Len(<<m>>) = 1 /\ DOMAIN <<m>> = {1} /\ <<m>>[1] = m
  OBVIOUS

LEMMA EmptyWire ==
  /\ Len(<<>>) = 0 /\ DOMAIN <<>> = {}
  /\ \A S : <<>> \in Seq(S)
  OBVIOUS

\* Without anything pending the wire is empty.
LEMMA IdleWire ==
  ASSUME TypeOK, OneInFlight, pending = Nil
  PROVE  up = <<>> /\ down = <<>>
<1>1. Len(up) \in Nat /\ Len(down) \in Nat
  BY DEF TypeOK
<1>2. Len(up) = 0 /\ Len(down) = 0
  BY <1>1 DEF OneInFlight
<1> QED
  BY <1>2 DEF TypeOK

-----------------------------------------------------------------------------
(* The server's steps *)

\* What push_if_changed leaves behind: an empty wire and a client on target, or one
\* message about the view that is now pending; the row's sequence rises only to that
\* of a view equal to the baseline.
Pushed(base, r) ==
  /\ pending' \in Views \cup {Nil}
  /\ row' \in Rows
  /\ served' \subseteq Views /\ served \subseteq served'
  /\ down' \in Seq(Messages)
  /\ pending' = Nil => base # Nil /\ row'.target = base /\ down' = <<>>
  /\ pending' # Nil =>
       /\ pending' \in served'
       /\ \E m \in Messages :
            /\ down' = <<m>>
            /\ m.version = pending'.content
            /\ m = FullOf(pending') \/ (base # Nil /\ m = DeltaOf(pending', base))
  /\ \/ row'.seq = r.seq
     \/ row'.seq > r.seq /\ base # Nil /\ \E v \in served' : v.seq = row'.seq /\ v.content = base

LEMMA PushStep ==
  ASSUME TypeOK, down = <<>>,
         NEW base \in Contents \cup {Nil}, NEW r \in Rows, PushIfChanged(base, r)
  PROVE  Pushed(base, r)
<1>1. PICK v \in ViewsNow :
        /\ served' = served \cup {v}
        /\ IF Unchanged(v, base)
           THEN row' = WithSeq(WithTarget(r, v), v.seq) /\ pending' = Nil /\ UNCHANGED down
           ELSE row' = WithTarget(r, v) /\ pending' = v /\ down' = Append(down, Outbound(v, base))
  BY DEF PushIfChanged
<1>2. v \in Views /\ v.seq \in Nat /\ v.content \in Contents /\ r.seq \in Nat
  BY ViewsNowTyped DEF Views, Rows
<1>3. served' \subseteq Views /\ served \subseteq served' /\ v \in served'
  BY <1>1, <1>2 DEF TypeOK
<1>4. WithTarget(r, v) \in Rows /\ WithTarget(r, v).seq = r.seq /\ WithTarget(r, v).target = v.content
  BY <1>2, RowTyped
<1>5. CASE Unchanged(v, base)
  <2>1. base # Nil /\ v.content = base /\ pending' = Nil /\ down' = <<>>
    BY <1>1, <1>5 DEF Unchanged
  <2>2. /\ row' \in Rows /\ row'.target = base
        /\ row'.seq = MaxOf(r.seq, v.seq)
    BY <1>1, <1>2, <1>4, <1>5, <2>1, RowTyped
  <2>3. row'.seq = r.seq \/ (row'.seq > r.seq /\ row'.seq = v.seq)
    BY <1>2, <2>2 DEF MaxOf
  <2>4. down' \in Seq(Messages)
    BY <2>1
  <2> QED
    BY <1>3, <2>1, <2>2, <2>3, <2>4 DEF Pushed
<1>6. CASE ~Unchanged(v, base)
  <2>1. row' = WithTarget(r, v) /\ pending' = v /\ down' = Append(<<>>, Outbound(v, base))
    BY <1>1, <1>6
  <2>2. /\ Outbound(v, base) \in Messages /\ Outbound(v, base).version = v.content
        /\ Outbound(v, base) = FullOf(v) \/ (base # Nil /\ Outbound(v, base) = DeltaOf(v, base))
    BY <1>2, FullTyped, DeltaTyped DEF Outbound
  <2>3. down' \in Seq(Messages) /\ down' = <<Outbound(v, base)>>
    BY <2>1, <2>2, AppendOne
  <2>4. pending' # Nil
    BY <1>2, <2>1, NoneAssumption
  <2> QED
    BY <1>2, <1>3, <1>4, <2>1, <2>2, <2>3, <2>4 DEF Pushed
<1> QED
  BY <1>5, <1>6

\* A push against a world the client holds leaves a sound session behind.
LEMMA PushKeeps ==
  ASSUME NEW base \in Contents \cup {Nil}, NEW r \in Rows, Pushed(base, r), TypeOK',
         open' = "yes", acked' = base, up' = <<>>,
         base # Nil => base \in held' /\ expectFull' = "no" /\ cache' = base,
         r.seq > 0 => \E v \in served : v.seq = r.seq /\ v.content \in held'
  PROVE  StreamInv'
<1>1. ClosedShape' /\ BaselineHeld'
  BY DEF ClosedShape, BaselineHeld
<1>2. OpenShape'
  BY NoneAssumption DEF OpenShape, Pushed
<1>3. WireShape' /\ OneInFlight'
  <2>1. CASE pending' = Nil
    <3>1. down' = <<>>
      BY <2>1 DEF Pushed
    <3>2. Len(down') = 0 /\ Len(up') = 0 /\ DOMAIN (down') = {} /\ DOMAIN (up') = {}
      BY <3>1
    <3> QED BY <2>1, <3>2 DEF WireShape, OneInFlight
  <2>2. CASE pending' # Nil
    <3>1. PICK m \in Messages :
            /\ down' = <<m>>
            /\ m.version = pending'.content
            /\ m = FullOf(pending') \/ (base # Nil /\ m = DeltaOf(pending', base))
      BY <2>2 DEF Pushed
    <3>2. Len(down') = 1 /\ DOMAIN (down') = {1} /\ down'[1] = m /\ Len(up') = 0 /\ DOMAIN (up') = {}
      BY <3>1, AppendOne
    <3>3. OneInFlight'
      BY <2>2, <3>1, <3>2 DEF OneInFlight
    <3>4. WireShape'
      BY <2>2, <3>1, <3>2 DEF WireShape, Pushed, FullOf, DeltaOf
    <3> QED BY <3>3, <3>4
  <2> QED BY <2>1, <2>2
<1>4. AckedMeansApplied'
  <2>1. CASE row'.seq = r.seq
    BY <2>1 DEF AckedMeansApplied, Pushed
  <2>2. CASE base # Nil /\ \E v \in served' : v.seq = row'.seq /\ v.content = base
    BY <2>2 DEF AckedMeansApplied
  <2> QED BY <2>1, <2>2 DEF Pushed
<1> QED
  BY <1>1, <1>2, <1>3, <1>4 DEF StreamInv

\* The same push seen by the replica: a view is offered, and the credit stays or
\* rises to a creditable sequence; r is the row after the reply, row the one before.
LEMMA PushOffers ==
  ASSUME TypeOK, NEW base \in Contents \cup {Nil}, NEW r \in Rows, Pushed(base, r),
         UNCHANGED <<cache, held>>,
         base # Nil => base \in held,
         LET credit == IF row = Nil THEN 0 ELSE row.seq IN
           \/ r.seq = credit
           \/ r.seq > credit /\ \E v \in served : v.seq = r.seq /\ v.content \in held
  PROVE  R!Offer
<1> DEFINE credit == IF row = Nil THEN 0 ELSE row.seq
<1>1. row' # Nil /\ row' \in Rows /\ row'.seq \in Nat /\ r.seq \in Nat /\ credit \in Nat
  BY NoneAssumption DEF Pushed, Rows, TypeOK
<1>2. \/ row'.seq = credit
      \/ row'.seq > credit /\ \E v \in served' : v.seq = row'.seq /\ v.content \in held
  <2>1. CASE row'.seq = r.seq
    BY <1>1, <2>1 DEF Pushed
  <2>2. CASE row'.seq > r.seq /\ base # Nil /\ \E v \in served' : v.seq = row'.seq /\ v.content = base
    BY <1>1, <2>2
  <2> QED BY <2>1, <2>2 DEF Pushed
<1>3. served \subseteq served' /\ served' \subseteq R!Views
  BY DEF Pushed, Views, R!Views
<1> QED
  BY <1>1, <1>2, <1>3 DEF R!Offer, R!OfferMore, R!Creditable

LEMMA OpenStep ==
  ASSUME StreamInv, OpenStream
  PROVE  StreamInv' /\ R!Offer
<1> DEFINE r == NewRow
<1>1. r \in Rows /\ r.seq = 0
  BY DEF NewRow, Rows
<1>2. TypeOK /\ down = <<>> /\ up = <<>> /\ row = Nil
  BY DEF StreamInv, OpenStream, ClosedShape
<1>3. Pushed(Nil, r)
  BY <1>1, <1>2, PushStep DEF OpenStream
<1>4. TypeOK'
  BY <1>2, <1>3 DEF OpenStream, TypeOK, Pushed, source
<1>5. StreamInv'
  BY <1>1, <1>2, <1>3, <1>4, PushKeeps DEF OpenStream
<1>6. R!Offer
  BY <1>1, <1>2, <1>3, PushOffers DEF OpenStream
<1> QED BY <1>5, <1>6

LEMMA RebuildStep ==
  ASSUME StreamInv, OnRebuild
  PROVE  StreamInv' /\ (R!Offer \/ UNCHANGED R!vars)
<1> USE DEF StreamInv
<1>1. CASE pending # Nil
  <2>1. UNCHANGED <<settled, coming, rebuilding, session, open, acked, pending, down, up, cache,
                    expectFull, held, row, served>>
        /\ changed' = "no"
    BY <1>1 DEF OnRebuild, source, client
  <2>2. TypeOK'
    BY <2>1 DEF TypeOK
  <2>3. StreamInv'
    BY <2>1, <2>2 DEF ClosedShape, OpenShape, BaselineHeld, WireShape, OneInFlight, AckedMeansApplied
  <2> QED BY <2>1, <2>3 DEF R!vars
<1>2. CASE pending = Nil
  <2>1. up = <<>> /\ down = <<>>
    BY <1>2, IdleWire
  <2>2. row \in Rows /\ row # Nil /\ acked \in Contents
    BY <1>2 DEF OnRebuild, OpenShape, TypeOK
  <2>3. Pushed(acked, row)
    BY <1>2, <2>1, <2>2, PushStep DEF OnRebuild
  <2>4. acked \in held /\ expectFull = "no" /\ cache = acked
    BY <2>1, <2>2, NoneAssumption DEF BaselineHeld
  <2>5. TypeOK'
    BY <2>3 DEF OnRebuild, TypeOK, Pushed, source, client
  <2>6. row.seq > 0 => \E v \in served : v.seq = row.seq /\ v.content \in held
    BY <2>2 DEF AckedMeansApplied
  <2>7. StreamInv'
    BY <2>1, <2>2, <2>3, <2>4, <2>5, <2>6, PushKeeps DEF OnRebuild, client
  <2>8. R!Offer
    BY <2>2, <2>3, <2>4, PushOffers DEF OnRebuild, client
  <2> QED BY <2>7, <2>8
<1> QED BY <1>1, <1>2

\* The Ack that is handled is the Ack of the pending world.
LEMMA AckStep ==
  ASSUME StreamInv, HandleAck
  PROVE  StreamInv' /\ R!Offer
<1> USE DEF StreamInv
<1> DEFINE r == WithAck(row, Head(up).version, pending.seq)
<1>1. /\ pending \in Views /\ pending # Nil /\ down = <<>> /\ Tail(up) = <<>>
      /\ Head(up) = up[1] /\ Head(up).version = pending.content /\ 1 \in DOMAIN up
  BY UpWire, NoneAssumption DEF HandleAck
<1>2. row \in Rows /\ row # Nil /\ pending.content \in Contents /\ pending.seq \in Nat /\ row.seq \in Nat
  BY <1>1 DEF HandleAck, OpenShape, TypeOK, Views, Rows
<1>3. r \in Rows /\ r.seq = MaxOf(row.seq, pending.seq)
  BY <1>1, <1>2, RowTyped
<1>4. /\ acked' = pending.content /\ PushIfChanged(pending.content, r)
      /\ up' = <<>> /\ open' = "yes"
      /\ UNCHANGED <<settled, coming, rebuilding, session, changed, cache, expectFull, held>>
  BY <1>1 DEF HandleAck, source, client
<1>5. Pushed(pending.content, r)
  BY <1>1, <1>2, <1>3, <1>4, PushStep
<1>6. pending \in served /\ cache = pending.content /\ cache \in held /\ expectFull = "no"
  BY <1>1 DEF WireShape, HandleAck
<1>7. TypeOK'
  <2>1. up' \in Seq(Replies)
    BY <1>4
  <2> QED BY <1>2, <1>4, <1>5, <2>1 DEF TypeOK, Pushed
<1>8. \/ r.seq = row.seq
      \/ r.seq > row.seq /\ \E v \in served : v.seq = r.seq /\ v.content \in held
  BY <1>2, <1>3, <1>6 DEF MaxOf
<1>9. r.seq > 0 => \E v \in served : v.seq = r.seq /\ v.content \in held
  BY <1>2, <1>8 DEF AckedMeansApplied
<1>10. StreamInv'
  BY <1>2, <1>3, <1>4, <1>5, <1>6, <1>7, <1>9, PushKeeps
<1>11. R!Offer
  BY <1>2, <1>3, <1>4, <1>5, <1>6, <1>8, PushOffers
<1> QED BY <1>10, <1>11

\* After a Nack the client is still on the baseline, if there is one, and a full
\* does not depend on it.
LEMMA NackStep ==
  ASSUME StreamInv, HandleNack
  PROVE  StreamInv' /\ R!Offer
<1> USE DEF StreamInv
<1>1. /\ down = <<>> /\ Tail(up) = <<>> /\ DOMAIN up = {1} /\ Head(up) = up[1]
  BY UpWire DEF HandleNack
<1>2. row \in Rows /\ row # Nil /\ row.seq \in Nat
  BY DEF HandleNack, OpenShape, TypeOK, Rows
<1>3. PICK v \in ViewsNow :
        /\ served' = served \cup {v}
        /\ row' = WithTarget(row, v)
        /\ pending' = v
        /\ down' = Append(down, FullOf(v))
  BY DEF HandleNack
<1>4. v \in Views /\ v # Nil
  BY ViewsNowTyped, NoneAssumption
<1>5. FullOf(v) \in Messages /\ FullOf(v).version = v.content /\ row' \in Rows /\ row'.seq = row.seq
      /\ row' # Nil
  BY <1>2, <1>3, <1>4, FullTyped, RowTyped, NoneAssumption DEF Views
<1>6. down' \in Seq(Messages) /\ Len(down') = 1 /\ DOMAIN (down') = {1} /\ down'[1] = FullOf(v)
  BY <1>1, <1>3, <1>5, AppendOne
<1>7. /\ up' = <<>> /\ Len(up') = 0 /\ DOMAIN (up') = {} /\ up' \in Seq(Replies)
      /\ open = "yes" /\ Head(up).kind = "nack"
      /\ UNCHANGED <<settled, coming, rebuilding, session, open, changed, acked, cache, expectFull, held>>
  <2>1. up' = <<>>
    BY <1>1 DEF HandleNack
  <2>2. Len(up') = 0 /\ DOMAIN (up') = {} /\ up' \in Seq(Replies)
    BY <2>1
  <2> QED BY <2>1, <2>2 DEF HandleNack, source, client
<1>8. TypeOK'
  BY <1>3, <1>4, <1>5, <1>6, <1>7 DEF TypeOK
<1>9. ClosedShape' /\ OpenShape' /\ BaselineHeld'
  BY <1>1, <1>3, <1>4, <1>5, <1>7 DEF ClosedShape, OpenShape, BaselineHeld
<1>10. WireShape' /\ OneInFlight'
  BY <1>3, <1>4, <1>5, <1>6, <1>7 DEF WireShape, OneInFlight, FullOf
<1>11. AckedMeansApplied'
  BY <1>2, <1>3, <1>5, <1>7 DEF AckedMeansApplied
<1>12. R!Offer
  BY <1>2, <1>3, <1>4, <1>5, <1>7 DEF R!Offer, R!OfferMore, R!Views, Views, TypeOK
<1> QED BY <1>8, <1>9, <1>10, <1>11, <1>12

-----------------------------------------------------------------------------
(* The client's steps, the end of a session and the source *)

\* The message at the head of the wire leads to the pending world.
LEMMA HeadMatches ==
  ASSUME StreamInv, down # <<>>
  PROVE  Staged(Head(down)) = pending.content
<1> USE DEF StreamInv
<1>1. /\ pending \in Views /\ pending # Nil /\ up = <<>> /\ Head(down) = down[1] /\ 1 \in DOMAIN down
  BY DownWire, NoneAssumption
<1>2. CASE Head(down) = FullOf(pending)
  BY <1>1, <1>2, FullTyped DEF Staged
<1>3. CASE acked # Nil /\ Head(down) = DeltaOf(pending, acked)
  <2>1. cache = acked /\ cache \in Contents
    BY <1>1, <1>3 DEF BaselineHeld, TypeOK
  <2> QED BY <1>1, <1>3, <2>1, DeltaRestores
<1> QED BY <1>1, <1>2, <1>3 DEF WireShape

\* What both replies do to the wire.
LEMMA ReplyWire ==
  ASSUME StreamInv, down # <<>>, NEW k \in {"ack", "nack"},
         up' = Append(up, [kind |-> k, version |-> Head(down).version]), down' = Tail(down),
         UNCHANGED pending
  PROVE  /\ up' \in Seq(Replies) /\ down' \in Seq(Messages)
         /\ DOMAIN (up') = {1} /\ up'[1].kind = k /\ DOMAIN (down') = {}
         /\ OneInFlight'
<1> USE DEF StreamInv
<1> DEFINE m == [kind |-> k, version |-> Head(down).version]
<1>1. /\ pending \in Views /\ pending # Nil /\ up = <<>> /\ Tail(down) = <<>>
      /\ Head(down) \in Messages /\ Head(down).version = pending.content
  BY DownWire, NoneAssumption
<1>2. m \in Replies /\ m.version = pending.content /\ m.kind = k
  BY <1>1 DEF Replies, Messages
<1>3. up' \in Seq(Replies) /\ Len(up') = 1 /\ DOMAIN (up') = {1} /\ up'[1] = m
  BY <1>1, <1>2, AppendOne
<1>4. down' = <<>> /\ down' \in Seq(Messages) /\ Len(down') = 0 /\ DOMAIN (down') = {}
  BY <1>1, EmptyWire
<1>5. OneInFlight'
  BY <1>1, <1>2, <1>3, <1>4 DEF OneInFlight
<1> QED BY <1>2, <1>3, <1>4, <1>5

LEMMA ClientAckStep ==
  ASSUME StreamInv, ClientAck
  PROVE  StreamInv' /\ R!Commit
<1> USE DEF StreamInv
<1>1. /\ Staged(Head(down)) = pending.content /\ pending \in Views /\ pending # Nil
      /\ pending.content \in Contents /\ pending \in served
  <2>1. pending \in Views /\ pending # Nil
    BY DownWire, NoneAssumption DEF ClientAck
  <2> QED BY <2>1, HeadMatches DEF ClientAck, Views, WireShape
<1>2. /\ cache' = pending.content /\ held' = held \cup {pending.content} /\ expectFull' = "no"
      /\ pending.content \notin Bad
      /\ UNCHANGED <<settled, coming, rebuilding, session, open, changed, acked, pending, row, served>>
  BY <1>1 DEF ClientAck, Applies, source, server
<1>3. /\ up' \in Seq(Replies) /\ down' \in Seq(Messages)
      /\ DOMAIN (up') = {1} /\ up'[1].kind = "ack" /\ DOMAIN (down') = {} /\ OneInFlight'
  BY <1>2, ReplyWire DEF ClientAck
<1>4. TypeOK'
  BY <1>1, <1>2, <1>3 DEF TypeOK
<1>5. ClosedShape' /\ OpenShape' /\ BaselineHeld'
  BY <1>1, <1>2, <1>3 DEF ClosedShape, OpenShape, BaselineHeld
<1>6. WireShape' /\ AckedMeansApplied'
  BY <1>1, <1>2, <1>3 DEF WireShape, AckedMeansApplied
<1>7. R!Commit
  BY <1>1, <1>2 DEF R!Commit
<1> QED BY <1>3, <1>4, <1>5, <1>6, <1>7

LEMMA ClientNackStep ==
  ASSUME StreamInv, ClientNack
  PROVE  StreamInv' /\ UNCHANGED R!vars
<1> USE DEF StreamInv
<1>1. /\ pending # Nil /\ up = <<>>
      /\ UNCHANGED <<settled, coming, rebuilding, session, open, changed, acked, pending, row, served,
                     cache, expectFull, held>>
  BY DownWire, NoneAssumption DEF ClientNack, source, server, client
<1>2. /\ up' \in Seq(Replies) /\ down' \in Seq(Messages)
      /\ DOMAIN (up') = {1} /\ up'[1].kind = "nack" /\ DOMAIN (down') = {} /\ OneInFlight'
  BY <1>1, ReplyWire DEF ClientNack
<1>3. TypeOK'
  BY <1>1, <1>2 DEF TypeOK
<1>4. ClosedShape' /\ OpenShape' /\ BaselineHeld'
  BY <1>1, <1>2 DEF ClosedShape, OpenShape, BaselineHeld
<1>5. WireShape' /\ AckedMeansApplied'
  BY <1>1, <1>2 DEF WireShape, AckedMeansApplied
<1> QED BY <1>1, <1>2, <1>3, <1>4, <1>5 DEF R!vars

LEMMA CloseStep ==
  ASSUME StreamInv, CloseStream
  PROVE  StreamInv' /\ R!Forget
<1>1. /\ down' = <<>> /\ up' = <<>> /\ Len(down') = 0 /\ Len(up') = 0
      /\ DOMAIN (down') = {} /\ DOMAIN (up') = {}
      /\ down' \in Seq(Messages) /\ up' \in Seq(Replies)
  <2>1. down' = <<>> /\ up' = <<>>
    BY DEF CloseStream
  <2> QED BY <2>1
<1>2. TypeOK'
  BY <1>1 DEF StreamInv, CloseStream, TypeOK, source
<1>3. StreamInv'
  BY <1>1, <1>2 DEF StreamInv, CloseStream, ClosedShape, OpenShape, BaselineHeld, WireShape,
                    OneInFlight, AckedMeansApplied
<1> QED BY <1>3 DEF CloseStream, R!Forget

LEMMA SourceStep ==
  ASSUME StreamInv, Source \/ UNCHANGED vars
  PROVE  StreamInv' /\ UNCHANGED R!vars
<1>1. UNCHANGED <<session, open, acked, pending, down, up, cache, expectFull, held, row, served>>
  BY DEF Source, RebuildBegin, MidRebuildNotify, NotifyRebuilt, vars, source, server, client
<1>2. TypeOK'
  BY <1>1 DEF StreamInv, TypeOK, Source, RebuildBegin, MidRebuildNotify, NotifyRebuilt, vars, source,
              server, Views
<1>3. StreamInv'
  BY <1>1, <1>2 DEF StreamInv, ClosedShape, OpenShape, BaselineHeld, WireShape, OneInFlight,
                    AckedMeansApplied
<1> QED BY <1>1, <1>3 DEF R!vars

-----------------------------------------------------------------------------

LEMMA StreamInit == Init => StreamInv /\ R!Init
<1> SUFFICES ASSUME Init PROVE StreamInv /\ R!Init
  OBVIOUS
<1>1. NoContent \in Contents
  BY DEF NoContent, Contents
<1>2. /\ Len(down) = 0 /\ Len(up) = 0 /\ DOMAIN down = {} /\ DOMAIN up = {}
      /\ down \in Seq(Messages) /\ up \in Seq(Replies)
  <2>1. down = <<>> /\ up = <<>>
    BY DEF Init
  <2> QED BY <2>1
<1>3. TypeOK
  BY <1>1, <1>2 DEF Init, TypeOK, Views
<1>4. StreamInv
  BY <1>2, <1>3 DEF Init, StreamInv, ClosedShape, OpenShape, BaselineHeld, WireShape, OneInFlight,
                    AckedMeansApplied
<1> QED BY <1>1, <1>4, BadAssumption DEF Init, R!Init

LEMMA StreamStep == StreamInv /\ [Next]_vars => StreamInv' /\ [R!Next]_(R!vars)
  BY OpenStep, RebuildStep, AckStep, NackStep, ClientAckStep, ClientNackStep, CloseStep, SourceStep
     DEF Next, Server, Client, R!Next

LEMMA StreamInvHolds == Spec => []StreamInv
  BY StreamInit, StreamStep, PTL DEF Spec

\* Every variable of the stream keeps its type.
THEOREM StreamTypes == Spec => []TypeOK
<1>1. StreamInv => TypeOK
  BY DEF StreamInv
<1> QED BY <1>1, StreamInvHolds, PTL

\* Push-after-Ack (stream.rs) keeps one snapshot in flight, and the delta on the wire
\* always leads the client to the world its version names (apply_message).
THEOREM BaselineCorrect == Spec => []BaselineKept
<1>1. StreamInv => BaselineKept
  <2> SUFFICES ASSUME StreamInv PROVE NeverMismatched
    BY DEF StreamInv, BaselineKept
  <2> SUFFICES ASSUME NEW i \in DOMAIN down PROVE Staged(down[i]) = down[i].version
    BY DEF NeverMismatched
  <2>1. down # <<>>
    OBVIOUS
  <2>2. DOMAIN down = {1} /\ Head(down) = down[1] /\ Head(down).version = pending.content
    BY <2>1, DownWire DEF StreamInv
  <2> QED BY <2>1, <2>2, HeadMatches
<1> QED BY <1>1, StreamInvHolds, PTL

\* handle_ack and advance_acked_seq credit a node only with the sequence of a world
\* it committed in this session, and a row on its target is true of the client.
THEOREM CreditCorrect == Spec => []CreditHonest
<1>1. StreamInv => CreditHonest
  <2> SUFFICES ASSUME StreamInv, row # Nil, pending = Nil PROVE cache = row.target
    BY DEF StreamInv, CreditHonest, InSyncMeansHeld
  <2>1. open = "yes" /\ up = <<>>
    BY IdleWire DEF StreamInv, ClosedShape, TypeOK
  <2> QED BY <2>1 DEF StreamInv, OpenShape, BaselineHeld
<1> QED BY <1>1, StreamInvHolds, PTL

\* The stream, with its deltas, Acks, Nacks and lost sessions, implements the atomic
\* replica: every step of it is an offer, a commit, a forgotten session or a stutter.
THEOREM StreamImplementsReplica == Spec => KeepsPromise
  BY StreamInit, StreamStep, StreamInvHolds, PTL DEF Spec, KeepsPromise, R!Spec
=============================================================================
