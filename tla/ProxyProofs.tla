----------------------------- MODULE ProxyProofs ----------------------------
(***************************************************************************)
(* The resources of the data plane, for any number of clients, requests    *)
(* and endpoints: the sessions, permits and gauge of a UDP listener, the   *)
(* counters, breakers and retry budget of proxied requests, and the bound  *)
(* ports and listener slots of the acceptor.                               *)
(***************************************************************************)
EXTENDS UdpSessions, RequestPath, EdgeListeners, FiniteSetTheorems, SequenceTheorems, TLAPS

(* UDP sessions *)

\* Tasks are spawned by datagrams, and the listener exits after the last of them.
UdpInv ==
  /\ UdpTypeOK
  /\ SessionsAccounted
  /\ Len(pumps) <= sent
  /\ forwarder = "exited" => Unfinished = {}

LEMMA PumpSetsFinite ==
  ASSUME UdpTypeOK
  PROVE  /\ IsFiniteSet(Unfinished) /\ IsFiniteSet(Established)
         /\ Cardinality(Unfinished) \in Nat /\ Cardinality(Established) \in Nat
         /\ PumpIds = 1 .. Len(pumps) /\ Len(pumps) \in Nat
         /\ Cardinality(Established) <= Cardinality(Unfinished)
<1>1. PumpIds = 1 .. Len(pumps) /\ Len(pumps) \in Nat
  BY DEF UdpTypeOK, PumpIds
<1>2. IsFiniteSet(PumpIds)
  BY <1>1, FS_Interval
<1>3. Established \in SUBSET Unfinished /\ Unfinished \in SUBSET PumpIds
  BY DEF Established, Unfinished
<1>4. IsFiniteSet(Unfinished)
  BY <1>2, <1>3, FS_Subset
<1>5. IsFiniteSet(Established) /\ Cardinality(Established) <= Cardinality(Unfinished)
  BY <1>3, <1>4, FS_Subset
<1> QED
  BY <1>1, <1>4, <1>5, FS_CardinalityType

\* A step that leaves the phases, the map and the counters alone.
LEMMA UdpKept ==
  ASSUME UdpInv, UdpTypeOK', UNCHANGED <<sessions, permits, live, forwarder>>,
         Len(pumps') = Len(pumps), Len(pumps') <= sent',
         \A i \in PumpIds : pumps'[i].phase = pumps[i].phase /\ pumps'[i].client = pumps[i].client
  PROVE  UdpInv'
<1>1. PumpIds' = PumpIds
  BY DEF UdpInv, UdpTypeOK, PumpIds
<1>2. Established' = Established /\ Unfinished' = Unfinished
  BY <1>1 DEF Established, Unfinished
<1>3. MapNamesLive'
  BY <1>2 DEF UdpInv, SessionsAccounted, MapNamesLive, Established
<1> QED
  BY <1>2, <1>3 DEF UdpInv, SessionsAccounted

\* The end of task i: its permit, its place in the gauge and its map entry go
\* together.
LEMMA UdpEnds ==
  ASSUME UdpInv, NEW i \in PumpIds, pumps[i].phase # "done", Teardown(i)
  PROVE  UdpInv'
<1> USE DEF UdpInv
<1> DEFINE ended == [pumps[i] EXCEPT !.phase = "done"]
<1>1. PumpIds = 1 .. Len(pumps) /\ Len(pumps) \in Nat
  BY PumpSetsFinite
<1>2. pumps[i] \in Pumps /\ ended \in Pumps /\ ended.phase = "done" /\ ended.client = pumps[i].client
  <2>1. pumps[i] \in Pumps
    BY <1>1 DEF UdpTypeOK
  <2> QED BY <2>1 DEF Pumps
<1>3. pumps' = [pumps EXCEPT ![i] = ended]
  BY DEF Teardown
<1>4. /\ pumps' \in Seq(Pumps) /\ Len(pumps') = Len(pumps)
      /\ \A j \in 1 .. Len(pumps) : pumps'[j] = IF j = i THEN ended ELSE pumps[j]
  BY <1>1, <1>2, <1>3, ExceptSeq DEF UdpTypeOK
<1>5. PumpIds' = PumpIds
  BY <1>1, <1>4 DEF PumpIds
<1>6. Unfinished' = Unfinished \ {i} /\ Established' = Established \ {i}
  BY <1>1, <1>2, <1>4, <1>5 DEF Unfinished, Established
<1>7. i \in Unfinished /\ (i \in Established <=> pumps[i].phase = "pumping")
  BY DEF Unfinished, Established
<1>8. Cardinality(Unfinished') = Cardinality(Unfinished) - 1
  BY <1>6, <1>7, PumpSetsFinite, FS_RemoveElement
<1>9. live' = Cardinality(Established')
  BY <1>6, <1>7, PumpSetsFinite, FS_RemoveElement DEF Teardown, SessionsAccounted
<1>10. MapNamesLive'
  <2> SUFFICES ASSUME NEW c \in Clients, sessions'[c] # 0
               PROVE  sessions'[c] \in Established' /\ pumps'[sessions'[c]].client = c
    BY DEF MapNamesLive
  <2>1. sessions'[c] = sessions[c] /\ sessions[c] # i
    <3>1. CASE pumps[i].phase = "pumping"
      BY <3>1, <1>2 DEF Teardown, Evicted, UdpTypeOK, Pumps, SessionsAccounted, MapNamesLive, Established
    <3>2. CASE pumps[i].phase # "pumping"
      BY <3>2 DEF Teardown, SessionsAccounted, MapNamesLive, Established
    <3> QED BY <3>1, <3>2
  <2>2. sessions[c] \in Established /\ pumps[sessions[c]].client = c
    BY <2>1 DEF SessionsAccounted, MapNamesLive
  <2>3. sessions[c] \in 1 .. Len(pumps)
    BY <1>1, <2>2 DEF Established
  <2> QED BY <1>4, <1>6, <2>1, <2>2, <2>3
<1>11. permits' + Cardinality(Unfinished') = SessionLimit
  BY <1>8, PumpSetsFinite DEF Teardown, SessionsAccounted, UdpTypeOK
<1>12. permits' \in 0 .. SessionLimit /\ live' \in 0 .. SessionLimit
  <2>1. IsFiniteSet(Unfinished') /\ IsFiniteSet(Established')
    BY <1>6, PumpSetsFinite, FS_RemoveElement
  <2>2. Cardinality(Unfinished') \in Nat /\ Cardinality(Established') \in Nat
    BY <2>1, FS_CardinalityType
  <2>3. Established' \in SUBSET Unfinished
    BY <1>6 DEF Established, Unfinished
  <2>4. Cardinality(Established') <= Cardinality(Unfinished)
    BY <2>3, PumpSetsFinite, FS_Subset
  <2>5. permits \in Nat /\ permits' = permits + 1
    BY SessionLimitAssumption DEF Teardown, UdpTypeOK
  <2> QED BY <1>9, <1>11, <2>2, <2>4, <2>5, PumpSetsFinite, SessionLimitAssumption DEF SessionsAccounted
<1>13. sessions' \in [Clients -> 0 .. MaxDatagrams]
  <2>1. sessions \in [Clients -> 0 .. MaxDatagrams] /\ 0 \in 0 .. MaxDatagrams
    BY SessionLimitAssumption DEF UdpTypeOK
  <2>2. sessions' = sessions \/ \E n \in 0 .. MaxDatagrams : sessions' = [sessions EXCEPT ![pumps[i].client] = n]
    <3>1. pumps[i].client \in Clients
      BY <1>2 DEF Pumps
    <3> QED BY <2>1, <3>1 DEF Teardown, Evicted
  <2> QED BY <2>1, <2>2
<1>14. UdpTypeOK'
  BY <1>4, <1>12, <1>13 DEF UdpTypeOK, Teardown
<1>15. forwarder' = forwarder /\ forwarder # "exited"
  BY <1>7 DEF Teardown
<1> QED
  BY <1>4, <1>9, <1>10, <1>11, <1>14, <1>15 DEF SessionsAccounted, Teardown, UdpTypeOK

\* last_seen is bumped, or found moved: the task's record keeps its client and phase.
LEMMA UdpTouched ==
  ASSUME UdpInv, NEW i \in PumpIds, NEW v \in {"yes", "no"},
         pumps' = [pumps EXCEPT ![i].recent = v],
         UNCHANGED <<sessions, permits, live, forwarder>>, sent' \in {sent, sent + 1}, sent' <= MaxDatagrams
  PROVE  UdpInv'
<1> USE DEF UdpInv
<1> DEFINE touched == [pumps[i] EXCEPT !.recent = v]
<1>1. PumpIds = 1 .. Len(pumps) /\ Len(pumps) \in Nat
  BY PumpSetsFinite
<1>2. pumps[i] \in Pumps
  BY <1>1 DEF UdpTypeOK
<1>3. touched \in Pumps /\ touched.phase = pumps[i].phase /\ touched.client = pumps[i].client
  BY <1>2 DEF Pumps
<1>4. pumps' = [pumps EXCEPT ![i] = touched]
  OBVIOUS
<1>5. /\ pumps' \in Seq(Pumps) /\ Len(pumps') = Len(pumps)
      /\ \A j \in 1 .. Len(pumps) : pumps'[j] = IF j = i THEN touched ELSE pumps[j]
  BY <1>1, <1>3, <1>4, ExceptSeq DEF UdpTypeOK
<1>6. UdpTypeOK' /\ Len(pumps') <= sent'
  BY <1>1, <1>5, SessionLimitAssumption DEF UdpTypeOK
<1>7. \A j \in PumpIds : pumps'[j].phase = pumps[j].phase /\ pumps'[j].client = pumps[j].client
  BY <1>1, <1>3, <1>5
<1> QED
  BY <1>5, <1>6, <1>7, UdpKept

\* A session stands: the map entry goes to it and the gauge counts it.
LEMMA UdpEstablishes ==
  ASSUME UdpInv, NEW i \in PumpIds, Establish(i)
  PROVE  UdpInv'
<1> USE DEF UdpInv
<1> DEFINE up == [pumps[i] EXCEPT !.phase = "pumping"]
<1>1. PumpIds = 1 .. Len(pumps) /\ Len(pumps) \in Nat
  BY PumpSetsFinite
<1>2. pumps[i] \in Pumps
  BY <1>1 DEF UdpTypeOK
<1>3. up \in Pumps /\ up.phase = "pumping" /\ up.client = pumps[i].client /\ pumps[i].client \in Clients
  BY <1>2 DEF Pumps
<1>4. pumps' = [pumps EXCEPT ![i] = up]
  BY DEF Establish
<1>5. /\ pumps' \in Seq(Pumps) /\ Len(pumps') = Len(pumps)
      /\ \A j \in 1 .. Len(pumps) : pumps'[j] = IF j = i THEN up ELSE pumps[j]
  BY <1>1, <1>3, <1>4, ExceptSeq DEF UdpTypeOK
<1>6. PumpIds' = PumpIds
  BY <1>1, <1>5 DEF PumpIds
<1>7. Unfinished' = Unfinished /\ Established' = Established \cup {i} /\ i \notin Established /\ i \in Unfinished
  BY <1>1, <1>3, <1>5, <1>6 DEF Unfinished, Established, Establish
<1>8. live' = Cardinality(Established') /\ live' \in Nat
  <2>1. Cardinality(Established \cup {i}) = Cardinality(Established) + 1
    BY <1>7, PumpSetsFinite, FS_AddElement
  <2> QED BY <1>7, <2>1, PumpSetsFinite DEF Establish, SessionsAccounted
<1>9. MapNamesLive'
  <2> SUFFICES ASSUME NEW c \in Clients, sessions'[c] # 0
               PROVE  sessions'[c] \in Established' /\ pumps'[sessions'[c]].client = c
    BY DEF MapNamesLive
  <2>1. CASE c = pumps[i].client
    BY <1>1, <1>3, <1>5, <1>7, <2>1 DEF Establish, UdpTypeOK
  <2>2. CASE c # pumps[i].client
    <3>1. sessions'[c] = sessions[c]
      BY <2>2 DEF Establish, UdpTypeOK
    <3>2. sessions[c] \in Established /\ pumps[sessions[c]].client = c
      BY <3>1 DEF SessionsAccounted, MapNamesLive
    <3>3. sessions[c] \in 1 .. Len(pumps)
      BY <1>1, <3>2 DEF Established
    <3> QED BY <1>3, <1>5, <1>7, <3>1, <3>2, <3>3
  <2> QED BY <2>1, <2>2
<1>10. live' <= SessionLimit
  <2>1. Established' \in SUBSET Unfinished
    BY <1>7 DEF Established, Unfinished
  <2>2. Cardinality(Established') <= Cardinality(Unfinished)
    BY <2>1, PumpSetsFinite, FS_Subset
  <2>3. permits \in Nat /\ permits + Cardinality(Unfinished) = SessionLimit
    BY SessionLimitAssumption DEF UdpTypeOK, SessionsAccounted
  <2> QED BY <1>8, <2>2, <2>3, PumpSetsFinite, SessionLimitAssumption
<1>11. i <= MaxDatagrams /\ i \in Nat
  BY <1>1, SessionLimitAssumption DEF UdpTypeOK
<1>12. UdpTypeOK'
  BY <1>3, <1>5, <1>8, <1>10, <1>11, SessionLimitAssumption DEF UdpTypeOK, Establish
<1>13. forwarder' = forwarder /\ forwarder # "exited" /\ sent' = sent /\ permits' = permits
  BY <1>7 DEF Establish
<1> QED
  BY <1>5, <1>7, <1>8, <1>9, <1>12, <1>13 DEF SessionsAccounted

\* A permit is taken and a task spawned in one step of the receive loop.
LEMMA UdpSpawns ==
  ASSUME UdpInv, NEW c \in Clients, FirstDatagram(c), Admitted(c)
  PROVE  UdpInv'
<1> USE DEF UdpInv
<1> DEFINE new == [client |-> c, phase |-> "setup", recent |-> "yes"]
           n == Len(pumps) + 1
<1>1. PumpIds = 1 .. Len(pumps) /\ Len(pumps) \in Nat /\ pumps \in Seq(Pumps)
  BY PumpSetsFinite DEF UdpTypeOK
<1>2. new \in Pumps
  BY DEF Pumps
<1>3. /\ pumps' \in Seq(Pumps) /\ Len(pumps') = n
      /\ \A j \in 1 .. Len(pumps) : pumps'[j] = pumps[j]
      /\ pumps'[n] = new
  BY <1>1, <1>2, AppendProperties DEF FirstDatagram
<1>4. PumpIds' = PumpIds \cup {n} /\ n \notin PumpIds
  <2>1. PumpIds' = 1 .. n
    BY <1>3 DEF PumpIds
  <2> QED BY <1>1, <2>1
<1>5. Unfinished' = Unfinished \cup {n} /\ Established' = Established /\ n \notin Unfinished
  BY <1>1, <1>3, <1>4 DEF Unfinished, Established
<1>6. Cardinality(Unfinished') = Cardinality(Unfinished) + 1
  BY <1>5, PumpSetsFinite, FS_AddElement
<1>7. permits \in Nat /\ permits > 0 /\ permits' = permits - 1
  BY SessionLimitAssumption DEF FirstDatagram, Admitted, UdpTypeOK
<1>8. MapNamesLive'
  <2> SUFFICES ASSUME NEW d \in Clients, sessions[d] # 0
               PROVE  sessions[d] \in Established' /\ pumps'[sessions[d]].client = d
    BY DEF MapNamesLive, FirstDatagram
  <2>1. sessions[d] \in Established /\ pumps[sessions[d]].client = d
    BY DEF SessionsAccounted, MapNamesLive
  <2>2. sessions[d] \in 1 .. Len(pumps)
    BY <1>1, <2>1 DEF Established
  <2> QED BY <1>3, <1>5, <2>1, <2>2
<1>9. UdpTypeOK' /\ Len(pumps') <= sent'
  BY <1>1, <1>3, <1>7, SessionLimitAssumption DEF UdpTypeOK, FirstDatagram
<1>10. permits' + Cardinality(Unfinished') = SessionLimit
  BY <1>6, <1>7, PumpSetsFinite DEF SessionsAccounted
<1>11. /\ live' = live /\ forwarder' = forwarder /\ forwarder # "exited"
  BY DEF FirstDatagram
<1> QED
  BY <1>5, <1>8, <1>9, <1>10, <1>11 DEF SessionsAccounted

LEMMA UdpStep ==
  ASSUME UdpInv, [UdpNext]_udpVars
  PROVE  UdpInv'
<1> USE DEF UdpInv
<1>1. ASSUME NEW c \in Clients, RepeatDatagram(c)
      PROVE  UdpInv'
  <2>1. sessions[c] \in PumpIds
    BY <1>1 DEF RepeatDatagram, SessionsAccounted, MapNamesLive, Established
  <2>2. sent' = sent + 1 /\ sent' <= MaxDatagrams
    BY <1>1, SessionLimitAssumption DEF RepeatDatagram, UdpTypeOK
  <2> QED BY <1>1, <2>1, <2>2, UdpTouched DEF RepeatDatagram
<1>2. ASSUME NEW c \in Clients, FirstDatagram(c)
      PROVE  UdpInv'
  <2>1. CASE ~Admitted(c)
    <3>1. UdpTypeOK' /\ Len(pumps') <= sent'
      BY <1>2, <2>1, PumpSetsFinite, SessionLimitAssumption DEF FirstDatagram, UdpTypeOK
    <3> QED BY <1>2, <2>1, <3>1, UdpKept DEF FirstDatagram
  <2> QED BY <1>2, <2>1, UdpSpawns
<1>3. CASE DroppedDatagram
  <2>1. UdpTypeOK' /\ Len(pumps') <= sent'
    BY <1>3, PumpSetsFinite, SessionLimitAssumption DEF DroppedDatagram, UdpTypeOK
  <2> QED BY <1>3, <2>1, UdpKept DEF DroppedDatagram
<1>4. CASE UdpDrain
  BY <1>4 DEF UdpDrain, UdpTypeOK, SessionsAccounted, MapNamesLive, Unfinished, Established, PumpIds
<1>5. CASE UdpExit
  <2>1. Established = {} /\ Unfinished = {}
    BY <1>5 DEF UdpExit, Established, Unfinished
  <2>2. live = 0 /\ permits = SessionLimit
    <3>1. Cardinality(Established) = 0 /\ Cardinality(Unfinished) = 0
      BY <2>1, FS_EmptySet
    <3> QED BY <3>1, SessionLimitAssumption DEF SessionsAccounted, UdpTypeOK
  <2>3. /\ UNCHANGED <<sessions, pumps, permits, live, sent>> /\ forwarder' = "exited"
        /\ Unfinished' = Unfinished /\ Established' = Established
    BY <1>5 DEF UdpExit, Unfinished, Established, PumpIds
  <2>4. UdpTypeOK' /\ MapNamesLive'
    BY <2>3 DEF UdpTypeOK, SessionsAccounted, MapNamesLive
  <2> QED BY <2>1, <2>2, <2>3, <2>4 DEF SessionsAccounted
<1>6. ASSUME NEW i \in PumpIds, SetupFails(i) \/ RecvError(i) \/ Aborted(i)
      PROVE  UdpInv'
  <2>1. Teardown(i) /\ pumps[i].phase # "done"
    BY <1>6 DEF SetupFails, RecvError, Aborted, Teardown, Unfinished
  <2> QED BY <2>1, UdpEnds
<1>7. ASSUME NEW i \in PumpIds, IdleTick(i)
      PROVE  UdpInv'
  <2>1. CASE Teardown(i)
    BY <1>7, <2>1, UdpEnds DEF IdleTick
  <2>2. CASE ~Teardown(i)
    BY <1>7, <2>2, UdpTouched, SessionLimitAssumption DEF IdleTick, UdpTypeOK
  <2> QED BY <2>1, <2>2
<1>8. CASE UNCHANGED udpVars
  BY <1>8 DEF udpVars, UdpTypeOK, SessionsAccounted, MapNamesLive, Unfinished, Established, PumpIds
<1> QED
  BY <1>1, <1>2, <1>3, <1>4, <1>5, <1>6, <1>7, <1>8, UdpEstablishes DEF UdpNext

LEMMA UdpInvHolds == UdpSpec => []UdpInv
<1>1. UdpInit => UdpInv
  <2> SUFFICES ASSUME UdpInit PROVE UdpInv
    OBVIOUS
  <2>1. PumpIds = {} /\ Len(pumps) = 0 /\ pumps \in Seq(Pumps)
    BY DEF UdpInit, PumpIds
  <2>2. Unfinished = {} /\ Established = {}
    BY <2>1 DEF Unfinished, Established
  <2>3. Cardinality(Unfinished) = 0 /\ Cardinality(Established) = 0
    BY <2>2, FS_EmptySet
  <2>4. UdpTypeOK /\ MapNamesLive
    BY <2>1, SessionLimitAssumption DEF UdpInit, UdpTypeOK, MapNamesLive
  <2> QED BY <2>1, <2>2, <2>3, <2>4, SessionLimitAssumption DEF UdpInit, UdpInv, SessionsAccounted
<1> QED
  BY <1>1, UdpStep, PTL DEF UdpSpec

\* UdpForwarder: whatever way its sessions end and however they race for the map, the
\* permits, the gauge and the map of a listener agree, and all are free at its exit.
THEOREM UdpSessionsAccounted == UdpSpec => []SessionsAccounted
<1>1. UdpInv => SessionsAccounted
  BY DEF UdpInv
<1> QED BY <1>1, UdpInvHolds, PTL

\* The type invariant of UdpSessions; with it the permits, taken before a session is set up,
\* bound the sessions of a listener.
THEOREM UdpTypes == UdpSpec => []UdpTypeOK
<1>1. UdpInv => UdpTypeOK
  BY DEF UdpInv
<1> QED BY <1>1, UdpInvHolds, PTL

\* The step form of NeverEvictsAnother: only the end of a task takes an entry away, and
\* only its own.
LEMMA UdpEvictStep ==
  ASSUME UdpInv, [UdpNext]_udpVars, NEW c \in Clients, sessions[c] # 0, sessions'[c] = 0
  PROVE  pumps'[sessions[c]].phase = "done"
<1> USE DEF UdpInv
<1>1. ASSUME NEW i \in PumpIds, pumps[i].phase # "done", Teardown(i)
      PROVE  pumps'[sessions[c]].phase = "done"
  <2>1. pumps[i].phase = "pumping" /\ pumps[i].client = c /\ sessions[c] = i
    BY <1>1 DEF Teardown, Evicted, UdpTypeOK
  <2>2. PumpIds = 1 .. Len(pumps) /\ pumps \in Seq(Pumps)
    BY PumpSetsFinite DEF UdpTypeOK
  <2>3. pumps[i] \in Pumps
    BY <2>2
  <2>4. pumps'[i] = [pumps[i] EXCEPT !.phase = "done"]
    BY <1>1, <2>2 DEF Teardown
  <2> QED BY <2>1, <2>3, <2>4 DEF Pumps
<1>2. ASSUME NEW i \in PumpIds, Establish(i)
      PROVE  FALSE
  <2>1. PumpIds = 1 .. Len(pumps)
    BY PumpSetsFinite
  <2> QED BY <1>2, <2>1 DEF Establish, UdpTypeOK
<1>3. ASSUME NEW i \in PumpIds, SetupFails(i) \/ RecvError(i) \/ IdleTick(i) \/ Aborted(i)
      PROVE  Teardown(i) /\ pumps[i].phase # "done"
  BY <1>3 DEF SetupFails, RecvError, IdleTick, Aborted, Teardown, Unfinished
<1>4. ASSUME NEW d \in Clients, RepeatDatagram(d) \/ FirstDatagram(d)
      PROVE  FALSE
  BY <1>4 DEF RepeatDatagram, FirstDatagram
<1>5. CASE DroppedDatagram \/ UdpDrain \/ UdpExit \/ UNCHANGED udpVars
  BY <1>5 DEF DroppedDatagram, UdpDrain, UdpExit, udpVars
<1> QED
  BY <1>1, <1>2, <1>3, <1>4, <1>5 DEF UdpNext

\* Drop for SessionGuard (remove_if with ptr_eq): a map entry disappears only with the
\* task that owns it.
THEOREM UdpEvictsOwn == UdpSpec => NeverEvictsAnother
<1>1. UdpInv /\ [UdpNext]_udpVars =>
        [\A c \in Clients : sessions[c] # 0 /\ sessions'[c] = 0 =>
           pumps'[sessions[c]].phase = "done"]_udpVars
  BY UdpEvictStep
<1> QED BY <1>1, UdpInvHolds, PTL DEF UdpSpec, NeverEvictsAnother

-----------------------------------------------------------------------------
(* Requests *)

\* What the context of a request says of itself: a response or an error is there only
\* for logging, an attempt has an endpoint, and every try is the first, one the budget
\* paid for, or one of the two kinds nobody counts.
CtxOK(c) ==
  /\ c.pc \in {"filter", "done"} => c.addr = NoEndpoint /\ c.track = NoEndpoint
  /\ c.pc # "logging" => c.status = "none" /\ c.rejected = "no"
  /\ c.pc \in {"connect", "proxy"} => c.addr # NoEndpoint /\ c.used + c.reuses + c.stale < c.tries
  /\ c.pc \in {"filter", "peer"} => c.tries < MaxRetries /\ c.tries <= c.used + c.reuses + c.stale
  /\ c.used + c.reuses + c.stale <= c.tries
  /\ c.tries <= 1 + c.used + c.reuses + c.stale
  /\ c.used <= RetryBudget

Holders(e) == {r \in Requests : req[r].track = e}

\* The requests whose last attempt was at e and failed, or was not even made, and which may
\* still be recorded.
Chargeable(e) ==
  {r \in Requests : /\ req[r].addr = e /\ req[r].rejected = "no"
                    /\ req[r].pc = "peer" \/ (req[r].pc = "logging" /\ req[r].status # "ok")}

Logged == {r \in Requests : req[r].pc = "done"}

\* Every error a breaker has recorded, or will record for a request that has failed
\* already, was blamed on the endpoint or counted as an attempt not made there, and each
\* request records one at most.
Charged(e) ==
  /\ breaker[e].errors + Cardinality(Chargeable(e)) <= blame[e] + unmade[e]
  /\ breaker[e].errors <= Cardinality(Logged)

ReqInv ==
  /\ ReqTypeOK
  /\ \A r \in Requests : CtxOK(req[r])
  /\ InUseExact
  /\ \A e \in Endpoints : Charged(e)

\* Moving one element in or out of a finite set.
LEMMA CardMove ==
  ASSUME NEW S, NEW T, NEW r, IsFiniteSet(S), S \ {r} = T \ {r}
  PROVE  /\ IsFiniteSet(T) /\ Cardinality(S) \in Nat /\ Cardinality(T) \in Nat
         /\ Cardinality(T) + (IF r \in S THEN 1 ELSE 0) = Cardinality(S) + (IF r \in T THEN 1 ELSE 0)
<1>1. IsFiniteSet(S \ {r}) /\ Cardinality(S \ {r}) \in Nat
  BY FS_RemoveElement, FS_CardinalityType
<1>2. CASE r \in T
  <2>1. T = (S \ {r}) \cup {r} /\ r \notin S \ {r}
    BY <1>2
  <2>2. IsFiniteSet(T) /\ Cardinality(T) = Cardinality(S \ {r}) + 1
    BY <1>1, <2>1, FS_AddElement
  <2> QED BY <1>1, <1>2, <2>2, FS_RemoveElement, FS_CardinalityType
<1>3. CASE r \notin T
  <2>1. T = S \ {r}
    BY <1>3
  <2> QED BY <1>1, <1>3, <2>1, FS_RemoveElement, FS_CardinalityType
<1> QED BY <1>2, <1>3

LEMMA RequestSets ==
  ASSUME NEW H \in SUBSET Requests, NEW C \in SUBSET Requests, NEW L \in SUBSET Requests, C \cap L = {}
  PROVE  /\ IsFiniteSet(H) /\ Cardinality(H) \in Nat /\ Cardinality(H) <= Cardinality(Requests)
         /\ IsFiniteSet(C) /\ IsFiniteSet(L)
         /\ Cardinality(C) \in Nat /\ Cardinality(L) \in Nat
         /\ Cardinality(Requests) \in Nat
         /\ Cardinality(C) + Cardinality(L) <= Cardinality(Requests)
<1>1. IsFiniteSet(Requests) /\ Cardinality(Requests) \in Nat
  BY RequestsAssumption, FS_CardinalityType
<1>3. IsFiniteSet(H) /\ Cardinality(H) <= Cardinality(Requests)
  BY <1>1, FS_Subset
<1>4. IsFiniteSet(C) /\ IsFiniteSet(L)
  BY <1>1, FS_Subset
<1>5. /\ Cardinality(H) \in Nat /\ Cardinality(C) \in Nat /\ Cardinality(L) \in Nat
  BY <1>3, <1>4, FS_CardinalityType
<1>6. Cardinality(C \cup L) = Cardinality(C) + Cardinality(L) - 0
  BY <1>4, FS_Union, FS_EmptySet
<1>7. Cardinality(C \cup L) <= Cardinality(Requests)
  BY <1>1, FS_Subset
<1> QED BY <1>1, <1>3, <1>4, <1>5, <1>6, <1>7

LEMMA RequestCounts ==
  ASSUME NEW e
  PROVE  /\ IsFiniteSet(Holders(e)) /\ Cardinality(Holders(e)) \in Nat
         /\ Cardinality(Holders(e)) <= Cardinality(Requests)
         /\ IsFiniteSet(Chargeable(e)) /\ IsFiniteSet(Logged)
         /\ Cardinality(Chargeable(e)) \in Nat /\ Cardinality(Logged) \in Nat
         /\ Cardinality(Requests) \in Nat
         /\ Cardinality(Chargeable(e)) + Cardinality(Logged) <= Cardinality(Requests)
<1>1. /\ Holders(e) \in SUBSET Requests /\ Chargeable(e) \in SUBSET Requests /\ Logged \in SUBSET Requests
      /\ Chargeable(e) \cap Logged = {}
  BY DEF Holders, Chargeable, Logged
<1> QED BY <1>1, RequestSets

\* How a step of request r, which gives it the context c, moves the counts.
LEMMA CountMoves ==
  ASSUME ReqTypeOK, NEW r \in Requests, NEW c \in Contexts, req' = [req EXCEPT ![r] = c],
         NEW e \in Endpoints
  PROVE  /\ Cardinality(Holders(e)') + (IF r \in Holders(e) THEN 1 ELSE 0)
              = Cardinality(Holders(e)) + (IF r \in Holders(e)' THEN 1 ELSE 0)
         /\ (r \in Holders(e) <=> req[r].track = e) /\ (r \in Holders(e)' <=> c.track = e)
         /\ Cardinality(Chargeable(e)') + (IF r \in Chargeable(e) THEN 1 ELSE 0)
              = Cardinality(Chargeable(e)) + (IF r \in Chargeable(e)' THEN 1 ELSE 0)
         /\ Cardinality(Logged') + (IF req[r].pc = "done" THEN 1 ELSE 0)
              = Cardinality(Logged) + (IF c.pc = "done" THEN 1 ELSE 0)
         /\ req'[r] = c
         /\ Cardinality(Holders(e)') \in Nat /\ Cardinality(Holders(e)') <= Cardinality(Requests)
         /\ Cardinality(Chargeable(e)') \in Nat /\ Cardinality(Logged') \in Nat
         /\ Cardinality(Chargeable(e)') + Cardinality(Logged') <= Cardinality(Requests)
<1>1. \A q \in Requests : req'[q] = IF q = r THEN c ELSE req[q]
  BY DEF ReqTypeOK
<1>2. /\ Holders(e) \ {r} = Holders(e)' \ {r}
      /\ Chargeable(e) \ {r} = Chargeable(e)' \ {r}
      /\ Logged \ {r} = Logged' \ {r}
  BY <1>1 DEF Holders, Chargeable, Logged
<1>3. /\ r \in Holders(e) <=> req[r].track = e
      /\ r \in Holders(e)' <=> c.track = e
      /\ r \in Logged <=> req[r].pc = "done"
      /\ r \in Logged' <=> c.pc = "done"
  BY <1>1 DEF Holders, Logged
<1>4. Cardinality(Holders(e)') + (IF r \in Holders(e) THEN 1 ELSE 0)
        = Cardinality(Holders(e)) + (IF r \in Holders(e)' THEN 1 ELSE 0)
  BY <1>2, RequestCounts, CardMove
<1>5. Cardinality(Chargeable(e)') + (IF r \in Chargeable(e) THEN 1 ELSE 0)
        = Cardinality(Chargeable(e)) + (IF r \in Chargeable(e)' THEN 1 ELSE 0)
  BY <1>2, RequestCounts, CardMove
<1>6. Cardinality(Logged') + (IF r \in Logged THEN 1 ELSE 0)
        = Cardinality(Logged) + (IF r \in Logged' THEN 1 ELSE 0)
  BY <1>2, RequestCounts, CardMove
<1>7. /\ Cardinality(Holders(e)') \in Nat /\ Cardinality(Holders(e)') <= Cardinality(Requests)
      /\ Cardinality(Chargeable(e)') \in Nat /\ Cardinality(Logged') \in Nat
      /\ Cardinality(Chargeable(e)') + Cardinality(Logged') <= Cardinality(Requests)
  <2>1. /\ Holders(e)' \in SUBSET Requests /\ Chargeable(e)' \in SUBSET Requests /\ Logged' \in SUBSET Requests
        /\ Chargeable(e)' \cap Logged' = {}
    BY DEF Holders, Chargeable, Logged
  <2> QED BY <2>1, RequestSets
<1> QED BY <1>1, <1>3, <1>4, <1>5, <1>6, <1>7

\* The counter of an endpoint moves with the track of the request.
Recounted(r, c) ==
  inUse' = [e \in Endpoints |-> inUse[e] + (IF e = c.track THEN 1 ELSE 0)
                                        - (IF e = req[r].track THEN 1 ELSE 0)]

BreakerStates == {"absent", "closed", "open", "elapsed", "half"}

\* A step of one request keeps the invariant when it keeps what concerns breakers.
LEMMA ContextStep ==
  ASSUME ReqInv, NEW r \in Requests, NEW c \in Contexts, CtxOK(c), req' = [req EXCEPT ![r] = c],
         Recounted(r, c),
         breaker' \in [Endpoints -> [state : BreakerStates, errors : Nat]],
         blame' \in [Endpoints -> 0 .. Cardinality(Requests)],
         unmade' \in [Endpoints -> 0 .. Cardinality(Requests)],
         \A e \in Endpoints : Charged(e)'
  PROVE  ReqInv'
<1> USE DEF ReqInv
<1>1. \A e \in Endpoints : inUse'[e] = Cardinality(Holders(e)') /\ inUse'[e] \in 0 .. Cardinality(Requests)
  <2> SUFFICES ASSUME NEW e \in Endpoints
               PROVE  inUse'[e] = Cardinality(Holders(e)') /\ inUse'[e] \in 0 .. Cardinality(Requests)
    OBVIOUS
  <2>1. inUse[e] = Cardinality(Holders(e)) /\ Cardinality(Holders(e)) \in Nat /\ Cardinality(Requests) \in Nat
    <3>1. inUse[e] = Cardinality(Holders(e))
      BY DEF InUseExact, Holders
    <3> QED BY <3>1, RequestCounts
  <2>2. inUse'[e] = inUse[e] + (IF e = c.track THEN 1 ELSE 0) - (IF e = req[r].track THEN 1 ELSE 0)
    BY DEF Recounted
  <2>3. /\ Cardinality(Holders(e)') + (IF r \in Holders(e) THEN 1 ELSE 0)
             = Cardinality(Holders(e)) + (IF r \in Holders(e)' THEN 1 ELSE 0)
        /\ Cardinality(Holders(e)') \in Nat
    BY CountMoves
  <2>5. Cardinality(Holders(e)') <= Cardinality(Requests)
    BY CountMoves
  <2>6. (r \in Holders(e) <=> req[r].track = e) /\ (r \in Holders(e)' <=> c.track = e)
    BY CountMoves
  <2>4. inUse'[e] = Cardinality(Holders(e)')
    BY <2>1, <2>2, <2>3, <2>6
  <2> QED BY <2>1, <2>3, <2>4, <2>5
<1>2. InUseExact'
  BY <1>1 DEF InUseExact, Holders
<1>3. \A e \in Endpoints : breaker'[e].errors <= Cardinality(Requests) /\ breaker'[e].errors \in Nat
  <2> SUFFICES ASSUME NEW e \in Endpoints
               PROVE  breaker'[e].errors <= Cardinality(Requests) /\ breaker'[e].errors \in Nat
    OBVIOUS
  <2>1. breaker'[e].errors <= Cardinality(Logged') /\ breaker'[e].errors \in Nat
    BY DEF Charged
  <2>2. Cardinality(Requests) \in Nat
    BY RequestCounts
  <2>3. /\ Cardinality(Chargeable(e)') \in Nat /\ Cardinality(Logged') \in Nat
        /\ Cardinality(Chargeable(e)') + Cardinality(Logged') <= Cardinality(Requests)
    BY CountMoves
  <2> QED BY <2>1, <2>2, <2>3
<1>4. breaker' \in [Endpoints -> Breakers]
  BY <1>3, RequestCounts DEF Breakers, BreakerStates
<1>5. inUse' \in [Endpoints -> 0 .. Cardinality(Requests)]
  BY <1>1 DEF Recounted
<1>6. req' \in [Requests -> Contexts] /\ \A q \in Requests : CtxOK(req'[q])
  BY DEF ReqTypeOK
<1>7. \A q \in Requests : CtxOK(req[q])'
  BY <1>6 DEF CtxOK
<1> QED
  BY <1>2, <1>4, <1>5, <1>6, <1>7 DEF ReqTypeOK

\* No error is recorded and no attempt fails, and the request becomes chargeable to nobody
\* it was not chargeable to.
LEMMA NoCharge ==
  ASSUME ReqInv, NEW r \in Requests, NEW c \in Contexts, req' = [req EXCEPT ![r] = c],
         c.pc # "done", req[r].pc # "done",
         UNCHANGED <<blame, unmade>>, NEW e \in Endpoints, breaker'[e].errors = breaker[e].errors,
         r \in Chargeable(e)' => r \in Chargeable(e)
  PROVE  Charged(e)'
<1>1. Charged(e) /\ blame[e] \in Nat /\ unmade[e] \in Nat /\ breaker[e].errors \in Nat
  BY RequestCounts DEF ReqInv, ReqTypeOK, Breakers
<1>2. /\ Cardinality(Chargeable(e)') <= Cardinality(Chargeable(e))
      /\ Cardinality(Logged') = Cardinality(Logged)
      /\ Cardinality(Chargeable(e)') \in Nat /\ Cardinality(Chargeable(e)) \in Nat
  <2>1. /\ Cardinality(Chargeable(e)') + (IF r \in Chargeable(e) THEN 1 ELSE 0)
             = Cardinality(Chargeable(e)) + (IF r \in Chargeable(e)' THEN 1 ELSE 0)
        /\ Cardinality(Logged') + (IF req[r].pc = "done" THEN 1 ELSE 0)
             = Cardinality(Logged) + (IF c.pc = "done" THEN 1 ELSE 0)
        /\ Cardinality(Chargeable(e)') \in Nat /\ Cardinality(Logged') \in Nat
    BY CountMoves DEF ReqInv
  <2>2. Cardinality(Chargeable(e)) \in Nat /\ Cardinality(Logged) \in Nat
    BY RequestCounts
  <2> QED BY <2>1, <2>2
<1> QED
  BY <1>1, <1>2 DEF Charged

\* One of the two counts of an endpoint's attempts goes up with a request that becomes
\* chargeable there.
LEMMA OneCharge ==
  ASSUME ReqInv, NEW r \in Requests, NEW c \in Contexts, req' = [req EXCEPT ![r] = c],
         req[r].pc # "done", c.pc # "done", NEW a \in Endpoints,
         \A e \in Endpoints : r \in Chargeable(e)' => e = a \/ r \in Chargeable(e),
         \/ blame' = [blame EXCEPT ![a] = OneMore(@)] /\ UNCHANGED unmade
         \/ unmade' = [unmade EXCEPT ![a] = OneMore(@)] /\ UNCHANGED blame,
         \A e \in Endpoints : breaker'[e].errors = breaker[e].errors
  PROVE  /\ blame' \in [Endpoints -> 0 .. Cardinality(Requests)]
         /\ unmade' \in [Endpoints -> 0 .. Cardinality(Requests)]
         /\ \A e \in Endpoints : Charged(e)'
<1> USE DEF ReqInv
<1>1. Cardinality(Requests) \in Nat
  BY RequestCounts
<1>2. /\ blame' \in [Endpoints -> 0 .. Cardinality(Requests)]
      /\ unmade' \in [Endpoints -> 0 .. Cardinality(Requests)]
  BY <1>1 DEF OneMore, ReqTypeOK
<1>3. ASSUME NEW e \in Endpoints PROVE Charged(e)'
  <2> DEFINE n == blame[e] + unmade[e]
             m == blame'[e] + unmade'[e]
  <2>1. /\ Charged(e) /\ breaker[e].errors \in Nat
        /\ blame[e] \in 0 .. Cardinality(Requests) /\ unmade[e] \in 0 .. Cardinality(Requests)
    BY DEF ReqTypeOK, Breakers
  <2>2. /\ Cardinality(Logged') = Cardinality(Logged)
        /\ Cardinality(Chargeable(e)') <= Cardinality(Chargeable(e)) + (IF e = a THEN 1 ELSE 0)
        /\ Cardinality(Chargeable(e)) \in Nat /\ Cardinality(Chargeable(e)') \in Nat
        /\ Cardinality(Logged) \in Nat
        /\ Cardinality(Chargeable(e)') + Cardinality(Logged) <= Cardinality(Requests)
    <3>1. /\ Cardinality(Chargeable(e)') + (IF r \in Chargeable(e) THEN 1 ELSE 0)
               = Cardinality(Chargeable(e)) + (IF r \in Chargeable(e)' THEN 1 ELSE 0)
          /\ Cardinality(Logged') + (IF req[r].pc = "done" THEN 1 ELSE 0)
               = Cardinality(Logged) + (IF c.pc = "done" THEN 1 ELSE 0)
          /\ Cardinality(Chargeable(e)') \in Nat /\ Cardinality(Logged') \in Nat
          /\ Cardinality(Chargeable(e)') + Cardinality(Logged') <= Cardinality(Requests)
      BY CountMoves
    <3>2. Cardinality(Chargeable(e)) \in Nat /\ Cardinality(Logged) \in Nat
      BY RequestCounts
    <3>3. r \in Chargeable(e)' => e = a \/ r \in Chargeable(e)
      OBVIOUS
    <3> QED BY <3>1, <3>2, <3>3
  <2>3. m >= n /\ m \in Nat /\ n \in Nat /\ (e = a => m = n + 1 \/ m >= Cardinality(Requests))
    <3>1. /\ blame' = [blame EXCEPT ![a] = OneMore(@)] /\ UNCHANGED unmade
          => /\ blame'[e] = IF e = a THEN OneMore(blame[e]) ELSE blame[e]
             /\ unmade'[e] = unmade[e]
      BY DEF ReqTypeOK
    <3>2. /\ unmade' = [unmade EXCEPT ![a] = OneMore(@)] /\ UNCHANGED blame
          => /\ unmade'[e] = IF e = a THEN OneMore(unmade[e]) ELSE unmade[e]
             /\ blame'[e] = blame[e]
      BY DEF ReqTypeOK
    <3>3. \A k \in 0 .. Cardinality(Requests) :
            /\ OneMore(k) \in Nat /\ OneMore(k) >= k
            /\ OneMore(k) = k + 1 \/ OneMore(k) >= Cardinality(Requests)
      BY <1>1 DEF OneMore
    <3> QED BY <1>1, <2>1, <3>1, <3>2, <3>3
  <2>4. breaker[e].errors + Cardinality(Chargeable(e)) <= n /\ breaker[e].errors <= Cardinality(Logged)
    BY <2>1 DEF Charged
  <2>5. breaker'[e].errors + Cardinality(Chargeable(e)') <= m
    <3> HIDE DEF m, n
    <3>1. breaker'[e].errors = breaker[e].errors
      OBVIOUS
    <3> QED BY <1>1, <2>1, <2>2, <2>3, <2>4, <3>1
  <2> QED BY <2>2, <2>4, <2>5 DEF Charged
<1> QED BY <1>2, <1>3

\* A request that is answered, given up or abandoned goes to logging as it is.
LEMMA ToLogging ==
  ASSUME NEW c \in Contexts, CtxOK(c), c.pc \in {"filter", "peer", "connect", "proxy"},
         NEW st \in {"none", "ok", "error"}
  PROVE  LET d == [c EXCEPT !.pc = "logging", !.status = st]
         IN  d \in Contexts /\ CtxOK(d) /\ d.track = c.track /\ d.addr = c.addr /\ d.pc = "logging"
             /\ d.rejected = c.rejected /\ d.status = st
  BY RequestConstants DEF Contexts, CtxOK

\* A failed attempt that is tried again, and why.
Repeated(c, d) ==
  \/ c.used < RetryBudget /\ \E why \in {"connect", "response"} : d = [c EXCEPT !.used = @ + 1, !.trigger = why]
  \/ d = [c EXCEPT !.stale = @ + 1]
  \/ d = [c EXCEPT !.reuses = @ + 1]

LEMMA AgainOK ==
  ASSUME NEW c \in Contexts, CtxOK(c), c.pc \in {"connect", "proxy"}, NEW d, Repeated(c, d)
  PROVE  /\ Again(d) \in Contexts /\ CtxOK(Again(d))
         /\ Again(d).track = c.track /\ Again(d).addr = c.addr /\ Again(d).pc \in {"peer", "logging"}
<1>1. /\ c.used \in Nat /\ c.reuses \in Nat /\ c.stale \in Nat /\ c.tries \in Nat
      /\ c.tries <= MaxRetries /\ c.used + c.reuses + c.stale < c.tries
      /\ c.tries <= 1 + c.used + c.reuses + c.stale /\ c.used <= RetryBudget
      /\ c.status = "none" /\ c.rejected = "no" /\ MaxRetries \in Nat /\ RetryBudget \in Nat
  BY RequestConstants DEF Contexts, CtxOK
<1>2. /\ d \in Contexts /\ d.track = c.track /\ d.addr = c.addr /\ d.tries = c.tries
      /\ d.status = "none" /\ d.rejected = "no"
      /\ d.used + d.reuses + d.stale = c.used + c.reuses + c.stale + 1 /\ d.used <= RetryBudget
  <2>0. c.used + 1 \in 0 .. MaxRetries /\ c.stale + 1 \in 0 .. MaxRetries /\ c.reuses + 1 \in 0 .. MaxRetries
    BY <1>1
  <2>1. ASSUME NEW why \in {"connect", "response"}, c.used < RetryBudget,
               d = [c EXCEPT !.used = @ + 1, !.trigger = why]
        PROVE  /\ d \in Contexts /\ d.track = c.track /\ d.addr = c.addr /\ d.tries = c.tries
               /\ d.status = c.status /\ d.rejected = c.rejected
               /\ d.used = c.used + 1 /\ d.reuses = c.reuses /\ d.stale = c.stale /\ d.used <= RetryBudget
    <3>1. d \in Contexts
      BY <2>0, <2>1 DEF Contexts
    <3> QED BY <1>1, <2>1, <3>1 DEF Contexts
  <2>2. ASSUME d = [c EXCEPT !.stale = @ + 1]
        PROVE  /\ d \in Contexts /\ d.track = c.track /\ d.addr = c.addr /\ d.tries = c.tries
               /\ d.status = c.status /\ d.rejected = c.rejected
               /\ d.used = c.used /\ d.reuses = c.reuses /\ d.stale = c.stale + 1
    BY <2>0, <2>2 DEF Contexts
  <2>3. ASSUME d = [c EXCEPT !.reuses = @ + 1]
        PROVE  /\ d \in Contexts /\ d.track = c.track /\ d.addr = c.addr /\ d.tries = c.tries
               /\ d.status = c.status /\ d.rejected = c.rejected
               /\ d.used = c.used /\ d.reuses = c.reuses + 1 /\ d.stale = c.stale
    BY <2>0, <2>3 DEF Contexts
  <2>4. CASE c.used < RetryBudget
             /\ \E why \in {"connect", "response"} : d = [c EXCEPT !.used = @ + 1, !.trigger = why]
    <3>1. PICK why \in {"connect", "response"} : d = [c EXCEPT !.used = @ + 1, !.trigger = why]
      BY <2>4
    <3>2. /\ d \in Contexts /\ d.track = c.track /\ d.addr = c.addr /\ d.tries = c.tries
          /\ d.status = c.status /\ d.rejected = c.rejected
          /\ d.used = c.used + 1 /\ d.reuses = c.reuses /\ d.stale = c.stale /\ d.used <= RetryBudget
      BY <2>1, <2>4, <3>1
    <3> QED BY <1>1, <3>2
  <2>5. CASE d = [c EXCEPT !.stale = @ + 1]
    BY <1>1, <2>2, <2>5
  <2>6. CASE d = [c EXCEPT !.reuses = @ + 1]
    BY <1>1, <2>3, <2>6
  <2> QED BY <2>4, <2>5, <2>6 DEF Repeated
<1>3. CASE d.tries < MaxRetries
  <2>1. Again(d) = [d EXCEPT !.pc = "peer"]
    BY <1>3 DEF Again
  <2> QED BY <1>1, <1>2, <1>3, <2>1 DEF Contexts, CtxOK
<1>4. CASE ~(d.tries < MaxRetries)
  <2> DEFINE b == [d EXCEPT !.pc = "logging"]
  <2>1. Again(d) = [b EXCEPT !.status = "error"]
    BY <1>4 DEF Again
  <2>b. /\ b \in Contexts /\ b.pc = "logging" /\ b.track = d.track /\ b.addr = d.addr
        /\ b.tries = d.tries /\ b.used = d.used /\ b.reuses = d.reuses /\ b.stale = d.stale
    BY <1>2 DEF Contexts
  <2> HIDE DEF b
  <2>2. /\ Again(d) \in Contexts /\ Again(d).pc = "logging" /\ Again(d).track = d.track
        /\ Again(d).addr = d.addr /\ Again(d).tries = d.tries /\ Again(d).used = d.used
        /\ Again(d).reuses = d.reuses /\ Again(d).stale = d.stale
    BY <2>1, <2>b DEF Contexts
  <2>3. /\ d.used + d.reuses + d.stale <= d.tries /\ d.tries <= 1 + d.used + d.reuses + d.stale
        /\ d.used <= RetryBudget
    <3>1. d.used \in Nat /\ d.reuses \in Nat /\ d.stale \in Nat
      BY <1>1, <1>2 DEF Contexts
    <3> QED BY <1>1, <1>2, <3>1
  <2> QED BY <1>2, <2>2, <2>3 DEF CtxOK
<1> QED BY <1>3, <1>4

LEMMA SameTrack ==
  ASSUME ReqTypeOK, NEW r, NEW c, c.track = req[r].track, UNCHANGED inUse
  PROVE  Recounted(r, c)
<1>1. Cardinality(Requests) \in Nat
  BY RequestCounts
<1>2. \A e \in Endpoints : inUse[e] \in Int
  BY <1>1 DEF ReqTypeOK
<1> QED BY <1>2 DEF ReqTypeOK, Recounted

LEMMA FailedStep ==
  ASSUME ReqInv, NEW r \in Requests, NEW c \in Contexts, CtxOK(c), req' = [req EXCEPT ![r] = c],
         req[r].pc \in {"connect", "proxy"}, c.addr = req[r].addr, c.track = req[r].track, c.pc # "done",
         Failed(r), UNCHANGED <<inUse, breaker, unmade>>
  PROVE  ReqInv'
<1>1. Recounted(r, c)
  BY SameTrack DEF ReqInv
<1>2. req[r].addr \in Endpoints /\ \A e \in Endpoints : r \in Chargeable(e)' => e = req[r].addr
  <2>1. req'[r] = c /\ req[r] \in Contexts /\ CtxOK(req[r])
    BY DEF ReqInv, ReqTypeOK
  <2> QED BY <2>1 DEF Contexts, CtxOK, Chargeable
<1>3. /\ blame' \in [Endpoints -> 0 .. Cardinality(Requests)]
      /\ unmade' \in [Endpoints -> 0 .. Cardinality(Requests)]
      /\ \A e \in Endpoints : Charged(e)'
  BY <1>2, OneCharge DEF Failed
<1>4. breaker' \in [Endpoints -> [state : BreakerStates, errors : Nat]]
  BY RequestCounts DEF ReqInv, ReqTypeOK, Breakers, BreakerStates
<1> QED BY <1>1, <1>3, <1>4, ContextStep

\* A step that neither fails an attempt nor records one.
LEMMA QuietStep ==
  ASSUME ReqInv, NEW r \in Requests, NEW c \in Contexts, CtxOK(c), req' = [req EXCEPT ![r] = c],
         req[r].pc # "done", c.pc # "done",
         c.addr \in Endpoints => \/ c.rejected = "yes" \/ c.pc \in {"connect", "proxy"}
                                 \/ c.pc = "logging" /\ c.status = "ok"
                                 \/ req[r].pc = "peer" /\ c.addr = req[r].addr,
         Recounted(r, c), UNCHANGED <<blame, unmade>>,
         breaker' \in [Endpoints -> [state : BreakerStates, errors : Nat]],
         \A e \in Endpoints : breaker'[e].errors = breaker[e].errors
  PROVE  ReqInv'
<1>1. ASSUME NEW e \in Endpoints PROVE Charged(e)'
  <2>1. r \in Chargeable(e)' => r \in Chargeable(e)
    <3>1. req'[r] = c /\ CtxOK(req[r])
      BY DEF ReqInv, ReqTypeOK
    <3> QED BY <3>1 DEF Chargeable, CtxOK
  <2> QED BY <2>1, NoCharge
<1>2. /\ blame' \in [Endpoints -> 0 .. Cardinality(Requests)]
      /\ unmade' \in [Endpoints -> 0 .. Cardinality(Requests)]
  BY DEF ReqInv, ReqTypeOK
<1> QED BY <1>1, <1>2, ContextStep

LEMMA ToConnect ==
  ASSUME NEW a \in Contexts, a.tries + 1 \in 0 .. MaxRetries
  PROVE  LET c == [a EXCEPT !.pc = "connect", !.tries = @ + 1]
         IN  /\ c \in Contexts /\ c.addr = a.addr /\ c.track = a.track /\ c.pc = "connect"
             /\ c.tries = a.tries + 1 /\ c.used = a.used /\ c.reuses = a.reuses /\ c.stale = a.stale
             /\ c.status = a.status /\ c.rejected = a.rejected
  BY DEF Contexts

LEMMA ToRejected ==
  ASSUME NEW a \in Contexts
  PROVE  LET c == [a EXCEPT !.pc = "logging", !.rejected = "yes", !.status = "error"]
         IN  /\ c \in Contexts /\ c.addr = a.addr /\ c.track = a.track /\ c.pc = "logging" /\ c.rejected = "yes"
             /\ c.tries = a.tries /\ c.used = a.used /\ c.reuses = a.reuses /\ c.stale = a.stale
  BY DEF Contexts

\* What the choice of a peer does to the context, whatever comes of it.
LEMMA PeerShape ==
  ASSUME ReqInv, NEW r \in Requests, NEW e \in Endpoints, ChoosesPeer(r, e)
  PROVE  LET a == PeerChosen(r, e)
         IN  /\ req[r] \in Contexts /\ CtxOK(req[r]) /\ req[r].pc = "peer"
             /\ a \in Contexts /\ a.addr = e
             /\ a.used \in Nat /\ a.reuses \in Nat /\ a.stale \in Nat /\ a.tries \in Nat
             /\ a.tries < MaxRetries /\ a.tries <= a.used + a.reuses + a.stale
             /\ a.used + a.reuses + a.stale <= a.tries /\ a.used <= RetryBudget
             /\ a.status = "none" /\ a.rejected = "no" /\ MaxRetries \in Nat /\ RetryBudget \in Nat
             /\ \A c : c.track = a.track => Recounted(r, c)
             /\ breaker' \in [Endpoints -> [state : BreakerStates, errors : Nat]]
             /\ \A d \in Endpoints : breaker'[d].errors = breaker[d].errors
<1> DEFINE at == PeerChosen(r, e)
<1>2. req[r] \in Contexts /\ CtxOK(req[r]) /\ req[r].pc = "peer"
  BY DEF ReqInv, ReqTypeOK, ChoosesPeer
<1>3. /\ at \in Contexts /\ at.addr = e /\ at.track = (IF req[r].pin = NoEndpoint THEN e ELSE req[r].track)
      /\ at.tries = req[r].tries /\ at.used = req[r].used /\ at.reuses = req[r].reuses /\ at.stale = req[r].stale
      /\ at.status = req[r].status /\ at.rejected = req[r].rejected
  BY <1>2 DEF Contexts, PeerChosen
<1>4. /\ at.used \in Nat /\ at.reuses \in Nat /\ at.stale \in Nat /\ at.tries \in Nat
      /\ at.tries < MaxRetries /\ at.tries <= at.used + at.reuses + at.stale
      /\ at.used + at.reuses + at.stale <= at.tries /\ at.used <= RetryBudget
      /\ at.status = "none" /\ at.rejected = "no" /\ MaxRetries \in Nat /\ RetryBudget \in Nat
  BY <1>2, <1>3, RequestConstants DEF Contexts, CtxOK
<1>5. ASSUME NEW c, c.track = at.track PROVE Recounted(r, c)
  <2>1. CASE req[r].pin = NoEndpoint
    BY <1>3, <1>5, <2>1 DEF Recounted, ChoosesPeer, Tracked
  <2>2. CASE req[r].pin # NoEndpoint
    BY <1>3, <1>5, <2>2, SameTrack DEF ChoosesPeer, Tracked, ReqInv
  <2> QED BY <2>1, <2>2
<1>6. /\ breaker' \in [Endpoints -> [state : BreakerStates, errors : Nat]]
      /\ \A d \in Endpoints : breaker'[d].errors = breaker[d].errors
  <2>1. Cardinality(Requests) \in Nat
    BY RequestCounts
  <2>2. breaker \in [Endpoints -> [state : BreakerStates, errors : Nat]]
    BY <2>1 DEF ReqInv, ReqTypeOK, Breakers, BreakerStates
  <2>3. ASSUME NEW b \in [state : BreakerStates, errors : Nat]
        PROVE  Probed(b) \in [state : BreakerStates, errors : Nat] /\ Probed(b).errors = b.errors
    BY DEF Probed, BreakerStates
  <2>4. breaker' = [breaker EXCEPT ![e] = Probed(breaker[e])]
    BY DEF ChoosesPeer
  <2> QED BY <2>2, <2>3, <2>4
<1> HIDE DEF at
<1> QED BY <1>2, <1>3, <1>4, <1>5, <1>6 DEF at

LEMMA PeerStep ==
  ASSUME ReqInv, NEW r \in Requests, NEW e \in Endpoints, UpstreamPeer(r, e)
  PROVE  ReqInv'
<1> DEFINE at == PeerChosen(r, e)
           c == IF Permitted(e) THEN [at EXCEPT !.pc = "connect", !.tries = @ + 1]
                ELSE [at EXCEPT !.pc = "logging", !.rejected = "yes", !.status = "error"]
<1>1. req' = [req EXCEPT ![r] = c] /\ UNCHANGED <<blame, unmade>>
  BY DEF UpstreamPeer
<1>2. /\ req[r].pc = "peer" /\ at \in Contexts /\ at.addr = e
      /\ at.used \in Nat /\ at.reuses \in Nat /\ at.stale \in Nat /\ at.tries \in Nat
      /\ at.tries < MaxRetries /\ at.tries <= at.used + at.reuses + at.stale
      /\ at.used + at.reuses + at.stale <= at.tries /\ at.used <= RetryBudget
      /\ at.status = "none" /\ at.rejected = "no" /\ MaxRetries \in Nat /\ RetryBudget \in Nat
      /\ \A d : d.track = at.track => Recounted(r, d)
      /\ breaker' \in [Endpoints -> [state : BreakerStates, errors : Nat]]
      /\ \A d \in Endpoints : breaker'[d].errors = breaker[d].errors
  BY PeerShape DEF UpstreamPeer
<1> HIDE DEF at
<1>3. /\ c \in Contexts /\ CtxOK(c) /\ c.addr = e /\ c.track = at.track /\ c.pc # "done"
      /\ c.pc = "connect" \/ c.rejected = "yes"
  <2>1. CASE Permitted(e)
    <3>1. /\ c \in Contexts /\ c.addr = e /\ c.track = at.track /\ c.pc = "connect"
          /\ c.tries = at.tries + 1 /\ c.used = at.used /\ c.reuses = at.reuses /\ c.stale = at.stale
          /\ c.status = at.status /\ c.rejected = at.rejected
      <4>1. at.tries + 1 \in 0 .. MaxRetries
        BY <1>2
      <4> QED BY <1>2, <2>1, <4>1, ToConnect
    <3> QED BY <1>2, <3>1, RequestsAssumption DEF CtxOK, NoEndpoint
  <2>2. CASE ~Permitted(e)
    <3>1. /\ c \in Contexts /\ c.addr = e /\ c.track = at.track /\ c.pc = "logging" /\ c.rejected = "yes"
          /\ c.tries = at.tries /\ c.used = at.used /\ c.reuses = at.reuses /\ c.stale = at.stale
      BY <1>2, <2>2, ToRejected
    <3> QED BY <1>2, <3>1 DEF CtxOK
  <2> QED BY <2>1, <2>2
<1> HIDE DEF c
<1> QED
  BY <1>1, <1>2, <1>3, QuietStep

\* apply_upstream_tls fails: the request is chargeable to an endpoint it did not reach.
LEMMA PeerTlsStep ==
  ASSUME ReqInv, NEW r \in Requests, NEW e \in Endpoints, PeerTlsFails(r, e)
  PROVE  ReqInv'
<1> DEFINE at == PeerChosen(r, e)
           c == [at EXCEPT !.pc = "logging", !.status = "error"]
<1>1. /\ req' = [req EXCEPT ![r] = c]
      /\ unmade' = [unmade EXCEPT ![e] = OneMore(@)] /\ UNCHANGED blame
  BY DEF PeerTlsFails
<1>2. /\ req[r].pc = "peer" /\ at \in Contexts /\ at.addr = e
      /\ at.used \in Nat /\ at.reuses \in Nat /\ at.stale \in Nat /\ at.tries \in Nat
      /\ at.tries <= at.used + at.reuses + at.stale
      /\ at.used + at.reuses + at.stale <= at.tries /\ at.used <= RetryBudget
      /\ \A d : d.track = at.track => Recounted(r, d)
      /\ breaker' \in [Endpoints -> [state : BreakerStates, errors : Nat]]
      /\ \A d \in Endpoints : breaker'[d].errors = breaker[d].errors
  BY PeerShape DEF PeerTlsFails
<1> HIDE DEF at
<1>3. /\ c \in Contexts /\ c.addr = e /\ c.track = at.track /\ c.pc = "logging"
      /\ c.tries = at.tries /\ c.used = at.used /\ c.reuses = at.reuses /\ c.stale = at.stale
  BY <1>2 DEF Contexts
<1> HIDE DEF c
<1>4. CtxOK(c) /\ Recounted(r, c)
  BY <1>2, <1>3 DEF CtxOK
<1>5. \A d \in Endpoints : r \in Chargeable(d)' => d = e
  <2>1. req'[r] = c
    BY <1>1 DEF ReqInv, ReqTypeOK
  <2> QED BY <1>3, <2>1 DEF Chargeable
<1>6. /\ blame' \in [Endpoints -> 0 .. Cardinality(Requests)]
      /\ unmade' \in [Endpoints -> 0 .. Cardinality(Requests)]
      /\ \A d \in Endpoints : Charged(d)'
  BY <1>1, <1>2, <1>3, <1>5, OneCharge
<1> QED
  BY <1>1, <1>2, <1>3, <1>4, <1>6, ContextStep

LEMMA BreakersKept ==
  ASSUME ReqInv
  PROVE  breaker \in [Endpoints -> [state : BreakerStates, errors : Nat]]
<1>1. Cardinality(Requests) \in Nat
  BY RequestCounts
<1> QED BY <1>1 DEF ReqInv, ReqTypeOK, Breakers, BreakerStates

LEMMA FilterStep ==
  ASSUME ReqInv, NEW r \in Requests, RequestFilter(r) \/ DeadlinePassed(r) \/ Connects(r)
  PROVE  ReqInv'
<1>1. req \in [Requests -> Contexts] /\ req[r] \in Contexts /\ CtxOK(req[r])
  BY DEF ReqInv, ReqTypeOK
<1>2. UNCHANGED <<inUse, breaker, blame, unmade>>
  BY DEF RequestFilter, DeadlinePassed, Connects
<1>3. /\ breaker' \in [Endpoints -> [state : BreakerStates, errors : Nat]]
      /\ \A e \in Endpoints : breaker'[e].errors = breaker[e].errors
  BY <1>2, BreakersKept
<1>4. ASSUME req[r].pc = "filter", req' = [req EXCEPT ![r].pc = "logging", ![r].status = "ok"]
      PROVE  ReqInv'
  <2> DEFINE c == [req[r] EXCEPT !.pc = "logging", !.status = "ok"]
  <2>1. req' = [req EXCEPT ![r] = c]
    BY <1>1, <1>4
  <2>2. c \in Contexts /\ CtxOK(c) /\ c.track = req[r].track /\ c.pc = "logging" /\ c.status = "ok"
    BY <1>1, <1>4, ToLogging
  <2> HIDE DEF c
  <2>3. Recounted(r, c)
    BY <1>2, <2>2, SameTrack DEF ReqInv
  <2> QED BY <1>2, <1>3, <1>4, <2>1, <2>2, <2>3, QuietStep
<1>5. ASSUME NEW p \in Endpoints \cup {NoEndpoint}, req[r].pc = "filter",
             req' = [req EXCEPT ![r].pc = "peer", ![r].pin = p]
      PROVE  ReqInv'
  <2> DEFINE c == [req[r] EXCEPT !.pc = "peer", !.pin = p]
  <2>1. req' = [req EXCEPT ![r] = c]
    BY <1>1, <1>5
  <2>2. /\ c \in Contexts /\ c.track = req[r].track /\ c.addr = req[r].addr /\ c.pc = "peer"
        /\ c.status = req[r].status /\ c.rejected = req[r].rejected /\ c.tries = req[r].tries
        /\ c.used = req[r].used /\ c.reuses = req[r].reuses /\ c.stale = req[r].stale
    BY <1>1, <1>5 DEF Contexts
  <2> HIDE DEF c
  <2>3. CtxOK(c) /\ c.addr \notin Endpoints
    BY <1>1, <1>5, <2>2, RequestsAssumption DEF CtxOK, NoEndpoint
  <2>4. Recounted(r, c)
    BY <1>2, <2>2, SameTrack DEF ReqInv
  <2> QED BY <1>2, <1>3, <1>5, <2>1, <2>2, <2>3, <2>4, QuietStep
<1>6. CASE DeadlinePassed(r)
  <2> DEFINE c == [req[r] EXCEPT !.pc = "logging", !.status = "error"]
  <2>1. req' = [req EXCEPT ![r] = c]
    BY <1>1, <1>6 DEF DeadlinePassed
  <2>2. c \in Contexts /\ CtxOK(c) /\ c.track = req[r].track /\ c.addr = req[r].addr /\ c.pc = "logging"
    BY <1>1, <1>6, ToLogging DEF DeadlinePassed
  <2> HIDE DEF c
  <2>3. Recounted(r, c)
    BY <1>2, <2>2, SameTrack DEF ReqInv
  <2> QED BY <1>2, <1>3, <1>6, <2>1, <2>2, <2>3, QuietStep DEF DeadlinePassed
<1>7. CASE Connects(r)
  <2> DEFINE c == [req[r] EXCEPT !.pc = "proxy"]
  <2>1. req' = [req EXCEPT ![r] = c]
    BY <1>1, <1>7 DEF Connects
  <2>2. /\ c \in Contexts /\ c.track = req[r].track /\ c.addr = req[r].addr /\ c.pc = "proxy"
        /\ c.status = req[r].status /\ c.rejected = req[r].rejected /\ c.tries = req[r].tries
        /\ c.used = req[r].used /\ c.reuses = req[r].reuses /\ c.stale = req[r].stale
    BY <1>1 DEF Contexts
  <2> HIDE DEF c
  <2>3. CtxOK(c)
    BY <1>1, <1>7, <2>2 DEF CtxOK, Connects
  <2>4. Recounted(r, c)
    BY <1>2, <2>2, SameTrack DEF ReqInv
  <2> QED BY <1>2, <1>3, <1>7, <2>1, <2>2, <2>3, <2>4, QuietStep DEF Connects
<1> QED
  BY <1>4, <1>5, <1>6, <1>7 DEF RequestFilter

\* fail_to_connect, upstream_response_filter, error_while_proxy and the client's abort.
LEMMA AttemptStep ==
  ASSUME ReqInv, NEW r \in Requests,
         FailToConnect(r) \/ RetriableResponse(r) \/ PassedResponse(r) \/ BrokenProxy(r) \/ ClientAborts(r)
  PROVE  ReqInv'
<1>1. /\ req \in [Requests -> Contexts] /\ req[r] \in Contexts /\ CtxOK(req[r])
      /\ req[r].pc \in {"connect", "proxy"} /\ req[r].status = "none"
      /\ UNCHANGED <<inUse, breaker, unmade>>
  BY DEF ReqInv, ReqTypeOK, CtxOK, FailToConnect, RetriableResponse, PassedResponse, BrokenProxy, ClientAborts
<1>2. ASSUME NEW d, Repeated(req[r], d), req' = [req EXCEPT ![r] = Again(d)], Failed(r)
      PROVE  ReqInv'
  BY <1>1, <1>2, AgainOK, FailedStep
<1>3. ASSUME NEW st \in {"none", "error"}, Failed(r),
             req' = [req EXCEPT ![r] = [req[r] EXCEPT !.pc = "logging", !.status = st]]
      PROVE  ReqInv'
  BY <1>1, <1>3, ToLogging, FailedStep
<1>4. ASSUME GivesUp(r), Failed(r)
      PROVE  ReqInv'
  BY <1>1, <1>3, <1>4 DEF GivesUp
<1>5. ASSUME BudgetLeft(r), NEW why \in {"connect", "response"}, Retries(r, why), Failed(r)
      PROVE  ReqInv'
  <2> DEFINE d == [req[r] EXCEPT !.used = @ + 1, !.trigger = why]
  <2>1. req' = [req EXCEPT ![r] = Again(d)]
    BY <1>5 DEF Retries
  <2>2. Repeated(req[r], d)
    BY <1>5 DEF Repeated, BudgetLeft
  <2> HIDE DEF d
  <2> QED BY <1>2, <1>5, <2>1, <2>2
<1>6. CASE FailToConnect(r) \/ RetriableResponse(r)
  BY <1>4, <1>5, <1>6 DEF FailToConnect, RetriableResponse
<1>7. CASE BrokenProxy(r)
  <2>1. ASSUME req' = [req EXCEPT ![r] = Again([req[r] EXCEPT !.stale = @ + 1])] PROVE ReqInv'
    <3> DEFINE d == [req[r] EXCEPT !.stale = @ + 1]
    <3>1. req' = [req EXCEPT ![r] = Again(d)] /\ Repeated(req[r], d) /\ Failed(r)
      BY <1>7, <2>1 DEF Repeated, BrokenProxy
    <3> HIDE DEF d
    <3> QED BY <1>2, <3>1
  <2>2. ASSUME req' = [req EXCEPT ![r] = Again([req[r] EXCEPT !.reuses = @ + 1])] PROVE ReqInv'
    <3> DEFINE d == [req[r] EXCEPT !.reuses = @ + 1]
    <3>1. req' = [req EXCEPT ![r] = Again(d)] /\ Repeated(req[r], d) /\ Failed(r)
      BY <1>7, <2>2 DEF Repeated, BrokenProxy
    <3> HIDE DEF d
    <3> QED BY <1>2, <3>1
  <2> QED BY <1>4, <1>7, <2>1, <2>2 DEF BrokenProxy
<1>8. CASE ClientAborts(r)
  <2>1. req' = [req EXCEPT ![r] = [req[r] EXCEPT !.pc = "logging", !.status = "none"]]
    <3>1. [req[r] EXCEPT !.pc = "logging", !.status = "none"] = [req[r] EXCEPT !.pc = "logging"]
      BY <1>1 DEF Contexts
    <3> QED BY <1>1, <1>8, <3>1 DEF ClientAborts
  <2> QED BY <1>3, <1>8, <2>1 DEF ClientAborts
<1>9. CASE PassedResponse(r)
  <2>1. ASSUME req' = [req EXCEPT ![r].pc = "logging", ![r].status = "ok"], UNCHANGED blame
        PROVE  ReqInv'
    <3> DEFINE c == [req[r] EXCEPT !.pc = "logging", !.status = "ok"]
    <3>1. req' = [req EXCEPT ![r] = c]
      BY <1>1, <2>1
    <3>2. c \in Contexts /\ CtxOK(c) /\ c.track = req[r].track /\ c.pc = "logging" /\ c.status = "ok"
      BY <1>1, ToLogging
    <3> HIDE DEF c
    <3>3. Recounted(r, c)
      BY <1>1, <3>2, SameTrack DEF ReqInv
    <3>4. /\ breaker' \in [Endpoints -> [state : BreakerStates, errors : Nat]]
          /\ \A e \in Endpoints : breaker'[e].errors = breaker[e].errors
      BY <1>1, BreakersKept
    <3> QED BY <1>1, <2>1, <3>1, <3>2, <3>3, <3>4, QuietStep
  <2> QED BY <1>4, <1>9, <2>1 DEF PassedResponse
<1> QED
  BY <1>6, <1>7, <1>8, <1>9

\* on_success and on_error: a success records nothing, anything else one error.
LEMMA RecordedOK ==
  ASSUME NEW b \in [state : BreakerStates, errors : Nat], NEW st, NEW a \in Recorded(b, st)
  PROVE  /\ a \in [state : BreakerStates, errors : Nat]
         /\ IF st = "ok" THEN a.errors = b.errors ELSE a.errors = b.errors + 1
<1>1. CASE st = "ok"
  <2>1. a = [b EXCEPT !.state = IF b.state \in {"absent", "half"} THEN "closed" ELSE b.state]
    BY <1>1 DEF Recorded
  <2> QED BY <1>1, <2>1 DEF BreakerStates
<1>2. CASE st # "ok"
  <2>1. PICK after \in CASE b.state \in {"absent", "closed"} -> {"closed", "open"}
                         [] b.state = "half" -> {"open"}
                         [] OTHER -> {b.state} : a = [state |-> after, errors |-> b.errors + 1]
    BY <1>2 DEF Recorded
  <2>2. after \in BreakerStates
    BY <2>1 DEF BreakerStates
  <2> QED BY <1>2, <2>1, <2>2
<1> QED BY <1>1, <1>2

\* The record of r is what r was chargeable for.
LEMMA LogCharge ==
  ASSUME ReqInv, NEW r \in Requests, NEW c \in Contexts, req' = [req EXCEPT ![r] = c],
         req[r].pc = "logging", c.pc = "done", UNCHANGED <<blame, unmade>>, NEW e \in Endpoints, NEW x \in {0, 1},
         breaker'[e].errors = breaker[e].errors + x, x = 1 => r \in Chargeable(e)
  PROVE  Charged(e)'
<1>1. Charged(e) /\ blame[e] \in Nat /\ unmade[e] \in Nat /\ breaker[e].errors \in Nat
  BY RequestCounts DEF ReqInv, ReqTypeOK, Breakers
<1>2. /\ Cardinality(Chargeable(e)') + (IF r \in Chargeable(e) THEN 1 ELSE 0)
           = Cardinality(Chargeable(e)) + (IF r \in Chargeable(e)' THEN 1 ELSE 0)
      /\ Cardinality(Logged') + (IF req[r].pc = "done" THEN 1 ELSE 0)
           = Cardinality(Logged) + (IF c.pc = "done" THEN 1 ELSE 0)
      /\ Cardinality(Chargeable(e)') \in Nat /\ Cardinality(Logged') \in Nat
  BY CountMoves DEF ReqInv
<1>3. Cardinality(Chargeable(e)) \in Nat /\ Cardinality(Logged) \in Nat
  BY RequestCounts
<1>4. r \notin Chargeable(e)'
  BY CountMoves DEF Chargeable, ReqInv
<1>5. /\ Cardinality(Chargeable(e)') + x <= Cardinality(Chargeable(e))
      /\ Cardinality(Logged') = Cardinality(Logged) + 1
  BY <1>2, <1>3, <1>4
<1> QED
  BY <1>1, <1>2, <1>3, <1>5 DEF Charged

LEMMA LoggingStep ==
  ASSUME ReqInv, NEW r \in Requests, Logging(r)
  PROVE  ReqInv'
<1> DEFINE c == [NewRequest EXCEPT !.pc = "done"]
<1>1. req \in [Requests -> Contexts] /\ req[r] \in Contexts /\ CtxOK(req[r]) /\ req[r].pc = "logging"
  BY DEF ReqInv, ReqTypeOK, Logging
<1>2. req' = [req EXCEPT ![r] = c] /\ UNCHANGED <<blame, unmade>>
  BY DEF Logging
<1>3. c \in Contexts /\ CtxOK(c) /\ c.pc = "done" /\ c.track = NoEndpoint
  BY RequestConstants DEF NewRequest, Contexts, CtxOK
<1> HIDE DEF c
<1>4. Recounted(r, c)
  <2>1. Cardinality(Requests) \in Nat
    BY RequestCounts
  <2>2. \A e \in Endpoints : inUse[e] \in Int /\ e # NoEndpoint
    BY <2>1, RequestsAssumption DEF ReqInv, ReqTypeOK, NoEndpoint
  <2> QED BY <1>3, <2>2 DEF Recounted, Logging
<1>5. /\ breaker' \in [Endpoints -> [state : BreakerStates, errors : Nat]]
      /\ \A e \in Endpoints : \E x \in {0, 1} :
           breaker'[e].errors = breaker[e].errors + x /\ (x = 1 => r \in Chargeable(e))
  <2> DEFINE a == req[r].addr
  <2>1. breaker \in [Endpoints -> [state : BreakerStates, errors : Nat]]
    BY BreakersKept
  <2>2. ASSUME UNCHANGED breaker PROVE <1>5!:
    BY <2>1, <2>2
  <2>3. ASSUME Records(r), NEW b \in Recorded(breaker[a], req[r].status),
               breaker' = [breaker EXCEPT ![a] = b]
        PROVE  <1>5!:
    <3>1. a \in Endpoints /\ (req[r].status # "ok" => r \in Chargeable(a))
      BY <1>1, <2>3 DEF Records, Contexts, Chargeable
    <3>2. /\ b \in [state : BreakerStates, errors : Nat]
          /\ IF req[r].status = "ok" THEN b.errors = breaker[a].errors ELSE b.errors = breaker[a].errors + 1
      BY <2>1, <2>3, <3>1, RecordedOK
    <3>3. \A e \in Endpoints : breaker'[e] = IF e = a THEN b ELSE breaker[e]
      BY <2>1, <2>3
    <3>4. \A e \in Endpoints : breaker[e].errors \in Nat
      BY <2>1
    <3> QED BY <2>1, <2>3, <3>1, <3>2, <3>3, <3>4
  <2>4. ASSUME Records(r), breaker' = [breaker EXCEPT ![a].state = "closed"] PROVE <1>5!:
    <3>1. a \in Endpoints
      BY <1>1, <2>4 DEF Records, Contexts
    <3>2. /\ breaker' \in [Endpoints -> [state : BreakerStates, errors : Nat]]
          /\ \A e \in Endpoints : breaker'[e].errors = breaker[e].errors /\ breaker[e].errors \in Nat
      BY <2>1, <2>4, <3>1 DEF BreakerStates
    <3> QED BY <3>2
  <2> QED BY <2>2, <2>3, <2>4 DEF Logging
<1>6. \A e \in Endpoints : Charged(e)'
  BY <1>1, <1>2, <1>3, <1>5, LogCharge
<1>7. /\ blame' \in [Endpoints -> 0 .. Cardinality(Requests)]
      /\ unmade' \in [Endpoints -> 0 .. Cardinality(Requests)]
  BY <1>2 DEF ReqInv, ReqTypeOK
<1> QED
  BY <1>2, <1>3, <1>4, <1>5, <1>6, <1>7, ContextStep

\* The sweep and the clock change states and no counts.
LEMMA BreakerStep ==
  ASSUME ReqInv, SweepBreakers \/ (\E e \in Endpoints : OpenElapses(e)) \/ UNCHANGED reqVars
  PROVE  ReqInv'
<1>1. breaker \in [Endpoints -> [state : BreakerStates, errors : Nat]] /\ breaker \in [Endpoints -> Breakers]
  BY BreakersKept DEF ReqInv, ReqTypeOK
<1>2. UNCHANGED <<req, inUse, blame, unmade>>
  BY DEF SweepBreakers, OpenElapses, reqVars
<1>3. breaker' \in [Endpoints -> Breakers] /\ \A e \in Endpoints : breaker'[e].errors = breaker[e].errors
  <2>1. CASE SweepBreakers
    BY <1>1, <2>1 DEF SweepBreakers, Breakers
  <2>2. ASSUME NEW e \in Endpoints, OpenElapses(e) PROVE <1>3!:
    BY <1>1, <2>2 DEF OpenElapses, Breakers
  <2>3. CASE UNCHANGED reqVars
    BY <1>1, <2>3 DEF reqVars
  <2> QED BY <2>1, <2>2, <2>3
<1>4. \A e \in Endpoints : Charged(e)'
  BY <1>2, <1>3 DEF ReqInv, Charged, Chargeable, Logged
<1> QED
  BY <1>2, <1>3, <1>4 DEF ReqInv, ReqTypeOK, CtxOK, InUseExact

LEMMA ReqInvHolds == ReqSpec => []ReqInv
<1>1. ASSUME ReqInit PROVE ReqInv
  <2>1. NewRequest \in Contexts /\ CtxOK(NewRequest) /\ NewRequest.track = NoEndpoint
        /\ NewRequest.addr = NoEndpoint /\ NewRequest.pc = "filter"
    BY RequestConstants DEF NewRequest, Contexts, CtxOK
  <2>2. Cardinality(Requests) \in Nat
    BY RequestCounts
  <2>3. ReqTypeOK /\ \A r \in Requests : CtxOK(req[r])
    BY <1>1, <2>1, <2>2 DEF ReqInit, ReqTypeOK, NoBreaker, Breakers
  <2>4. \A e \in Endpoints : Holders(e) = {} /\ Chargeable(e) = {} /\ Logged = {}
    BY <1>1, <2>1, RequestsAssumption DEF ReqInit, Holders, Chargeable, Logged, NoEndpoint
  <2>5. \A e \in Endpoints : Cardinality(Holders(e)) = 0 /\ Cardinality(Chargeable(e)) = 0
                             /\ Cardinality(Logged) = 0
    BY <2>4, FS_EmptySet
  <2>6. InUseExact
    BY <1>1, <2>5 DEF ReqInit, InUseExact, Holders
  <2>7. \A e \in Endpoints : breaker[e].errors = 0 /\ blame[e] = 0 /\ unmade[e] = 0
    BY <1>1 DEF ReqInit, NoBreaker
  <2>8. \A e \in Endpoints : Charged(e)
    BY <2>5, <2>7 DEF Charged
  <2> QED BY <2>3, <2>6, <2>8 DEF ReqInv
<1>2. ReqInv /\ [ReqNext]_reqVars => ReqInv'
  BY FilterStep, AttemptStep, LoggingStep, PeerStep, PeerTlsStep, BreakerStep DEF ReqNext, RequestStep
<1> QED
  BY <1>1, <1>2, PTL DEF ReqSpec

\* The type invariant of RequestPath.
THEOREM RequestTypes == ReqSpec => []ReqTypeOK
<1>1. ReqInv => ReqTypeOK
  BY DEF ReqInv
<1> QED BY <1>1, ReqInvHolds, PTL

\* LbEndpoint.active: through retries, pins, rejections, deadlines and aborts, the
\* least-connections counter of an endpoint is the number of requests that hold it.
THEOREM CountersExact == ReqSpec => []InUseExact
<1>1. ReqInv => InUseExact
  BY DEF ReqInv
<1> QED BY <1>1, ReqInvHolds, PTL

\* circuit breakers (on_error): no error is recorded that no attempt at that endpoint stands
\* behind, one that failed, was abandoned or ended in the set-up of its TLS: a rejected
\* request, or one that ended elsewhere, charges nobody.
THEOREM BreakerErrorsBacked == ReqSpec => []ErrorsBacked
<1>1. ReqInv => ErrorsBacked
  <2> SUFFICES ASSUME ReqInv, NEW e \in Endpoints PROVE breaker[e].errors <= blame[e] + unmade[e]
    BY DEF ErrorsBacked
  <2>1. Charged(e) /\ breaker[e].errors \in Nat /\ blame[e] \in Nat /\ unmade[e] \in Nat
    BY RequestCounts DEF ReqInv, ReqTypeOK, Breakers
  <2>2. Cardinality(Chargeable(e)) \in Nat
    BY RequestCounts
  <2> QED BY <2>1, <2>2 DEF Charged
<1> QED BY <1>1, ReqInvHolds, PTL

\* RetryPolicy.attempts, for every budget: each try beyond the budget is one that Pingora
\* repeats on a reused connection or that error_while_proxy repeats after a response retry.
THEOREM BudgetCorrect == ReqSpec => []BudgetUntilStale
<1>1. ReqInv => BudgetUntilStale
  <2> SUFFICES ASSUME ReqInv, NEW r \in Requests
               PROVE  req[r].tries <= 1 + RetryBudget + req[r].reuses + req[r].stale
    BY DEF BudgetUntilStale
  <2>1. /\ req[r].used \in Nat /\ req[r].reuses \in Nat /\ req[r].stale \in Nat /\ req[r].tries \in Nat
        /\ req[r].tries <= 1 + req[r].used + req[r].reuses + req[r].stale /\ req[r].used <= RetryBudget
    BY RequestConstants DEF ReqInv, ReqTypeOK, Contexts, CtxOK
  <2> QED BY <2>1, RequestConstants
<1> QED BY <1>1, ReqInvHolds, PTL

-----------------------------------------------------------------------------
(* The acceptor and its listener tasks *)

TaskRecords ==
  [addr : Addrs, mode : Modes \cup {"udp", "off"}, token : {"live", "cancelled"},
   phase : {"accepting", "draining", "done"}, conns : 0 .. ConnLimit]

AcceptorRecords ==
  [pc : {"select", "adding", "joining", "exited"}, spec : ListenerSpecs,
   add : SUBSET Addrs, failed : SUBSET Addrs]

EdgeTypes ==
  /\ want \in ListenerSpecs /\ unseen \in BOOLEAN /\ stopping \in BOOLEAN
  /\ acceptor \in AcceptorRecords
  /\ tasks \in Seq(TaskRecords)
  /\ activeOf \in [Addrs -> Nat]
  /\ slots \in [serving : Int, draining : Int]
  /\ boundPorts \subseteq Addrs

\* An entry of `active` is a task of that address.
ActiveTasks == \A a \in Addrs : activeOf[a] # 0 => activeOf[a] \in TaskIds /\ tasks[activeOf[a]].addr = a

\* Before a shutdown the tokens in `active` are exactly the live ones, and a task
\* with a live token accepts.
TokensOwned ==
  ~stopping => \A i \in TaskIds : /\ tasks[i].token = "live" <=> activeOf[tasks[i].addr] = i
                                  /\ tasks[i].token = "live" => tasks[i].phase = "accepting"

\* What a pass has done so far: it binds only addresses that are free, and every
\* bound listener has the mode the pass read.
PassKept ==
  /\ acceptor.pc # "adding" => acceptor.add = {}
  /\ acceptor.pc \in {"joining", "exited"} => stopping
  /\ ~stopping => /\ acceptor.add \cap Bound = {}
                  /\ \A a \in Bound : ModeOf(a) = acceptor.spec[a]
                  /\ acceptor.pc = "select" => boundPorts = Bound

DoneIdle == \A i \in TaskIds : tasks[i].phase = "done" => tasks[i].conns = 0

EdgeInv == EdgeTypes /\ ActiveTasks /\ TokensOwned /\ PassKept /\ DoneIdle /\ SlotsConserved

CancelledTasks == {i \in LiveTasks : tasks[i].token = "cancelled"}

LEMMA TasksTyped ==
  ASSUME EdgeTypes
  PROVE  /\ Len(tasks) \in Nat /\ TaskIds = 1 .. Len(tasks)
         /\ \A i \in TaskIds : tasks[i] \in TaskRecords
         /\ IsFiniteSet(TaskIds) /\ IsFiniteSet(LiveTasks) /\ IsFiniteSet(CancelledTasks)
         /\ Cardinality(LiveTasks) \in Nat /\ Cardinality(CancelledTasks) \in Nat
<1>1. Len(tasks) \in Nat /\ TaskIds = 1 .. Len(tasks) /\ \A i \in TaskIds : tasks[i] \in TaskRecords
  BY DEF EdgeTypes, TaskIds
<1>2. IsFiniteSet(TaskIds)
  BY <1>1, FS_Interval
<1>3. LiveTasks \subseteq TaskIds /\ CancelledTasks \subseteq TaskIds
  BY DEF LiveTasks, CancelledTasks
<1>4. IsFiniteSet(LiveTasks) /\ IsFiniteSet(CancelledTasks)
  BY <1>2, <1>3, FS_Subset
<1> QED BY <1>1, <1>2, <1>4, FS_CardinalityType

LEMMA EdgeInitInv == EdgeInit => EdgeInv
<1> SUFFICES ASSUME EdgeInit PROVE EdgeInv
  OBVIOUS
<1>1. tasks \in Seq(TaskRecords) /\ TaskIds = {}
  BY DEF EdgeInit, TaskIds
<1>2. Bound = {} /\ LiveTasks = {} /\ CancelledTasks = {}
  BY <1>1 DEF EdgeInit, Bound, LiveTasks, CancelledTasks
<1>3. EdgeTypes
  <2>1. [a \in Addrs |-> "off"] \in ListenerSpecs
    BY DEF ListenerSpecs
  <2>2. acceptor \in AcceptorRecords
    BY <2>1 DEF EdgeInit, AcceptorRecords
  <2>3. slots \in [serving : Int, draining : Int] /\ activeOf \in [Addrs -> Nat]
    BY DEF EdgeInit
  <2> QED BY <1>1, <2>2, <2>3 DEF EdgeInit, EdgeTypes
<1>4. ActiveTasks /\ TokensOwned /\ PassKept /\ DoneIdle
  BY <1>1, <1>2 DEF EdgeInit, ActiveTasks, TokensOwned, PassKept, DoneIdle
<1>5. SlotsConserved
  BY <1>2, FS_EmptySet DEF EdgeInit, SlotsConserved, CancelledTasks
<1> QED BY <1>3, <1>4, <1>5 DEF EdgeInv

\* Only the desired set, the watch, the signal or the bounds move.
LEMMA ControlStep ==
  ASSUME EdgeInv, SpecsChange \/ SignalShutdown \/ UNCHANGED edgeVars
  PROVE  EdgeInv'
<1>1. /\ UNCHANGED <<acceptor, tasks, activeOf, slots, boundPorts>>
      /\ stopping' = stopping \/ stopping'
  BY DEF SpecsChange, SignalShutdown, edgeVars
<1>2. EdgeTypes'
  BY <1>1 DEF EdgeInv, EdgeTypes, SpecsChange, SignalShutdown, edgeVars
<1>3. (ActiveTasks /\ TokensOwned /\ PassKept /\ DoneIdle)'
  BY <1>1 DEF EdgeInv, ActiveTasks, TokensOwned, PassKept, DoneIdle, TaskIds, Bound, ModeOf
<1>4. SlotsConserved'
  BY <1>1 DEF EdgeInv, SlotsConserved, LiveTasks, TaskIds
<1> QED BY <1>2, <1>3, <1>4 DEF EdgeInv

\* publish_bound_ports, the shutdown arm of the select and the join.
LEMMA PublishStep ==
  ASSUME EdgeInv, PublishBoundPorts \/ AcceptorExits
  PROVE  EdgeInv'
<1>1. /\ UNCHANGED <<want, unseen, tasks, activeOf, slots, stopping>>
  BY DEF PublishBoundPorts, AcceptorExits
<1>2. /\ acceptor' \in AcceptorRecords /\ acceptor'.add = {} /\ acceptor'.spec = acceptor.spec
      /\ \/ acceptor'.pc = "select" /\ boundPorts' = Bound
         \/ acceptor'.pc = "exited" /\ boundPorts' = boundPorts /\ stopping
  BY DEF PublishBoundPorts, AcceptorExits, EdgeInv, EdgeTypes, AcceptorRecords, PassKept
<1>3. EdgeTypes'
  BY <1>1, <1>2 DEF EdgeInv, EdgeTypes, Bound
<1>4. PassKept'
  BY <1>1, <1>2 DEF EdgeInv, PassKept, Bound, ModeOf
<1>5. (ActiveTasks /\ TokensOwned /\ DoneIdle)'
  BY <1>1 DEF EdgeInv, ActiveTasks, TokensOwned, DoneIdle, TaskIds
<1>6. SlotsConserved'
  BY <1>1 DEF EdgeInv, SlotsConserved, LiveTasks, TaskIds
<1> QED BY <1>3, <1>4, <1>5, <1>6 DEF EdgeInv

\* A failed bind leaves everything but the list of addresses to bind.
LEMMA BindFailsStep ==
  ASSUME EdgeInv, NEW a \in Addrs, BindFails(a)
  PROVE  EdgeInv'
<1>1. UNCHANGED <<want, unseen, tasks, activeOf, slots, boundPorts, stopping>>
  BY DEF BindFails
<1>2. /\ acceptor' \in AcceptorRecords /\ acceptor'.add \subseteq acceptor.add
      /\ acceptor'.spec = acceptor.spec /\ acceptor'.pc = acceptor.pc
  BY DEF BindFails, EdgeInv, EdgeTypes, AcceptorRecords
<1>3. EdgeTypes'
  BY <1>1, <1>2 DEF EdgeInv, EdgeTypes
<1>4. PassKept'
  BY <1>1, <1>2 DEF EdgeInv, PassKept, Bound, ModeOf
<1>5. (ActiveTasks /\ TokensOwned /\ DoneIdle)'
  BY <1>1 DEF EdgeInv, ActiveTasks, TokensOwned, DoneIdle, TaskIds
<1>6. SlotsConserved'
  BY <1>1 DEF EdgeInv, SlotsConserved, LiveTasks, TaskIds
<1> QED BY <1>3, <1>4, <1>5, <1>6 DEF EdgeInv

\* A bind: one more task, live, accepting and in `active`, and one more slot.
LEMMA BindStep ==
  ASSUME EdgeInv, NEW a \in Addrs, BindListener(a)
  PROVE  EdgeInv'
<1> DEFINE new == [addr |-> a, mode |-> acceptor.spec[a], token |-> "live",
                   phase |-> "accepting", conns |-> 0]
           n == Len(tasks) + 1
<1>t. EdgeTypes
  BY DEF EdgeInv
<1>1. /\ Len(tasks) \in Nat /\ TaskIds = 1 .. Len(tasks)
      /\ \A i \in TaskIds : tasks[i] \in TaskRecords
      /\ IsFiniteSet(LiveTasks) /\ IsFiniteSet(CancelledTasks)
  BY <1>t, TasksTyped
<1>2. new \in TaskRecords
  BY <1>t, ConnLimitAssumption DEF EdgeTypes, TaskRecords, AcceptorRecords, ListenerSpecs
<1>3. /\ tasks' = Append(tasks, new) /\ activeOf' = [activeOf EXCEPT ![a] = n]
      /\ acceptor.pc = "adding" /\ a \in acceptor.add
      /\ slots' = [slots EXCEPT !.serving = slots.serving + 1]
      /\ acceptor' = [acceptor EXCEPT !.add = acceptor.add \ {a}]
      /\ UNCHANGED <<want, unseen, boundPorts, stopping>>
  BY DEF BindListener
<1>f. new.addr = a /\ new.mode = acceptor.spec[a] /\ new.token = "live" /\ new.phase = "accepting" /\ new.conns = 0
  OBVIOUS
<1> HIDE DEF new
<1>4. /\ tasks' \in Seq(TaskRecords) /\ TaskIds' = 1 .. n /\ n \in TaskIds' /\ n \notin TaskIds
      /\ tasks'[n] = new /\ \A i \in TaskIds : tasks'[i] = tasks[i] /\ i \in TaskIds'
  BY <1>t, <1>1, <1>2, <1>3 DEF EdgeTypes, TaskIds
<1>i. TaskIds' = TaskIds \cup {n} /\ n # 0 /\ n \in Nat
  BY <1>1, <1>4
<1> HIDE DEF n
<1>5. \A x \in Addrs : activeOf'[x] = IF x = a THEN n ELSE activeOf[x]
  BY <1>t, <1>3 DEF EdgeTypes
<1>6. EdgeTypes'
  <2>1. acceptor' \in AcceptorRecords
    BY <1>t, <1>3 DEF EdgeTypes, AcceptorRecords
  <2>2. slots' \in [serving : Int, draining : Int]
    BY <1>t, <1>3 DEF EdgeTypes
  <2>3. activeOf' \in [Addrs -> Nat]
    BY <1>t, <1>3, <1>i DEF EdgeTypes
  <2> QED BY <1>t, <1>3, <1>4, <2>1, <2>2, <2>3 DEF EdgeTypes
<1>7. ActiveTasks'
  BY <1>4, <1>5, <1>f DEF EdgeInv, ActiveTasks
<1>8. TokensOwned'
  <2> SUFFICES ASSUME ~stopping, NEW i \in TaskIds'
               PROVE  /\ tasks'[i].token = "live" <=> activeOf'[tasks'[i].addr] = i
                      /\ tasks'[i].token = "live" => tasks'[i].phase = "accepting"
    BY <1>3 DEF TokensOwned
  <2>1. CASE i = n
    BY <1>4, <1>5, <1>f, <2>1
  <2>2. CASE i \in TaskIds
    <3>1. tasks[i].addr \in Addrs /\ tasks'[i] = tasks[i] /\ i # n
      BY <1>1, <1>4, <2>2 DEF TaskRecords
    <3>2. tasks[i].addr = a => activeOf[a] # i
      BY <1>1, <1>3, <2>2 DEF EdgeInv, PassKept, Bound
    <3> QED BY <1>5, <2>2, <3>1, <3>2 DEF EdgeInv, TokensOwned
  <2> QED BY <1>i, <2>1, <2>2
<1>9. PassKept'
  <2>1. /\ acceptor'.pc = "adding" /\ acceptor'.spec = acceptor.spec
        /\ acceptor'.add = acceptor.add \ {a}
    BY <1>t, <1>3 DEF EdgeTypes, AcceptorRecords
  <2>2. Bound' = Bound \cup {a}
    BY <1>5, <1>i DEF Bound
  <2>3. ASSUME ~stopping, NEW x \in Bound' PROVE ModeOf(x)' = acceptor.spec[x]
    <3>1. CASE x = a
      BY <1>4, <1>5, <1>f, <3>1 DEF ModeOf
    <3>2. CASE x # a
      <4>1. x \in Bound /\ x \in Addrs
        BY <2>2, <3>2 DEF Bound
      <4>2. activeOf[x] \in TaskIds
        BY <4>1 DEF EdgeInv, ActiveTasks, Bound
      <4> QED BY <1>4, <1>5, <2>3, <3>2, <4>1, <4>2 DEF EdgeInv, PassKept, ModeOf
    <3> QED BY <3>1, <3>2
  <2> QED BY <1>3, <2>1, <2>2, <2>3 DEF EdgeInv, PassKept
<1>10. DoneIdle'
  BY <1>4, <1>i, <1>f DEF EdgeInv, DoneIdle
<1>11. SlotsConserved'
  <2>1. LiveTasks' = LiveTasks \cup {n} /\ n \notin LiveTasks
    BY <1>4, <1>i, <1>f DEF LiveTasks
  <2>2. CancelledTasks' = CancelledTasks
    BY <1>4, <1>i, <1>f, <2>1 DEF CancelledTasks, LiveTasks
  <2>3. Cardinality(LiveTasks') = Cardinality(LiveTasks) + 1 /\ Cardinality(LiveTasks) \in Nat
    BY <1>1, <2>1, FS_AddElement, FS_CardinalityType
  <2>4. slots'.serving = slots.serving + 1 /\ slots'.draining = slots.draining
    BY <1>t, <1>3 DEF EdgeTypes
  <2>5. slots.serving \in Int /\ slots.draining \in Int
    BY <1>t DEF EdgeTypes
  <2>6. slots'.serving + slots'.draining = Cardinality(LiveTasks')
    BY <2>3, <2>4, <2>5 DEF EdgeInv, SlotsConserved
  <2>7. ~stopping => slots'.draining = Cardinality(CancelledTasks')
    BY <2>2, <2>4 DEF EdgeInv, SlotsConserved, CancelledTasks
  <2> QED BY <1>3, <2>6, <2>7 DEF SlotsConserved, CancelledTasks
<1> QED BY <1>6, <1>7, <1>8, <1>9, <1>10, <1>11 DEF EdgeInv

\* A step of listener task i.
TaskStep(i) == AcceptConn(i) \/ ConnEnds(i) \/ StopAccepting(i) \/ DrainEnds(i)

\* A task keeps its address, mode and token; it stops accepting only when told to.
LEMMA TaskStepShape ==
  ASSUME EdgeInv, NEW i \in TaskIds, TaskStep(i)
  PROVE  /\ tasks' \in Seq(TaskRecords) /\ TaskIds' = TaskIds
         /\ \A j \in TaskIds \ {i} : tasks'[j] = tasks[j]
         /\ tasks'[i].addr = tasks[i].addr /\ tasks'[i].mode = tasks[i].mode
         /\ tasks'[i].token = tasks[i].token
         /\ tasks'[i].phase = "done" => tasks'[i].conns = 0
         /\ ~stopping /\ tasks[i].token = "live" => tasks'[i].phase = tasks[i].phase
         /\ UNCHANGED <<want, unseen, acceptor, activeOf, boundPorts, stopping>>
<1>t. EdgeTypes /\ DoneIdle /\ TokensOwned
  BY DEF EdgeInv
<1>1. Len(tasks) \in Nat /\ TaskIds = 1 .. Len(tasks) /\ tasks[i] \in TaskRecords
  BY <1>t, TasksTyped
<1>2. ASSUME NEW c \in TaskRecords, tasks' = [tasks EXCEPT ![i] = c]
      PROVE  /\ tasks' \in Seq(TaskRecords) /\ TaskIds' = TaskIds /\ tasks'[i] = c
             /\ \A j \in TaskIds \ {i} : tasks'[j] = tasks[j]
  BY <1>t, <1>1, <1>2 DEF EdgeTypes, TaskIds
<1>u. UNCHANGED <<want, unseen, acceptor, activeOf, boundPorts, stopping>>
  BY DEF TaskStep, AcceptConn, ConnEnds, StopAccepting, DrainEnds
<1>3. CASE AcceptConn(i)
  <2> DEFINE c == [tasks[i] EXCEPT !.conns = tasks[i].conns + 1]
  <2>1. tasks' = [tasks EXCEPT ![i] = c] /\ tasks[i].phase = "accepting" /\ tasks[i].conns < ConnLimit
    BY <1>3 DEF AcceptConn
  <2>2. c \in TaskRecords /\ c.addr = tasks[i].addr /\ c.mode = tasks[i].mode
        /\ c.token = tasks[i].token /\ c.phase = tasks[i].phase
    BY <1>1, <2>1, ConnLimitAssumption DEF TaskRecords
  <2> HIDE DEF c
  <2> QED BY <1>2, <1>u, <2>1, <2>2
<1>4. CASE ConnEnds(i)
  <2> DEFINE c == [tasks[i] EXCEPT !.conns = tasks[i].conns - 1]
  <2>1. tasks' = [tasks EXCEPT ![i] = c] /\ tasks[i].conns > 0
    BY <1>4 DEF ConnEnds
  <2>2. c \in TaskRecords /\ c.addr = tasks[i].addr /\ c.mode = tasks[i].mode
        /\ c.token = tasks[i].token /\ c.phase = tasks[i].phase
    BY <1>1, <2>1, ConnLimitAssumption DEF TaskRecords
  <2>3. c.phase # "done"
    BY <1>t, <1>1, <2>1, <2>2 DEF DoneIdle
  <2> HIDE DEF c
  <2> QED BY <1>2, <1>u, <2>1, <2>2, <2>3
<1>5. CASE StopAccepting(i)
  <2> DEFINE c == [tasks[i] EXCEPT !.phase = "draining"]
  <2>1. tasks' = [tasks EXCEPT ![i] = c] /\ (tasks[i].token = "cancelled" \/ stopping)
    BY <1>5 DEF StopAccepting, Stops
  <2>2. c \in TaskRecords /\ c.addr = tasks[i].addr /\ c.mode = tasks[i].mode
        /\ c.token = tasks[i].token /\ c.phase = "draining"
    BY <1>1 DEF TaskRecords
  <2> HIDE DEF c
  <2> QED BY <1>2, <1>u, <2>1, <2>2
<1>6. CASE DrainEnds(i)
  <2> DEFINE b == [tasks[i] EXCEPT !.phase = "done"]
             c == [b EXCEPT !.conns = 0]
  <2>1. tasks' = [tasks EXCEPT ![i] = c] /\ tasks[i].phase = "draining"
    BY <1>1, <1>6 DEF DrainEnds
  <2>2. c \in TaskRecords /\ c.addr = tasks[i].addr /\ c.mode = tasks[i].mode
        /\ c.token = tasks[i].token /\ c.phase = "done" /\ c.conns = 0
    <3>1. b \in TaskRecords /\ b.addr = tasks[i].addr /\ b.mode = tasks[i].mode
          /\ b.token = tasks[i].token /\ b.phase = "done"
      BY <1>1 DEF TaskRecords
    <3> HIDE DEF b
    <3> QED BY <3>1, ConnLimitAssumption DEF TaskRecords
  <2>3. ~stopping => tasks[i].token # "live"
    BY <1>t, <2>1 DEF TokensOwned
  <2> HIDE DEF c
  <2> QED BY <1>2, <1>u, <2>1, <2>2, <2>3
<1> QED BY <1>3, <1>4, <1>5, <1>6 DEF TaskStep

LEMMA TaskStepKeeps ==
  ASSUME EdgeInv, NEW i \in TaskIds, TaskStep(i)
  PROVE  EdgeInv'
<1>t. EdgeTypes
  BY DEF EdgeInv
<1>1. /\ tasks' \in Seq(TaskRecords) /\ TaskIds' = TaskIds
      /\ \A j \in TaskIds \ {i} : tasks'[j] = tasks[j]
      /\ tasks'[i].addr = tasks[i].addr /\ tasks'[i].mode = tasks[i].mode
      /\ tasks'[i].token = tasks[i].token
      /\ tasks'[i].phase = "done" => tasks'[i].conns = 0
      /\ ~stopping /\ tasks[i].token = "live" => tasks'[i].phase = tasks[i].phase
      /\ UNCHANGED <<want, unseen, acceptor, activeOf, boundPorts, stopping>>
  BY TaskStepShape
<1>2. \A j \in TaskIds : /\ tasks'[j].addr = tasks[j].addr /\ tasks'[j].mode = tasks[j].mode
                         /\ tasks'[j].token = tasks[j].token
  BY <1>1
<1>3. /\ Len(tasks) \in Nat /\ TaskIds = 1 .. Len(tasks)
      /\ \A j \in TaskIds : tasks[j] \in TaskRecords
      /\ IsFiniteSet(LiveTasks) /\ IsFiniteSet(CancelledTasks)
  BY <1>t, TasksTyped
<1>4. ActiveTasks'
  BY <1>1, <1>2 DEF EdgeInv, ActiveTasks
<1>5. TokensOwned'
  BY <1>1, <1>2 DEF EdgeInv, TokensOwned
<1>6. Bound' = Bound /\ \A a \in Bound : ModeOf(a)' = ModeOf(a)
  BY <1>1, <1>2 DEF EdgeInv, ActiveTasks, Bound, ModeOf
<1>7. PassKept'
  BY <1>1, <1>6 DEF EdgeInv, PassKept
<1>8. DoneIdle'
  BY <1>1 DEF EdgeInv, DoneIdle
<1>9. slots' \in [serving : Int, draining : Int] /\ SlotsConserved'
  <2>s. slots \in [serving : Int, draining : Int]
    BY <1>t DEF EdgeTypes
  <2>c. /\ slots.serving + slots.draining = Cardinality(LiveTasks)
        /\ ~stopping => slots.draining = Cardinality(CancelledTasks)
    BY DEF EdgeInv, SlotsConserved, CancelledTasks
  <2>1. CASE DrainEnds(i)
    <3>1. slots' = Released(tasks[i]) /\ tasks[i].phase = "draining"
      BY <2>1 DEF DrainEnds
    <3>2. tasks'[i].phase = "done"
      BY <1>t, <1>3, <2>1 DEF DrainEnds, EdgeTypes, TaskIds, TaskRecords
    <3>3. i \in LiveTasks /\ LiveTasks' = LiveTasks \ {i}
      BY <1>1, <3>1, <3>2 DEF LiveTasks
    <3>4. CancelledTasks' = CancelledTasks \ {i}
      BY <1>2, <3>3 DEF CancelledTasks, LiveTasks
    <3>5. Cardinality(LiveTasks') = Cardinality(LiveTasks) - 1
      BY <1>3, <3>3, FS_RemoveElement
    <3>6. Cardinality(CancelledTasks') =
            IF i \in CancelledTasks THEN Cardinality(CancelledTasks) - 1 ELSE Cardinality(CancelledTasks)
      BY <1>3, <3>4, FS_RemoveElement
    <3>7. i \in CancelledTasks <=> tasks[i].token = "cancelled"
      BY <3>3 DEF CancelledTasks
    <3>8. ~stopping => tasks[i].token = "cancelled"
      BY <1>3, <3>1 DEF EdgeInv, TokensOwned, TaskRecords
    <3>9. CASE tasks[i].token = "cancelled"
      <4>1. slots' \in [serving : Int, draining : Int]
            /\ slots'.draining = slots.draining - 1 /\ slots'.serving = slots.serving
        BY <2>s, <3>1, <3>9 DEF Released
      <4>2. /\ slots'.serving + slots'.draining = Cardinality(LiveTasks')
            /\ ~stopping => slots'.draining = Cardinality(CancelledTasks')
        BY <2>s, <2>c, <3>5, <3>6, <3>7, <3>9, <4>1
      <4> QED BY <1>1, <4>1, <4>2 DEF SlotsConserved, CancelledTasks
    <3>10. CASE tasks[i].token # "cancelled"
      <4>1. slots' \in [serving : Int, draining : Int]
            /\ slots'.draining = slots.draining /\ slots'.serving = slots.serving - 1
        BY <2>s, <3>1, <3>10 DEF Released
      <4>2. slots'.serving + slots'.draining = Cardinality(LiveTasks') /\ stopping
        BY <2>s, <2>c, <3>5, <3>8, <3>10, <4>1
      <4> QED BY <1>1, <4>1, <4>2 DEF SlotsConserved
    <3> QED BY <3>9, <3>10
  <2>2. CASE ~DrainEnds(i)
    <3>1. slots' = slots /\ tasks'[i].phase # "done" /\ tasks[i].phase # "done"
      <4>1. CASE AcceptConn(i)
        BY <1>t, <1>3, <4>1 DEF AcceptConn, EdgeTypes, TaskIds, TaskRecords
      <4>2. CASE ConnEnds(i)
        <5>1. tasks[i].conns > 0 /\ tasks[i].phase # "done"
          BY <1>3, <4>2 DEF ConnEnds, EdgeInv, DoneIdle, TaskRecords
        <5> QED BY <1>t, <1>3, <4>2, <5>1 DEF ConnEnds, EdgeTypes, TaskIds, TaskRecords
      <4>3. CASE StopAccepting(i)
        BY <1>t, <1>3, <4>3 DEF StopAccepting, EdgeTypes, TaskIds, TaskRecords
      <4> QED BY <2>2, <4>1, <4>2, <4>3 DEF TaskStep
    <3>2. LiveTasks' = LiveTasks
      BY <1>1, <3>1 DEF LiveTasks
    <3>3. CancelledTasks' = CancelledTasks
      BY <1>2, <3>2 DEF CancelledTasks, LiveTasks
    <3> QED BY <1>1, <2>s, <2>c, <3>1, <3>2, <3>3 DEF SlotsConserved, CancelledTasks
  <2> QED BY <2>1, <2>2
<1>10. EdgeTypes'
  BY <1>t, <1>1, <1>9 DEF EdgeTypes
<1> QED BY <1>4, <1>5, <1>7, <1>8, <1>9, <1>10 DEF EdgeInv

\* signal_all_drain at the start of a shutdown.
LEMMA ShutdownStep ==
  ASSUME EdgeInv, ShutdownArm
  PROVE  EdgeInv'
<1>t. EdgeTypes
  BY DEF EdgeInv
<1>3. /\ Len(tasks) \in Nat /\ TaskIds = 1 .. Len(tasks)
      /\ \A j \in TaskIds : tasks[j] \in TaskRecords
  BY <1>t, TasksTyped
<1> DEFINE cut(j) == IF IsActive(j) THEN [tasks[j] EXCEPT !.token = "cancelled"] ELSE tasks[j]
<1>1. /\ UNCHANGED <<want, unseen, activeOf, slots, boundPorts, stopping>> /\ stopping
      /\ tasks' = [j \in TaskIds |-> cut(j)]
      /\ acceptor.pc = "select" /\ acceptor' = [acceptor EXCEPT !.pc = "joining"]
  BY DEF ShutdownArm
<1>2. \A j \in TaskIds : /\ cut(j) \in TaskRecords /\ cut(j).addr = tasks[j].addr
                         /\ cut(j).phase = tasks[j].phase /\ cut(j).conns = tasks[j].conns
  BY <1>3 DEF TaskRecords
<1> HIDE DEF cut
<1>4. tasks' \in Seq(TaskRecords) /\ TaskIds' = TaskIds
  <2>1. tasks' \in [1 .. Len(tasks) -> TaskRecords]
    BY <1>1, <1>2, <1>3
  <2> QED BY <1>3, <2>1 DEF TaskIds
<1>5. \A j \in TaskIds : /\ tasks'[j].addr = tasks[j].addr /\ tasks'[j].phase = tasks[j].phase
                         /\ tasks'[j].conns = tasks[j].conns
  BY <1>1, <1>2
<1>6. /\ acceptor' \in AcceptorRecords /\ acceptor'.pc = "joining" /\ acceptor'.add = {}
  BY <1>t, <1>1 DEF EdgeTypes, AcceptorRecords, EdgeInv, PassKept
<1>7. EdgeTypes'
  BY <1>t, <1>1, <1>4, <1>6 DEF EdgeTypes
<1>8. (ActiveTasks /\ TokensOwned /\ PassKept /\ DoneIdle)'
  BY <1>1, <1>4, <1>5, <1>6 DEF EdgeInv, ActiveTasks, TokensOwned, PassKept, DoneIdle
<1>9. LiveTasks' = LiveTasks
  BY <1>4, <1>5 DEF LiveTasks
<1>10. SlotsConserved'
  BY <1>1, <1>9 DEF EdgeInv, SlotsConserved
<1> QED BY <1>7, <1>8, <1>10 DEF EdgeInv

\* One reconcile up to its first bind: what it cancels leaves `active`, what it
\* switches is in the mode it read, and as many slots drain as it removed.
LEMMA ReconcileStep ==
  ASSUME EdgeInv, ReconcileListeners
  PROVE  EdgeInv'
<1>t. EdgeTypes /\ ActiveTasks /\ ~stopping
  BY DEF EdgeInv, ReconcileListeners
<1>1. /\ Len(tasks) \in Nat /\ TaskIds = 1 .. Len(tasks)
      /\ \A j \in TaskIds : tasks[j] \in TaskRecords
      /\ IsFiniteSet(TaskIds) /\ IsFiniteSet(CancelledTasks)
  BY <1>t, TasksTyped
<1> DEFINE gone(j) == IsActive(j) /\ tasks[j].addr \in PlanRemove
           moved(j) == IsActive(j) /\ tasks[j].addr \in PlanSwitch
           new(j) == CASE gone(j) -> [tasks[j] EXCEPT !.token = "cancelled"]
                       [] moved(j) -> [tasks[j] EXCEPT !.mode = want[tasks[j].addr]]
                       [] OTHER -> tasks[j]
<1>2. /\ tasks' = [j \in TaskIds |-> new(j)]
      /\ activeOf' = [a \in Addrs |-> IF a \in PlanRemove THEN 0 ELSE activeOf[a]]
      /\ slots' = [serving |-> slots.serving - Cardinality(PlanRemove),
                   draining |-> slots.draining + Cardinality(PlanRemove)]
      /\ acceptor' = [pc |-> "adding", spec |-> want, add |-> PlanAdd, failed |-> {}]
      /\ unseen' = FALSE /\ UNCHANGED <<want, boundPorts, stopping>>
  BY DEF ReconcileListeners
<1>3. PlanRemove \cap PlanSwitch = {} /\ PlanRemove \subseteq Bound /\ PlanSwitch \subseteq Bound
      /\ Bound \subseteq Addrs /\ PlanAdd \subseteq Addrs
  BY DEF PlanRemove, PlanSwitch, PlanAdd, Bound
<1>4. ASSUME NEW j \in TaskIds
      PROVE  /\ new(j) \in TaskRecords /\ new(j).addr = tasks[j].addr
             /\ new(j).phase = tasks[j].phase /\ new(j).conns = tasks[j].conns
             /\ new(j).token = IF gone(j) THEN "cancelled" ELSE tasks[j].token
             /\ ~gone(j) => new(j).mode = IF moved(j) THEN want[tasks[j].addr] ELSE tasks[j].mode
  <2>1. tasks[j] \in TaskRecords /\ want[tasks[j].addr] \in Modes \cup {"udp", "off"}
    BY <1>1, <1>t DEF EdgeTypes, ListenerSpecs, TaskRecords
  <2>2. CASE gone(j)
    <3>1. new(j) = [tasks[j] EXCEPT !.token = "cancelled"]
      BY <1>3, <2>2
    <3> HIDE DEF new
    <3> QED BY <2>1, <2>2, <3>1 DEF TaskRecords
  <2>3. CASE ~gone(j) /\ moved(j)
    <3>1. new(j) = [tasks[j] EXCEPT !.mode = want[tasks[j].addr]]
      BY <2>3
    <3> HIDE DEF new
    <3> QED BY <2>1, <2>3, <3>1 DEF TaskRecords
  <2>4. CASE ~gone(j) /\ ~moved(j)
    <3>1. new(j) = tasks[j]
      BY <2>4
    <3> HIDE DEF new
    <3> QED BY <2>1, <2>4, <3>1
  <2> QED BY <2>2, <2>3, <2>4
<1> HIDE DEF new
<1>5. tasks' \in Seq(TaskRecords) /\ TaskIds' = TaskIds
  <2>1. tasks' \in [1 .. Len(tasks) -> TaskRecords]
    BY <1>1, <1>2, <1>4
  <2> QED BY <1>1, <2>1 DEF TaskIds
<1>6. \A j \in TaskIds : tasks'[j] = new(j)
  BY <1>2
<1>7. \A a \in Addrs : activeOf'[a] = IF a \in PlanRemove THEN 0 ELSE activeOf[a]
  BY <1>2
<1>8. Bound' = Bound \ PlanRemove
  BY <1>7 DEF Bound
<1>9. ASSUME NEW a \in Bound
      PROVE  a \in Addrs /\ activeOf[a] \in TaskIds /\ tasks[activeOf[a]].addr = a /\ IsActive(activeOf[a])
  BY <1>t DEF Bound, ActiveTasks, IsActive
<1> DEFINE R == {j \in TaskIds : gone(j)}
<1>10. ASSUME NEW j \in R PROVE j \in LiveTasks /\ j \notin CancelledTasks
  <2>1. j \in TaskIds /\ tasks[j].token = "live" /\ tasks[j].phase = "accepting"
    BY <1>t DEF EdgeInv, TokensOwned, IsActive
  <2> QED BY <2>1 DEF LiveTasks, CancelledTasks
<1>11. IsFiniteSet(R) /\ Cardinality(R) \in Nat
  BY <1>1, FS_Subset, FS_CardinalityType
<1>12. IsFiniteSet(PlanRemove) /\ Cardinality(PlanRemove) = Cardinality(R)
  <2> DEFINE f == [j \in R |-> tasks[j].addr]
  <2>1. f \in [R -> PlanRemove]
    OBVIOUS
  <2>2. \A j, k \in R : f[j] = f[k] => j = k
    BY DEF IsActive
  <2>3. \A a \in PlanRemove : \E j \in R : f[j] = a
    <3> SUFFICES ASSUME NEW a \in PlanRemove PROVE \E j \in R : f[j] = a
      OBVIOUS
    <3>1. activeOf[a] \in R /\ tasks[activeOf[a]].addr = a
      BY <1>3, <1>9
    <3> QED BY <3>1
  <2> HIDE DEF f
  <2>4. f \in Bijection(R, PlanRemove)
    BY <2>1, <2>2, <2>3 DEF Bijection, Injection, Surjection, IsInjective
  <2>5. ExistsBijection(R, PlanRemove)
    BY <2>4 DEF ExistsBijection
  <2> QED BY <1>11, <2>5, FS_Bijection
<1>13. EdgeTypes'
  <2>1. acceptor' \in AcceptorRecords
    BY <1>2, <1>3, <1>t DEF AcceptorRecords, EdgeTypes
  <2>2. slots' \in [serving : Int, draining : Int]
    BY <1>2, <1>11, <1>12, <1>t DEF EdgeTypes
  <2>3. activeOf' \in [Addrs -> Nat]
    BY <1>2, <1>t DEF EdgeTypes
  <2> QED BY <1>2, <1>5, <1>t, <2>1, <2>2, <2>3 DEF EdgeTypes
<1>14. ActiveTasks'
  BY <1>4, <1>5, <1>6, <1>7, <1>t DEF ActiveTasks
<1>15. TokensOwned'
  <2> SUFFICES ASSUME NEW j \in TaskIds
               PROVE  /\ tasks'[j].token = "live" <=> activeOf'[tasks'[j].addr] = j
                      /\ tasks'[j].token = "live" => tasks'[j].phase = "accepting"
    BY <1>5 DEF TokensOwned
  <2>1. /\ tasks[j].token = "live" <=> IsActive(j)
        /\ tasks[j].token = "live" => tasks[j].phase = "accepting"
    BY <1>t DEF EdgeInv, TokensOwned, IsActive
  <2>2. tasks[j].addr \in Addrs /\ j # 0
    BY <1>1 DEF TaskRecords
  <2> QED BY <1>4, <1>6, <1>7, <2>1, <2>2 DEF IsActive
<1>16. PassKept'
  <2>1. acceptor'.pc = "adding" /\ acceptor'.spec = want /\ acceptor'.add = PlanAdd
    BY <1>2
  <2>2. PlanAdd \cap Bound' = {}
    BY <1>8 DEF PlanAdd, PlanRemove
  <2>3. ASSUME NEW a \in Bound' PROVE ModeOf(a)' = want[a]
    <3>1. a \in Bound /\ a \notin PlanRemove
      BY <1>8
    <3> DEFINE j == activeOf[a]
    <3>2. /\ a \in Addrs /\ j \in TaskIds /\ tasks[j].addr = a /\ IsActive(j) /\ activeOf'[a] = j
      BY <1>7, <1>9, <3>1
    <3>3. want[a] # "off" /\ ~Flips(a)
      BY <3>1 DEF PlanRemove
    <3>4. ModeOf(a)' = new(j).mode
      BY <1>6, <3>2 DEF ModeOf
    <3>5. ModeOf(a) = tasks[j].mode
      BY DEF ModeOf
    <3> HIDE DEF j
    <3>6. CASE a \in PlanSwitch
      BY <1>4, <3>1, <3>2, <3>4, <3>6
    <3>7. CASE a \notin PlanSwitch
      <4>1. ModeOf(a) = want[a]
        BY <3>1, <3>3, <3>7 DEF PlanSwitch
      <4> QED BY <1>4, <3>1, <3>2, <3>4, <3>5, <3>7, <4>1
    <3> QED BY <3>6, <3>7
  <2> QED BY <1>2, <2>1, <2>2, <2>3 DEF PassKept
<1>17. DoneIdle'
  BY <1>4, <1>5, <1>6 DEF EdgeInv, DoneIdle
<1>18. SlotsConserved'
  <2>1. LiveTasks' = LiveTasks
    BY <1>4, <1>5, <1>6 DEF LiveTasks
  <2>2. CancelledTasks' = CancelledTasks \cup R /\ CancelledTasks \cap R = {}
    <3>1. ASSUME NEW j \in LiveTasks PROVE tasks'[j].token = "cancelled" <=> j \in R \/ tasks[j].token = "cancelled"
      BY <1>4, <1>6 DEF LiveTasks
    <3>2. R \subseteq LiveTasks /\ CancelledTasks \cap R = {}
      BY <1>10
    <3> HIDE DEF R
    <3> QED BY <2>1, <3>1, <3>2 DEF CancelledTasks
  <2> HIDE DEF R
  <2>3. Cardinality(CancelledTasks') = Cardinality(CancelledTasks) + Cardinality(R)
        /\ Cardinality(CancelledTasks) \in Nat
    <3> DEFINE C == CancelledTasks
    <3>1. IsFiniteSet(C) /\ IsFiniteSet(R) /\ C \cap R = {}
      BY <1>1, <1>11, <2>2
    <3> HIDE DEF C
    <3>2. Cardinality(C \cup R) = Cardinality(C) + Cardinality(R) - Cardinality(C \cap R)
      BY <3>1, FS_Union
    <3>3. Cardinality(C) \in Nat /\ Cardinality(R) \in Nat /\ Cardinality(C \cap R) = 0
      BY <3>1, FS_CardinalityType, FS_EmptySet
    <3>4. Cardinality(C \cup R) = Cardinality(C) + Cardinality(R)
      BY <3>2, <3>3
    <3> QED BY <2>2, <3>3, <3>4 DEF C
  <2>4. slots'.serving = slots.serving - Cardinality(R) /\ slots'.draining = slots.draining + Cardinality(R)
    BY <1>2, <1>12
  <2>5. slots.serving \in Int /\ slots.draining \in Int
    BY <1>t DEF EdgeTypes
  <2>6. /\ slots.serving + slots.draining = Cardinality(LiveTasks)
        /\ slots.draining = Cardinality(CancelledTasks)
    BY <1>t DEF EdgeInv, SlotsConserved, CancelledTasks
  <2>7. /\ slots'.serving + slots'.draining = Cardinality(LiveTasks')
        /\ slots'.draining = Cardinality(CancelledTasks')
    BY <1>11, <2>1, <2>3, <2>4, <2>5, <2>6
  <2> QED BY <2>7 DEF SlotsConserved, CancelledTasks
<1> QED BY <1>13, <1>14, <1>15, <1>16, <1>17, <1>18 DEF EdgeInv

LEMMA EdgeInvHolds == EdgeSpec => []EdgeInv
<1>1. EdgeInv /\ [EdgeNext]_edgeVars => EdgeInv'
  <2> SUFFICES ASSUME EdgeInv, [EdgeNext]_edgeVars PROVE EdgeInv'
    OBVIOUS
  <2>1. CASE SpecsChange \/ SignalShutdown \/ UNCHANGED edgeVars
    BY <2>1, ControlStep
  <2>2. CASE AcceptorStep
    BY <2>2, ReconcileStep, PublishStep, ShutdownStep, BindStep, BindFailsStep DEF AcceptorStep
  <2>3. CASE \E i \in TaskIds : TaskStep(i)
    BY <2>3, TaskStepKeeps
  <2> QED BY <2>1, <2>2, <2>3 DEF EdgeNext, TaskStep
<1> QED BY <1>1, EdgeInitInv, PTL DEF EdgeSpec

\* For any addresses, modes and connection limit, however reconciles, binds, drains
\* and listener tasks interleave: between two passes the published ports are those
\* with a running accept loop in the mode the last pass asked for.
THEOREM BoundPortsCorrect == EdgeSpec => []BoundPortsTrue
<1>1. EdgeInv => BoundPortsTrue
  <2> SUFFICES ASSUME EdgeInv, acceptor.pc = "select", ~stopping
               PROVE  /\ boundPorts = {tasks[i].addr : i \in {j \in TaskIds :
                                         tasks[j].phase = "accepting" /\ tasks[j].token = "live"}}
                      /\ \A a \in boundPorts : ModeOf(a) = acceptor.spec[a]
    BY DEF BoundPortsTrue
  <2> DEFINE L == {j \in TaskIds : tasks[j].phase = "accepting" /\ tasks[j].token = "live"}
  <2>1. boundPorts = Bound /\ \A a \in Bound : ModeOf(a) = acceptor.spec[a]
    BY DEF EdgeInv, PassKept
  <2>2. ASSUME NEW a \in Bound PROVE \E i \in L : tasks[i].addr = a
    <3>1. activeOf[a] \in TaskIds /\ tasks[activeOf[a]].addr = a
      BY DEF EdgeInv, ActiveTasks, Bound
    <3>2. activeOf[a] \in L
      BY <3>1 DEF EdgeInv, TokensOwned
    <3> QED BY <3>1, <3>2
  <2>3. ASSUME NEW i \in L PROVE tasks[i].addr \in Bound
    <3>1. tasks[i].addr \in Addrs /\ i # 0
      BY TasksTyped DEF EdgeInv, TaskRecords
    <3> QED BY <3>1 DEF EdgeInv, TokensOwned, Bound
  <2>4. Bound = {tasks[i].addr : i \in L}
    BY <2>2, <2>3
  <2> QED BY <2>1, <2>4
<1> QED BY <1>1, EdgeInvHolds, PTL

\* The gauge of active listeners: one slot for every unfinished task, whichever way
\* it ends, and before a shutdown the draining ones are those a reconcile removed.
THEOREM ListenerSlotsExact == EdgeSpec => [](EdgeTypeOK /\ SlotsConserved)
<1>1. EdgeInv => EdgeTypeOK /\ SlotsConserved
  <2> SUFFICES ASSUME EdgeInv PROVE EdgeTypeOK
    BY DEF EdgeInv
  <2>1. \A i \in TaskIds : tasks[i] \in TaskRecords
    BY TasksTyped DEF EdgeInv
  <2>2. acceptor.pc \in {"select", "adding", "joining", "exited"}
        /\ acceptor.add \subseteq Addrs /\ acceptor.failed \subseteq Addrs
    BY DEF EdgeInv, EdgeTypes, AcceptorRecords
  <2> QED BY <2>1, <2>2 DEF EdgeInv, EdgeTypes, EdgeTypeOK, TaskRecords, PassKept, DoneIdle, ActiveTasks, Bound
<1> QED BY <1>1, EdgeInvHolds, PTL

\* Acceptor, for any addresses, modes and limits: what it reports of its listeners, to
\* the controller and in its gauges, is what its tasks are.
THEOREM ListenersReportedTruly == EdgeSpec => []ListenersAccounted
BY BoundPortsCorrect, ListenerSlotsExact, PTL DEF ListenersAccounted
=============================================================================
