------------------------- MODULE NodeSessionsProofs -------------------------
(***************************************************************************)
(* For any number of sessions, node ids and identities: claims are neither *)
(* stolen nor leaked, and a direct row ends only by an exit of its own     *)
(* node id.                                                                *)
(***************************************************************************)
EXTENDS NodeSessions, TLAPS

\* A session that was granted a claim.
Granted(s) == spc[s] \in {"claimed", "running", "released", "evicting"}

\* What a granted session knows of itself.
SubsKnown ==
  \A s \in Sessions :
    /\ Granted(s) => sub[s].node \in NodeIds /\ sub[s].fp \in Idents /\ sub[s].claim # 0
    /\ spc[s] = "new" => sub[s] = NoSub

\* Generations grow, and no two sessions share one.
GensUnique ==
  /\ \A s \in Sessions : sub[s].claim < nextGen
  /\ \A s, t \in Sessions : sub[s].claim = sub[t].claim /\ sub[s].claim # 0 => s = t

ClaimInv == SessionsTypeOK /\ SubsKnown /\ GensUnique /\ ClaimsExact

-----------------------------------------------------------------------------

\* Every step of the sessions keeps the variables in their types (claim_node_id,
\* connect, record_ack, apply_roster and the exits).
LEMMA TypeStep ==
  ASSUME SessionsTypeOK, SubsKnown, [SessionsNext]_sessionVars
  PROVE  SessionsTypeOK'
<1> USE DEF SessionsTypeOK
<1>1. ASSUME NEW s \in Sessions, NEW n \in NodeIds, NEW fp \in Idents, Claim(s, n, fp)
      PROVE  SessionsTypeOK'
  BY <1>1 DEF Claim, Claims
<1>2. ASSUME NEW s \in Sessions, NEW n \in NodeIds, NEW fp \in Idents, Refuse(s, n, fp)
      PROVE  SessionsTypeOK'
  BY <1>2 DEF Refuse
<1>3. ASSUME NEW s \in Sessions, Connect(s)
      PROVE  SessionsTypeOK'
  BY <1>3 DEF Connect, RegistryRows
<1>4. ASSUME NEW s \in Sessions, NEW q \in 1 .. MaxSeq, RecordAck(s, q)
      PROVE  SessionsTypeOK'
  <2>1. sub[s].node \in NodeIds /\ q \in Nat
    BY <1>4, SeqAssumption DEF RecordAck, SubsKnown, Granted
  <2>2. rows' \in [NodeIds -> RegistryRows \cup {Nobody}]
    BY <1>4, <2>1 DEF RecordAck, RegistryRows
  <2> QED BY <1>4, <2>1, <2>2 DEF RecordAck
<1>5. ASSUME NEW s \in Sessions, NEW leaves \in SUBSET (NodeIds \ Relays),
             NEW seqs \in Rosters(leaves), RosterReport(s, leaves, seqs)
      PROVE  SessionsTypeOK'
  <2>1. sub[s].node \in NodeIds
    BY <1>5 DEF RosterReport, SubsKnown, Granted
  <2>2. rows' \in [NodeIds -> RegistryRows \cup {Nobody}]
    <3>1. \A c \in Folded(sub[s].node, leaves) : seqs[c] \in Nat
      BY <1>5, SeqAssumption DEF Rosters, Folded
    <3> QED BY <1>5, <2>1, <3>1 DEF RosterReport, RegistryRows
  <2> QED BY <1>5, <2>2 DEF RosterReport
<1>6. ASSUME NEW s \in Sessions, SessionExit(s)
      PROVE  SessionsTypeOK'
  BY <1>6 DEF SessionExit, Release, ReleaseSuperseded, Disconnect, EvictChildren
<1>7. ASSUME NEW n \in NodeIds, NEW q \in 1 .. MaxSeq, LeafApplies(n, q)
      PROVE  SessionsTypeOK'
  BY <1>7, SeqAssumption DEF LeafApplies
<1>8. CASE UNCHANGED sessionVars
  BY <1>8 DEF sessionVars
<1> QED
  BY <1>1, <1>2, <1>3, <1>4, <1>5, <1>6, <1>7, <1>8 DEF SessionsNext, OpenSession, Report

\* Only a claim gives a session its node id and its generation, and it is a fresh one.
LEMMA SubsStep ==
  ASSUME SessionsTypeOK, SubsKnown, GensUnique, [SessionsNext]_sessionVars
  PROVE  SubsKnown' /\ GensUnique'
<1> USE DEF SubsKnown, GensUnique, Granted
<1>1. ASSUME NEW s \in Sessions, NEW n \in NodeIds, NEW fp \in Idents, Claim(s, n, fp)
      PROVE  SubsKnown' /\ GensUnique'
  <2>1. /\ \A t \in Sessions : sub'[t] = IF t = s THEN [node |-> n, fp |-> fp, claim |-> nextGen] ELSE sub[t]
        /\ \A t \in Sessions : spc'[t] = IF t = s THEN "claimed" ELSE spc[t]
        /\ nextGen' = nextGen + 1 /\ nextGen \in Nat \ {0}
        /\ \A t \in Sessions : sub[t].claim \in Nat
    BY <1>1 DEF Claim, SessionsTypeOK
  <2> QED BY <2>1
<1>2. ASSUME NEW s \in Sessions, UNCHANGED <<sub, nextGen>>, 
             \A t \in Sessions : spc'[t] # spc[t] => spc'[t] # "new" /\ (Granted(t)' => Granted(t))
      PROVE  SubsKnown' /\ GensUnique'
  BY <1>2
<1>3. ASSUME NEW s \in Sessions,
             \/ \E n \in NodeIds, fp \in Idents : Refuse(s, n, fp)
             \/ Connect(s) \/ Report(s) \/ SessionExit(s)
      PROVE  /\ UNCHANGED <<sub, nextGen>>
             /\ \A t \in Sessions : spc'[t] # spc[t] => spc'[t] # "new" /\ (Granted(t)' => Granted(t))
  BY <1>3 DEF SessionsTypeOK, Refuse, Connect, Report, RecordAck, RosterReport, SessionExit,
              Release, ReleaseSuperseded, Disconnect, EvictChildren
<1>4. CASE UNCHANGED <<sub, nextGen, spc>>
  BY <1>4
<1> QED
  BY <1>1, <1>2, <1>3, <1>4 DEF SessionsNext, OpenSession, LeafApplies, sessionVars

\* An admitted session is not the only one of its node id, and yet the newest one
\* keeps the claim through every claim and exit of the others.
LEMMA NewestStep ==
  ASSUME ClaimInv, [SessionsNext]_sessionVars
  PROVE  NewestHolds'
<1> USE DEF ClaimInv, ClaimsExact, SessionsTypeOK
<1>1. ASSUME NEW s \in Sessions, NEW n \in NodeIds, NEW fp \in Idents, Claim(s, n, fp)
      PROVE  NewestHolds'
  <2> SUFFICES ASSUME NEW t \in Sessions, AdmittedSession(t)', Newest(t)'
               PROVE  claims'[sub'[t].node] = [fp |-> sub'[t].fp, gen |-> sub'[t].claim]
    BY DEF NewestHolds
  <2>1. sub'[s] = [node |-> n, fp |-> fp, claim |-> nextGen]
    BY <1>1 DEF Claim
  <2>2. CASE t = s
    BY <1>1, <2>1, <2>2 DEF Claim
  <2>3. CASE t # s
    <3>1. sub'[t] = sub[t] /\ AdmittedSession(t) /\ sub[t].node \in NodeIds
      BY <1>1, <2>3 DEF Claim, AdmittedSession, SubsKnown, Granted
    <3>2. sub[t].node # n
      BY <2>1, <3>1 DEF Newest, GensUnique
    <3>3. sub[s].node = Nobody
      BY <1>1 DEF Claim, SubsKnown, NoSub
    <3>4. Newest(t)
      BY <1>1, <3>1, <3>3, AbsentAssumption DEF Newest, Claim
    <3> QED BY <1>1, <3>1, <3>2, <3>4 DEF NewestHolds, Claim
  <2> QED BY <2>2, <2>3
<1>2. ASSUME NEW s \in Sessions, Release(s)
      PROVE  NewestHolds'
  <2> SUFFICES ASSUME NEW t \in Sessions, AdmittedSession(t)', Newest(t)'
               PROVE  claims'[sub'[t].node] = [fp |-> sub'[t].fp, gen |-> sub'[t].claim]
    BY DEF NewestHolds
  <2>1. sub' = sub /\ t # s /\ AdmittedSession(t) /\ Newest(t)
    BY <1>2 DEF Release, AdmittedSession, Newest
  <2>2. sub[t].node \in NodeIds /\ sub[s].node \in NodeIds /\ sub[s].claim # 0
    BY <1>2, <2>1 DEF Release, AdmittedSession, SubsKnown, Granted
  <2>3. claims[sub[t].node] = [fp |-> sub[t].fp, gen |-> sub[t].claim]
    BY <2>1 DEF NewestHolds
  <2>4. sub[t].node # sub[s].node
    BY <1>2, <2>1, <2>2, <2>3 DEF Release, OwnsClaim, GensUnique
  <2> QED BY <1>2, <2>1, <2>2, <2>3, <2>4 DEF Release
<1>3. ASSUME NEW s \in Sessions,
             \/ \E n \in NodeIds, fp \in Idents : Refuse(s, n, fp)
             \/ Connect(s) \/ Report(s) \/ ReleaseSuperseded(s) \/ Disconnect(s) \/ EvictChildren(s)
      PROVE  NewestHolds'
  <2>1. /\ UNCHANGED <<sub, claims>>
        /\ \A t \in Sessions : AdmittedSession(t)' => AdmittedSession(t)
    BY <1>3 DEF Refuse, Connect, Report, RecordAck, RosterReport, ReleaseSuperseded,
                Disconnect, EvictChildren, AdmittedSession
  <2> QED BY <2>1 DEF NewestHolds, Newest
<1>4. CASE UNCHANGED <<sub, claims, spc>>
  BY <1>4 DEF NewestHolds, Newest, AdmittedSession
<1> QED
  BY <1>1, <1>2, <1>3, <1>4 DEF SessionsNext, OpenSession, SessionExit, LeafApplies, sessionVars

\* A claim is dropped by the exit of the session that holds it, and an exit that
\* drops nothing is the exit of a session that holds nothing.
LEMMA NoStaleStep ==
  ASSUME ClaimInv, [SessionsNext]_sessionVars
  PROVE  NoStaleClaim'
<1> USE DEF ClaimInv, ClaimsExact, SessionsTypeOK
<1> DEFINE Holds(t, n) == AdmittedSession(t) /\ sub[t].node = n /\ sub[t].claim = claims[n].gen
<1>1. ASSUME NEW s \in Sessions, NEW m \in NodeIds, NEW fp \in Idents, Claim(s, m, fp)
      PROVE  NoStaleClaim'
  <2> SUFFICES ASSUME NEW n \in NodeIds, claims'[n] # Nobody
               PROVE  \E t \in Sessions : Holds(t, n)'
    BY DEF NoStaleClaim
  <2>1. CASE n = m
    <3>1. Holds(s, n)'
      BY <1>1, <2>1 DEF Claim, AdmittedSession
    <3> QED BY <3>1
  <2>2. CASE n # m
    <3>1. claims'[n] = claims[n]
      BY <1>1, <2>2 DEF Claim
    <3>2. PICK t \in Sessions : Holds(t, n)
      BY <3>1 DEF NoStaleClaim
    <3>3. t # s
      BY <1>1, <3>2 DEF Claim, AdmittedSession
    <3>4. Holds(t, n)'
      BY <1>1, <3>1, <3>2, <3>3 DEF Claim, AdmittedSession
    <3> QED BY <3>4
  <2> QED BY <2>1, <2>2
<1>2. ASSUME NEW s \in Sessions, Release(s) \/ ReleaseSuperseded(s)
      PROVE  NoStaleClaim'
  <2> SUFFICES ASSUME NEW n \in NodeIds, claims'[n] # Nobody
               PROVE  \E t \in Sessions : Holds(t, n)'
    BY DEF NoStaleClaim
  <2>1. sub' = sub /\ claims'[n] = claims[n] /\ sub[s].node \in NodeIds
    BY <1>2 DEF Release, ReleaseSuperseded, SubsKnown, Granted
  <2>2. PICK t \in Sessions : Holds(t, n)
    BY <2>1 DEF NoStaleClaim
  <2>3. t # s
    BY <1>2, <2>1, <2>2 DEF Release, ReleaseSuperseded, OwnsClaim
  <2>4. Holds(t, n)'
    BY <1>2, <2>1, <2>2, <2>3 DEF Release, ReleaseSuperseded, AdmittedSession
  <2> QED BY <2>4
<1>3. ASSUME NEW s \in Sessions,
             \/ \E n \in NodeIds, fp \in Idents : Refuse(s, n, fp)
             \/ Connect(s) \/ Report(s) \/ Disconnect(s) \/ EvictChildren(s)
      PROVE  NoStaleClaim'
  <2>1. /\ UNCHANGED <<sub, claims>>
        /\ \A t \in Sessions : AdmittedSession(t) => AdmittedSession(t)'
    BY <1>3 DEF Refuse, Connect, Report, RecordAck, RosterReport, Disconnect, EvictChildren,
                AdmittedSession
  <2> QED BY <2>1 DEF NoStaleClaim
<1>4. CASE UNCHANGED <<sub, claims, spc>>
  BY <1>4 DEF NoStaleClaim, AdmittedSession
<1> QED
  BY <1>1, <1>2, <1>3, <1>4 DEF SessionsNext, OpenSession, SessionExit, LeafApplies, sessionVars

-----------------------------------------------------------------------------

LEMMA ClaimInvHolds == SessionsSpec => []ClaimInv
<1>1. SessionsInit => ClaimInv
  BY DEF SessionsInit, ClaimInv, SessionsTypeOK, SubsKnown, GensUnique, Granted, NoSub, ClaimsExact,
         NewestHolds, NoStaleClaim, AdmittedSession
<1>2. ClaimInv /\ [SessionsNext]_sessionVars => ClaimInv'
  BY TypeStep, SubsStep, NewestStep, NoStaleStep DEF ClaimInv, ClaimsExact
<1> QED
  BY <1>1, <1>2, PTL DEF SessionsSpec

\* The claim map, the registry and the sessions keep their types.
THEOREM SessionTypesHold == SessionsSpec => []SessionsTypeOK
<1>1. ClaimInv => SessionsTypeOK
  BY DEF ClaimInv
<1> QED
  BY <1>1, ClaimInvHolds, PTL

\* Node-id claims (claim_node_id, release_node_id): however many sessions of one
\* node id overlap, the newest admitted one holds the claim until its own exit,
\* and a claim always belongs to a session that is still admitted.
THEOREM ClaimsNeitherStolenNorLeaked == SessionsSpec => []ClaimsExact
<1>1. ClaimInv => ClaimsExact
  BY DEF ClaimInv
<1> QED
  BY <1>1, ClaimInvHolds, PTL

\* The step form of DirectRowEndsByOwnExit.
LEMMA DirectRowStep ==
  ASSUME ClaimInv, [SessionsNext]_sessionVars, NEW n \in NodeIds, DirectRow(n), ~DirectRow(n)'
  PROVE  \E s \in Sessions : sub[s].node = n /\ spc[s] = "released" /\ spc'[s] = "evicting"
<1> USE DEF ClaimInv, SessionsTypeOK
<1>0. rows[n] \in RegistryRows /\ rows[n].parent = Nobody
  BY DEF DirectRow
<1>1. ASSUME NEW s \in Sessions, Connect(s)
      PROVE  FALSE
  <2>1. rows'[n] \in {rows[n], [parent |-> Nobody, isRelay |-> "no", seq |-> 0, by |-> s]}
    BY <1>1 DEF Connect
  <2>2. rows'[n] \in RegistryRows /\ rows'[n].parent = Nobody
    BY <2>1, <1>0 DEF RegistryRows
  <2> QED BY <2>2, NoClaimAssumption DEF DirectRow
<1>2. ASSUME NEW s \in Sessions, NEW q \in 1 .. MaxSeq, RecordAck(s, q)
      PROVE  FALSE
  <2>1. q \in Nat /\ sub[s].node \in NodeIds
    BY <1>2, SeqAssumption DEF RecordAck, SubsKnown, Granted
  <2>2. rows'[n] \in RegistryRows /\ rows'[n].parent = Nobody
    BY <1>2, <2>1, <1>0 DEF RecordAck, RegistryRows
  <2> QED BY <2>2, NoClaimAssumption DEF DirectRow
<1>3. ASSUME NEW s \in Sessions, NEW leaves \in SUBSET (NodeIds \ Relays),
             NEW seqs \in Rosters(leaves), RosterReport(s, leaves, seqs)
      PROVE  FALSE
  <2>1. sub[s].node \in NodeIds
    BY <1>3 DEF RosterReport, SubsKnown, Granted
  <2>2. n \notin Folded(sub[s].node, leaves) /\ n \notin Children(sub[s].node)
    BY <1>0, <2>1, AbsentAssumption DEF Folded, Children
  <2>3. rows'[n] \in {rows[n], [rows[n] EXCEPT !.isRelay = "yes"]}
    BY <1>3, <2>2 DEF RosterReport
  <2>4. rows'[n] \in RegistryRows /\ rows'[n].parent = Nobody
    BY <2>3, <1>0 DEF RegistryRows
  <2> QED BY <2>4, NoClaimAssumption DEF DirectRow
<1>4. ASSUME NEW s \in Sessions, EvictChildren(s)
      PROVE  FALSE
  <2>1. sub[s].node \in NodeIds
    BY <1>4 DEF EvictChildren, SubsKnown, Granted
  <2>2. n \notin Children(sub[s].node)
    BY <1>0, <2>1, AbsentAssumption DEF Children
  <2> QED BY <1>4, <2>2 DEF EvictChildren, DirectRow
<1>5. ASSUME NEW s \in Sessions, Disconnect(s)
      PROVE  sub[s].node = n /\ spc[s] = "released" /\ spc'[s] = "evicting"
  BY <1>5 DEF Disconnect, DirectRow
<1>6. ASSUME NEW s \in Sessions,
             \/ \E m \in NodeIds, fp \in Idents : Claim(s, m, fp) \/ Refuse(s, m, fp)
             \/ Release(s) \/ ReleaseSuperseded(s)
      PROVE  FALSE
  BY <1>6 DEF Claim, Refuse, Release, ReleaseSuperseded, DirectRow
<1>7. ~UNCHANGED rows
  BY DEF DirectRow
<1> QED
  BY <1>1, <1>2, <1>3, <1>4, <1>5, <1>6, <1>7
     DEF SessionsNext, OpenSession, Report, SessionExit, LeafApplies, sessionVars

\* NodeRegistry (apply_roster, evict_children, disconnect): a directly connected
\* node's row disappears or turns into a roster row in no other way than by the
\* exit of a session of that node id, whatever relays report meanwhile.
THEOREM DirectRowsAreSafe == SessionsSpec => DirectRowEndsByOwnExit
<1>1. ClaimInv /\ [SessionsNext]_sessionVars =>
        [\A n \in NodeIds :
           DirectRow(n) /\ ~DirectRow(n)' =>
             \E s \in Sessions : sub[s].node = n /\ spc[s] = "released" /\ spc'[s] = "evicting"]_sessionVars
  BY DirectRowStep
<1> QED
  BY <1>1, ClaimInvHolds, PTL DEF SessionsSpec, DirectRowEndsByOwnExit

-----------------------------------------------------------------------------
(* The rows *)

\* A direct row goes before its session evicts its children.
DirectBeforeEvicting ==
  \A n \in NodeIds : rows[n] # Nobody /\ rows[n].parent = Nobody =>
    spc[rows[n].by] \in {"running", "released"} \/ ~Newest(rows[n].by)

RowInv == ClaimInv /\ RowsAccounted /\ DirectBeforeEvicting

\* Once superseded, always superseded; and only a granted session has a node id.
LEMMA SupersededStays ==
  ASSUME ClaimInv, [SessionsNext]_sessionVars, NEW s \in Sessions, sub[s].node # Nobody
  PROVE  sub'[s] = sub[s] /\ (~Newest(s) => ~Newest(s)')
<1> USE DEF ClaimInv, SessionsTypeOK
<1>1. ASSUME NEW t \in Sessions, sub[t].node # Nobody PROVE sub'[t] = sub[t]
  <2>1. spc[t] # "new"
    BY <1>1 DEF SubsKnown, NoSub
  <2>2. ASSUME NEW u \in Sessions, NEW n \in NodeIds, NEW fp \in Idents, Claim(u, n, fp) PROVE sub'[t] = sub[t]
    BY <2>1, <2>2 DEF Claim
  <2> QED BY <2>2 DEF SessionsNext, OpenSession, Report, SessionExit, Refuse, Connect, RecordAck, RosterReport,
                      Release, ReleaseSuperseded, Disconnect, EvictChildren, LeafApplies, sessionVars
<1>2. ASSUME ~Newest(s) PROVE ~Newest(s)'
  <2>1. PICK t \in Sessions : sub[t].node = sub[s].node /\ ~(sub[t].claim <= sub[s].claim)
    BY <1>2 DEF Newest
  <2>2. sub'[t] = sub[t] /\ sub'[s] = sub[s]
    BY <1>1, <2>1
  <2> QED BY <2>1, <2>2 DEF Newest
<1> QED BY <1>1, <1>2

\* A row that is kept, but for its mark and its sequence, is still owned unless its session
\* has just finished.
LEMMA RowKept ==
  ASSUME RowInv, [SessionsNext]_sessionVars, NEW n \in NodeIds, rows[n] # Nobody, rows'[n] # Nobody,
         NEW s \in Sessions, rows[n].by = s, rows'[n].parent = rows[n].parent, rows'[n].by = s
  PROVE  /\ sub'[s].node = Reporter(n)'
         /\ \/ spc[s] \in {"running", "released", "evicting"} /\ spc'[s] = "done"
            \/ spc'[s] \in {"running", "released", "evicting"} \/ ~Newest(s)'
         /\ rows[n].parent = Nobody =>
              \/ spc[s] \in {"running", "released"} /\ spc'[s] \in {"evicting", "done"}
              \/ spc'[s] \in {"running", "released"} \/ ~Newest(s)'
<1>1. sub[s].node = Reporter(n) /\ Reporter(n) \in NodeIds
  BY DEF RowInv, RowsAccounted, RowsOwned, ClaimInv, SessionsTypeOK, RegistryRows, Reporter
<1>2. sub'[s] = sub[s] /\ (~Newest(s) => ~Newest(s)')
  BY <1>1, SupersededStays, AbsentAssumption DEF RowInv
<1>3. Reporter(n)' = Reporter(n)
  BY DEF Reporter
<1>4. spc[s] \in {"running", "released", "evicting"} \/ ~Newest(s)
  BY DEF RowInv, RowsAccounted, RowsOwned
<1>5. rows[n].parent = Nobody => spc[s] \in {"running", "released"} \/ ~Newest(s)
  BY DEF RowInv, DirectBeforeEvicting
<1>6. spc[s] \in {"running", "released", "evicting"} => spc'[s] \in {"running", "released", "evicting", "done"}
  BY DEF RowInv, ClaimInv, SessionsTypeOK, SessionsNext, OpenSession, Report, SessionExit, Claim, Refuse, Connect,
         RecordAck, RosterReport, Release, ReleaseSuperseded, Disconnect, EvictChildren, LeafApplies, sessionVars
<1> QED BY <1>1, <1>2, <1>3, <1>4, <1>5, <1>6

\* A session that ends without its cleanup has been superseded.
LEMMA SupersededExits ==
  ASSUME ClaimInv, NEW s \in Sessions, ReleaseSuperseded(s)
  PROVE  ~Newest(s)
<1>1. AdmittedSession(s) /\ ~OwnsClaim(s)
  BY DEF ReleaseSuperseded, AdmittedSession
<1>2. sub[s].node \in NodeIds /\ sub[s].fp \in Idents /\ sub[s].claim \in Nat
  BY DEF ClaimInv, SubsKnown, SessionsTypeOK, Granted, ReleaseSuperseded
<1>3. ASSUME Newest(s) PROVE FALSE
  <2>1. claims[sub[s].node] = [fp |-> sub[s].fp, gen |-> sub[s].claim]
    BY <1>1, <1>3 DEF ClaimInv, ClaimsExact, NewestHolds
  <2>2. claims[sub[s].node] # Nobody
    BY <1>2, <2>1, NoClaimAssumption DEF Claims
  <2> QED BY <1>1, <2>1, <2>2 DEF OwnsClaim
<1> QED BY <1>3

\* The row of node id n, reported by session s, as RowsOwned and DirectBeforeEvicting want it.
RowFine(n, s) ==
  /\ sub[s].node = Reporter(n)
  /\ spc[s] \in {"running", "released", "evicting"} \/ ~Newest(s)
  /\ rows[n].parent = Nobody => spc[s] \in {"running", "released"} \/ ~Newest(s)

LEMMA KeptFine ==
  ASSUME RowInv, [SessionsNext]_sessionVars, NEW n \in NodeIds, rows[n] # Nobody, rows'[n] # Nobody,
         NEW s \in Sessions, rows[n].by = s, rows'[n].parent = rows[n].parent, rows'[n].by = s,
         spc'[s] = spc[s] \/ ~Newest(s)' \/ spc'[s] = "released" \/ (rows[n].parent # Nobody /\ spc'[s] = "evicting")
  PROVE  RowFine(n, s)'
BY RowKept DEF RowFine

LEMMA NewFine ==
  ASSUME NEW n \in NodeIds, NEW s \in Sessions, spc'[s] = "running", sub'[s].node = Reporter(n)'
  PROVE  RowFine(n, s)'
BY DEF RowFine

LEMMA OpeningFine ==
  ASSUME RowInv, SessionsTypeOK', NEW u \in Sessions, [SessionsNext]_sessionVars,
         OpenSession(u) \/ UNCHANGED <<rows, spc, sub>>,
         NEW n \in NodeIds, rows'[n] # Nobody, NEW s \in Sessions, rows'[n].by = s
  PROVE  RowFine(n, s)'
<1> USE DEF RowInv, ClaimInv, SessionsTypeOK
<1>1. ASSUME rows'[n] = rows[n], spc'[s] = spc[s] PROVE RowFine(n, s)'
  BY <1>1, KeptFine
<1>2. ASSUME NEW m \in NodeIds, NEW fp \in Idents, Claim(u, m, fp) \/ Refuse(u, m, fp) PROVE RowFine(n, s)'
  <2>1. rows' = rows /\ spc[u] = "new" /\ spc' = [spc EXCEPT ![u] = spc'[u]]
    BY <1>2 DEF Claim, Refuse
  <2>2. rows[n].by = s /\ rows[n] # Nobody /\ sub[s].node = Reporter(n) /\ Reporter(n) \in NodeIds
    BY <2>1 DEF RowsAccounted, RowsOwned, Reporter, RegistryRows
  <2>3. s # u
    BY <2>1, <2>2, AbsentAssumption DEF SubsKnown, NoSub
  <2> QED BY <1>1, <2>1, <2>3
<1>3. CASE Connect(u)
  <2>1. sub[u].node \in NodeIds /\ sub' = sub
    BY <1>3 DEF Connect, SubsKnown, Granted
  <2>2. CASE n = sub[u].node
    <3>1. rows'[n] = [parent |-> Nobody, isRelay |-> "no", seq |-> 0, by |-> u] /\ spc'[u] = "running"
      BY <1>3, <2>1, <2>2 DEF Connect
    <3>2. s = u /\ Reporter(n)' = n
      BY <3>1 DEF Reporter
    <3> QED BY <2>1, <2>2, <3>1, <3>2, NewFine
  <2>3. CASE n # sub[u].node
    <3>1. rows'[n] = rows[n]
      BY <1>3, <2>1, <2>3 DEF Connect
    <3>2. spc'[s] = spc[s] \/ spc'[s] = "running"
      BY <1>3 DEF Connect
    <3>3. CASE spc'[s] = spc[s] BY <1>1, <3>1, <3>3
    <3>4. CASE spc'[s] = "running"
      BY <3>1, <3>4, RowKept DEF RowFine
    <3> QED BY <3>2, <3>3, <3>4
  <2> QED BY <2>2, <2>3
<1>4. CASE UNCHANGED <<rows, spc, sub>>
  BY <1>1, <1>4
<1> QED BY <1>2, <1>3, <1>4 DEF OpenSession

LEMMA ReportFine ==
  ASSUME RowInv, SessionsTypeOK', NEW u \in Sessions, Report(u),
         NEW n \in NodeIds, rows'[n] # Nobody, NEW s \in Sessions, rows'[n].by = s
  PROVE  RowFine(n, s)'
<1> USE DEF RowInv, ClaimInv, SessionsTypeOK
<1>0. [SessionsNext]_sessionVars /\ spc' = spc /\ sub' = sub /\ spc[u] = "running" /\ sub[u].node \in NodeIds
  BY DEF SessionsNext, Report, RecordAck, RosterReport, SubsKnown, Granted
<1>1. ASSUME rows[n] # Nobody, rows'[n].parent = rows[n].parent, rows'[n].by = rows[n].by PROVE RowFine(n, s)'
  BY <1>0, <1>1, KeptFine
<1>2. ASSUME NEW q \in 1 .. MaxSeq, RecordAck(u, q) PROVE RowFine(n, s)'
  <2>1. rows[n] # Nobody /\ rows[n] \in RegistryRows
    BY <1>0, <1>2 DEF RecordAck
  <2>2. rows'[n].parent = rows[n].parent /\ rows'[n].by = rows[n].by
    BY <1>0, <1>2, <2>1 DEF RecordAck, RegistryRows
  <2> QED BY <1>1, <2>1, <2>2
<1>3. ASSUME NEW leaves \in SUBSET (NodeIds \ Relays), NEW seqs \in Rosters(leaves), RosterReport(u, leaves, seqs)
      PROVE  RowFine(n, s)'
  <2>1. CASE n \in Folded(sub[u].node, leaves)
    <3>1. rows'[n] = [parent |-> sub[u].node, isRelay |-> "no", seq |-> seqs[n], by |-> u]
      BY <1>3, <2>1 DEF RosterReport
    <3>2. s = u /\ Reporter(n)' = sub[u].node
      BY <1>0, <3>1, AbsentAssumption DEF Reporter
    <3> QED BY <1>0, <3>2, NewFine
  <2>2. CASE n \notin Folded(sub[u].node, leaves)
    <3>1. rows'[n] = rows[n] \/ (rows[n] # Nobody /\ rows'[n] = [rows[n] EXCEPT !.isRelay = "yes"])
      BY <1>3, <2>2 DEF RosterReport
    <3>2. rows[n] # Nobody /\ rows[n] \in RegistryRows
      BY <3>1
    <3>3. rows'[n].parent = rows[n].parent /\ rows'[n].by = rows[n].by
      BY <3>1, <3>2 DEF RegistryRows
    <3> QED BY <1>1, <3>2, <3>3
  <2> QED BY <2>1, <2>2
<1> QED BY <1>2, <1>3 DEF Report

LEMMA ExitFine ==
  ASSUME RowInv, SessionsTypeOK', NEW u \in Sessions, SessionExit(u),
         NEW n \in NodeIds, rows'[n] # Nobody, NEW s \in Sessions, rows'[n].by = s
  PROVE  RowFine(n, s)'
<1> USE DEF RowInv, ClaimInv, SessionsTypeOK
<1>0. [SessionsNext]_sessionVars /\ sub' = sub /\ sub[u].node \in NodeIds
  BY DEF SessionsNext, SessionExit, Release, ReleaseSuperseded, Disconnect, EvictChildren, SubsKnown, Granted
<1>1. rows'[n] = rows[n] /\ spc' = [spc EXCEPT ![u] = spc'[u]]
  BY <1>0 DEF SessionExit, Release, ReleaseSuperseded, Disconnect, EvictChildren
<1>2. sub[s].node = Reporter(n)
  BY <1>1 DEF RowsAccounted, RowsOwned
<1>3. CASE s # u
  BY <1>0, <1>1, <1>3, KeptFine
<1>4. CASE s = u
  <2>1. CASE Release(u)
    <3>1. spc'[s] = "released" BY <1>4, <2>1 DEF Release
    <3> QED BY <1>0, <1>1, <3>1, KeptFine
  <2>2. CASE ReleaseSuperseded(u)
    <3>1. ~Newest(s)' BY <1>0, <1>4, <2>2, SupersededExits DEF Newest
    <3> QED BY <1>0, <1>1, <3>1, KeptFine
  <2>3. CASE Disconnect(u)
    <3>1. spc'[s] = "evicting" BY <1>4, <2>3 DEF Disconnect
    <3>2. n # sub[u].node BY <1>0, <2>3 DEF Disconnect
    <3>3. rows[n].parent # Nobody BY <1>2, <1>4, <3>2 DEF Reporter
    <3> QED BY <1>0, <1>1, <3>1, <3>3, KeptFine
  <2>4. CASE EvictChildren(u)
    <3>1. n \notin Children(sub[u].node) BY <2>4 DEF EvictChildren
    <3>2. rows[n].parent = Nobody BY <1>1, <1>2, <1>4, <3>1 DEF Children, Reporter
    <3>3. ~Newest(s) BY <1>1, <1>4, <2>4, <3>2 DEF EvictChildren, DirectBeforeEvicting
    <3>4. ~Newest(s)' BY <1>0, <3>3 DEF Newest
    <3> QED BY <1>0, <1>1, <3>4, KeptFine
  <2> QED BY <2>1, <2>2, <2>3, <2>4 DEF SessionExit
<1> QED BY <1>3, <1>4

\* Somebody under node id n has applied sequence q.
Reached(n, q) == below[n] >= q \/ \E t \in Sessions : sub[t].node = n /\ applied[t] >= q

\* What was reached stays reached.
LEMMA ReachedStays ==
  ASSUME ClaimInv, [SessionsNext]_sessionVars, NEW n \in NodeIds, NEW q \in Nat, Reached(n, q)
  PROVE  Reached(n, q)'
<1> USE DEF ClaimInv, SessionsTypeOK
<1>1. /\ \A t \in Sessions : applied'[t] >= applied[t]
      /\ below'[n] >= below[n]
  <2>1. ASSUME NEW u \in Sessions, NEW k \in 1 .. MaxSeq, RecordAck(u, k) PROVE <1>1!:
    BY <2>1, SeqAssumption DEF RecordAck
  <2>2. ASSUME NEW m \in NodeIds, NEW k \in 1 .. MaxSeq, LeafApplies(m, k) PROVE <1>1!:
    BY <2>2, SeqAssumption DEF LeafApplies
  <2>3. UNCHANGED <<applied, below>> => <1>1!:
    OBVIOUS
  <2> QED BY <2>1, <2>2, <2>3 DEF SessionsNext, OpenSession, Report, SessionExit, Claim, Refuse, Connect, RosterReport,
                                  Release, ReleaseSuperseded, Disconnect, EvictChildren, sessionVars
<1>2. applied' \in [Sessions -> Nat] /\ below' \in [NodeIds -> Nat]
  BY TypeStep
<1>3. CASE below[n] >= q
  BY <1>1, <1>2, <1>3 DEF Reached
<1>4. ASSUME NEW t \in Sessions, sub[t].node = n, applied[t] >= q PROVE Reached(n, q)'
  <2>1. sub'[t] = sub[t]
    BY <1>4, SupersededStays, AbsentAssumption
  <2> QED BY <1>1, <1>2, <1>4, <2>1 DEF Reached
<1> QED BY <1>3, <1>4 DEF Reached

\* Every acknowledgement has somebody who applied it, whichever way it came.
LEMMA CreditStep ==
  ASSUME ClaimInv, CreditReal, [SessionsNext]_sessionVars
  PROVE  CreditReal'
<1> USE DEF ClaimInv, SessionsTypeOK
<1> SUFFICES ASSUME NEW n \in NodeIds, rows'[n] # Nobody, rows'[n].seq > 0
             PROVE  Reached(n, rows[n].seq)'
  BY DEF CreditReal, Reached
<1>1. ASSUME rows[n] # Nobody, rows'[n].seq = rows[n].seq
      PROVE  Reached(n, rows[n].seq)'
  <2>1. rows[n].seq \in Nat /\ Reached(n, rows[n].seq)
    BY <1>1 DEF RegistryRows, CreditReal, Reached
  <2>2. \A q \in Nat : Reached(n, q) => Reached(n, q)'
    BY ReachedStays
  <2> QED BY <1>1, <2>1, <2>2 DEF Reached
<1>2. ASSUME NEW u \in Sessions, NEW q \in 1 .. MaxSeq, RecordAck(u, q)
      PROVE  Reached(n, rows[n].seq)'
  <2>1. sub[u].node \in NodeIds /\ sub' = sub /\ q \in Nat /\ applied'[u] = q
    BY <1>2, SeqAssumption DEF RecordAck, SubsKnown, Granted
  <2>2. rows[n] # Nobody /\ rows[n] \in RegistryRows
    BY <1>2 DEF RecordAck
  <2>3. CASE n = sub[u].node
    <3>1. rows'[n].seq = IF q > rows[n].seq THEN q ELSE rows[n].seq
      BY <1>2, <2>2, <2>3 DEF RecordAck, RegistryRows
    <3> QED BY <1>1, <2>1, <2>2, <2>3, <3>1 DEF Reached
  <2>4. CASE n # sub[u].node
    <3>1. rows'[n] = rows[n]
      BY <1>2, <2>1, <2>4 DEF RecordAck
    <3> QED BY <1>1, <2>2, <3>1
  <2> QED BY <2>3, <2>4
<1>3. ASSUME NEW u \in Sessions, NEW leaves \in SUBSET (NodeIds \ Relays),
             NEW seqs \in Rosters(leaves), RosterReport(u, leaves, seqs)
      PROVE  Reached(n, rows[n].seq)'
  <2>1. CASE n \in Folded(sub[u].node, leaves)
    <3>1. rows'[n].seq = seqs[n] /\ below' = below
      BY <1>3, <2>1 DEF RosterReport
    <3>2. seqs[n] <= below[n] /\ seqs[n] \in Nat
      BY <1>3, <2>1, SeqAssumption DEF Rosters, Folded
    <3> QED BY <3>1, <3>2 DEF Reached
  <2>2. CASE n \notin Folded(sub[u].node, leaves)
    <3>1. rows'[n] = rows[n] \/ (rows[n] # Nobody /\ rows'[n] = [rows[n] EXCEPT !.isRelay = "yes"])
      BY <1>3, <2>2 DEF RosterReport
    <3>2. rows[n] # Nobody /\ rows[n] \in RegistryRows
      BY <3>1
    <3>3. rows'[n].seq = rows[n].seq
      BY <3>1, <3>2 DEF RegistryRows
    <3> QED BY <1>1, <3>2, <3>3
  <2> QED BY <2>1, <2>2
<1>4. ASSUME NEW u \in Sessions, Connect(u) PROVE rows'[n] = rows[n]
  <2>1. rows'[n] = rows[n] \/ rows'[n] = [parent |-> Nobody, isRelay |-> "no", seq |-> 0, by |-> u]
    BY <1>4 DEF Connect
  <2> QED BY <2>1
<1>5. ASSUME NEW u \in Sessions, Disconnect(u) \/ EvictChildren(u) PROVE rows'[n] = rows[n]
  BY <1>5 DEF Disconnect, EvictChildren
<1>6. ASSUME rows'[n] = rows[n] PROVE Reached(n, rows[n].seq)'
  BY <1>1, <1>6
<1> QED BY <1>2, <1>3, <1>4, <1>5, <1>6 DEF SessionsNext, OpenSession, Report, SessionExit, Claim, Refuse,
                                            Release, ReleaseSuperseded, LeafApplies, sessionVars

LEMMA RowInvHolds == SessionsSpec => []RowInv
<1>1. SessionsInit => RowsAccounted /\ DirectBeforeEvicting
  BY DEF SessionsInit, RowsAccounted, RowsOwned, CreditReal, DirectBeforeEvicting
<1>2. RowInv /\ ClaimInv' /\ [SessionsNext]_sessionVars => RowsAccounted' /\ DirectBeforeEvicting'
  <2> SUFFICES ASSUME RowInv, ClaimInv', [SessionsNext]_sessionVars PROVE RowsOwned' /\ DirectBeforeEvicting'
    BY CreditStep DEF RowInv, RowsAccounted
  <2>1. ASSUME NEW n \in NodeIds, rows'[n] # Nobody, NEW s \in Sessions, rows'[n].by = s PROVE RowFine(n, s)'
    <3>1. CASE UNCHANGED <<rows, spc, sub>>
      BY <2>1, <3>1, OpeningFine DEF ClaimInv
    <3> QED BY <2>1, <3>1, OpeningFine, ReportFine, ExitFine
            DEF SessionsNext, ClaimInv, LeafApplies, sessionVars
  <2>2. ASSUME NEW n \in NodeIds, rows'[n] # Nobody PROVE rows'[n].by \in Sessions
    BY <2>2 DEF ClaimInv, SessionsTypeOK, RegistryRows
  <2> QED BY <2>1, <2>2 DEF RowsOwned, DirectBeforeEvicting, RowFine
<1> QED BY <1>1, <1>2, ClaimInvHolds, PTL DEF SessionsSpec, RowInv

\* NodeRegistry, for any number of sessions, node ids and relays: a row that outlives its
\* stream's session was left by one that a later claim superseded, and no row, direct or
\* from a roster, carries a sequence that no client of its node id has applied.
THEOREM RowsNeverMadeUp == SessionsSpec => []RowsAccounted
<1>1. RowInv => RowsAccounted
  BY DEF RowInv
<1> QED
  BY <1>1, RowInvHolds, PTL
=============================================================================
