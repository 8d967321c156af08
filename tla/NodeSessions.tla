---------------------------- MODULE NodeSessions ----------------------------
(***************************************************************************)
(* The node-id claims of the discovery server (server/identity.rs) and the *)
(* rows of the node registry (node_registry.rs), as concurrent sessions    *)
(* open, report and end.  The claim map and the registry have a lock each; *)
(* a session takes them one after the other, and nothing orders the exit   *)
(* of a session with the opening of the one that replaces it.              *)
(*                                                                         *)
(* A row is abstracted to its parent relay, its relay mark, its acked      *)
(* sequence and, as history, the session that inserted it.                 *)
(***************************************************************************)
EXTENDS Naturals, FiniteSets

CONSTANTS
  Sessions,   \* streams accepted over time
  NodeIds,    \* client-chosen node ids
  Idents,     \* identity fingerprints
  Relays,     \* node ids whose streams are authorized to report rosters
  MaxSeq,     \* bound: publish sequences
  Nobody        \* no claim, no row, no parent

ASSUME RelaysAssumption == Relays \subseteq NodeIds
ASSUME SeqAssumption == MaxSeq \in Nat
ASSUME AbsentAssumption == Nobody \notin NodeIds

VARIABLES
  claims,   \* LiveNodeIdentities: the fingerprint and generation of the holder
  nextGen,  \* NEXT_GENERATION
  rows,     \* NodeRegistry.nodes
  spc,      \* where each session is in its life
  sub,      \* its node id, fingerprint and claim generation
  applied,  \* history: the highest sequence the session's client applied
  below     \* history: the highest one a leaf under that node id applied behind a relay

sessionVars == <<claims, nextGen, rows, spc, sub, applied, below>>

Claims == [fp : Idents, gen : Nat]
RegistryRows == [parent : NodeIds \cup {Nobody}, isRelay : {"yes", "no"}, seq : Nat, by : Sessions]

ASSUME NoClaimAssumption == Nobody \notin Claims /\ Nobody \notin RegistryRows

NoSub == [node |-> Nobody, fp |-> Nobody, claim |-> 0]

SessionsTypeOK ==
  /\ claims \in [NodeIds -> Claims \cup {Nobody}]
  /\ nextGen \in Nat \ {0}
  /\ rows \in [NodeIds -> RegistryRows \cup {Nobody}]
  /\ spc \in [Sessions -> {"new", "claimed", "running", "released", "evicting", "done"}]
  /\ sub \in [Sessions -> [node : NodeIds \cup {Nobody}, fp : Idents \cup {Nobody}, claim : Nat]]
  /\ applied \in [Sessions -> Nat]
  /\ below \in [NodeIds -> Nat]

SessionsInit ==
  /\ claims = [n \in NodeIds |-> Nobody]
  /\ nextGen = 1
  /\ rows = [n \in NodeIds |-> Nobody]
  /\ spc = [s \in Sessions |-> "new"]
  /\ sub = [s \in Sessions |-> NoSub]
  /\ applied = [s \in Sessions |-> 0]
  /\ below = [n \in NodeIds |-> 0]

-----------------------------------------------------------------------------
(* Opening *)

\* claim_node_id: granted to a first claimant or to the same identity again.
Grantable(n, fp) == claims[n] # Nobody => claims[n].fp = fp

\* The claim is granted under a fresh generation.
Claim(s, n, fp) ==
  /\ spc[s] = "new"
  /\ Grantable(n, fp)
  /\ claims' = [claims EXCEPT ![n] = [fp |-> fp, gen |-> nextGen]]
  /\ nextGen' = nextGen + 1
  /\ sub' = [sub EXCEPT ![s] = [node |-> n, fp |-> fp, claim |-> nextGen]]
  /\ spc' = [spc EXCEPT ![s] = "claimed"]
  /\ UNCHANGED <<rows, applied, below>>

\* ALREADY_EXISTS: the stream is refused without being registered.
Refuse(s, n, fp) ==
  /\ spc[s] = "new"
  /\ ~Grantable(n, fp)
  /\ spc' = [spc EXCEPT ![s] = "done"]
  /\ UNCHANGED <<claims, nextGen, rows, sub, applied, below>>

\* NodeRegistryHandle::connect: a fresh row replaces any other.
Connect(s) ==
  /\ spc[s] = "claimed"
  /\ rows' = [rows EXCEPT ![sub[s].node] =
                [parent |-> Nobody, isRelay |-> "no", seq |-> 0, by |-> s]]
  /\ spc' = [spc EXCEPT ![s] = "running"]
  /\ UNCHANGED <<claims, nextGen, sub, applied, below>>

-----------------------------------------------------------------------------
(* Reports *)

\* handle_ack or advance_acked_seq: the node's client has applied a world with
\* sequence q; record_ack raises the row of that node id, if there is one.
RecordAck(s, q) ==
  LET n == sub[s].node IN
  /\ spc[s] = "running"
  /\ q > applied[s]
  /\ applied' = [applied EXCEPT ![s] = q]
  /\ rows' = IF rows[n] = Nobody THEN rows
             ELSE [rows EXCEPT ![n].seq = IF q > @ THEN q ELSE @]
  /\ UNCHANGED <<claims, nextGen, spc, sub, below>>

\* The children of relay n.
Children(n) == {c \in NodeIds : rows[c] # Nobody /\ rows[c].parent = n}

\* A directly connected node.
DirectRow(n) == rows[n] # Nobody /\ rows[n].parent = Nobody

\* Mutant: a roster entry displaces a directly connected row.
FoldedDisplacing(n, leaves) == leaves

\* apply_roster: the reported leaves that enter the registry.
Folded(n, leaves) == {c \in leaves : ~DirectRow(c)}

\* A leaf behind a relay applies a world with sequence q: the relay keeps a registry
\* of its own, by the same rules.
LeafApplies(n, q) ==
  /\ q > below[n]
  /\ below' = [below EXCEPT ![n] = q]
  /\ UNCHANGED <<claims, nextGen, rows, spc, sub, applied>>

\* What a relay may say of its leaves: a sequence each of them has reached, which the
\* leaf may have passed since the roster was written.
Rosters(leaves) == {seqs \in [leaves -> 0 .. MaxSeq] : \A c \in leaves : seqs[c] <= below[c]}

\* A RosterReport of an authorized relay: its row is marked, its subtree is
\* replaced with the sequences it reports; a leaf may have been reported by another
\* relay before.
RosterReport(s, leaves, seqs) ==
  LET n == sub[s].node IN
  /\ spc[s] = "running"
  /\ n \in Relays
  /\ rows' = [c \in NodeIds |->
       IF c \in Folded(n, leaves)
       THEN [parent |-> n, isRelay |-> "no", seq |-> seqs[c], by |-> s]
       ELSE IF c \in Children(n) THEN Nobody
       ELSE IF c = n /\ rows[n] # Nobody THEN [rows[n] EXCEPT !.isRelay = "yes"]
       ELSE rows[c]]
  /\ UNCHANGED <<claims, nextGen, spc, sub, applied, below>>

-----------------------------------------------------------------------------
(* Ending *)

\* Mutant: released by identity, whichever session holds the claim.
OwnsByFingerprint(s) ==
  LET c == claims[sub[s].node] IN c # Nobody /\ c.fp = sub[s].fp

\* release_node_id compares the claim generation.
OwnsClaim(s) == LET c == claims[sub[s].node] IN c # Nobody /\ c.gen = sub[s].claim

\* The stream ended and this session still held the claim.
Release(s) ==
  /\ spc[s] = "running"
  /\ OwnsClaim(s)
  /\ claims' = [claims EXCEPT ![sub[s].node] = Nobody]
  /\ spc' = [spc EXCEPT ![s] = "released"]
  /\ UNCHANGED <<nextGen, rows, sub, applied, below>>

\* The stream ended after another session took the claim: nothing is touched.
ReleaseSuperseded(s) ==
  /\ spc[s] = "running"
  /\ ~OwnsClaim(s)
  /\ spc' = [spc EXCEPT ![s] = "done"]
  /\ UNCHANGED <<claims, nextGen, rows, sub, applied, below>>

\* NodeRegistryHandle::disconnect.
Disconnect(s) ==
  /\ spc[s] = "released"
  /\ rows' = [rows EXCEPT ![sub[s].node] = Nobody]
  /\ spc' = [spc EXCEPT ![s] = "evicting"]
  /\ UNCHANGED <<claims, nextGen, sub, applied, below>>

\* Mutant: the subtree of a row that is gone, or was never marked, is not looked for.
EvictChildrenOfMarked(s) ==
  LET n == sub[s].node IN
  /\ spc[s] = "evicting"
  /\ rows' = [c \in NodeIds |-> IF rows[n] # Nobody /\ rows[n].isRelay = "yes" /\ c \in Children(n)
                               THEN Nobody ELSE rows[c]]
  /\ spc' = [spc EXCEPT ![s] = "done"]
  /\ UNCHANGED <<claims, nextGen, sub, applied, below>>

\* NodeRegistryHandle::evict_children.
EvictChildren(s) ==
  /\ spc[s] = "evicting"
  /\ rows' = [c \in NodeIds |-> IF c \in Children(sub[s].node) THEN Nobody ELSE rows[c]]
  /\ spc' = [spc EXCEPT ![s] = "done"]
  /\ UNCHANGED <<claims, nextGen, sub, applied, below>>

OpenSession(s) == (\E n \in NodeIds, fp \in Idents : Claim(s, n, fp) \/ Refuse(s, n, fp)) \/ Connect(s)
Report(s) == (\E q \in 1 .. MaxSeq : RecordAck(s, q))
             \/ (\E leaves \in SUBSET (NodeIds \ Relays) :
                   \E seqs \in Rosters(leaves) : RosterReport(s, leaves, seqs))
SessionExit(s) == Release(s) \/ ReleaseSuperseded(s) \/ Disconnect(s) \/ EvictChildren(s)

SessionsNext ==
  \/ \E s \in Sessions : OpenSession(s) \/ Report(s) \/ SessionExit(s)
  \/ \E n \in NodeIds \ Relays, q \in 1 .. MaxSeq : LeafApplies(n, q)

SessionsSpec == SessionsInit /\ [][SessionsNext]_sessionVars

-----------------------------------------------------------------------------
(* Properties *)

AdmittedSession(s) == spc[s] \in {"claimed", "running"}

\* A session that was superseded has a later claimant of the same node id.
Newest(s) == \A t \in Sessions : sub[t].node = sub[s].node => sub[t].claim <= sub[s].claim

\* No exit takes a claim from under a live session (release_node_id, "the stale
\* session it replaced can never release the new one out from under it"): the
\* newest admitted session of a node id holds its claim until its own exit.
NewestHolds ==
  \A s \in Sessions :
    AdmittedSession(s) /\ Newest(s) => claims[sub[s].node] = [fp |-> sub[s].fp, gen |-> sub[s].claim]

\* No claim outlives its session, so no identity is locked out of its node id
\* for good (every exit path of run_stream releases).
NoStaleClaim ==
  \A n \in NodeIds : claims[n] # Nobody =>
    \E s \in Sessions : AdmittedSession(s) /\ sub[s].node = n /\ sub[s].claim = claims[n].gen

\* Claims are neither stolen nor leaked, whatever the order of claims and exits
\* of overlapping sessions of one node id (identity.rs).
ClaimsExact == NewestHolds /\ NoStaleClaim

\* A direct row ends only with the exit of a session of its own node id; a relay's
\* roster, or the eviction of a relay's subtree, never takes it away (apply_roster,
\* "would evict_children a healthy direct node").
DirectRowEndsByOwnExit ==
  [][\A n \in NodeIds :
       DirectRow(n) /\ ~DirectRow(n)' =>
         \E s \in Sessions : sub[s].node = n /\ spc[s] = "released" /\ spc'[s] = "evicting"]_sessionVars

\* The node id whose stream a row came from: its own, or its relay's.
Reporter(n) == IF rows[n].parent = Nobody THEN n ELSE rows[n].parent

\* The registry leaks in one way only (run_stream, "so the registry stays consistent"):
\* a row was reported over a stream of its own node id or of its relay, and the session
\* of that stream has not finished its exit, or a later claim superseded it.
RowsOwned ==
  \A n \in NodeIds : rows[n] # Nobody =>
    LET s == rows[n].by IN
    sub[s].node = Reporter(n) /\ (spc[s] \in {"running", "released", "evicting"} \/ ~Newest(s))

\* A late Ack may raise the row of a successor (CreditIsOwn below), and a roster may
\* bring a sequence the leaf reached elsewhere, but no acknowledged sequence is made up:
\* some client under that node id has applied it, over a stream of its own (record_ack)
\* or behind a relay (apply_roster).
CreditReal ==
  \A n \in NodeIds : rows[n] # Nobody /\ rows[n].seq > 0 =>
    \/ below[n] >= rows[n].seq
    \/ \E t \in Sessions : sub[t].node = n /\ applied[t] >= rows[n].seq

\* What the rows of the registry can be relied on for, whatever the order of connects,
\* rosters, acknowledgements and exits of overlapping sessions.
RowsAccounted == RowsOwned /\ CreditReal

\* stream.rs:432, a superseded session's exit "would delete the NEW session's live
\* row": the node id of a running session that holds the claim has a direct row.
\* FAILS: the exit releases the claim and deletes the row under two locks.
LiveSessionHasRow ==
  \A s \in Sessions : spc[s] = "running" /\ OwnsClaim(s)
    => DirectRow(sub[s].node)

\* stream.rs:340, "Calls disconnect unconditionally on exit so the registry stays
\* consistent": a row is there only while a session that reports it is. FAILS: a
\* superseded session may insert rows after its successor has gone, and its own
\* exit skips the cleanup.
EveryRowHasSession ==
  \A n \in NodeIds : rows[n] # Nobody =>
    \E s \in Sessions : spc[s] \in {"claimed", "running", "released", "evicting"}
                          /\ sub[s].node = Reporter(n)

\* node_registry.rs:98, "last_acked_seq >= s proves the node's applied snapshot
\* contains every rebuild stamped at sequence <= s": the sequence in a direct row
\* was applied by the client of the session that connected the row. FAILS: a late
\* Ack of a superseded session raises the row of its successor.
CreditIsOwn ==
  \A n \in NodeIds : DirectRow(n) => rows[n].seq <= applied[rows[n].by]

=============================================================================
