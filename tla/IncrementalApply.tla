-------------------------- MODULE IncrementalApply --------------------------
(***************************************************************************)
(* How a proxy applies a discovery message (coxswain-discovery apply.rs).  *)
(* The message is staged, checked, and compiled only where it differs from *)
(* the cache: a route partition is recompiled when its resource or an      *)
(* endpoint it references changed, and spliced from the live table         *)
(* otherwise; a per-port cell is rebuilt as a whole when something of it   *)
(* changed.  The cache outlives sessions and has to agree with the cells.  *)
(*                                                                         *)
(* A resource is a record of the endpoints it references and a body that   *)
(* says what its compilation yields: rules, rules of which one is shadowed *)
(* (a conflict to report), none at all, or an error.                       *)
(***************************************************************************)
EXTENDS FiniteSets, Naturals

CONSTANTS
  Partitions,  \* keys of route partitions
  TableOf,     \* the table of each: [Partitions -> Tables]
  CellKeys,    \* keys of resources in per-port cells
  CellOf,      \* the cell of each: [CellKeys -> PortCells]
  EndpointIds, \* keys of endpoints
  Forms,       \* what each key may carry: [ResourceKeys -> set of resources]
  Missing         \* the key is not in the world

Tables == {TableOf[p] : p \in Partitions}
PortCells == {CellOf[k] : k \in CellKeys}
ResourceKeys == Partitions \cup CellKeys \cup EndpointIds

ASSUME FormsAssumption ==
  /\ Missing \notin UNION {Forms[k] : k \in ResourceKeys}
  /\ \A p \in Partitions \cup CellKeys : \A f \in Forms[p] : f.refs \subseteq EndpointIds

VARIABLES
  committed,  \* the committed resources: [ResourceKeys -> resource or Missing]
  index,      \* ep_index: who references an endpoint, [EndpointIds -> SUBSET keys]
  tables,     \* live route tables: routers by partition, and reported conflicts
  cells,      \* live per-port cells: [CellKeys -> compiled or Missing]
  hasFull,    \* a full snapshot was applied since the process started
  expectFull  \* the next message of the session must be full

applyVars == <<committed, index, tables, cells, hasFull, expectFull>>

ApplyInit ==
  /\ committed = [k \in ResourceKeys |-> Missing]
  /\ index = [e \in EndpointIds |-> {}]
  /\ tables = [routers |-> [p \in Partitions |-> Missing], conflicts |-> {}]
  /\ cells = [k \in CellKeys |-> Missing]
  /\ hasFull = "no"
  /\ expectFull = "yes"

-----------------------------------------------------------------------------
(* Compiling one resource of a world. *)

Held(w, keys) == {k \in keys : w[k] # Missing}

\* Every endpoint of the staged world is resolved, referenced or not.
PoolBuilds(w) == \A e \in Held(w, EndpointIds) : w[e].body # "bad"

\* bg_from_wire: a reference to an endpoint that is not there, or a bad body.
Compiles(w, k) == w[k].body # "bad" /\ \A e \in w[k].refs : w[e] # Missing

Compiled(w, k) == [body |-> w[k].body, pool |-> [e \in w[k].refs |-> w[e].body]]

\* A partition whose routes come to no rule is not installed.
Router(w, p) == IF w[p] = Missing \/ w[p].body = "empty" THEN Missing ELSE Compiled(w, p)
Shadows(w, p) == w[p] # Missing /\ w[p].body = "shadowing"

-----------------------------------------------------------------------------
(* The phases of apply_message, for a message that leads to world w. *)

RefsOf(w) == [e \in EndpointIds |-> {k \in Held(w, Partitions \cup CellKeys) : e \in w[k].refs}]

\* changed_or_removed_endpoints.
ChangedEndpoints(w) == {e \in EndpointIds : w[e] # committed[e]}

\* endpoint_dirty_targets: who referenced a changed endpoint before, or does now.
EndpointDirty(w) == UNION {index[e] \cup RefsOf(w)[e] : e \in ChangedEndpoints(w)}

\* Mutant: the removal is checked against the committed index.
RemovalsUnreferencedBefore(w) ==
  \A e \in Held(committed, EndpointIds) : w[e] = Missing => index[e] = {}

\* validate_removed_endpoints_unreferenced, which only a delta goes through.
RemovalsUnreferenced(w) ==
  \A e \in Held(committed, EndpointIds) : w[e] = Missing => RefsOf(w)[e] = {}

\* rebuild_route_table: a changed resource, a changed endpoint, or not compiled yet.
DirtyPartitions(w) ==
  LET epDirty == EndpointDirty(w)
  IN {p \in Held(w, Partitions) :
        w[p] # committed[p] \/ p \in epDirty \/ tables.routers[p] = Missing}

\* A table is stored when a partition of it is dirty or was removed.
RestoredTables(w) ==
  {TableOf[p] : p \in DirtyPartitions(w) \cup (Held(committed, Partitions) \ Held(w, Partitions))}

\* The assembled tables: dirty partitions from the fresh table, clean ones spliced
\* from the live one, each with its conflicts; a table without a change is kept.
Spliced(w) ==
  LET fresh == DirtyPartitions(w)
      restored == RestoredTables(w)
      live == {p \in Partitions : TableOf[p] \notin restored \/ p \in Held(w, Partitions) \ fresh}
  IN [routers |-> [p \in Partitions |->
        IF p \in live THEN tables.routers[p] ELSE IF p \in fresh THEN Router(w, p) ELSE Missing],
      conflicts |-> (tables.conflicts \cap live) \cup {p \in fresh : Shadows(w, p)}]

\* Mutant: a full snapshot touches only the cells it carries resources of.
TouchedByPresence(full, msg) == {CellOf[k] : k \in CellKeys \cap msg}

\* StagedDirty: a full touches every cell, a delta those of its keys.
Touched(full, msg) == IF full = "yes" THEN PortCells ELSE {CellOf[k] : k \in CellKeys \cap msg}

\* The cells rebuilt as a whole.
RebuiltCells(full, msg, w) ==
  {CellOf[k] : k \in CellKeys \cap EndpointDirty(w)}
    \cup {c \in Touched(full, msg) : \E k \in CellKeys : CellOf[k] = c /\ w[k] # committed[k]}

\* Everything that has to be compiled again compiles.
CompileSucceeds(full, msg, w) ==
  /\ PoolBuilds(w)
  /\ \A p \in DirtyPartitions(w) : Compiles(w, p)
  /\ \A k \in Held(w, CellKeys) : CellOf[k] \in RebuiltCells(full, msg, w) => Compiles(w, k)

\* apply_message takes the message: the first of a session is full, a delta's
\* removals are unreferenced, the version it claims is the staged world's, and the
\* world is the committed one or compiles.
Accepts(full, msg, w, claimed) ==
  /\ full = "yes" \/ expectFull = "no"
  /\ full = "yes" \/ RemovalsUnreferenced(w)
  /\ claimed = "right"
  /\ (hasFull = "yes" /\ w = committed) \/ CompileSucceeds(full, msg, w)

\* Phase D: the cache is swapped and the rebuilt tables and cells are stored.
Commit(full, msg, w) ==
  /\ committed' = w
  /\ index' = RefsOf(w)
  /\ tables' = Spliced(w)
  /\ cells' = [k \in CellKeys |->
                 IF CellOf[k] \notin RebuiltCells(full, msg, w) THEN cells[k]
                 ELSE IF w[k] = Missing THEN Missing ELSE Compiled(w, k)]
  /\ hasFull' = "yes"

-----------------------------------------------------------------------------
(* Messages. *)

\* The worlds the server may send next: at most two resources differ (a bound).
NextForms(k) == Forms[k] \cup {Missing}
Nearby ==
  UNION {{[committed EXCEPT ![c[1]] = f, ![c[2]] = g] : f \in NextForms(c[1]), g \in NextForms(c[2])} :
           c \in ResourceKeys \X ResourceKeys}

\* The keys a message names: all a full carries; the upserts and tombstones of a
\* delta, among them any resource that has not changed, or is not held.
Named(full, w) ==
  IF full = "yes" THEN {Held(w, ResourceKeys)}
  ELSE {{k \in ResourceKeys : w[k] # committed[k]} \cup extra : extra \in {{}, CellKeys}}

\* A message is applied, or refused with the cache and every cell untouched.
Apply(full, w, claimed) ==
  \E msg \in Named(full, w) :
    IF Accepts(full, msg, w, claimed)
    THEN /\ IF hasFull = "yes" /\ w = committed
            THEN UNCHANGED <<committed, index, tables, cells, hasFull>>
            ELSE Commit(full, msg, w)
         /\ expectFull' = "no"
    ELSE UNCHANGED applyVars

ApplyFull == \E w \in Nearby : Apply("yes", w, "right")
ApplyDelta == \E w \in Nearby : Apply("no", w, "right")

\* A message whose version does not fit the staged world.
ApplyMismatched == \E full \in {"yes", "no"}, w \in Nearby : Apply(full, w, "wrong")

\* The stream is replaced: the cache stays, the baseline of the server does not.
Reconnect ==
  /\ expectFull = "no"
  /\ expectFull' = "yes"
  /\ UNCHANGED <<committed, index, tables, cells, hasFull>>

ApplyNext == ApplyFull \/ ApplyDelta \/ ApplyMismatched \/ Reconnect

ApplySpec == ApplyInit /\ [][ApplyNext]_applyVars

-----------------------------------------------------------------------------
(* Properties *)

\* Compiling a world from nothing.
Sound(w) == PoolBuilds(w) /\ \A k \in Held(w, Partitions \cup CellKeys) : Compiles(w, k)

\* "cache = cells = last Acked" (ResourceCache): however many messages were applied
\* in part and refused in between, the live tables with their conflicts and the
\* live cells are what compiling the cached world from nothing would give.
CellsFollowCache ==
  hasFull = "yes" =>
    /\ Sound(committed)
    /\ tables = [routers |-> [p \in Partitions |-> Router(committed, p)],
                 conflicts |-> {p \in Partitions : Shadows(committed, p)}]
    /\ cells = [k \in CellKeys |-> IF committed[k] = Missing THEN Missing ELSE Compiled(committed, k)]

\* A delta is as good as a full (invariant 6, Nack and resync): a world that would be
\* taken as a full snapshot is taken as a delta and the other way round, so a Nacked
\* delta is not resent for ever, and a world taken as a delta is not lost with
\* the next session.
DeltaAsGoodAsFull ==
  hasFull = "yes" /\ expectFull = "no" =>
    \A w \in Nearby :
      \A msg \in Named("no", w) : Accepts("no", msg, w, "right") <=> Sound(w)
=============================================================================
