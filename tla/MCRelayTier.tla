---------------------------- MODULE MCRelayTier -----------------------------
(* Small instances of the relay tier. *)
EXTENDS RelayTier

CONSTANTS g1, g2, l1, c1, c2

OneLeaf == [l \in {l1} |-> g1]

\* One Gateway in the shared pool, two in the namespace of a namespace relay.
SmallFleet == [t \in Tiers |-> IF t = "shared" THEN {g1} ELSE {g1, g2}]

=============================================================================
