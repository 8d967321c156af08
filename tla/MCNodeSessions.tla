--------------------------- MODULE MCNodeSessions ---------------------------
EXTENDS NodeSessions, TLC

Symmetry == Permutations(Sessions) \cup Permutations(Idents)
=============================================================================
