----------------------------- MODULE MCDagStore -----------------------------
(* A small instance of DagStore for TLC. *)
EXTENDS DagStore

CONSTANTS b1, b2, b3, w1, w2, m1, k1, k2

ThreeIds      == {b1, b2, b3}
TwoWorkspaces == {w1, w2}
OneCursor     == {m1}
TwoClients    == {k1, k2}

\* Branch ids, workspaces and clients are interchangeable.
Symmetry == Permutations(ThreeIds) \cup Permutations(TwoWorkspaces) \cup Permutations(TwoClients)
=============================================================================
