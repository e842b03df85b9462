--------------------------- MODULE MCDagQueries ---------------------------
(* Small instances of DagGraph and DagQueries for TLC. *)
EXTENDS DagQueries

CONSTANTS b1, b2, b3, b4, t1

FourIds  == {b1, b2, b3, b4}
OneAsker == {t1}

\* Branch ids are interchangeable.
Symmetry == Permutations(FourIds)
=============================================================================
