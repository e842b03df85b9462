------------------------- MODULE MCBranchLifecycle -------------------------
(* Small instances of BranchLifecycle for TLC. *)
EXTENDS BranchLifecycle, TLC

CONSTANTS b1, b2, b3, b4, c1, c2, name, trunk, scheduler

TwoBranches  == {b1, b2}
FourBranches == {b1, b2, b3, b4}
OneClient    == {c1}
TwoClients   == {c1, c2}
OneName      == {name}

\* The operations of each question asked of the model.
ForkOps    == {"fork", "archive", "abort"}
PairOps    == {"fork", "discard", "archive", "restore", "purge", "write"}
ReclaimOps == {"fork", "activate", "deactivate", "discard", "purge"}
\* The whole alphabet of transitions, for the claims that fail.
StatusOps  == {"fork", "activate", "deactivate", "discard", "archive", "restore", "gc", "write"}

\* Ids and clients are interchangeable.
Symmetry2 == Permutations(TwoBranches) \cup Permutations(TwoClients)
Symmetry4 == Permutations(FourBranches) \cup Permutations(TwoClients)
=============================================================================
