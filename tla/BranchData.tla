----------------------------- MODULE BranchData -----------------------------
(***************************************************************************)
(* What the registry, the snapshots and the collector together promise     *)
(* about the data of a branch: it appears all at once, it is never         *)
(* destroyed before somebody asked for the branch to be discarded, and     *)
(* once destroyed it never comes back.                                     *)
(***************************************************************************)
CONSTANT Branches

VARIABLES
  data,       \* the state of each branch's data
  condemned   \* the branches somebody asked to discard

dataVars == <<data, condemned>>

DataTypeOK ==
  /\ data \in [Branches -> {"absent", "stored", "erased"}]
  /\ condemned \subseteq Branches

DataInit ==
  /\ data = [b \in Branches |-> "absent"]
  /\ condemned = {}

\* The branch becomes visible with all of its data.
PublishData(b) ==
  /\ data[b] = "absent"
  /\ data' = [data EXCEPT ![b] = "stored"]
  /\ UNCHANGED condemned

\* Only a visible branch can be condemned.
Condemn(b) ==
  /\ data[b] # "absent"
  /\ condemned' = condemned \cup {b}
  /\ UNCHANGED data

Erase(b) ==
  /\ b \in condemned /\ data[b] = "stored"
  /\ data' = [data EXCEPT ![b] = "erased"]
  /\ UNCHANGED condemned

DataNext == \E b \in Branches : PublishData(b) \/ Condemn(b) \/ Erase(b)

DataSpec == DataInit /\ [][DataNext]_dataVars
=============================================================================
