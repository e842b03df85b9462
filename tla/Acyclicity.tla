----------------------------- MODULE Acyclicity -----------------------------
(* Acyclic directed graphs, without recursion.                             *)

\* Every non-empty set of vertices has one without a predecessor in the set.
\* For a finite V this says that the edges E contain no cycle within V.
IsAcyclic(V, E) ==
  \A S \in SUBSET V : S # {} => \E s \in S : \A t \in S : <<t, s>> \notin E
=============================================================================
