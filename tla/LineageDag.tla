----------------------------- MODULE LineageDag -----------------------------
(***************************************************************************)
(* What the lineage graph promises: branches and parent-child edges, never *)
(* a cycle; a branch leaves only when it has no children.                  *)
(***************************************************************************)
EXTENDS Acyclicity

CONSTANT Ids

VARIABLES nodes, edges

lineage == <<nodes, edges>>

Init == nodes = {} /\ edges = {}

AddNode(b) ==
  /\ nodes' = nodes \cup {b}
  /\ UNCHANGED edges

\* An edge that would close a cycle is refused; its ends stay.
AddEdge(p, c) ==
  /\ p # c
  /\ nodes' = nodes \cup {p, c}
  /\ edges' = IF IsAcyclic(nodes', edges \cup {<<p, c>>})
              THEN edges \cup {<<p, c>>} ELSE edges

RemoveNode(b) ==
  /\ b \in nodes
  /\ \A c \in nodes : <<b, c>> \notin edges
  /\ nodes' = nodes \ {b}
  /\ edges' = {e \in edges : e[2] # b}

Next ==
  \/ \E b \in Ids : AddNode(b) \/ RemoveNode(b)
  \/ \E p, c \in Ids : AddEdge(p, c)

Spec == Init /\ [][Next]_lineage
=============================================================================
