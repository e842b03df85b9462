------------------------------ MODULE DagGraph ------------------------------
(***************************************************************************)
(* DagGraph: the lineage of the branches in memory, a petgraph DiGraph and *)
(* a map from branch ids to its node indices, behind one lock.             *)
(*                                                                         *)
(* petgraph keeps its nodes in a vector: removing one moves the last node  *)
(* into the hole.  The map is not told.                                    *)
(***************************************************************************)
EXTENDS Naturals, Sequences, Acyclicity

CONSTANTS
  Ids,          \* branch ids
  MaxEdges,     \* bound on the edges ever added
  MaxRemovals   \* bound on the removals

ASSUME GraphAssumption == MaxEdges \in Nat /\ MaxRemovals \in Nat

VARIABLES
  weights,    \* graph: the branch id of each node, by slot
  links,      \* graph: edges <<slot, slot, age>>
  index,      \* node_index: the slot of a branch, or 0
  inserted,   \* history: number of edges ever added, the age of the newest
  removals,   \* history: number of nodes ever removed, to bound them
  moved       \* history: some removal moved the node of another branch

graphVars == <<weights, links, index, inserted, removals, moved>>

Slots    == DOMAIN weights
Adjacent == {<<l[1], l[2]>> : l \in links}

Init ==
  /\ weights = <<>>
  /\ links = {}
  /\ index = [b \in Ids |-> 0]
  /\ inserted = 0
  /\ removals = 0
  /\ moved = FALSE

-----------------------------------------------------------------------------
\* A graph with a node for b.
EnsureOrInsert(g, b) ==
  IF g.index[b] # 0 THEN g
  ELSE [weights |-> Append(g.weights, b),
        index   |-> [g.index EXCEPT ![b] = Len(g.weights) + 1]]

Graph == [weights |-> weights, index |-> index]

AddNode(b) ==
  /\ weights' = EnsureOrInsert(Graph, b).weights
  /\ index' = EnsureOrInsert(Graph, b).index
  /\ UNCHANGED <<links, inserted, removals, moved>>

\* Mutant: the edge is left in place when it closes a cycle.
AcceptsAll(w, s, t) ==
  /\ s \in 1..Len(w) /\ t \in 1..Len(w)
  /\ <<s, t>> \notin Adjacent

\* Whether the graph has one edge more afterwards: a duplicate is not added, a
\* slot that does not exist is a panic of petgraph, a cycle undoes the edge.
Accepts(w, s, t) ==
  /\ s \in 1..Len(w) /\ t \in 1..Len(w)
  /\ <<s, t>> \notin Adjacent
  /\ IsAcyclic(1..Len(w), Adjacent \cup {<<s, t>>})

\* Mutant: the slots are looked up before the nodes are inserted.
LinkEarly(p, c, g) ==
  IF Accepts(g.weights, g.index[p], g.index[c])
  THEN /\ links' = links \cup {<<index[p], index[c], inserted + 1>>}
       /\ inserted' = inserted + 1
  ELSE UNCHANGED <<links, inserted>>

Link(p, c, g) ==
  IF Accepts(g.weights, g.index[p], g.index[c])
  THEN /\ links' = links \cup {<<g.index[p], g.index[c], inserted + 1>>}
       /\ inserted' = inserted + 1
  ELSE UNCHANGED <<links, inserted>>

\* add_edge, add_edge_meta.  A branch is never its own parent: that is refused
\* before anything is done.
AddEdge(p, c) ==
  LET g == EnsureOrInsert(EnsureOrInsert(Graph, p), c) IN
  /\ p # c
  /\ inserted < MaxEdges
  /\ weights' = g.weights
  /\ index' = g.index
  /\ Link(p, c, g)
  /\ UNCHANGED <<removals, moved>>

-----------------------------------------------------------------------------
\* petgraph's Graph::remove_node: the last node takes the place of the removed one.
DropSlot(s) ==
  LET last == Len(weights)
      Renamed(t) == IF t = last THEN s ELSE t IN
  /\ weights' = [t \in 1..(last - 1) |-> IF t = s THEN weights[last] ELSE weights[t]]
  /\ links' = {<<Renamed(l[1]), Renamed(l[2]), l[3]>> :
                 l \in {m \in links : m[1] # s /\ m[2] # s}}

\* Mutant: a branch with children is removed as well.
NoChildrenUnchecked(s) == TRUE

NoChildren(s) == \A l \in links : l[1] # s

\* Mutant: the map keeps the removed branch.
ForgetNot(b) == index' = index

Forget(b) == index' = [index EXCEPT ![b] = 0]

RemoveNode(b) ==
  /\ removals < MaxRemovals
  /\ index[b] # 0
  /\ NoChildren(index[b])
  /\ IF index[b] \in Slots
     THEN /\ DropSlot(index[b])
          /\ moved' = (moved \/ index[b] # Len(weights))
     ELSE UNCHANGED <<weights, links, moved>>
  /\ Forget(b)
  /\ removals' = removals + 1
  /\ UNCHANGED inserted

Next ==
  \/ \E b \in Ids : AddNode(b) \/ RemoveNode(b)
  \/ \E p, c \in Ids : AddEdge(p, c)

Spec == Init /\ [][Next]_graphVars

-----------------------------------------------------------------------------
(* Properties.                                                             *)

\* The map and the graph have their types, and edges join nodes that exist.
TypeOK ==
  /\ weights \in Seq(Ids)
  /\ index \in [Ids -> Nat]
  /\ inserted \in Nat /\ removals \in Nat /\ moved \in BOOLEAN
  /\ \A l \in links : l[1] \in Slots /\ l[2] \in Slots

\* No sequence of calls closes a cycle, not even one that goes through slots
\* the map has wrong: add_edge undoes an edge that would.
NoCycle == IsAcyclic(Slots, Adjacent)

\* Until a removal moves another branch's node, the map and the graph describe
\* the same branches: each has one node, and the map finds it.
IndexAgrees ==
  ~ moved =>
    /\ \A b \in Ids : index[b] # 0 => index[b] \in Slots /\ weights[index[b]] = b
    /\ \A s \in Slots : index[weights[s]] = s

Lineage == INSTANCE LineageDag WITH
  nodes <- {weights[s] : s \in Slots},
  edges <- {<<weights[l[1]], weights[l[2]]>> : l \in links}

\* Until then the graph is the lineage it was asked to be: it implements LineageDag.
ImplementsLineage ==
  Lineage!Init /\ [][~ moved' => [Lineage!Next]_Lineage!lineage]_graphVars
=============================================================================
