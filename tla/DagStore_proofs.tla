--------------------------- MODULE DagStore_proofs ---------------------------
(***************************************************************************)
(* Proofs about DagStore, for any branches, workspaces, clients and number *)
(* of calls.                                                               *)
(***************************************************************************)
EXTENDS DagStore, FiniteSetTheorems, TLAPS

\* A call under way is a delete of a branch or a load of a workspace.
JobOK ==
  /\ job \in [Clients -> [step : {"free"}] \cup [step : {"node"}, of : Ids]
                           \cup [step : {"edges"}, of : Workspaces, nodes : SUBSET Ids]]

IInv == StoreTypeOK /\ JobOK

LEMMA InitEstablishes == Init => IInv
<1> SUFFICES ASSUME Init PROVE IInv
  OBVIOUS
<1>1. StoreTypeOK
  BY DEF Init, StoreTypeOK, Pairs
<1>2. JobOK
  BY DEF Init, JobOK, Free
<1> QED
  BY <1>1, <1>2 DEF IInv

LEMMA StepKeepsTables ==
  ASSUME IInv, [Next]_vars
  PROVE  StoreTypeOK'
<1> USE DEF IInv, StoreTypeOK, Pairs
<1>1. ASSUME NEW c \in Clients, NEW b \in Ids, DeleteEdges(c, b)
      PROVE  StoreTypeOK'
  BY <1>1 DEF DeleteEdges, Call, EdgesAt
<1>2. ASSUME NEW c \in Clients, NEW b \in Ids, NEW w \in Workspaces, SaveNode(c, b, w)
      PROVE  StoreTypeOK'
  BY <1>2, StoreAssumption DEF SaveNode, Call
<1>3. ASSUME NEW c \in Clients, NEW p \in Ids, NEW d \in Ids, SaveEdge(c, p, d)
      PROVE  StoreTypeOK'
  BY <1>3 DEF SaveEdge, Call
<1>4. ASSUME NEW c \in Clients, NEW p \in Ids, NEW d \in Ids, NEW to \in Cursors,
             UpdateEdgeCursor(c, p, d, to)
      PROVE  StoreTypeOK'
  BY <1>4 DEF UpdateEdgeCursor, Call
<1>5. ASSUME NEW c \in Clients, NEW w \in Workspaces, LoadNodes(c, w)
      PROVE  StoreTypeOK'
  BY <1>5 DEF LoadNodes, tables
<1>6. ASSUME NEW c \in Clients, DeleteRow(c)
      PROVE  StoreTypeOK'
  <2>1. job[c].of \in Ids
    BY <1>6 DEF DeleteRow, JobOK
  <2>2. workspace' \in [Ids -> Workspaces \cup {Nowhere}]
    BY <1>6 DEF DeleteRow
  <2>3. ASSUME NEW e \in edges
        PROVE  workspace'[e[1]] = workspace[e[1]] /\ workspace'[e[2]] = workspace[e[2]]
    BY <1>6, <2>1, <2>3 DEF DeleteRow, EdgesAt
  <2> QED
    BY <1>6, <2>2, <2>3 DEF DeleteRow
<1>7. ASSUME NEW c \in Clients, LoadEdges(c)
      PROVE  StoreTypeOK'
  BY <1>7 DEF LoadEdges, tables
<1>8. ASSUME NEW c \in Clients, Drop(c)
      PROVE  StoreTypeOK'
  BY <1>8 DEF Drop, tables
<1>9. CASE UNCHANGED vars
  BY <1>9 DEF vars, tables
<1> QED
  BY <1>1, <1>2, <1>3, <1>4, <1>5, <1>6, <1>7, <1>8, <1>9 DEF Next

LEMMA StepKeepsJobs ==
  ASSUME IInv, [Next]_vars
  PROVE  JobOK'
<1> USE DEF IInv, JobOK, Free
<1>1. ASSUME NEW c \in Clients, NEW b \in Ids, DeleteEdges(c, b)
      PROVE  JobOK'
  BY <1>1 DEF DeleteEdges
<1>2. ASSUME NEW c \in Clients, NEW w \in Workspaces, LoadNodes(c, w)
      PROVE  JobOK'
  BY <1>2 DEF LoadNodes, NodesOf
<1>3. ASSUME NEW c \in Clients, DeleteRow(c) \/ LoadEdges(c) \/ Drop(c)
      PROVE  JobOK'
  BY <1>3 DEF DeleteRow, LoadEdges, Drop
<1>4. ASSUME NEW c \in Clients, NEW b \in Ids, NEW w \in Workspaces, SaveNode(c, b, w)
      PROVE  JobOK'
  BY <1>4 DEF SaveNode
<1>5. ASSUME NEW c \in Clients, NEW p \in Ids, NEW d \in Ids, SaveEdge(c, p, d)
      PROVE  JobOK'
  BY <1>5 DEF SaveEdge
<1>6. ASSUME NEW c \in Clients, NEW p \in Ids, NEW d \in Ids, NEW to \in Cursors,
             UpdateEdgeCursor(c, p, d, to)
      PROVE  JobOK'
  BY <1>6 DEF UpdateEdgeCursor
<1>7. CASE UNCHANGED vars
  BY <1>7 DEF vars
<1> QED
  BY <1>1, <1>2, <1>3, <1>4, <1>5, <1>6, <1>7 DEF Next

\* The tables keep their types and the foreign keys hold, however the statements
\* of deletes and those of other calls interleave.
THEOREM StoreTyped == Spec => []StoreTypeOK
<1>1. IInv /\ [Next]_vars => IInv'
  BY StepKeepsTables, StepKeepsJobs DEF IInv
<1>2. IInv => StoreTypeOK
  BY DEF IInv
<1> QED
  BY InitEstablishes, <1>1, <1>2, PTL DEF Spec

\* No step forgets the cursor of an edge that stays.
LEMMA StepKeepsCursors ==
  ASSUME IInv, [Next]_vars, NEW e \in edges \cap edges', cursor'[e] # cursor[e]
  PROVE  \E c \in Clients, to \in Cursors : UpdateEdgeCursor(c, e[1], e[2], to)
<1>0. e \in Pairs /\ e = <<e[1], e[2]>> /\ e[1] \in Ids /\ e[2] \in Ids
  BY DEF IInv, StoreTypeOK, Pairs
<1>1. ASSUME NEW c \in Clients, NEW b \in Ids, DeleteEdges(c, b)
      PROVE  FALSE
  <2>1. b \notin {e[1], e[2]}
    BY <1>1 DEF DeleteEdges, EdgesAt
  <2> QED
    BY <1>0, <1>1, <2>1 DEF DeleteEdges
<1>2. ASSUME NEW c \in Clients, NEW p \in Ids, NEW d \in Ids, NEW to \in Cursors,
             UpdateEdgeCursor(c, p, d, to)
      PROVE  \E k \in Clients, t \in Cursors : UpdateEdgeCursor(k, e[1], e[2], t)
  <2>1. <<p, d>> = e
    BY <1>0, <1>2 DEF UpdateEdgeCursor, IInv, StoreTypeOK
  <2> QED
    BY <1>0, <1>2, <2>1
<1>3. ASSUME NEW c \in Clients,
             \/ \E b \in Ids, w \in Workspaces : SaveNode(c, b, w)
             \/ \E p, d \in Ids : SaveEdge(c, p, d)
             \/ \E w \in Workspaces : LoadNodes(c, w)
             \/ DeleteRow(c) \/ LoadEdges(c) \/ Drop(c)
      PROVE  FALSE
  BY <1>3 DEF SaveNode, SaveEdge, LoadNodes, DeleteRow, LoadEdges, Drop, tables
<1>4. CASE UNCHANGED vars
  BY <1>4 DEF vars, tables
<1> QED
  BY <1>1, <1>2, <1>3, <1>4 DEF Next

\* A merge cursor that was stored stays for as long as its edge does, until another
\* one is stored: saving the edge again does not reset it.
THEOREM CursorsKept == Spec => CursorKept
<1>1. IInv /\ [Next]_vars => IInv'
  BY StepKeepsTables, StepKeepsJobs DEF IInv
<1>2. IInv /\ [Next]_vars =>
        [\A e \in edges \cap edges' :
           cursor'[e] # cursor[e] => \E c \in Clients, to \in Cursors :
                                        UpdateEdgeCursor(c, e[1], e[2], to)]_vars
  BY StepKeepsCursors
<1> QED
  BY InitEstablishes, <1>1, <1>2, PTL DEF Spec, CursorKept

-----------------------------------------------------------------------------
(* The graph a load makes of the edges it read.                            *)

LEMMA SmallestOne ==
  ASSUME NEW M \in SUBSET Nat, M # {}
  PROVE  \E m \in M : \A n \in M : m <= n
<1>1. PICK m \in M : \A n \in M : ~ (<<n, m>> \in OpToRel(<, Nat))
  BY NatLessThanWellFounded, WFMin
<1>2. \A n \in M : ~ (n < m)
  BY <1>1, Zenon DEF OpToRel
<1> QED
  BY <1>2

\* Fewer edges make no cycle.
LEMMA FewerEdges ==
  ASSUME NEW V, NEW E, NEW F \in SUBSET E, IsAcyclic(V, E)
  PROVE  IsAcyclic(V, F)
BY DEF IsAcyclic

\* Vertices without edges make no cycle either.
LEMMA MoreVertices ==
  ASSUME NEW W, NEW V \in SUBSET W, NEW E \in SUBSET (V \X V)
  PROVE  IsAcyclic(V, E) <=> IsAcyclic(W, E)
<1>1. ASSUME IsAcyclic(V, E), NEW S \in SUBSET W, S # {}
      PROVE  \E s \in S : \A t \in S : <<t, s>> \notin E
  <2>1. CASE S \cap V = {}
    <3>1. PICK s \in S : s \notin V
      BY <1>1, <2>1
    <3> QED BY <3>1
  <2>2. CASE S \cap V # {}
    <3>1. PICK s \in S \cap V : \A t \in S \cap V : <<t, s>> \notin E
      BY <1>1, <2>2 DEF IsAcyclic
    <3> QED BY <3>1
  <2> QED BY <2>1, <2>2
<1>2. IsAcyclic(W, E) => IsAcyclic(V, E)
  BY DEF IsAcyclic
<1> QED
  BY <1>1, <1>2 DEF IsAcyclic

\* The edges among the first i of an order.
Prefix(order, i) == {order[j] : j \in 1..i}

\* The ends of a set of edges.
Ends(E) == {e[1] : e \in E} \cup {e[2] : e \in E}

\* What adding the first i edges must have made: the edges and their ends, or an
\* error if these have a cycle.
Made(g, nodes, order, i) ==
  IF IsAcyclic(Ids, Prefix(order, i))
  THEN g = [answer |-> "graph", nodes |-> nodes \cup Ends(Prefix(order, i)),
            edges |-> Prefix(order, i)]
  ELSE g.answer = "cycle"

\* One more edge.
LEMMA PrefixGrows ==
  ASSUME NEW order, NEW i \in Nat, i > 0
  PROVE  /\ Prefix(order, i) = Prefix(order, i - 1) \cup {order[i]}
         /\ Ends(Prefix(order, i)) =
              Ends(Prefix(order, i - 1)) \cup {order[i][1], order[i][2]}
<1>1. 1..i = (1..(i - 1)) \cup {i}
  OBVIOUS
<1>2. Prefix(order, i) = Prefix(order, i - 1) \cup {order[i]}
  BY <1>1 DEF Prefix
<1> QED
  BY <1>2 DEF Ends

\* add_edge_meta keeps to what must be made.
LEMMA AddMakes ==
  ASSUME NEW g, NEW nodes, NEW order, NEW i \in Nat, i > 0, Made(g, nodes, order, i - 1)
  PROVE  Made(AddEdgeMeta(g, order[i]), nodes, order, i)
<1> DEFINE P == Prefix(order, i - 1)
           Q == Prefix(order, i)
<1>1. /\ Q = P \cup {order[i]} /\ P \subseteq Q
      /\ Ends(Q) = Ends(P) \cup {order[i][1], order[i][2]}
  BY PrefixGrows
<1>2. IsAcyclic(Ids, Q) => IsAcyclic(Ids, P)
  BY <1>1, FewerEdges
<1>3. CASE ~ IsAcyclic(Ids, P)
  <2>1. g.answer = "cycle" /\ ~ IsAcyclic(Ids, Q)
    BY <1>2, <1>3 DEF Made
  <2> QED BY <2>1 DEF Made, AddEdgeMeta
<1>4. CASE IsAcyclic(Ids, P)
  <2>1. g = [answer |-> "graph", nodes |-> nodes \cup Ends(P), edges |-> P]
    BY <1>4 DEF Made
  <2>2. g.answer = "graph" /\ g.edges = P /\ g.nodes = nodes \cup Ends(P)
    BY <2>1
  <2>3. CASE IsAcyclic(Ids, Q)
    <3>1. AddEdgeMeta(g, order[i]) =
            [g EXCEPT !.nodes = g.nodes \cup {order[i][1], order[i][2]},
                      !.edges = g.edges \cup {order[i]}]
      BY <1>1, <2>2, <2>3 DEF AddEdgeMeta
    <3>2. AddEdgeMeta(g, order[i]) =
            [answer |-> "graph", nodes |-> nodes \cup Ends(Q), edges |-> Q]
      BY <1>1, <2>1, <2>2, <3>1
    <3> QED BY <2>3, <3>2 DEF Made
  <2>4. CASE ~ IsAcyclic(Ids, Q)
    <3>1. AddEdgeMeta(g, order[i]).answer = "cycle"
      BY <1>1, <2>2, <2>4 DEF AddEdgeMeta, NoGraph
    <3> QED BY <2>4, <3>1 DEF Made
  <2> QED BY <2>3, <2>4
<1> QED
  BY <1>3, <1>4

\* Adding all the edges makes what must be made of them all.
LEMMA GraphMade ==
  ASSUME NEW nodes, NEW order, Len(order) \in Nat
  PROVE  Made(GraphOf(nodes, order), nodes, order, Len(order))
<1> DEFINE len == Len(order)
           base == [answer |-> "graph", nodes |-> nodes, edges |-> {}]
           Steps(n, g) == /\ g = [i \in 0..n |-> g[i]] /\ g[0] = base
                          /\ \A i \in 1..n : g[i] = AddEdgeMeta(g[i - 1], order[i])
<1> HIDE DEF len
<1>0. len \in Nat
  BY DEF len
<1> HIDE DEF base, Steps
<1>1. \A n \in 0..len : \E g : Steps(n, g)
  <2> DEFINE M == {k \in 0..len : ~ \E g : Steps(k, g)}
  <2> SUFFICES ASSUME M # {} PROVE FALSE
    OBVIOUS
  <2>1. M \in SUBSET Nat
    BY <1>0
  <2>2. PICK m \in M : \A k \in M : m <= k
    BY <2>1, SmallestOne
  <2>3. m # 0
    <3>1. Steps(0, [i \in 0..0 |-> base])
      BY DEF Steps
    <3> QED
      BY <2>2, <3>1
  <2>4. m - 1 \in 0..len /\ m \in 1..len /\ ~ (m <= m - 1)
    BY <1>0, <2>2, <2>3
  <2>5. PICK g : Steps(m - 1, g)
    BY <2>2, <2>4
  <2>6. \E h : Steps(m, h)
    <3> DEFINE h == [i \in 0..m |-> IF i = m THEN AddEdgeMeta(g[m - 1], order[m]) ELSE g[i]]
    <3>1. h = [i \in 0..m |-> h[i]]
      OBVIOUS
    <3>2. h[0] = base
      BY <2>3, <2>4, <2>5 DEF Steps
    <3>3. \A i \in 1..m : h[i] = AddEdgeMeta(h[i - 1], order[i])
      <4> SUFFICES ASSUME NEW i \in 1..m PROVE h[i] = AddEdgeMeta(h[i - 1], order[i])
        OBVIOUS
      <4>1. i \in 0..m /\ i - 1 \in 0..m /\ i - 1 # m
        BY <2>4
      <4>2. h[i - 1] = g[i - 1]
        BY <4>1
      <4>3. CASE i = m
        BY <4>1, <4>2, <4>3
      <4>4. CASE i # m
        <5>1. i \in 1..(m - 1)
          BY <2>4, <4>4
        <5>2. g[i] = AddEdgeMeta(g[i - 1], order[i])
          BY <2>5, <5>1 DEF Steps
        <5> QED BY <4>1, <4>2, <4>4, <5>2
      <4> QED BY <4>3, <4>4
    <3> HIDE DEF h
    <3> QED
      BY <3>1, <3>2, <3>3 DEF Steps
  <2> QED
    BY <2>2, <2>6
<1>2. PICK g : Steps(len, g)
  BY <1>0, <1>1
<1> DEFINE IsGraph(f) ==
             f = [i \in 0..len |-> IF i = 0 THEN base ELSE AddEdgeMeta(f[i - 1], order[i])]
           graph == CHOOSE f : IsGraph(f)
<1>3. IsGraph(g)
  BY <1>0, <1>2 DEF Steps
<1>4. IsGraph(graph)
  <2>1. \E f : IsGraph(f)
    BY <1>3
  <2> HIDE DEF IsGraph
  <2> QED
    BY <2>1
<1>5. GraphOf(nodes, order) = graph[len]
  BY DEF GraphOf, len, base
<1> HIDE DEF graph
<1>6. graph[0] = base /\ \A i \in 1..len : graph[i] = AddEdgeMeta(graph[i - 1], order[i])
  BY <1>0, <1>4
<1>7. \A n \in 0..len : Made(graph[n], nodes, order, n)
  <2> DEFINE M == {k \in 0..len : ~ Made(graph[k], nodes, order, k)}
  <2> SUFFICES ASSUME M # {} PROVE FALSE
    OBVIOUS
  <2>1. M \in SUBSET Nat
    BY <1>0
  <2>2. PICK m \in M : \A k \in M : m <= k
    BY <2>1, SmallestOne
  <2>3. m # 0
    <3>1. Prefix(order, 0) = {} /\ Ends({}) = {}
      BY DEF Prefix, Ends
    <3>2. IsAcyclic(Ids, {})
      BY DEF IsAcyclic
    <3>3. Made(graph[0], nodes, order, 0)
      BY <1>6, <3>1, <3>2 DEF Made, base
    <3> QED
      BY <2>2, <3>3
  <2>4. m - 1 \in 0..len /\ m \in 1..len /\ ~ (m <= m - 1) /\ m \in Nat /\ m > 0
    BY <1>0, <2>2, <2>3
  <2>5. Made(graph[m - 1], nodes, order, m - 1)
    BY <2>2, <2>4
  <2>6. Made(graph[m], nodes, order, m)
    BY <1>6, <2>4, <2>5, AddMakes
  <2> QED
    BY <2>2, <2>6
<1> QED
  BY <1>0, <1>5, <1>7 DEF len


\* An order lists all edges there are.
LEMMA OrderListsAll ==
  ASSUME NEW E, IsFiniteSet(E), NEW order \in InsertOrders(E)
  PROVE  Len(order) \in Nat /\ Prefix(order, Len(order)) = E
<1> DEFINE n == Cardinality(E)
<1>1. /\ n \in Nat /\ IsFiniteSet(1..n) /\ Cardinality(1..n) = n
  <2>1. n \in Nat
    BY FS_CardinalityType
  <2>2. IsFiniteSet(1..n) /\ Cardinality(1..n) = IF 1 > n THEN 0 ELSE n - 1 + 1
    BY <2>1, FS_Interval
  <2> QED BY <2>1, <2>2
<1>2. order \in [1..n -> E] /\ \A i, j \in 1..n : i # j => order[i] # order[j]
  BY DEF InsertOrders, SetToSeqs
<1>3. Len(order) = n
  BY <1>1, <1>2
<1>4. order \in Injection(1..n, E)
  BY <1>2 DEF Injection, IsInjective
<1>5. order \in Surjection(1..n, E)
  BY <1>1, <1>4, FS_Injection
<1>6. \A e \in E : \E i \in 1..n : order[i] = e
  BY <1>5 DEF Surjection
<1> HIDE DEF n
<1>7. Prefix(order, n) = E
  BY <1>2, <1>6 DEF Prefix
<1> QED
  BY <1>1, <1>3, <1>7

-----------------------------------------------------------------------------
(* Loads between deletes and saves.                                        *)

\* The histories of a load under way: it read branches that were there at some
\* time, and all that were there all the time.
Reading(c) ==
  job[c].step = "edges" =>
    /\ known[c].always \subseteq job[c].nodes
    /\ job[c].nodes \cup NodesOf(job[c].of) \subseteq known[c].ever

\* Behind LoadTruthful: besides, the edges are finitely many.
LoadInv ==
  /\ IInv
  /\ IsFiniteSet(edges)
  /\ known \in [Clients -> [ever : SUBSET Ids, always : SUBSET Ids]]
  /\ loaded = [c \in Clients |-> loaded[c]]
  /\ \A c \in Clients : Reading(c)

\* The histories keep their type and meaning when branches come and go.
LEMMA FollowStep ==
  ASSUME LoadInv, Follow, NEW c \in Clients,
         job'[c] = job[c] \/ job'[c] = Free
  PROVE  /\ known' \in [Clients -> [ever : SUBSET Ids, always : SUBSET Ids]]
         /\ Reading(c)'
<1> DEFINE now(k) == {b \in Ids : workspace'[b] = job[k].of}
<1>1. known' = [k \in Clients |->
                  IF job[k].step = "edges"
                  THEN [ever |-> known[k].ever \cup now(k), always |-> known[k].always \cap now(k)]
                  ELSE known[k]]
  BY DEF Follow
<1>2. known \in [Clients -> [ever : SUBSET Ids, always : SUBSET Ids]] /\ Reading(c)
  BY DEF LoadInv
<1>3. known' \in [Clients -> [ever : SUBSET Ids, always : SUBSET Ids]]
  BY <1>1, <1>2
<1>4. Reading(c)'
  <2> SUFFICES ASSUME job'[c].step = "edges"
               PROVE  /\ known'[c].always \subseteq job'[c].nodes
                      /\ job'[c].nodes \cup {b \in Ids : workspace'[b] = job'[c].of}
                           \subseteq known'[c].ever
    BY DEF Reading, NodesOf
  <2>1. job'[c] = job[c] /\ job[c].step = "edges"
    BY DEF Free
  <2>2. known'[c] = [ever |-> known[c].ever \cup now(c), always |-> known[c].always \cap now(c)]
    BY <1>1, <2>1
  <2>3. known'[c].ever = known[c].ever \cup now(c) /\ known'[c].always = known[c].always \cap now(c)
    BY <2>2
  <2> QED BY <1>2, <2>1, <2>3 DEF Reading
<1> QED
  BY <1>3, <1>4

\* Every step keeps LoadInv.
LEMMA StepKeepsLoads ==
  ASSUME LoadInv, [Next]_vars
  PROVE  LoadInv'
<1>1. IInv'
  BY StepKeepsTables, StepKeepsJobs DEF LoadInv, IInv
<1>2. IsFiniteSet(edges')
  <2>1. IsFiniteSet(edges)
    BY DEF LoadInv
  <2>2. ASSUME NEW c \in Clients, NEW p \in Ids, NEW d \in Ids, SaveEdge(c, p, d)
        PROVE  IsFiniteSet(edges')
    <3>1. IsFiniteSet(edges \cup {<<p, d>>})
      BY <2>1, FS_AddElement
    <3> QED BY <2>1, <2>2, <3>1 DEF SaveEdge
  <2>3. ASSUME edges' \subseteq edges PROVE IsFiniteSet(edges')
    BY <2>1, <2>3, FS_Subset
  <2>4. ASSUME NEW c \in Clients,
               \/ \E b \in Ids : DeleteEdges(c, b) \/ \E w \in Workspaces : SaveNode(c, b, w)
               \/ \E p, d \in Ids, to \in Cursors : UpdateEdgeCursor(c, p, d, to)
               \/ \E w \in Workspaces : LoadNodes(c, w)
               \/ DeleteRow(c) \/ LoadEdges(c) \/ Drop(c)
        PROVE  edges' \subseteq edges
    BY <2>4 DEF DeleteEdges, SaveNode, UpdateEdgeCursor, LoadNodes, DeleteRow, LoadEdges, Drop,
       tables
  <2>5. CASE UNCHANGED vars
    BY <2>3, <2>5 DEF vars, tables
  <2> QED BY <2>2, <2>3, <2>4, <2>5 DEF Next
<1> DEFINE Typed == known \in [Clients -> [ever : SUBSET Ids, always : SUBSET Ids]]
           Shape == loaded = [c \in Clients |-> loaded[c]]
           Good  == Typed' /\ Shape' /\ \A c \in Clients : Reading(c)'
<1>3. /\ Typed /\ Shape /\ \A c \in Clients : Reading(c)
      /\ job \in [Clients -> [step : {"free"}] \cup [step : {"node"}, of : Ids]
                               \cup [step : {"edges"}, of : Workspaces, nodes : SUBSET Ids]]
  BY DEF LoadInv, IInv, JobOK
<1>4. ASSUME NEW k \in Clients, job[k] = Free \/ job[k].step = "node", Follow,
             job' = job \/ job' = [job EXCEPT ![k] = Free], loaded' = loaded
      PROVE  Good
  BY <1>3, <1>4, FollowStep
<1>5. ASSUME workspace' = workspace, NEW k \in Clients,
             loaded' = [loaded EXCEPT ![k] = loaded'[k]],
             \A c \in Clients \ {k} : job'[c] = job[c] /\ known'[c] = known[c],
             Typed', Reading(k)'
      PROVE  Good
  BY <1>3, <1>5 DEF Reading, NodesOf
<1>6. ASSUME NEW k \in Clients, NEW b \in Ids, NEW w \in Workspaces, SaveNode(k, b, w) PROVE Good
  BY <1>4, <1>6 DEF SaveNode, Call
<1>7. ASSUME NEW k \in Clients, DeleteRow(k) PROVE Good
  BY <1>4, <1>7 DEF DeleteRow
<1>8. ASSUME UNCHANGED <<workspace, job, loaded, known>> PROVE Good
  BY <1>3, <1>8 DEF Reading, NodesOf
<1>9. ASSUME NEW k \in Clients, NEW b \in Ids, DeleteEdges(k, b) PROVE Good
  <2>1. Reading(k)'
    BY <1>3, <1>9 DEF DeleteEdges, Reading
  <2> QED BY <1>3, <1>5, <1>9, <2>1 DEF DeleteEdges
<1>10. ASSUME NEW k \in Clients, NEW w \in Workspaces, LoadNodes(k, w) PROVE Good
  <2>1. /\ workspace' = workspace
        /\ job' = [job EXCEPT ![k] = [step |-> "edges", of |-> w, nodes |-> NodesOf(w)]]
        /\ loaded' = [loaded EXCEPT ![k] = NoGraph]
        /\ known' = [known EXCEPT ![k] = [ever |-> NodesOf(w), always |-> NodesOf(w)]]
    BY <1>10 DEF LoadNodes, tables
  <2>2. NodesOf(w) \in SUBSET Ids /\ NodesOf(w)' = NodesOf(w)
    BY <2>1 DEF NodesOf
  <2>3. Typed'
    BY <1>3, <2>1, <2>2
  <2>4. job'[k].nodes = NodesOf(w) /\ job'[k].of = w /\ known'[k].ever = NodesOf(w)
        /\ known'[k].always = NodesOf(w)
    BY <1>3, <2>1
  <2>5. Reading(k)'
    BY <2>1, <2>4 DEF Reading, NodesOf
  <2> QED BY <1>3, <1>5, <2>1, <2>3, <2>5
<1>11. ASSUME NEW k \in Clients, LoadEdges(k) \/ Drop(k) PROVE Good
  <2>1. /\ workspace' = workspace
        /\ job' = [job EXCEPT ![k] = Free] /\ known' = [known EXCEPT ![k] = Nothing]
        /\ loaded' = loaded \/ \E g : loaded' = [loaded EXCEPT ![k] = g]
    BY <1>11 DEF LoadEdges, Drop, tables
  <2>2. loaded' = [loaded EXCEPT ![k] = loaded'[k]]
    BY <1>3, <2>1
  <2>3. Typed'
    BY <1>3, <2>1 DEF Nothing
  <2>4. Reading(k)'
    BY <1>3, <2>1 DEF Reading, Free
  <2> QED BY <1>3, <1>5, <2>1, <2>2, <2>3, <2>4
<1>12. ASSUME NEW k \in Clients, NEW p \in Ids, NEW d \in Ids,
              SaveEdge(k, p, d) \/ \E to \in Cursors : UpdateEdgeCursor(k, p, d, to)
       PROVE  Good
  BY <1>8, <1>12 DEF SaveEdge, UpdateEdgeCursor
<1>13. ASSUME UNCHANGED vars PROVE Good
  BY <1>8, <1>13 DEF vars, tables
<1>14. Good
  BY <1>6, <1>7, <1>9, <1>10, <1>11, <1>12, <1>13 DEF Next
<1> QED
  BY <1>1, <1>2, <1>14 DEF LoadInv


LEMMA LoadInit == Init => LoadInv
<1> SUFFICES ASSUME Init PROVE LoadInv
  OBVIOUS
<1>1. IInv
  BY InitEstablishes
<1>2. edges = {} /\ IsFiniteSet(edges)
  BY FS_EmptySet DEF Init
<1>3. known \in [Clients -> [ever : SUBSET Ids, always : SUBSET Ids]]
  BY DEF Init, Nothing
<1>4. \A c \in Clients : Reading(c)
  BY DEF Init, Free, Reading
<1>5. loaded = [c \in Clients |-> loaded[c]]
  BY DEF Init
<1> QED
  BY <1>1, <1>2, <1>3, <1>4, <1>5 DEF LoadInv

\* What a load of client c must return.
Truthful(c) ==
  LET w      == job[c].of
      here   == {b \in Ids : workspace[b] = w}
      within == {e \in edges : {e[1], e[2]} \subseteq here}
      g      == loaded'[c] IN
  IF IsAcyclic(here, within)
  THEN /\ g.answer = "graph" /\ g.edges = within
       /\ known[c].always \subseteq g.nodes
       /\ g.nodes \subseteq known[c].ever
       /\ \A e \in within : {e[1], e[2]} \subseteq g.nodes
  ELSE g.answer = "cycle"

\* The second statement of a load returns what it must.
LEMMA LoadReturns ==
  ASSUME LoadInv, NEW c \in Clients, LoadEdges(c)
  PROVE  Truthful(c)
<1> DEFINE w      == job[c].of
           here   == NodesOf(w)
           within == Joined(w)
           nodes  == job[c].nodes
           g      == loaded'[c]
<1>1. PICK order \in InsertOrders(within) :
             loaded' = [loaded EXCEPT ![c] = GraphOf(nodes, order)]
  BY DEF LoadEdges
<1>2. g = GraphOf(nodes, order)
  BY <1>1 DEF LoadInv
<1>3. edges \subseteq Ids \X Ids /\ here \subseteq Ids
  BY DEF LoadInv, IInv, StoreTypeOK, Pairs, NodesOf
<1>4. within \subseteq edges /\ within \in SUBSET (here \X here)
  BY <1>3 DEF Joined, NodesOf
<1>5. IsFiniteSet(within)
  BY <1>4, FS_Subset DEF LoadInv
<1>6. within = {e \in edges : {e[1], e[2]} \subseteq {b \in Ids : workspace[b] = w}}
  BY <1>3 DEF Joined
<1>7. /\ known[c].always \subseteq nodes
      /\ nodes \subseteq known[c].ever /\ here \subseteq known[c].ever
  BY DEF LoadEdges, LoadInv, Reading
<1>8. IsAcyclic(here, within) <=> IsAcyclic(Ids, within)
  BY <1>3, <1>4, MoreVertices
<1> HIDE DEF within, g, nodes
<1>9. Len(order) \in Nat /\ Prefix(order, Len(order)) = within
  BY <1>5, OrderListsAll
<1>10. Made(g, nodes, order, Len(order))
  BY <1>2, <1>9, GraphMade
<1>11. CASE IsAcyclic(here, within)
  <2>1. g = [answer |-> "graph", nodes |-> nodes \cup Ends(within), edges |-> within]
    BY <1>8, <1>9, <1>10, <1>11 DEF Made
  <2>2. g.answer = "graph" /\ g.nodes = nodes \cup Ends(within) /\ g.edges = within
    BY <2>1
  <2>3. Ends(within) \subseteq here /\ \A e \in within : {e[1], e[2]} \subseteq Ends(within)
    BY <1>4 DEF Ends
  <2>4. /\ g.answer = "graph" /\ g.edges = within
        /\ known[c].always \subseteq g.nodes /\ g.nodes \subseteq known[c].ever
        /\ \A e \in within : {e[1], e[2]} \subseteq g.nodes
    BY <1>7, <2>2, <2>3
  <2> QED BY <1>6, <1>11, <2>4 DEF Truthful, NodesOf, g
<1>12. CASE ~ IsAcyclic(here, within)
  <2>1. g.answer = "cycle"
    BY <1>8, <1>9, <1>10, <1>12 DEF Made
  <2> QED BY <1>6, <1>12, <2>1 DEF Truthful, NodesOf, g
<1> QED
  BY <1>11, <1>12

\* A load answers for the edges of the moment it reads them: an error exactly if
\* they have a cycle, whatever their order, and else just these edges, with their
\* ends and every branch that was there all the time.
THEOREM LoadsAreTruthful == Spec => LoadTruthful
<1>1. LoadInv /\ [Next]_vars => LoadInv'
  BY StepKeepsLoads
<1>2. LoadInv /\ [Next]_vars =>
        [\A c \in Clients :
           LoadEdges(c) =>
             LET w      == job[c].of
                 here   == {b \in Ids : workspace[b] = w}
                 within == {e \in edges : {e[1], e[2]} \subseteq here}
                 g      == loaded'[c] IN
             IF IsAcyclic(here, within)
             THEN /\ g.answer = "graph" /\ g.edges = within
                  /\ known[c].always \subseteq g.nodes
                  /\ g.nodes \subseteq known[c].ever
                  /\ \A e \in within : {e[1], e[2]} \subseteq g.nodes
             ELSE g.answer = "cycle"]_vars
  BY LoadReturns, Zenon DEF Truthful
<1> QED
  BY LoadInit, <1>1, <1>2, PTL DEF Spec, LoadTruthful
=============================================================================
