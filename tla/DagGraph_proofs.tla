-------------------------- MODULE DagGraph_proofs --------------------------
(***************************************************************************)
(* Theorems about DagGraph, for any branches and any number of calls.      *)
(***************************************************************************)
EXTENDS DagGraph, TLAPS

-----------------------------------------------------------------------------
(* Acyclic graphs.                                                         *)

\* New vertices without edges close no cycle.
LEMMA GrowAcyclic ==
  ASSUME NEW V, NEW W, NEW E, E \subseteq V \X V, IsAcyclic(V, E), V \subseteq W
  PROVE  IsAcyclic(W, E)
<1> SUFFICES ASSUME NEW S \in SUBSET W, S # {}
             PROVE  \E s \in S : \A t \in S : <<t, s>> \notin E
  BY DEF IsAcyclic
<1>1. CASE S \cap V = {}
  <2>1. PICK s \in S : TRUE
    OBVIOUS
  <2> QED BY <2>1, <1>1
<1>2. CASE S \cap V # {}
  <2>1. PICK s \in S \cap V : \A t \in S \cap V : <<t, s>> \notin E
    BY <1>2 DEF IsAcyclic
  <2> QED BY <2>1
<1> QED BY <1>1, <1>2

\* A graph that maps into an acyclic one is acyclic.
LEMMA MapAcyclic ==
  ASSUME NEW V, NEW E, NEW W, NEW F, NEW f \in [V -> W],
         \A s, t \in V : <<s, t>> \in E => <<f[s], f[t]>> \in F,
         IsAcyclic(W, F)
  PROVE  IsAcyclic(V, E)
<1> SUFFICES ASSUME NEW S \in SUBSET V, S # {}
             PROVE  \E s \in S : \A t \in S : <<t, s>> \notin E
  BY DEF IsAcyclic
<1> DEFINE T == {f[s] : s \in S}
<1>1. T \in SUBSET W /\ T # {}
  OBVIOUS
<1>2. PICK y \in T : \A x \in T : <<x, y>> \notin F
  BY <1>1 DEF IsAcyclic
<1>3. PICK s \in S : y = f[s]
  BY <1>2
<1> QED BY <1>2, <1>3

-----------------------------------------------------------------------------
(* Types.                                                                  *)

\* EnsureOrInsert appends at most one node, and b has a slot afterwards.
LEMMA EnsureType ==
  ASSUME NEW g \in [weights : Seq(Ids), index : [Ids -> Nat]], NEW b \in Ids
  PROVE  /\ EnsureOrInsert(g, b) \in [weights : Seq(Ids), index : [Ids -> Nat]]
         /\ Len(g.weights) <= Len(EnsureOrInsert(g, b).weights)
BY DEF EnsureOrInsert


\* The slots after an addition contain those before it.
LEMMA AddShape ==
  ASSUME TypeOK, NEW p \in Ids, NEW c \in Ids, AddEdge(p, c)
  PROVE  /\ weights' \in Seq(Ids) /\ index' \in [Ids -> Nat]
         /\ Len(weights) <= Len(weights')
         /\ \/ /\ ~ Accepts(weights', index'[p], index'[c])
               /\ links' = links /\ inserted' = inserted
            \/ /\ Accepts(weights', index'[p], index'[c])
               /\ links' = links \cup {<<index'[p], index'[c], inserted + 1>>}
               /\ inserted' = inserted + 1
<1> DEFINE g1 == EnsureOrInsert(Graph, p)
           g  == EnsureOrInsert(g1, c)
<1>1. Graph \in [weights : Seq(Ids), index : [Ids -> Nat]]
  BY DEF Graph, TypeOK
<1>2. /\ g1 \in [weights : Seq(Ids), index : [Ids -> Nat]]
      /\ Len(weights) <= Len(g1.weights)
  BY <1>1, EnsureType DEF Graph
<1>3. /\ g \in [weights : Seq(Ids), index : [Ids -> Nat]]
      /\ Len(g1.weights) <= Len(g.weights)
  BY <1>2, EnsureType
<1>4. weights' = g.weights /\ index' = g.index /\ Link(p, c, g)
  BY DEF AddEdge
<1>5. Len(weights) \in Nat /\ Len(g1.weights) \in Nat /\ Len(g.weights) \in Nat
  BY <1>2, <1>3 DEF TypeOK
<1>6. Len(weights) <= Len(g.weights)
  BY <1>2, <1>3, <1>5
<1> HIDE DEF g
<1> QED BY <1>3, <1>4, <1>6 DEF Link

\* Slots are numbers, and the edges are between them.
LEMMA SlotFacts ==
  ASSUME TypeOK
  PROVE  /\ Slots = 1..Len(weights) /\ Len(weights) \in Nat
         /\ Adjacent \subseteq Slots \X Slots
BY DEF TypeOK, Slots, Adjacent

\* The removal of a slot leaves one slot less, and edges between the others.
LEMMA DropShape ==
  ASSUME TypeOK, NEW s \in Slots, DropSlot(s)
  PROVE  /\ weights' \in Seq(Ids)
         /\ Len(weights') = Len(weights) - 1
         /\ \A l \in links' : l[1] \in Slots' /\ l[2] \in Slots'
<1> DEFINE last == Len(weights)
           Renamed(t) == IF t = last THEN s ELSE t
<1>1. last \in Nat /\ s \in 1..last /\ Slots = 1..last
  BY SlotFacts
<1>2. weights' = [t \in 1..(last - 1) |-> IF t = s THEN weights[last] ELSE weights[t]]
  BY DEF DropSlot
<1>3. \A t \in 1..(last - 1) : (IF t = s THEN weights[last] ELSE weights[t]) \in Ids
  BY <1>1 DEF TypeOK
<1>4. weights' \in Seq(Ids) /\ Len(weights') = last - 1
  BY <1>1, <1>2, <1>3
<1>5. Slots' = 1..(last - 1)
  BY <1>1, <1>2 DEF Slots
<1>6. \A t \in Slots : t # s => Renamed(t) \in 1..(last - 1)
  BY <1>1
<1>7. ASSUME NEW l \in links' PROVE l[1] \in Slots' /\ l[2] \in Slots'
  <2>1. PICK m \in links : m[1] # s /\ m[2] # s /\ l = <<Renamed(m[1]), Renamed(m[2]), m[3]>>
    BY <1>7 DEF DropSlot
  <2>2. m[1] \in Slots /\ m[2] \in Slots
    BY DEF TypeOK
  <2> QED BY <2>1, <2>2, <1>5, <1>6
<1> QED BY <1>4, <1>7

\* Every step keeps the types.
LEMMA TypeInductive == TypeOK /\ [Next]_graphVars => TypeOK'
<1> SUFFICES ASSUME TypeOK, [Next]_graphVars PROVE TypeOK'
  OBVIOUS
<1>1. ASSUME NEW b \in Ids, AddNode(b) PROVE TypeOK'
  <2>1. Graph \in [weights : Seq(Ids), index : [Ids -> Nat]]
    BY DEF Graph, TypeOK
  <2>2. /\ weights' \in Seq(Ids) /\ index' \in [Ids -> Nat]
        /\ Len(weights) <= Len(weights')
    BY <1>1, <2>1, EnsureType DEF AddNode, Graph
  <2>3. Slots \subseteq Slots'
    BY <2>2, SlotFacts DEF Slots
  <2> QED BY <1>1, <2>2, <2>3 DEF AddNode, TypeOK
<1>2. ASSUME NEW p \in Ids, NEW c \in Ids, AddEdge(p, c) PROVE TypeOK'
  <2>1. Slots \subseteq Slots' /\ Slots' = 1..Len(weights')
    BY <1>2, AddShape, SlotFacts DEF Slots
  <2>2. removals' = removals /\ moved' = moved
    BY <1>2 DEF AddEdge
  <2>3. CASE links' = links /\ inserted' = inserted
    BY <1>2, AddShape, <2>1, <2>2, <2>3 DEF TypeOK
  <2>4. CASE /\ Accepts(weights', index'[p], index'[c])
             /\ links' = links \cup {<<index'[p], index'[c], inserted + 1>>}
             /\ inserted' = inserted + 1
    <3>1. index'[p] \in Slots' /\ index'[c] \in Slots'
      BY <2>1, <2>4 DEF Accepts
    <3>2. ASSUME NEW l \in links' PROVE l[1] \in Slots' /\ l[2] \in Slots'
      <4>1. CASE l \in links
        BY <2>1, <4>1 DEF TypeOK
      <4>2. CASE l = <<index'[p], index'[c], inserted + 1>>
        BY <3>1, <4>2
      <4> QED BY <2>4, <4>1, <4>2
    <3> QED BY <1>2, AddShape, <2>2, <2>4, <3>2 DEF TypeOK
  <2> QED BY <1>2, AddShape, <2>3, <2>4
<1>3. ASSUME NEW b \in Ids, RemoveNode(b) PROVE TypeOK'
  <2>1. index' \in [Ids -> Nat] /\ inserted' \in Nat /\ removals' \in Nat
    BY <1>3 DEF RemoveNode, Forget, TypeOK
  <2>0. moved' \in BOOLEAN
    BY <1>3, Zenon DEF RemoveNode, TypeOK
  <2>2. CASE index[b] \in Slots
    BY <1>3, <2>0, <2>1, <2>2, DropShape DEF RemoveNode, TypeOK
  <2>3. CASE index[b] \notin Slots
    BY <1>3, <2>0, <2>1, <2>3 DEF RemoveNode, TypeOK, Slots
  <2> QED BY <2>2, <2>3
<1>4. CASE UNCHANGED graphVars
  BY <1>4 DEF graphVars, TypeOK, Slots
<1> QED BY <1>1, <1>2, <1>3, <1>4 DEF Next

\* The map and the graph keep their types, and edges join nodes that exist.
THEOREM TypeCorrect == Spec => []TypeOK
<1>1. Init => TypeOK
  <2>1. Init => weights \in Seq(Ids) /\ index \in [Ids -> Nat]
    BY DEF Init
  <2>2. Init => moved \in BOOLEAN
    BY Zenon DEF Init
  <2> QED BY <2>1, <2>2 DEF Init, TypeOK
<1> QED BY <1>1, TypeInductive, PTL DEF Spec

-----------------------------------------------------------------------------
(* Acyclicity.                                                             *)

\* The edge set after an edge was added.
LEMMA AdjacentGrows ==
  ASSUME NEW s, NEW t, NEW k, links' = links \cup {<<s, t, k>>}
  PROVE  Adjacent' = Adjacent \cup {<<s, t>>}
<1>1. ASSUME NEW l \in links' PROVE <<l[1], l[2]>> \in Adjacent \cup {<<s, t>>}
  <2>1. CASE l \in links
    BY <2>1 DEF Adjacent
  <2>2. CASE l = <<s, t, k>>
    BY <2>2
  <2> QED BY <2>1, <2>2
<1>2. <<s, t>> \in Adjacent'
  <2>1. <<s, t, k>> \in links' /\ <<s, t, k>>[1] = s /\ <<s, t, k>>[2] = t
    OBVIOUS
  <2> QED BY <2>1 DEF Adjacent
<1>3. Adjacent \subseteq Adjacent'
  BY DEF Adjacent
<1>4. Adjacent' \subseteq Adjacent \cup {<<s, t>>}
  BY <1>1 DEF Adjacent
<1> QED BY <1>2, <1>3, <1>4

\* Every step keeps the graph acyclic.
LEMMA AcyclicInductive == TypeOK /\ NoCycle /\ [Next]_graphVars => NoCycle'
<1> SUFFICES ASSUME TypeOK, NoCycle, [Next]_graphVars PROVE NoCycle'
  OBVIOUS
<1>1. ASSUME weights' \in Seq(Ids), Len(weights) <= Len(weights'), links' = links
      PROVE  NoCycle'
  <2>1. Slots \subseteq Slots' /\ Adjacent' = Adjacent
    BY <1>1, SlotFacts DEF Slots, Adjacent
  <2> QED BY <2>1, SlotFacts, GrowAcyclic DEF NoCycle
<1>2. ASSUME NEW b \in Ids, AddNode(b) PROVE NoCycle'
  <2>1. Graph \in [weights : Seq(Ids), index : [Ids -> Nat]]
    BY DEF Graph, TypeOK
  <2> QED BY <1>1, <1>2, <2>1, EnsureType DEF AddNode, Graph
<1>3. ASSUME NEW p \in Ids, NEW c \in Ids, AddEdge(p, c) PROVE NoCycle'
  <2>1. CASE links' = links
    BY <1>1, <1>3, <2>1, AddShape
  <2>2. CASE /\ Accepts(weights', index'[p], index'[c])
             /\ links' = links \cup {<<index'[p], index'[c], inserted + 1>>}
    <3> DEFINE s == index'[p]
               t == index'[c]
               k == inserted + 1
    <3> HIDE DEF s, t, k
    <3>0. links' = links \cup {<<s, t, k>>}
      BY <2>2 DEF s, t, k
    <3>1. Adjacent' = Adjacent \cup {<<s, t>>}
      BY <3>0, AdjacentGrows
    <3>2. Slots' = 1..Len(weights')
      BY <1>3, AddShape DEF Slots
    <3> QED BY <2>2, <3>1, <3>2 DEF Accepts, NoCycle, s, t
  <2> QED BY <1>3, <2>1, <2>2, AddShape
<1>4. ASSUME NEW b \in Ids, RemoveNode(b) PROVE NoCycle'
  <2>1. CASE index[b] \notin Slots
    BY <1>1, <1>4, <2>1 DEF RemoveNode, TypeOK
  <2>2. CASE index[b] \in Slots
    <3> DEFINE s == index[b]
               last == Len(weights)
               f == [t \in Slots' |-> IF t = s THEN last ELSE t]
    <3>1. DropSlot(s) /\ last \in Nat /\ s \in 1..last /\ Slots = 1..last
      BY <1>4, <2>2, SlotFacts DEF RemoveNode
    <3>0. weights' \in Seq(Ids) /\ Len(weights') = last - 1
      BY <2>2, <3>1, DropShape
    <3>2. Slots' = 1..(last - 1)
      BY <3>0 DEF Slots
    <3>3. f \in [Slots' -> Slots]
      BY <3>1, <3>2
    <3>4. ASSUME NEW x \in Slots', NEW y \in Slots', <<x, y>> \in Adjacent'
          PROVE  <<f[x], f[y]>> \in Adjacent
      <4>1. PICK l \in links : /\ l[1] # s /\ l[2] # s
                               /\ x = IF l[1] = last THEN s ELSE l[1]
                               /\ y = IF l[2] = last THEN s ELSE l[2]
        BY <3>1, <3>4 DEF Adjacent, DropSlot
      <4>2. f[x] = l[1] /\ f[y] = l[2]
        BY <3>2, <4>1
      <4> QED BY <4>2 DEF Adjacent
    <3> HIDE DEF f
    <3> QED BY <3>3, <3>4, MapAcyclic DEF NoCycle
  <2> QED BY <2>1, <2>2
<1>5. CASE UNCHANGED graphVars
  BY <1>5 DEF graphVars, NoCycle, Slots, Adjacent
<1> QED BY <1>2, <1>3, <1>4, <1>5 DEF Next

\* The lineage graph never has a cycle, whatever was removed before.
THEOREM StaysAcyclic == Spec => []NoCycle
<1>1. Init => NoCycle
  BY DEF Init, NoCycle, IsAcyclic, Slots
<1> QED BY <1>1, TypeCorrect, AcyclicInductive, PTL DEF Spec

-----------------------------------------------------------------------------
(* The map agrees with the graph.                                          *)

\* The map ix finds each branch it knows in w, and every node of w is found.
Exact(w, ix) ==
  /\ \A b \in Ids : ix[b] # 0 => ix[b] \in 1..Len(w) /\ w[ix[b]] = b
  /\ \A s \in 1..Len(w) : ix[w[s]] = s

\* The graph h is exact, finds b, and has the nodes of g and at most one for b.
Extends(g, h, b) ==
  /\ Exact(h.weights, h.index)
  /\ h.index[b] \in 1..Len(h.weights) /\ h.weights[h.index[b]] = b
  /\ \A s \in 1..Len(g.weights) : h.weights[s] = g.weights[s]
  /\ \A s \in 1..Len(h.weights) : s \in 1..Len(g.weights) \/ h.weights[s] = b

\* EnsureOrInsert keeps what is there and finds b.
LEMMA EnsureExact ==
  ASSUME NEW g \in [weights : Seq(Ids), index : [Ids -> Nat]], NEW b \in Ids,
         Exact(g.weights, g.index)
  PROVE  Extends(g, EnsureOrInsert(g, b), b)
<1> DEFINE h == EnsureOrInsert(g, b)
<1>1. CASE g.index[b] # 0
  BY <1>1 DEF EnsureOrInsert, Exact, Extends
<1>2. CASE g.index[b] = 0
  <2> DEFINE n == Len(g.weights)
  <2>1. n \in Nat /\ h.weights = Append(g.weights, b) /\ h.index = [g.index EXCEPT ![b] = n + 1]
    BY <1>2 DEF EnsureOrInsert
  <2>2. /\ Len(h.weights) = n + 1 /\ h.weights[n + 1] = b
        /\ \A s \in 1..n : h.weights[s] = g.weights[s]
    BY <2>1
  <2>3. h.index[b] = n + 1 /\ \A x \in Ids : x # b => h.index[x] = g.index[x]
    BY <2>1
  <2>4. \A s \in 1..n : g.weights[s] # b /\ g.weights[s] \in Ids
    BY <1>2 DEF Exact
  <2>5. \A s \in 1..(n + 1) : s \in 1..n \/ s = n + 1
    BY <2>1
  <2>6. \A x \in Ids : h.index[x] # 0 => h.index[x] \in 1..(n + 1) /\ h.weights[h.index[x]] = x
    <3> SUFFICES ASSUME NEW x \in Ids, h.index[x] # 0
                 PROVE  h.index[x] \in 1..(n + 1) /\ h.weights[h.index[x]] = x
      OBVIOUS
    <3>1. CASE x = b
      BY <2>1, <2>2, <2>3, <3>1
    <3>2. CASE x # b
      <4>1. g.index[x] \in 1..n /\ g.weights[g.index[x]] = x
        BY <2>3, <3>2 DEF Exact
      <4> QED BY <2>1, <2>2, <2>3, <3>2, <4>1
    <3> QED BY <3>1, <3>2
  <2>7. \A s \in 1..(n + 1) : h.index[h.weights[s]] = s
    BY <2>2, <2>3, <2>4, <2>5 DEF Exact
  <2> HIDE DEF h
  <2>8. Exact(h.weights, h.index)
    BY <2>2, <2>6, <2>7 DEF Exact
  <2> QED BY <2>1, <2>2, <2>3, <2>5, <2>8 DEF h, Extends
<1> QED BY <1>1, <1>2

\* After an addition the map agrees with the graph and finds both ends.
LEMMA AddExact ==
  ASSUME TypeOK, Exact(weights, index), NEW p \in Ids, NEW c \in Ids,
         AddEdge(p, c)
  PROVE  /\ Exact(weights', index')
         /\ index'[p] \in 1..Len(weights') /\ weights'[index'[p]] = p
         /\ index'[c] \in 1..Len(weights') /\ weights'[index'[c]] = c
<1> DEFINE g1 == EnsureOrInsert(Graph, p)
           g  == EnsureOrInsert(g1, c)
<1>1. /\ Graph \in [weights : Seq(Ids), index : [Ids -> Nat]]
      /\ Exact(Graph.weights, Graph.index)
  BY DEF Graph, TypeOK
<1>2. g1 \in [weights : Seq(Ids), index : [Ids -> Nat]] /\ Extends(Graph, g1, p)
  BY <1>1, EnsureType, EnsureExact
<1>3. Exact(g1.weights, g1.index)
  BY <1>2 DEF Extends
<1> HIDE DEF g1
<1>4. /\ g \in [weights : Seq(Ids), index : [Ids -> Nat]]
      /\ Len(g1.weights) <= Len(g.weights)
      /\ Extends(g1, g, c)
  BY <1>2, <1>3, EnsureType, EnsureExact
<1>5. weights' = g.weights /\ index' = g.index
  BY DEF AddEdge, g1
<1> HIDE DEF g
<1>6. Len(g1.weights) \in Nat /\ Len(g.weights) \in Nat
  <2>1. g1.weights \in Seq(Ids) /\ g.weights \in Seq(Ids)
    BY <1>2, <1>4
  <2> QED BY <2>1
<1>7. g1.index[p] \in 1..Len(g.weights) /\ g.weights[g1.index[p]] = p
  <2>1. g1.index[p] \in 1..Len(g1.weights) /\ g1.weights[g1.index[p]] = p
    BY <1>2 DEF Extends
  <2>2. \A s \in 1..Len(g1.weights) : g.weights[s] = g1.weights[s]
    BY <1>4 DEF Extends
  <2>3. \A s \in 1..Len(g1.weights) : s \in 1..Len(g.weights)
    BY <1>4, <1>6
  <2> QED BY <2>1, <2>2, <2>3
<1>8. g.index[p] = g1.index[p]
  BY <1>4, <1>7 DEF Extends, Exact
<1>9. /\ Exact(g.weights, g.index)
      /\ g.index[c] \in 1..Len(g.weights) /\ g.weights[g.index[c]] = c
  BY <1>4 DEF Extends
<1> QED BY <1>5, <1>7, <1>8, <1>9

\* A removal that moves no other node keeps the map exact: it takes the last one.
LEMMA RemoveExact ==
  ASSUME TypeOK, Exact(weights, index), NEW b \in Ids, RemoveNode(b), ~ moved'
  PROVE  Exact(weights', index')
<1> DEFINE last == Len(weights)
<1>1. index[b] # 0 /\ index[b] \in 1..last /\ Slots = 1..last /\ last \in Nat
  BY SlotFacts DEF RemoveNode, Exact
<1>2. index[b] = last /\ weights[last] = b
  BY <1>1 DEF RemoveNode, Exact
<1>3. DropSlot(last)
  BY <1>1, <1>2 DEF RemoveNode
<1>4. weights' = [t \in 1..(last - 1) |-> weights[t]]
  BY <1>1, <1>3 DEF DropSlot
<1>5. Len(weights') = last - 1
  BY <1>1, <1>2, <1>3, DropShape
<1>6. index' = [index EXCEPT ![b] = 0]
  BY DEF RemoveNode, Forget
<1>7. ASSUME NEW x \in Ids, index'[x] # 0
      PROVE  index'[x] \in 1..(last - 1) /\ weights'[index'[x]] = x
  <2>1. x # b /\ index'[x] = index[x]
    BY <1>6, <1>7 DEF TypeOK
  <2>2. index[x] \in 1..last /\ weights[index[x]] = x
    BY <1>7, <2>1 DEF Exact
  <2>3. index[x] \in 1..(last - 1)
    BY <1>1, <1>2, <2>1, <2>2
  <2> QED BY <1>4, <2>1, <2>2, <2>3
<1>8. ASSUME NEW s \in 1..(last - 1) PROVE index'[weights'[s]] = s
  <2>1. s \in 1..last /\ s # last
    BY <1>1
  <2>2. weights'[s] = weights[s] /\ weights[s] \in Ids /\ index[weights[s]] = s
    BY <1>1, <1>4, <2>1 DEF TypeOK, Exact
  <2>3. weights[s] # b
    BY <1>2, <2>1, <2>2
  <2> QED BY <1>6, <2>2, <2>3 DEF TypeOK
<1> QED BY <1>5, <1>7, <1>8 DEF Exact

\* Every step keeps the map exact while no node has moved.
LEMMA ExactInductive ==
  TypeOK /\ (~ moved => Exact(weights, index)) /\ [Next]_graphVars
    => (~ moved' => Exact(weights', index'))
<1> SUFFICES ASSUME TypeOK, ~ moved => Exact(weights, index), [Next]_graphVars, ~ moved'
             PROVE  Exact(weights', index')
  BY Zenon
<1>1. ASSUME NEW b \in Ids, AddNode(b) PROVE Exact(weights', index')
  <2>1. Exact(weights, index)
    BY <1>1, Zenon DEF AddNode
  <2>2. Graph \in [weights : Seq(Ids), index : [Ids -> Nat]]
    BY DEF Graph, TypeOK
  <2>3. Exact(EnsureOrInsert(Graph, b).weights, EnsureOrInsert(Graph, b).index)
    BY <2>1, <2>2, EnsureExact DEF Graph, Extends
  <2> QED BY <1>1, <2>3, Zenon DEF AddNode
<1>2. ASSUME NEW p \in Ids, NEW c \in Ids, AddEdge(p, c) PROVE Exact(weights', index')
  <2>1. Exact(weights, index)
    BY <1>2, Zenon DEF AddEdge
  <2> QED BY <1>2, <2>1, AddExact
<1>3. ASSUME NEW b \in Ids, RemoveNode(b) PROVE Exact(weights', index')
  <2>1. ~ moved
    BY <1>3, Zenon DEF RemoveNode
  <2> QED BY <1>3, <2>1, RemoveExact
<1>4. CASE UNCHANGED graphVars
  <2>1. weights' = weights /\ index' = index /\ (moved' <=> moved)
    BY <1>4, Zenon DEF graphVars
  <2> QED BY <2>1, Zenon
<1> QED BY <1>1, <1>2, <1>3, <1>4 DEF Next

\* Until a removal moves another branch's node, each branch has one node and
\* the map finds it.
THEOREM MapAgrees == Spec => []IndexAgrees
<1> DEFINE Agree == ~ moved => Exact(weights, index)
<1>1. Init => Agree
  BY DEF Init, Exact
<1>2. TypeOK /\ Agree /\ [Next]_graphVars => Agree'
  BY ExactInductive
<1>3. TypeOK /\ Agree => IndexAgrees
  BY SlotFacts DEF Exact, IndexAgrees
<1> QED BY <1>1, <1>2, <1>3, TypeCorrect, PTL DEF Spec

-----------------------------------------------------------------------------
(* The graph implements LineageDag.                                        *)

\* The branches of a vector of nodes, and the parent-child edges of an edge set.
NodeImage(w)    == {w[s] : s \in 1..Len(w)}
EdgeImage(w, A) == {<<w[e[1]], w[e[2]]>> : e \in A}

\* What LineageDag sees of the graph.
LEMMA LineageView ==
  ASSUME TypeOK
  PROVE  /\ {weights[s] : s \in Slots} = NodeImage(weights)
         /\ {<<weights[l[1]], weights[l[2]]>> : l \in links} = EdgeImage(weights, Adjacent)
<1>1. Slots = 1..Len(weights)
  BY SlotFacts
<1> DEFINE E == {<<weights[l[1]], weights[l[2]]>> : l \in links}
<1>2. ASSUME NEW l \in links PROVE <<weights[l[1]], weights[l[2]]>> \in EdgeImage(weights, Adjacent)
  <2> DEFINE e == <<l[1], l[2]>>
  <2>1. e \in Adjacent /\ e[1] = l[1] /\ e[2] = l[2]
    BY DEF Adjacent
  <2> HIDE DEF e
  <2> QED BY <2>1 DEF EdgeImage
<1>3. ASSUME NEW e \in Adjacent PROVE <<weights[e[1]], weights[e[2]]>> \in E
  BY DEF Adjacent
<1>4. E = EdgeImage(weights, Adjacent)
  BY <1>2, <1>3 DEF EdgeImage
<1> QED BY <1>1, <1>4 DEF NodeImage

\* Where the map is exact, the nodes name the branches one to one, so that the
\* graph has a cycle exactly when the lineage has.
LEMMA ImageAcyclic ==
  ASSUME NEW w \in Seq(Ids), NEW ix \in [Ids -> Nat], Exact(w, ix),
         NEW A \in SUBSET ((1..Len(w)) \X (1..Len(w)))
  PROVE  IsAcyclic(1..Len(w), A) <=> IsAcyclic(NodeImage(w), EdgeImage(w, A))
<1> DEFINE V == 1..Len(w)
           N == NodeImage(w)
           E == EdgeImage(w, A)
<1>1. ASSUME IsAcyclic(V, A) PROVE IsAcyclic(N, E)
  <2> DEFINE f == [b \in N |-> ix[b]]
  <2>1. f \in [N -> V]
    BY DEF Exact, NodeImage
  <2>2. ASSUME NEW x \in N, NEW y \in N, <<x, y>> \in E PROVE <<f[x], f[y]>> \in A
    <3>1. PICK e \in A : x = w[e[1]] /\ y = w[e[2]]
      BY <2>2 DEF EdgeImage
    <3>2. e[1] \in V /\ e[2] \in V /\ e = <<e[1], e[2]>>
      OBVIOUS
    <3>3. f[x] = e[1] /\ f[y] = e[2]
      BY <3>1, <3>2 DEF Exact
    <3> QED BY <3>2, <3>3
  <2> HIDE DEF f, V, N, E
  <2> QED BY <1>1, <2>1, <2>2, MapAcyclic
<1>2. ASSUME IsAcyclic(N, E) PROVE IsAcyclic(V, A)
  <2> DEFINE f == [s \in V |-> w[s]]
  <2>1. f \in [V -> N]
    BY DEF NodeImage
  <2>2. ASSUME NEW s \in V, NEW t \in V, <<s, t>> \in A PROVE <<f[s], f[t]>> \in E
    <3> DEFINE e == <<s, t>>
    <3>1. e \in A /\ e[1] = s /\ e[2] = t
      BY <2>2
    <3> HIDE DEF e
    <3>2. <<w[s], w[t]>> \in E
      BY <3>1 DEF EdgeImage
    <3> QED BY <3>2
  <2> HIDE DEF f, V, N, E
  <2> QED BY <1>2, <2>1, <2>2, MapAcyclic
<1> QED BY <1>1, <1>2

\* v continues w: the old nodes keep their slots, the new ones are among S.
Continues(w, v, S) ==
  /\ Len(w) <= Len(v)
  /\ \A s \in 1..Len(w) : v[s] = w[s]
  /\ \A s \in 1..Len(v) : s \in 1..Len(w) \/ v[s] \in S
  /\ \A b \in S : b \in NodeImage(v)

\* Then the branches of v are those of w and S ...
LEMMA ContinuesNodes ==
  ASSUME NEW w \in Seq(Ids), NEW v \in Seq(Ids), NEW S, Continues(w, v, S)
  PROVE  NodeImage(v) = NodeImage(w) \cup S
<1>1. Len(w) \in Nat /\ Len(v) \in Nat /\ \A s \in 1..Len(w) : s \in 1..Len(v)
  BY DEF Continues
<1> QED BY <1>1 DEF Continues, NodeImage

\* ... and the edges between old slots look the same.
LEMMA ContinuesEdges ==
  ASSUME NEW w \in Seq(Ids), NEW v \in Seq(Ids), NEW S, Continues(w, v, S),
         NEW A \in SUBSET ((1..Len(w)) \X (1..Len(w)))
  PROVE  EdgeImage(v, A) = EdgeImage(w, A)
<1>1. \A e \in A : v[e[1]] = w[e[1]] /\ v[e[2]] = w[e[2]]
  BY DEF Continues
<1> QED BY <1>1 DEF EdgeImage

\* EnsureOrInsert continues the nodes with b.
LEMMA EnsureContinues ==
  ASSUME NEW g \in [weights : Seq(Ids), index : [Ids -> Nat]], NEW b \in Ids,
         Exact(g.weights, g.index)
  PROVE  Continues(g.weights, EnsureOrInsert(g, b).weights, {b})
<1> DEFINE h == EnsureOrInsert(g, b)
<1>1. Len(g.weights) <= Len(h.weights) /\ Extends(g, h, b)
  BY EnsureType, EnsureExact
<1> HIDE DEF h
<1>2. \A x \in {b} : x \in NodeImage(h.weights)
  BY <1>1 DEF Extends, NodeImage
<1>3. /\ \A s \in 1..Len(g.weights) : h.weights[s] = g.weights[s]
      /\ \A s \in 1..Len(h.weights) : s \in 1..Len(g.weights) \/ h.weights[s] \in {b}
  BY <1>1 DEF Extends
<1>4. Continues(g.weights, h.weights, {b})
  BY <1>1, <1>2, <1>3 DEF Continues
<1> QED BY <1>4 DEF h

\* One continuation after another is a continuation with both sets.
LEMMA ContinuesTwice ==
  ASSUME NEW u \in Seq(Ids), NEW v \in Seq(Ids), NEW w \in Seq(Ids),
         NEW S, NEW T, Continues(u, v, S), Continues(v, w, T)
  PROVE  Continues(u, w, S \cup T)
<1>0. Len(u) \in Nat /\ Len(v) \in Nat /\ Len(w) \in Nat
  OBVIOUS
<1>1. \A s \in 1..Len(u) : s \in 1..Len(v)
  BY <1>0 DEF Continues
<1>2. \A s \in 1..Len(v) : s \in 1..Len(w)
  BY <1>0 DEF Continues
<1>3. Len(u) <= Len(w)
  BY <1>0 DEF Continues
<1>4. \A s \in 1..Len(u) : w[s] = u[s]
  BY <1>1 DEF Continues
<1>5. \A s \in 1..Len(w) : s \in 1..Len(u) \/ w[s] \in S \cup T
  BY DEF Continues
<1>6. \A b \in S : b \in NodeImage(w)
  BY <1>2 DEF Continues, NodeImage
<1>7. \A b \in T : b \in NodeImage(w)
  BY DEF Continues
<1> QED BY <1>3, <1>4, <1>5, <1>6, <1>7 DEF Continues

\* An addition of an edge continues the nodes with its two ends.
LEMMA AddContinues ==
  ASSUME TypeOK, Exact(weights, index), NEW p \in Ids, NEW c \in Ids, AddEdge(p, c)
  PROVE  Continues(weights, weights', {p, c})
<1> DEFINE g1 == EnsureOrInsert(Graph, p)
           g  == EnsureOrInsert(g1, c)
<1>1. /\ Graph \in [weights : Seq(Ids), index : [Ids -> Nat]]
      /\ Exact(Graph.weights, Graph.index) /\ Graph.weights = weights
  BY DEF Graph, TypeOK
<1>2. /\ g1 \in [weights : Seq(Ids), index : [Ids -> Nat]]
      /\ Exact(g1.weights, g1.index) /\ Continues(weights, g1.weights, {p})
  BY <1>1, EnsureType, EnsureExact, EnsureContinues DEF Extends
<1> HIDE DEF g1
<1>3. /\ g \in [weights : Seq(Ids), index : [Ids -> Nat]]
      /\ Continues(g1.weights, g.weights, {c})
  BY <1>2, EnsureType, EnsureContinues
<1>4. weights' = g.weights
  BY DEF AddEdge, g1
<1> HIDE DEF g
<1>5. Continues(weights, g.weights, {p} \cup {c})
  BY <1>2, <1>3, ContinuesTwice DEF TypeOK
<1>6. {p} \cup {c} = {p, c}
  OBVIOUS
<1> QED BY <1>4, <1>5, <1>6

\* One more edge between slots is one more edge between their branches.
LEMMA ImageGrows ==
  ASSUME NEW w, NEW A, NEW s, NEW t
  PROVE  EdgeImage(w, A \cup {<<s, t>>}) = EdgeImage(w, A) \cup {<<w[s], w[t]>>}
<1> DEFINE e == <<s, t>>
<1>1. e[1] = s /\ e[2] = t
  OBVIOUS
<1> HIDE DEF e
<1>2. EdgeImage(w, A \cup {e}) = EdgeImage(w, A) \cup {<<w[s], w[t]>>}
  BY <1>1 DEF EdgeImage
<1> QED BY <1>2 DEF e

\* add_edge decides as LineageDag does: the edge is there already, or closes a
\* cycle and is refused, or is added.
LEMMA AddEdgeImage ==
  ASSUME TypeOK, Exact(weights, index), NEW p \in Ids, NEW c \in Ids, AddEdge(p, c)
  PROVE  /\ NodeImage(weights') = NodeImage(weights) \cup {p, c}
         /\ EdgeImage(weights', Adjacent') =
              IF IsAcyclic(NodeImage(weights'), EdgeImage(weights, Adjacent) \cup {<<p, c>>})
              THEN EdgeImage(weights, Adjacent) \cup {<<p, c>>}
              ELSE EdgeImage(weights, Adjacent)
<1> DEFINE w  == weights'
           ix == index'
           s  == index'[p]
           t  == index'[c]
           E  == EdgeImage(weights, Adjacent)
           B  == Adjacent \cup {<<s, t>>}
<1>1. /\ w \in Seq(Ids) /\ ix \in [Ids -> Nat] /\ Len(weights) <= Len(w)
      /\ \/ ~ Accepts(w, s, t) /\ links' = links
         \/ Accepts(w, s, t) /\ links' = links \cup {<<s, t, inserted + 1>>}
  BY AddShape
<1>2. /\ Exact(w, ix) /\ s \in 1..Len(w) /\ t \in 1..Len(w) /\ w[s] = p /\ w[t] = c
  BY AddExact
<1>3. weights \in Seq(Ids) /\ Adjacent \in SUBSET ((1..Len(weights)) \X (1..Len(weights)))
  BY SlotFacts DEF TypeOK
<1>4. NodeImage(w) = NodeImage(weights) \cup {p, c} /\ EdgeImage(w, Adjacent) = E
  <2>1. Continues(weights, w, {p, c})
    BY AddContinues
  <2> HIDE DEF w, E
  <2>2. NodeImage(w) = NodeImage(weights) \cup {p, c}
    BY <1>1, <1>3, <2>1, ContinuesNodes
  <2>3. EdgeImage(w, Adjacent) = EdgeImage(weights, Adjacent)
    BY <1>1, <1>3, <2>1, ContinuesEdges
  <2> QED BY <2>2, <2>3 DEF E
<1>5. Len(weights) \in Nat /\ Len(w) \in Nat
  BY <1>1, <1>3
<1>6. B \in SUBSET ((1..Len(w)) \X (1..Len(w)))
  BY <1>1, <1>2, <1>3, <1>5
<1>7. EdgeImage(w, B) = E \cup {<<p, c>>}
  BY <1>2, <1>4, ImageGrows
<1>8. IsAcyclic(1..Len(w), B) <=> IsAcyclic(NodeImage(w), E \cup {<<p, c>>})
  <2> HIDE DEF w, ix, B, E
  <2> QED BY <1>1, <1>2, <1>6, <1>7, ImageAcyclic
<1>9. CASE Accepts(w, s, t) /\ links' = links \cup {<<s, t, inserted + 1>>}
  <2>1. Adjacent' = B
    BY <1>9, AdjacentGrows
  <2>2. IsAcyclic(1..Len(w), B)
    BY <1>9 DEF Accepts
  <2> HIDE DEF w, ix, B, E
  <2> QED BY <1>4, <1>7, <1>8, <2>1, <2>2 DEF w, E
<1>10. CASE ~ Accepts(w, s, t) /\ links' = links
  <2>1. Adjacent' = Adjacent
    BY <1>10 DEF Adjacent
  <2>2. CASE <<s, t>> \in Adjacent
    <3>1. B = Adjacent
      BY <2>2
    <3> HIDE DEF w, ix, B, E
    <3> QED BY <1>4, <1>7, <2>1, <3>1 DEF w, E
  <2>3. CASE ~ IsAcyclic(1..Len(w), B)
    <3> HIDE DEF w, ix, B, E
    <3> QED BY <1>4, <1>8, <2>1, <2>3 DEF w, E
  <2> QED BY <1>2, <1>10, <2>2, <2>3 DEF Accepts
<1> QED BY <1>1, <1>9, <1>10

\* A removal that moves no other node takes the branch, and the edge to it, away.
LEMMA RemoveImage ==
  ASSUME TypeOK, Exact(weights, index), NEW b \in Ids, RemoveNode(b), ~ moved'
  PROVE  /\ b \in NodeImage(weights)
         /\ \A c \in NodeImage(weights) : <<b, c>> \notin EdgeImage(weights, Adjacent)
         /\ NodeImage(weights') = NodeImage(weights) \ {b}
         /\ EdgeImage(weights', Adjacent') = {e \in EdgeImage(weights, Adjacent) : e[2] # b}
<1> DEFINE last == Len(weights)
<1>1. index[b] # 0 /\ index[b] \in 1..last /\ Slots = 1..last /\ last \in Nat
  BY SlotFacts DEF RemoveNode, Exact
<1>2. index[b] = last /\ weights[last] = b
  BY <1>1 DEF RemoveNode, Exact
<1>3. DropSlot(last) /\ NoChildren(last)
  BY <1>1, <1>2 DEF RemoveNode
<1>4. weights' = [t \in 1..(last - 1) |-> weights[t]]
  BY <1>1, <1>3 DEF DropSlot
<1>5. Len(weights') = last - 1
  BY <1>1, <1>2, <1>3, DropShape
<1>6. \A s \in 1..last : weights[s] = b <=> s = last
  BY <1>2 DEF Exact
<1>7. \A s \in 1..(last - 1) : s \in 1..last /\ s # last /\ weights'[s] = weights[s]
  BY <1>1, <1>4
<1>8. \A s \in 1..last : s # last => s \in 1..(last - 1)
  BY <1>1
<1>9. \A e \in Adjacent : e = <<e[1], e[2]>> /\ e[1] \in 1..last /\ e[2] \in 1..last
  BY <1>1, SlotFacts
<1>10. \A e \in Adjacent : e[1] # last
  BY <1>3 DEF NoChildren, Adjacent
<1>11. Adjacent' = {e \in Adjacent : e[2] # last}
  <2>1. ASSUME NEW l \in links' PROVE \E m \in links : m[2] # last /\ l[1] = m[1] /\ l[2] = m[2]
    BY <1>3, <2>1 DEF DropSlot
  <2>2. ASSUME NEW m \in links, m[2] # last PROVE \E l \in links' : l[1] = m[1] /\ l[2] = m[2]
    <3> DEFINE l == <<m[1], m[2], m[3]>>
    <3>1. m[1] # last
      BY <1>3 DEF NoChildren
    <3>2. l \in links'
      BY <1>3, <2>2, <3>1 DEF DropSlot
    <3>3. l[1] = m[1] /\ l[2] = m[2]
      OBVIOUS
    <3> HIDE DEF l
    <3> QED BY <3>2, <3>3
  <2>3. ASSUME NEW e \in Adjacent' PROVE e \in Adjacent /\ e[2] # last
    BY <2>1 DEF Adjacent
  <2>4. ASSUME NEW e \in Adjacent, e[2] # last PROVE e \in Adjacent'
    BY <2>2, <2>4 DEF Adjacent
  <2> QED BY <2>3, <2>4
<1>12. b \in NodeImage(weights)
  BY <1>1, <1>2 DEF NodeImage
<1>13. \A c \in NodeImage(weights) : <<b, c>> \notin EdgeImage(weights, Adjacent)
  BY <1>6, <1>9, <1>10 DEF EdgeImage
<1>14. NodeImage(weights') = NodeImage(weights) \ {b}
  BY <1>5, <1>6, <1>7, <1>8 DEF NodeImage
<1>15. EdgeImage(weights', Adjacent') = {e \in EdgeImage(weights, Adjacent) : e[2] # b}
  <2>1. ASSUME NEW e \in Adjacent, e[2] # last
        PROVE  /\ weights'[e[1]] = weights[e[1]] /\ weights'[e[2]] = weights[e[2]]
               /\ weights[e[2]] # b
    BY <1>6, <1>7, <1>8, <1>9, <1>10, <2>1
  <2>2. \A e \in Adjacent : weights[e[2]] # b => e[2] # last
    BY <1>2
  <2>3. ASSUME NEW x \in EdgeImage(weights', Adjacent')
        PROVE  x \in EdgeImage(weights, Adjacent) /\ x[2] # b
    <3>1. PICK e \in Adjacent : e[2] # last /\ x = <<weights'[e[1]], weights'[e[2]]>>
      BY <1>11, <2>3 DEF EdgeImage
    <3>2. x = <<weights[e[1]], weights[e[2]]>> /\ weights[e[2]] # b
      BY <2>1, <3>1
    <3> QED BY <3>2 DEF EdgeImage
  <2>4. ASSUME NEW x \in EdgeImage(weights, Adjacent), x[2] # b
        PROVE  x \in EdgeImage(weights', Adjacent')
    <3>1. PICK e \in Adjacent : x = <<weights[e[1]], weights[e[2]]>>
      BY <2>4 DEF EdgeImage
    <3>2. e[2] # last
      BY <2>2, <2>4, <3>1
    <3>3. x = <<weights'[e[1]], weights'[e[2]]>> /\ e \in Adjacent'
      BY <1>11, <2>1, <3>1, <3>2
    <3> QED BY <3>3 DEF EdgeImage
  <2> QED BY <2>3, <2>4
<1> QED BY <1>12, <1>13, <1>14, <1>15

\* While the map is exact, every step is a step of LineageDag or stutters.
LEMMA LineageStep ==
  ASSUME TypeOK, Exact(weights, index), [Next]_graphVars, ~ moved'
  PROVE  [Lineage!Next]_(Lineage!lineage)
<1> DEFINE N == {weights[s] : s \in Slots}
           E == {<<weights[l[1]], weights[l[2]]>> : l \in links}
<1>1. N = NodeImage(weights) /\ E = EdgeImage(weights, Adjacent)
  BY LineageView
<1>2. TypeOK'
  BY TypeInductive
<1>3. N' = NodeImage(weights') /\ E' = EdgeImage(weights', Adjacent')
  <2>1. (N = NodeImage(weights) /\ E = EdgeImage(weights, Adjacent))'
    BY <1>2, LineageView, PTL
  <2> QED BY <2>1
<1>4. CASE N' = N /\ E' = E
  BY <1>4 DEF Lineage!lineage
<1>5. ASSUME NEW b \in Ids, AddNode(b) PROVE Lineage!AddNode(b)
  <2>1. /\ Graph \in [weights : Seq(Ids), index : [Ids -> Nat]]
        /\ Exact(Graph.weights, Graph.index) /\ Graph.weights = weights
    BY DEF Graph, TypeOK
  <2>2. weights' = EnsureOrInsert(Graph, b).weights /\ Adjacent' = Adjacent
    BY <1>5 DEF AddNode, Adjacent
  <2>3. Continues(weights, weights', {b})
    BY <2>1, <2>2, EnsureContinues
  <2>4. /\ weights \in Seq(Ids) /\ weights' \in Seq(Ids)
        /\ Adjacent \in SUBSET ((1..Len(weights)) \X (1..Len(weights)))
    BY <1>2, SlotFacts DEF TypeOK
  <2>5. NodeImage(weights') = NodeImage(weights) \cup {b}
    BY <2>3, <2>4, ContinuesNodes
  <2>6. EdgeImage(weights', Adjacent) = EdgeImage(weights, Adjacent)
    BY <2>3, <2>4, ContinuesEdges
  <2>7. N' = N \cup {b} /\ E' = E
    BY <1>1, <1>3, <2>2, <2>5, <2>6
  <2> QED BY <2>7 DEF Lineage!AddNode
<1>6. ASSUME NEW p \in Ids, NEW c \in Ids, AddEdge(p, c) PROVE Lineage!AddEdge(p, c)
  <2>1. p # c
    BY <1>6 DEF AddEdge
  <2>2. N' = N \cup {p, c}
    BY <1>1, <1>3, <1>6, AddEdgeImage
  <2>3. E' = IF IsAcyclic(N', E \cup {<<p, c>>}) THEN E \cup {<<p, c>>} ELSE E
    <3> HIDE DEF N, E
    <3>1. E' = IF IsAcyclic(NodeImage(weights'), E \cup {<<p, c>>})
               THEN E \cup {<<p, c>>} ELSE E
      BY <1>1, <1>3, <1>6, AddEdgeImage
    <3> QED BY <1>3, <3>1
  <2> QED BY <2>1, <2>2, <2>3 DEF Lineage!AddEdge, Lineage!IsAcyclic, IsAcyclic
<1>7. ASSUME NEW b \in Ids, RemoveNode(b) PROVE Lineage!RemoveNode(b)
  <2>1. b \in N /\ \A c \in N : <<b, c>> \notin E
    BY <1>1, <1>7, RemoveImage
  <2>2. N' = N \ {b} /\ E' = {e \in E : e[2] # b}
    BY <1>1, <1>3, <1>7, RemoveImage
  <2> QED BY <2>1, <2>2 DEF Lineage!RemoveNode
<1>8. CASE UNCHANGED graphVars
  BY <1>4, <1>8 DEF graphVars, Slots
<1> QED BY <1>5, <1>6, <1>7, <1>8 DEF Next, Lineage!Next

\* Until a removal moves another branch's node, the graph implements LineageDag:
\* it holds the branches and the edges it was asked for, refuses exactly the
\* edges that would close a cycle, and drops a branch only without children.
THEOREM LineageImplemented == Spec => ImplementsLineage
<1> DEFINE Agree == ~ moved => Exact(weights, index)
<1>1. Init => Agree
  BY DEF Init, Exact
<1>2. TypeOK /\ Agree /\ [Next]_graphVars => Agree'
  BY ExactInductive
<1>3. Init => Lineage!Init
  BY DEF Init, Lineage!Init, Slots
<1>4. TypeOK /\ Agree /\ [Next]_graphVars
        => [~ moved' => [Lineage!Next]_(Lineage!lineage)]_graphVars
  <2>1. ASSUME TypeOK, Agree, [Next]_graphVars, ~ moved'
        PROVE  [Lineage!Next]_(Lineage!lineage)
    <3>1. ~ moved
      BY <2>1, Zenon DEF Next, AddNode, AddEdge, RemoveNode, graphVars
    <3> QED BY <2>1, <3>1, LineageStep
  <2> QED BY <2>1, Zenon
<1> QED BY <1>1, <1>2, <1>3, <1>4, TypeCorrect, PTL DEF Spec, ImplementsLineage
=============================================================================
