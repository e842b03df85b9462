------------------------- MODULE DagQueries_proofs -------------------------
(***************************************************************************)
(* Theorems about DagQueries: what the walks over the graph find, and what *)
(* the queries answer while it changes, for any branches, any number of    *)
(* askers and any number of calls.                                         *)
(***************************************************************************)
EXTENDS DagQueries, DagGraph_proofs, FiniteSetTheorems, SequenceTheorems,
        WellFoundedInduction

-----------------------------------------------------------------------------
(* Ancestry in a graph with vertices V and edges A.                        *)

\* Everything at or above y is in S when y is.
ClosedUp(A, S) == \A e \in A : e[2] \in S => e[1] \in S

\* x is y or an ancestor of y.
Leads(V, A, x, y) == \A S \in SUBSET V : y \in S /\ ClosedUp(A, S) => x \in S

LEMMA LeadsSelf == ASSUME NEW V, NEW A, NEW x PROVE Leads(V, A, x, x)
BY DEF Leads

LEMMA LeadsEdge ==
  ASSUME NEW V, NEW A, NEW e \in A
  PROVE  Leads(V, A, e[1], e[2])
BY DEF Leads, ClosedUp

LEMMA LeadsOn ==
  ASSUME NEW V, NEW A, NEW x, NEW y, NEW z, Leads(V, A, x, y), Leads(V, A, y, z)
  PROVE  Leads(V, A, x, z)
BY DEF Leads

\* What leads to y is in V.
LEMMA LeadsIn ==
  ASSUME NEW V, NEW A \in SUBSET (V \X V), NEW y \in V, NEW x, Leads(V, A, x, y)
  PROVE  x \in V
<1>1. V \in SUBSET V /\ ClosedUp(A, V)
  BY DEF ClosedUp
<1> QED
  BY <1>1 DEF Leads

\* What leads to y is y or leads to a parent of it ...
LEMMA LeadsByParent ==
  ASSUME NEW V, NEW A \in SUBSET (V \X V), NEW x, NEW y \in V, Leads(V, A, x, y), x # y
  PROVE  \E q \in V : <<q, y>> \in A /\ Leads(V, A, x, q)
<1> DEFINE S == {z \in V : z = y \/ \E q \in V : <<q, y>> \in A /\ Leads(V, A, z, q)}
<1>1. ClosedUp(A, S)
  <2> SUFFICES ASSUME NEW e \in A, e[2] \in S PROVE e[1] \in S
    BY DEF ClosedUp
  <2>1. e[1] \in V /\ e = <<e[1], e[2]>> /\ Leads(V, A, e[1], e[2])
    BY LeadsEdge
  <2>2. CASE e[2] = y
    <3>1. <<e[1], y>> \in A /\ Leads(V, A, e[1], e[1])
      BY <2>1, <2>2, LeadsSelf
    <3> QED BY <2>1, <3>1
  <2>3. CASE e[2] # y
    <3>1. PICK q \in V : <<q, y>> \in A /\ Leads(V, A, e[2], q)
      BY <2>3
    <3>2. Leads(V, A, e[1], q)
      BY <2>1, <3>1, LeadsOn
    <3> QED BY <2>1, <3>1, <3>2
  <2> QED BY <2>2, <2>3
<1>2. y \in S /\ S \in SUBSET V
  OBVIOUS
<1>3. x \in S
  BY <1>1, <1>2 DEF Leads
<1> QED
  BY <1>3

\* ... and what x leads to is x or has a child of x above it.
LEMMA LeadsByChild ==
  ASSUME NEW V, NEW A \in SUBSET (V \X V), NEW x, NEW y \in V, Leads(V, A, x, y), x # y
  PROVE  \E c \in V : <<x, c>> \in A /\ Leads(V, A, c, y)
<1> DEFINE S == {z \in V : z = y \/ \E c \in V : <<z, c>> \in A /\ Leads(V, A, c, y)}
<1>1. ClosedUp(A, S)
  <2> SUFFICES ASSUME NEW e \in A, e[2] \in S PROVE e[1] \in S
    BY DEF ClosedUp
  <2>1. e[1] \in V /\ e[2] \in V /\ <<e[1], e[2]>> \in A
    OBVIOUS
  <2>2. Leads(V, A, e[2], y)
    <3>1. CASE e[2] = y
      BY <3>1, LeadsSelf
    <3>2. CASE e[2] # y
      <4>1. PICK c \in V : <<e[2], c>> \in A /\ Leads(V, A, c, y)
        BY <3>2
      <4> DEFINE d == <<e[2], c>>
      <4>2. d \in A /\ d[1] = e[2] /\ d[2] = c
        BY <4>1
      <4>3. Leads(V, A, e[2], c)
        BY <4>2, LeadsEdge
      <4> QED BY <4>1, <4>3, LeadsOn
    <3> QED BY <3>1, <3>2
  <2> QED BY <2>1, <2>2
<1>2. y \in S /\ S \in SUBSET V
  OBVIOUS
<1>3. x \in S
  BY <1>1, <1>2 DEF Leads
<1> QED
  BY <1>3

\* Without cycles, no two vertices are above each other.
LEMMA LeadsOneWay ==
  ASSUME NEW V, NEW A \in SUBSET (V \X V), IsAcyclic(V, A), NEW x \in V, NEW y \in V,
         Leads(V, A, x, y), Leads(V, A, y, x)
  PROVE  x = y
<1> SUFFICES ASSUME x # y PROVE FALSE
  OBVIOUS
<1> DEFINE S == {z \in V : Leads(V, A, x, z) /\ Leads(V, A, z, x)}
<1>1. x \in S /\ S \in SUBSET V
  BY LeadsSelf
<1>2. PICK z \in S : \A q \in S : <<q, z>> \notin A
  BY <1>1 DEF IsAcyclic
<1>3. \E u \in V : u # z /\ Leads(V, A, x, u) /\ Leads(V, A, u, z)
  <2>1. CASE z = x
    BY <2>1
  <2>2. CASE z # x
    BY <2>2, LeadsSelf
  <2> QED BY <2>1, <2>2
<1>4. PICK u \in V : u # z /\ Leads(V, A, x, u) /\ Leads(V, A, u, z)
  BY <1>3
<1>5. PICK q \in V : <<q, z>> \in A /\ Leads(V, A, u, q)
  BY <1>4, LeadsByParent
<1>6. Leads(V, A, x, q)
  BY <1>4, <1>5, LeadsOn
<1> DEFINE e == <<q, z>>
<1>7. e \in A /\ e[1] = q /\ e[2] = z
  BY <1>5
<1>8. Leads(V, A, q, z)
  BY <1>7, LeadsEdge
<1>9. Leads(V, A, q, x)
  BY <1>8, LeadsOn
<1> QED
  BY <1>2, <1>5, <1>6, <1>9

\* A property that goes from all parents of a vertex to it holds everywhere.
LEMMA FromParents ==
  ASSUME NEW V, NEW A, IsAcyclic(V, A), NEW P,
         \A y \in V : (\A q \in V : <<q, y>> \in A => q \in P) => y \in P
  PROVE  \A y \in V : y \in P
<1> SUFFICES ASSUME V \ P # {} PROVE FALSE
  OBVIOUS
<1>1. PICK y \in V \ P : \A q \in V \ P : <<q, y>> \notin A
  BY DEF IsAcyclic
<1> QED
  BY <1>1

-----------------------------------------------------------------------------
(* Loops and lists.                                                        *)

LEMMA Smallest ==
  ASSUME NEW M \in SUBSET Nat, M # {}
  PROVE  \E m \in M : \A n \in M : m <= n
<1>1. PICK m \in M : \A n \in M : ~ (<<n, m>> \in OpToRel(<, Nat))
  BY NatLessThanWellFounded, WFMin
<1>2. \A n \in M : ~ (n < m)
  BY <1>1, Zenon DEF OpToRel
<1> QED
  BY <1>2

\* Induction over the turns of a loop.
LEMMA Counting ==
  ASSUME NEW N \in Nat, NEW M, 0 \in M,
         \A n \in 0..N : n # N /\ n \in M => n + 1 \in M
  PROVE  \A n \in 0..N : n \in M
<1> DEFINE L == {n \in 0..N : n \notin M}
<1> SUFFICES ASSUME L # {} PROVE FALSE
  OBVIOUS
<1>1. L \in SUBSET Nat
  OBVIOUS
<1>2. PICK m \in L : \A n \in L : m <= n
  BY <1>1, Smallest
<1>3. m # 0
  BY <1>2
<1>4. m - 1 \in 0..N /\ m - 1 # N /\ ~ (m <= m - 1) /\ m - 1 + 1 = m
  BY <1>2, <1>3
<1>5. m - 1 \in M
  BY <1>2, <1>4
<1> QED
  BY <1>2, <1>4, <1>5

\* A loop of N turns through the states X.
Loops(N, X, first, step) == N \in Nat /\ first \in X /\ step \in [X -> X]

\* It has a state after each turn.
LEMMA Loop ==
  ASSUME NEW N, NEW X, NEW first, NEW step, Loops(N, X, first, step)
  PROVE  \E f : /\ f = [n \in 0..N |-> IF n = 0 THEN first ELSE step[f[n - 1]]]
                /\ f \in [0..N -> X]
<1> DEFINE Upto(k, f) == /\ f \in [0..N -> X] /\ f[0] = first
                         /\ \A n \in 1..k : f[n] = step[f[n - 1]]
           M == {k \in 0..N : \E f : Upto(k, f)}
<1>0. N \in Nat /\ first \in X /\ step \in [X -> X]
  BY DEF Loops
<1> USE <1>0
<1>1. 0 \in M
  <2> DEFINE g == [n \in 0..N |-> first]
  <2>1. g \in [0..N -> X] /\ g[0] = first /\ \A n \in 1..0 : g[n] = step[g[n - 1]]
    OBVIOUS
  <2> HIDE DEF g
  <2> QED BY <2>1
<1>2. ASSUME NEW k \in 0..N, k # N, k \in M PROVE k + 1 \in M
  <2>1. PICK f : Upto(k, f)
    BY <1>2
  <2> DEFINE g == [n \in 0..N |-> IF n = k + 1 THEN step[f[k]] ELSE f[n]]
  <2>2. k + 1 \in 0..N /\ k \in 0..N /\ f[k] \in X
    BY <1>2, <2>1
  <2>3. g \in [0..N -> X] /\ g[0] = first
    BY <2>1, <2>2
  <2>4. ASSUME NEW n \in 1..(k + 1) PROVE g[n] = step[g[n - 1]]
    <3>1. n - 1 \in 0..N /\ n \in 0..N /\ n - 1 # k + 1
      BY <2>2
    <3>2. g[n - 1] = f[n - 1]
      BY <3>1
    <3>3. CASE n = k + 1
      BY <2>2, <3>1, <3>2, <3>3
    <3>4. CASE n # k + 1
      <4>1. n \in 1..k
        BY <3>4, <2>2
      <4>2. f[n] = step[f[n - 1]]
        BY <2>1, <4>1
      <4> QED BY <3>1, <3>2, <3>4, <4>2
    <3> QED BY <3>3, <3>4
  <2> HIDE DEF g
  <2>5. Upto(k + 1, g)
    BY <2>3, <2>4
  <2> QED BY <2>2, <2>5
<1> HIDE DEF M
<1>3. N \in M
  BY <1>1, <1>2, Counting
<1>4. PICK f : Upto(N, f)
  BY <1>3 DEF M
<1>5. \A n \in 0..N : f[n] = IF n = 0 THEN first ELSE step[f[n - 1]]
  <2> SUFFICES ASSUME NEW n \in 0..N, n # 0 PROVE f[n] = step[f[n - 1]]
    BY <1>4
  <2>1. n \in 1..N
    OBVIOUS
  <2> QED BY <1>4, <2>1
<1> QED
  BY <1>4, <1>5

\* The relation before orders the set E.
Orders(before, E) ==
  /\ \A x, y \in E : <<x, y>> \in before \/ <<y, x>> \in before
  /\ \A x, y \in E : <<x, y>> \in before /\ <<y, x>> \in before => x = y
  /\ \A x, y, z \in E : <<x, y>> \in before /\ <<y, z>> \in before => <<x, z>> \in before

\* In a finite set with an order, each place has one element.
LEMMA Ranked ==
  ASSUME NEW E, IsFiniteSet(E), NEW before, Orders(before, E),
         NEW rank, rank = [x \in E |-> Cardinality({y \in E : <<y, x>> \in before})]
  PROVE  /\ Cardinality(E) \in Nat
         /\ \A x \in E : rank[x] \in 1..Cardinality(E)
         /\ \A x, y \in E : rank[x] = rank[y] => x = y
         /\ \A i \in 1..Cardinality(E) : \E x \in E : rank[x] = i
<1> DEFINE Up(x) == {y \in E : <<y, x>> \in before}
           n == Cardinality(E)
<1>1. n \in Nat
  BY FS_CardinalityType
<1>2. ASSUME NEW x \in E
      PROVE  IsFiniteSet(Up(x)) /\ Cardinality(Up(x)) \in Nat /\ Cardinality(Up(x)) <= n /\ x \in Up(x)
  <2>1. Up(x) \in SUBSET E /\ x \in Up(x)
    BY DEF Orders
  <2> QED BY <2>1, FS_Subset, FS_CardinalityType
<1>3. ASSUME NEW x \in E PROVE rank[x] \in 1..n
  <2>1. Up(x) # {}
    BY <1>2
  <2>2. Cardinality(Up(x)) # 0
    BY <1>2, <2>1, FS_EmptySet
  <2>3. rank[x] = Cardinality(Up(x))
    OBVIOUS
  <2> HIDE DEF Up, n
  <2> QED BY <1>1, <1>2, <2>2, <2>3
<1>4. ASSUME NEW x \in E, NEW y \in E, <<x, y>> \in before, rank[x] = rank[y]
      PROVE  x = y
  <2>1. Up(x) \in SUBSET Up(y)
    BY <1>4 DEF Orders
  <2>2. Cardinality(Up(x)) = Cardinality(Up(y))
    BY <1>4
  <2>3. Up(x) = Up(y)
    BY <1>2, <2>1, <2>2, FS_Subset
  <2>4. y \in Up(x)
    BY <1>2, <2>3
  <2> QED BY <1>4, <2>4 DEF Orders
<1>5. \A x, y \in E : rank[x] = rank[y] => x = y
  BY <1>4 DEF Orders
<1>6. IsFiniteSet(1..n) /\ Cardinality(1..n) = n
  <2>1. IsFiniteSet(1..n) /\ Cardinality(1..n) = IF 1 > n THEN 0 ELSE n - 1 + 1
    BY <1>1, FS_Interval
  <2> QED BY <1>1, <2>1
<1>7. rank \in Injection(E, 1..n)
  BY <1>3, <1>5 DEF Injection, IsInjective
<1> HIDE DEF n
<1>8. rank \in Surjection(E, 1..n)
  BY <1>6, <1>7, FS_Injection DEF n
<1>9. \A i \in 1..n : \E x \in E : rank[x] = i
  BY <1>8 DEF Surjection
<1> QED
  BY <1>1, <1>3, <1>5, <1>9 DEF n

-----------------------------------------------------------------------------
(* The edges as petgraph lists them.                                       *)

\* The edges of E have ages, each its own.
Aged(E) ==
  /\ IsFiniteSet(E)
  /\ \A l \in E : l[3] \in Nat
  /\ \A l, m \in E : l[3] = m[3] => l = m

LEMMA AgedSubset ==
  ASSUME NEW E, Aged(E), NEW F \in SUBSET E
  PROVE  Aged(F)
BY FS_Subset DEF Aged

\* Finitely many edges have a newest one.
LEMMA NewestOne ==
  ASSUME NEW E, Aged(E), E # {}
  PROVE  \E l \in E : \A m \in E : m[3] <= l[3]
<1> DEFINE after(l) == {m \in E : m[3] >= l[3]}
           sizes == {Cardinality(after(l)) : l \in E}
<1>1. \A l \in E : after(l) \in SUBSET E /\ IsFiniteSet(after(l)) /\ Cardinality(after(l)) \in Nat
  BY FS_Subset, FS_CardinalityType DEF Aged
<1>2. sizes \in SUBSET Nat /\ sizes # {}
  BY <1>1
<1>3. PICK k \in sizes : \A j \in sizes : k <= j
  BY <1>2, Smallest
<1>4. PICK l \in E : k = Cardinality(after(l))
  BY <1>3
<1> SUFFICES ASSUME NEW m \in E, ~ (m[3] <= l[3]) PROVE FALSE
  OBVIOUS
<1>5. after(m) \in SUBSET after(l) /\ l \in after(l) /\ l \notin after(m)
  BY DEF Aged
<1>6. Cardinality(after(m)) <= Cardinality(after(l)) /\ Cardinality(after(m)) # Cardinality(after(l))
  BY <1>1, <1>5, FS_Subset
<1>7. k <= Cardinality(after(m)) /\ Cardinality(after(m)) \in Nat /\ k \in Nat
  BY <1>1, <1>2, <1>3
<1> QED
  BY <1>4, <1>6, <1>7

\* Newest lists each edge once.
LEMMA NewestLists ==
  ASSUME NEW E, Aged(E), NEW end
  PROVE  /\ Cardinality(E) \in Nat
         /\ \E pick \in [1..Cardinality(E) -> E] :
              /\ Newest(E, end) = [i \in 1..Cardinality(E) |-> pick[i][end]]
              /\ \A i, j \in 1..Cardinality(E) : pick[i] = pick[j] => i = j
              /\ \A l \in E : \E i \in 1..Cardinality(E) : pick[i] = l
<1> DEFINE before == {p \in E \X E : p[1][3] >= p[2][3]}
           rank == [l \in E |-> Cardinality({m \in E : <<m, l>> \in before})]
           n == Cardinality(E)
<1>1. \A l, m \in E : <<l, m>> \in before <=> l[3] >= m[3]
  OBVIOUS
<1>2. Orders(before, E)
  <2>1. \A l \in E : l[3] \in Nat
    BY DEF Aged
  <2> HIDE DEF before
  <2> QED BY <1>1, <2>1 DEF Aged, Orders
<1> HIDE DEF before
<1>3. /\ n \in Nat /\ \A l \in E : rank[l] \in 1..n
      /\ \A l, m \in E : rank[l] = rank[m] => l = m
      /\ \A i \in 1..n : \E l \in E : rank[l] = i
  <2>1. rank = [l \in E |-> Cardinality({m \in E : <<m, l>> \in before})] /\ IsFiniteSet(E)
    BY DEF Aged
  <2> HIDE DEF rank
  <2> QED BY <1>2, <2>1, Ranked
<1>4. \A l \in E : rank[l] = Cardinality({m \in E : m[3] >= l[3]})
  <2> SUFFICES ASSUME NEW l \in E PROVE rank[l] = Cardinality({m \in E : m[3] >= l[3]})
    OBVIOUS
  <2>1. {m \in E : <<m, l>> \in before} = {m \in E : m[3] >= l[3]}
    BY <1>1
  <2> QED BY <2>1
<1> HIDE DEF rank, n
<1> DEFINE pick == [i \in 1..n |-> CHOOSE l \in E : rank[l] = i]
<1>5. \A i \in 1..n : pick[i] \in E /\ rank[pick[i]] = i
  BY <1>3
<1>6. \A i \in 1..n :
        pick[i] = CHOOSE l \in E : Cardinality({m \in E : m[3] >= l[3]}) = i
  <2> SUFFICES ASSUME NEW i \in 1..n
               PROVE  pick[i] = CHOOSE l \in E : Cardinality({m \in E : m[3] >= l[3]}) = i
    OBVIOUS
  <2>1. \A l \in E : rank[l] = i <=> Cardinality({m \in E : m[3] >= l[3]}) = i
    BY <1>4
  <2> QED BY <2>1
<1>7. Newest(E, end) = [i \in 1..n |-> pick[i][end]]
  <2>1. \A i \in 1..n :
          (CHOOSE l \in E : Cardinality({m \in E : m[3] >= l[3]}) = i)[end] = pick[i][end]
    BY <1>6
  <2> HIDE DEF pick
  <2> QED BY <2>1 DEF Newest, n
<1>8. pick \in [1..n -> E]
  BY <1>5
<1> HIDE DEF pick
<1>9. \A i, j \in 1..n : pick[i] = pick[j] => i = j
  BY <1>5
<1>10. \A l \in E : \E i \in 1..n : pick[i] = l
  BY <1>3, <1>5
<1> QED
  BY <1>3, <1>7, <1>8, <1>9, <1>10 DEF n

\* list has each key at that end of E once, if it is not in seen.
Lists(list, key, E, end, seen) ==
  /\ list \in Seq({l[end] : l \in E})
  /\ Keys(key, list) = [i \in 1..Len(list) |-> key[list[i]]]
  /\ \A i \in DOMAIN list : key[list[i]] \notin seen
  /\ \A i, j \in DOMAIN list : key[list[i]] = key[list[j]] => i = j
  /\ \A l \in E : \/ key[l[end]] \in seen
                  \/ \E i \in DOMAIN list : key[list[i]] = key[l[end]]

LEMMA UnseenLists ==
  ASSUME NEW E, Aged(E), NEW end, NEW key, NEW seen
  PROVE  Lists(Unseen(key, E, end, seen), key, E, end, seen)
<1> SUFFICES ASSUME NEW fresh, fresh = Unseen(key, E, end, seen)
             PROVE  Lists(fresh, key, E, end, seen)
  OBVIOUS
<1> DEFINE F == {l \in E : /\ key[l[end]] \notin seen
                           /\ \A m \in E : key[m[end]] = key[l[end]] => m[3] <= l[3]}
           n == Cardinality(F)
<1>1. Aged(F) /\ F \in SUBSET E
  BY AgedSubset
<1>2. fresh = Newest(F, end)
  BY DEF Unseen
<1>3. \A l \in F : key[l[end]] \notin seen
  OBVIOUS
<1>4. \A l, m \in F : key[l[end]] = key[m[end]] => l = m
  BY DEF Aged
<1>5. ASSUME NEW l \in E, key[l[end]] \notin seen
      PROVE  \E m \in F : key[m[end]] = key[l[end]]
  <2> DEFINE G == {m \in E : key[m[end]] = key[l[end]]}
  <2>1. \E m \in G : \A k \in G : k[3] <= m[3]
    <3>1. Aged(G) /\ l \in G
      BY AgedSubset
    <3> QED BY <3>1, NewestOne
  <2>2. PICK m \in G : \A k \in G : k[3] <= m[3]
    BY <2>1
  <2> QED BY <1>5, <2>2
<1> HIDE DEF F
<1>6. PICK pick \in [1..n -> F] :
        /\ fresh = [i \in 1..n |-> pick[i][end]]
        /\ \A i, j \in 1..n : pick[i] = pick[j] => i = j
        /\ \A l \in F : \E i \in 1..n : pick[i] = l
  BY <1>1, <1>2, NewestLists
<1>7. n \in Nat
  BY <1>1, NewestLists
<1>8. fresh \in Seq({l[end] : l \in E}) /\ Len(fresh) = n /\ DOMAIN fresh = 1..n
  BY <1>1, <1>6, <1>7
<1> HIDE DEF n
<1>9. \A i \in 1..n : pick[i] \in F /\ fresh[i] = pick[i][end]
  BY <1>6
<1>10. Keys(key, fresh) = [i \in 1..Len(fresh) |-> key[fresh[i]]]
  BY <1>8 DEF Keys
<1>11. \A i \in 1..n : key[fresh[i]] \notin seen
  BY <1>3, <1>9
<1>12. \A i, j \in 1..n : key[fresh[i]] = key[fresh[j]] => i = j
  BY <1>4, <1>6, <1>9
<1>13. \A l \in E : key[l[end]] \notin seen => \E i \in 1..n : key[fresh[i]] = key[l[end]]
  BY <1>5, <1>6, <1>9
<1> QED
  BY <1>8, <1>10, <1>11, <1>12, <1>13 DEF Lists

-----------------------------------------------------------------------------
(* The graph between the calls.                                            *)

\* An edge is a pair of slots and an age of its own.
LinksAged ==
  /\ \A l \in links : l = <<l[1], l[2], l[3]>> /\ l[3] \in 1..inserted
  /\ \A l, m \in links : l[3] = m[3] => l = m

\* What every call finds.
GraphInv ==
  /\ TypeOK
  /\ NoCycle
  /\ ~ moved => Exact(weights, index)
  /\ LinksAged

LEMMA LinksFinite ==
  ASSUME TypeOK, LinksAged
  PROVE  Aged(links)
<1> DEFINE age == [l \in links |-> l[3]]
<1>1. IsFiniteSet(1..inserted)
  <2>1. inserted \in Nat
    BY DEF TypeOK
  <2> QED BY <2>1, FS_Interval
<1>2. age \in Injection(links, 1..inserted)
  BY DEF LinksAged, Injection, IsInjective
<1>3. IsFiniteSet(links)
  BY <1>1, <1>2, FS_Injection
<1>4. \A l \in links : l[3] \in Nat
  BY DEF LinksAged, TypeOK
<1> QED
  BY <1>3, <1>4 DEF Aged, LinksAged

LEMMA LinksStep ==
  ASSUME TypeOK, LinksAged, [Next]_graphVars
  PROVE  LinksAged'
<1>1. ASSUME UNCHANGED <<links, inserted>> PROVE LinksAged'
  BY <1>1 DEF LinksAged
<1>2. ASSUME NEW b \in Ids, AddNode(b) PROVE LinksAged'
  BY <1>1, <1>2 DEF AddNode
<1>3. ASSUME NEW p \in Ids, NEW c \in Ids, AddEdge(p, c) PROVE LinksAged'
  <2>1. CASE links' = links /\ inserted' = inserted
    BY <1>1, <2>1
  <2>2. CASE /\ links' = links \cup {<<index'[p], index'[c], inserted + 1>>}
             /\ inserted' = inserted + 1
    <3> DEFINE new == <<index'[p], index'[c], inserted + 1>>
    <3>1. inserted \in Nat
      BY DEF TypeOK
    <3>2. new = <<new[1], new[2], new[3]>> /\ new[3] = inserted + 1
      OBVIOUS
    <3> HIDE DEF new
    <3>3. links' = links \cup {new}
      BY <2>2 DEF new
    <3>4. \A l \in links : l[3] \in 1..inserted /\ l[3] # inserted + 1 /\ l[3] \in 1..(inserted + 1)
      BY <3>1 DEF LinksAged
    <3>5. inserted + 1 \in 1..(inserted + 1)
      BY <3>1
    <3> QED BY <2>2, <3>2, <3>3, <3>4, <3>5 DEF LinksAged
  <2> QED BY <1>3, <2>1, <2>2, AddShape
<1>4. ASSUME NEW b \in Ids, RemoveNode(b) PROVE LinksAged'
  <2>1. CASE index[b] \in Slots
    <3> DEFINE s == index[b]
               last == Len(weights)
               Renamed(t) == IF t = last THEN s ELSE t
    <3>1. DropSlot(s) /\ inserted' = inserted
      BY <1>4, <2>1 DEF RemoveNode
    <3>2. \A l \in links' : \E m \in links :
            l = <<Renamed(m[1]), Renamed(m[2]), m[3]>>
      BY <3>1 DEF DropSlot
    <3> HIDE DEF s, Renamed
    <3>3. ASSUME NEW l \in links'
          PROVE  l = <<l[1], l[2], l[3]>> /\ l[3] \in 1..inserted
      <4>1. PICK m \in links : l = <<Renamed(m[1]), Renamed(m[2]), m[3]>>
        BY <3>2
      <4> QED BY <4>1 DEF LinksAged
    <3>4. ASSUME NEW l \in links', NEW k \in links', l[3] = k[3] PROVE l = k
      <4>1. PICK m \in links : l = <<Renamed(m[1]), Renamed(m[2]), m[3]>>
        BY <3>2
      <4>2. PICK n \in links : k = <<Renamed(n[1]), Renamed(n[2]), n[3]>>
        BY <3>2
      <4>3. l[3] = m[3] /\ k[3] = n[3]
        BY <4>1, <4>2
      <4>4. m = n
        BY <3>4, <4>3 DEF LinksAged
      <4> QED BY <4>1, <4>2, <4>4
    <3> QED BY <3>1, <3>3, <3>4 DEF LinksAged
  <2>2. CASE index[b] \notin Slots
    BY <1>1, <1>4, <2>2 DEF RemoveNode
  <2> QED BY <2>1, <2>2
<1>5. CASE UNCHANGED graphVars
  BY <1>1, <1>5 DEF graphVars
<1> QED
  BY <1>2, <1>3, <1>4, <1>5 DEF Next

LEMMA GraphStep ==
  ASSUME GraphInv, [Next]_graphVars
  PROVE  GraphInv'
<1>1. TypeOK' /\ NoCycle'
  BY TypeInductive, AcyclicInductive DEF GraphInv
<1>2. (~ moved => Exact(weights, index))'
  BY ExactInductive DEF GraphInv
<1>3. LinksAged'
  BY LinksStep DEF GraphInv
<1> QED
  BY <1>1, <1>2, <1>3 DEF GraphInv

\* The edges up from a slot and down from it.
LEMMA SlotEdges ==
  ASSUME TypeOK, LinksAged, NEW s
  PROVE  /\ Aged({l \in links : l[2] = s}) /\ Aged({l \in links : l[1] = s})
         /\ \A q \in Slots : <<q, s>> \in Adjacent <=> \E l \in links : l[2] = s /\ l[1] = q
         /\ \A q \in Slots : <<s, q>> \in Adjacent <=> \E l \in links : l[1] = s /\ l[2] = q
<1>1. Aged(links)
  BY LinksFinite
<1>2. {l \in links : l[2] = s} \in SUBSET links /\ {l \in links : l[1] = s} \in SUBSET links
  OBVIOUS
<1>3. Aged({l \in links : l[2] = s}) /\ Aged({l \in links : l[1] = s})
  BY <1>1, <1>2, AgedSubset
<1> QED
  BY <1>3 DEF Adjacent

-----------------------------------------------------------------------------
(* Sequences.                                                              *)

LEMMA ToSetIn ==
  ASSUME NEW S, NEW s \in Seq(S)
  PROVE  /\ ToSet(s) \in SUBSET S /\ Len(s) \in Nat /\ DOMAIN s = 1..Len(s)
         /\ \A x : x \in ToSet(s) <=> \E i \in 1..Len(s) : s[i] = x
BY DEF ToSet

LEMMA ToSetConcat ==
  ASSUME NEW S, NEW s \in Seq(S), NEW t \in Seq(S)
  PROVE  /\ s \o t \in Seq(S) /\ Len(s \o t) = Len(s) + Len(t)
         /\ ToSet(s \o t) = ToSet(s) \cup ToSet(t)
         /\ \A i \in 1..Len(s) : (s \o t)[i] = s[i]
         /\ \A i \in 1..Len(t) : (s \o t)[Len(s) + i] = t[i]
<1>1. /\ s \o t \in Seq(S) /\ Len(s \o t) = Len(s) + Len(t) /\ Len(s) \in Nat /\ Len(t) \in Nat
      /\ \A i \in 1..Len(s) : (s \o t)[i] = s[i] /\ i \in 1..Len(s \o t)
      /\ \A i \in 1..Len(t) : (s \o t)[Len(s) + i] = t[i] /\ Len(s) + i \in 1..Len(s \o t)
  OBVIOUS
<1>2. ASSUME NEW i \in 1..Len(s \o t) PROVE (s \o t)[i] \in ToSet(s) \cup ToSet(t)
  <2>1. CASE i <= Len(s)
    <3>1. i \in 1..Len(s)
      BY <1>1, <2>1
    <3> QED BY <1>1, <3>1, ToSetIn
  <2>2. CASE i > Len(s)
    <3>1. i - Len(s) \in 1..Len(t) /\ Len(s) + (i - Len(s)) = i
      BY <1>1, <2>2
    <3> QED BY <1>1, <3>1, ToSetIn
  <2> QED BY <1>1, <2>1, <2>2
<1>3. ASSUME NEW x \in ToSet(s) \cup ToSet(t) PROVE x \in ToSet(s \o t)
  <2>1. CASE x \in ToSet(s)
    <3>1. PICK i \in 1..Len(s) : s[i] = x
      BY <2>1, ToSetIn
    <3> QED BY <1>1, <3>1, ToSetIn
  <2>2. CASE x \in ToSet(t)
    <3>1. PICK i \in 1..Len(t) : t[i] = x
      BY <2>2, ToSetIn
    <3> QED BY <1>1, <3>1, ToSetIn
  <2> QED BY <1>3, <2>1, <2>2
<1>4. ASSUME NEW x \in ToSet(s \o t) PROVE x \in ToSet(s) \cup ToSet(t)
  <2>1. PICK i \in 1..Len(s \o t) : (s \o t)[i] = x
    BY <1>1, <1>4, ToSetIn
  <2> QED BY <1>2, <2>1
<1>5. ToSet(s \o t) = ToSet(s) \cup ToSet(t)
  BY <1>3, <1>4
<1> QED
  BY <1>1, <1>5

LEMMA FrontLast ==
  ASSUME NEW S, NEW s \in Seq(S), s # <<>>
  PROVE  /\ Front(s) \in Seq(S) /\ Len(Front(s)) = Len(s) - 1 /\ Last(s) \in S
         /\ ToSet(s) = ToSet(Front(s)) \cup {Last(s)}
<1>1. /\ Len(s) \in Nat /\ Len(s) # 0 /\ Front(s) \in Seq(S) /\ Len(Front(s)) = Len(s) - 1
      /\ \A i \in 1..(Len(s) - 1) : Front(s)[i] = s[i]
  <2>1. Len(s) \in Nat /\ Len(s) # 0 /\ 1 \in 1..(Len(s) + 1) /\ Len(s) - 1 \in 0..Len(s)
    OBVIOUS
  <2>2. Front(s) = SubSeq(s, 1, Len(s) - 1)
    BY DEF Front
  <2>3. \A i \in 1..(Len(s) - 1) : s[i] \in S
    OBVIOUS
  <2>4. /\ SubSeq(s, 1, Len(s) - 1) \in Seq(S)
        /\ Len(SubSeq(s, 1, Len(s) - 1)) = IF 1 <= Len(s) - 1 THEN Len(s) - 1 - 1 + 1 ELSE 0
        /\ \A i \in 1..(Len(s) - 1 - 1 + 1) : SubSeq(s, 1, Len(s) - 1)[i] = s[1 + i - 1]
    BY <2>1, <2>3, SubSeqProperties
  <2>5. Len(Front(s)) = Len(s) - 1 /\ Front(s) \in Seq(S)
    <3>1. (IF 1 <= Len(s) - 1 THEN Len(s) - 1 - 1 + 1 ELSE 0) = Len(s) - 1
      <4>1. ASSUME NEW n \in Nat, n # 0 PROVE (IF 1 <= n - 1 THEN n - 1 - 1 + 1 ELSE 0) = n - 1
        <5>1. CASE n = 1
          BY <5>1
        <5>2. CASE n # 1
          <6>1. 1 <= n - 1 /\ n - 1 - 1 + 1 = n - 1
            BY <4>1, <5>2
          <6> QED BY <6>1
        <5> QED BY <5>1, <5>2
      <4> QED BY <2>1, <4>1
    <3>2. Len(SubSeq(s, 1, Len(s) - 1)) = Len(s) - 1
      BY <2>4, <3>1
    <3> QED BY <2>2, <2>4, <3>2
  <2>6. \A i \in 1..(Len(s) - 1) : i \in 1..(Len(s) - 1 - 1 + 1) /\ 1 + i - 1 = i
    BY <2>1
  <2>7. \A i \in 1..(Len(s) - 1) : Front(s)[i] = s[i]
    BY <2>2, <2>4, <2>6
  <2> QED BY <2>1, <2>5, <2>7
<1>2. Last(s) = s[Len(s)] /\ Last(s) \in S
  BY <1>1 DEF Last
<1>3. \A x : x \in ToSet(s) <=> x \in ToSet(Front(s)) \/ x = Last(s)
  <2> SUFFICES ASSUME NEW x PROVE x \in ToSet(s) <=> x \in ToSet(Front(s)) \/ x = Last(s)
    OBVIOUS
  <2>1. ASSUME x \in ToSet(s) PROVE x \in ToSet(Front(s)) \/ x = Last(s)
    <3>1. PICK i \in 1..Len(s) : s[i] = x
      BY <2>1, ToSetIn
    <3>2. i = Len(s) \/ i \in 1..(Len(s) - 1)
      BY <1>1
    <3> QED BY <1>1, <1>2, <3>1, <3>2, ToSetIn
  <2>2. ASSUME x \in ToSet(Front(s)) PROVE x \in ToSet(s)
    <3>1. PICK i \in 1..(Len(s) - 1) : s[i] = x
      BY <1>1, <2>2, ToSetIn
    <3> QED BY <1>1, <3>1, ToSetIn
  <2>3. Last(s) \in ToSet(s)
    BY <1>1, <1>2, ToSetIn
  <2> QED BY <2>1, <2>2, <2>3
<1> QED
  BY <1>1, <1>2, <1>3

LEMMA HeadTail ==
  ASSUME NEW S, NEW s \in Seq(S), s # <<>>
  PROVE  /\ Tail(s) \in Seq(S) /\ Len(Tail(s)) = Len(s) - 1 /\ Head(s) \in S
         /\ ToSet(s) = ToSet(Tail(s)) \cup {Head(s)}
         /\ \A i \in 1..Len(Tail(s)) : Tail(s)[i] = s[i + 1] /\ i + 1 \in 1..Len(s)
<1>1. /\ Len(s) \in Nat /\ Len(s) # 0 /\ Tail(s) \in Seq(S) /\ Len(Tail(s)) = Len(s) - 1
      /\ \A i \in 1..(Len(s) - 1) : Tail(s)[i] = s[i + 1] /\ i + 1 \in 1..Len(s)
      /\ Head(s) = s[1] /\ Head(s) \in S
  OBVIOUS
<1>2. \A x : x \in ToSet(s) <=> x \in ToSet(Tail(s)) \/ x = Head(s)
  <2> SUFFICES ASSUME NEW x PROVE x \in ToSet(s) <=> x \in ToSet(Tail(s)) \/ x = Head(s)
    OBVIOUS
  <2>1. ASSUME x \in ToSet(s) PROVE x \in ToSet(Tail(s)) \/ x = Head(s)
    <3>1. PICK i \in 1..Len(s) : s[i] = x
      BY <2>1, ToSetIn
    <3>2. CASE i = 1
      BY <1>1, <3>1, <3>2
    <3>3. CASE i # 1
      <4>1. i - 1 \in 1..(Len(s) - 1) /\ i - 1 + 1 = i
        BY <1>1, <3>3
      <4>2. Tail(s)[i - 1] = x
        BY <1>1, <3>1, <4>1
      <4>3. i - 1 \in 1..Len(Tail(s))
        BY <1>1, <4>1
      <4> QED BY <1>1, <4>2, <4>3, ToSetIn
    <3> QED BY <3>2, <3>3
  <2>2. ASSUME x \in ToSet(Tail(s)) PROVE x \in ToSet(s)
    <3>1. PICK i \in 1..Len(Tail(s)) : Tail(s)[i] = x
      BY <1>1, <2>2, ToSetIn
    <3>2. i \in 1..(Len(s) - 1) /\ s[i + 1] = x /\ i + 1 \in 1..Len(s)
      BY <1>1, <3>1
    <3> QED BY <1>1, <3>2, ToSetIn
  <2>3. Head(s) \in ToSet(s)
    BY <1>1, ToSetIn
  <2> QED BY <2>1, <2>2, <2>3
<1> QED
  BY <1>1, <1>2

\* A list of different keys of slots is not longer than there are slots.
LEMMA ShortList ==
  ASSUME TypeOK, NEW K, NEW key \in [Slots -> K], NEW out \in Seq(K),
         \A i \in 1..Len(out) : \E x \in Slots : out[i] = key[x],
         \A i, j \in 1..Len(out) : out[i] = out[j] => i = j
  PROVE  Len(out) <= Len(weights)
<1>1. Slots = 1..Len(weights) /\ Len(weights) \in Nat /\ Len(out) \in Nat
  BY SlotFacts
<1> DEFINE f == [i \in 1..Len(out) |-> CHOOSE x \in Slots : out[i] = key[x]]
<1>2. \A i \in 1..Len(out) : f[i] \in Slots /\ out[i] = key[f[i]]
  OBVIOUS
<1> HIDE DEF f
<1>3. f \in Injection(1..Len(out), 1..Len(weights))
  <2>1. f = [i \in 1..Len(out) |-> f[i]]
    BY DEF f
  <2> QED BY <1>1, <1>2, <2>1 DEF Injection, IsInjective
<1>4. ASSUME NEW n \in Nat PROVE IsFiniteSet(1..n) /\ Cardinality(1..n) = n
  <2>1. IsFiniteSet(1..n) /\ Cardinality(1..n) = IF 1 > n THEN 0 ELSE n - 1 + 1
    BY FS_Interval
  <2> QED BY <2>1
<1>5. IsFiniteSet(1..Len(weights)) /\ Cardinality(1..Len(weights)) = Len(weights)
  BY <1>1, <1>4
<1>6. Cardinality(1..Len(out)) <= Cardinality(1..Len(weights))
  BY <1>3, <1>5, FS_Injection
<1>7. Cardinality(1..Len(out)) = Len(out)
  BY <1>1, <1>4
<1> QED
  BY <1>5, <1>6, <1>7

-----------------------------------------------------------------------------
(* Walks upwards.                                                          *)

\* x is y or an ancestor of y, by slots.
Over(x, y) == Leads(Slots, Adjacent, x, y)

\* What the walks rely on: slots are marked by keys of their own.
Walkable(K, key) ==
  /\ TypeOK /\ NoCycle /\ LinksAged
  /\ key \in [Slots -> K]
  /\ \A x, y \in Slots : key[x] = key[y] => x = y

\* No slot has two parents.
OneParent == \A p, q, y \in Slots : <<p, y>> \in Adjacent /\ <<q, y>> \in Adjacent => p = q

LEMMA OverFacts ==
  ASSUME TypeOK, NoCycle
  PROVE  /\ \A x : Over(x, x)
         /\ \A x, y \in Slots : <<x, y>> \in Adjacent => x # y /\ Over(x, y)
         /\ \A x, y, z : Over(x, y) /\ Over(y, z) => Over(x, z)
         /\ \A x : \A y \in Slots : Over(x, y) => x \in Slots
         /\ \A x, y \in Slots : Over(x, y) /\ Over(y, x) => x = y
         /\ \A x : \A y \in Slots : Over(x, y) /\ x # y =>
              /\ \E q \in Slots : <<q, y>> \in Adjacent /\ Over(x, q)
              /\ \E c \in Slots : <<x, c>> \in Adjacent /\ Over(c, y)
<1>1. Adjacent \in SUBSET (Slots \X Slots) /\ IsAcyclic(Slots, Adjacent)
  BY SlotFacts DEF NoCycle
<1>2. \A x : Over(x, x)
  BY LeadsSelf DEF Over
<1>3. ASSUME NEW x \in Slots, NEW y \in Slots, <<x, y>> \in Adjacent PROVE x # y /\ Over(x, y)
  <2> DEFINE e == <<x, y>>
  <2>1. e \in Adjacent /\ e[1] = x /\ e[2] = y
    BY <1>3
  <2> HIDE DEF e
  <2>2. Over(x, y)
    BY <2>1, LeadsEdge DEF Over
  <2>3. ASSUME x = y PROVE FALSE
    <3>1. {x} \in SUBSET Slots /\ {x} # {}
      OBVIOUS
    <3>2. \E s \in {x} : \A t \in {x} : <<t, s>> \notin Adjacent
      BY <1>1, <3>1 DEF IsAcyclic
    <3> QED BY <1>3, <2>3, <3>2
  <2> QED BY <2>2, <2>3
<1>4. \A x, y, z : Over(x, y) /\ Over(y, z) => Over(x, z)
  BY LeadsOn DEF Over
<1>5. \A x : \A y \in Slots : Over(x, y) => x \in Slots
  BY <1>1, LeadsIn DEF Over
<1>6. \A x, y \in Slots : Over(x, y) /\ Over(y, x) => x = y
  BY <1>1, LeadsOneWay DEF Over
<1>7. ASSUME NEW x, NEW y \in Slots, Over(x, y), x # y
      PROVE  /\ \E q \in Slots : <<q, y>> \in Adjacent /\ Over(x, q)
             /\ \E c \in Slots : <<x, c>> \in Adjacent /\ Over(c, y)
  BY <1>1, <1>7, LeadsByParent, LeadsByChild DEF Over
<1>8. \A x : \A y \in Slots : Over(x, y) /\ x # y =>
        /\ \E q \in Slots : <<q, y>> \in Adjacent /\ Over(x, q)
        /\ \E c \in Slots : <<x, c>> \in Adjacent /\ Over(c, y)
  BY <1>7
<1>9. \A x, y \in Slots : <<x, y>> \in Adjacent => x # y /\ Over(x, y)
  BY <1>3
<1> QED
  BY <1>2, <1>9, <1>4, <1>5, <1>6, <1>8, Zenon

\* Each turn takes the last of the stack and lists its parents that are new.
ClimbLists(K, key, w, fresh) ==
  LET marks == [i \in 1..Len(fresh) |-> key[fresh[i]]] IN
  /\ fresh \in Seq(Slots)
  /\ Climb(key, w) = [stack |-> Front(w.stack) \o fresh, out |-> w.out \o marks]
  /\ marks \in Seq(K) /\ Len(marks) = Len(fresh) /\ Len(fresh) \in Nat
  /\ \A i \in 1..Len(fresh) : /\ <<fresh[i], Last(w.stack)>> \in Adjacent
                              /\ key[fresh[i]] \notin ToSet(w.out)
  /\ \A i, j \in 1..Len(fresh) : key[fresh[i]] = key[fresh[j]] => i = j
  /\ \A x \in Slots : <<x, Last(w.stack)>> \in Adjacent =>
       \/ key[x] \in ToSet(w.out)
       \/ \E i \in 1..Len(fresh) : fresh[i] = x

LEMMA ClimbTurn ==
  ASSUME NEW K, NEW key, Walkable(K, key),
         NEW w \in [stack : Seq(Slots), out : Seq(K)], w.stack # <<>>
  PROVE  \E fresh : ClimbLists(K, key, w, fresh)
<1> DEFINE top == Last(w.stack)
           E == {l \in links : l[2] = top}
           fresh == Unseen(key, E, 1, ToSet(w.out))
           marks == [i \in 1..Len(fresh) |-> key[fresh[i]]]
<1> HIDE DEF top
<1>1. /\ Aged(E)
      /\ \A x \in Slots : <<x, top>> \in Adjacent <=> \E l \in links : l[2] = top /\ l[1] = x
  <2>1. TypeOK /\ LinksAged
    BY DEF Walkable
  <2> QED BY ZenonT(30), <2>1, SlotEdges
<1>2. \A l \in E : l[1] \in Slots /\ <<l[1], top>> \in Adjacent
  <2>1. \A l \in links : l[1] \in Slots
    BY DEF Walkable, TypeOK
  <2> QED BY <1>1, <2>1
<1>3. \A x \in Slots : <<x, top>> \in Adjacent => \E l \in E : l[1] = x
  BY <1>1
<1> HIDE DEF E
<1>4. /\ fresh \in Seq({l[1] : l \in E})
      /\ Keys(key, fresh) = marks
      /\ \A i \in DOMAIN fresh : key[fresh[i]] \notin ToSet(w.out)
      /\ \A i, j \in DOMAIN fresh : key[fresh[i]] = key[fresh[j]] => i = j
      /\ \A l \in E : \/ key[l[1]] \in ToSet(w.out)
                      \/ \E i \in DOMAIN fresh : key[fresh[i]] = key[l[1]]
  <2>1. Lists(fresh, key, E, 1, ToSet(w.out))
    BY <1>1, UnseenLists
  <2> QED BY <2>1 DEF Lists
<1>5. Climb(key, w) = [stack |-> Front(w.stack) \o fresh, out |-> w.out \o Keys(key, fresh)]
  BY DEF Climb, E, top
<1> HIDE DEF fresh
<1>6. DOMAIN fresh = 1..Len(fresh) /\ Len(fresh) \in Nat
  BY <1>4
<1>7. \A i \in 1..Len(fresh) : fresh[i] \in Slots /\ <<fresh[i], top>> \in Adjacent
  <2> SUFFICES ASSUME NEW i \in 1..Len(fresh) PROVE fresh[i] \in Slots /\ <<fresh[i], top>> \in Adjacent
    OBVIOUS
  <2>1. PICK l \in E : fresh[i] = l[1]
    BY <1>4, <1>6
  <2> QED BY <1>2, <2>1
<1>8. fresh \in Seq(Slots)
  <2>1. \A i \in 1..Len(fresh) : fresh[i] \in Slots
    BY <1>7
  <2>2. fresh = [i \in 1..Len(fresh) |-> fresh[i]]
    BY <1>4
  <2> QED BY <1>6, <2>1, <2>2
<1>9. marks \in Seq(K) /\ Len(marks) = Len(fresh)
  <2>1. \A i \in 1..Len(fresh) : key[fresh[i]] \in K
    BY <1>7 DEF Walkable
  <2> QED BY <1>6, <2>1
<1> HIDE DEF marks
<1>10. \A x \in Slots : <<x, top>> \in Adjacent =>
         \/ key[x] \in ToSet(w.out)
         \/ \E i \in 1..Len(fresh) : fresh[i] = x
  <2> SUFFICES ASSUME NEW x \in Slots, <<x, top>> \in Adjacent, key[x] \notin ToSet(w.out)
               PROVE  \E i \in 1..Len(fresh) : fresh[i] = x
    OBVIOUS
  <2>1. PICK l \in E : l[1] = x
    BY <1>3
  <2>2. PICK i \in 1..Len(fresh) : key[fresh[i]] = key[x]
    BY <1>4, <1>6, <2>1
  <2>3. fresh[i] = x
    BY <1>7, <2>2 DEF Walkable
  <2> QED BY <2>3
<1>11. Climb(key, w) = [stack |-> Front(w.stack) \o fresh, out |-> w.out \o marks]
  BY <1>4, <1>5
<1>12. \A i \in 1..Len(fresh) : <<fresh[i], top>> \in Adjacent /\ key[fresh[i]] \notin ToSet(w.out)
  BY <1>4, <1>6, <1>7
<1>13. \A i, j \in 1..Len(fresh) : key[fresh[i]] = key[fresh[j]] => i = j
  BY <1>4, <1>6
<1> QED
  BY <1>6, <1>8, <1>9, <1>10, <1>11, <1>12, <1>13 DEF top, marks, ClimbLists

\* The first n elements taken, w is what is left and what was found.
ClimbInv(K, key, start, n, w) ==
  /\ w \in [stack : Seq(Slots), out : Seq(K)]
  /\ \A i \in 1..Len(w.out) : \E x \in Slots : w.out[i] = key[x] /\ x # start /\ Over(x, start)
  /\ \A i, j \in 1..Len(w.out) : w.out[i] = w.out[j] => i = j
  /\ \A i \in 1..Len(w.stack) : Over(w.stack[i], start)
  /\ w.stack # <<>> => n + Len(w.stack) = 1 + Len(w.out)
  /\ \A y \in Slots : y = start \/ key[y] \in ToSet(w.out) =>
       \/ y \in ToSet(w.stack)
       \/ \A q \in Slots : <<q, y>> \in Adjacent => key[q] \in ToSet(w.out)

\* Where no slot has two parents, the walk goes up one chain.
ChainInv(key, w) ==
  /\ Len(w.stack) <= 1
  /\ \A i \in 1..Len(w.out) : \A x \in Slots : w.out[i] = key[x] =>
       /\ \A j \in 1..Len(w.stack) : Over(w.stack[j], x)
       /\ \A j \in 1..Len(w.out) : \A y \in Slots : i < j /\ w.out[j] = key[y] => Over(y, x)

LEMMA ClimbKeeps ==
  ASSUME NEW K, NEW key, Walkable(K, key), NEW start \in Slots, NEW n \in Nat, NEW w,
         ClimbInv(K, key, start, n, w)
  PROVE  /\ ClimbInv(K, key, start, n + 1, Climb(key, w))
         /\ OneParent /\ ChainInv(key, w) => ChainInv(key, Climb(key, w))
<1>1. CASE w.stack = <<>>
  <2>1. Climb(key, w) = w
    BY <1>1 DEF Climb
  <2> QED BY <1>1, <2>1 DEF ClimbInv
<1>2. CASE w.stack # <<>>
  <2> DEFINE top == Last(w.stack)
             rest == Front(w.stack)
             v == Climb(key, w)
             marks(f) == [i \in 1..Len(f) |-> key[f[i]]]
  <2>1. /\ w \in [stack : Seq(Slots), out : Seq(K)]
        /\ w.stack \in Seq(Slots) /\ w.out \in Seq(K)
        /\ Len(w.stack) \in Nat /\ Len(w.out) \in Nat /\ Len(w.stack) # 0
    BY <1>2 DEF ClimbInv
  <2> HIDE DEF v
  <2>0. PICK fresh : ClimbLists(K, key, w, fresh)
    BY <1>2, <2>1, ClimbTurn
  <2>2. /\ fresh \in Seq(Slots)
        /\ v = [stack |-> rest \o fresh, out |-> w.out \o marks(fresh)]
        /\ marks(fresh) \in Seq(K) /\ Len(marks(fresh)) = Len(fresh) /\ Len(fresh) \in Nat
        /\ \A i \in 1..Len(fresh) : /\ <<fresh[i], top>> \in Adjacent
                                    /\ key[fresh[i]] \notin ToSet(w.out)
        /\ \A i, j \in 1..Len(fresh) : key[fresh[i]] = key[fresh[j]] => i = j
        /\ \A x \in Slots : <<x, top>> \in Adjacent =>
             \/ key[x] \in ToSet(w.out)
             \/ \E i \in 1..Len(fresh) : fresh[i] = x
    BY <2>0 DEF ClimbLists, v
  <2> DEFINE m == marks(fresh)
  <2>3. m \in Seq(K) /\ Len(m) = Len(fresh) /\ \A i \in 1..Len(fresh) : m[i] = key[fresh[i]]
    BY <2>2
  <2>4. v.stack = rest \o fresh /\ v.out = w.out \o m
    BY <2>2
  <2> HIDE DEF m, v
  <2>5. /\ rest \in Seq(Slots) /\ Len(rest) = Len(w.stack) - 1 /\ top \in Slots
        /\ ToSet(w.stack) = ToSet(rest) \cup {top}
        /\ \A i \in 1..Len(rest) : rest[i] \in ToSet(w.stack)
    <3>1. rest \in Seq(Slots) /\ Len(rest) = Len(w.stack) - 1 /\ top \in Slots
      BY <1>2, <2>1, FrontLast
    <3>2. ToSet(w.stack) = ToSet(rest) \cup {top}
      BY <1>2, <2>1, FrontLast
    <3> HIDE DEF rest, top
    <3>3. \A i \in 1..Len(rest) : rest[i] \in ToSet(rest)
      BY <3>1, ToSetIn
    <3> QED BY <3>1, <3>2, <3>3
  <2> HIDE DEF rest, top
  <2>6. /\ v.stack \in Seq(Slots) /\ Len(v.stack) = Len(rest) + Len(fresh)
        /\ ToSet(v.stack) = ToSet(rest) \cup ToSet(fresh)
        /\ v.out \in Seq(K) /\ Len(v.out) = Len(w.out) + Len(fresh)
        /\ ToSet(v.out) = ToSet(w.out) \cup ToSet(m)
    <3>1. /\ v.stack \in Seq(Slots) /\ Len(v.stack) = Len(rest) + Len(fresh)
          /\ ToSet(v.stack) = ToSet(rest) \cup ToSet(fresh)
      BY <2>2, <2>4, <2>5, ToSetConcat
    <3>2. /\ v.out \in Seq(K) /\ Len(v.out) = Len(w.out) + Len(fresh)
          /\ ToSet(v.out) = ToSet(w.out) \cup ToSet(m)
      BY <2>1, <2>3, <2>4, ToSetConcat
    <3> QED BY <3>1, <3>2
  <2>13. /\ Len(w.stack) \in Nat /\ Len(w.stack) # 0 /\ Len(w.out) \in Nat /\ Len(fresh) \in Nat
         /\ Len(rest) = Len(w.stack) - 1
         /\ Len(v.stack) = Len(rest) + Len(fresh) /\ Len(v.out) = Len(w.out) + Len(fresh)
    BY <2>1, <2>2, <2>5, <2>6, Zenon
  <2>7. ASSUME NEW i \in 1..Len(v.out)
        PROVE  \/ i \in 1..Len(w.out) /\ v.out[i] = w.out[i]
               \/ /\ i - Len(w.out) \in 1..Len(fresh)
                  /\ v.out[i] = key[fresh[i - Len(w.out)]]
    <3>1. Len(w.out) \in Nat /\ Len(fresh) \in Nat
      BY <2>1
    <3>2. CASE i <= Len(w.out)
      <4>1. i \in 1..Len(w.out)
        BY <3>1, <3>2
      <4> QED BY <2>1, <2>3, <2>4, <4>1, ToSetConcat
    <3>3. CASE i > Len(w.out)
      <4>1. i - Len(w.out) \in 1..Len(fresh) /\ Len(w.out) + (i - Len(w.out)) = i
        BY <3>1, <3>3, <2>6
      <4>2. (w.out \o m)[Len(w.out) + (i - Len(w.out))] = m[i - Len(w.out)]
        BY <2>1, <2>3, <4>1, ToSetConcat
      <4> QED BY <2>3, <2>4, <4>1, <4>2
    <3> QED BY <3>1, <3>2, <3>3
  <2>8. /\ \A i \in 1..Len(w.out) : w.out[i] \in ToSet(w.out)
        /\ \A i \in 1..Len(fresh) : fresh[i] \in Slots /\ fresh[i] \in ToSet(fresh) /\ m[i] \in ToSet(m)
        /\ \A y \in Slots : key[y] \in ToSet(m) => y \in ToSet(fresh)
    <3>1. /\ \A i \in 1..Len(w.out) : w.out[i] \in ToSet(w.out)
          /\ \A i \in 1..Len(fresh) : fresh[i] \in Slots /\ fresh[i] \in ToSet(fresh) /\ m[i] \in ToSet(m)
      <4>1. \A i \in 1..Len(w.out) : w.out[i] \in ToSet(w.out)
        BY <2>1, ToSetIn
      <4>2. \A i \in 1..Len(fresh) : fresh[i] \in Slots /\ fresh[i] \in ToSet(fresh)
        BY <2>2, ToSetIn
      <4>3. \A i \in 1..Len(fresh) : m[i] \in ToSet(m)
        BY <2>3, ToSetIn
      <4> QED BY <4>1, <4>2, <4>3
    <3>2. ASSUME NEW y \in Slots, key[y] \in ToSet(m) PROVE y \in ToSet(fresh)
      <4>1. PICK i \in 1..Len(fresh) : m[i] = key[y]
        BY <2>3, <3>2, ToSetIn
      <4>2. fresh[i] = y
        BY <2>3, <3>1, <4>1 DEF Walkable
      <4> QED BY <3>1, <4>2
    <3> QED BY <3>1, <3>2
  <2>9. Over(top, start)
    <3>1. top \in ToSet(w.stack)
      BY <2>5
    <3>2. \E j \in 1..Len(w.stack) : w.stack[j] = top
      BY <2>1, <3>1, ToSetIn
    <3> QED BY <3>2 DEF ClimbInv
  <2>10. ASSUME NEW i \in 1..Len(fresh)
         PROVE  fresh[i] # start /\ Over(fresh[i], start) /\ Over(fresh[i], top)
    <3>1. /\ fresh[i] \in Slots /\ <<fresh[i], top>> \in Adjacent
          /\ fresh[i] # top /\ Over(fresh[i], top) /\ Over(fresh[i], start)
      BY <2>2, <2>5, <2>8, <2>9, OverFacts DEF Walkable
    <3>2. ASSUME fresh[i] = start PROVE FALSE
      BY <2>5, <2>9, <3>1, <3>2, OverFacts DEF Walkable
    <3> QED BY <3>1, <3>2
  <2>11. ClimbInv(K, key, start, n + 1, v)
    <3>1. v \in [stack : Seq(Slots), out : Seq(K)]
      <4>1. v = [stack |-> rest \o fresh, out |-> w.out \o m]
        BY <2>2 DEF m, v, rest, top
      <4> QED BY <2>4, <2>6, <4>1
    <3>2. ASSUME NEW i \in 1..Len(v.out)
          PROVE  \E x \in Slots : v.out[i] = key[x] /\ x # start /\ Over(x, start)
      BY <2>7, <2>8, <2>10 DEF ClimbInv
    <3>3. ASSUME NEW i \in 1..Len(v.out), NEW j \in 1..Len(v.out), v.out[i] = v.out[j]
          PROVE  i = j
      <4>1. \A a \in 1..Len(fresh) : \A b \in 1..Len(w.out) : key[fresh[a]] # w.out[b]
        BY <2>2, <2>8
      <4>2. /\ \A a, b \in 1..Len(w.out) : w.out[a] = w.out[b] => a = b
            /\ \A a, b \in 1..Len(fresh) : key[fresh[a]] = key[fresh[b]] => a = b
        BY <2>2 DEF ClimbInv
      <4>3. CASE i \in 1..Len(w.out) /\ v.out[i] = w.out[i]
        <5>1. ~ (j - Len(w.out) \in 1..Len(fresh) /\ v.out[j] = key[fresh[j - Len(w.out)]])
          BY <3>3, <4>1, <4>3
        <5>2. j \in 1..Len(w.out) /\ v.out[j] = w.out[j]
          BY <2>7, <5>1
        <5> QED BY <3>3, <4>2, <4>3, <5>2
      <4>4. CASE i - Len(w.out) \in 1..Len(fresh) /\ v.out[i] = key[fresh[i - Len(w.out)]]
        <5>1. j - Len(w.out) \in 1..Len(fresh) /\ v.out[j] = key[fresh[j - Len(w.out)]]
          BY <2>7, <3>3, <4>1, <4>4
        <5>2. i - Len(w.out) = j - Len(w.out)
          BY <3>3, <4>2, <4>4, <5>1
        <5>3. \A a \in Nat : i - a = j - a => i = j
          OBVIOUS
        <5>4. i = j
          BY <2>13, <5>2, <5>3
        <5> QED BY <5>4
      <4> QED BY <2>7, <4>3, <4>4
    <3>4. ASSUME NEW i \in 1..Len(v.stack) PROVE Over(v.stack[i], start)
      <4>1. v.stack[i] \in ToSet(rest) \cup ToSet(fresh)
        BY <2>6, ToSetIn
      <4>2. CASE v.stack[i] \in ToSet(rest)
        <5>1. v.stack[i] \in ToSet(w.stack)
          BY <2>5, <4>2
        <5>2. \E j \in 1..Len(w.stack) : w.stack[j] = v.stack[i]
          BY <2>1, <5>1, ToSetIn
        <5> QED BY <5>2 DEF ClimbInv
      <4>3. CASE v.stack[i] \in ToSet(fresh)
        <5>1. PICK j \in 1..Len(fresh) : fresh[j] = v.stack[i]
          BY <2>2, <4>3, ToSetIn
        <5> QED BY <2>10, <5>1
      <4> QED BY <4>1, <4>2, <4>3
    <3>5. n + 1 + Len(v.stack) = 1 + Len(v.out)
      <4>1. n + Len(w.stack) = 1 + Len(w.out)
        BY <1>2 DEF ClimbInv
      <4>2. PICK a \in Nat, b \in Nat, c \in Nat : a = Len(w.stack) /\ b = Len(w.out) /\ c = Len(fresh)
        BY <2>13
      <4>3. Len(v.stack) = a - 1 + c /\ Len(v.out) = b + c /\ n + a = 1 + b
        BY <2>13, <4>1, <4>2
      <4> QED BY <4>3
    <3>6. ASSUME NEW y \in Slots, y = start \/ key[y] \in ToSet(v.out), y \notin ToSet(v.stack),
                 NEW q \in Slots, <<q, y>> \in Adjacent
          PROVE  key[q] \in ToSet(v.out)
      <4>1. y = start \/ key[y] \in ToSet(w.out)
        BY <2>6, <2>8, <3>6
      <4>2. CASE y = top
        <5>1. key[q] \in ToSet(w.out) \/ \E i \in 1..Len(fresh) : fresh[i] = q
          BY <2>2, <3>6, <4>2
        <5> QED BY <2>3, <2>6, <2>8, <5>1
      <4>3. CASE y # top
        <5>1. y \notin ToSet(w.stack)
          BY <2>5, <2>6, <3>6, <4>3
        <5> QED BY <2>6, <3>6, <4>1, <5>1 DEF ClimbInv
      <4> QED BY <4>2, <4>3
    <3> QED BY <3>1, <3>2, <3>3, <3>4, <3>5, <3>6 DEF ClimbInv
  <2>12. ASSUME OneParent, ChainInv(key, w) PROVE ChainInv(key, v)
    <3>1. /\ Len(rest) = 0 /\ Len(fresh) \in Nat /\ Len(w.out) \in Nat /\ Len(w.stack) \in Nat
          /\ Len(w.stack) >= 1
      <4>1. Len(w.stack) <= 1
        BY <2>12 DEF ChainInv
      <4>2. \A a, b : a \in Nat /\ a # 0 /\ a <= 1 /\ b = a - 1 => b = 0 /\ a >= 1
        OBVIOUS
      <4> QED BY <2>13, <4>1, <4>2, Zenon
    <3>2. ASSUME NEW a \in 1..Len(fresh), NEW b \in 1..Len(fresh) PROVE a = b
      <4>1. /\ fresh[a] \in Slots /\ <<fresh[a], top>> \in Adjacent
            /\ fresh[b] \in Slots /\ <<fresh[b], top>> \in Adjacent /\ top \in Slots
        BY <2>2, <2>5, <2>8
      <4>2. fresh[a] = fresh[b]
        BY <2>12, <4>1 DEF OneParent
      <4> QED BY <2>2, <4>2
    <3>3. Len(fresh) <= 1
      <4>1. ASSUME ~ (Len(fresh) <= 1) PROVE FALSE
        <5>1. 1 \in 1..Len(fresh) /\ 2 \in 1..Len(fresh)
          BY <3>1, <4>1
        <5> QED BY <3>2, <5>1
      <4> QED BY <4>1
    <3>4. \A i \in 1..Len(w.out) : \A x \in Slots : w.out[i] = key[x] => Over(top, x)
      <4>1. \E j \in 1..Len(w.stack) : w.stack[j] = top
        BY ZenonT(30), <2>1, <2>5, ToSetIn
      <4> QED BY <2>12, <4>1 DEF ChainInv
    <3>5. ASSUME NEW i \in 1..Len(w.out), NEW x \in Slots, w.out[i] = key[x],
                 NEW a \in 1..Len(fresh)
          PROVE  Over(fresh[a], x)
      BY <2>10, <3>4, <3>5, OverFacts DEF Walkable
    <3>6. ASSUME NEW j \in 1..Len(v.stack) PROVE j \in 1..Len(fresh) /\ v.stack[j] = fresh[j]
      <4>1. j \in 1..Len(fresh) /\ Len(rest) + j = j
        BY <2>6, <3>1
      <4> QED BY SMTT(30), <2>4, <2>5, <4>1, ToSetConcat
    <3>7. ASSUME NEW i \in 1..Len(v.out), NEW x \in Slots, v.out[i] = key[x],
                 NEW j \in 1..Len(v.stack)
          PROVE  Over(v.stack[j], x)
      <4>1. CASE i \in 1..Len(w.out) /\ v.out[i] = w.out[i]
        BY <3>5, <3>6, <3>7, <4>1
      <4>2. CASE i - Len(w.out) \in 1..Len(fresh) /\ v.out[i] = key[fresh[i - Len(w.out)]]
        <5>1. fresh[i - Len(w.out)] = x
          BY <2>8, <3>7, <4>2 DEF Walkable
        <5>2. v.stack[j] = x
          BY <3>2, <3>6, <4>2, <5>1
        <5> QED BY <5>2, OverFacts DEF Walkable
      <4> QED BY <2>7, <4>1, <4>2
    <3>8. ASSUME NEW i \in 1..Len(v.out), NEW x \in Slots, v.out[i] = key[x],
                 NEW j \in 1..Len(v.out), NEW y \in Slots, i < j, v.out[j] = key[y]
          PROVE  Over(y, x)
      <4>1. CASE i \in 1..Len(w.out) /\ v.out[i] = w.out[i]
        <5>1. CASE j \in 1..Len(w.out) /\ v.out[j] = w.out[j]
          BY <2>12, <3>8, <4>1, <5>1 DEF ChainInv
        <5>2. CASE j - Len(w.out) \in 1..Len(fresh) /\ v.out[j] = key[fresh[j - Len(w.out)]]
          <6>1. fresh[j - Len(w.out)] = y
            BY <2>8, <3>8, <5>2 DEF Walkable
          <6> QED BY <3>5, <3>8, <4>1, <5>2, <6>1
        <5> QED BY <2>7, <5>1, <5>2
      <4>2. CASE i - Len(w.out) \in 1..Len(fresh)
        <5>1. i \in Nat /\ j \in Nat /\ j <= Len(w.out) + Len(fresh)
          BY <2>6, <3>1
        <5> QED BY <3>1, <3>3, <3>8, <4>2, <5>1
      <4> QED BY <2>7, <4>1, <4>2
    <3>9. Len(v.stack) <= 1
      BY <2>6, <3>1, <3>3
    <3> QED BY <3>7, <3>8, <3>9 DEF ChainInv
  <2> QED BY <2>11, <2>12 DEF v
<1> QED
  BY <1>1, <1>2

\* Some first state and one after each turn, up to the last one.
LEMMA UpwardsWalks ==
  ASSUME NEW K, NEW key, Walkable(K, key), NEW start \in Slots
  PROVE  \E walk : /\ Upwards(key, start) = walk[Turns].out
                   /\ walk[0] = [stack |-> <<start>>, out |-> <<>>]
                   /\ \A n \in 0..Turns : n # Turns => walk[n + 1] = Climb(key, walk[n])
<1> DEFINE X == [stack : Seq(Slots), out : Seq(K)]
           first == [stack |-> <<start>>, out |-> <<>>]
           step == [w \in X |-> Climb(key, w)]
<1>1. first \in X
  OBVIOUS
<1>2. ASSUME NEW w \in X PROVE Climb(key, w) \in X
  <2>1. CASE w.stack = <<>>
    BY <2>1 DEF Climb
  <2>2. CASE w.stack # <<>>
    <3>1. PICK fresh : ClimbLists(K, key, w, fresh)
      BY <2>2, ClimbTurn
    <3>2. Front(w.stack) \in Seq(Slots) /\ w.out \in Seq(K)
      BY <2>2, FrontLast
    <3> QED BY <3>1, <3>2 DEF ClimbLists
  <2> QED BY <2>1, <2>2
<1> HIDE DEF X, first
<1>3. step \in [X -> X]
  BY <1>2
<1> HIDE DEF step
<1>4. Turns \in Nat
  BY SlotFacts DEF Turns, Walkable
<1>5. PICK f : f = [n \in 0..Turns |-> IF n = 0 THEN first ELSE step[f[n - 1]]] /\ f \in [0..Turns -> X]
  <2>1. Loops(Turns, X, first, step)
    BY <1>1, <1>3, <1>4 DEF Loops
  <2> QED BY <2>1, Loop
<1>6. f = [n \in 0..Turns |-> IF n = 0 THEN first ELSE Climb(key, f[n - 1])]
  <2>1. ASSUME NEW n \in 0..Turns
        PROVE  (IF n = 0 THEN first ELSE step[f[n - 1]]) = (IF n = 0 THEN first ELSE Climb(key, f[n - 1]))
    <3>1. CASE n = 0
      BY <3>1
    <3>2. CASE n # 0
      <4>1. n - 1 \in 0..Turns
        BY <1>4, <3>2
      <4>2. f[n - 1] \in X
        BY <1>5, <4>1
      <4> QED BY <3>2, <4>2 DEF step
    <3> QED BY <3>1, <3>2
  <2> QED BY <1>5, <2>1
<1> DEFINE walk == CHOOSE g : g = [n \in 0..Turns |-> IF n = 0 THEN first ELSE Climb(key, g[n - 1])]
<1>7. Upwards(key, start) = walk[Turns].out
  BY DEF Upwards, first
<1>8. walk = [n \in 0..Turns |-> IF n = 0 THEN first ELSE Climb(key, walk[n - 1])]
  BY <1>6
<1> HIDE DEF walk
<1>9. walk[0] = first
  BY <1>4, <1>8
<1>10. ASSUME NEW n \in 0..Turns, n # Turns PROVE walk[n + 1] = Climb(key, walk[n])
  <2>1. n + 1 \in 0..Turns /\ n + 1 # 0 /\ n + 1 - 1 = n
    BY <1>4, <1>10
  <2> QED BY <1>8, <2>1
<1> QED
  BY <1>7, <1>9, <1>10 DEF first

\* out lists the keys of the strict ancestors of start, each once, and where no
\* slot has two parents from the closest up.
ListsAncestors(K, key, start, out) ==
  /\ out \in Seq(K)
  /\ \A k : k \in ToSet(out) <=> \E x \in Slots : k = key[x] /\ x # start /\ Over(x, start)
  /\ \A i, j \in 1..Len(out) : out[i] = out[j] => i = j
  /\ OneParent => \A i, j \in 1..Len(out) : \A x, y \in Slots :
                    i < j /\ out[i] = key[x] /\ out[j] = key[y] => Over(y, x)

LEMMA UpwardsFinds ==
  ASSUME NEW K, NEW key, Walkable(K, key), NEW start \in Slots
  PROVE  ListsAncestors(K, key, start, Upwards(key, start))
<1>1. PICK walk : /\ Upwards(key, start) = walk[Turns].out
                  /\ walk[0] = [stack |-> <<start>>, out |-> <<>>]
                  /\ \A n \in 0..Turns : n # Turns => walk[n + 1] = Climb(key, walk[n])
  BY UpwardsWalks
<1>2. Turns = Len(weights) + 1 /\ Len(weights) \in Nat
  BY SlotFacts DEF Turns, Walkable
<1> DEFINE M == {n \in 0..Turns : /\ ClimbInv(K, key, start, n, walk[n])
                                  /\ OneParent => ChainInv(key, walk[n])}
<1>3. 0 \in M
  <2> DEFINE w == [stack |-> <<start>>, out |-> <<>>]
  <2>1. /\ w \in [stack : Seq(Slots), out : Seq(K)]
        /\ w.stack = <<start>> /\ w.out = <<>> /\ Len(w.stack) = 1 /\ Len(w.out) = 0
        /\ start \in ToSet(<<start>>) /\ ToSet(<<>>) = {}
    <3>1. start \in ToSet(<<start>>) /\ ToSet(<<>>) = {}
      BY DEF ToSet
    <3> QED BY <3>1
  <2>2. \A i \in 1..1 : <<start>>[i] = start
    OBVIOUS
  <2> HIDE DEF w
  <2>3. Over(start, start)
    BY OverFacts DEF Walkable
  <2>4. ClimbInv(K, key, start, 0, w)
    BY <2>1, <2>2, <2>3 DEF ClimbInv
  <2>5. ChainInv(key, w)
    BY <2>1 DEF ChainInv
  <2>6. walk[0] = w
    BY <1>1 DEF w
  <2> QED BY <1>2, <2>4, <2>5, <2>6
<1>4. ASSUME NEW n \in 0..Turns, n # Turns, n \in M PROVE n + 1 \in M
  <2>1. walk[n + 1] = Climb(key, walk[n]) /\ n + 1 \in 0..Turns /\ n \in Nat
    BY <1>1, <1>2, <1>4
  <2>2. ClimbInv(K, key, start, n, walk[n]) /\ (OneParent => ChainInv(key, walk[n]))
    BY <1>4
  <2>3. /\ ClimbInv(K, key, start, n + 1, Climb(key, walk[n]))
        /\ OneParent /\ ChainInv(key, walk[n]) => ChainInv(key, Climb(key, walk[n]))
    BY <2>1, <2>2, ClimbKeeps
  <2> QED BY <2>1, <2>2, <2>3
<1> HIDE DEF M
<1>5. Turns \in M
  BY <1>2, <1>3, <1>4, Counting
<1> DEFINE w == walk[Turns]
           out == w.out
<1>6. ClimbInv(K, key, start, Turns, w) /\ (OneParent => ChainInv(key, w))
  BY <1>5 DEF M
<1> HIDE DEF w
<1>7. out \in Seq(K) /\ w.stack \in Seq(Slots) /\ Len(w.stack) \in Nat /\ Len(out) \in Nat
  BY <1>6 DEF ClimbInv
<1> HIDE DEF out
<1>8. /\ \A i \in 1..Len(out) : \E x \in Slots : out[i] = key[x] /\ x # start /\ Over(x, start)
      /\ \A i, j \in 1..Len(out) : out[i] = out[j] => i = j
      /\ w.stack # <<>> => Turns + Len(w.stack) = 1 + Len(out)
      /\ \A y \in Slots : y = start \/ key[y] \in ToSet(out) =>
           \/ y \in ToSet(w.stack)
           \/ \A q \in Slots : <<q, y>> \in Adjacent => key[q] \in ToSet(out)
  BY <1>6 DEF ClimbInv, out
<1>9. Len(out) <= Len(weights)
  BY <1>7, <1>8, ShortList DEF Walkable
<1>10. w.stack = <<>>
  <2> SUFFICES ASSUME w.stack # <<>> PROVE FALSE
    OBVIOUS
  <2>1. Len(w.stack) # 0
    BY <1>7
  <2>2. PICK a \in Nat, b \in Nat, c \in Nat : a = Len(w.stack) /\ b = Len(out) /\ c = Len(weights)
    BY <1>2, <1>7
  <2>3. c + 1 + a = 1 + b /\ b <= c /\ a # 0
    BY <1>2, <1>8, <1>9, <2>1, <2>2
  <2> QED BY <2>3
<1>11. \A y \in Slots : y = start \/ key[y] \in ToSet(out) =>
         \A q \in Slots : <<q, y>> \in Adjacent => key[q] \in ToSet(out)
  <2>1. ToSet(w.stack) = {}
    BY <1>10 DEF ToSet
  <2> QED BY <1>8, <2>1
<1>12. ASSUME NEW x \in Slots, x # start, Over(x, start) PROVE key[x] \in ToSet(out)
  <2> DEFINE S == {y \in Slots : y = start \/ key[y] \in ToSet(out)}
  <2>1. ASSUME NEW e \in Adjacent, e[2] \in S PROVE e[1] \in S
    <3>1. e = <<e[1], e[2]>> /\ e[1] \in Slots
      BY SlotFacts DEF Walkable
    <3> QED BY <1>11, <2>1, <3>1
  <2>2. ClosedUp(Adjacent, S)
    BY <2>1 DEF ClosedUp
  <2>3. S \in SUBSET Slots /\ start \in S
    OBVIOUS
  <2>4. x \in S
    BY <1>12, <2>2, <2>3 DEF Over, Leads
  <2> QED BY <1>12, <2>4
<1>13. ASSUME NEW k PROVE k \in ToSet(out) <=> \E x \in Slots : k = key[x] /\ x # start /\ Over(x, start)
  <2>1. ASSUME k \in ToSet(out) PROVE \E x \in Slots : k = key[x] /\ x # start /\ Over(x, start)
    <3>1. PICK i \in 1..Len(out) : out[i] = k
      BY <1>7, <2>1, ToSetIn
    <3> QED BY <1>8, <3>1
  <2> QED BY <1>12, <2>1
<1>14. ASSUME OneParent, NEW i \in 1..Len(out), NEW j \in 1..Len(out),
              NEW x \in Slots, NEW y \in Slots, i < j, out[i] = key[x], out[j] = key[y]
       PROVE  Over(y, x)
  BY <1>6, <1>14 DEF ChainInv, out
<1> QED
  BY <1>1, <1>7, <1>8, <1>13, <1>14 DEF ListsAncestors, out, w

-----------------------------------------------------------------------------
(* Walks downwards.                                                        *)

\* Ascending lists each slot of a set once.
LEMMA AscendingLists ==
  ASSUME NEW S, IsFiniteSet(S), \A s \in S : s \in Nat
  PROVE  /\ Ascending(S) \in Seq(S)
         /\ \A i, j \in 1..Len(Ascending(S)) : Ascending(S)[i] = Ascending(S)[j] => i = j
         /\ \A s \in S : \E i \in 1..Len(Ascending(S)) : Ascending(S)[i] = s
<1> DEFINE before == {p \in S \X S : p[1] <= p[2]}
           rank == [s \in S |-> Cardinality({t \in S : <<t, s>> \in before})]
           n == Cardinality(S)
<1>1. \A s, t \in S : <<s, t>> \in before <=> s <= t
  OBVIOUS
<1>2. Orders(before, S)
  <2> HIDE DEF before
  <2> QED BY <1>1 DEF Orders
<1> HIDE DEF before
<1>4. /\ n \in Nat /\ \A s \in S : rank[s] \in 1..n
      /\ \A s, t \in S : rank[s] = rank[t] => s = t
      /\ \A i \in 1..n : \E s \in S : rank[s] = i
  <2>1. rank = [s \in S |-> Cardinality({t \in S : <<t, s>> \in before})]
    OBVIOUS
  <2> HIDE DEF rank
  <2> QED BY <1>2, <2>1, Ranked
<1>5. ASSUME NEW s \in S PROVE rank[s] = Cardinality({t \in S : t <= s})
  <2>1. {t \in S : <<t, s>> \in before} = {t \in S : t <= s}
    BY <1>1
  <2> QED BY <2>1
<1> HIDE DEF rank, n
<1> DEFINE list == [i \in 1..n |-> CHOOSE s \in S : rank[s] = i]
<1>6. \A i \in 1..n : list[i] \in S /\ rank[list[i]] = i
  BY <1>4
<1>7. Ascending(S) = list
  <2>2. ASSUME NEW i \in 1..n
        PROVE  (CHOOSE s \in S : Cardinality({t \in S : t <= s}) = i) = list[i]
    <3>1. \A s \in S : rank[s] = i <=> Cardinality({t \in S : t <= s}) = i
      BY <1>5
    <3> QED BY <3>1
  <2>3. list = [i \in 1..n |-> list[i]]
    OBVIOUS
  <2> HIDE DEF list
  <2> QED BY <2>2, <2>3 DEF Ascending, n
<1>8. list \in Seq(S) /\ Len(list) = n
  BY <1>4, <1>6
<1> HIDE DEF list
<1>9. \A i, j \in 1..n : list[i] = list[j] => i = j
  BY <1>6
<1>10. \A s \in S : \E i \in 1..n : list[i] = s
  BY <1>4, <1>6
<1> QED
  BY <1>7, <1>8, <1>9, <1>10

Depths(K) == UNION {[D -> Nat] : D \in SUBSET K}

\* What a walk downwards has left and found: everything left is found.
DescendStates(K, key) ==
  {w \in [queue : Seq(Slots), depth : Depths(K)] :
     \A i \in 1..Len(w.queue) : key[w.queue[i]] \in DOMAIN w.depth}

\* Each turn takes the first of the queue and finds its children that are new.
DescendLists(K, key, w, fresh) ==
  LET v == Descend(key, w) IN
  /\ fresh \in Seq(Slots)
  /\ v.queue = Tail(w.queue) \o fresh
  /\ v \in DescendStates(K, key)
  /\ DOMAIN v.depth = DOMAIN w.depth \cup {key[fresh[i]] : i \in 1..Len(fresh)}
  /\ \A k \in DOMAIN w.depth : v.depth[k] = w.depth[k]
  /\ \A i \in 1..Len(fresh) : /\ <<Head(w.queue), fresh[i]>> \in Adjacent
                              /\ key[fresh[i]] \notin DOMAIN w.depth
                              /\ v.depth[key[fresh[i]]] = w.depth[key[Head(w.queue)]] + 1
  /\ \A i, j \in 1..Len(fresh) : key[fresh[i]] = key[fresh[j]] => i = j
  /\ \A x \in Slots : <<Head(w.queue), x>> \in Adjacent => key[x] \in DOMAIN v.depth

LEMMA DescendTurn ==
  ASSUME NEW K, NEW key, Walkable(K, key),
         NEW w \in DescendStates(K, key), w.queue # <<>>
  PROVE  \E fresh : DescendLists(K, key, w, fresh)
<1> DEFINE node == Head(w.queue)
           E == {l \in links : l[1] = node}
           fresh == Unseen(key, E, 2, DOMAIN w.depth)
           found == ToSet(Keys(key, fresh))
           v == Descend(key, w)
<1>0. /\ w.queue \in Seq(Slots) /\ w.depth \in Depths(K) /\ node \in Slots
      /\ key[node] \in DOMAIN w.depth
      /\ \A i \in 1..Len(w.queue) : key[w.queue[i]] \in DOMAIN w.depth
  <2>1. w.queue \in Seq(Slots) /\ w.depth \in Depths(K)
    BY DEF DescendStates
  <2>2. node = w.queue[1] /\ 1 \in 1..Len(w.queue) /\ node \in Slots
    BY <2>1
  <2> HIDE DEF node
  <2>3. \A i \in 1..Len(w.queue) : key[w.queue[i]] \in DOMAIN w.depth
    BY DEF DescendStates
  <2> QED BY <2>1, <2>2, <2>3
<1>1. v = [queue |-> Tail(w.queue) \o fresh,
           depth |-> [k \in DOMAIN w.depth \cup found |->
                        IF k \in found THEN w.depth[key[node]] + 1 ELSE w.depth[k]]]
  BY DEF Descend
<1> HIDE DEF node
<1>2. /\ Aged(E)
      /\ \A x \in Slots : <<node, x>> \in Adjacent <=> \E l \in links : l[1] = node /\ l[2] = x
  <2>1. TypeOK /\ LinksAged
    BY DEF Walkable
  <2> QED BY ZenonT(30), <2>1, SlotEdges
<1>3. \A l \in E : l[2] \in Slots /\ <<node, l[2]>> \in Adjacent
  <2>1. \A l \in links : l[2] \in Slots
    BY DEF Walkable, TypeOK
  <2> QED BY <1>2, <2>1
<1>4. \A x \in Slots : <<node, x>> \in Adjacent => \E l \in E : l[2] = x
  BY <1>2
<1> HIDE DEF E
<1>5. /\ fresh \in Seq({l[2] : l \in E})
      /\ Keys(key, fresh) = [i \in 1..Len(fresh) |-> key[fresh[i]]]
      /\ \A i \in DOMAIN fresh : key[fresh[i]] \notin DOMAIN w.depth
      /\ \A i, j \in DOMAIN fresh : key[fresh[i]] = key[fresh[j]] => i = j
      /\ \A l \in E : \/ key[l[2]] \in DOMAIN w.depth
                      \/ \E i \in DOMAIN fresh : key[fresh[i]] = key[l[2]]
  <2>1. Lists(fresh, key, E, 2, DOMAIN w.depth)
    BY <1>2, UnseenLists
  <2> QED BY <2>1 DEF Lists
<1> HIDE DEF fresh
<1>6. DOMAIN fresh = 1..Len(fresh) /\ Len(fresh) \in Nat
  BY <1>5
<1>7. \A i \in 1..Len(fresh) : fresh[i] \in Slots /\ <<node, fresh[i]>> \in Adjacent
  <2> SUFFICES ASSUME NEW i \in 1..Len(fresh) PROVE fresh[i] \in Slots /\ <<node, fresh[i]>> \in Adjacent
    OBVIOUS
  <2>1. PICK l \in E : fresh[i] = l[2]
    BY <1>5, <1>6
  <2> QED BY <1>3, <2>1
<1>8. fresh \in Seq(Slots)
  <2>1. \A i \in 1..Len(fresh) : fresh[i] \in Slots
    BY <1>7
  <2>2. fresh = [i \in 1..Len(fresh) |-> fresh[i]]
    BY <1>5
  <2> QED BY <1>6, <2>1, <2>2
<1>9. found = {key[fresh[i]] : i \in 1..Len(fresh)}
  BY <1>5, <1>6 DEF ToSet
<1> HIDE DEF found
<1>10. /\ DOMAIN v.depth = DOMAIN w.depth \cup found
       /\ \A k \in DOMAIN w.depth : v.depth[k] = w.depth[k]
       /\ \A i \in 1..Len(fresh) : v.depth[key[fresh[i]]] = w.depth[key[node]] + 1
  <2>1. \A i \in 1..Len(fresh) : key[fresh[i]] \in found /\ key[fresh[i]] \notin DOMAIN w.depth
    BY <1>5, <1>6, <1>9
  <2>2. \A k \in DOMAIN w.depth : k \notin found
    BY <1>9, <2>1
  <2>3. v.depth = [k \in DOMAIN w.depth \cup found |->
                     IF k \in found THEN w.depth[key[node]] + 1 ELSE w.depth[k]]
    BY <1>1
  <2> HIDE DEF v
  <2> QED BY <2>1, <2>2, <2>3
<1>11. v.queue = Tail(w.queue) \o fresh
  BY <1>1
<1>12. v \in DescendStates(K, key)
  <2>1. PICK D \in SUBSET K : w.depth \in [D -> Nat]
    BY <1>0 DEF Depths
  <2>2. found \in SUBSET K
    BY <1>7, <1>9 DEF Walkable
  <2>3. w.depth[key[node]] + 1 \in Nat /\ DOMAIN w.depth = D
    BY <1>0, <2>1
  <2>4. v.depth \in [D \cup found -> Nat]
    <3>1. v.depth = [k \in D \cup found |->
                       IF k \in found THEN w.depth[key[node]] + 1 ELSE w.depth[k]]
      BY <1>1, <2>3
    <3>2. \A k \in D \cup found : (IF k \in found THEN w.depth[key[node]] + 1 ELSE w.depth[k]) \in Nat
      BY <2>1, <2>3
    <3> HIDE DEF v
    <3> QED BY <3>1, <3>2
  <2>5. v.depth \in Depths(K)
    BY <2>2, <2>4 DEF Depths
  <2>6. Tail(w.queue) \in Seq(Slots) /\ v.queue \in Seq(Slots)
    BY <1>0, <1>8, <1>11, HeadTail, ToSetConcat
  <2>7. v \in [queue : Seq(Slots), depth : Depths(K)]
    BY <1>1, <2>5, <2>6
  <2>8. ASSUME NEW i \in 1..Len(v.queue) PROVE key[v.queue[i]] \in DOMAIN v.depth
    <3>1. v.queue[i] \in ToSet(Tail(w.queue)) \cup ToSet(fresh)
      <4>1. v.queue[i] \in ToSet(v.queue)
        BY <2>6, ToSetIn
      <4> DEFINE rest == Tail(w.queue)
      <4>2. rest \in Seq(Slots) /\ v.queue = rest \o fresh
        BY <1>11, <2>6
      <4> HIDE DEF rest, v
      <4>3. ToSet(rest \o fresh) = ToSet(rest) \cup ToSet(fresh)
        BY <1>8, <4>2, ToSetConcat
      <4> QED BY <4>1, <4>2, <4>3 DEF rest
    <3>2. CASE v.queue[i] \in ToSet(Tail(w.queue))
      <4>1. v.queue[i] \in ToSet(w.queue)
        BY <1>0, <3>2, HeadTail
      <4>2. PICK j \in 1..Len(w.queue) : w.queue[j] = v.queue[i]
        BY <1>0, <4>1, ToSetIn
      <4> QED BY <1>0, <1>10, <4>2
    <3>3. CASE v.queue[i] \in ToSet(fresh)
      <4>1. PICK j \in 1..Len(fresh) : fresh[j] = v.queue[i]
        BY <1>8, <3>3, ToSetIn
      <4> QED BY <1>9, <1>10, <4>1
    <3> QED BY <3>1, <3>2, <3>3
  <2> HIDE DEF v
  <2> QED BY <2>7, <2>8 DEF DescendStates
<1>13. ASSUME NEW x \in Slots, <<node, x>> \in Adjacent PROVE key[x] \in DOMAIN v.depth
  <2>1. PICK l \in E : l[2] = x
    BY <1>4, <1>13
  <2>2. key[x] \in DOMAIN w.depth \/ key[x] \in found
    BY <1>5, <1>6, <1>9, <2>1
  <2> QED BY <1>10, <2>2
<1> HIDE DEF v
<1>14. \A i \in 1..Len(fresh) : <<node, fresh[i]>> \in Adjacent /\ key[fresh[i]] \notin DOMAIN w.depth
  BY <1>5, <1>6, <1>7
<1>15. \A i, j \in 1..Len(fresh) : key[fresh[i]] = key[fresh[j]] => i = j
  BY <1>5, <1>6
<1>16. DOMAIN v.depth = DOMAIN w.depth \cup {key[fresh[i]] : i \in 1..Len(fresh)}
  BY <1>9, <1>10
<1> QED
  BY <1>8, <1>10, <1>11, <1>12, <1>13, <1>14, <1>15, <1>16 DEF DescendLists, v, node

\* What is found is listed once, n of it is no longer in the queue.
CountInv(key, n, w) ==
  \E all \in Seq(Slots) :
    /\ DOMAIN w.depth = {key[all[i]] : i \in 1..Len(all)}
    /\ \A i, j \in 1..Len(all) : all[i] = all[j] => i = j
    /\ w.queue # <<>> => n + Len(w.queue) = Len(all)

\* A slot of depth d that is found was found from one of depth d - 1, and its
\* children have been found when it is no longer in the queue.
DepthInv(key, starts, w) ==
  LET Seen(y) == key[y] \in DOMAIN w.depth
      d(y)     == w.depth[key[y]] IN
  /\ \A y \in Slots : Seen(y) => \E s \in starts : Over(s, y)
  /\ \A s \in starts : Seen(s) /\ d(s) = 0
  /\ \A y \in Slots : Seen(y) =>
       y \in starts \/ \E p \in Slots : <<p, y>> \in Adjacent /\ Seen(p) /\ d(y) = d(p) + 1
  /\ \A y \in Slots : Seen(y) =>
       \/ y \in ToSet(w.queue)
       \/ \A c \in Slots : <<y, c>> \in Adjacent => Seen(c) /\ d(c) <= d(y) + 1

\* Breadth first: the queue is ordered by depth, and nothing that was found is
\* deeper than the children of its first.
QueueInv(key, w) ==
  /\ \A i, j \in 1..Len(w.queue) : i <= j => w.depth[key[w.queue[i]]] <= w.depth[key[w.queue[j]]]
  /\ \A y \in Slots : \A i \in 1..Len(w.queue) :
       key[y] \in DOMAIN w.depth => w.depth[key[y]] <= w.depth[key[w.queue[i]]] + 1

DescendInv(K, key, starts, n, w) ==
  /\ w \in DescendStates(K, key)
  /\ CountInv(key, n, w)
  /\ DepthInv(key, starts, w)
  /\ QueueInv(key, w)

LEMMA DescendKeeps ==
  ASSUME NEW K, NEW key, Walkable(K, key), NEW starts \in SUBSET Slots, NEW n \in Nat, NEW w,
         DescendInv(K, key, starts, n, w)
  PROVE  DescendInv(K, key, starts, n + 1, Descend(key, w))
<1>1. CASE w.queue = <<>>
  <2>1. Descend(key, w) = w
    BY <1>1 DEF Descend
  <2> QED BY <1>1, <2>1 DEF DescendInv, CountInv
<1>2. CASE w.queue # <<>>
  <2> DEFINE h == Head(w.queue)
             r == Tail(w.queue)
             v == Descend(key, w)
             Old(y) == key[y] \in DOMAIN w.depth
             Now(y) == key[y] \in DOMAIN v.depth
             d(y) == w.depth[key[y]]
             e(y) == v.depth[key[y]]
  <2>1. w \in DescendStates(K, key)
    BY DEF DescendInv
  <2>2. PICK fresh : DescendLists(K, key, w, fresh)
    BY <1>2, <2>1, DescendTurn
  <2>3. /\ w.queue \in Seq(Slots) /\ Len(w.queue) \in Nat /\ Len(w.queue) # 0
        /\ r \in Seq(Slots) /\ Len(r) = Len(w.queue) - 1 /\ h \in Slots
        /\ ToSet(w.queue) = ToSet(r) \cup {h}
        /\ \A i \in 1..Len(r) : r[i] = w.queue[i + 1] /\ i + 1 \in 1..Len(w.queue)
        /\ h = w.queue[1] /\ 1 \in 1..Len(w.queue)
    <3>1. w.queue \in Seq(Slots)
      BY <2>1 DEF DescendStates
    <3>2. Len(w.queue) \in Nat /\ Len(w.queue) # 0 /\ h = w.queue[1] /\ 1 \in 1..Len(w.queue)
      BY <1>2, <3>1
    <3>3. /\ r \in Seq(Slots) /\ Len(r) = Len(w.queue) - 1 /\ h \in Slots
          /\ ToSet(w.queue) = ToSet(r) \cup {h}
      BY <1>2, <3>1, HeadTail
    <3>4. \A i \in 1..Len(r) : r[i] = w.queue[i + 1] /\ i + 1 \in 1..Len(w.queue)
      BY <1>2, <3>1, HeadTail
    <3> QED BY <3>1, <3>2, <3>3, <3>4
  <2>4. /\ fresh \in Seq(Slots) /\ v.queue = r \o fresh /\ v \in DescendStates(K, key)
        /\ \A i \in 1..Len(fresh) : /\ <<h, fresh[i]>> \in Adjacent /\ ~ Old(fresh[i])
                                    /\ e(fresh[i]) = d(h) + 1
        /\ \A i, j \in 1..Len(fresh) : key[fresh[i]] = key[fresh[j]] => i = j
        /\ \A x \in Slots : <<h, x>> \in Adjacent => Now(x)
        /\ DOMAIN v.depth = DOMAIN w.depth \cup {key[fresh[i]] : i \in 1..Len(fresh)}
        /\ \A k \in DOMAIN w.depth : v.depth[k] = w.depth[k]
    BY <2>2 DEF DescendLists
  <2>5. /\ Len(fresh) \in Nat /\ \A i \in 1..Len(fresh) : fresh[i] \in Slots
        /\ \A y : y \in ToSet(fresh) <=> \E i \in 1..Len(fresh) : fresh[i] = y
    BY <2>4, ToSetIn
  <2>6. \A y \in Slots : Now(y) <=> Old(y) \/ \E i \in 1..Len(fresh) : fresh[i] = y
    BY <2>4, <2>5 DEF Walkable
  <2>7. \A y \in Slots : Old(y) => e(y) = d(y) /\ d(y) \in Nat
    <3>1. \A k \in DOMAIN w.depth : w.depth[k] \in Nat
      BY <2>1 DEF DescendStates, Depths
    <3> QED BY <2>4, <3>1
  <2>8. \A i \in 1..Len(w.queue) : w.queue[i] \in Slots /\ Old(w.queue[i])
    BY <2>1, <2>3 DEF DescendStates
  <2>9. Old(h) /\ d(h) \in Nat /\ e(h) = d(h)
    BY <2>3, <2>7, <2>8
  <2>10. /\ ToSet(v.queue) = ToSet(r) \cup ToSet(fresh)
         /\ v.queue \in Seq(Slots) /\ Len(v.queue) = Len(r) + Len(fresh)
         /\ \A i \in 1..Len(r) : v.queue[i] = r[i]
         /\ \A i \in 1..Len(fresh) : v.queue[Len(r) + i] = fresh[i]
    <3>1. fresh \in Seq(Slots) /\ v.queue = r \o fresh /\ r \in Seq(Slots)
      BY <2>3, <2>4
    <3> HIDE DEF r, v
    <3> QED BY <3>1, ToSetConcat
  <2>11. ASSUME NEW y \in Slots, Now(y), ~ Old(y) PROVE <<h, y>> \in Adjacent /\ e(y) = d(h) + 1
    <3>1. PICK i \in 1..Len(fresh) : fresh[i] = y
      BY <2>6, <2>11
    <3>2. <<h, fresh[i]>> \in Adjacent /\ e(fresh[i]) = d(h) + 1
      BY <2>4
    <3> HIDE DEF v, h
    <3> QED BY <3>1, <3>2
  <2>12. CountInv(key, n + 1, v)
    <3>1. PICK all \in Seq(Slots) :
            /\ DOMAIN w.depth = {key[all[i]] : i \in 1..Len(all)}
            /\ \A i, j \in 1..Len(all) : all[i] = all[j] => i = j
            /\ n + Len(w.queue) = Len(all)
      BY <1>2 DEF DescendInv, CountInv
    <3> DEFINE more == all \o fresh
    <3>2. /\ more \in Seq(Slots) /\ Len(more) = Len(all) + Len(fresh) /\ Len(all) \in Nat
          /\ \A i \in 1..Len(all) : more[i] = all[i] /\ all[i] \in Slots
          /\ \A i \in 1..Len(fresh) : more[Len(all) + i] = fresh[i] /\ Len(all) + i \in 1..Len(more)
      BY <2>4, <2>5, <3>1
    <3> HIDE DEF more
    <3>3. ASSUME NEW i \in 1..Len(more)
          PROVE  \/ i \in 1..Len(all) /\ more[i] = all[i]
                 \/ i - Len(all) \in 1..Len(fresh) /\ more[i] = fresh[i - Len(all)]
      <4>1. CASE i <= Len(all)
        BY <3>2, <4>1
      <4>2. CASE i > Len(all)
        <5>1. i - Len(all) \in 1..Len(fresh) /\ Len(all) + (i - Len(all)) = i
          BY <2>5, <3>2, <4>2
        <5> QED BY <3>2, <5>1
      <4> QED BY <3>2, <4>1, <4>2
    <3>4. DOMAIN v.depth = {key[more[i]] : i \in 1..Len(more)}
      <4>1. ASSUME NEW i \in 1..Len(more) PROVE key[more[i]] \in DOMAIN v.depth
        <5>1. CASE i \in 1..Len(all) /\ more[i] = all[i]
          <6>1. DOMAIN w.depth \subseteq DOMAIN v.depth
            BY <2>4
          <6>2. key[all[i]] \in DOMAIN w.depth
            BY <3>1, <5>1
          <6> HIDE DEF v
          <6> QED BY <5>1, <6>1, <6>2
        <5>2. CASE i - Len(all) \in 1..Len(fresh) /\ more[i] = fresh[i - Len(all)]
          <6>1. \A j \in 1..Len(fresh) : key[fresh[j]] \in DOMAIN v.depth
            BY <2>4
          <6> HIDE DEF v
          <6> QED BY <5>2, <6>1
        <5> QED BY <3>3, <5>1, <5>2
      <4>2. ASSUME NEW i \in 1..Len(all) PROVE \E j \in 1..Len(more) : key[all[i]] = key[more[j]]
        <5>1. i \in 1..Len(more)
          BY <2>5, <3>2
        <5> QED BY <3>2, <5>1
      <4>3. ASSUME NEW i \in 1..Len(fresh) PROVE \E j \in 1..Len(more) : key[fresh[i]] = key[more[j]]
        BY <3>2
      <4>4. ASSUME NEW k \in DOMAIN v.depth PROVE \E j \in 1..Len(more) : k = key[more[j]]
        <5>1. CASE k \in DOMAIN w.depth
          <6>1. PICK i \in 1..Len(all) : k = key[all[i]]
            BY <3>1, <5>1
          <6> QED BY <4>2, <6>1
        <5>2. CASE k \in {key[fresh[i]] : i \in 1..Len(fresh)}
          <6>1. PICK i \in 1..Len(fresh) : k = key[fresh[i]]
            BY <5>2
          <6> QED BY <4>3, <6>1
        <5> QED BY <2>4, <5>1, <5>2
      <4> HIDE DEF v
      <4> QED BY <4>1, <4>4
    <3>5. \A a \in 1..Len(all) : \A b \in 1..Len(fresh) : all[a] # fresh[b]
      <4>1. \A a \in 1..Len(all) : key[all[a]] \in DOMAIN w.depth
        BY <3>1
      <4>2. \A b \in 1..Len(fresh) : key[fresh[b]] \notin DOMAIN w.depth
        BY <2>4
      <4> QED BY <4>1, <4>2
    <3>6. ASSUME NEW i \in 1..Len(more), NEW j \in 1..Len(more), more[i] = more[j] PROVE i = j
      <4>1. CASE i \in 1..Len(all) /\ more[i] = all[i]
        <5>1. j \in 1..Len(all) /\ more[j] = all[j]
          BY <3>3, <3>5, <3>6, <4>1
        <5> QED BY <3>1, <3>6, <4>1, <5>1
      <4>2. CASE i - Len(all) \in 1..Len(fresh) /\ more[i] = fresh[i - Len(all)]
        <5>1. j - Len(all) \in 1..Len(fresh) /\ more[j] = fresh[j - Len(all)]
          BY <3>3, <3>5, <3>6, <4>2
        <5>2. i - Len(all) = j - Len(all)
          BY <2>4, <3>6, <4>2, <5>1
        <5>3. \A a \in Nat : i - a = j - a => i = j
          OBVIOUS
        <5> QED BY <3>2, <5>2, <5>3
      <4> QED BY <3>3, <4>1, <4>2
    <3>7. n + 1 + Len(v.queue) = Len(more)
      <4>1. PICK a \in Nat, b \in Nat, c \in Nat : a = Len(w.queue) /\ b = Len(all) /\ c = Len(fresh)
        BY <2>3, <2>5, <3>2
      <4>2. Len(v.queue) = a - 1 + c /\ Len(more) = b + c /\ n + a = b
        BY <2>3, <2>10, <3>1, <3>2, <4>1
      <4> QED BY <4>2
    <3> HIDE DEF v
    <3> QED BY <3>2, <3>4, <3>6, <3>7 DEF CountInv
  <2>13. /\ \A y \in Slots : Old(y) => \E s \in starts : Over(s, y)
         /\ \A s \in starts : Old(s) /\ d(s) = 0
         /\ \A y \in Slots : Old(y) =>
              y \in starts \/ \E p \in Slots : <<p, y>> \in Adjacent /\ Old(p) /\ d(y) = d(p) + 1
         /\ \A y \in Slots : Old(y) =>
              \/ y \in ToSet(w.queue)
              \/ \A c \in Slots : <<y, c>> \in Adjacent => Old(c) /\ d(c) <= d(y) + 1
    BY DEF DescendInv, DepthInv
  <2>14. /\ \A i, j \in 1..Len(w.queue) : i <= j => d(w.queue[i]) <= d(w.queue[j])
         /\ \A y \in Slots : \A i \in 1..Len(w.queue) : Old(y) => d(y) <= d(w.queue[i]) + 1
    BY DEF DescendInv, QueueInv
  <2>15. v \in DescendStates(K, key)
    BY <2>4
  <2> HIDE DEF v, d, e, Old, Now, h, r
  <2>16. DepthInv(key, starts, v)
    <3>1. ASSUME NEW y \in Slots, Now(y) PROVE \E s \in starts : Over(s, y)
      <4>1. CASE Old(y)
        BY <2>13, <4>1
      <4>2. CASE ~ Old(y)
        <5>1. <<h, y>> \in Adjacent
          BY <2>11, <3>1, <4>2
        <5>2. PICK s \in starts : Over(s, h)
          BY <2>3, <2>9, <2>13
        <5>3. Over(s, y)
          BY <2>3, <5>1, <5>2, OverFacts DEF Walkable
        <5> QED BY <5>3
      <4> QED BY <4>1, <4>2
    <3>2. \A s \in starts : Now(s) /\ e(s) = 0
      BY <2>6, <2>7, <2>13
    <3>3. ASSUME NEW y \in Slots, Now(y), y \notin starts
          PROVE  \E p \in Slots : <<p, y>> \in Adjacent /\ Now(p) /\ e(y) = e(p) + 1
      <4>1. CASE Old(y)
        <5>1. PICK p \in Slots : <<p, y>> \in Adjacent /\ Old(p) /\ d(y) = d(p) + 1
          BY <2>13, <3>3, <4>1
        <5> QED BY <2>6, <2>7, <4>1, <5>1
      <4>2. CASE ~ Old(y)
        <5>1. <<h, y>> \in Adjacent /\ e(y) = d(h) + 1
          BY <2>11, <3>3, <4>2
        <5> QED BY <2>3, <2>6, <2>9, <5>1
      <4> QED BY <4>1, <4>2
    <3>4. ASSUME NEW y \in Slots, Now(y), y \notin ToSet(v.queue),
                 NEW c \in Slots, <<y, c>> \in Adjacent
          PROVE  Now(c) /\ e(c) <= e(y) + 1
      <4>1. Old(y) /\ e(y) = d(y) /\ y \notin ToSet(r)
        BY <2>5, <2>6, <2>7, <2>10, <3>4
      <4>2. CASE y = h
        <5>1. Now(c)
          BY <2>4, <3>4, <4>2
        <5>2. CASE Old(c)
          <6>1. d(c) <= d(h) + 1
            BY <2>3, <2>14, <5>2
          <6> QED BY <2>7, <4>1, <4>2, <5>1, <5>2, <6>1
        <5>3. CASE ~ Old(c)
          <6>1. e(c) = d(h) + 1
            BY <2>11, <5>1, <5>3
          <6> QED BY <2>9, <4>2, <5>1, <6>1
        <5> QED BY <5>2, <5>3
      <4>3. CASE y # h
        <5>1. y \notin ToSet(w.queue)
          BY <2>3, <4>1, <4>3
        <5>2. Old(c) /\ d(c) <= d(y) + 1
          BY <2>13, <3>4, <4>1, <5>1
        <5> QED BY <2>6, <2>7, <4>1, <5>2
      <4> QED BY <4>2, <4>3
    <3> QED BY <3>1, <3>2, <3>3, <3>4 DEF DepthInv, Now, e
  <2>17. ASSUME NEW i \in 1..Len(v.queue)
         PROVE  \/ i \in 1..Len(r) /\ v.queue[i] = w.queue[i + 1] /\ i + 1 \in 1..Len(w.queue)
                \/ i - Len(r) \in 1..Len(fresh) /\ v.queue[i] = fresh[i - Len(r)]
    <3>1. Len(r) \in Nat
      BY <2>3
    <3>2. CASE i <= Len(r)
      <4>1. i \in 1..Len(r)
        BY <3>1, <3>2
      <4> QED BY <2>3, <2>10, <4>1
    <3>3. CASE i > Len(r)
      <4>1. i - Len(r) \in 1..Len(fresh) /\ Len(r) + (i - Len(r)) = i
        BY <2>5, <2>10, <3>1, <3>3
      <4> QED BY <2>10, <4>1
    <3> QED BY <3>1, <3>2, <3>3
  <2>18. ASSUME NEW i \in 1..Len(v.queue)
         PROVE  /\ v.queue[i] \in Slots /\ Now(v.queue[i]) /\ e(v.queue[i]) \in Nat
                /\ d(h) <= e(v.queue[i]) /\ e(v.queue[i]) <= d(h) + 1
    <3>1. CASE i \in 1..Len(r) /\ v.queue[i] = w.queue[i + 1] /\ i + 1 \in 1..Len(w.queue)
      <4>1. v.queue[i] \in Slots /\ Old(v.queue[i])
        BY <2>8, <3>1
      <4>2. 1 <= i + 1
        OBVIOUS
      <4>3. d(h) <= d(v.queue[i])
        BY <2>3, <2>14, <3>1, <4>2
      <4>4. d(v.queue[i]) <= d(h) + 1
        BY <2>3, <2>14, <4>1
      <4> QED BY <2>6, <2>7, <4>1, <4>3, <4>4
    <3>2. CASE i - Len(r) \in 1..Len(fresh) /\ v.queue[i] = fresh[i - Len(r)]
      <4>1. v.queue[i] \in Slots /\ Now(v.queue[i]) /\ e(v.queue[i]) = d(h) + 1
        BY <2>4, <2>5, <2>6, <3>2
      <4> QED BY <2>9, <4>1
    <3> QED BY <2>17, <3>1, <3>2
  <2>19. QueueInv(key, v)
    <3>1. ASSUME NEW i \in 1..Len(v.queue), NEW j \in 1..Len(v.queue), i <= j
          PROVE  e(v.queue[i]) <= e(v.queue[j])
      <4>1. CASE /\ i \in 1..Len(r) /\ v.queue[i] = w.queue[i + 1] /\ i + 1 \in 1..Len(w.queue)
                 /\ j \in 1..Len(r) /\ v.queue[j] = w.queue[j + 1] /\ j + 1 \in 1..Len(w.queue)
        <5>1. i + 1 <= j + 1
          BY <3>1
        <5>2. d(v.queue[i]) <= d(v.queue[j])
          BY <2>14, <4>1, <5>1
        <5> QED BY <2>7, <2>8, <4>1, <5>2
      <4>2. CASE j - Len(r) \in 1..Len(fresh) /\ v.queue[j] = fresh[j - Len(r)]
        <5>1. e(v.queue[j]) = d(h) + 1
          BY <2>4, <4>2
        <5> QED BY <2>18, <5>1
      <4>3. CASE i - Len(r) \in 1..Len(fresh) /\ j \in 1..Len(r)
        <5>1. Len(r) \in Nat
          BY <2>3
        <5>2. \A a \in Nat : ~ (i - a \in 1..Len(fresh) /\ j \in 1..a)
          BY <3>1
        <5> QED BY <4>3, <5>1, <5>2
      <4> QED BY <2>17, <4>1, <4>2, <4>3
    <3>2. ASSUME NEW y \in Slots, NEW i \in 1..Len(v.queue), Now(y)
          PROVE  e(y) <= e(v.queue[i]) + 1
      <4>1. e(y) <= d(h) + 1 /\ e(y) \in Nat
        <5>1. CASE Old(y)
          BY <2>3, <2>7, <2>14, <5>1
        <5>2. CASE ~ Old(y)
          <6>1. e(y) = d(h) + 1
            BY <2>11, <3>2, <5>2
          <6> QED BY <2>9, <6>1
        <5> QED BY <5>1, <5>2
      <4> QED BY <2>9, <2>18, <4>1
    <3> QED BY <3>1, <3>2 DEF QueueInv, Now, e
  <2> QED BY <2>12, <2>15, <2>16, <2>19 DEF DescendInv, v
<1> QED
  BY <1>1, <1>2

LEMMA FiniteSlots ==
  ASSUME TypeOK, NEW S \in SUBSET Slots
  PROVE  IsFiniteSet(S) /\ \A s \in S : s \in Nat
<1>1. Slots = 1..Len(weights) /\ Len(weights) \in Nat
  BY SlotFacts
<1>2. IsFiniteSet(1..Len(weights))
  BY <1>1, FS_Interval
<1>3. \A s \in S : s \in Nat
  BY <1>1
<1> QED
  BY <1>1, <1>2, <1>3, FS_Subset

\* The queue before the first turn.
LEMMA FirstDescent ==
  ASSUME NEW K, NEW key, Walkable(K, key), NEW starts \in SUBSET Slots, NEW w,
         w = [queue |-> Ascending(starts), depth |-> [k \in {key[s] : s \in starts} |-> 0]]
  PROVE  DescendInv(K, key, starts, 0, w)
<1>1. IsFiniteSet(starts) /\ \A s \in starts : s \in Nat
  BY FiniteSlots DEF Walkable
<1>2. /\ w.queue \in Seq(starts)
      /\ \A i, j \in 1..Len(w.queue) : w.queue[i] = w.queue[j] => i = j
      /\ \A s \in starts : \E i \in 1..Len(w.queue) : w.queue[i] = s
  BY <1>1, AscendingLists
<1>3. /\ DOMAIN w.depth = {key[s] : s \in starts}
      /\ \A s \in starts : w.depth[key[s]] = 0
      /\ w.depth \in [{key[s] : s \in starts} -> Nat]
  OBVIOUS
<1>4. w = [queue |-> w.queue, depth |-> w.depth]
  OBVIOUS
<1>5. w.queue \in Seq(Slots) /\ \A i \in 1..Len(w.queue) : w.queue[i] \in starts /\ w.queue[i] \in Slots
  BY <1>2
<1>6. \A y \in Slots : key[y] \in DOMAIN w.depth => y \in starts
  BY <1>3 DEF Walkable
<1>7. w \in DescendStates(K, key)
  <2>1. {key[s] : s \in starts} \in SUBSET K
    BY DEF Walkable
  <2>2. w.depth \in Depths(K)
    BY <1>3, <2>1 DEF Depths
  <2>3. w \in [queue : Seq(Slots), depth : Depths(K)]
    BY <1>4, <1>5, <2>2
  <2> QED BY <1>3, <1>5, <2>3 DEF DescendStates
<1>8. CountInv(key, 0, w)
  <2>1. {key[s] : s \in starts} = {key[w.queue[i]] : i \in 1..Len(w.queue)}
    BY <1>2, <1>5
  <2>2. 0 + Len(w.queue) = Len(w.queue)
    BY <1>5
  <2> QED BY <1>2, <1>3, <1>5, <2>1, <2>2 DEF CountInv
<1>9. DepthInv(key, starts, w)
  <2>1. \A s \in starts : s \in ToSet(w.queue)
    BY <1>2, <1>5, ToSetIn
  <2>2. \A s \in starts : Over(s, s)
    BY OverFacts DEF Walkable
  <2> QED BY <1>3, <1>6, <2>1, <2>2 DEF DepthInv
<1>10. QueueInv(key, w)
  BY <1>3, <1>5, <1>6 DEF QueueInv
<1> QED
  BY <1>7, <1>8, <1>9, <1>10 DEF DescendInv

\* The states of a walk downwards, from the first one to the last turn.
DescendRun(key, starts, walk) ==
  /\ Downwards(key, starts) = walk[Turns].depth
  /\ walk[0] = [queue |-> Ascending(starts), depth |-> [k \in {key[s] : s \in starts} |-> 0]]
  /\ \A n \in 0..Turns : n # Turns => walk[n + 1] = Descend(key, walk[n])

LEMMA DownwardsWalks ==
  ASSUME NEW K, NEW key, Walkable(K, key), NEW starts \in SUBSET Slots
  PROVE  \E walk : DescendRun(key, starts, walk)
<1> DEFINE X == DescendStates(K, key)
           first == [queue |-> Ascending(starts), depth |-> [k \in {key[s] : s \in starts} |-> 0]]
           step == [w \in X |-> Descend(key, w)]
<1> HIDE DEF first
<1>1. first \in X
  BY FirstDescent DEF DescendInv, first
<1>2. ASSUME NEW w \in X PROVE Descend(key, w) \in X
  <2>1. CASE w.queue = <<>>
    BY <2>1 DEF Descend
  <2>2. CASE w.queue # <<>>
    <3>1. PICK fresh : DescendLists(K, key, w, fresh)
      BY <2>2, DescendTurn
    <3> QED BY <3>1 DEF DescendLists
  <2> QED BY <2>1, <2>2
<1> HIDE DEF X
<1>3. step \in [X -> X]
  BY <1>2
<1> HIDE DEF step
<1>4. Turns \in Nat
  BY SlotFacts DEF Turns, Walkable
<1>5. PICK f : f = [n \in 0..Turns |-> IF n = 0 THEN first ELSE step[f[n - 1]]] /\ f \in [0..Turns -> X]
  <2>1. Loops(Turns, X, first, step)
    BY <1>1, <1>3, <1>4 DEF Loops
  <2> QED BY <2>1, Loop
<1>6. f = [n \in 0..Turns |-> IF n = 0 THEN first ELSE Descend(key, f[n - 1])]
  <2>1. ASSUME NEW n \in 0..Turns
        PROVE  (IF n = 0 THEN first ELSE step[f[n - 1]]) = (IF n = 0 THEN first ELSE Descend(key, f[n - 1]))
    <3>1. CASE n = 0
      BY <3>1
    <3>2. CASE n # 0
      <4>1. n - 1 \in 0..Turns
        BY <1>4, <3>2
      <4>2. f[n - 1] \in X
        BY <1>5, <4>1
      <4> QED BY <3>2, <4>2 DEF step
    <3> QED BY <3>1, <3>2
  <2> QED BY <1>5, <2>1
<1> DEFINE walk == CHOOSE g : g = [n \in 0..Turns |-> IF n = 0 THEN first ELSE Descend(key, g[n - 1])]
<1>7. Downwards(key, starts) = walk[Turns].depth
  BY DEF Downwards, first
<1>8. walk = [n \in 0..Turns |-> IF n = 0 THEN first ELSE Descend(key, walk[n - 1])]
  BY <1>6
<1> HIDE DEF walk
<1>9. walk[0] = first
  BY <1>4, <1>8
<1>10. ASSUME NEW n \in 0..Turns, n # Turns PROVE walk[n + 1] = Descend(key, walk[n])
  <2>1. n + 1 \in 0..Turns /\ n + 1 # 0 /\ n + 1 - 1 = n
    BY <1>4, <1>10
  <2> QED BY <1>8, <2>1
<1> QED
  BY <1>7, <1>9, <1>10 DEF first, DescendRun

\* depth gives the distance of each slot below starts to the nearest of them.
NearestBelow(K, key, starts, depth) ==
  /\ depth \in [DOMAIN depth -> Nat]
  /\ DOMAIN depth = {key[x] : x \in {y \in Slots : \E s \in starts : Over(s, y)}}
  /\ \A s \in starts : depth[key[s]] = 0
  /\ \A p, y \in Slots : <<p, y>> \in Adjacent /\ key[p] \in DOMAIN depth =>
       depth[key[y]] <= depth[key[p]] + 1
  /\ \A y \in Slots : key[y] \in DOMAIN depth /\ y \notin starts =>
       \E p \in Slots : /\ <<p, y>> \in Adjacent /\ key[p] \in DOMAIN depth
                        /\ depth[key[y]] = depth[key[p]] + 1

LEMMA DownwardsFinds ==
  ASSUME NEW K, NEW key, Walkable(K, key), NEW starts \in SUBSET Slots
  PROVE  NearestBelow(K, key, starts, Downwards(key, starts))
<1>0. PICK walk : DescendRun(key, starts, walk)
  BY DownwardsWalks
<1>1. /\ Downwards(key, starts) = walk[Turns].depth
      /\ walk[0] = [queue |-> Ascending(starts),
                    depth |-> [k \in {key[s] : s \in starts} |-> 0]]
      /\ \A n \in 0..Turns : n # Turns => walk[n + 1] = Descend(key, walk[n])
  BY <1>0 DEF DescendRun
<1>2. Turns = Len(weights) + 1 /\ Len(weights) \in Nat
  BY SlotFacts DEF Turns, Walkable
<1> DEFINE M == {n \in 0..Turns : DescendInv(K, key, starts, n, walk[n])}
<1>3. 0 \in M
  BY <1>1, <1>2, FirstDescent
<1>4. ASSUME NEW n \in 0..Turns, n # Turns, n \in M PROVE n + 1 \in M
  <2>1. walk[n + 1] = Descend(key, walk[n]) /\ n + 1 \in 0..Turns /\ n \in Nat
    BY <1>1, <1>2, <1>4
  <2>2. DescendInv(K, key, starts, n, walk[n])
    BY <1>4
  <2>3. DescendInv(K, key, starts, n + 1, Descend(key, walk[n]))
    BY <2>1, <2>2, DescendKeeps
  <2> QED BY <2>1, <2>3
<1> HIDE DEF M
<1>5. Turns \in M
  BY <1>2, <1>3, <1>4, Counting
<1> DEFINE w == walk[Turns]
           depth == w.depth
           Seen(y) == key[y] \in DOMAIN depth
           d(y) == depth[key[y]]
<1>6. DescendInv(K, key, starts, Turns, w)
  BY <1>5 DEF M
<1> HIDE DEF w
<1>7. w.queue = <<>>
  <2> SUFFICES ASSUME w.queue # <<>> PROVE FALSE
    OBVIOUS
  <2>1. PICK all \in Seq(Slots) :
          /\ \A i, j \in 1..Len(all) : all[i] = all[j] => i = j
          /\ Turns + Len(w.queue) = Len(all)
    BY <1>6 DEF DescendInv, CountInv
  <2>2. BySlot \in [Slots -> Slots] /\ \A x \in Slots : BySlot[x] = x
    BY DEF BySlot
  <2>3. \A i \in 1..Len(all) : \E x \in Slots : all[i] = BySlot[x]
    BY <2>2
  <2>4. Len(all) <= Len(weights)
    BY <2>1, <2>2, <2>3, ShortList DEF Walkable
  <2>5. w.queue \in Seq(Slots) /\ Len(w.queue) \in Nat
    BY <1>6 DEF DescendInv, DescendStates
  <2>6. PICK a \in Nat, b \in Nat, c \in Nat : a = Len(w.queue) /\ b = Len(all) /\ c = Len(weights)
    <3>1. Len(all) \in Nat
      OBVIOUS
    <3> QED BY <1>2, <2>5, <3>1
  <2>7. c + 1 + a = b /\ b <= c
    BY <1>2, <2>1, <2>4, <2>6
  <2> QED BY <2>7
<1>8. /\ \A y \in Slots : Seen(y) => \E s \in starts : Over(s, y)
      /\ \A s \in starts : Seen(s) /\ d(s) = 0
      /\ \A y \in Slots : Seen(y) =>
           y \in starts \/ \E p \in Slots : <<p, y>> \in Adjacent /\ Seen(p) /\ d(y) = d(p) + 1
      /\ \A y \in Slots : Seen(y) =>
           \A c \in Slots : <<y, c>> \in Adjacent => Seen(c) /\ d(c) <= d(y) + 1
  <2>1. ToSet(w.queue) = {}
    BY <1>7 DEF ToSet
  <2> QED BY <1>6, <2>1 DEF DescendInv, DepthInv
<1>9. depth \in [DOMAIN depth -> Nat] /\ \A k \in DOMAIN depth : \E x \in Slots : k = key[x]
  <2>1. depth \in Depths(K)
    BY <1>6 DEF DescendInv, DescendStates
  <2>2. PICK all \in Seq(Slots) : DOMAIN depth = {key[all[i]] : i \in 1..Len(all)}
    BY <1>6 DEF DescendInv, CountInv
  <2> HIDE DEF depth
  <2>3. PICK D \in SUBSET K : depth \in [D -> Nat]
    BY <2>1 DEF Depths
  <2> QED BY <2>2, <2>3
<1>10. ASSUME NEW x \in Slots, NEW s \in starts, Over(s, x) PROVE Seen(x)
  <2> SUFFICES ASSUME ~ Seen(x) PROVE FALSE
    OBVIOUS
  <2> DEFINE S == {y \in Slots : ~ Seen(y)}
  <2>1. ASSUME NEW e \in Adjacent, e[2] \in S PROVE e[1] \in S
    <3>1. e = <<e[1], e[2]>> /\ e[1] \in Slots
      BY SlotFacts DEF Walkable
    <3> QED BY <1>8, <2>1, <3>1
  <2>2. ClosedUp(Adjacent, S)
    BY <2>1 DEF ClosedUp
  <2>3. S \in SUBSET Slots /\ x \in S
    OBVIOUS
  <2>4. s \in S
    BY <1>10, <2>2, <2>3 DEF Over, Leads
  <2> QED BY <1>8, <2>4
<1> HIDE DEF depth
<1>11. DOMAIN depth = {key[x] : x \in {y \in Slots : \E s \in starts : Over(s, y)}}
  <2>1. ASSUME NEW k \in DOMAIN depth
        PROVE  k \in {key[x] : x \in {y \in Slots : \E s \in starts : Over(s, y)}}
    BY <1>8, <1>9
  <2>2. ASSUME NEW k \in {key[x] : x \in {y \in Slots : \E s \in starts : Over(s, y)}}
        PROVE  k \in DOMAIN depth
    BY <1>10
  <2> QED BY <2>1, <2>2
<1> QED
  BY <1>1, <1>8, <1>9, <1>11 DEF NearestBelow, depth, w

-----------------------------------------------------------------------------
(* Depths.                                                                 *)

\* depth gives each slot the number of edges from the nearest root.
IsDepth(K, key, depth) ==
  /\ depth \in [{key[x] : x \in Slots} -> Nat]
  /\ \A y \in Slots :
       /\ (\A p \in Slots : <<p, y>> \notin Adjacent) => depth[key[y]] = 0
       /\ \A p \in Slots : <<p, y>> \in Adjacent => depth[key[y]] <= depth[key[p]] + 1
       /\ \A p \in Slots : <<p, y>> \in Adjacent =>
            \E q \in Slots : <<q, y>> \in Adjacent /\ depth[key[y]] = depth[key[q]] + 1

LEMMA DepthMapFinds ==
  ASSUME NEW K, NEW key, Walkable(K, key)
  PROVE  IsDepth(K, key, DepthMap(key))
<1> DEFINE depth == DepthMap(key)
<1>1. Roots \in SUBSET Slots /\ \A y \in Slots : y \in Roots <=> \A p \in Slots : <<p, y>> \notin Adjacent
  <2>1. ASSUME NEW y \in Slots PROVE Parents(y) = {} <=> \A p \in Slots : <<p, y>> \notin Adjacent
    <3>1. TypeOK /\ LinksAged
      BY DEF Walkable
    <3>2. \A q \in Slots : <<q, y>> \in Adjacent <=> \E l \in links : l[2] = y /\ l[1] = q
      BY <3>1, SlotEdges
    <3>3. \A l \in links : l[1] \in Slots
      BY <3>1 DEF TypeOK
    <3> QED BY <3>2, <3>3 DEF Parents
  <2> QED BY <2>1 DEF Roots
<1>2. NearestBelow(K, key, Roots, depth)
  BY <1>1, DownwardsFinds DEF DepthMap
<1> HIDE DEF depth
<1> DEFINE P == {y \in Slots : \E s \in Roots : Over(s, y)}
<1>3. \A y \in Slots : y \in P
  <2>1. ASSUME NEW y \in Slots, \A q \in Slots : <<q, y>> \in Adjacent => q \in P
        PROVE  y \in P
    <3>1. CASE y \in Roots
      BY <3>1, OverFacts DEF Walkable
    <3>2. CASE y \notin Roots
      <4>1. PICK q \in Slots : <<q, y>> \in Adjacent
        BY <1>1, <3>2
      <4>2. PICK s \in Roots : Over(s, q)
        BY <2>1, <4>1
      <4>3. Over(s, y)
        BY <4>1, <4>2, OverFacts DEF Walkable
      <4> QED BY <4>3
    <3> QED BY <3>1, <3>2
  <2> HIDE DEF P
  <2> QED BY <2>1, FromParents DEF Walkable, NoCycle
<1>4. P = Slots
  BY <1>3
<1>5. depth \in [DOMAIN depth -> Nat] /\ DOMAIN depth = {key[x] : x \in P}
  BY <1>2 DEF NearestBelow
<1> HIDE DEF P
<1>6. depth \in [{key[x] : x \in Slots} -> Nat] /\ \A y \in Slots : key[y] \in DOMAIN depth
  BY <1>4, <1>5
<1>7. ASSUME NEW y \in Slots
      PROVE  /\ (\A p \in Slots : <<p, y>> \notin Adjacent) => depth[key[y]] = 0
             /\ \A p \in Slots : <<p, y>> \in Adjacent => depth[key[y]] <= depth[key[p]] + 1
             /\ \A p \in Slots : <<p, y>> \in Adjacent =>
                  \E q \in Slots : <<q, y>> \in Adjacent /\ depth[key[y]] = depth[key[q]] + 1
  BY <1>1, <1>2, <1>6 DEF NearestBelow
<1> QED
  BY <1>6, <1>7 DEF IsDepth, depth

\* There is one such depth.
LEMMA DepthUnique ==
  ASSUME TypeOK, NoCycle,
         NEW K, NEW key, NEW depth, IsDepth(K, key, depth),
         NEW L, NEW mark, NEW other, IsDepth(L, mark, other)
  PROVE  \A y \in Slots : depth[key[y]] = other[mark[y]]
<1> DEFINE d(y) == depth[key[y]]
           e(y) == other[mark[y]]
           P == {y \in Slots : d(y) = e(y)}
<1>1. \A y \in Slots : d(y) \in Nat /\ e(y) \in Nat
  BY DEF IsDepth
<1>2. \A y \in Slots :
        /\ (\A p \in Slots : <<p, y>> \notin Adjacent) => d(y) = 0
        /\ \A p \in Slots : <<p, y>> \in Adjacent => d(y) <= d(p) + 1
        /\ \A p \in Slots : <<p, y>> \in Adjacent =>
             \E q \in Slots : <<q, y>> \in Adjacent /\ d(y) = d(q) + 1
  BY DEF IsDepth
<1>3. \A y \in Slots :
        /\ (\A p \in Slots : <<p, y>> \notin Adjacent) => e(y) = 0
        /\ \A p \in Slots : <<p, y>> \in Adjacent => e(y) <= e(p) + 1
        /\ \A p \in Slots : <<p, y>> \in Adjacent =>
             \E q \in Slots : <<q, y>> \in Adjacent /\ e(y) = e(q) + 1
  BY DEF IsDepth
<1> HIDE DEF d, e
<1>4. ASSUME NEW y \in Slots, \A q \in Slots : <<q, y>> \in Adjacent => q \in P
      PROVE  y \in P
  <2>1. CASE \A p \in Slots : <<p, y>> \notin Adjacent
    BY <1>2, <1>3, <2>1
  <2>2. CASE \E p \in Slots : <<p, y>> \in Adjacent
    <3>1. PICK p \in Slots : <<p, y>> \in Adjacent /\ d(y) = d(p) + 1
      BY <1>2, <2>2
    <3>2. PICK q \in Slots : <<q, y>> \in Adjacent /\ e(y) = e(q) + 1
      BY <1>3, <2>2
    <3>3. d(y) <= d(q) + 1 /\ e(y) <= e(p) + 1
      BY <1>2, <1>3, <3>1, <3>2
    <3>4. d(p) = e(p) /\ d(q) = e(q)
      BY <1>4, <3>1, <3>2
    <3>5. d(y) = e(y)
      BY <1>1, <3>1, <3>2, <3>3, <3>4
    <3> QED BY <3>5
  <2> QED BY <2>1, <2>2
<1> HIDE DEF P
<1>5. \A y \in Slots : y \in P
  BY <1>4, FromParents DEF NoCycle
<1> QED
  BY <1>5 DEF P, d, e

-----------------------------------------------------------------------------
(* Branches and slots.                                                     *)

\* While the map is right, a branch in the graph has one slot, which it finds.
LEMMA BranchSlots ==
  ASSUME GraphInv, ~ moved
  PROVE  /\ Walkable(Ids, weights) /\ Walkable(Slots, BySlot)
         /\ Branches \in SUBSET Ids /\ IsFiniteSet(Branches)
         /\ \A b \in Branches : index[b] \in Slots /\ weights[index[b]] = b
         /\ \A s \in Slots : weights[s] \in Branches /\ index[weights[s]] = s
         /\ \A b \in Ids : b \in Branches <=> index[b] # 0
<1>1. TypeOK /\ NoCycle /\ LinksAged /\ Exact(weights, index)
  BY DEF GraphInv
<1>2. Slots = 1..Len(weights) /\ Len(weights) \in Nat /\ weights \in [Slots -> Ids]
  BY <1>1, SlotFacts DEF TypeOK
<1>3. \A s \in Slots : index[weights[s]] = s
  BY <1>1, <1>2 DEF Exact
<1>4. Walkable(Ids, weights)
  BY <1>1, <1>2, <1>3 DEF Walkable
<1>5. Walkable(Slots, BySlot)
  BY <1>1 DEF Walkable, BySlot
<1>6. Branches \in SUBSET Ids /\ \A s \in Slots : weights[s] \in Branches
  BY <1>2 DEF Branches
<1>7. \A b \in Branches : index[b] \in Slots /\ weights[index[b]] = b
  BY <1>3 DEF Branches
<1>8. \A b \in Ids : index[b] # 0 => index[b] \in Slots /\ weights[index[b]] = b
  BY <1>1, <1>2 DEF Exact
<1>9. \A b \in Ids : b \in Branches <=> index[b] # 0
  BY <1>2, <1>6, <1>7, <1>8
<1>10. IsFiniteSet(Branches)
  <2>1. IsFiniteSet(Slots)
    BY <1>1, FiniteSlots
  <2>2. [b \in Branches |-> index[b]] \in Injection(Branches, Slots)
    BY <1>7 DEF Injection, IsInjective
  <2> QED BY <2>1, <2>2, FS_Injection
<1> QED
  BY <1>3, <1>4, <1>5, <1>6, <1>7, <1>9, <1>10

LEMMA ParentsSlots ==
  ASSUME GraphInv, ~ moved, NEW b \in Branches
  PROVE  /\ ParentsOf(b) \in SUBSET Branches
         /\ \A p \in Branches : p \in ParentsOf(b) <=> <<index[p], index[b]>> \in Adjacent
<1>1. /\ \A c \in Branches : index[c] \in Slots /\ weights[index[c]] = c
      /\ \A s \in Slots : weights[s] \in Branches /\ index[weights[s]] = s
  BY BranchSlots
<1>2. \A l \in links : l[1] \in Slots /\ l[2] \in Slots
  BY DEF GraphInv, TypeOK
<1>3. ASSUME NEW l \in links PROVE weights[l[2]] = b <=> l[2] = index[b]
  BY <1>1, <1>2
<1>4. ParentsOf(b) = {weights[l[1]] : l \in {m \in links : m[2] = index[b]}}
  BY <1>3 DEF ParentsOf
<1>5. \A p \in Branches : <<index[p], index[b]>> \in Adjacent <=>
                            \E l \in links : l[2] = index[b] /\ l[1] = index[p]
  <2>1. TypeOK /\ LinksAged
    BY DEF GraphInv
  <2>2. \A q \in Slots : <<q, index[b]>> \in Adjacent <=> \E l \in links : l[2] = index[b] /\ l[1] = q
    BY <2>1, SlotEdges
  <2> QED BY <1>1, <2>2
<1>6. ASSUME NEW p \in Branches
      PROVE  p \in ParentsOf(b) <=> \E l \in links : l[2] = index[b] /\ l[1] = index[p]
  BY <1>1, <1>2, <1>4
<1> QED
  BY <1>1, <1>2, <1>4, <1>5, <1>6

\* Ancestry by branch ids is ancestry by slots.
LEMMA AboveOver ==
  ASSUME GraphInv, ~ moved, NEW x, NEW b \in Branches
  PROVE  /\ Above(x, b) => x \in Branches
         /\ x \in Branches => (Above(x, b) <=> Over(index[x], index[b]))
<1>1. /\ \A c \in Branches : index[c] \in Slots /\ weights[index[c]] = c
      /\ \A s \in Slots : weights[s] \in Branches /\ index[weights[s]] = s
  BY BranchSlots
<1>2. /\ \A c \in Branches : ParentsOf(c) \in SUBSET Branches
      /\ \A c, p \in Branches : p \in ParentsOf(c) <=> <<index[p], index[c]>> \in Adjacent
  BY ParentsSlots
<1>3. Above(x, b) => x \in Branches
  BY <1>2 DEF Above
<1>4. ASSUME x \in Branches, Above(x, b) PROVE Over(index[x], index[b])
  <2> SUFFICES ASSUME NEW S \in SUBSET Slots, index[b] \in S, ClosedUp(Adjacent, S)
               PROVE  index[x] \in S
    BY DEF Over, Leads
  <2> DEFINE T == {c \in Branches : index[c] \in S}
  <2>1. ASSUME NEW c \in T, NEW p \in ParentsOf(c) PROVE p \in T
    <3>1. p \in Branches /\ <<index[p], index[c]>> \in Adjacent
      BY <1>2
    <3> DEFINE e == <<index[p], index[c]>>
    <3>2. e \in Adjacent /\ e[1] = index[p] /\ e[2] = index[c]
      BY <3>1
    <3> HIDE DEF e
    <3>3. index[p] \in S
      BY <3>2 DEF ClosedUp
    <3> QED BY <3>1, <3>3
  <2>2. T \in SUBSET Branches /\ b \in T /\ \A c \in T : ParentsOf(c) \subseteq T
    BY <2>1
  <2>3. x \in T
    BY <1>4, <2>2 DEF Above
  <2> QED BY <2>3
<1>5. ASSUME x \in Branches, Over(index[x], index[b]) PROVE Above(x, b)
  <2> SUFFICES ASSUME NEW T \in SUBSET Branches, b \in T, \A c \in T : ParentsOf(c) \subseteq T
               PROVE  x \in T
    BY DEF Above
  <2> DEFINE S == {s \in Slots : weights[s] \in T}
  <2>1. ASSUME NEW e \in Adjacent, e[2] \in S PROVE e[1] \in S
    <3>1. e = <<e[1], e[2]>> /\ e[1] \in Slots /\ e[2] \in Slots
      BY SlotFacts DEF GraphInv
    <3>2. weights[e[1]] \in ParentsOf(weights[e[2]])
      BY <1>1, <1>2, <3>1
    <3> QED BY <2>1, <3>1, <3>2
  <2>2. ClosedUp(Adjacent, S) /\ S \in SUBSET Slots /\ index[b] \in S
    BY <1>1, <2>1 DEF ClosedUp
  <2>3. index[x] \in S
    BY <1>5, <2>2 DEF Over, Leads
  <2> QED BY <1>1, <1>5, <2>3
<1> QED
  BY <1>3, <1>4, <1>5

LEMMA ForestSlots ==
  ASSUME GraphInv, ~ moved, IsForest
  PROVE  OneParent
<1>1. /\ \A s \in Slots : weights[s] \in Branches /\ index[weights[s]] = s
      /\ IsFiniteSet(Branches)
  BY BranchSlots
<1> SUFFICES ASSUME NEW p \in Slots, NEW q \in Slots, NEW y \in Slots,
                    <<p, y>> \in Adjacent, <<q, y>> \in Adjacent, p # q
             PROVE  FALSE
  BY DEF OneParent
<1> DEFINE two == {weights[p], weights[q]}
           all == ParentsOf(weights[y])
<1>2. all \in SUBSET Branches /\ two \in SUBSET all
  BY <1>1, ParentsSlots
<1>3. weights[p] # weights[q]
  BY <1>1
<1>4. Cardinality(all) <= 1
  BY <1>1 DEF IsForest
<1>5. IsFiniteSet(all) /\ Cardinality(all) \in Nat
  BY <1>1, <1>2, FS_Subset, FS_CardinalityType
<1>6. Cardinality({weights[p]}) = 1 /\ IsFiniteSet({weights[p]})
  BY FS_Singleton
<1>7. IsFiniteSet(all \ {weights[p]}) /\ weights[q] \in all \ {weights[p]}
  BY <1>2, <1>3, <1>5, FS_Subset
<1>8. Cardinality(all \ {weights[p]}) = Cardinality(all) - 1
  BY <1>2, <1>5, FS_RemoveElement
<1>9. Cardinality(all \ {weights[p]}) \in Nat /\ Cardinality(all \ {weights[p]}) # 0
  BY <1>7, FS_CardinalityType, FS_EmptySet
<1> QED
  BY <1>4, <1>5, <1>8, <1>9

-----------------------------------------------------------------------------
(* What the queries answer while the map is right.                         *)

\* list has the strict ancestors of b, each once, the closest first in a forest.
AncestorList(b, list) ==
  /\ list \in Seq(Branches)
  /\ \A x : x \in ToSet(list) <=> x \in Branches /\ x # b /\ Above(x, b)
  /\ \A i, j \in 1..Len(list) : list[i] = list[j] => i = j
  /\ IsForest => \A i, j \in 1..Len(list) : i < j => Above(list[j], list[i])

LEMMA AncestorsFound ==
  ASSUME GraphInv, ~ moved, NEW b \in Branches
  PROVE  /\ AncestorList(b, AncestorsOf(b))
         /\ AncestorSet(b) = {x \in Branches : x # b /\ Above(x, b)}
<1> DEFINE up == Upwards(BySlot, index[b])
           list == AncestorsOf(b)
<1>1. /\ Walkable(Ids, weights) /\ Walkable(Slots, BySlot)
      /\ \A c \in Branches : index[c] \in Slots /\ weights[index[c]] = c
      /\ \A s \in Slots : weights[s] \in Branches /\ index[weights[s]] = s
  BY BranchSlots
<1>2. \A s \in Slots : BySlot[s] = s
  BY DEF BySlot
<1>3. \A x \in Branches : Above(x, b) <=> Over(index[x], index[b])
  BY AboveOver
<1>4. ListsAncestors(Slots, BySlot, index[b], up)
  BY <1>1, UpwardsFinds
<1>5. ListsAncestors(Ids, weights, index[b], Upwards(weights, index[b]))
  BY <1>1, UpwardsFinds
<1> HIDE DEF up
<1>6. /\ up \in Seq(Slots) /\ Len(up) \in Nat /\ \A i \in 1..Len(up) : up[i] \in Slots
      /\ \A s : s \in ToSet(up) <=> s \in Slots /\ s # index[b] /\ Over(s, index[b])
      /\ \A i, j \in 1..Len(up) : up[i] = up[j] => i = j
      /\ OneParent => \A i, j \in 1..Len(up) : i < j => Over(up[j], up[i])
  BY <1>2, <1>4 DEF ListsAncestors
<1>7. /\ list = [i \in 1..Len(up) |-> weights[up[i]]]
      /\ list \in Seq(Branches) /\ Len(list) = Len(up)
      /\ \A i \in 1..Len(up) : list[i] = weights[up[i]] /\ list[i] \in Branches /\ index[list[i]] = up[i]
  <2>1. list = [i \in 1..Len(up) |-> weights[up[i]]]
    BY <1>6 DEF AncestorsOf, Keys, up
  <2> HIDE DEF list
  <2>2. \A i \in 1..Len(up) : weights[up[i]] \in Branches /\ index[weights[up[i]]] = up[i]
    BY <1>1, <1>6
  <2>3. list \in Seq(Branches) /\ Len(list) = Len(up)
    BY <1>6, <2>1, <2>2
  <2> QED BY <2>1, <2>2, <2>3
<1> HIDE DEF list
<1>13. \A x : x \in ToSet(list) <=> \E i \in 1..Len(list) : list[i] = x
  <2>1. list \in Seq(Branches)
    BY <1>7
  <2> QED BY <2>1, ToSetIn
<1>14. \A x : x \in ToSet(up) <=> \E i \in 1..Len(up) : up[i] = x
  BY <1>6, ToSetIn
<1>8. ASSUME NEW x PROVE x \in ToSet(list) <=> x \in Branches /\ x # b /\ Above(x, b)
  <2>1. ASSUME x \in ToSet(list) PROVE x \in Branches /\ x # b /\ Above(x, b)
    <3>1. PICK i \in 1..Len(list) : list[i] = x
      BY <1>13, <2>1
    <3>2. up[i] \in ToSet(up) /\ index[x] = up[i] /\ x \in Branches
      BY <1>7, <1>14, <3>1
    <3> QED BY <1>3, <1>6, <3>2
  <2>2. ASSUME x \in Branches, x # b, Above(x, b) PROVE x \in ToSet(list)
    <3>1. index[x] \in ToSet(up)
      BY <1>1, <1>3, <1>6, <2>2
    <3>2. PICK i \in 1..Len(up) : up[i] = index[x]
      BY <1>14, <3>1
    <3>3. i \in 1..Len(list) /\ list[i] = x
      BY <1>1, <1>7, <2>2, <3>2
    <3> QED BY <1>13, <3>3
  <2> QED BY <2>1, <2>2
<1>9. \A i, j \in 1..Len(list) : list[i] = list[j] => i = j
  BY <1>6, <1>7
<1>10. ASSUME IsForest, NEW i \in 1..Len(list), NEW j \in 1..Len(list), i < j
       PROVE  Above(list[j], list[i])
  <2>1. Over(up[j], up[i])
    BY <1>6, <1>7, <1>10, ForestSlots
  <2> QED BY <1>7, <2>1, AboveOver
<1>11. ASSUME NEW x PROVE x \in AncestorSet(b) <=> x \in Branches /\ x # b /\ Above(x, b)
  <2>1. x \in AncestorSet(b) <=> \E s \in Slots : x = weights[s] /\ s # index[b] /\ Over(s, index[b])
    BY <1>5 DEF ListsAncestors, AncestorSet
  <2> QED BY <1>1, <1>3, <2>1
<1>12. AncestorList(b, list)
  BY <1>7, <1>8, <1>9, <1>10 DEF AncestorList
<1> QED
  BY <1>11, <1>12 DEF list

\* What a query has found for a is a and its ancestors; what two branches share
\* is what is above both.
LEMMA FoundShared ==
  ASSUME GraphInv, ~ moved, NEW a \in Branches, NEW b \in Branches
  PROVE  /\ Found(a) = {x \in Branches : Above(x, a)}
         /\ Shared(a, b) = Common(a, b)
<1>1. Above(a, a) /\ Above(b, b)
  BY DEF Above
<1>2. /\ \A x : x \in ToSet(AncestorsOf(a)) <=> x \in Branches /\ x # a /\ Above(x, a)
      /\ AncestorSet(a) = {x \in Branches : x # a /\ Above(x, a)}
      /\ AncestorSet(b) = {x \in Branches : x # b /\ Above(x, b)}
  BY AncestorsFound DEF AncestorList
<1> QED
  BY <1>1, <1>2 DEF Found, Shared, Common

\* The depth of the branches, by their parents.
LEMMA DepthOfBranch ==
  ASSUME GraphInv, ~ moved
  PROVE  /\ \A b \in Branches : /\ b \in DOMAIN DepthMap(weights)
                                /\ DepthOf(b) = DepthMap(weights)[b]
                                /\ DepthOf(b) \in Nat
         /\ \A b \in Branches :
              /\ ParentsOf(b) = {} => DepthOf(b) = 0
              /\ \A p \in ParentsOf(b) : DepthOf(b) <= DepthOf(p) + 1
              /\ ParentsOf(b) # {} => \E p \in ParentsOf(b) : DepthOf(b) = DepthOf(p) + 1
<1> DEFINE bySlot == DepthMap(BySlot)
           byId == DepthMap(weights)
<1>1. /\ Walkable(Ids, weights) /\ Walkable(Slots, BySlot) /\ TypeOK /\ NoCycle
      /\ \A c \in Branches : index[c] \in Slots /\ weights[index[c]] = c
      /\ \A s \in Slots : weights[s] \in Branches /\ index[weights[s]] = s
  BY BranchSlots DEF GraphInv
<1>2. IsDepth(Slots, BySlot, bySlot) /\ IsDepth(Ids, weights, byId)
  BY <1>1, DepthMapFinds
<1> HIDE DEF bySlot, byId
<1>3. \A s \in Slots : BySlot[s] = s
  BY DEF BySlot
<1>4. \A s \in Slots : bySlot[s] = byId[weights[s]]
  BY <1>1, <1>2, <1>3, DepthUnique
<1>5. /\ bySlot \in [Slots -> Nat]
      /\ \A y \in Slots :
           /\ (\A p \in Slots : <<p, y>> \notin Adjacent) => bySlot[y] = 0
           /\ \A p \in Slots : <<p, y>> \in Adjacent => bySlot[y] <= bySlot[p] + 1
           /\ \A p \in Slots : <<p, y>> \in Adjacent =>
                \E q \in Slots : <<q, y>> \in Adjacent /\ bySlot[y] = bySlot[q] + 1
  <2>1. {BySlot[x] : x \in Slots} = Slots
    BY <1>3
  <2>2. bySlot \in [Slots -> Nat]
    BY <1>2, <2>1 DEF IsDepth
  <2>3. ASSUME NEW y \in Slots
        PROVE  /\ (\A p \in Slots : <<p, y>> \notin Adjacent) => bySlot[y] = 0
               /\ \A p \in Slots : <<p, y>> \in Adjacent => bySlot[y] <= bySlot[p] + 1
               /\ \A p \in Slots : <<p, y>> \in Adjacent =>
                    \E q \in Slots : <<q, y>> \in Adjacent /\ bySlot[y] = bySlot[q] + 1
    BY <1>2, <1>3 DEF IsDepth
  <2> QED BY <2>2, <2>3
<1>6. \A b \in Branches : b \in DOMAIN byId
  BY <1>1, <1>2 DEF IsDepth
<1>7. \A b \in Branches : DepthOf(b) = bySlot[index[b]] /\ DepthOf(b) \in Nat
  BY <1>1, <1>5 DEF DepthOf, bySlot
<1>8. \A b \in Branches : DepthOf(b) = byId[b]
  BY <1>1, <1>4, <1>7
<1>9. ASSUME NEW b \in Branches
      PROVE  /\ ParentsOf(b) = {} => DepthOf(b) = 0
             /\ \A p \in ParentsOf(b) : DepthOf(b) <= DepthOf(p) + 1
             /\ ParentsOf(b) # {} => \E p \in ParentsOf(b) : DepthOf(b) = DepthOf(p) + 1
  <2>1. /\ ParentsOf(b) \in SUBSET Branches
        /\ \A p \in Branches : p \in ParentsOf(b) <=> <<index[p], index[b]>> \in Adjacent
    BY ParentsSlots
  <2>2. ASSUME ParentsOf(b) = {} PROVE DepthOf(b) = 0
    <3>1. \A p \in Slots : <<p, index[b]>> \notin Adjacent
      BY <1>1, <2>1, <2>2
    <3> QED BY <1>1, <1>5, <1>7, <3>1
  <2>3. ASSUME NEW p \in ParentsOf(b) PROVE DepthOf(b) <= DepthOf(p) + 1
    <3>1. p \in Branches /\ index[p] \in Slots /\ <<index[p], index[b]>> \in Adjacent
      BY <1>1, <2>1
    <3>2. bySlot[index[b]] <= bySlot[index[p]] + 1
      BY <1>1, <1>5, <3>1
    <3> QED BY <1>7, <3>1, <3>2
  <2>4. ASSUME ParentsOf(b) # {} PROVE \E p \in ParentsOf(b) : DepthOf(b) = DepthOf(p) + 1
    <3>1. PICK s \in Slots : <<s, index[b]>> \in Adjacent /\ bySlot[index[b]] = bySlot[s] + 1
      BY <1>1, <1>5, <2>1, <2>4
    <3>2. weights[s] \in ParentsOf(b) /\ DepthOf(weights[s]) = bySlot[s]
      BY <1>1, <1>7, <2>1, <3>1
    <3> QED BY <1>7, <3>1, <3>2
  <2> QED BY <2>2, <2>3, <2>4
<1> QED
  BY <1>6, <1>7, <1>8, <1>9 DEF byId

-----------------------------------------------------------------------------
(* Paths.                                                                  *)

\* A path down from s to t.
IsPath(p, s, t) ==
  /\ p \in Seq(Slots) /\ p # <<>>
  /\ p[1] = s /\ p[Len(p)] = t
  /\ \A i \in 1..(Len(p) - 1) : <<p[i], p[i + 1]>> \in Adjacent

LEMMA PathShape ==
  ASSUME NEW p, NEW s, NEW t, IsPath(p, s, t)
  PROVE  /\ Len(p) \in Nat /\ Len(p) >= 1 /\ 1 \in 1..Len(p) /\ Len(p) \in 1..Len(p)
         /\ \A i \in 1..Len(p) : p[i] \in Slots
         /\ s \in Slots /\ t \in Slots /\ Last(p) = t
<1>1. p \in Seq(Slots) /\ Len(p) \in Nat /\ Len(p) # 0
  BY DEF IsPath
<1>2. Len(p) >= 1 /\ 1 \in 1..Len(p) /\ Len(p) \in 1..Len(p)
  BY <1>1
<1>3. \A i \in 1..Len(p) : p[i] \in Slots
  BY <1>1
<1> QED
  BY <1>1, <1>2, <1>3 DEF IsPath, Last

LEMMA PathOver ==
  ASSUME TypeOK, NoCycle, NEW p, NEW s, NEW t, IsPath(p, s, t)
  PROVE  \A i, j \in 1..Len(p) : i < j => Over(p[i], p[j]) /\ p[i] # p[j]
<1>1. /\ Len(p) \in Nat /\ Len(p) >= 1 /\ \A i \in 1..Len(p) : p[i] \in Slots
  BY PathShape
<1>2. \A i \in 1..(Len(p) - 1) : <<p[i], p[i + 1]>> \in Adjacent
  BY DEF IsPath
<1>3. ASSUME NEW i \in 1..Len(p)
      PROVE  \A k \in 0..(Len(p) - i) : Over(p[i], p[i + k])
  <2> DEFINE N == Len(p) - i
             M == {k \in 0..N : Over(p[i], p[i + k])}
  <2>1. N \in Nat /\ 0 \in 0..N /\ i + 0 = i
    BY <1>1
  <2>2. 0 \in M
    BY <1>1, <2>1, OverFacts
  <2>3. ASSUME NEW k \in 0..N, k # N, k \in M PROVE k + 1 \in M
    <3>1. i + k \in 1..(Len(p) - 1) /\ i + k + 1 \in 1..Len(p) /\ i + k \in 1..Len(p)
      BY <1>1, <2>1, <2>3
    <3>2. k + 1 \in 0..N /\ i + (k + 1) = i + k + 1
      BY <1>1, <2>1, <2>3
    <3>3. Over(p[i + k], p[i + k + 1])
      BY <1>1, <1>2, <3>1, OverFacts
    <3>4. Over(p[i], p[i + k + 1])
      BY <2>3, <3>3, OverFacts
    <3> QED BY <3>2, <3>4
  <2> HIDE DEF M
  <2>4. \A k \in 0..N : k \in M
    BY <2>1, <2>2, <2>3, Counting
  <2> QED BY <2>4 DEF M
<1>4. ASSUME NEW i \in 1..Len(p), NEW j \in 1..Len(p), i <= j PROVE Over(p[i], p[j])
  <2>1. j - i \in 0..(Len(p) - i) /\ i + (j - i) = j
    BY <1>1, <1>4
  <2> QED BY <1>3, <2>1
<1>5. ASSUME NEW i \in 1..Len(p), NEW j \in 1..Len(p), i < j, p[i] = p[j] PROVE FALSE
  <2>1. i \in 1..(Len(p) - 1) /\ i + 1 \in 1..Len(p) /\ i + 1 <= j
    BY <1>1, <1>5
  <2>2. Over(p[i + 1], p[j]) /\ p[i] # p[i + 1] /\ Over(p[i], p[i + 1])
    <3>1. Over(p[i + 1], p[j])
      BY <1>4, <2>1
    <3>2. p[i] \in Slots /\ p[i + 1] \in Slots /\ <<p[i], p[i + 1]>> \in Adjacent
      BY <1>1, <1>2, <2>1
    <3> QED BY <3>1, <3>2, OverFacts
  <2> QED BY <1>1, <1>5, <2>1, <2>2, OverFacts
<1> QED
  BY <1>4, <1>5

\* A path meets no slot twice, and is not longer than there are slots.
LEMMA PathShort ==
  ASSUME TypeOK, NoCycle, NEW p, NEW s, NEW t, IsPath(p, s, t)
  PROVE  /\ \A i, j \in 1..Len(p) : p[i] = p[j] => i = j
         /\ Len(p) <= Len(weights)
<1>1. p \in Seq(Slots) /\ Len(p) \in Nat /\ \A i \in 1..Len(p) : p[i] \in Slots
  BY PathShape DEF IsPath
<1>2. \A i, j \in 1..Len(p) : p[i] = p[j] => i = j
  <2> SUFFICES ASSUME NEW i \in 1..Len(p), NEW j \in 1..Len(p), p[i] = p[j], i # j PROVE FALSE
    OBVIOUS
  <2>1. i < j \/ j < i
    BY <1>1
  <2> QED BY <2>1, PathOver
<1>3. BySlot \in [Slots -> Slots] /\ \A x \in Slots : BySlot[x] = x
  BY DEF BySlot
<1>4. \A i \in 1..Len(p) : \E x \in Slots : p[i] = BySlot[x]
  BY <1>1, <1>3
<1> QED
  BY <1>1, <1>2, <1>3, <1>4, ShortList

LEMMA PathOne ==
  ASSUME NEW s \in Slots
  PROVE  IsPath(<<s>>, s, s)
BY DEF IsPath

LEMMA PathLonger ==
  ASSUME NEW p, NEW s, NEW q \in Slots, NEW t \in Slots, IsPath(p, s, q), <<q, t>> \in Adjacent
  PROVE  IsPath(Append(p, t), s, t)
<1> DEFINE r == Append(p, t)
<1>1. /\ p \in Seq(Slots) /\ p[1] = s /\ p[Len(p)] = q
      /\ \A i \in 1..(Len(p) - 1) : <<p[i], p[i + 1]>> \in Adjacent
      /\ Len(p) \in Nat /\ Len(p) >= 1
  BY PathShape DEF IsPath
<1>2. r \in Seq(Slots) /\ Len(r) = Len(p) + 1 /\ r[Len(p) + 1] = t /\ \A i \in 1..Len(p) : r[i] = p[i]
  BY <1>1
<1>3. r # <<>>
  BY <1>1, <1>2
<1> HIDE DEF r
<1>4. r[1] = s /\ r[Len(r)] = t
  <2>1. 1 \in 1..Len(p)
    BY <1>1
  <2> QED BY <1>1, <1>2, <2>1
<1>5. ASSUME NEW i \in 1..(Len(r) - 1) PROVE <<r[i], r[i + 1]>> \in Adjacent
  <2>1. i \in 1..Len(p)
    BY <1>1, <1>2
  <2>2. CASE i = Len(p)
    BY <1>1, <1>2, <2>1, <2>2
  <2>3. CASE i # Len(p)
    <3>1. i \in 1..(Len(p) - 1) /\ i + 1 \in 1..Len(p)
      BY <1>1, <2>1, <2>3
    <3> QED BY <1>1, <1>2, <2>1, <3>1
  <2> QED BY <2>2, <2>3
<1> QED
  BY <1>2, <1>3, <1>4, <1>5 DEF IsPath, r

\* r is the path p without its last slot, and leads to q.
IsFront(p, s, t, r, q) ==
  /\ q \in Slots /\ <<q, t>> \in Adjacent
  /\ IsPath(r, s, q) /\ p = Append(r, t)

\* A path to another slot comes through a parent of it.
LEMMA PathFront ==
  ASSUME TypeOK, NEW p, NEW s, NEW t, IsPath(p, s, t), s # t
  PROVE  \E r, q : IsFront(p, s, t, r, q)
<1>1. /\ p \in Seq(Slots) /\ p[1] = s /\ p[Len(p)] = t
      /\ \A i \in 1..(Len(p) - 1) : <<p[i], p[i + 1]>> \in Adjacent
      /\ Len(p) \in Nat /\ Len(p) >= 1 /\ \A i \in 1..Len(p) : p[i] \in Slots
  BY PathShape DEF IsPath
<1>2. Len(p) # 1
  BY <1>1
<1> DEFINE n == Len(p) - 1
           r == [i \in 1..n |-> p[i]]
<1>3. n \in Nat /\ n >= 1 /\ n \in 1..n /\ 1 \in 1..n /\ Len(p) = n + 1 /\ n \in 1..Len(p)
  BY <1>1, <1>2
<1>4. \A i \in 1..n : i \in 1..Len(p) /\ p[i] \in Slots
  BY <1>1
<1> HIDE DEF n
<1>5. r \in Seq(Slots) /\ Len(r) = n /\ \A i \in 1..n : r[i] = p[i]
  BY <1>3, <1>4
<1>6. p = Append(r, t)
  <2>1. Append(r, t) \in Seq(Slots) /\ Len(Append(r, t)) = n + 1
    BY <1>1, <1>3, <1>5
  <2>2. \A i \in 1..(n + 1) : Append(r, t)[i] = p[i]
    BY <1>1, <1>3, <1>5
  <2> QED BY <1>1, <1>3, <2>1, <2>2
<1>7. r # <<>>
  BY <1>3, <1>5
<1> HIDE DEF r
<1>8. ASSUME NEW i \in 1..(Len(r) - 1) PROVE <<r[i], r[i + 1]>> \in Adjacent
  <2>1. i \in 1..n /\ i + 1 \in 1..n /\ i \in 1..(Len(p) - 1)
    BY <1>3, <1>5
  <2> QED BY <1>1, <1>5, <2>1
<1>9. IsPath(r, s, p[n])
  BY <1>1, <1>3, <1>5, <1>7, <1>8 DEF IsPath
<1>10. <<p[n], t>> \in Adjacent
  BY <1>1, <1>3 DEF n
<1> QED
  BY <1>4, <1>3, <1>6, <1>9, <1>10 DEF IsFront

LEMMA PathExists ==
  ASSUME TypeOK, NoCycle, NEW s \in Slots
  PROVE  \A t \in Slots : Over(s, t) <=> \E p : IsPath(p, s, t)
<1> DEFINE P == {t \in Slots : Over(s, t) => \E p : IsPath(p, s, t)}
<1>1. ASSUME NEW t \in Slots, \A q \in Slots : <<q, t>> \in Adjacent => q \in P
      PROVE  t \in P
  <2> SUFFICES ASSUME Over(s, t) PROVE \E p : IsPath(p, s, t)
    OBVIOUS
  <2>1. CASE s = t
    BY <2>1, PathOne
  <2>2. CASE s # t
    <3>1. PICK q \in Slots : <<q, t>> \in Adjacent /\ Over(s, q)
      BY <2>2, OverFacts
    <3>2. PICK p : IsPath(p, s, q)
      BY <1>1, <3>1
    <3> QED BY <3>1, <3>2, PathLonger
  <2> QED BY <2>1, <2>2
<1> HIDE DEF P
<1>2. \A t \in Slots : t \in P
  BY <1>1, FromParents DEF NoCycle
<1>3. ASSUME NEW t \in Slots, NEW p, IsPath(p, s, t) PROVE Over(s, t)
  <2>1. p[1] = s /\ p[Len(p)] = t
    BY <1>3 DEF IsPath
  <2>2. Len(p) \in Nat /\ 1 \in 1..Len(p) /\ Len(p) \in 1..Len(p)
    BY <1>3, PathShape
  <2>3. CASE Len(p) = 1
    BY <2>1, <2>3, OverFacts
  <2>4. CASE Len(p) # 1
    <3>1. 1 < Len(p)
      <4>1. PICK n \in Nat : n = Len(p)
        BY <2>2
      <4>2. n >= 1 /\ n # 1
        BY <2>2, <2>4, <4>1
      <4> QED BY <4>1, <4>2
    <3> QED BY <1>3, <2>1, <2>2, <3>1, PathOver
  <2> QED BY <2>3, <2>4
<1> QED
  BY <1>2, <1>3 DEF P

\* The calls one level deeper than those with the paths in C.
Deeper(target, C) ==
  UNION {{Append(p, c) : c \in Children(Last(p)) \ ToSet(p)} : p \in {q \in C : Last(q) # target}}

LEMMA PathsDeepen ==
  ASSUME TypeOK, NEW start \in Slots, NEW target
  PROVE  \E calls : /\ DfsPaths(start, target) = {p \in UNION {calls[n] : n \in 0..Len(weights)} : Last(p) = target}
                    /\ calls[0] = {<<start>>}
                    /\ \A n \in 0..Len(weights) : n # Len(weights) => calls[n + 1] = Deeper(target, calls[n])
<1> DEFINE N == Len(weights)
           X == SUBSET Seq(Slots)
           first == {<<start>>}
           step == [C \in X |-> Deeper(target, C)]
<1>1. first \in X
  OBVIOUS
<1>2. ASSUME NEW C \in X PROVE Deeper(target, C) \in X
  <2> SUFFICES ASSUME NEW p \in C, NEW c \in Children(Last(p)) PROVE Append(p, c) \in Seq(Slots)
    BY DEF Deeper
  <2>1. p \in Seq(Slots) /\ c \in Slots
    BY DEF Children, TypeOK
  <2> QED BY <2>1
<1> HIDE DEF X, first
<1>3. step \in [X -> X]
  BY <1>2
<1> HIDE DEF step
<1>4. N \in Nat
  BY SlotFacts
<1> HIDE DEF N
<1>5. PICK f : f = [n \in 0..N |-> IF n = 0 THEN first ELSE step[f[n - 1]]] /\ f \in [0..N -> X]
  <2>1. Loops(N, X, first, step)
    BY <1>1, <1>3, <1>4 DEF Loops
  <2> QED BY <2>1, Loop
<1>6. f = [n \in 0..N |-> IF n = 0 THEN first ELSE Deeper(target, f[n - 1])]
  <2>1. ASSUME NEW n \in 0..N
        PROVE  (IF n = 0 THEN first ELSE step[f[n - 1]]) = (IF n = 0 THEN first ELSE Deeper(target, f[n - 1]))
    <3>1. CASE n = 0
      BY <3>1
    <3>2. CASE n # 0
      <4>1. n - 1 \in 0..N
        BY <1>4, <3>2
      <4>2. f[n - 1] \in X
        BY <1>5, <4>1
      <4> QED BY <3>2, <4>2 DEF step
    <3> QED BY <3>1, <3>2
  <2> QED BY <1>5, <2>1
<1> DEFINE calls == CHOOSE g : g = [n \in 0..N |-> IF n = 0 THEN first ELSE Deeper(target, g[n - 1])]
<1>7. DfsPaths(start, target) = {p \in UNION {calls[n] : n \in 0..N} : Last(p) = target}
  BY DEF DfsPaths, Deeper, first, N
<1>8. calls = [n \in 0..N |-> IF n = 0 THEN first ELSE Deeper(target, calls[n - 1])]
  BY <1>6
<1> HIDE DEF calls
<1>9. calls[0] = first
  BY <1>4, <1>8
<1>10. ASSUME NEW n \in 0..N, n # N PROVE calls[n + 1] = Deeper(target, calls[n])
  <2>1. n + 1 \in 0..N /\ n + 1 # 0 /\ n + 1 - 1 = n
    BY <1>4, <1>10
  <2> QED BY <1>8, <2>1
<1> QED
  BY <1>7, <1>9, <1>10 DEF first, N

\* The search finds every path, and only these.
LEMMA DfsFinds ==
  ASSUME TypeOK, NoCycle, LinksAged, NEW start \in Slots, NEW target \in Slots
  PROVE  \A p : p \in DfsPaths(start, target) <=> IsPath(p, start, target)
<1> DEFINE N == Len(weights)
<1>1. PICK calls : /\ DfsPaths(start, target) = {p \in UNION {calls[n] : n \in 0..N} : Last(p) = target}
                   /\ calls[0] = {<<start>>}
                   /\ \A n \in 0..N : n # N => calls[n + 1] = Deeper(target, calls[n])
  BY PathsDeepen
<1>2. N \in Nat
  BY SlotFacts
<1>3. \A s, c \in Slots : c \in Children(s) <=> <<s, c>> \in Adjacent
  <2> SUFFICES ASSUME NEW s \in Slots PROVE \A c \in Slots : c \in Children(s) <=> <<s, c>> \in Adjacent
    OBVIOUS
  <2>1. \A q \in Slots : <<s, q>> \in Adjacent <=> \E l \in links : l[1] = s /\ l[2] = q
    BY SlotEdges
  <2> QED BY <2>1 DEF Children
<1>4. \A s, c : c \in Children(s) => c \in Slots
  BY DEF Children, TypeOK
<1> DEFINE M == {n \in 0..N : \A p \in calls[n] : \E t \in Slots : IsPath(p, start, t)}
<1>5. \A n \in 0..N : n \in M
  <2>1. 0 \in M
    BY <1>1, <1>2, PathOne
  <2>2. ASSUME NEW n \in 0..N, n # N, n \in M PROVE n + 1 \in M
    <3>1. n + 1 \in 0..N /\ calls[n + 1] = Deeper(target, calls[n])
      BY <1>1, <1>2, <2>2
    <3>2. ASSUME NEW p \in Deeper(target, calls[n]) PROVE \E t \in Slots : IsPath(p, start, t)
      <4>1. PICK q \in calls[n] : \E c \in Children(Last(q)) : p = Append(q, c)
        BY <3>2 DEF Deeper
      <4>2. PICK c \in Children(Last(q)) : p = Append(q, c)
        BY <4>1
      <4>3. PICK t \in Slots : IsPath(q, start, t)
        BY <2>2, <4>1
      <4>4. Last(q) = t /\ c \in Slots
        BY <1>4, <4>2, <4>3, PathShape
      <4>5. <<t, c>> \in Adjacent
        BY <1>3, <4>2, <4>3, <4>4
      <4>6. IsPath(p, start, c)
        BY <4>2, <4>3, <4>4, <4>5, PathLonger
      <4> QED BY <4>4, <4>6
    <3> QED BY <3>1, <3>2
  <2> HIDE DEF M, N
  <2> QED BY <1>2, <2>1, <2>2, Counting
<1> DEFINE Fresh(p) == \A i \in 1..(Len(p) - 1) : p[i] # target
           L == {n \in 0..N : \A t \in Slots : \A p :
                   IsPath(p, start, t) /\ Fresh(p) /\ Len(p) = n + 1 => p \in calls[n]}
<1>6. \A n \in 0..N : n \in L
  <2>1. 0 \in L
    <3> SUFFICES ASSUME NEW t \in Slots, NEW p, IsPath(p, start, t), Len(p) = 0 + 1
                 PROVE  p \in calls[0]
      BY <1>2
    <3>1. p \in Seq(Slots) /\ p[1] = start /\ Len(p) = 1
      BY DEF IsPath
    <3>2. p = <<start>>
      BY <3>1
    <3> QED BY <1>1, <3>2
  <2>2. ASSUME NEW n \in 0..N, n # N, n \in L PROVE n + 1 \in L
    <3>1. n + 1 \in 0..N /\ calls[n + 1] = Deeper(target, calls[n])
      BY <1>1, <1>2, <2>2
    <3> SUFFICES ASSUME NEW t \in Slots, NEW p, IsPath(p, start, t), Fresh(p), Len(p) = n + 1 + 1
                 PROVE  p \in calls[n + 1]
      BY <3>1
    <3>2. /\ p[1] = start /\ p[Len(p)] = t /\ 1 \in 1..Len(p) /\ Len(p) \in 1..Len(p)
          /\ 1 # Len(p) /\ n \in Nat
      BY <1>2, PathShape DEF IsPath
    <3>3. start # t
      BY <3>2, PathShort
    <3>4. PICK r, q : q \in Slots /\ <<q, t>> \in Adjacent /\ IsPath(r, start, q) /\ p = Append(r, t)
      <4>1. PICK r, q : IsFront(p, start, t, r, q)
        BY <3>3, PathFront
      <4> QED BY <4>1 DEF IsFront
    <3>5. r \in Seq(Slots) /\ Len(r) \in Nat /\ r[Len(r)] = q /\ Last(r) = q /\ Len(r) \in 1..Len(r)
      BY <3>4, PathShape DEF IsPath
    <3>6. Len(r) = n + 1 /\ \A i \in 1..Len(r) : p[i] = r[i] /\ i \in 1..(Len(p) - 1) /\ i \in 1..Len(p)
      BY <3>2, <3>4, <3>5
    <3>7. \A i \in 1..Len(r) : r[i] # target
      BY <3>6
    <3>8. \A i \in 1..(Len(r) - 1) : i \in 1..Len(r)
      BY <3>5
    <3>9. r \in calls[n]
      BY <2>2, <3>4, <3>6, <3>7, <3>8
    <3>10. t \notin ToSet(r)
      <4>1. ASSUME NEW i \in 1..Len(r), r[i] = t PROVE FALSE
        <5>1. p[i] = p[Len(p)] /\ i \in 1..Len(p) /\ i # Len(p)
          BY <3>2, <3>6, <4>1
        <5> QED BY <3>2, <5>1, PathShort
      <4> QED BY <3>5, <4>1, ToSetIn
    <3>11. t \in Children(Last(r))
      BY <1>3, <3>4, <3>5
    <3>12. Last(r) # target
      BY <3>5, <3>7
    <3>13. p \in Deeper(target, calls[n])
      BY <3>4, <3>9, <3>10, <3>11, <3>12 DEF Deeper
    <3> QED BY <3>1, <3>13
  <2> HIDE DEF L, N
  <2> QED BY <1>2, <2>1, <2>2, Counting
<1> HIDE DEF N
<1>7. ASSUME NEW p, p \in DfsPaths(start, target) PROVE IsPath(p, start, target)
  <2>1. PICK n \in 0..N : p \in calls[n] /\ Last(p) = target
    BY <1>1, <1>7
  <2>2. PICK t \in Slots : IsPath(p, start, t)
    BY <1>5, <2>1
  <2> QED BY <2>1, <2>2, PathShape
<1>8. ASSUME NEW p, IsPath(p, start, target) PROVE p \in DfsPaths(start, target)
  <2>1. Len(p) \in Nat /\ Len(p) >= 1 /\ p[Len(p)] = target /\ Last(p) = target /\ Len(p) \in 1..Len(p)
    BY <1>8, PathShape DEF IsPath
  <2>2. Len(p) <= N
    BY <1>8, PathShort DEF N
  <2>3. Len(p) - 1 \in 0..N /\ Len(p) - 1 + 1 = Len(p)
    BY <1>2, <2>1, <2>2
  <2>4. Fresh(p)
    <3> SUFFICES ASSUME NEW i \in 1..(Len(p) - 1), p[i] = target PROVE FALSE
      OBVIOUS
    <3>1. i \in 1..Len(p) /\ i # Len(p)
      BY <2>1
    <3> QED BY <1>8, <2>1, <3>1, PathShort
  <2>5. p \in calls[Len(p) - 1]
    BY <1>6, <1>8, <2>3, <2>4
  <2> QED BY <1>1, <2>1, <2>3, <2>5
<1> QED
  BY <1>7, <1>8

\* A path is named by the branches on it.
LEMMA PathNames ==
  ASSUME GraphInv, ~ moved, NEW p \in Seq(Slots), NEW s \in Slots
  PROVE  /\ Keys(weights, <<s>>) = <<weights[s]>>
         /\ Keys(weights, Append(p, s)) = Append(Keys(weights, p), weights[s])
<1>1. \A i \in 1..Len(p) : weights[p[i]] \in Branches
  BY BranchSlots
<1>2. weights[s] \in Branches /\ Len(p) \in Nat
  BY BranchSlots
<1> DEFINE named == [i \in 1..Len(p) |-> weights[p[i]]]
<1>3. Keys(weights, p) = named /\ named \in Seq(Branches) /\ Len(named) = Len(p)
  BY <1>1, <1>2 DEF Keys
<1>4. \A i \in 1..Len(p) : named[i] = weights[p[i]]
  OBVIOUS
<1> HIDE DEF named
<1> DEFINE q == Append(p, s)
<1>5. DOMAIN q = 1..(Len(p) + 1) /\ q[Len(p) + 1] = s /\ \A i \in 1..Len(p) : q[i] = p[i]
  BY <1>2
<1> HIDE DEF q
<1>6. Keys(weights, q) = [i \in 1..(Len(p) + 1) |-> weights[q[i]]]
  BY <1>5 DEF Keys
<1> DEFINE r == Append(named, weights[s])
<1>7. /\ DOMAIN r = 1..(Len(p) + 1) /\ r[Len(p) + 1] = weights[s]
      /\ \A i \in 1..Len(p) : r[i] = named[i]
      /\ r = [i \in 1..(Len(p) + 1) |-> r[i]]
  BY <1>2, <1>3
<1> HIDE DEF r
<1>8. \A i \in 1..(Len(p) + 1) : weights[q[i]] = r[i]
  <2> SUFFICES ASSUME NEW i \in 1..(Len(p) + 1) PROVE weights[q[i]] = r[i]
    OBVIOUS
  <2>1. CASE i = Len(p) + 1
    BY <1>5, <1>7, <2>1
  <2>2. CASE i # Len(p) + 1
    <3>1. i \in 1..Len(p)
      BY <1>2, <2>2
    <3> QED BY <1>4, <1>5, <1>7, <3>1
  <2> QED BY <2>1, <2>2
<1>9. Keys(weights, q) = r
  BY <1>6, <1>7, <1>8
<1>10. Keys(weights, <<s>>) = <<weights[s]>>
  BY DEF Keys
<1> QED
  BY <1>3, <1>9, <1>10 DEF q, r

LEMMA PathsByParents ==
  ASSUME GraphInv, ~ moved, NEW a \in Branches, NEW b \in Branches
  PROVE  /\ AllPaths(a, b) = IF a = b THEN {<<a>>}
                             ELSE {Append(p, b) : p \in UNION {AllPaths(a, q) : q \in ParentsOf(b)}}
         /\ AllPaths(a, b) # {} <=> Above(a, b)
<1>1. /\ TypeOK /\ NoCycle /\ LinksAged
      /\ \A c \in Branches : index[c] \in Slots /\ weights[index[c]] = c
      /\ \A s \in Slots : weights[s] \in Branches /\ index[weights[s]] = s
  BY BranchSlots DEF GraphInv
<1>2. /\ ParentsOf(b) \in SUBSET Branches
      /\ \A p \in Branches : p \in ParentsOf(b) <=> <<index[p], index[b]>> \in Adjacent
  BY ParentsSlots
<1>3. ASSUME NEW c \in Branches, NEW k
      PROVE  k \in AllPaths(a, c) <=> \E p : IsPath(p, index[a], index[c]) /\ k = Keys(weights, p)
  <2>1. \A p : p \in DfsPaths(index[a], index[c]) <=> IsPath(p, index[a], index[c])
    BY <1>1, DfsFinds
  <2> QED BY <2>1 DEF AllPaths
<1>4. AllPaths(a, b) # {} <=> Above(a, b)
  <2>1. Over(index[a], index[b]) <=> \E p : IsPath(p, index[a], index[b])
    BY <1>1, PathExists
  <2>2. AllPaths(a, b) # {} <=> \E p : IsPath(p, index[a], index[b])
    BY <1>3
  <2>3. Above(a, b) <=> Over(index[a], index[b])
    BY AboveOver
  <2> QED BY <2>1, <2>2, <2>3
<1>5. ASSUME a = b PROVE AllPaths(a, b) = {<<a>>}
  <2>1. ASSUME NEW p, IsPath(p, index[a], index[a]) PROVE p = <<index[a]>>
    <3>1. /\ p \in Seq(Slots) /\ p[1] = index[a] /\ p[Len(p)] = index[a]
          /\ 1 \in 1..Len(p) /\ Len(p) \in 1..Len(p)
      BY <2>1, PathShape DEF IsPath
    <3>2. Len(p) = 1
      <4>1. \A i, j \in 1..Len(p) : p[i] = p[j] => i = j
        BY <1>1, <2>1, PathShort
      <4>2. p[1] = p[Len(p)]
        BY <3>1
      <4> QED BY <3>1, <4>1, <4>2
    <3> QED BY <3>1, <3>2
  <2>2. IsPath(<<index[a]>>, index[a], index[a])
    BY <1>1, PathOne
  <2>3. Keys(weights, <<index[a]>>) = <<a>>
    <3>1. <<>> \in Seq(Slots)
      OBVIOUS
    <3> QED BY <1>1, <3>1, PathNames
  <2>4. \A k : k \in AllPaths(a, b) <=> k = <<a>>
    BY <1>3, <1>5, <2>1, <2>2, <2>3
  <2> QED BY <2>4
<1>6. ASSUME a # b
      PROVE  AllPaths(a, b) = {Append(p, b) : p \in UNION {AllPaths(a, q) : q \in ParentsOf(b)}}
  <2>1. ASSUME NEW k \in AllPaths(a, b)
        PROVE  k \in {Append(p, b) : p \in UNION {AllPaths(a, q) : q \in ParentsOf(b)}}
    <3>1. PICK p : IsPath(p, index[a], index[b]) /\ k = Keys(weights, p)
      BY <1>3
    <3>2. index[a] # index[b]
      BY <1>1, <1>6
    <3>3. PICK r, s : IsFront(p, index[a], index[b], r, s)
      BY <1>1, <3>1, <3>2, PathFront
    <3>4. s \in Slots /\ <<s, index[b]>> \in Adjacent /\ IsPath(r, index[a], s) /\ p = Append(r, index[b])
      BY <3>3 DEF IsFront
    <3>5. weights[s] \in ParentsOf(b) /\ index[weights[s]] = s /\ weights[s] \in Branches
      BY <1>1, <1>2, <3>4
    <3>6. Keys(weights, r) \in AllPaths(a, weights[s])
      BY <1>3, <3>4, <3>5
    <3>7. k = Append(Keys(weights, r), b)
      <4>1. r \in Seq(Slots)
        BY <3>4 DEF IsPath
      <4>2. Keys(weights, Append(r, index[b])) = Append(Keys(weights, r), weights[index[b]])
        BY <1>1, <4>1, PathNames
      <4> QED BY <1>1, <3>1, <3>4, <4>2
    <3> QED BY <3>5, <3>6, <3>7
  <2>2. ASSUME NEW q \in ParentsOf(b), NEW p \in AllPaths(a, q) PROVE Append(p, b) \in AllPaths(a, b)
    <3>1. q \in Branches /\ <<index[q], index[b]>> \in Adjacent
      BY <1>2
    <3>2. PICK r : IsPath(r, index[a], index[q]) /\ p = Keys(weights, r)
      BY <1>3, <3>1
    <3>3. IsPath(Append(r, index[b]), index[a], index[b])
      BY <1>1, <3>1, <3>2, PathLonger
    <3>4. Append(p, b) = Keys(weights, Append(r, index[b]))
      <4>1. r \in Seq(Slots)
        BY <3>2 DEF IsPath
      <4>2. Keys(weights, Append(r, index[b])) = Append(Keys(weights, r), weights[index[b]])
        BY <1>1, <4>1, PathNames
      <4> QED BY <1>1, <3>2, <4>2
    <3> QED BY <1>3, <3>3, <3>4
  <2> QED BY <2>1, <2>2
<1> QED
  BY <1>4, <1>5, <1>6

LEMMA SubtreeFound ==
  ASSUME GraphInv, ~ moved, NEW a \in Branches
  PROVE  SubtreeOf(a) = {b \in Branches : b # a /\ Above(a, b)}
<1> DEFINE depth == Downwards(BySlot, {index[a]})
<1>1. /\ Walkable(Slots, BySlot)
      /\ \A c \in Branches : index[c] \in Slots /\ weights[index[c]] = c
      /\ \A s \in Slots : weights[s] \in Branches /\ index[weights[s]] = s
  BY BranchSlots
<1>2. {index[a]} \in SUBSET Slots
  BY <1>1
<1>3. NearestBelow(Slots, BySlot, {index[a]}, depth)
  BY <1>1, <1>2, DownwardsFinds
<1>4. \A y : y \in DOMAIN depth <=> y \in Slots /\ Over(index[a], y)
  BY <1>3 DEF NearestBelow, BySlot
<1> HIDE DEF depth
<1>5. \A b \in Branches : Above(a, b) <=> Over(index[a], index[b])
  BY AboveOver
<1>6. SubtreeOf(a) = {weights[s] : s \in DOMAIN depth \ {index[a]}}
  BY DEF SubtreeOf, depth
<1> QED
  BY <1>1, <1>4, <1>5, <1>6

-----------------------------------------------------------------------------
(* What holds at every moment.                                             *)

LEMMA GraphAtFirst ==
  ASSUME Init
  PROVE  GraphInv
<1>1. TypeOK
  <2>1. weights \in Seq(Ids) /\ index \in [Ids -> Nat]
    BY DEF Init
  <2>2. moved \in BOOLEAN
    BY Zenon DEF Init
  <2> QED BY <2>1, <2>2 DEF Init, TypeOK
<1>2. NoCycle
  BY DEF Init, NoCycle, IsAcyclic, Slots
<1>3. Exact(weights, index)
  BY DEF Init, Exact
<1> QED
  BY <1>1, <1>2, <1>3 DEF Init, GraphInv, LinksAged

\* Queries leave the graph alone.
LEMMA QueriesOnlyRead == [Change \/ Query]_vars => [Next]_graphVars
<1>1. Change => [Next]_graphVars
  BY DEF Change
<1>2. Query => UNCHANGED graphVars
  BY DEF Query, BeginMergeBase, EndMergeBase, BeginDivergence, ReadDepth, EndDivergence
<1>3. UNCHANGED vars => UNCHANGED graphVars
  BY DEF vars
<1> QED
  BY <1>1, <1>2, <1>3

LEMMA GraphStays == QueriesSpec => []GraphInv
<1>1. QueriesInit => GraphInv
  BY GraphAtFirst DEF QueriesInit
<1>2. GraphInv /\ [Change \/ Query]_vars => GraphInv'
  BY GraphStep, QueriesOnlyRead
<1> QED
  BY <1>1, <1>2, PTL DEF QueriesSpec

\* While no removal has misled the map, depth_of and depth_map agree for every
\* branch, and a branch is one deeper than its shallowest parent.
THEOREM DepthsAreNearest == QueriesSpec => []DepthIsNearest
<1>1. GraphInv => DepthIsNearest
  BY DepthOfBranch DEF DepthIsNearest
<1> QED
  BY <1>1, GraphStays, PTL

\* all_paths finds every path there is.
THEOREM PathsAreComplete == QueriesSpec => []PathsThroughParents
<1>1. GraphInv => PathsThroughParents
  BY PathsByParents DEF PathsThroughParents, Settled
<1> QED
  BY <1>1, GraphStays, PTL

\* subtree_of, is_ancestor and all_paths, which walk in different directions,
\* agree on who descends from whom.
THEOREM SubtreesAgree == QueriesSpec => []SubtreeMirrorsAncestors
<1>1. ASSUME GraphInv, ~ moved, NEW a \in Branches, NEW b \in Branches
      PROVE  /\ (b \in SubtreeOf(a)) = (IsAncestor(a, b) /\ a # b)
             /\ (AllPaths(a, b) # {}) = IsAncestor(a, b)
  <2>1. IsAncestor(a, b) <=> Above(a, b)
    <3>1. Above(b, b)
      BY DEF Above
    <3>2. a \in ToSet(AncestorsOf(b)) <=> a # b /\ Above(a, b)
      BY <1>1, AncestorsFound DEF AncestorList
    <3> QED BY <3>1, <3>2 DEF IsAncestor
  <2>2. b \in SubtreeOf(a) <=> b # a /\ Above(a, b)
    BY <1>1, SubtreeFound
  <2>3. AllPaths(a, b) # {} <=> Above(a, b)
    BY <1>1, PathsByParents
  <2>4. (b \in SubtreeOf(a)) = (IsAncestor(a, b) /\ a # b)
    <3>1. b \in SubtreeOf(a) <=> IsAncestor(a, b) /\ a # b
      BY <2>1, <2>2
    <3>2. CASE b \in SubtreeOf(a)
      <4>1. (b \in SubtreeOf(a)) = TRUE /\ (IsAncestor(a, b) /\ a # b) = TRUE
        BY <3>1, <3>2
      <4> QED BY <4>1
    <3>3. CASE b \notin SubtreeOf(a)
      <4>1. (b \in SubtreeOf(a)) = FALSE /\ (IsAncestor(a, b) /\ a # b) = FALSE
        BY <3>1, <3>3
      <4> QED BY <4>1
    <3> QED BY <3>2, <3>3
  <2>5. (AllPaths(a, b) # {}) = IsAncestor(a, b)
    BY <2>1, <2>3, Zenon DEF IsAncestor
  <2> QED BY <2>4, <2>5
<1>2. GraphInv => SubtreeMirrorsAncestors
  BY <1>1 DEF SubtreeMirrorsAncestors, Settled
<1> QED
  BY <1>2, GraphStays, PTL

-----------------------------------------------------------------------------
(* Graphs that grow, and forests.                                          *)

\* A graph with vertices V and edges A.
Dag(V, A) == A \in SUBSET (V \X V) /\ IsAcyclic(V, A)

Grown(V, A, W, B) == V \subseteq W /\ A \subseteq B /\ A \in SUBSET (V \X V) /\ Dag(W, B)

\* No vertex has two parents.
Single(A) == \A p, q, y : <<p, y>> \in A /\ <<q, y>> \in A => p = q

\* y and its ancestors.
Upper(V, A, y) == {x \in V : Leads(V, A, x, y)}

LEMMA LeadsGrow ==
  ASSUME NEW V, NEW A, NEW W, NEW B, Grown(V, A, W, B), NEW y \in V, NEW x, Leads(V, A, x, y)
  PROVE  Leads(W, B, x, y)
<1> SUFFICES ASSUME NEW S \in SUBSET W, y \in S, ClosedUp(B, S) PROVE x \in S
  BY DEF Leads
<1>1. \A e \in A : e \in B /\ e[1] \in V /\ e[2] \in V
  BY DEF Grown
<1>2. ClosedUp(A, S \cap V) /\ S \cap V \in SUBSET V /\ y \in S \cap V
  BY <1>1 DEF ClosedUp
<1> QED
  BY <1>2 DEF Leads

\* New vertices alone change no ancestry.
LEMMA LeadsSame ==
  ASSUME NEW V, NEW A, NEW W, Grown(V, A, W, A), NEW y \in V
  PROVE  Upper(W, A, y) = Upper(V, A, y)
<1>1. Upper(V, A, y) \subseteq Upper(W, A, y)
  BY LeadsGrow DEF Upper, Grown
<1>2. ASSUME NEW x, Leads(W, A, x, y) PROVE Leads(V, A, x, y)
  <2>1. \A S \in SUBSET V : S \in SUBSET W
    BY DEF Grown
  <2> QED BY <1>2, <2>1 DEF Leads
<1>3. \A x : Leads(V, A, x, y) => x \in V
  BY LeadsIn DEF Grown
<1> QED
  BY <1>1, <1>2, <1>3 DEF Upper

\* No vertex leads to a parent of its own.
LEMMA ParentStrict ==
  ASSUME NEW V, NEW A, Dag(V, A), NEW q \in V, NEW y \in V, <<q, y>> \in A
  PROVE  Leads(V, A, q, y) /\ ~ Leads(V, A, y, q) /\ q # y
<1> DEFINE e == <<q, y>>
<1>1. e \in A /\ e[1] = q /\ e[2] = y
  OBVIOUS
<1>2. Leads(V, A, q, y)
  BY <1>1, LeadsEdge
<1>3. q # y
  <2>1. {y} \in SUBSET V /\ {y} # {}
    OBVIOUS
  <2>2. PICK s \in {y} : \A t \in {y} : <<t, s>> \notin A
    BY <2>1 DEF Dag, IsAcyclic
  <2> QED BY <2>2
<1> QED
  BY <1>2, <1>3, LeadsOneWay DEF Dag

\* In a forest two ancestors of one vertex are above each other.
LEMMA Comparable ==
  ASSUME NEW V, NEW A, Dag(V, A), Single(A), NEW a \in V, NEW x, NEW y,
         Leads(V, A, x, a), Leads(V, A, y, a)
  PROVE  Leads(V, A, x, y) \/ Leads(V, A, y, x)
<1> DEFINE P == {z \in V : \A u, v : Leads(V, A, u, z) /\ Leads(V, A, v, z) =>
                             Leads(V, A, u, v) \/ Leads(V, A, v, u)}
<1>1. ASSUME NEW z \in V, \A q \in V : <<q, z>> \in A => q \in P PROVE z \in P
  <2> SUFFICES ASSUME NEW u, NEW v, Leads(V, A, u, z), Leads(V, A, v, z)
               PROVE  Leads(V, A, u, v) \/ Leads(V, A, v, u)
    OBVIOUS
  <2>1. CASE u = z \/ v = z
    BY <2>1
  <2>2. CASE u # z /\ v # z
    <3>1. PICK p \in V : <<p, z>> \in A /\ Leads(V, A, u, p)
      BY <2>2, LeadsByParent DEF Dag
    <3>2. PICK q \in V : <<q, z>> \in A /\ Leads(V, A, v, q)
      BY <2>2, LeadsByParent DEF Dag
    <3>3. p = q /\ p \in P
      BY <1>1, <3>1, <3>2 DEF Single
    <3> QED BY <3>1, <3>2, <3>3
  <2> QED BY <2>1, <2>2
<1> HIDE DEF P
<1>2. a \in P
  BY <1>1, FromParents DEF Dag
<1> QED
  BY <1>2 DEF P

\* What is between f and a in a forest that has grown was there before.
LEMMA Between ==
  ASSUME NEW V, NEW A, NEW W, NEW B, Grown(V, A, W, B), Single(B), NEW f, NEW a \in V,
         Leads(V, A, f, a), NEW x, Leads(W, B, f, x), Leads(W, B, x, a)
  PROVE  Leads(V, A, x, a)
<1> DEFINE P == {z \in V : Leads(V, A, f, z) =>
                   \A u : Leads(W, B, f, u) /\ Leads(W, B, u, z) => Leads(V, A, u, z)}
<1>0. V \subseteq W /\ A \subseteq B /\ A \in SUBSET (V \X V) /\ B \in SUBSET (W \X W) /\ IsAcyclic(W, B)
  BY DEF Grown, Dag
<1>1. ASSUME NEW z \in V, \A q \in V : <<q, z>> \in A => q \in P PROVE z \in P
  <2> SUFFICES ASSUME Leads(V, A, f, z), NEW u, Leads(W, B, f, u), Leads(W, B, u, z)
               PROVE  Leads(V, A, u, z)
    OBVIOUS
  <2>1. CASE u = z
    BY <2>1, LeadsSelf
  <2>2. CASE f = z
    <3>1. u \in W /\ f \in W
      BY <1>0, <2>2, LeadsIn
    <3>2. u = z
      BY <1>0, <2>2, <3>1, LeadsOneWay
    <3> QED BY <2>1, <3>2
  <2>3. CASE u # z /\ f # z
    <3>1. PICK q \in V : <<q, z>> \in A /\ Leads(V, A, f, q)
      BY <1>0, <2>3, LeadsByParent
    <3>2. PICK p \in W : <<p, z>> \in B /\ Leads(W, B, u, p)
      BY <1>0, <2>3, LeadsByParent
    <3>3. <<q, z>> \in B
      BY <1>0, <3>1
    <3>4. p = q
      BY <3>2, <3>3 DEF Single
    <3>5. Leads(V, A, u, q)
      BY <1>1, <3>1, <3>2, <3>4
    <3> DEFINE e == <<q, z>>
    <3>6. e \in A /\ e[1] = q /\ e[2] = z
      BY <3>1
    <3>7. Leads(V, A, q, z)
      BY <3>6, LeadsEdge
    <3> QED BY <3>5, <3>7, LeadsOn
  <2> QED BY <2>1, <2>2, <2>3
<1> HIDE DEF P
<1>2. IsAcyclic(V, A)
  BY <1>0 DEF IsAcyclic
<1>3. a \in P
  BY <1>1, <1>2, FromParents
<1> QED
  BY <1>3 DEF P

-----------------------------------------------------------------------------
(* Counting the ancestors.                                                 *)

LEMMA UpperFinite ==
  ASSUME NEW V, NEW A, IsFiniteSet(V), NEW y
  PROVE  IsFiniteSet(Upper(V, A, y)) /\ Cardinality(Upper(V, A, y)) \in Nat
<1>1. Upper(V, A, y) \in SUBSET V
  BY DEF Upper
<1> QED
  BY <1>1, FS_Subset, FS_CardinalityType

LEMMA UpperGrows ==
  ASSUME NEW V, NEW A, NEW W, NEW B, Grown(V, A, W, B), IsFiniteSet(W), NEW y \in V
  PROVE  /\ Upper(V, A, y) \subseteq Upper(W, B, y)
         /\ Cardinality(Upper(V, A, y)) <= Cardinality(Upper(W, B, y))
<1>1. Upper(V, A, y) \in SUBSET Upper(W, B, y)
  BY LeadsGrow DEF Upper, Grown
<1>2. IsFiniteSet(Upper(W, B, y))
  BY UpperFinite
<1> QED
  BY <1>1, <1>2, FS_Subset

LEMMA RootUpper ==
  ASSUME NEW V, NEW A, Dag(V, A), NEW y \in V, \A q \in V : <<q, y>> \notin A
  PROVE  Cardinality(Upper(V, A, y)) = 1
<1>1. Upper(V, A, y) = {y}
  BY LeadsSelf, LeadsByParent DEF Upper, Dag
<1> QED
  BY <1>1, FS_Singleton

LEMMA ChildUpper ==
  ASSUME NEW V, NEW A, Dag(V, A), Single(A), IsFiniteSet(V), NEW y \in V, NEW q \in V,
         <<q, y>> \in A
  PROVE  Cardinality(Upper(V, A, y)) = Cardinality(Upper(V, A, q)) + 1
<1>1. Leads(V, A, q, y) /\ ~ Leads(V, A, y, q)
  BY ParentStrict
<1>2. Upper(V, A, y) = Upper(V, A, q) \cup {y} /\ y \notin Upper(V, A, q)
  <2>1. ASSUME NEW x \in V PROVE Leads(V, A, x, y) <=> x = y \/ Leads(V, A, x, q)
    <3>1. ASSUME Leads(V, A, x, y), x # y PROVE Leads(V, A, x, q)
      <4>1. PICK p \in V : <<p, y>> \in A /\ Leads(V, A, x, p)
        BY <3>1, LeadsByParent DEF Dag
      <4>2. p = q
        BY <4>1 DEF Single
      <4> QED BY <4>1, <4>2
    <3>2. Leads(V, A, x, q) => Leads(V, A, x, y)
      BY <1>1, LeadsOn
    <3> QED BY <3>1, <3>2, LeadsSelf
  <2> QED BY <1>1, <2>1 DEF Upper
<1>3. IsFiniteSet(Upper(V, A, q))
  BY UpperFinite
<1> QED
  BY <1>2, <1>3, FS_AddElement

\* In a forest the ancestors of a are those of x and what is between.
LEMMA UpperSplits ==
  ASSUME NEW V, NEW A, Dag(V, A), Single(A), IsFiniteSet(V), NEW a \in V, NEW x \in V,
         Leads(V, A, x, a)
  PROVE  LET between == {c \in V : Leads(V, A, c, a) /\ Leads(V, A, x, c)} IN
         /\ Cardinality(between) \in Nat
         /\ Cardinality(Upper(V, A, a)) = Cardinality(Upper(V, A, x)) + Cardinality(between) - 1
<1> DEFINE between == {c \in V : Leads(V, A, c, a) /\ Leads(V, A, x, c)}
           up == Upper(V, A, x)
<1>1. IsFiniteSet(between) /\ IsFiniteSet(up)
  <2>1. between \in SUBSET V
    OBVIOUS
  <2> QED BY <2>1, FS_Subset, UpperFinite
<1>2. Upper(V, A, a) = up \cup between
  BY LeadsOn, Comparable DEF Upper
<1>3. up \cap between = {x}
  BY LeadsSelf, LeadsOneWay DEF Upper, Dag
<1>4. Cardinality(up \cap between) = 1
  BY <1>3, FS_Singleton
<1> HIDE DEF between, up
<1>5. Cardinality(up \cup between) = Cardinality(up) + Cardinality(between) - Cardinality(up \cap between)
  BY <1>1, FS_Union
<1>6. Cardinality(between) \in Nat
  BY <1>1, FS_CardinalityType
<1>7. Cardinality(Upper(V, A, a)) = Cardinality(up) + Cardinality(between) - 1
  BY <1>2, <1>4, <1>5
<1> QED
  BY <1>6, <1>7 DEF between, up

\* Strictly above is strictly fewer ancestors.
LEMMA UpperStrict ==
  ASSUME NEW V, NEW A, Dag(V, A), IsFiniteSet(V), NEW y \in V, NEW x \in V,
         Leads(V, A, x, y), x # y
  PROVE  Cardinality(Upper(V, A, x)) < Cardinality(Upper(V, A, y))
<1>1. Upper(V, A, x) \in SUBSET Upper(V, A, y)
  BY LeadsOn DEF Upper
<1>2. y \in Upper(V, A, y) /\ y \notin Upper(V, A, x)
  BY LeadsSelf, LeadsOneWay DEF Upper, Dag
<1>3. IsFiniteSet(Upper(V, A, y))
  BY UpperFinite
<1>4. Cardinality(Upper(V, A, x)) <= Cardinality(Upper(V, A, y))
  BY <1>1, <1>3, FS_Subset
<1>5. Cardinality(Upper(V, A, x)) # Cardinality(Upper(V, A, y))
  BY <1>1, <1>2, <1>3, FS_Subset
<1>6. Cardinality(Upper(V, A, x)) \in Nat /\ Cardinality(Upper(V, A, y)) \in Nat
  BY UpperFinite
<1> QED
  BY <1>4, <1>5, <1>6

-----------------------------------------------------------------------------
(* The lineage of the branches while the map is right.                     *)

Lines == {<<weights[l[1]], weights[l[2]]>> : l \in links}

LEMMA LinesFacts ==
  ASSUME GraphInv, ~ moved
  PROVE  /\ Dag(Branches, Lines) /\ IsFiniteSet(Branches)
         /\ \A b : ParentsOf(b) = {p \in Branches : <<p, b>> \in Lines}
         /\ \A b \in Branches : \A x : Above(x, b) <=> Leads(Branches, Lines, x, b)
<1>1. /\ weights \in Seq(Ids) /\ index \in [Ids -> Nat] /\ Exact(weights, index)
      /\ Slots = 1..Len(weights) /\ Adjacent \in SUBSET (Slots \X Slots)
      /\ \A l \in links : l[1] \in Slots /\ l[2] \in Slots
  BY SlotFacts DEF GraphInv, TypeOK
<1>2. Branches = NodeImage(weights) /\ Lines = EdgeImage(weights, Adjacent)
  BY LineageView DEF GraphInv, Branches, Lines
<1>3. IsAcyclic(Branches, Lines)
  <2>1. IsAcyclic(1..Len(weights), Adjacent)
    BY <1>1 DEF GraphInv, NoCycle
  <2> QED BY <1>1, <1>2, <2>1, ImageAcyclic
<1>4. \A l \in links : weights[l[1]] \in Branches /\ weights[l[2]] \in Branches
  BY <1>1 DEF Branches
<1>5. Lines \in SUBSET (Branches \X Branches)
  BY <1>4 DEF Lines
<1>6. ASSUME NEW b PROVE ParentsOf(b) = {p \in Branches : <<p, b>> \in Lines}
  <2>1. ASSUME NEW p PROVE p \in ParentsOf(b) <=> <<p, b>> \in Lines
    BY DEF ParentsOf, Lines
  <2>2. \A p : <<p, b>> \in Lines => p \in Branches
    BY <1>5
  <2> QED BY <2>1, <2>2
<1>7. ASSUME NEW S \in SUBSET Branches
      PROVE  ClosedUp(Lines, S) <=> \A c \in S : ParentsOf(c) \subseteq S
  <2>1. ASSUME ClosedUp(Lines, S), NEW c \in S, NEW p \in ParentsOf(c) PROVE p \in S
    <3>1. <<p, c>> \in Lines
      BY <1>6
    <3> DEFINE e == <<p, c>>
    <3>2. e \in Lines /\ e[1] = p /\ e[2] = c
      BY <3>1
    <3> HIDE DEF e
    <3> QED BY <2>1, <3>2 DEF ClosedUp
  <2>2. ASSUME \A c \in S : ParentsOf(c) \subseteq S, NEW e \in Lines, e[2] \in S PROVE e[1] \in S
    <3>1. e = <<e[1], e[2]>> /\ e[1] \in Branches
      BY <1>5
    <3>2. e[1] \in ParentsOf(e[2])
      BY <1>6, <3>1
    <3> QED BY <2>2, <3>2
  <2> QED BY <2>1, <2>2 DEF ClosedUp
<1>8. \A b \in Branches : \A x : Above(x, b) <=> Leads(Branches, Lines, x, b)
  BY <1>7 DEF Above, Leads
<1> QED
  BY <1>3, <1>5, <1>6, <1>8, BranchSlots DEF Dag

LEMMA ForestLines ==
  ASSUME GraphInv, ~ moved, IsForest
  PROVE  Single(Lines)
<1> SUFFICES ASSUME NEW p, NEW q, NEW y, <<p, y>> \in Lines, <<q, y>> \in Lines PROVE p = q
  BY DEF Single
<1>1. y \in Branches /\ p \in ParentsOf(y) /\ q \in ParentsOf(y) /\ p \in Branches /\ q \in Branches
  BY LinesFacts DEF Dag
<1>2. /\ \A b \in Branches : index[b] \in Slots /\ weights[index[b]] = b
      /\ <<index[p], index[y]>> \in Adjacent /\ <<index[q], index[y]>> \in Adjacent
  BY <1>1, BranchSlots, ParentsSlots
<1>3. index[p] = index[q]
  BY <1>1, <1>2, ForestSlots DEF OneParent
<1> QED
  BY <1>1, <1>2, <1>3

\* While nothing is removed, the lineage only grows.
LEMMA LinesGrow ==
  ASSUME GraphInv, [Next]_graphVars, ~ moved', removals' = removals
  PROVE  /\ ~ moved
         /\ Grown(Branches, Lines, Branches', Lines')
         /\ inserted \in Nat /\ inserted' \in Nat /\ inserted <= inserted'
         /\ inserted' = inserted => Lines' = Lines
<1>0. GraphInv' /\ inserted \in Nat /\ removals \in Nat /\ TypeOK
  BY GraphStep DEF GraphInv, TypeOK
<1>1. ~ moved
  BY DEF Next, AddNode, AddEdge, RemoveNode, graphVars
<1>2. Dag(Branches, Lines)
  BY <1>1, LinesFacts
<1>3. Dag(Branches', Lines')
  <2>1. (GraphInv /\ ~ moved => Dag(Branches, Lines))'
    BY LinesFacts, PTL
  <2> QED BY <1>0, <2>1
<1>4. /\ Branches = NodeImage(weights) /\ Lines = EdgeImage(weights, Adjacent)
      /\ Branches' = NodeImage(weights') /\ Lines' = EdgeImage(weights', Adjacent')
  <2>1. Branches = NodeImage(weights) /\ Lines = EdgeImage(weights, Adjacent)
    BY <1>0, LineageView DEF Branches, Lines
  <2>2. (TypeOK => Branches = NodeImage(weights) /\ Lines = EdgeImage(weights, Adjacent))'
    BY LineageView, PTL DEF Branches, Lines
  <2> QED BY <1>0, <2>1, <2>2 DEF GraphInv, NodeImage, EdgeImage
<1>5. Adjacent \in SUBSET ((1..Len(weights)) \X (1..Len(weights)))
  BY <1>0, SlotFacts
<1>6. Exact(weights, index)
  BY <1>1 DEF GraphInv
<1>7. CASE UNCHANGED graphVars
  <2>1. Branches' = Branches /\ Lines' = Lines /\ inserted' = inserted
    BY <1>7 DEF graphVars, Branches, Lines, Slots
  <2> QED BY <1>0, <1>1, <1>2, <2>1 DEF Grown, Dag
<1>8. ASSUME NEW S, Continues(weights, weights', S), links' = links, inserted' = inserted,
             weights' \in Seq(Ids)
      PROVE  Branches \subseteq Branches' /\ Lines' = Lines
  <2>1. NodeImage(weights') = NodeImage(weights) \cup S
    BY <1>0, <1>8, ContinuesNodes DEF TypeOK
  <2>2. Adjacent' = Adjacent
    BY <1>8 DEF Adjacent
  <2>3. EdgeImage(weights', Adjacent) = EdgeImage(weights, Adjacent)
    BY <1>0, <1>5, <1>8, ContinuesEdges DEF TypeOK
  <2> QED BY <1>4, <2>1, <2>2, <2>3
<1>9. ASSUME NEW b \in Ids, AddNode(b)
      PROVE  Branches \subseteq Branches' /\ Lines' = Lines /\ inserted' = inserted
  <2>1. Graph \in [weights : Seq(Ids), index : [Ids -> Nat]] /\ Graph.weights = weights /\ Graph.index = index
    BY <1>0 DEF Graph, TypeOK
  <2>2. weights' = EnsureOrInsert(Graph, b).weights /\ links' = links /\ inserted' = inserted
    BY <1>9 DEF AddNode
  <2>3. Continues(weights, weights', {b}) /\ weights' \in Seq(Ids)
    BY <1>6, <2>1, <2>2, EnsureContinues, EnsureType
  <2> QED BY <1>8, <2>2, <2>3
<1>10. ASSUME NEW p \in Ids, NEW c \in Ids, AddEdge(p, c)
       PROVE  /\ Branches \subseteq Branches' /\ Lines \subseteq Lines'
              /\ inserted <= inserted' /\ (inserted' = inserted => Lines' = Lines)
  <2>1. Branches \subseteq Branches' /\ Lines \subseteq Lines'
    BY <1>0, <1>4, <1>6, <1>10, AddEdgeImage
  <2>2. /\ weights' \in Seq(Ids)
        /\ (links' = links /\ inserted' = inserted) \/ inserted' = inserted + 1
    BY <1>0, <1>10, AddShape
  <2>3. inserted' = inserted => links' = links
    BY <1>0, <2>2
  <2>4. Continues(weights, weights', {p, c})
    BY <1>0, <1>6, <1>10, AddContinues
  <2>5. inserted' = inserted => Lines' = Lines
    BY <1>8, <2>2, <2>3, <2>4
  <2> QED BY <1>0, <2>1, <2>2, <2>5
<1>11. ASSUME NEW b \in Ids, RemoveNode(b) PROVE FALSE
  BY <1>0, <1>11 DEF RemoveNode
<1>12. inserted' \in Nat
  BY <1>0 DEF GraphInv, TypeOK
<1>13. CASE \E b \in Ids : AddNode(b)
  BY <1>0, <1>1, <1>2, <1>3, <1>9, <1>12, <1>13 DEF Grown, Dag
<1>14. CASE \E p, c \in Ids : AddEdge(p, c)
  BY <1>0, <1>1, <1>2, <1>3, <1>10, <1>12, <1>14 DEF Grown, Dag
<1> QED
  BY <1>7, <1>11, <1>13, <1>14 DEF Next

-----------------------------------------------------------------------------
(* Depth in a lineage of forks.                                            *)

\* There the depth of a branch is the number of its ancestors ...
LEMMA ForestDepth ==
  ASSUME GraphInv, ~ moved, Single(Lines), NEW b \in Branches
  PROVE  DepthOf(b) \in Nat /\ Cardinality(Upper(Branches, Lines, b)) = DepthOf(b) + 1
<1> DEFINE V == Branches
           A == Lines
           P == {y \in V : Cardinality(Upper(V, A, y)) = DepthOf(y) + 1}
<1>1. /\ Dag(V, A) /\ IsFiniteSet(V)
      /\ \A y : ParentsOf(y) = {p \in V : <<p, y>> \in A}
  BY LinesFacts
<1>2. \A y \in V : DepthOf(y) \in Nat
  BY DepthOfBranch
<1>3. ASSUME NEW y \in V, \A q \in V : <<q, y>> \in A => q \in P PROVE y \in P
  <2>1. CASE \A q \in V : <<q, y>> \notin A
    <3>1. ParentsOf(y) = {}
      BY <1>1, <2>1
    <3>2. DepthOf(y) = 0
      BY <3>1, DepthOfBranch
    <3>3. Cardinality(Upper(V, A, y)) = 1
      BY <1>1, <2>1, RootUpper
    <3> QED BY <3>2, <3>3
  <2>2. CASE \E q \in V : <<q, y>> \in A
    <3>1. PICK p \in ParentsOf(y) : DepthOf(y) = DepthOf(p) + 1
      <4>1. ParentsOf(y) # {}
        BY <1>1, <2>2
      <4> QED BY <4>1, DepthOfBranch
    <3>2. p \in V /\ <<p, y>> \in A
      BY <1>1
    <3>3. Cardinality(Upper(V, A, y)) = Cardinality(Upper(V, A, p)) + 1
      BY <1>1, <3>2, ChildUpper
    <3>4. Cardinality(Upper(V, A, p)) = DepthOf(p) + 1
      BY <1>3, <3>2
    <3> QED BY <1>2, <3>1, <3>2, <3>3, <3>4
  <2> QED BY <2>1, <2>2
<1> HIDE DEF P
<1>4. b \in P
  BY <1>1, <1>3, FromParents DEF Dag
<1> QED
  BY <1>2, <1>4 DEF P

\* ... and grows by the number of edges on the way down.
LEMMA ForestHops ==
  ASSUME GraphInv, ~ moved, Single(Lines), NEW b \in Branches, NEW x \in Branches, Above(x, b)
  PROVE  /\ DepthOf(x) \in Nat /\ DepthOf(b) \in Nat /\ Hops(x, b) \in Int
         /\ DepthOf(b) = DepthOf(x) + Hops(x, b)
<1>1. /\ Dag(Branches, Lines) /\ IsFiniteSet(Branches)
      /\ \A y \in Branches : \A u : Above(u, y) <=> Leads(Branches, Lines, u, y)
  BY LinesFacts
<1> DEFINE between == {c \in Branches : Leads(Branches, Lines, c, b) /\ Leads(Branches, Lines, x, c)}
<1>2. {c \in Branches : Above(c, b) /\ Above(x, c)} = between
  BY <1>1
<1>3. /\ Cardinality(between) \in Nat
      /\ Cardinality(Upper(Branches, Lines, b)) =
           Cardinality(Upper(Branches, Lines, x)) + Cardinality(between) - 1
  BY <1>1, UpperSplits
<1>4. Hops(x, b) = Cardinality(between) - 1
  BY <1>2 DEF Hops
<1> HIDE DEF between
<1>5. /\ DepthOf(b) \in Nat /\ Cardinality(Upper(Branches, Lines, b)) = DepthOf(b) + 1
      /\ DepthOf(x) \in Nat /\ Cardinality(Upper(Branches, Lines, x)) = DepthOf(x) + 1
  BY ForestDepth
<1> QED
  BY <1>3, <1>4, <1>5

LEMMA ForestDeeper ==
  ASSUME GraphInv, ~ moved, Single(Lines), NEW b \in Branches, NEW x \in Branches, Above(x, b), x # b
  PROVE  DepthOf(x) \in Nat /\ DepthOf(b) \in Nat /\ DepthOf(x) < DepthOf(b)
<1>1. /\ Dag(Branches, Lines) /\ IsFiniteSet(Branches) /\ Leads(Branches, Lines, x, b)
  BY LinesFacts
<1>2. Cardinality(Upper(Branches, Lines, x)) < Cardinality(Upper(Branches, Lines, b))
  BY <1>1, UpperStrict
<1>3. /\ DepthOf(b) \in Nat /\ Cardinality(Upper(Branches, Lines, b)) = DepthOf(b) + 1
      /\ DepthOf(x) \in Nat /\ Cardinality(Upper(Branches, Lines, x)) = DepthOf(x) + 1
  BY ForestDepth
<1> QED
  BY <1>2, <1>3

-----------------------------------------------------------------------------
(* What a query has in hand between its locks.                             *)

\* find_merge_base: found for a are some of the branches above it, b is none of
\* them, and what was shared is above b; in a forest, the ancestors that a has got
\* since are above all that were found.
BaseAsked(V, A, q) ==
  /\ q.a \in V /\ q.b \in Ids /\ q.a # q.b /\ q.b \notin q.found
  /\ q.found \subseteq Upper(V, A, q.a)
  /\ q.shared # {} => q.b \in V
  /\ q.shared \subseteq q.found /\ q.shared \subseteq Upper(V, A, q.b)
  /\ Single(A) => \A x \in Upper(V, A, q.a) \ q.found, f \in q.found : x \in Upper(V, A, f)

\* divergence_depth with the common ancestor: it is above a, or a itself.
LowestAsked(V, A, q) ==
  /\ q.a \in Ids
  /\ q.found = q.a \/ (q.a \in V /\ q.found \in Upper(V, A, q.a))

\* With the depth of a as well: in a forest a may have got deeper, when edges were
\* added.
DepthRead(V, A, n, q) ==
  /\ q.a \in V /\ q.found[1] \in Upper(V, A, q.a) /\ q.found[2] \in Nat
  /\ Single(A) => /\ q.found[2] < Cardinality(Upper(V, A, q.a))
                  /\ q.since[2] = n => Cardinality(Upper(V, A, q.a)) = q.found[2] + 1

Asked(V, A, n, q) ==
  /\ q.step \in {"merge_base", "lca", "depth"}
  /\ q.step = "merge_base" => BaseAsked(V, A, q)
  /\ q.step = "lca" => LowestAsked(V, A, q)
  /\ q.step = "depth" => DepthRead(V, A, n, q)

\* The lineage may grow meanwhile.
LEMMA AskedSurvives ==
  ASSUME NEW V, NEW A, NEW W, NEW B, Grown(V, A, W, B), IsFiniteSet(W),
         NEW n \in Nat, NEW m \in Nat, n <= m, m = n => A = B,
         NEW q, Asked(V, A, n, q), q.since[2] \in 0..n
  PROVE  Asked(W, B, m, q)
<1>1. V \subseteq W /\ A \subseteq B
  BY DEF Grown
<1>2. ASSUME BaseAsked(V, A, q) PROVE BaseAsked(W, B, q)
  <2>1. q.a \in V /\ q.a \in W /\ q.b \in Ids /\ q.a # q.b /\ q.b \notin q.found
    BY <1>1, <1>2 DEF BaseAsked
  <2>2. q.found \subseteq Upper(W, B, q.a)
    BY <1>2, <2>1, LeadsGrow DEF BaseAsked, Upper, Grown
  <2>3. /\ q.shared # {} => q.b \in W
        /\ q.shared \subseteq q.found /\ q.shared \subseteq Upper(W, B, q.b)
    <3>1. ASSUME NEW x \in q.shared PROVE x \in q.found /\ x \in Upper(W, B, q.b) /\ q.b \in W
      <4>1. q.b \in V /\ x \in q.found /\ x \in V /\ Leads(V, A, x, q.b)
        BY <1>2 DEF BaseAsked, Upper
      <4> QED BY <1>1, <4>1, LeadsGrow DEF Upper
    <3> QED BY <3>1
  <2>4. ASSUME Single(B), NEW x \in Upper(W, B, q.a) \ q.found, NEW f \in q.found
        PROVE  x \in Upper(W, B, f)
    <3>1. Single(A)
      BY <1>1, <2>4 DEF Single
    <3>2. /\ f \in V /\ Leads(V, A, f, q.a) /\ f \in W /\ Leads(W, B, f, q.a)
          /\ x \in W /\ Leads(W, B, x, q.a)
      BY <1>1, <1>2, <2>1, <2>2 DEF BaseAsked, Upper
    <3>3. CASE Leads(W, B, x, f)
      BY <3>2, <3>3 DEF Upper
    <3>4. CASE Leads(W, B, f, x)
      <4>1. Leads(V, A, x, q.a)
        BY <2>1, <2>4, <3>2, <3>4, Between
      <4>2. x \in V
        BY <2>1, <4>1, LeadsIn DEF Grown
      <4>3. x \in Upper(V, A, f)
        BY <1>2, <2>4, <3>1, <4>1, <4>2 DEF BaseAsked, Upper
      <4>4. Leads(W, B, x, f)
        BY <3>2, <4>3, LeadsGrow DEF Upper
      <4> QED BY <3>2, <4>4 DEF Upper
    <3>5. Leads(W, B, x, f) \/ Leads(W, B, f, x)
      BY <2>1, <2>4, <3>2, Comparable DEF Grown
    <3> QED BY <3>3, <3>4, <3>5
  <2> QED BY <2>1, <2>2, <2>3, <2>4 DEF BaseAsked
<1>3. ASSUME LowestAsked(V, A, q) PROVE LowestAsked(W, B, q)
  BY <1>1, <1>3, LeadsGrow DEF LowestAsked, Upper
<1>4. ASSUME DepthRead(V, A, n, q) PROVE DepthRead(W, B, m, q)
  <2>1. q.a \in V /\ q.a \in W /\ q.found[1] \in Upper(W, B, q.a) /\ q.found[2] \in Nat
    BY <1>1, <1>4, LeadsGrow DEF DepthRead, Upper
  <2>2. ASSUME Single(B) PROVE q.found[2] < Cardinality(Upper(W, B, q.a))
    <3>1. Single(A)
      BY <1>1, <2>2 DEF Single
    <3>2. q.found[2] < Cardinality(Upper(V, A, q.a))
      BY <1>4, <3>1 DEF DepthRead
    <3>3. Cardinality(Upper(V, A, q.a)) <= Cardinality(Upper(W, B, q.a))
      BY <2>1, UpperGrows
    <3>4. Cardinality(Upper(V, A, q.a)) \in Nat /\ Cardinality(Upper(W, B, q.a)) \in Nat
      <4>1. IsFiniteSet(V)
        BY <1>1, FS_Subset
      <4> QED BY <4>1, UpperFinite
    <3> QED BY <2>1, <3>2, <3>3, <3>4
  <2>3. ASSUME Single(B), q.since[2] = m PROVE Cardinality(Upper(W, B, q.a)) = q.found[2] + 1
    <3>1. m = n /\ A = B
      BY <2>3
    <3>2. Upper(W, B, q.a) = Upper(V, A, q.a)
      BY <2>1, <3>1, LeadsSame
    <3> QED BY <1>4, <2>3, <3>1, <3>2 DEF DepthRead
  <2> QED BY <2>1, <2>2, <2>3 DEF DepthRead
<1> QED
  BY <1>2, <1>3, <1>4 DEF Asked

\* Nothing is above a branch that is not in the graph.
LEMMA NoneAbove ==
  ASSUME TypeOK
  PROVE  Upwards(weights, 0) = <<>>
<1> DEFINE first == [stack |-> <<0>>, out |-> <<>>]
           done == [stack |-> <<>>, out |-> <<>>]
           X == {first, done}
           step == [w \in X |-> done]
<1>1. Turns \in Nat /\ Turns # 0 /\ {l \in links : l[2] = 0} = {}
  BY SlotFacts DEF Turns, TypeOK
<1>2. Climb(weights, first) = done
  <2> DEFINE fresh == Unseen(weights, {}, 1, ToSet(<<>>))
  <2>1. Lists(fresh, weights, {}, 1, ToSet(<<>>))
    <3>1. Aged({})
      BY FS_EmptySet DEF Aged
    <3> QED BY <3>1, UnseenLists
  <2> HIDE DEF fresh
  <2>2. fresh = <<>>
    <3>1. fresh \in Seq({})
      <4>1. {l[1] : l \in {}} = {}
        OBVIOUS
      <4> QED BY <2>1, <4>1 DEF Lists
    <3> QED BY <3>1
  <2>3. Keys(weights, fresh) = <<>>
    BY <2>1, <2>2 DEF Lists
  <2>4. Last(<<0>>) = 0 /\ Front(<<0>>) = <<>>
    <3> DEFINE s == <<0>>
    <3>1. s \in Seq({0}) /\ s # <<>> /\ Len(s) = 1
      OBVIOUS
    <3> HIDE DEF s
    <3>2. Front(s) \in Seq({0}) /\ Len(Front(s)) = Len(s) - 1 /\ Last(s) \in {0}
      BY <3>1, FrontLast
    <3>3. Front(s) = <<>> /\ Last(s) = 0
      BY <3>1, <3>2
    <3> QED BY <3>3 DEF s
  <2>5. Unseen(weights, {l \in links : l[2] = Last(first.stack)}, 1, ToSet(first.out)) = fresh
    BY <1>1, <2>4 DEF fresh
  <2>6. Climb(weights, first) = [stack |-> Front(first.stack) \o fresh,
                                 out |-> first.out \o Keys(weights, fresh)]
    BY <2>5 DEF Climb
  <2>7. first.stack = <<0>> /\ first.out = <<>> /\ <<>> \o <<>> = <<>>
    OBVIOUS
  <2> QED BY <2>2, <2>3, <2>4, <2>6, <2>7
<1>3. Climb(weights, done) = done
  BY DEF Climb
<1>4. \A w \in X : Climb(weights, w) = done
  BY <1>2, <1>3
<1> HIDE DEF first, done
<1>5. PICK f : f = [n \in 0..Turns |-> IF n = 0 THEN first ELSE step[f[n - 1]]] /\ f \in [0..Turns -> X]
  <2>1. Loops(Turns, X, first, step)
    BY <1>1 DEF Loops
  <2> QED BY <2>1, Loop
<1>6. f = [n \in 0..Turns |-> IF n = 0 THEN first ELSE Climb(weights, f[n - 1])]
  <2>1. ASSUME NEW n \in 0..Turns
        PROVE  (IF n = 0 THEN first ELSE step[f[n - 1]]) = (IF n = 0 THEN first ELSE Climb(weights, f[n - 1]))
    <3>1. CASE n = 0
      BY <3>1
    <3>2. CASE n # 0
      <4>1. n - 1 \in 0..Turns
        BY <1>1, <3>2
      <4>2. f[n - 1] \in X
        BY <1>5, <4>1
      <4> QED BY <1>4, <3>2, <4>2
    <3> QED BY <3>1, <3>2
  <2> QED BY <1>5, <2>1
<1> DEFINE walk == CHOOSE g : g = [n \in 0..Turns |-> IF n = 0 THEN first ELSE Climb(weights, g[n - 1])]
<1>7. Upwards(weights, 0) = walk[Turns].out
  BY DEF Upwards, first
<1>8. walk = [n \in 0..Turns |-> IF n = 0 THEN first ELSE Climb(weights, walk[n - 1])]
  BY <1>6
<1> HIDE DEF walk
<1>9. walk[0] = first
  BY <1>1, <1>8
<1>10. ASSUME NEW n \in 0..Turns, n # Turns, walk[n] \in X PROVE walk[n + 1] = done
  <2>1. n + 1 \in 0..Turns /\ n + 1 # 0 /\ n + 1 - 1 = n
    BY <1>1, <1>10
  <2>2. walk[n + 1] = Climb(weights, walk[n])
    BY <1>8, <2>1
  <2> QED BY <1>4, <1>10, <2>2
<1> DEFINE M == {n \in 0..Turns : walk[n] \in X}
<1>11. \A n \in 0..Turns : n \in M
  <2>1. 0 \in M
    BY <1>1, <1>9
  <2>2. \A n \in 0..Turns : n # Turns /\ n \in M => n + 1 \in M
    BY <1>1, <1>10
  <2> HIDE DEF M
  <2> QED BY <1>1, <2>1, <2>2, Counting
<1>12. walk[Turns] = done
  <2>1. Turns - 1 \in 0..Turns /\ Turns - 1 # Turns /\ Turns - 1 + 1 = Turns
    BY <1>1
  <2>2. walk[Turns - 1] \in X
    BY <1>11, <2>1
  <2>3. walk[Turns - 1 + 1] = done
    BY <1>10, <2>1, <2>2
  <2> QED BY <2>1, <2>3
<1> QED
  BY <1>7, <1>12 DEF done

\* A query under way holds this of a lineage with n edges ever added and r nodes
\* ever removed, unless a node was moved or removed since it began.
Held(V, A, n, r, disturbed, q) ==
  /\ q = [step |-> q.step, a |-> q.a, b |-> q.b, found |-> q.found,
          since |-> q.since, shared |-> q.shared]
  /\ q.since[1] \in 0..r /\ q.since[2] \in 0..n
  /\ ~ disturbed /\ q.since[1] = r => Asked(V, A, n, q)

AllHeld(V, A, n, r, disturbed, queries) ==
  /\ queries = [t \in Askers |-> queries[t]]
  /\ \A t \in Askers : queries[t] # Idle => Held(V, A, n, r, disturbed, queries[t])

QueryInv == GraphInv /\ AllHeld(Branches, Lines, inserted, removals, moved, query)

LEMMA BaseBegins ==
  ASSUME GraphInv, ~ moved, NEW a \in Ids, NEW b \in Ids, a # b, index[a] # 0, b \notin Found(a)
  PROVE  Asked(Branches, Lines, inserted, Begun("merge_base", a, b, Found(a)))
<1> DEFINE q == Begun("merge_base", a, b, Found(a))
<1>1. /\ q.step = "merge_base" /\ q.a = a /\ q.b = b /\ q.found = Found(a) /\ q.shared = Shared(a, b)
  BY DEF Begun
<1> HIDE DEF q
<1>2. a \in Branches /\ (b \in Branches <=> index[b] # 0)
  BY BranchSlots
<1>3. \A y \in Branches : \A x : Above(x, y) <=> Leads(Branches, Lines, x, y)
  BY LinesFacts
<1>4. Found(a) = Upper(Branches, Lines, a)
  BY <1>2, <1>3, FoundShared DEF Upper
<1>5. /\ Shared(a, b) # {} => b \in Branches
      /\ Shared(a, b) \subseteq Found(a) /\ Shared(a, b) \subseteq Upper(Branches, Lines, b)
  <2>1. CASE b \in Branches
    <3>1. Shared(a, b) = Common(a, b)
      BY <1>2, <2>1, FoundShared
    <3> QED BY <1>2, <1>3, <1>4, <2>1, <3>1 DEF Common, Upper
  <2>2. CASE b \notin Branches
    <3>1. Upwards(weights, index[b]) = <<>>
      <4>1. index[b] = 0
        BY <1>2, <2>2
      <4> QED BY <4>1, NoneAbove DEF GraphInv
    <3>2. AncestorSet(b) = {}
      BY <3>1 DEF AncestorSet, ToSet
    <3>3. AncestorSet(a) \cup {a} = Found(a)
      <4>1. Above(a, a)
        BY DEF Above
      <4>2. AncestorSet(a) = {x \in Branches : x # a /\ Above(x, a)} /\ Found(a) = {x \in Branches : Above(x, a)}
        BY <1>2, AncestorsFound, FoundShared
      <4> QED BY <1>2, <4>1, <4>2
    <3>4. Shared(a, b) = {}
      BY <3>2, <3>3 DEF Shared
    <3> QED BY <3>4
  <2> QED BY <2>1, <2>2
<1>6. BaseAsked(Branches, Lines, q)
  BY <1>1, <1>2, <1>4, <1>5 DEF BaseAsked
<1> QED
  BY <1>1, <1>6 DEF Asked, q

LEMMA LowestBegins ==
  ASSUME GraphInv, ~ moved, NEW a \in Ids, NEW b \in Ids,
         a = b \/ (index[a] # 0 /\ index[b] # 0), NEW l \in LowestCommonAncestors(a, b)
  PROVE  Asked(Branches, Lines, inserted, Begun("lca", a, b, l))
<1> DEFINE q == Begun("lca", a, b, l)
<1>1. q.step = "lca" /\ q.a = a /\ q.found = l
  BY DEF Begun
<1> HIDE DEF q
<1>2. l = a \/ (a \in Branches /\ l \in Upper(Branches, Lines, a))
  <2>1. CASE a = b
    BY <2>1 DEF LowestCommonAncestors
  <2>2. CASE a # b
    <3>1. a \in Branches /\ b \in Branches
      BY <2>2, BranchSlots
    <3>2. l \in Shared(a, b)
      BY <2>2 DEF LowestCommonAncestors
    <3>3. l \in Branches /\ Above(l, a)
      BY <3>1, <3>2, FoundShared DEF Common
    <3>4. Leads(Branches, Lines, l, a)
      BY <3>1, <3>3, LinesFacts
    <3> QED BY <3>1, <3>3, <3>4 DEF Upper
  <2> QED BY <2>1, <2>2
<1>3. LowestAsked(Branches, Lines, q)
  BY <1>1, <1>2 DEF LowestAsked
<1> QED
  BY <1>1, <1>3 DEF Asked, q

\* depth_of fails for what is not in the graph.
LEMMA DepthKnown ==
  ASSUME GraphInv, ~ moved, NEW a \in Ids, ~ (DepthOf(a) < 0)
  PROVE  a \in Branches
<1> DEFINE map == DepthMap(BySlot)
<1> SUFFICES ASSUME a \notin Branches PROVE FALSE
  OBVIOUS
<1>1. index[a] = 0 /\ Walkable(Slots, BySlot) /\ Slots = 1..Len(weights) /\ Len(weights) \in Nat
  BY BranchSlots, SlotFacts DEF GraphInv
<1>2. DOMAIN map = Slots
  <2>1. IsDepth(Slots, BySlot, map)
    BY <1>1, DepthMapFinds
  <2>2. {BySlot[x] : x \in Slots} = Slots
    BY DEF BySlot
  <2> QED BY <2>1, <2>2 DEF IsDepth
<1> HIDE DEF map
<1>3. 0 \notin DOMAIN map
  BY <1>1, <1>2
<1>4. DepthOf(a) = -1
  BY <1>1, <1>3 DEF DepthOf, map
<1> QED
  BY <1>4

LEMMA DepthReads ==
  ASSUME GraphInv, ~ moved, NEW q, LowestAsked(Branches, Lines, q), ~ (DepthOf(q.a) < 0),
         NEW p, p.step = "depth", p.a = q.a, p.found = <<q.found, DepthOf(q.a)>>
  PROVE  Asked(Branches, Lines, inserted, p)
<1>1. q.a \in Branches
  BY DepthKnown DEF LowestAsked
<1>2. DepthOf(q.a) \in Nat
  BY <1>1, DepthOfBranch
<1>3. q.found \in Upper(Branches, Lines, q.a)
  BY <1>1, LeadsSelf DEF LowestAsked, Upper
<1>4. Single(Lines) => Cardinality(Upper(Branches, Lines, q.a)) = DepthOf(q.a) + 1
  BY <1>1, ForestDepth
<1>5. p.found[1] = q.found /\ p.found[2] = DepthOf(q.a)
  OBVIOUS
<1>6. DepthRead(Branches, Lines, inserted, p)
  BY <1>1, <1>2, <1>3, <1>4, <1>5 DEF DepthRead
<1> QED
  BY <1>6 DEF Asked

-----------------------------------------------------------------------------
(* The steps.                                                              *)

LEMMA HistoryGrows ==
  ASSUME TypeOK, [Next]_graphVars
  PROVE  removals \in Nat /\ inserted \in Nat /\ removals <= removals' /\ inserted <= inserted'
<1>1. removals \in Nat /\ inserted \in Nat
  BY DEF TypeOK
<1>2. ASSUME NEW p \in Ids, NEW c \in Ids, AddEdge(p, c)
      PROVE  removals <= removals' /\ inserted <= inserted'
  <2>1. inserted' = inserted \/ inserted' = inserted + 1
    BY <1>2, AddShape
  <2>2. removals' = removals
    BY <1>2 DEF AddEdge
  <2> QED BY <1>1, <2>1, <2>2
<1>3. ASSUME NEW b \in Ids, AddNode(b) \/ RemoveNode(b)
      PROVE  removals <= removals' /\ inserted <= inserted'
  BY <1>1, <1>3 DEF AddNode, RemoveNode
<1>4. CASE UNCHANGED graphVars
  BY <1>1, <1>4 DEF graphVars
<1> QED
  BY <1>1, <1>2, <1>3, <1>4 DEF Next

\* A change of the graph.
LEMMA HeldThroughChange ==
  ASSUME QueryInv, [Next]_graphVars, UNCHANGED query
  PROVE  QueryInv'
<1>1. GraphInv' /\ TypeOK
  BY GraphStep DEF QueryInv, GraphInv
<1>2. removals \in Nat /\ inserted \in Nat /\ removals <= removals' /\ inserted <= inserted'
  BY <1>1, HistoryGrows
<1>3. removals' \in Nat /\ inserted' \in Nat
  BY <1>1 DEF GraphInv, TypeOK
<1>4. ASSUME NEW q, Held(Branches, Lines, inserted, removals, moved, q)
      PROVE  Held(Branches', Lines', inserted', removals', moved', q)
  <2>1. /\ q = [step |-> q.step, a |-> q.a, b |-> q.b, found |-> q.found,
                since |-> q.since, shared |-> q.shared]
        /\ q.since[1] \in 0..removals /\ q.since[2] \in 0..inserted
    BY <1>4 DEF Held
  <2>2. q.since[1] \in 0..removals' /\ q.since[2] \in 0..inserted'
    BY <1>2, <1>3, <2>1
  <2>3. ASSUME ~ moved', q.since[1] = removals' PROVE Asked(Branches', Lines', inserted', q)
    <3>1. removals' = removals
      BY <1>2, <1>3, <2>1, <2>3
    <3>2. /\ ~ moved /\ Grown(Branches, Lines, Branches', Lines')
          /\ inserted <= inserted' /\ (inserted' = inserted => Lines' = Lines)
      BY <2>3, <3>1, LinesGrow DEF QueryInv
    <3>3. Asked(Branches, Lines, inserted, q)
      BY <1>4, <2>3, <3>1, <3>2 DEF Held
    <3>4. IsFiniteSet(Branches')
      <4>1. (GraphInv /\ ~ moved => IsFiniteSet(Branches))'
        BY LinesFacts, PTL
      <4> QED BY <1>1, <2>3, <4>1
    <3> QED BY <1>2, <1>3, <2>1, <3>2, <3>3, <3>4, AskedSurvives
  <2> QED BY <2>1, <2>2, <2>3 DEF Held
<1>5. AllHeld(Branches', Lines', inserted', removals', moved', query)
  BY <1>4 DEF QueryInv, AllHeld
<1>6. AllHeld(Branches', Lines', inserted', removals', moved', query')
  BY <1>5
<1> QED
  BY <1>1, <1>6 DEF QueryInv

\* A step of an asker.
LEMMA HeldThroughQuery ==
  ASSUME QueryInv, UNCHANGED graphVars, NEW t \in Askers, NEW q,
         query' = [query EXCEPT ![t] = q],
         q # Idle => Held(Branches, Lines, inserted, removals, moved, q)
  PROVE  QueryInv'
<1>1. GraphInv'
  BY GraphStep DEF QueryInv
<1>2. /\ Branches' = Branches /\ Lines' = Lines /\ inserted' = inserted
      /\ removals' = removals /\ moved' = moved
  BY DEF graphVars, Branches, Lines, Slots
<1>3. /\ query = [u \in Askers |-> query[u]]
      /\ \A u \in Askers : query[u] # Idle => Held(Branches, Lines, inserted, removals, moved, query[u])
  BY DEF QueryInv, AllHeld
<1>4. /\ query' = [u \in Askers |-> query'[u]]
      /\ \A u \in Askers : query'[u] = IF u = t THEN q ELSE query[u]
  BY <1>3
<1>5. AllHeld(Branches, Lines, inserted, removals, moved, query')
  BY <1>3, <1>4 DEF AllHeld
<1>6. AllHeld(Branches', Lines', inserted', removals', moved', query')
  BY <1>2, <1>5
<1> QED
  BY <1>1, <1>6 DEF QueryInv

LEMMA BegunHeld ==
  ASSUME TypeOK, NEW step, NEW a, NEW b, NEW found,
         ~ moved => Asked(Branches, Lines, inserted, Begun(step, a, b, found))
  PROVE  Held(Branches, Lines, inserted, removals, moved, Begun(step, a, b, found))
<1> DEFINE q == Begun(step, a, b, found)
<1>1. /\ q = [step |-> q.step, a |-> q.a, b |-> q.b, found |-> q.found,
              since |-> q.since, shared |-> q.shared]
      /\ q.since = <<removals, inserted>>
  BY DEF Begun
<1> HIDE DEF q
<1>2. q.since[1] = removals /\ q.since[2] = inserted /\ removals \in Nat /\ inserted \in Nat
  BY <1>1 DEF TypeOK
<1>3. q.since[1] \in 0..removals /\ q.since[2] \in 0..inserted
  BY <1>2
<1>4. ~ moved => Asked(Branches, Lines, inserted, q)
  BY DEF q
<1>5. Held(Branches, Lines, inserted, removals, moved, q)
  BY <1>1, <1>3, <1>4 DEF Held
<1> QED
  BY <1>5 DEF q

LEMMA QueryStep == QueryInv /\ [Change \/ Query]_vars => QueryInv'
<1> SUFFICES ASSUME QueryInv, [Change \/ Query]_vars PROVE QueryInv'
  OBVIOUS
<1>0. GraphInv /\ TypeOK
  BY DEF QueryInv, GraphInv
<1>1. CASE Change \/ UNCHANGED vars
  BY <1>1, HeldThroughChange DEF Change, vars
<1>2. ASSUME NEW t \in Askers, NEW a \in Ids, NEW b \in Ids, BeginMergeBase(t, a, b) PROVE QueryInv'
  <2>1. /\ a # b /\ index[a] # 0 /\ b \notin Found(a) /\ UNCHANGED graphVars
        /\ query' = [query EXCEPT ![t] = Begun("merge_base", a, b, Found(a))]
    BY <1>2 DEF BeginMergeBase
  <2>2. Held(Branches, Lines, inserted, removals, moved, Begun("merge_base", a, b, Found(a)))
    BY <1>0, <2>1, BaseBegins, BegunHeld
  <2> QED BY <2>1, <2>2, HeldThroughQuery
<1>3. ASSUME NEW t \in Askers, NEW a \in Ids, NEW b \in Ids, BeginDivergence(t, a, b) PROVE QueryInv'
  <2>1. PICK l \in LowestCommonAncestors(a, b) :
          query' = [query EXCEPT ![t] = Begun("lca", a, b, l)]
    BY <1>3 DEF BeginDivergence
  <2>2. (a = b \/ (index[a] # 0 /\ index[b] # 0)) /\ UNCHANGED graphVars
    BY <1>3 DEF BeginDivergence
  <2>3. Held(Branches, Lines, inserted, removals, moved, Begun("lca", a, b, l))
    BY <1>0, <2>2, LowestBegins, BegunHeld
  <2> QED BY <2>1, <2>2, <2>3, HeldThroughQuery
<1>4. ASSUME NEW t \in Askers, EndMergeBase(t) \/ EndDivergence(t) PROVE QueryInv'
  <2>1. UNCHANGED graphVars /\ query' = [query EXCEPT ![t] = Idle]
    BY <1>4 DEF EndMergeBase, EndDivergence
  <2> QED BY <2>1, HeldThroughQuery
<1>5. ASSUME NEW t \in Askers, ReadDepth(t) PROVE QueryInv'
  <2> DEFINE q == query[t]
             d == DepthOf(q.a)
             p == [q EXCEPT !.step = "depth", !.found = <<q.found, d>>]
  <2>1. q.step = "lca" /\ UNCHANGED graphVars
    BY <1>5 DEF ReadDepth
  <2>2. query' = [query EXCEPT ![t] = IF DepthOf(q.a) < 0 THEN Idle ELSE p]
    BY <1>5 DEF ReadDepth
  <2>3. Held(Branches, Lines, inserted, removals, moved, q)
    <3>1. q # Idle
      BY <2>1 DEF Idle
    <3> QED BY <3>1 DEF QueryInv, AllHeld
  <2> HIDE DEF q
  <2>4. /\ q = [step |-> q.step, a |-> q.a, b |-> q.b, found |-> q.found,
                since |-> q.since, shared |-> q.shared]
        /\ q.since[1] \in 0..removals /\ q.since[2] \in 0..inserted
    BY <2>3 DEF Held
  <2> DEFINE R == [step |-> "depth", a |-> q.a, b |-> q.b, found |-> <<q.found, d>>,
                   since |-> q.since, shared |-> q.shared]
  <2> HIDE DEF d
  <2>10. p = R
    <3> DEFINE q1 == [q EXCEPT !.step = "depth"]
    <3>1. q1 = [step |-> "depth", a |-> q.a, b |-> q.b, found |-> q.found,
                since |-> q.since, shared |-> q.shared]
      BY <2>4
    <3>2. p = [q1 EXCEPT !.found = <<q.found, d>>]
      OBVIOUS
    <3> HIDE DEF q1, p
    <3> QED BY <3>1, <3>2
  <2> HIDE DEF p
  <2>5. /\ p = [step |-> p.step, a |-> p.a, b |-> p.b, found |-> p.found,
                since |-> p.since, shared |-> p.shared]
        /\ p.since = q.since /\ p.a = q.a /\ p.step = "depth" /\ p.found = <<q.found, DepthOf(q.a)>>
        /\ p.b = q.b
    BY <2>10 DEF d
  <2> HIDE DEF p
  <2>6. ASSUME ~ (DepthOf(q.a) < 0), ~ moved, p.since[1] = removals
        PROVE  Asked(Branches, Lines, inserted, p)
    <3>1. Asked(Branches, Lines, inserted, q)
      BY <2>3, <2>5, <2>6 DEF Held
    <3>2. LowestAsked(Branches, Lines, q)
      BY <2>1, <3>1 DEF Asked, q
    <3> QED BY <1>0, <2>5, <2>6, <3>2, DepthReads
  <2>7. ~ (DepthOf(q.a) < 0) => Held(Branches, Lines, inserted, removals, moved, p)
    BY <2>4, <2>5, <2>6 DEF Held
  <2> DEFINE r == IF DepthOf(q.a) < 0 THEN Idle ELSE p
  <2>8. r # Idle => Held(Branches, Lines, inserted, removals, moved, r)
    BY <2>7
  <2>9. query' = [query EXCEPT ![t] = r]
    BY <2>2
  <2> HIDE DEF r
  <2> QED BY <2>1, <2>8, <2>9, HeldThroughQuery
<1> QED
  BY <1>1, <1>2, <1>3, <1>4, <1>5 DEF Query

LEMMA QueriesHeld == QueriesSpec => []QueryInv
<1>1. QueriesInit => QueryInv
  <2> SUFFICES ASSUME QueriesInit PROVE QueryInv
    OBVIOUS
  <2>1. GraphInv
    BY GraphAtFirst DEF QueriesInit
  <2>2. query = [t \in Askers |-> Idle]
    BY DEF QueriesInit
  <2>3. AllHeld(Branches, Lines, inserted, removals, moved, query)
    BY <2>2 DEF AllHeld
  <2> QED BY <2>1, <2>3 DEF QueryInv
<1> QED
  BY <1>1, QueryStep, PTL DEF QueriesSpec

-----------------------------------------------------------------------------
(* The answers.                                                            *)

\* find_merge_base answers with the first of the list that was found for a.
FirstHit(q, list, m) ==
  \E j \in 1..Len(list) :
    /\ m = list[j] /\ list[j] \in q.found
    /\ \A i \in 1..Len(list) : list[i] \in q.found => j <= i

LEMMA MergeBaseAnswers ==
  ASSUME GraphInv, ~ moved, NEW q, q.b \in Branches
  PROVE  IF MergeBase(q) = NoBranch
         THEN \A x \in q.found : x \notin ToSet(AncestorsOf(q.b))
         ELSE FirstHit(q, AncestorsOf(q.b), MergeBase(q))
<1> DEFINE list == AncestorsOf(q.b)
           hits == Hits(q)
<1>1. list \in Seq(Branches) /\ Branches \in SUBSET Ids
  BY AncestorsFound, BranchSlots DEF AncestorList
<1>2. hits = {i \in DOMAIN list : list[i] \in q.found}
  BY DEF Hits
<1>3. MergeBase(q) = IF hits = {} THEN NoBranch ELSE list[Min(hits)]
  BY DEF MergeBase
<1> HIDE DEF list, hits
<1>4. /\ DOMAIN list = 1..Len(list) /\ Len(list) \in Nat
      /\ \A x : x \in ToSet(list) <=> \E i \in 1..Len(list) : list[i] = x
  BY <1>1, ToSetIn
<1>5. CASE hits = {}
  <2>1. MergeBase(q) = NoBranch
    BY <1>3, <1>5
  <2>2. \A x \in q.found : x \notin ToSet(list)
    BY <1>2, <1>4, <1>5
  <2> QED BY <2>1, <2>2 DEF list
<1>6. CASE hits # {}
  <2> DEFINE j == Min(hits)
  <2>1. j \in hits /\ \A i \in hits : j <= i
    <3>1. hits \in SUBSET Nat
      BY <1>2, <1>4
    <3>2. \E m \in hits : \A n \in hits : m <= n
      BY <1>6, <3>1, Smallest
    <3> QED BY <3>2 DEF Min
  <2>2. MergeBase(q) = list[j]
    BY <1>3, <1>6
  <2> HIDE DEF j
  <2>3. j \in 1..Len(list) /\ list[j] \in q.found /\ \A i \in 1..Len(list) : list[i] \in q.found => j <= i
    BY <1>2, <1>4, <2>1
  <2>4. MergeBase(q) # NoBranch
    <3>1. list[j] \in Branches
      BY <1>1, <2>3
    <3> QED BY <1>1, <2>2, <3>1, QueriesAssumption
  <2>5. FirstHit(q, list, MergeBase(q))
    BY <2>2, <2>3 DEF FirstHit
  <2> QED BY <2>4, <2>5 DEF list
<1> QED
  BY <1>5, <1>6

LEMMA MergeBaseHeld ==
  ASSUME QueryInv, NEW t \in Askers, NEW q, q = query[t], q.step = "merge_base",
         Undisturbed(q), index[q.b] # 0
  PROVE  /\ GraphInv /\ ~ moved /\ q.b \in Branches /\ BaseAsked(Branches, Lines, q)
         /\ \A y \in Branches : \A x : Above(x, y) <=> Leads(Branches, Lines, x, y)
<1>1. GraphInv /\ ~ moved /\ q.since[1] = removals
  BY DEF QueryInv, Undisturbed
<1>2. q # Idle
  BY DEF Idle
<1>3. Held(Branches, Lines, inserted, removals, moved, q)
  BY <1>2 DEF QueryInv, AllHeld
<1>4. Asked(Branches, Lines, inserted, q)
  BY <1>1, <1>3 DEF Held
<1>5. BaseAsked(Branches, Lines, q)
  BY <1>4 DEF Asked
<1>6. q.b \in Branches
  BY <1>1, <1>5, BranchSlots DEF BaseAsked
<1> QED
  BY <1>1, <1>5, <1>6, LinesFacts

LEMMA CommonAnswer ==
  ASSUME QueryInv, NEW t \in Askers, NEW q, q = query[t], q.step = "merge_base",
         Undisturbed(q), index[q.b] # 0
  PROVE  IF MergeBase(q) = NoBranch THEN q.shared = {}
         ELSE MergeBase(q) \in Common(q.a, q.b)
<1>1. /\ GraphInv /\ ~ moved /\ q.b \in Branches /\ BaseAsked(Branches, Lines, q)
      /\ \A y \in Branches : \A x : Above(x, y) <=> Leads(Branches, Lines, x, y)
  BY MergeBaseHeld
<1>2. \A x : x \in ToSet(AncestorsOf(q.b)) <=> x \in Branches /\ x # q.b /\ Above(x, q.b)
  BY <1>1, AncestorsFound DEF AncestorList
<1>3. IF MergeBase(q) = NoBranch
      THEN \A x \in q.found : x \notin ToSet(AncestorsOf(q.b))
      ELSE FirstHit(q, AncestorsOf(q.b), MergeBase(q))
  BY <1>1, MergeBaseAnswers
<1>4. CASE MergeBase(q) = NoBranch
  <2>1. ASSUME NEW x \in q.shared PROVE FALSE
    <3>1. x \in q.found /\ x \in Branches /\ Leads(Branches, Lines, x, q.b) /\ q.b \notin q.found
      BY <1>1 DEF BaseAsked, Upper
    <3>2. x \in ToSet(AncestorsOf(q.b))
      BY <1>1, <1>2, <3>1
    <3> QED BY <1>3, <1>4, <3>1, <3>2
  <2> QED BY <1>4, <2>1
<1>5. CASE MergeBase(q) # NoBranch
  <2>1. MergeBase(q) \in ToSet(AncestorsOf(q.b)) /\ MergeBase(q) \in q.found
    <3>1. AncestorsOf(q.b) \in Seq(Branches)
      BY <1>1, AncestorsFound DEF AncestorList
    <3>2. \A x : x \in ToSet(AncestorsOf(q.b)) <=>
                   \E i \in 1..Len(AncestorsOf(q.b)) : AncestorsOf(q.b)[i] = x
      BY <3>1, ToSetIn
    <3> QED BY <1>3, <1>5, <3>2 DEF FirstHit
  <2>2. Above(MergeBase(q), q.b) /\ MergeBase(q) \in Branches
    BY <1>2, <2>1
  <2>3. Above(MergeBase(q), q.a)
    BY <1>1, <2>1 DEF BaseAsked, Upper
  <2> QED BY <1>5, <2>2, <2>3 DEF Common
<1> QED
  BY <1>4, <1>5

LEMMA LowestAnswer ==
  ASSUME QueryInv, NEW t \in Askers, NEW q, q = query[t], q.step = "merge_base",
         Undisturbed(q), index[q.b] # 0, IsForest, MergeBase(q) # NoBranch
  PROVE  /\ \A x \in Common(q.a, q.b) : Above(x, MergeBase(q))
         /\ LowestCommonAncestors(q.a, q.b) = {MergeBase(q)}
<1> DEFINE m == MergeBase(q)
           list == AncestorsOf(q.b)
<1>1. /\ GraphInv /\ ~ moved /\ q.b \in Branches /\ BaseAsked(Branches, Lines, q)
      /\ \A y \in Branches : \A x : Above(x, y) <=> Leads(Branches, Lines, x, y)
  BY MergeBaseHeld
<1>2. Single(Lines)
  BY <1>1, ForestLines
<1>3. AncestorList(q.b, list)
  BY <1>1, AncestorsFound
<1>4. FirstHit(q, list, m)
  BY <1>1, MergeBaseAnswers
<1>5. m \in Common(q.a, q.b)
  BY CommonAnswer
<1> HIDE DEF m, list
<1>6. PICK j \in 1..Len(list) : /\ m = list[j] /\ m \in q.found
                                /\ \A i \in 1..Len(list) : list[i] \in q.found => j <= i
  BY <1>4 DEF FirstHit
<1>7. ASSUME NEW x \in Common(q.a, q.b) PROVE Above(x, m)
  <2>1. x \in Branches /\ Above(x, q.a) /\ Above(x, q.b) /\ m \in Branches
    BY <1>5 DEF Common
  <2>2. CASE x \notin q.found
    <3>1. x \in Upper(Branches, Lines, q.a)
      BY <1>1, <2>1 DEF BaseAsked, Upper
    <3>2. x \in Upper(Branches, Lines, m)
      BY <1>1, <1>2, <1>6, <2>2, <3>1 DEF BaseAsked
    <3> QED BY <1>1, <2>1, <3>2 DEF Upper
  <2>3. CASE x \in q.found
    <3>1. x # q.b
      BY <1>1, <2>3 DEF BaseAsked
    <3>2. x \in ToSet(list)
      BY <1>3, <2>1, <3>1 DEF AncestorList
    <3>3. PICK i \in 1..Len(list) : list[i] = x
      <4>1. list \in Seq(Branches)
        BY <1>3 DEF AncestorList
      <4> QED BY <3>2, <4>1, ToSetIn
    <3>4. j <= i
      BY <1>6, <2>3, <3>3
    <3>5. CASE i = j
      <4>1. Above(m, m)
        BY DEF Above
      <4> QED BY <1>6, <3>3, <3>5, <4>1
    <3>6. CASE i # j
      <4>1. j < i
        BY <3>4, <3>6
      <4>2. Above(list[i], list[j])
        BY <1>3, <4>1 DEF AncestorList
      <4> QED BY <1>6, <3>3, <4>2
    <3> QED BY <3>5, <3>6
  <2> QED BY <2>2, <2>3
<1>8. q.a \in Branches /\ q.a # q.b
  BY <1>1 DEF BaseAsked
<1>9. Shared(q.a, q.b) = Common(q.a, q.b)
  BY <1>1, <1>8, FoundShared
<1>10. LowestCommonAncestors(q.a, q.b) = {m}
  <2> DEFINE map == DepthMap(weights)
             depth(x) == IF x \in DOMAIN map THEN map[x] ELSE 0
  <2>1. \A x \in Branches : depth(x) = DepthOf(x) /\ DepthOf(x) \in Nat
    BY <1>1, DepthOfBranch
  <2>2. LowestCommonAncestors(q.a, q.b) =
          {x \in Common(q.a, q.b) : \A y \in Common(q.a, q.b) : depth(y) <= depth(x)}
    BY <1>8, <1>9 DEF LowestCommonAncestors
  <2> HIDE DEF map, depth
  <2>3. \A x \in Common(q.a, q.b) : x \in Branches
    BY DEF Common
  <2>4. ASSUME NEW x \in Common(q.a, q.b), x # m PROVE depth(x) < depth(m)
    <3>1. Above(x, m) /\ x \in Branches /\ m \in Branches
      BY <1>5, <1>7, <2>3
    <3>2. DepthOf(x) < DepthOf(m)
      BY <1>1, <1>2, <2>4, <3>1, ForestDeeper
    <3> QED BY <2>1, <3>1, <3>2
  <2>5. \A x \in Common(q.a, q.b) : depth(x) \in Nat
    BY <2>1, <2>3
  <2>6. \A x \in Common(q.a, q.b) : depth(x) <= depth(m)
    BY <1>5, <2>4, <2>5
  <2>7. \A x \in Common(q.a, q.b) : x # m => ~ (depth(m) <= depth(x))
    BY <1>5, <2>4, <2>5
  <2> QED BY <1>5, <2>2, <2>6, <2>7
<1> QED
  BY <1>7, <1>10 DEF m

LEMMA DivergenceAnswer ==
  ASSUME QueryInv, NEW t \in Askers, NEW q, q = query[t], q.step = "depth",
         Undisturbed(q), IsForest
  PROVE  /\ Divergence(q) <= Hops(q.found[1], q.a)
         /\ q.since[2] = inserted => Divergence(q) = Hops(q.found[1], q.a)
<1>1. GraphInv /\ ~ moved /\ q.since[1] = removals
  BY DEF QueryInv, Undisturbed
<1>2. q # Idle
  BY DEF Idle
<1>3. Held(Branches, Lines, inserted, removals, moved, q)
  BY <1>2 DEF QueryInv, AllHeld
<1>4. Asked(Branches, Lines, inserted, q)
  BY <1>1, <1>3 DEF Held
<1>5. DepthRead(Branches, Lines, inserted, q)
  BY <1>4 DEF Asked
<1>6. Single(Lines)
  BY <1>1, ForestLines
<1> DEFINE l == q.found[1]
           d == q.found[2]
<1>7. /\ q.a \in Branches /\ l \in Branches /\ d \in Nat
      /\ Leads(Branches, Lines, l, q.a)
      /\ d < Cardinality(Upper(Branches, Lines, q.a))
      /\ q.since[2] = inserted => Cardinality(Upper(Branches, Lines, q.a)) = d + 1
  BY <1>5, <1>6 DEF DepthRead, Upper
<1>8. Divergence(q) = IF d <= DepthOf(l) THEN 0 ELSE d - DepthOf(l)
  BY DEF Divergence
<1> HIDE DEF l, d
<1>9. Above(l, q.a)
  BY <1>1, <1>7, LinesFacts
<1>10. /\ DepthOf(l) \in Nat /\ DepthOf(q.a) \in Nat /\ Hops(l, q.a) \in Int
       /\ DepthOf(q.a) = DepthOf(l) + Hops(l, q.a)
  BY <1>1, <1>6, <1>7, <1>9, ForestHops
<1>11. Cardinality(Upper(Branches, Lines, q.a)) = DepthOf(q.a) + 1
  BY <1>1, <1>6, <1>7, ForestDepth
<1>12. d <= DepthOf(q.a) /\ (q.since[2] = inserted => d = DepthOf(q.a))
  BY <1>7, <1>10, <1>11
<1>13. Hops(l, q.a) >= 0
  <2>1. CASE l = q.a
    BY <1>10, <2>1
  <2>2. CASE l # q.a
    <3>1. DepthOf(l) < DepthOf(q.a)
      BY <1>1, <1>6, <1>7, <1>9, <2>2, ForestDeeper
    <3> QED BY <1>10, <3>1
  <2> QED BY <2>1, <2>2
<1> DEFINE v == Divergence(q)
           h == Hops(l, q.a)
           x == DepthOf(l)
           y == DepthOf(q.a)
<1>14. /\ x \in Nat /\ y \in Nat /\ h \in Int /\ y = x + h /\ d \in Nat /\ d <= y /\ h >= 0
       /\ v = IF d <= x THEN 0 ELSE d - x
       /\ q.since[2] = inserted => d = y
  BY <1>7, <1>8, <1>10, <1>12, <1>13
<1> HIDE DEF v, h, x, y
<1>15. v <= h
  BY <1>14
<1>16. q.since[2] = inserted => v = h
  BY <1>14
<1> QED
  BY <1>15, <1>16 DEF v, h, l

\* However branches are added while it runs, find_merge_base returns a branch
\* that is above both when it returns, and nothing only if nothing was above both
\* when it was called.
THEOREM MergeBasesAreCommon == QueriesSpec => MergeBaseIsCommon
<1>1. ASSUME QueryInv, NEW t \in Askers, EndMergeBase(t), Undisturbed(query[t]), index[query[t].b] # 0
      PROVE  IF MergeBase(query[t]) = NoBranch THEN query[t].shared = {}
             ELSE MergeBase(query[t]) \in Common(query[t].a, query[t].b)
  <2>1. query[t].step = "merge_base"
    BY <1>1 DEF EndMergeBase
  <2> QED BY <1>1, <2>1, CommonAnswer
<1>2. QueryInv =>
        \A t \in Askers : EndMergeBase(t) =>
          LET q == query[t] IN
          Undisturbed(q) /\ index[q.b] # 0 =>
            IF MergeBase(q) = NoBranch THEN q.shared = {}
            ELSE MergeBase(q) \in Common(q.a, q.b)
  BY <1>1
<1> QED
  BY <1>2, QueriesHeld, PTL DEF MergeBaseIsCommon

\* In a lineage of forks it is then the lowest of the common ancestors, the one
\* that lowest_common_ancestor gives.
THEOREM MergeBasesAreLowest == QueriesSpec => MergeBaseIsLowest
<1>1. ASSUME QueryInv, NEW t \in Askers, EndMergeBase(t), Undisturbed(query[t]), IsForest,
             index[query[t].b] # 0, MergeBase(query[t]) # NoBranch
      PROVE  /\ \A x \in Common(query[t].a, query[t].b) : Above(x, MergeBase(query[t]))
             /\ LowestCommonAncestors(query[t].a, query[t].b) = {MergeBase(query[t])}
  <2>1. query[t].step = "merge_base"
    BY <1>1 DEF EndMergeBase
  <2> QED BY <1>1, <2>1, LowestAnswer
<1>2. QueryInv =>
        \A t \in Askers : EndMergeBase(t) =>
          LET q == query[t] IN
          Undisturbed(q) /\ IsForest /\ index[q.b] # 0 /\ MergeBase(q) # NoBranch =>
            /\ \A x \in Common(q.a, q.b) : Above(x, MergeBase(q))
            /\ LowestCommonAncestors(q.a, q.b) = {MergeBase(q)}
  BY <1>1
<1> QED
  BY <1>2, QueriesHeld, PTL DEF MergeBaseIsLowest

\* In a lineage of forks divergence_depth never says more than the number of edges
\* from the common ancestor, and says just that when nothing was added meanwhile.
THEOREM DivergencesAreBounded == QueriesSpec => DivergenceNotOverstated
<1>1. ASSUME QueryInv, NEW t \in Askers, EndDivergence(t), Undisturbed(query[t]), IsForest
      PROVE  /\ Divergence(query[t]) <= Hops(query[t].found[1], query[t].a)
             /\ query[t].since[2] = inserted =>
                  Divergence(query[t]) = Hops(query[t].found[1], query[t].a)
  <2>1. query[t].step = "depth"
    BY <1>1 DEF EndDivergence
  <2> QED BY <1>1, <2>1, DivergenceAnswer
<1>2. QueryInv =>
        \A t \in Askers : EndDivergence(t) =>
          LET q == query[t] IN
          Undisturbed(q) /\ IsForest =>
            /\ Divergence(q) <= Hops(q.found[1], q.a)
            /\ q.since[2] = inserted => Divergence(q) = Hops(q.found[1], q.a)
  BY <1>1
<1> QED
  BY <1>2, QueriesHeld, PTL DEF DivergenceNotOverstated

=============================================================================
