--------------------------- MODULE Sandbox_proofs ---------------------------
(***************************************************************************)
(* Theorems about Metrics and Sandbox: their types, what the counters of   *)
(* the registry are backed by, that an undisturbed refresh is exact, and   *)
(* what the recommendation of a simulation says, for any branches, hosts,  *)
(* trackers, schema, rows, threshold and bounds.  First what the operators *)
(* of Metrics return and what the steps of trackers preserve, then the     *)
(* steps of hosts, then the theorems.                                      *)
(***************************************************************************)
EXTENDS Sandbox, FiniteSetTheorems, WellFoundedInduction, TLAPS

-----------------------------------------------------------------------------
(* Databases, counts and scores.                                           *)

\* The rows a database has.
RowsOf(d) == {e \in Entities : d[e] # Absent}

LEMMA FiniteRows ==
  ASSUME NEW d \in Databases
  PROVE  IsFiniteSet(RowsOf(d)) /\ d \in [Entities -> Contents \cup {Absent}]
BY DEF Databases, RowsOf

LEMMA BlankType == Blank \in Databases
<1>1. {e \in Entities : Blank[e] # Absent} = {}
  BY DEF Blank
<1> QED
  BY <1>1, FS_EmptySet DEF Blank, Databases

\* A database whose rows are among those of two others and one more.
LEMMA DatabaseFrom ==
  ASSUME NEW c \in Databases, NEW d \in Databases, NEW new,
         NEW f \in [Entities -> Contents \cup {Absent}],
         \A e \in Entities : f[e] # Absent => e = new \/ c[e] # Absent \/ d[e] # Absent
  PROVE  f \in Databases
<1>1. IsFiniteSet((RowsOf(c) \cup RowsOf(d)) \cup {new})
  BY FiniteRows, FS_Union, FS_AddElement
<1>2. RowsOf(f) \in SUBSET ((RowsOf(c) \cup RowsOf(d)) \cup {new})
  BY DEF RowsOf
<1>3. IsFiniteSet(RowsOf(f))
  BY <1>1, <1>2, FS_Subset
<1> QED
  BY <1>3 DEF RowsOf, Databases

LEMMA Counted ==
  ASSUME NEW d \in Databases, NEW S \in SUBSET RowsOf(d)
  PROVE  IsFiniteSet(S) /\ Cardinality(S) \in Nat
BY FiniteRows, FS_Subset, FS_CardinalityType

LEMMA TableCounted ==
  ASSUME NEW d \in Databases, NEW i
  PROVE  Cardinality(Table(d, i)) \in Nat
<1>1. Table(d, i) \in SUBSET RowsOf(d)
  BY DEF Table, RowsOf
<1> QED
  BY <1>1, Counted

\* The sets of a diff are finite.
LEMMA DiffCounted ==
  ASSUME NEW a \in Databases, NEW b \in Databases, NEW S \in SUBSET Union(a, b)
  PROVE  IsFiniteSet(S) /\ Cardinality(S) \in Nat
<1>1. IsFiniteSet(RowsOf(a) \cup RowsOf(b))
  BY FiniteRows, FS_Union
<1>2. S \in SUBSET (RowsOf(a) \cup RowsOf(b))
  BY DEF Union, RowsOf
<1> QED
  BY <1>1, <1>2, FS_Subset, FS_CardinalityType

LEMMA SmallestOne ==
  ASSUME NEW M \in SUBSET Nat, M # {}
  PROVE  \E m \in M : \A n \in M : m <= n
<1>1. PICK m \in M : \A n \in M : ~ (<<n, m>> \in OpToRel(<, Nat))
  BY NatLessThanWellFounded, WFMin
<1>2. \A n \in M : ~ (n < m)
  BY <1>1, Zenon DEF OpToRel
<1> QED
  BY <1>2

\* The sum of a sequence of numbers is a number.
LEMMA TotalType ==
  ASSUME NEW counts, Len(counts) \in Nat, \A i \in 1..Len(counts) : counts[i] \in Nat
  PROVE  Total(counts) \in Nat
<1> DEFINE len == Len(counts)
           Sums(n, g) == /\ g \in [0..n -> Nat] /\ g[0] = 0
                         /\ \A i \in 1..n : g[i] = g[i - 1] + counts[i]
<1> HIDE DEF len
<1>0. len \in Nat /\ \A i \in 1..len : counts[i] \in Nat
  BY DEF len
<1> HIDE DEF Sums
<1>1. \A n \in 0..len : \E g : Sums(n, g)
  <2> DEFINE M == {k \in 0..len : ~ \E g : Sums(k, g)}
  <2> SUFFICES ASSUME M # {} PROVE FALSE
    OBVIOUS
  <2>1. M \in SUBSET Nat
    BY <1>0
  <2>2. PICK m \in M : \A k \in M : m <= k
    BY <2>1, SmallestOne
  <2>3. m # 0
    <3>1. Sums(0, [i \in 0..0 |-> 0])
      BY DEF Sums
    <3> QED
      BY <2>2, <3>1
  <2>4. m - 1 \in 0..len /\ m \in 1..len /\ ~ (m <= m - 1)
    BY <1>0, <2>2, <2>3
  <2>5. PICK g : Sums(m - 1, g)
    BY <2>2, <2>4
  <2>6. \E h : Sums(m, h)
    <3> DEFINE h == [i \in 0..m |-> IF i = m THEN g[m - 1] + counts[m] ELSE g[i]]
    <3>1. g[m - 1] + counts[m] \in Nat
      BY <1>0, <2>4, <2>5 DEF Sums
    <3>2. h \in [0..m -> Nat]
      BY <2>4, <2>5, <3>1 DEF Sums
    <3>3. h[0] = 0
      BY <2>3, <2>4, <2>5 DEF Sums
    <3>4. \A i \in 1..m : h[i] = h[i - 1] + counts[i]
      BY <2>4, <2>5 DEF Sums
    <3> HIDE DEF h
    <3> QED
      BY <3>2, <3>3, <3>4 DEF Sums
  <2> QED
    BY <2>2, <2>6
<1>2. PICK g : Sums(len, g)
  BY <1>0, <1>1
<1>3. g = [i \in 0..len |-> IF i = 0 THEN 0 ELSE g[i - 1] + counts[i]]
  BY <1>0, <1>2 DEF Sums
<1> DEFINE IsSum(f) == f = [i \in 0..len |-> IF i = 0 THEN 0 ELSE f[i - 1] + counts[i]]
           sum == CHOOSE f : IsSum(f)
<1>4. IsSum(sum)
  <2>1. \E f : IsSum(f)
    BY <1>3
  <2> HIDE DEF IsSum
  <2> QED
    BY <2>1
<1>5. Total(counts) = sum[len]
  BY DEF Total, len
<1> HIDE DEF sum
<1>6. \A n \in 0..len : sum[n] \in Nat
  <2> SUFFICES ASSUME NEW n \in 0..len, sum[n] \notin Nat PROVE FALSE
    OBVIOUS
  <2> DEFINE M == {k \in 0..len : sum[k] \notin Nat}
  <2>1. M \in SUBSET Nat /\ M # {}
    BY <1>0
  <2>2. PICK m \in M : \A k \in M : m <= k
    BY <2>1, SmallestOne
  <2>3. m # 0 /\ sum[m] = sum[m - 1] + counts[m]
    BY <1>0, <1>4, <2>2
  <2>4. m - 1 \in 0..len /\ m - 1 \notin M /\ m \in 1..len
    BY <1>0, <2>2, <2>3
  <2> QED
    BY <1>0, <2>2, <2>3, <2>4
<1> QED
  BY <1>0, <1>5, <1>6

LEMMA MinMax ==
  ASSUME NEW m \in Nat, NEW n \in Nat
  PROVE  /\ Max({m, n}) = IF m >= n THEN m ELSE n
         /\ Min({m, n}) = IF m <= n THEN m ELSE n
<1>1. Max({m, n}) \in {m, n} /\ Max({m, n}) >= m /\ Max({m, n}) >= n
  <2>1. \E x \in {m, n} : \A y \in {m, n} : x >= y
    <3>1. CASE m >= n
      BY <3>1
    <3>2. CASE ~ m >= n
      BY <3>2
    <3> QED
      BY <3>1, <3>2
  <2>2. Max({m, n}) = CHOOSE x \in {m, n} : \A y \in {m, n} : x >= y
    BY DEF Max
  <2> QED
    BY <2>1, <2>2
<1>2. Min({m, n}) \in {m, n} /\ Min({m, n}) <= m /\ Min({m, n}) <= n
  <2>1. \E x \in {m, n} : \A y \in {m, n} : x <= y
    <3>1. CASE m <= n
      BY <3>1
    <3>2. CASE ~ m <= n
      BY <3>2
    <3> QED
      BY <3>1, <3>2
  <2>2. Min({m, n}) = CHOOSE x \in {m, n} : \A y \in {m, n} : x <= y
    BY DEF Min
  <2> QED
    BY <2>1, <2>2
<1> QED
  BY <1>1, <1>2

\* Fractions from 0 to 1.
Scores == {s \in Nat \X Nat : s[1] <= s[2]}

LEMMA ScoreType ==
  ASSUME NEW a \in Databases, NEW b \in Databases, NEW base \in Nat
  PROVE  ComputeScore(a, b, base) \in Scores
<1>1. /\ Cardinality(Added(a, b)) \in Nat /\ Cardinality(Removed(a, b)) \in Nat
      /\ Cardinality(Modified(a, b)) \in Nat
  <2>1. /\ Added(a, b) \in SUBSET Union(a, b) /\ Removed(a, b) \in SUBSET Union(a, b)
        /\ Modified(a, b) \in SUBSET Union(a, b)
    BY DEF Added, Removed, Modified, Union
  <2> QED
    BY <2>1, DiffCounted
<1> DEFINE n == 2 * (Cardinality(Added(a, b)) + Cardinality(Removed(a, b)))
                  + Cardinality(Modified(a, b))
           d == 2 * Max({base, 1})
<1>2. n \in Nat
  BY <1>1
<1>3. d \in Nat
  BY MinMax
<1>4. ComputeScore(a, b, base) = <<Min({n, d}), d>>
  BY DEF ComputeScore
<1> HIDE DEF n, d
<1>5. Min({n, d}) \in Nat /\ Min({n, d}) <= d
  BY <1>2, <1>3, MinMax
<1> QED
  BY <1>3, <1>4, <1>5 DEF Scores

-----------------------------------------------------------------------------
(* The invariant.                                                          *)

MetricsRows ==
  [ops : Nat, score : Scores, written : [OpKinds -> Nat], counts : [DOMAIN Types -> Nat]]

HeldRows == [of : Branches, row : MetricsRows]

Views == [at : Nat, a : Databases, b : Databases]

Measuring == {"commits", "parent", "pools", "diff", "write", "keep"}

JobSteps == {"track", "open", "count"} \cup Measuring

Jobs ==
  [step : JobSteps, kind : OpKinds \cup {"none"}, queue : Seq(HeldRows) \ {<<>>}, ops : Nat,
   counts : Seq(Nat), base : Nat, view : Views]

\* How far a job has come.
Placed(j) ==
  /\ j.step = "track" => j.kind \in OpKinds
  /\ j.step = "open" => j.counts = <<>>
  /\ j.step = "count" => Len(j.counts) < Len(Types)
  /\ j.step \in Measuring => Len(j.counts) = Len(Types)
  /\ IF j.step = "diff" THEN j.view.at < 2 * Len(Types) ELSE j.view = NoView

\* The registry has finitely many rows, and every row in the hands of a tracker is
\* one of them.
MetricsTypes ==
  /\ status \in [Branches -> Statuses]
  /\ parent \in [Branches -> Branches \cup {NoBranch}]
  /\ metrics \in [Branches -> MetricsRows]
  /\ commits \in [Branches -> Nat]
  /\ file \in [Branches -> BOOLEAN]
  /\ db \in [Branches -> Databases]
  /\ job \in [Trackers -> Jobs \cup {Free}]
  /\ calls \in Nat /\ changes \in Nat
  /\ done \in [Branches -> [all : Nat, of : [OpKinds -> Nat]]]
  /\ overlapped \in [Branches -> BOOLEAN]
  /\ calm \in [Trackers -> BOOLEAN]
  /\ IsFiniteSet(Rows) /\ Trunk \in Rows
  /\ \A t \in Trackers : job[t] # Free =>
       /\ Placed(job[t])
       /\ \A i \in DOMAIN job[t].queue : job[t].queue[i].of \in Rows
       /\ job[t].step \in {"parent", "pools", "diff", "keep"} => parent[Of(t)] # NoBranch

\* A row read earlier claims no more than has been recorded since, and while nobody
\* else has held it, it has the counters that the registry has.
Backed(b, row) ==
  /\ \A k \in OpKinds : row.written[k] <= done[b].of[k]
  /\ row.ops <= commits[b] + done[b].all

Counters(t) ==
  job[t] # Free =>
    /\ \A i \in DOMAIN job[t].queue :
         LET h == job[t].queue[i] IN
         /\ Backed(h.of, h.row)
         /\ ~ overlapped[h.of] => h.row.written = metrics[h.of].written
    /\ job[t].step \in Measuring \ {"commits"} => job[t].ops <= commits[Of(t)]

HeldByOne ==
  \A b \in Branches : ~ overlapped[b] =>
    \A t, u \in Trackers : b \in Holds(t) /\ b \in Holds(u) => t = u

\* A view has the rows of database d for the types that at queries have reached;
\* skew is 0 for the branch that is read first and 1 for the other.
Reached(at, skew, e) == \E i \in DOMAIN Types : e[1] = Types[i] /\ 2 * (i - 1) + skew < at

Exact(view, a, b) ==
  \A e \in Entities : /\ Reached(view.at, 0, e) => view.a[e] = db[a][e]
                      /\ Reached(view.at, 1, e) => view.b[e] = db[b][e]

\* What a call that nothing has disturbed has measured is still so.
Fitting(t) ==
  LET j == job[t]
      b == Of(t)
      p == parent[b]
  IN job[t] # Free /\ calm[t] =>
       /\ j.step \in {"count"} \cup Measuring =>
            /\ file[b]
            /\ \A i \in DOMAIN j.counts : j.counts[i] = Cardinality(Table(db[b], i))
       /\ j.step \in Measuring \ {"commits"} => j.ops = commits[b]
       /\ j.step \in {"pools", "diff"} => j.base = Total(metrics[p].counts)
       /\ j.step = "diff" => Exact(j.view, b, p)
       /\ j.step = "write" =>
            IF p = NoBranch THEN Row(t).score = <<0, 1>>
            ELSE Row(t).score = ComputeScore(db[b], db[p], Total(metrics[p].counts))

\* A row that has not been measured yet, or whose diff failed, has the score that
\* is stored; and the list of a call has each branch once, so that it is still the
\* stored one when its turn comes.
Stored(t) ==
  LET queue == job[t].queue IN
  job[t] # Free =>
    /\ \A i, k \in DOMAIN queue : queue[i].of = queue[k].of => i = k
    /\ calm[t] => \A i \in DOMAIN queue :
         \/ i = 1 /\ job[t].step = "write"
         \/ queue[i].row.score = metrics[queue[i].of].score

MetricsInv ==
  /\ MetricsTypes
  /\ HeldByOne
  /\ CountersBacked
  /\ \A t \in Trackers : Counters(t) /\ Fitting(t) /\ Stored(t)

-----------------------------------------------------------------------------
(* Jobs and the rows they hold.                                            *)

LEMMA Busy ==
  ASSUME NEW j \in Jobs
  PROVE  /\ j # Free /\ j.queue \in Seq(HeldRows) /\ Len(j.queue) \in Nat \ {0}
         /\ DOMAIN j.queue = 1..Len(j.queue) /\ 1 \in DOMAIN j.queue
         /\ \A i \in DOMAIN j.queue : j.queue[i] \in HeldRows
         /\ Head(j.queue) = j.queue[1]
<1>1. j.queue \in Seq(HeldRows) /\ j.queue # <<>> /\ j.step \in JobSteps
  BY DEF Jobs
<1>2. j # Free
  BY <1>1 DEF Free, JobSteps, Measuring
<1> QED
  BY <1>1, <1>2

LEMMA AtJob ==
  ASSUME MetricsTypes, NEW t \in Trackers, job[t] # Free
  PROVE  /\ job[t] \in Jobs /\ Placed(job[t])
         /\ Of(t) = job[t].queue[1].of /\ Row(t) = job[t].queue[1].row
         /\ Of(t) \in Branches /\ Of(t) \in Rows /\ Row(t) \in MetricsRows
         /\ job[t].step \in {"parent", "pools", "diff", "keep"} => parent[Of(t)] \in Branches
<1>1. job[t] \in Jobs /\ Placed(job[t])
  BY DEF MetricsTypes
<1>2. /\ 1 \in DOMAIN job[t].queue /\ Head(job[t].queue) = job[t].queue[1]
      /\ job[t].queue[1] \in HeldRows
  BY <1>1, Busy
<1>3. Of(t) \in Rows /\ Of(t) \in Branches
  BY <1>2 DEF MetricsTypes, Of, Rows
<1> QED
  BY <1>1, <1>2, <1>3 DEF MetricsTypes, Of, Row, HeldRows

LEMMA HoldsRows ==
  ASSUME NEW t, NEW b
  PROVE  b \in Holds(t) <=> job[t] # Free /\ \E i \in DOMAIN job[t].queue : job[t].queue[i].of = b
BY DEF Holds, ToSet

\* The first row of a queue with another score.
LEMMA Scored ==
  ASSUME NEW q \in Seq(HeldRows), q # <<>>, NEW score \in Scores
  PROVE  LET p == [q EXCEPT ![1].row.score = score] IN
         /\ p \in Seq(HeldRows) /\ p # <<>> /\ DOMAIN p = DOMAIN q /\ Len(p) = Len(q)
         /\ p[1].of = q[1].of /\ p[1].row.score = score /\ p[1].row.written = q[1].row.written
         /\ p[1].row.ops = q[1].row.ops /\ Head(p) = p[1]
         /\ \A i \in DOMAIN q \ {1} : p[i] = q[i]
<1> DEFINE p == [q EXCEPT ![1].row.score = score]
<1>1. DOMAIN q = 1..Len(q) /\ Len(q) \in Nat \ {0} /\ q[1] \in HeldRows
  OBVIOUS
<1>2. p[1] = [of |-> q[1].of, row |-> [q[1].row EXCEPT !.score = score]]
  BY <1>1 DEF HeldRows
<1>3. p[1] \in HeldRows
  <2>1. [q[1].row EXCEPT !.score = score] \in MetricsRows
    BY <1>1 DEF HeldRows, MetricsRows
  <2> HIDE DEF p
  <2> QED
    BY <1>1, <1>2, <2>1 DEF HeldRows
<1>4. DOMAIN p = DOMAIN q /\ \A i \in DOMAIN q \ {1} : p[i] = q[i]
  OBVIOUS
<1>5. p \in [1..Len(q) -> HeldRows]
  BY <1>1, <1>3, <1>4
<1> HIDE DEF p
<1>6. p \in Seq(HeldRows) /\ Len(p) = Len(q)
  BY <1>1, <1>5
<1>7. Head(p) = p[1]
  BY <1>6
<1>8. /\ p[1].of = q[1].of /\ p[1].row.score = score /\ p[1].row.written = q[1].row.written
      /\ p[1].row.ops = q[1].row.ops
  <2>1. q[1].row \in MetricsRows
    BY <1>1 DEF HeldRows
  <2> QED
    BY <1>2, <2>1 DEF MetricsRows
<1> QED
  BY <1>1, <1>4, <1>6, <1>7, <1>8 DEF p

\* A step that leaves a job alone, and the registry too unless it disturbs the job.
LEMMA StillStored ==
  ASSUME NEW u, Stored(u), job'[u] = job[u], calm'[u] => calm[u] /\ metrics' = metrics
  PROVE  Stored(u)'
BY DEF Stored

-----------------------------------------------------------------------------
(* Steps of a call that change its job and nothing else.                   *)

\* j holds the rows that job k holds; the score of the first may have been measured.
SameRows(j, k) ==
  /\ DOMAIN j.queue = DOMAIN k.queue
  /\ \A i \in DOMAIN k.queue :
       /\ j.queue[i].of = k.queue[i].of
       /\ j.queue[i].row.written = k.queue[i].row.written
       /\ j.queue[i].row.ops = k.queue[i].row.ops
       /\ \/ i = 1 /\ j.step = "write"
          \/ j.queue[i].row.score = k.queue[i].row.score

LEMMA InnerStep ==
  ASSUME MetricsInv, NEW t \in Trackers, job[t] # Free, job[t].step # "write",
         job' = [job EXCEPT ![t] = job'[t]], job'[t] \in Jobs, SameRows(job'[t], job[t]),
         Placed(job'[t]),
         job'[t].step \in {"parent", "pools", "diff", "keep"} => parent[Of(t)] # NoBranch,
         job'[t].step \in Measuring \ {"commits"} => job'[t].ops <= commits[Of(t)],
         Fitting(t)', UNCHANGED <<stores, calls, changes, done, overlapped, calm>>
  PROVE  MetricsInv'
<1> USE DEF stores, registry
<1>1. /\ job' \in [Trackers -> Jobs \cup {Free}] /\ \A u \in Trackers \ {t} : job'[u] = job[u]
      /\ UNCHANGED Rows
  BY DEF MetricsInv, MetricsTypes, Rows
<1>2. job[t] \in Jobs /\ Of(t) = job[t].queue[1].of
  BY AtJob DEF MetricsInv
<1>3. Of(t)' = Of(t)
  BY <1>2, Busy DEF SameRows, Of
<1>4. MetricsTypes'
  <2>1. ASSUME NEW u \in Trackers, job'[u] # Free
        PROVE  /\ Placed(job'[u])
               /\ \A i \in DOMAIN job'[u].queue : job'[u].queue[i].of \in Rows
               /\ job'[u].step \in {"parent", "pools", "diff", "keep"} => parent[Of(u)'] # NoBranch
    <3>1. CASE u = t
      BY <1>3, <3>1 DEF SameRows, MetricsInv, MetricsTypes
    <3>2. CASE u # t
      BY <1>1, <2>1, <3>2 DEF MetricsInv, MetricsTypes, Of
    <3> QED
      BY <3>1, <3>2
  <2> QED
    BY <1>1, <2>1 DEF MetricsInv, MetricsTypes
<1>5. HeldByOne'
  <2>1. ASSUME NEW u \in Trackers, NEW b, b \in Holds(u)' PROVE b \in Holds(u)
    <3>1. CASE u = t
      BY <2>1, <3>1 DEF Holds, ToSet, SameRows
    <3>2. CASE u # t
      BY <1>1, <2>1, <3>2 DEF Holds
    <3> QED
      BY <3>1, <3>2
  <2> QED
    BY <2>1 DEF MetricsInv, HeldByOne
<1>6. ASSUME NEW u \in Trackers PROVE Counters(u)' /\ Fitting(u)' /\ Stored(u)'
  <2>1. CASE u = t
    <3>1. Counters(t)'
      BY SMTT(30), <1>3 DEF MetricsInv, Counters, SameRows, Backed
    <3>2. Stored(t)'
      <4>1. Stored(t) /\ calm' = calm /\ metrics' = metrics
        BY DEF MetricsInv
      <4>2. PICK q : q = job[t].queue
        OBVIOUS
      <4>3. PICK r : r = job'[t].queue
        OBVIOUS
      <4>4. /\ DOMAIN r = DOMAIN q
            /\ \A i \in DOMAIN q : /\ r[i].of = q[i].of
                                   /\ \/ i = 1 /\ job'[t].step = "write"
                                      \/ r[i].row.score = q[i].row.score
        BY <4>2, <4>3 DEF SameRows
      <4>5. \A i, k \in DOMAIN q : q[i].of = q[k].of => i = k
        BY <4>1, <4>2 DEF Stored
      <4>6. calm[t] => \A i \in DOMAIN q : q[i].row.score = metrics[q[i].of].score
        BY <4>1, <4>2 DEF Stored
      <4>7. \A i, k \in DOMAIN r : r[i].of = r[k].of => i = k
        BY <4>4, <4>5
      <4>8. calm'[t] => \A i \in DOMAIN r : \/ i = 1 /\ job'[t].step = "write"
                                            \/ r[i].row.score = metrics'[r[i].of].score
        BY <4>1, <4>4, <4>6
      <4> QED
        BY <4>3, <4>7, <4>8 DEF Stored
    <3> QED
      BY <2>1, <3>1, <3>2
  <2>2. CASE u # t
    <3>1. job'[u] = job[u]
      BY <1>1, <2>2
    <3>2. Counters(u)'
      <4>1. Counters(u)
        BY DEF MetricsInv
      <4>2. /\ overlapped' = overlapped /\ metrics' = metrics /\ commits' = commits
            /\ done' = done
        OBVIOUS
      <4>3. Of(u)' = Of(u)
        BY <3>1 DEF Of
      <4>4. ASSUME NEW b, NEW row PROVE Backed(b, row)' <=> Backed(b, row)
        BY <4>2 DEF Backed
      <4> QED
        BY <3>1, <4>1, <4>2, <4>3, <4>4 DEF Counters
    <3>3. Fitting(u)'
      <4>1. /\ Of(u)' = Of(u) /\ Row(u)' = Row(u) /\ calm' = calm /\ db' = db /\ file' = file
            /\ commits' = commits /\ parent' = parent /\ metrics' = metrics
        BY <3>1 DEF Of, Row
      <4>2. Fitting(u)
        BY DEF MetricsInv
      <4> QED
        BY <3>1, <4>1, <4>2 DEF Fitting, Exact
    <3>4. Stored(u)'
      BY <3>1, StillStored DEF MetricsInv
    <3> QED
      BY <3>2, <3>3, <3>4
  <2> QED
    BY <2>1, <2>2
<1> QED
  BY <1>4, <1>5, <1>6 DEF MetricsInv, CountersBacked

LEMMA QuitStep ==
  ASSUME MetricsInv, NEW t \in Trackers, Quit(t),
         UNCHANGED <<stores, calls, changes, done, overlapped, calm>>
  PROVE  MetricsInv'
<1> USE DEF stores, registry
<1>1. /\ job' \in [Trackers -> Jobs \cup {Free}] /\ UNCHANGED Rows
      /\ \A u \in Trackers : job'[u] = job[u] \/ job'[u] = Free
  BY DEF MetricsInv, MetricsTypes, Rows, Quit
<1>2. MetricsTypes'
  BY <1>1 DEF MetricsInv, MetricsTypes, Of
<1>3. HeldByOne'
  BY <1>1 DEF MetricsInv, HeldByOne, Holds
<1>4. ASSUME NEW u \in Trackers PROVE Counters(u)' /\ Fitting(u)' /\ Stored(u)'
  <2>1. CASE job'[u] = Free
    BY <2>1 DEF Counters, Fitting, Stored
  <2>2. CASE job'[u] = job[u]
    <3>1. /\ Of(u)' = Of(u) /\ Row(u)' = Row(u) /\ calm' = calm /\ db' = db /\ file' = file
          /\ commits' = commits /\ parent' = parent /\ metrics' = metrics /\ done' = done
          /\ overlapped' = overlapped
      BY <2>2 DEF Of, Row
    <3>2. Counters(u) /\ Fitting(u)
      BY DEF MetricsInv
    <3>3. Fitting(u)'
      BY <2>2, <3>1, <3>2 DEF Fitting, Exact
    <3>4. Counters(u)'
      BY <2>2, <3>1, <3>2 DEF Counters, Backed
    <3>5. Stored(u)'
      BY <2>2, <3>1, StillStored DEF MetricsInv
    <3> QED
      BY <3>3, <3>4, <3>5
  <2> QED
    BY <1>1, <2>1, <2>2
<1> QED
  BY <1>2, <1>3, <1>4 DEF MetricsInv, CountersBacked

LEMMA OpenDbStep ==
  ASSUME MetricsInv, NEW t \in Trackers, OpenDb(t), job[t] # Free
  PROVE  MetricsInv'
<1>1. job[t] \in Jobs /\ Placed(job[t]) /\ job[t].step = "open"
  BY AtJob DEF MetricsInv, OpenDb, At
<1>2. CASE file[Of(t)]
  <2>1. /\ job' = [job EXCEPT ![t].step = "count"]
        /\ UNCHANGED <<stores, calls, changes, done, overlapped, calm>>
    BY <1>2 DEF OpenDb, Goto
  <2>2. job'[t] = [job[t] EXCEPT !.step = "count"] /\ job' = [job EXCEPT ![t] = job'[t]]
    BY <2>1 DEF MetricsInv, MetricsTypes
  <2>3. /\ job'[t] \in Jobs /\ job'[t].queue = job[t].queue /\ job'[t].step = "count"
        /\ job'[t].counts = job[t].counts /\ job'[t].view = job[t].view
    BY <1>1, <2>2 DEF Jobs, JobSteps
  <2>4. Placed(job'[t]) /\ SameRows(job'[t], job[t])
    BY <1>1, <2>3, MetricsAssumption DEF Placed, Measuring, SameRows
  <2>5. Fitting(t)'
    BY <1>1, <1>2, <2>1, <2>3 DEF Fitting, Measuring, Of, Placed, stores
  <2> QED
    BY <1>1, <2>1, <2>2, <2>3, <2>4, <2>5, InnerStep DEF Measuring
<1>3. CASE ~ file[Of(t)]
  BY <1>3, QuitStep DEF OpenDb
<1> QED
  BY <1>2, <1>3

LEMMA CountTableStep ==
  ASSUME MetricsInv, NEW t \in Trackers, CountTable(t), job[t] # Free
  PROVE  MetricsInv'
<1>1. /\ job[t] \in Jobs /\ Placed(job[t]) /\ job[t].step = "count"
      /\ Of(t) \in Branches /\ Of(t) = job[t].queue[1].of
  BY AtJob DEF MetricsInv, CountTable, At
<1> DEFINE n == Len(job[t].counts) + 1
           x == Cardinality(Table(db[Of(t)], n))
<1>2. /\ job' = [job EXCEPT ![t].counts = Append(@, x),
                            ![t].step = IF n < Len(Types) THEN "count" ELSE "commits"]
      /\ UNCHANGED <<stores, calls, changes, done, overlapped, calm>>
  BY DEF CountTable
<1>3. x \in Nat /\ job[t].counts \in Seq(Nat) /\ n <= Len(Types) /\ Len(Types) \in Nat
  BY SMTT(30), <1>1, TableCounted, MetricsAssumption DEF MetricsInv, MetricsTypes, Jobs, Placed
<1>4. /\ job'[t] = [job[t] EXCEPT !.counts = Append(@, x),
                                  !.step = IF n < Len(Types) THEN "count" ELSE "commits"]
      /\ job' = [job EXCEPT ![t] = job'[t]]
  BY <1>2 DEF MetricsInv, MetricsTypes
<1>5. /\ Append(job[t].counts, x) \in Seq(Nat) /\ Len(Append(job[t].counts, x)) = n
      /\ \A i \in DOMAIN Append(job[t].counts, x) :
           \/ i \in DOMAIN job[t].counts /\ Append(job[t].counts, x)[i] = job[t].counts[i]
           \/ Append(job[t].counts, x)[i] = Cardinality(Table(db[Of(t)], i))
  <2> HIDE DEF x
  <2>1. \A i \in DOMAIN Append(job[t].counts, x) :
           \/ i \in DOMAIN job[t].counts /\ Append(job[t].counts, x)[i] = job[t].counts[i]
           \/ i = n /\ Append(job[t].counts, x)[i] = x
    BY <1>3
  <2>2. Append(job[t].counts, x) \in Seq(Nat) /\ Len(Append(job[t].counts, x)) = n
    BY <1>3
  <2> QED
    BY <2>1, <2>2 DEF x
<1> HIDE DEF x
<1>6. /\ job'[t] \in Jobs /\ job'[t].queue = job[t].queue /\ job'[t].view = job[t].view
      /\ job'[t].counts = Append(job[t].counts, x)
      /\ job'[t].step = IF n < Len(Types) THEN "count" ELSE "commits"
  BY <1>1, <1>4, <1>5 DEF Jobs, JobSteps, Measuring
<1>7. Placed(job'[t]) /\ SameRows(job'[t], job[t])
  BY <1>1, <1>3, <1>5, <1>6 DEF Placed, Measuring, SameRows
<1>8. Fitting(t)'
  <2>1. Of(t)' = Of(t) /\ calm' = calm /\ db' = db /\ file' = file
    BY <1>2, <1>6 DEF Of, stores
  <2>2. Fitting(t)
    BY DEF MetricsInv
  <2> QED
    BY <1>1, <1>5, <1>6, <2>1, <2>2 DEF Fitting, Measuring
<1>9. job'[t].step \notin {"parent", "pools", "diff", "keep"} \cup (Measuring \ {"commits"})
  BY <1>6 DEF Measuring
<1> QED
  BY <1>1, <1>2, <1>4, <1>6, <1>7, <1>8, <1>9, InnerStep

LEMMA CountCommitsStep ==
  ASSUME MetricsInv, NEW t \in Trackers, CountCommits(t), job[t] # Free
  PROVE  MetricsInv'
<1>1. /\ job[t] \in Jobs /\ Placed(job[t]) /\ job[t].step = "commits"
      /\ Of(t) \in Branches /\ Of(t) = job[t].queue[1].of /\ Row(t) = job[t].queue[1].row
      /\ Row(t) \in MetricsRows
  BY AtJob DEF MetricsInv, CountCommits, At
<1> DEFINE orphan == parent[Of(t)] = NoBranch
           score  == IF orphan THEN <<0, 1>> ELSE Row(t).score
           queue  == [job[t].queue EXCEPT ![1].row.score = score]
<1>2. /\ job' = [job EXCEPT ![t].ops = commits[Of(t)],
                            ![t].step = IF orphan THEN "write" ELSE "parent",
                            ![t].queue[1].row.score = score]
      /\ UNCHANGED <<stores, calls, changes, done, overlapped, calm>>
  BY <1>1 DEF CountCommits
<1>3. job[t].queue \in Seq(HeldRows) /\ job[t].queue # <<>> /\ score \in Scores
  BY SMTT(30), <1>1 DEF Jobs, MetricsRows, Scores
<1>4. /\ queue \in Seq(HeldRows) /\ queue # <<>> /\ DOMAIN queue = DOMAIN job[t].queue
      /\ queue[1].of = job[t].queue[1].of /\ queue[1].row.score = score
      /\ queue[1].row.written = job[t].queue[1].row.written
      /\ queue[1].row.ops = job[t].queue[1].row.ops /\ Head(queue) = queue[1]
      /\ \A i \in DOMAIN job[t].queue \ {1} : queue[i] = job[t].queue[i]
  <2> HIDE DEF score
  <2> QED
    BY <1>3, Scored
<1>5. /\ job'[t] = [job[t] EXCEPT !.ops = commits[Of(t)],
                                  !.step = IF orphan THEN "write" ELSE "parent",
                                  !.queue = queue]
      /\ job' = [job EXCEPT ![t] = job'[t]]
  <2> HIDE DEF score, orphan
  <2> QED
    BY <1>1, <1>2 DEF MetricsInv, MetricsTypes, Jobs
<1>6. commits[Of(t)] \in Nat
  BY <1>1 DEF MetricsInv, MetricsTypes
<1> HIDE DEF queue
<1>7. /\ job'[t] \in Jobs /\ job'[t].queue = queue /\ job'[t].view = job[t].view
      /\ job'[t].counts = job[t].counts /\ job'[t].ops = commits[Of(t)]
      /\ job'[t].step = IF orphan THEN "write" ELSE "parent"
  BY <1>1, <1>4, <1>5, <1>6 DEF Jobs, JobSteps, Measuring
<1>8. Placed(job'[t])
  BY <1>1, <1>7 DEF Placed, Measuring
<1>9. SameRows(job'[t], job[t])
  <2>1. ~ orphan => score = job[t].queue[1].row.score
    BY <1>1
  <2> HIDE DEF score, orphan
  <2> QED
    BY <1>4, <1>7, <2>1 DEF SameRows
<1>10. Fitting(t)'
  <2>1. /\ Of(t)' = Of(t) /\ Row(t)'.score = score /\ calm' = calm /\ db' = db /\ file' = file
        /\ commits' = commits /\ parent' = parent
    BY <1>1, <1>2, <1>4, <1>7 DEF Of, Row, stores, registry
  <2>2. Fitting(t)
    BY DEF MetricsInv
  <2>3. job[t] # Free
    OBVIOUS
  <2> HIDE DEF score
  <2>4. orphan => score = <<0, 1>>
    BY DEF score
  <2> QED
    BY <1>1, <1>7, <2>1, <2>2, <2>3, <2>4 DEF Fitting, Measuring
<1>11. /\ job'[t].step \in {"parent", "pools", "diff", "keep"} => parent[Of(t)] # NoBranch
       /\ job'[t].step \in Measuring \ {"commits"} => job'[t].ops <= commits[Of(t)]
  BY <1>6, <1>7
<1> QED
  BY <1>1, <1>2, <1>5, <1>7, <1>8, <1>9, <1>10, <1>11, InnerStep

LEMMA ReadParentStep ==
  ASSUME MetricsInv, NEW t \in Trackers, ReadParent(t), job[t] # Free
  PROVE  MetricsInv'
<1>1. /\ job[t] \in Jobs /\ Placed(job[t]) /\ job[t].step = "parent"
      /\ Of(t) = job[t].queue[1].of /\ parent[Of(t)] \in Branches
      /\ job[t].ops <= commits[Of(t)] /\ parent[Of(t)] # NoBranch
  BY AtJob DEF MetricsInv, MetricsTypes, ReadParent, At, Counters, Measuring
<1> DEFINE base == Total(metrics[parent[Of(t)]].counts)
<1>2. /\ job' = [job EXCEPT ![t].base = base, ![t].step = "pools"]
      /\ UNCHANGED <<stores, calls, changes, done, overlapped, calm>>
  BY DEF ReadParent
<1>3. base \in Nat
  <2>1. metrics[parent[Of(t)]].counts \in [DOMAIN Types -> Nat]
    BY <1>1 DEF MetricsInv, MetricsTypes, MetricsRows
  <2>2. metrics[parent[Of(t)]].counts \in [1..Len(Types) -> Nat] /\ Len(Types) \in Nat
    BY <2>1, MetricsAssumption
  <2>3. PICK counts : counts = metrics[parent[Of(t)]].counts
    OBVIOUS
  <2>4. Len(counts) \in Nat /\ \A i \in 1..Len(counts) : counts[i] \in Nat
    BY <2>2, <2>3
  <2> QED
    BY <2>3, <2>4, TotalType
<1> HIDE DEF base
<1>4. /\ job'[t] = [job[t] EXCEPT !.base = base, !.step = "pools"]
      /\ job' = [job EXCEPT ![t] = job'[t]]
  BY <1>2 DEF MetricsInv, MetricsTypes
<1>5. /\ job'[t] \in Jobs /\ job'[t].queue = job[t].queue /\ job'[t].view = job[t].view
      /\ job'[t].counts = job[t].counts /\ job'[t].ops = job[t].ops /\ job'[t].base = base
      /\ job'[t].step = "pools"
  BY <1>1, <1>3, <1>4 DEF Jobs, JobSteps, Measuring
<1>6. Placed(job'[t]) /\ SameRows(job'[t], job[t])
  BY <1>1, <1>5 DEF Placed, SameRows, Measuring
<1>7. Fitting(t)'
  <2>1. /\ Of(t)' = Of(t) /\ UNCHANGED <<calm, db, file, parent, commits, metrics>>
    BY <1>2, <1>5 DEF Of, stores, registry
  <2>2. Fitting(t)
    BY DEF MetricsInv
  <2> QED
    BY <1>1, <1>5, <2>1, <2>2 DEF Fitting, Measuring, base
<1> QED
  BY <1>1, <1>2, <1>4, <1>5, <1>6, <1>7, InnerStep

LEMMA OpenPoolsStep ==
  ASSUME MetricsInv, NEW t \in Trackers, OpenPools(t), job[t] # Free
  PROVE  MetricsInv'
<1>1. /\ job[t] \in Jobs /\ Placed(job[t]) /\ job[t].step = "pools"
      /\ Of(t) = job[t].queue[1].of /\ parent[Of(t)] \in Branches
      /\ job[t].ops <= commits[Of(t)] /\ parent[Of(t)] # NoBranch
  BY AtJob DEF MetricsInv, MetricsTypes, OpenPools, At, Counters, Measuring
<1> DEFINE step == IF file[Of(t)] /\ file[parent[Of(t)]] THEN "diff" ELSE "keep"
<1>2. /\ job' = [job EXCEPT ![t].step = step]
      /\ UNCHANGED <<stores, calls, changes, done, overlapped, calm>>
  BY DEF OpenPools, Goto
<1>4. step \in {"diff", "keep"}
  OBVIOUS
<1> HIDE DEF step
<1>5. job'[t] = [job[t] EXCEPT !.step = step] /\ job' = [job EXCEPT ![t] = job'[t]]
  BY <1>2 DEF MetricsInv, MetricsTypes
<1>6. /\ job'[t] \in Jobs /\ job'[t].queue = job[t].queue /\ job'[t].view = job[t].view
      /\ job'[t].counts = job[t].counts /\ job'[t].ops = job[t].ops
      /\ job'[t].base = job[t].base /\ job'[t].step = step
  BY <1>1, <1>4, <1>5 DEF Jobs, JobSteps, Measuring
<1>7. Placed(job'[t]) /\ SameRows(job'[t], job[t])
  <2>1. NoView.at < 2 * Len(Types)
    BY MetricsAssumption DEF NoView
  <2> QED
    BY <1>1, <1>4, <1>6, <2>1 DEF Placed, SameRows, Measuring
<1>8. Fitting(t)'
  <2>1. /\ Of(t)' = Of(t) /\ UNCHANGED <<calm, db, file, parent, commits, metrics>>
    BY <1>2, <1>6 DEF Of, stores, registry
  <2>2. Fitting(t)
    BY DEF MetricsInv
  <2>3. Exact(NoView, Of(t), parent[Of(t)])
    BY MetricsAssumption DEF Exact, NoView, Reached
  <2>4. job'[t].view = NoView
    BY <1>1, <1>6 DEF Placed
  <2>5. Exact(job[t].view, Of(t), parent[Of(t)])'
    BY <1>6, <2>1, <2>3, <2>4 DEF Exact
  <2>6. calm[t] =>
          /\ file[Of(t)] /\ job[t].ops = commits[Of(t)]
          /\ \A i \in DOMAIN job[t].counts :
               job[t].counts[i] = Cardinality(Table(db[Of(t)], i))
          /\ job[t].base = Total(metrics[parent[Of(t)]].counts)
    BY <1>1, <2>2 DEF Fitting, Measuring
  <2>7. CASE step = "diff"
    <3>1. job'[t].step = "diff" /\ Exact(job[t].view, Of(t), parent[Of(t)])'
      BY <1>6, <2>5, <2>7
    <3> QED
      BY <1>6, <2>1, <2>6, <3>1 DEF Fitting, Measuring
  <2>8. CASE step = "keep"
    BY <1>6, <2>1, <2>6, <2>8 DEF Fitting, Measuring
  <2> QED
    BY <1>4, <2>7, <2>8
<1> QED
  BY <1>1, <1>2, <1>5, <1>6, <1>7, <1>8, InnerStep

\* An error that is passed over.
LEMMA KeepScoreStep ==
  ASSUME MetricsInv, NEW t \in Trackers, KeepScore(t), job[t] # Free
  PROVE  MetricsInv'
<1>1. /\ job[t] \in Jobs /\ Placed(job[t]) /\ job[t].step \in {"parent", "pools", "diff"}
      /\ Of(t) = job[t].queue[1].of /\ job[t].ops <= commits[Of(t)] /\ parent[Of(t)] # NoBranch
  BY AtJob DEF MetricsInv, MetricsTypes, KeepScore, Counters, Measuring
<1>2. /\ job' = [job EXCEPT ![t].step = "keep", ![t].view = NoView]
      /\ UNCHANGED <<stores, calls, changes, done, overlapped, calm>>
  BY DEF KeepScore
<1>3. /\ job'[t] = [job[t] EXCEPT !.step = "keep", !.view = NoView]
      /\ job' = [job EXCEPT ![t] = job'[t]]
  BY <1>2 DEF MetricsInv, MetricsTypes
<1>4. NoView \in Views
  BY BlankType DEF NoView, Views
<1>5. /\ job'[t] \in Jobs /\ job'[t].queue = job[t].queue /\ job'[t].view = NoView
      /\ job'[t].counts = job[t].counts /\ job'[t].ops = job[t].ops /\ job'[t].step = "keep"
  BY <1>1, <1>3, <1>4 DEF Jobs, JobSteps, Measuring
<1>6. Placed(job'[t]) /\ SameRows(job'[t], job[t])
  BY <1>1, <1>5 DEF Placed, SameRows, Measuring
<1>7. Fitting(t)'
  <2>1. /\ Of(t)' = Of(t) /\ UNCHANGED <<calm, db, file, commits>>
    BY <1>2, <1>5 DEF Of, stores, registry
  <2>2. Fitting(t)
    BY DEF MetricsInv
  <2> QED
    BY <1>1, <1>5, <2>1, <2>2 DEF Fitting, Measuring
<1> QED
  BY <1>1, <1>2, <1>3, <1>5, <1>6, <1>7, InnerStep

-----------------------------------------------------------------------------
(* Diffs, one query after the other.                                       *)

\* The type that the next query reads is one of the types.
LEMMA NextType ==
  ASSUME NEW at \in Nat, at < 2 * Len(Types)
  PROVE  1 + at \div 2 \in DOMAIN Types
<1>1. Len(Types) \in Nat /\ DOMAIN Types = 1..Len(Types)
  BY MetricsAssumption
<1> QED
  BY <1>1

LEMMA Halves ==
  ASSUME NEW n \in Nat
  PROVE  n \div 2 \in Nat /\ n % 2 \in {0, 1} /\ n = 2 * (n \div 2) + (n % 2)
OBVIOUS

\* After one more query a view has one more table, and the others as before.
LEMMA SeenMore ==
  ASSUME NEW view \in Views, view.at < 2 * Len(Types), NEW a, NEW b,
         db[a] \in Databases, db[b] \in Databases
  PROVE  /\ Seen(view, a, b) \in Views /\ Seen(view, a, b).at = view.at + 1
         /\ \A e \in Entities :
              /\ Reached(view.at + 1, 0, e) =>
                   \/ Seen(view, a, b).a[e] = db[a][e]
                   \/ Reached(view.at, 0, e) /\ Seen(view, a, b).a[e] = view.a[e]
              /\ Reached(view.at + 1, 1, e) =>
                   \/ Seen(view, a, b).b[e] = db[b][e]
                   \/ Reached(view.at, 1, e) /\ Seen(view, a, b).b[e] = view.b[e]
<1> DEFINE type == Types[1 + view.at \div 2]
           Merged(old, new) == [e \in Entities |-> IF e[1] = type THEN new[e] ELSE old[e]]
<1>0. view.at \in Nat /\ view.a \in Databases /\ view.b \in Databases
  BY DEF Views
<1>1. /\ view.at \div 2 \in Nat /\ view.at % 2 \in {0, 1}
      /\ view.at = 2 * (view.at \div 2) + (view.at % 2)
  BY <1>0, Halves
<1>2. ASSUME NEW old \in Databases, NEW new \in Databases
      PROVE  Merged(old, new) \in Databases
  <2>1. Merged(old, new) \in [Entities -> Contents \cup {Absent}]
    BY DEF Databases
  <2>2. \A e \in Entities : Merged(old, new)[e] # Absent => old[e] # Absent \/ new[e] # Absent
    OBVIOUS
  <2> HIDE DEF Merged
  <2> QED
    BY <2>1, <2>2, DatabaseFrom
<1>3. Seen(view, a, b) = IF view.at % 2 = 0
        THEN [view EXCEPT !.at = @ + 1, !.a = Merged(@, db[a])]
        ELSE [view EXCEPT !.at = @ + 1, !.b = Merged(@, db[b])]
  BY DEF Seen
<1>4. Merged(view.a, db[a]) \in Databases /\ Merged(view.b, db[b]) \in Databases
  BY <1>0, <1>2
<1>5. \A e \in Entities :
        /\ Merged(view.a, db[a])[e] = IF e[1] = type THEN db[a][e] ELSE view.a[e]
        /\ Merged(view.b, db[b])[e] = IF e[1] = type THEN db[b][e] ELSE view.b[e]
  OBVIOUS
<1> HIDE DEF Merged
<1>6. CASE view.at % 2 = 0
  <2>1. Seen(view, a, b) = [at |-> view.at + 1, a |-> Merged(view.a, db[a]), b |-> view.b]
    <3>1. Seen(view, a, b) = [view EXCEPT !.at = @ + 1, !.a = Merged(@, db[a])]
      BY <1>3, <1>6
    <3> QED
      BY <3>1 DEF Views
  <2>2. /\ Seen(view, a, b) \in Views /\ Seen(view, a, b).at = view.at + 1
        /\ Seen(view, a, b).a = Merged(view.a, db[a])
        /\ Seen(view, a, b).b = view.b
    BY <1>0, <1>4, <2>1 DEF Views
  <2>3. PICK half : half = view.at \div 2
    OBVIOUS
  <2>6. half \in Nat /\ view.at = 2 * half
    BY <1>1, <1>6, <2>3
  <2>4. ASSUME NEW e, Reached(view.at + 1, 0, e), e[1] # type PROVE Reached(view.at, 0, e)
    <3>1. PICK k \in DOMAIN Types : e[1] = Types[k] /\ 2 * (k - 1) + 0 < view.at + 1
      BY <2>4 DEF Reached
    <3>2. k \in Nat /\ k # 1 + half
      BY <2>3, <2>4, <3>1, MetricsAssumption
    <3>3. 2 * (k - 1) + 0 < view.at
      BY <2>6, <3>1, <3>2
    <3> QED
      BY <3>1, <3>3 DEF Reached
  <2>5. ASSUME NEW e, Reached(view.at + 1, 1, e) PROVE Reached(view.at, 1, e)
    <3>1. PICK k \in DOMAIN Types : e[1] = Types[k] /\ 2 * (k - 1) + 1 < view.at + 1
      BY <2>5 DEF Reached
    <3>2. k \in Nat
      BY <3>1, MetricsAssumption
    <3>3. 2 * (k - 1) + 1 < view.at
      BY <2>6, <3>1, <3>2
    <3> QED
      BY <3>1, <3>3 DEF Reached
  <2> HIDE DEF type
  <2> QED
    BY <1>5, <2>2, <2>4, <2>5
<1>7. CASE view.at % 2 = 1
  <2>1. Seen(view, a, b) = [at |-> view.at + 1, a |-> view.a, b |-> Merged(view.b, db[b])]
    <3>1. Seen(view, a, b) = [view EXCEPT !.at = @ + 1, !.b = Merged(@, db[b])]
      BY <1>3, <1>7
    <3> QED
      BY <3>1 DEF Views
  <2>2. /\ Seen(view, a, b) \in Views /\ Seen(view, a, b).at = view.at + 1
        /\ Seen(view, a, b).b = Merged(view.b, db[b])
        /\ Seen(view, a, b).a = view.a
    BY <1>0, <1>4, <2>1 DEF Views
  <2>3. PICK half : half = view.at \div 2
    OBVIOUS
  <2>6. half \in Nat /\ view.at = 2 * half + 1
    BY <1>1, <1>7, <2>3
  <2>4. ASSUME NEW e, Reached(view.at + 1, 1, e), e[1] # type PROVE Reached(view.at, 1, e)
    <3>1. PICK k \in DOMAIN Types : e[1] = Types[k] /\ 2 * (k - 1) + 1 < view.at + 1
      BY <2>4 DEF Reached
    <3>2. k \in Nat /\ k # 1 + half
      BY <2>3, <2>4, <3>1, MetricsAssumption
    <3>3. 2 * (k - 1) + 1 < view.at
      BY <2>6, <3>1, <3>2
    <3> QED
      BY <3>1, <3>3 DEF Reached
  <2>5. ASSUME NEW e, Reached(view.at + 1, 0, e) PROVE Reached(view.at, 0, e)
    <3>1. PICK k \in DOMAIN Types : e[1] = Types[k] /\ 2 * (k - 1) + 0 < view.at + 1
      BY <2>5 DEF Reached
    <3>2. k \in Nat
      BY <3>1, MetricsAssumption
    <3>3. 2 * (k - 1) + 0 < view.at
      BY <2>6, <3>1, <3>2
    <3> QED
      BY <3>1, <3>3 DEF Reached
  <2> HIDE DEF type
  <2> QED
    BY <1>5, <2>2, <2>4, <2>5
<1> QED
  BY <1>1, <1>6, <1>7

\* A complete view has reached every row.
LEMMA AllReached ==
  ASSUME NEW view, Complete(view), NEW e \in Entities
  PROVE  Reached(view.at, 0, e) /\ Reached(view.at, 1, e)
<1>1. PICK i \in DOMAIN Types : e[1] = Types[i]
  BY MetricsAssumption DEF ToSet
<1>2. i \in 1..Len(Types) /\ Len(Types) \in Nat
  BY MetricsAssumption
<1>3. 2 * (i - 1) + 0 < 2 * Len(Types) /\ 2 * (i - 1) + 1 < 2 * Len(Types)
  BY <1>2
<1> QED
  BY <1>1, <1>3 DEF Reached, Complete

LEMMA ExactMore ==
  ASSUME NEW view \in Views, view.at < 2 * Len(Types), NEW a, NEW b,
         db[a] \in Databases, db[b] \in Databases, Exact(view, a, b)
  PROVE  Exact(Seen(view, a, b), a, b)
BY SeenMore DEF Exact

LEMMA ExactComplete ==
  ASSUME NEW view \in Views, Complete(view), NEW a, NEW b,
         db[a] \in Databases, db[b] \in Databases, Exact(view, a, b)
  PROVE  view.a = db[a] /\ view.b = db[b]
<1>1. \A e \in Entities : view.a[e] = db[a][e] /\ view.b[e] = db[b][e]
  BY AllReached DEF Exact
<1>2. view.a \in Databases /\ view.b \in Databases
  BY DEF Views
<1> QED
  BY <1>1, <1>2 DEF Databases

LEMMA ReadDiffStep ==
  ASSUME MetricsInv, NEW t \in Trackers, ReadDiff(t), job[t] # Free
  PROVE  MetricsInv'
<1>1. /\ job[t] \in Jobs /\ Placed(job[t]) /\ job[t].step = "diff"
      /\ Of(t) \in Branches /\ Of(t) = job[t].queue[1].of
      /\ parent[Of(t)] \in Branches /\ parent[Of(t)] # NoBranch
      /\ job[t].ops <= commits[Of(t)]
  BY AtJob DEF MetricsInv, MetricsTypes, ReadDiff, At, Counters, Measuring
<1>2. /\ job[t].view \in Views /\ job[t].view.at < 2 * Len(Types) /\ job[t].base \in Nat
      /\ db[Of(t)] \in Databases /\ db[parent[Of(t)]] \in Databases
  BY <1>1 DEF Jobs, Placed, MetricsInv, MetricsTypes
<1> DEFINE view  == Seen(job[t].view, Of(t), parent[Of(t)])
           score == ComputeScore(view.a, view.b, job[t].base)
           queue == [job[t].queue EXCEPT ![1].row.score = score]
<1>3. /\ job' = IF Complete(view)
                THEN [job EXCEPT ![t].view = NoView, ![t].step = "write",
                                 ![t].queue[1].row.score = score]
                ELSE [job EXCEPT ![t].view = view]
      /\ UNCHANGED <<stores, calls, changes, done, overlapped, calm>>
  BY DEF ReadDiff
<1>4. view \in Views /\ view.at = job[t].view.at + 1
  BY <1>2, SeenMore
<1>5. Fitting(t)
  BY DEF MetricsInv
<1>6. calm[t] =>
        /\ file[Of(t)] /\ job[t].ops = commits[Of(t)]
        /\ \A i \in DOMAIN job[t].counts :
             job[t].counts[i] = Cardinality(Table(db[Of(t)], i))
        /\ job[t].base = Total(metrics[parent[Of(t)]].counts)
        /\ Exact(job[t].view, Of(t), parent[Of(t)])
  BY <1>1, <1>5 DEF Fitting, Measuring
<1>7. calm[t] => Exact(view, Of(t), parent[Of(t)])
  BY <1>2, <1>6, ExactMore
<1>8. CASE ~ Complete(view)
  <2> HIDE DEF view
  <2>1. job'[t] = [job[t] EXCEPT !.view = view] /\ job' = [job EXCEPT ![t] = job'[t]]
    BY <1>3, <1>8 DEF MetricsInv, MetricsTypes
  <2>2. /\ job'[t] \in Jobs /\ job'[t].queue = job[t].queue /\ job'[t].view = view
        /\ job'[t].counts = job[t].counts /\ job'[t].ops = job[t].ops
        /\ job'[t].base = job[t].base /\ job'[t].step = "diff"
    BY <1>1, <1>4, <2>1 DEF Jobs
  <2>3. Placed(job'[t]) /\ SameRows(job'[t], job[t])
    <3>1. view.at < 2 * Len(Types)
      <4>1. view.at # 2 * Len(Types)
        BY <1>8 DEF Complete
      <4>2. job[t].view.at \in Nat /\ Len(Types) \in Nat
        BY <1>2, MetricsAssumption DEF Views
      <4> QED
        BY <1>2, <1>4, <4>1, <4>2
    <3> QED
      BY <1>1, <2>2, <3>1 DEF Placed, SameRows, Measuring
  <2>4. Fitting(t)'
    <3>1. Of(t)' = Of(t) /\ UNCHANGED <<calm, db, file, parent, commits, metrics>>
      BY <1>3, <2>2 DEF Of, stores, registry
    <3>2. calm[t] => Exact(job[t].view, Of(t), parent[Of(t)])'
      BY <1>7, <2>2, <3>1 DEF Exact
    <3> QED
      BY <1>6, <2>2, <3>1, <3>2 DEF Fitting, Measuring
  <2> QED
    BY <1>1, <1>3, <2>1, <2>2, <2>3, <2>4, InnerStep
<1>9. CASE Complete(view)
  <2>1. view.a \in Databases /\ view.b \in Databases
    BY <1>4 DEF Views
  <2>2. score \in Scores
    BY <1>2, <2>1, ScoreType
  <2>3. calm[t] => score = ComputeScore(db[Of(t)], db[parent[Of(t)]],
                                        Total(metrics[parent[Of(t)]].counts))
    <3>1. calm[t] => view.a = db[Of(t)] /\ view.b = db[parent[Of(t)]]
      BY <1>2, <1>4, <1>7, <1>9, ExactComplete
    <3> QED
      BY <1>6, <3>1
  <2> HIDE DEF view, score
  <2>4. job[t].queue \in Seq(HeldRows) /\ job[t].queue # <<>>
    BY <1>1 DEF Jobs
  <2>5. /\ queue \in Seq(HeldRows) /\ queue # <<>> /\ DOMAIN queue = DOMAIN job[t].queue
        /\ queue[1].of = job[t].queue[1].of /\ queue[1].row.score = score
        /\ queue[1].row.written = job[t].queue[1].row.written
        /\ queue[1].row.ops = job[t].queue[1].row.ops /\ Head(queue) = queue[1]
        /\ \A i \in DOMAIN job[t].queue \ {1} : queue[i] = job[t].queue[i]
    BY <2>2, <2>4, Scored
  <2>6. /\ job'[t] = [job[t] EXCEPT !.view = NoView, !.step = "write", !.queue = queue]
        /\ job' = [job EXCEPT ![t] = job'[t]]
    BY <1>1, <1>3, <1>9 DEF MetricsInv, MetricsTypes, Jobs
  <2> HIDE DEF queue
  <2>7. NoView \in Views
    BY BlankType DEF NoView, Views
  <2>8. /\ job'[t] \in Jobs /\ job'[t].queue = queue /\ job'[t].view = NoView
        /\ job'[t].counts = job[t].counts /\ job'[t].ops = job[t].ops
        /\ job'[t].step = "write"
    BY <1>1, <2>5, <2>6, <2>7 DEF Jobs, JobSteps, Measuring
  <2>9. Placed(job'[t]) /\ SameRows(job'[t], job[t])
    BY <1>1, <2>5, <2>8 DEF Placed, SameRows, Measuring
  <2>10. Fitting(t)'
    <3>1. /\ Of(t)' = Of(t) /\ Row(t)'.score = score
          /\ UNCHANGED <<calm, db, file, parent, commits, metrics>>
      BY <1>1, <1>3, <2>5, <2>8 DEF Of, Row, stores, registry
    <3> QED
      BY <1>1, <1>6, <2>3, <2>8, <3>1 DEF Fitting, Measuring
  <2> QED
    BY <1>1, <1>3, <2>6, <2>8, <2>9, <2>10, InnerStep
<1> QED
  BY <1>8, <1>9

-----------------------------------------------------------------------------
(* Calls of the tracker, and what ends them.                               *)

LEMMA CallStep ==
  ASSUME MetricsInv, NEW t \in Trackers, NEW step \in {"track", "open"},
         NEW kind \in OpKinds \cup {"none"}, step = "track" => kind \in OpKinds,
         NEW queue \in Seq(HeldRows), queue # <<>>,
         \A i \in DOMAIN queue : \E b \in Rows : queue[i] = Held(b),
         \A i, k \in DOMAIN queue : queue[i].of = queue[k].of => i = k,
         Call(t, step, kind, queue)
  PROVE  MetricsInv'
<1> USE DEF stores, registry
<1> DEFINE new == [step |-> step, kind |-> kind, queue |-> queue, ops |-> 0,
                   counts |-> <<>>, base |-> 0, view |-> NoView]
<1>1. /\ job[t] = Free /\ job' = [job EXCEPT ![t] = new] /\ calls' = calls + 1
      /\ overlapped' = [b \in Branches |-> overlapped[b] \/
                          \E h \in ToSet(queue), u \in Trackers : h.of = b /\ b \in Holds(u)]
      /\ calm' = [calm EXCEPT ![t] = TRUE]
      /\ UNCHANGED <<stores, changes, done>>
  BY DEF Call
<1>2. new \in Jobs /\ Placed(new)
  <2>1. NoView \in Views
    BY BlankType DEF NoView, Views
  <2>2. <<>> \in Seq(Nat) /\ 0 \in Nat
    OBVIOUS
  <2> QED
    BY <2>1, <2>2 DEF Jobs, JobSteps, Measuring, Placed
<1>3. new.queue = queue /\ new.step = step
  OBVIOUS
<1> HIDE DEF new
<1>4. /\ job'[t] = new /\ \A u \in Trackers \ {t} : job'[u] = job[u]
      /\ job' \in [Trackers -> Jobs \cup {Free}]
  BY <1>1, <1>2 DEF MetricsInv, MetricsTypes
<1>5. Rows' = Rows /\ \A b \in Branches : ~ overlapped'[b] => ~ overlapped[b]
  BY <1>1 DEF Rows
<1>6. \A i \in DOMAIN queue : queue[i].of \in Rows /\ queue[i].row = metrics[queue[i].of]
  BY DEF Held
<1>7. MetricsTypes'
  <2>1. ASSUME NEW u \in Trackers, job'[u] # Free
        PROVE  /\ Placed(job'[u])
               /\ \A i \in DOMAIN job'[u].queue : job'[u].queue[i].of \in Rows
               /\ job'[u].step \in {"parent", "pools", "diff", "keep"} => parent[Of(u)'] # NoBranch
    <3>1. CASE u = t
      BY <1>2, <1>3, <1>4, <1>6, <3>1
    <3>2. CASE u # t
      BY <1>4, <2>1, <3>2 DEF MetricsInv, MetricsTypes, Of
    <3> QED
      BY <3>1, <3>2
  <2>2. overlapped' \in [Branches -> BOOLEAN] /\ calm' \in [Trackers -> BOOLEAN]
    BY <1>1 DEF MetricsInv, MetricsTypes
  <2>3. calls' \in Nat
    BY <1>1 DEF MetricsInv, MetricsTypes
  <2> QED
    BY <1>1, <1>4, <1>5, <2>1, <2>2, <2>3 DEF MetricsInv, MetricsTypes
<1>8. HeldByOne'
  <2> SUFFICES ASSUME NEW b \in Branches, ~ overlapped'[b], NEW u \in Trackers, NEW w \in Trackers,
                      b \in Holds(u)', b \in Holds(w)'
               PROVE  u = w
    BY DEF HeldByOne
  <2>1. \A x \in Trackers \ {t} : Holds(x)' = Holds(x)
    BY <1>4 DEF Holds
  <2>2. ASSUME b \in Holds(t)', NEW x \in Trackers PROVE b \notin Holds(x)
    <3>1. \E h \in ToSet(queue) : h.of = b
      BY <1>3, <1>4, <2>2 DEF Holds
    <3> QED
      BY <1>1, <3>1
  <2>3. ~ overlapped[b]
    BY <1>5
  <2> QED
    BY <2>1, <2>2, <2>3 DEF MetricsInv, HeldByOne
<1>9. CountersBacked'
  BY <1>1, <1>5 DEF MetricsInv, CountersBacked
<1>10. ASSUME NEW u \in Trackers PROVE Counters(u)' /\ Fitting(u)' /\ Stored(u)'
  <2>1. CASE u = t
    <3>1. \A i \in DOMAIN queue :
            /\ Backed(queue[i].of, queue[i].row)'
            /\ queue[i].row.written = metrics[queue[i].of].written
      BY <1>1, <1>6 DEF MetricsInv, CountersBacked, Backed, Rows
    <3>2. Counters(u)'
      BY <1>1, <1>3, <1>4, <2>1, <3>1 DEF Counters, Measuring
    <3>3. Fitting(u)'
      BY <1>3, <1>4, <2>1 DEF Fitting, Measuring
    <3>4. Stored(u)'
      BY <1>1, <1>3, <1>4, <1>6, <2>1 DEF Stored
    <3> QED
      BY <3>2, <3>3, <3>4
  <2>2. CASE u # t
    <3>1. job'[u] = job[u] /\ calm'[u] = calm[u]
      BY <1>1, <1>4, <2>2 DEF MetricsInv, MetricsTypes
    <3>2. Counters(u)'
      <4>1. job[u] # Free => \A i \in DOMAIN job[u].queue : job[u].queue[i].of \in Branches
        BY DEF MetricsInv, MetricsTypes, Rows
      <4>2. Of(u)' = Of(u) /\ Counters(u)
        BY <3>1 DEF Of, MetricsInv
      <4> QED
        BY <1>1, <1>5, <3>1, <4>1, <4>2 DEF Counters, Backed
    <3>3. Fitting(u)'
      <4>1. /\ Of(u)' = Of(u) /\ Row(u)' = Row(u) /\ db' = db /\ file' = file
            /\ commits' = commits /\ parent' = parent /\ metrics' = metrics
        BY <1>1, <3>1 DEF Of, Row
      <4>2. Fitting(u)
        BY DEF MetricsInv
      <4> QED
        BY <3>1, <4>1, <4>2 DEF Fitting, Exact
    <3>4. Stored(u)'
      BY <1>1, <3>1, StillStored DEF MetricsInv
    <3> QED
      BY <3>2, <3>3, <3>4
  <2> QED
    BY <2>1, <2>2
<1> QED
  BY <1>7, <1>8, <1>9, <1>10 DEF MetricsInv

LEMMA TrackStep ==
  ASSUME MetricsInv, NEW t \in Trackers, NEW b \in Branches, NEW k \in OpKinds, Track(t, b, k)
  PROVE  MetricsInv'
<1>1. b \in Rows /\ Call(t, "track", k, <<Held(b)>>)
  BY DEF Track
<1>2. Held(b) \in HeldRows
  BY DEF MetricsInv, MetricsTypes, Held, HeldRows
<1> DEFINE queue == <<Held(b)>>
<1>3. /\ queue \in Seq(HeldRows) /\ queue # <<>>
      /\ \A i \in DOMAIN queue : i = 1 /\ queue[i] = Held(b)
  BY <1>2
<1> HIDE DEF queue
<1>4. Call(t, "track", k, queue)
  BY <1>1 DEF queue
<1> QED
  BY <1>1, <1>3, <1>4, CallStep

LEMMA RefreshStep ==
  ASSUME MetricsInv, NEW t \in Trackers, NEW b \in Branches, Refresh(t, b)
  PROVE  MetricsInv'
<1>1. b \in Rows /\ Call(t, "open", "none", <<Held(b)>>)
  BY DEF Refresh
<1>2. Held(b) \in HeldRows
  BY DEF MetricsInv, MetricsTypes, Held, HeldRows
<1> DEFINE queue == <<Held(b)>>
<1>3. /\ queue \in Seq(HeldRows) /\ queue # <<>>
      /\ \A i \in DOMAIN queue : i = 1 /\ queue[i] = Held(b)
  BY <1>2
<1> HIDE DEF queue
<1>4. Call(t, "open", "none", queue)
  BY <1>1 DEF queue
<1> QED
  BY <1>1, <1>3, <1>4, CallStep

LEMMA RefreshAllStep ==
  ASSUME MetricsInv, NEW t \in Trackers, RefreshAll(t)
  PROVE  MetricsInv'
<1> DEFINE S == {Held(b) : b \in Rows}
<1>1. PICK queue \in SetToSeqs(S) : Call(t, "open", "none", queue)
  BY DEF RefreshAll
<1>2. IsFiniteSet(S) /\ S # {}
  <2>1. IsFiniteSet(Rows) /\ Rows # {}
    BY DEF MetricsInv, MetricsTypes
  <2>2. [b \in Rows |-> Held(b)] \in Surjection(Rows, S)
    BY DEF Surjection
  <2>3. IsFiniteSet(S)
    BY <2>1, <2>2, FS_Surjection
  <2> QED
    BY <2>1, <2>3
<1>3. S \in SUBSET HeldRows /\ \A h \in S : \E b \in Rows : h = Held(b)
  BY DEF MetricsInv, MetricsTypes, Held, HeldRows, Rows
<1> HIDE DEF S
<1>4. Cardinality(S) \in Nat \ {0}
  BY <1>2, FS_CardinalityType, FS_EmptySet
<1>5. queue \in [1..Cardinality(S) -> S]
  BY <1>1 DEF SetToSeqs
<1>6. queue \in Seq(HeldRows) /\ DOMAIN queue = 1..Cardinality(S) /\ queue # <<>>
  BY <1>3, <1>4, <1>5
<1>7. \A i \in DOMAIN queue : \E b \in Rows : queue[i] = Held(b)
  BY <1>3, <1>5, <1>6
<1>8. \A i, k \in DOMAIN queue : queue[i] = queue[k] => i = k
  BY <1>1, <1>6 DEF SetToSeqs, IsInjective
<1>9. \A i, k \in DOMAIN queue : queue[i].of = queue[k].of => i = k
  BY <1>7, <1>8 DEF Held
<1> QED
  BY <1>1, <1>6, <1>7, <1>9, CallStep

LEMMA Successor == \A m, n \in Nat : m + 1 = n + 1 => m = n
OBVIOUS

\* A row of the registry is replaced, and its writer goes on with rest.
LEMMA UpdateStep ==
  ASSUME MetricsInv, NEW t \in Trackers, job[t] # Free, NEW row \in MetricsRows,
         NEW rest \in Jobs \cup {Free}, UpdateMetrics(t, row), job' = [job EXCEPT ![t] = rest],
         rest # Free =>
           /\ rest.step = "open" /\ Placed(rest) /\ row.written = Row(t).written
           /\ \A i \in DOMAIN rest.queue :
                i + 1 \in DOMAIN job[t].queue /\ rest.queue[i] = job[t].queue[i + 1],
         done' \in [Branches -> [all : Nat, of : [OpKinds -> Nat]]],
         \A b \in Branches : /\ done[b].all <= done'[b].all
                             /\ \A k \in OpKinds : done[b].of[k] <= done'[b].of[k],
         \A b \in Branches \ {Of(t)} : done'[b] = done[b],
         row.ops <= commits[Of(t)] + done'[Of(t)].all,
         \A k \in OpKinds : row.written[k] <= done'[Of(t)].of[k],
         ~ overlapped[Of(t)] => row.written = done'[Of(t)].of
  PROVE  MetricsInv'
<1>1. /\ metrics' = [metrics EXCEPT ![Of(t)] = row]
      /\ calm' = [u \in Trackers |-> job[u] = Free \/ (calm[u] /\ u \in {t})]
      /\ UNCHANGED <<status, parent, commits, file, db, calls, changes, overlapped>>
      /\ Rows' = Rows
  BY DEF UpdateMetrics, Disturb, Rows
<1>2. /\ job[t] \in Jobs /\ Of(t) \in Branches /\ Of(t) = job[t].queue[1].of
      /\ Row(t) = job[t].queue[1].row /\ 1 \in DOMAIN job[t].queue
  BY AtJob, Busy DEF MetricsInv
<1>3. /\ job'[t] = rest /\ \A u \in Trackers \ {t} : job'[u] = job[u]
      /\ job' \in [Trackers -> Jobs \cup {Free}]
  BY DEF MetricsInv, MetricsTypes
<1>next. rest # Free => \A i \in DOMAIN rest.queue :
                       \E k \in DOMAIN job[t].queue : rest.queue[i] = job[t].queue[k]
  OBVIOUS
<1>4. /\ metrics'[Of(t)] = row /\ \A b \in Branches \ {Of(t)} : metrics'[b] = metrics[b]
      /\ metrics' \in [Branches -> MetricsRows]
  BY <1>1, <1>2 DEF MetricsInv, MetricsTypes
<1>5. MetricsTypes'
  <2>1. ASSUME NEW u \in Trackers, job'[u] # Free
        PROVE  /\ Placed(job'[u])
               /\ \A i \in DOMAIN job'[u].queue : job'[u].queue[i].of \in Rows
               /\ job'[u].step \in {"parent", "pools", "diff", "keep"} => parent[Of(u)'] # NoBranch
    <3>1. CASE u = t
      <4>1. job'[u] = rest /\ rest # Free
        BY <1>3, <2>1, <3>1
      <4>2. \A k \in DOMAIN job[t].queue : job[t].queue[k].of \in Rows
        BY DEF MetricsInv, MetricsTypes
      <4>3. rest.step = "open" /\ Placed(rest)
        BY <4>1
      <4> QED
        BY <1>next, <4>1, <4>2, <4>3
    <3>2. CASE u # t
      BY <1>3, <2>1, <3>2 DEF MetricsInv, MetricsTypes, Of
    <3> QED
      BY <3>1, <3>2
  <2>2. calm' \in [Trackers -> BOOLEAN]
    BY <1>1
  <2> QED
    BY <1>1, <1>3, <1>4, <2>1, <2>2 DEF MetricsInv, MetricsTypes
<1>6. \A u \in Trackers : \A b : b \in Holds(u)' => b \in Holds(u)
  <2> SUFFICES ASSUME NEW u \in Trackers, NEW b, b \in Holds(u)' PROVE b \in Holds(u)
    OBVIOUS
  <2>1. CASE u = t
    <3>1. rest # Free /\ \E i \in DOMAIN rest.queue : rest.queue[i].of = b
      BY <1>3, <2>1 DEF Holds, ToSet
    <3> QED
      BY <1>next, <2>1, <3>1, HoldsRows
  <2>2. CASE u # t
    BY <1>3, <2>2 DEF Holds
  <2> QED
    BY <2>1, <2>2
<1>7. HeldByOne'
  BY <1>1, <1>6 DEF MetricsInv, HeldByOne
<1>8. CountersBacked'
  <2> SUFFICES ASSUME NEW b \in Branches
               PROVE  /\ \A k \in OpKinds : metrics'[b].written[k] <= done'[b].of[k]
                      /\ metrics'[b].ops <= commits[b] + done'[b].all
                      /\ ~ overlapped[b] => metrics'[b].written = done'[b].of
    BY <1>1 DEF CountersBacked
  <2>1. CASE b = Of(t)
    BY <1>4, <2>1
  <2>2. CASE b # Of(t)
    BY <1>4, <2>2 DEF MetricsInv, CountersBacked
  <2> QED
    BY <2>1, <2>2
<1>9. \A b \in Branches : \A r \in MetricsRows : Backed(b, r) => Backed(b, r)'
  <2> SUFFICES ASSUME NEW b \in Branches, NEW r \in MetricsRows, Backed(b, r)
               PROVE  /\ \A k \in OpKinds : r.written[k] <= done'[b].of[k]
                      /\ r.ops <= commits[b] + done'[b].all
    BY <1>1 DEF Backed
  <2>1. /\ r.ops \in Nat /\ commits[b] \in Nat /\ done[b].all \in Nat /\ done'[b].all \in Nat
        /\ r.ops <= commits[b] + done[b].all /\ done[b].all <= done'[b].all
    BY DEF Backed, MetricsInv, MetricsTypes, MetricsRows
  <2>2. ASSUME NEW k \in OpKinds PROVE r.written[k] <= done'[b].of[k]
    <3>1. /\ r.written[k] \in Nat /\ done[b].of[k] \in Nat /\ done'[b].of[k] \in Nat
          /\ r.written[k] <= done[b].of[k] /\ done[b].of[k] <= done'[b].of[k]
      BY DEF Backed, MetricsInv, MetricsTypes, MetricsRows
    <3> QED
      BY <3>1
  <2> QED
    BY <2>1, <2>2
<1>10. ASSUME NEW u \in Trackers PROVE Counters(u)' /\ Fitting(u)' /\ Stored(u)'
  <2>1. ASSUME NEW h, job[u] # Free, NEW i \in DOMAIN job[u].queue, h = job[u].queue[i]
        PROVE  /\ h.of \in Branches /\ h.row \in MetricsRows /\ Backed(h.of, h.row)
               /\ ~ overlapped[h.of] => h.row.written = metrics[h.of].written
               /\ h.of \in Holds(u)
    <3>1. job[u] \in Jobs /\ h \in HeldRows
      BY <2>1, AtJob, Busy DEF MetricsInv
    <3> QED
      BY <2>1, <3>1, HoldsRows DEF MetricsInv, Counters, HeldRows
  <2>2. CASE u = t
    <3>1. CASE rest = Free
      BY <1>3, <2>2, <3>1 DEF Counters, Fitting, Stored
    <3>2. CASE rest # Free
      <4>1. Fitting(u)'
        BY <1>3, <2>2, <3>2 DEF Fitting, Measuring
      <4>2. ASSUME NEW i \in DOMAIN rest.queue
            PROVE  /\ Backed(rest.queue[i].of, rest.queue[i].row)'
                   /\ ~ overlapped[rest.queue[i].of] =>
                        rest.queue[i].row.written = metrics'[rest.queue[i].of].written
        <5>1. PICK k \in DOMAIN job[t].queue : rest.queue[i] = job[t].queue[k]
          BY <1>next, <3>2
        <5>2. PICK h : h = job[t].queue[k]
          OBVIOUS
        <5>3. /\ h.of \in Branches /\ h.row \in MetricsRows /\ Backed(h.of, h.row)
              /\ ~ overlapped[h.of] => h.row.written = metrics[h.of].written
          BY <2>1, <2>2, <5>2
        <5>4. ~ overlapped[Of(t)] => Row(t).written = metrics[Of(t)].written
          <6>1. PICK g : g = job[t].queue[1]
            OBVIOUS
          <6>2. Of(t) = g.of
            BY <1>2, <6>1
          <6>3. Row(t) = g.row
            BY <1>2, <6>1
          <6>4. job[t] # Free
            OBVIOUS
          <6>5. 1 \in DOMAIN job[t].queue
            BY <1>2
          <6>6. ~ overlapped[g.of] => g.row.written = metrics[g.of].written
            BY <2>1, <2>2, <6>1, <6>4, <6>5
          <6> QED
            BY <6>2, <6>3, <6>6
        <5>5. Backed(h.of, h.row)'
          BY <1>9, <5>3
        <5>6. ~ overlapped[h.of] => h.row.written = metrics'[h.of].written
          <6>1. CASE h.of = Of(t)
            BY <1>4, <3>2, <5>3, <5>4, <6>1
          <6>2. CASE h.of # Of(t)
            BY <1>4, <5>3, <6>2
          <6> QED
            BY <6>1, <6>2
        <5> QED
          BY <5>1, <5>2, <5>5, <5>6
      <4>3. Counters(u)'
        BY <1>1, <1>3, <2>2, <3>2, <4>2 DEF Counters, Measuring
      <4>4. Stored(u)'
        <5>1. PICK q : q = job[t].queue
          OBVIOUS
        <5>2. PICK r : r = rest.queue
          OBVIOUS
        <5>3. rest \in Jobs /\ DOMAIN r = 1..Len(r) /\ Len(r) \in Nat
          BY <3>2, <5>2, Busy
        <5>4. \A i \in DOMAIN r : /\ i \in Nat \ {0} /\ i + 1 # 1 /\ i + 1 \in DOMAIN q
                                  /\ r[i] = q[i + 1]
          BY <3>2, <5>1, <5>2, <5>3
        <5>5. \A i, k \in DOMAIN q : q[i].of = q[k].of => i = k
          BY <5>1 DEF MetricsInv, Stored
        <5>6. \A i, k \in DOMAIN r : r[i].of = r[k].of => i = k
          <6> SUFFICES ASSUME NEW i \in DOMAIN r, NEW k \in DOMAIN r, r[i].of = r[k].of
                       PROVE  i = k
            OBVIOUS
          <6>1. i \in Nat /\ k \in Nat
            BY <5>4
          <6>2. PICK m \in DOMAIN q : m = i + 1 /\ r[i] = q[m]
            BY <5>4
          <6>3. PICK n \in DOMAIN q : n = k + 1 /\ r[k] = q[n]
            BY <5>4
          <6>4. q[m].of = q[n].of
            BY <6>2, <6>3
          <6>5. m = n
            BY <5>5, <6>4
          <6> QED
            <7>1. i + 1 = k + 1
              BY <6>2, <6>3, <6>5
            <7> QED
              BY Zenon, <6>1, <7>1, Successor
        <5>7. ASSUME calm[t], NEW i \in DOMAIN r PROVE r[i].row.score = metrics'[r[i].of].score
          <6>1. PICK k \in DOMAIN q : k = i + 1 /\ k # 1 /\ r[i] = q[k]
            BY <5>4
          <6>2. Stored(t)
            BY DEF MetricsInv
          <6>3. q[k].row.score = metrics[q[k].of].score
            BY <5>1, <5>7, <6>1, <6>2 DEF Stored
          <6>4. q[k].of \in Branches
            <7>1. PICK g : g = job[t].queue[k]
              OBVIOUS
            <7>2. g.of \in Branches
              BY <2>1, <2>2, <5>1, <6>1, <7>1
            <7> QED
              BY <5>1, <7>1, <7>2
          <6>5. q[k].of # Of(t)
            BY <1>2, <5>1, <5>5, <6>1
          <6> QED
            BY <1>4, <6>1, <6>3, <6>4, <6>5
        <5>8. calm'[t] => calm[t]
          BY <1>1
        <5> QED
          BY <1>3, <2>2, <5>2, <5>6, <5>7, <5>8 DEF Stored
      <4> QED
        BY <2>2, <4>1, <4>3, <4>4
    <3> QED
      BY <3>1, <3>2
  <2>3. CASE u # t
    <3>1. job'[u] = job[u] /\ (calm'[u] => job[u] = Free)
      BY <1>1, <1>3, <2>3
    <3>2. Fitting(u)'
      BY <3>1 DEF Fitting
    <3>3. ASSUME job[u] # Free, NEW i \in DOMAIN job[u].queue
          PROVE  /\ Backed(job[u].queue[i].of, job[u].queue[i].row)'
                 /\ ~ overlapped[job[u].queue[i].of] =>
                      job[u].queue[i].row.written = metrics'[job[u].queue[i].of].written
      <4>1. PICK h : h = job[u].queue[i]
        OBVIOUS
      <4>2. /\ h.of \in Branches /\ h.row \in MetricsRows /\ Backed(h.of, h.row)
            /\ ~ overlapped[h.of] => h.row.written = metrics[h.of].written
            /\ h.of \in Holds(u)
        BY <2>1, <3>3, <4>1
      <4>3. Of(t) \in Holds(t)
        BY <1>2, HoldsRows
      <4>4. ~ overlapped[h.of] => h.of # Of(t)
        BY <2>3, <4>2, <4>3 DEF MetricsInv, HeldByOne
      <4>5. Backed(h.of, h.row)'
        BY <1>9, <4>2
      <4> QED
        BY <1>4, <3>1, <4>1, <4>2, <4>4, <4>5
    <3>4. Of(u)' = Of(u) /\ Counters(u)
      BY <3>1 DEF Of, MetricsInv
    <3>5. Counters(u)'
      BY <1>1, <3>1, <3>3, <3>4 DEF Counters
    <3>6. Stored(u)'
      BY <3>1 DEF MetricsInv, Stored
    <3> QED
      BY <3>2, <3>5, <3>6
  <2> QED
    BY <2>2, <2>3
<1> QED
  BY <1>5, <1>7, <1>8, <1>10 DEF MetricsInv

LEMMA TrackWriteStep ==
  ASSUME MetricsInv, NEW t \in Trackers, TrackWrite(t), job[t] # Free
  PROVE  MetricsInv'
<1>1. /\ job[t] \in Jobs /\ job[t].kind \in OpKinds /\ Of(t) \in Branches
      /\ Of(t) = job[t].queue[1].of /\ Row(t) = job[t].queue[1].row
      /\ 1 \in DOMAIN job[t].queue /\ Row(t) \in MetricsRows
  BY AtJob, Busy DEF MetricsInv, TrackWrite, At, Placed
<1> DEFINE b   == Of(t)
           old == Row(t)
           k   == job[t].kind
           row == [old EXCEPT !.ops = @ + 1, !.written[k] = @ + 1]
<1>2. /\ UpdateMetrics(t, row) /\ job' = [job EXCEPT ![t] = Free]
      /\ done' = [done EXCEPT ![b].all = @ + 1, ![b].of[k] = @ + 1]
  BY DEF TrackWrite, Quit
<1>3. old \in MetricsRows /\ k \in OpKinds /\ b \in Branches
  BY <1>1
<1>4. /\ Backed(b, old) /\ (~ overlapped[b] => old.written = metrics[b].written)
      /\ done \in [Branches -> [all : Nat, of : [OpKinds -> Nat]]] /\ commits[b] \in Nat
      /\ ~ overlapped[b] => metrics[b].written = done[b].of
  BY <1>1 DEF MetricsInv, MetricsTypes, Counters, CountersBacked
<1> HIDE DEF b, k, old
<1>5. /\ row \in MetricsRows /\ row.ops = old.ops + 1
      /\ row.written = [old.written EXCEPT ![k] = @ + 1]
  <2> DEFINE written == [old.written EXCEPT ![k] = @ + 1]
  <2>1. old.ops + 1 \in Nat /\ written \in [OpKinds -> Nat]
    BY <1>3 DEF MetricsRows
  <2>2. row = [old EXCEPT !.ops = old.ops + 1, !.written = written]
    BY <1>3 DEF MetricsRows
  <2> HIDE DEF row, written
  <2>3. row \in MetricsRows /\ row.ops = old.ops + 1 /\ row.written = written
    BY <1>3, <2>1, <2>2 DEF MetricsRows
  <2> QED
    BY <2>3 DEF written
<1> HIDE DEF row
<1>6. /\ done'[b] = [all |-> done[b].all + 1, of |-> [done[b].of EXCEPT ![k] = @ + 1]]
      /\ \A c \in Branches \ {b} : done'[c] = done[c]
      /\ DOMAIN done' = Branches /\ done' = [c \in Branches |-> done'[c]]
  BY <1>2, <1>3, <1>4
<1>7. done'[b] \in [all : Nat, of : [OpKinds -> Nat]]
  <2>1. done[b].all + 1 \in Nat /\ [done[b].of EXCEPT ![k] = @ + 1] \in [OpKinds -> Nat]
    BY <1>3, <1>4
  <2> QED
    BY <1>6, <2>1
<1>8. done' \in [Branches -> [all : Nat, of : [OpKinds -> Nat]]]
  BY <1>4, <1>6, <1>7
<1>9. /\ done'[b].all = done[b].all + 1 /\ done'[b].of = [done[b].of EXCEPT ![k] = @ + 1]
      /\ done[b].of \in [OpKinds -> Nat] /\ done[b].all \in Nat
  BY <1>3, <1>4, <1>6
<1>10. ASSUME NEW c \in Branches
       PROVE  /\ done[c].all <= done'[c].all
              /\ \A n \in OpKinds : done[c].of[n] <= done'[c].of[n]
  <2>1. CASE c = b
    BY <1>9, <2>1
  <2>2. CASE c # b
    BY <1>4, <1>6, <2>2
  <2> QED
    BY <2>1, <2>2
<1>11. row.ops <= commits[b] + done'[b].all
  BY <1>3, <1>4, <1>5, <1>9 DEF Backed, MetricsRows
<1>12. \A n \in OpKinds : row.written[n] <= done'[b].of[n]
  BY <1>3, <1>4, <1>5, <1>9 DEF Backed, MetricsRows
<1>13. ~ overlapped[b] => row.written = done'[b].of
  BY <1>4, <1>5, <1>9
<1> QED
  BY <1>2, <1>5, <1>6, <1>8, <1>10, <1>11, <1>12, <1>13, UpdateStep DEF b

\* What is written at the end of a measurement.
LEMMA MeasuredRow ==
  ASSUME MetricsTypes, NEW t \in Trackers, job[t] # Free, job[t].step \in Measuring
  PROVE  /\ Measured(t) \in MetricsRows
         /\ Measured(t).ops = job[t].ops /\ Measured(t).counts = job[t].counts
         /\ Measured(t).written = Row(t).written /\ Measured(t).score = Row(t).score
<1>1. job[t] \in Jobs /\ Placed(job[t]) /\ Row(t) \in MetricsRows
  BY AtJob
<1>2. job[t].ops \in Nat /\ job[t].counts \in Seq(Nat)
  BY <1>1 DEF Jobs
<1>3. Len(job[t].counts) = Len(Types)
  BY <1>1 DEF Placed
<1>4. job[t].counts \in [DOMAIN Types -> Nat]
  BY <1>2, <1>3, MetricsAssumption
<1> QED
  BY <1>1, <1>2, <1>4 DEF Measured, MetricsRows

LEMMA WriteBackStep ==
  ASSUME MetricsInv, NEW t \in Trackers, WriteBack(t), job[t] # Free
  PROVE  MetricsInv'
<1>1. /\ job[t] \in Jobs /\ Placed(job[t]) /\ job[t].step \in {"write", "keep"}
      /\ Of(t) \in Branches
      /\ Of(t) = job[t].queue[1].of /\ Row(t) = job[t].queue[1].row /\ Row(t) \in MetricsRows
      /\ job[t].queue \in Seq(HeldRows) /\ Len(job[t].queue) \in Nat \ {0}
      /\ 1 \in DOMAIN job[t].queue
  BY AtJob, Busy DEF MetricsInv, WriteBack, At
<1> DEFINE tail == Tail(job[t].queue)
           rest == IF tail = <<>> THEN Free
                   ELSE [job[t] EXCEPT !.step = "open", !.queue = tail, !.counts = <<>>]
<1>2. UpdateMetrics(t, Measured(t)) /\ done' = done /\ job' = [job EXCEPT ![t] = rest]
  BY DEF WriteBack
<1>3. /\ tail \in Seq(HeldRows)
      /\ \A i \in DOMAIN tail : i + 1 \in DOMAIN job[t].queue /\ tail[i] = job[t].queue[i + 1]
  <2>1. PICK q : q = job[t].queue
    OBVIOUS
  <2>2. q \in Seq(HeldRows) /\ Len(q) \in Nat \ {0}
    BY <1>1, <2>1
  <2>3. Tail(q) \in Seq(HeldRows) /\ Len(Tail(q)) = Len(q) - 1
    BY <2>2
  <2>4. DOMAIN Tail(q) = 1..(Len(q) - 1) /\ DOMAIN q = 1..Len(q)
    BY <2>2, <2>3
  <2>5. \A i \in DOMAIN Tail(q) : i + 1 \in DOMAIN q /\ Tail(q)[i] = q[i + 1]
    BY <2>2, <2>4
  <2> QED
    BY <2>1, <2>3, <2>5
<1> HIDE DEF tail
<1>4. rest \in Jobs \cup {Free}
      /\ (rest # Free =>
            /\ rest.step = "open" /\ Placed(rest)
            /\ \A i \in DOMAIN rest.queue :
                 i + 1 \in DOMAIN job[t].queue /\ rest.queue[i] = job[t].queue[i + 1])
  <2>1. CASE tail = <<>>
    BY <2>1
  <2>2. CASE tail # <<>>
    <3>1. rest = [job[t] EXCEPT !.step = "open", !.queue = tail, !.counts = <<>>]
      BY <2>2
    <3> HIDE DEF rest
    <3>2. /\ rest \in Jobs /\ rest.step = "open" /\ rest.queue = tail
          /\ rest.counts = <<>> /\ rest.view = job[t].view
      <4>1. <<>> \in Seq(Nat) /\ "open" \in JobSteps
        BY DEF JobSteps
      <4>2. tail \in Seq(HeldRows) \ {<<>>}
        BY <1>3, <2>2
      <4> QED
        BY <1>1, <3>1, <4>1, <4>2 DEF Jobs
    <3>3. Placed(rest)
      BY <1>1, <3>2 DEF Placed, Measuring
    <3> QED
      BY <1>3, <3>2, <3>3
  <2> QED
    BY <2>1, <2>2
<1> HIDE DEF rest
<1>5. /\ Measured(t) \in MetricsRows /\ Measured(t).ops = job[t].ops
      /\ Measured(t).written = Row(t).written
  BY <1>1, MeasuredRow DEF MetricsInv, Measuring
<1>6. /\ Backed(Of(t), Row(t)) /\ (~ overlapped[Of(t)] => Row(t).written = metrics[Of(t)].written)
      /\ job[t].ops <= commits[Of(t)] /\ job[t].ops \in Nat
  BY <1>1 DEF MetricsInv, Counters, Measuring, Jobs
<1>7. /\ done \in [Branches -> [all : Nat, of : [OpKinds -> Nat]]] /\ commits[Of(t)] \in Nat
      /\ ~ overlapped[Of(t)] => metrics[Of(t)].written = done[Of(t)].of
  BY <1>1 DEF MetricsInv, MetricsTypes, CountersBacked
<1>8. Measured(t).ops <= commits[Of(t)] + done'[Of(t)].all
  <2>1. done'[Of(t)].all \in Nat
    BY <1>1, <1>2, <1>7
  <2> QED
    BY <1>5, <1>6, <1>7, <2>1
<1>9. \A k \in OpKinds : Measured(t).written[k] <= done'[Of(t)].of[k]
  BY <1>2, <1>5, <1>6 DEF Backed
<1>10. ~ overlapped[Of(t)] => Measured(t).written = done'[Of(t)].of
  BY <1>2, <1>5, <1>6, <1>7
<1>11. /\ done' \in [Branches -> [all : Nat, of : [OpKinds -> Nat]]]
       /\ \A b \in Branches : /\ done[b].all <= done'[b].all
                              /\ \A k \in OpKinds : done[b].of[k] <= done'[b].of[k]
       /\ \A b \in Branches \ {Of(t)} : done'[b] = done[b]
  BY <1>2, <1>7
<1> QED
  BY <1>2, <1>4, <1>5, <1>8, <1>9, <1>10, <1>11, UpdateStep

\* A call goes on, is started, or ends, in any way.
LEMMA TrackerStep ==
  ASSUME MetricsInv, NEW t \in Trackers, Tracker(t)
  PROVE  MetricsInv'
<1>1. ASSUME NEW b \in Branches, Refresh(t, b) PROVE MetricsInv'
  BY <1>1, RefreshStep
<1>2. ASSUME NEW b \in Branches, NEW k \in OpKinds, Track(t, b, k) PROVE MetricsInv'
  BY <1>2, TrackStep
<1>3. CASE RefreshAll(t)
  BY <1>3, RefreshAllStep
<1>4. CASE GiveUp(t)
  BY <1>4, QuitStep DEF GiveUp
<1>5. job[t] = Free => job[t].step = "free"
  BY DEF Free
<1>6. CASE TrackWrite(t)
  BY <1>5, <1>6, TrackWriteStep DEF TrackWrite, At
<1>7. CASE OpenDb(t)
  BY <1>5, <1>7, OpenDbStep DEF OpenDb, At
<1>8. CASE CountTable(t)
  BY <1>5, <1>8, CountTableStep DEF CountTable, At
<1>9. CASE CountCommits(t)
  BY <1>5, <1>9, CountCommitsStep DEF CountCommits, At
<1>10. CASE ReadParent(t)
  BY <1>5, <1>10, ReadParentStep DEF ReadParent, At
<1>11. CASE OpenPools(t)
  BY <1>5, <1>11, OpenPoolsStep DEF OpenPools, At
<1>12. CASE ReadDiff(t)
  BY <1>5, <1>12, ReadDiffStep DEF ReadDiff, At
<1>13. CASE KeepScore(t)
  BY <1>5, <1>13, KeepScoreStep DEF KeepScore
<1>14. CASE WriteBack(t)
  BY <1>5, <1>14, WriteBackStep DEF WriteBack, At
<1> QED
  BY <1>1, <1>2, <1>3, <1>4, <1>6, <1>7, <1>8, <1>9, <1>10, <1>11, <1>12, <1>13, <1>14
  DEF Tracker

-----------------------------------------------------------------------------
(* A refresh that nothing disturbed.                                       *)

Differing(a, b) == {e \in Entities : a[e] # b[e]}

\* Two databases differ where a row was added, removed or modified.
LEMMA DiffersBy ==
  ASSUME NEW a \in Databases, NEW b \in Databases
  PROVE  /\ Differing(a, b) = Added(a, b) \cup Removed(a, b) \cup Modified(a, b)
         /\ IsFiniteSet(Differing(a, b))
         /\ Cardinality(Added(a, b)) \in Nat /\ Cardinality(Removed(a, b)) \in Nat
         /\ Cardinality(Modified(a, b)) \in Nat
         /\ Cardinality(Differing(a, b)) = Cardinality(Added(a, b)) + Cardinality(Removed(a, b))
                                             + Cardinality(Modified(a, b))
<1>1. Differing(a, b) = (Added(a, b) \cup Removed(a, b)) \cup Modified(a, b)
  BY DEF Differing, Added, Removed, Modified
<1>2. /\ Added(a, b) \cap Removed(a, b) = {}
      /\ (Added(a, b) \cup Removed(a, b)) \cap Modified(a, b) = {}
  BY DEF Added, Removed, Modified
<1>3. /\ Added(a, b) \in SUBSET Union(a, b) /\ Removed(a, b) \in SUBSET Union(a, b)
      /\ Modified(a, b) \in SUBSET Union(a, b)
  BY DEF Added, Removed, Modified, Union
<1>4. /\ IsFiniteSet(Added(a, b)) /\ Cardinality(Added(a, b)) \in Nat
      /\ IsFiniteSet(Removed(a, b)) /\ Cardinality(Removed(a, b)) \in Nat
      /\ IsFiniteSet(Modified(a, b)) /\ Cardinality(Modified(a, b)) \in Nat
  BY <1>3, DiffCounted
<1>5. /\ IsFiniteSet(Added(a, b) \cup Removed(a, b))
      /\ Cardinality(Added(a, b) \cup Removed(a, b))
           = Cardinality(Added(a, b)) + Cardinality(Removed(a, b))
               - Cardinality(Added(a, b) \cap Removed(a, b))
  BY <1>4, FS_Union
<1>6. /\ IsFiniteSet(Differing(a, b))
      /\ Cardinality(Differing(a, b))
           = Cardinality(Added(a, b) \cup Removed(a, b)) + Cardinality(Modified(a, b))
               - Cardinality((Added(a, b) \cup Removed(a, b)) \cap Modified(a, b))
  BY <1>1, <1>4, <1>5, FS_Union
<1>7. /\ Cardinality(Added(a, b) \cap Removed(a, b)) = 0
      /\ Cardinality((Added(a, b) \cup Removed(a, b)) \cap Modified(a, b)) = 0
  BY <1>2, FS_EmptySet
<1>8. Cardinality(Differing(a, b)) = Cardinality(Added(a, b)) + Cardinality(Removed(a, b))
                                      + Cardinality(Modified(a, b))
  BY <1>4, <1>5, <1>6, <1>7
<1> QED
  BY <1>1, <1>4, <1>6, <1>8

\* The score that IsScoreOf asks for.
IsShare(score, a, b, base) ==
  LET weight == 2 * Cardinality(Differing(a, b)) - Cardinality(Modified(a, b)) IN
  IF base = 0 THEN score[1] * 2 = score[2] * Min({weight, 2})
  ELSE score[1] * 2 * base = score[2] * Min({weight, 2 * base})

LEMMA ScoreMeasures ==
  ASSUME NEW a \in Databases, NEW b \in Databases, NEW base \in Nat
  PROVE  IsShare(ComputeScore(a, b, base), a, b, base)
<1> DEFINE weight == 2 * Cardinality(Differing(a, b)) - Cardinality(Modified(a, b))
           n      == 2 * (Cardinality(Added(a, b)) + Cardinality(Removed(a, b)))
                       + Cardinality(Modified(a, b))
           d      == 2 * Max({base, 1})
<1>1. PICK score : score = ComputeScore(a, b, base)
  OBVIOUS
<1>2. score = <<Min({n, d}), d>>
  BY <1>1 DEF ComputeScore
<1>3. d = IF base = 0 THEN 2 ELSE 2 * base
  <2>1. Max({base, 1}) = IF base >= 1 THEN base ELSE 1
    BY MinMax
  <2> QED
    BY <2>1
<1>4. n \in Nat /\ weight = n
  BY DiffersBy
<1> HIDE DEF n, d, weight
<1>5. PICK least : least = Min({n, d})
  OBVIOUS
<1>6. d \in Nat
  BY <1>3
<1>7. least \in Nat
  BY <1>4, <1>5, <1>6, MinMax
<1>8. IF base = 0 THEN score[1] * 2 = score[2] * Min({weight, 2})
      ELSE score[1] * 2 * base = score[2] * Min({weight, 2 * base})
  <2>1. CASE base = 0
    BY <1>2, <1>3, <1>4, <1>5, <1>7, <2>1
  <2>2. CASE base # 0
    <3>1. least * 2 * base = (2 * base) * least
      BY <1>7
    <3> QED
      BY <1>2, <1>3, <1>4, <1>5, <2>2, <3>1
  <2> QED
    BY <2>1, <2>2
<1> QED
  BY <1>1, <1>8 DEF weight, IsShare

LEMMA WriteBackExact ==
  ASSUME MetricsInv, NEW t \in Trackers, calm[t], WriteBack(t)
  PROVE  LET b == Of(t) IN
         /\ IsCountOf(metrics'[b], b)
         /\ At(t, "write") => IsScoreOf(metrics'[b].score, b)
         /\ At(t, "keep") => parent[b] # NoBranch /\ metrics'[b].score = metrics[b].score
<1>1. job[t] # Free /\ job[t].step \in {"write", "keep"}
  BY DEF WriteBack, At, Free
<1>2. /\ job[t] \in Jobs /\ Placed(job[t]) /\ Of(t) \in Branches
      /\ Of(t) = job[t].queue[1].of /\ Row(t) = job[t].queue[1].row /\ 1 \in DOMAIN job[t].queue
      /\ Measured(t).ops = job[t].ops /\ Measured(t).counts = job[t].counts
      /\ Measured(t).score = Row(t).score
  BY <1>1, AtJob, Busy, MeasuredRow DEF MetricsInv, Measuring
<1>3. metrics'[Of(t)] = Measured(t)
  BY <1>2 DEF WriteBack, UpdateMetrics, MetricsInv, MetricsTypes
<1>4. Fitting(t) /\ Stored(t)
  BY DEF MetricsInv
<1>5. IsCountOf(metrics'[Of(t)], Of(t))
  <2>1. /\ \A i \in DOMAIN job[t].counts : job[t].counts[i] = Cardinality(Table(db[Of(t)], i))
        /\ job[t].ops = commits[Of(t)]
    BY <1>1, <1>4 DEF Fitting, Measuring
  <2>2. DOMAIN job[t].counts = DOMAIN Types
    BY <1>1, <1>2, MetricsAssumption DEF Jobs, Placed, Measuring
  <2> QED
    BY <1>2, <1>3, <2>1, <2>2 DEF IsCountOf, Table
<1>6. ASSUME At(t, "write") PROVE IsScoreOf(metrics'[Of(t)].score, Of(t))
  <2>1. PICK score : score = Measured(t).score
    OBVIOUS
  <2>2. IF parent[Of(t)] = NoBranch THEN score = <<0, 1>>
        ELSE score = ComputeScore(db[Of(t)], db[parent[Of(t)]],
                                  Total(metrics[parent[Of(t)]].counts))
    BY <1>1, <1>2, <1>4, <1>6, <2>1 DEF Fitting, At
  <2>3. CASE parent[Of(t)] = NoBranch
    BY <1>3, <2>1, <2>2, <2>3 DEF IsScoreOf
  <2>4. CASE parent[Of(t)] # NoBranch
    <3>1. parent[Of(t)] \in Branches
      BY <1>2, <2>4 DEF MetricsInv, MetricsTypes
    <3>2. PICK base : base = Total(metrics[parent[Of(t)]].counts)
      OBVIOUS
    <3>3. base \in Nat
      <4>1. metrics[parent[Of(t)]].counts \in [DOMAIN Types -> Nat]
        BY <3>1 DEF MetricsInv, MetricsTypes, MetricsRows
      <4>2. PICK counts : counts = metrics[parent[Of(t)]].counts
        OBVIOUS
      <4>3. Len(counts) \in Nat /\ \A i \in 1..Len(counts) : counts[i] \in Nat
        BY <4>1, <4>2, MetricsAssumption
      <4> QED
        BY <3>2, <4>2, <4>3, TotalType
    <3>4. PICK a \in Databases : a = db[Of(t)]
      BY <1>2 DEF MetricsInv, MetricsTypes
    <3>5. PICK c \in Databases : c = db[parent[Of(t)]]
      BY <3>1 DEF MetricsInv, MetricsTypes
    <3>6. IsShare(score, a, c, base)
      <4>1. score = ComputeScore(a, c, base)
        BY <2>2, <2>4, <3>2, <3>4, <3>5
      <4> QED
        BY <3>3, <4>1, ScoreMeasures
    <3>7. /\ {e \in Entities : a[e] # c[e]} = Differing(a, c)
          /\ {e \in Differing(a, c) : a[e] # Absent /\ c[e] # Absent} = Modified(a, c)
      BY DEF Differing, Modified
    <3>8. IF base = 0
          THEN score[1] * 2 = score[2] * Min({2 * Cardinality(Differing(a, c))
                                                - Cardinality(Modified(a, c)), 2})
          ELSE score[1] * 2 * base = score[2] * Min({2 * Cardinality(Differing(a, c))
                                                       - Cardinality(Modified(a, c)), 2 * base})
      BY <3>6 DEF IsShare
    <3>9. IsScoreOf(score, Of(t))
      BY <2>4, <3>2, <3>4, <3>5, <3>7, <3>8 DEF IsScoreOf
    <3> QED
      BY <1>3, <2>1, <3>9
  <2> QED
    BY <2>3, <2>4
<1>7. ASSUME At(t, "keep")
      PROVE  parent[Of(t)] # NoBranch /\ metrics'[Of(t)].score = metrics[Of(t)].score
  <2>1. job[t].step = "keep"
    BY <1>7 DEF At
  <2>2. parent[Of(t)] # NoBranch
    BY <1>1, <2>1 DEF MetricsInv, MetricsTypes
  <2>3. Row(t).score = metrics[Of(t)].score
    <3>1. PICK g : g = job[t].queue[1]
      OBVIOUS
    <3>2. g.row.score = metrics[g.of].score
      BY <1>1, <1>2, <1>4, <2>1, <3>1 DEF Stored
    <3> QED
      BY <1>2, <3>1, <3>2
  <2> QED
    BY <1>2, <1>3, <2>2, <2>3
<1> QED
  BY <1>5, <1>6, <1>7

-----------------------------------------------------------------------------
(* The steps of others.                                                    *)

\* A step that no tracker takes: the log and the registry grow, and whoever has a
\* row in its hands either still sees its counters or has been overlapped.
LEMMA OutsideStep ==
  ASSUME MetricsInv, Disturb({}), UNCHANGED <<job, calls, done>>,
         status' \in [Branches -> Statuses], parent' \in [Branches -> Branches \cup {NoBranch}],
         metrics' \in [Branches -> MetricsRows], commits' \in [Branches -> Nat],
         file' \in [Branches -> BOOLEAN], db' \in [Branches -> Databases], changes' \in Nat,
         overlapped' \in [Branches -> BOOLEAN],
         Rows \subseteq Rows', IsFiniteSet(Rows'), \A b \in Rows : parent'[b] = parent[b],
         \A b \in Branches : commits[b] <= commits'[b],
         \A b \in Branches : overlapped[b] => overlapped'[b],
         \A t \in Trackers, b \in Branches :
           b \in Holds(t) /\ ~ overlapped'[b] => metrics'[b].written = metrics[b].written,
         CountersBacked'
  PROVE  MetricsInv'
<1>1. ASSUME NEW t \in Trackers, job[t] # Free
      PROVE  /\ job[t] \in Jobs /\ Of(t)' = Of(t) /\ Of(t) \in Rows /\ Of(t) \in Branches
             /\ parent'[Of(t)] = parent[Of(t)]
  BY <1>1, AtJob DEF MetricsInv, Of
<1>2. calm' = [t \in Trackers |-> job[t] = Free \/ (calm[t] /\ t \in {})]
  BY DEF Disturb
<1>3. MetricsTypes'
  <2>1. ASSUME NEW t \in Trackers, job[t] # Free
        PROVE  /\ Placed(job[t])
               /\ \A i \in DOMAIN job[t].queue : job[t].queue[i].of \in Rows'
               /\ job[t].step \in {"parent", "pools", "diff", "keep"} => parent'[Of(t)'] # NoBranch
    BY <1>1, <2>1 DEF MetricsInv, MetricsTypes
  <2>2. calm' \in [Trackers -> BOOLEAN]
    BY <1>2
  <2>3. calls' \in Nat /\ job' = job /\ done' = done /\ Trunk \in Rows'
    BY DEF MetricsInv, MetricsTypes
  <2> QED
    BY <2>1, <2>2, <2>3 DEF MetricsInv, MetricsTypes
<1>4. \A t \in Trackers : Holds(t)' = Holds(t)
  BY DEF Holds
<1>5. HeldByOne'
  BY <1>4 DEF MetricsInv, HeldByOne
<1>6. ASSUME NEW t \in Trackers PROVE Counters(t)' /\ Fitting(t)' /\ Stored(t)'
  <2>1. calm'[t] => job[t] = Free
    BY <1>2
  <2>2. Fitting(t)'
    BY <2>1 DEF Fitting
  <2>3. Stored(t)'
    BY <2>1 DEF MetricsInv, Stored
  <2>4. CASE job[t] = Free
    BY <2>2, <2>3, <2>4 DEF Counters
  <2>5. CASE job[t] # Free
    <3>1. ASSUME NEW i \in DOMAIN job[t].queue
          PROVE  /\ Backed(job[t].queue[i].of, job[t].queue[i].row)'
                 /\ ~ overlapped'[job[t].queue[i].of] =>
                      job[t].queue[i].row.written = metrics'[job[t].queue[i].of].written
      <4>1. PICK h : h = job[t].queue[i]
        OBVIOUS
      <4>2. h \in HeldRows /\ h.of \in Branches /\ h.row \in MetricsRows /\ h.of \in Holds(t)
        BY <1>1, <2>5, <4>1, Busy, HoldsRows DEF HeldRows
      <4>3. Backed(h.of, h.row) /\ (~ overlapped[h.of] => h.row.written = metrics[h.of].written)
        BY <2>5, <4>1 DEF MetricsInv, Counters
      <4>4. ~ overlapped'[h.of] => h.row.written = metrics'[h.of].written
        BY <4>2, <4>3
      <4>5. /\ \A k \in OpKinds : h.row.written[k] <= done'[h.of].of[k]
            /\ h.row.ops <= commits'[h.of] + done'[h.of].all
        <5>1. /\ h.row.ops \in Nat /\ commits[h.of] \in Nat /\ commits'[h.of] \in Nat
              /\ done[h.of].all \in Nat /\ commits[h.of] <= commits'[h.of]
              /\ h.row.ops <= commits[h.of] + done[h.of].all
          BY <4>2, <4>3 DEF MetricsInv, MetricsTypes, MetricsRows, Backed
        <5> QED
          BY <4>3, <5>1 DEF Backed
      <4>6. Backed(h.of, h.row)'
        BY <4>5 DEF Backed
      <4> QED
        BY <4>1, <4>4, <4>6
    <3>2. job[t].step \in Measuring \ {"commits"} => job[t].ops <= commits'[Of(t)']
      <4>1. job[t].step \in Measuring \ {"commits"} => job[t].ops <= commits[Of(t)]
        BY <2>5 DEF MetricsInv, Counters
      <4>2. /\ job[t].ops \in Nat /\ commits[Of(t)] \in Nat /\ commits'[Of(t)] \in Nat
            /\ commits[Of(t)] <= commits'[Of(t)]
        BY <1>1, <2>5 DEF MetricsInv, MetricsTypes, Jobs
      <4> QED
        BY <1>1, <2>5, <4>1, <4>2
    <3> QED
      BY <2>2, <2>3, <3>1, <3>2 DEF Counters
  <2> QED
    BY <2>4, <2>5
<1> QED
  BY <1>3, <1>5, <1>6 DEF MetricsInv

LEMMA ChangeStep ==
  ASSUME MetricsInv, Change, status' \in [Branches -> Statuses], commits' \in [Branches -> Nat],
         file' \in [Branches -> BOOLEAN], db' \in [Branches -> Databases], Rows' = Rows,
         \A b \in Branches : commits[b] <= commits'[b]
  PROVE  MetricsInv'
<1>1. Disturb({}) /\ UNCHANGED <<parent, metrics, job, calls, done, overlapped>>
  BY DEF Change
<1>2. changes' \in Nat
  BY DEF Change, MetricsInv, MetricsTypes
<1>3. CountersBacked'
  <2> SUFFICES ASSUME NEW b \in Branches PROVE metrics[b].ops <= commits'[b] + done[b].all
    BY <1>1 DEF MetricsInv, CountersBacked
  <2>1. /\ metrics[b].ops \in Nat /\ commits[b] \in Nat /\ commits'[b] \in Nat
        /\ done[b].all \in Nat
    BY DEF MetricsInv, MetricsTypes, MetricsRows
  <2>2. metrics[b].ops <= commits[b] + done[b].all /\ commits[b] <= commits'[b]
    BY DEF MetricsInv, CountersBacked
  <2> QED
    BY <2>1, <2>2
<1> QED
  BY <1>1, <1>2, <1>3, OutsideStep DEF MetricsInv, MetricsTypes

LEMMA WrittenRow ==
  ASSUME db \in [Branches -> Databases], NEW b \in Branches, NEW e \in Entities,
         NEW row \in Contents \cup {Absent}
  PROVE  [db EXCEPT ![b][e] = row] \in [Branches -> Databases]
<1> DEFINE f == [db[b] EXCEPT ![e] = row]
<1>1. f \in [Entities -> Contents \cup {Absent}]
  BY DEF Databases
<1>2. \A x \in Entities : f[x] # Absent => x = e \/ db[b][x] # Absent
  BY DEF Databases
<1> HIDE DEF f
<1>3. f \in Databases
  BY SMTT(30), <1>1, <1>2, DatabaseFrom
<1> QED
  BY <1>3 DEF f

LEMMA OthersStep ==
  ASSUME MetricsInv, Others
  PROVE  MetricsInv'
<1>1. PICK b \in Branches : \/ LogCommit(b) \/ Discard(b) \/ Collect(b)
                            \/ \E e \in Entities, row \in Contents \cup {Absent} : Write(b, e, row)
  BY DEF Others
<1>2. /\ status \in [Branches -> Statuses] /\ commits \in [Branches -> Nat]
      /\ file \in [Branches -> BOOLEAN] /\ db \in [Branches -> Databases]
  BY DEF MetricsInv, MetricsTypes
<1>3. CASE LogCommit(b)
  <2>1. /\ Change /\ commits' = [commits EXCEPT ![b] = @ + 1] /\ UNCHANGED <<status, file, db>>
    BY <1>3 DEF LogCommit
  <2>2. commits' \in [Branches -> Nat] /\ \A c \in Branches : commits[c] <= commits'[c]
    BY <1>2, <2>1
  <2>3. Rows' = Rows
    BY <2>1 DEF Rows
  <2> QED
    BY <1>2, <2>1, <2>2, <2>3, ChangeStep
<1>4. CASE Discard(b)
  <2>1. /\ Change /\ status[b] \in Live /\ status' = [status EXCEPT ![b] = "discarded"]
        /\ UNCHANGED <<commits, file, db>>
    BY <1>4 DEF Discard
  <2>2. status' \in [Branches -> Statuses] /\ Rows' = Rows
    BY <1>2, <2>1 DEF Rows, Live, Statuses
  <2>3. \A c \in Branches : commits[c] <= commits'[c]
    BY <1>2, <2>1
  <2> QED
    BY <1>2, <2>1, <2>2, <2>3, ChangeStep
<1>5. CASE Collect(b)
  <2>1. /\ Change /\ status[b] = "discarded" /\ status' = [status EXCEPT ![b] = "purged"]
        /\ file' = [file EXCEPT ![b] = FALSE] /\ UNCHANGED <<commits, db>>
    BY <1>5 DEF Collect
  <2>2. status' \in [Branches -> Statuses] /\ Rows' = Rows /\ file' \in [Branches -> BOOLEAN]
    BY <1>2, <2>1 DEF Rows, Statuses
  <2>3. \A c \in Branches : commits[c] <= commits'[c]
    BY <1>2, <2>1
  <2> QED
    BY <1>2, <2>1, <2>2, <2>3, ChangeStep
<1>6. ASSUME NEW e \in Entities, NEW row \in Contents \cup {Absent}, Write(b, e, row)
      PROVE  MetricsInv'
  <2>1. Change /\ db' = [db EXCEPT ![b][e] = row] /\ UNCHANGED <<status, commits, file>>
    BY <1>6 DEF Write
  <2>2. db' \in [Branches -> Databases]
    BY <1>2, <2>1, WrittenRow
  <2>3. Rows' = Rows /\ \A c \in Branches : commits[c] <= commits'[c]
    BY <1>2, <2>1 DEF Rows
  <2> QED
    BY <1>2, <2>1, <2>2, <2>3, ChangeStep
<1> QED
  BY <1>1, <1>3, <1>4, <1>5, <1>6

-----------------------------------------------------------------------------
(* The first state.                                                        *)

LEMMA FreshType ==
  ASSUME NEW d \in Databases
  PROVE  Fresh(d) \in MetricsRows /\ Fresh(d).written = [k \in OpKinds |-> 0] /\ Fresh(d).ops = 0
<1>1. [i \in DOMAIN Types |-> Cardinality(Table(d, i))] \in [DOMAIN Types -> Nat]
  BY TableCounted
<1>2. <<0, 1>> \in Scores
  BY DEF Scores
<1> QED
  BY <1>1, <1>2 DEF Fresh, MetricsRows

LEMMA MetricsInit ==
  ASSUME Init
  PROVE  MetricsInv
<1>1. PICK d \in Databases : db = [b \in Branches |-> IF b = Trunk THEN d ELSE Blank]
  BY DEF Init
<1>2. db \in [Branches -> Databases]
  BY <1>1, BlankType
<1>3. /\ metrics \in [Branches -> MetricsRows]
      /\ \A b \in Branches : metrics[b].written = [k \in OpKinds |-> 0] /\ metrics[b].ops = 0
  BY <1>2, FreshType DEF Init
<1>4. Rows = {Trunk} /\ IsFiniteSet(Rows)
  <2>1. Rows = {Trunk}
    BY MetricsAssumption DEF Init, Rows
  <2> QED
    BY <2>1, FS_Singleton
<1>5. \A t \in Trackers : job[t] = Free
  BY DEF Init
<1>6. done \in [Branches -> [all : Nat, of : [OpKinds -> Nat]]]
  BY DEF Init
<1>7. MetricsTypes
  BY <1>2, <1>3, <1>4, <1>5, <1>6 DEF MetricsTypes, Init, Statuses
<1>8. HeldByOne
  BY <1>5 DEF HeldByOne, Holds
<1>9. CountersBacked
  BY <1>3 DEF CountersBacked, Init
<1>10. \A t \in Trackers : Counters(t) /\ Fitting(t) /\ Stored(t)
  BY <1>5 DEF Counters, Fitting, Stored
<1> QED
  BY <1>7, <1>8, <1>9, <1>10 DEF MetricsInv

LEMMA TypesSuffice ==
  ASSUME MetricsTypes
  PROVE  TypeOK
<1>1. \A b \in Branches :
        /\ metrics[b].ops \in Nat /\ metrics[b].score[1] \in 0..metrics[b].score[2]
        /\ metrics[b].written \in [OpKinds -> Nat] /\ metrics[b].counts \in [DOMAIN Types -> Nat]
  BY DEF MetricsTypes, MetricsRows, Scores
<1>2. \A t \in Trackers : job[t] = Free \/ Of(t) \in Rows
  BY AtJob
<1> QED
  BY <1>1, <1>2 DEF MetricsTypes, TypeOK

-----------------------------------------------------------------------------
(* The invariant.                                                          *)

Forked   == {"insert", "measure", "open", "agent", "pools", "diff"}
SimSteps == {"idle", "check", "copy", "over", "teardown"} \cup Forked

Sims ==
  [step : SimSteps, timed : BOOLEAN, on : Branches \cup {NoBranch},
   branch : Branches \cup {NoBranch}, copy : Databases,
   env : {"none", "running", "completed", "failed", "abandoned"}, view : Views,
   report : {"none", "discard", "review", "commit"}]

SandboxTypes ==
  /\ sim \in [Hosts -> Sims]
  /\ simulations \in Nat
  /\ drifted \in [Hosts -> SUBSET Branches]
  /\ since \in [Hosts -> [Entities -> SUBSET (Contents \cup {Absent})]]

\* How far a simulation has come.
Staged(s) ==
  /\ s.step # "idle" => s.on \in Rows
  /\ s.step \in {"idle", "check", "copy"} => s.branch = NoBranch
  /\ s.step \in Forked \cup {"teardown"} => s.branch \in Branches
  /\ s.step = "insert" => s.branch \notin Rows
  /\ s.step \in {"measure", "teardown"} \/ s.env # "none" => s.branch \in Rows
  /\ s.step \in {"open", "agent", "pools", "diff"} => s.env # "none"
  /\ s.step \notin {"over", "teardown"} => s.report = "none"
  /\ s.step \notin {"diff", "over", "teardown"} => s.view = NoView
  /\ s.step = "diff" => s.view.at < 2 * Len(Types)

\* No two hosts have one sandbox.
OwnSandbox ==
  \A g, h \in Hosts : sim[g].branch = sim[h].branch /\ sim[g].branch # NoBranch => g = h

\* What the diff of a simulation has seen so far: as the branches are, where nobody
\* else has written, and as the parent has been since the fork in any case.
Watched(h) ==
  LET s == sim[h] IN
  /\ s.step \in Forked => \A e \in Entities : db[s.on][e] \in since[h][e]
  /\ s.step = "diff" => \A e \in Entities :
       /\ Reached(s.view.at, 0, e) /\ s.branch \notin drifted[h] => s.view.a[e] = db[s.branch][e]
       /\ Reached(s.view.at, 1, e) /\ s.on \notin drifted[h] => s.view.b[e] = db[s.on][e]
       /\ Reached(s.view.at, 1, e) => s.view.b[e] \in since[h][e]

\* The inductive invariant of trackers and simulations together.
SandboxInv ==
  /\ MetricsInv
  /\ SandboxTypes
  /\ OwnSandbox
  /\ \A h \in Hosts : Staged(sim[h]) /\ Watched(h)

-----------------------------------------------------------------------------
(* Steps of a host that change its simulation and nothing else.            *)

LEMMA MetricsStutter ==
  ASSUME MetricsInv, UNCHANGED vars
  PROVE  MetricsInv'
<1>1. UNCHANGED <<status, parent, metrics, commits, file, db, job, calls, changes, done,
                  overlapped, calm>>
  BY DEF vars, stores, registry
<1>2. Rows' = Rows /\ \A t \in Trackers : Of(t)' = Of(t) /\ Row(t)' = Row(t) /\ Holds(t)' = Holds(t)
  BY <1>1 DEF Rows, Of, Row, Holds
<1>3. MetricsTypes' /\ HeldByOne' /\ CountersBacked'
  BY <1>1, <1>2 DEF MetricsInv, MetricsTypes, HeldByOne, CountersBacked
<1>4. ASSUME NEW t \in Trackers PROVE Counters(t)' /\ Fitting(t)' /\ Stored(t)'
  <2>1. Counters(t) /\ Fitting(t)
    BY DEF MetricsInv
  <2>2. Counters(t)'
    BY <1>1, <1>2, <2>1 DEF Counters, Backed
  <2>3. Fitting(t)'
    BY <1>1, <1>2, <2>1 DEF Fitting, Exact
  <2>4. Stored(t)'
    BY <1>1, StillStored DEF MetricsInv
  <2> QED
    BY <2>2, <2>3, <2>4
<1> QED
  BY <1>3, <1>4 DEF MetricsInv

\* One host goes on to another simulation state.
LEMMA SimStep ==
  ASSUME SandboxInv, NEW h \in Hosts, UNCHANGED vars, sim' = [sim EXCEPT ![h] = sim'[h]],
         sim'[h] \in Sims, Staged(sim'[h]), Watched(h)', simulations' \in Nat,
         sim'[h].branch \in {NoBranch, sim[h].branch} \/ sim'[h].branch \notin Used,
         drifted' = [drifted EXCEPT ![h] = drifted'[h]], drifted'[h] \in SUBSET Branches,
         since' = [since EXCEPT ![h] = since'[h]],
         since'[h] \in [Entities -> SUBSET (Contents \cup {Absent})]
  PROVE  SandboxInv'
<1>1. db' = db /\ Rows' = Rows
  BY DEF vars, stores, registry, Rows
<1>2. \A g \in Hosts \ {h} : sim'[g] = sim[g] /\ drifted'[g] = drifted[g] /\ since'[g] = since[g]
  BY DEF SandboxInv, SandboxTypes
<1>3. MetricsInv'
  BY MetricsStutter DEF SandboxInv
<1>4. SandboxTypes'
  BY <1>2 DEF SandboxInv, SandboxTypes
<1>5. OwnSandbox'
  <2> SUFFICES ASSUME NEW f \in Hosts, NEW g \in Hosts, sim'[f].branch = sim'[g].branch,
                      sim'[f].branch # NoBranch
               PROVE  f = g
    BY DEF OwnSandbox
  <2>1. \A x, y \in Hosts : sim[x].branch = sim[y].branch /\ sim[x].branch # NoBranch => x = y
    BY DEF SandboxInv, OwnSandbox
  <2>2. \A x \in Hosts : sim[x].branch \in Used
    BY DEF Used
  <2> QED
    BY <1>2, <2>1, <2>2
<1>6. ASSUME NEW g \in Hosts PROVE Staged(sim[g])' /\ Watched(g)'
  <2>1. CASE g = h
    BY <1>1, <2>1 DEF Staged
  <2>2. CASE g # h
    <3>1. Staged(sim[g]) /\ Watched(g)
      BY DEF SandboxInv
    <3>2. sim'[g] = sim[g] /\ drifted'[g] = drifted[g] /\ since'[g] = since[g]
      BY <1>2, <2>2
    <3> QED
      BY <1>1, <3>1, <3>2 DEF Staged, Watched
  <2> QED
    BY <2>1, <2>2
<1> QED
  BY <1>3, <1>4, <1>5, <1>6 DEF SandboxInv

\* A simulation goes on with the sandbox and the parent it has.
LEMMA Onward ==
  ASSUME SandboxInv, NEW h \in Hosts, UNCHANGED <<vars, simulations, drifted, since>>,
         sim' = [sim EXCEPT ![h] = sim'[h]], sim'[h] \in Sims, Staged(sim'[h]),
         sim'[h].on = sim[h].on, sim'[h].branch = sim[h].branch,
         sim'[h].step \in Forked => sim[h].step \in Forked,
         sim'[h].step = "diff" => sim'[h].view = NoView
  PROVE  SandboxInv'
<1>1. db' = db /\ drifted' = drifted /\ since' = since /\ simulations' = simulations
  BY DEF vars, stores
<1>2. SandboxTypes
  BY DEF SandboxInv
<1>3. \A e : ~ Reached(NoView.at, 0, e) /\ ~ Reached(NoView.at, 1, e)
  BY MetricsAssumption DEF NoView, Reached
<1>4. Watched(h)'
  BY <1>1, <1>3 DEF SandboxInv, Watched
<1> QED
  BY <1>1, <1>2, <1>4, SimStep DEF SandboxTypes

\* Only the step of a simulation changes.
LEMMA StepOnward ==
  ASSUME SandboxInv, NEW h \in Hosts, NEW step \in SimSteps, Step(h, step),
         Staged([sim[h] EXCEPT !.step = step]), step \in Forked => sim[h].step \in Forked,
         step = "diff" => sim[h].view = NoView, UNCHANGED <<vars, simulations, drifted, since>>
  PROVE  SandboxInv'
<1>1. sim[h] \in Sims /\ sim \in [Hosts -> Sims]
  BY DEF SandboxInv, SandboxTypes
<1>2. sim'[h] = [sim[h] EXCEPT !.step = step] /\ sim' = [sim EXCEPT ![h] = sim'[h]]
  BY <1>1 DEF Step
<1>3. /\ sim'[h] \in Sims /\ sim'[h].on = sim[h].on /\ sim'[h].branch = sim[h].branch
      /\ sim'[h].step = step /\ sim'[h].view = sim[h].view
  BY <1>1, <1>2 DEF Sims
<1>4. Staged(sim'[h])
  BY <1>2
<1> QED
  BY <1>2, <1>3, <1>4, Onward

\* A simulation may stop at any step.
LEMMA StagedStep ==
  ASSUME NEW s \in Sims, NEW step
  PROVE  LET n == [s EXCEPT !.step = step] IN
         /\ n.step = step /\ n.on = s.on /\ n.branch = s.branch /\ n.env = s.env
         /\ n.report = s.report /\ n.view = s.view
BY DEF Sims

LEMMA OverStep ==
  ASSUME SandboxInv, NEW h \in Hosts, Running(h), Step(h, "over"),
         UNCHANGED <<vars, simulations, drifted, since>>
  PROVE  SandboxInv'
<1>1. sim[h] \in Sims /\ Staged(sim[h]) /\ sim[h].step # "idle"
  BY DEF SandboxInv, SandboxTypes, Running
<1>2. Staged([sim[h] EXCEPT !.step = "over"])
  BY <1>1, StagedStep DEF Staged, Forked
<1> QED
  BY <1>2, StepOnward DEF SimSteps, Forked

LEMMA CheckParentStep ==
  ASSUME SandboxInv, NEW h \in Hosts, CheckParent(h)
  PROVE  SandboxInv'
<1>1. sim[h] \in Sims /\ Staged(sim[h]) /\ sim[h].step = "check"
  BY DEF SandboxInv, SandboxTypes, CheckParent, In
<1>2. CASE Step(h, "copy")
  <2>1. Staged([sim[h] EXCEPT !.step = "copy"])
    BY <1>1, StagedStep DEF Staged, Forked
  <2> QED
    BY <1>2, <2>1, StepOnward DEF CheckParent, SimSteps, Forked
<1>3. CASE Step(h, "over")
  BY <1>1, <1>3, OverStep DEF CheckParent, Running
<1> QED
  BY <1>2, <1>3 DEF CheckParent

LEMMA OpenSandboxStep ==
  ASSUME SandboxInv, NEW h \in Hosts, OpenSandbox(h)
  PROVE  SandboxInv'
<1>1. sim[h] \in Sims /\ Staged(sim[h]) /\ sim[h].step = "open"
  BY DEF SandboxInv, SandboxTypes, OpenSandbox, In
<1>2. CASE Step(h, "agent")
  <2>1. Staged([sim[h] EXCEPT !.step = "agent"])
    BY <1>1, StagedStep DEF Staged, Forked
  <2> QED
    BY <1>1, <1>2, <2>1, StepOnward DEF OpenSandbox, SimSteps, Forked
<1>3. CASE Step(h, "over")
  BY <1>1, <1>3, OverStep DEF OpenSandbox, Running
<1> QED
  BY <1>2, <1>3 DEF OpenSandbox

LEMMA OpenBothStep ==
  ASSUME SandboxInv, NEW h \in Hosts, OpenBoth(h)
  PROVE  SandboxInv'
<1>1. sim[h] \in Sims /\ Staged(sim[h]) /\ sim[h].step = "pools"
  BY DEF SandboxInv, SandboxTypes, OpenBoth, In
<1>2. CASE Step(h, "diff")
  <2>1. NoView.at < 2 * Len(Types) /\ sim[h].view = NoView
    BY <1>1, MetricsAssumption DEF NoView, Staged
  <2>2. Staged([sim[h] EXCEPT !.step = "diff"])
    BY <1>1, <2>1, StagedStep DEF Staged, Forked
  <2> QED
    BY <1>1, <1>2, <2>1, <2>2, StepOnward DEF OpenBoth, SimSteps, Forked
<1>3. CASE Step(h, "over")
  BY <1>1, <1>3, OverStep DEF OpenBoth, Running
<1> QED
  BY <1>2, <1>3 DEF OpenBoth

LEMMA TeardownReadStep ==
  ASSUME SandboxInv, NEW h \in Hosts, TeardownRead(h)
  PROVE  SandboxInv'
<1>1. sim[h] \in Sims /\ Staged(sim[h]) /\ sim[h].step = "over" /\ sim[h].env # "none"
  BY DEF SandboxInv, SandboxTypes, TeardownRead, In
<1>2. Rows \subseteq Branches
  BY DEF Rows
<1>3. Staged([sim[h] EXCEPT !.step = "teardown"])
  BY <1>1, <1>2, StagedStep DEF Staged, Forked
<1> QED
  BY <1>3, StepOnward DEF TeardownRead, SimSteps, Forked

LEMMA AgentEnds ==
  ASSUME SandboxInv, NEW h \in Hosts, AgentDone(h) \/ AgentFails(h) \/ Timeout(h)
  PROVE  SandboxInv'
<1>1. sim[h] \in Sims /\ Staged(sim[h]) /\ sim[h].step = "agent" /\ sim \in [Hosts -> Sims]
  BY DEF SandboxInv, SandboxTypes, AgentDone, AgentFails, Timeout, In
<1>2. PICK step \in {"pools", "over"}, env \in {"completed", "failed"} :
        sim' = [sim EXCEPT ![h].step = step, ![h].env = env]
  BY DEF AgentDone, AgentFails, Timeout
<1>3. sim'[h] = [sim[h] EXCEPT !.step = step, !.env = env] /\ sim' = [sim EXCEPT ![h] = sim'[h]]
  BY <1>1, <1>2
<1>4. /\ sim'[h] \in Sims /\ sim'[h].on = sim[h].on /\ sim'[h].branch = sim[h].branch
      /\ sim'[h].step = step /\ sim'[h].view = sim[h].view /\ sim'[h].env = env
      /\ sim'[h].report = sim[h].report
  BY <1>1, <1>3 DEF Sims, SimSteps, Forked
<1>5. Staged(sim'[h])
  BY <1>1, <1>4 DEF Staged, Forked
<1>6. UNCHANGED <<vars, simulations, drifted, since>>
  BY DEF AgentDone, AgentFails, Timeout
<1> QED
  BY <1>1, <1>3, <1>4, <1>5, <1>6, Onward DEF Forked

LEMMA BeginStep ==
  ASSUME SandboxInv, NEW h \in Hosts, NEW p \in Branches, NEW timed \in BOOLEAN, Begin(h, p, timed)
  PROVE  SandboxInv'
<1>1. sim \in [Hosts -> Sims] /\ simulations \in Nat /\ p \in Rows
  BY DEF SandboxInv, SandboxTypes, Begin
<1>2. /\ sim'[h] = [NoSim EXCEPT !.step = "check", !.timed = timed, !.on = p]
      /\ sim' = [sim EXCEPT ![h] = sim'[h]]
  BY <1>1 DEF Begin
<1>3. NoView \in Views
  BY BlankType DEF NoView, Views
<1>4. /\ sim'[h] \in Sims /\ sim'[h].on = p /\ sim'[h].branch = NoBranch
      /\ sim'[h].step = "check" /\ sim'[h].view = NoView /\ sim'[h].env = "none"
      /\ sim'[h].report = "none"
  BY <1>2, <1>3, BlankType DEF NoSim, Sims, SimSteps, Forked
<1>5. Staged(sim'[h])
  BY <1>1, <1>4 DEF Staged, Forked
<1>6. Watched(h)'
  BY <1>4 DEF Watched, Forked
<1>7. simulations' \in Nat /\ UNCHANGED <<vars, drifted, since>>
  BY <1>1 DEF Begin
<1> QED
  BY <1>2, <1>4, <1>5, <1>6, <1>7, SimStep DEF SandboxInv, SandboxTypes

LEMMA CopyParentStep ==
  ASSUME SandboxInv, NEW h \in Hosts, CopyParent(h)
  PROVE  SandboxInv'
<1>1. /\ sim[h] \in Sims /\ Staged(sim[h]) /\ sim[h].step = "copy" /\ sim \in [Hosts -> Sims]
      /\ simulations \in Nat /\ drifted \in [Hosts -> SUBSET Branches]
      /\ since \in [Hosts -> [Entities -> SUBSET (Contents \cup {Absent})]]
  BY DEF SandboxInv, SandboxTypes, CopyParent, In
<1>2. sim[h].on \in Rows /\ sim[h].on \in Branches
  BY <1>1 DEF Staged, Rows
<1>3. db[sim[h].on] \in Databases
  BY <1>2 DEF SandboxInv, MetricsInv, MetricsTypes
<1>4. UNCHANGED <<vars, simulations, drifted>>
  BY DEF CopyParent
<1>5. ASSUME NEW b \in Branches \ (Rows \cup Used),
             sim' = [sim EXCEPT ![h].step = "insert", ![h].branch = b, ![h].copy = db[sim[h].on]],
             since' = [since EXCEPT ![h] = [e \in Entities |-> {db[sim[h].on][e]}]]
      PROVE  SandboxInv'
  <2>1. /\ sim'[h] = [sim[h] EXCEPT !.step = "insert", !.branch = b, !.copy = db[sim[h].on]]
        /\ sim' = [sim EXCEPT ![h] = sim'[h]]
    BY <1>1, <1>5
  <2>2. /\ sim'[h] \in Sims /\ sim'[h].on = sim[h].on /\ sim'[h].branch = b
        /\ sim'[h].step = "insert" /\ sim'[h].view = sim[h].view /\ sim'[h].env = sim[h].env
        /\ sim'[h].report = sim[h].report
    BY <1>1, <1>3, <2>1 DEF Sims, SimSteps, Forked
  <2>3. Staged(sim'[h])
    <3>1. NoBranch \notin Rows
      BY MetricsAssumption DEF Rows
    <3>2. sim[h].env = "none"
      BY <1>1, <3>1 DEF Staged
    <3> QED
      BY <1>1, <1>2, <1>5, <2>2, <3>2 DEF Staged, Forked
  <2>4. /\ since'[h] = [e \in Entities |-> {db[sim[h].on][e]}]
        /\ since' = [since EXCEPT ![h] = since'[h]]
    BY <1>1, <1>5
  <2>5. since'[h] \in [Entities -> SUBSET (Contents \cup {Absent})]
    BY <1>3, <2>4 DEF Databases
  <2>6. Watched(h)'
    <3>1. db' = db
      BY <1>4 DEF vars, stores
    <3> QED
      BY <2>2, <2>4, <3>1 DEF Watched
  <2> QED
    BY ZenonT(30), <1>1, <1>4, <1>5, <2>1, <2>2, <2>3, <2>4, <2>5, <2>6, SimStep
<1>6. CASE Step(h, "over") /\ UNCHANGED since
  BY <1>1, <1>4, <1>6, OverStep DEF Running
<1> QED
  BY <1>5, <1>6 DEF CopyParent

LEMMA ForgetStep ==
  ASSUME SandboxInv, NEW h \in Hosts, Forget(h)
  PROVE  SandboxInv'
<1>1. /\ sim \in [Hosts -> Sims] /\ simulations \in Nat /\ drifted \in [Hosts -> SUBSET Branches]
      /\ since \in [Hosts -> [Entities -> SUBSET (Contents \cup {Absent})]]
  BY DEF SandboxInv, SandboxTypes
<1>2. /\ sim'[h] = NoSim /\ sim' = [sim EXCEPT ![h] = sim'[h]]
      /\ drifted'[h] = {} /\ drifted' = [drifted EXCEPT ![h] = drifted'[h]]
      /\ since'[h] = [e \in Entities |-> {}] /\ since' = [since EXCEPT ![h] = since'[h]]
      /\ UNCHANGED <<vars, simulations>>
  BY <1>1 DEF Forget
<1>3. NoView \in Views
  BY BlankType DEF NoView, Views
<1>4. /\ NoSim \in Sims /\ NoSim.branch = NoBranch /\ NoSim.step = "idle" /\ NoSim.view = NoView
      /\ NoSim.env = "none" /\ NoSim.report = "none"
  BY <1>3, BlankType DEF NoSim, Sims, SimSteps, Forked
<1>5. Staged(sim'[h])
  BY <1>2, <1>4 DEF Staged, Forked
<1>6. Watched(h)'
  BY <1>2, <1>4 DEF Watched, Forked
<1> QED
  BY <1>1, <1>2, <1>4, <1>5, <1>6, SimStep

-----------------------------------------------------------------------------
(* The evaluation.                                                         *)

\* What is there when a simulation is about to read the next table of its diff.
LEMMA AtDiff ==
  ASSUME SandboxInv, NEW h \in Hosts, sim[h].step = "diff"
  PROVE  /\ sim[h] \in Sims /\ Staged(sim[h]) /\ Watched(h)
         /\ sim[h].view \in Views /\ sim[h].view.at < 2 * Len(Types)
         /\ sim[h].on \in Rows /\ sim[h].on \in Branches /\ sim[h].branch \in Branches
         /\ db[sim[h].on] \in Databases /\ db[sim[h].branch] \in Databases
         /\ sim[h].report = "none"
<1>1. sim[h] \in Sims /\ Staged(sim[h]) /\ Watched(h)
  BY DEF SandboxInv, SandboxTypes
<1>2. /\ sim[h].view \in Views /\ sim[h].view.at < 2 * Len(Types) /\ sim[h].report = "none"
      /\ sim[h].on \in Rows /\ sim[h].on \in Branches /\ sim[h].branch \in Branches
  BY <1>1 DEF Staged, Forked, Sims, Rows
<1> QED
  BY <1>1, <1>2 DEF SandboxInv, MetricsInv, MetricsTypes

\* One more query keeps the view as close to the branches as it was.
LEMMA SeenWatched ==
  ASSUME SandboxInv, NEW h \in Hosts, sim[h].step = "diff",
         NEW view, view = Seen(sim[h].view, sim[h].branch, sim[h].on)
  PROVE  \A e \in Entities :
           /\ Reached(view.at, 0, e) /\ sim[h].branch \notin drifted[h] =>
                view.a[e] = db[sim[h].branch][e]
           /\ Reached(view.at, 1, e) /\ sim[h].on \notin drifted[h] =>
                view.b[e] = db[sim[h].on][e]
           /\ Reached(view.at, 1, e) => view.b[e] \in since[h][e]
<1>1. /\ Watched(h) /\ sim[h].view \in Views /\ sim[h].view.at < 2 * Len(Types)
      /\ db[sim[h].on] \in Databases /\ db[sim[h].branch] \in Databases
  BY AtDiff
<1>2. PICK s : s = sim[h]
  OBVIOUS
<1>3. /\ view.at = s.view.at + 1
      /\ \A e \in Entities :
           /\ Reached(s.view.at + 1, 0, e) =>
                \/ view.a[e] = db[s.branch][e]
                \/ Reached(s.view.at, 0, e) /\ view.a[e] = s.view.a[e]
           /\ Reached(s.view.at + 1, 1, e) =>
                \/ view.b[e] = db[s.on][e]
                \/ Reached(s.view.at, 1, e) /\ view.b[e] = s.view.b[e]
  BY <1>1, <1>2, SeenMore
<1>4. \A e \in Entities :
        /\ db[s.on][e] \in since[h][e]
        /\ Reached(s.view.at, 0, e) /\ s.branch \notin drifted[h] => s.view.a[e] = db[s.branch][e]
        /\ Reached(s.view.at, 1, e) /\ s.on \notin drifted[h] => s.view.b[e] = db[s.on][e]
        /\ Reached(s.view.at, 1, e) => s.view.b[e] \in since[h][e]
  BY <1>1, <1>2 DEF Watched, Forked
<1> QED
  BY <1>2, <1>3, <1>4

LEMMA EvaluateStep ==
  ASSUME SandboxInv, NEW h \in Hosts, Evaluate(h)
  PROVE  SandboxInv'
<1>1. sim[h].step = "diff" /\ sim \in [Hosts -> Sims]
  BY DEF Evaluate, In, SandboxInv, SandboxTypes
<1>2. /\ sim[h] \in Sims /\ Staged(sim[h]) /\ sim[h].view \in Views
      /\ sim[h].view.at < 2 * Len(Types)
      /\ db[sim[h].on] \in Databases /\ db[sim[h].branch] \in Databases
  BY <1>1, AtDiff
<1>3. PICK view : view = Seen(sim[h].view, sim[h].branch, sim[h].on)
  OBVIOUS
<1>4. view \in Views /\ view.at = sim[h].view.at + 1
  BY <1>2, <1>3, SeenMore
<1>5. UNCHANGED <<vars, simulations, drifted, since>>
  BY DEF Evaluate
<1>6. CASE Complete(view)
  <2>1. PICK report : report = Recommend(view.a, view.b)
    OBVIOUS
  <2>2. report \in {"discard", "review", "commit"}
    BY <2>1 DEF Recommend
  <2>3. sim' = [sim EXCEPT ![h].view = NoView, ![h].step = "over", ![h].report = report]
    BY <1>3, <1>6, <2>1 DEF Evaluate
  <2>4. /\ sim'[h] = [sim[h] EXCEPT !.view = NoView, !.step = "over", !.report = report]
        /\ sim' = [sim EXCEPT ![h] = sim'[h]]
    BY <1>1, <2>3
  <2>5. NoView \in Views
    BY BlankType DEF NoView, Views
  <2>6. /\ sim'[h] \in Sims /\ sim'[h].on = sim[h].on /\ sim'[h].branch = sim[h].branch
        /\ sim'[h].step = "over" /\ sim'[h].env = sim[h].env
    BY <1>2, <2>2, <2>4, <2>5 DEF Sims, SimSteps
  <2>7. Staged(sim'[h])
    BY <1>1, <1>2, <2>6 DEF Staged, Forked
  <2> QED
    BY <1>5, <2>4, <2>6, <2>7, Onward DEF Forked
<1>7. CASE ~ Complete(view)
  <2>1. sim' = [sim EXCEPT ![h].view = view]
    BY <1>3, <1>7 DEF Evaluate
  <2>2. sim'[h] = [sim[h] EXCEPT !.view = view] /\ sim' = [sim EXCEPT ![h] = sim'[h]]
    BY <1>1, <2>1
  <2>3. /\ sim'[h] \in Sims /\ sim'[h].on = sim[h].on /\ sim'[h].branch = sim[h].branch
        /\ sim'[h].step = "diff" /\ sim'[h].env = sim[h].env /\ sim'[h].view = view
        /\ sim'[h].report = sim[h].report
    BY <1>1, <1>2, <1>4, <2>2 DEF Sims
  <2>4. view.at < 2 * Len(Types)
    <3>1. view.at # 2 * Len(Types)
      BY <1>7 DEF Complete
    <3>2. sim[h].view.at \in Nat /\ Len(Types) \in Nat
      BY <1>2, MetricsAssumption DEF Views
    <3> QED
      BY <1>2, <1>4, <3>1, <3>2
  <2>5. Staged(sim'[h])
    BY <1>1, <1>2, <2>3, <2>4 DEF Staged, Forked
  <2>6. Watched(h)'
    <3>1. db' = db /\ drifted' = drifted /\ since' = since
      BY <1>5 DEF vars, stores
    <3>2. \A e \in Entities : db[sim[h].on][e] \in since[h][e]
      BY <1>1, AtDiff DEF Watched, Forked
    <3>3. \A e \in Entities :
            /\ Reached(view.at, 0, e) /\ sim[h].branch \notin drifted[h] =>
                 view.a[e] = db[sim[h].branch][e]
            /\ Reached(view.at, 1, e) /\ sim[h].on \notin drifted[h] =>
                 view.b[e] = db[sim[h].on][e]
            /\ Reached(view.at, 1, e) => view.b[e] \in since[h][e]
      BY <1>1, <1>3, SeenWatched
    <3> QED
      BY <2>3, <3>1, <3>2, <3>3 DEF Watched
  <2>7. /\ drifted'[h] \in SUBSET Branches /\ simulations' \in Nat
        /\ since'[h] \in [Entities -> SUBSET (Contents \cup {Absent})]
        /\ drifted' = [drifted EXCEPT ![h] = drifted'[h]]
        /\ since' = [since EXCEPT ![h] = since'[h]]
    BY <1>5 DEF SandboxInv, SandboxTypes
  <2> QED
    BY <1>5, <2>2, <2>3, <2>5, <2>6, <2>7, SimStep
<1> QED
  BY <1>6, <1>7

-----------------------------------------------------------------------------
(* Steps of a host that change the registry.                               *)

LEMMA InsertSandboxStep ==
  ASSUME SandboxInv, NEW h \in Hosts, InsertSandbox(h)
  PROVE  SandboxInv'
<1>1. /\ sim[h] \in Sims /\ Staged(sim[h]) /\ sim[h].step = "insert" /\ sim \in [Hosts -> Sims]
      /\ Watched(h) /\ MetricsInv
  BY DEF SandboxInv, SandboxTypes, InsertSandbox, In
<1>2. PICK b \in Branches : b = sim[h].branch /\ b \notin Rows
  BY <1>1 DEF Staged, Forked
<1>3. PICK p \in Branches : p = sim[h].on /\ p \in Rows
  BY <1>1 DEF Staged, Rows
<1>4. /\ status' = [status EXCEPT ![b] = "active"] /\ parent' = [parent EXCEPT ![b] = p]
      /\ file' = [file EXCEPT ![b] = TRUE] /\ db' = [db EXCEPT ![b] = sim[h].copy]
      /\ Disturb({}) /\ Step(h, "measure")
      /\ UNCHANGED <<metrics, commits, job, calls, changes, done, overlapped,
                     simulations, drifted, since>>
  BY <1>2, <1>3 DEF InsertSandbox
<1>5. /\ status \in [Branches -> Statuses] /\ parent \in [Branches -> Branches \cup {NoBranch}]
      /\ file \in [Branches -> BOOLEAN] /\ db \in [Branches -> Databases]
      /\ commits \in [Branches -> Nat] /\ sim[h].copy \in Databases
      /\ IsFiniteSet(Rows) /\ Rows \subseteq Branches
  BY <1>1 DEF MetricsInv, MetricsTypes, Sims, Rows
<1>6. /\ status' \in [Branches -> Statuses] /\ parent' \in [Branches -> Branches \cup {NoBranch}]
      /\ file' \in [Branches -> BOOLEAN] /\ db' \in [Branches -> Databases]
      /\ \A c \in Branches \ {b} : /\ status'[c] = status[c] /\ parent'[c] = parent[c]
                                   /\ db'[c] = db[c]
  BY <1>4, <1>5 DEF Statuses
<1>7. Rows' = Rows \cup {b}
  BY <1>2, <1>4, <1>5 DEF Rows
<1>8. IsFiniteSet(Rows')
  BY <1>5, <1>7, FS_AddElement
<1>9. MetricsInv'
  <2>1. CountersBacked'
    BY <1>1, <1>4 DEF MetricsInv, CountersBacked
  <2>2. \A c \in Rows : parent'[c] = parent[c]
    BY <1>2, <1>5, <1>6
  <2>3. /\ metrics' \in [Branches -> MetricsRows] /\ commits' \in [Branches -> Nat]
        /\ changes' \in Nat /\ overlapped' \in [Branches -> BOOLEAN]
        /\ \A c \in Branches : commits[c] <= commits'[c]
    BY <1>1, <1>4, <1>5 DEF MetricsInv, MetricsTypes
  <2> QED
    BY <1>1, <1>4, <1>6, <1>7, <1>8, <2>1, <2>2, <2>3, OutsideStep
<1>10. /\ sim'[h] = [sim[h] EXCEPT !.step = "measure"]
       /\ \A g \in Hosts \ {h} : sim'[g] = sim[g] /\ DOMAIN sim' = Hosts
       /\ sim' = [g \in Hosts |-> sim'[g]]
  BY <1>1, <1>4 DEF Step
<1>11. /\ sim'[h] \in Sims /\ sim'[h].on = p /\ sim'[h].branch = b /\ sim'[h].step = "measure"
       /\ sim'[h].view = sim[h].view /\ sim'[h].env = sim[h].env
       /\ sim'[h].report = sim[h].report
  BY <1>1, <1>2, <1>3, <1>10 DEF Sims, SimSteps, Forked
<1>12. SandboxTypes'
  <2>1. sim' \in [Hosts -> Sims]
    BY <1>1, <1>10, <1>11
  <2> QED
    BY <1>4, <2>1 DEF SandboxInv, SandboxTypes
<1>13. OwnSandbox'
  <2>1. \A g \in Hosts : sim'[g].branch = sim[g].branch
    BY <1>2, <1>10, <1>11
  <2> QED
    BY <2>1 DEF SandboxInv, OwnSandbox
<1>14. ASSUME NEW g \in Hosts PROVE Staged(sim[g])' /\ Watched(g)'
  <2>1. CASE g = h
    <3>1. Staged(sim[h])'
      BY <1>1, <1>3, <1>7, <1>11 DEF Staged, Forked
    <3>2. Watched(h)'
      BY <1>1, <1>2, <1>3, <1>4, <1>6, <1>11 DEF Watched, Forked
    <3> QED
      BY <2>1, <3>1, <3>2
  <2>2. CASE g # h
    <3>1. /\ Staged(sim[g]) /\ Watched(g) /\ sim'[g] = sim[g] /\ sim[g].branch # b
          /\ sim[g] \in Sims
      BY <1>1, <1>2, <1>10, <2>2, MetricsAssumption DEF SandboxInv, OwnSandbox
    <3>2. Staged(sim[g])'
      BY <1>7, <3>1 DEF Staged
    <3>3. sim[g].step # "idle" => db'[sim[g].on] = db[sim[g].on]
      BY <1>2, <1>5, <1>6, <3>1 DEF Staged
    <3>4. sim[g].step = "diff" => db'[sim[g].branch] = db[sim[g].branch]
      BY <1>6, <3>1 DEF Staged, Forked
    <3>5. Watched(g)'
      BY <1>4, <3>1, <3>3, <3>4 DEF Watched, Forked
    <3> QED
      BY <3>2, <3>5
  <2> QED
    BY <2>1, <2>2
<1> QED
  BY <1>9, <1>12, <1>13, <1>14 DEF SandboxInv

\* A step of a host that leaves the set of rows, the databases and the histories.
LEMMA RegistryStep ==
  ASSUME SandboxInv, MetricsInv', NEW h \in Hosts, UNCHANGED <<db, simulations, drifted, since>>,
         Rows' = Rows, sim' = [sim EXCEPT ![h] = sim'[h]], sim'[h] \in Sims, Staged(sim'[h]),
         sim'[h].on = sim[h].on, sim'[h].branch = sim[h].branch, sim'[h].step # "diff",
         sim'[h].step \in Forked => sim[h].step \in Forked
  PROVE  SandboxInv'
<1>1. \A g \in Hosts \ {h} : sim'[g] = sim[g]
  BY DEF SandboxInv, SandboxTypes
<1>2. SandboxTypes'
  BY <1>1 DEF SandboxInv, SandboxTypes
<1>3. OwnSandbox'
  BY <1>1 DEF SandboxInv, OwnSandbox
<1>4. ASSUME NEW g \in Hosts PROVE Staged(sim[g])' /\ Watched(g)'
  <2>1. Staged(sim[g]) /\ Watched(g)
    BY DEF SandboxInv
  <2>2. CASE g = h
    BY <2>1, <2>2 DEF Staged, Watched
  <2>3. CASE g # h
    BY <1>1, <2>1, <2>3 DEF Staged, Watched
  <2> QED
    BY <2>2, <2>3
<1> QED
  BY <1>2, <1>3, <1>4 DEF SandboxInv

LEMMA InsertMetricsStep ==
  ASSUME SandboxInv, NEW h \in Hosts, InsertMetrics(h)
  PROVE  SandboxInv'
<1>1. /\ sim[h] \in Sims /\ Staged(sim[h]) /\ sim[h].step = "measure" /\ sim \in [Hosts -> Sims]
      /\ MetricsInv
  BY DEF SandboxInv, SandboxTypes, InsertMetrics, In
<1>2. PICK b \in Branches : b = sim[h].branch /\ b \in Rows
  BY <1>1 DEF Staged, Forked
<1>3. PICK row : row = Fresh(sim[h].copy)
  OBVIOUS
<1>4. /\ metrics' = [metrics EXCEPT ![b] = row]
      /\ overlapped' = [overlapped EXCEPT ![b] = @ \/ metrics[b] # NoMetrics
                                                  \/ \E t \in Trackers : b \in Holds(t)]
      /\ Disturb({})
      /\ sim' = [sim EXCEPT ![h].step = "open", ![h].env = "running", ![h].copy = Blank]
      /\ UNCHANGED <<status, parent, commits, file, db, job, calls, changes, done,
                     simulations, drifted, since>>
  BY <1>2, <1>3 DEF InsertMetrics
<1>5. row \in MetricsRows /\ row.written = [k \in OpKinds |-> 0] /\ row.ops = 0
  BY <1>1, <1>3, FreshType DEF Sims
<1>6. NoMetrics.written = [k \in OpKinds |-> 0]
  BY DEF NoMetrics, Fresh
<1>7. /\ metrics \in [Branches -> MetricsRows] /\ overlapped \in [Branches -> BOOLEAN]
      /\ done \in [Branches -> [all : Nat, of : [OpKinds -> Nat]]]
      /\ commits \in [Branches -> Nat]
  BY <1>1 DEF MetricsInv, MetricsTypes
<1>8. /\ metrics' \in [Branches -> MetricsRows] /\ metrics'[b] = row
      /\ \A c \in Branches \ {b} : metrics'[c] = metrics[c] /\ overlapped'[c] = overlapped[c]
  BY <1>4, <1>5, <1>7
<1>9. /\ overlapped' \in [Branches -> BOOLEAN] /\ (overlapped[b] => overlapped'[b])
      /\ ~ overlapped'[b] => /\ ~ overlapped[b] /\ metrics[b] = NoMetrics
                             /\ \A t \in Trackers : b \notin Holds(t)
  <2>1. overlapped'[b] = (overlapped[b] \/ metrics[b] # NoMetrics
                            \/ \E t \in Trackers : b \in Holds(t))
    BY <1>4, <1>7
  <2>2. overlapped'[b] \in BOOLEAN
    BY <2>1
  <2> QED
    BY <1>4, <1>7, <2>1, <2>2
<1>10. Rows' = Rows
  BY <1>4 DEF Rows
<1>11. CountersBacked'
  <2> SUFFICES ASSUME NEW c \in Branches
               PROVE  /\ \A k \in OpKinds : metrics'[c].written[k] <= done[c].of[k]
                      /\ metrics'[c].ops <= commits[c] + done[c].all
                      /\ ~ overlapped'[c] => metrics'[c].written = done[c].of
    BY <1>4 DEF CountersBacked
  <2>1. CASE c = b
    <3>1. /\ done[b].of \in [OpKinds -> Nat] /\ done[b].all \in Nat /\ commits[b] \in Nat
      BY <1>7
    <3>2. \A k \in OpKinds : metrics'[b].written[k] <= done[b].of[k]
      BY <1>5, <1>8, <3>1
    <3>3. metrics'[b].ops <= commits[b] + done[b].all
      BY <1>5, <1>8, <3>1
    <3>4. ~ overlapped'[b] => metrics'[b].written = done[b].of
      BY <1>1, <1>5, <1>6, <1>8, <1>9 DEF MetricsInv, CountersBacked
    <3> QED
      BY <2>1, <3>2, <3>3, <3>4
  <2>2. CASE c # b
    BY <1>1, <1>8, <2>2 DEF MetricsInv, CountersBacked
  <2> QED
    BY <2>1, <2>2
<1>12. MetricsInv'
  <2>1. \A t \in Trackers, c \in Branches :
          c \in Holds(t) /\ ~ overlapped'[c] => metrics'[c].written = metrics[c].written
    BY <1>8, <1>9
  <2>2. \A c \in Branches : overlapped[c] => overlapped'[c]
    BY <1>8, <1>9
  <2>3. /\ \A c \in Branches : commits[c] <= commits'[c]
        /\ status' \in [Branches -> Statuses] /\ parent' \in [Branches -> Branches \cup {NoBranch}]
        /\ commits' \in [Branches -> Nat] /\ file' \in [Branches -> BOOLEAN]
        /\ db' \in [Branches -> Databases] /\ changes' \in Nat /\ IsFiniteSet(Rows')
        /\ \A c \in Rows : parent'[c] = parent[c]
    BY <1>1, <1>4, <1>7, <1>10 DEF MetricsInv, MetricsTypes
  <2> QED
    BY <1>1, <1>4, <1>8, <1>9, <1>10, <1>11, <2>1, <2>2, <2>3, OutsideStep
<1>13. /\ sim'[h] = [sim[h] EXCEPT !.step = "open", !.env = "running", !.copy = Blank]
       /\ sim' = [sim EXCEPT ![h] = sim'[h]]
  BY <1>1, <1>4
<1>14. /\ sim'[h] \in Sims /\ sim'[h].on = sim[h].on /\ sim'[h].branch = sim[h].branch
       /\ sim'[h].step = "open" /\ sim'[h].view = sim[h].view /\ sim'[h].env = "running"
       /\ sim'[h].report = sim[h].report
  BY <1>1, <1>13, BlankType DEF Sims, SimSteps, Forked
<1>15. Staged(sim'[h])
  BY <1>1, <1>2, <1>14 DEF Staged, Forked
<1> QED
  BY <1>1, <1>4, <1>10, <1>12, <1>13, <1>14, <1>15, RegistryStep DEF Forked

LEMMA TeardownWriteStep ==
  ASSUME SandboxInv, NEW h \in Hosts, TeardownWrite(h)
  PROVE  SandboxInv'
<1>1. /\ sim[h] \in Sims /\ Staged(sim[h]) /\ sim[h].step = "teardown" /\ sim \in [Hosts -> Sims]
      /\ MetricsInv
  BY DEF SandboxInv, SandboxTypes, TeardownWrite, In
<1>2. PICK b \in Branches : b = sim[h].branch /\ b \in Rows
  BY <1>1 DEF Staged, Forked
<1>3. /\ status' = [status EXCEPT ![b] = "discarded"] /\ Disturb({})
      /\ sim' = [sim EXCEPT ![h].step = "over", ![h].env = "abandoned"]
      /\ UNCHANGED <<parent, metrics, commits, file, db, job, calls, changes, done, overlapped,
                     simulations, drifted, since>>
  BY <1>2 DEF TeardownWrite
<1>4. status \in [Branches -> Statuses]
  BY <1>1 DEF MetricsInv, MetricsTypes
<1>5. status' \in [Branches -> Statuses] /\ Rows' = Rows
  BY <1>2, <1>3, <1>4 DEF Rows, Statuses
<1>6. MetricsInv'
  <2>1. CountersBacked'
    BY <1>1, <1>3 DEF MetricsInv, CountersBacked
  <2>2. \A c \in Branches : commits[c] <= commits'[c]
    BY <1>1, <1>3 DEF MetricsInv, MetricsTypes
  <2>3. /\ parent' \in [Branches -> Branches \cup {NoBranch}]
        /\ metrics' \in [Branches -> MetricsRows] /\ commits' \in [Branches -> Nat]
        /\ file' \in [Branches -> BOOLEAN] /\ db' \in [Branches -> Databases]
        /\ changes' \in Nat /\ overlapped' \in [Branches -> BOOLEAN] /\ IsFiniteSet(Rows')
    BY <1>1, <1>3, <1>5 DEF MetricsInv, MetricsTypes
  <2> QED
    BY <1>1, <1>3, <1>5, <2>1, <2>2, <2>3, OutsideStep
<1>7. /\ sim'[h] = [sim[h] EXCEPT !.step = "over", !.env = "abandoned"]
      /\ sim' = [sim EXCEPT ![h] = sim'[h]]
  BY <1>1, <1>3
<1>8. /\ sim'[h] \in Sims /\ sim'[h].on = sim[h].on /\ sim'[h].branch = sim[h].branch
      /\ sim'[h].step = "over" /\ sim'[h].view = sim[h].view
  BY <1>1, <1>7 DEF Sims, SimSteps
<1>9. Staged(sim'[h])
  BY <1>1, <1>2, <1>8 DEF Staged, Forked
<1> QED
  BY <1>3, <1>5, <1>6, <1>7, <1>8, <1>9, RegistryStep DEF Forked

-----------------------------------------------------------------------------
(* Writes to the databases, of agents and of others.                       *)

\* A step that leaves the simulations, and that their histories have followed; its
\* actor, if it is one of the hosts, is an agent.
LEMMA ObserveStep ==
  ASSUME SandboxInv, MetricsInv', NEW a, Observe(a), Rows' = Rows,
         UNCHANGED <<sim, simulations>>, \A h \in Hosts : h = a => sim[h].step = "agent"
  PROVE  SandboxInv'
<1>1. /\ sim \in [Hosts -> Sims] /\ drifted \in [Hosts -> SUBSET Branches]
      /\ since \in [Hosts -> [Entities -> SUBSET (Contents \cup {Absent})]]
  BY DEF SandboxInv, SandboxTypes
<1>2. db' \in [Branches -> Databases]
  BY DEF MetricsInv, MetricsTypes
<1>3. /\ drifted' = [g \in Hosts |-> drifted[g] \cup
           {b \in {sim[g].branch, sim[g].on} \ {NoBranch} :
              g # a /\ Running(g) /\ db'[b] # db[b]}]
      /\ since' = [g \in Hosts |-> [e \in Entities |->
           IF Running(g) /\ sim[g].branch # NoBranch
           THEN since[g][e] \cup {db'[sim[g].on][e]} ELSE since[g][e]]]
  BY DEF Observe
<1>4. ASSUME NEW g \in Hosts
      PROVE  /\ Staged(sim[g]) /\ Watched(g) /\ sim[g] \in Sims
             /\ Running(g) => sim[g].on \in Branches
             /\ sim[g].step \in Forked => Running(g) /\ sim[g].branch # NoBranch
  <2>1. Staged(sim[g]) /\ Watched(g) /\ sim[g] \in Sims
    BY <1>1 DEF SandboxInv
  <2> QED
    BY <2>1, MetricsAssumption DEF Staged, Running, Forked, Rows
<1>5. drifted' \in [Hosts -> SUBSET Branches]
  BY <1>1, <1>3 DEF Sims
<1>6. since' \in [Hosts -> [Entities -> SUBSET (Contents \cup {Absent})]]
  <2>1. ASSUME NEW g \in Hosts, NEW e \in Entities
        PROVE  (IF Running(g) /\ sim[g].branch # NoBranch
                THEN since[g][e] \cup {db'[sim[g].on][e]} ELSE since[g][e])
                 \in SUBSET (Contents \cup {Absent})
    <3>1. Running(g) => db'[sim[g].on][e] \in Contents \cup {Absent}
      BY <1>2, <1>4 DEF Databases
    <3> QED
      BY <1>1, <3>1
  <2> QED
    BY <1>3, <2>1
<1>7. SandboxTypes'
  BY <1>5, <1>6 DEF SandboxInv, SandboxTypes
<1>8. OwnSandbox'
  BY DEF SandboxInv, OwnSandbox
<1>9. ASSUME NEW g \in Hosts PROVE Staged(sim[g])' /\ Watched(g)'
  <2>1. Staged(sim[g])'
    BY <1>4 DEF Staged
  <2>2. sim[g].step \in Forked =>
          \A e \in Entities : since'[g][e] = since[g][e] \cup {db'[sim[g].on][e]}
    BY <1>3, <1>4
  <2>3. sim[g].step = "diff" => g # a /\ Running(g)
    BY DEF Running
  <2>4. sim[g].step = "diff" =>
          /\ sim[g].branch \notin drifted'[g] =>
               sim[g].branch \notin drifted[g] /\ db'[sim[g].branch] = db[sim[g].branch]
          /\ sim[g].on \notin drifted'[g] =>
               sim[g].on \notin drifted[g] /\ db'[sim[g].on] = db[sim[g].on]
    <3>1. sim[g].step = "diff" => sim[g].branch # NoBranch /\ sim[g].on # NoBranch
      BY <1>4, <2>3, MetricsAssumption DEF Forked
    <3> QED
      BY <1>3, <2>3, <3>1
  <2>5. Watched(g)'
    BY <1>4, <2>2, <2>4 DEF Watched, Forked
  <2> QED
    BY <2>1, <2>5
<1> QED
  BY <1>7, <1>8, <1>9 DEF SandboxInv

LEMMA AgentWritesStep ==
  ASSUME SandboxInv, NEW h \in Hosts, NEW e \in Entities, NEW row \in Contents \cup {Absent},
         AgentWrites(h, e, row)
  PROVE  SandboxInv'
<1>1. /\ sim[h] \in Sims /\ Staged(sim[h]) /\ sim[h].step = "agent" /\ MetricsInv
  BY DEF SandboxInv, SandboxTypes, AgentWrites, In
<1>2. PICK b \in Branches : b = sim[h].branch
  BY <1>1 DEF Staged, Forked
<1>3. /\ changes' = changes + 1 /\ db' = [db EXCEPT ![b][e] = row] /\ Disturb({}) /\ Observe(h)
      /\ UNCHANGED <<status, parent, metrics, commits, file, job, calls, done, overlapped,
                     sim, simulations>>
  BY <1>2 DEF AgentWrites, registry
<1>4. db' \in [Branches -> Databases]
  <2>1. db \in [Branches -> Databases]
    BY <1>1 DEF MetricsInv, MetricsTypes
  <2> QED
    BY <1>3, <2>1, WrittenRow
<1>5. Rows' = Rows
  BY <1>3 DEF Rows
<1>6. MetricsInv'
  <2>1. CountersBacked'
    BY <1>1, <1>3 DEF MetricsInv, CountersBacked
  <2>2. \A c \in Branches : commits[c] <= commits'[c]
    BY <1>1, <1>3 DEF MetricsInv, MetricsTypes
  <2>3. /\ status' \in [Branches -> Statuses] /\ parent' \in [Branches -> Branches \cup {NoBranch}]
        /\ metrics' \in [Branches -> MetricsRows] /\ commits' \in [Branches -> Nat]
        /\ file' \in [Branches -> BOOLEAN] /\ changes' \in Nat
        /\ overlapped' \in [Branches -> BOOLEAN] /\ IsFiniteSet(Rows')
    BY <1>1, <1>3, <1>5 DEF MetricsInv, MetricsTypes
  <2> QED
    BY <1>1, <1>3, <1>4, <1>5, <2>1, <2>2, <2>3, OutsideStep
<1> QED
  BY <1>1, <1>3, <1>5, <1>6, ObserveStep

LEMMA WorldStep ==
  ASSUME SandboxInv, World
  PROVE  SandboxInv'
<1>1. Observe(NoHost) /\ UNCHANGED <<sim, simulations>> /\ MetricsInv
  BY DEF World, SandboxInv
<1>2. CASE \E t \in Trackers : Tracker(t)
  <2>1. PICK t \in Trackers : Tracker(t)
    BY <1>2
  <2>2. MetricsInv'
    BY <1>1, <2>1, TrackerStep
  <2>3. status' = status
    BY <2>1 DEF Tracker, Refresh, Track, RefreshAll, Call, TrackWrite, UpdateMetrics, OpenDb,
                CountTable, CountCommits, ReadParent, OpenPools, ReadDiff, KeepScore,
                WriteBack, GiveUp, stores, registry
  <2> QED
    BY <1>1, <2>2, <2>3, ObserveStep, SandboxAssumption DEF Rows
<1>3. CASE Others
  <2>1. MetricsInv'
    BY <1>1, <1>3, OthersStep
  <2>2. Rows' = Rows
    BY <1>1, <1>3 DEF Others, LogCommit, Discard, Collect, Write, Rows, Live, MetricsInv,
       MetricsTypes
  <2> QED
    BY <1>1, <2>1, <2>2, ObserveStep, SandboxAssumption
<1> QED
  BY <1>2, <1>3 DEF World

-----------------------------------------------------------------------------
(* The theorems.                                                           *)

LEMMA SandboxInitial ==
  ASSUME SandboxInit
  PROVE  SandboxInv
<1>1. MetricsInv
  BY MetricsInit DEF SandboxInit
<1>2. NoView \in Views
  BY BlankType DEF NoView, Views
<1>3. /\ NoSim \in Sims /\ NoSim.branch = NoBranch /\ NoSim.step = "idle" /\ NoSim.view = NoView
      /\ NoSim.env = "none" /\ NoSim.report = "none"
  BY <1>2, BlankType DEF NoSim, Sims, SimSteps, Forked
<1>4. \A h \in Hosts : sim[h] = NoSim
  BY DEF SandboxInit
<1>5. SandboxTypes
  BY <1>3 DEF SandboxInit, SandboxTypes
<1>6. OwnSandbox
  BY <1>3, <1>4 DEF OwnSandbox
<1>7. ASSUME NEW h \in Hosts PROVE Staged(sim[h]) /\ Watched(h)
  BY <1>3, <1>4 DEF Staged, Watched, Forked
<1> QED
  BY <1>1, <1>5, <1>6, <1>7 DEF SandboxInv

LEMMA SandboxStep ==
  ASSUME SandboxInv, [Next]_allVars
  PROVE  SandboxInv'
<1>1. CASE World
  BY <1>1, WorldStep
<1>2. ASSUME NEW h \in Hosts, Host(h) PROVE SandboxInv'
  <2>1. ASSUME NEW p \in Branches, NEW timed \in BOOLEAN, Begin(h, p, timed) PROVE SandboxInv'
    BY <2>1, BeginStep
  <2>2. ASSUME NEW e \in Entities, NEW row \in Contents \cup {Absent}, AgentWrites(h, e, row)
        PROVE  SandboxInv'
    BY <2>2, AgentWritesStep
  <2>3. CASE CheckParent(h)
    BY <2>3, CheckParentStep
  <2>4. CASE CopyParent(h)
    BY <2>4, CopyParentStep
  <2>5. CASE InsertSandbox(h)
    BY <2>5, InsertSandboxStep
  <2>6. CASE InsertMetrics(h)
    BY <2>6, InsertMetricsStep
  <2>7. CASE OpenSandbox(h)
    BY <2>7, OpenSandboxStep
  <2>8. CASE AgentDone(h) \/ AgentFails(h) \/ Timeout(h)
    BY <2>8, AgentEnds
  <2>9. CASE OpenBoth(h)
    BY <2>9, OpenBothStep
  <2>10. CASE Evaluate(h)
    BY <2>10, EvaluateStep
  <2>11. CASE TeardownWrite(h)
    BY <2>11, TeardownWriteStep
  <2>12. CASE Fail(h)
    BY <2>12, OverStep DEF Fail
  <2>13. CASE TeardownRead(h)
    BY <2>13, TeardownReadStep
  <2>14. CASE Forget(h)
    BY <2>14, ForgetStep
  <2> QED
    BY <1>2, <2>1, <2>2, <2>3, <2>4, <2>5, <2>6, <2>7, <2>8, <2>9, <2>10, <2>11, <2>12, <2>13,
       <2>14 DEF Host, Engine
<1>3. CASE UNCHANGED allVars
  <2>1. UNCHANGED vars /\ UNCHANGED <<sim, simulations, drifted, since>>
    BY <1>3 DEF allVars, sandboxVars
  <2>2. db' = db /\ Rows' = Rows
    BY <2>1 DEF vars, stores, registry, Rows
  <2>3. MetricsInv'
    BY <2>1, MetricsStutter DEF SandboxInv
  <2> QED
    BY <2>1, <2>2, <2>3 DEF SandboxInv, SandboxTypes, OwnSandbox, Staged, Watched
<1> QED
  BY <1>1, <1>2, <1>3 DEF Next

\* The inductive invariant: what every tracker has in hand is backed by its row and by
\* what was recorded, and what every simulation has in hand is a copy of what its
\* parent and its sandbox held.
THEOREM SandboxInvariant == Spec => []SandboxInv
<1>1. SandboxInit => SandboxInv
  BY SandboxInitial
<1>2. SandboxInv /\ [Next]_allVars => SandboxInv'
  BY SandboxStep
<1> QED
  BY <1>1, <1>2, PTL DEF Spec

\* Every variable of the sandbox, of the registry and of the trackers has its type
\* throughout, however simulations, trackers, agents and the collector interleave.
THEOREM SandboxTypeCorrect == Spec => []SandboxTypeOK
<1>1. SandboxInv => SandboxTypeOK
  <2> SUFFICES ASSUME SandboxInv PROVE SandboxTypeOK
    OBVIOUS
  <2>1. TypeOK
    BY TypesSuffice DEF SandboxInv, MetricsInv
  <2> QED
    BY <2>1 DEF SandboxInv, SandboxTypes, SandboxTypeOK, Sims
<1> QED
  BY <1>1, SandboxInvariant, PTL

\* However track_op, refresh and refresh_all race with each other and with forks, a
\* counter never exceeds what was recorded, and equals it where nobody overlapped.
THEOREM CountersAreBacked == Spec => []CountersBacked
<1>1. SandboxInv => CountersBacked
  BY DEF SandboxInv, MetricsInv
<1> QED
  BY <1>1, SandboxInvariant, PTL

\* A refresh during which nothing changed writes what a look at the branch, its parent
\* and the log gives, for every schema and wherever in a list of refreshes it is; when
\* the lookup of the parent or the diff fails, which is passed over, the score that it
\* writes is the one that was stored.
THEOREM RefreshesAreExact == Spec => RefreshExact
<1> DEFINE Right(t) ==
             LET b == Of(t) IN
             /\ IsCountOf(metrics'[b], b)
             /\ At(t, "write") => IsScoreOf(metrics'[b].score, b)
             /\ At(t, "keep") => parent[b] # NoBranch /\ metrics'[b].score = metrics[b].score
<1>1. SandboxInv => \A t \in Trackers : calm[t] /\ WriteBack(t) => Right(t)
  BY WriteBackExact DEF SandboxInv
<1>2. SandboxInv /\ [Next]_allVars => [\A t \in Trackers : calm[t] /\ WriteBack(t) => Right(t)]_vars
  BY <1>1
<1> QED
  BY <1>2, SandboxInvariant, PTL DEF Spec, RefreshExact

\* What recommend answers for two databases.
LEMMA Recommended ==
  ASSUME NEW a \in Databases, NEW b \in Databases
  PROVE  /\ Recommend(a, b) \in {"discard", "review", "commit"}
         /\ Recommend(a, b) = "discard" <=> a = b
         /\ Recommend(a, b) = IF Differing(a, b) = {} THEN "discard"
                              ELSE IF Threshold[2] * Cardinality(Differing(a, b))
                                      < Threshold[1] * Cardinality(Union(a, b))
                              THEN "commit" ELSE "review"
<1>1. /\ Differing(a, b) = Added(a, b) \cup Removed(a, b) \cup Modified(a, b)
      /\ IsFiniteSet(Differing(a, b))
  BY DiffersBy
<1>2. PICK n : n = Cardinality(Differing(a, b))
  OBVIOUS
<1>3. n \in Nat /\ (n = 0 <=> Differing(a, b) = {})
  BY <1>1, <1>2, FS_CardinalityType, FS_EmptySet
<1>4. PICK m \in Nat : m = Cardinality(Union(a, b))
  BY DiffCounted
<1>5. Recommend(a, b) = IF n = 0 THEN "discard"
                        ELSE IF n * Threshold[2] >= Threshold[1] * m THEN "review" ELSE "commit"
  BY <1>1, <1>2, <1>4 DEF Recommend
<1>6. PICK t1 \in Nat, t2 \in Nat : t1 = Threshold[1] /\ t2 = Threshold[2]
  BY SandboxAssumption
<1>7. n * t2 = t2 * n /\ n * t2 \in Nat /\ t1 * m \in Nat
  BY <1>3
<1>8. n * t2 >= t1 * m <=> ~ (t2 * n < t1 * m)
  BY <1>7
<1>9. Differing(a, b) = {} <=> a = b
  BY DEF Differing, Databases
<1> QED
  BY <1>2, <1>3, <1>4, <1>5, <1>6, <1>8, <1>9

LEMMA EvaluateTruthful ==
  ASSUME SandboxInv, NEW h \in Hosts, Evaluate(h), sim'[h].report # "none"
  PROVE  LET s == sim[h]
             answer == sim'[h].report IN
         /\ answer = "discard" /\ s.branch \notin drifted[h] =>
              \A e \in Entities : db[s.branch][e] \in since[h][e]
         /\ drifted[h] = {} =>
              answer = IF Differ(s.branch, s.on) = {} THEN "discard"
                       ELSE IF Threshold[2] * Cardinality(Differ(s.branch, s.on))
                               < Threshold[1] * Cardinality(Both(s.branch, s.on))
                       THEN "commit" ELSE "review"
<1>1. sim[h].step = "diff" /\ sim \in [Hosts -> Sims]
  BY DEF Evaluate, In, SandboxInv, SandboxTypes
<1>2. /\ sim[h] \in Sims /\ sim[h].view \in Views /\ sim[h].view.at < 2 * Len(Types)
      /\ sim[h].report = "none"
      /\ db[sim[h].on] \in Databases /\ db[sim[h].branch] \in Databases
  BY <1>1, AtDiff
<1>3. PICK s : s = sim[h]
  OBVIOUS
<1>4. PICK view : view = Seen(s.view, s.branch, s.on)
  OBVIOUS
<1>5. view \in Views
  BY <1>2, <1>3, <1>4, SeenMore
<1>6. Complete(view) /\ sim'[h].report = Recommend(view.a, view.b)
  <2>1. CASE ~ Complete(view)
    <3>1. sim' = [sim EXCEPT ![h].view = view]
      BY <1>3, <1>4, <2>1 DEF Evaluate
    <3>2. sim'[h].report = sim[h].report
      BY <1>1, <3>1 DEF Sims
    <3> QED
      BY <1>2, <3>2
  <2>2. CASE Complete(view)
    <3>1. sim' = [sim EXCEPT ![h].view = NoView, ![h].step = "over",
                             ![h].report = Recommend(view.a, view.b)]
      BY <1>3, <1>4, <2>2 DEF Evaluate
    <3> QED
      BY <1>1, <2>2, <3>1 DEF Sims
  <2> QED
    BY <2>1, <2>2
<1>7. \A e \in Entities : Reached(view.at, 0, e) /\ Reached(view.at, 1, e)
  BY <1>6, AllReached
<1>8. \A e \in Entities :
        /\ s.branch \notin drifted[h] => view.a[e] = db[s.branch][e]
        /\ s.on \notin drifted[h] => view.b[e] = db[s.on][e]
        /\ view.b[e] \in since[h][e]
  BY <1>1, <1>3, <1>4, <1>7, SeenWatched
<1>9. view.a \in Databases /\ view.b \in Databases
  BY <1>5 DEF Views
<1>10. ASSUME sim'[h].report = "discard", s.branch \notin drifted[h]
       PROVE  \A e \in Entities : db[s.branch][e] \in since[h][e]
  <2>1. view.a = view.b
    BY <1>6, <1>9, <1>10, Recommended
  <2> QED
    BY <1>8, <1>10, <2>1
<1>11. ASSUME drifted[h] = {}
       PROVE  sim'[h].report =
                IF Differ(s.branch, s.on) = {} THEN "discard"
                ELSE IF Threshold[2] * Cardinality(Differ(s.branch, s.on))
                        < Threshold[1] * Cardinality(Both(s.branch, s.on))
                THEN "commit" ELSE "review"
  <2>1. view.a = db[s.branch] /\ view.b = db[s.on]
    BY <1>2, <1>3, <1>8, <1>9, <1>11 DEF Databases
  <2>2. Differ(s.branch, s.on) = Differing(view.a, view.b)
    BY <2>1 DEF Differ, Differing
  <2>3. Both(s.branch, s.on) = Union(view.a, view.b)
    BY <2>1 DEF Both, Union
  <2> QED
    BY <1>6, <1>9, <2>2, <2>3, Recommended
<1> QED
  BY <1>3, <1>10, <1>11

\* A simulation that says "discard" loses nothing that the parent has not had since the
\* fork, and where nobody else has written, its answer is on the right side of the
\* threshold, whatever the threshold and the schema are.
THEOREM RecommendationsAreTruthful == Spec => RecommendationTruthful
<1> DEFINE Truthful ==
      \A h \in Hosts :
        LET s == sim[h]
            answer == sim'[h].report IN
        Evaluate(h) /\ answer # "none" =>
          /\ answer = "discard" /\ s.branch \notin drifted[h] =>
               \A e \in Entities : db[s.branch][e] \in since[h][e]
          /\ drifted[h] = {} =>
               answer = IF Differ(s.branch, s.on) = {} THEN "discard"
                        ELSE IF Threshold[2] * Cardinality(Differ(s.branch, s.on))
                                < Threshold[1] * Cardinality(Both(s.branch, s.on))
                        THEN "commit" ELSE "review"
<1>1. SandboxInv => Truthful
  BY EvaluateTruthful
<1>2. RecommendationTruthful <=> [][Truthful]_allVars
  BY DEF RecommendationTruthful
<1> HIDE DEF Truthful
<1>3. SandboxInv /\ [Next]_allVars => [Truthful]_allVars
  BY <1>1
<1> QED
  BY <1>2, <1>3, SandboxInvariant, PTL DEF Spec
=============================================================================
