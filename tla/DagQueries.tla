----------------------------- MODULE DagQueries -----------------------------
(***************************************************************************)
(* Queries on the lineage graph: DagGraph's own and those of DagTraversal. *)
(* Each takes the lock for itself; find_merge_base and divergence_depth    *)
(* are made of several of them, and the graph may change in between.       *)
(***************************************************************************)
EXTENDS DagGraph, SequencesExt

CONSTANTS
  Askers,     \* tasks that query the graph
  NoBranch    \* the answer of find_merge_base when there is no common ancestor

ASSUME QueriesAssumption == NoBranch \notin Ids

VARIABLE query    \* the query each asker has under way, or Idle

vars == <<graphVars, query>>

\* One end of each of the edges E, newest edge first.
Newest(E, end) ==
  [i \in 1..Cardinality(E) |->
     (CHOOSE l \in E : Cardinality({m \in E : m[3] >= l[3]}) = i)[end]]

\* A set of nodes in petgraph's order.
Ascending(S) ==
  [i \in 1..Cardinality(S) |-> CHOOSE s \in S : Cardinality({t \in S : t <= s}) = i]

\* The nodes at one end of the edges E, in petgraph's order, without those whose
\* keys were seen, before or here.
Unseen(key, E, end, seen) ==
  Newest({l \in E : /\ key[l[end]] \notin seen
                    /\ \A m \in E : key[m[end]] = key[l[end]] => m[3] <= l[3]}, end)

Keys(key, slots) == [i \in DOMAIN slots |-> key[slots[i]]]

Parents(s)  == {l[1] : l \in {m \in links : m[2] = s}}
Children(s) == {l[2] : l \in {m \in links : m[1] = s}}

BySlot == [s \in Slots |-> s]

\* Each turn of a walk takes a node from its stack or queue, and each node gets
\* there once at most: after so many turns nothing is left.
Turns == Len(weights) + 1

\* Depth-first upwards; out lists the keys of what was reached.
Climb(key, w) ==
  IF w.stack = <<>> THEN w
  ELSE LET fresh == Unseen(key, {l \in links : l[2] = Last(w.stack)}, 1, ToSet(w.out)) IN
       [stack |-> Front(w.stack) \o fresh, out |-> w.out \o Keys(key, fresh)]

Upwards(key, start) ==
  LET walk[n \in 0..Turns] ==
        IF n = 0 THEN [stack |-> <<start>>, out |-> <<>>] ELSE Climb(key, walk[n - 1])
  IN walk[Turns].out

\* ancestors_of: branch ids, closest first along a chain.
AncestorsOf(b) == Keys(weights, Upwards(BySlot, index[b]))

\* dfs_ancestor_set, which marks branch ids instead of slots.
AncestorSet(b) == ToSet(Upwards(weights, index[b]))

\* Mutant: the first node is taken for the only root.
RootsFirst == {s \in Slots : s = 1}

Roots == {s \in Slots : Parents(s) = {}}

\* Breadth-first downwards; depth[k] is the depth of each key reached.
Descend(key, w) ==
  IF w.queue = <<>> THEN w
  ELSE LET node  == Head(w.queue)
           fresh == Unseen(key, {l \in links : l[1] = node}, 2, DOMAIN w.depth)
           found == ToSet(Keys(key, fresh))
       IN  [queue |-> Tail(w.queue) \o fresh,
            depth |-> [k \in DOMAIN w.depth \cup found |->
                         IF k \in found THEN w.depth[key[node]] + 1 ELSE w.depth[k]]]

Downwards(key, starts) ==
  LET walk[n \in 0..Turns] ==
        IF n = 0 THEN [queue |-> Ascending(starts),
                       depth |-> [k \in {key[s] : s \in starts} |-> 0]]
        ELSE Descend(key, walk[n - 1])
  IN walk[Turns].depth

DepthMap(key) == Downwards(key, Roots)

\* depth_of; -1 stands for DagNodeNotFound.
DepthOf(b) ==
  LET map == DepthMap(BySlot) IN IF index[b] \in DOMAIN map THEN map[index[b]] ELSE -1

\* lowest_common_ancestor: the deepest of the common ones.  The smallest UUID
\* breaks a tie; here any does.
Shared(a, b) == (AncestorSet(a) \cup {a}) \cap (AncestorSet(b) \cup {b})

LowestCommonAncestors(a, b) ==
  LET shared == Shared(a, b)
      map == DepthMap(weights)
      depth(x) == IF x \in DOMAIN map THEN map[x] ELSE 0 IN
  IF a = b THEN {a}
  ELSE {x \in shared : \A y \in shared : depth(y) <= depth(x)}

\* dfs_paths: the calls n levels deep, each by its path, whose nodes are the
\* visited ones; a call at the target makes no further ones.
DfsPaths(start, target) ==
  LET calls[n \in 0..Len(weights)] ==
        IF n = 0 THEN {<<start>>}
        ELSE UNION {{Append(p, c) : c \in Children(Last(p)) \ ToSet(p)} :
                      p \in {q \in calls[n - 1] : Last(q) # target}}
  IN {p \in UNION {calls[n] : n \in 0..Len(weights)} : Last(p) = target}

\* Mutant: nodes stay visited when the search turns back, the target among them.
AllPathsOnce(a, b) ==
  LET found == DfsPaths(index[a], index[b]) IN
  IF found = {} THEN {} ELSE {Keys(weights, CHOOSE p \in found : TRUE)}

AllPaths(a, b) == {Keys(weights, p) : p \in DfsPaths(index[a], index[b])}

\* Mutant: only the children.
SubtreeShallow(b) == {weights[s] : s \in Children(index[b])}

\* subtree_of: the descendants of b.
SubtreeOf(b) == {weights[s] : s \in DOMAIN Downwards(BySlot, {index[b]}) \ {index[b]}}

IsAncestor(a, b) == a = b \/ a \in ToSet(AncestorsOf(b))

-----------------------------------------------------------------------------
(* Queries that take the lock more than once.                              *)

Idle == [step |-> "idle"]

\* What a query finds under the first lock, with two histories: how often the
\* graph had changed, and the common ancestors there were.
Begun(step, a, b, found) ==
  [step |-> step, a |-> a, b |-> b, found |-> found,
   since |-> <<removals, inserted>>, shared |-> Shared(a, b)]

\* Mutant: a itself is left out.
FoundAncestorsOnly(a) == ToSet(AncestorsOf(a))

Found(a) == ToSet(AncestorsOf(a)) \cup {a}

\* find_merge_base, first lock: the ancestors of a.  It returns at once when b
\* is one of them, or a itself, and fails when a is unknown.
BeginMergeBase(t, a, b) ==
  /\ query[t] = Idle
  /\ a # b
  /\ index[a] # 0
  /\ b \notin Found(a)
  /\ query' = [query EXCEPT ![t] = Begun("merge_base", a, b, Found(a))]
  /\ UNCHANGED graphVars

Hits(q) == {i \in DOMAIN AncestorsOf(q.b) : AncestorsOf(q.b)[i] \in q.found}

\* Mutant: the ancestor of b looked at last, the farthest, is taken.
MergeBaseFarthest(q) == IF Hits(q) = {} THEN NoBranch ELSE AncestorsOf(q.b)[Max(Hits(q))]

\* The first ancestor of b among those that were found for a.
MergeBase(q) == IF Hits(q) = {} THEN NoBranch ELSE AncestorsOf(q.b)[Min(Hits(q))]

\* Second lock: the ancestors of b, unless b is unknown.
EndMergeBase(t) ==
  /\ query[t].step = "merge_base"
  /\ query' = [query EXCEPT ![t] = Idle]
  /\ UNCHANGED graphVars

\* divergence_depth, first lock: lowest_common_ancestor; unknown branches and
\* branches without one are errors.
BeginDivergence(t, a, b) ==
  /\ query[t] = Idle
  /\ a = b \/ (index[a] # 0 /\ index[b] # 0)
  /\ \E l \in LowestCommonAncestors(a, b) :
       query' = [query EXCEPT ![t] = Begun("lca", a, b, l)]
  /\ UNCHANGED graphVars

\* Second lock: the depth of a, or an error.
ReadDepth(t) ==
  LET q == query[t] IN
  /\ q.step = "lca"
  /\ query' = [query EXCEPT ![t] =
                 IF DepthOf(q.a) < 0 THEN Idle
                 ELSE [q EXCEPT !.step = "depth", !.found = <<q.found, DepthOf(q.a)>>]]
  /\ UNCHANGED graphVars

\* Mutant: the difference without regard to its sign.
DivergenceAbsolute(q) ==
  IF q.found[2] <= DepthOf(q.found[1]) THEN DepthOf(q.found[1]) - q.found[2]
  ELSE q.found[2] - DepthOf(q.found[1])

\* Third lock: the depth of the common ancestor, subtracted with saturating_sub.
Divergence(q) ==
  IF q.found[2] <= DepthOf(q.found[1]) THEN 0 ELSE q.found[2] - DepthOf(q.found[1])

EndDivergence(t) ==
  /\ query[t].step = "depth"
  /\ query' = [query EXCEPT ![t] = Idle]
  /\ UNCHANGED graphVars

Change == Next /\ UNCHANGED query

Query ==
  \E t \in Askers :
    \/ \E a, b \in Ids : BeginMergeBase(t, a, b) \/ BeginDivergence(t, a, b)
    \/ EndMergeBase(t)
    \/ ReadDepth(t)
    \/ EndDivergence(t)

QueriesInit == Init /\ query = [t \in Askers |-> Idle]
QueriesSpec == QueriesInit /\ [][Change \/ Query]_vars

-----------------------------------------------------------------------------
(* Reference definitions, on branch ids.                                   *)

Branches   == {weights[s] : s \in Slots}
ParentsOf(b) == {weights[l[1]] : l \in {m \in links : weights[m[2]] = b}}

\* x is b or an ancestor of b: every set that holds b and the parents of its
\* members holds x.
Above(x, b) ==
  \A S \in SUBSET Branches :
    b \in S /\ (\A c \in S : ParentsOf(c) \subseteq S) => x \in S

Common(a, b) == {x \in Branches : Above(x, a) /\ Above(x, b)}

\* Branches only come from forks: no branch has two parents.
IsForest == \A b \in Branches : Cardinality(ParentsOf(b)) <= 1

Undisturbed(q) == ~ moved /\ q.since[1] = removals

\* However branches are added while it runs, find_merge_base returns a branch
\* that is a common ancestor when it returns, and nothing only when there was no
\* common ancestor when it was called.
MergeBaseIsCommon ==
  [][\A t \in Askers : EndMergeBase(t) =>
       LET q == query[t] IN
       Undisturbed(q) /\ index[q.b] # 0 =>
         IF MergeBase(q) = NoBranch THEN q.shared = {}
         ELSE MergeBase(q) \in Common(q.a, q.b)]_vars

\* In a lineage of forks it then returns the lowest common ancestor, the one that
\* lowest_common_ancestor gives: all others are above it.
MergeBaseIsLowest ==
  [][\A t \in Askers : EndMergeBase(t) =>
       LET q == query[t] IN
       Undisturbed(q) /\ IsForest /\ index[q.b] # 0 /\ MergeBase(q) # NoBranch =>
         /\ \A x \in Common(q.a, q.b) : Above(x, MergeBase(q))
         /\ LowestCommonAncestors(q.a, q.b) = {MergeBase(q)}]_vars

\* The number of edges from an ancestor x down to b, in a forest.
Hops(x, b) == Cardinality({c \in Branches : Above(c, b) /\ Above(x, c)}) - 1

\* In a lineage of forks divergence_depth never overstates the distance, and it is
\* exact when nothing was added while it ran.
DivergenceNotOverstated ==
  [][\A t \in Askers : EndDivergence(t) =>
       LET q == query[t] IN
       Undisturbed(q) /\ IsForest =>
         /\ Divergence(q) <= Hops(q.found[1], q.a)
         /\ q.since[2] = inserted => Divergence(q) = Hops(q.found[1], q.a)]_vars

\* The depth of a branch is that of its parent nearest to a root, and one; both
\* implementations of it agree.
DepthIsNearest ==
  ~ moved =>
    \A b \in Branches :
      /\ b \in DOMAIN DepthMap(weights) /\ DepthOf(b) = DepthMap(weights)[b]
      /\ ParentsOf(b) = {} => DepthOf(b) = 0
      /\ ParentsOf(b) # {} =>
           /\ \A p \in ParentsOf(b) : DepthOf(b) <= DepthOf(p) + 1
           /\ \E p \in ParentsOf(b) : DepthOf(b) = DepthOf(p) + 1

\* Every graph there is, looked at once.
Settled == ~ moved /\ query = [t \in Askers |-> Idle]

\* all_paths, which walks down, finds every path and no other: those to a branch
\* are those to its parents and one step more.
PathsThroughParents ==
  Settled =>
    \A a, b \in Branches :
      AllPaths(a, b) = IF a = b THEN {<<a>>}
                       ELSE {Append(p, b) : p \in UNION {AllPaths(a, q) : q \in ParentsOf(b)}}

\* The walks down and up agree: a branch is in the subtree of just its ancestors,
\* and there is a path from just these.
SubtreeMirrorsAncestors ==
  Settled =>
    \A a, b \in Branches :
      /\ (b \in SubtreeOf(a)) = (IsAncestor(a, b) /\ a # b)
      /\ (AllPaths(a, b) # {}) = IsAncestor(a, b)
=============================================================================
