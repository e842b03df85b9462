-------------------------- MODULE MCThreeWayMerge --------------------------
(* Small instances of ThreeWayMerge for TLC. *)
EXTENDS ThreeWayMerge, TLC

CONSTANTS p, x, y, c1, c2, i, j, k, l, f, g, h, u, v, w

\* A parent and two branches forked from it.
Family       == {p, x, y}
FamilyParent == (p :> NoBranch) @@ (x :> p) @@ (y :> p)

OneClient  == {c1}
TwoClients == {c1, c2}
TwoFields  == {f, g}
TwoValues  == {v, w}

OneEntity  == {<<1, i>>}

Merge(source, target, strategies) ==
  [source : {source}, target : {target}, strategy : strategies]

AnyStrategy == [Fields -> Choices]
Whole(choice) == [n \in Fields |-> choice]

\* Siblings, whose base is their parent, under the field-level strategies that
\* say theirs of f; a child with its parent; and a parent with its child.
RacedMerges == Merge(x, y, {s \in AnyStrategy : s[f] = "theirs"})
                 \cup Merge(x, p, {Whole("theirs")}) \cup Merge(p, x, {Whole("theirs")})
TheirsMerge == Merge(x, y, {Whole("theirs")})

\* One merge of siblings with a strategy for each field, and rows for it to merge.
MixedMerge   == Merge(x, y, {(f :> "ours") @@ (g :> "theirs") @@ (h :> "union")})
ThreeFields  == {f, g, h}
ThreeValues  == {u, v, w}
MergedRows   == {<<1, i>>, <<1, j>>, <<1, k>>, <<1, l>>, <<2, i>>}
Row(a, b, c) == (f :> a) @@ (g :> b) @@ (h :> c)

\* Both change row i in different fields; only the target changes j, and the row
\* of the second type with the id of i; both change f and g of k, and h of l.
SourceRows == (<<1, i>> :> Row(v, u, u)) @@ (<<1, j>> :> Row(u, u, u)) @@ (<<2, i>> :> Row(u, u, u))
                @@ (<<1, k>> :> Row(v, v, u)) @@ (<<1, l>> :> Row(u, u, v))
TargetRows == (<<1, i>> :> Row(u, v, u)) @@ (<<1, j>> :> Row(v, u, u)) @@ (<<2, i>> :> Row(u, v, u))
                @@ (<<1, k>> :> Row(w, w, u)) @@ (<<1, l>> :> Row(u, u, w))

Start ==
  /\ db = (p :> [e \in MergedRows |-> Row(u, u, u)]) @@ (x :> SourceRows) @@ (y :> TargetRows)
  /\ Init

FromStart == Start /\ [][Next]_vars

\* A merge is disturbed once: by a second call or by a write.
Disturbed == Init /\ [][Next /\ calls' + writes' <= 2]_vars

\* The values are interchangeable, and so are the clients.
Symmetry == Permutations(TwoValues) \cup Permutations(TwoClients)
=============================================================================
