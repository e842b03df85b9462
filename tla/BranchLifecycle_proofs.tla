----------------------- MODULE BranchLifecycle_proofs -----------------------
(***************************************************************************)
(* Proofs about BranchLifecycle, for all values of the constants.          *)
(***************************************************************************)
EXTENDS BranchLifecycle, FiniteSetTheorems, TLAPS

\* Every step of Next, split into the actions that the proofs treat apart.
LEMMA StepCases ==
  ASSUME Next
  PROVE  \/ \E p \in Clients : Open(p) \/ NewWorkspace(p)
         \/ \E p \in Tasks : Begin(p)
         \/ \E p \in Tasks : GcList(p)
         \/ \E p \in Tasks : Fork(p)
         \/ \E p \in Tasks : SetStatus(p)
         \/ \E p \in Tasks : Sweep(p)
         \/ \E p \in Tasks : Abort(p)
         \/ \E b \in Branches : WriteBranch(b) \/ Age(b)
         \/ Crash
BY DEF Next, Boot, Continue

\* Every step keeps the types.
LEMMA TypeStep ==
  ASSUME IInv, [Next]_vars
  PROVE  TypeOK'
<1> USE ConstantsAssumption DEF IInv, TypeOK, Tasks, Statuses, Live, Labels, Parts, Complete,
        registry, files, dag, locals, engine, Goto, Return
<1>1. ASSUME NEW p \in Clients, Open(p) \/ NewWorkspace(p) PROVE TypeOK'
  BY <1>1 DEF Open, NewWorkspace, CleanTmp, Slugs, TrunkSlug
<1>2. ASSUME NEW p \in Tasks, Begin(p) PROVE TypeOK'
  BY <1>2 DEF Begin, ForkReadParent, Activate, Deactivate, Discard, Archive, Restore, ReadStatus,
              Calls, PurgeList, StartSweep, DiscardedRows
<1>3. ASSUME NEW p \in Tasks, GcList(p) PROVE TypeOK'
  BY <1>3 DEF GcList, StartSweep, DiscardedRows
<1>4. ASSUME NEW p \in Tasks, Fork(p) PROVE TypeOK'
  <2>1. CASE ForkCheckLimit(p) BY <2>1 DEF ForkCheckLimit
  <2>2. CASE ForkChooseSlug(p) BY <2>2 DEF ForkChooseSlug, Slugs
  <2>3. CASE SourceMissing(p) BY <2>3 DEF SourceMissing
  <2>4. CASE SnapCopy(p) BY <2>4 DEF SnapCopy
  <2>5. CASE SnapRename(p) BY <2>5 DEF SnapRename
  <2>6. CASE SnapSeal(p) BY <2>6 DEF SnapSeal
  <2>7. CASE InsertRow(p) BY <2>7 DEF InsertRow
  <2>8. CASE Publish(p) BY <2>8 DEF Publish, AddEdge, NewIdsPrivate, Rows
  <2> QED BY <1>4, <2>1, <2>2, <2>3, <2>4, <2>5, <2>6, <2>7, <2>8 DEF Fork
<1>5. ASSUME NEW p \in Tasks, SetStatus(p) PROVE TypeOK'
  BY <1>5 DEF SetStatus, RestoreVerify, WriteActive, WriteDormant, WriteDiscarded, WriteArchived,
              WriteStatus, UpdateStatus, TargetsRegistered, Setting, Rows
<1>6. ASSUME NEW p \in Tasks, Sweep(p) PROVE TypeOK'
  BY <1>6 DEF Sweep, SweepDone, SweepRemoveDb, Remove, GcRemoveDir, PurgeRemoveDir, RemoveDir,
              GcMark, PurgeMark, MarkPurged, UpdateStatus
<1>7. ASSUME NEW p \in Tasks, Abort(p) PROVE TypeOK'
  BY <1>7 DEF Abort
<1>8. ASSUME NEW b \in Branches, WriteBranch(b) \/ Age(b) PROVE TypeOK'
  BY <1>8 DEF WriteBranch, Age
<1>9. CASE Crash
  BY <1>9 DEF Crash
<1>10. CASE UNCHANGED vars
  BY <1>10 DEF vars
<1> QED
  BY <1>1, <1>2, <1>3, <1>4, <1>5, <1>6, <1>7, <1>8, <1>9, <1>10, StepCases

\* Only the INSERT of a fork changes the set of rows or what a row says of its
\* lineage.
LEMMA RowsStep ==
  ASSUME IInv, [Next]_vars
  PROVE  \/ Rows' = Rows /\ UNCHANGED <<parent, slug>>
         \/ \E p \in Tasks : InsertRow(p) /\ ~ SlugTaken(newSlug[p])
<1> DEFINE Same == Rows' = Rows /\ UNCHANGED <<parent, slug>>
<1> USE DEF Rows, registry, Goto, Return
<1>1. ASSUME NEW p \in Clients, Open(p) \/ NewWorkspace(p) PROVE Same
  BY <1>1 DEF Open, NewWorkspace
<1>2. ASSUME NEW p \in Tasks, Begin(p) PROVE Same
  BY <1>2 DEF Begin, ForkReadParent, Activate, Deactivate, Discard, Archive, Restore, ReadStatus,
              PurgeList, StartSweep
<1>3. ASSUME NEW p \in Tasks, GcList(p) PROVE Same
  BY <1>3 DEF GcList, StartSweep
<1>4. ASSUME NEW p \in Tasks, Fork(p), ~ InsertRow(p) \/ SlugTaken(newSlug[p]) PROVE Same
  BY <1>4 DEF Fork, ForkCheckLimit, ForkChooseSlug, SourceMissing, SnapCopy, SnapRename, SnapSeal,
              InsertRow, Publish
<1>5. ASSUME NEW p \in Tasks, SetStatus(p) PROVE Same
  BY <1>5 DEF SetStatus, RestoreVerify, WriteActive, WriteDormant, WriteDiscarded, WriteArchived,
              WriteStatus, UpdateStatus, IInv, TypeOK, TargetsRegistered, Setting
<1>6. ASSUME NEW p \in Tasks, Sweep(p) PROVE Same
  BY <1>6 DEF Sweep, SweepDone, SweepRemoveDb, GcRemoveDir, PurgeRemoveDir, RemoveDir,
              GcMark, PurgeMark, MarkPurged, UpdateStatus, IInv, TypeOK, SweepsCondemned, Erasing
<1>7. ASSUME NEW p \in Tasks, Abort(p) PROVE Same
  BY <1>7 DEF Abort
<1>8. ASSUME NEW b \in Branches, WriteBranch(b) \/ Age(b) PROVE Same
  BY <1>8 DEF WriteBranch, Age
<1>9. CASE Crash
  BY <1>9 DEF Crash
<1>10. CASE UNCHANGED vars
  BY <1>10 DEF vars
<1> QED
  BY <1>1, <1>2, <1>3, <1>4, <1>5, <1>6, <1>7, <1>8, <1>9, <1>10, StepCases DEF Fork

\* What the INSERT does when the slug is free.
LEMMA InsertEffect ==
  ASSUME IInv, NEW p \in Tasks, InsertRow(p), ~ SlugTaken(newSlug[p])
  PROVE  /\ newId[p] \in Branches \ Rows
         /\ Rows' = Rows \cup {newId[p]}
         /\ \A b \in Rows : parent'[b] = parent[b] /\ slug'[b] = slug[b] /\ status'[b] = status[b]
         /\ parent'[newId[p]] = target[p] /\ slug'[newId[p]] = newSlug[p]
         /\ status'[newId[p]] = "active"
         /\ IF target[p] = NoBranch THEN newSlug[p] = TrunkSlug ELSE target[p] \in Rows
BY DEF InsertRow, IInv, TypeOK, NewIdsPrivate, TargetsRegistered, Creating, Rows

\* Only an INSERT adds a slug, and UNIQUE(workspace_id, slug) checks it against the
\* rows of that moment, not against the list make_unique saw.
LEMMA SlugsStep ==
  ASSUME IInv, [Next]_vars
  PROVE  SlugsUnique'
<1>1. CASE Rows' = Rows /\ UNCHANGED <<parent, slug>>
  BY <1>1 DEF IInv, SlugsUnique
<1>2. ASSUME NEW p \in Tasks, InsertRow(p), ~ SlugTaken(newSlug[p]) PROVE SlugsUnique'
  BY <1>2, InsertEffect DEF IInv, SlugsUnique, SlugTaken
<1> QED
  BY <1>1, <1>2, RowsStep

\* A path along fewer links is a path along more.
LEMMA ReachesMonotone ==
  ASSUME NEW D, NEW E, D \subseteq E, NEW a, NEW b, Reaches(D, a, b)
  PROVE  Reaches(E, a, b)
BY DEF Reaches

\* A step keeps the lineage grounded: the new row is a leaf under a registered
\* parent, and no row goes away.
LEMMA LineageStep ==
  ASSUME IInv, [Next]_vars
  PROVE  LineageGrounded'
<1>1. CASE Rows' = Rows /\ UNCHANGED <<parent, slug>>
  BY <1>1 DEF IInv, LineageGrounded, ParentLinks, Reaches
<1>2. ASSUME NEW p \in Tasks, InsertRow(p), ~ SlugTaken(newSlug[p]) PROVE LineageGrounded'
  <2> DEFINE b == newId[p]
             a == target[p]
  <2>1. /\ b \in Branches \ Rows
        /\ Rows' = Rows \cup {b}
        /\ \A c \in Rows : parent'[c] = parent[c] /\ slug'[c] = slug[c]
        /\ parent'[b] = a /\ slug'[b] = newSlug[p]
        /\ IF a = NoBranch THEN newSlug[p] = TrunkSlug ELSE a \in Rows
    BY <1>2, InsertEffect
  <2>2. /\ \A c \in Rows : IF parent[c] = NoBranch THEN slug[c] = TrunkSlug ELSE parent[c] \in Rows
        /\ \A e \in ParentLinks : ~ Reaches(ParentLinks, e[2], e[1])
        /\ NoBranch \notin Branches /\ Rows \subseteq Branches
    BY ConstantsAssumption DEF IInv, LineageGrounded, Rows
  <2>3. \A c \in Rows' :
          IF parent'[c] = NoBranch THEN slug'[c] = TrunkSlug ELSE parent'[c] \in Rows'
    BY <2>1, <2>2
  <2>4. /\ ParentLinks' \subseteq ParentLinks \cup {<<a, b>>}
        /\ <<a, b>> \in ParentLinks' => a \in Rows
    BY <2>1, <2>2 DEF ParentLinks
  <2>5. \A e \in ParentLinks : e[1] \in Rows /\ e[2] \in Rows
    BY <2>2 DEF ParentLinks
  \* No link leaves the new branch, so {b} is closed and lacks its parent.
  <2>6. ASSUME <<a, b>> \in ParentLinks' PROVE ~ Reaches(ParentLinks', b, a)
    <3>1. /\ {b} \in SUBSET Branches /\ b \in {b} /\ a \notin {b}
          /\ \A e \in ParentLinks' : e[1] \in {b} => e[2] \in {b}
      BY <2>1, <2>4, <2>5, <2>6
    <3> QED BY <3>1 DEF Reaches
  \* A set that shows an old link is on no cycle still does with b added.
  <2>7. ASSUME NEW e \in ParentLinks PROVE ~ Reaches(ParentLinks', e[2], e[1])
    <3>1. PICK S \in SUBSET Branches :
            /\ e[2] \in S /\ e[1] \notin S
            /\ \A f \in ParentLinks : f[1] \in S => f[2] \in S
      BY <2>2 DEF Reaches
    <3>2. \A f \in ParentLinks' : f[1] \in S \cup {b} => f[2] \in S \cup {b}
      BY <2>1, <2>4, <2>5, <3>1
    <3>3. e[1] \notin S \cup {b} /\ e[2] \in S \cup {b} /\ S \cup {b} \in SUBSET Branches
      BY <2>1, <2>5, <3>1
    <3> QED BY <3>2, <3>3 DEF Reaches
  <2>8. \A e \in ParentLinks' : ~ Reaches(ParentLinks', e[2], e[1])
    BY <2>4, <2>6, <2>7
  <2> QED
    BY <2>3, <2>8 DEF LineageGrounded
<1> QED
  BY <1>1, <1>2, RowsStep

\* A fork that has inserted its row is about to add a link of the registry, and
\* those have no cycle: add_edge accepts it.
LEMMA AcceptedFromIInv ==
  ASSUME IInv
  PROVE  ForkEdgeAccepted
<1> SUFFICES ASSUME NEW p \in Tasks, pc[p] = "metrics", target[p] # NoBranch
             PROVE  newId[p] # target[p] /\ ~ Reaches(edges, newId[p], target[p])
  BY DEF ForkEdgeAccepted
<1>1. <<target[p], newId[p]>> \in ParentLinks /\ newId[p] \in Rows
  BY DEF IInv, NewIdsPrivate, ParentLinks
<1>2. ~ Reaches(ParentLinks, newId[p], target[p])
  BY <1>1 DEF IInv, LineageGrounded
<1>3. newId[p] # target[p]
  BY <1>2 DEF Reaches
<1>4. edges \subseteq ParentLinks
  BY DEF IInv, DagMirrorsRegistry
<1> QED
  BY <1>2, <1>3, <1>4, ReachesMonotone

\* A step keeps the lineage graph inside the registry's links.
LEMMA DagStep ==
  ASSUME IInv, [Next]_vars
  PROVE  DagMirrorsRegistry'
<1>1. Rows \subseteq Rows' /\ ParentLinks \subseteq ParentLinks'
  <2>1. CASE Rows' = Rows /\ UNCHANGED <<parent, slug>>
    BY <2>1 DEF ParentLinks
  <2>2. ASSUME NEW p \in Tasks, InsertRow(p), ~ SlugTaken(newSlug[p])
        PROVE  Rows \subseteq Rows' /\ ParentLinks \subseteq ParentLinks'
    BY <2>2, InsertEffect DEF ParentLinks
  <2> QED BY <2>1, <2>2, RowsStep
\* The registry's links only grow and have no cycle: so have their parts.
<1>2. \A e \in ParentLinks' : ~ Reaches(ParentLinks', e[2], e[1])
  BY LineageStep DEF LineageGrounded
<1>3. ASSUME nodes' \subseteq Rows', edges' \subseteq ParentLinks' \cap (nodes' \X nodes')
      PROVE  DagMirrorsRegistry'
  BY <1>2, <1>3, ReachesMonotone DEF DagMirrorsRegistry
<1>4. CASE UNCHANGED dag
  BY <1>1, <1>3, <1>4 DEF IInv, DagMirrorsRegistry, dag
<1>5. ASSUME NEW p \in Tasks, Publish(p) PROVE DagMirrorsRegistry'
  <2>1. newId[p] \in Rows /\ parent[newId[p]] = target[p]
    BY <1>5 DEF Publish, IInv, NewIdsPrivate
  <2>2. target[p] # NoBranch => target[p] \in Rows /\ <<target[p], newId[p]>> \in ParentLinks
    BY <2>1, <1>5 DEF Publish, IInv, TargetsRegistered, ParentLinks
  <2>3. /\ nodes \subseteq Rows /\ edges \subseteq ParentLinks /\ edges \subseteq nodes \X nodes
    BY DEF IInv, DagMirrorsRegistry
  <2>4. nodes' \subseteq Rows /\ edges' \subseteq ParentLinks /\ edges' \subseteq nodes' \X nodes'
    BY <1>5, <2>1, <2>2, <2>3 DEF Publish, AddEdge
  <2> QED BY <1>1, <1>3, <2>4
<1>6. CASE Crash
  BY <1>3, <1>6 DEF Crash
<1>7. ASSUME NEW p \in Tasks, Fork(p), ~ Publish(p) PROVE UNCHANGED dag
  BY <1>7 DEF Fork, ForkCheckLimit, ForkChooseSlug, SourceMissing, SnapCopy, SnapRename, SnapSeal,
              InsertRow, dag
<1>8. ASSUME NEW p \in Tasks, Begin(p) \/ GcList(p) \/ SetStatus(p) \/ Sweep(p) \/ Abort(p)
      PROVE  UNCHANGED dag
  BY <1>8 DEF Begin, ForkReadParent, Activate, Deactivate, Discard, Archive, Restore, ReadStatus,
              PurgeList, GcList, StartSweep, SetStatus, RestoreVerify, WriteActive, WriteDormant,
              WriteDiscarded, WriteArchived, WriteStatus, Sweep, SweepDone, SweepRemoveDb,
              GcRemoveDir, PurgeRemoveDir, RemoveDir, GcMark, PurgeMark, MarkPurged, Abort, dag
<1>9. ASSUME NEW p \in Clients, Open(p) \/ NewWorkspace(p) PROVE UNCHANGED dag
  BY <1>9 DEF Open, NewWorkspace, dag
<1>10. ASSUME NEW b \in Branches, WriteBranch(b) \/ Age(b) PROVE UNCHANGED dag
  BY <1>10 DEF WriteBranch, Age, dag
<1>11. CASE UNCHANGED vars
  BY <1>4, <1>11 DEF vars
<1> QED
  BY <1>4, <1>5, <1>6, <1>7, <1>8, <1>9, <1>10, <1>11, StepCases

\* The rows tasks work on stay registered while they do.
LEMMA TargetsStep ==
  ASSUME IInv, [Next]_vars
  PROVE  TargetsRegistered'
<1> USE ConstantsAssumption DEF TypeOK, TargetsRegistered, Tasks, Setting, Creating, Goto, Return,
                            locals
<1>0. Rows \subseteq Rows' /\ TypeOK /\ TargetsRegistered
  BY RowsStep, InsertEffect DEF IInv
<1>1. ASSUME NEW p \in Clients, Open(p) \/ NewWorkspace(p) PROVE TargetsRegistered'
  BY <1>0, <1>1 DEF Open, NewWorkspace
<1>2. ASSUME NEW p \in Tasks, Begin(p) PROVE TargetsRegistered'
  BY <1>0, <1>2 DEF Begin, ForkReadParent, Activate, Deactivate, Discard, Archive, Restore,
     ReadStatus,
                    Calls, PurgeList, StartSweep
<1>3. ASSUME NEW p \in Tasks, GcList(p) PROVE TargetsRegistered'
  BY <1>0, <1>3 DEF GcList, StartSweep
<1>4. ASSUME NEW p \in Tasks, Fork(p) PROVE TargetsRegistered'
  <2>1. CASE ForkCheckLimit(p) BY <1>0, <2>1 DEF ForkCheckLimit
  <2>2. CASE ForkChooseSlug(p) BY <1>0, <2>2 DEF ForkChooseSlug, Slugs, Rows
  <2>3. CASE SourceMissing(p) BY <1>0, <2>3 DEF SourceMissing
  <2>4. CASE SnapCopy(p) BY <1>0, <2>4 DEF SnapCopy
  <2>5. CASE SnapRename(p) BY <1>0, <2>5 DEF SnapRename
  <2>6. CASE SnapSeal(p) BY <1>0, <2>6 DEF SnapSeal
  <2>7. CASE InsertRow(p) BY <1>0, <2>7 DEF InsertRow
  <2>8. CASE Publish(p) BY <1>0, <2>8 DEF Publish
  <2> QED BY <1>4, <2>1, <2>2, <2>3, <2>4, <2>5, <2>6, <2>7, <2>8 DEF Fork
<1>5. ASSUME NEW p \in Tasks, SetStatus(p) PROVE TargetsRegistered'
  BY <1>0, <1>5 DEF SetStatus, RestoreVerify, WriteActive, WriteDormant, WriteDiscarded,
     WriteArchived,
                    WriteStatus
<1>6. ASSUME NEW p \in Tasks, Sweep(p) PROVE TargetsRegistered'
  BY <1>0, <1>6 DEF Sweep, SweepDone, SweepRemoveDb, GcRemoveDir, PurgeRemoveDir, RemoveDir,
                    GcMark, PurgeMark, MarkPurged
<1>7. ASSUME NEW p \in Tasks, Abort(p) PROVE TargetsRegistered'
  BY <1>0, <1>7 DEF Abort
<1>8. ASSUME NEW b \in Branches, WriteBranch(b) \/ Age(b) PROVE TargetsRegistered'
  BY <1>0, <1>8 DEF WriteBranch, Age
<1>9. CASE Crash
  BY <1>9 DEF Crash
<1>10. CASE UNCHANGED vars
  BY <1>0, <1>10 DEF vars
<1> QED
  BY <1>1, <1>2, <1>3, <1>4, <1>5, <1>6, <1>7, <1>8, <1>9, <1>10, StepCases

\* The branch a task creates stays its own.
LEMMA NewIdsStep ==
  ASSUME IInv, [Next]_vars
  PROVE  NewIdsPrivate'
<1> USE ConstantsAssumption DEF TypeOK, NewIdsPrivate, Tasks, Creating, Goto, Return, locals
<1>0. TypeOK /\ NewIdsPrivate
  BY DEF IInv
<1>a. CASE Rows' = Rows /\ UNCHANGED <<parent, slug>>
  <2>1. ASSUME NEW p \in Clients, Open(p) \/ NewWorkspace(p) PROVE NewIdsPrivate'
    BY <1>0, <1>a, <2>1 DEF Open, NewWorkspace
  <2>2. ASSUME NEW p \in Tasks, Begin(p) PROVE NewIdsPrivate'
    BY <1>0, <1>a, <2>2 DEF Begin, ForkReadParent, Activate, Deactivate, Discard, Archive, Restore,
                            ReadStatus, Calls, PurgeList, StartSweep
  <2>3. ASSUME NEW p \in Tasks, GcList(p) PROVE NewIdsPrivate'
    BY <1>0, <1>a, <2>3 DEF GcList, StartSweep
  <2>4. ASSUME NEW p \in Tasks, Fork(p) PROVE NewIdsPrivate'
    <3>1. CASE ForkCheckLimit(p) BY <1>0, <1>a, <3>1 DEF ForkCheckLimit
    <3>2. CASE ForkChooseSlug(p) BY <1>0, <1>a, <3>2 DEF ForkChooseSlug
    <3>3. CASE SourceMissing(p) BY <1>0, <1>a, <3>3 DEF SourceMissing
    <3>4. CASE SnapCopy(p) BY <1>0, <1>a, <3>4 DEF SnapCopy, Fresh, Rows
    <3>5. CASE SnapRename(p) BY <1>0, <1>a, <3>5 DEF SnapRename
    <3>6. CASE SnapSeal(p) BY <1>0, <1>a, <3>6 DEF SnapSeal
    <3>7. CASE InsertRow(p)
      <4>1. SlugTaken(newSlug[p])
        BY <1>a, <3>7, InsertEffect
      <4> QED BY <1>0, <1>a, <3>7, <4>1 DEF InsertRow
    <3>8. CASE Publish(p) BY <1>0, <1>a, <3>8 DEF Publish
    <3> QED BY <2>4, <3>1, <3>2, <3>3, <3>4, <3>5, <3>6, <3>7, <3>8 DEF Fork
  <2>5. ASSUME NEW p \in Tasks, SetStatus(p) PROVE NewIdsPrivate'
    BY <1>0, <1>a, <2>5 DEF SetStatus, RestoreVerify, WriteActive, WriteDormant, WriteDiscarded,
                            WriteArchived, WriteStatus
  <2>6. ASSUME NEW p \in Tasks, Sweep(p) PROVE NewIdsPrivate'
    BY <1>0, <1>a, <2>6 DEF Sweep, SweepDone, SweepRemoveDb, GcRemoveDir, PurgeRemoveDir, RemoveDir,
                            GcMark, PurgeMark, MarkPurged
  <2>7. ASSUME NEW p \in Tasks, Abort(p) PROVE NewIdsPrivate'
    BY <1>0, <1>a, <2>7 DEF Abort
  <2>8. ASSUME NEW b \in Branches, WriteBranch(b) \/ Age(b) PROVE NewIdsPrivate'
    BY <1>0, <1>a, <2>8 DEF WriteBranch, Age
  <2>9. CASE Crash
    BY <2>9 DEF Crash
  <2>10. CASE UNCHANGED vars
    BY <1>0, <1>a, <2>10 DEF vars
  <2> QED
    BY <2>1, <2>2, <2>3, <2>4, <2>5, <2>6, <2>7, <2>8, <2>9, <2>10, StepCases
<1>b. ASSUME NEW p \in Tasks, InsertRow(p), ~ SlugTaken(newSlug[p]) PROVE NewIdsPrivate'
  <2>1. /\ newId[p] \in Branches \ Rows /\ Rows' = Rows \cup {newId[p]}
        /\ \A b \in Rows : parent'[b] = parent[b]
        /\ parent'[newId[p]] = target[p]
    BY <1>b, InsertEffect
  <2>2. newId' = newId /\ target' = target /\ pc' = [pc EXCEPT ![p] = "metrics"]
    BY <1>b DEF InsertRow
  <2>3. pc[p] = "insert"
    BY <1>b DEF InsertRow
  <2> QED BY <1>0, <2>1, <2>2, <2>3
<1> QED
  BY <1>a, <1>b, RowsStep

\* A step never takes a part of a snapshot away, unless the branch is condemned,
\* and never adds one to a registered branch.
LEMMA DiskStep ==
  ASSUME IInv, [Next]_vars, NEW b \in Branches
  PROVE  \/ /\ disk[b] \cap Complete \subseteq disk'[b]
            /\ b \in Rows => disk'[b] \cap Complete \subseteq disk[b]
         \/ b \in condemned /\ disk'[b] \subseteq disk[b]
<1> DEFINE Kept == disk[b] \cap Complete \subseteq disk'[b]
           Good == \/ Kept /\ (b \in Rows => disk'[b] \cap Complete \subseteq disk[b])
                   \/ b \in condemned /\ disk'[b] \subseteq disk[b]
<1> USE DEF TypeOK, Complete, files
<1>0. TypeOK /\ NewIdsPrivate /\ SweepsCondemned
  BY DEF IInv
<1>1. CASE UNCHANGED disk
  BY <1>1
<1>2. ASSUME NEW p \in Clients, Open(p) \/ NewWorkspace(p) PROVE Good
  BY <1>0, <1>2 DEF Open, NewWorkspace, CleanTmp
<1>3. ASSUME NEW p \in Tasks, Fork(p) PROVE Good
  <2>1. CASE SnapCopy(p) BY <1>0, <2>1 DEF SnapCopy
  <2>2. CASE SnapRename(p) BY <1>0, <2>2 DEF SnapRename, NewIdsPrivate, Creating
  <2>3. CASE SnapSeal(p) BY <1>0, <2>3 DEF SnapSeal, NewIdsPrivate, Creating
  <2>4. CASE ~ SnapCopy(p) /\ ~ SnapRename(p) /\ ~ SnapSeal(p)
    BY <1>1, <1>3, <2>4 DEF Fork, ForkCheckLimit, ForkChooseSlug, SourceMissing, InsertRow, Publish
  <2> QED BY <2>1, <2>2, <2>3, <2>4
<1>4. ASSUME NEW p \in Tasks, Sweep(p) PROVE Good
  <2>1. CASE SweepRemoveDb(p) BY <1>0, <2>1 DEF SweepRemoveDb, Remove, SweepsCondemned
  <2>2. CASE GcRemoveDir(p)
    BY <1>0, <2>2 DEF GcRemoveDir, RemoveDir, Remove, SweepsCondemned, Erasing
  <2>3. CASE PurgeRemoveDir(p)
    BY <1>0, <2>3 DEF PurgeRemoveDir, RemoveDir, Remove, SweepsCondemned, Erasing
  <2>4. CASE SweepDone(p) \/ GcMark(p) \/ PurgeMark(p)
    BY <1>1, <2>4 DEF SweepDone, GcMark, PurgeMark, MarkPurged
  <2> QED BY <1>4, <2>1, <2>2, <2>3, <2>4 DEF Sweep
<1>5. ASSUME NEW p \in Tasks, Begin(p) \/ GcList(p) \/ SetStatus(p) \/ Abort(p)
      PROVE  UNCHANGED disk
  BY <1>5 DEF Begin, ForkReadParent, Activate, Deactivate, Discard, Archive, Restore, ReadStatus,
              PurgeList, GcList, StartSweep, SetStatus, RestoreVerify, WriteActive, WriteDormant,
              WriteDiscarded, WriteArchived, WriteStatus, Abort
<1>6. ASSUME NEW c \in Branches, WriteBranch(c) \/ Age(c) PROVE UNCHANGED disk
  BY <1>6 DEF WriteBranch, Age
<1>7. CASE Crash
  BY <1>1, <1>7 DEF Crash
<1>8. CASE UNCHANGED vars
  BY <1>1, <1>8 DEF vars
<1> QED
  BY <1>1, <1>2, <1>3, <1>4, <1>5, <1>6, <1>7, <1>8, StepCases

\* A status is left alone, is written by a task for its own target, or is that
\* of a new row; condemned grows by the targets of discard only.
LEMMA StatusStep ==
  ASSUME IInv, [Next]_vars
  PROVE  \/ UNCHANGED <<status, condemned>>
         \/ \E p \in Tasks : InsertRow(p) /\ UNCHANGED condemned
         \/ \E p \in Tasks, s \in {"active", "dormant", "archived"} :
              /\ target[p] \in Rows /\ UNCHANGED condemned
              /\ status' = [status EXCEPT ![target[p]] = s]
         \/ \E p \in Tasks :
              /\ target[p] \in Rows /\ condemned' = condemned \cup {target[p]}
              /\ status' = [status EXCEPT ![target[p]] = "discarded"]
         \/ \E p \in Tasks :
              /\ pc[p] \in {"gc_mark", "purge_mark"} /\ UNCHANGED <<condemned, disk>>
              /\ status' = [status EXCEPT ![target[p]] = "purged"]
<1> DEFINE Same == UNCHANGED <<status, condemned>>
<1> USE DEF registry
<1>1. ASSUME NEW p \in Clients, Open(p) \/ NewWorkspace(p) PROVE Same
  BY <1>1 DEF Open, NewWorkspace
<1>2. ASSUME NEW p \in Tasks, Begin(p) \/ GcList(p) \/ Abort(p) PROVE Same
  BY <1>2 DEF Begin, ForkReadParent, Activate, Deactivate, Discard, Archive, Restore, ReadStatus,
              PurgeList, GcList, StartSweep, Abort
<1>3. ASSUME NEW p \in Tasks, Fork(p), ~ InsertRow(p) PROVE Same
  BY <1>3 DEF Fork, ForkCheckLimit, ForkChooseSlug, SourceMissing, SnapCopy, SnapRename, SnapSeal,
              Publish
<1>4. ASSUME NEW p \in Tasks, InsertRow(p) PROVE UNCHANGED condemned
  BY <1>4 DEF InsertRow
<1>5. ASSUME NEW p \in Tasks, SetStatus(p)
      PROVE  \/ Same
             \/ \E s \in {"active", "dormant", "archived"} :
                  /\ target[p] \in Rows /\ UNCHANGED condemned
                  /\ status' = [status EXCEPT ![target[p]] = s]
             \/ /\ target[p] \in Rows /\ condemned' = condemned \cup {target[p]}
                /\ status' = [status EXCEPT ![target[p]] = "discarded"]
  <2>1. pc[p] \in Setting => target[p] \in Rows
    BY DEF IInv, TargetsRegistered
  <2> QED
    BY <1>5, <2>1 DEF SetStatus, RestoreVerify, WriteActive, WriteDormant, WriteDiscarded,
                      WriteArchived, WriteStatus, UpdateStatus, Setting
<1>6. ASSUME NEW p \in Tasks, Sweep(p)
      PROVE  \/ Same
             \/ /\ pc[p] \in {"gc_mark", "purge_mark"} /\ UNCHANGED <<condemned, disk>>
                /\ status' = [status EXCEPT ![target[p]] = "purged"]
  BY <1>6 DEF Sweep, SweepDone, SweepRemoveDb, GcRemoveDir, PurgeRemoveDir, RemoveDir, GcMark,
              PurgeMark, MarkPurged, UpdateStatus, files
<1>7. ASSUME NEW c \in Branches, WriteBranch(c) \/ Age(c) PROVE Same
  BY <1>7 DEF WriteBranch, Age
<1>8. CASE Crash
  BY <1>8 DEF Crash
<1>9. CASE UNCHANGED vars
  BY <1>9 DEF vars
<1> QED
  BY <1>1, <1>2, <1>3, <1>4, <1>5, <1>6, <1>7, <1>8, <1>9, StepCases

\* The snapshot a task builds loses nothing until its row is inserted.
LEMMA SnapshotStep ==
  ASSUME IInv, [Next]_vars
  PROVE  SnapshotBeforeRow'
<1> USE ConstantsAssumption DEF TypeOK, SnapshotBeforeRow, Complete, Goto, Return, locals
<1>0. TypeOK /\ SnapshotBeforeRow /\ NewIdsPrivate /\ condemned \subseteq Rows
  BY DEF IInv, SweepsCondemned
<1>1. ASSUME NEW p \in Tasks, pc[p] \in {"snap_seal", "insert"}
      PROVE  newId[p] \in Branches /\ disk[newId[p]] \cap Complete \subseteq disk'[newId[p]]
  <2>1. newId[p] \in Branches \ Rows
    BY <1>0, <1>1 DEF NewIdsPrivate, Creating
  <2> QED BY <1>0, <2>1, DiskStep
\* A task that does not enter one of the two steps keeps what it had there.
<1>2. ASSUME \A p \in Tasks : pc'[p] \in {"snap_seal", "insert"} =>
               pc'[p] = pc[p] /\ newId'[p] = newId[p]
      PROVE  SnapshotBeforeRow'
  BY <1>0, <1>1, <1>2
<1>3. ASSUME NEW p \in Clients, Open(p) \/ NewWorkspace(p) PROVE SnapshotBeforeRow'
  BY <1>0, <1>2, <1>3 DEF Open, NewWorkspace, Tasks
<1>4. ASSUME NEW p \in Tasks, Fork(p) PROVE SnapshotBeforeRow'
  <2>1. CASE SnapRename(p)
    <3>1. newId[p] \in Branches
      BY <1>0, <2>1 DEF SnapRename, NewIdsPrivate, Creating
    <3>2. "db" \in disk'[newId'[p]] /\ pc'[p] = "snap_seal"
      BY <1>0, <2>1, <3>1 DEF SnapRename
    <3>3. \A q \in Tasks : q # p => pc'[q] = pc[q] /\ newId'[q] = newId[q]
      BY <1>0, <2>1 DEF SnapRename
    <3> QED BY <1>0, <1>1, <3>2, <3>3
  <2>2. CASE SnapSeal(p)
    <3>1. newId[p] \in Branches /\ "db" \in disk[newId[p]]
      BY <1>0, <2>2 DEF SnapSeal, NewIdsPrivate, Creating
    <3>2. Complete \subseteq disk'[newId'[p]] /\ pc'[p] = "insert"
      BY <1>0, <2>2, <3>1 DEF SnapSeal
    <3>3. \A q \in Tasks : q # p => pc'[q] = pc[q] /\ newId'[q] = newId[q]
      BY <1>0, <2>2 DEF SnapSeal
    <3> QED BY <1>0, <1>1, <3>2, <3>3
  <2>3. CASE ~ SnapRename(p) /\ ~ SnapSeal(p)
    BY <1>0, <1>2, <1>4, <2>3 DEF Fork, ForkCheckLimit, ForkChooseSlug, SourceMissing, SnapCopy,
                                  InsertRow, Publish
  <2> QED BY <2>1, <2>2, <2>3
<1>5. ASSUME NEW p \in Tasks, Begin(p) \/ GcList(p) \/ Abort(p) PROVE SnapshotBeforeRow'
  BY <1>0, <1>2, <1>5 DEF Begin, ForkReadParent, Activate, Deactivate, Discard, Archive, Restore,
                          ReadStatus, PurgeList, GcList, StartSweep, Abort
<1>6. ASSUME NEW p \in Tasks, SetStatus(p) PROVE SnapshotBeforeRow'
  BY <1>0, <1>2, <1>6 DEF SetStatus, RestoreVerify, WriteActive, WriteDormant, WriteDiscarded,
                          WriteArchived, WriteStatus
<1>7. ASSUME NEW p \in Tasks, Sweep(p) PROVE SnapshotBeforeRow'
  BY <1>0, <1>2, <1>7 DEF Sweep, SweepDone, SweepRemoveDb, GcRemoveDir, PurgeRemoveDir, RemoveDir,
                          GcMark, PurgeMark, MarkPurged
<1>8. ASSUME NEW c \in Branches, WriteBranch(c) \/ Age(c) PROVE SnapshotBeforeRow'
  BY <1>0, <1>2, <1>8 DEF WriteBranch, Age
<1>9. CASE Crash
  BY <1>2, <1>9 DEF Crash
<1>10. CASE UNCHANGED vars
  BY <1>0, <1>2, <1>10 DEF vars
<1> QED
  BY <1>3, <1>4, <1>5, <1>6, <1>7, <1>8, <1>9, <1>10, StepCases

\* A sweep stays among the condemned rows, and no database comes back to them.
LEMMA SweepsStep ==
  ASSUME IInv, [Next]_vars
  PROVE  SweepsCondemned'
<1> USE ConstantsAssumption DEF TypeOK, Erasing, Goto, Return, locals
<1>0. TypeOK /\ SweepsCondemned
  BY DEF IInv
<1>1. condemned \subseteq condemned' /\ condemned' \subseteq Rows'
  <2>1. Rows \subseteq Rows'
    BY RowsStep, InsertEffect
  <2> QED BY <1>0, <2>1, StatusStep DEF SweepsCondemned
<1>2. \A b \in Branches : status'[b] = "discarded" => b \in condemned'
  BY <1>0, StatusStep DEF SweepsCondemned, InsertRow
<1>3. \A b \in condemned : "db" \notin disk[b] => "db" \notin disk'[b]
  BY <1>0, DiskStep DEF SweepsCondemned, Complete
\* What remains is about each task's own listing and target.
<1> DEFINE Mine(p) == /\ work[p] \subseteq condemned
                      /\ pc[p] \in Erasing => target[p] \in condemned
                      /\ pc[p] \in Erasing /\ ~ RemovalFails => "db" \notin disk[target[p]]
<1>4. ASSUME NEW q \in Tasks,
             work'[q] \subseteq work[q],
             pc'[q] \in Erasing => pc[q] \in Erasing /\ target'[q] = target[q]
      PROVE  Mine(q)'
  BY <1>0, <1>1, <1>3, <1>4 DEF SweepsCondemned
<1>5. ASSUME NEW p \in Clients, Open(p) \/ NewWorkspace(p), NEW q \in Tasks PROVE Mine(q)'
  BY <1>0, <1>4, <1>5 DEF Open, NewWorkspace, Tasks
<1>6. ASSUME NEW p \in Tasks, Begin(p) \/ GcList(p), NEW q \in Tasks PROVE Mine(q)'
  <2>1. CASE PurgeList(p) \/ GcList(p)
    BY <1>0, <1>1, <1>4, <2>1 DEF PurgeList, GcList, StartSweep, DiscardedRows, SweepsCondemned
  <2>2. CASE Begin(p) /\ ~ PurgeList(p)
    BY <1>0, <1>4, <2>2 DEF Begin, ForkReadParent, Activate, Deactivate, Discard, Archive, Restore,
                            ReadStatus
  <2> QED BY <1>6, <2>1, <2>2
<1>7. ASSUME NEW p \in Tasks, Fork(p), NEW q \in Tasks PROVE Mine(q)'
  BY <1>0, <1>4, <1>7 DEF Fork, ForkCheckLimit, ForkChooseSlug, SourceMissing, SnapCopy, SnapRename,
                          SnapSeal, InsertRow, Publish
<1>8. ASSUME NEW p \in Tasks, SetStatus(p), NEW q \in Tasks PROVE Mine(q)'
  BY <1>0, <1>4, <1>8 DEF SetStatus, RestoreVerify, WriteActive, WriteDormant, WriteDiscarded,
                          WriteArchived, WriteStatus
<1>9. ASSUME NEW p \in Tasks, Sweep(p), NEW q \in Tasks PROVE Mine(q)'
  <2>1. CASE SweepRemoveDb(p) /\ q = p
    <3>1. PICK b \in work[p] :
            /\ target' = [target EXCEPT ![p] = b]
            /\ work' = [work EXCEPT ![p] = @ \ {b}]
            /\ Remove(b, Complete)
      BY <2>1 DEF SweepRemoveDb
    <3>2. b \in condemned /\ b \in Branches /\ work'[q] \subseteq work[q] /\ target'[q] = b
      BY <1>0, <2>1, <3>1 DEF SweepsCondemned
    <3>3. ~ RemovalFails => "db" \notin disk'[b]
      BY <1>0, <3>1, <3>2 DEF Remove, Complete
    <3> QED BY <1>0, <1>1, <3>2, <3>3 DEF SweepsCondemned
  <2>2. CASE SweepRemoveDb(p) /\ q # p
    BY <1>0, <1>4, <2>2 DEF SweepRemoveDb
  <2>3. CASE ~ SweepRemoveDb(p)
    BY <1>0, <1>4, <1>9, <2>3 DEF Sweep, SweepDone, GcRemoveDir, PurgeRemoveDir, RemoveDir,
                                  GcMark, PurgeMark, MarkPurged
  <2> QED BY <2>1, <2>2, <2>3
<1>10. ASSUME NEW p \in Tasks, Abort(p), NEW q \in Tasks PROVE Mine(q)'
  BY <1>0, <1>4, <1>10 DEF Abort
<1>11. ASSUME NEW c \in Branches, WriteBranch(c) \/ Age(c), NEW q \in Tasks PROVE Mine(q)'
  BY <1>0, <1>4, <1>11 DEF WriteBranch, Age
<1>12. ASSUME Crash, NEW q \in Tasks PROVE Mine(q)'
  BY <1>4, <1>12 DEF Crash
<1>13. ASSUME UNCHANGED vars, NEW q \in Tasks PROVE Mine(q)'
  BY <1>0, <1>4, <1>13 DEF vars
<1>14. \A q \in Tasks : Mine(q)'
  BY <1>5, <1>6, <1>7, <1>8, <1>9, <1>10, <1>11, <1>12, <1>13, StepCases
<1>15. Tasks' = Tasks /\ Erasing' = Erasing
  BY DEF Tasks
<1> QED
  BY <1>1, <1>2, <1>14 DEF SweepsCondemned

\* A new row has its whole snapshot, and only condemned rows lose theirs.
LEMMA NoDataLossStep ==
  ASSUME IInv, [Next]_vars
  PROVE  NoDataLoss'
<1> SUFFICES ASSUME NEW b \in Rows', b \notin condemned' PROVE Complete \subseteq disk'[b]
  BY DEF NoDataLoss
<1>1. b \in Branches /\ b \notin condemned
  BY StatusStep DEF Rows
<1>2. CASE b \in Rows
  BY <1>1, <1>2, DiskStep DEF IInv, NoDataLoss
<1>3. CASE b \notin Rows
  <2>1. PICK p \in Tasks : InsertRow(p) /\ ~ SlugTaken(newSlug[p])
    BY <1>3, RowsStep
  <2>2. b = newId[p] /\ pc[p] = "insert" /\ disk' = disk
    BY <1>3, <2>1, InsertEffect DEF InsertRow, files
  <2> QED BY <2>2 DEF IInv, SnapshotBeforeRow
<1> QED BY <1>2, <1>3

\* A row is marked purged by a sweep that has deleted its database, and keeps
\* having none.
LEMMA PurgedErasedStep ==
  ASSUME IInv, [Next]_vars
  PROVE  PurgedErased'
<1> SUFFICES ASSUME ~ RemovalFails, NEW b \in Branches, status'[b] = "purged"
             PROVE  "db" \notin disk'[b]
  BY DEF PurgedErased
<1>1. CASE status[b] = "purged"
  <2>1. b \in Rows /\ "db" \notin disk[b]
    BY <1>1 DEF Rows, IInv, PurgedErased
  <2> QED BY <2>1, DiskStep DEF Complete
<1>2. CASE status[b] # "purged"
  <2>1. PICK p \in Tasks : /\ pc[p] \in {"gc_mark", "purge_mark"} /\ UNCHANGED disk
                           /\ status' = [status EXCEPT ![target[p]] = "purged"]
    BY <1>2, StatusStep, InsertEffect DEF InsertRow, IInv, TypeOK
  <2>2. target[p] = b
    BY <1>2, <2>1 DEF IInv, TypeOK
  <2> QED BY <2>1, <2>2 DEF IInv, SweepsCondemned, Erasing
<1> QED BY <1>1, <1>2

\* The invariant holds before the engine is first started ...
LEMMA InvInit ==
  ASSUME Init
  PROVE  IInv
<1> USE ConstantsAssumption DEF Init
<1>1. Rows = {} /\ ParentLinks = {}
  BY DEF Rows, ParentLinks
<1>2. TypeOK
  BY DEF TypeOK, Labels
<1>3. TargetsRegistered /\ NewIdsPrivate /\ SnapshotBeforeRow
  BY DEF TargetsRegistered, NewIdsPrivate, SnapshotBeforeRow, Setting, Creating
<1>4. SweepsCondemned
  BY DEF SweepsCondemned, Erasing
<1>5. NoDataLoss /\ PurgedErased /\ SlugsUnique /\ LineageGrounded
  BY <1>1 DEF NoDataLoss, PurgedErased, SlugsUnique, LineageGrounded
<1>6. DagMirrorsRegistry
  BY <1>1 DEF DagMirrorsRegistry
<1> QED
  BY <1>2, <1>3, <1>4, <1>5, <1>6 DEF IInv

\* ... and every step of a task, of the world or of a crash preserves it.
LEMMA InvStep ==
  ASSUME IInv, [Next]_vars
  PROVE  IInv'
BY TypeStep, TargetsStep, NewIdsStep, SnapshotStep, SweepsStep, NoDataLossStep, PurgedErasedStep,
   SlugsStep, LineageStep, DagStep DEF IInv

\* IInv is an invariant, whatever the numbers of tasks, branches and crashes.
THEOREM Invariance == Spec => []IInv
<1>1. Init => IInv
  BY InvInit
<1>2. IInv /\ [Next]_vars => IInv'
  BY InvStep
<1> QED
  BY <1>1, <1>2, PTL DEF Spec

\* The variables keep their types.
THEOREM TypeCorrect == Spec => []TypeOK
<1>1. IInv => TypeOK
  BY DEF IInv
<1> QED
  BY <1>1, Invariance, PTL

\* No interleaving, failure or crash costs a branch its data before a discard
\* of it was recorded.
THEOREM DataIsSafe == Spec => []NoDataLoss
<1>1. IInv => NoDataLoss
  BY DEF IInv
<1> QED
  BY <1>1, Invariance, PTL

\* Where removals succeed, a row marked purged has no database.
THEOREM PurgesErase == Spec => []PurgedErased
<1>1. IInv => PurgedErased
  BY DEF IInv
<1> QED
  BY <1>1, Invariance, PTL

\* Racing forks never give two branches the same slug.
THEOREM SlugsNeverClash == Spec => []SlugsUnique
<1>1. IInv => SlugsUnique
  BY DEF IInv
<1> QED
  BY <1>1, Invariance, PTL

\* The lineage in the registry is a forest over rows that are never deleted,
\* rooted at the trunk.
THEOREM LineageIsGrounded == Spec => []LineageGrounded
<1>1. IInv => LineageGrounded
  BY DEF IInv
<1> QED
  BY <1>1, Invariance, PTL

\* The lineage graph in memory is an acyclic part of that forest.
THEOREM DagIsFaithful == Spec => []DagMirrorsRegistry
<1>1. IInv => DagMirrorsRegistry
  BY DEF IInv
<1> QED
  BY <1>1, Invariance, PTL

\* The DagCycle error of add_edge never ends a fork.
THEOREM ForksAreLinked == Spec => []ForkEdgeAccepted
<1>1. IInv => ForkEdgeAccepted
  BY AcceptedFromIInv
<1> QED
  BY <1>1, Invariance, PTL

-----------------------------------------------------------------------------
\* The registry and the files implement BranchData: the INSERT of a fork is
\* PublishData, the write of a discard is Condemn, the removal of a database by
\* a sweep is Erase, and nothing else shows.
LEMMA PromiseInit ==
  ASSUME Init
  PROVE  Promise!DataInit
BY DEF Init, Promise!DataInit, data, Rows

\* A step of the engine is a step of BranchData or changes nothing of it.
LEMMA PromiseStep ==
  ASSUME IInv, [Next]_vars
  PROVE  [Promise!DataNext]_(Promise!dataVars)
<1> DEFINE SameDb == \A b \in Rows : "db" \in disk'[b] <=> "db" \in disk[b]
<1> USE DEF Promise!dataVars, files
<1>0. TypeOK /\ NewIdsPrivate /\ SweepsCondemned /\ TargetsRegistered
  BY DEF IInv
<1>1. ASSUME Rows' = Rows, SameDb PROVE UNCHANGED data
  BY <1>1 DEF data
<1>2. ASSUME NEW p \in Tasks, InsertRow(p), ~ SlugTaken(newSlug[p])
      PROVE  Promise!DataNext
  <2> DEFINE b == newId[p]
  <2>1. b \in Branches /\ b \notin Rows /\ Rows' = Rows \cup {b}
    BY <1>2, InsertEffect
  <2>2. "db" \in disk[b] /\ UNCHANGED <<disk, condemned>>
    BY <1>2 DEF InsertRow, IInv, SnapshotBeforeRow, Complete
  <2>3. data[b] = "absent" /\ data' = [data EXCEPT ![b] = "stored"]
    BY <2>1, <2>2 DEF data
  <2> QED BY <2>1, <2>2, <2>3 DEF Promise!DataNext, Promise!PublishData
<1>3. CASE Rows' = Rows /\ UNCHANGED disk
  <2>1. UNCHANGED data
    BY <1>1, <1>3
  <2>2. CASE UNCHANGED condemned
    BY <2>1, <2>2
  <2>3. ASSUME NEW p \in Tasks, target[p] \in Rows, condemned' = condemned \cup {target[p]}
        PROVE  Promise!DataNext
    <3>1. target[p] \in Branches /\ data[target[p]] # "absent"
      BY <2>3 DEF data, Rows
    <3> QED BY <2>1, <2>3, <3>1 DEF Promise!DataNext, Promise!Condemn
  <2> QED BY <2>2, <2>3, StatusStep
<1>4. CASE Rows' = Rows /\ SameDb /\ UNCHANGED condemned
  BY <1>1, <1>4
<1>5. ASSUME Rows' = Rows, UNCHANGED condemned, NEW b \in condemned,
             \/ disk' = [disk EXCEPT ![b] = @ \ Complete]
             \/ disk' = [disk EXCEPT ![b] = @ \ Parts]
      PROVE  [Promise!DataNext]_(Promise!dataVars)
  <2>1. b \in Rows /\ b \in Branches
    BY <1>0, <1>5 DEF SweepsCondemned, Rows
  <2>2. "db" \notin disk'[b] /\ \A c \in Branches \ {b} : disk'[c] = disk[c]
    BY <1>0, <1>5, <2>1 DEF TypeOK, Complete, Parts
  <2>3. CASE "db" \in disk[b]
    <3>1. data[b] = "stored" /\ data' = [data EXCEPT ![b] = "erased"]
      BY <1>5, <2>1, <2>2, <2>3 DEF data
    <3> QED BY <1>5, <2>1, <3>1 DEF Promise!DataNext, Promise!Erase
  <2>4. CASE "db" \notin disk[b]
    BY <1>4, <1>5, <2>1, <2>2, <2>4 DEF Rows
  <2> QED BY <2>3, <2>4
\* Which of these cases each action is.
<1>6. ASSUME Rows' = Rows, NEW p \in Clients, Open(p) \/ NewWorkspace(p)
      PROVE  SameDb /\ UNCHANGED condemned
  BY <1>0, <1>6 DEF Open, NewWorkspace, CleanTmp, registry, TypeOK, Rows
<1>7. ASSUME Rows' = Rows, NEW p \in Tasks, Fork(p)
      PROVE  SameDb /\ UNCHANGED condemned
  <2>1. CASE SnapCopy(p)
    BY <1>0, <2>1 DEF SnapCopy, registry, TypeOK, Rows
  <2>2. CASE SnapRename(p)
    BY <1>0, <2>2 DEF SnapRename, registry, TypeOK, NewIdsPrivate, Creating, Rows
  <2>3. CASE SnapSeal(p)
    BY <1>0, <2>3 DEF SnapSeal, registry, TypeOK, NewIdsPrivate, Creating, Rows
  <2>4. CASE ~ SnapCopy(p) /\ ~ SnapRename(p) /\ ~ SnapSeal(p)
    BY <1>7, <2>4 DEF Fork, ForkCheckLimit, ForkChooseSlug, SourceMissing, InsertRow, Publish,
       registry
  <2> QED BY <2>1, <2>2, <2>3, <2>4
<1>8. ASSUME NEW p \in Tasks, Sweep(p), Rows' = Rows PROVE [Promise!DataNext]_(Promise!dataVars)
  <2>1. CASE SweepRemoveDb(p)
    <3>1. PICK b \in work[p] : Remove(b, Complete)
      BY <2>1 DEF SweepRemoveDb
    <3>2. b \in condemned /\ UNCHANGED condemned
      BY <1>0, <2>1, <3>1 DEF SweepsCondemned, SweepRemoveDb, registry
    <3> QED BY <1>3, <1>5, <1>8, <3>1, <3>2 DEF Remove
  <2>2. CASE GcRemoveDir(p) \/ PurgeRemoveDir(p)
    <3>1. target[p] \in condemned /\ UNCHANGED condemned /\ Remove(target[p], Parts)
      BY <1>0, <2>2 DEF SweepsCondemned, Erasing, GcRemoveDir, PurgeRemoveDir, RemoveDir, registry
    <3> QED BY <1>3, <1>5, <1>8, <3>1 DEF Remove
  <2>3. CASE SweepDone(p) \/ GcMark(p) \/ PurgeMark(p)
    BY <1>3, <1>8, <2>3 DEF SweepDone, GcMark, PurgeMark, MarkPurged
  <2> QED BY <1>8, <2>1, <2>2, <2>3 DEF Sweep
<1>9. ASSUME NEW p \in Tasks, Begin(p) \/ GcList(p) \/ SetStatus(p) \/ Abort(p)
      PROVE  UNCHANGED disk
  BY <1>9 DEF Begin, ForkReadParent, Activate, Deactivate, Discard, Archive, Restore, ReadStatus,
              PurgeList, GcList, StartSweep, SetStatus, RestoreVerify, WriteActive, WriteDormant,
              WriteDiscarded, WriteArchived, WriteStatus, Abort
<1>10. ASSUME NEW c \in Branches, WriteBranch(c) \/ Age(c) PROVE UNCHANGED disk
  BY <1>10 DEF WriteBranch, Age
<1>11. ASSUME Crash PROVE UNCHANGED disk
  BY <1>11 DEF Crash
<1>12. ASSUME UNCHANGED vars PROVE UNCHANGED disk
  BY <1>12 DEF vars
<1>13. CASE Rows' = Rows
  BY <1>3, <1>4, <1>6, <1>7, <1>8, <1>9, <1>10, <1>11, <1>12, <1>13, StepCases
<1> QED
  BY <1>2, <1>13, RowsStep

\* Every behaviour of the engine keeps the promise of BranchData, with any
\* number of tasks, sweeps, failed removals and crashes.
THEOREM ImplementsPromise == Spec => PromiseKept
<1>1. Init => Promise!DataInit
  BY PromiseInit
<1>2. IInv /\ [Next]_vars => [Promise!DataNext]_(Promise!dataVars)
  BY PromiseStep
<1> QED
  BY <1>1, <1>2, Invariance, PTL DEF Spec, PromiseKept, Promise!DataSpec

-----------------------------------------------------------------------------
(* How far racing forks overshoot max_branches_per_workspace.              *)

\* No client calls an operation whose stale write makes a row live again.
NothingRevives == Operations \cap {"activate", "deactivate", "restore"} = {}

\* The tasks that have passed the limit check and not inserted their row yet.
Admitted == {p \in Tasks : pc[p] \in {"fork_slug", "snap_copy"} \cup Creating}

\* Only clients fork, and nobody is inside a call that revives a row.
OnlyClientsFork ==
  /\ \A p \in Tasks : pc[p] = "fork_count" => p \in Clients
  /\ Admitted \subseteq Clients
  /\ \A p \in Tasks : pc[p] \notin {"verify", "set_active", "set_dormant"}

\* Behind OvershootBounded: the live rows and the rows on their way stay within
\* the bound together, and a trunk is only created when there is no row at all.
ForkRoom ==
  /\ OnlyClientsFork
  /\ Rows # {} => SlugTaken(TrunkSlug)
  /\ IsFiniteSet(LiveRows)
  /\ Cardinality(LiveRows) + Cardinality(Admitted) <= MaxBranches + Cardinality(Clients) - 1

\* A step admits nobody, or is the limit check of a client that finds room, or
\* the start of a workspace without rows; the INSERT of a fork removes it from
\* the tasks on their way.
LEMMA AdmittedStep ==
  ASSUME IInv, OnlyClientsFork, NothingRevives, [Next]_vars
  PROVE  /\ OnlyClientsFork'
         /\ \/ Admitted' \subseteq Admitted
            \/ \E p \in Tasks : ForkCheckLimit(p) /\ ~ (Cardinality(LiveRows) >= MaxBranches)
            \/ ~ SlugTaken(TrunkSlug) /\ UNCHANGED status
         /\ \A p \in Tasks : InsertRow(p) => p \in Admitted /\ Admitted' = Admitted \ {p}
<1> DEFINE Good == /\ OnlyClientsFork'
                   /\ \/ Admitted' \subseteq Admitted
                      \/ \E p \in Tasks :
                           ForkCheckLimit(p) /\ ~ (Cardinality(LiveRows) >= MaxBranches)
                      \/ ~ SlugTaken(TrunkSlug) /\ UNCHANGED status
<1> USE ConstantsAssumption DEF TypeOK, OnlyClientsFork, Admitted, Tasks, Creating, Goto, Return,
        locals, registry
<1>0. TypeOK
  BY DEF IInv
<1>1. ASSUME NEW p \in Clients, Open(p) \/ NewWorkspace(p) PROVE Good
  BY <1>0, <1>1 DEF Open, NewWorkspace
<1>2. ASSUME NEW p \in Tasks, Begin(p) PROVE Good
  BY <1>0, <1>2 DEF Begin, ForkReadParent, Activate, Deactivate, Discard, Archive, Restore,
                    ReadStatus, Calls, PurgeList, StartSweep, NothingRevives
<1>3. ASSUME NEW p \in Tasks, GcList(p) PROVE Good
  BY <1>0, <1>3 DEF GcList, StartSweep
<1>4. ASSUME NEW p \in Tasks, Fork(p) PROVE Good
  <2>1. CASE ForkCheckLimit(p) BY <1>0, <2>1 DEF ForkCheckLimit
  <2>2. CASE ForkChooseSlug(p) BY <1>0, <2>2 DEF ForkChooseSlug
  <2>3. CASE SourceMissing(p) BY <1>0, <2>3 DEF SourceMissing
  <2>4. CASE SnapCopy(p) BY <1>0, <2>4 DEF SnapCopy
  <2>5. CASE SnapRename(p) BY <1>0, <2>5 DEF SnapRename
  <2>6. CASE SnapSeal(p) BY <1>0, <2>6 DEF SnapSeal
  <2>7. CASE InsertRow(p) BY <1>0, <2>7 DEF InsertRow
  <2>8. CASE Publish(p) BY <1>0, <2>8 DEF Publish
  <2> QED BY <1>4, <2>1, <2>2, <2>3, <2>4, <2>5, <2>6, <2>7, <2>8 DEF Fork
<1>5. ASSUME NEW p \in Tasks, SetStatus(p) PROVE Good
  BY <1>0, <1>5 DEF SetStatus, RestoreVerify, WriteActive, WriteDormant, WriteDiscarded,
                    WriteArchived, WriteStatus
<1>6. ASSUME NEW p \in Tasks, Sweep(p) PROVE Good
  BY <1>0, <1>6 DEF Sweep, SweepDone, SweepRemoveDb, GcRemoveDir, PurgeRemoveDir, RemoveDir,
                    GcMark, PurgeMark, MarkPurged
<1>7. ASSUME NEW p \in Tasks, Abort(p) PROVE Good
  BY <1>0, <1>7 DEF Abort
<1>8. ASSUME NEW b \in Branches, WriteBranch(b) \/ Age(b) PROVE Good
  BY <1>0, <1>8 DEF WriteBranch, Age
<1>9. ASSUME Crash PROVE Good
  BY <1>9 DEF Crash
<1>10. ASSUME UNCHANGED vars PROVE Good
  BY <1>0, <1>10 DEF vars
<1>11. ASSUME NEW p \in Tasks, InsertRow(p) PROVE p \in Admitted /\ Admitted' = Admitted \ {p}
  BY <1>0, <1>11 DEF InsertRow
<1> QED
  BY <1>1, <1>2, <1>3, <1>4, <1>5, <1>6, <1>7, <1>8, <1>9, <1>10, <1>11, StepCases

\* Only an INSERT makes a row live.
LEMMA LiveStep ==
  ASSUME IInv, OnlyClientsFork, [Next]_vars
  PROVE  \/ LiveRows' \subseteq LiveRows
         \/ \E p \in Tasks : InsertRow(p) /\ LiveRows' = LiveRows \cup {newId[p]}
<1> USE DEF registry, LiveRows, Live, TypeOK, OnlyClientsFork
<1>0. TypeOK
  BY DEF IInv
<1>1. ASSUME NEW p \in Clients, Open(p) \/ NewWorkspace(p) PROVE LiveRows' = LiveRows
  BY <1>1 DEF Open, NewWorkspace
<1>2. ASSUME NEW p \in Tasks, Begin(p) \/ GcList(p) \/ Abort(p) PROVE LiveRows' = LiveRows
  BY <1>2 DEF Begin, ForkReadParent, Activate, Deactivate, Discard, Archive, Restore, ReadStatus,
              PurgeList, GcList, StartSweep, Abort
<1>3. ASSUME NEW p \in Tasks, Fork(p), ~ InsertRow(p) PROVE LiveRows' = LiveRows
  BY <1>3 DEF Fork, ForkCheckLimit, ForkChooseSlug, SourceMissing, SnapCopy, SnapRename, SnapSeal,
              Publish
<1>4. ASSUME NEW p \in Tasks, InsertRow(p)
      PROVE  LiveRows' = LiveRows \/ LiveRows' = LiveRows \cup {newId[p]}
  <2>1. CASE SlugTaken(newSlug[p])
    BY <1>4, <2>1 DEF InsertRow
  <2>2. CASE ~ SlugTaken(newSlug[p])
    <3>1. newId[p] \in Branches /\ status' = [status EXCEPT ![newId[p]] = "active"]
      BY <1>4, <2>2, InsertEffect DEF InsertRow
    <3> QED BY <1>0, <3>1
  <2> QED BY <2>1, <2>2
<1>5. ASSUME NEW p \in Tasks, SetStatus(p) PROVE LiveRows' \subseteq LiveRows
  BY <1>0, <1>5 DEF SetStatus, RestoreVerify, WriteActive, WriteDormant, WriteDiscarded,
                    WriteArchived, WriteStatus, UpdateStatus
<1>6. ASSUME NEW p \in Tasks, Sweep(p) PROVE LiveRows' \subseteq LiveRows
  BY <1>0, <1>6 DEF Sweep, SweepDone, SweepRemoveDb, GcRemoveDir, PurgeRemoveDir, RemoveDir,
                    GcMark, PurgeMark, MarkPurged, UpdateStatus
<1>7. ASSUME NEW b \in Branches, WriteBranch(b) \/ Age(b) PROVE LiveRows' = LiveRows
  BY <1>7 DEF WriteBranch, Age
<1>8. CASE Crash
  BY <1>8 DEF Crash
<1>9. CASE UNCHANGED vars
  BY <1>9 DEF vars
<1> QED
  BY <1>1, <1>2, <1>3, <1>4, <1>5, <1>6, <1>7, <1>8, <1>9, StepCases

\* The trunk is the first row, and rows stay.
LEMMA TrunkFirstStep ==
  ASSUME IInv, Rows # {} => SlugTaken(TrunkSlug), [Next]_vars
  PROVE  Rows' # {} => SlugTaken(TrunkSlug)'
<1>1. CASE Rows' = Rows /\ UNCHANGED <<parent, slug>>
  BY <1>1 DEF SlugTaken
<1>2. ASSUME NEW p \in Tasks, InsertRow(p), ~ SlugTaken(newSlug[p])
      PROVE  SlugTaken(TrunkSlug)'
  BY <1>2, InsertEffect DEF SlugTaken
<1> QED
  BY <1>1, <1>2, RowsStep


\* Every step keeps the room: a task is admitted only while fewer rows are live
\* than allowed, at most one per client is on its way, and the INSERT turns a
\* row on its way into a live one.
LEMMA ForkRoomStep ==
  ASSUME IInv, ForkRoom, IsFiniteSet(Clients), NothingRevives, [Next]_vars
  PROVE  ForkRoom'
<1> DEFINE live     == Cardinality(LiveRows)
           admitted == Cardinality(Admitted)
           clients  == Cardinality(Clients)
<1>1. /\ OnlyClientsFork
      /\ IsFiniteSet(LiveRows) /\ IsFiniteSet(Admitted)
      /\ live \in Nat /\ admitted \in Nat /\ clients \in Nat
      /\ live + admitted <= MaxBranches + clients - 1
      /\ MaxBranches \in Nat /\ MaxBranches >= 1
  BY FS_Subset, FS_CardinalityType, ConstantsAssumption DEF ForkRoom, OnlyClientsFork
<1>2. OnlyClientsFork'
  BY <1>1, AdmittedStep
<1>3. Rows' # {} => SlugTaken(TrunkSlug)'
  BY TrunkFirstStep DEF ForkRoom
<1>4. /\ IsFiniteSet(Admitted') /\ Cardinality(Admitted') \in Nat
      /\ Cardinality(Admitted') <= clients
  BY <1>2, FS_Subset, FS_CardinalityType DEF OnlyClientsFork
<1>5. ASSUME IsFiniteSet(LiveRows'),
             Cardinality(LiveRows') + Cardinality(Admitted') <= MaxBranches + clients - 1
      PROVE  ForkRoom'
  BY <1>2, <1>3, <1>5 DEF ForkRoom
<1>6. ASSUME NEW p \in Tasks, InsertRow(p) PROVE ForkRoom'
  <2>1. p \in Admitted /\ Admitted' = Admitted \ {p}
    BY <1>1, <1>6, AdmittedStep
  <2>2. Cardinality(Admitted') = admitted - 1
    BY <1>1, <2>1, FS_RemoveElement
  <2>3. LiveRows' \subseteq LiveRows \cup {newId[p]}
    <3>1. ASSUME NEW q \in Tasks, InsertRow(q), LiveRows' = LiveRows \cup {newId[q]}
          PROVE  q = p
      BY <1>1, <1>6, <2>1, <3>1, AdmittedStep
    <3> QED BY <1>1, <3>1, LiveStep
  <2>4. IsFiniteSet(LiveRows') /\ Cardinality(LiveRows') <= live + 1
    <3>1. /\ IsFiniteSet(LiveRows \cup {newId[p]})
          /\ \/ Cardinality(LiveRows \cup {newId[p]}) = live
             \/ Cardinality(LiveRows \cup {newId[p]}) = live + 1
      <4>1. IsFiniteSet(LiveRows)
        BY <1>1
      <4> QED BY <4>1, FS_AddElement
    <3>2. /\ IsFiniteSet(LiveRows') /\ Cardinality(LiveRows') \in Nat
          /\ Cardinality(LiveRows') <= Cardinality(LiveRows \cup {newId[p]})
      BY <2>3, <3>1, FS_Subset, FS_CardinalityType
    <3> QED BY <1>1, <3>1, <3>2
  <2>5. Cardinality(LiveRows') \in Nat
    BY <2>4, FS_CardinalityType
  <2> QED BY <1>1, <1>4, <1>5, <2>2, <2>4, <2>5
<1>7. ASSUME \A p \in Tasks : ~ InsertRow(p) PROVE ForkRoom'
  <2>1. LiveRows' \subseteq LiveRows
    BY <1>1, <1>7, LiveStep
  <2>2. /\ IsFiniteSet(LiveRows') /\ Cardinality(LiveRows') \in Nat
        /\ Cardinality(LiveRows') <= live
    BY <1>1, <2>1, FS_Subset, FS_CardinalityType
  <2>3. CASE Admitted' \subseteq Admitted
    <3>1. Cardinality(Admitted') <= admitted
      BY <1>1, <2>3, FS_Subset
    <3> QED BY <1>1, <1>4, <1>5, <2>2, <3>1
  <2>4. CASE ~ (live >= MaxBranches)
    <3>1. live <= MaxBranches - 1
      BY <1>1, <2>4
    <3> QED BY <1>1, <1>4, <1>5, <2>2, <3>1
  <2>5. CASE ~ SlugTaken(TrunkSlug)
    <3>1. Rows = {}
      BY <2>5 DEF ForkRoom
    <3>2. LiveRows = {}
      BY <3>1 DEF LiveRows, Rows, Live
    <3>3. live = 0
      BY <3>2, FS_EmptySet
    <3> QED BY <1>1, <1>4, <1>5, <2>2, <3>3
  <2> QED BY <1>1, <2>3, <2>4, <2>5, AdmittedStep
<1> QED
  BY <1>6, <1>7

\* Before the engine is first started nothing is live or on its way.
LEMMA ForkRoomInit ==
  ASSUME Init, IsFiniteSet(Clients)
  PROVE  ForkRoom
<1>1. LiveRows = {} /\ Rows = {} /\ Admitted = {}
  BY DEF Init, LiveRows, Live, Rows, Admitted, Creating
<1>2. IsFiniteSet(LiveRows) /\ Cardinality(LiveRows) = 0 /\ Cardinality(Admitted) = 0
  BY <1>1, FS_EmptySet
<1>3. Cardinality(Clients) \in Nat /\ MaxBranches \in Nat /\ MaxBranches >= 1
  BY FS_CardinalityType, ConstantsAssumption
<1>4. Cardinality(LiveRows) + Cardinality(Admitted) <= MaxBranches + Cardinality(Clients) - 1
  BY <1>2, <1>3
<1>5. \A p \in Tasks : pc[p] = "idle"
  BY DEF Init
<1> QED
  BY <1>1, <1>2, <1>4, <1>5 DEF ForkRoom, OnlyClientsFork

\* However many clients race their forks past the limit check, the live branches
\* exceed max_branches_per_workspace by at most one per further client.  The
\* hypotheses: finitely many clients, and none of them calls an operation that
\* can make a row live again.
THEOREM OvershootIsBounded ==
  IsFiniteSet(Clients) /\ NothingRevives => (Spec => []OvershootBounded)
<1> SUFFICES ASSUME IsFiniteSet(Clients), NothingRevives
             PROVE  Spec => []OvershootBounded
  OBVIOUS
<1>1. Init => ForkRoom
  BY ForkRoomInit
<1>2. IInv /\ ForkRoom /\ [Next]_vars => ForkRoom'
  BY ForkRoomStep
<1>3. ForkRoom => OvershootBounded
  <2> SUFFICES ASSUME ForkRoom PROVE OvershootBounded
    OBVIOUS
  <2>2. IsFiniteSet(Admitted)
    BY FS_Subset DEF ForkRoom, OnlyClientsFork
  <2>3. /\ Cardinality(LiveRows) \in Nat /\ Cardinality(Admitted) \in Nat
        /\ Cardinality(Clients) \in Nat /\ MaxBranches \in Nat
    BY <2>2, FS_CardinalityType, ConstantsAssumption DEF ForkRoom
  <2>4. Cardinality(LiveRows) + Cardinality(Admitted) <= MaxBranches + Cardinality(Clients) - 1
    BY DEF ForkRoom
  <2> QED BY <2>3, <2>4 DEF OvershootBounded
<1> QED
  BY <1>1, <1>2, <1>3, Invariance, PTL DEF Spec
=============================================================================
