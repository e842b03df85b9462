--------------------------- MODULE BranchLifecycle ---------------------------
(***************************************************************************)
(* The branch registry, the snapshot directories and the in-memory lineage *)
(* graph of one BranchEngine, driven by concurrent client tasks and by the *)
(* background garbage collector.                                           *)
(*                                                                         *)
(* A task runs one engine operation at a time and may be interleaved with  *)
(* the other tasks at every await of the code: every action below is one   *)
(* stretch of code between two awaits, and pc[p] names the await at which  *)
(* task p is parked.  A crash keeps the registry and the files and loses   *)
(* the tasks and the lineage graph.                                        *)
(***************************************************************************)
EXTENDS Naturals, FiniteSets

CONSTANTS
  Branches,       \* branch ids (uuids) the run can hand out
  Names,          \* slugified names clients fork under
  TrunkName,      \* config.trunk_branch_name
  Clients,        \* tasks that call the engine
  Scheduler,      \* the background GC task
  NoBranch,       \* Option::None for a branch id
  MaxBranches,    \* config.max_branches_per_workspace
  Operations,     \* the engine operations the clients of this run call
  RemovalFails,   \* TRUE when remove_file and remove_dir_all may fail
  MaxSuffix,      \* bound on the numeric suffix of a slug
  MaxCrashes      \* bound on the number of crashes

ASSUME ConstantsAssumption ==
  /\ NoBranch \notin Branches
  /\ Scheduler \notin Clients
  /\ RemovalFails \in BOOLEAN
  /\ MaxBranches \in Nat \ {0}
  /\ MaxSuffix \in Nat
  /\ MaxCrashes \in Nat

VARIABLES
  phase,      \* "down", "booting" (BranchEngine::new under way) or "up"
  status,     \* branches.status, "none" when the id has no row
  parent,     \* branches.parent_id
  slug,       \* branches.slug
  aged,       \* discarded rows whose discarded_at is before the GC cutoff
  disk,       \* what exists below branches_dir/<id>
  dirty,      \* branches written since the hash of their snapshot was taken
  nodes,      \* DagGraph: the nodes
  edges,      \* DagGraph: the parent -> child edges
  pc,         \* the await at which each task is parked
  target,     \* the branch the task's operation is about
  newId,      \* fork: the uuid of the branch being created
  newSlug,    \* fork: the slug it chose
  work,       \* GC: the listed rows still to purge
  condemned,  \* history: the branches discard was ever written for
  crashes     \* history: the number of crashes, to bound them

registry == <<status, parent, slug, aged, condemned>>
files    == <<disk, dirty>>
dag      == <<nodes, edges>>
locals   == <<target, newId, newSlug, work>>
engine   == <<phase, crashes>>
vars     == <<registry, files, dag, pc, locals, engine>>

Tasks == Clients \cup {Scheduler}

Statuses == {"active", "dormant", "archived", "discarded", "purged"}
Live     == {"active", "dormant"}

\* Below branches_dir/<id>: branch.db.tmp, branch.db, and the files written
\* last, the sidecar hash with the manifest.
Parts    == {"tmp", "db", "seal"}
Complete == {"db", "seal"}

\* "a", "a-2", "a-3", ... are <<"a", 1>>, <<"a", 2>>, <<"a", 3>>, ...
Slugs     == (Names \cup {TrunkName}) \X (Nat \ {0})
TrunkSlug == <<TrunkName, 1>>
NoSlug    == <<>>

Rows      == {b \in Branches : status[b] # "none"}
LiveRows  == {b \in Branches : status[b] \in Live}
SlugTaken(s) == \E b \in Rows : slug[b] = s

\* Mutant: ids are unique among the calls under way only.
FreshAmongCalls(b) == \A p \in Tasks : newId[p] # b

\* A uuid nobody uses: no row, no files, no task creating it.
Fresh(b) == /\ status[b] = "none"
            /\ disk[b] = {}
            /\ \A p \in Tasks : newId[p] # b

\* a reaches b along edges E: every E-closed set with a in it has b in it.
Reaches(E, a, b) ==
  \A S \in SUBSET Branches :
    (a \in S /\ \A e \in E : e[1] \in S => e[2] \in S) => b \in S

-----------------------------------------------------------------------------
Init ==
  /\ phase = "down"
  /\ status = [b \in Branches |-> "none"]
  /\ parent = [b \in Branches |-> NoBranch]
  /\ slug = [b \in Branches |-> NoSlug]
  /\ aged = {}
  /\ disk = [b \in Branches |-> {}]
  /\ dirty = {}
  /\ nodes = {}
  /\ edges = {}
  /\ pc = [p \in Tasks |-> "idle"]
  /\ target = [p \in Tasks |-> NoBranch]
  /\ newId = [p \in Tasks |-> NoBranch]
  /\ newSlug = [p \in Tasks |-> NoSlug]
  /\ work = [p \in Tasks |-> {}]
  /\ condemned = {}
  /\ crashes = 0

\* The task moves to the next await, its other locals unchanged.
Goto(p, label) ==
  /\ pc' = [pc EXCEPT ![p] = label]
  /\ UNCHANGED locals

\* The operation of p returns, with or without an error.
Return(p) ==
  /\ pc' = [pc EXCEPT ![p] = "idle"]
  /\ target' = [target EXCEPT ![p] = NoBranch]
  /\ newId' = [newId EXCEPT ![p] = NoBranch]
  /\ newSlug' = [newSlug EXCEPT ![p] = NoSlug]
  /\ work' = [work EXCEPT ![p] = {}]

\* p may call operation op on branch b, which must have a row (otherwise the
\* call returns BranchNotFound and changes nothing).
Calls(p, op, b) ==
  /\ phase = "up" /\ pc[p] = "idle" /\ p \in Clients
  /\ op \in Operations
  /\ b \in Rows

-----------------------------------------------------------------------------
(* Engine start: BranchEngine::new and BranchEngine::open.                 *)

CleanTmp == disk' = [b \in Branches |-> disk[b] \ {"tmp"}]

\* open, and new when the registry already has a row with the trunk's slug.
Open(p) ==
  /\ phase = "down" /\ p \in Clients
  /\ CleanTmp
  /\ phase' = "up"
  /\ UNCHANGED <<registry, dirty, dag, pc, locals, crashes>>

\* new without a trunk row: create_trunk takes a snapshot of the source file.
NewWorkspace(p) ==
  /\ phase = "down" /\ p \in Clients /\ pc[p] = "idle"
  /\ ~ SlugTaken(TrunkSlug)
  /\ CleanTmp
  /\ phase' = "booting"
  /\ target' = [target EXCEPT ![p] = NoBranch]
  /\ newSlug' = [newSlug EXCEPT ![p] = TrunkSlug]
  /\ pc' = [pc EXCEPT ![p] = "snap_copy"]
  /\ UNCHANGED <<registry, dirty, dag, newId, work, crashes>>

-----------------------------------------------------------------------------
(* fork: the reads of the registry, each its own await.                    *)

\* The parent's row is read; a parent that is not live ends the call.
ForkReadParent(p) ==
  \E b \in Branches :
    /\ Calls(p, "fork", b)
    /\ status[b] \in Live
    /\ target' = [target EXCEPT ![p] = b]
    /\ pc' = [pc EXCEPT ![p] = "fork_count"]
    /\ UNCHANGED <<registry, files, dag, newId, newSlug, work, engine>>

\* Mutant: the limit is off by one.
ForkCheckLimitLoose(p) ==
  /\ pc[p] = "fork_count"
  /\ IF Cardinality(LiveRows) > MaxBranches
       THEN Return(p)
       ELSE Goto(p, "fork_slug")
  /\ UNCHANGED <<registry, files, dag, engine>>

ForkCheckLimit(p) ==
  /\ pc[p] = "fork_count"
  /\ IF Cardinality(LiveRows) >= MaxBranches
       THEN Return(p)
       ELSE Goto(p, "fork_slug")
  /\ UNCHANGED <<registry, files, dag, engine>>

\* make_unique: the least suffix no listed row uses.
MakeUnique(name, k) ==
  /\ ~ SlugTaken(<<name, k>>)
  /\ \A j \in 1 .. k - 1 : SlugTaken(<<name, j>>)

ForkChooseSlug(p) ==
  /\ pc[p] = "fork_slug"
  /\ \E name \in Names, k \in 1 .. MaxSuffix :
       /\ MakeUnique(name, k)
       /\ newSlug' = [newSlug EXCEPT ![p] = <<name, k>>]
  /\ pc' = [pc EXCEPT ![p] = "snap_copy"]
  /\ UNCHANGED <<registry, files, dag, target, newId, work, engine>>

-----------------------------------------------------------------------------
(* create_snapshot, shared by fork and create_trunk.                       *)

\* The file a snapshot is taken of: the trunk's source lies outside.
SourceExists(p) == target[p] # NoBranch => "db" \in disk[target[p]]

\* Opening or copying a database that is gone fails (create_if_missing(false)).
SourceMissing(p) ==
  /\ pc[p] = "snap_copy"
  /\ ~ SourceExists(p)
  /\ Return(p)
  /\ UNCHANGED <<registry, files, dag, engine>>

\* The source is checkpointed and copied to branch.db.tmp under a new uuid.
SnapCopy(p) ==
  /\ pc[p] = "snap_copy"
  /\ SourceExists(p)
  /\ \E b \in Branches :
       /\ Fresh(b)
       /\ newId' = [newId EXCEPT ![p] = b]
       /\ disk' = [disk EXCEPT ![b] = @ \cup {"tmp"}]
  /\ pc' = [pc EXCEPT ![p] = "snap_rename"]
  /\ UNCHANGED <<registry, dirty, dag, target, newSlug, work, engine>>

\* Mutant: the row is inserted before the snapshot is checked and sealed.
SnapRenameUnsealed(p) ==
  /\ pc[p] = "snap_rename"
  /\ disk' = [disk EXCEPT ![newId[p]] = (@ \ {"tmp"}) \cup {"db"}]
  /\ Goto(p, "insert")
  /\ UNCHANGED <<registry, dirty, dag, engine>>

SnapRename(p) ==
  /\ pc[p] = "snap_rename"
  /\ disk' = [disk EXCEPT ![newId[p]] = (@ \ {"tmp"}) \cup {"db"}]
  /\ Goto(p, "snap_seal")
  /\ UNCHANGED <<registry, dirty, dag, engine>>

\* Integrity and hashes agree: the sidecar and the manifest are written.
SnapSeal(p) ==
  /\ pc[p] = "snap_seal"
  /\ disk' = [disk EXCEPT ![newId[p]] = @ \cup {"seal"}]
  /\ Goto(p, "insert")
  /\ UNCHANGED <<registry, dirty, dag, engine>>

\* Mutant: the table has no UNIQUE(workspace_id, slug).
InsertRowUnchecked(p) ==
  /\ pc[p] = "insert"
  /\ status' = [status EXCEPT ![newId[p]] = "active"]
  /\ parent' = [parent EXCEPT ![newId[p]] = target[p]]
  /\ slug' = [slug EXCEPT ![newId[p]] = newSlug[p]]
  /\ Goto(p, "metrics")
  /\ UNCHANGED <<aged, condemned, files, dag, engine>>

\* Mutant: the parent is written by a later statement.
InsertRowOrphan(p) ==
  /\ pc[p] = "insert"
  /\ ~ SlugTaken(newSlug[p])
  /\ status' = [status EXCEPT ![newId[p]] = "active"]
  /\ slug' = [slug EXCEPT ![newId[p]] = newSlug[p]]
  /\ Goto(p, "metrics")
  /\ UNCHANGED <<parent, aged, condemned, files, dag, engine>>

\* INSERT INTO branches: a taken slug violates UNIQUE and ends the call, with
\* the snapshot left behind.
InsertRow(p) ==
  /\ pc[p] = "insert"
  /\ IF SlugTaken(newSlug[p])
       THEN /\ Return(p)
            /\ phase' = IF phase = "booting" THEN "down" ELSE phase
            /\ UNCHANGED <<status, parent, slug>>
       ELSE /\ status' = [status EXCEPT ![newId[p]] = "active"]
            /\ parent' = [parent EXCEPT ![newId[p]] = target[p]]
            /\ slug' = [slug EXCEPT ![newId[p]] = newSlug[p]]
            /\ Goto(p, "metrics")
            /\ UNCHANGED phase
  /\ UNCHANGED <<aged, condemned, files, dag, crashes>>

\* Mutant: the edge points from the child to the parent.
AddEdgeReversed(a, b) ==
  /\ nodes' = nodes \cup {a, b}
  /\ edges' = edges \cup {<<b, a>>}

\* add_edge: refused (DagCycle) when the child already reaches the parent.
AddEdge(a, b) ==
  /\ nodes' = nodes \cup {a, b}
  /\ edges' = IF a = b \/ Reaches(edges, b, a) THEN edges ELSE edges \cup {<<a, b>>}

\* The metrics row is written and the lineage graph updated; the call returns.
Publish(p) ==
  /\ pc[p] = "metrics"
  /\ IF target[p] = NoBranch
       THEN nodes' = nodes \cup {newId[p]} /\ UNCHANGED edges
       ELSE AddEdge(target[p], newId[p])
  /\ phase' = "up"
  /\ Return(p)
  /\ UNCHANGED <<registry, files, crashes>>

-----------------------------------------------------------------------------
(* Status transitions: a read of the row, then an unconditional UPDATE.    *)

\* The call reads a row whose status allows the transition.
ReadStatus(p, op, allowed, next) ==
  \E b \in Branches :
    /\ Calls(p, op, b)
    /\ status[b] \in allowed
    /\ target' = [target EXCEPT ![p] = b]
    /\ pc' = [pc EXCEPT ![p] = next]
    /\ UNCHANGED <<registry, files, dag, newId, newSlug, work, engine>>

Activate(p)   == ReadStatus(p, "activate", {"dormant"}, "set_active")
Deactivate(p) == ReadStatus(p, "deactivate", {"active"}, "set_dormant")
Discard(p)    == ReadStatus(p, "discard", Live, "set_discarded")
Archive(p)    == ReadStatus(p, "archive", Live, "set_archived")
Restore(p)    == ReadStatus(p, "restore", {"archived"}, "verify")

\* Verification compares the file with its hash and the rows with their counts.  It
\* finds a later write once that is in the file; one that is only in the
\* write-ahead log and changes no count goes unnoticed.
Verifiable(b) == Complete \subseteq disk[b]
Unchanged(b)  == Verifiable(b) /\ b \notin dirty

\* The snapshot of an archived branch is verified before it is restored.
RestoreVerify(p) ==
  /\ pc[p] = "verify"
  /\ \/ Verifiable(target[p]) /\ Goto(p, "set_active")
     \/ ~ Unchanged(target[p]) /\ Return(p)
  /\ UNCHANGED <<registry, files, dag, engine>>

\* UPDATE branches SET status = s, whatever the status has become meanwhile;
\* a discard is stamped with the current time.
UpdateStatus(b, s) ==
  /\ status' = [status EXCEPT ![b] = s]
  /\ aged' = aged \ {b}
  /\ condemned' = IF s = "discarded" THEN condemned \cup {b} ELSE condemned
  /\ UNCHANGED <<parent, slug>>

WriteStatus(p, at, s) ==
  /\ pc[p] = at
  /\ UpdateStatus(target[p], s)
  /\ Return(p)
  /\ UNCHANGED <<files, dag, engine>>

WriteActive(p)    == WriteStatus(p, "set_active", "active")
WriteDormant(p)   == WriteStatus(p, "set_dormant", "dormant")
WriteDiscarded(p) == WriteStatus(p, "set_discarded", "discarded")
WriteArchived(p)  == WriteStatus(p, "set_archived", "archived")

-----------------------------------------------------------------------------
(* Garbage collection: SnapshotGc::run and SnapshotGc::purge_discarded.    *)

StartSweep(p, op, rows) ==
  /\ phase = "up" /\ pc[p] = "idle"
  /\ work' = [work EXCEPT ![p] = rows]
  /\ pc' = [pc EXCEPT ![p] = op]
  /\ UNCHANGED <<registry, files, dag, target, newId, newSlug, engine>>

DiscardedRows == {b \in Branches : status[b] = "discarded"}

\* Mutant: whatever is not live is collected.
GcListNotLive(p) ==
  /\ p = Scheduler \/ "gc" \in Operations
  /\ StartSweep(p, "gc", Rows \ LiveRows)

\* run, by the scheduler or a client: the expired discarded rows.
GcList(p) ==
  /\ p = Scheduler \/ "gc" \in Operations
  /\ StartSweep(p, "gc", DiscardedRows \cap aged)

\* purge_discarded(n): the cutoff is the caller's, n = 0 takes every row.
PurgeList(p) ==
  /\ p \in Clients /\ "purge" \in Operations
  /\ \E old \in {aged, Branches} : StartSweep(p, "purge", DiscardedRows \cap old)

SweepDone(p) ==
  /\ pc[p] \in {"gc", "purge"} /\ work[p] = {}
  /\ Return(p)
  /\ UNCHANGED <<registry, files, dag, engine>>

\* let _ = remove_...: an error is ignored and the parts stay.
Remove(b, parts) ==
  \/ disk' = [disk EXCEPT ![b] = @ \ parts]
  \/ RemovalFails /\ UNCHANGED disk

\* Mutant: the row is marked before its database is deleted.
SweepMarkFirst(p) ==
  /\ pc[p] \in {"gc", "purge"}
  /\ \E b \in work[p] :
       /\ target' = [target EXCEPT ![p] = b]
       /\ work' = [work EXCEPT ![p] = @ \ {b}]
  /\ pc' = [pc EXCEPT ![p] = "purge_mark"]
  /\ UNCHANGED <<registry, files, dag, newId, newSlug, engine>>

\* Both sweeps delete the database of the next row, and its sidecar, first.
SweepRemoveDb(p) ==
  /\ pc[p] \in {"gc", "purge"}
  /\ \E b \in work[p] :
       /\ target' = [target EXCEPT ![p] = b]
       /\ work' = [work EXCEPT ![p] = @ \ {b}]
       /\ Remove(b, Complete)
  /\ pc' = [pc EXCEPT ![p] = IF @ = "gc" THEN "gc_dir" ELSE "purge_mark"]
  /\ UNCHANGED <<registry, dirty, dag, newId, newSlug, engine>>

\* Mutant: an error of the removal ends the sweep.
RemoveDirStrict(p, at, next) ==
  /\ pc[p] = at
  /\ \/ disk' = [disk EXCEPT ![target[p]] = {}] /\ Goto(p, next)
     \/ RemovalFails /\ UNCHANGED disk /\ Return(p)
  /\ UNCHANGED <<registry, dirty, dag, engine>>

RemoveDir(p, at, next) ==
  /\ pc[p] = at
  /\ Remove(target[p], Parts)
  /\ Goto(p, next)
  /\ UNCHANGED <<registry, dirty, dag, engine>>

MarkPurged(p, at, next) ==
  /\ pc[p] = at
  /\ UpdateStatus(target[p], "purged")
  /\ Goto(p, next)
  /\ UNCHANGED <<files, dag, engine>>

\* run removes the directory and then marks the row purged ...
GcRemoveDir(p) == RemoveDir(p, "gc_dir", "gc_mark")
GcMark(p)      == MarkPurged(p, "gc_mark", "gc")

\* ... purge_discarded marks the row first and removes the directory after.
PurgeMark(p)      == MarkPurged(p, "purge_mark", "purge_dir")
PurgeRemoveDir(p) == RemoveDir(p, "purge_dir", "purge")

-----------------------------------------------------------------------------
(* The rest of the world.                                                  *)

\* A merge, a commit or an agent writes to a branch's database.  Merges do not
\* look at the status of the branch they write.
WriteBranch(b) ==
  /\ phase = "up" /\ "write" \in Operations
  /\ b \in Rows /\ "db" \in disk[b]
  /\ dirty' = dirty \cup {b}
  /\ UNCHANGED <<registry, disk, dag, pc, locals, engine>>

\* gc_orphan_threshold_secs pass after a discard.
Age(b) ==
  /\ status[b] = "discarded"
  /\ aged' = aged \cup {b}
  /\ UNCHANGED <<status, parent, slug, condemned, files, dag, pc, locals, engine>>

\* An await fails (I/O, SQLite, a hash that differs) or the caller drops the
\* future: the operation ends where it stands.
Abort(p) ==
  /\ pc[p] # "idle" /\ "abort" \in Operations
  /\ Return(p)
  /\ phase' = IF phase = "booting" THEN "down" ELSE phase
  /\ UNCHANGED <<registry, files, dag, crashes>>

Crash ==
  /\ phase # "down" /\ crashes < MaxCrashes
  /\ phase' = "down"
  /\ crashes' = crashes + 1
  /\ nodes' = {} /\ edges' = {}
  /\ pc' = [p \in Tasks |-> "idle"]
  /\ target' = [p \in Tasks |-> NoBranch]
  /\ newId' = [p \in Tasks |-> NoBranch]
  /\ newSlug' = [p \in Tasks |-> NoSlug]
  /\ work' = [p \in Tasks |-> {}]
  /\ UNCHANGED <<registry, files>>

-----------------------------------------------------------------------------
\* The operations a task starts when it is idle.
Begin(p) ==
  \/ ForkReadParent(p)
  \/ Activate(p) \/ Deactivate(p) \/ Discard(p) \/ Archive(p) \/ Restore(p)
  \/ PurgeList(p)

Fork(p) ==
  \/ ForkCheckLimit(p) \/ ForkChooseSlug(p)
  \/ SourceMissing(p) \/ SnapCopy(p) \/ SnapRename(p) \/ SnapSeal(p)
  \/ InsertRow(p) \/ Publish(p)

SetStatus(p) ==
  \/ RestoreVerify(p)
  \/ WriteActive(p) \/ WriteDormant(p) \/ WriteDiscarded(p) \/ WriteArchived(p)

Sweep(p) ==
  \/ SweepDone(p) \/ SweepRemoveDb(p)
  \/ GcRemoveDir(p) \/ GcMark(p)
  \/ PurgeMark(p) \/ PurgeRemoveDir(p)

\* A task that is inside an operation takes its next step.
Continue(p) == Fork(p) \/ SetStatus(p) \/ Sweep(p)

Boot == \E p \in Clients : Open(p) \/ NewWorkspace(p)

Next ==
  \/ Boot
  \/ \E p \in Tasks : Begin(p) \/ GcList(p) \/ Continue(p) \/ Abort(p)
  \/ \E b \in Branches : WriteBranch(b) \/ Age(b)
  \/ Crash

Spec == Init /\ [][Next]_vars

\* tokio polls every task that can run, the interval of the scheduler keeps
\* ticking, the host starts an engine that is down and time passes.
Fairness ==
  /\ \A p \in Tasks : WF_vars(Continue(p))
  /\ WF_vars(GcList(Scheduler))
  /\ WF_vars(Boot)
  /\ \A b \in Branches : WF_vars(Age(b))

FairSpec == Spec /\ Fairness

-----------------------------------------------------------------------------
(* Properties.                                                             *)

Labels ==
  {"idle", "fork_count", "fork_slug", "snap_copy", "snap_rename", "snap_seal",
   "insert", "metrics", "verify",
   "set_active", "set_dormant", "set_discarded", "set_archived",
   "gc", "gc_dir", "gc_mark", "purge", "purge_mark", "purge_dir"}

\* Every variable has its type.
TypeOK ==
  /\ phase \in {"down", "booting", "up"}
  /\ status \in [Branches -> Statuses \cup {"none"}]
  /\ parent \in [Branches -> Branches \cup {NoBranch}]
  /\ slug \in [Branches -> Slugs \cup {NoSlug}]
  /\ aged \subseteq Branches
  /\ disk \in [Branches -> SUBSET Parts]
  /\ dirty \subseteq Branches
  /\ nodes \subseteq Branches
  /\ edges \subseteq Branches \X Branches
  /\ pc \in [Tasks -> Labels]
  /\ target \in [Tasks -> Branches \cup {NoBranch}]
  /\ newId \in [Tasks -> Branches \cup {NoBranch}]
  /\ newSlug \in [Tasks -> Slugs \cup {NoSlug}]
  /\ work \in [Tasks -> SUBSET Branches]
  /\ condemned \subseteq Branches
  /\ crashes \in Nat

\* A registered branch for which no discard was ever recorded keeps its
\* database and its seal, whatever tasks, sweeps, failures and
\* crashes do: fork inserts the row only after the whole snapshot is there,
\* and the sweeps touch only rows they listed as discarded.
NoDataLoss == \A b \in Rows : b \notin condemned => Complete \subseteq disk[b]

\* A purged row has no database left on disk (when removals succeed), also
\* when sweeps overlap or are cut short and run again.
PurgedErased == ~ RemovalFails => \A b \in Branches : status[b] = "purged" => "db" \notin disk[b]

\* No two rows share a slug, although make_unique works on a list of slugs
\* that concurrent forks have made stale by the time of the INSERT.
SlugsUnique == \A b, c \in Rows : slug[b] = slug[c] => b = c

ParentLinks == {<<parent[b], b>> : b \in {c \in Rows : parent[c] # NoBranch}}

\* Every parent link of the registry points to a registered branch, also
\* after the parent was discarded and purged, the links have no cycle, and a
\* row without a parent is the trunk.
LineageGrounded ==
  /\ \A b \in Rows : IF parent[b] = NoBranch THEN slug[b] = TrunkSlug ELSE parent[b] \in Rows
  /\ \A e \in ParentLinks : ~ Reaches(ParentLinks, e[2], e[1])

\* The lineage graph in memory is a part of the registry's parent links, and
\* it has no cycle.
DagMirrorsRegistry ==
  /\ nodes \subseteq Rows
  /\ edges \subseteq ParentLinks \cap (nodes \X nodes)
  /\ \A e \in edges : ~ Reaches(edges, e[2], e[1])

\* fork's add_edge never meets a cycle: a fork that has inserted its row ends
\* with the branch linked to its parent, unless it is cut short.
ForkEdgeAccepted ==
  \A p \in Tasks : (pc[p] = "metrics" /\ target[p] # NoBranch) =>
    newId[p] # target[p] /\ ~ Reaches(edges, newId[p], target[p])

\* Forks racing past the limit check overshoot the limit by at most one branch
\* per further client, as long as no client restores, activates or deactivates
\* (a stale write of these can make a row live again).
OvershootBounded ==
  Cardinality(LiveRows) <= MaxBranches + Cardinality(Clients) - 1

-----------------------------------------------------------------------------
(* The data of a branch, as BranchData promises it.                        *)

data == [b \in Branches |-> IF b \notin Rows THEN "absent"
                            ELSE IF "db" \in disk[b] THEN "stored" ELSE "erased"]

Promise == INSTANCE BranchData

\* The registry, the files and the sweeps together implement BranchData: a
\* branch is published with its data, and only condemned data is erased, once.
PromiseKept == Promise!DataSpec

-----------------------------------------------------------------------------
(* The inductive invariant behind the safety properties.                   *)

Creating == {"snap_rename", "snap_seal", "insert"}
Setting  == {"verify", "set_active", "set_dormant", "set_discarded", "set_archived"}
Erasing  == {"gc_dir", "gc_mark", "purge_mark", "purge_dir"}

\* The row each task works on is there; only a fork without one makes a trunk.
TargetsRegistered ==
  \A p \in Tasks :
    /\ pc[p] \in Setting \cup {"fork_count", "fork_slug"} => target[p] \in Rows
    /\ pc[p] \in Creating \cup {"snap_copy", "metrics"} =>
         IF target[p] = NoBranch THEN newSlug[p] = TrunkSlug
                                 ELSE target[p] \in Rows /\ newSlug[p] \in Slugs

\* The branch a task creates is its own and has no row before the INSERT.
NewIdsPrivate ==
  \A p \in Tasks :
    /\ pc[p] \in Creating => newId[p] \in Branches \ Rows
    /\ pc[p] = "metrics" => newId[p] \in Rows /\ parent[newId[p]] = target[p]
    /\ newId[p] # NoBranch => pc[p] \in Creating \cup {"metrics"}
    /\ \A q \in Tasks : newId[p] = newId[q] /\ newId[p] # NoBranch => p = q

\* The snapshot is complete when its row is inserted.
SnapshotBeforeRow ==
  \A p \in Tasks :
    /\ pc[p] = "snap_seal" => "db" \in disk[newId[p]]
    /\ pc[p] = "insert" => Complete \subseteq disk[newId[p]]

\* Sweeps only handle condemned rows, databases first.
SweepsCondemned ==
  /\ condemned \subseteq Rows
  /\ \A b \in Branches : status[b] = "discarded" => b \in condemned
  /\ \A p \in Tasks :
       /\ work[p] \subseteq condemned
       /\ pc[p] \in Erasing => target[p] \in condemned
       /\ pc[p] \in Erasing /\ ~ RemovalFails => "db" \notin disk[target[p]]

\* The conjunction that every step preserves.
IInv ==
  /\ TypeOK
  /\ TargetsRegistered /\ NewIdsPrivate /\ SnapshotBeforeRow /\ SweepsCondemned
  /\ NoDataLoss /\ PurgedErased /\ SlugsUnique /\ LineageGrounded /\ DagMirrorsRegistry

-----------------------------------------------------------------------------
(* Liveness, and claims of the documentation that the code does not keep.  *)

\* The background collector reclaims what was discarded: a row does not stay
\* discarded for ever.
DiscardedReclaimed == \A b \in Branches : status[b] = "discarded" ~> status[b] # "discarded"

\* types.rs: a dormant branch "is preserved".
DormantPreserved == \A b \in Branches : status[b] = "dormant" => "db" \in disk[b]
=============================================================================
