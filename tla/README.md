# claw-branch: TLA+ specifications and proofs

claw-branch gives agents branches of a SQLite database. A branch is a copy of
its parent's database file below `branches_dir/<id>/`; a registry database
holds one row per branch; a graph in memory holds the lineage. The library is
async: every call is a chain of awaits on files and on SQLite pools, and
nothing holds a lock from one await to the next. Most of what can go wrong lies
between two awaits, and that is what these specifications are about.

## 1. Inventory

| Component (source) | State | Operations | What makes it correct |
|---|---|---|---|
| Branch lifecycle (`branch/lifecycle.rs`) | none of its own; works on registry, files, graph | create_trunk, fork, activate, deactivate, discard, archive, restore_archived | a row exists only for a complete snapshot; races do not lose a discard or data |
| Registry store (`branch/store.rs`, `migrations/`) | tables branches, branch_metrics, branch_commits | insert, get, list, update_status, update_metrics, count_active, commit log | unique slugs, rows never lost, parents registered |
| Naming (`branch/naming.rs`) | none | validate, slugify, make_unique | slugs are valid and unique |
| Snapshot copier, verifier, manifest (`snapshot/`) | files below `branches_dir/<id>` | create_snapshot, restore_snapshot, verify_snapshot, tmp cleanup | what is published is a whole copy of the source |
| Garbage collector (`snapshot/gc.rs`) | none | run, purge_discarded, collect_orphans | erases discarded data only, and all of it in the end |
| Engine and GC scheduler (`engine.rs`) | the parts above, `Mutex<Option<GcScheduler>>` | new, open, the facade, start/stop of the scheduler, merge, commit, simulate | one scheduler, restart finds a consistent workspace |
| Lineage graph (`dag/graph.rs`) | petgraph `DiGraph` and id -> index map behind an `RwLock` | add_node, remove_node, add_edge, ancestor, merge base and depth queries | acyclic, the map agrees with the graph |
| Lineage traversal (`dag/traversal.rs`) | none | LCA, divergence depth, paths, subtrees, topological sort | the answers agree with the lineage and with each other |
| Lineage persistence (`dag/serializer.rs`) | tables dag_nodes, dag_edges, shared by all workspaces | save_node, save_edge, delete_node, update_edge_cursor, load_graph | edges join stored branches, a load gives back what was saved |
| Diff (`diff/`) | none | extract, score, format | every difference of two databases, once |
| Three-way merge (`merge/`) | the source's database | merge, preview, resolve, apply_batch | no side's change is dropped silently, all or nothing |
| Selective commit (`commit/`) | the target's database, commit log | validate, commit, commit_all, cherry selections | the selected changes and only they arrive, the log matches |
| Sandbox (`sandbox/`) | a branch and a status per simulation | setup, run, run_with_timeout, evaluate, teardown | the recommendation says what the agent did; a timed run ends |
| Metrics (`metrics/`) | branch_metrics rows | refresh, refresh_all, track_op, divergence, report | no operation is lost from the counts, a refresh measures what is there |
| Guarded engine (`guarded.rs`) | none | a policy check before each engine call | the check comes first |

How they interact: the engine owns one of each and passes `Arc`s around.
`fork` calls naming, the copier, the store and the graph in turn; the collector
reads the store and deletes files the copier wrote, while forks may be reading
them; merge and commit read branch rows from the store and then write the
databases directly; simulate forks, runs an agent on the new database, and
diffs it with its parent; the metrics tracker counts rows and diffs branches
while all of these go on, and writes its results into the registry. The GC
scheduler is a task of its own that shares only the registry and the files with
the rest. The lineage's persistence is offered to hosts; the engine itself never
calls it, so a restart starts with an empty graph.

Hard behaviours: the interleaving of calls at awaits (limits, slugs and statuses
are checked before and written after other awaits), operations of several steps
that an error, a dropped future or a crash ends half-way, removals whose errors
are ignored, statuses written over one another, and a graph in memory that a
restart loses. The hazards are listed line by line in `PROJECT.json`.

## 2. Modules

| Module | What it is |
|---|---|
| `BranchData` | abstract: the data of a branch is absent, stored or erased; erased only once condemned, and for good |
| `BranchLifecycle` | the registry, the files, the lineage graph, client tasks, the scheduler and crashes |
| `BranchLifecycle_proofs` | theorems about `BranchLifecycle`, among them that it implements `BranchData` |
| `ThreeWayMerge` | the merge of two branch databases: reads, plan, transaction, with other merges and agents in between |
| `ThreeWayMerge_proofs` | theorems about `ThreeWayMerge` |
| `LineageDag` | abstract: branches and parent-child edges, never a cycle, leaves only leave |
| `DagGraph` | the lineage graph in memory as petgraph keeps it, and the map from ids to its slots |
| `DagQueries` | the queries on that graph, with the graph changing between their locks |
| `DagQueries_proofs` | theorems about `DagQueries` |
| `DagGraph_proofs` | theorems about `DagGraph` |
| `DagStore` | the lineage in the registry's tables, statement by statement, and load_graph |
| `DagStore_proofs` | theorems about `DagStore` |
| `SnapshotFiles` | the copier on top of SQLite's WAL: checkpoints, hashes and copies page by page, with the source in use |
| `SnapshotFiles_proofs` | theorems about `SnapshotFiles` |
| `Acyclicity` | acyclic graphs without recursion, for the lifecycle and the lineage modules |
| `SelectiveCommit` | commit, cherry-pick and commit_all: validation, transaction, log entry |
| `SelectiveCommit_proofs` | theorems about `SelectiveCommit` |
| `Metrics` | the counters of each branch: track_op and refresh, with the world moving |
| `Sandbox` | simulations on top of `Metrics`: fork, agent, timeout, evaluation, teardown |
| `Sandbox_proofs` | theorems about `Sandbox` and `Metrics` |
| `MCBranchLifecycle`, `MCThreeWayMerge`, `MCDagQueries`, `MCDagStore`, `MCSelectiveCommit`, `MCSandbox`, `MCSnapshotFiles` | small instances for TLC |

`Sandbox` extends `Metrics`: a simulation creates the branches whose counters the
tracker keeps, and both are stepped together in one run. `DagQueries` extends
`DagGraph`; `BranchLifecycle` and `DagGraph` implement `BranchData` and
`LineageDag`. `SnapshotFiles` is the inside of the lifecycle's `SnapCopy` ...
`SnapSeal`: where `BranchLifecycle` takes the copy as good once it is sealed, this
module asks what sealing shows. The commit, the merge and the simulations see of the lifecycle what
they ask of it: a status, a file, a row's existence, each changed by actions that
stand for the rest of the world.

### BranchLifecycle

One action is one stretch of code between two awaits that others can observe;
`pc[p]` names the await at which task `p` is parked. `status`, `parent` and
`slug` are columns of `branches`; "none" is the absence of a row. `disk[b]` is
the set of what exists below `branches_dir/b`: `"tmp"` (`branch.db.tmp`), `"db"`
(`branch.db`) and `"seal"` (the sidecar hash and the manifest, written after
the hashes were compared). `dirty` holds the branches that were written since
their snapshot was sealed. `nodes` and `edges` are the lineage graph, by id.
`target`, `newId`, `newSlug` and `work` are the locals of a task that live
across awaits: the row it read, the uuid and the slug of the branch being
created, and the rows a sweep has still to handle. `condemned` and `crashes` are
history: no action reads them, except that `Crash` is bounded by the latter.

| Code | Actions |
|---|---|
| `BranchEngine::open`, `new` | `Open`; `NewWorkspace`, then the snapshot and row of `create_trunk` |
| `BranchLifecycle::fork` | `ForkReadParent`, `ForkCheckLimit`, `ForkChooseSlug`, `SourceMissing`, then the snapshot |
| `SnapshotCopier::create_snapshot` | `SnapCopy`, `SnapRename`, `SnapSeal` |
| `BranchStore::insert`, `dag.add_node/add_edge` | `InsertRow`, `Publish` |
| `activate`, `deactivate`, `discard`, `archive` | `Activate` ... `Archive` read the row, `WriteActive` ... `WriteArchived` update it |
| `restore_archived` | `Restore`, `RestoreVerify`, `WriteActive` |
| `SnapshotGc::run` | `GcList`, `SweepRemoveDb`, `GcRemoveDir`, `GcMark`, `SweepDone` |
| `SnapshotGc::purge_discarded` | `PurgeList`, `SweepRemoveDb`, `PurgeMark`, `PurgeRemoveDir`, `SweepDone` |
| an error of an await, a dropped future | `Abort` |
| a merge, a commit, an agent writing | `WriteBranch` |
| the passing of `gc_orphan_threshold_secs` | `Age` |
| end of the process | `Crash` |

`WriteStatus` does not look at the status it overwrites, as `update_status` does
not. `AddEdge` refuses an edge that closes a cycle and keeps the nodes it
inserted, as `add_edge_meta` does. The sweeps take their rows in any order; the
code takes them by creation time, so the model allows more.

Abstractions: content is one bit (`dirty`), because lifecycle properties only ask
whether a database is there and whether it was written. Whether a restore notices a
write is a choice (`RestoreVerify`): it does once the write is in the main file or
changes a count, and not while it is in the WAL alone. A hash
that differs right after the copy, a full disk or a failing query all end the
call where it stands and are `Abort`. The clock is the set `aged`. A slug is a
pair of the name's slug and the suffix, so "a-2" asked for by name and "a" with
suffix 2 are not the same slug here. A workspace has one engine: two processes
on the same directory are not modelled. The statuses `merged` and `orphan` are
left out because nothing writes them.

Properties (each with a mutant of the code that TLC finds violating it):

- `NoDataLoss`: a row that no discard was ever written for keeps its database
  and seal.
- `PurgedErased`: where removals succeed, a purged row has no database, even when
  several sweeps overlap on it or are cut short.
- `SlugsUnique`, `LineageGrounded`: unique slugs; parents registered, no cycle,
  only the trunk without a parent.
- `DagMirrorsRegistry`, `ForkEdgeAccepted`: the graph in memory is an acyclic
  part of the registry's links; the cycle check never refuses a fork's edge.
- `OvershootBounded`: racing forks exceed the limit by at most the number of
  further clients.
- `PromiseKept`: the refinement of `BranchData`.
- `DiscardedReclaimed`: a row does not stay discarded for ever.
- `IInv`: the inductive invariant of the proofs, checked as an invariant.

### SnapshotFiles

The source of a fork is in WAL mode and in use. `commits` is the history of its
content: entry k gives each page the number of the commit that wrote it, as of
commit k. `main` is the main file, `ckpt` the checkpoint under way (or the last
one: by whom, up to which commit, with which pages left), `mark[r]` the commit at
which reader r reads. `snap[f]` is what forker f has so far: `hash` and `copy` are
what it read of each page. `busy` is the answer of its last PRAGMA, `began`, `at`
and `calm` are history.

| Code | Actions |
|---|---|
| opening the pools, in `fork` (two checkpoints follow) or `create_snapshot` (one) | `Begin` |
| `PRAGMA wal_checkpoint(TRUNCATE)`, its row | `Pragma`, `WritePage`, `Answer` |
| `hash_file_blake3` of the source | `HashPage` |
| `tokio::fs::copy` | `CopyPage` |
| hash of the copy, comparison, sidecar, manifest | `Seal` |
| different hashes, a failed integrity check, an error, a dropped call | `Abort` |
| SQLite, as the copier meets it (external) | `Commit`, `BeginRead`, `EndRead`, `AutoCheckpoint`, `EndCheckpoint` |

Of SQLite the module takes what its documentation promises: commits go to the WAL;
one checkpoint at a time copies pages back, in page order, never beyond the mark
of a reader; what a broken-off checkpoint left is done by the next one. A TRUNCATE
checkpoint that meets readers or another checkpoint answers "busy" in the row that
`execute` drops. The file is read without SQLite's locks, so each page is a step of
its own. A crash is an `EndCheckpoint` and the `Abort` of every call; a second
forker is to the first one more connection that checkpoints. `Begin` ends the
forker's last snapshot: each has a directory of its own.

- `SealedWhole`: a sealed snapshot is the main file as it was at one instant, even
  if checkpoints wrote pages between hashing and copying them. It is the content
  after one commit unless a checkpoint was under way at that instant, or one had
  been broken off.
- `SealedCurrent`: it lacks nothing committed before the call, unless the answer
  was "busy".

Both exceptions are real: TLC finds a torn and an outdated sealed snapshot when
they are taken away.

### ThreeWayMerge

`BranchEngine::merge(source, target)` takes the parent of the source as base (the
target when the source is the trunk), hands the source to the merger as "ours"
and the target as "theirs", and writes the source. `db[b]` is the content of a
branch database: for each `<<type, id>>` a row or `Absent`; a row gives each
column a value or `Null`. All columns are nullable, as in the schema the
repository's tests create; the real schema belongs to the program that embeds
the library.

| Code | Actions |
|---|---|
| `BranchEngine::merge` up to the merger | `Begin` |
| `DiffExtractor::diff`, twice: base and one side, table by table | `Read`, one query each, in the code's order (`Precedes`) |
| return with unresolved conflicts | `Escalate` |
| `MergeApplier::apply_batch` | `Apply` |
| an error of any query, a dropped call | `Fail` |
| an agent with a pool of its own | `Write` |

The base is read twice, once per diff, and the two reads may differ: `seen` keeps
them apart. The plan is computed in memory, so it is a set of operators on `seen`:
`Changed` and `FieldDiffs` are the extractor, `OursById` is the map by id in which
types collide, `Conflicts` is `detect_conflicts`, `Resolved` the resolver,
`Written` and `TheirRow` what the applier does to a row. `TheirRow` keeps values as
they are: the applier binds them as text, which the text columns of the three tables
(and JSON text) keep. `Apply` is one step: the transaction only writes, so another connection sees all of it or nothing, and
the agents' writes to the same database come before it or after it.

Properties:

- `OnlyTheirChangesLand`: a merge changes only rows it found changed in the target,
  in one of the two branches it is about, whatever is written meanwhile. Which of the
  two it should be is a question of its own, `WritesTargetOnly`.
- `ConflictsFollowStrategy`: a commit leaves no conflict to a human, gives fields
  in conflict under "theirs" the target's value, and keeps the fields in conflict of
  a row whose conflicts are all under "ours". It says nothing of changes that are not
  in conflict, nor of unions: these are a question of their own, `RowsMerged`.
- `MergeOnce`: retries and races of one merge have the effect of one. It assumes
  that ids are unique across the types (`IdsUnique`): without it a second merge
  can find, under the same id, a row of another type among the changes of ours
  and drop what the first one applied.

Two further properties say what the documents promise, and the code breaks them:

- `RowsMerged`: a merge that nobody disturbs leaves, of a row that only the target
  changed, the target's row; of a row that both changed, field by field, the change of
  the side that made it, and for a conflict what the strategy of the field says. The
  run `finding_merge_rows` starts from one row for each case. Row i (disjoint fields)
  keeps the source's values, since the plan for it is `UseOurs`; row j (only the target
  changed it) loses the fields the target did not change, since INSERT OR REPLACE names
  the others only; row k (one field under "ours", one under "theirs") takes both from
  the target, since each conflict brings the whole entity; row l (union) stays the
  source's, since a merged column value is no JSON object, and the applier writes
  objects only; the row of the second type that has the id of i is compared with i and
  dropped.
- `WritesTargetOnly`: a merge changes no branch but its target. It writes the source
  (`finding_merge_direction`), and its MergeResult calls the source its target.

### DagGraph and DagQueries

`weights` is petgraph's node vector, `links` its edges with an age (iteration
goes from the newest edge to the oldest), `index` the map `node_index`, 0 where
it has no entry. `AddNode`, `AddEdge` and `RemoveNode` each hold the write lock
from their first to their last access, so each is one step. `AddEdge` stands for
the edge, the cycle test and the undoing at once, since no one sees them apart.
`BranchLifecycle` has the same graph by branch id: it never removes nodes, and
without removals the two agree, which is what `LineageDag` says.

`RemoveNode` contains what petgraph's `remove_node` does: the last node takes the
place of the removed one (`DropSlot`). `node_index` is not told, so after the
removal of any other node than the last it has the wrong slot for one branch:
`depth_of`, `ancestors_of` and `add_edge` then work on another branch, or on a
slot that does not exist, where petgraph panics in `add_edge` (the inserted nodes
stay). `moved` records that this happened. The properties about branches hold
until then; the types and acyclicity hold after it as well.

`DagQueries` adds tasks that ask. `ancestors_of` is one lock. `find_merge_base` is
two: `BeginMergeBase`, `EndMergeBase`; `divergence_depth` is three:
`BeginDivergence`, `ReadDepth`, `EndDivergence`. Any change may come in between.
`AllPaths`, `SubtreeOf` and `IsAncestor` take one lock each and are operators. The
loops of the code are functions of the number of turns over its stack or queue
(`Climb` and `Descend` are one turn), each with the marks of its own that the code
keeps (slots, branch ids, the path), and the properties compare them with
definitions by sets (`Above`, `Common`, `Hops`) and with each other. A walk has as
many turns as the graph has nodes, and one: each node gets onto the stack once at
most, which the proofs show.

- `NoCycle`: no sequence of calls closes a cycle.
- `IndexAgrees`, `ImplementsLineage`: until a node was moved, the map and the
  graph agree, and every call does what `LineageDag` says.
- `MergeBaseIsCommon`: what `find_merge_base` returns is a common ancestor when
  it returns; "none" means that there was none when it was called (one that was
  added meanwhile may be missed).
- `MergeBaseIsLowest`: in a lineage of forks (one parent each) it is the lowest,
  and `lowest_common_ancestor` agrees.
- `DivergenceNotOverstated`: `divergence_depth` is exact when the graph stood
  still, and never too large when edges were added.
- `DepthIsNearest`: both implementations of depth count from the nearest root.
- `PathsThroughParents`: `all_paths` finds every path and no other, as a set: whether
  its list has a path twice is not said.
- `SubtreeMirrorsAncestors`: the walks downwards and upwards agree: a branch is in
  the subtree of its ancestors only, and there is a path from just these.

`IsForest` is a real restriction. With the edges b2 -> b1, b3 -> b1, b3 -> b2 the
merge base of b2 and b1 that `find_merge_base` gives is b3, if b3 -> b1 is the
newer edge of b1, although b2 is itself an ancestor of b1. Forks never build
such a graph, `add_edge` lets its other callers do so.

### DagStore

`workspace[b]` is the row of b in dag_nodes, `edges` the rows of dag_edges,
`cursor` their merge_cursor. sqlx turns foreign keys on, and `INSERT OR IGNORE`
does not ignore a missing node, so `SaveEdge` without both ends is an error that
changes nothing. Every statement is a transaction of its own.

| Code | Actions |
|---|---|
| `save_node`, `save_edge`, `update_edge_cursor` | `SaveNode`, `SaveEdge`, `UpdateEdgeCursor` |
| `delete_node` | `DeleteEdges`, `DeleteRow` |
| `load_graph` | `LoadNodes`, then `LoadEdges`: the second query, `topo_insert_order`, and `add_edge_meta` for each edge |
| a crash, an error, a dropped call between two statements | `Drop` |

`InsertOrders` are the orders in which Kahn's algorithm may give the edges, with
those it does not reach at the end; `GraphOf` gives the edges of one of them to
`AddEdgeMeta`, one after the other.

- `StoreTypeOK`: whatever comes between the two statements of a delete, an edge
  joins branches that are stored, and cursors belong to edges.
- `LoadTruthful`: a load fails exactly if the stored edges have a cycle, in every
  insertion order; otherwise it has exactly these edges, every branch that was
  there all the time and none that never was.
- `CursorKept`: a retried `save_edge` does not reset the cursor of a merge.

### SelectiveCommit

`db`, `status` and `log` are the branch databases, `branches.status` and
`branch_commits`. `writer[b]` is the client whose transaction holds the write lock
of b: BEGIN is deferred, so the first upsert takes it, and commit or rollback
gives it back. `staged` is what the open transaction has written and nobody else
sees.

| Code | Actions |
|---|---|
| `BranchEngine::commit` up to the committer | `Begin` |
| `CommitValidator::validate` | `CheckSource`, `CheckTarget`, `CheckId` per listed id |
| `pool.begin`, one query of the source per selection | `BeginTx`, `Fetch` |
| an entity that is gone | `Skip` |
| the target's row, for a filter, through the pool | `ReadTarget` |
| the upsert | `PutWhole`, `PutFiltered`, `NoTable` |
| `tx.commit`, `insert_commit_log` | `CommitTx`, `InsertLog` |
| an error of an await, SQLITE_BUSY, a dropped call | `Fail`; `InsertLog` when the INSERT had run |
| agents and status changes | `Write`, `SetStatus` |

The validator passes over errors: a failed lookup of a table leaves the ids of that
selection unchecked (`CheckTarget` picks the selections whose table was found), and a
failed lookup of an id counts as no such row (`CheckId` may reject any). A call that is
dropped has no answer: its result stays "none" when its log entry is written, and is
"error" before.

- `OnlySelectedLand`: a commit changes only its target, only rows that were
  selected, deletes none, and each row it writes has the selected fields of one
  row of the source and the others of one row of the target. It is violated by a
  mutant that writes the filtered fields over the whole row.
- `AnswersTruthful`: "rejected" means that nothing was written, "success" that rows
  and log were; an error may hide a commit, but the log never has an entry of a
  transaction that was not committed.
- `LogNamesArrivedRows`: each id in a branch's log has been a row of it.
- `CommitOnce`: retried or raced, one cherry-pick has the effect of one. It needs
  selections that do not overlap (`SelectsOnce`).
- `CallsReturn`: two commits in opposite directions, each writing what the other
  reads, do not wait for each other for ever.

### Metrics and Sandbox

`metrics[b]` is the row of `branch_metrics`: `ops`, `score`, the counters of the
operations (`written`) and of the tables (`counts`). A score is a fraction
`<<n, d>>`; the floats of the code are never compared for equality. A database has
finitely many rows, whatever the sets of ids and contents. `job[t]` is
what a tracker holds between two awaits: `queue`, the rows `refresh_all` listed,
whose first one is at work, with what has been measured for it.

| Code | Actions |
|---|---|
| `track_op` | `Track`, `TrackWrite` |
| `refresh`, `refresh_all` | `Refresh`, `RefreshAll`, then for each row `OpenDb`, `CountTable` per type, `CountCommits`, `ReadParent`, `OpenPools`, `ReadDiff` per type and side, `WriteBack`; `KeepScore` when the lookup of the parent or the diff fails |
| agents, commits, discard, the collector | `Write`, `LogCommit`, `Discard`, `Collect` |
| `SimulationEnvironment::setup` (the fork) | `Begin`, `CheckParent`, `CopyParent`, `InsertSandbox`, `InsertMetrics` |
| `SandboxRunner::run`, `run_with_timeout` | `OpenSandbox`, `AgentWrites`, `AgentDone`, `AgentFails`, `Timeout` |
| `SandboxEvaluator::evaluate` | `OpenBoth`, `Evaluate` per query |
| `teardown` | `TeardownRead`, `TeardownWrite` |
| an error of an await, a dropped call | `GiveUp`, `Fail` |

`simulate` is a `Begin` without a timeout that ends in `Forget`. `done` counts the
operations that were recorded, `calm` says that nothing moved during a refresh,
`overlapped` that two calls, or a call and the fork's second INSERT, held one row;
`since` is what the parent has held since a fork. These are history.

A refresh whose lookup of the parent or whose diff fails, for whatever reason, does not
end: it keeps the score that was stored and writes the row (`KeepScore`, then
`WriteBack` from the step "keep"). Every other error of a refresh ends it (`GiveUp`).
A timeout drops the agent at the await it is parked at, which is between two
`AgentWrites`, each one await.

- `CountersBacked`: a counter never exceeds the operations, however the calls race;
  where no two overlapped it equals them, refreshes in between included.
- `RefreshExact`: a refresh during which nothing moved writes the commits and the
  counts that a look at the branch gives, and the score that its difference from the
  parent gives; when the lookup of the parent or the diff failed, the score that was
  stored. Also in a list of refreshes, where a row was read long before its turn.
- `RecommendationTruthful`: "discard" loses nothing that the parent did not have at
  some time; without writes by others the answer is the one the threshold asks for.
- `TimedRunsEnd`: a run with a timeout ends, even if its agent never does.

## 3. Runs

| Run | Instance | Shows |
|---|---|---|
| `lifecycle_forks` | 4 ids, limit 2, 2 clients, 1 crash; fork, archive, dropped calls | SlugsUnique, LineageGrounded, DagMirrorsRegistry, ForkEdgeAccepted, OvershootBounded, whose bound 3 is reached |
| `lifecycle_pairs` | 2 ids, 2 clients, 1 crash; fork, discard, archive, restore, purge, writes, the scheduler | IInv, NoDataLoss, PurgedErased, PromiseKept |
| `lifecycle_reclaim` | 2 ids, 1 client, 1 crash, failing removals, fairness; activate and deactivate as well | DiscardedReclaimed |
| `merge_races` | siblings, child and parent, parent and child with any contents, 1 row of 2 fields and 2 values, 2 clients, 2 calls or a call and a write | TypeOK, MergeOnce, ConflictsFollowStrategy, OnlyTheirChangesLand |
| `commit` | 2 branches of any contents (a row with no table in the target is there or not), 2 types of 1 row, 2 fields, four cherry-picks in both directions, 2 clients, 2 calls or a call and a change, fairness | TypeOK, AnswersTruthful, LogNamesArrivedRows, CommitOnce, OnlySelectedLand, CallsReturn |
| `dag_queries` | 4 ids, 3 edges, 1 removal, 1 asking task | TypeOK, NoCycle, IndexAgrees, ImplementsLineage, MergeBaseIsCommon, MergeBaseIsLowest, DivergenceNotOverstated, DepthIsNearest, PathsThroughParents, SubtreeMirrorsAncestors |
| `dag_store` | 3 ids, 2 workspaces, 1 cursor, 2 clients, 8 calls | StoreTypeOK, LoadTruthful, CursorKept |
| `simulations` | the trunk and a sandbox, 2 types of 1 row, 2 contents, 2 trackers, 1 host, fairness | SandboxTypeOK, CountersBacked, RefreshExact, RecommendationTruthful, TimedRunsEnd |
| `snapshots` | 2 pages, 4 commits, 1 forker, 1 reader, 1 other connection | SealedWhole, SealedCurrent |

Bounds. `Branches` is the supply of uuids: when it is used up no further fork can
start its snapshot. Four ids give the trunk and three forks, one more than the
limit of two allows; two give a branch and its parent, which is as many as any
property of `lifecycle_pairs` speaks of. `MaxSuffix` is the number of ids, so
that it never stops a fork. `MaxCrashes` is 1: a second crash finds nothing the
first does not. `Operations` says which calls the clients of a run make; together
the runs make all of them. Ids and clients are interchangeable, so the safety
runs use symmetry; no run with a liveness property does. Deadlock is checked in
the lifecycle runs and in `dag_queries`.

For merges and commits, every initial content of the databases is tried (in `commit`,
the row of the type that the target has no table for is only there or not, since no
commit can write it). One row
of two fields is enough for the plan of a row, since rows are planned one by one;
two values and NULL let base, ours and theirs all differ. Two calls are a retry
or a race, one write between any two steps is a stale read: `Disturbed` lets one
of these happen to a call. Among the cherry-picks is one whose two filters select
the same row, and one branch has no table of one type. The deadlock check is off
where a run ends because its calls are used up.

For the graph, three edges build every tree of four branches and the triangle in
which a branch has two parents; refused and duplicate edges do not count. One
removal moves a node, or takes the last one away, after which the graph grows
again. Queries change nothing, so one asking task is enough. For the stored
graph, eight calls are three nodes, the three edges of a cycle or of a triangle,
a cursor, and a load or a delete.

In `simulations`, `SmallNext` lets three things happen of which at most two are
calls of the tracker or simulations: two trackers that race, a tracker and a
simulation, a refresh or a simulation disturbed by a write, a commit, a discard
or a purge. The sandbox's fork counts as a part of its simulation. The trunk has
one row at first; that suffices for additions, removals and changes in both tables.

In `snapshots`, two pages are enough to tear a file, and three commits after the
first are one before each of hashing, copying and the end, or two in one page.
`IInv` of the lifecycle contains its `TypeOK`.

Fairness. In the lifecycle (`Fairness`) a started call goes on: tokio polls every
ready task, and SQLite and the file system answer (`WF(Continue(p))`). The
scheduler ticks again (`WF(GcList(Scheduler))`), since its interval never ends.
Time passes (`WF(Age(b))`). A host that finds the engine down starts it
(`WF(Boot)`): this one is an assumption about the embedding program. Nothing is
assumed of clients starting calls, of crashes or of removals succeeding. In
`SelectiveCommit` a call that can go on does (`WF(Continue(c))`): SQLite's busy
timeout (`Fail`) is allowed and not relied on. In `Sandbox` the same holds of what
the engine does for a host (`WF(Engine(h))`), timers included. Nothing is assumed
of agents, which may never return, nor of the trackers.

What the code does not keep. Three runs check what a document or a comment says
and find it violated; `PROJECT.json` quotes the lines.

| Run | Claim | Why it fails |
|---|---|---|
| `finding_dormant_lost` | a dormant branch is preserved | a stale write hides a purge |
| `finding_merge_rows` | a three-way merge, disjoint changes combined, conflicts by the strategy of the field | five rows of one merge go wrong, each for a reason of its own (section 2) |
| `finding_merge_direction` | merges source into target | the source is handed to the merger as ours, which is what it writes |

Other disagreements and limits, read off the models but without a run of their
own:

- Lifecycle: the limit is called a hard cap, and racing forks exceed it
  (`OvershootBounded` says by how much); the trunk can be discarded; a purge whose
  removals failed is recorded all the same; after a restart the lineage graph
  starts empty and the parent of the next fork becomes a root; the directory of a
  fork that ended before its INSERT is never collected. `types.rs` calls a branch
  "archived for later recovery", but `restore_archived` compares its database with the
  hash and the counts of the fork: a write and an archive are enough to make a branch
  that cannot be restored.
- Snapshots: the row in which the PRAGMA says "busy" is dropped, so a fork may lack
  rows its parent had; a checkpoint that stalls while the file is hashed and copied
  leaves a torn copy with equal hashes, which only the integrity check may notice;
  `verify_snapshot` hashes the main file alone, so what is still in the WAL passes.
- Merge: README.md:199 calls it atomic and line 169 prefers the source under Ours; the
  plan is made from reads outside the transaction: a row that an agent changes
  after it was read is replaced by the target's all the same; `applied` counts entries that write
  nothing.
- Commit: of two filtered selections of one row, the second reads the target
  outside the transaction and undoes the first; two filtered commits of one row
  that overlap lose one of the two; the log entry has the type of the first
  selection only; a listed id that is deleted after the validation is skipped
  without a word; when the log's INSERT fails the rows stay committed and the
  caller sees an error.
- Sandbox: `simulate` ignores the `timeout_secs` and `max_ops` of its configuration
  and leaves the sandbox branch behind, live, where it counts against the limit;
  "discard" is tested before "needs review", where the comments have the other
  order; a parent that is written during a simulation makes an untouched sandbox
  look changed; the documents say 0.50 for a threshold whose default is 0.8.
- Metrics: two `track_op` at once, one during a refresh, or one before the fork has
  inserted the metrics, lose an operation (`overlapped` marks these); a refresh
  replaces `op_count` by the number of commits; its score is relative to what the
  parent's row says, which may be old; `refresh_all` takes "all live branches" to
  be all rows, discarded and purged ones included, and ends at the first one
  without a database.
- Lineage: `remove_node` leaves a wrong index behind; `find_merge_base` is
  documented to return the lowest common ancestor, and may not with two parents
  (section 2).
- Stored lineage: when the second statement of `delete_node` fails, the branch stays
  and has lost its edges; `update_edge_cursor` of an edge that is not there succeeds;
  `save_edge` looks for no cycle, and one cycle makes every load of the workspace
  fail; a load may return a branch that was deleted between its queries, without
  its edges.

## 4. Proofs

`BranchLifecycle_proofs` proves, for any sets of branches, names and clients, any
limit and any number of crashes, with removals that may or may not fail:
`TypeCorrect`, `DataIsSafe` (NoDataLoss), `PurgesErase` (PurgedErased),
`SlugsNeverClash` (SlugsUnique), `LineageIsGrounded`, `DagIsFaithful`
(DagMirrorsRegistry), `ForksAreLinked` (ForkEdgeAccepted) and `ImplementsPromise`
(`Spec => PromiseKept`). The assumption is `ConstantsAssumption`: `NoBranch` is
not an id, the scheduler is not a client, the limit is positive (`config.rs`
refuses 0), the bounds are natural numbers.

The properties are not inductive alone. `IInv` adds what a parked task knows:

- `TargetsRegistered`: the row it read is still there (rows are never deleted);
- `NewIdsPrivate`: the id it creates is its own and has no row yet, so what it
  does to `disk` touches no published branch;
- `SnapshotBeforeRow`: at the INSERT the snapshot is complete, which is what
  carries `NoDataLoss` over the INSERT;
- `SweepsCondemned`: what a sweep listed was condemned and stays so, and once a
  sweep deleted a database it does not come back, which carries `PurgedErased`
  over the write of "purged".

`StepCases` splits a step into actions. `RowsStep`, `StatusStep` and `DiskStep` say
once what a step can do to the rows, the statuses and the files; the remaining
lemmas prove one conjunct of `IInv` each from these. Acyclicity needs no
induction over paths: `Reaches` says that every closed set with the start in it
has the end in it, so a closed set without the end shows that there is no path;
a new row is a leaf, and the singleton of the new row, or an old closed set with
the new row added, is the set to show (`LineageStep`).

`ThreeWayMerge_proofs` proves, for any lineage, schema, rows, strategies and number
of callers and writes, `TypeCorrect`, `OnlyTheirChanges` (OnlyTheirChangesLand),
`StrategyFollowed` (ConflictsFollowStrategy) and `MergeIsOnce` (MergeOnce), from
`MergeAssumption`. The action properties follow from the types and the shape of
`Written`. `MergeOnce` needs `MergeInv`: while one merge r alone is asked for and
no agent writes, the databases are the first ones or those after r, and whatever
a call has read, row by row, comes from one of the two (`Seeing`), even when it
read some tables before and some after another call committed. `SameEffect` then
shows that a plan made from any such mixture, applied to either database, gives
the same result: a merge changes neither its base nor its target, so it finds the
same changes in theirs each time, and a row it has written is either planned
again with the same content, or counts as changed in ours without a conflict and
stays as it is. A merge of a branch with itself writes nothing (`SelfMerge`).
With ids of one type each (`IdsUnique`), rows do not influence each other.
Least and greatest types exist because the set of types is finite (`WFMin`, from
the library's well-foundedness of the order on Nat).

`OvershootIsBounded` (OvershootBounded) needs counting. The tasks that have passed
the limit check and not inserted their row are `Admitted`; `ForkRoom` bounds the
live rows and the admitted tasks together by the limit and the further clients.
The check admits a client when the live rows are fewer than the limit, and the
others that are admitted are at most all clients but this one; an INSERT turns an
admitted task into a live row. Two hypotheses: the clients are finitely many,
since a bound by their number says nothing otherwise, and no client calls
activate, deactivate or restore (`NothingRevives`), which make rows live that no
check has counted. The run `lifecycle_forks` satisfies both.

`DagGraph_proofs` proves, for any ids and any number of calls, `TypeCorrect`,
`StaysAcyclic` (NoCycle), `MapAgrees` (IndexAgrees) and `LineageImplemented`
(ImplementsLineage). `IsAcyclic` speaks of sets
without a source instead of paths, so the steps need no induction: new nodes
without edges keep it (`GrowAcyclic`), and a graph that maps into an acyclic one
is acyclic (`MapAcyclic`), which covers petgraph's renumbering: the map sends the
slot that was filled back to the last one. `MapAgrees` rests on `Exact`, which
holds as long as no node was moved. The refinement rests on `Exact` too: the slots
name the branches one to one (`LineageView`), so a graph of slots is acyclic exactly
if its image among the branches is (`ImageAcyclic`), and the edge that `add_edge`
accepts is the one `LineageDag` accepts. A step that moves a node ends the
correspondence, and `ImplementsLineage` asks nothing of it.

`DagQueries_proofs` proves, for any ids, askers and number of calls,
`DepthsAreNearest` (DepthIsNearest), `PathsAreComplete` (PathsThroughParents) and
`SubtreesAgree` (SubtreeMirrorsAncestors). `GraphInv` adds to the invariants of
`DagGraph` that edges have ages of their own (`LinksAged`), which makes the lists
of neighbours lists without repetition (`NewestLists`, `UnseenLists`). Each walk has
a loop invariant: what is listed is above the start, what is above it is listed or
above something on the stack, and as many nodes have left the stack as turns were
made (`ClimbInv`; `DescendInv` for the queue, whose depths go up by one at most).
After the last turn the stack is empty, and the list is exact (`UpwardsFinds`,
`DownwardsFinds`, `DfsFinds`). The walks take a parameter, the marks they keep:
slots or branch ids, each of which tells the nodes apart (`Walkable`) while the map
is right; that is why the two implementations agree (`AncestorsFound`,
`DepthOfBranch`). Ancestry is a statement about closed sets (`Leads`), and so is
acyclicity, so no proof needs induction over paths (`LeadsByParent`, `FromParents`).

It also proves what the queries of several locks answer while branches are added
between the locks: `MergeBasesAreCommon` (MergeBaseIsCommon), `MergeBasesAreLowest`
(MergeBaseIsLowest) and `DivergencesAreBounded` (DivergenceNotOverstated).
`QueryInv`, which TLC checked as an invariant before it was proved, says what a
query has in hand (`Asked`), as long as nothing was moved or removed since it began:
what it has found was above its first branch, and an ancestor that this branch has
gained since is above everything that was found. In a lineage of forks the branches
above one branch are a chain (`Comparable`), and what is between two branches of it
was there when the chain was found (`Between`), so a new ancestor can only join at
the top. `LinesGrow` says once what a step adds, and `AskedSurvives` that `Asked`
survives it. In such a lineage the depth of a branch is the number of its ancestors
(`ForestDepth`, by counting on finite sets), so depths only grow (`ForestDeeper`); a
depth read early is too small and never too large, and the farthest of the common
ancestors by depth is the lowest by ancestry.

`SnapshotFiles_proofs` proves, for any number of pages, forkers, readers, other
connections and commits, `TypeCorrect`, `SnapshotsWhole` (SealedWhole) and
`SnapshotsCurrent` (SealedCurrent), from `FilesAssumption`. Pages only get newer:
later commits have newer pages (`CommitsOrdered`), and the main file is never ahead
of the checkpoint (`MainBehind`), so no write of a checkpoint takes a page back.
Hence what was hashed is at most what the file held when copying began, and that is
at most what was copied (`ReadsOrdered`); when the hashes are equal, so are all
three. `OwnCheckpoint` says that a call without "busy" waits for a checkpoint that
goes at least to the commit it began at. `Undisturbed` says once that the steps of
others keep a forker's part of the invariant.

`DagStore_proofs` proves, for any ids, workspaces, cursors, clients and number of
calls, `StoreTyped` (StoreTypeOK), `CursorsKept` (CursorKept) and `LoadsAreTruthful`
(LoadTruthful), from `StoreAssumption`. `StoreTypeOK` is not inductive alone: `JobOK` adds that a client
between its two statements has a branch or a workspace in its job, which is what
makes the second statement of a delete keep the foreign keys. The
action property follows from the types, action by action.

`LoadsAreTruthful` has two halves. `LoadInv` says of a load under way what its first
query saw: the branches that were there all the time are among its nodes, and its
nodes were all stored at some time. The other half is the loop of `add_edge_meta`,
the recursive function of `GraphOf`: after i edges it has failed, and then these i edges have
a cycle, or it has just these edges and they have none (`Made`). `GraphMade` shows it by least counterexample: a first i at which it is
false exists, it is not 0, and `AddMakes` takes it from i - 1 to i.

`SelectiveCommit_proofs` proves, for any branches, schema, rows, cherry-picks and
clients, `TypeCorrect` (TypeOK), `AnswersAreTruthful` (AnswersTruthful),
`LogIsFaithful` (LogNamesArrivedRows), `OnlySelectedRows` (OnlySelectedLand) and
`CommittedOnce` (CommitOnce), from `CommitAssumption`. `CommitInv` says what a call
has in hand at each await (`Locals`), how far it has come when it answers
(`Marked`), and that each staged row combines, as its selection says,
one row its source has held with one its target has held (`Origins`); that is what
lands when the transaction commits. `CommitOnce` needs `OnceInv`: while one
cherry-pick r alone was asked for, the databases are the first ones or those after
r (`Settled`), and what a call of it has read and staged comes from these
(`Undivided`). Where r writes over its own source it writes what was there
(`SourceKept`), so reading before or after another call's commit makes no
difference.

`Sandbox_proofs` proves, for any branches, entity types, rows,
trackers and hosts, `SandboxInvariant`, `SandboxTypeCorrect` (SandboxTypeOK),
`CountersAreBacked` (CountersBacked), `RefreshesAreExact` (RefreshExact) and
`RecommendationsAreTruthful` (RecommendationTruthful), from the assumptions of the
two modules. `MetricsInv` holds of the trackers: every row a call has listed is
backed by what was recorded and is the stored one unless its branch is marked as
overlapped (`Counters`), two calls hold one row only if it is marked (`HeldByOne`),
what an undisturbed call has measured is still so (`Fitting`), and the score of a row
it has not measured, or whose diff failed, is the stored one (`Stored`, which needs that
the list of a refresh_all names each branch once). `SandboxInv` adds
the simulations: no two share a sandbox (`OwnSandbox`), what each has at each await
(`Staged`), and what its diff has read of the two databases (`Watched`). The steps
of the trackers are proved first, for `Metrics` alone; a step of a host is to them
either nothing or one of their own changes of the world.

Induction. What a recursive function computes in n steps is proved by least
counterexample (`SmallestOne`, from the library's well-foundedness of the order on
Nat), as in `GraphMade`, for `Total` in `Metrics` and for the loops of the queries (`Loop`). The library's induction
theorems and RECURSIVE operators are out of the prover's reach.

Every safety invariant and action property of the passing runs is stated by a
theorem. Only model-checked: the liveness properties `DiscardedReclaimed`,
`CallsReturn` and `TimedRunsEnd`, which are out of the prover's reach, and the
violated claims.

## 5. Plan

Done: the lifecycle, the merge, the lineage graph with its queries and its stored
form, the selective commit, the metrics, the simulations and the inside of a
snapshot, and proofs of every safety property of these. Next, in this order:

1. `GcScheduler`: start, stop and shutdown racing each other.
2. `Naming`: slugify and validate over short strings, as functions.

## 6. Not modelled

- The text of reports, diffs and DOT graphs (`diff/formatter.rs`, `dag/dot.rs`,
  `metrics/reporter.rs`): layout of what the modelled parts return.
- Parsing and the builder of the configuration, the error type, serialization of
  the shared types: data definitions. The limits they check are assumptions on the
  constants.
- The guarded engine (`guarded.rs`): one check before each call; the policy engine
  is an external crate.
- The similarity of two values in a field diff (`diff/scorer.rs`): arithmetic on
  floats that is shown to people and decides nothing.
- `topological_sort` and `merge_order`: petgraph's toposort. `leaves`, `list`,
  `list_commits` and the other listings: reads of a state that is modelled.
- `restore_snapshot`, `delete_snapshot`, `BranchStore::delete`,
  `strategy_for_entity_type`: nothing in the crate calls them.
- Starting and stopping the scheduler, slugify and validate: planned, see section 5.
- The benchmarks: no logic of the program.
