------------------------------ MODULE Metrics ------------------------------
(***************************************************************************)
(* MetricsTracker: the counters of each branch in the registry.            *)
(*                                                                         *)
(* track_op reads a row, adds one and writes it back in two awaits.        *)
(* refresh counts the tables one query at a time, asks for the commits and *)
(* the parent, diffs the branch with it table by table, and writes the     *)
(* whole row: what it does not measure it takes from the row it was given. *)
(* Agents, commits, the collector and other trackers come in between.      *)
(***************************************************************************)
EXTENDS Naturals, FiniteSets, Sequences, FiniteSetsExt, SequencesExt

CONSTANTS
  Branches,    \* branch ids
  Trunk,       \* the trunk, the only branch there is at first
  NoBranch,    \* no parent
  Types,       \* the entity types, in the order of the code
  Entities,    \* the rows that may occur, <<type, id>>
  Contents,    \* what a row may contain
  Absent,      \* no row with that id
  OpKinds,     \* the kinds of operation: insert, update, delete
  Trackers,    \* tasks that call the tracker
  MaxTracked,  \* bound on the calls of the tracker
  MaxChanges   \* bound on the changes of others

\* Databases with finitely many rows.
Databases ==
  {d \in [Entities -> Contents \cup {Absent}] : IsFiniteSet({e \in Entities : d[e] # Absent})}

ASSUME MetricsAssumption ==
  /\ Trunk \in Branches /\ NoBranch \notin Branches
  /\ Types \in Seq(ToSet(Types)) /\ Types # <<>>
  /\ Entities \subseteq ToSet(Types) \X {e[2] : e \in Entities}
  /\ Absent \notin Contents
  /\ MaxTracked \in Nat /\ MaxChanges \in Nat

VARIABLES
  status,      \* branches.status; "none" where there is no row
  parent,      \* branches.parent_id, or NoBranch
  metrics,     \* branch_metrics
  commits,     \* how many rows of branch_commits a branch has
  file,        \* whether the database of a branch is on disk
  db,          \* its contents, which open connections can read all the same
  job,         \* what each tracker has under way, or Free
  calls,       \* history: the calls of the tracker, to bound them
  changes,     \* history: the changes of others, to bound them
  done,        \* history: how often an operation was recorded, in all and of each kind
  overlapped,  \* history: two calls, or one and the fork, held the row of a branch
  calm         \* history: nothing has changed since the tracker was called

registry == <<status, parent, metrics, commits>>
stores   == <<registry, file, db>>
vars     == <<stores, job, calls, changes, done, overlapped, calm>>

Rows == {b \in Branches : status[b] # "none"}
Live == {"active", "dormant"}

Free == [step |-> "free"]

-----------------------------------------------------------------------------
(* Counts, diffs and scores.                                               *)

Table(d, i) == {e \in Entities : e[1] = Types[i] /\ d[e] # Absent}

\* BranchMetrics::default with the counts of the manifest.
Fresh(d) ==
  [ops |-> 0, score |-> <<0, 1>>, written |-> [k \in OpKinds |-> 0],
   counts |-> [i \in DOMAIN Types |-> Cardinality(Table(d, i))]]

\* A row without metrics is read as one with zeros.
NoMetrics == Fresh([e \in Entities |-> Absent])

Added(a, b)    == {e \in Entities : a[e] = Absent /\ b[e] # Absent}
Removed(a, b)  == {e \in Entities : a[e] # Absent /\ b[e] = Absent}
Modified(a, b) == {e \in Entities : a[e] # Absent /\ b[e] # Absent /\ a[e] # b[e]}
Union(a, b)    == {e \in Entities : a[e] # Absent \/ b[e] # Absent}

\* Mutant: a modified row weighs as much as an added one.
ComputeScoreUnweighted(a, b, base) ==
  LET n == Cardinality(Added(a, b)) + Cardinality(Removed(a, b)) + Cardinality(Modified(a, b))
      d == Max({base, 1})
  IN <<Min({n, d}), d>>

\* compute_score, as a fraction: (added + removed + modified / 2) / max(base, 1),
\* at most one.
ComputeScore(a, b, base) ==
  LET n == 2 * (Cardinality(Added(a, b)) + Cardinality(Removed(a, b)))
             + Cardinality(Modified(a, b))
      d == 2 * Max({base, 1})
  IN <<Min({n, d}), d>>

\* The sum of a sequence of counts.
Total(counts) ==
  LET sum[i \in 0..Len(counts)] == IF i = 0 THEN 0 ELSE sum[i - 1] + counts[i]
  IN sum[Len(counts)]

-----------------------------------------------------------------------------
(* A diff of branches a and b: each type of the one, then of the other.    *)

Blank  == [e \in Entities |-> Absent]
NoView == [at |-> 0, a |-> Blank, b |-> Blank]

Complete(view) == view.at = 2 * Len(Types)

\* The view after one more query.
Seen(view, a, b) ==
  LET type == Types[1 + view.at \div 2]
      Merged(old, new) == [e \in Entities |-> IF e[1] = type THEN new[e] ELSE old[e]]
  IN IF view.at % 2 = 0
       THEN [view EXCEPT !.at = @ + 1, !.a = Merged(@, db[a])]
       ELSE [view EXCEPT !.at = @ + 1, !.b = Merged(@, db[b])]

-----------------------------------------------------------------------------
Init ==
  /\ status = [b \in Branches |-> IF b = Trunk THEN "active" ELSE "none"]
  /\ \E d \in Databases : db = [b \in Branches |-> IF b = Trunk THEN d ELSE Blank]
  /\ metrics = [b \in Branches |-> Fresh(db[b])]
  /\ file = [b \in Branches |-> b = Trunk]
  /\ parent = [b \in Branches |-> NoBranch]
  /\ commits = [b \in Branches |-> 0]
  /\ job = [t \in Trackers |-> Free]
  /\ calls = 0 /\ changes = 0
  /\ done = [b \in Branches |-> [all |-> 0, of |-> [k \in OpKinds |-> 0]]]
  /\ overlapped = [b \in Branches |-> FALSE]
  /\ calm = [t \in Trackers |-> TRUE]

Held(b)  == [of |-> b, row |-> metrics[b]]
Holds(t) == IF job[t] = Free THEN {} ELSE {h.of : h \in ToSet(job[t].queue)}

At(t, step)   == job[t].step = step
Of(t)         == Head(job[t].queue).of
Row(t)        == Head(job[t].queue).row
Goto(t, step) == job' = [job EXCEPT ![t].step = step]
Quit(t)       == job' = [job EXCEPT ![t] = Free]

\* Something has changed that others than the tasks ts may have looked at.
Disturb(ts) == calm' = [t \in Trackers |-> job[t] = Free \/ (calm[t] /\ t \in ts)]

\* A call that has read the rows of a queue.
Call(t, step, kind, queue) ==
  /\ job[t] = Free
  /\ calls < MaxTracked
  /\ job' = [job EXCEPT ![t] = [step |-> step, kind |-> kind, queue |-> queue, ops |-> 0,
                                counts |-> <<>>, base |-> 0, view |-> NoView]]
  /\ calls' = calls + 1
  /\ overlapped' = [b \in Branches |-> overlapped[b] \/
                      \E h \in ToSet(queue), u \in Trackers : h.of = b /\ b \in Holds(u)]
  /\ calm' = [calm EXCEPT ![t] = TRUE]
  /\ UNCHANGED <<stores, changes, done>>

Track(t, b, k) == b \in Rows /\ Call(t, "track", k, <<Held(b)>>)

\* update_metrics: the whole row is replaced.
UpdateMetrics(t, row) ==
  /\ metrics' = [metrics EXCEPT ![Of(t)] = row]
  /\ Disturb({t})
  /\ UNCHANGED <<status, parent, commits, file, db, calls, changes, overlapped>>

TrackWrite(t) ==
  /\ At(t, "track")
  /\ UpdateMetrics(t, [Row(t) EXCEPT !.ops = @ + 1, !.written[job[t].kind] = @ + 1])
  /\ done' = [done EXCEPT ![Of(t)].all = @ + 1, ![Of(t)].of[job[t].kind] = @ + 1]
  /\ Quit(t)

-----------------------------------------------------------------------------
Refresh(t, b) == b \in Rows /\ Call(t, "open", "none", <<Held(b)>>)

\* One list of all rows, discarded and purged ones included.
RefreshAll(t) ==
  \E queue \in SetToSeqs({Held(b) : b \in Rows}) : Call(t, "open", "none", queue)

\* A branch without a database ends the call, and with it the rest of the list.
OpenDb(t) ==
  /\ At(t, "open")
  /\ IF file[Of(t)] THEN Goto(t, "count") ELSE Quit(t)
  /\ UNCHANGED <<stores, calls, changes, done, overlapped, calm>>

\* count_table, one query for each type.
CountTable(t) ==
  /\ At(t, "count")
  /\ LET n == Len(job[t].counts) + 1 IN
     job' = [job EXCEPT ![t].counts = Append(@, Cardinality(Table(db[Of(t)], n))),
                        ![t].step = IF n < Len(Types) THEN "count" ELSE "commits"]
  /\ UNCHANGED <<stores, calls, changes, done, overlapped, calm>>

CountCommits(t) ==
  /\ At(t, "commits")
  /\ job' = [job EXCEPT ![t].ops = commits[Of(t)],
                        ![t].step = IF parent[Of(t)] = NoBranch THEN "write" ELSE "parent",
                        ![t].queue[1].row.score = IF parent[Of(t)] = NoBranch THEN <<0, 1>> ELSE @]
  /\ UNCHANGED <<stores, calls, changes, done, overlapped, calm>>

\* The base of the score is what the row of the parent says.
ReadParent(t) ==
  /\ At(t, "parent")
  /\ job' = [job EXCEPT ![t].base = Total(metrics[parent[Of(t)]].counts), ![t].step = "pools"]
  /\ UNCHANGED <<stores, calls, changes, done, overlapped, calm>>

\* A branch that has no database any more cannot be diffed.
OpenPools(t) ==
  /\ At(t, "pools")
  /\ Goto(t, IF file[Of(t)] /\ file[parent[Of(t)]] THEN "diff" ELSE "keep")
  /\ UNCHANGED <<stores, calls, changes, done, overlapped, calm>>

ReadDiff(t) ==
  /\ At(t, "diff")
  /\ LET view == Seen(job[t].view, Of(t), parent[Of(t)]) IN
     job' = IF Complete(view)
            THEN [job EXCEPT ![t].view = NoView, ![t].step = "write",
                    ![t].queue[1].row.score = ComputeScore(view.a, view.b, job[t].base)]
            ELSE [job EXCEPT ![t].view = view]
  /\ UNCHANGED <<stores, calls, changes, done, overlapped, calm>>

\* Any error of the lookup of the parent or of the diff is passed over: the
\* refresh goes on to write the row, with the score it has had.
KeepScore(t) ==
  /\ job[t].step \in {"parent", "pools", "diff"}
  /\ job' = [job EXCEPT ![t].step = "keep", ![t].view = NoView]
  /\ UNCHANGED <<stores, calls, changes, done, overlapped, calm>>

\* Mutant: the counters of the operations start again.
MeasuredReset(t) ==
  [Row(t) EXCEPT !.ops = job[t].ops, !.counts = job[t].counts, !.written = [k \in OpKinds |-> 0]]

\* What was not measured is as in the row the call began with.
Measured(t) == [Row(t) EXCEPT !.ops = job[t].ops, !.counts = job[t].counts]

WriteBack(t) ==
  /\ At(t, "write") \/ At(t, "keep")
  /\ UpdateMetrics(t, Measured(t))
  /\ LET rest == Tail(job[t].queue) IN
     job' = [job EXCEPT ![t] = IF rest = <<>> THEN Free
                               ELSE [job[t] EXCEPT !.step = "open", !.queue = rest,
                                                    !.counts = <<>>]]
  /\ UNCHANGED done

\* An error of any other await, or a dropped call.
GiveUp(t) ==
  /\ job[t] # Free
  /\ Quit(t)
  /\ UNCHANGED <<stores, calls, changes, done, overlapped, calm>>

Tracker(t) ==
  \/ \E b \in Branches : Refresh(t, b) \/ \E k \in OpKinds : Track(t, b, k)
  \/ RefreshAll(t)
  \/ TrackWrite(t) \/ OpenDb(t) \/ CountTable(t) \/ CountCommits(t) \/ ReadParent(t)
  \/ OpenPools(t) \/ ReadDiff(t) \/ KeepScore(t) \/ WriteBack(t) \/ GiveUp(t)

-----------------------------------------------------------------------------
(* The rest of the world, as far as the tracker sees it.                   *)

Change ==
  /\ changes < MaxChanges
  /\ changes' = changes + 1
  /\ Disturb({})
  /\ UNCHANGED <<parent, metrics, job, calls, done, overlapped>>

\* An agent of its own writes or deletes a row of a branch.
Write(b, e, row) ==
  /\ file[b] /\ row # db[b][e]
  /\ db' = [db EXCEPT ![b][e] = row]
  /\ UNCHANGED <<status, commits, file>>
  /\ Change

LogCommit(b) ==
  /\ status[b] = "active"
  /\ commits' = [commits EXCEPT ![b] = @ + 1]
  /\ UNCHANGED <<status, file, db>>
  /\ Change

Discard(b) ==
  /\ status[b] \in Live
  /\ status' = [status EXCEPT ![b] = "discarded"]
  /\ UNCHANGED <<commits, file, db>>
  /\ Change

\* Mutant: the collector removes the row of the branch, too.
CollectForgets(b) ==
  /\ status[b] = "discarded"
  /\ status' = [status EXCEPT ![b] = "none"]
  /\ file' = [file EXCEPT ![b] = FALSE]
  /\ UNCHANGED <<commits, db>>
  /\ Change

\* The collector erases a discarded branch.
Collect(b) ==
  /\ status[b] = "discarded"
  /\ status' = [status EXCEPT ![b] = "purged"]
  /\ file' = [file EXCEPT ![b] = FALSE]
  /\ UNCHANGED <<commits, db>>
  /\ Change

Others ==
  \E b \in Branches :
    \/ LogCommit(b) \/ Discard(b) \/ Collect(b)
    \/ \E e \in Entities, row \in Contents \cup {Absent} : Write(b, e, row)

-----------------------------------------------------------------------------
(* Properties.                                                             *)

Statuses == {"none", "active", "dormant", "archived", "discarded", "purged"}

\* Every variable has its type; in particular a score is at least 0 and at most 1.
TypeOK ==
  /\ status \in [Branches -> Statuses]
  /\ parent \in [Branches -> Branches \cup {NoBranch}]
  /\ \A b \in Branches : /\ metrics[b].ops \in Nat
                         /\ metrics[b].score[1] \in 0..metrics[b].score[2]
                         /\ metrics[b].written \in [OpKinds -> Nat]
                         /\ metrics[b].counts \in [DOMAIN Types -> Nat]
  /\ commits \in [Branches -> Nat]
  /\ file \in [Branches -> BOOLEAN]
  /\ db \in [Branches -> Databases]
  /\ \A t \in Trackers : job[t] = Free \/ Of(t) \in Rows

\* However the calls of the tracker race, a counter never exceeds the operations
\* that were recorded, and where no two calls, nor a call and the fork, held one
\* row it equals them: a refresh in between loses none.
CountersBacked ==
  \A b \in Branches :
    /\ \A k \in OpKinds : metrics[b].written[k] <= done[b].of[k]
    /\ metrics[b].ops <= commits[b] + done[b].all
    /\ ~ overlapped[b] => metrics[b].written = done[b].of

\* The score that a refresh of b should find, with the rows that differ between
\* the branch and its parent.
IsScoreOf(score, b) ==
  LET differ == {e \in Entities : db[b][e] # db[parent[b]][e]}
      half   == {e \in differ : db[b][e] # Absent /\ db[parent[b]][e] # Absent}
      base   == Total(metrics[parent[b]].counts)
      weight == 2 * Cardinality(differ) - Cardinality(half)
  IN IF parent[b] = NoBranch THEN score[1] = 0
     ELSE IF base = 0 THEN score[1] * 2 = score[2] * Min({weight, 2})
     ELSE score[1] * 2 * base = score[2] * Min({weight, 2 * base})

\* The commits and the tables, as a refresh of b should find them.
IsCountOf(row, b) ==
  /\ row.ops = commits[b]
  /\ \A i \in DOMAIN Types :
       row.counts[i] = Cardinality({e \in Entities : e[1] = Types[i] /\ db[b][e] # Absent})

\* A refresh during which nothing changed leaves what a look at the branch, its
\* parent and the log gives, also in a list of refreshes; unless the lookup of the
\* parent or the diff failed, when the score is still the one that was stored.
RefreshExact ==
  [][\A t \in Trackers : calm[t] /\ WriteBack(t) =>
       LET b == Of(t) IN
       /\ IsCountOf(metrics'[b], b)
       /\ At(t, "write") => IsScoreOf(metrics'[b].score, b)
       /\ At(t, "keep") => parent[b] # NoBranch /\ metrics'[b].score = metrics[b].score]_vars
=============================================================================
