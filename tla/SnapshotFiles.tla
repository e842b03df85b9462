--------------------------- MODULE SnapshotFiles ---------------------------
(***************************************************************************)
(* SnapshotCopier::create_snapshot below the level of BranchLifecycle: the *)
(* source is a SQLite database in WAL mode that agents go on writing.      *)
(*                                                                         *)
(* A commit goes to the WAL; a checkpoint carries the pages into the main  *)
(* file one by one, up to what the oldest reader still needs, and one at a *)
(* time.  The copier checkpoints the source, then hashes and copies the    *)
(* main file alone, without a lock: it takes the answer of the PRAGMA for  *)
(* success, and the comparison of the two hashes for proof that nothing    *)
(* moved.  This module says what a snapshot so sealed is worth.            *)
(*                                                                         *)
(* The content of a page is the number of the commit that wrote it.  A     *)
(* crash is an EndCheckpoint and an Abort of all there is.                 *)
(***************************************************************************)
EXTENDS Naturals, Sequences

CONSTANTS
  PageCount,   \* pages of the main file, read in this order
  Forkers,     \* tasks that make snapshots
  Readers,     \* connections with read transactions
  Others,      \* other connections, which checkpoint by themselves
  Nobody,      \* no checkpoint is under way
  MaxCommits   \* bound on the commits of agents

ASSUME FilesAssumption ==
  /\ PageCount \in Nat \ {0}
  /\ Nobody \notin Forkers \cup Others /\ Forkers \cap Others = {}
  /\ MaxCommits \in Nat

Pages    == 1..PageCount
Contents == [Pages -> Nat]

VARIABLES
  commits,   \* the content of the database after each commit, the first one at the start
  main,      \* the content of the main file
  ckpt,      \* the checkpoint: by whom, up to which commit, the pages it has left
  mark,      \* the commit each reader reads at, or 0
  snap       \* the snapshot each forker is making

vars == <<commits, main, ckpt, mark, snap>>

Latest == Len(commits)

\* busy: what the last PRAGMA of the call answered.  began, at and calm are
\* histories: the last commit before the call; the main file between hashing and
\* copying, and whether no checkpoint was under way then, or broken off.
NoSnap ==
  [step |-> "idle", todo |-> 0, page |-> 1, hash |-> [p \in Pages |-> 0],
   copy |-> [p \in Pages |-> 0], busy |-> FALSE, began |-> 1,
   at |-> [p \in Pages |-> 0], calm |-> FALSE]

Init ==
  /\ commits = <<[p \in Pages |-> 1]>>
  /\ main = [p \in Pages |-> 1]
  /\ ckpt = [by |-> Nobody, upto |-> 1, left |-> {}]
  /\ mark = [r \in Readers |-> 0]
  /\ snap = [f \in Forkers |-> NoSnap]

-----------------------------------------------------------------------------
(* The source: SQLite, as far as the copier depends on it.                 *)

\* An agent's transaction writes the pages P.
Commit(P) ==
  /\ Latest <= MaxCommits
  /\ commits' = Append(commits,
       [p \in Pages |-> IF p \in P THEN Latest + 1 ELSE commits[Latest][p]])
  /\ UNCHANGED <<main, ckpt, mark, snap>>

BeginRead(r) ==
  /\ mark[r] = 0
  /\ mark' = [mark EXCEPT ![r] = Latest]
  /\ UNCHANGED <<commits, main, ckpt, snap>>

EndRead(r) ==
  /\ mark[r] # 0
  /\ mark' = [mark EXCEPT ![r] = 0]
  /\ UNCHANGED <<commits, main, ckpt, snap>>

\* A checkpoint may go up to commit k.
Safe(k) ==
  /\ k \in ckpt.upto..Latest
  /\ \A r \in Readers : mark[r] = 0 \/ k <= mark[r]

\* It goes as far as it may.
StartCheckpoint(x, k) ==
  /\ ckpt.by = Nobody
  /\ Safe(k) /\ \A j \in k + 1..Latest : ~ Safe(j)
  /\ ckpt' = [by |-> x, upto |-> k, left |-> Pages]

\* Pages are written in their order.
WritePage ==
  /\ ckpt.by # Nobody
  /\ \E p \in ckpt.left :
       /\ \A q \in ckpt.left : p <= q
       /\ main' = [main EXCEPT ![p] = commits[ckpt.upto][p]]
       /\ ckpt' = [ckpt EXCEPT !.left = @ \ {p}]
  /\ UNCHANGED <<commits, mark, snap>>

\* A commit that made the WAL long, or the last connection that closes.
AutoCheckpoint(x) ==
  /\ \E k \in DOMAIN commits : StartCheckpoint(x, k)
  /\ UNCHANGED <<commits, main, mark, snap>>

\* Done, or broken off: a write fails, or the connection is gone.  What was not
\* written stays in the WAL.
EndCheckpoint(x) ==
  /\ ckpt.by = x
  /\ ckpt' = [ckpt EXCEPT !.by = Nobody]
  /\ UNCHANGED <<commits, main, mark, snap>>

-----------------------------------------------------------------------------
(* The copier.                                                             *)

At(f, step) == snap[f].step = step

\* fork checkpoints twice, once in the lifecycle and once in the copier;
\* create_trunk leaves it to the copier.
Begin(f, todo) ==
  /\ snap[f].step \in {"idle", "sealed"}
  /\ snap' = [snap EXCEPT ![f] = [NoSnap EXCEPT !.step = "pragma", !.todo = todo, !.began = Latest]]
  /\ UNCHANGED <<commits, main, ckpt, mark>>

\* Mutant: the PRAGMA is not sent.
AnswerUnasked(f) ==
  /\ At(f, "pragma")
  /\ snap' = [snap EXCEPT ![f].step = "hash"]
  /\ UNCHANGED <<commits, main, ckpt, mark>>

\* PRAGMA wal_checkpoint(TRUNCATE).  If a writer keeps the write lock it becomes a
\* passive one; if readers or another checkpoint are in its way it answers "busy".
Pragma(f) ==
  /\ At(f, "pragma")
  /\ IF ckpt.by # Nobody
       THEN /\ snap' = [snap EXCEPT ![f].step = "answer", ![f].busy = TRUE]
            /\ UNCHANGED ckpt
       ELSE \E k \in DOMAIN commits :
            /\ StartCheckpoint(f, k)
            /\ snap' = [snap EXCEPT ![f].step = "answer", ![f].busy = k < Latest]
  /\ UNCHANGED <<commits, main, mark>>

\* The answer is a row that nobody reads.
Answer(f) ==
  /\ At(f, "answer")
  /\ ckpt.by = f => ckpt.left = {}
  /\ ckpt' = [ckpt EXCEPT !.by = IF @ = f THEN Nobody ELSE @]
  /\ snap' = [snap EXCEPT ![f].todo = @ - 1,
                         ![f].step = IF snap[f].todo > 1 THEN "pragma" ELSE "hash"]
  /\ UNCHANGED <<commits, main, mark>>

\* hash_file_blake3 of the source.
HashPage(f) ==
  /\ At(f, "hash")
  /\ LET s == [snap[f] EXCEPT !.hash[snap[f].page] = main[snap[f].page]] IN
     snap' = [snap EXCEPT ![f] =
       IF s.page < PageCount THEN [s EXCEPT !.page = @ + 1]
       ELSE [s EXCEPT !.step = "copy", !.page = 1, !.at = main,
                      !.calm = ckpt.by = Nobody /\ ckpt.left = {}]]
  /\ UNCHANGED <<commits, main, ckpt, mark>>

\* The copy to branch.db.tmp.
CopyPage(f) ==
  /\ At(f, "copy")
  /\ LET s == [snap[f] EXCEPT !.copy[snap[f].page] = main[snap[f].page]] IN
     snap' = [snap EXCEPT ![f] =
       IF s.page < PageCount THEN [s EXCEPT !.page = @ + 1] ELSE [s EXCEPT !.step = "compare"]]
  /\ UNCHANGED <<commits, main, ckpt, mark>>

\* Mutant: the hashes are not compared.
SealUnseen(f) ==
  /\ At(f, "compare")
  /\ snap' = [snap EXCEPT ![f].step = "sealed"]
  /\ UNCHANGED <<commits, main, ckpt, mark>>

\* The copy is in place and nobody else has it open: its hash is that of the
\* pages that were copied.  The sidecar and the manifest are written.
Seal(f) ==
  /\ At(f, "compare") /\ snap[f].copy = snap[f].hash
  /\ snap' = [snap EXCEPT ![f].step = "sealed"]
  /\ UNCHANGED <<commits, main, ckpt, mark>>

\* Different hashes, a failed integrity check, an error of any await, a dropped
\* call; a checkpoint of its own is broken off.
Abort(f) ==
  /\ snap[f].step \notin {"idle", "sealed"}
  /\ ckpt' = [ckpt EXCEPT !.by = IF @ = f THEN Nobody ELSE @]
  /\ snap' = [snap EXCEPT ![f] = NoSnap]
  /\ UNCHANGED <<commits, main, mark>>

Source ==
  \/ \E P \in SUBSET Pages \ {{}} : Commit(P)
  \/ \E r \in Readers : BeginRead(r) \/ EndRead(r)
  \/ \E x \in Others : AutoCheckpoint(x) \/ EndCheckpoint(x)
  \/ WritePage

Copier(f) ==
  \/ \E todo \in {1, 2} : Begin(f, todo)
  \/ Pragma(f) \/ Answer(f) \/ HashPage(f) \/ CopyPage(f) \/ Seal(f) \/ Abort(f)

Next == Source \/ \E f \in Forkers : Copier(f)

Spec == Init /\ [][Next]_vars

-----------------------------------------------------------------------------
(* Properties.                                                             *)

Steps == {"idle", "pragma", "answer", "hash", "copy", "compare", "sealed"}

\* Every variable has its type.
TypeOK ==
  /\ commits \in Seq(Contents) /\ Latest \in Nat \ {0}
  /\ main \in Contents
  /\ ckpt \in [by : Forkers \cup Others \cup {Nobody}, upto : 1..Latest, left : SUBSET Pages]
  /\ mark \in [Readers -> 0..Latest]
  /\ snap \in [Forkers -> [step : Steps, todo : 0..2, page : Pages, hash : Contents,
                           copy : Contents, busy : BOOLEAN, began : 1..Latest,
                           at : Contents, calm : BOOLEAN]]

Sealed(f) == snap[f].step = "sealed"

\* A sealed snapshot is the main file as it was at one instant, however commits
\* and checkpoints moved while it was hashed and copied.  It is the content after
\* one commit unless a checkpoint was under way at that instant, or had been
\* broken off: the hashes alone do not exclude a copy that is torn.
SealedWhole ==
  \A f \in Forkers : Sealed(f) =>
    /\ snap[f].copy = snap[f].at
    /\ snap[f].calm => \E k \in DOMAIN commits : snap[f].copy = commits[k]

\* It has every page as new as the last commit before the call, unless the PRAGMA
\* answered "busy": then a fork may lack rows that its parent had.
SealedCurrent ==
  \A f \in Forkers : Sealed(f) /\ ~ snap[f].busy =>
    \A p \in Pages : commits[snap[f].began][p] <= snap[f].copy[p]
=============================================================================
