------------------------ MODULE SnapshotFiles_proofs ------------------------
(***************************************************************************)
(* Proofs about SnapshotFiles, for any number of pages, forkers, readers   *)
(* and commits.                                                            *)
(*                                                                         *)
(* The content of a page only grows.  What was hashed is at most what the  *)
(* file held between hashing and copying, and that is at most what was     *)
(* copied: when the two hashes are the same, all three are.                *)
(***************************************************************************)
EXTENDS SnapshotFiles, TLAPS

Snap == [step : Steps, todo : 0..2, page : Pages, hash : Contents, copy : Contents,
         busy : BOOLEAN, began : 1..Latest, at : Contents, calm : BOOLEAN]

\* Later commits have newer pages.
CommitsOrdered ==
  \A i, j \in 1..Latest : i <= j => \A p \in Pages : commits[i][p] <= commits[j][p]

\* No page is newer than the commit that has it.
CommitsNumbered == \A i \in 1..Latest : \A p \in Pages : commits[i][p] <= i

\* The main file is never ahead of the last checkpoint, and level with it where
\* there is nothing left to write.
MainBehind ==
  \A p \in Pages :
    /\ main[p] <= commits[ckpt.upto][p]
    /\ p \notin ckpt.left => main[p] = commits[ckpt.upto][p]

\* A call that has not been told "busy" waits for a checkpoint of its own, which
\* goes at least to the commit before the call.
OwnCheckpoint(f) ==
  /\ snap[f].step \in {"pragma", "answer"} => snap[f].todo \in {1, 2} /\ snap[f].page = 1
  /\ snap[f].step = "answer" /\ snap[f].busy = FALSE =>
       ckpt.by = f /\ snap[f].began <= ckpt.upto

\* What a forker has read, in the order of time.
ReadsOrdered(f) ==
  /\ snap[f].step = "hash" =>
       \A p \in Pages : p < snap[f].page => snap[f].hash[p] <= main[p]
  /\ snap[f].step = "copy" => \A p \in Pages :
       /\ snap[f].hash[p] <= snap[f].at[p] /\ snap[f].at[p] <= main[p]
       /\ p < snap[f].page => snap[f].at[p] <= snap[f].copy[p]
  /\ snap[f].step \in {"compare", "sealed"} => \A p \in Pages :
       snap[f].hash[p] <= snap[f].at[p] /\ snap[f].at[p] <= snap[f].copy[p]
  /\ snap[f].step = "sealed" => snap[f].copy = snap[f].hash

\* The file is a commit when nothing is left to write.
CalmCommit(f) ==
  snap[f].step \in {"copy", "compare", "sealed"} /\ snap[f].calm = TRUE =>
    \E k \in 1..Latest : snap[f].at = commits[k]

\* Without "busy" nothing from before the call is missing.
CurrentSoFar(f) ==
  snap[f].busy = FALSE =>
    /\ snap[f].step = "hash" =>
         \A p \in Pages : commits[snap[f].began][p] <= main[p]
    /\ snap[f].step \in {"copy", "compare", "sealed"} =>
         \A p \in Pages : commits[snap[f].began][p] <= snap[f].at[p]

ForkerInv(f) ==
  OwnCheckpoint(f) /\ ReadsOrdered(f) /\ CalmCommit(f) /\ CurrentSoFar(f)

SourceInv == CommitsOrdered /\ CommitsNumbered /\ MainBehind

IInv ==
  /\ TypeOK
  /\ SourceInv
  /\ \A f \in Forkers : ForkerInv(f)

-----------------------------------------------------------------------------
LEMMA PagesNat == Pages \subseteq Nat /\ 1 \in Pages /\ PageCount \in Pages
BY FilesAssumption DEF Pages

LEMMA InitEstablishes == Init => IInv
<1> SUFFICES ASSUME Init PROVE IInv
  OBVIOUS
<1> USE DEF Init
<1>1. /\ commits \in Seq(Contents) /\ Latest = 1 /\ main \in Contents
      /\ commits[1] = [p \in Pages |-> 1]
  BY DEF Contents, Latest
<1>2. NoSnap \in Snap
  BY <1>1, PagesNat DEF NoSnap, Snap, Steps, Contents
<1>3. TypeOK
  <2>1. snap \in [Forkers -> Snap]
    BY <1>2
  <2>2. mark \in [Readers -> 0..Latest]
    BY <1>1
  <2>3. ckpt \in [by : Forkers \cup Others \cup {Nobody}, upto : 1..Latest, left : SUBSET Pages]
    BY <1>1
  <2> QED
    BY <1>1, <2>1, <2>2, <2>3 DEF TypeOK, Snap
<1>4. SourceInv
  BY <1>1 DEF SourceInv, CommitsOrdered, CommitsNumbered, MainBehind
<1>5. ASSUME NEW f \in Forkers PROVE ForkerInv(f)
  BY DEF ForkerInv, OwnCheckpoint, ReadsOrdered, CalmCommit, CurrentSoFar, NoSnap
<1> QED
  BY <1>3, <1>4, <1>5 DEF IInv

-----------------------------------------------------------------------------
(* The source.                                                             *)

\* Commits are only added: each is as it was, and a new one is the newest.
Grown ==
  /\ commits' \in Seq(Contents) /\ Latest' \in Nat \ {0} /\ Latest <= Latest'
  /\ \A k \in 1..Latest : commits'[k] = commits[k]
  /\ CommitsOrdered' /\ CommitsNumbered'

LEMMA CommitGrows ==
  ASSUME TypeOK, SourceInv, NEW P \in SUBSET Pages, Commit(P)
  PROVE  Grown
<1> DEFINE c == [p \in Pages |-> IF p \in P THEN Latest + 1 ELSE commits[Latest][p]]
<1>1. commits[Latest] \in Contents /\ Latest \in Nat \ {0}
  BY DEF TypeOK, Latest
<1>2. c \in Contents
  BY <1>1 DEF Contents
<1>3. commits' = Append(commits, c)
  BY DEF Commit
<1> HIDE DEF c
<1>4. /\ commits' \in Seq(Contents) /\ Latest' = Latest + 1
      /\ \A k \in 1..Latest : commits'[k] = commits[k]
      /\ commits'[Latest + 1] = c
  BY <1>1, <1>2, <1>3 DEF TypeOK, Latest
<1>5. \A k \in 1..Latest : commits[k] \in Contents
  BY DEF TypeOK, Latest
<1>6. ASSUME NEW k \in 1..Latest, NEW p \in Pages
      PROVE  commits[k][p] <= c[p] /\ c[p] <= Latest + 1 /\ c[p] \in Nat
  <2>1. /\ commits[k][p] \in Nat /\ commits[Latest][p] \in Nat
        /\ commits[k][p] <= commits[Latest][p] /\ commits[Latest][p] <= Latest
        /\ commits[k][p] <= k
    BY <1>1, <1>5 DEF SourceInv, CommitsOrdered, CommitsNumbered, Contents
  <2> QED
    BY <2>1, <1>1 DEF c
<1>7. CommitsOrdered'
  <2> SUFFICES ASSUME NEW i \in 1..Latest', NEW j \in 1..Latest', i <= j, NEW p \in Pages
               PROVE  commits'[i][p] <= commits'[j][p]
    BY DEF CommitsOrdered
  <2>1. CASE j \in 1..Latest
    BY <2>1, <1>1, <1>4 DEF SourceInv, CommitsOrdered
  <2>2. CASE j = Latest + 1 /\ i \in 1..Latest
    BY <2>2, <1>4, <1>6
  <2>3. CASE j = Latest + 1 /\ i = Latest + 1
    <3>1. c[p] \in Nat
      BY <1>6, <1>1
    <3> QED
      BY <2>3, <3>1, <1>4
  <2> QED
    BY <2>1, <2>2, <2>3, <1>1, <1>4
<1>8. CommitsNumbered'
  <2> SUFFICES ASSUME NEW i \in 1..Latest', NEW p \in Pages PROVE commits'[i][p] <= i
    BY DEF CommitsNumbered
  <2>1. CASE i \in 1..Latest
    BY <2>1, <1>4 DEF SourceInv, CommitsNumbered
  <2>2. CASE i = Latest + 1
    <3>1. c[p] <= Latest + 1
      BY <1>1, <1>6
    <3> QED
      BY <2>2, <3>1, <1>4
  <2> QED
    BY <2>1, <2>2, <1>1, <1>4
<1> QED
  BY <1>1, <1>4, <1>7, <1>8 DEF Grown

LEMMA StillGrown ==
  ASSUME TypeOK, SourceInv, UNCHANGED commits
  PROVE  Grown
BY DEF TypeOK, SourceInv, Grown, Latest, CommitsOrdered, CommitsNumbered

Checkpoint == [by : Forkers \cup Others \cup {Nobody}, upto : 1..Latest, left : SUBSET Pages]

\* The main file only gets newer, and stays behind the checkpoint.
Moved ==
  /\ main' \in Contents /\ ckpt' \in Checkpoint'
  /\ \A p \in Pages : main[p] <= main'[p]
  /\ MainBehind'

LEMMA FileKept ==
  ASSUME TypeOK, SourceInv, Grown, UNCHANGED main,
         ckpt'.by \in Forkers \cup Others \cup {Nobody},
         ckpt' = [ckpt EXCEPT !.by = ckpt'.by]
  PROVE  Moved
<1>1. main' \in Contents /\ \A p \in Pages : main[p] <= main'[p]
  BY DEF TypeOK, Contents
<1>2. /\ ckpt'.upto = ckpt.upto /\ ckpt'.left = ckpt.left
      /\ commits'[ckpt.upto] = commits[ckpt.upto]
  BY DEF TypeOK, Grown
<1>3. MainBehind'
  BY <1>2 DEF SourceInv, MainBehind
<1>4. ckpt' \in Checkpoint'
  BY <1>2 DEF TypeOK, Grown, Checkpoint
<1> QED
  BY <1>1, <1>3, <1>4 DEF Moved

LEMMA FileStart ==
  ASSUME TypeOK, SourceInv, Grown, UNCHANGED main,
         NEW x \in Forkers \cup Others, NEW k \in 1..Latest, StartCheckpoint(x, k)
  PROVE  Moved
<1>1. main' \in Contents /\ \A p \in Pages : main[p] <= main'[p]
  BY DEF TypeOK, Contents
<1>2. /\ ckpt' = [by |-> x, upto |-> k, left |-> Pages] /\ ckpt.upto <= k
      /\ commits'[k] = commits[k]
  BY DEF StartCheckpoint, Safe, Grown, TypeOK
<1>3. \A p \in Pages : main[p] <= commits[k][p]
  <2>1. ckpt.upto \in 1..Latest /\ commits[ckpt.upto] \in Contents /\ commits[k] \in Contents
    BY DEF TypeOK, Latest
  <2>2. ASSUME NEW p \in Pages PROVE main[p] <= commits[k][p]
    <3>1. main[p] <= commits[ckpt.upto][p] /\ commits[ckpt.upto][p] <= commits[k][p]
      BY <1>2, <2>1 DEF SourceInv, MainBehind, CommitsOrdered
    <3> QED
      BY <3>1, <2>1 DEF TypeOK, Contents
  <2> QED
    BY <2>2
<1>4. MainBehind'
  BY <1>2, <1>3 DEF MainBehind
<1>5. ckpt' \in Checkpoint'
  BY <1>2 DEF TypeOK, Grown, Checkpoint
<1> QED
  BY <1>1, <1>4, <1>5 DEF Moved

LEMMA FileWritten ==
  ASSUME TypeOK, SourceInv, Grown, WritePage
  PROVE  Moved
<1>1. PICK q \in ckpt.left : /\ main' = [main EXCEPT ![q] = commits[ckpt.upto][q]]
                             /\ ckpt' = [ckpt EXCEPT !.left = @ \ {q}]
  BY DEF WritePage
<1>2. /\ q \in Pages /\ ckpt.upto \in 1..Latest /\ ckpt.left \in SUBSET Pages
      /\ commits[ckpt.upto] \in Contents
  BY DEF TypeOK, Latest
<1>3. /\ ckpt'.upto = ckpt.upto /\ ckpt'.left = ckpt.left \ {q} /\ ckpt' \in Checkpoint'
      /\ commits'[ckpt.upto] = commits[ckpt.upto]
  <2>1. /\ ckpt \in Checkpoint /\ Latest \in Nat /\ Latest' \in Nat /\ Latest <= Latest'
        /\ commits'[ckpt.upto] = commits[ckpt.upto]
    BY <1>2 DEF TypeOK, Grown, Checkpoint
  <2>2. ckpt' \in Checkpoint
    BY <1>1, <1>2, <2>1 DEF Checkpoint
  <2>3. ckpt'.upto = ckpt.upto /\ ckpt'.left = ckpt.left \ {q}
    BY <1>1, <2>1 DEF Checkpoint
  <2>4. Checkpoint \subseteq Checkpoint'
    BY <2>1 DEF Checkpoint
  <2> QED
    BY <2>1, <2>2, <2>3, <2>4
<1>4. /\ main' \in Contents /\ main'[q] = commits[ckpt.upto][q]
      /\ \A p \in Pages \ {q} : main'[p] = main[p]
  BY <1>1, <1>2 DEF TypeOK, Contents
<1>5. ASSUME NEW p \in Pages
      PROVE  /\ main[p] <= main'[p] /\ main'[p] <= commits'[ckpt'.upto][p]
             /\ p \notin ckpt'.left => main'[p] = commits'[ckpt'.upto][p]
  <2>1. /\ main[p] <= commits[ckpt.upto][p] /\ main[p] \in Nat /\ commits[ckpt.upto][p] \in Nat
        /\ p \notin ckpt.left => main[p] = commits[ckpt.upto][p]
    BY <1>2 DEF TypeOK, SourceInv, MainBehind, Contents
  <2> QED
    BY <2>1, <1>3, <1>4
<1> QED
  BY <1>3, <1>4, <1>5 DEF Moved, MainBehind

-----------------------------------------------------------------------------
(* The forkers.                                                            *)

\* What others do leaves a forker's invariant alone.
LEMMA Undisturbed ==
  ASSUME TypeOK, Grown, Moved, NEW g \in Forkers, ForkerInv(g), snap'[g] = snap[g],
         ckpt.by = g => ckpt'.by = g /\ ckpt'.upto = ckpt.upto
  PROVE  snap'[g] \in Snap' /\ ForkerInv(g)'
<1>1. /\ snap[g] \in Snap /\ snap[g].began \in 1..Latest
      /\ snap[g].hash \in Contents /\ snap[g].at \in Contents
  BY DEF TypeOK, Snap
<1>2. snap'[g] \in Snap'
  BY <1>1 DEF Snap, Grown, TypeOK
<1>3. commits'[snap[g].began] = commits[snap[g].began] /\ commits[snap[g].began] \in Contents
  BY <1>1 DEF Grown, TypeOK, Latest
<1>4. OwnCheckpoint(g)'
  BY DEF ForkerInv, OwnCheckpoint
<1>5. \A p \in Pages : /\ main[p] <= main'[p] /\ main[p] \in Nat /\ main'[p] \in Nat
                       /\ snap[g].hash[p] \in Nat /\ snap[g].at[p] \in Nat
                       /\ commits[snap[g].began][p] \in Nat
  BY <1>1, <1>3 DEF TypeOK, Moved, Contents
<1>6. ReadsOrdered(g)'
  BY <1>5 DEF ForkerInv, ReadsOrdered
<1>7. CalmCommit(g)'
  BY DEF ForkerInv, CalmCommit, Grown, TypeOK
<1>8. CurrentSoFar(g)'
  BY <1>3, <1>5 DEF ForkerInv, CurrentSoFar
<1> QED
  BY <1>2, <1>4, <1>6, <1>7, <1>8 DEF ForkerInv

\* A forker's own step: the file as it moved, the others as they were.
OwnStep(f) ==
  /\ Grown /\ Moved
  /\ snap'[f] \in Snap' /\ ForkerInv(f)'
  /\ snap' = [snap EXCEPT ![f] = snap'[f]]
  /\ \A g \in Forkers \ {f} : ckpt.by = g => ckpt'.by = g /\ ckpt'.upto = ckpt.upto

\* The forker's record has its type before and, in a record that is longer-lived,
\* after the step.
LEMMA SnapType ==
  ASSUME TypeOK, Grown, NEW f \in Forkers
  PROVE  snap[f] \in Snap /\ Snap \subseteq Snap'
BY DEF TypeOK, Grown, Snap

\* The updates of a record, one field at a time.
LEMMA UpdateStep ==
  ASSUME NEW s \in Snap, NEW step \in Steps
  PROVE  [s EXCEPT !.step = step] \in Snap
BY DEF Snap

LEMMA UpdateTodo ==
  ASSUME NEW s \in Snap, NEW todo \in 0..2
  PROVE  [s EXCEPT !.todo = todo] \in Snap
BY DEF Snap

LEMMA UpdateBegan ==
  ASSUME NEW s \in Snap, NEW began \in 1..Latest
  PROVE  [s EXCEPT !.began = began] \in Snap
BY DEF Snap

LEMMA BeginOwn ==
  ASSUME IInv, NEW f \in Forkers, NEW todo \in {1, 2}, Begin(f, todo)
  PROVE  OwnStep(f)
<1>1. Grown
  BY StillGrown DEF IInv, Begin
<1>2. Moved
  BY <1>1, FileKept DEF IInv, Begin, TypeOK
<1> DEFINE s == [NoSnap EXCEPT !.step = "pragma", !.todo = todo, !.began = Latest]
<1>3. snap' = [snap EXCEPT ![f] = s] /\ snap'[f] = s
  BY DEF Begin, IInv, TypeOK
<1>4. s \in Snap /\ s.step = "pragma" /\ s.todo = todo /\ s.page = 1
  <2>1. NoSnap \in Snap /\ NoSnap.page = 1 /\ Latest \in 1..Latest
    BY PagesNat DEF IInv, TypeOK, NoSnap, Snap, Steps, Contents
  <2>2. s.step = "pragma" /\ s.todo = todo /\ s.page = 1
    BY <2>1 DEF NoSnap
  <2>3. s \in Snap
    <3>1. "pragma" \in Steps /\ todo \in 0..2
      BY DEF Steps
    <3>2. [NoSnap EXCEPT !.step = "pragma"] \in Snap
      BY <2>1, <3>1, UpdateStep
    <3>3. [NoSnap EXCEPT !.step = "pragma", !.todo = todo] \in Snap
      BY <3>1, <3>2, UpdateTodo
    <3> QED
      BY <2>1, <3>3, UpdateBegan
  <2> QED
    BY <2>2, <2>3
<1> HIDE DEF s
<1>5. ForkerInv(f)'
  BY <1>3, <1>4 DEF ForkerInv, OwnCheckpoint, ReadsOrdered, CalmCommit, CurrentSoFar
<1>6. ckpt' = ckpt
  BY DEF Begin
<1> QED
  BY <1>1, <1>2, <1>3, <1>4, <1>5, <1>6, SnapType DEF OwnStep, IInv

LEMMA PragmaOwn ==
  ASSUME IInv, NEW f \in Forkers, Pragma(f)
  PROVE  OwnStep(f)
<1>1. Grown /\ UNCHANGED main /\ Latest' = Latest
  BY StillGrown DEF IInv, Pragma, Latest
<1>2. snap[f] \in Snap /\ Snap \subseteq Snap'
  BY <1>1, SnapType DEF IInv
<1>3. snap[f].todo \in {1, 2} /\ snap[f].page = 1
  BY DEF IInv, ForkerInv, OwnCheckpoint, Pragma, At
<1> DEFINE s(b) == [snap[f] EXCEPT !.step = "answer", !.busy = b]
<1>4. ASSUME NEW b \in BOOLEAN, snap' = [snap EXCEPT ![f].step = "answer", ![f].busy = b],
             b = FALSE => ckpt'.by = f /\ snap[f].began <= ckpt'.upto
      PROVE  /\ snap'[f] \in Snap' /\ ForkerInv(f)'
             /\ snap' = [snap EXCEPT ![f] = snap'[f]]
  <2>1. snap'[f] = s(b) /\ snap' = [snap EXCEPT ![f] = snap'[f]]
    BY <1>4 DEF IInv, TypeOK
  <2>2. /\ s(b) \in Snap /\ s(b).step = "answer" /\ s(b).busy = b
        /\ s(b).began = snap[f].began /\ s(b).todo = snap[f].todo /\ s(b).page = snap[f].page
    BY <1>2 DEF Snap, Steps
  <2>3. ForkerInv(f)'
    BY <2>1, <2>2, <1>3, <1>4
       DEF ForkerInv, OwnCheckpoint, ReadsOrdered, CalmCommit, CurrentSoFar
  <2> QED
    BY <2>1, <2>2, <2>3, <1>2
<1>5. CASE ckpt.by # Nobody
  <2>1. ckpt' = ckpt /\ snap' = [snap EXCEPT ![f].step = "answer", ![f].busy = TRUE]
    BY <1>5 DEF Pragma
  <2>2. Moved
    BY <2>1, <1>1, FileKept DEF IInv, TypeOK
  <2> QED
    BY <2>1, <2>2, <1>1, <1>4 DEF OwnStep
<1>6. CASE ckpt.by = Nobody
  <2>1. PICK k \in DOMAIN commits :
          /\ StartCheckpoint(f, k)
          /\ snap' = [snap EXCEPT ![f].step = "answer", ![f].busy = k < Latest]
    BY <1>6 DEF Pragma
  <2>2. k \in 1..Latest
    BY DEF IInv, TypeOK, Latest
  <2>3. Moved
    BY <2>1, <2>2, <1>1, FileStart DEF IInv
  <2>4. ckpt'.by = f /\ ckpt'.upto = k
    BY <2>1 DEF StartCheckpoint
  <2>5. ~ (k < Latest) => snap[f].began <= k
    BY <2>2, <1>2 DEF Snap, IInv, TypeOK
  <2>6. /\ snap'[f] \in Snap' /\ ForkerInv(f)'
        /\ snap' = [snap EXCEPT ![f] = snap'[f]]
    <3>1. CASE k < Latest
      <4>1. snap' = [snap EXCEPT ![f].step = "answer", ![f].busy = TRUE]
        BY <3>1, <2>1
      <4> QED
        BY <4>1, <1>4
    <3>2. CASE ~ (k < Latest)
      <4>1. snap' = [snap EXCEPT ![f].step = "answer", ![f].busy = FALSE]
        <5>1. (k < Latest) = FALSE
          BY <3>2
        <5> QED
          BY <5>1, <2>1, Zenon
      <4> QED
        BY <4>1, <3>2, <2>4, <2>5, <1>4
    <3> QED
      BY <3>1, <3>2
  <2>7. \A g \in Forkers : ckpt.by # g
    BY <1>6, FilesAssumption
  <2> QED
    BY <2>3, <2>6, <2>7, <1>1 DEF OwnStep
<1> QED
  BY <1>5, <1>6

LEMMA AnswerOwn ==
  ASSUME IInv, NEW f \in Forkers, Answer(f)
  PROVE  OwnStep(f)
<1>1. Grown /\ UNCHANGED <<main, commits>> /\ Latest' = Latest
  BY StillGrown DEF IInv, Answer, Latest
<1>2. snap[f] \in Snap /\ Snap \subseteq Snap'
  BY <1>1, SnapType DEF IInv
<1>3. /\ snap[f].todo \in {1, 2} /\ snap[f].page = 1 /\ snap[f].step = "answer"
      /\ snap[f].busy = FALSE => ckpt.by = f /\ snap[f].began <= ckpt.upto
  BY DEF IInv, ForkerInv, OwnCheckpoint, Answer, At
<1>4. /\ ckpt' = [ckpt EXCEPT !.by = ckpt'.by]
      /\ ckpt'.by = IF ckpt.by = f THEN Nobody ELSE ckpt.by
      /\ ckpt'.upto = ckpt.upto
  BY DEF IInv, TypeOK, Answer
<1>5. Moved
  BY <1>1, <1>4, FileKept DEF IInv, TypeOK
<1> DEFINE s == [snap[f] EXCEPT !.todo = snap[f].todo - 1,
                                !.step = IF snap[f].todo > 1 THEN "pragma" ELSE "hash"]
<1>6. snap'[f] = s /\ snap' = [snap EXCEPT ![f] = snap'[f]]
  BY DEF IInv, TypeOK, Answer
<1>7. /\ s \in Snap /\ s.began = snap[f].began /\ s.busy = snap[f].busy /\ s.page = snap[f].page
      /\ \/ s.step = "pragma" /\ s.todo = 1
         \/ s.step = "hash"
  <2>1. s \in Snap
    <3>1. /\ snap[f].todo - 1 \in 0..2
          /\ (IF snap[f].todo > 1 THEN "pragma" ELSE "hash") \in Steps
      BY <1>3 DEF Steps
    <3>2. [snap[f] EXCEPT !.todo = snap[f].todo - 1] \in Snap
      BY <1>2, <3>1, UpdateTodo
    <3> QED
      BY <3>1, <3>2, UpdateStep
  <2>2. /\ s.began = snap[f].began /\ s.busy = snap[f].busy /\ s.page = snap[f].page
        /\ s.todo = snap[f].todo - 1
        /\ s.step = IF snap[f].todo > 1 THEN "pragma" ELSE "hash"
    BY <1>2 DEF Snap
  <2> QED
    BY <2>1, <2>2, <1>3
<1> HIDE DEF s
<1>8. snap[f].busy = FALSE => \A p \in Pages : commits[snap[f].began][p] <= main[p]
  <2> SUFFICES ASSUME snap[f].busy = FALSE, NEW p \in Pages
               PROVE  commits[snap[f].began][p] <= main[p]
    OBVIOUS
  <2>1. ckpt.left = {} /\ ckpt.upto \in 1..Latest /\ snap[f].began \in 1..Latest
    BY <1>2, <1>3 DEF Answer, IInv, TypeOK, Snap
  <2>2. main[p] = commits[ckpt.upto][p]
    BY <2>1 DEF IInv, SourceInv, MainBehind
  <2> QED
    BY <2>1, <2>2, <1>3 DEF IInv, SourceInv, CommitsOrdered
<1>9. ForkerInv(f)'
  <2>1. \A p \in Pages : ~ p < s.page
    BY <1>3, <1>7 DEF Pages
  <2>2. CASE s.step = "pragma"
    BY <2>2, <1>3, <1>6, <1>7 DEF ForkerInv, OwnCheckpoint, ReadsOrdered, CalmCommit, CurrentSoFar
  <2>3. CASE s.step = "hash"
    BY <2>1, <2>3, <1>1, <1>6, <1>7, <1>8
       DEF ForkerInv, OwnCheckpoint, ReadsOrdered, CalmCommit, CurrentSoFar
  <2> QED
    BY <1>7, <2>2, <2>3
<1> QED
  BY <1>1, <1>2, <1>4, <1>5, <1>6, <1>7, <1>9 DEF OwnStep

\* A step of the copier that leaves the source alone.
LEMMA Quiet ==
  ASSUME IInv, UNCHANGED <<commits, main, ckpt>>
  PROVE  Grown /\ Moved /\ Latest' = Latest
<1>1. Grown
  BY StillGrown DEF IInv
<1> QED
  BY <1>1, FileKept DEF IInv, TypeOK, Latest

\* The pages up to the one just read.
LEMMA NextPage ==
  ASSUME NEW n \in Pages, NEW p \in Pages
  PROVE  /\ n < PageCount => n + 1 \in Pages /\ (p < n + 1 <=> p < n \/ p = n)
         /\ ~ n < PageCount => p < n \/ p = n
BY FilesAssumption DEF Pages

LEMMA HashOwn ==
  ASSUME IInv, NEW f \in Forkers, HashPage(f)
  PROVE  OwnStep(f)
<1>1. Grown /\ Moved /\ Latest' = Latest /\ UNCHANGED <<main, ckpt, commits>>
  BY Quiet DEF HashPage
<1>2. snap[f] \in Snap /\ Snap \subseteq Snap' /\ snap[f].step = "hash" /\ main \in Contents
  BY <1>1, SnapType DEF IInv, HashPage, At, TypeOK
<1> DEFINE n == snap[f].page
           s == [snap[f] EXCEPT !.hash[n] = main[n]]
<1>3. /\ s \in Snap /\ n \in Pages /\ s.page = n /\ s.step = "hash" /\ s.busy = snap[f].busy
      /\ s.began = snap[f].began
      /\ s.hash = [snap[f].hash EXCEPT ![n] = main[n]]
  BY <1>2 DEF Snap, Contents
<1>4. \A p \in Pages : p < n \/ p = n => s.hash[p] <= main[p]
  <2>1. \A p \in Pages : p < n => snap[f].hash[p] <= main[p]
    BY <1>2 DEF IInv, ForkerInv, ReadsOrdered
  <2> QED
    BY <2>1, <1>2, <1>3 DEF Snap, Contents
<1>5. snap[f].busy = FALSE => \A p \in Pages : commits[snap[f].began][p] <= main[p]
  BY <1>2 DEF IInv, ForkerInv, CurrentSoFar
<1>6. CASE n < PageCount
  <2> DEFINE t == [s EXCEPT !.page = n + 1]
  <2>1. snap' = [snap EXCEPT ![f] = t] /\ snap'[f] = t
    BY <1>6, <1>3 DEF HashPage, IInv, TypeOK
  <2>2. /\ t \in Snap /\ t.page = n + 1 /\ t.step = "hash" /\ t.busy = snap[f].busy
        /\ t.began = snap[f].began /\ t.hash = s.hash
    <3>1. n + 1 \in Pages
      BY <1>3, <1>6, NextPage
    <3> HIDE DEF s
    <3> QED
      BY <3>1, <1>3 DEF Snap
  <2> HIDE DEF t, s
  <2>3. \A p \in Pages : p < n + 1 => s.hash[p] <= main[p]
    BY <1>3, <1>4, <1>6, NextPage
  <2>4. ForkerInv(f)'
    BY <1>1, <1>5, <2>1, <2>2, <2>3
       DEF ForkerInv, OwnCheckpoint, ReadsOrdered, CalmCommit, CurrentSoFar
  <2> QED
    BY <1>1, <1>2, <2>1, <2>2, <2>4 DEF OwnStep
<1>7. CASE ~ n < PageCount
  <2> DEFINE calm == ckpt.by = Nobody /\ ckpt.left = {}
             t == [s EXCEPT !.step = "copy", !.page = 1, !.at = main, !.calm = calm]
  <2>1. snap' = [snap EXCEPT ![f] = t] /\ snap'[f] = t
    BY <1>7, <1>3 DEF HashPage, IInv, TypeOK
  <2>2. /\ t \in Snap /\ t.page = 1 /\ t.step = "copy" /\ t.busy = snap[f].busy
        /\ t.began = snap[f].began /\ t.hash = s.hash /\ t.at = main /\ t.calm = calm
    <3> HIDE DEF s
    <3>1. calm \in BOOLEAN
      OBVIOUS
    <3> HIDE DEF calm
    <3> QED
      BY <3>1, <1>2, <1>3, PagesNat DEF Snap, Steps
  <2>3. calm = TRUE => \E k \in 1..Latest : main = commits[k]
    <3> SUFFICES ASSUME ckpt.left = {} PROVE \E k \in 1..Latest : main = commits[k]
      OBVIOUS
    <3>1. ckpt.upto \in 1..Latest /\ commits[ckpt.upto] \in Contents
      BY DEF IInv, TypeOK, Latest
    <3>2. \A p \in Pages : main[p] = commits[ckpt.upto][p]
      BY DEF IInv, SourceInv, MainBehind
    <3>3. main = commits[ckpt.upto]
      BY <1>2, <3>1, <3>2 DEF Contents
    <3> QED
      BY <3>1, <3>3
  <2> HIDE DEF t, s, calm
  <2>4. \A p \in Pages : s.hash[p] <= main[p] /\ main[p] <= main[p] /\ ~ p < 1
    <3>1. \A p \in Pages : s.hash[p] <= main[p]
      BY <1>3, <1>4, <1>7, NextPage
    <3> QED
      BY <3>1, <1>2 DEF Contents, Pages
  <2>5. OwnCheckpoint(f)' /\ ReadsOrdered(f)'
    BY <1>1, <2>1, <2>2, <2>4 DEF OwnCheckpoint, ReadsOrdered
  <2>6. CalmCommit(f)'
    BY <1>1, <2>1, <2>2, <2>3 DEF CalmCommit
  <2>7. CurrentSoFar(f)'
    BY <1>1, <1>5, <2>1, <2>2 DEF CurrentSoFar
  <2> QED
    BY <1>1, <1>2, <2>1, <2>2, <2>5, <2>6, <2>7 DEF OwnStep, ForkerInv
<1> QED
  BY <1>6, <1>7

LEMMA CopyOwn ==
  ASSUME IInv, NEW f \in Forkers, CopyPage(f)
  PROVE  OwnStep(f)
<1>1. Grown /\ Moved /\ Latest' = Latest /\ UNCHANGED <<main, ckpt, commits>>
  BY Quiet DEF CopyPage
<1>2. snap[f] \in Snap /\ Snap \subseteq Snap' /\ snap[f].step = "copy" /\ main \in Contents
  BY <1>1, SnapType DEF IInv, CopyPage, At, TypeOK
<1> DEFINE n == snap[f].page
           s == [snap[f] EXCEPT !.copy[n] = main[n]]
           Same(t) == /\ t.busy = snap[f].busy /\ t.began = snap[f].began /\ t.hash = snap[f].hash
                      /\ t.at = snap[f].at /\ t.calm = snap[f].calm
<1>3. /\ s \in Snap /\ n \in Pages /\ s.page = n /\ s.step = "copy" /\ Same(s)
      /\ s.copy = [snap[f].copy EXCEPT ![n] = main[n]]
  BY <1>2 DEF Snap, Contents
<1>4. \A p \in Pages : /\ p < n \/ p = n => snap[f].at[p] <= s.copy[p]
                       /\ snap[f].hash[p] <= snap[f].at[p] /\ snap[f].at[p] <= main[p]
  <2>1. \A p \in Pages : /\ p < n => snap[f].at[p] <= snap[f].copy[p]
                         /\ snap[f].hash[p] <= snap[f].at[p] /\ snap[f].at[p] <= main[p]
    BY <1>2 DEF IInv, ForkerInv, ReadsOrdered
  <2> QED
    BY <2>1, <1>2, <1>3 DEF Snap, Contents
<1>5. /\ snap[f].busy = FALSE =>
           \A p \in Pages : commits[snap[f].began][p] <= snap[f].at[p]
      /\ snap[f].calm = TRUE => \E k \in 1..Latest : snap[f].at = commits[k]
  BY <1>2 DEF IInv, ForkerInv, CurrentSoFar, CalmCommit
<1>6. CASE n < PageCount
  <2> DEFINE t == [s EXCEPT !.page = n + 1]
  <2>1. snap' = [snap EXCEPT ![f] = t] /\ snap'[f] = t
    BY <1>6, <1>3 DEF CopyPage, IInv, TypeOK
  <2>2. t \in Snap /\ t.page = n + 1 /\ t.step = "copy" /\ Same(t) /\ t.copy = s.copy
    <3>1. n + 1 \in Pages
      BY <1>3, <1>6, NextPage
    <3> HIDE DEF s
    <3> QED
      BY <3>1, <1>3 DEF Snap
  <2> HIDE DEF t, s
  <2>3. \A p \in Pages : p < n + 1 => snap[f].at[p] <= s.copy[p]
    BY <1>3, <1>4, <1>6, NextPage
  <2>4. OwnCheckpoint(f)' /\ ReadsOrdered(f)'
    BY <1>1, <1>4, <2>1, <2>2, <2>3 DEF OwnCheckpoint, ReadsOrdered
  <2>5. CalmCommit(f)' /\ CurrentSoFar(f)'
    BY <1>1, <1>5, <2>1, <2>2 DEF CalmCommit, CurrentSoFar
  <2> QED
    BY <1>1, <1>2, <2>1, <2>2, <2>4, <2>5 DEF OwnStep, ForkerInv
<1>7. CASE ~ n < PageCount
  <2> DEFINE t == [s EXCEPT !.step = "compare"]
  <2>1. snap' = [snap EXCEPT ![f] = t] /\ snap'[f] = t
    BY <1>7, <1>3 DEF CopyPage, IInv, TypeOK
  <2>2. t \in Snap /\ t.step = "compare" /\ Same(t) /\ t.copy = s.copy
    <3> HIDE DEF s
    <3> QED
      BY <1>3 DEF Snap, Steps
  <2> HIDE DEF t, s
  <2>3. \A p \in Pages : snap[f].at[p] <= s.copy[p]
    BY <1>3, <1>4, <1>7, NextPage
  <2>4. OwnCheckpoint(f)' /\ ReadsOrdered(f)'
    BY <1>1, <1>4, <2>1, <2>2, <2>3 DEF OwnCheckpoint, ReadsOrdered
  <2>5. CalmCommit(f)' /\ CurrentSoFar(f)'
    BY <1>1, <1>5, <2>1, <2>2 DEF CalmCommit, CurrentSoFar
  <2> QED
    BY <1>1, <1>2, <2>1, <2>2, <2>4, <2>5 DEF OwnStep, ForkerInv
<1> QED
  BY <1>6, <1>7

LEMMA SealOwn ==
  ASSUME IInv, NEW f \in Forkers, Seal(f)
  PROVE  OwnStep(f)
<1>1. Grown /\ Moved /\ Latest' = Latest /\ UNCHANGED <<main, ckpt, commits>>
  BY Quiet DEF Seal
<1>2. /\ snap[f] \in Snap /\ Snap \subseteq Snap' /\ snap[f].step = "compare"
      /\ snap[f].copy = snap[f].hash
  BY <1>1, SnapType DEF IInv, Seal, At
<1> DEFINE s == [snap[f] EXCEPT !.step = "sealed"]
<1>3. snap' = [snap EXCEPT ![f] = s] /\ snap'[f] = s
  BY DEF Seal, IInv, TypeOK
<1>4. /\ s \in Snap /\ s.step = "sealed" /\ s.busy = snap[f].busy /\ s.began = snap[f].began
      /\ s.hash = snap[f].hash /\ s.at = snap[f].at /\ s.copy = snap[f].copy
      /\ s.calm = snap[f].calm
  BY <1>2 DEF Snap, Steps
<1> HIDE DEF s
<1>5. ForkerInv(f)
  BY DEF IInv
<1>6. OwnCheckpoint(f)' /\ ReadsOrdered(f)'
  BY <1>1, <1>2, <1>3, <1>4, <1>5 DEF ForkerInv, OwnCheckpoint, ReadsOrdered
<1>7. CalmCommit(f)' /\ CurrentSoFar(f)'
  BY <1>1, <1>2, <1>3, <1>4, <1>5 DEF ForkerInv, CalmCommit, CurrentSoFar
<1> QED
  BY <1>1, <1>2, <1>3, <1>4, <1>6, <1>7 DEF OwnStep, ForkerInv

LEMMA AbortOwn ==
  ASSUME IInv, NEW f \in Forkers, Abort(f)
  PROVE  OwnStep(f)
<1>1. Grown /\ UNCHANGED main
  BY StillGrown DEF IInv, Abort
<1>2. /\ ckpt' = [ckpt EXCEPT !.by = ckpt'.by] /\ ckpt'.upto = ckpt.upto
      /\ ckpt'.by = IF ckpt.by = f THEN Nobody ELSE ckpt.by
  BY DEF IInv, TypeOK, Abort
<1>3. Moved
  BY <1>1, <1>2, FileKept DEF IInv, TypeOK
<1>4. snap' = [snap EXCEPT ![f] = NoSnap] /\ snap'[f] = NoSnap
  BY DEF Abort, IInv, TypeOK
<1>5. NoSnap \in Snap /\ NoSnap.step = "idle"
  BY PagesNat DEF IInv, TypeOK, NoSnap, Snap, Steps, Contents
<1>6. ForkerInv(f)'
  BY <1>4, <1>5 DEF ForkerInv, OwnCheckpoint, ReadsOrdered, CalmCommit, CurrentSoFar
<1> QED
  BY <1>1, <1>2, <1>3, <1>4, <1>5, <1>6, SnapType DEF OwnStep, IInv

-----------------------------------------------------------------------------
(* The invariant.                                                          *)

LEMMA CopierStep ==
  ASSUME IInv, NEW f \in Forkers, Copier(f)
  PROVE  OwnStep(f) /\ UNCHANGED mark
<1>1. OwnStep(f)
  BY BeginOwn, PragmaOwn, AnswerOwn, HashOwn, CopyOwn, SealOwn, AbortOwn DEF Copier
<1>2. UNCHANGED mark
  BY DEF Copier, Begin, Pragma, Answer, HashPage, CopyPage, Seal, Abort
<1> QED
  BY <1>1, <1>2

LEMMA Step == IInv /\ [Next]_vars => IInv'
<1> SUFFICES ASSUME IInv, [Next]_vars PROVE IInv'
  OBVIOUS
<1>1. ASSUME Grown, Moved, mark' \in [Readers -> 0..Latest'], DOMAIN snap' = Forkers,
             snap' = [f \in Forkers |-> snap'[f]],
             \A f \in Forkers : snap'[f] \in Snap' /\ ForkerInv(f)'
      PROVE  IInv'
  <2>1. snap' \in [Forkers -> Snap']
    BY <1>1
  <2>2. TypeOK'
    BY <1>1, <2>1 DEF TypeOK, Grown, Moved, Checkpoint, Snap
  <2> QED
    BY <1>1, <2>2 DEF IInv, SourceInv, Grown, Moved
<1>2. ASSUME Grown, Moved, mark' \in [Readers -> 0..Latest'], UNCHANGED snap,
             \A g \in Forkers : ckpt.by = g => ckpt'.by = g /\ ckpt'.upto = ckpt.upto
      PROVE  IInv'
  <2>1. \A g \in Forkers : snap'[g] \in Snap' /\ ForkerInv(g)'
    BY <1>2, Undisturbed DEF IInv
  <2> QED
    BY <1>1, <1>2, <2>1 DEF IInv, TypeOK
<1>3. ASSUME NEW P \in SUBSET Pages, Commit(P) PROVE IInv'
  <2>1. Grown
    BY <1>3, CommitGrows DEF IInv
  <2>2. Moved
    BY <1>3, <2>1, FileKept DEF Commit, IInv, TypeOK
  <2>3. mark' \in [Readers -> 0..Latest']
    BY <1>3, <2>1 DEF Commit, Grown, IInv, TypeOK
  <2> QED
    BY <1>2, <1>3, <2>1, <2>2, <2>3 DEF Commit
<1>4. ASSUME NEW r \in Readers, BeginRead(r) \/ EndRead(r) PROVE IInv'
  <2>1. Grown /\ Moved /\ Latest' = Latest
    BY <1>4, Quiet DEF BeginRead, EndRead
  <2>2. mark' \in [Readers -> 0..Latest']
    <3>1. \E k \in 0..Latest : mark' = [mark EXCEPT ![r] = k]
      BY <1>4 DEF BeginRead, EndRead, IInv, TypeOK
    <3> QED
      BY <2>1, <3>1 DEF IInv, TypeOK
  <2> QED
    BY <1>2, <1>4, <2>1, <2>2 DEF BeginRead, EndRead
<1>5. ASSUME NEW x \in Others, AutoCheckpoint(x) PROVE IInv'
  <2>1. Grown /\ UNCHANGED <<main, mark, snap>> /\ Latest' = Latest
    BY <1>5, StillGrown DEF AutoCheckpoint, IInv, Latest
  <2>2. PICK k \in 1..Latest : StartCheckpoint(x, k)
    BY <1>5 DEF AutoCheckpoint, IInv, TypeOK, Latest
  <2>3. Moved
    BY <2>1, <2>2, FileStart DEF IInv
  <2>4. \A g \in Forkers : ckpt.by # g
    BY <2>2, FilesAssumption DEF StartCheckpoint
  <2> QED
    BY <1>2, <2>1, <2>3, <2>4 DEF IInv, TypeOK
<1>6. ASSUME NEW x \in Others, EndCheckpoint(x) PROVE IInv'
  <2>1. Grown /\ UNCHANGED <<main, mark, snap>> /\ Latest' = Latest
    BY <1>6, StillGrown DEF EndCheckpoint, IInv, Latest
  <2>2. /\ ckpt' = [ckpt EXCEPT !.by = ckpt'.by] /\ ckpt'.by = Nobody /\ ckpt.by = x
    BY <1>6 DEF EndCheckpoint, IInv, TypeOK
  <2>3. Moved
    BY <2>1, <2>2, FileKept DEF IInv
  <2>4. \A g \in Forkers : ckpt.by # g
    BY <2>2, FilesAssumption
  <2> QED
    BY <1>2, <2>1, <2>3, <2>4 DEF IInv, TypeOK
<1>7. CASE WritePage
  <2>1. Grown /\ UNCHANGED <<mark, snap>> /\ Latest' = Latest
    BY <1>7, StillGrown DEF WritePage, IInv, Latest
  <2>2. Moved
    BY <1>7, <2>1, FileWritten DEF IInv
  <2>3. ckpt'.by = ckpt.by /\ ckpt'.upto = ckpt.upto
    BY <1>7 DEF WritePage, IInv, TypeOK
  <2> QED
    BY <1>2, <2>1, <2>2, <2>3 DEF IInv, TypeOK
<1>8. ASSUME NEW f \in Forkers, Copier(f) PROVE IInv'
  <2>1. OwnStep(f) /\ UNCHANGED mark
    BY <1>8, CopierStep
  <2>2. ASSUME NEW g \in Forkers \ {f} PROVE snap'[g] \in Snap' /\ ForkerInv(g)'
    <3>1. snap'[g] = snap[g]
      <4>1. DOMAIN snap = Forkers /\ snap' = [snap EXCEPT ![f] = snap'[f]]
        BY <2>1 DEF OwnStep, IInv, TypeOK
      <4> QED
        BY <4>1, Zenon
    <3> QED
      BY <2>1, <3>1, Undisturbed DEF OwnStep, IInv
  <2>3. \A g \in Forkers : snap'[g] \in Snap' /\ ForkerInv(g)'
    BY <2>1, <2>2 DEF OwnStep
  <2>4. DOMAIN snap' = Forkers /\ snap' = [g \in Forkers |-> snap'[g]]
    BY <2>1 DEF OwnStep, IInv, TypeOK
  <2>5. mark' \in [Readers -> 0..Latest']
    BY <2>1 DEF OwnStep, Grown, IInv, TypeOK
  <2> QED
    BY <1>1, <2>1, <2>3, <2>4, <2>5 DEF OwnStep
<1>9. CASE UNCHANGED vars
  <2>1. Grown /\ Moved /\ Latest' = Latest
    BY <1>9, Quiet DEF vars
  <2> QED
    BY <1>2, <1>9, <2>1 DEF vars, IInv, TypeOK
<1> QED
  BY <1>3, <1>4, <1>5, <1>6, <1>7, <1>8, <1>9 DEF Next, Source

\* The source and every forker's reads keep their order, however agents commit,
\* readers hold the WAL and connections checkpoint while a snapshot is made.
THEOREM Invariance == Spec => []IInv
BY InitEstablishes, Step, PTL DEF Spec

\* Every variable has its type.
THEOREM TypeCorrect == Spec => []TypeOK
<1>1. IInv => TypeOK
  BY DEF IInv
<1> QED
  BY <1>1, Invariance, PTL

\* A sealed snapshot is the file at one instant: what was hashed, what the file
\* held and what was copied are ordered, and Seal compares the first and the last.
THEOREM SnapshotsWhole == Spec => []SealedWhole
<1>1. ASSUME IInv, NEW f \in Forkers, Sealed(f)
      PROVE  /\ snap[f].copy = snap[f].at
             /\ snap[f].calm => \E k \in DOMAIN commits : snap[f].copy = commits[k]
  <2>1. snap[f] \in Snap /\ ForkerInv(f) /\ snap[f].step = "sealed"
    BY <1>1 DEF IInv, TypeOK, Snap, Sealed
  <2>2. snap[f].copy \in Contents /\ snap[f].at \in Contents /\ snap[f].calm \in BOOLEAN
    BY <2>1 DEF Snap
  <2>3. \A p \in Pages : snap[f].copy[p] = snap[f].at[p]
    BY <2>1, <2>2 DEF ForkerInv, ReadsOrdered, Contents
  <2>4. snap[f].copy = snap[f].at
    BY <2>2, <2>3 DEF Contents
  <2>5. ASSUME snap[f].calm PROVE \E k \in DOMAIN commits : snap[f].copy = commits[k]
    <3>1. snap[f].calm = TRUE
      BY <2>2, <2>5
    <3> QED
      BY <3>1, <2>1, <2>4, <1>1 DEF ForkerInv, CalmCommit, IInv, TypeOK, Latest
  <2> QED
    BY <2>4, <2>5
<1>2. IInv => SealedWhole
  BY <1>1 DEF SealedWhole
<1> QED
  BY <1>2, Invariance, PTL

\* A sealed snapshot has all that was committed before the call, unless the
\* PRAGMA whose row is dropped said "busy".
THEOREM SnapshotsCurrent == Spec => []SealedCurrent
<1>1. ASSUME IInv, NEW f \in Forkers, Sealed(f), ~ snap[f].busy, NEW p \in Pages
      PROVE  commits[snap[f].began][p] <= snap[f].copy[p]
  <2>1. /\ snap[f] \in Snap /\ ForkerInv(f) /\ snap[f].step = "sealed"
        /\ commits[snap[f].began] \in Contents
    BY <1>1 DEF IInv, TypeOK, Snap, Sealed, Latest
  <2>2. snap[f].busy = FALSE
    BY <1>1, <2>1 DEF Snap
  <2>3. commits[snap[f].began][p] <= snap[f].at[p] /\ snap[f].at[p] <= snap[f].copy[p]
    BY <2>1, <2>2 DEF ForkerInv, CurrentSoFar, ReadsOrdered
  <2> QED
    BY <2>1, <2>3 DEF Snap, Contents
<1>2. IInv => SealedCurrent
  BY <1>1 DEF SealedCurrent
<1> QED
  BY <1>2, Invariance, PTL
=============================================================================
