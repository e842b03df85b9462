------------------------ MODULE ThreeWayMerge_proofs ------------------------
(***************************************************************************)
(* Theorems about ThreeWayMerge, for every lineage, schema, set of rows    *)
(* and number of callers.                                                  *)
(***************************************************************************)
EXTENDS ThreeWayMerge, WellFoundedInduction, TLAPS

-----------------------------------------------------------------------------
(* The operators of the plan.                                              *)

\* A request is not the marker of an idle client, and names branches.
LEMMA RequestFacts ==
  ASSUME NEW r \in Requests
  PROVE  /\ r # NoRequest
         /\ r.source \in Branches /\ r.target \in Branches
         /\ r.strategy \in [Fields -> Choices]
         /\ MergeBase(r) \in Branches
         /\ \A v \in Views : BranchIn(r, v) \in Branches
<1>1. r \in MergeRequest
  BY MergeAssumption
<1>2. r.source \in Branches /\ r.target \in Branches /\ r.strategy \in [Fields -> Choices]
  BY <1>1 DEF MergeRequest
<1>3. r # NoRequest
  <2>1. NoRequest.source = NoBranch
    BY DEF NoRequest
  <2> QED BY <2>1, <1>2, MergeAssumption
<1>4. MergeBase(r) \in Branches
  BY <1>2, MergeAssumption DEF MergeBase
<1>5. \A v \in Views : BranchIn(r, v) \in Branches
  BY <1>2, <1>4 DEF BranchIn, Views
<1> QED BY <1>2, <1>3, <1>4, <1>5

\* The base of a merge is not the branch it writes, unless that is the target.
LEMMA BaseIsNotSource ==
  ASSUME NEW r \in Requests, r.source # r.target
  PROVE  MergeBase(r) # r.source
BY RequestFacts, MergeAssumption DEF MergeBase

\* A row written from theirs is a row, or none.
LEMMA TheirRowType ==
  ASSUME NEW s \in [Views -> Databases], NEW e \in Entities
  PROVE  TheirRow(s, e) \in Rows \cup {Absent}
<1>1. s["theirs"] \in Databases
  BY DEF Views
<1>2. s["theirs"][e] \in Rows \cup {Absent}
  BY <1>1 DEF Databases
<1> QED BY <1>2 DEF TheirRow, Rows

\* The transaction leaves a database.
LEMMA OutcomeType ==
  ASSUME NEW s \in [Views -> Databases], NEW strategy, NEW d \in Databases
  PROVE  Outcome(s, strategy, d) \in Databases
BY TheirRowType DEF Outcome, Databases

\* So does a whole merge.
LEMMA AfterMergeType ==
  ASSUME NEW d \in [Branches -> Databases], NEW r \in Requests
  PROVE  AfterMerge(d, r) \in [Branches -> Databases]
<1>1. Sight(d, r) \in [Views -> Databases]
  BY RequestFacts DEF Sight
<1> QED BY <1>1, RequestFacts, OutcomeType DEF AfterMerge

-----------------------------------------------------------------------------
(* Type correctness.                                                       *)

\* Every step keeps the types.
LEMMA TypeInductive == TypeOK /\ [Next]_vars => TypeOK'
<1> SUFFICES ASSUME TypeOK, [Next]_vars PROVE TypeOK'
  OBVIOUS
<1> USE DEF TypeOK
<1>0. Blank \in [Views -> Databases]
  BY DEF Blank, Databases
<1>1. ASSUME NEW c \in Clients, NEW r \in Requests, Begin(c, r) PROVE TypeOK'
  <2>1. request' \in [Clients -> Requests \cup {NoRequest}]
    BY <1>1 DEF Begin
  <2>2. unread' \in [Clients -> SUBSET Reads]
    BY <1>1 DEF Begin
  <2>3. result' \in [Clients -> Results]
    BY <1>1 DEF Begin, Results
  <2>4. asked' \subseteq Requests /\ calls' \in Nat
    BY <1>1 DEF Begin
  <2>5. \A d \in Clients : request'[d] = NoRequest => unread'[d] = {} /\ seen'[d] = Blank
    BY <1>1, RequestFacts DEF Begin
  <2> QED BY <1>1, <2>1, <2>2, <2>3, <2>4, <2>5 DEF Begin
<1>2. ASSUME NEW c \in Clients, NEW r \in Reads, Read(c, r) PROVE TypeOK'
  <2>1. request[c] \in Requests
    BY <1>2 DEF Read
  <2>2. View(r) \in Views
    BY DEF View, Views
  <2>3. BranchIn(request[c], View(r)) \in Branches
    BY <2>1, <2>2, RequestFacts
  <2> DEFINE table == [e \in Entities |->
                 IF e[1] = r[2] THEN db[BranchIn(request[c], View(r))][e]
                 ELSE seen[c][View(r)][e]]
  <2>4. table \in Databases
    BY <2>2, <2>3 DEF Databases
  <2>5. seen' = [seen EXCEPT ![c] = [seen[c] EXCEPT ![View(r)] = table]]
    BY <1>2, <2>2 DEF Read
  <2>6. seen' \in [Clients -> [Views -> Databases]]
    BY <2>2, <2>4, <2>5
  <2>7. unread' \in [Clients -> SUBSET Reads]
    BY <1>2 DEF Read
  <2>8. \A d \in Clients : request'[d] = NoRequest => unread'[d] = {} /\ seen'[d] = Blank
    BY <1>2, <2>1, <2>5, RequestFacts DEF Read
  <2> QED BY <1>2, <2>6, <2>7, <2>8 DEF Read, history
<1>3. ASSUME NEW c \in Clients, NEW res \in Results,
             Return(c, res), db' \in [Branches -> Databases]
      PROVE  TypeOK'
  <2>1. /\ request' \in [Clients -> Requests \cup {NoRequest}]
        /\ unread' \in [Clients -> SUBSET Reads]
        /\ seen' \in [Clients -> [Views -> Databases]]
        /\ result' \in [Clients -> Results]
    BY <1>3, <1>0 DEF Return
  <2>2. \A d \in Clients : request'[d] = NoRequest => unread'[d] = {} /\ seen'[d] = Blank
    BY <1>3 DEF Return
  <2> QED BY <1>3, <2>1, <2>2 DEF Return, history
<1>4. ASSUME NEW c \in Clients, Escalate(c) PROVE TypeOK'
  BY <1>3, <1>4 DEF Escalate, Results
<1>5. ASSUME NEW c \in Clients, Apply(c) PROVE TypeOK'
  <2>1. request[c] \in Requests
    BY <1>5 DEF Apply, Planned
  <2>2. request[c].source \in Branches
    BY <2>1, RequestFacts
  <2>3. Outcome(seen[c], request[c].strategy, db[request[c].source]) \in Databases
    BY <2>2, OutcomeType
  <2>4. db' \in [Branches -> Databases]
    BY <1>5, <2>2, <2>3 DEF Apply
  <2> QED BY <1>3, <1>5, <2>4 DEF Apply, Results
<1>6. ASSUME NEW c \in Clients, Fail(c) PROVE TypeOK'
  BY <1>3, <1>6 DEF Fail, Results
<1>7. ASSUME NEW b \in Branches, NEW e \in Entities, NEW row \in Rows \cup {Absent},
             Write(b, e, row)
      PROVE  TypeOK'
  <2>1. db' \in [Branches -> Databases]
    BY <1>7 DEF Write, Databases
  <2> QED BY <1>7, <2>1 DEF Write, call, history
<1>8. CASE UNCHANGED vars
  BY <1>8 DEF vars, call, history
<1> QED BY <1>1, <1>2, <1>4, <1>5, <1>6, <1>7, <1>8 DEF Next

\* Every variable keeps its type, and an idle client holds nothing of a call.
THEOREM TypeCorrect == Spec => []TypeOK
<1>1. Init => TypeOK
  <2>1. Blank \in [Views -> Databases]
    BY DEF Blank, Databases
  <2> QED BY <2>1, MergeAssumption DEF Init, TypeOK, Results
<1> QED BY <1>1, TypeInductive, PTL DEF Spec

-----------------------------------------------------------------------------
(* What a step of a merge may do.                                          *)

\* A transaction writes only rows that theirs changed.
LEMMA WrittenIsTheirs ==
  ASSUME NEW s, NEW strategy
  PROVE  Written(s, strategy) \subseteq TheirsChanged(s)
BY DEF Written, OnlyTheirs, Resolved, ConflictsOf

\* A step that is not an agent's changes the databases only by an Apply.
LEMMA QuietSteps ==
  ASSUME TypeOK, Next, writes' = writes, db' # db
  PROVE  \E c \in Clients : Apply(c)
<1>1. ASSUME NEW b \in Branches, NEW e \in Entities, NEW row \in Rows \cup {Absent},
             Write(b, e, row)
      PROVE  FALSE
  BY <1>1 DEF Write, TypeOK
<1> QED BY <1>1 DEF Next, Begin, Read, Escalate, Fail

\* What an Apply leaves in each row.
LEMMA ApplyRows ==
  ASSUME TypeOK, NEW c \in Clients, Apply(c)
  PROVE  /\ request[c].source \in Branches
         /\ \A b \in Branches : b # request[c].source => db'[b] = db[b]
         /\ \A e \in Entities :
              db'[request[c].source][e] =
                IF e \in Written(seen[c], request[c].strategy) THEN TheirRow(seen[c], e)
                ELSE db[request[c].source][e]
<1>1. request[c] \in Requests
  BY DEF TypeOK, Apply, Planned
<1>2. request[c].source \in Branches
  BY <1>1, RequestFacts
<1>3. /\ \A b \in Branches : b # request[c].source => db'[b] = db[b]
      /\ db'[request[c].source] =
           Outcome(seen[c], request[c].strategy, db[request[c].source])
  BY <1>2 DEF Apply, TypeOK
<1> QED BY <1>2, <1>3 DEF Outcome

\* Merges change only rows they found changed in theirs, in the two branches
\* they are about, and only when they commit.
THEOREM OnlyTheirChanges == Spec => OnlyTheirChangesLand
<1>1. TypeOK /\ [Next]_vars => [LandsTheirChanges]_vars
  <2> SUFFICES ASSUME TypeOK, Next, NEW b \in Branches, NEW e \in Entities,
                      Quiet, db'[b][e] # db[b][e]
               PROVE  \E c \in Clients : /\ Commits(c)
                                         /\ b \in {request[c].source, request[c].target}
                                         /\ e \in TheirsChanged(seen[c])
    BY DEF LandsTheirChanges
  <2>1. PICK c \in Clients : Apply(c)
    BY QuietSteps DEF Quiet
  <2>2. request[c].source = b /\ e \in Written(seen[c], request[c].strategy)
    BY <2>1, ApplyRows
  <2>3. Commits(c)
    BY <2>1 DEF Apply, Return, Commits, TypeOK
  <2> QED BY <2>2, <2>3, WrittenIsTheirs
<1> QED BY <1>1, TypeCorrect, PTL DEF Spec, OnlyTheirChangesLand

\* A call commits only by its transaction.
LEMMA CommitIsApply ==
  ASSUME TypeOK, Next, NEW c \in Clients, Commits(c)
  PROVE  Apply(c)
<1>1. request[c] # NoRequest /\ request'[c] = NoRequest /\ result'[c] = "success"
  BY DEF Commits, Planned
<1>2. ASSUME NEW d \in Clients, NEW r \in Requests, Begin(d, r) PROVE FALSE
  BY <1>1, <1>2, RequestFacts DEF Begin, TypeOK
<1>3. ASSUME NEW d \in Clients, NEW res, Return(d, res), res # "success" PROVE FALSE
  BY <1>1, <1>3 DEF Return, TypeOK
<1>4. ASSUME NEW d \in Clients, Apply(d), d # c PROVE FALSE
  BY <1>1, <1>4 DEF Apply, Return, TypeOK
<1>5. ASSUME NEW d \in Clients, Escalate(d) PROVE FALSE
  BY <1>3, <1>5 DEF Escalate
<1>6. ASSUME NEW d \in Clients, Fail(d) PROVE FALSE
  BY <1>3, <1>6 DEF Fail
<1> QED BY <1>1, <1>2, <1>4, <1>5, <1>6 DEF Next, Read, Write, call

\* A non-empty set of numbers up to n has a greatest one.
LEMMA GreatestOne ==
  ASSUME NEW n \in Nat, NEW M, M \subseteq 1..n, M # {}
  PROVE  \E m \in M : \A k \in M : k <= m
<1> DEFINE T == {n - k : k \in M}
<1>0. \A k \in M : k \in Nat /\ n - k \in Nat
  OBVIOUS
<1>1. T \subseteq Nat /\ T # {}
  BY <1>0
<1>2. PICK t \in T : \A u \in T : ~ (<<u, t>> \in OpToRel(<, Nat))
  BY <1>1, NatLessThanWellFounded, WFMin
<1>3. \A u \in T : ~ (u < t)
  BY <1>1, <1>2, Zenon DEF OpToRel
<1>4. PICK m \in M : t = n - m
  OBVIOUS
<1>5. ASSUME NEW k \in M PROVE k <= m
  <2>1. n - k \in T
    OBVIOUS
  <2>2. ~ (n - k < n - m)
    BY <2>1, <1>3, <1>4
  <2> QED BY <2>2, <1>0
<1> QED BY <1>4, <1>5

\* A row that ours changed has an entry of its id in ours_by_id.
LEMMA ChangedIdIsIndexed ==
  ASSUME NEW s, NEW e \in OursChanged(s)
  PROVE  \E o \in OursById(s) : o[2] = e[2]
<1> DEFINE Same == {q \in OursChanged(s) : q[2] = e[2]}
           M == {q[1] : q \in Same}
<1>1. M \subseteq 1..TypeCount /\ M # {}
  BY MergeAssumption DEF OursChanged, Changed, EntityTypes
<1>2. PICK m \in M : \A k \in M : k <= m
  BY <1>1, GreatestOne, MergeAssumption
<1>3. PICK o \in Same : o[1] = m
  OBVIOUS
<1>4. \A q \in OursChanged(s) : q[2] = o[2] => q[1] <= o[1]
  BY <1>2, <1>3
<1> QED BY <1>3, <1>4 DEF OursById

\* Plans follow the strategy, whatever was written while they were made.
THEOREM StrategyFollowed == Spec => ConflictsFollowStrategy
<1> DEFINE Step == \A c \in Clients : Commits(c) =>
                     FollowsStrategy(seen[c], request[c].strategy, request[c].source)
<1>1. TypeOK /\ [Next]_vars => [Step]_vars
  <2> SUFFICES ASSUME TypeOK, Next, NEW c \in Clients, Commits(c)
               PROVE  FollowsStrategy(seen[c], request[c].strategy, request[c].source)
    OBVIOUS
  <2> DEFINE s == seen[c]
             strategy == request[c].strategy
             ours == request[c].source
  <2>1. Apply(c)
    BY CommitIsApply
  <2>2. ASSUME NEW e \in Entities, NEW f \in Conflicts(s, e)
        PROVE  /\ strategy[f] # "manual"
               /\ strategy[f] = "theirs" => Column(db'[ours][e], f) = s["theirs"][e][f]
               /\ (\A g \in Conflicts(s, e) : strategy[g] = "ours")
                    => db'[ours][e] = db[ours][e]
    <3>1. /\ f \in Fields /\ f \in FieldDiffs(s["base2"], s["theirs"], e)
          /\ s["theirs"][e] # Absent /\ e \in TheirsChanged(s)
      BY <2>2 DEF Conflicts, FieldDiffs, TheirsChanged, Changed
    <3>2. <<e, f>> \in ConflictsOf(s)
      BY <3>1, <2>2 DEF ConflictsOf
    <3>3. strategy[f] # "manual"
      <4>1. Escalated(s, strategy) = {}
        BY <2>1 DEF Apply
      <4>2. strategy[f] = "manual" => <<e, f>> \in Escalated(s, strategy)
        BY <3>2 DEF Escalated, Resolved
      <4> QED BY <4>1, <4>2
    <3>4. ASSUME strategy[f] = "theirs"
          PROVE  Column(db'[ours][e], f) = s["theirs"][e][f]
      <4>1. e \in Written(s, strategy)
        <5>1. <<e, f>> \in Resolved(s, strategy, "theirs")
          BY <3>2, <3>4 DEF Resolved
        <5> QED BY <5>1 DEF Written
      <4>2. db'[ours][e] = TheirRow(s, e)
        BY <2>1, <4>1, ApplyRows
      <4>3. TheirRow(s, e) \in Rows /\ TheirRow(s, e)[f] = s["theirs"][e][f]
        <5>1. s \in [Views -> Databases]
          BY DEF TypeOK
        <5>2. s["theirs"][e] \in Rows
          BY <5>1, <3>1 DEF Views, Databases
        <5> QED BY <5>2, <3>1 DEF TheirRow, Rows
      <4> QED BY <4>2, <4>3, MergeAssumption DEF Column
    <3>5. ASSUME \A g \in Conflicts(s, e) : strategy[g] = "ours"
          PROVE  db'[ours][e] = db[ours][e]
      <4>1. e \notin OnlyTheirs(s)
        BY <2>2 DEF OnlyTheirs, Conflicts
      <4>2. \A k \in Resolved(s, strategy, "theirs") : k[1] # e
        BY <3>5 DEF Resolved, ConflictsOf
      <4>3. e \notin Written(s, strategy)
        BY <4>1, <4>2 DEF Written
      <4> QED BY <2>1, <4>3, ApplyRows
    <3> QED BY <3>3, <3>4, <3>5
  <2> HIDE DEF s, strategy, ours
  <2>3. FollowsStrategy(s, strategy, ours)
    BY <2>2 DEF FollowsStrategy
  <2> QED BY <2>3 DEF s, strategy, ours
<1> HIDE DEF Step
<1> QED BY <1>1, TypeCorrect, PTL DEF Spec, ConflictsFollowStrategy, Step

-----------------------------------------------------------------------------
(* Retries and races of one merge.                                         *)

\* With ids of one type each, the rows that are written depend on what was seen
\* of the row alone.
RowWritten(s, strategy, e) ==
  /\ s["base2"][e] # s["theirs"][e]
  /\ \/ s["base1"][e] = s["ours"][e]
     \/ \E f \in Fields :
          /\ f \in FieldDiffs(s["base2"], s["theirs"], e)
          /\ f \in FieldDiffs(s["base1"], s["ours"], e)
          /\ s["ours"][e][f] # s["theirs"][e][f]
          /\ strategy[f] = "theirs"

\* RowWritten is what Written says of a row, when ids have one type each.
LEMMA WrittenRowByRow ==
  ASSUME IdsUnique, NEW s, NEW strategy, NEW e \in Entities
  PROVE  e \in Written(s, strategy) <=> RowWritten(s, strategy, e)
<1>1. \A o \in Entities : o[2] = e[2] => o = e
  BY DEF IdsUnique
<1>2. \A o \in OursChanged(s) : o \in Entities
  BY DEF OursChanged, Changed
<1>3. e \in OursChanged(s) <=> s["base1"][e] # s["ours"][e]
  BY DEF OursChanged, Changed
<1>4. \A o \in OursById(s) : o \in OursChanged(s)
  BY DEF OursById
<1>5. e \in OursChanged(s) => e \in OursById(s)
  BY ChangedIdIsIndexed, <1>1, <1>2, <1>4
<1>6. e \in TheirsChanged(s) <=> s["base2"][e] # s["theirs"][e]
  BY DEF TheirsChanged, Changed
<1>7. e \in OnlyTheirs(s) <=>
        s["base2"][e] # s["theirs"][e] /\ s["base1"][e] = s["ours"][e]
  BY <1>1, <1>2, <1>3, <1>4, <1>5, <1>6 DEF OnlyTheirs
<1>8. \A f : f \in Conflicts(s, e) <=>
        /\ f \in FieldDiffs(s["base2"], s["theirs"], e)
        /\ s["base1"][e] # s["ours"][e]
        /\ f \in FieldDiffs(s["base1"], s["ours"], e)
        /\ s["ours"][e][f] # s["theirs"][e][f]
  BY <1>1, <1>2, <1>3, <1>4, <1>5 DEF Conflicts
<1>9. \A f : f \in FieldDiffs(s["base1"], s["ours"], e) =>
              f \in Fields /\ s["base1"][e] # s["ours"][e]
  BY DEF FieldDiffs
<1>10. (\E k \in Resolved(s, strategy, "theirs") : k[1] = e) <=>
         \E f \in Conflicts(s, e) : e \in TheirsChanged(s) /\ strategy[f] = "theirs"
  <2>1. ASSUME NEW k \in Resolved(s, strategy, "theirs"), k[1] = e
        PROVE  k[2] \in Conflicts(s, e) /\ e \in TheirsChanged(s) /\ strategy[k[2]] = "theirs"
    BY <2>1 DEF Resolved, ConflictsOf
  <2>2. ASSUME NEW f \in Conflicts(s, e), e \in TheirsChanged(s), strategy[f] = "theirs"
        PROVE  <<e, f>> \in Resolved(s, strategy, "theirs")
    BY <2>2, <1>8, <1>9 DEF Resolved, ConflictsOf
  <2>3. \A f : <<e, f>>[1] = e
    OBVIOUS
  <2> QED BY <2>1, <2>2, <2>3
<1>11. e \in Written(s, strategy) <=>
         e \in OnlyTheirs(s) \/ \E k \in Resolved(s, strategy, "theirs") : k[1] = e
  BY DEF Written
<1> QED BY <1>6, <1>7, <1>8, <1>9, <1>10, <1>11 DEF RowWritten

\* A merge of a branch with itself writes nothing.
LEMMA SelfMerge ==
  ASSUME IdsUnique, NEW r \in Requests, r.source = r.target,
         NEW d \in [Branches -> Databases]
  PROVE  AfterMerge(d, r) = d
<1> DEFINE s == Sight(d, r)
<1>1. s["base1"] = s["base2"] /\ s["ours"] = s["theirs"]
  BY DEF Sight, Views, BranchIn
<1>2. \A e \in Entities : e \notin Written(s, r.strategy)
  BY <1>1, WrittenRowByRow DEF RowWritten
<1>3. r.source \in Branches
  BY RequestFacts
<1>4. Outcome(s, r.strategy, d[r.source]) = d[r.source]
  BY <1>2, <1>3 DEF Outcome, Databases
<1> HIDE DEF s
<1> QED BY <1>3, <1>4 DEF AfterMerge, s

\* A merge that saw, row by row, either the first databases or the present ones,
\* these being the first ones or what the merge leaves, has the same effect on
\* them as the first merge had.
LEMMA SameEffect ==
  ASSUME IdsUnique,
         NEW r \in Requests,
         NEW f0 \in [Branches -> Databases],
         NEW d \in {f0, AfterMerge(f0, r)},
         NEW s \in [Views -> Databases],
         \A v \in Views, e \in Entities :
            s[v][e] \in {f0[BranchIn(r, v)][e], d[BranchIn(r, v)][e]}
  PROVE  /\ Escalated(s, r.strategy) # {} => AfterMerge(f0, r) = d
         /\ Escalated(s, r.strategy) = {} =>
              [d EXCEPT ![r.source] = Outcome(s, r.strategy, @)] = AfterMerge(f0, r)
<1> DEFINE z == Sight(f0, r)
           M == AfterMerge(f0, r)
           n == [d EXCEPT ![r.source] = Outcome(s, r.strategy, @)]
<1>1. /\ r.source \in Branches /\ r.target \in Branches /\ MergeBase(r) \in Branches
      /\ \A v \in Views : BranchIn(r, v) \in Branches
  BY RequestFacts
<1>2. M \in [Branches -> Databases] /\ d \in [Branches -> Databases]
  BY AfterMergeType
<1>3. z \in [Views -> Databases]
  BY <1>1 DEF Sight
<1>4. \A v \in Views : z[v] = f0[BranchIn(r, v)]
  BY DEF Sight
<1>5. CASE M = f0
  <2>1. d = f0
    BY <1>5
  <2>2. \A v \in Views, e \in Entities : s[v][e] = z[v][e]
    BY <1>4, <2>1
  <2>3. s = z
    BY <1>3, <2>2 DEF Databases
  <2> QED BY <1>1, <1>2, <1>5, <2>1, <2>3 DEF AfterMerge
<1>6. CASE M # f0
  <2>1. Escalated(z, r.strategy) = {} /\ M = [f0 EXCEPT ![r.source] = Outcome(z, r.strategy, @)]
    BY <1>6 DEF AfterMerge
  <2>2. r.source # r.target
    BY <1>6, SelfMerge
  <2>3. MergeBase(r) # r.source
    BY <2>2, BaseIsNotSource
  <2>4. \A b \in Branches : b # r.source => M[b] = f0[b] /\ d[b] = f0[b]
    BY <2>1
  <2>5. \A v \in Views, e \in Entities : v # "ours" => s[v][e] = z[v][e]
    BY <1>1, <1>4, <2>2, <2>3, <2>4 DEF BranchIn, Views
  <2>6. M[r.source] = Outcome(z, r.strategy, f0[r.source])
    BY <1>1, <2>1
  <2>7. \A e \in Entities :
          M[r.source][e] = IF e \in Written(z, r.strategy) THEN TheirRow(z, e)
                           ELSE f0[r.source][e]
    BY <2>6 DEF Outcome
  <2>8. \A e \in Entities : TheirRow(s, e) = TheirRow(z, e)
    BY <2>5 DEF TheirRow, FieldDiffs, Views
  <2>9. ASSUME NEW e \in Entities
        PROVE  Outcome(s, r.strategy, d[r.source])[e] = M[r.source][e]
    <3>1. Outcome(s, r.strategy, d[r.source])[e] =
            IF e \in Written(s, r.strategy) THEN TheirRow(s, e) ELSE d[r.source][e]
      BY DEF Outcome
    <3>2. CASE s["ours"][e] = f0[r.source][e]
      <4>1. \A v \in Views : s[v][e] = z[v][e]
        BY <3>2, <2>5, <1>4 DEF BranchIn, Views
      <4>2. /\ s["base1"][e] = z["base1"][e] /\ s["base2"][e] = z["base2"][e]
            /\ s["ours"][e] = z["ours"][e] /\ s["theirs"][e] = z["theirs"][e]
        BY <4>1 DEF Views
      <4>3. RowWritten(s, r.strategy, e) <=> RowWritten(z, r.strategy, e)
        BY <4>2 DEF RowWritten, FieldDiffs
      <4>4. e \in Written(s, r.strategy) <=> e \in Written(z, r.strategy)
        BY <4>3, WrittenRowByRow
      <4> QED BY <3>1, <4>4, <2>7, <2>8
    <3>3. CASE s["ours"][e] # f0[r.source][e]
      <4>1. s["ours"][e] = d[r.source][e] /\ d # f0
        BY <3>3 DEF BranchIn, Views
      <4>2. d = M
        BY <4>1
      <4>3. M[r.source][e] = TheirRow(z, e)
        BY <3>3, <4>1, <4>2, <2>7
      <4> QED BY <3>1, <4>2, <4>3, <2>8
    <3> QED BY <3>2, <3>3
  <2>10. Outcome(s, r.strategy, d[r.source]) = M[r.source]
    <3>1. Outcome(s, r.strategy, d[r.source]) \in Databases /\ M[r.source] \in Databases
      BY <1>1, <1>2, OutcomeType
    <3> QED BY <3>1, <2>9 DEF Databases
  <2>11. n = M
    BY <1>1, <1>2, <2>4, <2>10
  <2>12. ASSUME d = f0 PROVE Escalated(s, r.strategy) = {}
    <3>1. \A v \in Views, e \in Entities : s[v][e] = z[v][e]
      BY <1>4, <2>12
    <3>2. s = z
      BY <1>3, <3>1 DEF Databases
    <3> QED BY <2>1, <3>2
  <2> QED BY <2>11, <2>12
<1> QED BY <1>5, <1>6

\* Nobody but calls of merge r has asked for anything or written.
OnlyMerge(r) == asked \subseteq {r} /\ writes = 0

\* What call c has read so far is, row by row, the first content or the present.
Seeing(c, r) ==
  \A q \in Reads \ unread[c], e \in Entities :
    e[1] = q[2] =>
      seen[c][View(q)][e] \in
        {first[BranchIn(r, View(q))][e], db[BranchIn(r, View(q))][e]}

\* The inductive invariant: as long as only calls of merge r write, the databases
\* are the first ones or those the merge leaves, and a call that succeeded left
\* the latter.  MergeOnce alone is not inductive: it says nothing of the reads.
MergeInv ==
  /\ \A c \in Clients : request[c] \in asked \cup {NoRequest}
  /\ asked = {} => \A c \in Clients : result[c] # "success"
  /\ asked = {} /\ writes = 0 => db = first
  /\ \A r \in Requests : OnlyMerge(r) =>
       /\ db \in {first, AfterMerge(first, r)}
       /\ \A c \in Clients : result[c] = "success" => db = AfterMerge(first, r)
       /\ \A c \in Clients : request[c] # NoRequest => Seeing(c, r)

\* A call that has read everything has seen, row by row, the first content or
\* the present one.
LEMMA AllSeen ==
  ASSUME TypeOK, NEW c \in Clients, NEW r \in Requests, unread[c] = {}, Seeing(c, r)
  PROVE  \A v \in Views, e \in Entities :
            seen[c][v][e] \in {first[BranchIn(r, v)][e], db[BranchIn(r, v)][e]}
<1> SUFFICES ASSUME NEW v \in Views, NEW e \in Entities
             PROVE  seen[c][v][e] \in {first[BranchIn(r, v)][e], db[BranchIn(r, v)][e]}
  OBVIOUS
<1>1. e[1] \in EntityTypes
  BY MergeAssumption
<1>2. PICK q \in Reads : View(q) = v /\ q[2] = e[1]
  <2> DEFINE R(a, b) == <<a, e[1], b>>
  <2>1. \A a, b \in 1..2 : R(a, b) \in Reads
    BY <1>1 DEF Reads
  <2>2. /\ View(R(1, 1)) = "base1" /\ View(R(1, 2)) = "ours"
        /\ View(R(2, 1)) = "base2" /\ View(R(2, 2)) = "theirs"
    BY DEF View
  <2>3. \A a, b \in 1..2 : R(a, b)[2] = e[1]
    OBVIOUS
  <2>4. 1 \in 1..2 /\ 2 \in 1..2
    OBVIOUS
  <2> HIDE DEF R
  <2> QED BY <2>1, <2>2, <2>3, <2>4 DEF Views
<1> QED BY <1>2 DEF Seeing

\* Every step keeps the invariant.
LEMMA MergeInvInductive ==
  ASSUME IdsUnique, TypeOK, MergeInv, [Next]_vars
  PROVE  MergeInv'
<1>1. ASSUME NEW c \in Clients, NEW r0 \in Requests, Begin(c, r0) PROVE MergeInv'
  <2>1. /\ db' = db /\ first' = first /\ writes' = writes /\ seen' = seen
        /\ asked' = asked \cup {r0} /\ request[c] = NoRequest
        /\ request' = [request EXCEPT ![c] = r0]
        /\ unread' = [unread EXCEPT ![c] = Reads]
        /\ result' = [result EXCEPT ![c] = "none"]
    BY <1>1 DEF Begin
  <2>2. \A d \in Clients : request'[d] \in asked' \cup {NoRequest}
    BY <2>1 DEF TypeOK, MergeInv
  <2>3. asked' # {}
    BY <2>1
  <2>4. ASSUME NEW r \in Requests, OnlyMerge(r)'
        PROVE  /\ db' \in {first', AfterMerge(first', r)}
               /\ \A d \in Clients : result'[d] = "success" => db' = AfterMerge(first', r)
               /\ \A d \in Clients : request'[d] # NoRequest => Seeing(d, r)'
    <3>1. OnlyMerge(r)
      BY <2>1, <2>4 DEF OnlyMerge
    <3>2. db \in {first, AfterMerge(first, r)}
      BY <3>1 DEF MergeInv
    <3>3. \A d \in Clients : result'[d] = "success" => result[d] = "success"
      BY <2>1 DEF TypeOK
    <3>4. ASSUME NEW d \in Clients, request'[d] # NoRequest PROVE Seeing(d, r)'
      <4>1. CASE d = c
        <5>1. unread'[d] = Reads
          BY <2>1, <4>1 DEF TypeOK
        <5> QED BY <5>1 DEF Seeing
      <4>2. CASE d # c
        <5>1. unread'[d] = unread[d] /\ request'[d] = request[d]
          BY <2>1, <4>2 DEF TypeOK
        <5> QED BY <2>1, <3>1, <3>4, <5>1 DEF Seeing, MergeInv
      <4> QED BY <4>1, <4>2
    <3> QED BY <2>1, <3>1, <3>2, <3>3, <3>4 DEF MergeInv
  <2> QED BY <2>2, <2>3, <2>4 DEF MergeInv, Seeing
<1>2. ASSUME NEW c \in Clients, NEW q0 \in Reads, Read(c, q0) PROVE MergeInv'
  <2>1. /\ db' = db /\ first' = first /\ writes' = writes /\ request' = request
        /\ result' = result /\ asked' = asked /\ q0 \in unread[c]
        /\ unread' = [unread EXCEPT ![c] = unread[c] \ {q0}]
    BY <1>2 DEF Read, history
  <2>2. request[c] \in Requests
    BY <2>1 DEF TypeOK
  <2>3. View(q0) \in Views
    BY DEF View, Views
  <2>4. /\ \A d \in Clients : d # c => seen'[d] = seen[d]
        /\ \A v \in Views : v # View(q0) => seen'[c][v] = seen[c][v]
        /\ \A e \in Entities :
             seen'[c][View(q0)][e] = IF e[1] = q0[2]
                                     THEN db[BranchIn(request[c], View(q0))][e]
                                     ELSE seen[c][View(q0)][e]
    BY <1>2, <2>3 DEF Read, TypeOK
  <2>5. ASSUME NEW r \in Requests, OnlyMerge(r)', NEW d \in Clients,
               request'[d] # NoRequest
        PROVE  Seeing(d, r)'
    <3>1. OnlyMerge(r) /\ request[d] # NoRequest
      BY <2>1, <2>5 DEF OnlyMerge
    <3>2. Seeing(d, r)
      BY <3>1 DEF MergeInv, Seeing
    <3>3. CASE d # c
      <4>1. unread'[d] = unread[d] /\ seen'[d] = seen[d]
        BY <2>1, <2>4, <3>3 DEF TypeOK
      <4> QED BY <2>1, <3>2, <4>1 DEF Seeing
    <3>4. CASE d = c
      <4>1. request[c] = r
        BY <2>2, <3>1, RequestFacts DEF MergeInv, OnlyMerge
      <4>2. ASSUME NEW q \in Reads \ unread'[c], NEW e \in Entities, e[1] = q[2]
            PROVE  seen'[c][View(q)][e] \in
                     {first[BranchIn(r, View(q))][e], db[BranchIn(r, View(q))][e]}
        <5>1. View(q) \in Views
          BY DEF View, Views
        <5>2. unread'[c] = unread[c] \ {q0}
          BY <2>1 DEF TypeOK
        <5>3. CASE q = q0
          BY <2>4, <4>1, <4>2, <5>3
        <5>4. CASE q # q0
          <6>1. q \in Reads \ unread[c]
            BY <5>2, <5>4
          <6>2. seen[c][View(q)][e] \in
                  {first[BranchIn(r, View(q))][e], db[BranchIn(r, View(q))][e]}
            BY <3>2, <3>4, <4>2, <6>1 DEF Seeing
          <6>3. CASE View(q) # View(q0)
            BY <2>4, <5>1, <6>2, <6>3
          <6>4. CASE View(q) = View(q0)
            BY <2>4, <4>1, <6>2, <6>4
          <6> QED BY <6>3, <6>4
        <5> QED BY <5>3, <5>4
      <4> QED BY <2>1, <3>4, <4>2 DEF Seeing
    <3> QED BY <3>3, <3>4
  <2>6. ASSUME NEW r \in Requests, OnlyMerge(r)' PROVE OnlyMerge(r)
    BY <2>1, <2>6 DEF OnlyMerge
  <2> QED BY <2>1, <2>5, <2>6 DEF MergeInv, Seeing
<1>3. ASSUME NEW c \in Clients, NEW res \in Results,
             Return(c, res), request[c] # NoRequest,
             \A r \in Requests : OnlyMerge(r) =>
               /\ db' \in {db, AfterMerge(first, r)}
               /\ res = "success" => db' = AfterMerge(first, r)
      PROVE  MergeInv'
  <2>1. /\ first' = first /\ writes' = writes /\ asked' = asked
        /\ request' = [request EXCEPT ![c] = NoRequest]
        /\ unread' = [unread EXCEPT ![c] = {}]
        /\ seen' = [seen EXCEPT ![c] = Blank]
        /\ result' = [result EXCEPT ![c] = res]
    BY <1>3 DEF Return, history
  <2>2. asked # {}
    BY <1>3 DEF MergeInv
  <2>3. \A d \in Clients : request'[d] \in asked' \cup {NoRequest}
    BY <2>1 DEF TypeOK, MergeInv
  <2>4. ASSUME NEW r \in Requests, OnlyMerge(r)'
        PROVE  /\ db' \in {first', AfterMerge(first', r)}
               /\ \A d \in Clients : result'[d] = "success" => db' = AfterMerge(first', r)
               /\ \A d \in Clients : request'[d] # NoRequest => Seeing(d, r)'
    <3>1. OnlyMerge(r)
      BY <2>1, <2>4 DEF OnlyMerge
    <3>2. db \in {first, AfterMerge(first, r)} /\ db' \in {db, AfterMerge(first, r)}
      BY <1>3, <3>1 DEF MergeInv
    <3>3. ASSUME NEW d \in Clients, result'[d] = "success" PROVE db' = AfterMerge(first, r)
      <4>1. CASE d = c
        BY <1>3, <2>1, <3>1, <3>3, <4>1 DEF TypeOK
      <4>2. CASE d # c
        <5>1. result[d] = "success"
          BY <2>1, <3>3, <4>2 DEF TypeOK
        <5> QED BY <3>1, <3>2, <5>1 DEF MergeInv
      <4> QED BY <4>1, <4>2
    <3>4. ASSUME NEW d \in Clients, request'[d] # NoRequest PROVE Seeing(d, r)'
      <4>1. d # c /\ request[d] # NoRequest /\ unread'[d] = unread[d] /\ seen'[d] = seen[d]
        BY <2>1, <3>4 DEF TypeOK
      <4>2. Seeing(d, r)
        BY <3>1, <4>1 DEF MergeInv, Seeing
      <4>3. CASE db' = db
        BY <2>1, <4>1, <4>2, <4>3 DEF Seeing
      <4>4. CASE db' # db
        <5>1. db = first
          BY <3>2, <4>4
        <5> QED BY <2>1, <4>1, <4>2, <5>1 DEF Seeing
      <4> QED BY <4>3, <4>4
    <3> QED BY <2>1, <3>2, <3>3, <3>4
  <2> QED BY <2>1, <2>2, <2>3, <2>4 DEF MergeInv, Seeing
<1>4. ASSUME NEW c \in Clients, NEW res \in Results \ {"success"},
             request[c] # NoRequest, db' = db, Return(c, res)
      PROVE  MergeInv'
  BY <1>3, <1>4
<1>5. ASSUME NEW c \in Clients, Apply(c) PROVE MergeInv'
  <2>1. request[c] \in Requests /\ request[c] # NoRequest /\ unread[c] = {}
    BY <1>5 DEF Apply, Planned, TypeOK
  <2>2. ASSUME NEW r \in Requests, OnlyMerge(r) PROVE db' = AfterMerge(first, r)
    <3>1. request[c] = r
      BY <2>1, <2>2, RequestFacts DEF MergeInv, OnlyMerge
    <3>2. db \in {first, AfterMerge(first, r)} /\ Seeing(c, r)
      BY <2>1, <2>2 DEF MergeInv, Seeing
    <3>3. \A v \in Views, e \in Entities :
            seen[c][v][e] \in {first[BranchIn(r, v)][e], db[BranchIn(r, v)][e]}
      BY <2>1, <3>2, AllSeen
    <3>4. Escalated(seen[c], r.strategy) = {}
      BY <1>5, <3>1 DEF Apply
    <3>5. db' = [db EXCEPT ![r.source] = Outcome(seen[c], r.strategy, @)]
      BY <1>5, <3>1 DEF Apply
    <3>6. first \in [Branches -> Databases] /\ seen[c] \in [Views -> Databases]
      BY DEF TypeOK
    <3> QED BY <3>2, <3>3, <3>4, <3>5, <3>6, SameEffect
  <2> QED BY <1>3, <1>5, <2>1, <2>2 DEF Apply, Results
<1>6. ASSUME NEW c \in Clients, Escalate(c) \/ Fail(c) PROVE MergeInv'
  BY <1>4, <1>6 DEF Escalate, Fail, Planned, Results
<1>7. ASSUME NEW b \in Branches, NEW e \in Entities, NEW row \in Rows \cup {Absent},
             Write(b, e, row)
      PROVE  MergeInv'
  <2>1. writes' # 0 /\ request' = request /\ asked' = asked /\ result' = result
    BY <1>7 DEF Write, TypeOK, call, history
  <2> QED BY <2>1 DEF MergeInv, OnlyMerge
<1>8. CASE UNCHANGED vars
  BY <1>8 DEF vars, call, history, MergeInv, OnlyMerge, Seeing
<1> QED BY <1>1, <1>2, <1>5, <1>6, <1>7, <1>8 DEF Next

\* With ids of one type each, retries and races of a merge have the effect of one.
THEOREM MergeIsOnce == Spec => []MergeOnce
<1>1. Init => MergeInv
  BY DEF Init, MergeInv, OnlyMerge
<1>2. CASE IdsUnique
  <2>1. TypeOK /\ MergeInv /\ [Next]_vars => MergeInv'
    BY <1>2, MergeInvInductive
  <2>2. MergeInv => MergeOnce
    BY DEF MergeInv, MergeOnce, OnlyMerge
  <2> QED BY <1>1, <2>1, <2>2, TypeCorrect, PTL DEF Spec
<1>3. CASE ~ IdsUnique
  <2>1. MergeOnce
    BY <1>3 DEF MergeOnce
  <2> QED BY <2>1, PTL
<1> QED BY <1>2, <1>3
=============================================================================
