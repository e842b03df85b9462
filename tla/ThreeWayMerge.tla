--------------------------- MODULE ThreeWayMerge ---------------------------
(***************************************************************************)
(* BranchEngine::merge: the three-way merge of one branch database into    *)
(* another, driven by concurrent callers while agents keep writing.        *)
(*                                                                         *)
(* A merge takes the diffs base -> ours and base -> theirs, table by       *)
(* table, each table read in a query of its own; then it plans in memory   *)
(* and writes the plan to the database of "ours" in one transaction.       *)
(* merge(source, target) passes the source branch as "ours": the source is *)
(* the database that is written.                                           *)
(***************************************************************************)
EXTENDS Naturals

CONSTANTS
  Branches,    \* branch ids
  NoBranch,    \* Option::None for a branch id
  ParentOf,    \* branches.parent_id, fixed when a branch is forked
  TypeCount,   \* number of entity types, in the order diff visits them
  Entities,    \* the rows that may occur, <<position of the type, id>>
  Fields,      \* the columns other than id; all are nullable
  Values,      \* the values of a column other than NULL
  Null,        \* NULL
  Absent,      \* no row with that id
  Clients,     \* tasks that call merge
  Requests,    \* the merges they ask for
  MaxWrites,   \* bound on the writes of agents
  MaxCalls     \* bound on the calls of merge

EntityTypes == 1..TypeCount

\* What a strategy says of one field.  Ours, Theirs, Union and Manual say the
\* same of every field; FieldLevel says Union of the fields it does not name.
Choices == {"ours", "theirs", "union", "manual"}

MergeRequest ==
  [source : Branches, target : Branches, strategy : [Fields -> Choices]]

Rows      == [Fields -> Values \cup {Null}]
Databases == [Entities -> Rows \cup {Absent}]

ASSUME MergeAssumption ==
  /\ NoBranch \notin Branches
  /\ ParentOf \in [Branches -> Branches \cup {NoBranch}]
  /\ \A b \in Branches : ParentOf[b] # b
  /\ TypeCount \in Nat
  /\ \A e \in Entities : e[1] \in EntityTypes
  /\ Null \notin Values
  /\ Absent \notin Rows
  /\ Requests \subseteq MergeRequest
  /\ MaxWrites \in Nat
  /\ MaxCalls \in Nat

NoRequest == [source |-> NoBranch]

\* MergeResult::success, the conflicts left to a human, or Err.
Results == {"none", "success", "escalated", "error"}

VARIABLES
  db,        \* the database of each branch
  request,   \* the merge each client has under way, or NoRequest
  unread,    \* the reads it still has to make
  seen,      \* what its reads returned
  result,    \* what its last call returned
  writes,    \* history: the number of writes by agents, to bound them
  first,     \* history: the databases as they were at the start
  asked,     \* history: the merges ever asked for
  calls      \* history: the number of calls of merge, to bound them

call    == <<request, unread, seen, result>>
history == <<first, asked, calls>>
vars    == <<db, call, writes, history>>

-----------------------------------------------------------------------------
(* Diffs.  s is what a merge has seen: for each view a database.           *)

Views == {"base1", "ours", "base2", "theirs"}

\* Both diffs read the base again: <<diff, type, side>>, in this order.
Reads == (1..2) \X EntityTypes \X (1..2)

View(r) == IF r[1] = 1 THEN IF r[3] = 1 THEN "base1" ELSE "ours"
                       ELSE IF r[3] = 1 THEN "base2" ELSE "theirs"

Precedes(p, q) ==
  \/ p[1] < q[1]
  \/ /\ p[1] = q[1]
     /\ p[2] < q[2] \/ (p[2] = q[2] /\ p[3] < q[3])

Changed(a, b) == {e \in Entities : a[e] # b[e]}

\* An added or removed entity has a diff without fields.
FieldDiffs(a, b, e) ==
  IF a[e] = Absent \/ b[e] = Absent THEN {}
  ELSE {f \in Fields : a[e][f] # b[e][f]}

OursChanged(s)   == Changed(s["base1"], s["ours"])
TheirsChanged(s) == Changed(s["base2"], s["theirs"])

-----------------------------------------------------------------------------
(* The plan.                                                               *)

\* ours_by_id has one entry per id: among changed entities of different types
\* with the same id, the one visited last.
OursById(s) ==
  {o \in OursChanged(s) :
     \A q \in OursChanged(s) : q[2] = o[2] => q[1] <= o[1]}

OnlyTheirs(s) == {e \in TheirsChanged(s) : \A o \in OursById(s) : o[2] # e[2]}

\* Fields of e that both sides changed, to different values.
Conflicts(s, e) ==
  {f \in FieldDiffs(s["base2"], s["theirs"], e) :
     \E o \in OursById(s) :
        /\ o[2] = e[2]
        /\ f \in FieldDiffs(s["base1"], s["ours"], o)
        /\ s["ours"][o][f] # s["theirs"][e][f]}

ConflictsOf(s) ==
  {c \in TheirsChanged(s) \X Fields : c[2] \in Conflicts(s, c[1])}

Resolved(s, strategy, choice) ==
  {c \in ConflictsOf(s) : strategy[c[2]] = choice}

Escalated(s, strategy) == Resolved(s, strategy, "manual")

\* Mutant: every conflicting entity is taken from theirs.
WrittenAnyConflict(s, strategy) ==
  OnlyTheirs(s) \cup {c[1] : c \in ConflictsOf(s)}

\* The entities the transaction writes.  A conflict resolved by Union yields a
\* merged column value, which is no JSON object and so is not written; when the
\* two sides changed different fields the plan is UseOurs.
Written(s, strategy) ==
  OnlyTheirs(s) \cup {c[1] : c \in Resolved(s, strategy, "theirs")}

\* INSERT OR REPLACE of the fields in the diff, or DELETE.  Values are bound as
\* text; the columns of the three tables are text (or JSON text), which that keeps.
TheirRow(s, e) ==
  IF s["theirs"][e] = Absent THEN Absent
  ELSE [f \in Fields |-> IF f \in FieldDiffs(s["base2"], s["theirs"], e)
                         THEN s["theirs"][e][f] ELSE Null]

\* Mutant: the rows the merge does not change are written back as it read them.
OutcomeWriteBack(s, strategy, d) ==
  [e \in Entities |-> IF e \in Written(s, strategy) THEN TheirRow(s, e) ELSE s["ours"][e]]

\* Database d after the transaction.
Outcome(s, strategy, d) ==
  [e \in Entities |-> IF e \in Written(s, strategy) THEN TheirRow(s, e) ELSE d[e]]

-----------------------------------------------------------------------------
\* Mutant: the source itself is the base.
MergeBaseSource(r) == r.source

MergeBase(r) == IF ParentOf[r.source] = NoBranch THEN r.target ELSE ParentOf[r.source]

BranchIn(r, v) == CASE v = "ours" -> r.source
                    [] v = "theirs" -> r.target
                    [] OTHER -> MergeBase(r)

\* What a merge sees when nobody writes while it reads databases d.
Sight(d, r) == [v \in Views |-> d[BranchIn(r, v)]]

\* The databases after a merge that nobody disturbs.
AfterMerge(d, r) ==
  IF Escalated(Sight(d, r), r.strategy) # {} THEN d
  ELSE [d EXCEPT ![r.source] = Outcome(Sight(d, r), r.strategy, @)]

Blank == [v \in Views |-> [e \in Entities |-> Absent]]

Init ==
  /\ db \in [Branches -> Databases]
  /\ request = [c \in Clients |-> NoRequest]
  /\ unread = [c \in Clients |-> {}]
  /\ seen = [c \in Clients |-> Blank]
  /\ result = [c \in Clients |-> "none"]
  /\ writes = 0
  /\ first = db
  /\ asked = {}
  /\ calls = 0

Begin(c, r) ==
  /\ calls < MaxCalls
  /\ request[c] = NoRequest
  /\ request' = [request EXCEPT ![c] = r]
  /\ unread' = [unread EXCEPT ![c] = Reads]
  /\ result' = [result EXCEPT ![c] = "none"]
  /\ asked' = asked \cup {r}
  /\ calls' = calls + 1
  /\ UNCHANGED <<db, seen, writes, first>>

\* fetch_all_entities of one table of one database.
Read(c, r) ==
  /\ r \in unread[c]
  /\ \A q \in unread[c] : q = r \/ Precedes(r, q)
  /\ unread' = [unread EXCEPT ![c] = @ \ {r}]
  /\ seen' = [seen EXCEPT ![c][View(r)] =
                [e \in Entities |->
                   IF e[1] = r[2] THEN db[BranchIn(request[c], View(r))][e] ELSE @[e]]]
  /\ UNCHANGED <<db, request, result, writes, history>>

\* Mutant: what the call has read outlives it.
ReturnKeepsSeen(c, res) ==
  /\ request' = [request EXCEPT ![c] = NoRequest]
  /\ unread' = [unread EXCEPT ![c] = {}]
  /\ result' = [result EXCEPT ![c] = res]
  /\ UNCHANGED <<seen, writes, history>>

Return(c, res) ==
  /\ request' = [request EXCEPT ![c] = NoRequest]
  /\ unread' = [unread EXCEPT ![c] = {}]
  /\ seen' = [seen EXCEPT ![c] = Blank]
  /\ result' = [result EXCEPT ![c] = res]
  /\ UNCHANGED <<writes, history>>

Planned(c) == request[c] # NoRequest /\ unread[c] = {}

\* A conflict is left to a human: nothing is written.
Escalate(c) ==
  /\ Planned(c)
  /\ Escalated(seen[c], request[c].strategy) # {}
  /\ UNCHANGED db
  /\ Return(c, "escalated")

\* The transaction only writes, so other writers see it as one step.
Apply(c) ==
  /\ Planned(c)
  /\ Escalated(seen[c], request[c].strategy) = {}
  /\ db' = [db EXCEPT ![request[c].source] =
              Outcome(seen[c], request[c].strategy, @)]
  /\ Return(c, "success")

\* An error of a read, of the connection or of the transaction, or a dropped
\* call: a transaction that did not commit is rolled back.
Fail(c) ==
  /\ request[c] # NoRequest
  /\ UNCHANGED db
  /\ Return(c, "error")

\* An agent writes or deletes a row of a branch, through a pool of its own.
Write(b, e, row) ==
  /\ writes < MaxWrites
  /\ row # db[b][e]
  /\ db' = [db EXCEPT ![b][e] = row]
  /\ writes' = writes + 1
  /\ UNCHANGED <<call, history>>

Next ==
  \/ \E c \in Clients :
       \/ \E r \in Requests : Begin(c, r)
       \/ \E r \in Reads : Read(c, r)
       \/ Escalate(c)
       \/ Apply(c)
       \/ Fail(c)
  \/ \E b \in Branches, e \in Entities, row \in Rows \cup {Absent} : Write(b, e, row)

Spec == Init /\ [][Next]_vars

-----------------------------------------------------------------------------
(* Properties.                                                             *)

\* Every variable has its type, a client without a call holds nothing of an
\* earlier one, and a merge that has read everything still has its request.
TypeOK ==
  /\ db \in [Branches -> Databases]
  /\ request \in [Clients -> Requests \cup {NoRequest}]
  /\ unread \in [Clients -> SUBSET Reads]
  /\ seen \in [Clients -> [Views -> Databases]]
  /\ result \in [Clients -> Results]
  /\ writes \in Nat
  /\ first \in [Branches -> Databases]
  /\ asked \subseteq Requests
  /\ calls \in Nat
  /\ \A c \in Clients : request[c] = NoRequest => unread[c] = {} /\ seen[c] = Blank

Quiet == UNCHANGED writes   \* the step is not an agent's

\* c commits its plan in this step.
Commits(c) == Planned(c) /\ request'[c] = NoRequest /\ result'[c] = "success"

\* However agents and other merges interleave with it, a merge changes only rows
\* that it found changed between the base and the target, and only in the two
\* branches it is about: a concurrent write to any other row survives.
LandsTheirChanges ==
  \A b \in Branches, e \in Entities :
    Quiet /\ db'[b][e] # db[b][e] =>
      \E c \in Clients : /\ Commits(c)
                        /\ b \in {request[c].source, request[c].target}
                        /\ e \in TheirsChanged(seen[c])

OnlyTheirChangesLand == [][LandsTheirChanges]_vars

\* Column f of a row, if there is a row.
Column(row, f) == IF row = Absent THEN Absent ELSE row[f]

\* A merge commits only when no conflict it found is left to a human; a field
\* in conflict under "theirs" then has the target's value; and where all the
\* conflicts of a row are under "ours", the fields in conflict keep what is in them.
FollowsStrategy(s, strategy, ours) ==
  \A e \in Entities, f \in Fields : f \in Conflicts(s, e) =>
    /\ strategy[f] # "manual"
    /\ strategy[f] = "theirs" => Column(db'[ours][e], f) = s["theirs"][e][f]
    /\ (\A g \in Conflicts(s, e) : strategy[g] = "ours")
         => Column(db'[ours][e], f) = Column(db[ours][e], f)

ConflictsFollowStrategy ==
  [][\A c \in Clients : Commits(c) =>
       FollowsStrategy(seen[c], request[c].strategy, request[c].source)]_vars

\* Ids are unique across the entity types.
IdsUnique == \A e, q \in Entities : e[2] = q[2] => e = q

\* Retried or raced, the same merge has the effect of one: as long as only
\* calls of one merge write, the databases are the first ones or those that one
\* undisturbed merge leaves, and the latter once a call has succeeded.
MergeOnce ==
  \A r \in Requests :
    IdsUnique /\ asked = {r} /\ writes = 0 =>
      /\ db \in {first, AfterMerge(first, r)}
      /\ (\E c \in Clients : result[c] = "success") => db = AfterMerge(first, r)

-----------------------------------------------------------------------------
(* What the documents say of merge, and the code does not do.              *)

\* What c has read is what is in the databases.
Undisturbed(c) == seen[c] = Sight(db, request[c])

\* "Performs a three-way merge of theirs into ours using base as the common
\* ancestor", "auto-merge if disjoint": a row that only the target changed is the
\* target's row afterwards; of a row that both changed, a field that only the target
\* changed has the target's value, one that it did not change has the source's, and
\* a conflict has what the strategy of that field says ("Scalars: theirs wins" is
\* what the resolver says of a union).
RowsMerged ==
  [][\A c \in Clients : Commits(c) /\ Undisturbed(c) =>
       LET r      == request[c]
           base   == db[MergeBase(r)]
           ours   == db[r.source]
           theirs == db[r.target]
           merged == db'[r.source] IN
       \A e \in Changed(base, theirs) :
         /\ e \notin Changed(base, ours) => merged[e] = theirs[e]
         /\ e \in Changed(base, ours) /\ Absent \notin {base[e], ours[e], theirs[e]} =>
              \A f \in Fields :
                LET byOurs   == ours[e][f] # base[e][f]
                    byTheirs == theirs[e][f] # base[e][f]
                    winner   == IF byOurs /\ byTheirs THEN r.strategy[f]
                                ELSE IF byTheirs THEN "theirs" ELSE "ours" IN
                /\ winner = "ours" => Column(merged[e], f) = ours[e][f]
                /\ winner = "theirs" => Column(merged[e], f) = theirs[e][f]
                /\ winner = "union" /\ Null \notin {ours[e][f], theirs[e][f]} =>
                     Column(merged[e], f) = theirs[e][f]]_vars

\* "Merges source into target", in an "atomic write transaction in target branch":
\* a merge writes to its target and leaves every other branch as it is.
WritesTargetOnly ==
  [][\A c \in Clients : Commits(c) =>
       \A b \in Branches \ {request[c].target} : db'[b] = db[b]]_vars
=============================================================================
