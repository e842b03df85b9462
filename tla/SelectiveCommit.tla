-------------------------- MODULE SelectiveCommit --------------------------
(***************************************************************************)
(* BranchEngine::commit, cherry_pick and commit_to_trunk: selected rows of *)
(* one branch database are written to another in one transaction, and the  *)
(* commit is recorded in the registry's log afterwards.                    *)
(*                                                                         *)
(* The call judges the rows of the two branches and the listed ids first,  *)
(* then reads the source one table at a time.  A selection with a field    *)
(* filter also reads the target, and it does so through the pool: not      *)
(* inside the transaction, whose own writes it does not see.  Agents,      *)
(* other commits and status changes come in between.                       *)
(***************************************************************************)
EXTENDS Naturals, Sequences

CONSTANTS
  Branches,    \* branch ids
  EntityTypes, \* the entity types
  Entities,    \* the rows that may occur, <<type, id>>
  Tables,      \* the entity tables each branch database has
  Fields,      \* the columns other than id; all are nullable
  Values,      \* the values of a column other than NULL
  Null,        \* NULL
  Absent,      \* no row with that id
  Whole,       \* a selection without a field filter
  Clients,     \* tasks that call commit
  NoClient,    \* no transaction has written the database
  Cherries,    \* the cherry-picks they ask for
  MaxCalls,    \* bound on the calls of commit
  MaxChanges   \* bound on the writes of agents and the changes of a status

Statuses == {"active", "dormant", "archived", "discarded"}

Rows      == [Fields -> Values \cup {Null}]
NullRow   == [f \in Fields |-> Null]
Databases == [Entities -> Rows \cup {Absent}]

\* All ids of a type when none is listed; all fields when there is no filter.
Selection == [type : EntityTypes, listed : SUBSET Entities,
              fields : {Whole} \cup SUBSET Fields]

CherryPick == [source : Branches, target : Branches, selections : Seq(Selection)]

ASSUME CommitAssumption ==
  /\ Entities \subseteq EntityTypes \X {e[2] : e \in Entities}
  /\ Tables \in [Branches -> SUBSET EntityTypes]
  /\ Null \notin Values
  /\ Absent \notin Rows
  /\ \A fields \in SUBSET Fields : Whole # fields
  /\ NoClient \notin Clients
  /\ Cherries \subseteq CherryPick
  /\ \A r \in Cherries : \A i \in DOMAIN r.selections :
       \A e \in r.selections[i].listed : e[1] = r.selections[i].type
  /\ MaxCalls \in Nat
  /\ MaxChanges \in Nat

NoCherry == [source |-> NoClient]

\* CommitResult, CommitValidationFailed, or any other error; none before the
\* call has returned, or when it was dropped with its log entry written.
Results == {"none", "success", "rejected", "error"}

VARIABLES
  db,         \* the database of each branch
  status,     \* branches.status
  log,        \* branch_commits: the entries of each branch, oldest first
  writer,     \* the client whose transaction has written a database
  pc,         \* the await at which each client is parked
  cherry,     \* the cherry-pick it has under way, or NoCherry
  unchecked,  \* validator: listed ids still to look up in the source
  current,    \* position of the selection at work
  seen,       \* the table of the source that selection read
  todo,       \* its entities still to upsert
  base,       \* the entity and the target's row a filter is merged into
  staged,     \* the upserts of the open transaction
  result,     \* what the last call of each client returned
  calls,      \* history: the number of calls, to bound them
  changes,    \* history: the number of other changes, to bound them
  first,      \* history: the databases as they were at the start
  asked,      \* history: the cherry-picks ever asked for
  held,       \* history: every row each branch has held
  marks       \* history: the transactions and log entries of the last call

stores  == <<db, status, log, writer>>
locals  == <<pc, cherry, unchecked, current, seen, todo, base, staged>>
history == <<calls, changes, first, asked, held, marks>>
vars    == <<stores, locals, result, history>>

-----------------------------------------------------------------------------
(* Cherry-picks: the constructors of cherry.rs and of commit_all.          *)

AllOfType(t) == [type |-> t, listed |-> {}, fields |-> Whole]

SpecificEntities(t, ids) == [type |-> t, listed |-> {t} \X ids, fields |-> Whole]

SpecificFields(selection, fields) == [selection EXCEPT !.fields = fields]

CommitAll(source, target, types) ==
  [source |-> source, target |-> target,
   selections |-> [i \in DOMAIN types |-> AllOfType(types[i])]]

\* The ids the validator looks up: those listed, of a type the source has, by a
\* selection whose table it has found.
Listed(r, found) ==
  {e \in Entities : \E i \in found :
      e \in r.selections[i].listed /\ e[1] \in Tables[r.source]}

OfType(t) == {e \in Entities : e[1] = t}

\* The entities a selection goes through, given the table of the source.
Processed(s, table) ==
  IF s.listed = {} THEN {e \in OfType(s.type) : table[e] # Absent} ELSE s.listed

Keeps(s, f) == s.fields = Whole \/ f \in s.fields   \* the filter lets field f through

\* Mutant: the row has the fields of the filter and no others.
FilteredPartial(s, row, old) == [f \in {h \in Fields : Keeps(s, h)} |-> row[f]]

\* Mutant: the fields outside the filter are set to NULL.
FilteredDropping(s, row, old) == [f \in Fields |-> IF Keeps(s, f) THEN row[f] ELSE Null]

\* The row the selection writes over the target's old one.
Filtered(s, row, old) == [f \in Fields |-> IF Keeps(s, f) THEN row[f] ELSE old[f]]

\* Database d with the rows of a transaction in place.
Upserted(d, rows) == [e \in Entities |-> IF rows[e] # Absent THEN rows[e] ELSE d[e]]

Blank == [e \in Entities |-> Absent]

-----------------------------------------------------------------------------
Init ==
  /\ db \in [Branches -> Databases]
  /\ \A b \in Branches, e \in Entities : e[1] \notin Tables[b] => db[b][e] = Absent
  /\ status = [b \in Branches |-> "active"]
  /\ log = [b \in Branches |-> <<>>]
  /\ writer = [b \in Branches |-> NoClient]
  /\ pc = [c \in Clients |-> "idle"]
  /\ cherry = [c \in Clients |-> NoCherry]
  /\ unchecked = [c \in Clients |-> {}]
  /\ current = [c \in Clients |-> 0]
  /\ seen = [c \in Clients |-> Blank]
  /\ todo = [c \in Clients |-> {}]
  /\ base = [c \in Clients |-> <<>>]
  /\ staged = [c \in Clients |-> Blank]
  /\ result = [c \in Clients |-> "none"]
  /\ calls = 0
  /\ changes = 0
  /\ first = db
  /\ asked = {}
  /\ held = [b \in Branches |-> [e \in Entities |-> {db[b][e]}]]
  /\ marks = [c \in Clients |-> <<0, 0>>]

SelectionOf(c) == cherry[c].selections[current[c]]
LastDone(c)    == current[c] > Len(cherry[c].selections)

\* The call of c returns; a transaction that did not commit is rolled back.
Return(c, res) ==
  /\ pc' = [pc EXCEPT ![c] = "idle"]
  /\ cherry' = [cherry EXCEPT ![c] = NoCherry]
  /\ unchecked' = [unchecked EXCEPT ![c] = {}]
  /\ current' = [current EXCEPT ![c] = 0]
  /\ seen' = [seen EXCEPT ![c] = Blank]
  /\ todo' = [todo EXCEPT ![c] = {}]
  /\ base' = [base EXCEPT ![c] = <<>>]
  /\ staged' = [staged EXCEPT ![c] = Blank]
  /\ result' = [result EXCEPT ![c] = res]

Release(c) == writer' = [b \in Branches |-> IF writer[b] = c THEN NoClient ELSE writer[b]]

\* The rows of both branches are read and their pools opened.
Begin(c, r) ==
  /\ calls < MaxCalls
  /\ pc[c] = "idle"
  /\ pc' = [pc EXCEPT ![c] = "source"]
  /\ cherry' = [cherry EXCEPT ![c] = r]
  /\ result' = [result EXCEPT ![c] = "none"]
  /\ calls' = calls + 1
  /\ asked' = asked \cup {r}
  /\ marks' = [marks EXCEPT ![c] = <<0, 0>>]
  /\ UNCHANGED <<stores, unchecked, current, seen, todo, base, staged, changes, first, held>>

-----------------------------------------------------------------------------
(* Validation.  One violation is enough to have the call rejected, and the *)
(* checks change nothing, so the first one ends it here.                   *)

CheckSource(c) ==
  /\ pc[c] = "source"
  /\ IF status[cherry[c].source] \in {"active", "dormant"}
       THEN /\ pc' = [pc EXCEPT ![c] = "target"]
            /\ UNCHANGED <<cherry, unchecked, current, seen, todo, base, staged, result>>
       ELSE Return(c, "rejected")
  /\ UNCHANGED <<stores, history>>

\* A lookup of a table that fails counts as no table: the ids are not checked.
CheckTarget(c) ==
  /\ pc[c] = "target"
  /\ IF status[cherry[c].target] = "active"
       THEN /\ pc' = [pc EXCEPT ![c] = "ids"]
            /\ \E found \in SUBSET DOMAIN cherry[c].selections :
                 unchecked' = [unchecked EXCEPT ![c] = Listed(cherry[c], found)]
            /\ UNCHANGED <<cherry, current, seen, todo, base, staged, result>>
       ELSE Return(c, "rejected")
  /\ UNCHANGED <<stores, history>>

\* One query per listed id; one that fails counts as no such row.
CheckId(c) ==
  /\ pc[c] = "ids"
  /\ \E e \in unchecked[c] :
       \/ /\ db[cherry[c].source][e] # Absent
          /\ unchecked' = [unchecked EXCEPT ![c] = @ \ {e}]
          /\ UNCHANGED <<pc, cherry, current, seen, todo, base, staged, result>>
       \/ Return(c, "rejected")
  /\ UNCHANGED <<stores, history>>

\* The report is fine.  BEGIN is deferred: it takes no lock.
BeginTx(c) ==
  /\ pc[c] = "ids" /\ unchecked[c] = {}
  /\ pc' = [pc EXCEPT ![c] = "select"]
  /\ current' = [current EXCEPT ![c] = 1]
  /\ UNCHANGED <<stores, cherry, unchecked, seen, todo, base, staged, result, history>>

-----------------------------------------------------------------------------
(* The transaction.                                                        *)

\* c goes on with the entities rest of its selection, or with the next one.
GoOn(c, table, rest) ==
  /\ todo' = [todo EXCEPT ![c] = rest]
  /\ IF rest = {}
       THEN /\ pc' = [pc EXCEPT ![c] = "select"]
            /\ current' = [current EXCEPT ![c] = @ + 1]
            /\ seen' = [seen EXCEPT ![c] = Blank]
       ELSE /\ pc' = [pc EXCEPT ![c] = "put"]
            /\ seen' = [seen EXCEPT ![c] = table]
            /\ UNCHANGED current

\* What a query of the table of type t in database d returns.
Table(d, t) == [e \in Entities |-> IF e[1] = t THEN d[e] ELSE Absent]

\* Mutant: the source is read under its own write lock.
FetchLocking(c) ==
  /\ pc[c] = "select" /\ ~ LastDone(c)
  /\ writer[cherry[c].source] \in {NoClient, c}
  /\ writer' = [writer EXCEPT ![cherry[c].source] = c]
  /\ LET table == Table(db[cherry[c].source], SelectionOf(c).type)
     IN GoOn(c, table, Processed(SelectionOf(c), table))
  /\ UNCHANGED <<db, status, log, cherry, unchecked, base, staged, result, history>>

\* fetch_all_entities of the source, one query.
Fetch(c) ==
  /\ pc[c] = "select" /\ ~ LastDone(c)
  /\ LET table == Table(db[cherry[c].source], SelectionOf(c).type)
     IN GoOn(c, table, Processed(SelectionOf(c), table))
  /\ UNCHANGED <<stores, cherry, unchecked, base, staged, result, history>>

\* A listed id that is gone by now is passed over.
Skip(c) ==
  /\ pc[c] = "put" /\ base[c] = <<>>
  /\ \E e \in todo[c] : /\ seen[c][e] = Absent
                        /\ GoOn(c, seen[c], todo[c] \ {e})
  /\ UNCHANGED <<stores, cherry, unchecked, base, staged, result, history>>

\* The row a filter is merged into: an empty object when there is none.
Old(row) == IF row = Absent THEN NullRow ELSE row

\* Mutant: the filter is merged into the source's own row.
ReadTargetSource(c) ==
  /\ pc[c] = "put" /\ base[c] = <<>>
  /\ SelectionOf(c).fields # Whole
  /\ \E e \in todo[c] : /\ seen[c][e] # Absent
                        /\ base' = [base EXCEPT ![c] = <<e, Old(db[cherry[c].source][e])>>]
  /\ UNCHANGED <<stores, pc, cherry, unchecked, current, seen, todo, staged, result, history>>

\* With a filter, the target's row is read through the pool.
ReadTarget(c) ==
  /\ pc[c] = "put" /\ base[c] = <<>>
  /\ SelectionOf(c).fields # Whole
  /\ \E e \in todo[c] : /\ seen[c][e] # Absent
                        /\ base' = [base EXCEPT ![c] = <<e, Old(db[cherry[c].target][e])>>]
  /\ UNCHANGED <<stores, pc, cherry, unchecked, current, seen, todo, staged, result, history>>

\* INSERT OR REPLACE of entity e, under the write lock of the target, which
\* the first upsert takes and the end of the transaction gives back.
Upsert(c, e, row) ==
  LET b == cherry[c].target IN
  /\ writer[b] \in {NoClient, c}
  /\ e[1] \in Tables[b]
  /\ writer' = [writer EXCEPT ![b] = c]
  /\ staged' = [staged EXCEPT ![c][e] = row]
  /\ base' = [base EXCEPT ![c] = <<>>]
  /\ GoOn(c, seen[c], todo[c] \ {e})
  /\ UNCHANGED <<db, status, log, cherry, unchecked, result, history>>

PutWhole(c) ==
  /\ pc[c] = "put" /\ SelectionOf(c).fields = Whole
  /\ \E e \in todo[c] : seen[c][e] # Absent /\ Upsert(c, e, seen[c][e])

PutFiltered(c) ==
  /\ pc[c] = "put" /\ base[c] # <<>>
  /\ LET e == base[c][1] IN Upsert(c, e, Filtered(SelectionOf(c), seen[c][e], base[c][2]))

\* An upsert into a table the target does not have ends the call.
NoTable(c) ==
  /\ pc[c] = "put" /\ SelectionOf(c).type \notin Tables[cherry[c].target]
  /\ \E e \in todo[c] : seen[c][e] # Absent
  /\ Release(c)
  /\ Return(c, "error")
  /\ UNCHANGED <<db, status, log, history>>

Hold == held' = [b \in Branches |-> [e \in Entities |-> held[b][e] \cup {db'[b][e]}]]

CommitTx(c) ==
  /\ pc[c] = "select" /\ LastDone(c)
  /\ db' = [db EXCEPT ![cherry[c].target] = Upserted(@, staged[c])]
  /\ Release(c)
  /\ Hold
  /\ marks' = [marks EXCEPT ![c][1] = @ + 1]
  /\ pc' = [pc EXCEPT ![c] = "log"]
  /\ UNCHANGED <<status, log, cherry, unchecked, current, seen, todo, base, staged, result,
                 calls, changes, first, asked>>

\* Mutant: the entry names the ids that were asked for.
LogEntryAsked(c) ==
  [types |-> {cherry[c].selections[i].type : i \in DOMAIN cherry[c].selections \cap {1}},
   ids |-> {e[2] : e \in Listed(cherry[c], DOMAIN cherry[c].selections)}]

\* The entry names the ids of all rows, and the type of the first selection.
LogEntry(c) ==
  [types |-> {cherry[c].selections[i].type : i \in DOMAIN cherry[c].selections \cap {1}},
   ids |-> {e[2] : e \in {d \in Entities : staged[c][d] # Absent}}]

\* Mutant: an error of the log is ignored.
InsertLogIgnored(c) ==
  /\ pc[c] = "log"
  /\ \/ /\ log' = [log EXCEPT ![cherry[c].target] = Append(@, LogEntry(c))]
        /\ marks' = [marks EXCEPT ![c][2] = @ + 1]
     \/ UNCHANGED <<log, marks>>
  /\ Return(c, "success")
  /\ UNCHANGED <<db, status, writer, calls, changes, first, asked, held>>

\* The call may be dropped when the INSERT has run.
InsertLog(c) ==
  /\ pc[c] = "log"
  /\ log' = [log EXCEPT ![cherry[c].target] = Append(@, LogEntry(c))]
  /\ marks' = [marks EXCEPT ![c][2] = @ + 1]
  /\ Return(c, "success") \/ Return(c, "none")
  /\ UNCHANGED <<db, status, writer, calls, changes, first, asked, held>>

\* An error of any await (a missing table, SQLITE_BUSY after the timeout), a
\* dropped call, or a crash: what was committed stays.
Fail(c) ==
  /\ pc[c] # "idle"
  /\ Release(c)
  /\ Return(c, "error")
  /\ UNCHANGED <<db, status, log, history>>

-----------------------------------------------------------------------------
(* The rest of the world.                                                  *)

\* An agent writes or deletes a row, when no transaction has the lock.
Write(b, e, row) ==
  /\ changes < MaxChanges
  /\ writer[b] = NoClient /\ e[1] \in Tables[b]
  /\ row # db[b][e]
  /\ db' = [db EXCEPT ![b][e] = row]
  /\ Hold
  /\ changes' = changes + 1
  /\ UNCHANGED <<status, log, writer, locals, result, calls, first, asked, marks>>

\* activate, deactivate, archive, restore, discard.
SetStatus(b, s) ==
  /\ changes < MaxChanges
  /\ s # status[b] /\ status[b] # "discarded"
  /\ status' = [status EXCEPT ![b] = s]
  /\ changes' = changes + 1
  /\ UNCHANGED <<db, log, writer, locals, result, calls, first, asked, held, marks>>

Validate(c) == CheckSource(c) \/ CheckTarget(c) \/ CheckId(c) \/ BeginTx(c)

Promote(c) ==
  \/ Fetch(c) \/ Skip(c) \/ ReadTarget(c) \/ PutWhole(c) \/ PutFiltered(c)
  \/ NoTable(c) \/ CommitTx(c) \/ InsertLog(c)

Continue(c) == Validate(c) \/ Promote(c)

Next ==
  \/ \E c \in Clients :
       \/ \E r \in Cherries : Begin(c, r)
       \/ Continue(c)
       \/ Fail(c)
  \/ \E b \in Branches, e \in Entities, row \in Rows \cup {Absent} : Write(b, e, row)
  \/ \E b \in Branches, s \in Statuses : SetStatus(b, s)

Spec == Init /\ [][Next]_vars

\* tokio polls every call that can go on; SQLite answers.
FairSpec == Spec /\ \A c \in Clients : WF_vars(Continue(c))

-----------------------------------------------------------------------------
(* Properties.                                                             *)

Labels == {"idle", "source", "target", "ids", "select", "put", "log"}

LogEntries == [types : SUBSET EntityTypes, ids : SUBSET {e[2] : e \in Entities}]

\* Every variable has its type.
TypeOK ==
  /\ db \in [Branches -> Databases]
  /\ status \in [Branches -> Statuses]
  /\ log \in [Branches -> Seq(LogEntries)]
  /\ writer \in [Branches -> Clients \cup {NoClient}]
  /\ pc \in [Clients -> Labels]
  /\ cherry \in [Clients -> Cherries \cup {NoCherry}]
  /\ unchecked \in [Clients -> SUBSET Entities]
  /\ current \in [Clients -> Nat]
  /\ seen \in [Clients -> Databases]
  /\ todo \in [Clients -> SUBSET Entities]
  /\ base \in [Clients -> (Entities \X Rows) \cup {<<>>}]
  /\ staged \in [Clients -> Databases]
  /\ result \in [Clients -> Results]
  /\ calls \in Nat /\ changes \in Nat
  /\ first \in [Branches -> Databases]
  /\ asked \subseteq Cherries
  /\ held \in [Branches -> [Entities -> SUBSET (Rows \cup {Absent})]]
  /\ marks \in [Clients -> Nat \X Nat]

Covers(s, e) == e[1] = s.type /\ (s.listed = {} \/ e \in s.listed)

\* row has the fields that s lets through from new, and the others from old.
Combines(s, row, new, old) ==
  \A f \in Fields : IF s.fields = Whole \/ f \in s.fields THEN row[f] = new[f]
                    ELSE row[f] = IF old = Absent THEN Null ELSE old[f]

\* row is what a selection of r writes over e: its fields from one row that the
\* source has held, the others from one row that the target has held.
Explained(r, e, row) ==
  /\ row # Absent
  /\ \E i \in DOMAIN r.selections :
       /\ Covers(r.selections[i], e)
       /\ \E new \in held[r.source][e] \ {Absent}, old \in held[r.target][e] :
            Combines(r.selections[i], row, new, old)

\* c commits its transaction in this step.
Commits(c) == pc[c] = "select" /\ pc'[c] = "log"

\* However agents and other commits interleave with it, a commit changes only
\* its target, and there only rows it was asked for; it deletes none, and each
\* row it writes consists of the selected fields of one row of the source and
\* the other fields of one row of the target: no torn rows, no lost columns.
LandsSelected ==
  \A b \in Branches, e \in Entities :
    changes' = changes /\ db'[b][e] # db[b][e] =>
      \E c \in Clients : Commits(c) /\ cherry[c].target = b /\ Explained(cherry[c], e, db'[b][e])

OnlySelectedLand == [][LandsSelected]_vars

\* A call that is rejected has neither committed nor logged anything; one that
\* succeeds has done both, once; one that fails may have committed, and then
\* the log misses it, but the log never has an entry that was not committed.
AnswersTruthful ==
  \A c \in Clients :
    /\ result[c] = "success" => marks[c] = <<1, 1>>
    /\ result[c] = "rejected" => marks[c] = <<0, 0>>
    /\ result[c] = "error" => marks[c] \in {<<0, 0>>, <<1, 0>>}

\* Every id in the log of a branch is the id of a row the branch has held.
LogNamesArrivedRows ==
  \A b \in Branches : \A i \in DOMAIN log[b] : \A id \in log[b][i].ids :
    \E e \in Entities : e[2] = id /\ held[b][e] \ {Absent} # {}

\* No row is covered by two selections.
SelectsOnce(r) ==
  \A e \in Entities : \A i, j \in DOMAIN r.selections :
    Covers(r.selections[i], e) /\ Covers(r.selections[j], e) => i = j

\* d is the databases after cherry-pick r, in one step, from the first ones.
Promoted(r, d) ==
  \A b \in Branches, e \in Entities :
    IF b = r.target /\ first[r.source][e] # Absent
         /\ \E i \in DOMAIN r.selections : Covers(r.selections[i], e)
    THEN /\ d[b][e] # Absent
         /\ \E i \in DOMAIN r.selections :
              /\ Covers(r.selections[i], e)
              /\ Combines(r.selections[i], d[b][e], first[r.source][e], first[b][e])
    ELSE d[b][e] = first[b][e]

\* Retried or raced, the same cherry-pick has the effect of one: as long as only
\* calls of one cherry-pick write, the databases are the first ones or those
\* after it, and the latter once a call has succeeded.  This needs a cherry-pick
\* that selects no row twice: of two filters of one row, the second one reads
\* the target outside the transaction and undoes what the first one wrote.
CommitOnce ==
  \A r \in Cherries :
    SelectsOnce(r) /\ asked = {r} /\ changes = 0 =>
      /\ db = first \/ Promoted(r, db)
      /\ (\E c \in Clients : result[c] = "success") => Promoted(r, db)

\* Calls that write each other's source do not wait for each other for ever:
\* every call of commit returns, without help from a timeout.
CallsReturn == \A c \in Clients : pc[c] # "idle" ~> pc[c] = "idle"
=============================================================================
