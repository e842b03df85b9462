----------------------- MODULE SelectiveCommit_proofs -----------------------
(***************************************************************************)
(* Proofs about SelectiveCommit, for any branches, schema, cherry-picks    *)
(* and number of clients, calls and changes.                               *)
(***************************************************************************)
EXTENDS SelectiveCommit, TLAPS

Early == {"idle", "source", "target", "ids"}

\* What a call holds, by the await at which it is parked.
Locals(c) ==
  /\ pc[c] # "idle" => cherry[c] \in asked /\ result[c] = "none"
  /\ pc[c] # "put" => seen[c] = Blank /\ base[c] = <<>>
  /\ pc[c] \in Early => staged[c] = Blank
  /\ pc[c] = "select" => current[c] # 0
  /\ pc[c] = "put" => /\ current[c] \in DOMAIN cherry[c].selections
                      /\ \A e \in todo[c] : Covers(SelectionOf(c), e)
  /\ base[c] # <<>> => base[c][1] \in todo[c] /\ seen[c][base[c][1]] # Absent

\* The answers, and what they rest on: how far the call under way has come.
Marked(c) ==
  /\ result[c] = "success" => marks[c] = <<1, 1>>
  /\ result[c] = "rejected" => marks[c] = <<0, 0>>
  /\ result[c] = "error" => marks[c] \in {<<0, 0>>, <<1, 0>>}
  /\ pc[c] \in {"source", "target", "ids", "select", "put"} => marks[c] = <<0, 0>>
  /\ pc[c] = "log" => marks[c] = <<1, 0>>

\* What a call has read are rows that the branches have held, and what it is about
\* to write is made from such rows.
Origins(c) ==
  /\ \A e \in Entities : seen[c][e] # Absent => seen[c][e] \in held[cherry[c].source][e]
  /\ base[c] # <<>> =>
       \E row \in held[cherry[c].target][base[c][1]] : base[c][2] = Old(row)
  /\ pc[c] # "idle" => \A e \in Entities :
       staged[c][e] # Absent => Explained(cherry[c], e, staged[c][e])
  /\ pc[c] = "log" => \A e \in Entities :
       staged[c][e] # Absent => staged[c][e] \in held[cherry[c].target][e]

\* The histories hold what the databases hold.
HeldNow == \A b \in Branches, e \in Entities : db[b][e] \in held[b][e]

CommitInv ==
  /\ TypeOK
  /\ HeldNow
  /\ LogNamesArrivedRows
  /\ \A c \in Clients : Locals(c) /\ Marked(c) /\ Origins(c)

-----------------------------------------------------------------------------
(* Cherry-picks and rows.                                                  *)

LEMMA SelectionTypes ==
  ASSUME NEW r \in Cherries
  PROVE  /\ r.source \in Branches /\ r.target \in Branches
         /\ Len(r.selections) \in Nat /\ DOMAIN r.selections = 1..Len(r.selections)
         /\ \A i \in DOMAIN r.selections :
              /\ r.selections[i] \in Selection
              /\ r.selections[i].type \in EntityTypes
              /\ r.selections[i].listed \subseteq Entities
              /\ r.selections[i].fields \in {Whole} \cup SUBSET Fields
              /\ \A e \in r.selections[i].listed : e[1] = r.selections[i].type
<1>1. r \in CherryPick
  BY CommitAssumption
<1>2. r.selections \in Seq(Selection)
  BY <1>1 DEF CherryPick
<1>3. \A i \in DOMAIN r.selections : r.selections[i] \in Selection
  BY <1>2
<1> QED
  BY <1>1, <1>2, <1>3, CommitAssumption DEF CherryPick, Selection

LEMMA BlankType == Blank \in Databases
BY DEF Blank, Databases

LEMMA RowTypes ==
  ASSUME NEW s, NEW row \in Rows, NEW old \in Rows \cup {Absent}
  PROVE  /\ Old(old) \in Rows
         /\ Filtered(s, row, Old(old)) \in Rows
         /\ Absent \notin Rows
<1>1. NullRow \in Rows /\ Absent \notin Rows
  BY CommitAssumption DEF NullRow, Rows
<1>2. Old(old) \in Rows
  BY <1>1 DEF Old
<1>3. Filtered(s, row, Old(old)) \in Rows
  BY <1>2 DEF Filtered, Rows
<1> QED
  BY <1>1, <1>2, <1>3

LEMMA TableType ==
  ASSUME NEW d \in Databases, NEW t
  PROVE  /\ Table(d, t) \in Databases
         /\ \A e \in Entities : Table(d, t)[e] # Absent => Table(d, t)[e] = d[e] /\ e[1] = t
BY DEF Table, Databases

LEMMA ProcessedType ==
  ASSUME NEW r \in Cherries, NEW i \in DOMAIN r.selections, NEW table \in Databases
  PROVE  /\ Processed(r.selections[i], table) \subseteq Entities
         /\ \A e \in Processed(r.selections[i], table) : Covers(r.selections[i], e)
BY SelectionTypes DEF Processed, OfType, Covers

LEMMA UpsertedType ==
  ASSUME NEW d \in Databases, NEW rows \in Databases
  PROVE  Upserted(d, rows) \in Databases
BY DEF Upserted, Databases

-----------------------------------------------------------------------------
(* Types.                                                                  *)

LEMMA ReturnTypes ==
  ASSUME TypeOK, NEW c \in Clients, NEW res \in Results, Return(c, res)
  PROVE  /\ pc' \in [Clients -> Labels]
         /\ cherry' \in [Clients -> Cherries \cup {NoCherry}]
         /\ unchecked' \in [Clients -> SUBSET Entities]
         /\ current' \in [Clients -> Nat]
         /\ seen' \in [Clients -> Databases]
         /\ todo' \in [Clients -> SUBSET Entities]
         /\ base' \in [Clients -> (Entities \X Rows) \cup {<<>>}]
         /\ staged' \in [Clients -> Databases]
         /\ result' \in [Clients -> Results]
BY BlankType DEF TypeOK, Return, Labels

LEMMA GoOnTypes ==
  ASSUME TypeOK, NEW c \in Clients, NEW table \in Databases, NEW rest \in SUBSET Entities,
         GoOn(c, table, rest)
  PROVE  /\ pc' \in [Clients -> Labels]
         /\ current' \in [Clients -> Nat]
         /\ seen' \in [Clients -> Databases]
         /\ todo' \in [Clients -> SUBSET Entities]
<1>1. CASE rest = {}
  <2>1. /\ todo' = [todo EXCEPT ![c] = rest] /\ pc' = [pc EXCEPT ![c] = "select"]
        /\ current' = [current EXCEPT ![c] = current[c] + 1]
        /\ seen' = [seen EXCEPT ![c] = Blank]
    BY <1>1 DEF GoOn
  <2>2. current[c] + 1 \in Nat
    BY DEF TypeOK
  <2> QED
    BY <2>1, <2>2, BlankType DEF TypeOK, Labels
<1>2. CASE rest # {}
  BY <1>2 DEF TypeOK, GoOn, Labels
<1> QED
  BY <1>1, <1>2

LEMMA ReleaseTypes ==
  ASSUME TypeOK, NEW c \in Clients, Release(c)
  PROVE  writer' \in [Branches -> Clients \cup {NoClient}]
BY DEF TypeOK, Release

LEMMA HoldTypes ==
  ASSUME TypeOK, db' \in [Branches -> Databases], Hold
  PROVE  held' \in [Branches -> [Entities -> SUBSET (Rows \cup {Absent})]]
BY DEF TypeOK, Hold, Databases

\* A mark is a pair of numbers.
LEMMA MarkCommitted ==
  ASSUME TypeOK, NEW c \in Clients, marks' = [marks EXCEPT ![c][1] = @ + 1]
  PROVE  /\ marks' \in [Clients -> Nat \X Nat]
         /\ \A d \in Clients \ {c} : marks'[d] = marks[d]
         /\ marks'[c] = <<marks[c][1] + 1, marks[c][2]>>
<1>1. marks[c] \in Nat \X Nat
  BY DEF TypeOK
<1>2. [marks[c] EXCEPT ![1] = @ + 1] = <<marks[c][1] + 1, marks[c][2]>>
  BY <1>1
<1>3. marks' = [marks EXCEPT ![c] = [marks[c] EXCEPT ![1] = @ + 1]]
  BY DEF TypeOK
<1> QED
  BY <1>1, <1>2, <1>3 DEF TypeOK

LEMMA MarkLogged ==
  ASSUME TypeOK, NEW c \in Clients, marks' = [marks EXCEPT ![c][2] = @ + 1]
  PROVE  /\ marks' \in [Clients -> Nat \X Nat]
         /\ \A d \in Clients \ {c} : marks'[d] = marks[d]
         /\ marks'[c] = <<marks[c][1], marks[c][2] + 1>>
<1>1. marks[c] \in Nat \X Nat
  BY DEF TypeOK
<1>2. [marks[c] EXCEPT ![2] = @ + 1] = <<marks[c][1], marks[c][2] + 1>>
  BY <1>1
<1>3. marks' = [marks EXCEPT ![c] = [marks[c] EXCEPT ![2] = @ + 1]]
  BY DEF TypeOK
<1> QED
  BY <1>1, <1>2, <1>3 DEF TypeOK

LEMMA LogTypes ==
  ASSUME TypeOK, NEW c \in Clients, cherry[c] \in Cherries
  PROVE  LogEntry(c) \in LogEntries
BY SelectionTypes DEF LogEntry, LogEntries

LEMMA TypeStep ==
  ASSUME CommitInv, [Next]_vars
  PROVE  TypeOK'
<1> USE DEF CommitInv, stores, locals, history
<1>1. ASSUME NEW c \in Clients, pc[c] # "idle"
      PROVE  /\ cherry[c] \in Cherries
             /\ pc[c] = "put" => SelectionOf(c) \in Selection
  BY <1>1, SelectionTypes DEF Locals, TypeOK, SelectionOf
<1>2. ASSUME NEW c \in Clients, NEW r \in Cherries, Begin(c, r) PROVE TypeOK'
  BY <1>2 DEF TypeOK, Begin, Labels, Results
<1>3. ASSUME NEW c \in Clients, Validate(c) PROVE TypeOK'
  <2>0. ASSUME Return(c, "rejected"), UNCHANGED <<stores, history>> PROVE TypeOK'
    BY <2>0, ReturnTypes DEF TypeOK, Results
  <2>1. CASE CheckSource(c)
    <3>1. CASE status[cherry[c].source] \in {"active", "dormant"}
      BY <2>1, <3>1 DEF CheckSource, TypeOK, Labels
    <3>2. CASE ~ status[cherry[c].source] \in {"active", "dormant"}
      BY <2>0, <2>1, <3>2 DEF CheckSource
    <3> QED
      BY <3>1, <3>2
  <2>2. CASE CheckTarget(c)
    <3>1. CASE status[cherry[c].target] = "active"
      <4>1. unchecked' \in [Clients -> SUBSET Entities]
        <5>1. PICK found \in SUBSET DOMAIN cherry[c].selections :
                unchecked' = [unchecked EXCEPT ![c] = Listed(cherry[c], found)]
          BY <2>2, <3>1 DEF CheckTarget
        <5>2. Listed(cherry[c], found) \in SUBSET Entities
          BY DEF Listed
        <5> QED
          BY <5>1, <5>2 DEF TypeOK
      <4>2. pc' \in [Clients -> Labels]
        <5>1. pc' = [pc EXCEPT ![c] = "ids"]
          BY <2>2, <3>1, Zenon DEF CheckTarget
        <5> QED
          BY <5>1 DEF TypeOK, Labels
      <4>3. UNCHANGED <<stores, history>>
        BY <2>2 DEF CheckTarget
      <4>4. UNCHANGED <<cherry, current, seen, todo, base, staged, result>>
        BY <2>2, <3>1, Zenon DEF CheckTarget
      <4> QED
        BY <4>1, <4>2, <4>3, <4>4 DEF TypeOK
    <3>2. CASE status[cherry[c].target] # "active"
      BY <2>0, <2>2, <3>2 DEF CheckTarget
    <3> QED
      BY <3>1, <3>2
  <2>3. CASE CheckId(c)
    <3>1. ASSUME NEW e \in unchecked[c], unchecked' = [unchecked EXCEPT ![c] = @ \ {e}],
                 UNCHANGED <<pc, cherry, current, seen, todo, base, staged, result>>,
                 UNCHANGED <<stores, history>>
          PROVE  TypeOK'
      <4>1. unchecked[c] \ {e} \in SUBSET Entities
        BY DEF TypeOK
      <4>2. unchecked' \in [Clients -> SUBSET Entities]
        BY <3>1, <4>1 DEF TypeOK
      <4> QED
        BY <3>1, <4>2 DEF TypeOK
    <3> QED
      BY <2>0, <2>3, <3>1 DEF CheckId
  <2>4. CASE BeginTx(c)
    BY <2>4 DEF BeginTx, TypeOK, Labels
  <2> QED
    BY <1>3, <2>1, <2>2, <2>3, <2>4 DEF Validate
<1>4. ASSUME NEW c \in Clients, Fetch(c) PROVE TypeOK'
  <2>1. cherry[c] \in Cherries /\ current[c] \in DOMAIN cherry[c].selections
    BY <1>1, <1>4, SelectionTypes DEF Fetch, LastDone, Locals, TypeOK
  <2> DEFINE table == Table(db[cherry[c].source], SelectionOf(c).type)
             rest  == Processed(SelectionOf(c), table)
  <2>2. table \in Databases /\ rest \in SUBSET Entities
    BY <2>1, SelectionTypes, TableType, ProcessedType DEF TypeOK, SelectionOf
  <2>3. /\ GoOn(c, table, rest)
        /\ UNCHANGED <<stores, cherry, unchecked, base, staged, result, history>>
    BY <1>4 DEF Fetch
  <2> HIDE DEF table, rest
  <2> QED
    BY <2>2, <2>3, GoOnTypes DEF TypeOK
<1>5. ASSUME NEW c \in Clients, Skip(c) PROVE TypeOK'
  <2>1. PICK e \in todo[c] : GoOn(c, seen[c], todo[c] \ {e})
    BY <1>5 DEF Skip
  <2>2. seen[c] \in Databases /\ todo[c] \ {e} \in SUBSET Entities
    BY DEF TypeOK
  <2> QED
    BY <1>5, <2>1, <2>2, GoOnTypes DEF Skip, TypeOK
<1>6. ASSUME NEW c \in Clients, ReadTarget(c) PROVE TypeOK'
  <2>1. PICK e \in todo[c] : base' = [base EXCEPT ![c] = <<e, Old(db[cherry[c].target][e])>>]
    BY <1>6 DEF ReadTarget
  <2>2. e \in Entities /\ db[cherry[c].target][e] \in Rows \cup {Absent}
    BY <1>1, <1>6, SelectionTypes DEF ReadTarget, TypeOK, Databases
  <2>3. Old(db[cherry[c].target][e]) \in Rows
    BY <2>2 DEF Old, NullRow, Rows
  <2> QED
    BY <1>6, <2>1, <2>2, <2>3 DEF ReadTarget, TypeOK
<1>7. ASSUME NEW c \in Clients, pc[c] # "idle", NEW e \in Entities, NEW row \in Rows,
             Upsert(c, e, row)
      PROVE  TypeOK'
  <2>1. seen[c] \in Databases /\ todo[c] \ {e} \in SUBSET Entities
        /\ GoOn(c, seen[c], todo[c] \ {e})
    BY <1>7 DEF TypeOK, Upsert
  <2>2. writer' \in [Branches -> Clients \cup {NoClient}]
    BY <1>7 DEF TypeOK, Upsert
  <2>3. staged' \in [Clients -> Databases]
    BY <1>7 DEF TypeOK, Upsert, Databases
  <2>4. base' \in [Clients -> (Entities \X Rows) \cup {<<>>}]
    BY <1>7 DEF TypeOK, Upsert
  <2>5. /\ pc' \in [Clients -> Labels] /\ current' \in [Clients -> Nat]
        /\ seen' \in [Clients -> Databases] /\ todo' \in [Clients -> SUBSET Entities]
    BY <2>1, GoOnTypes
  <2>6. UNCHANGED <<db, status, log, cherry, unchecked, result, history>>
    BY <1>7 DEF Upsert
  <2> QED
    BY <2>2, <2>3, <2>4, <2>5, <2>6 DEF TypeOK, history
<1>8. ASSUME NEW c \in Clients, PutWhole(c) PROVE TypeOK'
  <2>1. PICK e \in todo[c] : seen[c][e] # Absent /\ Upsert(c, e, seen[c][e])
    BY <1>8 DEF PutWhole
  <2>2. e \in Entities /\ seen[c][e] \in Rows
    BY <2>1 DEF TypeOK, Databases
  <2> QED
    BY <1>7, <1>8, <2>1, <2>2 DEF PutWhole
<1>9. ASSUME NEW c \in Clients, PutFiltered(c) PROVE TypeOK'
  <2>1. base[c][1] \in Entities /\ base[c][2] \in Rows
    BY <1>9 DEF PutFiltered, TypeOK
  <2>2. seen[c][base[c][1]] \in Rows
    BY <1>9, <2>1 DEF PutFiltered, TypeOK, Databases, Locals
  <2>3. Filtered(SelectionOf(c), seen[c][base[c][1]], base[c][2]) \in Rows
    BY <2>1, <2>2 DEF Filtered, Rows
  <2> QED
    BY <1>7, <1>9, <2>1, <2>3 DEF PutFiltered
<1>10. ASSUME NEW c \in Clients, NoTable(c) \/ Fail(c) PROVE TypeOK'
  BY <1>10, ReturnTypes, ReleaseTypes DEF NoTable, Fail, TypeOK, Results
<1>11. ASSUME NEW c \in Clients, CommitTx(c) PROVE TypeOK'
  <2>1. db' \in [Branches -> Databases]
    BY <1>11, UpsertedType DEF CommitTx, TypeOK
  <2> QED
    BY <1>11, <2>1, ReleaseTypes, HoldTypes, MarkCommitted DEF CommitTx, TypeOK, Labels
<1>12. ASSUME NEW c \in Clients, InsertLog(c) PROVE TypeOK'
  <2>1. log' \in [Branches -> Seq(LogEntries)]
    <3>1. LogEntry(c) \in LogEntries /\ cherry[c].target \in Branches
      BY <1>1, <1>12, LogTypes, SelectionTypes DEF InsertLog
    <3> HIDE DEF CommitInv
    <3> QED
      BY <1>12, <3>1 DEF InsertLog, TypeOK, CommitInv
  <2> QED
    BY <1>12, <2>1, ReturnTypes, MarkLogged DEF InsertLog, TypeOK, Results
<1>13. ASSUME NEW b \in Branches, NEW e \in Entities, NEW row \in Rows \cup {Absent},
              Write(b, e, row)
       PROVE  TypeOK'
  <2>1. db' \in [Branches -> Databases]
    BY <1>13 DEF Write, TypeOK, Databases
  <2> QED
    BY <1>13, <2>1, HoldTypes DEF Write, TypeOK
<1>14. ASSUME NEW b \in Branches, NEW s \in Statuses, SetStatus(b, s) PROVE TypeOK'
  BY <1>14 DEF SetStatus, TypeOK
<1>15. CASE UNCHANGED vars
  BY <1>15 DEF vars, TypeOK
<1> QED
  BY <1>2, <1>3, <1>4, <1>5, <1>6, <1>8, <1>9, <1>10, <1>11, <1>12, <1>13, <1>14, <1>15
     DEF Next, Continue, Promote

-----------------------------------------------------------------------------
(* What is shared: databases, histories and logs.                          *)

HistoriesGrow ==
  /\ \A b \in Branches, e \in Entities : held[b][e] \subseteq held'[b][e]
  /\ asked \subseteq asked'

\* Every client but c is where it was.
OthersKept(c) ==
  \A d \in Clients \ {c} :
    /\ pc'[d] = pc[d] /\ cherry'[d] = cherry[d] /\ current'[d] = current[d]
    /\ seen'[d] = seen[d] /\ todo'[d] = todo[d] /\ base'[d] = base[d]
    /\ staged'[d] = staged[d] /\ result'[d] = result[d] /\ marks'[d] = marks[d]

LEMMA HoldGrows ==
  ASSUME TypeOK, db' \in [Branches -> Databases], Hold, asked \subseteq asked'
  PROVE  HistoriesGrow /\ HeldNow'
BY DEF TypeOK, Hold, HistoriesGrow, HeldNow

LEMMA Logged ==
  ASSUME TypeOK, LogNamesArrivedRows, HistoriesGrow, UNCHANGED log
  PROVE  LogNamesArrivedRows'
<1>1. ASSUME NEW b \in Branches, NEW e \in Entities, held[b][e] \ {Absent} # {}
      PROVE  held'[b][e] \ {Absent} # {}
  BY <1>1 DEF HistoriesGrow
<1> QED
  BY <1>1 DEF LogNamesArrivedRows

LEMMA ExplainedGrows ==
  ASSUME HistoriesGrow, NEW r \in Cherries, NEW e \in Entities, NEW row, Explained(r, e, row)
  PROVE  Explained(r, e, row)'
<1>1. PICK i \in DOMAIN r.selections :
        /\ Covers(r.selections[i], e)
        /\ \E new \in held[r.source][e] \ {Absent}, old \in held[r.target][e] :
             Combines(r.selections[i], row, new, old)
  BY DEF Explained
<1>2. /\ held[r.source][e] \subseteq held'[r.source][e]
      /\ held[r.target][e] \subseteq held'[r.target][e]
  BY SelectionTypes DEF HistoriesGrow
<1> QED
  BY <1>1, <1>2 DEF Explained

ClientInv(c) == Locals(c) /\ Marked(c) /\ Origins(c)

\* What others do leaves a client's part of the invariant alone.
LEMMA Undisturbed ==
  ASSUME CommitInv, HistoriesGrow, NEW c, NEW d \in Clients, d # c, OthersKept(c)
  PROVE  ClientInv(d)'
<1>1. /\ pc'[d] = pc[d] /\ cherry'[d] = cherry[d] /\ current'[d] = current[d]
      /\ seen'[d] = seen[d] /\ todo'[d] = todo[d] /\ base'[d] = base[d]
      /\ staged'[d] = staged[d] /\ result'[d] = result[d] /\ marks'[d] = marks[d]
  BY DEF OthersKept
<1>2. Locals(d) /\ Marked(d) /\ Origins(d)
  BY DEF CommitInv
<1>3. Locals(d)'
  BY <1>1, <1>2 DEF Locals, HistoriesGrow, SelectionOf
<1>4. Marked(d)'
  BY <1>1, <1>2 DEF Marked
<1>5. Origins(d)'
  <2>1. CASE pc[d] = "idle"
    <3>1. seen[d] = Blank /\ base[d] = <<>>
      BY <2>1, <1>2 DEF Locals
    <3> QED
      BY <1>1, <2>1, <3>1 DEF Origins, Blank
  <2>2. CASE pc[d] # "idle"
    <3>1. cherry[d] \in Cherries
      BY <2>2, <1>2 DEF Locals, CommitInv, TypeOK
    <3>2. \A e \in Entities : /\ held[cherry[d].source][e] \subseteq held'[cherry[d].source][e]
                             /\ held[cherry[d].target][e] \subseteq held'[cherry[d].target][e]
      BY <3>1, SelectionTypes DEF HistoriesGrow
    <3>3. \A e \in Entities : seen'[d][e] # Absent => seen'[d][e] \in held'[cherry'[d].source][e]
      BY <1>1, <1>2, <3>2 DEF Origins
    <3>4. base'[d] # <<>> =>
            \E row \in held'[cherry'[d].target][base'[d][1]] : base'[d][2] = Old(row)
      BY <1>1, <1>2, <3>2 DEF Origins, CommitInv, TypeOK
    <3>5. ASSUME NEW e \in Entities, staged[d][e] # Absent
          PROVE  Explained(cherry[d], e, staged[d][e])'
      <4>1. PICK r \in Cherries : r = cherry[d]
        BY <3>1
      <4>2. PICK row : row = staged[d][e]
        OBVIOUS
      <4>3. Explained(r, e, row)
        BY <1>2, <2>2, <3>5, <4>1, <4>2 DEF Origins
      <4>4. Explained(r, e, row)'
        BY <4>3, ExplainedGrows
      <4> QED
        BY <1>1, <4>1, <4>2, <4>4 DEF Explained
    <3>6. pc'[d] = "log" => \A e \in Entities :
            staged'[d][e] # Absent => staged'[d][e] \in held'[cherry'[d].target][e]
      BY <1>1, <1>2, <3>2 DEF Origins
    <3> QED
      BY <1>1, <3>3, <3>4, <3>5, <3>6 DEF Origins
  <2> QED
    BY <2>1, <2>2
<1> QED
  BY <1>3, <1>4, <1>5 DEF ClientInv

LEMMA ReturnLocals ==
  ASSUME TypeOK, NEW c \in Clients, NEW res, Return(c, res)
  PROVE  /\ Locals(c)' /\ Origins(c)'
         /\ pc'[c] = "idle" /\ result'[c] = res
         /\ UNCHANGED marks => OthersKept(c)
<1>1. /\ pc'[c] = "idle" /\ seen'[c] = Blank /\ base'[c] = <<>> /\ staged'[c] = Blank
      /\ result'[c] = res
  BY DEF Return, TypeOK
<1>2. Locals(c)' /\ Origins(c)'
  BY <1>1 DEF Locals, Origins, Blank, Early
<1>3. UNCHANGED marks => OthersKept(c)
  BY DEF OthersKept, Return, TypeOK
<1> QED
  BY <1>1, <1>2, <1>3

LEMMA GoOnLocals ==
  ASSUME CommitInv, NEW c \in Clients, NEW table \in Databases, NEW rest \in SUBSET Entities,
         GoOn(c, table, rest), pc[c] \in {"select", "put"}, base'[c] = <<>>,
         current[c] \in DOMAIN cherry[c].selections,
         \A e \in rest : Covers(SelectionOf(c), e),
         UNCHANGED <<cherry, result, marks, asked>>
  PROVE  /\ Locals(c)' /\ Marked(c)' /\ pc'[c] \in {"select", "put"}
         /\ \A e \in Entities : seen'[c][e] # Absent => seen'[c][e] = table[e]
<1>1. /\ \/ pc'[c] = "select" /\ current'[c] = current[c] + 1 /\ seen'[c] = Blank
         \/ pc'[c] = "put" /\ current'[c] = current[c] /\ seen'[c] = table
      /\ todo'[c] = rest /\ current[c] \in Nat
  BY DEF GoOn, CommitInv, TypeOK
<1>2. Locals(c)'
  BY <1>1 DEF Locals, Early, CommitInv, SelectionOf
<1>3. Marked(c)'
  BY <1>1 DEF Marked, CommitInv
<1> QED
  BY <1>1, <1>2, <1>3 DEF Blank

-----------------------------------------------------------------------------
(* The steps of a call.                                                    *)

ClientStep(c) ==
  HistoriesGrow /\ HeldNow' /\ LogNamesArrivedRows' /\ OthersKept(c) /\ ClientInv(c)'

LEMMA NothingShared ==
  ASSUME CommitInv, UNCHANGED <<db, log, held>>, asked \subseteq asked'
  PROVE  HistoriesGrow /\ HeldNow' /\ LogNamesArrivedRows'
BY DEF CommitInv, HistoriesGrow, HeldNow, LogNamesArrivedRows

\* A call that returns without having committed or logged anything in this step.
LEMMA ReturnStep ==
  ASSUME CommitInv, NEW c \in Clients, NEW res \in {"rejected", "error"}, Return(c, res),
         UNCHANGED <<db, log, history>>,
         res = "rejected" => marks[c] = <<0, 0>>, pc[c] # "idle"
  PROVE  ClientStep(c)
<1>1. HistoriesGrow /\ HeldNow' /\ LogNamesArrivedRows'
  BY NothingShared DEF history
<1>2. Locals(c)' /\ Origins(c)' /\ pc'[c] = "idle" /\ result'[c] = res /\ OthersKept(c)
  BY ReturnLocals DEF CommitInv, history
<1>3. marks[c] \in {<<0, 0>>, <<1, 0>>}
  BY DEF CommitInv, Marked, TypeOK, Labels
<1>4. Marked(c)'
  BY <1>2, <1>3 DEF Marked, history
<1> QED
  BY <1>1, <1>2, <1>4 DEF ClientStep, ClientInv

LEMMA StagedKept ==
  ASSUME CommitInv, NEW c \in Clients, pc[c] # "idle", UNCHANGED <<held, cherry, staged>>,
         NEW e \in Entities, staged'[c][e] # Absent
  PROVE  Explained(cherry[c], e, staged[c][e])'
BY DEF CommitInv, Origins, Explained

LEMMA BeginStep ==
  ASSUME CommitInv, NEW c \in Clients, NEW r \in Cherries, Begin(c, r)
  PROVE  ClientStep(c)
<1> USE DEF Begin, stores, CommitInv
<1>1. HistoriesGrow /\ HeldNow' /\ LogNamesArrivedRows'
  BY NothingShared
<1>2. OthersKept(c)
  BY DEF OthersKept, TypeOK
<1>3. /\ pc'[c] = "source" /\ cherry'[c] = r /\ r \in asked' /\ result'[c] = "none"
      /\ seen'[c] = Blank /\ base'[c] = <<>> /\ staged'[c] = Blank /\ marks'[c] = <<0, 0>>
  BY DEF TypeOK, Locals, Early
<1>4. Locals(c)' /\ Marked(c)' /\ Origins(c)'
  BY <1>3 DEF Locals, Marked, Origins, Early, Blank
<1> QED
  BY <1>1, <1>2, <1>4 DEF ClientStep, ClientInv

\* A call that goes on validating.
LEMMA EarlyStep ==
  ASSUME CommitInv, NEW c \in Clients,
         NEW label \in {"target", "ids", "select"}, pc[c] \in {"source", "target", "ids"},
         pc' = [pc EXCEPT ![c] = label], current' = [current EXCEPT ![c] = current'[c]],
         label = "select" => current'[c] = 1,
         UNCHANGED <<stores, cherry, seen, todo, base, staged, result, history>>
  PROVE  ClientStep(c)
<1> USE DEF stores, history, CommitInv
<1>1. HistoriesGrow /\ HeldNow' /\ LogNamesArrivedRows'
  BY NothingShared
<1>2. OthersKept(c)
  BY DEF OthersKept, TypeOK
<1>3. /\ pc'[c] = label /\ cherry[c] \in asked /\ result[c] = "none"
      /\ seen[c] = Blank /\ base[c] = <<>> /\ staged[c] = Blank /\ marks[c] = <<0, 0>>
  BY DEF TypeOK, Locals, Early, Marked
<1>4. Locals(c)' /\ Marked(c)' /\ Origins(c)'
  BY <1>3 DEF Locals, Marked, Origins, Early, Blank
<1> QED
  BY <1>1, <1>2, <1>4 DEF ClientStep, ClientInv

LEMMA ValidateStep ==
  ASSUME CommitInv, NEW c \in Clients, Validate(c)
  PROVE  ClientStep(c)
<1>1. ASSUME Return(c, "rejected"), UNCHANGED <<stores, history>>,
             pc[c] \in {"source", "target", "ids"}
      PROVE  ClientStep(c)
  BY <1>1, ReturnStep DEF stores, CommitInv, Marked
<1>2. CASE CheckSource(c)
  <2>1. CASE status[cherry[c].source] \in {"active", "dormant"}
    BY <1>2, <2>1, EarlyStep DEF CheckSource, CommitInv, TypeOK
  <2>2. CASE ~ status[cherry[c].source] \in {"active", "dormant"}
    BY <1>1, <1>2, <2>2 DEF CheckSource
  <2> QED
    BY <2>1, <2>2
<1>3. CASE CheckTarget(c)
  <2>1. CASE status[cherry[c].target] = "active"
    BY <1>3, <2>1, EarlyStep DEF CheckTarget, CommitInv, TypeOK
  <2>2. CASE status[cherry[c].target] # "active"
    BY <1>1, <1>3, <2>2 DEF CheckTarget
  <2> QED
    BY <2>1, <2>2
<1>4. CASE CheckId(c)
  <2>1. CASE UNCHANGED <<pc, cherry, current, seen, todo, base, staged, result>>
    <3>1. /\ pc' = [pc EXCEPT ![c] = "ids"] /\ current' = [current EXCEPT ![c] = current'[c]]
          /\ UNCHANGED <<stores, cherry, seen, todo, base, staged, result, history>>
      BY <1>4, <2>1 DEF CheckId, CommitInv, TypeOK
    <3> QED
      BY <1>4, <3>1, EarlyStep DEF CheckId
  <2>2. CASE Return(c, "rejected")
    BY <1>1, <1>4, <2>2 DEF CheckId
  <2> QED
    BY <1>4, <2>1, <2>2 DEF CheckId
<1>5. CASE BeginTx(c)
  BY <1>5, EarlyStep DEF BeginTx, CommitInv, TypeOK
<1> QED
  BY <1>2, <1>3, <1>4, <1>5 DEF Validate

\* A call that goes on to rest, which are entities of its selection, with a table
\* of rows that its source has held.
LEMMA GoOnStep ==
  ASSUME CommitInv, NEW c \in Clients, NEW table \in Databases, NEW rest \in SUBSET Entities,
         GoOn(c, table, rest), pc[c] \in {"select", "put"}, base'[c] = <<>>,
         current[c] \in DOMAIN cherry[c].selections,
         \A e \in rest : Covers(SelectionOf(c), e),
         \A e \in Entities : table[e] # Absent => table[e] \in held[cherry[c].source][e],
         \A d \in Clients \ {c} : base'[d] = base[d] /\ staged'[d] = staged[d],
         \A e \in Entities :
           staged'[c][e] # Absent => Explained(cherry[c], e, staged[c][e])',
         UNCHANGED <<db, log, cherry, result, history>>
  PROVE  ClientStep(c)
<1>1. HistoriesGrow /\ HeldNow' /\ LogNamesArrivedRows'
  BY NothingShared DEF history
<1>2. OthersKept(c)
  BY DEF OthersKept, GoOn, CommitInv, TypeOK, history
<1>3. /\ Locals(c)' /\ Marked(c)' /\ pc'[c] \in {"select", "put"}
      /\ \A e \in Entities : seen'[c][e] # Absent => seen'[c][e] = table[e]
  BY GoOnLocals DEF history
<1>4. Origins(c)'
  BY <1>3 DEF Origins, history
<1> QED
  BY <1>1, <1>2, <1>3, <1>4 DEF ClientStep, ClientInv

\* Where a client is that works on its selections.
Working(c) ==
  /\ cherry[c] \in Cherries /\ current[c] \in DOMAIN cherry[c].selections
  /\ SelectionOf(c) = cherry[c].selections[current[c]]
  /\ cherry[c].source \in Branches /\ cherry[c].target \in Branches
  /\ seen[c] \in Databases /\ todo[c] \in SUBSET Entities
  /\ pc[c] = "put" => \A e \in todo[c] : Covers(SelectionOf(c), e)
  /\ pc[c] = "select" => base[c] = <<>>
  /\ \A e \in Entities : seen[c][e] # Absent => seen[c][e] \in held[cherry[c].source][e]

LEMMA AtSelection ==
  ASSUME CommitInv, NEW c \in Clients, pc[c] = "put" \/ (pc[c] = "select" /\ ~ LastDone(c))
  PROVE  Working(c)
<1>1. cherry[c] \in Cherries /\ pc[c] # "idle" /\ current[c] \in Nat
  BY DEF CommitInv, Locals, TypeOK
<1>2. current[c] \in DOMAIN cherry[c].selections
  BY <1>1, SelectionTypes DEF LastDone, CommitInv, Locals
<1> QED
  BY <1>1, <1>2, SelectionTypes DEF Working, CommitInv, Locals, Origins, TypeOK, SelectionOf

LEMMA FetchStep ==
  ASSUME CommitInv, NEW c \in Clients, Fetch(c)
  PROVE  ClientStep(c)
<1> DEFINE table == Table(db[cherry[c].source], SelectionOf(c).type)
           rest  == Processed(SelectionOf(c), table)
<1>1. /\ GoOn(c, table, rest) /\ pc[c] = "select" /\ ~ LastDone(c)
      /\ UNCHANGED <<db, log, cherry, base, staged, result, history>>
  BY DEF Fetch, stores
<1>0. Working(c)
  BY <1>1, AtSelection
<1>2. table \in Databases /\ rest \in SUBSET Entities /\ \A e \in rest : Covers(SelectionOf(c), e)
  <2>1. db[cherry[c].source] \in Databases
    BY <1>0 DEF Working, CommitInv, TypeOK
  <2>2. table \in Databases
    BY <2>1, TableType
  <2> HIDE DEF table
  <2> QED
    BY <1>0, <2>2, ProcessedType DEF Working
<1>3. \A e \in Entities : table[e] # Absent => table[e] \in held[cherry[c].source][e]
  <2>1. /\ db[cherry[c].source] \in Databases
        /\ \A e \in Entities : db[cherry[c].source][e] \in held[cherry[c].source][e]
    BY <1>0 DEF Working, CommitInv, TypeOK, HeldNow
  <2>2. \A e \in Entities : table[e] # Absent => table[e] = db[cherry[c].source][e]
    BY <2>1, TableType
  <2> HIDE DEF table
  <2> QED
    BY <2>1, <2>2
<1>4. ASSUME NEW e \in Entities, staged'[c][e] # Absent
      PROVE  Explained(cherry[c], e, staged[c][e])'
  BY <1>1, <1>4, StagedKept DEF history
<1>5. current[c] \in DOMAIN cherry[c].selections /\ base'[c] = <<>>
  BY <1>1, <1>0 DEF Working
<1> HIDE DEF table, rest
<1> QED
  BY <1>1, <1>2, <1>3, <1>4, <1>5, GoOnStep

LEMMA SkipStep ==
  ASSUME CommitInv, NEW c \in Clients, Skip(c)
  PROVE  ClientStep(c)
<1>1. PICK e \in todo[c] : GoOn(c, seen[c], todo[c] \ {e})
  BY DEF Skip
<1>2. /\ pc[c] = "put" /\ base'[c] = <<>>
      /\ UNCHANGED <<db, log, cherry, base, staged, result, history>>
  BY DEF Skip, stores
<1>3. ASSUME NEW d \in Entities, staged'[c][d] # Absent
      PROVE  Explained(cherry[c], d, staged[c][d])'
  BY <1>2, <1>3, StagedKept DEF history
<1>4. /\ current[c] \in DOMAIN cherry[c].selections /\ seen[c] \in Databases
      /\ todo[c] \ {e} \in SUBSET Entities
      /\ \A d \in todo[c] \ {e} : Covers(SelectionOf(c), d)
      /\ \A d \in Entities : seen[c][d] # Absent => seen[c][d] \in held[cherry[c].source][d]
  <2>1. Working(c)
    BY <1>2, AtSelection
  <2> QED
    BY <1>2, <2>1 DEF Working
<1> QED
  BY <1>1, <1>2, <1>3, <1>4, GoOnStep

LEMMA ReadTargetStep ==
  ASSUME CommitInv, NEW c \in Clients, ReadTarget(c)
  PROVE  ClientStep(c)
<1>1. PICK e \in todo[c] :
        /\ seen[c][e] # Absent
        /\ base' = [base EXCEPT ![c] = <<e, Old(db[cherry[c].target][e])>>]
  BY DEF ReadTarget
<1>2. /\ pc[c] = "put"
      /\ UNCHANGED <<stores, pc, cherry, current, seen, todo, staged, result, history>>
  BY DEF ReadTarget
<1>3. HistoriesGrow /\ HeldNow' /\ LogNamesArrivedRows'
  BY <1>2, NothingShared DEF stores, history
<1>4. OthersKept(c)
  BY <1>1, <1>2 DEF OthersKept, CommitInv, TypeOK, history
<1>5. base'[c] = <<e, Old(db[cherry[c].target][e])>> /\ e \in Entities
  BY <1>1 DEF CommitInv, TypeOK
<1>6. Locals(c)' /\ Marked(c)'
  BY <1>1, <1>2, <1>5 DEF CommitInv, Locals, Marked, history, Early, SelectionOf
<1>7. ASSUME NEW d \in Entities, staged'[c][d] # Absent
      PROVE  Explained(cherry[c], d, staged[c][d])'
  BY <1>2, <1>7, StagedKept DEF history
<1>8. db[cherry[c].target][e] \in held[cherry[c].target][e]
  <2>1. Working(c)
    BY <1>2, AtSelection
  <2> QED
    BY <1>5, <2>1 DEF Working, CommitInv, HeldNow
<1>9. Origins(c)'
  BY <1>2, <1>5, <1>7, <1>8 DEF CommitInv, Origins, history
<1> QED
  BY <1>3, <1>4, <1>6, <1>9 DEF ClientStep, ClientInv

LEMMA UpsertStep ==
  ASSUME CommitInv, NEW c \in Clients, NEW e \in Entities, NEW row, Upsert(c, e, row),
         pc[c] = "put", Explained(cherry[c], e, row)
  PROVE  ClientStep(c)
<1>1. /\ GoOn(c, seen[c], todo[c] \ {e}) /\ base' = [base EXCEPT ![c] = <<>>]
      /\ staged' = [staged EXCEPT ![c][e] = row]
      /\ UNCHANGED <<db, log, cherry, result, history>>
  BY DEF Upsert
<1>2. /\ base'[c] = <<>>
      /\ \A d \in Clients \ {c} : base'[d] = base[d] /\ staged'[d] = staged[d]
      /\ staged'[c][e] = row /\ \A d \in Entities \ {e} : staged'[c][d] = staged[c][d]
  BY <1>1 DEF CommitInv, TypeOK, Databases
<1>3. ASSUME NEW d \in Entities, staged'[c][d] # Absent
      PROVE  Explained(cherry[c], d, staged[c][d])'
  <2>1. Explained(cherry[c], d, staged'[c][d])
    BY <1>2, <1>3 DEF CommitInv, Origins
  <2> QED
    BY <1>1, <2>1 DEF Explained, history
<1>4. /\ current[c] \in DOMAIN cherry[c].selections /\ seen[c] \in Databases
      /\ todo[c] \ {e} \in SUBSET Entities
      /\ \A d \in todo[c] \ {e} : Covers(SelectionOf(c), d)
      /\ \A d \in Entities : seen[c][d] # Absent => seen[c][d] \in held[cherry[c].source][d]
  <2>1. Working(c)
    BY AtSelection
  <2> QED
    BY <2>1 DEF Working
<1> QED
  BY <1>1, <1>2, <1>3, <1>4, GoOnStep

LEMMA PutWholeStep ==
  ASSUME CommitInv, NEW c \in Clients, PutWhole(c)
  PROVE  ClientStep(c)
<1>1. PICK e \in todo[c] : seen[c][e] # Absent /\ Upsert(c, e, seen[c][e])
  BY DEF PutWhole
<1>2. pc[c] = "put" /\ SelectionOf(c).fields = Whole
  BY DEF PutWhole
<1>0. Working(c)
  BY <1>2, AtSelection
<1>3. /\ e \in Entities /\ Covers(SelectionOf(c), e)
      /\ seen[c][e] \in held[cherry[c].source][e] \ {Absent}
      /\ db[cherry[c].target][e] \in held[cherry[c].target][e]
  BY <1>1, <1>2, <1>0 DEF Working, CommitInv, HeldNow
<1>4. Combines(SelectionOf(c), seen[c][e], seen[c][e], db[cherry[c].target][e])
  BY <1>2 DEF Combines
<1>5. Explained(cherry[c], e, seen[c][e])
  BY <1>1, <1>2, <1>3, <1>4, <1>0 DEF Explained, Working
<1> QED
  BY <1>1, <1>2, <1>3, <1>5, UpsertStep

LEMMA PutFilteredStep ==
  ASSUME CommitInv, NEW c \in Clients, PutFiltered(c)
  PROVE  ClientStep(c)
<1> DEFINE e   == base[c][1]
           row == Filtered(SelectionOf(c), seen[c][e], base[c][2])
<1>1. pc[c] = "put" /\ base[c] # <<>> /\ Upsert(c, e, row)
  BY DEF PutFiltered
<1>0. Working(c)
  BY <1>1, AtSelection
<1>2. e \in todo[c] /\ seen[c][e] # Absent /\ e \in Entities
  BY <1>1 DEF CommitInv, Locals, TypeOK
<1>3. PICK old \in held[cherry[c].target][e] : base[c][2] = Old(old)
  BY <1>1 DEF CommitInv, Origins
<1>4. old \in Rows \cup {Absent} /\ seen[c][e] \in Rows
  BY <1>1, <1>2, <1>0 DEF Working, CommitInv, TypeOK, Databases
<1>5. row \in Rows /\ row # Absent
  BY <1>3, <1>4, RowTypes
<1>6. Combines(SelectionOf(c), row, seen[c][e], old)
  BY <1>3, <1>4 DEF Combines, Filtered, Keeps, Old, NullRow
<1>7. /\ Covers(SelectionOf(c), e)
      /\ seen[c][e] \in held[cherry[c].source][e] \ {Absent}
  BY <1>1, <1>2, <1>0 DEF Working
<1> HIDE DEF e, row
<1>8. Explained(cherry[c], e, row)
  BY <1>1, <1>5, <1>6, <1>7, <1>3, <1>0 DEF Explained, Working
<1> QED
  BY <1>1, <1>2, <1>8, UpsertStep

LEMMA CommitTxStep ==
  ASSUME CommitInv, NEW c \in Clients, CommitTx(c)
  PROVE  ClientStep(c)
<1>1. cherry[c] \in Cherries /\ cherry[c].target \in Branches /\ pc[c] = "select"
  BY SelectionTypes DEF CommitTx, CommitInv, Locals, TypeOK
<1>2. /\ db' = [db EXCEPT ![cherry[c].target] = Upserted(@, staged[c])]
      /\ db' \in [Branches -> Databases]
  BY UpsertedType DEF CommitTx, CommitInv, TypeOK
<1>3. HistoriesGrow /\ HeldNow' /\ LogNamesArrivedRows'
  BY <1>2, HoldGrows, Logged DEF CommitTx, CommitInv
<1>4. /\ \A d \in Clients \ {c} : marks'[d] = marks[d]
      /\ marks'[c] = <<1, 0>>
  <2>1. marks' = [marks EXCEPT ![c][1] = @ + 1] /\ TypeOK /\ marks[c] = <<0, 0>>
    BY <1>1 DEF CommitTx, CommitInv, Marked
  <2>2. /\ \A d \in Clients \ {c} : marks'[d] = marks[d]
        /\ marks'[c] = <<marks[c][1] + 1, marks[c][2]>>
    BY <2>1, MarkCommitted
  <2> QED
    BY <2>1, <2>2
<1>5. OthersKept(c)
  BY <1>4 DEF OthersKept, CommitTx, CommitInv, TypeOK
<1>6. /\ pc'[c] = "log" /\ UNCHANGED <<cherry, current, seen, todo, base, staged, result, asked>>
  BY DEF CommitTx, CommitInv, TypeOK
<1>7. Locals(c)' /\ Marked(c)'
  BY <1>1, <1>4, <1>6 DEF CommitInv, Locals, Marked, Early
<1>8. ASSUME NEW e \in Entities, staged[c][e] # Absent
      PROVE  /\ staged[c][e] \in held'[cherry[c].target][e]
             /\ Explained(cherry[c], e, staged[c][e])'
  <2>1. db'[cherry[c].target][e] = staged[c][e]
    BY <1>1, <1>2, <1>8 DEF Upserted, CommitInv, TypeOK
  <2>2. staged[c][e] \in held'[cherry[c].target][e]
    BY <1>1, <1>3, <2>1 DEF HeldNow
  <2>3. Explained(cherry[c], e, staged[c][e])
    BY <1>1, <1>8 DEF CommitInv, Origins
  <2>4. PICK r \in Cherries : r = cherry[c]
    BY <1>1
  <2>5. PICK row : row = staged[c][e]
    OBVIOUS
  <2>6. Explained(r, e, row)'
    BY <1>3, <2>3, <2>4, <2>5, ExplainedGrows
  <2> QED
    BY <1>6, <2>2, <2>4, <2>5, <2>6 DEF Explained
<1>9. Origins(c)'
  <2>1. seen'[c] = Blank /\ base'[c] = <<>>
    BY <1>1, <1>6 DEF CommitInv, Locals
  <2> QED
    BY <1>6, <1>8, <2>1 DEF Origins, Blank
<1> QED
  BY <1>3, <1>5, <1>7, <1>9 DEF ClientStep, ClientInv

LEMMA InsertLogStep ==
  ASSUME CommitInv, NEW c \in Clients, InsertLog(c)
  PROVE  ClientStep(c)
<1>1. /\ cherry[c] \in Cherries /\ cherry[c].target \in Branches /\ pc[c] = "log"
      /\ marks[c] = <<1, 0>> /\ LogEntry(c) \in LogEntries
  BY SelectionTypes, LogTypes DEF InsertLog, CommitInv, Locals, Marked, TypeOK
<1>2. /\ UNCHANGED <<db, held, asked>>
      /\ log' = [log EXCEPT ![cherry[c].target] = Append(@, LogEntry(c))]
  BY DEF InsertLog
<1>3. HistoriesGrow /\ HeldNow'
  BY <1>2 DEF HistoriesGrow, HeldNow, CommitInv
<1>4. LogNamesArrivedRows'
  <2>1. ASSUME NEW id \in LogEntry(c).ids
        PROVE  \E e \in Entities : e[2] = id /\ held[cherry[c].target][e] \ {Absent} # {}
    <3>1. PICK e \in Entities : staged[c][e] # Absent /\ e[2] = id
      BY <2>1 DEF LogEntry
    <3> QED
      BY <1>1, <3>1 DEF CommitInv, Origins
  <2> SUFFICES ASSUME NEW b \in Branches, NEW i \in DOMAIN log'[b], NEW id \in log'[b][i].ids
               PROVE  \E e \in Entities : e[2] = id /\ held[b][e] \ {Absent} # {}
    BY <1>2 DEF LogNamesArrivedRows
  <2>2. CASE b = cherry[c].target
    <3>1. /\ log'[b] = Append(log[b], LogEntry(c)) /\ log[b] \in Seq(LogEntries)
      BY <1>1, <1>2, <2>2 DEF CommitInv, TypeOK
    <3>2. \/ i \in DOMAIN log[b] /\ log'[b][i] = log[b][i]
          \/ log'[b][i] = LogEntry(c)
      BY <1>1, <3>1
    <3> QED
      BY <2>1, <2>2, <3>2 DEF CommitInv, LogNamesArrivedRows
  <2>3. CASE b # cherry[c].target
    BY <1>2, <2>3 DEF CommitInv, LogNamesArrivedRows, TypeOK
  <2> QED
    BY <2>2, <2>3
<1>5. /\ \A d \in Clients \ {c} : marks'[d] = marks[d]
      /\ marks'[c] = <<1, 1>>
  <2>1. marks' = [marks EXCEPT ![c][2] = @ + 1] /\ TypeOK
    BY DEF InsertLog, CommitInv
  <2>2. /\ \A d \in Clients \ {c} : marks'[d] = marks[d]
        /\ marks'[c] = <<marks[c][1], marks[c][2] + 1>>
    BY <2>1, MarkLogged
  <2> QED
    BY <1>1, <2>2
<1>6. PICK res \in {"success", "none"} : Return(c, res)
  BY DEF InsertLog
<1>7. /\ Locals(c)' /\ Origins(c)' /\ pc'[c] = "idle" /\ result'[c] = res
  BY <1>6, ReturnLocals DEF CommitInv
<1>8. OthersKept(c)
  BY <1>5, <1>6 DEF OthersKept, Return, CommitInv, TypeOK
<1>9. Marked(c)'
  BY <1>5, <1>7 DEF Marked
<1> QED
  BY <1>3, <1>4, <1>7, <1>8, <1>9 DEF ClientStep, ClientInv

LEMMA CallStep ==
  ASSUME CommitInv, NEW c \in Clients, Continue(c) \/ Fail(c) \/ \E r \in Cherries : Begin(c, r)
  PROVE  ClientStep(c)
<1>1. CASE NoTable(c) \/ Fail(c)
  BY <1>1, ReturnStep DEF NoTable, Fail
<1> QED
  BY <1>1, BeginStep, ValidateStep, FetchStep, SkipStep, ReadTargetStep, PutWholeStep,
     PutFilteredStep, CommitTxStep, InsertLogStep DEF Continue, Promote

-----------------------------------------------------------------------------
(* The rest of the world, and the invariant.                               *)

LEMMA WriteStep ==
  ASSUME CommitInv, NEW b \in Branches, NEW e \in Entities, NEW row \in Rows \cup {Absent},
         Write(b, e, row)
  PROVE  HistoriesGrow /\ HeldNow' /\ LogNamesArrivedRows' /\ OthersKept(NoClient)
<1>1. db' \in [Branches -> Databases]
  BY DEF Write, CommitInv, TypeOK, Databases
<1>2. HistoriesGrow /\ HeldNow' /\ LogNamesArrivedRows'
  BY <1>1, HoldGrows, Logged DEF Write, CommitInv
<1>3. OthersKept(NoClient)
  BY DEF Write, locals, OthersKept
<1> QED
  BY <1>2, <1>3

LEMMA QuietStep ==
  ASSUME CommitInv, UNCHANGED <<db, log, locals, result, asked, held, marks>>
  PROVE  HistoriesGrow /\ HeldNow' /\ LogNamesArrivedRows' /\ OthersKept(NoClient)
<1>1. HistoriesGrow /\ HeldNow' /\ LogNamesArrivedRows'
  BY NothingShared
<1>2. OthersKept(NoClient)
  BY DEF locals, OthersKept
<1> QED
  BY <1>1, <1>2

LEMMA CommitInit == Init => CommitInv
<1> SUFFICES ASSUME Init PROVE CommitInv
  OBVIOUS
<1>1. TypeOK
  BY BlankType, CommitAssumption DEF Init, TypeOK, Databases, Statuses, Labels, Results
<1>2. HeldNow /\ LogNamesArrivedRows
  BY DEF Init, HeldNow, LogNamesArrivedRows
<1>3. ASSUME NEW c \in Clients PROVE Locals(c) /\ Marked(c) /\ Origins(c)
  <2>1. /\ pc[c] = "idle" /\ seen[c] = Blank /\ base[c] = <<>> /\ staged[c] = Blank
        /\ result[c] = "none"
    BY DEF Init
  <2> QED
    BY <2>1 DEF Locals, Marked, Origins, Blank, Early
<1> QED
  BY <1>1, <1>2, <1>3 DEF CommitInv

LEMMA CommitNext == CommitInv /\ [Next]_vars => CommitInv'
<1> SUFFICES ASSUME CommitInv, [Next]_vars PROVE CommitInv'
  OBVIOUS
<1>1. TypeOK'
  BY TypeStep
<1>2. ASSUME NEW c \in Clients, ClientStep(c) PROVE CommitInv'
  <2>1. \A d \in Clients : ClientInv(d)'
    <3> TAKE d \in Clients
    <3>1. CASE d = c
      BY <1>2, <3>1 DEF ClientStep, ClientInv, Locals, Marked, Origins, SelectionOf
    <3>2. CASE d # c
      BY <1>2, <3>2, Undisturbed DEF ClientStep
    <3> QED
      BY <3>1, <3>2
  <2> QED
    BY <1>1, <1>2, <2>1 DEF ClientStep, CommitInv, ClientInv
<1>3. ASSUME HistoriesGrow, HeldNow', LogNamesArrivedRows', OthersKept(NoClient)
      PROVE  CommitInv'
  <2>1. \A d \in Clients : ClientInv(d)'
    BY <1>3, Undisturbed, CommitAssumption
  <2> QED
    BY <1>1, <1>3, <2>1 DEF CommitInv, ClientInv
<1>4. CASE \E c \in Clients : Continue(c) \/ Fail(c) \/ \E r \in Cherries : Begin(c, r)
  BY <1>2, <1>4, CallStep
<1>5. CASE \E b \in Branches, e \in Entities, row \in Rows \cup {Absent} : Write(b, e, row)
  BY <1>3, <1>5, WriteStep
<1>6. CASE \E b \in Branches, s \in Statuses : SetStatus(b, s)
  BY <1>3, <1>6, QuietStep DEF SetStatus
<1>7. CASE UNCHANGED vars
  BY <1>3, <1>7, QuietStep DEF vars, stores, history
<1> QED
  BY <1>4, <1>5, <1>6, <1>7 DEF Next

LEMMA Invariance == Spec => []CommitInv
BY CommitInit, CommitNext, PTL DEF Spec

\* Every variable of the commit protocol keeps its type, however the calls, the
\* agents and the changes of a status interleave.
THEOREM TypeCorrect == Spec => []TypeOK
<1>1. CommitInv => TypeOK
  BY DEF CommitInv
<1> QED
  BY Invariance, <1>1, PTL

\* What a call of commit, cherry_pick or commit_to_trunk answers is true of its
\* transaction and of the log: success means both, once; rejected means neither; an
\* error leaves it open only whether the transaction committed.
THEOREM AnswersAreTruthful == Spec => []AnswersTruthful
<1>1. CommitInv => AnswersTruthful
  BY DEF CommitInv, Marked, AnswersTruthful
<1> QED
  BY Invariance, <1>1, PTL

\* Every id in branch_commits is the id of a row that has arrived in that branch.
THEOREM LogIsFaithful == Spec => []LogNamesArrivedRows
<1>1. CommitInv => LogNamesArrivedRows
  BY DEF CommitInv
<1> QED
  BY Invariance, <1>1, PTL

LEMMA StepLands == CommitInv /\ [Next]_vars => [LandsSelected]_vars
<1> SUFFICES ASSUME CommitInv, Next,
                    NEW b \in Branches, NEW e \in Entities,
                    changes' = changes, db'[b][e] # db[b][e]
             PROVE  \E c \in Clients : /\ Commits(c) /\ cherry[c].target = b
                                       /\ Explained(cherry[c], e, db'[b][e])
  BY DEF LandsSelected
<1>1. \E c \in Clients : CommitTx(c)
  <2>1. db' # db
    OBVIOUS
  <2>2. changes \in Nat /\ changes + 1 # changes
    BY DEF CommitInv, TypeOK
  <2> QED
    BY <2>1, <2>2 DEF Next, Begin, Continue, Validate, Promote, CheckSource, CheckTarget, CheckId,
       BeginTx, Fetch, Skip, ReadTarget, PutWhole, PutFiltered, Upsert, NoTable, InsertLog, Fail,
       Write, SetStatus, stores
<1>2. PICK c \in Clients : CommitTx(c)
  BY <1>1
<1>3. /\ pc[c] = "select" /\ pc'[c] = "log"
      /\ db' = [db EXCEPT ![cherry[c].target] = Upserted(@, staged[c])]
  BY <1>2 DEF CommitTx, CommitInv, TypeOK
<1>4. cherry[c].target = b /\ db'[b] = Upserted(db[b], staged[c])
  BY <1>3 DEF CommitInv, TypeOK
<1>5. staged[c][e] # Absent /\ db'[b][e] = staged[c][e]
  BY <1>4 DEF Upserted
<1>6. Explained(cherry[c], e, staged[c][e])
  BY <1>3, <1>5 DEF CommitInv, Origins
<1> QED
  BY <1>3, <1>4, <1>5, <1>6 DEF Commits

\* A commit changes only its target, and there only rows that were selected, into
\* rows made of one row of the source and one of the target.
THEOREM OnlySelectedRows == Spec => OnlySelectedLand
<1>1. Spec => []CommitInv /\ [][Next]_vars
  BY Invariance DEF Spec
<1> QED
  BY <1>1, StepLands, PTL DEF OnlySelectedLand

-----------------------------------------------------------------------------
(* Repeated calls of one cherry-pick.                                      *)

\* Only cherry-pick r has been asked for, and nobody else has changed anything.
Alone(r) == SelectsOnce(r) /\ asked \subseteq {r} /\ changes = 0

\* row is the one that r writes over e in the first databases.
Written(r, e, row) ==
  /\ first[r.source][e] # Absent
  /\ \E i \in DOMAIN r.selections :
       /\ Covers(r.selections[i], e)
       /\ Combines(r.selections[i], row, first[r.source][e], first[r.target][e])

\* c is through with entity e, which selection i of its cherry-pick covers.
Passed(c, i, e) == i < current[c] \/ (pc[c] = "put" /\ i = current[c] /\ e \notin todo[c])

\* What c has read and staged is what it would have if it ran by itself, from the
\* first databases; what it has passed it has staged.
Undivided(r, c) ==
  /\ result[c] = "success" \/ pc[c] = "log" => Promoted(r, db)
  /\ pc[c] = "put" => \A e \in Entities :
       e[1] = SelectionOf(c).type => seen[c][e] = first[r.source][e]
  /\ base[c] # <<>> => \A f \in Fields :
       ~ Keeps(SelectionOf(c), f) => base[c][2][f] = Old(first[r.target][base[c][1]])[f]
  /\ \A e \in Entities : staged[c][e] # Absent => Written(r, e, staged[c][e])
  /\ pc[c] \in {"select", "put"} =>
       \A i \in DOMAIN r.selections, e \in Entities :
         /\ first[r.source][e] # Absent
         /\ Covers(r.selections[i], e)
         /\ Passed(c, i, e)
         => staged[c][e] # Absent

Settled(r) == db = first \/ Promoted(r, db)

OnceInv ==
  \A r \in Cherries : Alone(r) => Settled(r) /\ \A c \in Clients : Undivided(r, c)

\* What a step of client c does when only r has been asked for.
AloneStep(r, c) ==
  /\ UNCHANGED first
  /\ Settled(r)'
  /\ Promoted(r, db) => Promoted(r, db)'
  /\ Undivided(r, c)'

LEMMA NothingLands ==
  ASSUME NEW r, Settled(r), UNCHANGED <<db, first>>
  PROVE  Settled(r)' /\ (Promoted(r, db) => Promoted(r, db)')
BY DEF Settled, Promoted

\* The cherry-pick writes nothing over its source that was not there.
LEMMA SourceKept ==
  ASSUME CommitInv, NEW r \in Cherries, Settled(r)
  PROVE  \A e \in Entities : db[r.source][e] = first[r.source][e]
<1>1. r.source \in Branches /\ r.target \in Branches
  BY SelectionTypes
<1> SUFFICES ASSUME Promoted(r, db), NEW e \in Entities
             PROVE  db[r.source][e] = first[r.source][e]
  BY DEF Settled
<1>2. CASE /\ r.source = r.target /\ first[r.source][e] # Absent
           /\ \E i \in DOMAIN r.selections : Covers(r.selections[i], e)
  <2>1. PICK i \in DOMAIN r.selections :
          Combines(r.selections[i], db[r.source][e], first[r.source][e], first[r.source][e])
    BY <1>1, <1>2 DEF Promoted
  <2>2. db[r.source][e] \in Rows /\ first[r.source][e] \in Rows
    BY <1>1, <1>2 DEF Promoted, CommitInv, TypeOK, Databases
  <2>3. \A h \in Fields : db[r.source][e][h] = first[r.source][e][h]
    BY <1>2, <2>1 DEF Combines
  <2> QED
    BY <2>2, <2>3 DEF Rows
<1>3. CASE ~ (/\ r.source = r.target /\ first[r.source][e] # Absent
              /\ \E i \in DOMAIN r.selections : Covers(r.selections[i], e))
  BY <1>1, <1>3 DEF Promoted
<1> QED
  BY <1>2, <1>3

\* A client at work is at work on r, and has no answer yet.
LEMMA AtWork ==
  ASSUME CommitInv, NEW r \in Cherries, Alone(r), NEW c \in Clients, pc[c] # "idle"
  PROVE  cherry[c] = r /\ result[c] = "none"
BY DEF CommitInv, Locals, Alone

\* A client that goes on to rest, with all it has passed staged.
LEMMA GoOnUndivided ==
  ASSUME CommitInv, NEW r \in Cherries, NEW c \in Clients, cherry[c] = r, result[c] = "none",
         NEW table \in Databases, NEW rest \in SUBSET Entities, GoOn(c, table, rest),
         base'[c] = <<>>, UNCHANGED <<cherry, result, first>>,
         \A e \in Entities : e[1] = SelectionOf(c).type => table[e] = first[r.source][e],
         \A e \in Entities : staged'[c][e] # Absent => Written(r, e, staged'[c][e]),
         \A i \in DOMAIN r.selections, e \in Entities :
           /\ first[r.source][e] # Absent
           /\ Covers(r.selections[i], e)
           /\ i < current[c] \/ (i = current[c] /\ e \notin rest)
           => staged'[c][e] # Absent
  PROVE  Undivided(r, c)'
<1>1. /\ \/ rest = {} /\ pc'[c] = "select" /\ current'[c] = current[c] + 1
         \/ pc'[c] = "put" /\ current'[c] = current[c] /\ seen'[c] = table
      /\ todo'[c] = rest /\ current[c] \in Nat
  BY DEF GoOn, CommitInv, TypeOK
<1>2. pc'[c] = "put" => \A e \in Entities :
        e[1] = SelectionOf(c)'.type => seen'[c][e] = first'[r.source][e]
  BY <1>1 DEF SelectionOf
<1>3. \A e \in Entities : staged'[c][e] # Absent => Written(r, e, staged[c][e])'
  BY DEF Written
<1>4. ASSUME NEW i \in DOMAIN r.selections, NEW e \in Entities, Passed(c, i, e)'
      PROVE  i < current[c] \/ (i = current[c] /\ e \notin rest)
  <2>1. i \in Nat
    BY SelectionTypes
  <2> QED
    BY <1>1, <1>4, <2>1 DEF Passed
<1>5. \A i \in DOMAIN r.selections, e \in Entities :
        /\ first'[r.source][e] # Absent
        /\ Covers(r.selections[i], e)
        /\ Passed(c, i, e)'
        => staged'[c][e] # Absent
  BY <1>4
<1>6. pc'[c] # "log" /\ result'[c] = "none"
  BY <1>1
<1> QED
  BY <1>2, <1>3, <1>5, <1>6 DEF Undivided

LEMMA StagedWritten ==
  ASSUME NEW r, NEW c, Undivided(r, c), UNCHANGED staged
  PROVE  \A e \in Entities : staged'[c][e] # Absent => Written(r, e, staged'[c][e])
BY DEF Undivided

LEMMA FetchAlone ==
  ASSUME CommitInv, NEW r \in Cherries, Alone(r), Settled(r),
         NEW c \in Clients, Undivided(r, c), Fetch(c)
  PROVE  AloneStep(r, c)
<1> DEFINE table == Table(db[r.source], SelectionOf(c).type)
           rest  == Processed(SelectionOf(c), table)
<1>1. /\ pc[c] = "select" /\ ~ LastDone(c) /\ cherry[c] = r /\ result[c] = "none"
      /\ UNCHANGED <<db, cherry, base, staged, result, first>>
  BY AtWork DEF Fetch, stores, history
<1>2. GoOn(c, table, rest)
  BY <1>1 DEF Fetch
<1>3. Working(c)
  BY <1>1, AtSelection
<1>4. table \in Databases /\ rest \in SUBSET Entities
  <2>1. db[r.source] \in Databases
    BY <1>1, <1>3 DEF Working, CommitInv, TypeOK
  <2>2. table \in Databases
    BY <2>1, TableType
  <2> HIDE DEF table
  <2> QED
    BY <1>3, <2>2, ProcessedType DEF Working
<1>5. \A e \in Entities : e[1] = SelectionOf(c).type => table[e] = first[r.source][e]
  <2>1. \A e \in Entities : e[1] = SelectionOf(c).type => table[e] = db[r.source][e]
    BY DEF Table
  <2> HIDE DEF table
  <2> QED
    BY <2>1, SourceKept
<1>6. \A e \in Entities :
        first[r.source][e] # Absent /\ Covers(SelectionOf(c), e) => e \in rest
  <2> HIDE DEF table
  <2> QED
    BY <1>5 DEF Processed, Covers, OfType
<1>7. /\ base'[c] = <<>> /\ current[c] \in Nat
      /\ SelectionOf(c) = r.selections[current[c]]
  BY <1>1, <1>3 DEF Working, CommitInv, TypeOK
<1>8. \A i \in DOMAIN r.selections, e \in Entities :
        /\ first[r.source][e] # Absent
        /\ Covers(r.selections[i], e)
        /\ i < current[c] \/ (i = current[c] /\ e \notin rest)
        => staged'[c][e] # Absent
  <2> HIDE DEF rest
  <2> QED
    BY <1>1, <1>6, <1>7 DEF Undivided, Passed
<1>9. \A e \in Entities : staged'[c][e] # Absent => Written(r, e, staged'[c][e])
  BY <1>1, StagedWritten
<1> HIDE DEF table, rest
<1>10. Undivided(r, c)'
  BY <1>1, <1>2, <1>4, <1>5, <1>7, <1>8, <1>9, GoOnUndivided
<1> QED
  BY <1>1, <1>10, NothingLands DEF AloneStep

LEMMA SkipAlone ==
  ASSUME CommitInv, NEW r \in Cherries, Alone(r), Settled(r),
         NEW c \in Clients, Undivided(r, c), Skip(c)
  PROVE  AloneStep(r, c)
<1>1. PICK e \in todo[c] : seen[c][e] = Absent /\ GoOn(c, seen[c], todo[c] \ {e})
  BY DEF Skip
<1>2. /\ pc[c] = "put" /\ base'[c] = <<>> /\ cherry[c] = r /\ result[c] = "none"
      /\ UNCHANGED <<db, cherry, staged, result, first>>
  BY AtWork DEF Skip, stores, history
<1>3. Working(c)
  BY <1>2, AtSelection
<1>4. /\ seen[c] \in Databases /\ todo[c] \ {e} \in SUBSET Entities
      /\ SelectionOf(c) = r.selections[current[c]] /\ Covers(SelectionOf(c), e)
  BY <1>2, <1>3 DEF Working
<1>5. \A d \in Entities : d[1] = SelectionOf(c).type => seen[c][d] = first[r.source][d]
  BY <1>2 DEF Undivided
<1>6. \A i \in DOMAIN r.selections, d \in Entities :
        /\ first[r.source][d] # Absent
        /\ Covers(r.selections[i], d)
        /\ i < current[c] \/ (i = current[c] /\ d \notin todo[c] \ {e})
        => staged'[c][d] # Absent
  <2>1. first[r.source][e] = Absent
    BY <1>1, <1>3, <1>4, <1>5 DEF Covers, Working
  <2> QED
    BY <1>2, <2>1 DEF Undivided, Passed
<1>7. \A d \in Entities : staged'[c][d] # Absent => Written(r, d, staged'[c][d])
  BY <1>2, StagedWritten
<1>8. Undivided(r, c)'
  BY <1>1, <1>2, <1>4, <1>5, <1>6, <1>7, GoOnUndivided
<1> QED
  BY <1>2, <1>8, NothingLands DEF AloneStep

LEMMA ReadTargetAlone ==
  ASSUME CommitInv, NEW r \in Cherries, Alone(r), Settled(r),
         NEW c \in Clients, Undivided(r, c), ReadTarget(c)
  PROVE  AloneStep(r, c)
<1>1. PICK e \in todo[c] :
        /\ seen[c][e] # Absent
        /\ base' = [base EXCEPT ![c] = <<e, Old(db[r.target][e])>>]
  BY AtWork DEF ReadTarget
<1>2. /\ pc[c] = "put" /\ cherry[c] = r /\ SelectionOf(c).fields # Whole
      /\ UNCHANGED <<db, pc, cherry, current, seen, todo, staged, result, first>>
  BY AtWork DEF ReadTarget, stores, history
<1>3. Working(c)
  BY <1>2, AtSelection
<1>4. /\ base'[c] = <<e, Old(db[r.target][e])>> /\ e \in Entities
      /\ Covers(SelectionOf(c), e) /\ current[c] \in DOMAIN r.selections
      /\ SelectionOf(c) = r.selections[current[c]]
  BY <1>1, <1>2, <1>3 DEF Working, CommitInv, TypeOK
<1>5. first[r.source][e] # Absent
  BY <1>1, <1>2, <1>4 DEF Undivided, Covers
<1>6. ASSUME NEW h \in Fields, ~ Keeps(SelectionOf(c), h)
      PROVE  Old(db[r.target][e])[h] = Old(first[r.target][e])[h]
  <2>1. CASE db = first
    BY <2>1
  <2>2. CASE Promoted(r, db)
    <3>1. /\ db[r.target][e] # Absent
          /\ \E i \in DOMAIN r.selections :
               /\ Covers(r.selections[i], e)
               /\ Combines(r.selections[i], db[r.target][e], first[r.source][e],
                           first[r.target][e])
      BY <1>4, <1>5, <2>2, SelectionTypes DEF Promoted
    <3>2. Combines(SelectionOf(c), db[r.target][e], first[r.source][e], first[r.target][e])
      BY <1>4, <3>1 DEF Alone, SelectsOnce
    <3> QED
      BY <1>6, <3>1, <3>2 DEF Combines, Keeps, Old, NullRow
  <2> QED
    BY <2>1, <2>2 DEF Settled
<1>7. Undivided(r, c)'
  BY <1>2, <1>4, <1>6 DEF Undivided, Passed, Written, SelectionOf, Promoted
<1> QED
  BY <1>2, <1>7, NothingLands DEF AloneStep

LEMMA UpsertAlone ==
  ASSUME CommitInv, NEW r \in Cherries, Alone(r), Settled(r), NEW c \in Clients, Undivided(r, c),
         pc[c] = "put", NEW e \in Entities, NEW row \in Rows, Upsert(c, e, row), Written(r, e, row)
  PROVE  AloneStep(r, c)
<1>1. /\ GoOn(c, seen[c], todo[c] \ {e}) /\ base' = [base EXCEPT ![c] = <<>>]
      /\ staged' = [staged EXCEPT ![c][e] = row] /\ cherry[c] = r /\ result[c] = "none"
      /\ UNCHANGED <<db, cherry, result, first>>
  BY AtWork DEF Upsert, history
<1>2. /\ base'[c] = <<>> /\ row # Absent
      /\ staged'[c][e] = row /\ \A d \in Entities \ {e} : staged'[c][d] = staged[c][d]
  BY <1>1, CommitAssumption DEF CommitInv, TypeOK, Databases
<1>3. Working(c)
  BY AtSelection
<1>4. seen[c] \in Databases /\ todo[c] \ {e} \in SUBSET Entities
  BY <1>3 DEF Working
<1>5. \A d \in Entities : d[1] = SelectionOf(c).type => seen[c][d] = first[r.source][d]
  BY DEF Undivided
<1>6. \A i \in DOMAIN r.selections, d \in Entities :
        /\ first[r.source][d] # Absent
        /\ Covers(r.selections[i], d)
        /\ i < current[c] \/ (i = current[c] /\ d \notin todo[c] \ {e})
        => staged'[c][d] # Absent
  BY <1>2 DEF Undivided, Passed
<1>7. \A d \in Entities : staged'[c][d] # Absent => Written(r, d, staged'[c][d])
  BY <1>2 DEF Undivided
<1>8. Undivided(r, c)'
  BY <1>1, <1>2, <1>4, <1>5, <1>6, <1>7, GoOnUndivided
<1> QED
  BY <1>1, <1>8, NothingLands DEF AloneStep

LEMMA PutWholeAlone ==
  ASSUME CommitInv, NEW r \in Cherries, Alone(r), Settled(r),
         NEW c \in Clients, Undivided(r, c), PutWhole(c)
  PROVE  AloneStep(r, c)
<1>1. PICK e \in todo[c] : seen[c][e] # Absent /\ Upsert(c, e, seen[c][e])
  BY DEF PutWhole
<1>2. pc[c] = "put" /\ SelectionOf(c).fields = Whole /\ cherry[c] = r
  BY AtWork DEF PutWhole
<1>3. Working(c)
  BY <1>2, AtSelection
<1>4. /\ e \in Entities /\ seen[c][e] \in Rows
      /\ Covers(SelectionOf(c), e) /\ current[c] \in DOMAIN r.selections
      /\ SelectionOf(c) = r.selections[current[c]]
  BY <1>1, <1>2, <1>3 DEF Working, Databases
<1>5. seen[c][e] = first[r.source][e]
  BY <1>2, <1>4 DEF Undivided, Covers
<1>6. Written(r, e, seen[c][e])
  BY <1>1, <1>2, <1>4, <1>5 DEF Written, Combines
<1>7. PICK row \in Rows : row = seen[c][e]
  BY <1>4
<1> QED
  BY <1>1, <1>2, <1>4, <1>6, <1>7, UpsertAlone

LEMMA PutFilteredAlone ==
  ASSUME CommitInv, NEW r \in Cherries, Alone(r), Settled(r),
         NEW c \in Clients, Undivided(r, c), PutFiltered(c)
  PROVE  AloneStep(r, c)
<1>1. PICK e : e = base[c][1]
  OBVIOUS
<1>2. PICK row : row = Filtered(SelectionOf(c), seen[c][e], base[c][2])
  OBVIOUS
<1>3. pc[c] = "put" /\ base[c] # <<>> /\ cherry[c] = r /\ Upsert(c, e, row)
  BY <1>1, <1>2, AtWork DEF PutFiltered
<1>4. Working(c)
  BY <1>3, AtSelection
<1>5. e \in todo[c] /\ seen[c][e] # Absent /\ e \in Entities /\ base[c][2] \in Rows
  BY <1>1, <1>3 DEF CommitInv, Locals, TypeOK
<1>6. /\ seen[c][e] \in Rows /\ Covers(SelectionOf(c), e)
      /\ current[c] \in DOMAIN r.selections /\ SelectionOf(c) = r.selections[current[c]]
  BY <1>3, <1>4, <1>5 DEF Working, Databases
<1>7. row \in Rows
  BY <1>2, <1>5, <1>6 DEF Filtered, Rows
<1>8. seen[c][e] = first[r.source][e]
  BY <1>3, <1>5, <1>6 DEF Undivided, Covers
<1>9. \A h \in Fields : row[h] = IF Keeps(SelectionOf(c), h) THEN first[r.source][e][h]
                                 ELSE Old(first[r.target][e])[h]
  BY <1>1, <1>2, <1>3, <1>8 DEF Undivided, Filtered
<1>10. Combines(SelectionOf(c), row, first[r.source][e], first[r.target][e])
  BY <1>9 DEF Combines, Keeps, Old, NullRow
<1>11. Written(r, e, row)
  BY <1>5, <1>6, <1>8, <1>10 DEF Written
<1> QED
  BY <1>3, <1>5, <1>7, <1>11, UpsertAlone

LEMMA CommitTxAlone ==
  ASSUME CommitInv, NEW r \in Cherries, Alone(r), Settled(r),
         NEW c \in Clients, Undivided(r, c), CommitTx(c)
  PROVE  AloneStep(r, c)
<1>1. /\ pc[c] = "select" /\ LastDone(c) /\ cherry[c] = r /\ pc'[c] = "log"
      /\ UNCHANGED <<cherry, base, staged, first>>
      /\ db' = [db EXCEPT ![r.target] = Upserted(db[r.target], staged[c])]
  BY AtWork DEF CommitTx, CommitInv, TypeOK
<1>2. r.source \in Branches /\ r.target \in Branches
  BY SelectionTypes
<1>3. /\ \A b \in Branches \ {r.target} : db'[b] = db[b]
      /\ \A e \in Entities : db'[r.target][e] =
           IF staged[c][e] # Absent THEN staged[c][e] ELSE db[r.target][e]
  BY <1>1, <1>2 DEF CommitInv, TypeOK, Upserted
<1>4. ASSUME NEW e \in Entities, first[r.source][e] # Absent,
             \E i \in DOMAIN r.selections : Covers(r.selections[i], e)
      PROVE  staged[c][e] # Absent
  <2>1. PICK i \in DOMAIN r.selections : Covers(r.selections[i], e)
    BY <1>4
  <2>2. i < current[c]
    BY <1>1, SelectionTypes DEF LastDone, CommitInv, TypeOK
  <2> QED
    BY <1>1, <1>4, <2>1, <2>2 DEF Undivided, Passed
<1>5. \A e \in Entities : staged[c][e] # Absent => Written(r, e, staged[c][e])
  BY DEF Undivided
<1>6. ASSUME NEW b \in Branches, NEW e \in Entities,
             ~ (/\ b = r.target /\ first[r.source][e] # Absent
                /\ \E i \in DOMAIN r.selections : Covers(r.selections[i], e))
      PROVE  db'[b][e] = first[b][e]
  <2>1. db[b][e] = first[b][e]
    BY <1>6 DEF Settled, Promoted
  <2>2. b = r.target => staged[c][e] = Absent
    BY <1>5, <1>6 DEF Written
  <2> QED
    BY <1>3, <2>1, <2>2
<1>7. ASSUME NEW e \in Entities, first[r.source][e] # Absent,
             \E i \in DOMAIN r.selections : Covers(r.selections[i], e)
      PROVE  /\ db'[r.target][e] # Absent
             /\ \E i \in DOMAIN r.selections :
                  /\ Covers(r.selections[i], e)
                  /\ Combines(r.selections[i], db'[r.target][e], first[r.source][e],
                              first[r.target][e])
  BY <1>3, <1>4, <1>5, <1>7 DEF Written
<1>8. Promoted(r, db)'
  BY <1>1, <1>6, <1>7 DEF Promoted
<1>9. base[c] = <<>>
  BY <1>1 DEF CommitInv, Locals
<1>10. Undivided(r, c)'
  BY <1>1, <1>5, <1>8, <1>9 DEF Undivided, Written
<1> QED
  BY <1>1, <1>8, <1>10 DEF AloneStep, Settled

\* A call that has nothing staged and has read nothing.
LEMMA EmptyHanded ==
  ASSUME NEW r, NEW c, staged'[c] = Blank, base'[c] = <<>>,
         \/ pc'[c] \in Early
         \/ pc'[c] = "select" /\ current'[c] = 1 /\ DOMAIN r.selections \subseteq Nat \ {0},
         result'[c] = "success" => Promoted(r, db)'
  PROVE  Undivided(r, c)'
<1>1. \A e \in Entities : staged'[c][e] = Absent
  BY DEF Blank
<1>2. pc'[c] = "select" => \A i \in DOMAIN r.selections, e \in Entities : ~ Passed(c, i, e)'
  BY DEF Passed, Early
<1> QED
  BY <1>1, <1>2 DEF Undivided, Early

LEMMA QuietAlone ==
  ASSUME CommitInv, NEW r \in Cherries, Alone(r), Alone(r)', Settled(r), NEW c \in Clients,
         Undivided(r, c),
         \/ Validate(c) \/ NoTable(c) \/ InsertLog(c) \/ Fail(c)
         \/ \E s \in Cherries : Begin(c, s)
  PROVE  AloneStep(r, c)
<1>1. UNCHANGED <<db, first>>
  BY DEF Validate, CheckSource, CheckTarget, CheckId, BeginTx, NoTable, InsertLog, Fail, Begin,
         stores, history
<1>2. ASSUME NEW res, Return(c, res), res = "success" => Promoted(r, db)
      PROVE  AloneStep(r, c)
  <2>1. /\ pc'[c] = "idle" /\ staged'[c] = Blank /\ base'[c] = <<>> /\ result'[c] = res
    BY <1>2 DEF Return, CommitInv, TypeOK
  <2>2. Undivided(r, c)'
    BY <1>1, <1>2, <2>1, EmptyHanded, NothingLands DEF Early
  <2> QED
    BY <1>1, <2>2, NothingLands DEF AloneStep
<1>3. ASSUME pc[c] \in Early, pc'[c] \in Early \/ (pc'[c] = "select" /\ current'[c] = 1),
             UNCHANGED <<staged, base>>, result'[c] # "success"
      PROVE  AloneStep(r, c)
  <2>1. staged[c] = Blank /\ base[c] = <<>>
    BY <1>3 DEF CommitInv, Locals, Early
  <2>2. DOMAIN r.selections \subseteq Nat \ {0}
    BY SelectionTypes
  <2>3. Undivided(r, c)'
    BY <1>3, <2>1, <2>2, EmptyHanded
  <2> QED
    BY <1>1, <2>3, NothingLands DEF AloneStep
<1>4. CASE NoTable(c) \/ Fail(c)
  BY <1>2, <1>4 DEF NoTable, Fail
<1>5. CASE InsertLog(c)
  BY <1>2, <1>5 DEF InsertLog, Undivided
<1>6. CASE \E s \in Cherries : Begin(c, s)
  BY <1>3, <1>6 DEF Begin, CommitInv, TypeOK, Early
<1>7. CASE Validate(c)
  <2>1. pc[c] \in {"source", "target", "ids"} /\ result[c] = "none"
    BY <1>7 DEF Validate, CheckSource, CheckTarget, CheckId, BeginTx, CommitInv, Locals
  <2>2. CASE CheckSource(c) \/ CheckTarget(c)
    BY <1>2, <1>3, <2>1, <2>2 DEF CheckSource, CheckTarget, Early, CommitInv, TypeOK
  <2>3. CASE CheckId(c)
    BY <1>2, <1>3, <2>1, <2>3 DEF CheckId, Early
  <2>4. CASE BeginTx(c)
    BY <1>3, <2>1, <2>4 DEF BeginTx, Early, CommitInv, TypeOK
  <2> QED
    BY <1>7, <2>2, <2>3, <2>4 DEF Validate
<1> QED
  BY <1>4, <1>5, <1>6, <1>7

LEMMA OthersUndivided ==
  ASSUME NEW r, NEW c, NEW d \in Clients, d # c, OthersKept(c), Undivided(r, d),
         UNCHANGED first, Promoted(r, db) => Promoted(r, db)'
  PROVE  Undivided(r, d)'
<1>1. /\ pc'[d] = pc[d] /\ cherry'[d] = cherry[d] /\ current'[d] = current[d]
      /\ seen'[d] = seen[d] /\ todo'[d] = todo[d] /\ base'[d] = base[d]
      /\ staged'[d] = staged[d] /\ result'[d] = result[d]
  BY DEF OthersKept
<1> QED
  BY <1>1 DEF Undivided, SelectionOf, Written, Passed

LEMMA AloneBefore ==
  ASSUME CommitInv, [Next]_vars, NEW r, Alone(r)'
  PROVE  /\ Alone(r) /\ UNCHANGED changes
<1>1. /\ asked \subseteq asked' /\ changes' \in {changes, changes + 1} /\ changes \in Nat
  BY DEF CommitInv, TypeOK, Next, Begin, Continue, Validate, Promote, CheckSource, CheckTarget,
     CheckId, BeginTx, Fetch, Skip, ReadTarget, PutWhole, PutFiltered, Upsert, NoTable,
     CommitTx, InsertLog, Fail, Write, SetStatus, history, vars
<1> QED
  BY <1>1 DEF Alone, SelectsOnce, Covers

LEMMA OnceNext == CommitInv /\ OnceInv /\ [Next]_vars => OnceInv'
<1> SUFFICES ASSUME CommitInv, OnceInv, [Next]_vars, NEW r \in Cherries, Alone(r)'
             PROVE  Settled(r)' /\ \A d \in Clients : Undivided(r, d)'
  BY DEF OnceInv
<1>1. /\ Alone(r) /\ UNCHANGED changes
      /\ Settled(r) /\ \A d \in Clients : Undivided(r, d)
  BY AloneBefore DEF OnceInv
<1>2. ASSUME NEW c \in Clients, Continue(c) \/ Fail(c) \/ \E s \in Cherries : Begin(c, s)
      PROVE  Settled(r)' /\ \A d \in Clients : Undivided(r, d)'
  <2>1. AloneStep(r, c)
    BY <1>1, <1>2, QuietAlone, FetchAlone, SkipAlone, ReadTargetAlone, PutWholeAlone,
       PutFilteredAlone, CommitTxAlone DEF Continue, Promote
  <2>2. OthersKept(c)
    BY <1>2, CallStep DEF ClientStep
  <2>3. ASSUME NEW d \in Clients PROVE Undivided(r, d)'
    <3>1. CASE d = c
      BY <2>1, <3>1 DEF AloneStep
    <3>2. CASE d # c
      BY <1>1, <2>1, <2>2, <3>2, OthersUndivided DEF AloneStep
    <3> QED
      BY <3>1, <3>2
  <2> QED
    BY <2>1, <2>3 DEF AloneStep
<1>3. CASE UNCHANGED vars
  <2>1. OthersKept(NoClient) /\ UNCHANGED <<db, first>>
    BY <1>3 DEF OthersKept, vars, locals, stores, history
  <2> QED
    BY <1>1, <2>1, OthersUndivided, NothingLands, CommitAssumption
<1>4. ASSUME NEW b \in Branches, NEW e \in Entities, NEW row \in Rows \cup {Absent},
             Write(b, e, row)
      PROVE  FALSE
  BY <1>1, <1>4 DEF Write, CommitInv, TypeOK
<1>5. ASSUME NEW b \in Branches, NEW s \in Statuses, SetStatus(b, s) PROVE FALSE
  BY <1>1, <1>5 DEF SetStatus, CommitInv, TypeOK
<1> QED
  BY <1>2, <1>3, <1>4, <1>5 DEF Next

LEMMA OnceInit == Init => OnceInv
<1> SUFFICES ASSUME Init, NEW r \in Cherries
             PROVE  Settled(r) /\ \A c \in Clients : Undivided(r, c)
  BY DEF OnceInv
<1>1. Settled(r)
  BY DEF Init, Settled
<1>2. ASSUME NEW c \in Clients PROVE Undivided(r, c)
  <2>1. pc[c] = "idle" /\ base[c] = <<>> /\ staged[c] = Blank /\ result[c] = "none"
    BY DEF Init
  <2> QED
    BY <2>1 DEF Undivided, Blank
<1> QED
  BY <1>1, <1>2

\* Retried after an error or raced by another task, a cherry-pick that selects no
\* row twice has the effect of one call: the databases are the first ones or those
\* after it, and the latter once a call has answered with success.
THEOREM CommittedOnce == Spec => []CommitOnce
<1>1. OnceInv => CommitOnce
  BY DEF OnceInv, CommitOnce, Alone, Settled, Undivided
<1>2. Spec => []OnceInv
  BY CommitInit, OnceInit, CommitNext, OnceNext, PTL DEF Spec
<1> QED
  BY <1>1, <1>2, PTL
=============================================================================
