------------------------------ MODULE DagStore ------------------------------
(***************************************************************************)
(* DagSerializer: the lineage in the tables dag_nodes and dag_edges.       *)
(*                                                                         *)
(* Each statement is a transaction of its own.  delete_node takes two and  *)
(* load_graph reads in two; other tasks, or another process on the same    *)
(* file, come in between.  sqlx turns foreign keys on: an edge needs both  *)
(* its nodes, and INSERT OR IGNORE does not ignore a missing one.          *)
(***************************************************************************)
EXTENDS Naturals, SequencesExt, Acyclicity

CONSTANTS
  Ids,          \* branch ids
  Workspaces,   \* workspaces that share the registry
  Nowhere,      \* no row in dag_nodes
  Cursors,      \* merge cursors
  NoCursor,     \* NULL
  Clients,      \* tasks that use the serializer
  MaxCalls      \* bound on the calls

ASSUME StoreAssumption ==
  Nowhere \notin Workspaces /\ NoCursor \notin Cursors /\ MaxCalls \in Nat

VARIABLES
  workspace,   \* dag_nodes: the workspace of a branch, or Nowhere
  edges,       \* dag_edges: the pairs <<parent, child>>
  cursor,      \* dag_edges.merge_cursor
  job,         \* the call of each client between its statements, or Free
  loaded,      \* what the last load_graph of each client has returned
  calls,       \* history: the number of calls, to bound them
  known        \* history: the nodes there were at some time, and all the time, of a load

tables == <<workspace, edges, cursor>>
vars   == <<tables, job, loaded, calls, known>>

Free     == [step |-> "free"]
Nothing  == [ever |-> {}, always |-> {}]
NoGraph  == [answer |-> "none", nodes |-> {}, edges |-> {}]
Pairs    == Ids \X Ids
NodesOf(w)  == {b \in Ids : workspace[b] = w}
EdgesAt(b)  == {e \in edges : b \in {e[1], e[2]}}

Init ==
  /\ workspace = [b \in Ids |-> Nowhere]
  /\ edges = {}
  /\ cursor = [e \in Pairs |-> NoCursor]
  /\ job = [c \in Clients |-> Free]
  /\ loaded = [c \in Clients |-> NoGraph]
  /\ calls = 0
  /\ known = [c \in Clients |-> Nothing]

Call(c) ==
  /\ job[c] = Free
  /\ calls < MaxCalls
  /\ calls' = calls + 1

\* The loads under way follow what there is to be found.
Follow ==
  known' = [c \in Clients |->
    IF job[c].step = "edges"
    THEN LET now == {b \in Ids : workspace'[b] = job[c].of} IN
         [ever |-> known[c].ever \cup now, always |-> known[c].always \cap now]
    ELSE known[c]]

-----------------------------------------------------------------------------
\* save_node: a branch that is there stays in its workspace.
SaveNode(c, b, w) ==
  /\ Call(c)
  /\ workspace' = [workspace EXCEPT ![b] = IF @ = Nowhere THEN w ELSE @]
  /\ Follow
  /\ UNCHANGED <<edges, cursor, job, loaded>>

\* Mutant: INSERT OR REPLACE.
SaveEdgeAnew(c, p, d) ==
  /\ Call(c)
  /\ IF Nowhere \notin {workspace[p], workspace[d]}
     THEN /\ edges' = edges \cup {<<p, d>>}
          /\ cursor' = [cursor EXCEPT ![<<p, d>>] = NoCursor]
     ELSE UNCHANGED <<edges, cursor>>
  /\ UNCHANGED <<workspace, job, loaded, known>>

\* save_edge: without the nodes an error; cycles are not looked for.
SaveEdge(c, p, d) ==
  /\ Call(c)
  /\ edges' = IF Nowhere \in {workspace[p], workspace[d]} THEN edges ELSE edges \cup {<<p, d>>}
  /\ UNCHANGED <<workspace, cursor, job, loaded, known>>

\* update_edge_cursor: no error if there is no such edge.
UpdateEdgeCursor(c, p, d, to) ==
  /\ Call(c)
  /\ cursor' = IF <<p, d>> \in edges THEN [cursor EXCEPT ![<<p, d>>] = to] ELSE cursor
  /\ UNCHANGED <<workspace, edges, job, loaded, known>>

-----------------------------------------------------------------------------
\* delete_node: first the edges.
DeleteEdges(c, b) ==
  /\ Call(c)
  /\ edges' = edges \ EdgesAt(b)
  /\ cursor' = [e \in Pairs |-> IF b \in {e[1], e[2]} THEN NoCursor ELSE cursor[e]]
  /\ job' = [job EXCEPT ![c] = [step |-> "node", of |-> b]]
  /\ UNCHANGED <<workspace, loaded, known>>

\* Mutant: foreign keys are off.
DeleteRowUnchecked(c) ==
  /\ job[c].step = "node"
  /\ workspace' = [workspace EXCEPT ![job[c].of] = Nowhere]
  /\ job' = [job EXCEPT ![c] = Free]
  /\ Follow
  /\ UNCHANGED <<edges, cursor, loaded, calls>>

\* Then the node; an edge that has come meanwhile makes it an error.
DeleteRow(c) ==
  /\ job[c].step = "node"
  /\ workspace' = [workspace EXCEPT ![job[c].of] = IF EdgesAt(job[c].of) = {} THEN Nowhere ELSE @]
  /\ job' = [job EXCEPT ![c] = Free]
  /\ Follow
  /\ UNCHANGED <<edges, cursor, loaded, calls>>

-----------------------------------------------------------------------------
(* load_graph.                                                             *)

\* What is on a cycle of E, or below one.
Stuck(E) == UNION {S \in SUBSET Ids : \A s \in S : \E t \in S : <<t, s>> \in E}

\* The orders in which Kahn's algorithm may list the edges: those into a branch
\* before those out of it; what it does not reach is appended.
InsertOrders(E) ==
  {s \in SetToSeqs(E) :
     \A i, j \in DOMAIN s :
       /\ s[i][1] \notin Stuck(E) /\ s[j][2] = s[i][1] => j < i
       /\ s[i][1] \in Stuck(E) /\ s[j][1] \notin Stuck(E) => j < i}

\* add_edge_meta on the new graph; the first cycle ends the load.
AddEdgeMeta(g, e) ==
  IF g.answer = "cycle" THEN g
  ELSE IF IsAcyclic(Ids, g.edges \cup {e})
    THEN [g EXCEPT !.nodes = @ \cup {e[1], e[2]}, !.edges = @ \cup {e}]
    ELSE [NoGraph EXCEPT !.answer = "cycle"]

\* The graph after all edges were added in their order to one with only nodes.
GraphOf(nodes, order) ==
  LET graph[i \in 0..Len(order)] ==
        IF i = 0 THEN [answer |-> "graph", nodes |-> nodes, edges |-> {}]
        ELSE AddEdgeMeta(graph[i - 1], order[i])
  IN graph[Len(order)]

\* The first query.
LoadNodes(c, w) ==
  /\ Call(c)
  /\ job' = [job EXCEPT ![c] = [step |-> "edges", of |-> w, nodes |-> NodesOf(w)]]
  /\ loaded' = [loaded EXCEPT ![c] = NoGraph]
  /\ known' = [known EXCEPT ![c] = [ever |-> NodesOf(w), always |-> NodesOf(w)]]
  /\ UNCHANGED tables

\* Mutant: only the parent has to be of the workspace.
JoinedByParent(w) == {e \in edges : workspace[e[1]] = w}

Joined(w) == {e \in edges : workspace[e[1]] = w /\ workspace[e[2]] = w}

\* The second query, and the graph.
LoadEdges(c) ==
  /\ job[c].step = "edges"
  /\ \E order \in InsertOrders(Joined(job[c].of)) :
       loaded' = [loaded EXCEPT ![c] = GraphOf(job[c].nodes, order)]
  /\ job' = [job EXCEPT ![c] = Free]
  /\ known' = [known EXCEPT ![c] = Nothing]
  /\ UNCHANGED <<tables, calls>>

\* A crash, an error or a dropped call between two statements.
Drop(c) ==
  /\ job[c] # Free
  /\ job' = [job EXCEPT ![c] = Free]
  /\ known' = [known EXCEPT ![c] = Nothing]
  /\ UNCHANGED <<tables, loaded, calls>>

Next ==
  \E c \in Clients :
    \/ \E b \in Ids : DeleteEdges(c, b) \/ \E w \in Workspaces : SaveNode(c, b, w)
    \/ \E p, d \in Ids : SaveEdge(c, p, d) \/ \E to \in Cursors : UpdateEdgeCursor(c, p, d, to)
    \/ \E w \in Workspaces : LoadNodes(c, w)
    \/ DeleteRow(c) \/ LoadEdges(c) \/ Drop(c)

Spec == Init /\ [][Next]_vars

-----------------------------------------------------------------------------
(* Properties.                                                             *)

\* The tables have their types; whatever comes between the two statements of a
\* delete, an edge joins branches that are there, and a cursor is an edge's.
StoreTypeOK ==
  /\ workspace \in [Ids -> Workspaces \cup {Nowhere}]
  /\ edges \subseteq {e \in Pairs : workspace[e[1]] # Nowhere /\ workspace[e[2]] # Nowhere}
  /\ cursor \in [Pairs -> Cursors \cup {NoCursor}]
  /\ \A e \in Pairs \ edges : cursor[e] = NoCursor

\* A load fails exactly when the stored lineage of its workspace has a cycle when
\* the edges are read, in whatever order they come.  Otherwise it returns exactly
\* those edges with their ends, every branch that was there all the time, and none
\* that never was; a branch deleted in between may be there on its own.
LoadTruthful ==
  [][\A c \in Clients :
       LoadEdges(c) =>
         LET w      == job[c].of
             here   == {b \in Ids : workspace[b] = w}
             within == {e \in edges : {e[1], e[2]} \subseteq here}
             g      == loaded'[c] IN
         IF IsAcyclic(here, within)
         THEN /\ g.answer = "graph" /\ g.edges = within
              /\ known[c].always \subseteq g.nodes
              /\ g.nodes \subseteq known[c].ever
              /\ \A e \in within : {e[1], e[2]} \subseteq g.nodes
         ELSE g.answer = "cycle"]_vars

\* A merge cursor is forgotten only with its edge: an edge saved once more, as a
\* retry does, keeps it.
CursorKept ==
  [][\A e \in edges \cap edges' :
       cursor'[e] # cursor[e] => \E c \in Clients, to \in Cursors :
                                    UpdateEdgeCursor(c, e[1], e[2], to)]_vars
=============================================================================
