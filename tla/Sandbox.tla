------------------------------ MODULE Sandbox ------------------------------
(***************************************************************************)
(* Simulations: BranchEngine::simulate, and hosts that drive the sandbox   *)
(* themselves (SimulationEnvironment, SandboxRunner, SandboxEvaluator).    *)
(* A fork of the parent is handed to an agent, diffed with the parent when *)
(* the agent is done, and a recommendation is returned.  The branches and  *)
(* their metrics are those of Metrics.                                     *)
(*                                                                         *)
(* simulate has no timeout and leaves the sandbox behind; a host may use   *)
(* run_with_timeout and teardown.                                          *)
(***************************************************************************)
EXTENDS Metrics

CONSTANTS
  Hosts,           \* tasks that run simulations
  NoHost,          \* somebody else
  MaxBranches,     \* config: max_branches_per_workspace
  Threshold,       \* config: divergence_threshold, a fraction <<n, d>>
  MaxSimulations   \* bound on the simulations

ASSUME SandboxAssumption ==
  /\ NoHost \notin Hosts
  /\ MaxBranches \in Nat \ {0}
  /\ Threshold \in Nat \X Nat /\ 0 < Threshold[1] /\ Threshold[1] <= Threshold[2]
  /\ MaxSimulations \in Nat

VARIABLES
  sim,           \* the simulation of each host
  simulations,   \* history: the number of simulations, to bound them
  drifted,       \* history: whether others wrote to the parent or the sandbox
  since          \* history: what the parent has held since the fork

sandboxVars == <<sim, simulations, drifted, since>>
allVars     == <<vars, sandboxVars>>

\* env is SandboxStatus; report is the Recommendation that was returned.
NoSim ==
  [step |-> "idle", timed |-> FALSE, on |-> NoBranch, branch |-> NoBranch, copy |-> Blank,
   env |-> "none", view |-> NoView, report |-> "none"]

SandboxInit ==
  /\ Init
  /\ sim = [h \in Hosts |-> NoSim]
  /\ simulations = 0
  /\ drifted = [h \in Hosts |-> {}]
  /\ since = [h \in Hosts |-> [e \in Entities |-> {}]]

In(h, step)     == sim[h].step = step
Step(h, step)   == sim' = [sim EXCEPT ![h].step = step]
Running(h)      == sim[h].step \notin {"idle", "over"}
LiveRows        == {b \in Branches : status[b] \in Live}

-----------------------------------------------------------------------------
(* Setup: the fork of BranchLifecycle, without slugs and the lineage.      *)

\* A host with an environment of its own can ask for a timeout.
Begin(h, p, timed) ==
  /\ In(h, "idle")
  /\ simulations < MaxSimulations
  /\ p \in Rows
  /\ sim' = [sim EXCEPT ![h] = [NoSim EXCEPT !.step = "check", !.timed = timed, !.on = p]]
  /\ simulations' = simulations + 1
  /\ UNCHANGED <<vars, drifted, since>>

CheckParent(h) ==
  /\ In(h, "check")
  /\ Step(h, IF status[sim[h].on] \in Live /\ Cardinality(LiveRows) < MaxBranches
             THEN "copy" ELSE "over")
  /\ UNCHANGED <<vars, simulations, drifted, since>>

Used == {sim[h].branch : h \in Hosts}

CopyParent(h) ==
  /\ In(h, "copy")
  /\ IF file[sim[h].on]
       THEN /\ \E b \in Branches \ (Rows \cup Used) :
                 sim' = [sim EXCEPT ![h].step = "insert", ![h].branch = b,
                                     ![h].copy = db[sim[h].on]]
            /\ since' = [since EXCEPT ![h] = [e \in Entities |-> {db[sim[h].on][e]}]]
       ELSE Step(h, "over") /\ UNCHANGED since
  /\ UNCHANGED <<vars, simulations, drifted>>

\* The row comes first, and is read as one without metrics.
InsertSandbox(h) ==
  LET b == sim[h].branch IN
  /\ In(h, "insert")
  /\ status' = [status EXCEPT ![b] = "active"]
  /\ parent' = [parent EXCEPT ![b] = sim[h].on]
  /\ file' = [file EXCEPT ![b] = TRUE]
  /\ db' = [db EXCEPT ![b] = sim[h].copy]
  /\ Disturb({})
  /\ Step(h, "measure")
  /\ UNCHANGED <<metrics, commits, job, calls, changes, done, overlapped,
                 simulations, drifted, since>>

\* Then its metrics, whatever has been recorded meanwhile; the environment is Running.
InsertMetrics(h) ==
  LET b == sim[h].branch IN
  /\ In(h, "measure")
  /\ metrics' = [metrics EXCEPT ![b] = Fresh(sim[h].copy)]
  /\ overlapped' = [overlapped EXCEPT ![b] = @ \/ metrics[b] # NoMetrics
                                              \/ \E t \in Trackers : b \in Holds(t)]
  /\ Disturb({})
  /\ sim' = [sim EXCEPT ![h].step = "open", ![h].env = "running", ![h].copy = Blank]
  /\ UNCHANGED <<status, parent, commits, file, db, job, calls, changes, done,
                 simulations, drifted, since>>

-----------------------------------------------------------------------------
(* The run: the agent has a pool on the sandbox.                           *)

OpenSandbox(h) ==
  /\ In(h, "open")
  /\ Step(h, IF file[sim[h].branch] THEN "agent" ELSE "over")
  /\ UNCHANGED <<vars, simulations, drifted, since>>

\* The histories of the simulations follow a write that is not of agent h.
Observe(h) ==
  /\ drifted' = [g \in Hosts |-> drifted[g] \cup
       {b \in {sim[g].branch, sim[g].on} \ {NoBranch} : g # h /\ Running(g) /\ db'[b] # db[b]}]
  /\ since' = [g \in Hosts |-> [e \in Entities |->
       IF Running(g) /\ sim[g].branch # NoBranch
       THEN since[g][e] \cup {db'[sim[g].on][e]} ELSE since[g][e]]]

AgentWrites(h, e, row) ==
  LET b == sim[h].branch IN
  /\ In(h, "agent")
  /\ changes < MaxChanges /\ changes' = changes + 1
  /\ file[b] /\ row # db[b][e]
  /\ db' = [db EXCEPT ![b][e] = row]
  /\ Disturb({})
  /\ Observe(h)
  /\ UNCHANGED <<registry, file, job, calls, done, overlapped, sim, simulations>>

AgentDone(h) ==
  /\ In(h, "agent")
  /\ sim' = [sim EXCEPT ![h].step = "pools", ![h].env = "completed"]
  /\ UNCHANGED <<vars, simulations, drifted, since>>

AgentFails(h) ==
  /\ In(h, "agent")
  /\ sim' = [sim EXCEPT ![h].step = "over", ![h].env = "failed"]
  /\ UNCHANGED <<vars, simulations, drifted, since>>

\* Mutant: the timeout is not looked at.
TimeoutIgnored(h) == FALSE /\ UNCHANGED allVars

\* tokio::time::timeout drops the agent at the await it is parked at: between two
\* of its writes, each of which is one await.
Timeout(h) ==
  /\ In(h, "agent") /\ sim[h].timed
  /\ sim' = [sim EXCEPT ![h].step = "over", ![h].env = "failed"]
  /\ UNCHANGED <<vars, simulations, drifted, since>>

-----------------------------------------------------------------------------
(* The evaluation: a diff of the sandbox and the parent.                   *)

OpenBoth(h) ==
  /\ In(h, "pools")
  /\ Step(h, IF file[sim[h].branch] /\ file[sim[h].on] THEN "diff" ELSE "over")
  /\ UNCHANGED <<vars, simulations, drifted, since>>

\* Mutant: rows that only the sandbox has are not counted.
RecommendNoRemoved(a, b) ==
  LET differ == Cardinality(Added(a, b) \cup Modified(a, b)) IN
  IF differ = 0 THEN "discard"
  ELSE IF differ * Threshold[2] >= Threshold[1] * Cardinality(Union(a, b))
    THEN "review" ELSE "commit"

\* recommend.  The metrics are those of the fork, without operations; the score
\* of the diff is the share of differing rows (score_divergence).
Recommend(a, b) ==
  LET differ == Cardinality(Added(a, b) \cup Removed(a, b) \cup Modified(a, b)) IN
  IF differ = 0 THEN "discard"
  ELSE IF differ * Threshold[2] >= Threshold[1] * Cardinality(Union(a, b))
    THEN "review" ELSE "commit"

Evaluate(h) ==
  /\ In(h, "diff")
  /\ LET view == Seen(sim[h].view, sim[h].branch, sim[h].on) IN
     sim' = IF Complete(view)
            THEN [sim EXCEPT ![h].view = NoView, ![h].step = "over",
                             ![h].report = Recommend(view.a, view.b)]
            ELSE [sim EXCEPT ![h].view = view]
  /\ UNCHANGED <<vars, simulations, drifted, since>>

\* An error of any await, or a dropped call.
Fail(h) ==
  /\ Running(h)
  /\ Step(h, "over")
  /\ UNCHANGED <<vars, simulations, drifted, since>>

-----------------------------------------------------------------------------
(* What a host does with the sandbox afterwards.                           *)

TeardownRead(h) ==
  /\ In(h, "over")
  /\ sim[h].env # "none" /\ status[sim[h].branch] \in Live
  /\ Step(h, "teardown")
  /\ UNCHANGED <<vars, simulations, drifted, since>>

TeardownWrite(h) ==
  /\ In(h, "teardown")
  /\ status' = [status EXCEPT ![sim[h].branch] = "discarded"]
  /\ Disturb({})
  /\ sim' = [sim EXCEPT ![h].step = "over", ![h].env = "abandoned"]
  /\ UNCHANGED <<parent, metrics, commits, file, db, job, calls, changes, done, overlapped,
                 simulations, drifted, since>>

\* The host goes on to something else; the sandbox stays as it is.
Forget(h) ==
  /\ In(h, "over")
  /\ sim' = [sim EXCEPT ![h] = NoSim]
  /\ drifted' = [drifted EXCEPT ![h] = {}]
  /\ since' = [since EXCEPT ![h] = [e \in Entities |-> {}]]
  /\ UNCHANGED <<vars, simulations>>

\* What the engine does by itself once the host has called.
Engine(h) ==
  \/ CheckParent(h) \/ CopyParent(h) \/ InsertSandbox(h) \/ InsertMetrics(h)
  \/ OpenSandbox(h) \/ Timeout(h) \/ OpenBoth(h) \/ Evaluate(h) \/ TeardownWrite(h)

Host(h) ==
  \/ \E p \in Branches, timed \in BOOLEAN : Begin(h, p, timed)
  \/ Engine(h)
  \/ \E e \in Entities, row \in Contents \cup {Absent} : AgentWrites(h, e, row)
  \/ AgentDone(h) \/ AgentFails(h) \/ Fail(h) \/ TeardownRead(h) \/ Forget(h)

World == /\ (\E t \in Trackers : Tracker(t)) \/ Others
         /\ Observe(NoHost)
         /\ UNCHANGED <<sim, simulations>>

Next == World \/ \E h \in Hosts : Host(h)

Spec == SandboxInit /\ [][Next]_allVars

\* tokio polls every call that can go on and fires every timer.  Nothing is
\* assumed of agents: they may never return.
FairSpec == Spec /\ \A h \in Hosts : WF_allVars(Engine(h))

-----------------------------------------------------------------------------
(* Properties.                                                             *)

\* Every variable has its type.
SandboxTypeOK ==
  /\ TypeOK
  /\ \A h \in Hosts :
       /\ sim[h].branch \in Branches \cup {NoBranch} /\ sim[h].on \in Branches \cup {NoBranch}
       /\ sim[h].env \in {"none", "running", "completed", "failed", "abandoned"}
       /\ sim[h].report \in {"none", "discard", "review", "commit"}
  /\ simulations \in Nat

Differ(a, b) == {e \in Entities : db[a][e] # db[b][e]}
Both(a, b)   == {e \in Entities : db[a][e] # Absent \/ db[b][e] # Absent}

\* Following "discard" loses nothing: every row of the sandbox, and the lack of
\* one, is as the parent has had it at some time since the fork, whoever wrote to
\* the parent meanwhile.  If nobody did, "discard" says that the agent changed
\* nothing in effect, and the other answers are on the right side of the threshold.
RecommendationTruthful ==
  [][\A h \in Hosts :
       LET s == sim[h]
           answer == sim'[h].report IN
       Evaluate(h) /\ answer # "none" =>
         /\ answer = "discard" /\ s.branch \notin drifted[h] =>
              \A e \in Entities : db[s.branch][e] \in since[h][e]
         /\ drifted[h] = {} =>
              answer = IF Differ(s.branch, s.on) = {} THEN "discard"
                       ELSE IF Threshold[2] * Cardinality(Differ(s.branch, s.on))
                               < Threshold[1] * Cardinality(Both(s.branch, s.on))
                       THEN "commit" ELSE "review"]_allVars

\* A run with a timeout comes to an end, even if its agent never does.
TimedRunsEnd ==
  \A h \in Hosts : sim[h].timed /\ Running(h) ~> ~ Running(h)
=============================================================================
