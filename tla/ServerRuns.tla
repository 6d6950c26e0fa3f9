------------------------------ MODULE ServerRuns ------------------------------
(***************************************************************************)
(* The routes of the TypeScript server that start, resume, retry, edit and *)
(* delete sessions while runs of them are in progress (apps/server/src,    *)
(* routes/run.ts, resume.ts, node.ts, projects.ts), the two maps that are  *)
(* meant to keep runs apart, and the operation log beside the graph file   *)
(* (packages/core, persistence/op-log.ts, op-replay.ts).                   *)
(*                                                                         *)
(* A handler runs to its first await without interruption, and run() saves *)
(* the graph and reports it to the log without an await in between, so     *)
(* each of these is one step, in which some of the log entries may fail to *)
(* be written.  CoreRun has the inside of run().                           *)
(***************************************************************************)
EXTENDS CoreGraph, FiniteSets

CONSTANTS
  Session,
  MaxRuns,        \* bound: calls of run()
  MaxRequests,    \* bound: requests other than POST /run and POST /resume
  MaxCrashes,     \* bound: ends of the process
  MaxFaults,      \* bound: exceptions out of run(), and reports the log does not get
  NoGraph         \* no graph file

ASSUME ServerAssumption ==
  /\ MaxRuns \in Nat /\ MaxRequests \in Nat /\ MaxCrashes \in Nat /\ MaxFaults \in Nat
  /\ NoGraph \notin Graph /\ Session # {}

RunId == 1..MaxRuns
NoRun == 0

VARIABLES
  sess,      \* durable: status in session.json, or what there is without one
  file,      \* durable: the graph file
  replay,    \* durable: node statuses the operation log replays to
  running,   \* runningSessions
  pending,   \* pendingCheckpointResumes: the run whose promise is to be resolved
  runs,      \* the calls of run() and of the handlers that await them
  made,      \* calls so far
  touched,   \* history: nodes changed behind the log or the run since a run
             \* began, and nodes whose entry failed or came from a run before
  requests, crashes, faults   \* counters of the bounds

stores == <<sess, file, replay>>
maps == <<running, pending>>
counts == <<requests, crashes>>
bounds == <<requests, crashes, faults>>
vars == <<sess, file, replay, running, pending, runs, made, touched,
          requests, crashes, faults>>

\* A session that was deleted, and one of which there is a directory again,
\* without a session.json.
SessionStatus == {"none", "running", "paused", "done", "failed", "deleted", "remains"}
Stage == {"plan",   \* buildGraph
          "work",   \* the loop of run()
          "wait",   \* the promise given to onCheckpoint
          "pass",   \* that promise was resolved
          "cut",    \* run() was rejected, its executions in flight go on
          "over"}
Caller == {"run", "resume", "retry"}

\* "late": nodes of its graph that it could not save and so did not report.
Idle == [stage |-> "over", session |-> CHOOSE s \in Session : TRUE, graph |-> NoGraph,
         auto |-> FALSE, caller |-> "run", late |-> {}]

\* There is a session.json; there is a directory.
Exists(s) == sess[s] \notin {"none", "deleted", "remains"}
Directory(s) == sess[s] \notin {"none", "deleted"}
At(stages) == {r \in RunId : runs[r].stage \in stages}
Of(s) == {r \in RunId : r <= made /\ runs[r].session = s}
Newest(s) == {r \in Of(s) : \A q \in Of(s) : q <= r}
Workers(s) == Of(s) \cap At({"plan", "work", "pass"})

Init ==
  /\ sess = [s \in Session |-> "none"] /\ file = [s \in Session |-> NoGraph]
  /\ replay = [s \in Session |-> [n \in Node |-> "unlogged"]]
  /\ running = {} /\ pending = [s \in Session |-> NoRun]
  /\ runs = [r \in RunId |-> Idle] /\ made = 0
  /\ touched = [s \in Session |-> {}]
  /\ requests = 0 /\ crashes = 0 /\ faults = 0

-----------------------------------------------------------------------------
(* The operation log                                                        *)

\* appendNodeOpsFromStatus, with the revision just read
NodeOps(nodes, g) == [n \in nodes |-> g.node[n]]

\* replaySessionOperations: the last status logged of a node.
Replayed(old, ops) == [n \in Node |-> IF n \in DOMAIN ops THEN ops[n] ELSE old[n]]

\* appendSessionOperation
AppendOps(s, ops) == [replay EXCEPT ![s] = Replayed(@, ops)]

\* Mutant: a status the graph file has already is not logged again.
LogNewInFile(s, nodes, g) ==
  AppendOps(s, NodeOps({n \in nodes : file[s] = NoGraph \/ file[s].node[n] # g.node[n]}, g))

LogStatuses(s, nodes, g) == AppendOps(s, NodeOps(nodes, g))

\* What the page is shown of a session: the replayed status of a node if there
\* is one, and the one in the graph file otherwise.
EventGraph(s) ==
  [n \in Node |-> IF replay[s][n] = "unlogged" THEN file[s].node[n] ELSE replay[s][n]]

\* buildParityReport
Mismatched(s) == {n \in Node : EventGraph(s)[n] # file[s].node[n]}

Changed(f, g) == {n \in Node : f.node[n] # g.node[n]}

\* prevNodeStatus: the nodes whose status this run did not report before.
Unreported(r, g) ==
  IF runs[r].graph = NoGraph THEN Present(g) ELSE Changed(runs[r].graph, g)

\* A graph is saved and the statuses of the given nodes are logged, where the
\* log was behind in some already.  appendShadowOperation leaves it at a warning
\* when an entry cannot be written, and nobody writes it later.
Save(s, g, nodes, behind) ==
  \E lost \in SUBSET nodes :
    /\ file' = [file EXCEPT ![s] = g]
    /\ replay' = LogStatuses(s, nodes \ lost, g)
    /\ touched' = [touched EXCEPT ![s] = behind \cup lost]
    /\ IF lost = {} THEN UNCHANGED faults ELSE faults < MaxFaults /\ faults' = faults + 1

\* checkpoint() in run(), with the onUpdate of the route
Update(r, g) == LET s == runs[r].session IN Save(s, g, Unreported(r, g), touched[s])

\* Whatever is written for a session makes its directory again.
WithDirectory(s) == [sess EXCEPT ![s] = IF @ = "deleted" THEN "remains" ELSE @]

\* updateSession, which does nothing without a session.json, and the entry of it
\* in the log, which may fail.
SetStatus(s, status) ==
  \E t \in IF Exists(s) THEN {status} ELSE {sess[s], WithDirectory(s)[s]} :
    sess' = [sess EXCEPT ![s] = t]

SetSessionRunning(s) == running' = running \cup {s}
ClearSessionRunning(s) == running' = running \ {s}
SetPending(s, r) == pending' = [pending EXCEPT ![s] = r]

Touch(s, nodes) == touched' = [touched EXCEPT ![s] = @ \cup nodes]

-----------------------------------------------------------------------------
(* run(), seen from the server                                              *)

PlannedGraph ==
  [status |-> "running",
   node   |-> [n \in Node |-> IF n \in Tester THEN "absent"
                              ELSE IF DependsOn[n] = {} THEN "ready" ELSE "pending"],
   retry  |-> [n \in Node |-> 0]]

Quiescent(g) ==
  /\ WithStatus(g, "running") = {} /\ PromotableNodes(g) = {}
  /\ ReadyNodes(g) \ Checkpoint = {} /\ CheckpointNodes(g) = {}

\* What one save of the loop may change.
Successors(g) ==
  {[g EXCEPT !.node[n] = "ready"] : n \in PromotableNodes(g)}
  \cup {[g EXCEPT !.node[n] = "running"] : n \in ReadyNodes(g) \ Checkpoint}
  \cup {CompleteNode(g, n) : n \in WithStatus(g, "running") \ Checkpoint}
  \cup {FailNode(g, n) : n \in {m \in WithStatus(g, "running") : g.retry[m] >= MaxRetries[m]}}
  \cup {RetryNode(g, n) : n \in {m \in WithStatus(g, "running") : g.retry[m] < MaxRetries[m]}}

\* What a run may save next.
PassedGraphs(g) ==
  {[PassNode(g, n) EXCEPT !.status = "running"] : n \in WithStatus(g, "running") \cap Checkpoint}

FinalGraphs(g) ==
  IF ~Quiescent(g) THEN {}
  ELSE {[g EXCEPT !.status = t] : t \in IF AllDone(g) THEN {"done", "failed"} ELSE {"failed"}}

SavedNext(r) ==
  LET g == runs[r].graph IN
  CASE runs[r].stage = "plan" -> {PlannedGraph}
    [] runs[r].stage = "work" ->
         Successors(g) \cup {PausedAt(g, n) : n \in CheckpointNodes(g)} \cup FinalGraphs(g)
    [] runs[r].stage = "pass" -> PassedGraphs(g)
    [] OTHER -> {}

\* run() starts its own log, which makes the directory.
SavePlan(r) ==
  LET s == runs[r].session IN
  /\ runs[r].stage = "plan"
  /\ sess' = WithDirectory(s)
  /\ Save(s, PlannedGraph, Present(PlannedGraph), {})
  /\ runs' = [runs EXCEPT ![r].graph = PlannedGraph, ![r].stage = "work"]
  /\ UNCHANGED <<maps, made, counts>>

Work(r) ==
  /\ runs[r].stage = "work" /\ Directory(runs[r].session)
  /\ \E g \in Successors(runs[r].graph) :
       Update(r, g) /\ runs' = [runs EXCEPT ![r].graph = g]
  /\ UNCHANGED <<sess, maps, made, counts>>

\* writeCheckpointSummary makes the directory.  The run pauses, and the handler of
\* the route hands out its promise or, once in a run resumed from a paused graph,
\* resolves it.
ReachCheckpoint(r) ==
  /\ runs[r].stage = "work"
  /\ \E n \in CheckpointNodes(runs[r].graph) :
       LET s == runs[r].session
           g == PausedAt(runs[r].graph, n)
       IN  /\ Update(r, g)
           /\ IF runs[r].auto
              THEN /\ runs' = [runs EXCEPT ![r].graph = g, ![r].auto = FALSE,
                                           ![r].stage = "pass"]
                   /\ sess' = WithDirectory(s)
                   /\ UNCHANGED maps
              ELSE /\ runs' = [runs EXCEPT ![r].graph = g, ![r].stage = "wait"]
                   /\ SetPending(s, r)
                   /\ sess' = [sess EXCEPT ![s] = IF Exists(s) THEN "paused" ELSE "remains"]
                   /\ ClearSessionRunning(s)
  /\ UNCHANGED <<made, counts>>

PassCheckpoint(r) ==
  /\ runs[r].stage = "pass" /\ Directory(runs[r].session)
  /\ \E g \in PassedGraphs(runs[r].graph) :
       Update(r, g) /\ runs' = [runs EXCEPT ![r].graph = g, ![r].stage = "work"]
  /\ UNCHANGED <<sess, maps, made, counts>>

Over(r) == runs' = [runs EXCEPT ![r] = [Idle EXCEPT !.session = runs[r].session]]

\* The handler after its run: runResumeSession leaves the pending promise alone.
Finally(r, keeps) ==
  LET s == runs[r].session IN
  /\ pending' = IF keeps THEN pending ELSE [pending EXCEPT ![s] = NoRun]
  /\ running' = IF pending'[s] = NoRun THEN running \ {s} ELSE running

Return(r) ==
  LET s == runs[r].session IN
  /\ runs[r].stage = "work" /\ Directory(s)
  /\ \E g \in FinalGraphs(runs[r].graph) : Update(r, g) /\ SetStatus(s, g.status)
  /\ Finally(r, runs[r].caller = "retry")
  /\ Over(r)
  /\ UNCHANGED <<made, counts>>

\* buildGraph gives up, or a plan is not valid: there never is a graph file.
PlanFails(r) ==
  /\ runs[r].stage = "plan"
  /\ SetStatus(runs[r].session, "failed")
  /\ Finally(r, FALSE)
  /\ Over(r)
  /\ UNCHANGED <<file, replay, made, touched, bounds>>

\* The catch clause of runWithLegacy marks what was running as failed.
PatchStuck(g) ==
  LET stuck == WithStatus(g, "running")
  IN  [g EXCEPT !.node = [n \in Node |->
         IF n \in stuck THEN "failed"
         ELSE IF g.node[n] \in {"pending", "ready"} /\ DependsOn[n] \cap stuck # {}
         THEN "blocked" ELSE g.node[n]]]

\* The executions of a run, none of which it just started.
Executing(g) == WithStatus(g, "running") \ Checkpoint

\* run() throws; a save does when the session's directory is gone.  The
\* executions in flight go on, and have the graph of the run as it is in memory.
Throw(r) ==
  LET s == runs[r].session
      old == runs[r].graph
      patched == IF runs[r].caller = "run" /\ file[s] # NoGraph THEN PatchStuck(file[s])
                 ELSE file[s]
  IN
  /\ r \in At({"plan", "work", "pass"})
  /\ IF Directory(s) \/ runs[r].stage = "plan"
     THEN faults < MaxFaults /\ faults' = faults + 1 ELSE UNCHANGED faults
  /\ SetStatus(s, "failed")
  /\ file' = [file EXCEPT ![s] = patched]
  /\ Touch(s, IF file[s] = NoGraph THEN {} ELSE Changed(file[s], patched))
  /\ Finally(r, FALSE)
  /\ \/ Over(r)
     \/ \E g \in {old} \cup SavedNext(r) :
          /\ runs[r].stage # "plan" /\ Executing(old) \cap Executing(g) # {}
          /\ runs' = [runs EXCEPT ![r].stage = "cut", ![r].graph = g,
                                  ![r].late = Changed(old, g)]
  /\ UNCHANGED <<replay, made, requests, crashes>>

\* A tool call of an execution in flight, in a run or after it: it may write
\* files, and onUpdate reports what was not reported.  A node of which the log
\* has no status yet is taken to be pending from then on.
LiveToolCall(r) ==
  LET s == runs[r].session
      g == runs[r].graph
      late == runs[r].late
  IN
  /\ r \in At({"work", "wait", "pass", "cut"})
  /\ \E n \in Executing(g) \ late :
       LET new == IF replay[s][n] = "unlogged" THEN {n} ELSE {} IN
       /\ replay' = [AppendOps(s, NodeOps(late, g)) EXCEPT
                       ![s][n] = IF n \in new THEN "pending" ELSE @]
       /\ Touch(s, late \cup new)
  /\ sess' = WithDirectory(s)
  /\ runs' = [runs EXCEPT ![r].late = {}]
  /\ UNCHANGED <<file, maps, made, bounds>>

-----------------------------------------------------------------------------
(* Routes                                                                   *)

\* One more call of run(); a graph given to it is saved and logged at once.
Begin(s, stage, g, auto, caller) ==
  /\ made < MaxRuns
  /\ made' = made + 1
  /\ runs' = [runs EXCEPT ![made + 1] =
       [stage |-> stage, session |-> s, graph |-> g, auto |-> auto, caller |-> caller,
        late |-> {}]]
  /\ SetSessionRunning(s)

\* POST /run: one task at a time.
StartRun(s) ==
  /\ sess[s] = "none"
  /\ running = {} /\ \A t \in Session : pending[t] = NoRun
  /\ sess' = [sess EXCEPT ![s] = "running"]
  /\ Begin(s, "plan", NoGraph, FALSE, "run")
  /\ UNCHANGED <<file, replay, pending, touched, bounds>>

BeginResumed(s, loaded, caller) ==
  LET g == PrepareForResume(loaded) IN
  /\ Begin(s, "work", g, loaded.status = "paused", caller)
  /\ Save(s, g, Present(g), {})

\* Mutant: session.json keeps the status it has.
ResumeSilently(s) ==
  /\ running = {} /\ pending[s] # NoRun
  /\ runs' = [runs EXCEPT ![pending[s]].stage = "pass"]
  /\ SetPending(s, NoRun)
  /\ SetSessionRunning(s)
  /\ sess' = WithDirectory(s)
  /\ UNCHANGED <<file, replay, made, touched, bounds>>

\* POST /resume of a session that waits at a checkpoint.
ResumePending(s) ==
  /\ running = {} /\ pending[s] # NoRun
  /\ runs' = [runs EXCEPT ![pending[s]].stage = "pass"]
  /\ SetPending(s, NoRun)
  /\ SetStatus(s, "running")
  /\ SetSessionRunning(s)
  /\ UNCHANGED <<file, replay, made, touched, bounds>>

ResumeFile(s) ==
  /\ running = {} /\ pending[s] = NoRun
  /\ file[s] # NoGraph
  /\ BeginResumed(s, file[s], "resume")
  /\ SetStatus(s, "running")
  /\ UNCHANGED <<pending, counts>>

\* A request that needs no more than the graph file.
Requested(s) ==
  /\ file[s] # NoGraph
  /\ requests < MaxRequests /\ requests' = requests + 1
  /\ UNCHANGED crashes

\* Mutant: a run is started whether or not one of the session is in progress.
RunResumeAlways(s, g, logged, changed) ==
  BeginResumed(s, g, "retry") /\ UNCHANGED pending

\* The graph is saved and logged; runResumeSession starts a run unless this
\* session is marked as running.
RunResumeSession(s, g, logged, changed) ==
  \/ s \notin running /\ BeginResumed(s, g, "retry") /\ UNCHANGED pending
  \/ s \in running /\ Save(s, g, logged, touched[s] \cup changed) /\ UNCHANGED <<maps, runs, made>>

RetriedGraph(g) ==
  [g EXCEPT !.status = "running",
            !.node = [n \in Node |-> CASE g.node[n] = "failed" -> "ready"
                                       [] g.node[n] = "blocked" -> "pending"
                                       [] OTHER -> g.node[n]]]

\* POST /session/retry
RetrySession(s) ==
  LET g == RetriedGraph(file[s]) IN
  /\ Requested(s)
  /\ Changed(file[s], g) # {} \/ file[s].status = "failed"
  /\ RunResumeSession(s, g, WithStatus(g, "ready") \cup WithStatus(g, "pending"),
                      Changed(file[s], g))
  /\ SetStatus(s, "running")

\* POST /node/:id/retry
Retryable(g) == WithStatus(g, "failed") \cup WithStatus(g, "running")

RetryOneNode(s) ==
  /\ Requested(s)
  /\ \E n \in Retryable(file[s]) :
       RunResumeSession(s, [file[s] EXCEPT !.node[n] = "ready"], {n}, {n})
  /\ IF s \in running THEN UNCHANGED sess ELSE SetStatus(s, "running")

\* POST /node/:id/edit: one status is logged, all that depends on it changes.
EditNode(s) ==
  /\ Requested(s)
  /\ \E n \in Present(file[s]) :
       LET others == IF Of(s) \subseteq At({"over", "cut"}) THEN {n} ELSE {}
       IN  Save(s, ApplyNodeChange(file[s], n), {n}, touched[s] \cup (AffectedBy(n) \ others))
  /\ UNCHANGED <<sess, maps, runs, made>>

\* GET of the graph, from a log with nothing in it: ensureBackfilledOperations
\* writes the statuses of the graph file, as far as it gets.
Backfill(s) ==
  /\ file[s] # NoGraph /\ \A n \in Node : replay[s][n] = "unlogged"
  /\ \E nodes \in SUBSET Present(file[s]) : replay' = AppendOps(s, NodeOps(nodes, file[s]))
  /\ UNCHANGED <<sess, file, maps, runs, made, touched, bounds>>

\* DELETE of a session or of its project: a run in progress is not told.
DeleteSession(s) ==
  /\ Directory(s)
  /\ requests < MaxRequests /\ requests' = requests + 1
  /\ sess' = [sess EXCEPT ![s] = "deleted"]
  /\ file' = [file EXCEPT ![s] = NoGraph]
  /\ replay' = [replay EXCEPT ![s] = [n \in Node |-> "unlogged"]]
  /\ UNCHANGED <<maps, runs, made, touched, crashes, faults>>

-----------------------------------------------------------------------------
(* The process ends and is started again.                                   *)

AllOver == runs' = [r \in RunId |-> [Idle EXCEPT !.session = runs[r].session]]

\* What requests save.
RequestedGraphs(g) ==
  {PrepareForResume(g), RetriedGraph(g)}
  \cup {[g EXCEPT !.node[n] = "ready"] : n \in Retryable(g)}
  \cup {ApplyNodeChange(g, n) : n \in Present(g)}

\* What a run or a request may save next, and the nodes to be logged after that.
SaveSet(s) ==
  (UNION {{[graph |-> g, nodes |-> Unreported(r, g)] : g \in SavedNext(r)} : r \in Workers(s)})
  \cup
  (IF file[s] = NoGraph THEN {}
   ELSE {[graph |-> g, nodes |-> Changed(file[s], g)] : g \in RequestedGraphs(file[s])})

\* Between a save and the log of it is a place to end, too.
Crash ==
  /\ crashes < MaxCrashes /\ crashes' = crashes + 1
  /\ running' = {} /\ pending' = [s \in Session |-> NoRun]
  /\ AllOver
  /\ \/ UNCHANGED <<file, touched>>
     \/ \E s \in Session : Directory(s) /\ \E saved \in SaveSet(s) :
          file' = [file EXCEPT ![s] = saved.graph] /\ Touch(s, saved.nodes)
  /\ UNCHANGED <<sess, replay, made, requests, faults>>

Next ==
  \/ \E r \in RunId : \/ SavePlan(r) \/ Work(r) \/ ReachCheckpoint(r) \/ PassCheckpoint(r)
                      \/ Return(r) \/ PlanFails(r) \/ Throw(r) \/ LiveToolCall(r)
  \/ \E s \in Session : \/ StartRun(s) \/ ResumePending(s) \/ ResumeFile(s)
                        \/ RetrySession(s) \/ RetryOneNode(s) \/ EditNode(s)
                        \/ Backfill(s) \/ DeleteSession(s)
  \/ Crash

Spec == Init /\ [][Next]_vars

-----------------------------------------------------------------------------
(* Properties                                                               *)

TypeOK ==
  /\ sess \in [Session -> SessionStatus]
  /\ file \in [Session -> Graph \cup {NoGraph}]
  /\ replay \in [Session -> [Node -> NodeStatus \cup {"unlogged"}]]
  /\ running \subseteq Session
  /\ pending \in [Session -> RunId \cup {NoRun}]
  /\ runs \in [RunId -> [stage : Stage, session : Session, graph : Graph \cup {NoGraph},
                         auto : BOOLEAN, caller : Caller, late : SUBSET Node]]
  /\ made \in 0..MaxRuns
  /\ touched \in [Session -> SUBSET Node]

\* Only the last started run of a session ever saves its graph: one that waits
\* at a checkpoint while a retry starts another beside it is never resumed.
OneWriter == \A s \in Session : Workers(s) \subseteq Newest(s)

\* A session shown as paused can be resumed: its promise is at hand, or the
\* process that had it is gone and the graph file is there.
PausedCanResume ==
  \A s \in Session : sess[s] = "paused" =>
    \/ pending[s] \in At({"wait"})
    \/ crashes > 0 /\ file[s] # NoGraph

\* The mark of a session as running outlives its runs only when a promise of a
\* run it superseded is left.
MarkedMeansRunning ==
  \A s \in running : Workers(s) # {} \/ pending[s] \in At({"wait"})

\* A node for which the replay of the operation log differs from the graph file
\* was, after the last run of the session began, changed by an edit, a retry
\* beside a run, the clean-up of a rejected run or a crash before it was logged;
\* or its entry could not be written; or an execution in flight reported it late,
\* after its run was rejected or its session deleted.
ReplayExplained ==
  \A s \in Session : file[s] # NoGraph => Mismatched(s) \subseteq touched[s]
=============================================================================
