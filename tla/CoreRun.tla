-------------------------------- MODULE CoreRun --------------------------------
(***************************************************************************)
(* The scheduling loop of the TypeScript core, run() in                    *)
(* packages/core/src/orchestrator/shipyard.ts with post-node-handler.ts,   *)
(* the graph file it saves after each change, and the requests that start  *)
(* it again: resume, retry and edit.                                       *)
(*                                                                         *)
(* run() is one coroutine.  Nodes execute concurrently with it, but their  *)
(* results are handled one at a time, and between two awaits nothing else  *)
(* touches the graph.  A step ends with one save of the graph file, so a   *)
(* crash may fall between any two saves.                                   *)
(***************************************************************************)
EXTENDS CoreGraph, FiniteSets

CONSTANTS
  Interactive,  \* run() was given an onCheckpoint handler (server); else the CLI
  Request,      \* the requests a user makes while no run is in progress
  MaxRequests, MaxCrashes, MaxFaults,   \* bounds
  NoGraph,      \* no graph file
  NoNode

ASSUME RunAssumption ==
  /\ Interactive \in BOOLEAN
  /\ Request \subseteq {"resume", "retry_session", "retry_node", "edit"}
  /\ ~Interactive => Request \subseteq {"resume"}
  /\ MaxRequests \in Nat /\ MaxCrashes \in Nat /\ MaxFaults \in Nat
  /\ NoGraph \notin Graph /\ NoNode \notin Node

VARIABLES
  file,      \* durable: the graph file of the session
  graph,     \* the graph of the run in progress
  pc,        \* where run() is; "none" when no run is in progress
  cps,       \* checkpoints the current pass still has to go through
  cur,       \* the checkpoint in progress
  inflight,  \* the keys of the map "running"
  auto,      \* autoApproveResumedCheckpoint
  caller,    \* the route that called run(): its catch clause differs
  attempts,  \* history: how often a node was started since it was last edited
  confirmed, \* history: checkpoints a person agreed to pass
  asked,     \* history: the kinds of requests made so far
  requests, crashes, faults   \* counters of the bounds

loop == <<pc, cps, cur, inflight>>
context == <<auto, caller>>
history == <<attempts, confirmed>>
bounds == <<requests, crashes, faults, asked>>
vars == <<file, graph, pc, cps, cur, inflight, auto, caller, attempts, confirmed,
          requests, crashes, faults, asked>>

PC == {"none", "promote", "checkpoints", "confirm", "pass", "dispatch", "race", "finish"}
Active == pc # "none"

\* checkpoint(): every change is saved at once.
Save(g) == graph' = g /\ file' = g

-----------------------------------------------------------------------------
Init ==
  /\ file = NoGraph /\ graph = NoGraph
  /\ pc = "none" /\ cps = {} /\ cur = NoNode /\ inflight = {}
  /\ auto = FALSE /\ caller = "run"
  /\ attempts = [n \in Node |-> 0] /\ confirmed = {}
  /\ requests = 0 /\ crashes = 0 /\ faults = 0 /\ asked = {}

\* buildGraph, then the first save: a node without dependencies is born ready.
PlannedGraph ==
  [status |-> "running",
   node   |-> [n \in Node |-> IF n \in Tester THEN "absent"
                              ELSE IF DependsOn[n] = {} THEN "ready" ELSE "pending"],
   retry  |-> [n \in Node |-> 0]]

StartRun ==
  /\ ~Active /\ file = NoGraph
  /\ Save(PlannedGraph)
  /\ pc' = "promote"
  /\ UNCHANGED <<cps, cur, inflight, context, history, bounds>>

\* pending -> ready, one node after the other.
Promote ==
  /\ pc = "promote"
  /\ \E n \in Node : /\ IsFirst(n, PromotableNodes(graph))
                     /\ Save([graph EXCEPT !.node[n] = "ready"])
  /\ UNCHANGED <<loop, context, history, bounds>>

\* The list of checkpoints is computed once, before the loop over it.
CollectCheckpoints ==
  /\ pc = "promote" /\ PromotableNodes(graph) = {}
  /\ pc' = "checkpoints" /\ cps' = CheckpointNodes(graph)
  /\ UNCHANGED <<file, graph, cur, inflight, context, history, bounds>>

\* With a handler the run pauses; the CLI passes the checkpoint at once.
ReachCheckpoint ==
  /\ pc = "checkpoints"
  /\ \E n \in Node :
       /\ IsFirst(n, cps) /\ CanTransition(graph, n, "running")
       /\ IF Interactive
          THEN /\ Save(PausedAt(graph, n))
               /\ pc' = "confirm"
          ELSE /\ Save([graph EXCEPT !.node[n] = "running"])
               /\ pc' = "pass"
       /\ cur' = n /\ cps' = cps \ {n}
  /\ UNCHANGED <<inflight, context, history, bounds>>

\* The promise given to the handler is resolved: by POST /resume, ...
Confirm ==
  /\ pc = "confirm" /\ ~auto
  /\ confirmed' = confirmed \cup {cur}
  /\ Save([graph EXCEPT !.status = "running"])
  /\ pc' = "pass"
  /\ UNCHANGED <<cps, cur, inflight, context, attempts, bounds>>

\* ... or by the handler itself, once, in a run resumed from a paused graph.
AutoApprove ==
  /\ pc = "confirm" /\ auto
  /\ auto' = FALSE
  /\ Save([graph EXCEPT !.status = "running"])
  /\ pc' = "pass"
  /\ UNCHANGED <<cps, cur, inflight, caller, history, bounds>>

PassCheckpoint ==
  /\ pc = "pass" /\ CanTransition(graph, cur, "done")
  /\ Save(PassNode(graph, cur))
  /\ pc' = "checkpoints" /\ cur' = NoNode
  /\ UNCHANGED <<cps, inflight, context, history, bounds>>

CheckpointsPassed ==
  /\ pc = "checkpoints" /\ cps = {}
  /\ pc' = "dispatch"
  /\ UNCHANGED <<file, graph, cps, cur, inflight, context, history, bounds>>

\* Checkpoints are left out here: the loop above is meant to have handled them.
Dispatchable(g) == ReadyNodes(g) \ Checkpoint

Dispatch ==
  /\ pc = "dispatch"
  /\ \E n \in Node :
       /\ IsFirst(n, Dispatchable(graph)) /\ CanTransition(graph, n, "running")
       /\ Save([graph EXCEPT !.node[n] = "running"])
       /\ inflight' = inflight \cup {n}
       /\ attempts' = [attempts EXCEPT ![n] = @ + 1]
  /\ UNCHANGED <<pc, cps, cur, context, confirmed, bounds>>

\* Mutant: nothing to dispatch is taken for the end, whatever is in flight.
EndWhenIdle ==
  /\ pc = "dispatch" /\ Dispatchable(graph) = {}
  /\ pc' = "finish"
  /\ UNCHANGED <<file, graph, cps, cur, inflight, context, history, bounds>>

\* Mutant: the loop is left when all is done, not when nothing is in flight.
EndWhenDone ==
  /\ pc = "dispatch" /\ Dispatchable(graph) = {}
  /\ pc' = CASE AllDone(graph) -> "finish"
             [] ~AllDone(graph) /\ inflight = {} -> "promote"
             [] OTHER -> "race"
  /\ UNCHANGED <<file, graph, cps, cur, inflight, context, history, bounds>>

EndOfPass ==
  /\ pc = "dispatch" /\ Dispatchable(graph) = {}
  /\ pc' = IF inflight = {} THEN "finish" ELSE "race"
  /\ UNCHANGED <<file, graph, cps, cur, inflight, context, history, bounds>>

-----------------------------------------------------------------------------
(* Promise.race: any node in flight may be the one that settled first; its  *)
(* result is verified, reviewed and saved before the next pass.             *)

CanRetry(g, n) == g.retry[n] < MaxRetries[n]

Raced(n, s) == pc = "race" /\ n \in inflight /\ CanTransition(graph, n, s)

\* Mutant: the result is only saved with the next change.
SettledUnsaved(n, g) ==
  /\ graph' = g
  /\ inflight' = inflight \ {n}
  /\ pc' = "promote"
  /\ UNCHANGED <<file, cps, cur, context, history, bounds>>

Settled(n, g) ==
  /\ Save(g)
  /\ inflight' = inflight \ {n}
  /\ pc' = "promote"
  /\ UNCHANGED <<cps, cur, context, history, bounds>>

\* handleFatalExecutionError, handleVerificationFailure
HandleFailure(n) ==
  /\ Raced(n, "failed")
  /\ \/ CanRetry(graph, n) /\ Settled(n, RetryNode(graph, n))
     \/ ~CanRetry(graph, n) /\ Settled(n, FailNode(graph, n))

\* Mutant: a rejected review does not count as a retry.
HandleReviewUncounted(n) ==
  /\ Raced(n, "failed")
  /\ Settled(n, [graph EXCEPT !.node[n] = "ready"])

HandleReviewRejection(n) ==
  /\ Raced(n, "failed")
  /\ \/ CanRetry(graph, n) /\ Settled(n, RedoNode(graph, n))
     \/ ~CanRetry(graph, n) /\ Settled(n, FailNode(graph, n))

HandleVerifiedSuccess(n) ==
  /\ Raced(n, "done")
  /\ Settled(n, CompleteNode(graph, n))

HandleCompletedNode ==
  \E n \in Node : HandleFailure(n) \/ HandleReviewRejection(n) \/ HandleVerifiedSuccess(n)

-----------------------------------------------------------------------------
(* The end of run()                                                         *)

\* The tester pass, if it finds files without tests: run() calls itself.
AppendTesters ==
  /\ pc = "finish" /\ AllDone(graph)
  /\ \E added \in SUBSET (Node \ Present(graph)) :
       /\ added # {} /\ Save(AppendDeferredTesters(graph, added))
  /\ pc' = "promote"
  /\ UNCHANGED <<cps, cur, inflight, context, history, bounds>>

Return(g) ==
  /\ file' = g /\ graph' = NoGraph
  /\ pc' = "none" /\ auto' = FALSE
  /\ UNCHANGED <<cps, cur, inflight, caller, history, bounds>>

ReturnDone ==
  /\ pc = "finish" /\ AllDone(graph)
  /\ Return([graph EXCEPT !.status = "done"])

\* Nodes are left over, or the compile check of the whole output fails.
ReturnFailed ==
  /\ pc = "finish"
  /\ Return([graph EXCEPT !.status = "failed"])

-----------------------------------------------------------------------------
(* The process dies, or a call in run() throws and the promise is rejected. *)

Lost ==
  /\ graph' = NoGraph /\ pc' = "none" /\ auto' = FALSE
  /\ cps' = {} /\ cur' = NoNode /\ inflight' = {}
  /\ UNCHANGED <<caller, history>>

Crash ==
  /\ Active /\ crashes < MaxCrashes
  /\ crashes' = crashes + 1
  /\ Lost
  /\ UNCHANGED <<file, requests, faults, asked>>

\* runWithLegacy marks what was running in the file as failed; the resume
\* routes and the CLI leave the file as it is.
PatchStuck(g) ==
  LET stuck == WithStatus(g, "running")
  IN  [g EXCEPT !.node = [n \in Node |->
         IF n \in stuck THEN "failed"
         ELSE IF g.node[n] \in {"pending", "ready"} /\ DependsOn[n] \cap stuck # {}
         THEN "blocked" ELSE g.node[n]]]

RunThrows ==
  /\ Active /\ pc # "confirm" /\ faults < MaxFaults
  /\ faults' = faults + 1
  /\ file' = IF Interactive /\ caller = "run" THEN PatchStuck(file) ELSE file
  /\ Lost
  /\ UNCHANGED <<requests, crashes, asked>>

-----------------------------------------------------------------------------
(* Requests between two runs (routes/resume.ts, routes/node.ts).  What they *)
(* do to a run in progress is left to a model of the server.                *)

Requested(r) ==
  /\ ~Active /\ file # NoGraph
  /\ r \in Request /\ requests < MaxRequests
  /\ requests' = requests + 1 /\ asked' = asked \cup {r}

\* Mutant: nodes that were running when the process died stay running.
StartAsFound(loaded) ==
  /\ Save([loaded EXCEPT !.status = "running"])
  /\ auto' = (Interactive /\ loaded.status = "paused")
  /\ caller' = "resume"
  /\ pc' = "promote"
  /\ UNCHANGED <<cps, cur, inflight, attempts, crashes, faults>>

\* The graph is loaded, prepared, saved and run; a graph found paused lets the
\* first checkpoint pass.
StartAgain(loaded) ==
  /\ Save(PrepareForResume(loaded))
  /\ auto' = (Interactive /\ loaded.status = "paused")
  /\ caller' = "resume"
  /\ pc' = "promote"
  /\ UNCHANGED <<cps, cur, inflight, attempts, crashes, faults>>

\* POST /resume: on a paused session it is the person's answer to the
\* checkpoint that waits.
Resume ==
  /\ Requested("resume")
  /\ StartAgain(file)
  /\ confirmed' = IF file.status = "paused"
                  THEN confirmed \cup (WithStatus(file, "running") \cap Checkpoint)
                  ELSE confirmed

\* Mutant: blocked nodes are made ready, too.
RetriedAllReady(g) ==
  [g EXCEPT !.status = "running",
            !.node = [n \in Node |-> IF g.node[n] \in {"failed", "blocked"} THEN "ready"
                                     ELSE g.node[n]]]

\* Mutant: the status of the graph is kept.
RetriedKeepingStatus(g) ==
  [g EXCEPT !.node = [n \in Node |-> CASE g.node[n] = "failed" -> "ready"
                                       [] g.node[n] = "blocked" -> "pending"
                                       [] OTHER -> g.node[n]]]

RetriedGraph(g) ==
  [g EXCEPT !.status = "running",
            !.node = [n \in Node |-> CASE g.node[n] = "failed" -> "ready"
                                       [] g.node[n] = "blocked" -> "pending"
                                       [] OTHER -> g.node[n]]]

\* POST /session/retry
RetrySession ==
  /\ Requested("retry_session")
  /\ WithStatus(file, "failed") \cup WithStatus(file, "blocked") # {} \/ file.status = "failed"
  /\ StartAgain(RetriedGraph(file))
  /\ UNCHANGED confirmed

\* POST /node/:id/retry: the status of the graph stays what it was.  Retrying
\* a checkpoint that waited is taken for its confirmation.
RetryOneNode ==
  /\ Requested("retry_node")
  /\ \E n \in WithStatus(file, "failed") \cup WithStatus(file, "running") :
       /\ CanTransition(file, n, "ready")
       /\ StartAgain([file EXCEPT !.node[n] = "ready"])
       /\ confirmed' = confirmed \cup ({n} \cap Checkpoint)

\* POST /node/:id/edit: the file is changed, nothing is started.
EditNode ==
  /\ Requested("edit")
  /\ \E n \in Present(file) :
       /\ file' = ApplyNodeChange(file, n)
       /\ attempts' = [m \in Node |-> IF m \in AffectedBy(n) THEN 0 ELSE attempts[m]]
       /\ confirmed' = confirmed \ AffectedBy(n)
  /\ UNCHANGED <<graph, loop, context, crashes, faults>>

-----------------------------------------------------------------------------
RunStep ==
  \/ Promote \/ CollectCheckpoints \/ ReachCheckpoint \/ AutoApprove \/ PassCheckpoint
  \/ CheckpointsPassed \/ Dispatch \/ EndOfPass \/ HandleCompletedNode
  \/ AppendTesters \/ ReturnDone \/ ReturnFailed

Next ==
  \/ StartRun \/ RunStep \/ Confirm
  \/ Crash \/ RunThrows
  \/ Resume \/ RetrySession \/ RetryOneNode \/ EditNode

Spec == Init /\ [][Next]_vars

\* run() goes on by itself: executions are bounded by the step limit of the
\* agent loop and by the timeouts of compilers and model calls.
FairSpec == Spec /\ WF_vars(RunStep)

-----------------------------------------------------------------------------
(* Correctness                                                              *)

\* Every variable has a value of its type; without a run in progress the
\* variables of run() are empty.
TypeOK ==
  /\ file \in Graph \cup {NoGraph}
  /\ pc \in PC
  /\ IF Active THEN graph \in Graph /\ file \in Graph
     ELSE graph = NoGraph /\ cps = {} /\ cur = NoNode /\ inflight = {} /\ auto = FALSE
  /\ cps \subseteq Checkpoint
  /\ IF pc \in {"confirm", "pass"} THEN cur \in Checkpoint ELSE cur = NoNode
  /\ inflight \subseteq Node \ Checkpoint
  /\ auto \in BOOLEAN /\ caller \in {"run", "resume"}
  /\ attempts \in [Node -> Nat] /\ confirmed \subseteq Checkpoint
  /\ requests \in Nat /\ crashes \in Nat /\ faults \in Nat
  /\ asked \subseteq Request

\* The nodes shown as running are those that execute and the checkpoint that
\* waits.  A node in flight may therefore always become done, failed or ready:
\* the transition table never makes run() throw with results outstanding.
InFlightIsRunning ==
  Active => WithStatus(graph, "running")
            = inflight \cup (IF pc \in {"confirm", "pass"} THEN {cur} ELSE {})

\* Whenever run() waits for a person or for a result, the graph file is the
\* graph: what a crash destroys is only the work that was still in flight.
SavedWhileWaiting == pc \in {"confirm", "race"} => file = graph

\* A blocked node waits for something that is not done, in memory and in the
\* file: no order of failures, retries, checkpoints, crashes and edits leaves a
\* node blocked that nothing will unblock.
BlockedHasOpenDependency ==
  \A g \in {graph, file} \ {NoGraph} :
    \A n \in WithStatus(g, "blocked") : ~DependenciesDone(g, n)

\* run() ends with a node that is not done only because that node failed or
\* because it depends, directly or not, on one that failed: as long as no node is
\* retried alone that may be a checkpoint failed with its run, and unless
\* checkpoints follow one another (GatesApart of CoreRun_proofs).
NothingRunnableLeft ==
  pc = "finish" /\ ("retry_node" \in asked => Checkpoint = {} \/ faults = 0) =>
    \A n \in Present(graph) \ WithStatus(graph, "done") :
      \E f \in WithStatus(graph, "failed") : n \in AffectedBy(f)

\* A node is started once, once more for each retry that was counted, and once
\* for each crash, rejected run or request: retries are bounded by maxRetries
\* whatever the kind of the failure.
AttemptsBounded ==
  \A n \in Node : file # NoGraph =>
    /\ file.retry[n] <= MaxRetries[n]
    /\ attempts[n] <= file.retry[n] + 1 + crashes + faults + requests

\* Until a single node is retried or edited, a checkpoint is done only after a
\* person confirmed it: by answering the pause, or by resuming the session that
\* was found paused at it.
GateConfirmed ==
  Interactive /\ file # NoGraph /\ asked \subseteq {"resume", "retry_session"} =>
    WithStatus(file, "done") \cap Checkpoint \subseteq confirmed

Started == {n \in Planned : attempts[n] > 0}
FileDone == IF file = NoGraph THEN {} ELSE WithStatus(file, "done")

Dag == INSTANCE DagRun WITH
  Node      <- Planned,
  DependsOn <- [n \in Planned |-> DependsOn[n]],
  started   <- Started,
  completed <- (FileDone \cap Planned) \ Checkpoint,
  approved  <- FileDone \cap Checkpoint,
  finished  <- file # NoGraph /\ file.status = "done"

\* The file is a legal run of the planned graph through crashes, retries and
\* edits: a start with open dependencies, a completion without a start, a lost
\* completion, an edit that keeps a result built on the edited node, or a
\* "done" with open nodes would be a step DagRun does not have.
ImplementsDagRun == Dag!Spec

\* A run in progress ends or asks a person, whatever fails: retries, unblocked
\* nodes and deferred testers do not keep it going forever.
RunEnds == Active ~> pc \in {"none", "confirm"}

\* Until a node is edited, a checkpoint is offered for confirmation only when all
\* it is about was done, however often nodes failed, were retried and were taken
\* up again before.
CheckpointOffered == pc = "confirm" /\ "edit" \notin asked => DependenciesDone(graph, cur)
=============================================================================
