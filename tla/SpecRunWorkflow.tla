---------------------------- MODULE SpecRunWorkflow ----------------------------
(***************************************************************************)
(* The Temporal orchestrator: SpecRunWorkflow in packages/                 *)
(* orchestrator-temporal, its signals, and the activities it calls.        *)
(*                                                                         *)
(* The workflow is one coroutine.  What it does between two awaits is one  *)
(* step; signals are handled, and activities settle, while it awaits.  Its *)
(* variables survive a crash of the worker, because Temporal replays them; *)
(* an activity is tried three times, and only its final outcome is seen.   *)
(***************************************************************************)
EXTENDS Naturals

CONSTANTS
  Node,
  DependsOn,       \* dependsOnMap
  Orders,          \* orders in which the planner may list the nodes
  CoreActivities,  \* the activities of spec-run.activities.ts; else any that
                   \* keep to their interface, like those of the tests
  NoNode,
  MaxSignals, MaxFaults   \* bounds

ASSUME WorkflowAssumption ==
  /\ DependsOn \in [Node -> SUBSET Node]
  /\ Orders \subseteq [Node -> Nat]
  /\ \A o \in Orders : \A m, n \in Node : o[m] = o[n] => m = n
  /\ CoreActivities \in BOOLEAN
  /\ NoNode \notin Node
  /\ MaxSignals \in Nat /\ MaxFaults \in Nat

VARIABLES
  pc,           \* what the workflow awaits
  order,        \* the order of the keys of nodeStatuses
  status,       \* nodeStatuses
  visit,        \* what is left of the copy of the pending nodes a loop walks
  starting,     \* the node announced as running whose activity is not called yet
  running,      \* the map "running": where the activity of a node is
  skipPending,
  cancelled,
  outcome,      \* how the workflow ended
  signals, faults   \* counters of the bounds

loop == <<pc, status, visit, starting>>
bounds == <<signals, faults>>
vars == <<pc, order, status, visit, starting, running, skipPending, cancelled,
          outcome, signals, faults>>

NodeStatus == {"pending", "running", "done", "failed", "skipped", "blocked"}
Notifying == {"blocking", "starting", "notifying"}   \* awaits of notifyNodeUpdate
PC == Notifying \cup {"planning", "waiting", "racing", "saving", "over"}
Activity == {"none", "executing", "reviewed", "done", "failed"}

Pending(st) == {n \in Node : st[n] = "pending"}
Terminal(st) == \A n \in Node : st[n] \notin {"pending", "running"}
InFlight(run) == {n \in Node : run[n] # "none"}
IsFirst(n, S) == n \in S /\ \A m \in S : order[n] <= order[m]
Behind(n, S) == {m \in S : order[m] > order[n]}

\* Mutants: one dependency is enough; a blocked dependency does not block.
AnyDepReady(n, st) ==
  DependsOn[n] = {} \/ \E d \in DependsOn[n] : st[d] \in {"done", "skipped"}
HasDepsFailed(n, st) == \E d \in DependsOn[n] : st[d] = "failed"

IsDepsReady(n, st) == \A d \in DependsOn[n] : st[d] \in {"done", "skipped"}

HasDepsBlocked(n, st) == \E d \in DependsOn[n] : st[d] \in {"failed", "blocked"}

-----------------------------------------------------------------------------
Init ==
  /\ pc = "planning" /\ order \in Orders
  /\ status = [n \in Node |-> "pending"]
  /\ visit = {} /\ starting = NoNode
  /\ running = [n \in Node |-> "none"]
  /\ skipPending = {} /\ cancelled = FALSE /\ outcome = "none"
  /\ signals = 0 /\ faults = 0

(* What the coroutine does up to its next await, with statuses st and       *)
(* activities run.  A copy of the entries is walked in their order; the     *)
(* statuses of dependencies are read at the time, the node's own is not.    *)

Await(where, st, left, n) == pc' = where /\ status' = st /\ visit' = left /\ starting' = n

\* The copy also serves the condition, which waits for one of these to change.
EndOfPass(st, run) ==
  \/ InFlight(run) # {} /\ Await("racing", st, {}, NoNode)
  \/ InFlight(run) = {} /\ Pending(st) # {} /\ Await("waiting", st, Pending(st), NoNode)
  \/ InFlight(run) = {} /\ Pending(st) = {} /\ Await("saving", st, {}, NoNode)

DispatchPass(st, run, left) ==
  LET ready == {n \in left : run[n] = "none" /\ IsDepsReady(n, st)}
  IN  \/ ready = {} /\ EndOfPass(st, run)
      \/ \E n \in ready :
           /\ IsFirst(n, ready)
           /\ Await("starting", [st EXCEPT ![n] = "running"], Behind(n, left), n)

BlockPass(st, run, left) ==
  LET stuck == {n \in left : HasDepsBlocked(n, st)}
  IN  \/ stuck = {} /\ DispatchPass(st, run, Pending(st))
      \/ \E n \in stuck :
           /\ IsFirst(n, stuck)
           /\ Await("blocking", [st EXCEPT ![n] = "blocked"], Behind(n, left), NoNode)

LoopTop(st, run) ==
  \/ (Terminal(st) \/ cancelled) /\ Await("saving", st, {}, NoNode)
  \/ ~Terminal(st) /\ ~cancelled /\ BlockPass(st, run, Pending(st))

-----------------------------------------------------------------------------
(* The awaits of the workflow return.                                       *)

\* planGraph answered.
Planned ==
  /\ pc = "planning" /\ LoopTop(status, running)
  /\ UNCHANGED <<order, running, skipPending, cancelled, outcome, bounds>>

\* planGraph answered that there is no plan; the activity of the core throws.
PlanFailed ==
  /\ pc = "planning" /\ ~CoreActivities
  /\ pc' = "over" /\ outcome' = "failed"
  /\ UNCHANGED <<order, status, visit, starting, running, skipPending, cancelled, bounds>>

BlockedNotified ==
  /\ pc = "blocking" /\ BlockPass(status, running, visit)
  /\ UNCHANGED <<order, running, skipPending, cancelled, outcome, bounds>>

\* Mutant: the promise is not put into the map.
CallUnrecorded ==
  /\ pc = "starting" /\ DispatchPass(status, running, visit)
  /\ UNCHANGED <<order, running, skipPending, cancelled, outcome, bounds>>

\* The activity is called only after the node was announced as running.
CallActivity ==
  /\ pc = "starting"
  /\ LET called == [running EXCEPT ![starting] = "executing"]
     IN  running' = called /\ DispatchPass(status, called, visit)
  /\ UNCHANGED <<order, skipPending, cancelled, outcome, bounds>>

\* Mutant: a queued skip is forgotten.
SettleAsReturned(n) == [status EXCEPT ![n] = running[n]]

\* The status a settled node takes, and those of the nodes it unblocks.
Settle(n) ==
  LET s == IF n \in skipPending THEN "skipped" ELSE running[n]
  IN  [m \in Node |->
         IF m = n THEN s
         ELSE IF s = "done" /\ status[m] = "blocked" /\ n \in DependsOn[m] THEN "pending"
         ELSE status[m]]

HandleResult(n) ==
  /\ pc = "racing" /\ running[n] \in {"done", "failed"}
  /\ running' = [running EXCEPT ![n] = "none"]
  /\ skipPending' = skipPending \ {n}
  /\ Await("notifying", Settle(n), {}, NoNode)
  /\ UNCHANGED <<order, cancelled, outcome, bounds>>

ResultNotified ==
  /\ pc = "notifying" /\ LoopTop(status, running)
  /\ UNCHANGED <<order, running, skipPending, cancelled, outcome, bounds>>

WakeUp ==
  /\ pc = "waiting" /\ (cancelled \/ \E n \in visit : status[n] # "pending")
  /\ LoopTop(status, running)
  /\ UNCHANGED <<order, running, skipPending, cancelled, outcome, bounds>>

\* persistGraph returned; the statuses are read now, after the await.
Finish ==
  /\ pc = "saving"
  /\ pc' = "over"
  /\ outcome' = IF cancelled THEN "cancelled"
                ELSE IF \E n \in Node : status[n] = "failed" THEN "failed" ELSE "done"
  /\ UNCHANGED <<order, status, visit, starting, running, skipPending, cancelled, bounds>>

\* planGraph, notifyNodeUpdate or persistGraph failed three times: nothing
\* catches it, and the workflow ends where it is.
Throw ==
  /\ pc \in Notifying \cup {"planning", "saving"} /\ faults < MaxFaults
  /\ faults' = faults + 1
  /\ pc' = "over" /\ outcome' = "thrown"
  /\ UNCHANGED <<order, status, visit, starting, running, skipPending, cancelled, signals>>

-----------------------------------------------------------------------------
(* The activity executeNode.                                                *)

\* The node's status in the graph file: what buildGraph gave it, since the file
\* changes only when an activity succeeds.
InFile(n) == IF DependsOn[n] = {} THEN "ready" ELSE "pending"

Graph == INSTANCE CoreGraph WITH
  Checkpoint <- {}, Tester <- {}, Order <- [n \in Node |-> 0], MaxRetries <- [n \in Node |-> 0]

\* Written, verified and reviewed.
PassReview(n) ==
  /\ running[n] = "executing"
  /\ running' = [running EXCEPT ![n] = "reviewed"]
  /\ UNCHANGED <<loop, order, skipPending, cancelled, outcome, bounds>>

\* The node is moved to done with transitionNode, which throws for a status from
\* which the table does not allow it; the promise is then rejected.
ReturnResult(n) ==
  /\ running[n] = "reviewed"
  /\ running' = [running EXCEPT ![n] =
       IF CoreActivities /\ "done" \notin Graph!ValidTransitions[InFile(n)]
       THEN "failed" ELSE "done"]
  /\ UNCHANGED <<loop, order, skipPending, cancelled, outcome, bounds>>

\* Three attempts threw, answered too late, or were not verified or reviewed.
FailActivity(n) ==
  /\ running[n] = "executing"
  /\ running' = [running EXCEPT ![n] = "failed"]
  /\ UNCHANGED <<loop, order, skipPending, cancelled, outcome, bounds>>

-----------------------------------------------------------------------------
(* Signals.  Before the plan there are no statuses, after the end no        *)
(* handlers; a signal that changes nothing is left out.                     *)

Signal == pc # "over" /\ signals < MaxSignals /\ signals' = signals + 1

RetryNode(n) ==
  /\ Signal /\ pc # "planning"
  /\ status[n] = "failed"
  /\ status' = [status EXCEPT ![n] = "pending"]
  /\ UNCHANGED <<pc, order, visit, starting, running, skipPending, cancelled, outcome, faults>>

\* Mutant: a running node is skipped at once.
SkipAtOnce(n) ==
  /\ Signal /\ pc # "planning"
  /\ status[n] \in {"pending", "failed", "blocked", "running"}
  /\ status' = [status EXCEPT ![n] = "skipped"]
  /\ UNCHANGED <<pc, order, visit, starting, running, skipPending, cancelled, outcome, faults>>

SkipNode(n) ==
  /\ Signal /\ pc # "planning"
  /\ \/ /\ status[n] \in {"pending", "failed", "blocked"}
        /\ status' = [status EXCEPT ![n] = "skipped"]
        /\ UNCHANGED skipPending
     \/ /\ status[n] = "running"
        /\ skipPending' = skipPending \cup {n}
        /\ UNCHANGED status
  /\ UNCHANGED <<pc, order, visit, starting, running, cancelled, outcome, faults>>

CancelRun ==
  /\ Signal /\ ~cancelled
  /\ cancelled' = TRUE
  /\ UNCHANGED <<loop, order, running, skipPending, outcome, faults>>

-----------------------------------------------------------------------------
Workflow ==
  \/ Planned \/ PlanFailed \/ BlockedNotified \/ CallActivity \/ ResultNotified
  \/ WakeUp \/ Finish
  \/ \E n \in Node : HandleResult(n)

ExecuteNode(n) == PassReview(n) \/ ReturnResult(n) \/ FailActivity(n)

Next ==
  \/ Workflow
  \/ Throw
  \/ CancelRun
  \/ \E n \in Node : ExecuteNode(n) \/ RetryNode(n) \/ SkipNode(n)

Spec == Init /\ [][Next]_vars

\* An activity ends, because each attempt is given ten minutes.
FairSpec == Spec /\ WF_vars(Workflow) /\ \A n \in Node : WF_vars(ExecuteNode(n))

-----------------------------------------------------------------------------
TypeOK ==
  /\ pc \in PC /\ order \in Orders
  /\ status \in [Node -> NodeStatus]
  /\ visit \subseteq Node /\ starting \in Node \cup {NoNode}
  /\ running \in [Node -> Activity]
  /\ skipPending \subseteq Node /\ cancelled \in BOOLEAN
  /\ outcome \in {"none", "done", "failed", "cancelled", "thrown"}
  /\ signals \in 0..MaxSignals /\ faults \in 0..MaxFaults

\* The plan lists every node behind what it depends on.
Topological == \A n \in Node : \A d \in DependsOn[n] : order[d] < order[n]

\* What a query shows as running is what executes, whose result nobody took
\* yet, or what is about to be called; and only such a node can be waiting to be
\* skipped.  No signal, however late, takes a node away from its activity.
InFlightIsRunning ==
  /\ {n \in Node : status[n] = "running"} = InFlight(running) \cup ({starting} \cap Node)
  /\ skipPending \subseteq {n \in Node : status[n] = "running"}

\* A node is blocked only while something it depends on is not done: the end of a
\* retried node gives every dependent back, also one that was blocked meanwhile
\* from a stale copy of the statuses.
BlockedWaits ==
  \A n \in Node : status[n] = "blocked" => \E d \in DependsOn[n] : status[d] # "done"

\* In a plan listed in order of the dependencies, whatever was called has every
\* dependency done or skipped, and no later signal or stale copy takes that back.
DependenciesFirst ==
  Topological => \A n \in Node :
    status[n] \in {"running", "done", "failed"} =>
      \A d \in DependsOn[n] : status[d] \in {"done", "skipped"}

\* The workflow waits for a signal only when the plan lists a node before one
\* it depends on: otherwise one pass blocks all there is to block.
WaitsOnlyOutOfOrder == pc = "waiting" => ~Topological

\* A skip that found its node running takes effect when the result arrives,
\* unless the workflow ended first.
SkipTakesEffect ==
  \A n \in Node : n \in skipPending ~> (status[n] = "skipped" \/ pc \in {"saving", "over"})

\* The workflow ends, or waits for a signal that need not come.
Ends == <>[](pc \in {"over", "waiting"}) /\ (Topological => <>(pc = "over"))

\* The run ends when all nodes are done, failed or skipped, or it was cancelled
\* (the scheduling rules at the head of spec-run.workflow.ts); so a run reported
\* as done has every node done or skipped.
DoneMeansFinished ==
  outcome = "done" => \A n \in Node : status[n] \in {"done", "skipped"}

\* A node that was written, verified and reviewed is done: the two modes of the
\* orchestrator behave alike (docs/temporal-phase4-runbook.md).
ReviewedIsDone ==
  [][\A n \in Node : running[n] = "reviewed" => running'[n] \in {"reviewed", "done"}]_vars
=============================================================================
