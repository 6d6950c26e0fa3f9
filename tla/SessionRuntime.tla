---------------------------- MODULE SessionRuntime ----------------------------
(***************************************************************************)
(* The actor of the Go backend that drives one session                     *)
(* (apps/server-go/internal/runtime/session_runtime.go), the manager entry *)
(* that owns it (manager.go), the three stores it writes and its recovery  *)
(* after the process died (recovery_helpers.go, recovery_service.go).      *)
(*                                                                         *)
(* The actor is sequential: pc says which call it makes next.  A step ends *)
(* with the one durable write (session row, graph snapshot or event        *)
(* append) that closes a stretch of in-memory work, so that a crash or a   *)
(* failing call may fall between any two writes.                           *)
(***************************************************************************)
EXTENDS Naturals, Sequences, FiniteSets

CONSTANTS
  Node,           \* the ids of the planned graph
  Checkpoint,     \* the nodes of type "checkpoint"; the others are "implement"
  DependsOn,      \* the dependencies of a node
  MaxRetries,     \* verification failures a node survives
  QueueCap,       \* capacity of the command channel (16 in the code)
  ClientCommand,  \* commands the HTTP handlers send
  MaxCommands,    \* bound: commands sent in a behaviour
  MaxCrashes,     \* bound: process crashes
  MaxFaults,      \* bound: failing calls (store, planner, verifier)
  NoNode,         \* the node of an event that concerns the whole graph
  NoGraph         \* no snapshot row, no graph in memory

Command == [kind : {"resume"}, node : {NoNode}]
           \cup [kind : {"retry", "approve"}, node : Node]

ASSUME ConstantsAssumption ==
  /\ Node # {} /\ NoNode \notin Node
  /\ Checkpoint \subseteq Node
  /\ DependsOn \in [Node -> SUBSET Node]
  /\ MaxRetries \in [Node -> Nat]
  /\ QueueCap \in Nat /\ MaxCommands \in Nat
  /\ MaxCrashes \in Nat /\ MaxFaults \in Nat
  /\ ClientCommand \subseteq Command

\* "blocked" and "skipped" exist in domain/node.go; no Go code assigns them.
NodeStatus == {"pending", "ready", "running", "verifying", "done", "failed"}
GraphStatus == {"running", "paused", "done", "failed"}
Graph == [status : GraphStatus, node : [Node -> NodeStatus], retry : [Node -> Nat]]

ASSUME NoGraphAssumption == NoGraph \notin Graph

SessionStatus == {"none", "running", "paused", "done", "failed"}

EventType == {"session_created", "graph_initialized", "graph_paused", "graph_completed",
              "graph_failed", "checkpoint_resumed", "checkpoint_approved", "retry_command",
              "node_started", "node_verifying", "node_completed", "node_failed",
              "node_retry"}
Event == [type : EventType, node : Node \cup {NoNode}]

VARIABLES
  sess,     \* durable: status of the session row
  snap,     \* durable: graph_snapshots row
  events,   \* durable: the session's event log; the revision is the index
  graph,    \* r.graph
  pc,       \* the next call of the actor, or where there is no actor
  cur,      \* the node the tick works on
  origin,   \* who called tick: Bootstrap, handleCommand or Restore
  queue,    \* r.commands
  commands, crashes, faults   \* counters of the bounds

durable == <<sess, snap, events>>
memory == <<graph, cur, origin, queue>>
bounds == <<commands, crashes, faults>>
vars == <<sess, snap, events, graph, pc, cur, origin, queue, commands, crashes, faults>>

\* Places where the actor is inside Bootstrap, handleCommand or a recovery tick.
Working == {"plan", "created", "tick", "started", "execute", "verify", "retry_log",
            "pause_save", "pause_log", "done_save", "done_log", "fail_save", "fail_log",
            "command_log_resume", "command_log_retry", "command_log_approve", "save"}
PC == Working \cup {"idle",    \* Run waits for a command
                    "dead",    \* Run returned an error; the manager entry stays
                    "absent",  \* the manager has no entry
                    "down"}    \* the process is not running

\* Manager.sessions has an entry: it is made when Bootstrap or Restore succeeded.
Managed == pc \in (Working \cup {"idle", "dead"}) /\ origin # "boot"

Ev(t, n) == [type |-> t, node |-> n]
Log(evs) == events' = events \o evs

-----------------------------------------------------------------------------
(* The graph (domain/graph_helpers.go)                                      *)

DependenciesSatisfied(g, n) == \A d \in DependsOn[n] : g.node[d] = "done"

\* Mutant: the dependencies are checked when a node is promoted, not again here.
ReadyNodesByStatus(g) == {n \in Node : g.node[n] = "ready"}

ReadyNodes(g) == {n \in Node : g.node[n] = "ready" /\ DependenciesSatisfied(g, n)}

UpdatePendingNodes(g) ==
  [g EXCEPT !.node = [n \in Node |->
     IF g.node[n] = "pending" /\ DependenciesSatisfied(g, n) THEN "ready" ELSE g.node[n]]]

\* Mutant: a failed node counts as finished.
IsGraphSettled(g) == \A n \in Node : g.node[n] \in {"done", "failed"}

IsGraphDone(g) == \A n \in Node : g.node[n] = "done"

\* graphFromPlannerPlan: a node without dependencies is born ready.
PlannedGraph ==
  [status |-> "running",
   node   |-> [n \in Node |-> IF DependsOn[n] = {} THEN "ready" ELSE "pending"],
   retry  |-> [n \in Node |-> 0]]

-----------------------------------------------------------------------------
(* Recovery (recovery_helpers.go)                                           *)

KeepsWaiting(g, n, s) ==
  n \in Checkpoint /\ g.node[n] = "running" /\ s = "paused" /\ g.status = "paused"

NormalizeRecovered(g, s) ==
  UpdatePendingNodes(
    [g EXCEPT
       !.node = [n \in Node |->
          IF g.node[n] \in {"running", "verifying"} /\ ~KeepsWaiting(g, n, s)
          THEN "ready" ELSE g.node[n]],
       !.status = IF s \in {"paused", "failed", "done"} THEN s ELSE @])

ShouldRecover(s) == s \in {"running", "paused", "failed"}

\* Mutant: only a session that was marked interrupted is taken up again.
ResumeInterrupted(s, g) == s = "interrupted" /\ g.status = "running"

ShouldAutoResume(s, g) == s = "running" /\ g.status \notin {"paused", "failed", "done"}

-----------------------------------------------------------------------------
Init ==
  /\ sess = "none" /\ snap = NoGraph /\ events = <<>>
  /\ graph = NoGraph /\ pc = "absent" /\ cur = NoNode /\ origin = "boot" /\ queue = <<>>
  /\ commands = 0 /\ crashes = 0 /\ faults = 0

Go(to) == pc' = to /\ UNCHANGED bounds

\* RunService.StartRun creates the row, then Manager.Start calls Bootstrap.
StartRun ==
  /\ pc = "absent" /\ sess = "none"
  /\ sess' = "running" /\ origin' = "boot"
  /\ Go("plan")
  /\ UNCHANGED <<snap, events, graph, cur, queue>>

BuildGraph ==
  /\ pc = "plan"
  /\ graph' = PlannedGraph
  /\ Go("created")
  /\ UNCHANGED <<durable, cur, origin, queue>>

LogCreated ==
  /\ pc = "created"
  /\ Log(<<Ev("session_created", NoNode), Ev("graph_initialized", NoNode)>>)
  /\ Go("tick")
  /\ UNCHANGED <<sess, snap, memory>>

-----------------------------------------------------------------------------
(* tick                                                                     *)

\* Bootstrap and handleCommand save the graph once tick returned; the
\* goroutine of Restore goes straight to Run.
Return == Go(IF origin = "restore" THEN "idle" ELSE "save") /\ cur' = NoNode

\* Mutant: Run serves one command and returns.
SaveAndExit ==
  /\ pc = "save"
  /\ snap' = graph /\ origin' = "command"
  /\ Go(IF origin = "command" THEN "absent" ELSE "idle")
  /\ UNCHANGED <<sess, events, graph, cur, queue>>

\* Mutant: the callers of tick do not save the graph.
ReturnUnsaved ==
  /\ pc = "save"
  /\ origin' = "command"
  /\ Go("idle")
  /\ UNCHANGED <<sess, snap, events, graph, cur, queue>>

\* The last line of Bootstrap and of handleCommand.  After Bootstrap the manager
\* gets its entry and Run starts to serve the queue.
SaveOnReturn ==
  /\ pc = "save"
  /\ snap' = graph /\ origin' = "command"
  /\ Go("idle")
  /\ UNCHANGED <<sess, events, graph, cur, queue>>

\* Go map iteration: any ready node may come first.
StartNode(n) ==
  LET g == UpdatePendingNodes(graph) IN
  /\ pc = "tick" /\ n \in ReadyNodes(g) \ Checkpoint
  /\ graph' = [g EXCEPT !.node[n] = "running"]
  /\ snap' = graph' /\ cur' = n
  /\ Go("started")
  /\ UNCHANGED <<sess, events, origin, queue>>

LogStarted ==
  /\ pc = "started"
  /\ Log(<<Ev("node_started", cur)>>)
  /\ Go("execute")
  /\ UNCHANGED <<sess, snap, memory>>

ExecuteOk ==
  /\ pc = "execute"
  /\ graph' = [graph EXCEPT !.node[cur] = "verifying"]
  /\ Log(<<Ev("node_verifying", cur)>>)
  /\ Go("verify")
  /\ UNCHANGED <<sess, snap, cur, origin, queue>>

FailNode ==
  /\ graph' = [graph EXCEPT !.node[cur] = "failed", !.status = "failed"]
  /\ sess' = "failed"
  /\ Go("fail_save")
  /\ UNCHANGED <<snap, events, cur, origin, queue>>

ExecuteError == pc = "execute" /\ FailNode

VerifyPassed ==
  /\ pc = "verify"
  /\ graph' = [graph EXCEPT !.node[cur] = "done"]
  /\ Log(<<Ev("node_completed", cur)>>)
  /\ Go("tick")
  /\ UNCHANGED <<sess, snap, cur, origin, queue>>

\* Mutant: the retry count is not saved before the event is appended.
VerifyRetryUnsaved ==
  /\ pc = "verify" /\ graph.retry[cur] < MaxRetries[cur]
  /\ graph' = [graph EXCEPT !.node[cur] = "ready", !.retry[cur] = @ + 1]
  /\ Go("retry_log")
  /\ UNCHANGED <<durable, cur, origin, queue>>

VerifyRetry ==
  /\ pc = "verify" /\ graph.retry[cur] < MaxRetries[cur]
  /\ graph' = [graph EXCEPT !.node[cur] = "ready", !.retry[cur] = @ + 1]
  /\ snap' = graph'
  /\ Go("retry_log")
  /\ UNCHANGED <<sess, events, cur, origin, queue>>

VerifyExhausted == pc = "verify" /\ ~(graph.retry[cur] < MaxRetries[cur]) /\ FailNode

LogRetry ==
  /\ pc = "retry_log"
  /\ Log(<<Ev("node_retry", cur)>>)
  /\ Go("tick")
  /\ UNCHANGED <<sess, snap, memory>>

SaveFailed ==
  /\ pc = "fail_save"
  /\ snap' = graph
  /\ Go("fail_log")
  /\ UNCHANGED <<sess, events, memory>>

LogFailed ==
  /\ pc = "fail_log"
  /\ Log(<<Ev("node_failed", cur), Ev("graph_failed", NoNode)>>)
  /\ Return
  /\ UNCHANGED <<sess, snap, graph, origin, queue>>

\* Mutant: the checkpoint is left ready.
PauseBefore(n) ==
  LET g == UpdatePendingNodes(graph) IN
  /\ pc = "tick" /\ n \in ReadyNodes(g) \cap Checkpoint
  /\ graph' = [g EXCEPT !.status = "paused"]
  /\ sess' = "paused" /\ cur' = n
  /\ Go("pause_save")
  /\ UNCHANGED <<snap, events, origin, queue>>

PauseAt(n) ==
  LET g == UpdatePendingNodes(graph) IN
  /\ pc = "tick" /\ n \in ReadyNodes(g) \cap Checkpoint
  /\ graph' = [g EXCEPT !.node[n] = "running", !.status = "paused"]
  /\ sess' = "paused" /\ cur' = n
  /\ Go("pause_save")
  /\ UNCHANGED <<snap, events, origin, queue>>

SavePaused ==
  /\ pc = "pause_save"
  /\ snap' = graph
  /\ Go("pause_log")
  /\ UNCHANGED <<sess, events, memory>>

LogPaused ==
  /\ pc = "pause_log"
  /\ Log(<<Ev("graph_paused", cur)>>)
  /\ Return
  /\ UNCHANGED <<sess, snap, graph, origin, queue>>

CompleteGraph ==
  LET g == UpdatePendingNodes(graph) IN
  /\ pc = "tick" /\ ReadyNodes(g) = {} /\ IsGraphDone(g)
  /\ graph' = [g EXCEPT !.status = "done"]
  /\ sess' = "done"
  /\ Go("done_save")
  /\ UNCHANGED <<snap, events, cur, origin, queue>>

SaveCompleted ==
  /\ pc = "done_save"
  /\ snap' = graph
  /\ Go("done_log")
  /\ UNCHANGED <<sess, events, memory>>

LogCompleted ==
  /\ pc = "done_log"
  /\ Log(<<Ev("graph_completed", NoNode)>>)
  /\ Return
  /\ UNCHANGED <<sess, snap, graph, origin, queue>>

\* Nothing is ready and the graph is not done: tick returns as it is.
TickStops ==
  LET g == UpdatePendingNodes(graph) IN
  /\ pc = "tick" /\ ReadyNodes(g) = {} /\ ~IsGraphDone(g)
  /\ graph' = g
  /\ Return
  /\ UNCHANGED <<durable, origin, queue>>

-----------------------------------------------------------------------------
(* Commands                                                                 *)

\* Manager.Send: nothing but the channel's capacity holds a command back, and
\* neither the kind nor the status of the node is looked at.
Send(c) ==
  /\ Managed /\ commands < MaxCommands /\ Len(queue) < QueueCap
  /\ queue' = Append(queue, c)
  /\ commands' = commands + 1
  /\ UNCHANGED <<durable, graph, pc, cur, origin, crashes, faults>>

Receive(kind) ==
  /\ pc = "idle" /\ queue # <<>> /\ Head(queue).kind = kind
  /\ queue' = Tail(queue) /\ cur' = Head(queue).node /\ origin' = "command"
  /\ sess' = "running"
  /\ UNCHANGED <<snap, events>>

HandleResume ==
  /\ Receive("resume")
  /\ graph' = [graph EXCEPT !.status = "running"]
  /\ Go("command_log_resume")

\* Mutant: the retry is not recorded.
RetryUnlogged ==
  /\ Receive("retry")
  /\ graph' = [graph EXCEPT !.node[Head(queue).node] = "ready", !.status = "running"]
  /\ Go("tick")

HandleRetryNode ==
  /\ Receive("retry")
  /\ graph' = [graph EXCEPT !.node[Head(queue).node] = "ready", !.status = "running"]
  /\ Go("command_log_retry")

HandleApproveCheckpoint ==
  /\ Receive("approve")
  /\ graph' = [graph EXCEPT !.node[Head(queue).node] = "done", !.status = "running"]
  /\ Go("command_log_approve")

\* Mutant: the command does not trigger a tick.
LogCommandOnly ==
  /\ \/ pc = "command_log_resume" /\ Log(<<Ev("checkpoint_resumed", NoNode)>>)
     \/ pc = "command_log_retry" /\ Log(<<Ev("retry_command", cur)>>)
     \/ pc = "command_log_approve" /\ Log(<<Ev("checkpoint_approved", cur)>>)
  /\ Go("save")
  /\ UNCHANGED <<sess, snap, memory>>

LogCommand ==
  /\ \/ pc = "command_log_resume" /\ Log(<<Ev("checkpoint_resumed", NoNode)>>)
     \/ pc = "command_log_retry" /\ Log(<<Ev("retry_command", cur)>>)
     \/ pc = "command_log_approve" /\ Log(<<Ev("checkpoint_approved", cur)>>)
  /\ Go("tick")
  /\ UNCHANGED <<sess, snap, memory>>

-----------------------------------------------------------------------------
(* Failure                                                                  *)

\* A call of the actor returns an error.  Bootstrap's error leaves no manager
\* entry; an error of Run, or of the recovery tick, ends the goroutine only.
Fault ==
  /\ \/ pc \in Working /\ UNCHANGED queue
     \/ pc = "idle" /\ queue # <<>> /\ queue' = Tail(queue)
  /\ faults < MaxFaults
  /\ faults' = faults + 1
  /\ pc' = IF origin = "boot" THEN "absent" ELSE "dead"
  /\ graph' = NoGraph /\ cur' = NoNode
  /\ UNCHANGED <<durable, origin, commands, crashes>>

Crash ==
  /\ pc # "down" /\ crashes < MaxCrashes
  /\ crashes' = crashes + 1
  /\ pc' = "down" /\ graph' = NoGraph /\ cur' = NoNode /\ origin' = "boot" /\ queue' = <<>>
  /\ UNCHANGED <<durable, commands, faults>>

\* RecoverActiveSessions and Manager.Restore.
Restart ==
  /\ pc = "down"
  /\ IF ShouldRecover(sess) /\ snap # NoGraph
     THEN /\ graph' = NormalizeRecovered(snap, sess)
          /\ snap' = graph' /\ origin' = "restore"
          /\ Go(IF ShouldAutoResume(sess, graph') THEN "tick" ELSE "idle")
     ELSE Go("absent") /\ UNCHANGED <<snap, graph, origin>>
  /\ UNCHANGED <<sess, events, cur, queue>>

-----------------------------------------------------------------------------
Tick ==
  \/ \E n \in Node : StartNode(n) \/ PauseAt(n)
  \/ LogStarted \/ ExecuteOk \/ ExecuteError
  \/ VerifyPassed \/ VerifyRetry \/ VerifyExhausted \/ LogRetry
  \/ SaveFailed \/ LogFailed \/ SavePaused \/ LogPaused
  \/ CompleteGraph \/ SaveCompleted \/ LogCompleted \/ TickStops

\* What the actor's goroutine does when no call fails.
Actor ==
  \/ BuildGraph \/ LogCreated \/ Tick \/ SaveOnReturn
  \/ HandleResume \/ HandleRetryNode \/ HandleApproveCheckpoint \/ LogCommand

Next ==
  \/ StartRun \/ Actor \/ Fault \/ Crash \/ Restart
  \/ \E c \in ClientCommand : Send(c)

Spec == Init /\ [][Next]_vars

\* The Go scheduler runs a runnable goroutine; planner, executor and verifier
\* return (step limits and client timeouts).
FairSpec == Spec /\ WF_vars(Actor)

-----------------------------------------------------------------------------
(* Properties                                                               *)

TypeOK ==
  /\ sess \in SessionStatus
  /\ snap \in Graph \cup {NoGraph} /\ graph \in Graph \cup {NoGraph}
  /\ events \in Seq(Event)
  /\ pc \in PC /\ cur \in Node \cup {NoNode}
  /\ origin \in {"boot", "command", "restore"}
  /\ queue \in Seq(Command)
  /\ commands \in Nat /\ crashes \in Nat /\ faults \in Nat

Recorded(t) == {n \in Node : \E i \in 1..Len(events) : events[i] = Ev(t, n)}

Started == Recorded("node_started")
Completed == Recorded("node_completed")
Approved == Recorded("checkpoint_approved")
Logged == Completed \cup Approved

\* The event log justifies what the other two stores claim: a node the
\* snapshot calls done, and every node of a session recorded as done, has a
\* completion or an approval in the log, whatever was lost in crashes.
CompletionLogged ==
  /\ snap # NoGraph => {n \in Node : snap.node[n] = "done"} \subseteq Logged
  /\ sess = "done" => Node \subseteq Logged

\* The actor, seen through the event log and the session row, implements
\* DagRun across crashes, recoveries, failing writes and arbitrary commands:
\* tick dispatches on the memory graph, which a crash or a retry may have
\* taken back behind the log.
Dag == INSTANCE DagRun WITH
  started   <- Started,
  completed <- Completed,
  approved  <- Approved,
  finished  <- (sess = "done")

ImplementsDagRun == Dag!Spec

\* The retry budget survives crashes: the retries a node was seen to take in
\* the log never exceed the count recovery starts from, nor the limit.
RetryAccounting ==
  snap # NoGraph => \A n \in Node :
    /\ Cardinality({i \in 1..Len(events) : events[i] = Ev("node_retry", n)}) <= snap.retry[n]
    /\ snap.retry[n] <= MaxRetries[n]

\* The snapshot still shows n as running, and lacks nothing but the completion
\* of n, with which the log ends.
LacksCompletion(n) ==
  /\ snap.node[n] = "running"
  /\ graph = [snap EXCEPT !.node[n] = "done"]
  /\ events[Len(events)] = Ev("node_completed", n)

\* Whenever the actor waits for a command, the snapshot the API reads is its
\* graph; only a recovery tick, whose goroutine goes to Run without a save, may
\* leave out the completion of the last node it ran.
SavedWhenIdle ==
  pc = "idle" => \/ snap = graph
                 \/ origin = "restore" /\ \E n \in Node : LacksCompletion(n)

\* A snapshot takes back a completion only when a retry of that node was
\* logged after its last completion.
RerunOnlyOnRequest ==
  [][\A n \in Node :
       (snap # NoGraph /\ snap' # NoGraph /\ snap.node[n] = "done" /\ snap'.node[n] # "done")
       => \E i \in 1..Len(events) :
            /\ events[i] = Ev("retry_command", n)
            /\ \A j \in i..Len(events) :
                 events[j] \notin {Ev("node_completed", n), Ev("checkpoint_approved", n)}]_vars

\* Until the first crash, a paused session that waits for the user offers a
\* checkpoint to approve.
PausedOffersCheckpoint ==
  crashes = 0 /\ pc = "idle" /\ sess = "paused" =>
    /\ graph.status = "paused"
    /\ \E c \in Checkpoint : graph.node[c] = "running" /\ snap.node[c] = "running"

\* Until the first crash, a failed session that waits for the user has a failed node
\* in the snapshot, where POST /api/session/retry looks for the nodes to retry.
FailedOffersRetry ==
  crashes = 0 /\ pc = "idle" /\ sess = "failed" => \E n \in Node : snap.node[n] = "failed"

\* Until the first crash, the actor of a session shown as running does not wait
\* while a node could run.
NoIdleWhileRunnable ==
  crashes = 0 /\ pc = "idle" /\ queue = <<>> /\ sess = "running" => ReadyNodes(graph) = {}

\* Without commands and failing calls, a session with a snapshot stops running
\* for good reason (done, failed or paused) or the process goes down: a restart
\* takes up whatever node the crash interrupted.
Settles ==
  (sess = "running" /\ snap # NoGraph)
     ~> \/ sess \in {"done", "failed", "paused"}
        \/ pc = "down" \/ commands + faults > 0

\* Every command the channel accepted is taken from it, unless the actor died.
CommandsServed == (queue # <<>>) ~> (queue = <<>> \/ pc \in {"dead", "down"})
=============================================================================
