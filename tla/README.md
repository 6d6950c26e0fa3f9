# SpecShip: TLA+ specifications

SpecShip turns a written specification into a graph of tasks, lets an agent execute the tasks in the
order of their dependencies, verifies each result, retries what failed and pauses where a person has
to decide. This directory holds formal specifications of that machinery: modules that TLC checks on
small instances, and theorems about them that TLAPS checks for every value of the constants.

    tlc -workers 2 -config Planning.cfg MCPlanning
    tlc -workers 2 -config Session.cfg MCSessionRuntime
    tlc -workers 2 -config Directory.cfg MCSessionDirectory
    tlc -workers 2 -config DirectoryCompat.cfg MCSessionDirectory      # finds a violation
    tlc -workers 2 -config Stream.cfg MCEventStream
    tlc -workers 2 -config GoNodeWork.cfg MCGoNodeWork
    tlc -workers 2 -config CoreDag.cfg MCCoreRun                       # also CoreFork.cfg
    tlc -workers 2 -config Server.cfg MCServerRuns
    tlc -workers 2 -config Previews.cfg MCPreviews
    tlc -workers 2 -config NodeWork.cfg MCNodeWork
    tlc -workers 2 -config WorkflowSignals.cfg MCSpecRunWorkflow
    tlapm EventStream_proofs.tla                                       # and the other *_proofs.tla

`PROJECT.json` lists the runs, the code lines each definition stands for, the disagreements between
code and documentation that the runs demonstrate, and one mutation of the code's model per property
that makes the property fail.

## The system

Three orchestrators drive the same kind of graph; the web client and the CLI talk to one of them.

| part | state it keeps | operations | hard behaviour |
|---|---|---|---|
| Go session runtime, `apps/server-go/internal/runtime/session_runtime.go` | the graph in memory, a channel of 16 commands | Bootstrap, Run, handleCommand (resume, retry, approve), tick | every transition is two or three durable writes, any of which may fail or be the last before a crash; commands arrive at any moment and are checked by nobody |
| Go manager and recovery, `manager.go`, `recovery_helpers.go`, `recovery_service.go` | a map of session actors under one lock | Start, Restore, Send, Stop, RecoverActiveSessions | the lock is held through a whole Bootstrap; a dead actor keeps its entry; recovery rebuilds the actor from a row and a snapshot that were not written together |
| SQLite stores, `store/sqlite` | session rows, one snapshot and one event log per session | UpdateStatus, SaveSnapshot, Append, cascading deletes | optimistic revisions; no transaction spans two stores |
| Go event stream, `transport/sse`, `stream_handler.go`, `web_compat_service.go` | subscriber channels of 32 or 64 events | Publish, Subscribe, List then Subscribe, projection of an event from the snapshot | full channels drop events, replay and subscription leave a gap, projections read a snapshot that lags behind |
| Go compatibility services, `app/*_service.go` | none | RetrySession, RetryNode, VerifyNode, EditNode, DeleteSession | load, change and save the snapshot beside the actor that owns the graph |
| Go planners | none | BuildGraph | a model that fails or answers nonsense |
| Go executor, verifier, tools, `implement_executor.go`, `executor.go`, `verifier.go`, `toolrunner` | the step of the agent's loop; the working directory, which sessions with the same repoPath share | ExecuteNode, WriteFile, RunCommand, VerifyNode | the checks of one node read the directory at several moments while other sessions and commands change it; a refused finish gives the loop another turn |
| Temporal orchestrator, `packages/orchestrator-temporal` | statuses in the workflow, the graph file of the activities | SpecRunWorkflow, signals retryNode, skipNode, cancelRun, activities planGraph, executeNode, persistGraph | signals are handled at every await; activities run concurrently, are retried and share a file |
| TypeScript planning, `packages/core/src/orchestrator`: `planner.ts`, `plan-parser.ts`, `output-policy.ts` | the plan under validation, the attempt | buildGraph, parsePlan, validatePlanData, the second strategy of `routes/run.ts` | a model answers anything; what passes the validation is never checked again, and a circle or a shared file would only show in the run |
| TypeScript core, `packages/core` | the graph, the checkpoint file, the operation log | transitionNode, run, post-node handling, checkpoints, replay | the transition table, blocking of dependents, crash between the log and the snapshot |
| TypeScript execution and verification, `packages/core`: `ai/llm.ts`, `node-executor.ts`, `verify.ts`, `review.ts` | the output directory, the attempts in flight | runAgent with its tools, executeNode, verifyNode, runCodeReview, the compilation at the end | attempts run at the same time in one directory; what a tool wrote is looked at when the attempt is over; a rejected run leaves executions behind |
| TypeScript server, `apps/server` | maps of running sessions, pending checkpoints and SSE clients | run, resume, node and project routes | requests race with a run in progress and with each other |
| previews of that server, `preview-manager.ts`, `routes/preview.ts` | a map of live previews, their processes and ports | start, stop, status, the proxy, the end of the server | a start awaits a free port and looks at nothing again; a launch polls its port whatever becomes of its process |
| web client and CLI | a projection of the stream | folding of events | duplicated, missing or reordered events |

What makes each part correct: a node runs only after its dependencies were completed or closed by a
person; a run is recorded as done only when every node is closed; the retry budget is respected; work
that was finished and recorded is not lost or silently repeated; a session that waits can be moved on
by the user, and one that does not wait moves on by itself; an accepted command is handled; a client
that follows the stream ends with the state the stores hold.

The first two of these are stated once, in `DagRun`, and each orchestrator is meant to implement it.

## Modules

| module | what it is |
|---|---|
| `DagRun` | the abstract run of a graph, seen from its durable record; `SessionRuntime` and `CoreRun` are shown to implement it |
| `SessionRuntime` | the Go session runtime with its manager entry, its three stores, crashes and recovery |
| `SessionDirectory` | all sessions of the Go backend: the manager's lock and map, deletion, recovery, the services that write a snapshot beside the actor |
| `EventStream` | the way of an event to those who watch; extends `SessionRuntime`, whose steps append the events |
| `GoNodeWork` | the execution and verification of the nodes of Go sessions that share a directory |
| `Planning` | how the graph of a TypeScript session comes to be: answers of the planner and plans of a person, their validation and repair |
| `CoreGraph` | the graph of the TypeScript core and the pure operations on it |
| `CoreRun` | the TypeScript run loop, its graph file, and the requests that start it again; extends `CoreGraph` |
| `ServerRuns` | the routes of the TypeScript server at any moment of the runs, the maps that keep runs apart, the operation log; extends `CoreGraph` |
| `Previews` | the development servers the TypeScript server starts for the outputs of its sessions |
| `NodeWork` | the attempts of the nodes of a TypeScript run on the output directory they share |
| `SpecRunWorkflow` | the Temporal workflow, its signals and the outcome of its activities; uses the transition table of `CoreGraph` |
| `MC...` | the small instances for TLC, one module for each of the above but `DagRun` and `CoreGraph` |
| `..._proofs` | the theorems, one module for each of the same; those of `SessionRuntime` and `EventStream` share `EventStream_proofs`, those of `ServerRuns` and `Previews` share `ServerRuns_proofs` |

### DagRun

Four variables, all of them durable facts: the nodes whose start was recorded, those whose completion
was recorded, those a person closed, and whether the run is recorded as finished. Its actions state the
obligations: `Start` needs every dependency closed, `Complete` a start, `Finish` every node closed.
`Approve` is unconditional because a person may close a node at any time, and `Reopen` exists because
every orchestrator lets a user retry a node of a finished run. `Redo` is a person changing a node: what
was recorded of it is taken back, together with everything that depends on it, directly or not.

### SessionRuntime

`sess`, `snap` and `events` are the three durable stores of one session: the status in the session row,
the graph snapshot and the event log, whose index is the revision. `graph` is `r.graph`, `queue` the
command channel. The actor is one goroutine, so its position is one variable: `pc` names the call it
makes next, `cur` the node it works on, and `origin` who called `tick` (Bootstrap, a command or a
restore), which decides whether the graph is saved when `tick` returns and whether an error leaves a
manager entry.

The grain of a step is chosen for crashes: a step is one durable write together with the in-memory
assignments before it. The order of the writes is the code's. `StartNode` saves and then `LogStarted`
appends; `PauseAt` and `FailNode` write the row, then `SavePaused`/`SaveFailed` the snapshot, then
`LogPaused`/`LogFailed` the events; `VerifyPassed` appends only, and the completed node reaches the
snapshot with whatever is saved next. `ReadyNodes` is a set because Go walks its map of nodes in any order.

| code | actions |
|---|---|
| `RunService.StartRun`, `Manager.Start`, `Bootstrap` | `StartRun`, `BuildGraph`, `LogCreated`, then the tick, then `SaveOnReturn` |
| `tick` | `StartNode`, `LogStarted`, `ExecuteOk`/`ExecuteError`, `VerifyPassed`/`VerifyRetry`/`VerifyExhausted`, `LogRetry`, `SaveFailed`, `LogFailed`, `PauseAt`, `SavePaused`, `LogPaused`, `CompleteGraph`, `SaveCompleted`, `LogCompleted`, `TickStops` |
| `Manager.Send` | `Send` |
| `handleCommand` | `HandleResume`, `HandleRetryNode`, `HandleApproveCheckpoint`, `LogCommand`, the tick, `SaveOnReturn` |
| an error returned by any call | `Fault` |
| the process dies; `RecoverActiveSessions`, `Manager.Restore` | `Crash`, `Restart` |

Abstractions. Evidence, error texts, titles and time stamps are left out. The retry command and the
retry after a failed verification append events of the same type, told apart in the code by the payload;
the model names them `retry_command` and `node_retry`. Planner, executor and verifier are reduced to
their outcomes; a verifier may fail with an error as well as with a verdict, the former is a `Fault`
(`GoNodeWork` has the inside of both). The environment may send any of the three commands for any node,
because neither the handlers nor the runtime look at the kind or the status of the node. Writes by other
services to the same snapshot (`VerifyNode`, `EditNode`) and deletion are in `SessionDirectory`. `blocked` and `skipped`
nodes and `interrupted` sessions are declared in the Go code but assigned nowhere.

### CoreGraph and CoreRun

A graph is its status, and the status and retry count of each node. `CoreGraph` holds the transition
table and one operator per operation on a graph; where the code's effect differs from its intention the
operator has the effect (`FailNode` blocks direct dependents only, `CheckpointNodes` does not look at
dependencies). The breadth-first search of an edit is given by what it reaches, the least set closed
under dependents (`AffectedBy`), which serves the proofs as well.

`run()` is one coroutine. Nodes execute concurrently, but a result is handled only when the coroutine
comes to `Promise.race`, and nothing else touches its graph between two awaits. `pc` is its position,
`inflight` the keys of the map `running`, `cps` the list of checkpoints of the current pass, which is
computed once before the loop over it. A step ends with one save, so that a crash may fall between any
two saves.

| code | actions |
|---|---|
| `run()` up to the first save | `StartRun`, or `StartAgain` within a request |
| promotion of pending nodes | `Promote`, one node and one save at a time |
| checkpoints | `CollectCheckpoints`, `ReachCheckpoint`, `Confirm` or `AutoApprove`, `PassCheckpoint`, `CheckpointsPassed` |
| dispatch, `running.size === 0` | `Dispatch`, `EndOfPass` |
| `Promise.race`, `handleCompletedNodeResult` and the save behind it | `HandleFailure`, `HandleReviewRejection`, `HandleVerifiedSuccess` |
| after the loop | `AppendTesters`, `ReturnDone`, `ReturnFailed` |
| the process dies; `run()` rejects and the route's catch clause runs | `Crash`, `RunThrows` |
| `POST /resume`, `/session/retry`, `/node/:id/retry`, `/node/:id/edit`, `--resume` | `Resume` (`Confirm` while a run waits), `RetrySession`, `RetryOneNode`, `EditNode` |

`attempts`, `confirmed` and `asked` are history variables: how often a node was started since it was last edited,
which checkpoints a person agreed to pass, and which kinds of requests were made so far. `CheckpointOffered`,
`GateConfirmed` and `NothingRunnableLeft` say by `asked` up to which request they hold.

Abstractions. Requests other than the answer to a checkpoint come between two runs: what they do to a run
in progress is the subject of `ServerRuns`. An edit changes the content of a node and keeps its
dependencies. Saving writes memory and file in one step, since the code saves right after each change
and without an await; two saves in a row without an await in between are one. The status `verifying` lives
between two saves and is never seen from outside; a crash while a node is verified finds it running. The
tester pass may add any of the declared tester nodes, because which files lack tests depends on the
output directory. How the graph is planned is the subject of `Planning`.

### Planning

One request is planned. `way` says how: `buildGraph` asks the planner (`spec`), or the text of the request is itself a
plan that a person wrote or confirmed (`plan`). `plan` is what is validated, `issues` what was found. The search for
circles is modelled call by call: `stack` holds the calls of `visit` that have not returned, each with the dependencies
it has still to look at, so the set `visiting` of the code is what the stack holds, and `next` is the loop that calls it.

| code | actions |
|---|---|
| `buildGraph` up to the first question | `Clarify` |
| an attempt: the answer, an unreadable one, an exception | `Answer` with `NormalizedPlan`, `Unreadable`, `PlannerThrows` |
| `parsePlan` in `routes/run.ts` | `Parse`, `ParseErrors` |
| `validatePlanData`, `validateParsedPlan` | `Validate` with `FormIssues` |
| `detectDependencyCycle`, `visit` | `VisitStep`, `VisitDependency`, `LeaveNode` with `Visit`, `SearchDone` |
| `buildPlannerRepairInput`, the last attempt | `Repair`, `Unreadable`, with `AskAgain` |
| the second validation in `routes/run.ts` | `TryFallback` |
| `createGraph`, `addNode`, `parsedPlanToGraph`; the session fails | `Accept` with `PlannedGraph`, `RefusePlan` |

Abstractions. `Plan` is the set of all plans an answer or a text may hold; how the text is cut into fields is left out. The
order within an array `dependsOn` is left open, so the search may take the dependencies of a node in any order. Names of files are
members of a set with `Normalize`, what `normalizeSandboxOutputFile` makes of them; that it changes nothing the second
time is assumed, as it strips the directory prefix at most once and what is left is relative to that directory.

### SpecRunWorkflow

The workflow is a coroutine too, but one whose statuses are changed by others while it awaits: Temporal runs
the handlers of signals at every await. A step therefore reaches from one await to the next, and `pc` names
the call it awaits. The code between two awaits runs through several loops, so the loops are operators
(`LoopTop`, `BlockPass`, `DispatchPass`, `EndOfPass`) that take the statuses and the activities in flight and
end in `Await`; each action is an await that returns and continues with one of them. A pass walks a copy of
the entries of `nodeStatuses`: `visit` is what is left of it, and, as in the code, the status of a node is
taken from the copy while the statuses of its dependencies are read at the time. The order of the entries is
that of the plan, which a language model writes; it is a variable chosen among `Orders`, because the
properties depend on it.

| code | actions |
|---|---|
| `planGraph` | `Planned`, `PlanFailed` |
| the two loops of a pass with `notifyNodeUpdate`, the call of `executeNode` | `BlockedNotified`, `CallActivity` |
| `Promise.race`, the update behind it and its notification | `HandleResult`, `ResultNotified` |
| `condition` | `WakeUp` |
| `persistGraph` and the result | `Finish` |
| an activity that failed three times outside `executeNode` | `Throw` |
| `executeNode` | `PassReview`, `ReturnResult`, `FailActivity` |
| the signals | `RetryNode`, `SkipNode`, `CancelRun` |

`CoreActivities` says which activities are meant. Those of `spec-run.activities.ts` move a node to done from
the status it has in the graph file, which `transitionNode` refuses: none of them ever succeeds (see
Disagreements). The workflow is written against the interface of the activities, and its tests pass
others; all other properties are checked and proved for any activity that keeps to the interface.

Abstractions. Crashes of the worker are not modelled, since Temporal replays the workflow; an activity is its
final outcome after three attempts. If several results have arrived, any of them is taken, where
`Promise.race` takes the one inserted first. The graph that activities return and `persistGraph` saves is
left out. `resumeRun` only logs, and a signal without effect is no step.

### SessionDirectory

What one actor does with one graph is the subject of `SessionRuntime`; here a graph is a number, its version,
and an actor goes on for some versions, settles, and waits. What the module is about lies between sessions and
between requests: `lock` is the session whose `Start` holds the manager's mutex, through planning and the first
stretch of the run; `entry` the manager's map; `row` and `snap` the durable tables; `start`, `del` and `loaded`
the requests under way, which hold a position of their own. A step is one database call or one stretch
without one. An actor that died leaves its entry in the map, so `Live` asks for both. `gone` is history: since the process
started, the session's start or actor failed, it was stopped, or the recovery passed it over because it has no snapshot
(`recovery_service.go:37`), as after a crash during the planning.

| code | actions |
|---|---|
| `RunService.StartRun`, `Manager.Start` | `CreateRow`, `Lock`, then the actor's steps, `Insert` or `BootFails`, both with `ReleaseLock` |
| `Bootstrap`, `tick`, `Run` | `Plan`, `Work`, `Settle` and `SaveSettled`, `Stall`, `ActorDies`, `Leave` |
| `Manager.Send`, `handleCommand` | `Send`, `TakeUp` |
| `DELETE`, `Manager.Stop`, `Sessions.Delete` | `RequestDelete`, `Stop`, `Delete`, `DeleteFails` |
| `VerifyNode`, `EditNode` | `Load`, `WriteBack` |
| `RecoverActiveSessions`, `NewRouter`, `main` | `Boot`, `Skip`, `Restore`, `RestoreFails`, `GiveUp`, `Listen` |
| the process dies | `Crash` |

Abstractions. A project has the one session it was made for. The content of an edit, stars and listings are left
out. A session has at most one command waiting. Paused and failed are one status, "waiting". After a tick that stops with
nothing to run (`Stall`) Bootstrap and a command save, the goroutine of a recovery does not (`manager.go:113`). `Saves` fails without a row, because of the foreign key of
snapshots, and `DeletesRow` takes the snapshot along: both rely on `_pragma=foreign_keys(1)` in the default
DSN, as the `PRAGMA` of `db.go:37` holds for one connection only.

### EventStream

`RuntimeStep` is any step of `SessionRuntime` but a crash; the module adds how the events it appends travel. `published` is what the
store has handed to the broker, which happens after the commit (`AppendReturned` says that the next event is not
appended before). `viewer` is one subscriber of either kind, since the broker waits for none and viewers do not
touch each other: a client of the session's stream (`link`, `chan`, `last`, `got`) or the page (`page`, `fetch`).
`unseen` and `outdated` are history: which events met no listener, and whether the last thing the page was told is
older than the end of the session. A session may be retried and end again, so the delivery of an end settles this only
if no later end is on its way (`EndedAgain`).

| code | actions |
|---|---|
| `EventStore.Append`, `InMemoryBroker.Publish` | `Publish`, dropping the event when the channel is full |
| `StreamHandler.ServeHTTP` | `Replay` (list), `Subscribe`, `Follow` |
| `serveCompatStream`, `ProjectRealtimeEvent` | `Connect`, `Deliver` with `Projected`, which reads the snapshot as it is at delivery |
| `useSSE`, a connection that ends, a crash | `Disconnect`, `CrashLosesStream` |
| `useSession`: opening, starting, resuming a session | `OpenSession`, `ActivateStarted`, `HandleResumeClick`, `PostResume`, `LoadFails` |
| `GetSessionGraph`, `replaceSessionSnapshot` | `AnswerGraph`, `ReceiveGraph` |

Abstractions. Texts, evidence and the tool events are left out; other sessions in the store of the page as well.

### GoNodeWork

A session goes through its nodes once; commands, snapshots and crashes are `SessionRuntime`'s. `disk` is the
working directory, a file being a quality and the node in whose name it was written last: what the checks can
tell of it, and whose it is. `exec` is the position of each session's actor: at which step of the agent's loop
or at which check, and who called the verifier (the agent before it may finish, or the session). The manifest is a file like
the others, of a `Kind` that decides which scripts there are and which files they read; commands rewrite it, an agent may have it
among its outputs, and every check reads it anew. `looked` is history: what the build or a compiler read in the last check of a
node by its session.

| code | actions |
|---|---|
| `ResolveExecutionRoot`, `tick` | `Init`, `Begin`, `Complete`, `Reject`, `Fail`, `End` |
| `Executor.ExecuteNode` without a model | `WriteScripted` |
| `LLMImplementExecutor.ExecuteNode`, `executeAction` | `WriteFile`, `RunCommand`, `Finish`, `OtherAnswer`, `GiveUp`, `ConcludeStep` |
| `VerifyNode`: presence, project checks, checks by extension, review | `VerifyPresence`, `RunChecks` with `Required`, `Project`, `CheckResults`, `Review` |

Each check reads the directory at its own moment. Abstractions: prompts, history texts and the HTTP client;
check sums in the evidence; any ready node may come next, as in `SessionRuntime`.

### ServerRuns

Requests and runs of several sessions in one Node process. A handler runs to its first await without
interruption, and `run()` saves the graph and reports it to the log without an await in between, so each of
these is one step, in which any entry may fail to be written (`Save`) and after whose first half the process may end (`Crash`
with `SaveSet`). `runs` holds every call of `run()` with the handler that awaits it and the graph it has in
memory; `running` and `pending` are the maps `runningSessions` and `pendingCheckpointResumes`; `replay` is what
the operation log replays to, and `EventGraph` what the page is therefore shown. `touched` is history: nodes changed behind the log or the run, and those whose entry failed or came late. The inside of
`run()` is coarser than in `CoreRun`: any change one save of the loop may make (`Successors`), in any order.

| code | actions |
|---|---|
| `POST /run` | `StartRun`, `SavePlan`, `PlanFails` |
| `run()` and its callbacks | `Work`, `ReachCheckpoint`, `PassCheckpoint` |
| the report of a tool call, which goes on when `run()` was rejected (stage `cut`) | `LiveToolCall` |
| the end of a run: result, exception, `finally` | `Return`, `Throw` with `PatchStuck`, both with `Finally` |
| `POST /resume` with a promise at hand, from the file | `ResumePending`, `ResumeFile` |
| `POST /session/retry`, `/node/:id/retry`, `/node/:id/edit` | `RetrySession`, `RetryOneNode`, `EditNode` |
| `GET` of the graph when the log is empty | `Backfill` |
| `DELETE` of a session | `DeleteSession` |
| the process dies | `Crash` |

A save needs the directory of the session; the log, the summary of a checkpoint and the logger of `run()` make it again
(`WithDirectory`), after which the status of the session is "remains": files without a session.json.

Abstractions. Other fields of session.json, SSE clients and what a request answers are left out; previews are in
`Previews`.

### Previews

`live` is the map `livePreviewStates`: status, port and child process of each session. `finding` counts the starts of a
session that await `findFreePort`, which come back to whatever the entry has become. A launch is a call of
`launchLivePreview` with its process: `waiting` while it polls the port, `process` while that runs, and the call and the
process may outlive each other. `listens` is the port a process has bound, which need not be the one it was launched for: none of the
commands has `--strictPort`, so a server that finds its port in use moves on, perhaps to a port the idle entry of another session
keeps. `signalled` are the processes that were sent SIGTERM and may take their time.

| code | actions |
|---|---|
| `POST /preview/live/start`, `startLivePreview` | `StartLivePreview`, then `FoundPort` or `FindPortFails`, with `LaunchLivePreview` or `Unsupported` |
| `child.once("exit")`, `child.once("error")` | `ChildExits` with `OnExit`; the failure to spawn in `LaunchLivePreview` |
| `waitForPort` | `Connected`, `TimedOut` |
| `POST /preview/live/stop` | `StopLivePreview` |
| `GET /preview`, which writes what a generated React output lacks | `ReadStatus` with `Scaffold` |
| the proxy of requests and web sockets | `Shown`, `Proxied` |
| `process.on("exit")`, a signal that ends the server | `ServerExits`, `ServerKilled` |
| the development server, runs and deletions | `Listen`, `WriteOutput` |

`overlapped`, `outlived`, `reissued` and `abandoned` are history: which accidents a session, a port or a process has met,
by which the properties say when they hold.

Abstractions. A launch may time out whenever nothing listens on its port. The failure to spawn is reported at once. A process is the
direct child of the server: `pnpm`, `npm` or a shell may have children of its own that outlive it, and no property speaks of
them. `Written` says what runs and deletions make of an output directory. Without an output directory there is no request, and
static previews are files. A launch that is over gives its identity to a later one.

### NodeWork

`disk` is the output directory: a quality, the attempt that wrote it last and whether a tool reported it. What goes unreported
are commands, a `search_files` whose glob the shell reads as well (`llm.ts:191`), and a `write_file` that throws after it changed the
file, for instance in `auditWrite` (`llm.ts:156`, caught at 220). An agent is
identified by node and run, because executions of a rejected run go on beside the next one. A model's answer is
a choice; what the code makes of it, `Turn`, is not: tool calls are assembled from the chunks of a stream or
taken from a response, and one that ends without its finish reason is dropped (`Reply`, `Assembled`).

| code | actions |
|---|---|
| `executeNode`, `runAgent`, `executeTool` | `StartAttempt` with `Cleaned`, `Turn` with `ToolCall`, `Settle` with `StaysWithin` |
| `verifyNode`, `handleCompletedNodeResult` | `HandleResult` with `Verified`, `Rejected`, `Completed` |
| `runCodeReview` | `FinishReview` |
| the end of a run, the tester pass | `Return` with `NewTesters`, `IntegrationCompiles` |
| `run()` rejects, the process dies, `--resume` | `Reject`, `Crash`, `RunAgain` |

Abstractions. Imports between files, lint findings (which fail nothing), `npm install` and the behaviour checks
that nothing calls are left out. A turn makes one call, and the retries of `callModelEndpoint` are one answer.

## Runs

`CHECK_DEADLOCK FALSE` is set in all runs but `previews`: an actor that waits for a command the bound no longer allows, one that died, and a run
that ended are legitimate ends.

| run | bounds | what it shows |
|---|---|---|
| `session` | 2 commands, channel of 1, 1 fault, 1 crash | the durable record stays a run of `DagRun`; snapshot and row never claim a completion that is not in the log; the retry budget survives the crash; a completion is taken back only on request; whenever the actor waits the snapshot is its graph, but for one completion after the tick of a recovery, and, until the first crash, a paused session has a checkpoint to approve and no runnable node is left behind by a running one; a session that nobody commands settles, and an accepted command is taken from the channel unless the actor died or the process crashed |
| `planning` | 3 nodes with any dependencies, pairs of nodes in any other form, 2 attempts | what is accepted can finish; no plan is refused for a circle it does not have; no two nodes planned for an output directory share a name |
| `session_directory` | 2 sessions, 1 change of a graph, 1 command, 1 crash, 1 fault | a server that listens has an actor at work or waiting for every unfinished session, unless its start or its actor failed, it was stopped or it had no snapshot to recover; only a verification or an edit that had loaded it puts an older graph in the place of a snapshot; no DELETE is stuck behind the lock of a Start |
| `directory_compat` | 1 session, 2 changes of its graph | violation: a verification leaves a snapshot older than the waiting actor's graph |
| `stream` | 1 command, 1 crash, channels of 1 and 2, 2 connections, 1 request | the stream of a session loses what fell into its gap or met a full channel, nothing else; a page that watched a session to its end shows the end |
| `go_node_work` | 2 sessions, 3 nodes, 3 kinds of manifest, 3 steps, 2 writes by commands | what a completed node wrote last is there, and compiles if the last check of its session had the build or a compiler read it; every session ends |
| `core_dag` | all four requests, 2 of them, 1 crash, 1 rejected run | the file stays a run of `DagRun`; what is shown as running is what executes or waits; the file holds the graph whenever the run waits; starts are bounded by the retries, whatever the kind of failure; a run ends only with nodes that failed or stand behind one that did; until a node is edited a checkpoint is offered when its dependencies are done, and until one is edited or retried alone it is passed only by a person |
| `core_fork` | CLI, 1 resume, 1 crash | the run of a node behind two that may each fail and be retried always ends |
| `server` | 1 session, 2 runs, 2 further requests, 1 crash, 1 exception or report with entries that fail | only the run started last for a session saves its graph; a paused session can be resumed; graph file and replay differ only in nodes changed behind the log, or whose entry failed, was cut off by a crash or came late |
| `previews` | 2 sessions, 2 ports, 2 launches at once, 2 starts of one session at once | no process is left running that its session's entry does not name, but after overlapping first starts or a killed server; what is shown as starting will be settled; what is shown as live is the session's own, and so is what the proxy reaches unless the port was given out twice or taken by a server that moved |
| `node_work` | 2 runs, 2 turns, 2 stray writes, 1 fault | no node is completed by an attempt of which a reported write elsewhere is left; what a completed node reports and nobody changed since was verified; a run that ends as done compiles |
| `workflow_signals` | 3 signals, 1 failing call, both orders of a plan | no signal takes a node from its activity; nothing is called before its dependencies; a skip of a running node takes effect; the workflow ends, and waits only if the plan is listed out of order |

Why these instances.

* `SessionRuntime`: an implement node `a`, a checkpoint `c` behind it and an implement node `b` behind the
  checkpoint, one retry each. It is the smallest graph with work before and after a human gate, and lets a
  command name a finished node, the waiting one and one whose dependencies are open. One actor works on one
  node at a time, so a write is about the current node, whose neighbours on both sides are present. One
  command moves a session out of every waiting state; two reach one queued behind another, a second approval,
  the retry of a finished node. One crash separates any two writes; one fault ends an actor at any call. What holds
  until the first crash has `crashes = 0` in its statement.
* `Planning`: with three nodes the dependencies can be any relation, self references and two circles with a common
  node included, and a node can be met again on two ways. Pairs of steps repeat ids and names, write one name in two
  ways, depend on a step that is not there, and leave the directory. Two attempts, where the code has four,
  are one that is repaired and a last one.
* `SessionDirectory`: two sessions are enough for one to hold the lock the other waits for, and for a recovery
  to fail at one and leave the other out. Symmetry is not used, since a liveness property is checked.
* `EventStream`: with a session channel of one the second event not yet taken is dropped, with a global one of
  two the page may lag by two events, a whole node. Two connections make a reconnection with an afterRevision.
* `GoNodeWork`: one session's agent writes two files and has a node behind; the other needs no model and writes
  one of the same files; a node of the first has the manifest as its output. A manifest has a build and a test, or only a test, or
  cannot be parsed. Two writes of commands may remove a file and change the manifest between two checks.
* `CoreRun`: two roots, a checkpoint behind the first, a node behind the checkpoint and the second
  root, a tester for the first, one of the roots with a retry: two nodes run beside each other and beside the
  checkpoint, a node depends on both kinds, and the tester pass is reached. In the fork a node is behind two
  that may each fail. Two requests edit a node and take the run up again, or resume twice.
* `ServerRuns`: two nodes side by side, of which one may be executing when the other's save fails and its run is rejected, and
  a gate behind one of them. Two runs are one that is paused or rejected and one started beside or after it. Three runs, and two sessions
  of a node and a gate each, pass as well and take longer; that the maps keep sessions apart is proved for any number of them.
* `Previews`: two launches are one that is over or timed out late and one that replaced it, of the same session or of
  the other one; two starts of one session come back in either order. With
  two ports a server moves to the other one while the other session's idle entry keeps it, and two sessions may have the same port when
  the first server has not yet bound it. The output of one session is generated React code that gets its package.json from a request
  for the status; that of the other has one. Launches and ports are symmetric.
* `NodeWork`: a library file with a tester and a file with a structured acceptance beside it. Two writes are one
  that strays into each other's file, twice; two runs with a rejection in between make an execution stay behind.
* `SpecRunWorkflow`: two roots, a node behind the first and one behind that and the second root: blocking has to
  travel two steps, and two activities run beside each other. Three signals are a retry, a skip and a cancel, or
  two changes of the same node within a pass; listed in order and backwards are the extremes of what the planner
  may answer. One failing call ends the workflow at any await.

Every property has a mutant of a definition in `PROJECT.json`, a change a bug of that code would make, under
which the same run finds it violated.

### Fairness

* `SessionRuntime`: weak fairness of `Actor` only. The scheduler runs a runnable goroutine, and its calls return:
  the executor's loop has a step limit, the model client a timeout. That a command returns is an assumption: the agent may choose its
  `timeoutMs` freely (`implement_executor.go:237`), so the bound is finite but its own, and `cmd.Run` waits beyond it for pipes that a
  grandchild of the command still holds (`local.go:101`). Nothing is asked
  of clients, crashes, faults or restarts; `Settles` therefore ends at a process that is down, and
  `CommandsServed` at an actor that died.
* `GoNodeWork`: weak fairness of `Work(s)` for each session, for the same reason and under the same
  assumption about commands; that the loop ends is not assumed but shown (`SessionsSettle`).
* `SessionDirectory`: weak fairness, per session, of the actor's way to its rest (which `SessionsSettle` and what it
  assumes justify), of the return of a `Start` that failed or succeeded, and of `Stop`, a mutex that is handed to
  those who wait. Not of commands, requests, crashes or faults.
* `CoreRun`: weak fairness of `RunStep`, the steps run() takes by itself: executions, verifications and reviews
  are bounded by the number of turns of the agent loop and the timeouts of its commands. That a call of the model ends is an assumption
  too: `fetch` (`llm.ts:418`, 496) is given no timeout, so what ends a silent connection are the limits on inactivity of Node's
  HTTP client, and nothing ends one that trickles. Nothing is asked of the person at a
  checkpoint, where `RunEnds` may therefore stop.
* `SpecRunWorkflow`: weak fairness of the workflow's own steps, because Temporal schedules a workflow whose await
  returned, and of each activity, whose attempts end after ten minutes; signals need not come.

`Planning`, `EventStream`, `ServerRuns`, `Previews` and `NodeWork` are checked for safety only.

## Disagreements

What the models show of the code where its documentation, a comment or a sensible reader expects something else.

`directory_compat` finds that `VerifyNode` and `EditNode` save the whole graph they loaded, however long ago. Work
the actor finished meanwhile is gone from the snapshot, which the actor does not read back; what it saves next
undoes the edit in turn. `docs/go-backend-replacement-standard.md:74` asks that the snapshot suffice to restore the
runtime.

The others have no run of their own; the properties above are stated with the exceptions they call for.

Go runtime:

* A command writes `running` to the row before the graph is saved (`session_runtime.go:121`, 150, 179). After a
  crash in between, recovery sees a running row beside a paused or failed snapshot, resumes on its own only
  what both call running (`recovery_helpers.go:60`), and the session is shown as running while its actor waits
  beside a node that could run. `docs/go-backend-live-integration-smoke.md:699` promises that it continues.
* Pausing writes the row before the snapshot (`session_runtime.go:248`, 252). After a crash in between the row is
  recovered as paused while the checkpoint is ready again and not offered for approval. A failure is written in
  the same order (379, 383), after which a retry of the session finds nothing. The same notes, line 700, promise both.
* Resuming a session whose checkpoint still waits leaves the row at running although `tick` found nothing to do, and so do other commands
  for a node whose status is not the one they expect. A plan with a circle, which this planner accepts (`llm_planner.go:101`), leaves it at
  running from the start.
* The tick of a recovery is not followed by a save (`manager.go:113`), as those of Bootstrap and of a command are. When it ends with a
  node completed and nothing left to run, say behind another that failed before, the snapshot shows that node as running, to every
  request and to the next recovery, until a command is handled. `SavedWhenIdle` says that nothing else is missing.
* A session whose process ends while it is planned has a row at running and no snapshot; every recovery passes it over
  (`recovery_service.go:37`), and it is shown as running with nobody to run it. An actor that met an error leaves its entry in the
  manager, so its commands are accepted and wait in a channel nobody reads.
* A deletion between the last save of a Bootstrap and its entry in the manager leaves a runtime for a deleted
  session; a failing `Sessions.Delete` leaves a stopped session without one until the next start. A client that
  disconnects during `POST /api/runs` fails the Bootstrap, which runs under the request's context.
* Events appended between the listing and the subscription reach nobody, where
  `docs/go-backend-rearchitecture-plan.md:744` asks for replay and then live events. A node event is projected from a
  snapshot that is saved after `node.completed` is published, so the page may show the node as still running.
* A failing test script of `package.json` does not fail a node (`verifier.go:307`), a finding of a linter by
  extension does. The reviewer sees only the first output. The commands of a project are read from its `package.json` at
  every check (`verifier.go:239`, 288): when a command of the agent, or the agent for whose node it is an output, leaves one with
  only a test script or with `build: true`, nothing compiles the files, not even the compiler for their extension, and the node completes
  with them broken; the next session may have the build again. With a `package.json` above the working directory every
  check command leaves the root, which is an error: the node fails for good without a retry.

TypeScript core and server:

* The comment of `onClarify` (`planner.ts:266`) says "reject to abort", but `buildGraph` catches the rejection (283) and
  plans on with the specification as it was.
* Duplicate files are looked for among names as they are written. The way of a plan does not normalize them, so `a.ts`
  and `output/a.ts` pass as two files and two nodes write one; `OneNameEach` therefore speaks of the other way. `./a.ts` beside
  `a.ts` passes in both. A planner's empty plan is accepted as a graph without nodes.
* `blockDownstream` calls itself for each node it blocks, but what the call returns is overwritten by the caller's
  own copy: only direct dependents of a failed node are blocked, where the comment beside the call and
  `docs/ai-layer-analysis.md:30` promise the whole chain. `FailNode` has the effect of the code.
* The list of checkpoints is computed once per pass (`shipyard.ts:176`). A checkpoint readied by the passing of
  another is not in it, is left out by the dispatch loop (214) as already handled (213), and with nothing in
  flight the loop ends (256): the session fails without any failure. Retrying a failed checkpoint whose
  dependent is blocked ends the same way.
* After an edit `CheckpointOffered` does not hold: everything behind the edited node is made ready, readiness of
  a checkpoint is its status alone, so it is offered before what it is about was done again. With a further
  request `GateConfirmed` fails: `POST /node/:id/retry` of any node of a session that crashed while paused passes the
  first checkpoint it meets, by which nobody confirmed anything. With three checkpoints a plain resume is enough: the
  first is passed and readies the second, the run pauses at the third and crashes; the resumed run passes the second,
  which comes first, in answer to the question about the third, and then asks about the third again.
* A retry of the node a session waits at starts a second run beside the waiting one. The promise of the first is
  never resolved, and the session stays marked as running, answering 409 until a restart.
* A stop during the start of a preview leaves `waitForPort` polling: when another start has the port by then, the old call
  sets the entry to running, or its time-out kills the new process. Two first starts of one session beside each other
  overwrite each other's entry, and the first process is known to nobody. `findFreePort` closes the port before the
  server binds it, so two sessions may get the same one, and the proxy of one shows the output of the other. The same happens without any port
  given out twice when a server finds its port in use and moves to the next one (`preview-manager.ts:78`), which the idle entry of
  another session keeps. A server that is killed leaves the processes behind.
* An edit during a run is overwritten by the next save and stays in the operation log. A `DELETE` during a run makes
  the next save throw, and the log entry of the catch clause makes the directory anew; if a tool call is reported in
  between, or a checkpoint is written, the directory is there again and the run goes on without a session.json.
* An entry of the operation log that cannot be written is given up with a warning (`run.ts:96`, `resume.ts:84`), but the run takes the status
  for reported (`run.ts:342`): the page, which is shown the replay, keeps the old status until the node changes again. The executions of a
  rejected run go on, and the reports of their tool calls (`shipyard.ts:220`) log statuses of a graph that is no longer the session's.
* An attempt that writes nothing, that runs out of turns, or that is retried over the file it left, passes
  verification and review: a node is done without its output. The structured acceptance is skipped if all files
  only declare types. A stray write of a tool is noticed after it overwrote another node's file, and only the
  own output is cleaned up. Writes of commands are never looked at, nor is a `write_file` that throws after it truncated or
  wrote the file (`llm.ts:156`, 220): the attempt completes its node with the file of another one damaged, where the check of the
  writes (`node-executor.ts:146`) is meant to fail it.

Temporal orchestrator:

* The final status is computed after the await of `persistGraph` (`spec-run.workflow.ts:275`, 283), and only a failed
  node prevents done. A node is skipped whose failure blocked others, and they stay blocked, since only a success
  unblocks (250-257); or a failed node is retried while the graph is saved. Either way the run is reported as
  done with nodes that never ran, where lines 8 and 12 promise that a skip unlocks what follows.
  `DoneMeansFinished` and `ReviewedIsDone` state what the code does not do; no run checks them.
* `executeNode` moves a node to done (`spec-run.activities.ts:243`) or failed (215) from ready or pending, which the
  table of transitions (`graph.ts:33`) does not allow: the activity throws after all its work succeeded, and no run
  completes a node, against `docs/temporal-phase4-runbook.md:55`.
* A skip of a pending node is lost when the dispatch loop holds it in its copy. In a plan listed out of order a node
  behind a blocked one stays pending, and the workflow waits until that very node is skipped or the run
  cancelled: retrying the failed node, for which the wait is meant, does not end it. After `cancelRun` the workflow
  ends without waiting for what executes, which line 13 promises.

## Proofs

All theorems hold for every value of the constants that satisfies the assumption named in the module. Liveness
under fairness is out of the reach of the prover and stays with TLC.
`tlapm` checks every proof to its leaves.

### SessionRuntime

The first part of `EventStream_proofs` proves, from the assumptions named in `SessionRuntime` and for every graph, every
retry budget, any channel capacity and any number of commands, crashes and faults:

* `TypeCorrect`: `Spec => []TypeOK`;
* `CompletionIsLogged`: `Spec => []CompletionLogged`;
* `Refinement`: `Spec => ImplementsDagRun`;
* `RetriesAccounted`: `Spec => []RetryAccounting`;
* `RerunsAreRequested`: `Spec => RerunOnlyOnRequest`;
* `WaitsSaved`: `Spec => []SavedWhenIdle`, the wait after a recovery included;
* `PausedOffers`, `FailedOffers`, `NothingLeftToRun`: until the first crash, `PausedOffersCheckpoint`,
  `FailedOffersRetry` (which no run repeats) and `NoIdleWhileRunnable`;
* `RowIsSnapshot`: `RowAlwaysFollows`, what is left of that agreement after crashes.

The argument. `CompletionLogged` is about the stores, which are copied from memory, so it is not
inductive alone. `IndInv` adds that the memory graph's completed nodes are in the log
(`MemoryLogged`), with the one exception the code makes: an approved checkpoint is done in memory before
its event is appended. A crash discards memory and recovery starts from the snapshot, for which the
claim is already known; `NormalizeType` shows that recovery completes nothing. `InHand` says where the
actor holds a graph and a node, and `Dispatched` what it had checked before the event it appends next:
that a node about to be announced as started has its dependencies in the log, and that a node being
verified was announced. The refinement then maps each step: appends are `Start`, `Complete` and
`Approve`, writing `done` is `Finish`, a command on a finished session is `Reopen`, all else stutters.

`Budget` strengthens `RetryAccounting`: snapshot and memory graph each count at least the retries in the log, the
memory graph one more while a retry is counted and not yet logged, and nothing is logged before there is a graph. A
recovery that takes the snapshot for memory therefore loses no logged retry. `Asked` is the reason behind
`RerunOnlyOnRequest`: where the next save would take a completion out of the snapshot, memory has lost it already, and
the retry command is in the log or is the event logged next. The graph is saved when the tick returns, after that event.

`AtRest` is about the actor between two commands. `Phase` says, for each place of the actor, what the row holds: `running`
through the loop, the new status from its write to the next command, and on return from a tick that left it
`running` no node is ready. A crash ends this: the row is written before the snapshot, so a recovered session may be shown
as paused or failed beside an older snapshot (see Disagreements). The three properties say so with `crashes = 0`.
`SavedWhenIdle` needs no such condition: `RecoveryLag` says what the snapshot may lack during and after the tick of a recovery, one
completion, because that tick saves with each node it starts. Neither does what is left
of the agreement between row and snapshot: `RowIsSnapshot` says that a session at rest which the row calls done, failed or
paused has a snapshot with that status, after any crashes. It follows from `RowFollowsGraph`, which names the places
between the two writes; a recovery takes the status from the row into the graph it saves (`NormalizedStatus`).

Only model-checked: the liveness properties `Settles` and `CommandsServed`, which are out of the prover's reach.

### CoreRun

`CoreRun_proofs` proves, from `GraphAssumption` and `RunAssumption` and for every graph, every retry limit and
any number of requests, edits, crashes and rejected runs:

* `TypeCorrect`, `LoopMatchesGraph`, `WaitsSaved`, `BlockedWaits`, `AttemptsAreBounded`: the invariants
  `TypeOK`, `InFlightIsRunning`, `SavedWhileWaiting`, `BlockedHasOpenDependency` (which no run repeats) and
  `AttemptsBounded`;
* `Refinement`: `Spec => ImplementsDagRun`;
* `OfferedWhenDone`: `CheckpointOffered`, which speaks of sessions until a node is edited;
* `GateIsConfirmed`: `GateConfirmed`, of sessions until a node is edited or retried alone, in a graph with one
  checkpoint (`SingleGate`);
* `LeftBehindFailure`: `NothingRunnableLeft`, in a graph without circles (`Acyclic`) in which no checkpoint depends on
  another (`GatesApart`); the property leaves out sessions where a run was rejected and a single node retried.

Dependencies need not be acyclic for any but the last: a circle only never becomes ready.

The argument. One lemma per operation on a graph says what it does to a good graph, one whose blocked nodes
have an open dependency and whose retries are within their limits: an operation of the loop moves it
`Onward`, an interruption or a request `Back`. `Counted` makes the bound on attempts inductive: it is the
number of starts a graph accounts for, its retries and one more when the present attempt was started. The
end of an attempt keeps it, since failing keeps the attempt and retrying counts it; only an interruption can
lose one, and that is what the bound allows for (`FileInv`). `LoopShape` and `InFlightIsRunning` give the
loop its preconditions: the node whose result arrives is running. For the refinement `StepEffect` sorts the
steps by what they do to the file (nothing that is recorded, a start, a closing, the end, an edit) and
`StepRefines` maps each kind to its action of `DagRun`; an edit is `Redo` because `AffectedBy` is closed under
dependents.

`SavedWhileWaiting` follows from `Saved`: between two awaits the file holds the graph, since every step of the
loop ends with the save of what it changed.

Three theorems carry a condition, because the code does not keep the property without it (see Disagreements).
`OfferedWhenDone` follows from `GateReady`: a checkpoint that is ready, was reached or failed has nothing open before it,
which every operation but an edit keeps, since no other takes a completion back. `GateIsConfirmed` follows from
`Confirmations`: the file is paused only while its one checkpoint waits, and the approval a resumed run gives by
itself is only there with the confirmation of that checkpoint.

`LeftBehindFailure` follows from `LeftInv`. `PassShape` carries what one part of a pass established over its awaits: nothing is
left to promote and every ready checkpoint is in `cps`, then no checkpoint is ready, then nothing can be dispatched.
`BlockedBehind` sharpens the open dependency of a blocked node to one that passing checkpoints does not close: a
node, or a checkpoint that failed. At the end of a pass each remaining node has therefore failed or depends on a remaining one
(`LeftWaits`), and without circles the remaining nodes that are behind no failed one would have a first, which has no
reason to remain. TLC shows that neither condition can go. With two checkpoints in a row the second is made
ready by the passing of the first, is not in `cps`, and is no node to dispatch: the run ends with it ready. Where a run was
rejected while a checkpoint was running, `PatchStuck` fails the checkpoint and blocks what is behind it; a retry of it alone makes
the checkpoint ready, its passing makes the blocked node pending after the loop has promoted, and the run ends with it
pending.

Only model-checked: `RunEnds`, a liveness property.

### SpecRunWorkflow

`SpecRunWorkflow_proofs` proves, from `WorkflowAssumption`, for every plan and any number of signals and failing
calls: `TypeCorrect`; `RunningIsInFlight`, `CalledInOrder` and `NeverStuckInOrder`, the three invariants of
`workflow_signals`; and `NobodyStaysBlocked` (`BlockedWaits`), on which the last rests and which no run repeats.

The argument. A pass decides on a copy that signals outdate, so the invariants alone are not inductive. `Fresh`
says what remains true of the copy: its nodes can only have been skipped, and nothing that depends on
one of them was called. `Passed` says of the nodes no longer in the copy that none has to be blocked, nor will
have to because of a node that is. One lemma per operator of the coroutine (`EndOfPassArrives`,
`DispatchPassArrives`, `BlockPassArrives`, `LoopTopArrives`) carries the invariant to the next await, and one
per signal shows that it keeps what a pass relies on: a retried node depends on nothing in the copy. That the
workflow does not wait needs a first pending node (`FirstExists`, from the well-foundedness of finite sets under
inclusion): everything before it is settled, so it is ready or was blocked (`PendingIsStuck`).

Only model-checked: `SkipTakesEffect` and `Ends`, which are liveness properties.

### SessionDirectory

`SessionDirectory_proofs` proves, for any number of sessions, commands, crashes and faults, `TypeCorrect`,
`UnfinishedIsServed` (`ShownIsServed`) and `OnlyEditsTakeBack` (`TakenBackOnlyByEdits`). `ShownIsServed` speaks of a
server that listens; while the recovery is on its way it holds but for what it has still to visit
(`ShownOrToDo`). `ActorServed` is needed because rows and snapshots are written by actors: whoever can still write is served or was
stopped. For the order of snapshots, `NothingNewer` says that an actor's graph is never behind the snapshot or what a request
has loaded, and `NothingYet` that nothing was saved or loaded of a session before its plan.
That the snapshot goes with the row is the foreign key of the schema and no theorem. Only model-checked: `StopsGetThrough`, a liveness property.

### EventStream

The module is composed, and so is its proof. `StepOfRuntime` shows that a step of the composition is a step of
`SessionRuntime` or leaves its variables alone (`WatchedRuntime`), so the inductive invariant of
`SessionRuntime` holds here and gives the type of the log; the theorems of both are in one module, the second part of
which uses the lemmas of the first. `OnlySeenLost` (`NothingElseLost`) and
`StreamGoesForward` (`InOrder`, which no run repeats) then follow from `StreamInv`: the channel is in the order of publication (`Ordered`),
empty when nobody listens (`Silent`), and whatever was published after the last delivered revision waits in it or
is counted as unseen (`Followed`), without which a step that skips a revision could not be told from a loss.

`EndIsShown` (`FinishedIsShown`) relates the page to the row across the whole session. `EndInv` says that of the ends the
page has still to be told the last one is the row's (`ToldLast`), and that the page shows the row's end or such an
end is waiting (`ShownOrTold`); the row and the last end agree because the actor waits for the store before the
next event, so at most one end is committed and unpublished (`OneUnpublished`). A fetched snapshot agrees with the row by
`RowFollowsGraph` of `SessionRuntime`. The theorem covers sessions that end any number of times, which
the instance of `stream` is too small for: there the page may get an end while a later one
is on its way, and a snapshot fetched in between is ahead of the events, which is why the delivery of an outdated end leaves the
page outdated.

### Planning

`Planning_proofs` proves, from `PlanningAssumption` and for any steps, names, plans and number of attempts, `TypeCorrect`,
`AcceptedFinishes` (`AcceptedCanFinish`), `CyclesAreThere` (`CycleIsThere`) and `NamesAreApart` (`OneNameEach`).

The argument. The first two are the soundness and the completeness of the search for circles, which is proved with its calls
as they are. `Frames` says of the calls that each was made for a dependency of the one below it, and that whatever a
call has already looked at was visited, or is being visited by the call above. So a node that is left has all its
dependencies among the visited ones, and adding it closes no circle (`OneMore`); and if a node is met that is being visited,
the calls from it upwards each have a dependency among them, which is the circle that is reported. `Roots` says that
every step of the plan is visited in the end. That a plan is well-formed is said with "among any nodes one depends on none of the
others" rather than with paths, which needs no induction. `AsNormalized` carries the normalized names from `normalizePlanData`
over the validation: duplicates were looked for among the names the nodes get, which are fixed points of
`Normalize`.

`LeftBehindFailure` assumes `Acyclic`: of the dependencies a run starts with, `AcceptedFinishes` discharges that. All properties
of `planning` are proved.

### GoNodeWork

`GoNodeWork_proofs` proves `TypeCorrect` and `Completed` (`CompletedIsChecked`), for any sessions, outputs (the manifest
included), kinds of manifest and commands. The property is about the end of a verification whose checks read the directory and
its scripts at different moments, so `Established` says what each finished check leaves true of the files still written by the
node: that they are there after the presence check, and compile where something read them (`looked`), before the review. It survives the writes of
others because they take the file over (`Keeps`), and the actor's own because it writes for one node at a time
(`Owned`). Only model-checked: `SessionsSettle`, a liveness property.

### ServerRuns

`ServerRuns_proofs` proves `TypeCorrect`, `OneRunWrites` (`OneWriter`), `PausedResumes` (`PausedCanResume`) and
`MarkIsExplained` (`MarkedMeansRunning`, which no run repeats), for any number of sessions, graphs and requests. The three support each
other, so `Ctl` states them together for one session: a worker is the newest run and its session marked; a promise
belongs to a waiting run of the session, and if another run was started since, the session is marked
(`PromiseIsKept`), which is why no request resolves it and the superseded run never writes; a mark is a worker or a
promise; a paused session has a file, and a promise unless the process crashed. Each request keeps `Ctl` of its own
session and does not touch the others.

`ReplayIsExplained` (`ReplayExplained`) needs more than the graph file: a run logs the difference between the graph it
saves and the one it had in memory, so a change made behind it is in the file and not in memory, and comes back with its
next save. `Explained` therefore says of the file and of the memory of the newest run what was changed behind the log, and of the log of a
deleted session that it has nothing but what came late;
`LogFollowsFile` and `RunsArePlanned` say that nothing is logged before there is a file. An entry that fails is in `touched` from then
on, since memory and file agree on its node and no later save logs it (`SavedLog`). One lemma per action (`WorkLog`, `ThrowLog`,
`LiveToolCallLog`, `CrashLog` and so on) carries `Log` of its session on.
All properties of `server` are proved.

### Previews

The second part of `ServerRuns_proofs` proves, from `PreviewAssumption`, for any number of sessions, ports, launches and
starts beside each other, `PreviewsTyped`, `NothingLeftRunning` (`NoneLeftRunning`), `PortsAreOwn` and `ShownPreviewIsOwn` (`ShownIsOwn`).

The argument. The entry, the process, the call that waits for its port and the call that looks for one change at different
moments, so `PreviewInv` relates each pair. `ChildInv`: the process an entry names runs, was stopped by nobody and was launched
for it. `WaitingInv`: unless there was an accident, a launch that waits is the one the entry names, which is why
`Connected` and `TimedOut`, which look at nothing, do the right thing. `StartingInv` and `RunningInv` give the
status its launch and its process, the former whatever happened before. `FindingInv`: a start that looks for a port
alone comes back to an entry without process and port, and may overwrite it. `PortInv`: a port that was not given
out again is held by one session, by its entry or a launch; `ListensInv`, the theorem `PortsAreOwn`: and nobody listens there but a
process of that session, wherever servers moved. `DeadInv` says that only what runs is stopped or left
behind, without which a process could not take over the identity of one that is gone.

### NodeWork

`NodeWork_proofs` proves `TypeCorrect`, `IntrudersAreFailed` (`IntrudersFail`), `ReportsAreVerified` (`ReportedIsVerified`) and
`DoneCompiles` (`DoneRunCompiles`), for any nodes, writes, turns, runs and faults. All of them relate a file to
the attempt that wrote it, so the proof first makes attempts unique: `Working` (who works in the present run works
for a running node under its retry count, of earlier runs only executions are left), `Past` (no attempt that wrote
is still to come) and `Credited` (a node is done exactly when an attempt that is over completed it). `Caught` follows a
stray write that was reported: it is in the report of its attempt while that executes, makes it fatal when it settles, and never
reaches the review. `Reviewed` carries the verdict of the verification over the review, during which others write.
`Ended` says that nobody of the present run works when it is done, so that what is checked at the end stays.

## Plan

Done, in this order: `SessionRuntime` with `DagRun`; `CoreGraph` and `CoreRun`; `SpecRunWorkflow`; `EventStream`;
`SessionDirectory`; `ServerRuns`; `NodeWork`; `GoNodeWork`; the proofs of each; `Planning` and `Previews` with their proofs. Every invariant and
every action property of a passing run is a theorem; what only TLC checks are the liveness properties `Settles`, `CommandsServed`,
`RunEnds`, `SkipTakesEffect`, `Ends`, `SessionsSettle` and `StopsGetThrough`.

Left: the graph the Temporal activities hand on, once they can succeed; previews of the Go server; the planner of
the Go server, whose validation differs; a refinement of `ServerRuns`' coarse `run()` by `CoreRun`.

## Not modelled

* Prompting, the parsing of model answers, compilers, test runners and file access are I/O whose outcome enters the
  models as a choice or a quality of a file.
* Chat, clarification, requirement documents, settings and file listings are single request-response calls with
  hardly any state. The previews of the Go server have state, but none that the runs share.
* The web client beyond the store that follows a session, and the CLI beyond its call of `run()`, are presentation.
* Migrations, stars, time stamps, titles and logging are left out. A revision conflict of the event store cannot happen
  with one writer per session.
* The statistics, the history and the impact analysis of the core graph only report. An edit of `dependsOn`, which could
  close a circle, is left out because dependencies are constants.

`PROJECT.json` gives the state of each component.
