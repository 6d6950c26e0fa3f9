------------------------------- MODULE NodeWork -------------------------------
(***************************************************************************)
(* What the nodes of a run of packages/core do to the output directory     *)
(* they share: the agent of each attempt and its tools (ai/llm.ts), the    *)
(* check of what it wrote (orchestrator/node-executor.ts), verification    *)
(* and review (verification/verify.ts, orchestrator/review.ts), testers    *)
(* (tester-pass.ts) and the compilation at the end (shipyard.ts).  The     *)
(* attempts of a run, and those a rejected run left behind, work at the    *)
(* same time.  CoreRun has the loop around them; here a node waits, runs,  *)
(* and is done or failed.                                                  *)
(***************************************************************************)
EXTENDS Naturals, FiniteSets

CONSTANTS
  Node,
  Tester,       \* nodes the tester pass may add
  Tested,       \* the node whose file a tester tests
  DependsOn,
  MaxRetries,
  File,         \* paths in the working directory
  Output,       \* outputs.files[0] of a node
  TestFile,     \* the test file beside the output of a node
  Compiled,     \* files the compiler looks at in verification
  Integrated,   \* files the compilation at the end of a run looks at
  Demanding,    \* nodes with a structured acceptance
  MaxTurns,     \* MAX_TURNS of runAgent
  Writes,       \* what a call may write: files with a quality
  MaxWrites,    \* bound: files written by tools and commands
  MaxRuns,      \* bound: runs of the graph
  MaxFaults,    \* bound: crashes and rejected runs
  NoNode, NoFile

ASSUME WorkAssumption ==
  /\ Tester \subseteq Node /\ Tested \in [Tester -> Node \ Tester]
  /\ DependsOn \in [Node -> SUBSET Node] /\ MaxRetries \in [Node -> Nat]
  /\ Output \in [Node -> File] /\ TestFile \in [Node -> File \cup {NoFile}]
  /\ \A m, n \in Node : Output[m] = Output[n] => m = n
  /\ \A t \in Tester : Output[t] = TestFile[Tested[t]]
  /\ Compiled \subseteq File /\ Integrated \subseteq Compiled /\ Demanding \subseteq Node \ Tester
  /\ Writes \subseteq File \X {"broken", "types", "partial", "good"}
  /\ {MaxTurns, MaxWrites, MaxRuns, MaxFaults} \subseteq Nat /\ MaxRuns > 0
  /\ NoNode \notin Node /\ NoFile \notin File

VARIABLES
  disk,      \* the output directory
  node,      \* status of each node
  retry,     \* retryCount
  error,     \* lastErrorKind; a verification and a review are told apart nowhere
  evidence,  \* the attempt a node was completed with and evidence.filesWritten
  agent,     \* executeNode of a node in a run, and what run() does with its result
  graph,     \* status of the graph
  run,       \* number of the run
  writes, faults   \* counters of the bounds

loop == <<node, retry, error, evidence>>
vars == <<disk, loop, agent, graph, run, writes, faults>>

\* What the checks can tell of a content: the compiler rejects it; it exports
\* nothing that runs; it exports less than the acceptance asks for, or imports
\* what that forbids; none of these.
Quality == {"broken", "types", "partial", "good"}
Attempt == Node \X (1..MaxRuns) \X Nat
NoAttempt == <<NoNode, 0, 0>>
Missing == [quality |-> "none", by |-> NoAttempt, reported |-> FALSE]
Content == [quality : Quality, by : Attempt, reported : BOOLEAN] \cup {Missing}
Idle == [stage |-> "none", no |-> 0, turn |-> 0, files |-> {}, fatal |-> FALSE]

Agents == Node \X (1..MaxRuns)
By(n, r) == <<n, r, agent[<<n, r>>].no>>
Asking == {a \in Agents : agent[a].stage = "asking"}
Stage(s) == {n \in Node : agent[<<n, run>>].stage = s}
WithStatus(s) == {n \in Node : node[n] = s}

Init ==
  /\ disk = [f \in File |-> Missing]
  /\ node = [n \in Node |-> IF n \in Tester THEN "absent" ELSE "waiting"]
  /\ retry = [n \in Node |-> 0] /\ error = [n \in Node |-> "none"]
  /\ evidence = [n \in Node |-> [by |-> NoAttempt, files |-> {}]]
  /\ agent = [a \in Agents |-> Idle]
  /\ graph = "running" /\ run = 1
  /\ writes = 0 /\ faults = 0

-----------------------------------------------------------------------------
(* The model                                                                *)

Body == {"calls", "text", "nothing", "busy", "refused"}
Answer == {"calls", "text"}

\* callResponsesAPI: a body without text and calls is an error like another.
Responses(body) == IF body \in Answer \cup {"busy"} THEN body ELSE "error"

\* assembleFromSseChunks takes calls that came without a finish_reason for a stop.
Assembled(body) == IF body = "calls" THEN Answer ELSE {Responses(body)}

\* callChatCompletionsAPI, whose answer may be a stream of chunks
ChatCompletions(body) == {Responses(body)} \cup Assembled(body)

\* One attempt of callModelEndpoint: the second interface is asked when the first
\* gives no answer, and either error may make it worth while to ask again.
Reply(first, second) ==
  IF first \in Answer THEN first
  ELSE IF second \in Answer THEN second
  ELSE IF "busy" \in {first, second} THEN "busy" ELSE "error"

Replies == {Reply(Responses(b), c) : b \in Body, c \in UNION {ChatCompletions(d) : d \in Body}}

\* callModelEndpoint asks a busy endpoint again a few times, then gives up.
Endpoint == (Replies \ {"busy"}) \cup (IF "busy" \in Replies THEN {"error"} ELSE {})

-----------------------------------------------------------------------------
(* One attempt: executeNode                                                 *)

\* The output of the node and the test file beside it.
Allowed(n) == {Output[n], TestFile[n]}

\* Mutant: whatever is the output of some node may be written.
InAnyOutput(n, files) == files \subseteq {Output[m] : m \in Node} \cup {TestFile[n]}

\* ensureWritesStayWithinExpectedOutputs, called when the agent has ended
StaysWithin(n, files) == files \subseteq Allowed(n)

\* cleanupNodeOutputsOnRetry
Cleaned(n) == IF error[n] = "fatal" THEN [disk EXCEPT ![Output[n]] = Missing] ELSE disk

Ready == {n \in WithStatus("waiting") : DependsOn[n] \subseteq WithStatus("done")}

StartAttempt(n) ==
  /\ graph = "running" /\ Stage("review") = {} /\ n \in Ready
  /\ node' = [node EXCEPT ![n] = "running"]
  /\ disk' = Cleaned(n)
  /\ agent' = [agent EXCEPT ![<<n, run>>] = [Idle EXCEPT !.stage = "asking", !.no = retry[n]]]
  /\ UNCHANGED <<retry, error, evidence, graph, run, writes, faults>>

\* executeTool: a write_file that succeeds is reported to the attempt.  What a
\* command writes is not, nor the glob of search_files, which the shell reads as
\* well, nor a write_file that throws after it has changed the file.  Every other
\* call writes nothing.
ToolCall(n, r) ==
  LET next == [agent[<<n, r>>] EXCEPT !.turn = @ + 1] IN
  \/ /\ agent' = [agent EXCEPT ![<<n, r>>] = next]
     /\ UNCHANGED <<disk, writes>>
  \/ \E w \in Writes, reported \in BOOLEAN :
       /\ writes < MaxWrites /\ writes' = writes + 1
       /\ disk' = [disk EXCEPT ![w[1]] = [quality |-> w[2], by |-> By(n, r), reported |-> reported]]
       /\ agent' = [agent EXCEPT ![<<n, r>>] =
            IF reported THEN [next EXCEPT !.files = @ \cup {w[1]}] ELSE next]

\* The promise of executeNode never rejects, and an error reports no files; of
\* an earlier run's, nobody takes the result.
Settle(n, r, fatal) ==
  /\ agent' = [agent EXCEPT ![<<n, r>>] =
       IF r # run THEN Idle
       ELSE [Idle EXCEPT !.stage = "settled", !.no = agent[<<n, r>>].no, !.fatal = fatal,
                         !.files = IF fatal THEN {} ELSE agent[<<n, r>>].files]]
  /\ UNCHANGED <<disk, writes>>

\* The reply to runAgent, which stops after MaxTurns calls as if all was done.
Turn(n, r) ==
  LET att == agent[<<n, r>>] IN
  /\ att.stage = "asking"
  /\ IF att.turn = MaxTurns THEN Settle(n, r, ~StaysWithin(n, att.files))
     ELSE \E reply \in Endpoint :
       \/ reply = "calls" /\ ToolCall(n, r)
       \/ reply = "text" /\ Settle(n, r, ~StaysWithin(n, att.files))
       \/ reply = "error" /\ Settle(n, r, TRUE)
  /\ UNCHANGED <<loop, graph, run, faults>>

-----------------------------------------------------------------------------
(* Verification and review: handleCompletedNodeResult                       *)

HasImplementation(files) == \E f \in files : disk[f].quality \in {"partial", "good"}

\* Mutant: only the output of the node is compiled.
CompilesOutput(n, files) == \A f \in files \cap Compiled \cap {Output[n]} : disk[f].quality # "broken"

\* runCompileCheck: no files compile.
Compiles(n, files) == \A f \in files \cap Compiled : disk[f].quality # "broken"

\* buildStructuredAcceptanceRecords
Accepted(n, files) == n \in Demanding => \E f \in files : disk[f].quality = "good"

\* runTesterNodeVerification: without a test file there is nothing to run.
TestsPass(n, files) == IF Output[n] \in files THEN BOOLEAN ELSE {TRUE}

\* verifyNode: the acceptance is looked at only when something runs.
Verified(n, files) ==
  IF n \in Tester THEN TestsPass(n, files)
  ELSE {Compiles(n, files) /\ (HasImplementation(files) => Accepted(n, files))}

Rejected(n, kind) ==
  /\ IF retry[n] < MaxRetries[n]
     THEN /\ node' = [node EXCEPT ![n] = "waiting"]
          /\ retry' = [retry EXCEPT ![n] = @ + 1] /\ error' = [error EXCEPT ![n] = kind]
     ELSE node' = [node EXCEPT ![n] = "failed"] /\ UNCHANGED <<retry, error>>
  /\ agent' = [agent EXCEPT ![<<n, run>>] = Idle]
  /\ UNCHANGED evidence

\* collectWrittenFiles
Evidence(n) == [by |-> By(n, run), files |-> agent[<<n, run>>].files]

Completed(n) ==
  /\ node' = [node EXCEPT ![n] = "done"]
  /\ evidence' = [evidence EXCEPT ![n] = Evidence(n)]
  /\ agent' = [agent EXCEPT ![<<n, run>>] = Idle]
  /\ UNCHANGED <<retry, error>>

\* The result run() waited for; without a file there is nothing to review.
HandleResult(n) ==
  LET att == agent[<<n, run>>] IN
  /\ graph = "running" /\ Stage("review") = {} /\ Ready = {} /\ n \in Stage("settled")
  /\ \/ att.fatal /\ Rejected(n, "fatal")
     \/ ~att.fatal /\ FALSE \in Verified(n, att.files) /\ Rejected(n, "other")
     \/ ~att.fatal /\ TRUE \in Verified(n, att.files) /\ att.files = {} /\ Completed(n)
     \/ /\ ~att.fatal /\ TRUE \in Verified(n, att.files) /\ att.files # {}
        /\ agent' = [agent EXCEPT ![<<n, run>>].stage = "review"] /\ UNCHANGED loop
  /\ UNCHANGED <<disk, graph, run, writes, faults>>

\* runCodeReview, after the answer of the model: an answer that cannot be read,
\* or none, is a pass.
FinishReview(n) ==
  /\ graph = "running" /\ n \in Stage("review")
  /\ Completed(n) \/ Rejected(n, "other")
  /\ UNCHANGED <<disk, graph, run, writes, faults>>

-----------------------------------------------------------------------------
(* The end of a run                                                         *)

\* shouldCreateTesterNode
NewTesters ==
  {t \in Tester : /\ node[t] = "absent" /\ node[Tested[t]] = "done"
                  /\ disk[Output[Tested[t]]] # Missing /\ disk[Output[t]] = Missing}

\* collectOutputFiles: what is there of the outputs of all nodes
OutputFiles == {Output[n] : n \in {m \in Node : node[m] # "absent"}} \cap Integrated

\* Mutant: the files the attempts reported.
ReportedCompile == \A n \in Node : \A f \in evidence[n].files \cap Integrated : disk[f].quality # "broken"

\* runIntegrationCompileCheck
IntegrationCompiles == \A f \in OutputFiles : disk[f].quality # "broken"

Return ==
  /\ graph = "running" /\ Ready = {}
  /\ Stage("none") = Node
  /\ LET allDone == WithStatus("done") \cup WithStatus("absent") = Node IN
     IF allDone /\ NewTesters # {}
     THEN /\ node' = [n \in Node |-> IF n \in NewTesters THEN "waiting" ELSE node[n]]
          /\ UNCHANGED graph
     ELSE /\ graph' = IF allDone /\ IntegrationCompiles THEN "done" ELSE "failed"
          /\ UNCHANGED node
  /\ UNCHANGED <<disk, retry, error, evidence, agent, run, writes, faults>>

\* run() rejects; what it started goes on.
Reject ==
  /\ graph = "running" /\ faults < MaxFaults
  /\ faults' = faults + 1 /\ graph' = "failed"
  /\ UNCHANGED <<disk, loop, agent, run, writes>>

Crash ==
  /\ faults < MaxFaults /\ faults' = faults + 1
  /\ agent' = [a \in Agents |-> Idle]
  /\ graph' = IF graph = "running" THEN "failed" ELSE graph
  /\ UNCHANGED <<disk, loop, run, writes>>

\* The graph is resumed, or what failed is retried.
RunAgain ==
  /\ graph = "failed" /\ run < MaxRuns
  /\ run' = run + 1 /\ graph' = "running"
  /\ \E again \in {{"running"}, {"running", "failed"}} :
       node' = [n \in Node |-> IF node[n] \in again THEN "waiting" ELSE node[n]]
  /\ agent' = [a \in Agents |-> IF a \in Asking THEN agent[a] ELSE Idle]
  /\ UNCHANGED <<disk, retry, error, evidence, writes, faults>>

Next ==
  \/ \E n \in Node : StartAttempt(n) \/ HandleResult(n) \/ FinishReview(n)
  \/ \E a \in Agents : Turn(a[1], a[2])
  \/ Return \/ Reject \/ Crash \/ RunAgain

Spec == Init /\ [][Next]_vars

-----------------------------------------------------------------------------
(* Properties                                                               *)

TypeOK ==
  /\ disk \in [File -> Content]
  /\ node \in [Node -> {"absent", "waiting", "running", "done", "failed"}]
  /\ retry \in [Node -> Nat] /\ error \in [Node -> {"none", "fatal", "other"}]
  /\ evidence \in [Node -> [by : Attempt \cup {NoAttempt}, files : SUBSET File]]
  /\ agent \in [Agents -> [stage : {"none", "asking", "settled", "review"}, no : Nat,
                           turn : 0..MaxTurns, files : SUBSET File, fatal : BOOLEAN]]
  /\ graph \in {"running", "done", "failed"} /\ run \in 1..MaxRuns
  /\ writes \in 0..MaxWrites /\ faults \in 0..MaxFaults

\* The tools let an agent write any file of the directory, that of a completed
\* node included, and only the end of the attempt looks at it: what a write_file
\* that succeeded put into a file that is not its node's comes from no attempt a
\* node was completed with.  What went behind the report may (see README).
IntrudersFail ==
  \A f \in File : disk[f].reported /\ f \notin Allowed(disk[f].by[1]) =>
    \A n \in WithStatus("done") : evidence[n].by # disk[f].by

\* A file that a completed node reports, and that nobody wrote since, compiles;
\* and if some of its files run, what the acceptance asks for is in them.
ReportedIsVerified ==
  \A n \in WithStatus("done") \ Tester :
    LET own == {f \in evidence[n].files : disk[f].by = evidence[n].by}
    IN  /\ \A f \in own \cap Compiled : disk[f].quality # "broken"
        /\ (own = evidence[n].files /\ HasImplementation(own)) => Accepted(n, own)

\* However the files of a run were written, overwritten behind a completed node
\* and left by rejected attempts: when it ends as done they compile, but for
\* what an execution of an earlier, rejected run writes.
DoneRunCompiles ==
  graph = "done" =>
    \A f \in OutputFiles : disk[f].quality = "broken" => disk[f].by[2] # run
=============================================================================
