------------------------------ MODULE GoNodeWork ------------------------------
(***************************************************************************)
(* The execution of the nodes of a session of apps/server-go: the loop of  *)
(* the agent (runtime/implement_executor.go) or the executor that needs no *)
(* model (executor.go), the tools on the working directory                 *)
(* (infra/toolrunner), the verifier both the agent and the session call    *)
(* (verifier.go), and what the session does with the result                *)
(* (session_runtime.go).  Sessions given the same repoPath share one       *)
(* directory and work in it at the same time; the nodes of one session run *)
(* one after the other.  SessionRuntime has commands, snapshots and        *)
(* crashes; here a session goes through its nodes once.                    *)
(***************************************************************************)
EXTENDS Naturals, Sequences

CONSTANTS
  Session,
  Scripted,     \* sessions whose executor writes without a model
  Node,
  SessionOf,
  DependsOn,
  Outputs,      \* the outputs of a node, in order
  MaxRetries,
  File,         \* paths in the directory
  Manifest,     \* its package.json
  Kind,         \* what a package.json may say
  Unread,       \* one that cannot be parsed
  Scripts,      \* what buildProjectCommands makes of each kind, {} if nothing
  LooksAt,      \* the files the scripts of each kind read: `build: true` reads none
  Above,        \* a package.json with scripts lies above the directory only
  Compiled,     \* files a compiler may be found for, by their extension
  Linted,       \* files a linter or a test run may be found for
  Reviewed,     \* a model for the reviewer is configured
  MaxSteps,     \* MaxSteps of the executor
  Writes,       \* what a command may leave: files with a quality
  MaxWrites,    \* bound: files changed by commands
  NoNode

\* What the checks can tell of a file: it is missing or blank; the compiler
\* rejects it; a linter or its tests do; none of these.  Of the manifest: it is
\* missing, or of a kind.
Quality == {"none", "broken", "rough", "good"}
ManifestQuality == {"none"} \cup Kind

ASSUME GoWorkAssumption ==
  /\ Scripted \subseteq Session /\ SessionOf \in [Node -> Session]
  /\ DependsOn \in [Node -> SUBSET Node]
  /\ \A n \in Node : \A d \in DependsOn[n] : SessionOf[d] = SessionOf[n]
  /\ Manifest \in File /\ Outputs \in [Node -> Seq(File)]
  /\ \A n \in Node : Outputs[n] # <<>>
  /\ Unread \in Kind /\ "broken" \notin Kind /\ "none" \notin Kind
  /\ Scripts \in [Kind -> SUBSET {"build", "tsc", "test", "lint"}] /\ Scripts[Unread] = {}
  /\ LooksAt \in [Kind -> SUBSET (File \ {Manifest})]
  /\ Compiled \subseteq File \ {Manifest} /\ Linted \subseteq File \ {Manifest}
  /\ {Above, Reviewed} \subseteq BOOLEAN
  /\ MaxRetries \in [Node -> Nat] /\ {MaxSteps, MaxWrites} \subseteq Nat /\ MaxSteps > 0
  /\ Writes \subseteq File \X (Quality \cup ManifestQuality)
  /\ NoNode \notin Node

VARIABLES
  disk,    \* the directory
  node,    \* status of each node
  retry,   \* RetryCount
  exec,    \* what the actor of each session is doing, and for which node
  writes,  \* counter of the bound
  looked   \* history: the files the build or the compilers read in the check
           \* of each node that its session last saw pass

vars == <<disk, node, retry, exec, writes, looked>>

\* The node whose execution wrote a file last; what the scripts of a project
\* write, or was there, is nobody's.
Content == [quality : Quality \cup ManifestQuality, by : Node \cup {NoNode}]
Written(q, n) == [quality |-> q, by |-> n]

Stages == {"idle", "asking", "writing", "presence", "checks", "collect", "review", "ended"}

\* Who called the verifier: the agent after a write or before it ends, or the session.
Callers == {"write", "finish", "session"}
Idle == [stage |-> "idle", node |-> NoNode, step |-> 0, caller |-> "session"]

Files(n) == {Outputs[n][i] : i \in DOMAIN Outputs[n]}
Present(n) == \A f \in Files(n) : disk[f].quality # "none"
Of(s) == {n \in Node : SessionOf[n] = s}

Init ==
  /\ \E q \in ManifestQuality :
       disk = [f \in File |-> Written(IF f = Manifest THEN q ELSE "none", NoNode)]
  /\ node = [n \in Node |-> "ready"] /\ retry = [n \in Node |-> 0]
  /\ exec = [s \in Session |-> Idle] /\ writes = 0
  /\ looked = [n \in Node |-> {}]

-----------------------------------------------------------------------------
(* The checks of BasicVerifier                                              *)

\* Mutant: the build of the project is only recorded, too.
OnlyCompilerRequired == {"tsc"}

\* detectPackageManager, buildProjectCommands: a failed test or lint of the
\* project is only recorded.
Required == {"build", "tsc"}

\* findNearestPackageJSONForOutputs, which goes on above the directory
Project ==
  IF disk[Manifest].quality # "none" THEN disk[Manifest].quality
  ELSE IF Above THEN "above" ELSE "none"

Outcome(result, files) == [result |-> result, looked |-> files]

Rejects(k, command) ==
  LET bad == IF command \in Required THEN {"broken"} ELSE {"broken", "rough"}
  IN  \E f \in LooksAt[k] : disk[f].quality \in bad

\* What the build reads, or the compiler that stands in for it.
Reads(k) == IF Scripts[k] \cap {"build", "tsc"} = {} THEN {} ELSE LooksAt[k]

\* runProjectAwareChecks, with the scripts the manifest has now: any of them may
\* also run out of time, or not be started, which is an error.
ProjectChecks(k) ==
  {Outcome("error", {})} \cup
  {Outcome(IF failed \cap Required # {} THEN "failed" ELSE "passed", Reads(k)) :
     failed \in {c \in SUBSET Scripts[k] : {d \in Scripts[k] : Rejects(k, d)} \subseteq c}}

\* runDeterministicChecks, by extension, with the tools that are found now: here
\* what a linter rejects counts.  A tool may run out of time or not be started;
\* the configuration of the compiler is written first, and may not be.
ExtensionChecks(n) ==
  {Outcome("passed", compiled) : compiled \in
     {c \in SUBSET (Files(n) \cap Compiled) : \A f \in c : disk[f].quality # "broken"}}
  \cup {Outcome(result, {}) : result \in
          IF Files(n) \cap (Compiled \cup Linted) # {} THEN {"failed", "error"} ELSE {}}

\* A manifest that gives no command is passed over.  The tools refuse a command
\* above the directory.
CheckResults(n) ==
  CASE Project = "above" -> {Outcome("error", {})}
    [] Project \in Kind /\ Scripts[Project] # {} -> ProjectChecks(Project)
    [] OTHER -> ExtensionChecks(n)

-----------------------------------------------------------------------------
(* What the session does with the result of a node                          *)

Enter(s, stage, caller) == [exec EXCEPT ![s].stage = stage, ![s].caller = caller]

\* Mutant: a call does not count.
ContinueFree(s) == [exec EXCEPT ![s].stage = "asking"]

\* The agent goes on after a call, whatever came of it.
Continue(s) == [exec EXCEPT ![s].stage = "asking", ![s].step = @ + 1]

Fail(s) ==
  /\ node' = [node EXCEPT ![exec[s].node] = "failed"]
  /\ exec' = [exec EXCEPT ![s] = Idle] /\ UNCHANGED retry

Reject(s) ==
  LET n == exec[s].node IN
  IF retry[n] < MaxRetries[n]
  THEN /\ retry' = [retry EXCEPT ![n] = @ + 1] /\ node' = [node EXCEPT ![n] = "ready"]
       /\ exec' = [exec EXCEPT ![s] = Idle]
  ELSE Fail(s)

Complete(s) ==
  /\ node' = [node EXCEPT ![exec[s].node] = "done"]
  /\ exec' = [exec EXCEPT ![s] = Idle] /\ UNCHANGED retry

\* An error of the verifier ends the actor and leaves the node as it is.
End(s) == exec' = [exec EXCEPT ![s].stage = "ended"] /\ UNCHANGED <<node, retry>>

\* A node that failed fails the graph: nothing more of the session runs.
Begin(s, n) ==
  /\ exec[s].stage = "idle" /\ n \in Of(s) /\ node[n] = "ready"
  /\ \A m \in Of(s) : node[m] # "failed"
  /\ \A d \in DependsOn[n] : node[d] = "done"
  /\ node' = [node EXCEPT ![n] = "running"]
  /\ exec' = [exec EXCEPT ![s] = [Idle EXCEPT
       !.node = n, !.step = 1, !.stage = IF s \in Scripted THEN "writing" ELSE "asking"]]
  /\ UNCHANGED <<disk, retry, writes, looked>>

-----------------------------------------------------------------------------
(* The executors                                                            *)

\* StubExecutor: each output in turn; what it writes is nothing but text.
WriteScripted(s) ==
  LET e == exec[s]  f == Outputs[e.node][e.step] IN
  /\ e.stage = "writing"
  /\ IF e.step \in DOMAIN Outputs[e.node]
     THEN /\ disk' = [disk EXCEPT ![f] =
               Written(CASE f = Manifest -> Unread [] f \in Compiled -> "broken"
                         [] OTHER -> "good", e.node)]
          /\ exec' = [exec EXCEPT ![s].step = @ + 1] /\ UNCHANGED node
     ELSE /\ exec' = Enter(s, "presence", "session")
          /\ node' = [node EXCEPT ![e.node] = "verifying"] /\ UNCHANGED disk
  /\ UNCHANGED <<retry, writes, looked>>

\* What a command leaves: it may write anything in the directory.
Effect(by) ==
  \/ UNCHANGED <<disk, writes>>
  \/ \E w \in Writes :
       /\ writes < MaxWrites /\ writes' = writes + 1
       /\ disk' = [disk EXCEPT ![w[1]] = Written(w[2], by)]

\* executeAction: WriteFile takes an output of the node and a content, and is verified.
WriteFile(s) ==
  \E f \in Files(exec[s].node) :
    \E q \in IF f = Manifest THEN Kind ELSE Quality \ {"none"} :
      /\ disk' = [disk EXCEPT ![f] = Written(q, exec[s].node)]
      /\ exec' = Enter(s, "presence", "write") /\ UNCHANGED <<node, retry, writes, looked>>

RunCommand(s) ==
  /\ Effect(exec[s].node)
  /\ exec' = Continue(s) /\ UNCHANGED <<node, retry, looked>>

\* canFinish
Finish(s) ==
  /\ exec' = IF Present(exec[s].node) THEN Enter(s, "presence", "finish") ELSE Continue(s)
  /\ UNCHANGED <<disk, node, retry, writes, looked>>

\* An answer that cannot be read, an unknown action, a read, a search or a call
\* that is refused.
OtherAnswer(s) == exec' = Continue(s) /\ UNCHANGED <<disk, node, retry, writes, looked>>

\* The model gives an error, or the steps are used up.
GiveUp(s) == Fail(s) /\ UNCHANGED <<disk, writes, looked>>

Step(s) ==
  /\ exec[s].stage = "asking"
  /\ IF exec[s].step > MaxSteps THEN GiveUp(s)
     ELSE WriteFile(s) \/ RunCommand(s) \/ Finish(s) \/ OtherAnswer(s) \/ GiveUp(s)

-----------------------------------------------------------------------------
(* VerifyNode, for the agent and for the session                            *)

\* What the session makes of the outcome: it has a reviewer look at what passed.
ConcludeNode(s, result) ==
  /\ exec[s].caller = "session"
  /\ \/ result = "error" /\ End(s)
     \/ result = "failed" /\ Reject(s)
     \/ result = "passed" /\ ~Reviewed /\ Complete(s)
     \/ /\ result = "passed" /\ Reviewed
        /\ exec' = Enter(s, "review", "session") /\ UNCHANGED <<node, retry>>

\* runAutoVerify: the agent may end only on a pass; after a write it just reads on.
ConcludeStep(s, result) ==
  /\ exec[s].caller # "session"
  /\ IF result = "error" THEN Fail(s)
     ELSE /\ exec' = IF exec[s].caller = "finish" /\ result = "passed"
                     THEN Enter(s, "collect", "finish") ELSE Continue(s)
          /\ UNCHANGED <<node, retry>>

Conclude(s, result) == ConcludeNode(s, result) \/ ConcludeStep(s, result)

\* verifyOutputPresence
VerifyPresence(s) ==
  /\ exec[s].stage = "presence"
  /\ IF Present(exec[s].node)
     THEN exec' = Enter(s, "checks", exec[s].caller) /\ UNCHANGED <<node, retry>>
     ELSE Conclude(s, "failed")
  /\ UNCHANGED <<disk, writes, looked>>

\* The scripts of the project and the tests that run may write as well.
RunChecks(s) ==
  /\ exec[s].stage = "checks"
  /\ \E outcome \in CheckResults(exec[s].node) :
       /\ Conclude(s, outcome.result)
       /\ looked' = IF exec[s].caller = "session" /\ outcome.result = "passed"
                    THEN [looked EXCEPT ![exec[s].node] = outcome.looked] ELSE looked
  /\ IF Project = "above" THEN UNCHANGED <<disk, writes>> ELSE Effect(NoNode)

\* collectOutputFiles
Collect(s) ==
  /\ exec[s].stage = "collect"
  /\ IF Present(exec[s].node)
     THEN /\ exec' = Enter(s, "presence", "session")
          /\ node' = [node EXCEPT ![exec[s].node] = "verifying"] /\ UNCHANGED retry
     ELSE Fail(s)
  /\ UNCHANGED <<disk, writes, looked>>

\* runReviewerCheck, which shows the first output only; an answer that cannot be
\* read is a refusal, no answer or no file an error.
Review(s) ==
  /\ exec[s].stage = "review"
  /\ \/ disk[Outputs[exec[s].node][1]].quality # "none" /\ (Complete(s) \/ Reject(s))
     \/ End(s)
  /\ UNCHANGED <<disk, writes, looked>>

Work(s) ==
  \/ \E n \in Node : Begin(s, n)
  \/ WriteScripted(s) \/ Step(s)
  \/ VerifyPresence(s) \/ RunChecks(s) \/ Collect(s) \/ Review(s)

Next == \E s \in Session : Work(s)

Spec == Init /\ [][Next]_vars

\* The actor of a session runs on: the client of the model has a timeout, and a
\* command ends within the time its caller gave it.
FairSpec == Spec /\ \A s \in Session : WF_vars(Work(s))

-----------------------------------------------------------------------------
(* Properties                                                               *)

TypeOK ==
  /\ disk \in [File -> Content]
  /\ node \in [Node -> {"ready", "running", "verifying", "done", "failed"}]
  /\ retry \in [Node -> Nat] /\ \A n \in Node : retry[n] <= MaxRetries[n]
  /\ exec \in [Session -> [stage : Stages, node : Node \cup {NoNode},
                           step : Nat, caller : Callers]]
  /\ writes \in 0..MaxWrites /\ looked \in [Node -> SUBSET File]

\* Sessions that share a repository and commands change files, and commands and
\* agents the scripts of the project, between the checks of an agent, those of
\* its session and the completion.  Still, what a completed node wrote last is
\* there, and compiles if the last check of its session had the build or a
\* compiler read it.  (With the scripts rewritten it may have had nothing read.)
CompletedIsChecked ==
  \A n \in Node : node[n] = "done" =>
    \A f \in Files(n) : disk[f].by = n =>
      disk[f].quality # "none" /\ (f \in looked[n] => disk[f].quality # "broken")

\* However often its agent answers nonsense, ends too early, or fails the checks
\* for what somebody else wrote, a session ends: every node is done, one failed
\* and stopped it, or an error of the verifier ended its actor.
Settled(s) ==
  \/ exec[s].stage = "ended"
  \/ exec[s].stage = "idle" /\ \E n \in Of(s) : node[n] = "failed"
  \/ exec[s].stage = "idle" /\ \A n \in Of(s) : node[n] = "done"

SessionsSettle == \A s \in Session : <>[]Settled(s)
=============================================================================
