-------------------------------- MODULE Planning --------------------------------
(***************************************************************************)
(* How a graph comes to be (packages/core/src/orchestrator): buildGraph of *)
(* planner.ts, which asks the planner up to four times, and the plan a     *)
(* person wrote or confirmed, which routes/run.ts parses (plan-parser.ts)  *)
(* and may validate a second time for another strategy.  Both go through   *)
(* validatePlanData and its search for circles, which is modelled call by  *)
(* call.                                                                   *)
(*                                                                         *)
(* A step of a plan is its id, its file, its dependencies and whether it   *)
(* is a checkpoint.  The order in an array dependsOn is left open.         *)
(***************************************************************************)
EXTENDS Naturals, Sequences

CONSTANTS
  Id,          \* ids of steps, and whatever else dependsOn may name
  Name,        \* names of files, as a planner writes them
  Normalize,   \* normalizeSandboxOutputFile: the name below the output directory
  InOutput,    \* names that stay within the output directory
  InRepo,      \* names the policy of a repository lets be written
  Typed,       \* the names whose extension a strategy allows
  Typescript,  \* names with the extension .ts, .tsx or .jsx
  Plan,        \* the plans an answer or a markdown text may hold
  MaxAttempts, \* MAX_PLANNER_ATTEMPTS
  NoPlan, NoGraph

Strategy == {"detected", "fallback"}
Step == [id : Id, file : Name, checkpoint : BOOLEAN, dependsOn : SUBSET Id]

ASSUME PlanningAssumption ==
  /\ Normalize \in [Name -> Name]
  /\ \A f \in Name : Normalize[Normalize[f]] = Normalize[f]
  /\ Typed \in [Strategy -> SUBSET Name]
  /\ Plan \subseteq Seq(Step)
  /\ MaxAttempts \in Nat \ {0}

VARIABLES
  way,       \* "spec": buildGraph asks the planner; "plan": the text is the plan
  setting,   \* the execution mode, and whether repo-edit was given its path
  pc, attempt,
  strategy,  \* whose extensions are allowed
  plan,      \* the plan that is validated
  issues,    \* what validatePlanData found in it
  next,      \* the next step of the plan the search starts from
  stack,     \* the calls of visit that have not returned
  visited,   \* the nodes whose call returned without a circle
  graph

search == <<next, stack, visited>>
context == <<way, setting>>
vars == <<way, setting, pc, attempt, strategy, plan, issues, next, stack, visited, graph>>

Ids(p) == {p[i].id : i \in 1..Len(p)}

\* Map.set: of several steps with an id the last one counts.
Latest(p, n) == {i \in 1..Len(p) : p[i].id = n /\ \A j \in 1..Len(p) : j > i => p[j].id # n}

DependsOn(p, n) == UNION {p[i].dependsOn : i \in Latest(p, n)}

Files(p, n) == {p[i].file : i \in {k \in Latest(p, n) : ~p[k].checkpoint}}

Normalized(f) == IF setting = "sandbox" THEN Normalize[f] ELSE f

\* validateOutputPath
MayWrite(f) ==
  \/ setting = "sandbox" /\ Normalize[f] \in InOutput
  \/ setting = "repo" /\ f \in InRepo

-----------------------------------------------------------------------------
Init ==
  /\ way \in {"spec", "plan"}
  /\ setting \in {"sandbox", "repo", "repo_without_path"}
  /\ pc = "clarify" /\ attempt = 1 /\ strategy = "detected"
  /\ plan = NoPlan /\ issues = {}
  /\ next = 1 /\ stack = <<>> /\ visited = {}
  /\ graph = NoGraph

\* A specification may be clarified first; whatever comes of that, an exception
\* included, planning goes on.
Clarify ==
  /\ pc = "clarify" /\ way = "spec"
  /\ pc' = IF setting = "repo_without_path" THEN "refused" ELSE "ask"
  /\ UNCHANGED <<context, attempt, strategy, plan, issues, search, graph>>

\* Mutant: names are taken as the planner wrote them.
AsAnswered(p) == p

\* normalizePlanData
NormalizedPlan(p) == [i \in 1..Len(p) |-> [p[i] EXCEPT !.file = Normalized(@)]]

\* The planner's answer holds a plan ...
Answer ==
  /\ pc = "ask"
  /\ \E p \in Plan : plan' = NormalizedPlan(p)
  /\ pc' = "validate"
  /\ UNCHANGED <<context, attempt, strategy, issues, search, graph>>

AskAgain ==
  /\ attempt < MaxAttempts
  /\ attempt' = attempt + 1
  /\ pc' = "ask"

GiveUp == pc' = "refused" /\ UNCHANGED attempt

\* ... or no JSON, or no plan.
Unreadable ==
  /\ pc = "ask"
  /\ AskAgain \/ (attempt = MaxAttempts /\ GiveUp)
  /\ UNCHANGED <<context, strategy, plan, issues, search, graph>>

\* What the call of the model throws, buildGraph does not catch.
PlannerThrows ==
  /\ pc = "ask"
  /\ GiveUp
  /\ UNCHANGED <<context, strategy, plan, issues, search, graph>>

\* parsePlan: the text of a plan has steps, each with what it needs, ...
Parse ==
  /\ pc = "clarify" /\ way = "plan"
  /\ \E p \in Plan \ {<<>>} : plan' = p
  /\ pc' = "validate"
  /\ UNCHANGED <<context, attempt, strategy, issues, search, graph>>

\* ... or the session fails.
ParseErrors ==
  /\ pc = "clarify" /\ way = "plan"
  /\ GiveUp
  /\ UNCHANGED <<context, strategy, plan, issues, search, graph>>

-----------------------------------------------------------------------------
(* validatePlanData                                                         *)

IdTwice(p) == \E i, j \in 1..Len(p) : i # j /\ p[i].id = p[j].id
FileTwice(p) == \E i, j \in 1..Len(p) : i # j /\ p[i].file = p[j].file
Misplaced(p) == \E i \in 1..Len(p) : ~MayWrite(p[i].file)
Mistyped(p) == \E i \in 1..Len(p) : ~p[i].checkpoint /\ p[i].file \notin Typed[strategy]
Unknown(p) == \E i \in 1..Len(p) : ~(p[i].dependsOn \subseteq Ids(p))

FormIssues(p) ==
  {x \in {"ids", "files", "path", "extension", "unknown"} :
     \/ x = "ids" /\ IdTwice(p)
     \/ x = "files" /\ FileTwice(p)
     \/ x = "path" /\ Misplaced(p)
     \/ x = "extension" /\ Mistyped(p)
     \/ x = "unknown" /\ Unknown(p)}

Validate ==
  /\ pc = "validate"
  /\ issues' = FormIssues(plan)
  /\ pc' = "visit"
  /\ next' = 1 /\ stack' = <<>> /\ visited' = {}
  /\ UNCHANGED <<context, attempt, strategy, plan, graph>>

Visiting(calls) == {calls[i].id : i \in 1..Len(calls)}

Call(n) == [id |-> n, todo |-> DependsOn(plan, n)]

\* Mutant: a node seen before is never taken for a circle.
VisitSeen(n, calls) ==
  /\ stack' = IF n \in Visiting(calls) \cup visited THEN calls ELSE Append(calls, Call(n))
  /\ UNCHANGED <<pc, issues>>

\* Mutant: a node seen before is always taken for a circle.
VisitTwice(n, calls) ==
  \/ /\ n \in Visiting(calls) \cup visited
     /\ issues' = issues \cup {"cycle"} /\ pc' = "judge" /\ stack' = calls
  \/ /\ n \notin Visiting(calls) \cup visited
     /\ stack' = Append(calls, Call(n))
     /\ UNCHANGED <<pc, issues>>

\* visit(n): it is being visited, which ends the search, or it was visited, or its
\* dependencies are.
Visit(n, calls) ==
  \/ /\ n \in Visiting(calls)
     /\ issues' = issues \cup {"cycle"} /\ pc' = "judge" /\ stack' = calls
  \/ /\ n \notin Visiting(calls)
     /\ stack' = IF n \in visited THEN calls ELSE Append(calls, Call(n))
     /\ UNCHANGED <<pc, issues>>

VisitStep ==
  /\ pc = "visit" /\ stack = <<>> /\ next <= Len(plan)
  /\ Visit(plan[next].id, <<>>)
  /\ next' = next + 1
  /\ UNCHANGED <<context, attempt, strategy, plan, visited, graph>>

Top == stack[Len(stack)]

VisitDependency ==
  /\ pc = "visit" /\ stack # <<>>
  /\ \E d \in Top.todo :
       Visit(d, [stack EXCEPT ![Len(stack)] = [id |-> Top.id, todo |-> Top.todo \ {d}]])
  /\ UNCHANGED <<context, attempt, strategy, plan, next, visited, graph>>

LeaveNode ==
  /\ pc = "visit" /\ stack # <<>> /\ Top.todo = {}
  /\ visited' = visited \cup {Top.id}
  /\ stack' = SubSeq(stack, 1, Len(stack) - 1)
  /\ UNCHANGED <<context, pc, attempt, strategy, plan, issues, next, graph>>

SearchDone ==
  /\ pc = "visit" /\ stack = <<>> /\ next > Len(plan)
  /\ pc' = "judge"
  /\ UNCHANGED <<context, attempt, strategy, plan, issues, search, graph>>

-----------------------------------------------------------------------------
(* What is made of the plan                                                 *)

\* createGraph and one addNode for each step.
PlannedGraph(p) ==
  [n \in Ids(p) |-> [dependsOn |-> DependsOn(p, n),
                     files     |-> Files(p, n),
                     status    |-> IF DependsOn(p, n) = {} THEN "ready" ELSE "pending"]]

Accept ==
  /\ pc = "judge" /\ issues = {}
  /\ graph' = PlannedGraph(plan)
  /\ pc' = "planned"
  /\ UNCHANGED <<context, attempt, strategy, plan, issues, search>>

\* The planner is told what is wrong, up to MAX_PLANNER_ATTEMPTS times.
Repair ==
  /\ pc = "judge" /\ issues # {} /\ way = "spec"
  /\ AskAgain \/ (attempt = MaxAttempts /\ GiveUp)
  /\ UNCHANGED <<context, strategy, plan, issues, search, graph>>

\* A plan with TypeScript files is tried as one for React, once.
HasTypescript(p) == \E i \in 1..Len(p) : ~p[i].checkpoint /\ p[i].file \in Typescript

TryFallback ==
  /\ pc = "judge" /\ issues # {} /\ way = "plan"
  /\ strategy = "detected" /\ HasTypescript(plan)
  /\ strategy' = "fallback" /\ pc' = "validate"
  /\ UNCHANGED <<context, attempt, plan, issues, search, graph>>

RefusePlan ==
  /\ pc = "judge" /\ issues # {} /\ way = "plan"
  /\ strategy = "fallback" \/ ~HasTypescript(plan)
  /\ GiveUp
  /\ UNCHANGED <<context, strategy, plan, issues, search, graph>>

Next ==
  \/ Clarify \/ Answer \/ Unreadable \/ PlannerThrows \/ Parse \/ ParseErrors
  \/ Validate \/ VisitStep \/ VisitDependency \/ LeaveNode \/ SearchDone
  \/ Accept \/ Repair \/ TryFallback \/ RefusePlan

Spec == Init /\ [][Next]_vars

-----------------------------------------------------------------------------
(* Correctness                                                              *)

PC == {"clarify", "ask", "validate", "visit", "judge", "planned", "refused"}

\* Every variable has a value of its type.
TypeOK ==
  /\ way \in {"spec", "plan"} /\ setting \in {"sandbox", "repo", "repo_without_path"}
  /\ pc \in PC /\ attempt \in 1..MaxAttempts /\ strategy \in Strategy
  /\ plan \in Seq(Step) \cup {NoPlan}
  /\ pc \in {"validate", "visit", "judge", "planned"} => plan \in Seq(Step)
  /\ issues \subseteq {"ids", "files", "path", "extension", "unknown", "cycle"}
  /\ next \in Nat \ {0}
  /\ stack \in Seq([id : Id, todo : SUBSET Id])
  /\ visited \subseteq Id

\* Whatever plan is accepted, on both ways and after any number of repairs: its
\* nodes depend on nodes of the graph, and among any nodes that are left one
\* waits for none of the others, so a run that does not fail can finish.
AcceptedCanFinish ==
  graph # NoGraph =>
    /\ \A n \in DOMAIN graph : graph[n].dependsOn \subseteq DOMAIN graph
    /\ \A T \in SUBSET DOMAIN graph :
         T # {} => \E n \in T : graph[n].dependsOn \cap T = {}

\* A plan is refused for a circle only if it has one: nodes that depend on each
\* other in any other way, however often the search meets them, are let through.
CycleIsThere ==
  pc = "judge" /\ "cycle" \in issues =>
    \E T \in SUBSET Id : T # {} /\ \A n \in T : DependsOn(plan, n) \cap T # {}

\* Two nodes a planner planned for a directory of their own never write to the same
\* name below it: what was compared are the names the nodes are given.
OneNameEach ==
  graph # NoGraph /\ way = "spec" /\ setting = "sandbox" =>
    \A m, n \in DOMAIN graph : \A f \in graph[m].files : \A h \in graph[n].files :
      Normalize[f] = Normalize[h] => m = n
=============================================================================
