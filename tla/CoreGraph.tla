------------------------------- MODULE CoreGraph -------------------------------
(***************************************************************************)
(* The execution graph of packages/core and the pure operations on it      *)
(* (graph/graph.ts, graph/node-change.ts, persistence/checkpoint.ts).      *)
(* A graph is its status, the status of each node and its retry count;     *)
(* evidence, texts and time stamps are left out.                           *)
(***************************************************************************)
EXTENDS Naturals

CONSTANTS
  Node,        \* every node the graph may ever hold
  Checkpoint,  \* those of type "checkpoint"
  Tester,      \* those the deferred tester pass adds to a finished graph
  DependsOn,   \* the dependencies of a node
  Order,       \* the place of a node in the Map, which loops go through in order
  MaxRetries   \* maxRetries of a node

ASSUME GraphAssumption ==
  /\ Checkpoint \subseteq Node /\ Tester \subseteq Node
  /\ Checkpoint \cap Tester = {}
  /\ DependsOn \in [Node -> SUBSET (Node \ Tester)]
  /\ Order \in [Node -> Nat]
  /\ MaxRetries \in [Node -> Nat]

\* "absent" is a tester node that was not added yet.  "verifying" is assigned
\* between two saves and never seen outside a step; "skipped" is never assigned.
NodeStatus == {"absent", "pending", "ready", "running", "done", "failed", "blocked"}
GraphStatus == {"running", "paused", "done", "failed"}
Graph == [status : GraphStatus, node : [Node -> NodeStatus], retry : [Node -> Nat]]

Planned == Node \ Tester
Present(g) == {n \in Node : g.node[n] # "absent"}
WithStatus(g, s) == {n \in Node : g.node[n] = s}
IsFirst(n, S) == n \in S /\ \A m \in S : Order[n] <= Order[m]

DependenciesDone(g, n) == \A d \in DependsOn[n] : g.node[d] = "done"

\* Nodes that wait although everything they depend on is done.
PromotableNodes(g) == {n \in WithStatus(g, "pending") : DependenciesDone(g, n)}

ReadyNodes(g) == {n \in WithStatus(g, "ready") : DependenciesDone(g, n)}

\* The dependencies are not looked at.
CheckpointNodes(g) == WithStatus(g, "ready") \cap Checkpoint

AllDone(g) == Present(g) = WithStatus(g, "done")

\* The table the code checks before each change made with transitionNode.
ValidTransitions ==
  [ absent  |-> {},
    pending |-> {"ready", "blocked"},
    ready   |-> {"running"},
    running |-> {"done", "failed", "ready"},
    done    |-> {},
    failed  |-> {"ready"},
    blocked |-> {"pending"} ]

CanTransition(g, n, s) == s \in ValidTransitions[g.node[n]]

\* The result of the recursive call is assigned to a variable nobody reads, so
\* that only the nodes which depend on n directly are blocked.
Blocks(g, n, m) == n \in DependsOn[m] /\ g.node[m] \in {"pending", "ready"}

FailNode(g, n) ==
  [g EXCEPT !.node = [m \in Node |->
     IF m = n THEN "failed" ELSE IF Blocks(g, n, m) THEN "blocked" ELSE g.node[m]]]

\* Failed for a moment, which blocks the dependents, and ready again.
RetryNode(g, n) ==
  [g EXCEPT !.node = [m \in Node |->
     IF m = n THEN "ready" ELSE IF Blocks(g, n, m) THEN "blocked" ELSE g.node[m]],
   !.retry[n] = @ + 1]

\* Ready again without having been failed: a rejected review.
RedoNode(g, n) == [g EXCEPT !.node[n] = "ready", !.retry[n] = @ + 1]

CompleteNode(g, n) ==
  [g EXCEPT !.node = [m \in Node |->
     IF m = n THEN "done"
     ELSE IF g.node[m] = "blocked" /\ n \in DependsOn[m] THEN "pending"
     ELSE g.node[m]]]

\* A checkpoint waits for a person; its summary and its evidence are left out.
PausedAt(g, c) == [g EXCEPT !.node[c] = "running", !.status = "paused"]

\* A checkpoint that was passed also readies what waited for nothing else.
PassNode(g, c) ==
  [g EXCEPT !.node = [m \in Node |->
     IF m = c THEN "done"
     ELSE IF c \in DependsOn[m] /\ g.node[m] = "blocked" THEN "pending"
     ELSE IF g.node[m] = "pending" /\ \A d \in DependsOn[m] \ {c} : g.node[d] = "done"
     THEN "ready" ELSE g.node[m]]]

\* The tester nodes for finished files depend on finished nodes only.
AppendDeferredTesters(g, added) ==
  [g EXCEPT !.node = [n \in Node |-> IF n \in added THEN "ready" ELSE g.node[n]]]

\* prepareGraphForResume
PrepareForResume(g) ==
  [g EXCEPT !.status = "running",
            !.node = [n \in Node |-> IF g.node[n] = "running" THEN "ready" ELSE g.node[n]]]

-----------------------------------------------------------------------------
(* Editing a node (graph/node-change.ts)                                    *)

DependentsClosed(S) == \A m \in Node : DependsOn[m] \cap S # {} => m \in S

\* Mutant: the search stops after the direct dependents.
DirectlyAffectedBy(n) == {n} \cup {m \in Node : n \in DependsOn[m]}

\* What the breadth-first search of computeAffectedNodeIds reaches: the least
\* set that holds n and, with a node, everything that depends on it.
AffectedBy(n) ==
  {m \in Node : \A S \in SUBSET Node : n \in S /\ DependentsClosed(S) => m \in S}

ApplyNodeChange(g, n) ==
  LET redone == AffectedBy(n) \cap Present(g)
  IN  [g EXCEPT !.node = [m \in Node |-> IF m \in redone THEN "ready" ELSE g.node[m]],
                !.retry = [m \in Node |-> IF m \in redone THEN 0 ELSE g.retry[m]]]
=============================================================================
