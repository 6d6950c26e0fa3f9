----------------------------- MODULE CoreRun_proofs -----------------------------
(***************************************************************************)
(* Theorems of CoreRun, for every graph, every retry limit and any number  *)
(* of requests, crashes and faults: type correctness, the agreement of the *)
(* loop with its graph and its file, the nodes that stay blocked, the      *)
(* bound on attempts, the refinement of DagRun, and, for the requests and  *)
(* graphs they hold for, what is offered to a person, that it is confirmed *)
(* and what a run may leave undone.                                        *)
(***************************************************************************)
EXTENDS CoreRun, TLAPS

BlockedOpen(g) == \A n \in Node : g.node[n] = "blocked" => ~DependenciesDone(g, n)

WithinRetries(g) == \A n \in Node : g.retry[n] <= MaxRetries[n]

\* A graph as the loop leaves it.
Good(g) == g \in Graph /\ BlockedOpen(g) /\ WithinRetries(g)

\* How many starts of n a graph accounts for: one for each retry, and one more
\* when the present attempt was started.
Counted(g, n) ==
  g.retry[n] + (IF g.node[n] \in {"running", "done", "failed"} THEN 1 ELSE 0)

Touched(g) == WithStatus(g, "running") \cup WithStatus(g, "done")

\* What a step of the loop other than a start does to a graph.
Onward(g, h) ==
  /\ Good(h)
  /\ \A n \in Node : Counted(g, n) <= Counted(h, n)
  /\ Touched(h) \subseteq Touched(g)

\* What an interruption or a request does: an attempt may be taken back.
Back(g, h) ==
  /\ Good(h)
  /\ \A n \in Node : Counted(g, n) <= Counted(h, n) + 1
  /\ Touched(h) \subseteq Touched(g)

-----------------------------------------------------------------------------
(* The operations on graphs                                                  *)

\* A graph that differs from a good one in the status of one node, which is
\* neither blocked nor done afterwards, is good.
LEMMA SetStatusGood ==
  ASSUME NEW g, Good(g), NEW n \in Node, NEW s \in NodeStatus, NEW x \in GraphStatus,
         s \notin {"blocked", "done"}
  PROVE  /\ Good([g EXCEPT !.node[n] = s, !.status = x])
         /\ Good([g EXCEPT !.node[n] = s])
BY GraphAssumption DEF Good, Graph, BlockedOpen, WithinRetries, DependenciesDone

LEMMA SetGraphStatusOnward ==
  ASSUME NEW g, Good(g), NEW x \in GraphStatus
  PROVE  /\ Onward(g, [g EXCEPT !.status = x])
         /\ \A s : WithStatus([g EXCEPT !.status = x], s) = WithStatus(g, s)
BY GraphAssumption DEF Good, Onward, Counted, Touched, WithStatus, Graph, BlockedOpen,
   WithinRetries, DependenciesDone

LEMMA PromoteOnward ==
  ASSUME NEW g, Good(g), NEW n \in Node, g.node[n] = "pending"
  PROVE  /\ Onward(g, [g EXCEPT !.node[n] = "ready"])
         /\ WithStatus([g EXCEPT !.node[n] = "ready"], "running") = WithStatus(g, "running")
         /\ WithStatus([g EXCEPT !.node[n] = "ready"], "done") = WithStatus(g, "done")
<1>1. Good([g EXCEPT !.node[n] = "ready"])
  BY SetStatusGood DEF NodeStatus, GraphStatus
<1> QED
  BY <1>1, GraphAssumption DEF Good, Onward, Counted, Touched, WithStatus, Graph

\* A node is started: one more start than the graph accounted for.
Starts(g, n, h) ==
  /\ Good(h)
  /\ \A m \in Node : Counted(h, m) = Counted(g, m) + (IF m = n THEN 1 ELSE 0)
  /\ Touched(h) = Touched(g) \cup {n}
  /\ WithStatus(h, "running") = WithStatus(g, "running") \cup {n}
  /\ WithStatus(h, "done") = WithStatus(g, "done")

LEMMA StartGood ==
  ASSUME NEW g, Good(g), NEW n \in Node, g.node[n] = "ready"
  PROVE  /\ Starts(g, n, [g EXCEPT !.node[n] = "running"])
         /\ Starts(g, n, [g EXCEPT !.node[n] = "running", !.status = "paused"])
<1>1. /\ Good([g EXCEPT !.node[n] = "running", !.status = "paused"])
      /\ Good([g EXCEPT !.node[n] = "running"])
  <2>1. "running" \in NodeStatus /\ "running" \notin {"blocked", "done"} /\ "paused" \in GraphStatus
    BY DEF NodeStatus, GraphStatus
  <2> QED
    BY <2>1, SetStatusGood, Zenon
<1>2. ASSUME NEW h, Good(h),
             \A m \in Node : /\ h.node[m] = IF m = n THEN "running" ELSE g.node[m]
                             /\ h.retry[m] = g.retry[m] /\ g.retry[m] \in Nat
      PROVE  Starts(g, n, h)
  <2>1. /\ WithStatus(h, "running") = WithStatus(g, "running") \cup {n}
        /\ WithStatus(h, "done") = WithStatus(g, "done")
    BY <1>2 DEF WithStatus
  <2> QED
    BY <1>2, <2>1 DEF Counted, Touched, Starts
<1> DEFINE h1 == [g EXCEPT !.node[n] = "running"]
           h2 == [g EXCEPT !.node[n] = "running", !.status = "paused"]
<1>3. \A m \in Node : /\ h1.node[m] = IF m = n THEN "running" ELSE g.node[m]
                      /\ h1.retry[m] = g.retry[m] /\ g.retry[m] \in Nat
  BY DEF Good, Graph
<1>4. \A m \in Node : /\ h2.node[m] = IF m = n THEN "running" ELSE g.node[m]
                      /\ h2.retry[m] = g.retry[m] /\ g.retry[m] \in Nat
  BY DEF Good, Graph
<1>5. Good(h1) /\ Good(h2)
  BY <1>1
<1> HIDE DEF h1, h2
<1>6. Starts(g, n, h1) /\ Starts(g, n, h2)
  BY <1>2, <1>3, <1>4, <1>5
<1> QED
  BY <1>6 DEF h1, h2

LEMMA GraphType ==
  ASSUME NEW g \in Graph, NEW n \in Node
  PROVE  g.node[n] \in NodeStatus /\ g.retry[n] \in Nat
BY DEF Graph

LEMMA CountedOnce ==
  ASSUME NEW g, Good(g), NEW n \in Node, NEW nodes \in [Node -> NodeStatus]
  PROVE  /\ [g EXCEPT !.node = nodes, !.retry[n] = @ + 1] \in Graph
         /\ [g EXCEPT !.node = nodes, !.retry[n] = @ + 1].node = nodes
         /\ \A m \in Node : [g EXCEPT !.node = nodes, !.retry[n] = @ + 1].retry[m]
                           = IF m = n THEN g.retry[m] + 1 ELSE g.retry[m]
<1>1. PICK k \in Nat : k = g.retry[n] + 1
  BY GraphType DEF Good
<1> DEFINE h == [g EXCEPT !.node = nodes, !.retry[n] = k]
<1>2. [g EXCEPT !.node = nodes, !.retry[n] = @ + 1] = h
  BY <1>1 DEF Good, Graph
<1>3. h \in Graph /\ h.node = nodes
  BY DEF Good, Graph
<1>4. \A m \in Node : h.retry[m] = IF m = n THEN k ELSE g.retry[m]
  BY DEF Good, Graph
<1> QED
  BY <1>1, <1>2, <1>3, <1>4

\* An attempt at n ends: n is failed, done, or ready with one more retry, and
\* other nodes only move among the states of waiting.
LEMMA Settling ==
  ASSUME NEW g, Good(g), NEW n \in Node, g.node[n] = "running", NEW h \in Graph, BlockedOpen(h),
         \A m \in Node \ {n} :
           /\ h.retry[m] = g.retry[m]
           /\ \/ h.node[m] = g.node[m]
              \/ h.node[m] \in {"pending", "ready", "blocked"} /\ g.node[m] \in {"pending", "ready", "blocked"},
         \/ h.node[n] \in {"failed", "done"} /\ h.retry[n] = g.retry[n]
         \/ h.node[n] = "ready" /\ CanRetry(g, n) /\ h.retry[n] = g.retry[n] + 1
  PROVE  /\ Onward(g, h)
         /\ WithStatus(h, "running") = WithStatus(g, "running") \ {n}
         /\ h.node[n] # "done" => WithStatus(h, "done") = WithStatus(g, "done")
         /\ h.node[n] = "done" => WithStatus(h, "done") = WithStatus(g, "done") \cup {n}
<1>1. WithinRetries(h)
  BY GraphAssumption DEF WithinRetries, Good, Graph, CanRetry
<1>2. ASSUME NEW m \in Node PROVE Counted(g, m) <= Counted(h, m)
  <2>1. g.retry[m] \in Nat /\ h.retry[m] \in Nat
    BY GraphType DEF Good
  <2> QED
    BY <2>1 DEF Counted
<1>3. WithStatus(h, "running") = WithStatus(g, "running") \ {n}
  BY DEF WithStatus
<1>4. /\ h.node[n] # "done" => WithStatus(h, "done") = WithStatus(g, "done")
      /\ h.node[n] = "done" => WithStatus(h, "done") = WithStatus(g, "done") \cup {n}
  BY DEF WithStatus
<1> QED
  BY <1>1, <1>2, <1>3, <1>4 DEF Onward, Good, Touched, WithStatus

LEMMA FailOnward ==
  ASSUME NEW g, Good(g), NEW n \in Node, g.node[n] = "running"
  PROVE  /\ Onward(g, FailNode(g, n))
         /\ WithStatus(FailNode(g, n), "running") = WithStatus(g, "running") \ {n}
         /\ WithStatus(FailNode(g, n), "done") = WithStatus(g, "done")
<1> DEFINE h == FailNode(g, n)
<1>1. h \in Graph
  BY DEF Good, Graph, NodeStatus, FailNode, Blocks
<1>2. /\ \A m \in Node : h.node[m] = IF m = n THEN "failed" ELSE IF Blocks(g, n, m) THEN "blocked" ELSE g.node[m]
      /\ \A m \in Node : h.retry[m] = g.retry[m]
  BY DEF Good, Graph, FailNode, Blocks
<1>3. BlockedOpen(h)
  BY <1>2, GraphAssumption DEF BlockedOpen, DependenciesDone, Good, Blocks
<1> HIDE DEF h
<1>4. \A m \in Node \ {n} :
        /\ h.retry[m] = g.retry[m]
        /\ \/ h.node[m] = g.node[m]
           \/ h.node[m] \in {"pending", "ready", "blocked"} /\ g.node[m] \in {"pending", "ready", "blocked"}
  BY <1>2 DEF Blocks
<1>5. h.node[n] = "failed" /\ h.retry[n] = g.retry[n]
  BY <1>2
<1> QED
  BY <1>1, <1>3, <1>4, <1>5, Settling DEF h

LEMMA RetryOnward ==
  ASSUME NEW g, Good(g), NEW n \in Node, g.node[n] = "running", CanRetry(g, n)
  PROVE  /\ Onward(g, RetryNode(g, n))
         /\ WithStatus(RetryNode(g, n), "running") = WithStatus(g, "running") \ {n}
         /\ WithStatus(RetryNode(g, n), "done") = WithStatus(g, "done")
<1> DEFINE h == RetryNode(g, n)
<1>1. h \in Graph
  <2>1. [m \in Node |-> IF m = n THEN "ready" ELSE IF Blocks(g, n, m) THEN "blocked" ELSE g.node[m]]
        \in [Node -> NodeStatus]
    BY DEF Good, Graph, NodeStatus
  <2> QED
    BY <2>1, CountedOnce DEF RetryNode
<1>2. /\ \A m \in Node : h.node[m] = IF m = n THEN "ready" ELSE IF Blocks(g, n, m) THEN "blocked" ELSE g.node[m]
      /\ \A m \in Node : h.retry[m] = IF m = n THEN g.retry[m] + 1 ELSE g.retry[m]
  BY DEF Good, Graph, RetryNode, Blocks
<1>3. BlockedOpen(h)
  BY <1>2, GraphAssumption DEF BlockedOpen, DependenciesDone, Good, Blocks
<1> HIDE DEF h
<1>4. \A m \in Node \ {n} :
        /\ h.retry[m] = g.retry[m]
        /\ \/ h.node[m] = g.node[m]
           \/ h.node[m] \in {"pending", "ready", "blocked"} /\ g.node[m] \in {"pending", "ready", "blocked"}
  BY <1>2 DEF Blocks
<1>5. h.node[n] = "ready" /\ h.retry[n] = g.retry[n] + 1
  BY <1>2
<1> QED
  BY <1>1, <1>3, <1>4, <1>5, Settling DEF h

LEMMA RedoOnward ==
  ASSUME NEW g, Good(g), NEW n \in Node, g.node[n] = "running", CanRetry(g, n)
  PROVE  /\ Onward(g, RedoNode(g, n))
         /\ WithStatus(RedoNode(g, n), "running") = WithStatus(g, "running") \ {n}
         /\ WithStatus(RedoNode(g, n), "done") = WithStatus(g, "done")
<1> DEFINE h == RedoNode(g, n)
<1>1. h \in Graph
  <2>1. [g.node EXCEPT ![n] = "ready"] \in [Node -> NodeStatus]
    BY DEF Good, Graph, NodeStatus
  <2> QED
    BY <2>1, CountedOnce DEF RedoNode
<1>2. /\ \A m \in Node : h.node[m] = IF m = n THEN "ready" ELSE g.node[m]
      /\ \A m \in Node : h.retry[m] = IF m = n THEN g.retry[m] + 1 ELSE g.retry[m]
  BY DEF Good, Graph, RedoNode
<1>3. BlockedOpen(h)
  BY <1>2, GraphAssumption DEF BlockedOpen, DependenciesDone, Good
<1> HIDE DEF h
<1>4. \A m \in Node \ {n} :
        /\ h.retry[m] = g.retry[m]
        /\ \/ h.node[m] = g.node[m]
           \/ h.node[m] \in {"pending", "ready", "blocked"} /\ g.node[m] \in {"pending", "ready", "blocked"}
  BY <1>2
<1>5. h.node[n] = "ready" /\ h.retry[n] = g.retry[n] + 1
  BY <1>2
<1> QED
  BY <1>1, <1>3, <1>4, <1>5, Settling DEF h

\* What depended on the node is not blocked any more, and what stays blocked
\* does not depend on it.
LEMMA CompleteOnward ==
  ASSUME NEW g, Good(g), NEW n \in Node, g.node[n] = "running"
  PROVE  /\ Onward(g, CompleteNode(g, n))
         /\ WithStatus(CompleteNode(g, n), "running") = WithStatus(g, "running") \ {n}
         /\ WithStatus(CompleteNode(g, n), "done") = WithStatus(g, "done") \cup {n}
<1> DEFINE h == CompleteNode(g, n)
<1>1. h \in Graph
  BY DEF Good, Graph, NodeStatus, CompleteNode
<1>2. /\ \A m \in Node : h.node[m] = IF m = n THEN "done"
                     ELSE IF g.node[m] = "blocked" /\ n \in DependsOn[m] THEN "pending"
                     ELSE g.node[m]
      /\ \A m \in Node : h.retry[m] = g.retry[m]
  BY DEF Good, Graph, CompleteNode
<1>3. BlockedOpen(h)
  BY <1>2, GraphAssumption DEF BlockedOpen, DependenciesDone, Good
<1> HIDE DEF h
<1>4. \A m \in Node \ {n} :
        /\ h.retry[m] = g.retry[m]
        /\ \/ h.node[m] = g.node[m]
           \/ h.node[m] \in {"pending", "ready", "blocked"} /\ g.node[m] \in {"pending", "ready", "blocked"}
  BY <1>2
<1>5. h.node[n] = "done" /\ h.retry[n] = g.retry[n]
  BY <1>2
<1> QED
  BY <1>1, <1>3, <1>4, <1>5, Settling DEF h

LEMMA PassOnward ==
  ASSUME NEW g, Good(g), NEW n \in Node, g.node[n] = "running"
  PROVE  /\ Onward(g, PassNode(g, n))
         /\ WithStatus(PassNode(g, n), "running") = WithStatus(g, "running") \ {n}
         /\ WithStatus(PassNode(g, n), "done") = WithStatus(g, "done") \cup {n}
<1> DEFINE h == PassNode(g, n)
<1>1. h \in Graph
  BY DEF Good, Graph, NodeStatus, PassNode
<1>2. /\ \A m \in Node : h.node[m] = IF m = n THEN "done"
                     ELSE IF n \in DependsOn[m] /\ g.node[m] = "blocked" THEN "pending"
                     ELSE IF g.node[m] = "pending" /\ \A d \in DependsOn[m] \ {n} : g.node[d] = "done"
                     THEN "ready" ELSE g.node[m]
      /\ \A m \in Node : h.retry[m] = g.retry[m]
  BY DEF Good, Graph, PassNode
<1>3. BlockedOpen(h)
  BY <1>2, GraphAssumption DEF BlockedOpen, DependenciesDone, Good
<1> HIDE DEF h
<1> QED
  <2>1. \A m \in Node \ {n} :
          \/ h.node[m] = g.node[m]
          \/ h.node[m] \in {"pending", "ready", "blocked"} /\ g.node[m] \in {"pending", "ready", "blocked"}
    <3> SUFFICES ASSUME NEW m \in Node \ {n}, h.node[m] # g.node[m]
                 PROVE  /\ h.node[m] \in {"pending", "ready", "blocked"}
                        /\ g.node[m] \in {"pending", "ready", "blocked"}
      OBVIOUS
    <3>1. CASE n \in DependsOn[m] /\ g.node[m] = "blocked"
      BY <1>2, <3>1
    <3>2. CASE ~(n \in DependsOn[m] /\ g.node[m] = "blocked")
      BY <1>2, <3>2
    <3> QED
      BY <3>1, <3>2
  <2>2. h.node[n] = "done" /\ \A m \in Node : h.retry[m] = g.retry[m]
    BY <1>2
  <2> QED
    BY <1>1, <1>3, <2>1, <2>2, Settling DEF h

LEMMA TestersOnward ==
  ASSUME NEW g, Good(g), NEW added \in SUBSET (Node \ Present(g))
  PROVE  /\ Onward(g, AppendDeferredTesters(g, added))
         /\ WithStatus(AppendDeferredTesters(g, added), "running") = WithStatus(g, "running")
         /\ WithStatus(AppendDeferredTesters(g, added), "done") = WithStatus(g, "done")
<1> DEFINE h == AppendDeferredTesters(g, added)
<1>1. h \in Graph
  BY DEF Good, Graph, NodeStatus, AppendDeferredTesters
<1>2. \A m \in Node : /\ h.node[m] = IF m \in added THEN "ready" ELSE g.node[m]
                      /\ m \in added => g.node[m] = "absent"
                      /\ h.retry[m] = g.retry[m]
  BY DEF Good, Graph, Present, AppendDeferredTesters
<1> HIDE DEF h
<1>3. BlockedOpen(h) /\ WithinRetries(h)
  BY <1>2, GraphAssumption DEF BlockedOpen, WithinRetries, DependenciesDone, Good
<1>4. ASSUME NEW m \in Node PROVE Counted(g, m) <= Counted(h, m)
  <2>1. g.retry[m] \in Nat
    BY GraphType DEF Good
  <2> QED
    BY <1>2, <2>1 DEF Counted
<1>5. /\ WithStatus(h, "running") = WithStatus(g, "running")
      /\ WithStatus(h, "done") = WithStatus(g, "done")
  BY <1>2 DEF WithStatus
<1> QED
  BY <1>1, <1>3, <1>4, <1>5 DEF Onward, Good, Touched, h

\* Nodes are taken back to a state of waiting, or their attempt is failed.
LEMMA TakingBack ==
  ASSUME NEW g, Good(g), NEW h \in Graph, BlockedOpen(h),
         \A m \in Node :
           /\ h.retry[m] = g.retry[m]
           /\ \/ h.node[m] = g.node[m]
              \/ g.node[m] # "done" /\ h.node[m] \in {"ready", "pending", "failed", "blocked"}
  PROVE  /\ Back(g, h)
         /\ WithStatus(h, "done") = WithStatus(g, "done")
<1>1. WithinRetries(h)
  BY DEF Good, WithinRetries
<1>2. ASSUME NEW m \in Node PROVE Counted(g, m) <= Counted(h, m) + 1
  <2>1. g.retry[m] \in Nat
    BY GraphType DEF Good
  <2> QED
    BY <2>1 DEF Counted
<1>3. WithStatus(h, "done") = WithStatus(g, "done")
  BY DEF WithStatus
<1>4. WithStatus(h, "running") \subseteq WithStatus(g, "running")
  BY DEF WithStatus
<1> QED
  BY <1>1, <1>2, <1>3, <1>4 DEF Back, Good, Touched

LEMMA PrepareBack ==
  ASSUME NEW g, Good(g)
  PROVE  /\ Back(g, PrepareForResume(g))
         /\ WithStatus(PrepareForResume(g), "running") = {}
         /\ WithStatus(PrepareForResume(g), "done") = WithStatus(g, "done")
<1> DEFINE h == PrepareForResume(g)
<1>1. h \in Graph
  BY DEF Good, Graph, NodeStatus, GraphStatus, PrepareForResume
<1>2. /\ \A m \in Node : h.node[m] = IF g.node[m] = "running" THEN "ready" ELSE g.node[m]
      /\ \A m \in Node : h.retry[m] = g.retry[m]
  BY DEF Good, Graph, PrepareForResume
<1> HIDE DEF h
<1>3. BlockedOpen(h)
  BY <1>2, GraphAssumption DEF BlockedOpen, DependenciesDone, Good
<1>4. \A m \in Node :
        \/ h.node[m] = g.node[m]
        \/ g.node[m] # "done" /\ h.node[m] \in {"ready", "pending", "failed", "blocked"}
  BY <1>2
<1>5. WithStatus(h, "running") = {}
  BY <1>2 DEF WithStatus
<1> QED
  BY <1>1, <1>2, <1>3, <1>4, <1>5, TakingBack DEF h

LEMMA RetriedBack ==
  ASSUME NEW g, Good(g)
  PROVE  /\ Back(g, PrepareForResume(RetriedGraph(g)))
         /\ WithStatus(PrepareForResume(RetriedGraph(g)), "running") = {}
         /\ WithStatus(PrepareForResume(RetriedGraph(g)), "done") = WithStatus(g, "done")
<1> DEFINE h == PrepareForResume(RetriedGraph(g))
<1>1. h \in Graph
  BY DEF Good, Graph, NodeStatus, GraphStatus, PrepareForResume, RetriedGraph
<1>2. /\ \A m \in Node : h.node[m] = IF g.node[m] \in {"running", "failed"} THEN "ready"
                     ELSE IF g.node[m] = "blocked" THEN "pending" ELSE g.node[m]
      /\ \A m \in Node : h.retry[m] = g.retry[m]
  BY DEF Good, Graph, PrepareForResume, RetriedGraph
<1> HIDE DEF h
<1>3. BlockedOpen(h)
  BY <1>2, GraphAssumption DEF BlockedOpen, DependenciesDone, Good
<1>4. \A m \in Node :
        \/ h.node[m] = g.node[m]
        \/ g.node[m] # "done" /\ h.node[m] \in {"ready", "pending", "failed", "blocked"}
  BY <1>2
<1>5. WithStatus(h, "running") = {}
  BY <1>2 DEF WithStatus
<1> QED
  BY <1>1, <1>2, <1>3, <1>4, <1>5, TakingBack DEF h

LEMMA RetriedNodeBack ==
  ASSUME NEW g, Good(g), NEW n \in Node, g.node[n] \in {"running", "failed"}
  PROVE  /\ Back(g, PrepareForResume([g EXCEPT !.node[n] = "ready"]))
         /\ WithStatus(PrepareForResume([g EXCEPT !.node[n] = "ready"]), "running") = {}
         /\ WithStatus(PrepareForResume([g EXCEPT !.node[n] = "ready"]), "done") = WithStatus(g, "done")
<1> DEFINE h == PrepareForResume([g EXCEPT !.node[n] = "ready"])
<1>1. h \in Graph
  BY DEF Good, Graph, NodeStatus, GraphStatus, PrepareForResume
<1>2. /\ \A m \in Node : h.node[m] = IF m = n \/ g.node[m] = "running" THEN "ready" ELSE g.node[m]
      /\ \A m \in Node : h.retry[m] = g.retry[m]
  BY DEF Good, Graph, PrepareForResume
<1> HIDE DEF h
<1>3. BlockedOpen(h)
  BY <1>2, GraphAssumption DEF BlockedOpen, DependenciesDone, Good
<1>4. \A m \in Node :
        \/ h.node[m] = g.node[m]
        \/ g.node[m] # "done" /\ h.node[m] \in {"ready", "pending", "failed", "blocked"}
  BY <1>2
<1>5. WithStatus(h, "running") = {}
  BY <1>2 DEF WithStatus
<1> QED
  BY <1>1, <1>2, <1>3, <1>4, <1>5, TakingBack DEF h

LEMMA PatchBack ==
  ASSUME NEW g, Good(g)
  PROVE  /\ Back(g, PatchStuck(g))
         /\ WithStatus(PatchStuck(g), "done") = WithStatus(g, "done")
<1> DEFINE h == PatchStuck(g)
<1>1. h \in Graph
  BY DEF Good, Graph, NodeStatus, GraphStatus, PatchStuck
<1>2. /\ \A m \in Node : h.node[m] = IF g.node[m] = "running" THEN "failed"
                     ELSE IF /\ g.node[m] \in {"pending", "ready"}
                             /\ DependsOn[m] \cap WithStatus(g, "running") # {}
                     THEN "blocked" ELSE g.node[m]
      /\ \A m \in Node : h.retry[m] = g.retry[m]
  BY DEF Good, Graph, PatchStuck, WithStatus
<1> HIDE DEF h
<1>3. BlockedOpen(h)
  BY <1>2, GraphAssumption DEF BlockedOpen, DependenciesDone, Good, WithStatus
<1>4. \A m \in Node :
        \/ h.node[m] = g.node[m]
        \/ g.node[m] # "done" /\ h.node[m] \in {"ready", "pending", "failed", "blocked"}
  BY <1>2
<1> QED
  BY <1>1, <1>2, <1>3, <1>4, TakingBack DEF h

\* What an edit affects is closed under dependents.
LEMMA AffectedClosed ==
  ASSUME NEW n \in Node
  PROVE  /\ n \in AffectedBy(n) /\ AffectedBy(n) \subseteq Node
         /\ \A m \in Node : DependsOn[m] \cap AffectedBy(n) # {} => m \in AffectedBy(n)
<1>1. n \in AffectedBy(n) /\ AffectedBy(n) \subseteq Node
  BY DEF AffectedBy
<1>2. ASSUME NEW m \in Node, NEW d \in DependsOn[m], d \in AffectedBy(n)
      PROVE  m \in AffectedBy(n)
  <2>1. ASSUME NEW S \in SUBSET Node, n \in S, DependentsClosed(S) PROVE m \in S
    <3>1. d \in S
      BY <1>2, <2>1 DEF AffectedBy
    <3> QED
      BY <1>2, <2>1, <3>1 DEF DependentsClosed
  <2> QED
    BY <1>2, <2>1 DEF AffectedBy
<1> QED
  BY <1>1, <1>2

\* No node that is left alone depends on one that has to be done again.
LEMMA ChangeGood ==
  ASSUME NEW g, Good(g), NEW n \in Node
  PROVE  /\ Good(ApplyNodeChange(g, n))
         /\ ApplyNodeChange(g, n).status = g.status
         /\ \A m \in Node \ AffectedBy(n) : Counted(ApplyNodeChange(g, n), m) = Counted(g, m)
         /\ Touched(ApplyNodeChange(g, n)) = Touched(g) \ AffectedBy(n)
         /\ WithStatus(ApplyNodeChange(g, n), "done") = WithStatus(g, "done") \ AffectedBy(n)
<1> DEFINE A == AffectedBy(n)
           node == [m \in Node |-> IF m \in A \cap Present(g) THEN "ready" ELSE g.node[m]]
           retry == [m \in Node |-> IF m \in A \cap Present(g) THEN 0 ELSE g.retry[m]]
           h == [g EXCEPT !.node = node, !.retry = retry]
<1>1. \A m \in Node : DependsOn[m] \cap A # {} => m \in A
  BY AffectedClosed
<1>2. ApplyNodeChange(g, n) = h
  BY DEF ApplyNodeChange
<1> HIDE DEF A
<1>3. h \in Graph /\ h.status = g.status
  BY DEF Good, Graph, NodeStatus
<1>4. \A m \in Node : /\ h.node[m] = IF m \in A \cap Present(g) THEN "ready" ELSE g.node[m]
                      /\ h.retry[m] = IF m \in A \cap Present(g) THEN 0 ELSE g.retry[m]
  BY DEF Good, Graph
<1> HIDE DEF h
<1>5. BlockedOpen(h)
  BY <1>1, <1>4, GraphAssumption DEF BlockedOpen, DependenciesDone, Good, Graph, Present
<1>6. WithinRetries(h)
  BY <1>4, GraphAssumption DEF WithinRetries, Good, Graph
<1>7. \A m \in Node \ A : Counted(h, m) = Counted(g, m)
  BY <1>4 DEF Counted
<1>8. Touched(h) = Touched(g) \ A /\ WithStatus(h, "done") = WithStatus(g, "done") \ A
  BY <1>4 DEF Touched, WithStatus, Present
<1> QED
  BY <1>2, <1>3, <1>5, <1>6, <1>7, <1>8 DEF A, h, Good

-----------------------------------------------------------------------------
(* The inductive invariant                                                   *)

Saved == Active => file = graph

LoopShape ==
  /\ pc \in {"promote", "dispatch", "race", "finish"} => cps = {}
  /\ pc = "finish" => inflight = {}

Budget == crashes + faults + requests

\* What the file says of itself and of the starts so far.
FileInv ==
  /\ file = NoGraph => attempts = [n \in Node |-> 0]
  /\ file # NoGraph =>
       /\ Good(file)
       /\ \A n \in Node : attempts[n] <= Counted(file, n) + Budget
       /\ \A n \in Touched(file) \ Checkpoint : attempts[n] > 0

IndInv == TypeOK /\ Saved /\ LoopShape /\ InFlightIsRunning /\ FileInv

LEMMA CountedNat ==
  ASSUME NEW g, Good(g), NEW n \in Node
  PROVE  Counted(g, n) \in Nat
BY GraphType DEF Counted, Good

LEMMA BudgetNat ==
  /\ TypeOK => Budget \in Nat /\ attempts \in [Node -> Nat]
  /\ TypeOK' => Budget' \in Nat
BY DEF TypeOK, Budget

LEMMA FileKept ==
  ASSUME TypeOK, TypeOK', FileInv, UNCHANGED <<file, attempts>>, Budget <= Budget'
  PROVE  FileInv'
<1>1. CASE file = NoGraph
  BY <1>1 DEF FileInv
<1>2. CASE file # NoGraph
  <2>1. ASSUME NEW n \in Node PROVE attempts[n] <= Counted(file, n) + Budget'
    <3>1. /\ attempts[n] \in Nat /\ Budget \in Nat /\ Budget' \in Nat
          /\ Counted(file, n) \in Nat /\ attempts[n] <= Counted(file, n) + Budget
      BY <1>2, BudgetNat, CountedNat DEF FileInv
    <3> QED
      BY <3>1
  <2> QED
    BY <1>2, <2>1 DEF FileInv
<1> QED
  BY <1>1, <1>2

LEMMA FileOnward ==
  ASSUME TypeOK, TypeOK', FileInv, file # NoGraph, Onward(file, file'), UNCHANGED attempts,
         Budget <= Budget'
  PROVE  FileInv'
<1>1. Good(file) /\ Good(file') /\ file' # NoGraph
  BY RunAssumption DEF FileInv, Onward, Good
<1>2. ASSUME NEW n \in Node PROVE attempts[n] <= Counted(file', n) + Budget'
  <2>1. /\ attempts[n] \in Nat /\ Budget \in Nat /\ Budget' \in Nat
        /\ Counted(file, n) \in Nat /\ Counted(file', n) \in Nat
    BY <1>1, BudgetNat, CountedNat
  <2>2. attempts[n] <= Counted(file, n) + Budget /\ Counted(file, n) <= Counted(file', n)
    BY DEF FileInv, Onward
  <2> QED
    BY <2>1, <2>2
<1> QED
  BY <1>1, <1>2 DEF FileInv, Onward

LEMMA FileBack ==
  ASSUME TypeOK, TypeOK', FileInv, file # NoGraph, Back(file, file'), UNCHANGED attempts,
         Budget' = Budget + 1
  PROVE  FileInv'
<1>1. Good(file) /\ Good(file') /\ file' # NoGraph
  BY RunAssumption DEF FileInv, Back, Good
<1>2. ASSUME NEW n \in Node PROVE attempts[n] <= Counted(file', n) + Budget'
  <2>1. /\ attempts[n] \in Nat /\ Budget \in Nat
        /\ Counted(file, n) \in Nat /\ Counted(file', n) \in Nat
    BY <1>1, BudgetNat, CountedNat
  <2>2. attempts[n] <= Counted(file, n) + Budget /\ Counted(file, n) <= Counted(file', n) + 1
    BY DEF FileInv, Back
  <2> QED
    BY <2>1, <2>2
<1> QED
  BY <1>1, <1>2 DEF FileInv, Back

LEMMA InitInd == Init => IndInv
<1> SUFFICES ASSUME Init PROVE IndInv
  OBVIOUS
<1>1. TypeOK
  BY DEF Init, TypeOK, PC, Active
<1>2. Saved /\ LoopShape /\ InFlightIsRunning /\ FileInv
  BY DEF Init, Saved, LoopShape, InFlightIsRunning, FileInv, Active
<1> QED
  BY <1>1, <1>2 DEF IndInv

LEMMA PlannedGood == Good(PlannedGraph) /\ Touched(PlannedGraph) = {}
                     /\ WithStatus(PlannedGraph, "running") = {}
<1>1. PlannedGraph \in Graph
  BY DEF PlannedGraph, Graph, NodeStatus, GraphStatus
<1>2. \A n \in Node : PlannedGraph.node[n] \in {"absent", "ready", "pending"} /\ PlannedGraph.retry[n] = 0
  BY DEF PlannedGraph
<1>3. BlockedOpen(PlannedGraph) /\ WithinRetries(PlannedGraph)
  BY <1>2, GraphAssumption DEF BlockedOpen, WithinRetries
<1> QED
  BY <1>1, <1>2, <1>3 DEF Good, Touched, WithStatus

LEMMA StepInd == IndInv /\ [Next]_vars => IndInv'
<1> SUFFICES ASSUME IndInv, [Next]_vars PROVE IndInv'
  OBVIOUS
<1> USE RunAssumption DEF IndInv
<1>good. file # NoGraph => Good(file)
  BY DEF FileInv
<1>run. Active => graph = file /\ Good(graph) /\ file # NoGraph /\ graph \in Graph
  BY <1>good DEF Saved, TypeOK
<1>budget. Budget \in Nat
  BY BudgetNat
\* Steps that leave the graph and the file alone.
<1>1. CASE CollectCheckpoints \/ CheckpointsPassed \/ EndOfPass
  <2>1. TypeOK'
    BY <1>1 DEF CollectCheckpoints, CheckpointsPassed, EndOfPass, TypeOK, CheckpointNodes,
       Active, PC, context, history, bounds
  <2>2. FileInv'
    BY <1>1, <2>1, <1>budget, FileKept DEF CollectCheckpoints, CheckpointsPassed, EndOfPass,
       history, bounds, Budget
  <2>3. Saved' /\ LoopShape' /\ InFlightIsRunning'
    BY <1>1 DEF CollectCheckpoints, CheckpointsPassed, EndOfPass, Saved, LoopShape,
       InFlightIsRunning, Active, history
  <2> QED
    BY <2>1, <2>2, <2>3
<1>2. CASE StartRun
  <2>1. file' = PlannedGraph /\ graph' = PlannedGraph /\ PlannedGraph \in Graph
    BY <1>2, PlannedGood DEF StartRun, Save, Good
  <2>2. TypeOK'
    BY <1>2, <2>1 DEF StartRun, TypeOK, Active, PC, context, history, bounds
  <2>3. FileInv'
    <3>1. ASSUME NEW n \in Node PROVE attempts'[n] <= Counted(PlannedGraph, n) + Budget'
      <4>1. attempts'[n] = 0
        BY <1>2 DEF StartRun, history, FileInv
      <4>2. Counted(PlannedGraph, n) \in Nat /\ Budget' \in Nat
        BY <2>2, PlannedGood, CountedNat, BudgetNat
      <4> QED
        BY <4>1, <4>2
    <3> QED
      BY <2>1, <3>1, PlannedGood DEF FileInv
  <2>4. Saved' /\ LoopShape' /\ InFlightIsRunning'
    BY <1>2, <2>1, PlannedGood DEF StartRun, Saved, LoopShape, InFlightIsRunning, Active, TypeOK
  <2> QED
    BY <2>2, <2>3, <2>4
\* Steps that change waiting nodes or the status of the graph.
<1>3. CASE Promote
  <2>1. PICK n \in Node : IsFirst(n, PromotableNodes(graph)) /\ Save([graph EXCEPT !.node[n] = "ready"])
    BY <1>3 DEF Promote
  <2> DEFINE h == [graph EXCEPT !.node[n] = "ready"]
  <2>2. Onward(graph, h) /\ WithStatus(h, "running") = WithStatus(graph, "running")
    BY <1>3, <1>run, <2>1, PromoteOnward DEF Promote, Active, IsFirst, PromotableNodes, WithStatus
  <2> HIDE DEF h
  <2>3. file' = h /\ graph' = h /\ h \in Graph
    BY <2>1, <2>2 DEF Save, h, Onward, Good
  <2>4. TypeOK'
    BY <1>3, <2>3 DEF Promote, TypeOK, Active, PC, loop, context, history, bounds
  <2>5. FileInv'
    BY <1>3, <1>run, <1>budget, <2>2, <2>3, <2>4, FileOnward DEF Promote, Active, history, bounds, Budget
  <2>6. Saved' /\ LoopShape' /\ InFlightIsRunning'
    BY <1>3, <2>2, <2>3 DEF Promote, Saved, LoopShape, InFlightIsRunning, Active, loop
  <2> QED
    BY <2>4, <2>5, <2>6
<1>4. CASE Confirm \/ AutoApprove
  <2> DEFINE h == [graph EXCEPT !.status = "running"]
  <2>1. Onward(graph, h) /\ WithStatus(h, "running") = WithStatus(graph, "running")
    BY <1>4, <1>run, SetGraphStatusOnward DEF Confirm, AutoApprove, Active, GraphStatus
  <2>2. file' = h /\ graph' = h
    BY <1>4 DEF Confirm, AutoApprove, Save
  <2> HIDE DEF h
  <2>3. h \in Graph
    BY <2>1 DEF Onward, Good
  <2>4. TypeOK'
    BY <1>4, <2>2, <2>3 DEF Confirm, AutoApprove, TypeOK, Active, PC, context, history, bounds
  <2>5. FileInv'
    BY <1>4, <1>run, <1>budget, <2>1, <2>2, <2>4, FileOnward
       DEF Confirm, AutoApprove, Active, history, bounds, Budget
  <2>6. Saved' /\ LoopShape' /\ InFlightIsRunning'
    BY <1>4, <2>1, <2>2 DEF Confirm, AutoApprove, Saved, LoopShape, InFlightIsRunning, Active
  <2> QED
    BY <2>4, <2>5, <2>6
<1>5. CASE AppendTesters
  <2>1. PICK added \in SUBSET (Node \ Present(graph)) :
          Save(AppendDeferredTesters(graph, added))
    BY <1>5 DEF AppendTesters
  <2> DEFINE h == AppendDeferredTesters(graph, added)
  <2>2. Onward(graph, h) /\ WithStatus(h, "running") = WithStatus(graph, "running")
    BY <1>5, <1>run, TestersOnward DEF AppendTesters, Active
  <2> HIDE DEF h
  <2>3. file' = h /\ graph' = h /\ h \in Graph
    BY <2>1, <2>2 DEF Save, h, Onward, Good
  <2>4. TypeOK'
    BY <1>5, <2>3 DEF AppendTesters, TypeOK, Active, PC, context, history, bounds
  <2>5. FileInv'
    BY <1>5, <1>run, <1>budget, <2>2, <2>3, <2>4, FileOnward
       DEF AppendTesters, Active, history, bounds, Budget
  <2>6. Saved' /\ LoopShape' /\ InFlightIsRunning'
    BY <1>5, <2>2, <2>3 DEF AppendTesters, Saved, LoopShape, InFlightIsRunning, Active
  <2> QED
    BY <2>4, <2>5, <2>6
\* Starts: of a checkpoint, which no file counts, and of a node.
<1>6. CASE ReachCheckpoint
  <2>1. PICK n \in Node :
          /\ IsFirst(n, cps) /\ CanTransition(graph, n, "running")
          /\ \/ /\ Save([graph EXCEPT !.node[n] = "running", !.status = "paused"])
                /\ pc' = "confirm"
             \/ /\ Save([graph EXCEPT !.node[n] = "running"])
                /\ pc' = "pass"
          /\ cur' = n /\ cps' = cps \ {n}
    BY <1>6 DEF ReachCheckpoint, PausedAt
  <2>2. graph.node[n] = "ready" /\ n \in Checkpoint
    BY <1>6, <1>run, <2>1, GraphType DEF ReachCheckpoint, PausedAt, Active, CanTransition, ValidTransitions,
       NodeStatus, IsFirst, TypeOK
  <2>3. PICK h : /\ \/ h = [graph EXCEPT !.node[n] = "running"]
                    \/ h = [graph EXCEPT !.node[n] = "running", !.status = "paused"]
                 /\ file' = h /\ graph' = h
    BY <2>1 DEF Save
  <2>4. /\ Good(h)
        /\ \A m \in Node : Counted(h, m) = Counted(file, m) + (IF m = n THEN 1 ELSE 0)
        /\ Touched(h) = Touched(file) \cup {n}
        /\ WithStatus(h, "running") = WithStatus(graph, "running") \cup {n}
    <3>1. graph = file /\ Good(graph)
      BY <1>6, <1>run DEF ReachCheckpoint, PausedAt, Active
    <3>2. /\ Starts(graph, n, [graph EXCEPT !.node[n] = "running"])
          /\ Starts(graph, n, [graph EXCEPT !.node[n] = "running", !.status = "paused"])
      BY <2>2, <3>1, StartGood
    <3>3. Starts(graph, n, h)
      BY <2>3, <3>2, Zenon
    <3> QED
      BY <3>1, <3>3 DEF Starts
  <2>5. TypeOK'
    BY <1>6, <2>1, <2>2, <2>3, <2>4 DEF ReachCheckpoint, PausedAt, TypeOK, Active, PC, context, history, bounds, Good
  <2>6. FileInv'
    <3>1. ASSUME NEW m \in Node PROVE attempts'[m] <= Counted(h, m) + Budget'
      <4>1. /\ attempts[m] \in Nat /\ attempts' = attempts /\ Budget' = Budget
            /\ Counted(file, m) \in Nat /\ attempts[m] <= Counted(file, m) + Budget
        BY <1>6, <1>run, BudgetNat, CountedNat
           DEF ReachCheckpoint, PausedAt, Active, FileInv, history, bounds, Budget
      <4> QED
        BY <1>budget, <2>4, <4>1
    <3>2. \A m \in Touched(h) \ Checkpoint : attempts'[m] > 0
      BY <1>6, <1>run, <2>2, <2>4 DEF ReachCheckpoint, PausedAt, Active, FileInv, history
    <3> QED
      BY <2>3, <2>4, <3>1, <3>2 DEF FileInv, Good
  <2>7. Saved' /\ LoopShape' /\ InFlightIsRunning'
    BY <1>6, <2>1, <2>3, <2>4 DEF ReachCheckpoint, PausedAt, Saved, LoopShape, InFlightIsRunning, Active
  <2> QED
    BY <2>5, <2>6, <2>7
<1>7. CASE Dispatch
  <2>1. PICK n \in Node :
          /\ IsFirst(n, Dispatchable(graph)) /\ CanTransition(graph, n, "running")
          /\ Save([graph EXCEPT !.node[n] = "running"])
          /\ inflight' = inflight \cup {n}
          /\ attempts' = [attempts EXCEPT ![n] = @ + 1]
    BY <1>7 DEF Dispatch
  <2>2. graph.node[n] = "ready" /\ n \in Node \ Checkpoint
    BY <2>1 DEF IsFirst, Dispatchable, ReadyNodes, WithStatus
  <2>3. PICK h : h = [graph EXCEPT !.node[n] = "running"] /\ file' = h /\ graph' = h
    BY <2>1 DEF Save
  <2>4. /\ Good(h)
        /\ \A m \in Node : Counted(h, m) = Counted(file, m) + (IF m = n THEN 1 ELSE 0)
        /\ Touched(h) = Touched(file) \cup {n}
        /\ WithStatus(h, "running") = WithStatus(graph, "running") \cup {n}
    <3>1. graph = file /\ Good(graph)
      BY <1>7, <1>run DEF Dispatch, Active
    <3>2. Starts(graph, n, h)
      BY <2>2, <2>3, <3>1, StartGood
    <3> QED
      BY <3>1, <3>2 DEF Starts
  <2>5. /\ attempts \in [Node -> Nat] /\ attempts' \in [Node -> Nat]
        /\ \A m \in Node : attempts'[m] = attempts[m] + (IF m = n THEN 1 ELSE 0)
    <3>1. PICK k \in Nat : k = attempts[n] + 1
      BY DEF TypeOK
    <3>2. attempts \in [Node -> Nat] /\ attempts' = [attempts EXCEPT ![n] = k]
      BY <2>1, <3>1 DEF TypeOK
    <3> QED
      BY <3>1, <3>2
  <2>6. TypeOK'
    BY <1>7, <2>1, <2>2, <2>3, <2>4, <2>5 DEF Dispatch, TypeOK, Active, PC, context, bounds, Good
  <2>7. FileInv'
    <3>1. ASSUME NEW m \in Node PROVE attempts'[m] <= Counted(h, m) + Budget'
      <4>1. /\ attempts[m] \in Nat /\ Budget' = Budget
            /\ Counted(file, m) \in Nat /\ attempts[m] <= Counted(file, m) + Budget
        BY <1>7, <1>run, BudgetNat, CountedNat DEF Dispatch, Active, FileInv, bounds, Budget
      <4> QED
        BY <1>budget, <2>4, <2>5, <4>1
    <3>2. ASSUME NEW m \in Touched(h) \ Checkpoint PROVE attempts'[m] > 0
      <4>1. m \in Node /\ attempts[m] \in Nat /\ (m # n => attempts[m] > 0)
        BY <1>7, <1>run, <2>4, <2>5, <3>2 DEF Dispatch, Active, FileInv, Touched, WithStatus
      <4> QED
        BY <2>5, <4>1
    <3> QED
      BY <2>3, <2>4, <3>1, <3>2 DEF FileInv, Good
  <2>8. Saved' /\ LoopShape' /\ InFlightIsRunning'
    BY <1>7, <2>1, <2>3, <2>4 DEF Dispatch, Saved, LoopShape, InFlightIsRunning, Active
  <2> QED
    BY <2>6, <2>7, <2>8
\* The end of an attempt.
<1>8. ASSUME NEW n \in inflight, pc = "race", NEW h, Settled(n, h), Onward(graph, h),
             WithStatus(h, "running") = WithStatus(graph, "running") \ {n}
      PROVE  IndInv'
  <2>1. file' = h /\ graph' = h /\ h \in Graph
    BY <1>8 DEF Settled, Save, Onward, Good
  <2>2. TypeOK'
    BY <1>8, <2>1 DEF Settled, TypeOK, Active, PC, context, history, bounds
  <2>3. FileInv'
    BY <1>8, <1>run, <1>budget, <2>1, <2>2, FileOnward DEF Settled, Active, history, bounds, Budget
  <2>4. Saved' /\ LoopShape' /\ InFlightIsRunning'
    BY <1>8, <2>1 DEF Settled, Saved, LoopShape, InFlightIsRunning, Active, TypeOK
  <2> QED
    BY <2>2, <2>3, <2>4
<1>9. CASE HandleCompletedNode
  <2>1. PICK n \in Node : HandleFailure(n) \/ HandleReviewRejection(n) \/ HandleVerifiedSuccess(n)
    BY <1>9 DEF HandleCompletedNode
  <2>2. pc = "race" /\ n \in inflight /\ graph.node[n] = "running" /\ Good(graph)
    BY <1>run, <2>1 DEF HandleFailure, HandleReviewRejection, HandleVerifiedSuccess, Raced,
       InFlightIsRunning, Active, WithStatus
  <2>3. CASE CanRetry(graph, n) /\ Settled(n, RetryNode(graph, n))
    BY <1>8, <2>2, <2>3, RetryOnward
  <2>4. CASE CanRetry(graph, n) /\ Settled(n, RedoNode(graph, n))
    BY <1>8, <2>2, <2>4, RedoOnward
  <2>5. CASE Settled(n, FailNode(graph, n))
    BY <1>8, <2>2, <2>5, FailOnward
  <2>6. CASE Settled(n, CompleteNode(graph, n))
    BY <1>8, <2>2, <2>6, CompleteOnward
  <2> QED
    BY <2>1, <2>3, <2>4, <2>5, <2>6
       DEF HandleFailure, HandleReviewRejection, HandleVerifiedSuccess
<1>10. CASE PassCheckpoint
  <2> DEFINE h == PassNode(graph, cur)
  <2>1. cur \in Checkpoint /\ cur \in Node /\ graph.node[cur] = "running" /\ cur \notin inflight
    BY <1>10, <1>run, GraphAssumption
       DEF PassCheckpoint, TypeOK, InFlightIsRunning, Active, WithStatus
  <2>2. Onward(graph, h) /\ WithStatus(h, "running") = WithStatus(graph, "running") \ {cur}
    BY <1>10, <1>run, <2>1, PassOnward DEF PassCheckpoint, Active
  <2>3. file' = h /\ graph' = h
    BY <1>10 DEF PassCheckpoint, Save
  <2> HIDE DEF h
  <2>4. TypeOK'
    BY <1>10, <2>2, <2>3 DEF PassCheckpoint, TypeOK, Active, PC, context, history, bounds, Onward, Good
  <2>5. FileInv'
    BY <1>10, <1>run, <1>budget, <2>2, <2>3, <2>4, FileOnward
       DEF PassCheckpoint, Active, history, bounds, Budget
  <2>6. Saved' /\ LoopShape' /\ InFlightIsRunning'
    BY <1>10, <2>1, <2>2, <2>3 DEF PassCheckpoint, Saved, LoopShape, InFlightIsRunning, Active
  <2> QED
    BY <2>4, <2>5, <2>6
\* The end of the run.
<1>11. CASE ReturnDone \/ ReturnFailed
  <2>1. PICK x \in {"done", "failed"} : Return([graph EXCEPT !.status = x]) /\ pc = "finish"
    BY <1>11 DEF ReturnDone, ReturnFailed
  <2> DEFINE h == [graph EXCEPT !.status = x]
  <2>2. Onward(file, h)
    BY <1>run, <2>1, SetGraphStatusOnward DEF Active, GraphStatus
  <2>3. file' = h /\ UNCHANGED <<history, bounds>>
    BY <2>1 DEF Return
  <2> HIDE DEF h
  <2>4. TypeOK'
    BY <2>1, <2>2, <2>3 DEF Return, TypeOK, LoopShape, Active, PC, history, bounds, Onward, Good
  <2>5. FileInv'
    BY <1>run, <1>budget, <2>1, <2>2, <2>3, <2>4, FileOnward DEF Active, history, bounds, Budget
  <2>6. Saved' /\ LoopShape' /\ InFlightIsRunning'
    BY <2>1 DEF Return, Saved, LoopShape, InFlightIsRunning, Active
  <2> QED
    BY <2>4, <2>5, <2>6
\* Interruptions.
<1>12. CASE Crash
  <2>1. TypeOK'
    <3>1. crashes' \in Nat /\ faults' \in Nat /\ requests' \in Nat /\ asked' \subseteq Request
      BY <1>12 DEF Crash, TypeOK
    <3> QED
      BY <1>12, <3>1 DEF Crash, Lost, TypeOK, Active, PC, history
  <2>2. Budget <= Budget' /\ UNCHANGED <<file, attempts>>
    BY <1>12 DEF Crash, Lost, Budget, TypeOK, history
  <2>3. FileInv'
    BY <2>1, <2>2, FileKept
  <2>4. Saved' /\ LoopShape' /\ InFlightIsRunning'
    BY <1>12 DEF Crash, Lost, Saved, LoopShape, InFlightIsRunning, Active
  <2> QED
    BY <2>1, <2>3, <2>4
<1>13. CASE RunThrows
  <2>1. Good(file) /\ file # NoGraph
    BY <1>13, <1>run DEF RunThrows
  <2>2. file' = file \/ Back(file, file')
    BY <1>13, <2>1, PatchBack DEF RunThrows
  <2>3. Good(file')
    BY <2>1, <2>2 DEF Back
  <2>4. TypeOK'
    <3>1. crashes' \in Nat /\ faults' \in Nat /\ requests' \in Nat /\ asked' \subseteq Request
      BY <1>13 DEF RunThrows, TypeOK
    <3> QED
      BY <1>13, <2>3, <3>1 DEF RunThrows, Lost, TypeOK, Active, PC, history, Good
  <2>5. Budget' = Budget + 1 /\ UNCHANGED attempts
    BY <1>13 DEF RunThrows, Lost, Budget, TypeOK, history
  <2>6. FileInv'
    BY <1>budget, <2>1, <2>2, <2>4, <2>5, FileKept, FileBack
  <2>7. Saved' /\ LoopShape' /\ InFlightIsRunning'
    BY <1>13 DEF RunThrows, Lost, Saved, LoopShape, InFlightIsRunning, Active
  <2> QED
    BY <2>4, <2>6, <2>7
\* Requests.
<1>14. ASSUME NEW r, Requested(r), NEW g, StartAgain(g), Back(file, PrepareForResume(g)),
              WithStatus(PrepareForResume(g), "running") = {}, confirmed' \subseteq Checkpoint
       PROVE  IndInv'
  <2> DEFINE h == PrepareForResume(g)
  <2>1. file' = h /\ graph' = h /\ Back(file, h) /\ WithStatus(h, "running") = {}
    BY <1>14 DEF StartAgain, Save
  <2> HIDE DEF h
  <2>2. file # NoGraph /\ h \in Graph
    BY <1>14, <2>1 DEF Requested, Back, Good
  <2>3. TypeOK'
    <3>1. crashes' \in Nat /\ faults' \in Nat /\ requests' \in Nat /\ asked' \subseteq Request
      BY <1>14 DEF StartAgain, Requested, TypeOK
    <3>2. auto' \in BOOLEAN
      BY <1>14, Zenon DEF StartAgain
    <3> QED
      BY <1>14, <2>1, <2>2, <3>1, <3>2 DEF StartAgain, Requested, TypeOK, Active, PC
  <2>4. Budget' = Budget + 1 /\ UNCHANGED attempts
    BY <1>14 DEF StartAgain, Requested, Budget, TypeOK
  <2>5. FileInv'
    BY <2>1, <2>2, <2>3, <2>4, FileBack
  <2>6. Saved' /\ LoopShape' /\ InFlightIsRunning'
    BY <1>14, <2>1 DEF StartAgain, Requested, Saved, LoopShape, InFlightIsRunning, Active, TypeOK
  <2> QED
    BY <2>3, <2>5, <2>6
<1>15. CASE Resume
  <2>1. Requested("resume") /\ StartAgain(file) /\ file # NoGraph
    BY <1>15 DEF Resume, Requested
  <2>2. Back(file, PrepareForResume(file)) /\ WithStatus(PrepareForResume(file), "running") = {}
    BY <1>good, <2>1, PrepareBack
  <2>3. confirmed' \subseteq Checkpoint
    BY <1>15 DEF Resume, TypeOK
  <2> QED
    BY <1>14, <2>1, <2>2, <2>3
<1>16. CASE RetrySession
  <2>1. Requested("retry_session") /\ StartAgain(RetriedGraph(file)) /\ file # NoGraph
    BY <1>16 DEF RetrySession, Requested
  <2>2. /\ Back(file, PrepareForResume(RetriedGraph(file)))
        /\ WithStatus(PrepareForResume(RetriedGraph(file)), "running") = {}
    BY <1>good, <2>1, RetriedBack
  <2>3. confirmed' \subseteq Checkpoint
    BY <1>16 DEF RetrySession, TypeOK
  <2> QED
    BY <1>14, <2>1, <2>2, <2>3
<1>17. CASE RetryOneNode
  <2>1. Requested("retry_node") /\ file # NoGraph
    BY <1>17 DEF RetryOneNode, Requested
  <2>2. PICK n \in WithStatus(file, "failed") \cup WithStatus(file, "running") :
          /\ StartAgain([file EXCEPT !.node[n] = "ready"])
          /\ confirmed' = confirmed \cup ({n} \cap Checkpoint)
    BY <1>17 DEF RetryOneNode
  <2>3. n \in Node /\ file.node[n] \in {"running", "failed"}
    BY DEF WithStatus
  <2>4. /\ Back(file, PrepareForResume([file EXCEPT !.node[n] = "ready"]))
        /\ WithStatus(PrepareForResume([file EXCEPT !.node[n] = "ready"]), "running") = {}
    BY <1>good, <2>1, <2>3, RetriedNodeBack
  <2>5. confirmed' \subseteq Checkpoint
    BY <2>2 DEF TypeOK
  <2> QED
    BY <1>14, <2>1, <2>2, <2>4, <2>5
<1>18. CASE EditNode
  <2>1. PICK n \in Present(file) :
          /\ file' = ApplyNodeChange(file, n)
          /\ attempts' = [m \in Node |-> IF m \in AffectedBy(n) THEN 0 ELSE attempts[m]]
          /\ confirmed' = confirmed \ AffectedBy(n)
    BY <1>18 DEF EditNode
  <2>2. ~Active /\ file # NoGraph /\ Good(file) /\ n \in Node /\ Budget' = Budget + 1
    BY <1>18, <1>good DEF EditNode, Requested, Present, Budget, TypeOK
  <2>3. /\ Good(file')
        /\ \A m \in Node \ AffectedBy(n) : Counted(file', m) = Counted(file, m)
        /\ Touched(file') = Touched(file) \ AffectedBy(n)
    BY <2>1, <2>2, ChangeGood
  <2>4. file' # NoGraph
    BY <2>3 DEF Good
  <2>5. /\ attempts \in [Node -> Nat] /\ attempts' \in [Node -> Nat]
        /\ \A m \in Node : attempts'[m] = IF m \in AffectedBy(n) THEN 0 ELSE attempts[m]
    BY <2>1 DEF TypeOK
  <2>6. TypeOK'
    <3>1. crashes' \in Nat /\ faults' \in Nat /\ requests' \in Nat /\ asked' \subseteq Request
      BY <1>18 DEF EditNode, Requested, TypeOK
    <3> QED
      BY <1>18, <2>1, <2>2, <2>3, <2>5, <3>1 DEF EditNode, Requested, TypeOK, Active, PC, loop, context, Good
  <2>7. FileInv'
    <3>1. ASSUME NEW m \in Node PROVE attempts'[m] <= Counted(file', m) + Budget'
      <4>1. /\ attempts[m] \in Nat /\ Counted(file, m) \in Nat /\ Counted(file', m) \in Nat
            /\ attempts[m] <= Counted(file, m) + Budget
        BY <2>2, <2>3, <2>5, CountedNat DEF FileInv
      <4> QED
        BY <1>budget, <2>2, <2>3, <2>5, <4>1
    <3>2. ASSUME NEW m \in Touched(file') \ Checkpoint PROVE attempts'[m] > 0
      <4>1. m \in Node /\ m \notin AffectedBy(n) /\ attempts[m] > 0
        BY <2>2, <2>3, <3>2 DEF FileInv, Touched, WithStatus
      <4> QED
        BY <2>5, <4>1
    <3> QED
      BY <2>3, <2>4, <3>1, <3>2 DEF FileInv
  <2>8. Saved' /\ LoopShape' /\ InFlightIsRunning'
    BY <1>18, <2>2 DEF EditNode, Saved, LoopShape, InFlightIsRunning, Active, loop
  <2> QED
    BY <2>6, <2>7, <2>8
<1>19. CASE UNCHANGED vars
  <2>1. TypeOK'
    BY <1>19 DEF vars, TypeOK, Active
  <2>2. FileInv'
    BY <1>19, <1>budget, <2>1, FileKept DEF vars, Budget
  <2>3. Saved' /\ LoopShape' /\ InFlightIsRunning'
    BY <1>19 DEF vars, Saved, LoopShape, InFlightIsRunning, Active
  <2> QED
    BY <2>1, <2>2, <2>3
<1> QED
  BY <1>1, <1>2, <1>3, <1>4, <1>5, <1>6, <1>7, <1>9, <1>10, <1>11, <1>12, <1>13, <1>15, <1>16,
     <1>17, <1>18, <1>19 DEF Next, RunStep

\* The inductive invariant holds for every graph and any number of requests,
\* crashes and faults.
THEOREM Invariance == Spec => []IndInv
<1> QED
  BY InitInd, StepInd, PTL DEF Spec

\* run(), the file and the routes keep every variable of its type: no status
\* outside the ones listed is ever assigned, checkpoints are never dispatched
\* as nodes, and a run that ended leaves nothing behind.
THEOREM TypeCorrect == Spec => []TypeOK
<1>1. IndInv => TypeOK
  BY DEF IndInv
<1> QED
  BY <1>1, Invariance, PTL

\* What the graph shows as running is what executes or waits for a person, so
\* the transition table never makes run() throw with results outstanding.
THEOREM LoopMatchesGraph == Spec => []InFlightIsRunning
<1>1. IndInv => InFlightIsRunning
  BY DEF IndInv
<1> QED
  BY <1>1, Invariance, PTL

\* Whenever run() waits, the graph file holds the graph.
THEOREM WaitsSaved == Spec => []SavedWhileWaiting
<1>1. IndInv => SavedWhileWaiting
  BY DEF IndInv, Saved, SavedWhileWaiting, Active
<1> QED
  BY <1>1, Invariance, PTL

\* Whatever fails, is retried, passed, interrupted or edited, and in whatever
\* order, a blocked node has a dependency that is not done.
THEOREM BlockedWaits == Spec => []BlockedHasOpenDependency
<1>1. IndInv => BlockedHasOpenDependency
  <2> SUFFICES ASSUME IndInv, NEW g \in {graph, file} \ {NoGraph},
                      NEW n \in WithStatus(g, "blocked")
               PROVE  ~DependenciesDone(g, n)
    BY DEF BlockedHasOpenDependency
  <2>1. g = file
    BY DEF IndInv, Saved, TypeOK
  <2> QED
    BY <2>1 DEF IndInv, FileInv, Good, BlockedOpen, WithStatus
<1> QED
  BY <1>1, Invariance, PTL

\* No kind of failure escapes the count of retries: a node starts at most once
\* more than its retries, the crashes, the rejected runs and the requests.
THEOREM AttemptsAreBounded == Spec => []AttemptsBounded
<1>1. IndInv => AttemptsBounded
  <2> SUFFICES ASSUME IndInv, NEW n \in Node, file # NoGraph
               PROVE  /\ file.retry[n] <= MaxRetries[n]
                      /\ attempts[n] <= file.retry[n] + 1 + crashes + faults + requests
    BY DEF AttemptsBounded
  <2>1. Good(file) /\ attempts[n] <= Counted(file, n) + Budget
    BY DEF IndInv, FileInv
  <2>2. /\ file.retry[n] \in Nat /\ Counted(file, n) <= file.retry[n] + 1
        /\ Counted(file, n) \in Nat
    BY <2>1, GraphType, CountedNat DEF Good, Counted
  <2>3. crashes \in Nat /\ faults \in Nat /\ requests \in Nat /\ attempts[n] \in Nat
    BY DEF IndInv, TypeOK
  <2> QED
    BY <2>1, <2>2, <2>3 DEF Good, WithinRetries, Budget
<1> QED
  BY <1>1, Invariance, PTL

-----------------------------------------------------------------------------
(* The refinement of DagRun                                                  *)

Keeps(g, h) == Present(g) \subseteq Present(h) /\ h.status = g.status

LEMMA OperationsKeep ==
  ASSUME NEW g \in Graph, NEW n \in Node
  PROVE  /\ Keeps(g, FailNode(g, n)) /\ Keeps(g, RetryNode(g, n)) /\ Keeps(g, RedoNode(g, n))
         /\ Keeps(g, CompleteNode(g, n)) /\ Keeps(g, PassNode(g, n))
         /\ Keeps(g, [g EXCEPT !.node[n] = "ready"]) /\ Keeps(g, [g EXCEPT !.node[n] = "running"])
         /\ Keeps(g, ApplyNodeChange(g, n))
<1>1. Keeps(g, FailNode(g, n))
  BY DEF Graph, Keeps, Present, FailNode
<1>2. Keeps(g, RetryNode(g, n))
  BY DEF Graph, Keeps, Present, RetryNode
<1>3. Keeps(g, RedoNode(g, n))
  BY DEF Graph, Keeps, Present, RedoNode
<1>4. Keeps(g, CompleteNode(g, n))
  BY DEF Graph, Keeps, Present, CompleteNode
<1>5. Keeps(g, PassNode(g, n))
  BY DEF Graph, Keeps, Present, PassNode
<1>8. Keeps(g, [g EXCEPT !.node[n] = "ready"]) /\ Keeps(g, [g EXCEPT !.node[n] = "running"])
  BY DEF Graph, Keeps, Present
<1>9. Keeps(g, ApplyNodeChange(g, n))
  BY DEF Graph, Keeps, Present, ApplyNodeChange
<1> QED
  BY <1>1, <1>2, <1>3, <1>4, <1>5, <1>8, <1>9

LEMMA WholeGraphKeeps ==
  ASSUME NEW g \in Graph
  PROVE  /\ Keeps(g, PatchStuck(g))
         /\ \A added \in SUBSET Node : Keeps(g, AppendDeferredTesters(g, added))
         /\ \A x \in GraphStatus : Present([g EXCEPT !.status = x]) = Present(g)
BY DEF Graph, Keeps, Present, PatchStuck, AppendDeferredTesters

\* What a step may do to the file and to the count of starts.
NoChange == UNCHANGED <<file, attempts>>

Quiet ==
  /\ UNCHANGED attempts /\ file # NoGraph /\ file' # NoGraph
  /\ Present(file) \subseteq Present(file')
  /\ WithStatus(file', "done") = WithStatus(file, "done")
  /\ file'.status = file.status \/ file'.status # "done"

Planning == file = NoGraph /\ file' = PlannedGraph /\ UNCHANGED attempts

Starting(n) ==
  /\ n \in Node \ Checkpoint /\ DependenciesDone(file, n)
  /\ file # NoGraph /\ file' # NoGraph /\ Keeps(file, file')
  /\ WithStatus(file', "done") = WithStatus(file, "done")
  /\ \A m \in Node : attempts'[m] > 0 <=> m = n \/ attempts[m] > 0

Closing(n) ==
  /\ n \in WithStatus(file, "running")
  /\ file # NoGraph /\ file' # NoGraph /\ Keeps(file, file') /\ UNCHANGED attempts
  /\ WithStatus(file', "done") = WithStatus(file, "done") \cup {n}

Finishing ==
  /\ file # NoGraph /\ file' # NoGraph /\ AllDone(file) /\ UNCHANGED attempts
  /\ Present(file') = Present(file) /\ WithStatus(file', "done") = WithStatus(file, "done")
  /\ file'.status = "done"

Editing(n) ==
  /\ n \in Node /\ file # NoGraph /\ file' # NoGraph /\ Keeps(file, file')
  /\ WithStatus(file', "done") = WithStatus(file, "done") \ AffectedBy(n)
  /\ \A m \in Node : attempts'[m] > 0 <=> m \notin AffectedBy(n) /\ attempts[m] > 0

Effect ==
  \/ NoChange \/ Quiet \/ Planning \/ Finishing
  \/ \E n \in Node : Starting(n) \/ Closing(n) \/ Editing(n)

LEMMA StepEffect == IndInv /\ [Next]_vars => Effect
<1> SUFFICES ASSUME IndInv, [Next]_vars PROVE Effect
  OBVIOUS
<1> USE RunAssumption
<1>good. file # NoGraph => Good(file) /\ file \in Graph
  BY DEF IndInv, FileInv, Good
<1>run. Active => graph = file /\ Good(graph) /\ file # NoGraph /\ graph \in Graph
  BY <1>good DEF IndInv, Saved, TypeOK
<1>typed. TypeOK
  BY DEF IndInv
<1>1. CASE \/ CollectCheckpoints \/ CheckpointsPassed \/ EndOfPass \/ Crash
           \/ UNCHANGED vars
  BY <1>1 DEF CollectCheckpoints, CheckpointsPassed, EndOfPass, Crash, Lost, vars, history,
     Effect, NoChange
<1>2. CASE StartRun
  BY <1>2 DEF StartRun, Save, history, Effect, Planning
\* A step of run() after which the file is h.
<1>3. ASSUME NEW h, file' = h, Active, UNCHANGED attempts, Good(h), Keeps(graph, h),
             WithStatus(h, "done") = WithStatus(graph, "done")
      PROVE  Effect
  BY <1>3, <1>run DEF Effect, Quiet, Keeps, Good
<1>4. CASE Promote
  <2>1. PICK n \in Node : n \in PromotableNodes(graph) /\ file' = [graph EXCEPT !.node[n] = "ready"]
    BY <1>4 DEF Promote, IsFirst, Save
  <2>2. Active /\ UNCHANGED attempts /\ graph.node[n] = "pending"
    BY <1>4, <2>1 DEF Promote, Active, history, PromotableNodes, WithStatus
  <2> QED
    BY <1>3, <1>run, <2>1, <2>2, PromoteOnward, OperationsKeep DEF Onward
<1>5. CASE HandleCompletedNode
  <2>1. PICK n \in Node : HandleFailure(n) \/ HandleReviewRejection(n) \/ HandleVerifiedSuccess(n)
    BY <1>5 DEF HandleCompletedNode
  <2>2. Active /\ n \in inflight /\ graph.node[n] = "running"
    BY <1>run, <2>1 DEF HandleFailure, HandleReviewRejection, HandleVerifiedSuccess, Raced,
       IndInv, InFlightIsRunning, Active, WithStatus
  <2>3. CASE CanRetry(graph, n) /\ Settled(n, RetryNode(graph, n))
    <3>1. file' = RetryNode(graph, n) /\ UNCHANGED attempts
      BY <2>3 DEF Settled, Save, history
    <3> QED
      BY <1>3, <1>run, <2>2, <2>3, <3>1, RetryOnward, OperationsKeep DEF Onward
  <2>4. CASE CanRetry(graph, n) /\ Settled(n, RedoNode(graph, n))
    <3>1. file' = RedoNode(graph, n) /\ UNCHANGED attempts
      BY <2>4 DEF Settled, Save, history
    <3> QED
      BY <1>3, <1>run, <2>2, <2>4, <3>1, RedoOnward, OperationsKeep DEF Onward
  <2>5. CASE Settled(n, FailNode(graph, n))
    <3>1. file' = FailNode(graph, n) /\ UNCHANGED attempts
      BY <2>5 DEF Settled, Save, history
    <3> QED
      BY <1>3, <1>run, <2>2, <3>1, FailOnward, OperationsKeep DEF Onward
  <2>6. CASE Settled(n, CompleteNode(graph, n))
    <3>1. file' = CompleteNode(graph, n) /\ UNCHANGED attempts
      BY <2>6 DEF Settled, Save, history
    <3>2. /\ Good(file') /\ Keeps(graph, file')
          /\ WithStatus(file', "done") = WithStatus(graph, "done") \cup {n}
      BY <1>run, <2>2, <3>1, CompleteOnward, OperationsKeep DEF Onward
    <3>3. n \in WithStatus(file, "running")
      BY <1>run, <2>2 DEF WithStatus
    <3>4. Closing(n)
      BY <1>run, <2>2, <3>1, <3>2, <3>3 DEF Closing, Good
    <3> QED
      BY <3>4 DEF Effect
  <2> QED
    BY <2>1, <2>3, <2>4, <2>5, <2>6
       DEF HandleFailure, HandleReviewRejection, HandleVerifiedSuccess
<1>6. CASE PassCheckpoint
  <2>1. cur \in Node /\ graph.node[cur] = "running" /\ Active
    BY <1>6, <1>run, GraphAssumption
       DEF PassCheckpoint, TypeOK, IndInv, InFlightIsRunning, Active, WithStatus
  <2>2. file' = PassNode(graph, cur) /\ UNCHANGED attempts
    BY <1>6 DEF PassCheckpoint, Save, history
  <2>3. /\ Good(file') /\ Keeps(graph, file')
        /\ WithStatus(file', "done") = WithStatus(graph, "done") \cup {cur}
    BY <1>run, <2>1, <2>2, PassOnward, OperationsKeep DEF Onward
  <2>4. cur \in WithStatus(file, "running")
    BY <1>run, <2>1 DEF WithStatus
  <2>5. Closing(cur)
    BY <1>run, <2>1, <2>2, <2>3, <2>4 DEF Closing, Good
  <2> QED
    BY <2>1, <2>5 DEF Effect
<1>7. CASE AppendTesters
  <2>1. PICK added \in SUBSET (Node \ Present(graph)) : file' = AppendDeferredTesters(graph, added)
    BY <1>7 DEF AppendTesters, Save
  <2>2. Active /\ UNCHANGED attempts /\ added \in SUBSET Node
    BY <1>7 DEF AppendTesters, Active, history
  <2>3. Onward(graph, file') /\ WithStatus(file', "done") = WithStatus(graph, "done")
    BY <1>run, <2>1, <2>2, TestersOnward
  <2>4. Keeps(graph, file')
    BY <1>run, <2>1, <2>2, WholeGraphKeeps
  <2> QED
    BY <1>3, <2>2, <2>3, <2>4 DEF Onward
<1>8. CASE Confirm \/ AutoApprove \/ ReturnFailed
  <2>1. PICK x \in {"running", "failed"} : file' = [graph EXCEPT !.status = x]
    BY <1>8 DEF Confirm, AutoApprove, ReturnFailed, Save, Return
  <2>2. Active /\ UNCHANGED attempts
    BY <1>8 DEF Confirm, AutoApprove, ReturnFailed, Return, Active, history
  <2>3. /\ Present(file') = Present(file) /\ WithStatus(file', "done") = WithStatus(file, "done")
        /\ Good(file')
    BY <1>run, <2>1, <2>2, WholeGraphKeeps, SetGraphStatusOnward DEF GraphStatus, Onward
  <2>4. file'.status # "done"
    BY <1>run, <2>1, <2>2 DEF Graph
  <2> QED
    BY <1>run, <2>2, <2>3, <2>4 DEF Effect, Quiet, Good
<1>9. CASE ReturnDone
  <2>1. file' = [graph EXCEPT !.status = "done"] /\ Active /\ UNCHANGED attempts /\ AllDone(graph)
    BY <1>9 DEF ReturnDone, Return, Active, history
  <2>2. /\ Present(file') = Present(file) /\ WithStatus(file', "done") = WithStatus(file, "done")
        /\ Good(file')
    BY <1>run, <2>1, WholeGraphKeeps, SetGraphStatusOnward DEF GraphStatus, Onward
  <2>3. file'.status = "done"
    BY <1>run, <2>1 DEF Graph
  <2> QED
    BY <1>run, <2>1, <2>2, <2>3 DEF Effect, Finishing, Good
\* The start of a checkpoint is not counted, the start of a node is.
<1>10. CASE ReachCheckpoint
  <2>1. PICK n \in Node :
          /\ n \in cps /\ CanTransition(graph, n, "running")
          /\ \/ file' = [graph EXCEPT !.node[n] = "running", !.status = "paused"]
             \/ file' = [graph EXCEPT !.node[n] = "running"]
    BY <1>10 DEF ReachCheckpoint, PausedAt, IsFirst, Save
  <2>2. Active /\ UNCHANGED attempts
    BY <1>10 DEF ReachCheckpoint, PausedAt, Active, history
  <2>3. graph.node[n] = "ready"
    BY <1>run, <2>1, <2>2, GraphType DEF CanTransition, ValidTransitions, NodeStatus
  <2>4. Starts(graph, n, file')
    <3>1. /\ Starts(graph, n, [graph EXCEPT !.node[n] = "running"])
          /\ Starts(graph, n, [graph EXCEPT !.node[n] = "running", !.status = "paused"])
      BY <1>run, <2>2, <2>3, StartGood
    <3> QED
      BY <2>1, <3>1, Zenon
  <2>5. Present(file) \subseteq Present(file')
    <3>1. file'.node = [graph.node EXCEPT ![n] = "running"]
      BY <1>run, <2>1, <2>2 DEF Graph
    <3> QED
      BY <1>run, <2>2, <3>1 DEF Graph, Present
  <2>6. file'.status = file.status \/ file'.status # "done"
    BY <1>run, <2>1, <2>2 DEF Graph
  <2> QED
    BY <1>run, <2>2, <2>4, <2>5, <2>6 DEF Effect, Quiet, Starts, Good
<1>11. CASE Dispatch
  <2>1. PICK n \in Node :
          /\ n \in Dispatchable(graph)
          /\ file' = [graph EXCEPT !.node[n] = "running"]
          /\ attempts' = [attempts EXCEPT ![n] = @ + 1]
    BY <1>11 DEF Dispatch, IsFirst, Save
  <2>2. Active /\ graph.node[n] = "ready" /\ DependenciesDone(graph, n) /\ n \in Node \ Checkpoint
    BY <1>11, <2>1 DEF Dispatch, Active, Dispatchable, ReadyNodes, WithStatus
  <2>3. \A m \in Node : attempts'[m] > 0 <=> m = n \/ attempts[m] > 0
    <3>1. attempts \in [Node -> Nat]
      BY <1>typed DEF TypeOK
    <3>2. attempts[n] + 1 > 0
      BY <3>1
    <3> QED
      BY <2>1, <3>1, <3>2
  <2>4. Starts(graph, n, file') /\ Keeps(graph, file')
    BY <1>run, <2>1, <2>2, StartGood, OperationsKeep
  <2>5. Starting(n)
    BY <1>run, <2>2, <2>3, <2>4 DEF Starting, Starts, Good
  <2> QED
    BY <2>5 DEF Effect
<1>12. CASE RunThrows
  <2>1. Active /\ UNCHANGED attempts /\ (file' = file \/ file' = PatchStuck(file))
    BY <1>12 DEF RunThrows, Lost, history
  <2>2. CASE file' = file
    BY <2>1, <2>2 DEF Effect, NoChange
  <2>3. CASE file' = PatchStuck(file)
    BY <1>3, <1>run, <2>1, <2>3, PatchBack, WholeGraphKeeps DEF Back
  <2> QED
    BY <2>1, <2>2, <2>3
\* Requests.
<1>13. ASSUME NEW g, file' = PrepareForResume(g), UNCHANGED attempts, file # NoGraph,
              Back(file, PrepareForResume(g)),
              WithStatus(PrepareForResume(g), "done") = WithStatus(file, "done"),
              Present(file) \subseteq Present(PrepareForResume(g)),
              PrepareForResume(g).status = "running"
       PROVE  Effect
  BY <1>13 DEF Effect, Quiet, Back, Good
<1>14. CASE Resume
  <2>1. file' = PrepareForResume(file) /\ UNCHANGED attempts /\ file # NoGraph
    BY <1>14 DEF Resume, Requested, StartAgain, Save
  <2>2. Present(file) \subseteq Present(PrepareForResume(file)) /\ PrepareForResume(file).status = "running"
    BY <1>good, <2>1 DEF Graph, Present, PrepareForResume
  <2> QED
    BY <1>13, <1>good, <2>1, <2>2, PrepareBack
<1>15. CASE RetrySession
  <2>1. /\ file' = PrepareForResume(RetriedGraph(file)) /\ UNCHANGED attempts /\ file # NoGraph
    BY <1>15 DEF RetrySession, Requested, StartAgain, Save
  <2>2. /\ Present(file) \subseteq Present(PrepareForResume(RetriedGraph(file)))
        /\ PrepareForResume(RetriedGraph(file)).status = "running"
    BY <1>good, <2>1 DEF Graph, Present, PrepareForResume, RetriedGraph
  <2> QED
    BY <1>13, <1>good, <2>1, <2>2, RetriedBack
<1>16. CASE RetryOneNode
  <2>1. PICK n \in WithStatus(file, "failed") \cup WithStatus(file, "running") :
          StartAgain([file EXCEPT !.node[n] = "ready"])
    BY <1>16 DEF RetryOneNode
  <2> DEFINE g == [file EXCEPT !.node[n] = "ready"]
  <2>2. file' = PrepareForResume(g) /\ UNCHANGED attempts /\ file # NoGraph
    BY <1>16, <2>1 DEF RetryOneNode, Requested, StartAgain, Save
  <2>3. n \in Node /\ file.node[n] \in {"running", "failed"}
    BY DEF WithStatus
  <2>4. Present(file) \subseteq Present(PrepareForResume(g)) /\ PrepareForResume(g).status = "running"
    BY <1>good, <2>2, <2>3 DEF Graph, Present, PrepareForResume
  <2>5. /\ Back(file, PrepareForResume(g))
        /\ WithStatus(PrepareForResume(g), "done") = WithStatus(file, "done")
    BY <1>good, <2>2, <2>3, RetriedNodeBack
  <2> HIDE DEF g
  <2> QED
    BY <1>13, <2>2, <2>4, <2>5
<1>17. CASE EditNode
  <2>1. PICK n \in Present(file) :
          /\ file' = ApplyNodeChange(file, n)
          /\ attempts' = [m \in Node |-> IF m \in AffectedBy(n) THEN 0 ELSE attempts[m]]
    BY <1>17 DEF EditNode
  <2>2. file # NoGraph /\ Good(file) /\ n \in Node /\ file \in Graph
    BY <1>17, <1>good DEF EditNode, Requested, Present
  <2>3. \A m \in Node : attempts'[m] > 0 <=> m \notin AffectedBy(n) /\ attempts[m] > 0
    BY <2>1, <1>typed DEF TypeOK
  <2>4. Good(file') /\ Keeps(file, file')
        /\ WithStatus(file', "done") = WithStatus(file, "done") \ AffectedBy(n)
    BY <2>1, <2>2, ChangeGood, OperationsKeep
  <2>5. Editing(n)
    BY <2>2, <2>3, <2>4 DEF Editing, Good
  <2> QED
    BY <2>2, <2>5 DEF Effect
<1> QED
  BY <1>1, <1>2, <1>4, <1>5, <1>6, <1>7, <1>8, <1>9, <1>10, <1>11, <1>12, <1>14, <1>15, <1>16,
     <1>17 DEF Next, RunStep

\* Planned nodes are in every graph.
PlannedPresent == file # NoGraph => Planned \subseteq Present(file)

LEMMA StepPresent == PlannedPresent /\ Effect => PlannedPresent'
<1>1. Planned \subseteq Present(PlannedGraph)
  BY DEF Planned, Present, PlannedGraph
<1> QED
  BY <1>1 DEF PlannedPresent, Effect, NoChange, Quiet, Planning, Finishing, Starting, Closing,
     Editing, Keeps

LEMMA StepRefines == IndInv /\ PlannedPresent /\ Effect => [Dag!Next]_Dag!vars
<1> SUFFICES ASSUME IndInv, PlannedPresent, Effect PROVE [Dag!Next]_Dag!vars
  OBVIOUS
<1> DEFINE Completed == (FileDone \cap Planned) \ Checkpoint
           Approved == FileDone \cap Checkpoint
           Finished == file # NoGraph /\ file.status = "done"
<1>planned. Checkpoint \subseteq Planned /\ \A n \in Planned : DependsOn[n] \subseteq Planned
  BY GraphAssumption DEF Planned
<1>closed. Dag!Closed = FileDone \cap Planned
  BY <1>planned DEF Dag!Closed
<1>1. CASE NoChange
  BY <1>1 DEF NoChange, Dag!vars, Started, FileDone
<1>2. CASE Quiet \/ Planning
  <2>1. Started' = Started /\ FileDone' = FileDone
    BY <1>2, PlannedGood, RunAssumption DEF Quiet, Planning, Started, FileDone, Touched, Good
  <2>2. Finished' = Finished \/ (Finished /\ ~Finished')
    BY <1>2 DEF Quiet, Planning, PlannedGraph
  <2> QED
    BY <2>1, <2>2 DEF Dag!Next, Dag!Reopen, Dag!vars
<1>3. CASE Finishing
  <2>1. Started' = Started /\ FileDone' = FileDone /\ Finished'
    BY <1>3 DEF Finishing, Started, FileDone
  <2>2. Planned \subseteq FileDone
    BY <1>3 DEF Finishing, PlannedPresent, AllDone, FileDone
  <2> QED
    BY <1>closed, <2>1, <2>2 DEF Dag!Next, Dag!Finish
<1>4. ASSUME NEW n \in Node, Starting(n) PROVE [Dag!Next]_Dag!vars
  <2>1. FileDone' = FileDone /\ Finished' = Finished
    BY <1>4 DEF Starting, FileDone, Keeps
  <2>2. Started' = Started \cup ({n} \cap Planned)
    BY <1>4 DEF Starting, Started, Planned
  <2>3. DependsOn[n] \subseteq FileDone
    BY <1>4, GraphAssumption DEF Starting, FileDone, DependenciesDone, WithStatus
  <2>4. CASE n \in Planned
    <3>1. Dag!Start(n)
      BY <1>planned, <1>closed, <2>1, <2>2, <2>3, <2>4 DEF Dag!Start
    <3> QED
      BY <2>4, <3>1 DEF Dag!Next
  <2>5. CASE n \notin Planned
    BY <2>1, <2>2, <2>5 DEF Dag!vars
  <2> QED
    BY <2>4, <2>5
<1>5. ASSUME NEW n \in Node, Closing(n) PROVE [Dag!Next]_Dag!vars
  <2>1. FileDone' = FileDone \cup {n} /\ Finished' = Finished /\ Started' = Started
    BY <1>5 DEF Closing, FileDone, Keeps, Started
  <2>2. CASE n \in Checkpoint
    <3>1. Dag!Approve(n)
      BY <2>1, <2>2 DEF Dag!Approve
    <3> QED
      BY <1>planned, <2>2, <3>1 DEF Dag!Next
  <2>3. CASE n \in Planned \ Checkpoint
    <3>1. n \in Started
      BY <1>5, <2>3 DEF Closing, IndInv, FileInv, Touched, Started
    <3>2. Dag!Complete(n)
      BY <2>1, <2>3, <3>1 DEF Dag!Complete
    <3> QED
      BY <2>3, <3>2 DEF Dag!Next
  <2>4. CASE n \notin Planned
    BY <1>planned, <2>1, <2>4 DEF Dag!vars
  <2> QED
    BY <2>2, <2>3, <2>4
\* Everything that depends on the edited node is done again.
<1>6. ASSUME NEW n \in Node, Editing(n) PROVE [Dag!Next]_Dag!vars
  <2> DEFINE S == AffectedBy(n) \cap Planned
  <2>1. FileDone' = FileDone \ AffectedBy(n) /\ Finished' = Finished
    BY <1>6 DEF Editing, FileDone, Keeps
  <2>2. Started' = Started \ S
    BY <1>6 DEF Editing, Started, Planned
  <2>3. \A m \in Planned : DependsOn[m] \cap S # {} => m \in S
    BY AffectedClosed DEF Planned
  <2>4. Dag!Redo(S)
    BY <1>planned, <2>1, <2>2, <2>3 DEF Dag!Redo
  <2> QED
    BY <2>4 DEF Dag!Next
<1> QED
  BY <1>1, <1>2, <1>3, <1>4, <1>5, <1>6 DEF Effect

\* The graph file is a legal run of the planned graph, for every graph and any
\* number of requests, edits, crashes and faults: no start with open
\* dependencies, no completion without a start or lost afterwards, no "done"
\* with open nodes, and an edit takes back all that was built on the node.
THEOREM Refinement == Spec => ImplementsDagRun
<1>1. Init => Dag!Init /\ PlannedPresent
  <2> SUFFICES ASSUME Init PROVE Dag!Init /\ PlannedPresent
    OBVIOUS
  <2>1. Started = {} /\ FileDone = {} /\ file = NoGraph
    BY DEF Init, Started, FileDone, Planned
  <2> QED
    BY <2>1 DEF Dag!Init, PlannedPresent
<1>2. IndInv /\ PlannedPresent /\ [Next]_vars => [Dag!Next]_Dag!vars /\ PlannedPresent'
  BY StepEffect, StepPresent, StepRefines
<1> QED
  BY <1>1, <1>2, Invariance, PTL DEF Spec, ImplementsDagRun, Dag!Spec
-----------------------------------------------------------------------------
(* What waits for a person                                                   *)

\* A checkpoint that was reached, or is to be reached next, has nothing open
\* before it.  Only an edit of a node before it takes this back.
GateReady(g) ==
  \A c \in Checkpoint :
    g.node[c] \in {"ready", "running", "failed", "done"} => DependenciesDone(g, c)

\* Nothing done is taken back, and a checkpoint comes to be ready by its
\* dependencies.
LEMMA GateKept ==
  ASSUME NEW g, GateReady(g), NEW h, WithStatus(g, "done") \subseteq WithStatus(h, "done"),
         \A c \in Checkpoint :
           h.node[c] \in {"ready", "running", "failed", "done"} =>
             \/ g.node[c] \in {"ready", "running", "failed", "done"}
             \/ DependenciesDone(h, c)
  PROVE  GateReady(h)
<1>1. \A n \in Node : g.node[n] = "done" => h.node[n] = "done"
  BY DEF WithStatus
<1> QED
  BY <1>1, GraphAssumption DEF GateReady, DependenciesDone

LEMMA GateOperations ==
  ASSUME NEW g \in Graph, GateReady(g)
  PROVE  /\ GateReady(PatchStuck(g)) /\ GateReady(PrepareForResume(g))
         /\ GateReady(PrepareForResume(RetriedGraph(g)))
         /\ \A x : GateReady([g EXCEPT !.status = x])
         /\ \A added \in SUBSET (Node \ Present(g)) :
              added \cap Checkpoint = {} => GateReady(AppendDeferredTesters(g, added))
<1>1. GateReady(PatchStuck(g))
  <2>1. \A m \in Node : PatchStuck(g).node[m] =
          IF g.node[m] = "running" THEN "failed"
          ELSE IF /\ g.node[m] \in {"pending", "ready"}
                  /\ DependsOn[m] \cap WithStatus(g, "running") # {}
          THEN "blocked" ELSE g.node[m]
    BY DEF Graph, PatchStuck, WithStatus
  <2> QED
    BY <2>1, GateKept, GraphAssumption DEF WithStatus
<1>2. GateReady(PrepareForResume(g))
  <2>1. \A m \in Node : PrepareForResume(g).node[m] = IF g.node[m] = "running" THEN "ready" ELSE g.node[m]
    BY DEF Graph, PrepareForResume
  <2> QED
    BY <2>1, GateKept, GraphAssumption DEF WithStatus
<1>3. GateReady(PrepareForResume(RetriedGraph(g)))
  <2>1. \A m \in Node : PrepareForResume(RetriedGraph(g)).node[m] =
          IF g.node[m] \in {"running", "failed"} THEN "ready"
          ELSE IF g.node[m] = "blocked" THEN "pending" ELSE g.node[m]
    BY DEF Graph, PrepareForResume, RetriedGraph
  <2> QED
    BY <2>1, GateKept, GraphAssumption DEF WithStatus
<1>4. \A x : GateReady([g EXCEPT !.status = x])
  BY DEF Graph, GateReady, DependenciesDone
<1>5. ASSUME NEW added \in SUBSET (Node \ Present(g)), added \cap Checkpoint = {}
      PROVE  GateReady(AppendDeferredTesters(g, added))
  <2>1. \A m \in Node : AppendDeferredTesters(g, added).node[m] = IF m \in added THEN "ready" ELSE g.node[m]
    BY DEF Graph, AppendDeferredTesters
  <2>2. \A m \in added : g.node[m] = "absent"
    BY <1>5 DEF Present
  <2> QED
    BY <1>5, <2>1, <2>2, GateKept, GraphAssumption DEF WithStatus
<1> QED
  BY <1>1, <1>2, <1>3, <1>4, <1>5

\* The operations on one node.
LEMMA GateOfNode ==
  ASSUME NEW g \in Graph, GateReady(g), NEW n \in Node
  PROVE  /\ g.node[n] = "running" =>
              /\ GateReady(FailNode(g, n)) /\ GateReady(RetryNode(g, n))
              /\ GateReady(RedoNode(g, n)) /\ GateReady(CompleteNode(g, n))
              /\ GateReady(PassNode(g, n))
         /\ g.node[n] = "pending" /\ DependenciesDone(g, n) => GateReady([g EXCEPT !.node[n] = "ready"])
         /\ g.node[n] \in {"failed", "running"} =>
              GateReady(PrepareForResume([g EXCEPT !.node[n] = "ready"]))
         /\ g.node[n] = "ready" =>
              /\ GateReady([g EXCEPT !.node[n] = "running"])
              /\ \A x : GateReady([g EXCEPT !.node[n] = "running", !.status = x])
<1>1. ASSUME g.node[n] = "running" PROVE GateReady(FailNode(g, n))
  <2>1. \A m \in Node : FailNode(g, n).node[m] =
          IF m = n THEN "failed" ELSE IF Blocks(g, n, m) THEN "blocked" ELSE g.node[m]
    BY DEF Graph, FailNode, Blocks
  <2> QED
    BY <1>1, <2>1, GateKept, GraphAssumption DEF WithStatus, Blocks
<1>2. ASSUME g.node[n] = "running" PROVE GateReady(RetryNode(g, n))
  <2>1. \A m \in Node : RetryNode(g, n).node[m] =
          IF m = n THEN "ready" ELSE IF Blocks(g, n, m) THEN "blocked" ELSE g.node[m]
    BY DEF Graph, RetryNode, Blocks
  <2> QED
    BY <1>2, <2>1, GateKept, GraphAssumption DEF WithStatus, Blocks
<1>3. ASSUME g.node[n] = "running" PROVE GateReady(RedoNode(g, n))
  <2>1. \A m \in Node : RedoNode(g, n).node[m] = IF m = n THEN "ready" ELSE g.node[m]
    BY DEF Graph, RedoNode
  <2> QED
    BY <1>3, <2>1, GateKept, GraphAssumption DEF WithStatus
<1>4. ASSUME g.node[n] = "running" PROVE GateReady(CompleteNode(g, n))
  <2>1. \A m \in Node : CompleteNode(g, n).node[m] =
          IF m = n THEN "done"
          ELSE IF g.node[m] = "blocked" /\ n \in DependsOn[m] THEN "pending" ELSE g.node[m]
    BY DEF Graph, CompleteNode
  <2> QED
    BY <1>4, <2>1, GateKept, GraphAssumption DEF WithStatus
<1>5. ASSUME g.node[n] = "running" PROVE GateReady(PassNode(g, n))
  <2>1. \A m \in Node : PassNode(g, n).node[m] =
          IF m = n THEN "done"
          ELSE IF n \in DependsOn[m] /\ g.node[m] = "blocked" THEN "pending"
          ELSE IF g.node[m] = "pending" /\ \A d \in DependsOn[m] \ {n} : g.node[d] = "done"
          THEN "ready" ELSE g.node[m]
    BY DEF Graph, PassNode
  <2> DEFINE h == PassNode(g, n)
  <2>2. WithStatus(g, "done") \subseteq WithStatus(h, "done")
    BY <2>1 DEF WithStatus
  <2>3. ASSUME NEW c \in Checkpoint, h.node[c] \in {"ready", "running", "failed", "done"},
               g.node[c] \notin {"ready", "running", "failed", "done"}
        PROVE  DependenciesDone(h, c)
    <3>1. c \in Node /\ c # n
      BY <1>5, <2>3, GraphAssumption
    <3>2. \A d \in DependsOn[c] \ {n} : g.node[d] = "done"
      BY <2>1, <2>3, <3>1
    <3>3. \A d \in DependsOn[c] : d \in Node
      BY <3>1, GraphAssumption
    <3> HIDE DEF h
    <3> QED
      BY <2>1, <3>2, <3>3 DEF DependenciesDone, h
  <2> HIDE DEF h
  <2>4. GateReady(h)
    BY <2>2, <2>3, GateKept
  <2> QED
    BY <2>4 DEF h
<1>6. ASSUME g.node[n] = "pending", DependenciesDone(g, n) PROVE GateReady([g EXCEPT !.node[n] = "ready"])
  <2> DEFINE h == [g EXCEPT !.node[n] = "ready"]
  <2>1. \A m \in Node : h.node[m] = IF m = n THEN "ready" ELSE g.node[m]
    BY DEF Graph
  <2> HIDE DEF h
  <2>2. GateReady(h)
    BY <1>6, <2>1, GraphAssumption DEF GateReady, DependenciesDone
  <2> QED
    BY <2>2 DEF h
<1>7. ASSUME g.node[n] \in {"failed", "running"} PROVE GateReady(PrepareForResume([g EXCEPT !.node[n] = "ready"]))
  <2> DEFINE h == PrepareForResume([g EXCEPT !.node[n] = "ready"])
  <2>1. \A m \in Node : h.node[m] = IF m = n \/ g.node[m] = "running" THEN "ready" ELSE g.node[m]
    BY DEF Graph, PrepareForResume
  <2> HIDE DEF h
  <2>2. GateReady(h)
    BY <1>7, <2>1, GateKept, GraphAssumption DEF WithStatus
  <2> QED
    BY <2>2 DEF h
<1>8. ASSUME g.node[n] = "ready", NEW h, \A m \in Node : h.node[m] = IF m = n THEN "running" ELSE g.node[m]
      PROVE  GateReady(h)
  BY <1>8, GateKept, GraphAssumption DEF WithStatus
<1>9. ASSUME g.node[n] = "ready" PROVE GateReady([g EXCEPT !.node[n] = "running"])
  BY <1>8, <1>9 DEF Graph
<1>10. ASSUME g.node[n] = "ready", NEW x PROVE GateReady([g EXCEPT !.node[n] = "running", !.status = x])
  BY <1>8, <1>10 DEF Graph
<1> QED
  BY <1>1, <1>2, <1>3, <1>4, <1>5, <1>6, <1>7, <1>9, <1>10

\* Requests and faults are only counted up.
LEMMA Counting ==
  ASSUME IndInv, [Next]_vars
  PROVE  asked \subseteq asked' /\ (faults' = 0 => faults = 0)
<1>1. faults \in Nat
  BY DEF IndInv, TypeOK
<1>2. CASE \/ StartRun \/ Promote \/ CollectCheckpoints \/ ReachCheckpoint \/ AutoApprove \/ PassCheckpoint
           \/ CheckpointsPassed \/ Dispatch \/ EndOfPass \/ AppendTesters \/ ReturnDone \/ ReturnFailed
           \/ Confirm \/ UNCHANGED vars
  BY <1>2 DEF StartRun, Promote, CollectCheckpoints, ReachCheckpoint, PausedAt, AutoApprove, PassCheckpoint,
     CheckpointsPassed, Dispatch, EndOfPass, AppendTesters, ReturnDone, ReturnFailed, Return, Confirm,
     bounds, vars
<1>3. CASE HandleCompletedNode
  BY <1>3 DEF HandleCompletedNode, HandleFailure, HandleReviewRejection, HandleVerifiedSuccess, Settled, bounds
<1>4. CASE Crash \/ RunThrows
  BY <1>1, <1>4 DEF Crash, RunThrows
<1>5. CASE Resume \/ RetrySession \/ RetryOneNode \/ EditNode
  BY <1>5 DEF Resume, RetrySession, RetryOneNode, EditNode, Requested, StartAgain
<1> QED
  BY <1>2, <1>3, <1>4, <1>5 DEF Next, RunStep

FileGate == "edit" \notin asked /\ file # NoGraph => GateReady(file)

LEMMA GateStep == IndInv /\ PlannedPresent /\ FileGate /\ [Next]_vars => FileGate'
<1> SUFFICES ASSUME IndInv, PlannedPresent, FileGate, [Next]_vars, "edit" \notin asked', file' # NoGraph
             PROVE  GateReady(file')
  BY DEF FileGate
<1>file. file # NoGraph => GateReady(file) /\ file \in Graph
  BY Counting DEF FileGate, IndInv, FileInv, Good
<1>run. Active => graph = file /\ file # NoGraph /\ graph \in Graph /\ GateReady(graph)
  BY <1>file, RunAssumption DEF IndInv, Saved, TypeOK
<1>1. CASE \/ CollectCheckpoints \/ CheckpointsPassed \/ EndOfPass \/ Crash \/ UNCHANGED vars
  BY <1>1, <1>file DEF CollectCheckpoints, CheckpointsPassed, EndOfPass, Crash, Lost, vars
<1>2. CASE StartRun
  <2>1. file' = PlannedGraph
    BY <1>2 DEF StartRun, Save
  <2>2. \A c \in Checkpoint : c \in Node /\ c \notin Tester
    BY GraphAssumption
  <2> QED
    BY <2>1, <2>2 DEF PlannedGraph, GateReady, DependenciesDone
<1>3. CASE Promote
  <2>1. PICK n \in Node : n \in PromotableNodes(graph) /\ file' = [graph EXCEPT !.node[n] = "ready"]
    BY <1>3 DEF Promote, IsFirst, Save
  <2>2. Active /\ graph.node[n] = "pending" /\ DependenciesDone(graph, n)
    BY <1>3, <2>1 DEF Promote, Active, PromotableNodes, WithStatus
  <2> QED
    BY <1>run, <2>1, <2>2, GateOfNode
<1>4. CASE ReachCheckpoint
  <2>1. PICK n \in Node :
          /\ n \in cps /\ CanTransition(graph, n, "running")
          /\ \/ file' = [graph EXCEPT !.node[n] = "running", !.status = "paused"]
             \/ file' = [graph EXCEPT !.node[n] = "running"]
    BY <1>4 DEF ReachCheckpoint, PausedAt, IsFirst, Save
  <2>2. Active
    BY <1>4 DEF ReachCheckpoint, PausedAt, Active
  <2>3. graph.node[n] = "ready"
    BY <1>run, <2>1, <2>2, GraphType DEF CanTransition, ValidTransitions, NodeStatus
  <2>4. /\ GateReady([graph EXCEPT !.node[n] = "running", !.status = "paused"])
        /\ GateReady([graph EXCEPT !.node[n] = "running"])
    BY <1>run, <2>2, <2>3, GateOfNode, Zenon
  <2> QED
    BY <2>1, <2>4, Zenon
<1>5. CASE Confirm \/ AutoApprove \/ ReturnDone \/ ReturnFailed
  <2>1. Active /\ \E x : file' = [graph EXCEPT !.status = x]
    BY <1>5 DEF Confirm, AutoApprove, ReturnDone, ReturnFailed, Return, Save, Active
  <2> QED
    BY <1>run, <2>1, GateOperations
<1>6. CASE PassCheckpoint
  <2>1. cur \in Node /\ graph.node[cur] = "running" /\ Active
    BY <1>6, <1>run, GraphAssumption
       DEF PassCheckpoint, TypeOK, IndInv, InFlightIsRunning, Active, WithStatus
  <2>2. file' = PassNode(graph, cur)
    BY <1>6 DEF PassCheckpoint, Save
  <2> QED
    BY <1>run, <2>1, <2>2, GateOfNode
<1>7. CASE Dispatch
  <2>1. PICK n \in Node : n \in Dispatchable(graph) /\ file' = [graph EXCEPT !.node[n] = "running"]
    BY <1>7 DEF Dispatch, IsFirst, Save
  <2>2. Active /\ graph.node[n] = "ready"
    BY <1>7, <2>1 DEF Dispatch, Active, Dispatchable, ReadyNodes, WithStatus
  <2> QED
    BY <1>run, <2>1, <2>2, GateOfNode
<1>8. CASE HandleCompletedNode
  <2>1. PICK n \in Node : HandleFailure(n) \/ HandleReviewRejection(n) \/ HandleVerifiedSuccess(n)
    BY <1>8 DEF HandleCompletedNode
  <2>2. Active /\ graph.node[n] = "running"
    BY <1>run, <2>1 DEF HandleFailure, HandleReviewRejection, HandleVerifiedSuccess, Raced,
       IndInv, InFlightIsRunning, Active, WithStatus
  <2>3. file' \in {FailNode(graph, n), RetryNode(graph, n), RedoNode(graph, n), CompleteNode(graph, n)}
    BY <2>1 DEF HandleFailure, HandleReviewRejection, HandleVerifiedSuccess, Settled, Save
  <2> QED
    BY <1>run, <2>2, <2>3, GateOfNode
<1>9. CASE AppendTesters
  <2>1. PICK added \in SUBSET (Node \ Present(graph)) : file' = AppendDeferredTesters(graph, added)
    BY <1>9 DEF AppendTesters, Save
  <2>2. Active
    BY <1>9 DEF AppendTesters, Active
  \* Checkpoints are in the graph from the start.
  <2>3. added \cap Checkpoint = {}
    BY <1>run, <2>2, GraphAssumption DEF PlannedPresent, Planned
  <2> QED
    BY <1>run, <2>1, <2>2, <2>3, GateOperations
<1>10. CASE RunThrows
  <2>1. file' = file \/ file' = PatchStuck(file)
    BY <1>10 DEF RunThrows
  <2>2. file # NoGraph
    BY <1>10, <1>run DEF RunThrows
  <2> QED
    BY <1>file, <2>1, <2>2, GateOperations
<1>11. CASE Resume \/ RetrySession
  <2>1. file # NoGraph /\ file' \in {PrepareForResume(file), PrepareForResume(RetriedGraph(file))}
    BY <1>11 DEF Resume, RetrySession, Requested, StartAgain, Save
  <2> QED
    BY <1>file, <2>1, GateOperations
<1>12. CASE RetryOneNode
  <2>1. PICK n \in WithStatus(file, "failed") \cup WithStatus(file, "running") :
          StartAgain([file EXCEPT !.node[n] = "ready"])
    BY <1>12 DEF RetryOneNode
  <2>2. file # NoGraph /\ file' = PrepareForResume([file EXCEPT !.node[n] = "ready"])
    BY <1>12, <2>1 DEF RetryOneNode, Requested, StartAgain, Save
  <2>3. n \in Node /\ file.node[n] \in {"failed", "running"}
    BY DEF WithStatus
  <2> QED
    BY <1>file, <2>2, <2>3, GateOfNode
<1>13. CASE EditNode
  BY <1>13 DEF EditNode, Requested
<1> QED
  BY <1>1, <1>2, <1>3, <1>4, <1>5, <1>6, <1>7, <1>8, <1>9, <1>10, <1>11, <1>12, <1>13
     DEF Next, RunStep

\* As long as no node was edited, for every graph and any number of resumes,
\* retries, crashes and faults: a checkpoint is offered for confirmation only
\* when everything it is about is done.
THEOREM OfferedWhenDone == Spec => []CheckpointOffered
<1>1. Init => PlannedPresent /\ FileGate
  BY DEF Init, PlannedPresent, FileGate
<1>2. IndInv /\ PlannedPresent /\ FileGate /\ [Next]_vars => PlannedPresent' /\ FileGate'
  BY StepEffect, StepPresent, GateStep
<1>3. IndInv /\ FileGate => CheckpointOffered
  <2> SUFFICES ASSUME IndInv, FileGate, "edit" \notin asked, pc = "confirm"
               PROVE  DependenciesDone(graph, cur)
    BY DEF CheckpointOffered
  <2>1. graph = file /\ file # NoGraph /\ cur \in Checkpoint /\ graph.node[cur] = "running"
    BY RunAssumption, GraphAssumption
       DEF IndInv, Saved, TypeOK, Active, InFlightIsRunning, WithStatus
  <2> QED
    BY <2>1 DEF FileGate, GateReady
<1> QED
  BY <1>1, <1>2, <1>3, Invariance, PTL DEF Spec

-----------------------------------------------------------------------------
(* Confirmations                                                             *)

\* One checkpoint, and requests for the whole session only.  With three, a
\* resume may approve one that the first made ready meanwhile, for the one it
\* was asked about; after a retry or an edit of a single node a file may be
\* paused whose checkpoint does not wait any more.
SingleGate == Interactive /\ \A c, d \in Checkpoint : c = d

WholeSession == asked \subseteq {"resume", "retry_session"}

\* auto is set only with the confirmation of the checkpoint found waiting, and a
\* file is paused only while its checkpoint waits.
Confirmations ==
  /\ file # NoGraph => WithStatus(file, "done") \cap Checkpoint \subseteq confirmed
  /\ auto => Checkpoint \subseteq confirmed
  /\ pc = "pass" => cur \in confirmed
  /\ pc \notin {"none", "confirm"} => file.status # "paused"
  /\ file # NoGraph /\ file.status = "paused" => Checkpoint \subseteq WithStatus(file, "running")

\* What a step of the loop leaves alone that passes no checkpoint.
LEMMA Unconfirmed ==
  ASSUME Confirmations, file # NoGraph, file' # NoGraph, pc # "confirm", pc # "none",
         pc' \notin {"pass", "confirm"},
         WithStatus(file', "done") \cap Checkpoint \subseteq WithStatus(file, "done"),
         file'.status # "paused", auto' => auto, confirmed' = confirmed
  PROVE  Confirmations'
BY DEF Confirmations

LEMMA ConfirmStep ==
  IndInv /\ SingleGate /\ WholeSession' /\ Confirmations /\ [Next]_vars => Confirmations'
<1> SUFFICES ASSUME IndInv, SingleGate, WholeSession', Confirmations, [Next]_vars PROVE Confirmations'
  OBVIOUS
<1>good. file # NoGraph => Good(file) /\ file \in Graph
  BY DEF IndInv, FileInv, Good
<1>run. Active => graph = file /\ Good(graph) /\ file # NoGraph /\ graph \in Graph
  BY <1>good, RunAssumption DEF IndInv, Saved, TypeOK
<1>typed. TypeOK /\ Checkpoint \subseteq Node
  BY GraphAssumption DEF IndInv
<1>1. CASE UNCHANGED vars
  BY <1>1 DEF vars, Confirmations
<1>2. CASE CollectCheckpoints \/ CheckpointsPassed \/ EndOfPass
  <2>1. /\ pc \in {"promote", "checkpoints", "dispatch"} /\ pc' \in {"checkpoints", "dispatch", "race", "finish"}
        /\ UNCHANGED <<file, auto, confirmed>>
    BY <1>2 DEF CollectCheckpoints, CheckpointsPassed, EndOfPass, context, history
  <2> QED
    BY <1>run, <2>1, Unconfirmed DEF Active, Confirmations
<1>3. CASE StartRun
  <2>1. /\ file' = PlannedGraph /\ pc' = "promote" /\ auto' = auto /\ confirmed' = confirmed /\ ~Active
    BY <1>3 DEF StartRun, Save, context, history
  <2>2. WithStatus(PlannedGraph, "done") = {} /\ PlannedGraph.status = "running"
    BY PlannedGood DEF PlannedGraph, Touched
  <2> QED
    BY <1>typed, <2>1, <2>2 DEF Confirmations, TypeOK
<1>4. CASE Promote
  <2>1. PICK n \in Node : n \in PromotableNodes(graph) /\ file' = [graph EXCEPT !.node[n] = "ready"]
    BY <1>4 DEF Promote, IsFirst, Save
  <2>2. /\ pc = "promote" /\ pc' = pc /\ UNCHANGED <<auto, confirmed>>
        /\ graph.node[n] = "pending"
    BY <1>4, <2>1 DEF Promote, loop, context, history, PromotableNodes, WithStatus
  <2>3. WithStatus(file', "done") = WithStatus(file, "done") /\ file'.status = file.status /\ Good(file')
    BY <1>run, <2>1, <2>2, PromoteOnward, OperationsKeep DEF Active, Onward, Keeps
  <2> QED
    BY <1>run, <2>2, <2>3, Unconfirmed, RunAssumption DEF Active, Confirmations, Good
<1>5. CASE ReachCheckpoint
  <2>1. PICK n \in Node :
          /\ n \in cps /\ CanTransition(graph, n, "running")
          /\ file' = [graph EXCEPT !.node[n] = "running", !.status = "paused"]
    BY <1>5 DEF ReachCheckpoint, PausedAt, IsFirst, Save, SingleGate
  <2>2. pc = "checkpoints" /\ pc' = "confirm" /\ UNCHANGED <<auto, confirmed>>
    BY <1>5 DEF ReachCheckpoint, PausedAt, SingleGate, context, history
  <2>3. graph.node[n] = "ready"
    BY <1>run, <2>1, <2>2, GraphType DEF Active, CanTransition, ValidTransitions, NodeStatus
  <2>4. Starts(graph, n, file')
    BY <1>run, <2>1, <2>2, <2>3, StartGood, Zenon DEF Active
  <2>5. WithStatus(file', "done") = WithStatus(file, "done") /\ n \in WithStatus(file', "running")
    BY <1>run, <2>2, <2>4 DEF Active, Starts
  <2>6. Checkpoint \subseteq WithStatus(file', "running")
    BY <1>typed, <2>1, <2>5 DEF TypeOK, SingleGate
  <2> QED
    BY <1>run, <2>2, <2>5, <2>6 DEF Active, Confirmations
<1>6. CASE Confirm \/ AutoApprove
  <2>1. /\ pc = "confirm" /\ pc' = "pass" /\ cur' = cur /\ (auto' => auto)
        /\ file' = [graph EXCEPT !.status = "running"]
        /\ \/ confirmed' = confirmed \cup {cur}
           \/ auto /\ confirmed' = confirmed
    BY <1>6 DEF Confirm, AutoApprove, Save, context, history
  <2>2. cur \in Checkpoint
    BY <1>typed, <2>1 DEF TypeOK
  <2>3. cur' \in confirmed' /\ confirmed \subseteq confirmed'
    BY <2>1, <2>2 DEF Confirmations
  <2>4. WithStatus(file', "done") = WithStatus(file, "done") /\ file'.status = "running"
    <3>1. "running" \in GraphStatus /\ graph \in Graph /\ Good(graph) /\ graph = file
      BY <1>run, <2>1 DEF Active, GraphStatus
    <3>2. file'.status = "running"
      BY <2>1, <3>1 DEF Graph
    <3> QED
      BY <2>1, <3>1, <3>2, SetGraphStatusOnward
  <2> QED
    BY <1>run, <2>1, <2>3, <2>4 DEF Active, Confirmations
<1>7. CASE PassCheckpoint
  <2>1. /\ pc = "pass" /\ pc' = "checkpoints" /\ file' = PassNode(graph, cur) /\ UNCHANGED <<auto, confirmed>>
    BY <1>7 DEF PassCheckpoint, Save, context, history
  <2>2. cur \in Node /\ graph.node[cur] = "running"
    BY <1>run, <1>typed, <2>1 DEF IndInv, TypeOK, InFlightIsRunning, Active, WithStatus
  <2>3. WithStatus(file', "done") = WithStatus(file, "done") \cup {cur} /\ file'.status = file.status
    BY <1>run, <2>1, <2>2, PassOnward, OperationsKeep DEF Active, Keeps
  <2> QED
    BY <1>run, <2>1, <2>3 DEF Active, Confirmations
<1>8. CASE Dispatch
  <2>1. PICK n \in Node : n \in Dispatchable(graph) /\ file' = [graph EXCEPT !.node[n] = "running"]
    BY <1>8 DEF Dispatch, IsFirst, Save
  <2>2. /\ pc = "dispatch" /\ pc' = pc /\ UNCHANGED <<auto, confirmed>> /\ graph.node[n] = "ready"
    BY <1>8, <2>1 DEF Dispatch, Dispatchable, ReadyNodes, WithStatus, context
  <2>3. WithStatus(file', "done") = WithStatus(file, "done") /\ file'.status = file.status /\ Good(file')
    <3>1. /\ Starts(graph, n, [graph EXCEPT !.node[n] = "running"])
          /\ Keeps(graph, [graph EXCEPT !.node[n] = "running"])
      BY <1>run, <2>2, StartGood, OperationsKeep DEF Active
    <3> QED
      BY <1>run, <2>1, <2>2, <3>1 DEF Active, Starts, Keeps
  <2> QED
    BY <1>run, <2>2, <2>3, Unconfirmed, RunAssumption DEF Active, Confirmations, Good
<1>9. CASE HandleCompletedNode
  <2>1. PICK n \in Node : HandleFailure(n) \/ HandleReviewRejection(n) \/ HandleVerifiedSuccess(n)
    BY <1>9 DEF HandleCompletedNode
  <2>2. /\ pc = "race" /\ pc' = "promote" /\ UNCHANGED <<auto, confirmed>>
        /\ n \in inflight
    BY <2>1 DEF HandleFailure, HandleReviewRejection, HandleVerifiedSuccess, Raced, Settled, context, history
  <2>3. graph.node[n] = "running" /\ n \notin Checkpoint
    BY <1>run, <1>typed, <2>2 DEF IndInv, InFlightIsRunning, TypeOK, Active, WithStatus
  <2>4. \/ file' = FailNode(graph, n) \/ file' = CompleteNode(graph, n)
        \/ CanRetry(graph, n) /\ (file' = RetryNode(graph, n) \/ file' = RedoNode(graph, n))
    BY <2>1 DEF HandleFailure, HandleReviewRejection, HandleVerifiedSuccess, Settled, Save
  <2>5. /\ WithStatus(file', "done") \subseteq WithStatus(file, "done") \cup {n}
        /\ file'.status = file.status /\ Good(file')
    <3>1. graph = file /\ Good(graph) /\ graph \in Graph
      BY <1>run, <2>2 DEF Active
    <3> DEFINE Settles(h) == /\ WithStatus(h, "done") \subseteq WithStatus(graph, "done") \cup {n}
                             /\ h.status = graph.status /\ Good(h)
    <3>2. Settles(FailNode(graph, n))
      BY <2>3, <3>1, FailOnward, OperationsKeep DEF Onward, Keeps
    <3>3. Settles(CompleteNode(graph, n))
      BY <2>3, <3>1, CompleteOnward, OperationsKeep DEF Onward, Keeps
    <3>4. CanRetry(graph, n) => Settles(RetryNode(graph, n)) /\ Settles(RedoNode(graph, n))
      BY <2>3, <3>1, RetryOnward, RedoOnward, OperationsKeep DEF Onward, Keeps
    <3>5. Settles(file')
      BY <2>4, <3>2, <3>3, <3>4
    <3> QED
      BY <3>1, <3>5
  <2> QED
    BY <1>run, <2>2, <2>3, <2>5, Unconfirmed, RunAssumption DEF Active, Confirmations, Good
<1>10. CASE AppendTesters
  <2>1. PICK added \in SUBSET (Node \ Present(graph)) : file' = AppendDeferredTesters(graph, added)
    BY <1>10 DEF AppendTesters, Save
  <2>2. pc = "finish" /\ pc' = "promote" /\ UNCHANGED <<auto, confirmed>> /\ added \in SUBSET Node
    BY <1>10 DEF AppendTesters, context, history
  <2>3. WithStatus(file', "done") = WithStatus(file, "done") /\ file'.status = file.status /\ Good(file')
    BY <1>run, <2>1, <2>2, TestersOnward, WholeGraphKeeps DEF Active, Onward, Keeps
  <2> QED
    BY <1>run, <2>2, <2>3, Unconfirmed, RunAssumption DEF Active, Confirmations, Good
<1>11. CASE ReturnDone \/ ReturnFailed
  <2>1. /\ pc = "finish" /\ pc' = "none" /\ auto' = FALSE /\ confirmed' = confirmed
        /\ \E x \in {"done", "failed"} : file' = [graph EXCEPT !.status = x]
    BY <1>11 DEF ReturnDone, ReturnFailed, Return, history
  <2>2. WithStatus(file', "done") = WithStatus(file, "done") /\ file'.status # "paused" /\ Good(file')
    <3>1. PICK x \in {"done", "failed"} : file' = [graph EXCEPT !.status = x]
      BY <2>1
    <3>2. x \in GraphStatus /\ graph \in Graph /\ Good(graph) /\ graph = file
      BY <1>run, <2>1 DEF Active, GraphStatus
    <3>3. file'.status = x
      BY <3>1, <3>2 DEF Graph
    <3> QED
      BY <3>1, <3>2, <3>3, SetGraphStatusOnward DEF Onward
  <2> QED
    BY <1>run, <2>1, <2>2, Unconfirmed, RunAssumption DEF Active, Good
<1>12. CASE Crash
  BY <1>12 DEF Crash, Lost, history, Confirmations
<1>13. CASE RunThrows
  <2>1. /\ Active /\ pc # "confirm" /\ pc' = "none" /\ auto' = FALSE /\ confirmed' = confirmed
        /\ file' = file \/ file' = PatchStuck(file)
    BY <1>13 DEF RunThrows, Lost, history
  <2>2. WithStatus(file', "done") = WithStatus(file, "done") /\ file'.status = file.status /\ Good(file')
    BY <1>run, <2>1, PatchBack, WholeGraphKeeps DEF Back, Keeps
  <2> QED
    BY <1>run, <2>1, <2>2, Unconfirmed, RunAssumption DEF Active, Confirmations, Good
\* The person's answer to the pause, if the file is paused.
<1>14. CASE Resume
  <2>1. /\ file # NoGraph /\ file' = PrepareForResume(file) /\ pc' = "promote"
        /\ auto' => file.status = "paused"
        /\ confirmed' = IF file.status = "paused"
                        THEN confirmed \cup (WithStatus(file, "running") \cap Checkpoint) ELSE confirmed
    BY <1>14 DEF Resume, Requested, StartAgain, Save
  <2>2. WithStatus(file', "done") = WithStatus(file, "done") /\ file'.status = "running"
    BY <1>good, <2>1, PrepareBack DEF PrepareForResume, Graph
  <2>3. confirmed \subseteq confirmed' /\ (auto' => Checkpoint \subseteq confirmed')
    BY <2>1 DEF Confirmations
  <2> QED
    BY <2>1, <2>2, <2>3 DEF Confirmations
<1>15. CASE RetrySession
  <2>1. /\ file # NoGraph /\ file' = PrepareForResume(RetriedGraph(file)) /\ pc' = "promote"
        /\ auto' => RetriedGraph(file).status = "paused"
        /\ confirmed' = confirmed
    BY <1>15 DEF RetrySession, Requested, StartAgain, Save
  <2>2. /\ WithStatus(file', "done") = WithStatus(file, "done") /\ file'.status = "running"
        /\ RetriedGraph(file).status = "running"
    BY <1>good, <2>1, RetriedBack DEF PrepareForResume, RetriedGraph, Graph
  <2> QED
    BY <2>1, <2>2 DEF Confirmations
<1>16. CASE RetryOneNode \/ EditNode
  BY <1>16 DEF RetryOneNode, EditNode, Requested, WholeSession
<1> QED
  BY <1>1, <1>2, <1>3, <1>4, <1>5, <1>6, <1>7, <1>8, <1>9, <1>10, <1>11, <1>12, <1>13, <1>14,
     <1>15, <1>16 DEF Next, RunStep

\* In a graph with one checkpoint, for any number of resumes, retries of the
\* session, crashes and faults, until a single node is retried or edited: the
\* checkpoint is done only after a person confirmed it.
THEOREM GateIsConfirmed == Spec => [](SingleGate => GateConfirmed)
<1> DEFINE Inv == SingleGate /\ WholeSession => Confirmations
<1>1. Init => Inv
  BY DEF Init, Confirmations
<1>2. IndInv /\ Inv /\ [Next]_vars => Inv'
  <2>1. IndInv /\ [Next]_vars /\ WholeSession' => WholeSession
    BY Counting DEF WholeSession
  <2> QED
    BY <2>1, ConfirmStep DEF SingleGate
<1>3. Inv => (SingleGate => GateConfirmed)
  BY DEF Confirmations, GateConfirmed, WholeSession
<1> HIDE DEF Inv
<1> QED
  BY <1>1, <1>2, <1>3, Invariance, PTL DEF Spec

-----------------------------------------------------------------------------
(* What is left when the loop ends                                           *)

\* The planner accepts no circle (detectDependencyCycle).
Acyclic == \A S \in SUBSET Node : S # {} => \E n \in S : DependsOn[n] \cap S = {}

\* The loop goes through the checkpoints it found ready, then dispatches.  One
\* that becomes ready by another is found by the next pass only, and a run that
\* has nothing else to do ends before it.  A checkpoint that was failed with its
\* run and is retried alone leaves its dependents blocked, to be pending, and not
\* ready, once it is passed.
GatesApart == \A c \in Checkpoint : DependsOn[c] \cap Checkpoint = {}

PlainRetries == "retry_node" \in asked => Checkpoint = {} \/ faults = 0

\* BlockedOpen, with a dependency that the passing of checkpoints does not close.
BlockedBehind(g) ==
  \A m \in Node : g.node[m] = "blocked" =>
    \E d \in DependsOn[m] : g.node[d] # "done" /\ (d \notin Checkpoint \/ g.node[d] = "failed")

GateNotFailed(g, thrown) == thrown = 0 => \A c \in Checkpoint : g.node[c] # "failed"

\* Behind each await of the loop, what the code above it saw is still so.
PassShape ==
  /\ pc \in {"checkpoints", "confirm", "pass"} =>
       PromotableNodes(graph) = {} /\ CheckpointNodes(graph) \subseteq cps
  /\ pc \in {"dispatch", "finish"} => PromotableNodes(graph) = {} /\ CheckpointNodes(graph) = {}
  /\ pc = "finish" => Dispatchable(graph) = {}

LeftInv ==
  /\ file # NoGraph => BlockedBehind(file) /\ GateNotFailed(file, faults)
  /\ PassShape

\* A node is blocked anew behind such a dependency, or its own was left alone.
LEMMA BehindKept ==
  ASSUME NEW g, BlockedBehind(g), NEW h,
         \A m \in Node : h.node[m] = "blocked" =>
           \/ /\ g.node[m] = "blocked"
              /\ \A d \in DependsOn[m] :
                   /\ h.node[d] = "done" => g.node[d] = "done" \/ (d \in Checkpoint /\ g.node[d] # "failed")
                   /\ d \in Checkpoint /\ g.node[d] = "failed" => h.node[d] = "failed"
           \/ \E d \in DependsOn[m] : h.node[d] # "done" /\ (d \notin Checkpoint \/ h.node[d] = "failed")
  PROVE  BlockedBehind(h)
BY GraphAssumption DEF BlockedBehind

LEMMA BehindOfNode ==
  ASSUME NEW g \in Graph, BlockedBehind(g), NEW n \in Node
  PROVE  /\ g.node[n] = "running" /\ n \notin Checkpoint =>
              /\ BlockedBehind(FailNode(g, n)) /\ BlockedBehind(RetryNode(g, n))
              /\ BlockedBehind(RedoNode(g, n)) /\ BlockedBehind(CompleteNode(g, n))
         /\ g.node[n] = "running" => BlockedBehind(PassNode(g, n))
         /\ g.node[n] \in {"failed", "running"} /\ (n \in Checkpoint => g.node[n] # "failed") =>
              BlockedBehind(PrepareForResume([g EXCEPT !.node[n] = "ready"]))
         /\ BlockedBehind(ApplyNodeChange(g, n))
         /\ \A s \in {"ready", "running"} : \A h :
              g.node[n] \in {"pending", "ready"}
                /\ (\A m \in Node : h.node[m] = IF m = n THEN s ELSE g.node[m])
              => BlockedBehind(h)
<1> USE GraphAssumption, BehindKept
<1>1. ASSUME g.node[n] = "running", n \notin Checkpoint PROVE BlockedBehind(FailNode(g, n))
  <2> DEFINE h == FailNode(g, n)
  <2>1. \A m \in Node : h.node[m] = IF m = n THEN "failed" ELSE IF Blocks(g, n, m) THEN "blocked" ELSE g.node[m]
    BY DEF Graph, FailNode, Blocks
  <2> HIDE DEF h
  <2>2. BlockedBehind(h)
    BY <1>1, <2>1 DEF Blocks
  <2> QED
    BY <2>2 DEF h
<1>2. ASSUME g.node[n] = "running", n \notin Checkpoint PROVE BlockedBehind(RetryNode(g, n))
  <2> DEFINE h == RetryNode(g, n)
  <2>1. \A m \in Node : h.node[m] = IF m = n THEN "ready" ELSE IF Blocks(g, n, m) THEN "blocked" ELSE g.node[m]
    BY DEF Graph, RetryNode, Blocks
  <2> HIDE DEF h
  <2>2. BlockedBehind(h)
    BY <1>2, <2>1 DEF Blocks
  <2> QED
    BY <2>2 DEF h
<1>3. ASSUME g.node[n] = "running", n \notin Checkpoint PROVE BlockedBehind(RedoNode(g, n))
  <2> DEFINE h == RedoNode(g, n)
  <2>1. \A m \in Node : h.node[m] = IF m = n THEN "ready" ELSE g.node[m]
    BY DEF Graph, RedoNode
  <2> HIDE DEF h
  <2>2. BlockedBehind(h)
    BY <1>3, <2>1
  <2> QED
    BY <2>2 DEF h
<1>4. ASSUME g.node[n] = "running", n \notin Checkpoint PROVE BlockedBehind(CompleteNode(g, n))
  <2> DEFINE h == CompleteNode(g, n)
  <2>1. \A m \in Node : h.node[m] =
          IF m = n THEN "done"
          ELSE IF g.node[m] = "blocked" /\ n \in DependsOn[m] THEN "pending" ELSE g.node[m]
    BY DEF Graph, CompleteNode
  <2> HIDE DEF h
  <2>2. BlockedBehind(h)
    BY <1>4, <2>1
  <2> QED
    BY <2>2 DEF h
<1>5. ASSUME g.node[n] = "running" PROVE BlockedBehind(PassNode(g, n))
  <2> DEFINE h == PassNode(g, n)
  <2>1. \A m \in Node : h.node[m] =
          IF m = n THEN "done"
          ELSE IF n \in DependsOn[m] /\ g.node[m] = "blocked" THEN "pending"
          ELSE IF g.node[m] = "pending" /\ \A d \in DependsOn[m] \ {n} : g.node[d] = "done"
          THEN "ready" ELSE g.node[m]
    BY DEF Graph, PassNode
  <2> HIDE DEF h
  <2>2. \A m \in Node : h.node[m] = "blocked" => g.node[m] = "blocked" /\ n \notin DependsOn[m]
    BY <2>1
  <2>3. \A m \in Node \ {n} : /\ h.node[m] = "done" => g.node[m] = "done"
                              /\ g.node[m] = "failed" => h.node[m] = "failed"
    BY <2>1
  <2>4. BlockedBehind(h)
    BY <2>2, <2>3
  <2> QED
    BY <2>4 DEF h
<1>6. ASSUME g.node[n] \in {"failed", "running"}, n \in Checkpoint => g.node[n] # "failed"
      PROVE  BlockedBehind(PrepareForResume([g EXCEPT !.node[n] = "ready"]))
  <2> DEFINE h == PrepareForResume([g EXCEPT !.node[n] = "ready"])
  <2>1. \A m \in Node : h.node[m] = IF m = n \/ g.node[m] = "running" THEN "ready" ELSE g.node[m]
    BY DEF Graph, PrepareForResume
  <2> HIDE DEF h
  <2>2. BlockedBehind(h)
    BY <1>6, <2>1
  <2> QED
    BY <2>2 DEF h
<1>7. BlockedBehind(ApplyNodeChange(g, n))
  <2> DEFINE h == ApplyNodeChange(g, n)
             A == AffectedBy(n)
  <2>1. \A m \in Node : h.node[m] = IF m \in A \cap Present(g) THEN "ready" ELSE g.node[m]
    BY DEF Graph, ApplyNodeChange
  <2>2. \A m \in Node : DependsOn[m] \cap A # {} => m \in A
    BY AffectedClosed
  <2> HIDE DEF h, A
  <2>3. \A m \in Node : h.node[m] = "blocked" => m \notin A /\ g.node[m] = "blocked"
    BY <2>1 DEF Present
  <2>4. \A m \in Node : m \notin A => \A d \in DependsOn[m] : d \in Node /\ h.node[d] = g.node[d]
    BY <2>1, <2>2
  <2>5. BlockedBehind(h)
    BY <2>3, <2>4
  <2> QED
    BY <2>5 DEF h
<1>8. ASSUME NEW s \in {"ready", "running"}, NEW h, g.node[n] \in {"pending", "ready"},
             \A m \in Node : h.node[m] = IF m = n THEN s ELSE g.node[m]
      PROVE  BlockedBehind(h)
  BY <1>8
<1> QED
  BY <1>1, <1>2, <1>3, <1>4, <1>5, <1>6, <1>7, <1>8

LEMMA BehindOperations ==
  ASSUME NEW g \in Graph, BlockedBehind(g)
  PROVE  /\ BlockedBehind(PatchStuck(g)) /\ BlockedBehind(PrepareForResume(g))
         /\ BlockedBehind(PrepareForResume(RetriedGraph(g)))
         /\ \A x : BlockedBehind([g EXCEPT !.status = x])
         /\ \A added \in SUBSET (Node \ Present(g)) : BlockedBehind(AppendDeferredTesters(g, added))
<1> USE GraphAssumption, BehindKept
<1>1. BlockedBehind(PatchStuck(g))
  <2> DEFINE h == PatchStuck(g)
  <2>1. \A m \in Node : h.node[m] =
          IF g.node[m] = "running" THEN "failed"
          ELSE IF /\ g.node[m] \in {"pending", "ready"}
                  /\ DependsOn[m] \cap WithStatus(g, "running") # {}
          THEN "blocked" ELSE g.node[m]
    BY DEF Graph, PatchStuck, WithStatus
  <2> HIDE DEF h
  <2>2. BlockedBehind(h)
    BY <2>1 DEF WithStatus
  <2> QED
    BY <2>2 DEF h
<1>2. BlockedBehind(PrepareForResume(g))
  <2> DEFINE h == PrepareForResume(g)
  <2>1. \A m \in Node : h.node[m] = IF g.node[m] = "running" THEN "ready" ELSE g.node[m]
    BY DEF Graph, PrepareForResume
  <2> HIDE DEF h
  <2>2. BlockedBehind(h)
    BY <2>1
  <2> QED
    BY <2>2 DEF h
<1>3. BlockedBehind(PrepareForResume(RetriedGraph(g)))
  <2> DEFINE h == PrepareForResume(RetriedGraph(g))
  <2>1. \A m \in Node : h.node[m] =
          IF g.node[m] \in {"running", "failed"} THEN "ready"
          ELSE IF g.node[m] = "blocked" THEN "pending" ELSE g.node[m]
    BY DEF Graph, PrepareForResume, RetriedGraph
  <2> HIDE DEF h
  <2>2. BlockedBehind(h)
    BY <2>1
  <2> QED
    BY <2>2 DEF h
<1>4. ASSUME NEW x PROVE BlockedBehind([g EXCEPT !.status = x])
  <2> DEFINE h == [g EXCEPT !.status = x]
  <2>1. h.node = g.node
    BY DEF Graph
  <2> HIDE DEF h
  <2>2. BlockedBehind(h)
    BY <2>1
  <2> QED
    BY <2>2 DEF h
<1>5. ASSUME NEW added \in SUBSET (Node \ Present(g)) PROVE BlockedBehind(AppendDeferredTesters(g, added))
  <2> DEFINE h == AppendDeferredTesters(g, added)
  <2>1. \A m \in Node : h.node[m] = IF m \in added THEN "ready" ELSE g.node[m]
    BY DEF Graph, AppendDeferredTesters
  <2>2. \A m \in added : g.node[m] = "absent"
    BY DEF Present
  <2> HIDE DEF h
  <2>3. BlockedBehind(h)
    BY <2>1, <2>2
  <2> QED
    BY <2>3 DEF h
<1> QED
  BY <1>1, <1>2, <1>3, <1>4, <1>5

\* After the passing of a checkpoint there is nothing more to promote, and no
\* checkpoint more to go through.
LEMMA PassedShape ==
  ASSUME GatesApart, NEW g \in Graph, BlockedBehind(g), PromotableNodes(g) = {},
         NEW c \in Checkpoint, g.node[c] = "running"
  PROVE  /\ PromotableNodes(PassNode(g, c)) = {}
         /\ CheckpointNodes(PassNode(g, c)) \subseteq CheckpointNodes(g)
<1> DEFINE h == PassNode(g, c)
<1>1. \A m \in Node : h.node[m] =
        IF m = c THEN "done"
        ELSE IF c \in DependsOn[m] /\ g.node[m] = "blocked" THEN "pending"
        ELSE IF g.node[m] = "pending" /\ \A d \in DependsOn[m] \ {c} : g.node[d] = "done"
        THEN "ready" ELSE g.node[m]
  BY DEF Graph, PassNode
<1> HIDE DEF h
<1>2. c \in Node /\ \A m \in Node : \A d \in DependsOn[m] : d \in Node
  BY GraphAssumption
<1>3. \A m \in Node \ {c} : h.node[m] = "done" => g.node[m] = "done"
  BY <1>1
<1>4. ASSUME NEW m \in Node, h.node[m] = "pending" PROVE ~DependenciesDone(h, m)
  <2>1. m # c /\ \/ c \in DependsOn[m] /\ g.node[m] = "blocked"
                 \/ g.node[m] = "pending" /\ ~ \A d \in DependsOn[m] \ {c} : g.node[d] = "done"
    BY <1>1, <1>4
  <2>2. PICK d \in DependsOn[m] : d # c /\ g.node[d] # "done"
    BY <2>1 DEF BlockedBehind
  <2> QED
    BY <1>2, <1>3, <2>2 DEF DependenciesDone
<1>5. ASSUME NEW m \in Node, m \in Checkpoint, h.node[m] = "ready" PROVE g.node[m] = "ready"
  <2> SUFFICES ASSUME g.node[m] # "ready" PROVE FALSE
    OBVIOUS
  <2>1. g.node[m] = "pending" /\ \A d \in DependsOn[m] \ {c} : g.node[d] = "done"
    BY <1>1, <1>5
  <2>2. c \notin DependsOn[m]
    BY <1>5 DEF GatesApart
  <2>3. m \in PromotableNodes(g)
    BY <2>1, <2>2 DEF PromotableNodes, WithStatus, DependenciesDone
  <2> QED
    BY <2>3
<1>6. PromotableNodes(h) = {}
  BY <1>4 DEF PromotableNodes, WithStatus
<1>7. CheckpointNodes(h) \subseteq CheckpointNodes(g)
  BY <1>5 DEF CheckpointNodes, WithStatus
<1> QED
  BY <1>6, <1>7 DEF h

\* A ready node is started.
LEMMA StartedShape ==
  ASSUME NEW g \in Graph, PromotableNodes(g) = {}, NEW n \in Node, g.node[n] = "ready", NEW h,
         \A m \in Node : h.node[m] = IF m = n THEN "running" ELSE g.node[m]
  PROVE  /\ PromotableNodes(h) = {}
         /\ CheckpointNodes(h) \subseteq CheckpointNodes(g) \ {n}
<1>1. \A m \in Node : \A d \in DependsOn[m] : d \in Node
  BY GraphAssumption
<1>2. \A m \in Node : DependenciesDone(h, m) => DependenciesDone(g, m)
  BY <1>1 DEF DependenciesDone
<1> QED
  BY <1>2 DEF PromotableNodes, CheckpointNodes, WithStatus

LEMMA LeftStep ==
  IndInv /\ GatesApart /\ PlainRetries' /\ LeftInv /\ [Next]_vars => LeftInv'
<1> SUFFICES ASSUME IndInv, GatesApart, PlainRetries', LeftInv, [Next]_vars PROVE LeftInv'
  OBVIOUS
<1>count. faults' = 0 => faults = 0
  BY Counting
<1>file. file # NoGraph => BlockedBehind(file) /\ GateNotFailed(file, faults) /\ file \in Graph
  BY DEF LeftInv, IndInv, FileInv, Good
<1>run. Active => graph = file /\ file # NoGraph /\ graph \in Graph /\ BlockedBehind(graph) /\ GateNotFailed(graph, faults)
  BY <1>file, RunAssumption DEF IndInv, Saved, TypeOK
<1>shape. ASSUME pc' \in {"none", "promote", "race"} PROVE PassShape'
  BY <1>shape DEF PassShape
<1>kept. ASSUME NEW g, GateNotFailed(g, faults), NEW h,
                \A c \in Checkpoint : h.node[c] = "failed" => g.node[c] = "failed"
         PROVE  GateNotFailed(h, faults')
  BY <1>count, <1>kept DEF GateNotFailed
<1>gates. Checkpoint \subseteq Node
  BY GraphAssumption
<1>1. CASE UNCHANGED vars
  BY <1>1 DEF vars, LeftInv, PassShape
<1>2. CASE StartRun
  <2>1. file' = PlannedGraph /\ pc' = "promote"
    BY <1>2 DEF StartRun, Save
  <2>2. BlockedBehind(PlannedGraph) /\ GateNotFailed(PlannedGraph, faults')
    BY <1>gates DEF PlannedGraph, BlockedBehind, GateNotFailed
  <2> QED
    BY <1>shape, <2>1, <2>2 DEF LeftInv
<1>3. CASE Promote
  <2>1. PICK n \in Node : n \in PromotableNodes(graph) /\ file' = [graph EXCEPT !.node[n] = "ready"]
    BY <1>3 DEF Promote, IsFirst, Save
  <2>2. Active /\ graph.node[n] = "pending" /\ pc' = "promote"
    BY <1>3, <2>1 DEF Promote, Active, PromotableNodes, WithStatus, loop
  <2>3. \A m \in Node : file'.node[m] = IF m = n THEN "ready" ELSE graph.node[m]
    BY <1>run, <2>1, <2>2 DEF Graph
  <2> QED
    BY <1>run, <1>shape, <1>kept, <1>gates, <2>2, <2>3, BehindOfNode DEF LeftInv
<1>4. CASE CollectCheckpoints \/ CheckpointsPassed \/ EndOfPass
  <2>1. UNCHANGED <<file, graph, faults>>
    BY <1>4 DEF CollectCheckpoints, CheckpointsPassed, EndOfPass, bounds
  <2>2. CASE CollectCheckpoints
    BY <2>1, <2>2 DEF CollectCheckpoints, LeftInv, PassShape
  <2>3. CASE CheckpointsPassed
    BY <2>1, <2>3 DEF CheckpointsPassed, LeftInv, PassShape
  <2>4. CASE EndOfPass
    BY <2>1, <2>4 DEF EndOfPass, LeftInv, PassShape
  <2> QED
    BY <1>4, <2>2, <2>3, <2>4
<1>5. CASE ReachCheckpoint
  <2>1. PICK n \in Node :
          /\ n \in cps /\ CanTransition(graph, n, "running") /\ cps' = cps \ {n}
          /\ \/ file' = [graph EXCEPT !.node[n] = "running", !.status = "paused"]
             \/ file' = [graph EXCEPT !.node[n] = "running"]
          /\ graph' = file'
    BY <1>5 DEF ReachCheckpoint, PausedAt, IsFirst, Save
  <2>2. Active /\ pc = "checkpoints" /\ pc' \in {"confirm", "pass"}
    BY <1>5 DEF ReachCheckpoint, PausedAt, Active
  <2>3. graph.node[n] = "ready"
    BY <1>run, <2>1, <2>2, GraphType DEF CanTransition, ValidTransitions, NodeStatus
  <2>4. \A m \in Node : file'.node[m] = IF m = n THEN "running" ELSE graph.node[m]
    <3>1. CASE file' = [graph EXCEPT !.node[n] = "running", !.status = "paused"]
      BY <1>run, <2>2, <3>1 DEF Graph
    <3>2. CASE file' = [graph EXCEPT !.node[n] = "running"]
      BY <1>run, <2>2, <3>2 DEF Graph
    <3> QED
      BY <2>1, <3>1, <3>2
  <2>5. PromotableNodes(graph) = {} /\ CheckpointNodes(graph) \subseteq cps
    BY <2>2 DEF LeftInv, PassShape
  <2>6. PromotableNodes(graph') = {} /\ CheckpointNodes(graph') \subseteq CheckpointNodes(graph) \ {n}
    BY <1>run, <2>1, <2>2, <2>3, <2>4, <2>5, StartedShape
  <2>7. BlockedBehind(file') /\ GateNotFailed(file', faults')
    BY <1>run, <1>kept, <1>gates, <2>2, <2>3, <2>4, BehindOfNode
  <2>8. PassShape'
    BY <2>1, <2>2, <2>5, <2>6 DEF PassShape
  <2> QED
    BY <2>7, <2>8 DEF LeftInv
<1>6. CASE Confirm \/ AutoApprove
  <2>1. /\ pc = "confirm" /\ pc' = "pass" /\ cps' = cps /\ Active
        /\ file' = [graph EXCEPT !.status = "running"] /\ graph' = file'
    BY <1>6 DEF Confirm, AutoApprove, Save, Active
  <2>2. file'.node = graph.node
    BY <1>run, <2>1 DEF Graph
  <2>3. BlockedBehind(file') /\ GateNotFailed(file', faults')
    BY <1>count, <1>run, <2>1, <2>2 DEF BlockedBehind, GateNotFailed
  <2>4. PromotableNodes(graph') = PromotableNodes(graph) /\ CheckpointNodes(graph') = CheckpointNodes(graph)
    BY <2>1, <2>2 DEF PromotableNodes, CheckpointNodes, WithStatus, DependenciesDone
  <2>5. PassShape'
    BY <2>1, <2>4 DEF LeftInv, PassShape
  <2> QED
    BY <2>3, <2>5 DEF LeftInv
<1>7. CASE PassCheckpoint
  <2>1. /\ cur \in Checkpoint /\ graph.node[cur] = "running" /\ Active
        /\ pc = "pass" /\ pc' = "checkpoints" /\ cps' = cps
        /\ file' = PassNode(graph, cur) /\ graph' = file'
    BY <1>7, <1>run, <1>gates
       DEF PassCheckpoint, Save, TypeOK, IndInv, InFlightIsRunning, Active, WithStatus
  <2>2. BlockedBehind(file')
    BY <1>run, <1>gates, <2>1, BehindOfNode
  <2>3. GateNotFailed(file', faults')
    <3>1. \A m \in Node : PassNode(graph, cur).node[m] = "failed" => graph.node[m] = "failed"
      BY <1>run, <2>1 DEF Graph, PassNode
    <3> QED
      BY <1>run, <1>kept, <1>gates, <2>1, <3>1
  <2>4. PromotableNodes(graph) = {} /\ CheckpointNodes(graph) \subseteq cps
    BY <2>1 DEF LeftInv, PassShape
  <2>5. PromotableNodes(graph') = {} /\ CheckpointNodes(graph') \subseteq CheckpointNodes(graph)
    BY <1>run, <2>1, <2>4, PassedShape
  <2>6. PassShape'
    BY <2>1, <2>4, <2>5 DEF PassShape
  <2> QED
    BY <2>2, <2>3, <2>6 DEF LeftInv
<1>8. CASE Dispatch
  <2>1. PICK n \in Node : /\ n \in Dispatchable(graph) /\ file' = [graph EXCEPT !.node[n] = "running"]
                          /\ graph' = file'
    BY <1>8 DEF Dispatch, IsFirst, Save
  <2>2. Active /\ graph.node[n] = "ready" /\ pc = "dispatch" /\ pc' = "dispatch"
    BY <1>8, <2>1 DEF Dispatch, Active, Dispatchable, ReadyNodes, WithStatus
  <2>3. \A m \in Node : file'.node[m] = IF m = n THEN "running" ELSE graph.node[m]
    BY <1>run, <2>1, <2>2 DEF Graph
  <2>4. PromotableNodes(graph) = {} /\ CheckpointNodes(graph) = {}
    BY <2>2 DEF LeftInv, PassShape
  <2>5. PromotableNodes(graph') = {} /\ CheckpointNodes(graph') \subseteq CheckpointNodes(graph) \ {n}
    <3>1. graph \in Graph /\ \A m \in Node : graph'.node[m] = IF m = n THEN "running" ELSE graph.node[m]
      BY <1>run, <2>1, <2>2, <2>3
    <3>2. PromotableNodes(graph) = {}
      BY <2>4
    <3> QED
      BY <2>2, <3>1, <3>2, StartedShape
  <2>6. BlockedBehind(file') /\ GateNotFailed(file', faults')
    <3>1. BlockedBehind(file')
      BY <1>run, <2>2, <2>3, BehindOfNode
    <3>2. \A c \in Checkpoint : file'.node[c] = "failed" => graph.node[c] = "failed"
      BY <1>gates, <2>3
    <3> QED
      BY <1>run, <1>kept, <2>2, <3>1, <3>2
  <2>7. PassShape'
    BY <2>2, <2>4, <2>5 DEF PassShape
  <2> QED
    BY <2>6, <2>7 DEF LeftInv
<1>9. CASE HandleCompletedNode
  <2>1. PICK n \in Node : HandleFailure(n) \/ HandleReviewRejection(n) \/ HandleVerifiedSuccess(n)
    BY <1>9 DEF HandleCompletedNode
  <2>2. Active /\ graph.node[n] = "running" /\ n \notin Checkpoint /\ pc' = "promote"
    BY <1>run, <2>1 DEF HandleFailure, HandleReviewRejection, HandleVerifiedSuccess, Raced, Settled,
       IndInv, InFlightIsRunning, TypeOK, Active, WithStatus
  <2>3. file' \in {FailNode(graph, n), RetryNode(graph, n), RedoNode(graph, n), CompleteNode(graph, n)}
    BY <2>1 DEF HandleFailure, HandleReviewRejection, HandleVerifiedSuccess, Settled, Save
  <2>4. BlockedBehind(file')
    <3>1. /\ BlockedBehind(FailNode(graph, n)) /\ BlockedBehind(RetryNode(graph, n))
          /\ BlockedBehind(RedoNode(graph, n)) /\ BlockedBehind(CompleteNode(graph, n))
      <4> HIDE DEF BlockedBehind, FailNode, RetryNode, RedoNode, CompleteNode
      <4>1. graph \in Graph /\ BlockedBehind(graph)
        BY <1>run, <2>2
      <4> QED
        BY <2>1, <2>2, <4>1, BehindOfNode
    <3> QED
      BY <2>3, <3>1
  <2>5. GateNotFailed(file', faults')
    <3> DEFINE Same(h) == \A m \in Node \ {n} : h.node[m] = "failed" => graph.node[m] = "failed"
    <3>1. Same(FailNode(graph, n)) /\ Same(RetryNode(graph, n))
      BY <1>run, <2>2 DEF Graph, FailNode, RetryNode, Blocks
    <3>2. Same(RedoNode(graph, n)) /\ Same(CompleteNode(graph, n))
      BY <1>run, <2>2 DEF Graph, RedoNode, CompleteNode
    <3>3. Same(file')
      BY <2>3, <3>1, <3>2
    <3> QED
      BY <1>run, <1>kept, <1>gates, <2>2, <3>3
  <2> QED
    BY <1>shape, <2>2, <2>4, <2>5 DEF LeftInv
<1>10. CASE AppendTesters
  <2>1. PICK added \in SUBSET (Node \ Present(graph)) : file' = AppendDeferredTesters(graph, added)
    BY <1>10 DEF AppendTesters, Save
  <2>2. Active /\ pc' = "promote"
    BY <1>10 DEF AppendTesters, Active
  <2>3. \A m \in Node : file'.node[m] = "failed" => graph.node[m] = "failed"
    BY <1>run, <2>1, <2>2 DEF Graph, AppendDeferredTesters
  <2> QED
    BY <1>run, <1>shape, <1>kept, <1>gates, <2>1, <2>2, <2>3, BehindOperations DEF LeftInv
<1>11. CASE ReturnDone \/ ReturnFailed
  <2>1. /\ Active /\ pc' = "none"
        /\ \E x : file' = [graph EXCEPT !.status = x]
    BY <1>11 DEF ReturnDone, ReturnFailed, Return, Active
  <2>2. file'.node = graph.node
    BY <1>run, <2>1 DEF Graph
  <2> QED
    BY <1>count, <1>run, <1>shape, <2>1, <2>2 DEF LeftInv, BlockedBehind, GateNotFailed
<1>12. CASE Crash
  BY <1>12, <1>shape DEF Crash, Lost, LeftInv
<1>13. CASE RunThrows
  <2>1. /\ file' = file \/ file' = PatchStuck(file)
        /\ pc' = "none" /\ faults' = faults + 1 /\ file # NoGraph
    BY <1>13, <1>run DEF RunThrows, Lost
  <2>2. faults' # 0
    <3>1. faults \in Nat
      BY DEF IndInv, TypeOK
    <3> QED
      BY <2>1, <3>1
  <2> QED
    BY <1>file, <1>shape, <2>1, <2>2, BehindOperations DEF LeftInv, GateNotFailed
<1>14. CASE Resume \/ RetrySession
  <2>1. file # NoGraph /\ pc' = "promote"
        /\ file' \in {PrepareForResume(file), PrepareForResume(RetriedGraph(file))}
    BY <1>14 DEF Resume, RetrySession, Requested, StartAgain, Save
  <2>2. \A m \in Node : file'.node[m] = "failed" => file.node[m] = "failed"
    <3>1. \A m \in Node : PrepareForResume(file).node[m] = "failed" => file.node[m] = "failed"
      BY <1>file, <2>1 DEF Graph, PrepareForResume
    <3>2. \A m \in Node : PrepareForResume(RetriedGraph(file)).node[m] = "failed" => file.node[m] = "failed"
      BY <1>file, <2>1 DEF Graph, PrepareForResume, RetriedGraph
    <3> QED
      BY <2>1, <3>1, <3>2
  <2> QED
    BY <1>file, <1>shape, <1>kept, <1>gates, <2>1, <2>2, BehindOperations DEF LeftInv
<1>15. CASE RetryOneNode
  <2>1. PICK n \in WithStatus(file, "failed") \cup WithStatus(file, "running") :
          StartAgain([file EXCEPT !.node[n] = "ready"])
    BY <1>15 DEF RetryOneNode
  <2>2. /\ file # NoGraph /\ file' = PrepareForResume([file EXCEPT !.node[n] = "ready"])
        /\ pc' = "promote" /\ "retry_node" \in asked' /\ UNCHANGED faults
    BY <1>15, <2>1 DEF RetryOneNode, Requested, StartAgain, Save
  <2>3. n \in Node /\ file.node[n] \in {"failed", "running"}
    BY DEF WithStatus
  <2>4. n \in Checkpoint => file.node[n] # "failed"
    BY <1>file, <2>2 DEF GateNotFailed, PlainRetries
  <2>5. \A m \in Node : file'.node[m] = "failed" => file.node[m] = "failed"
    BY <1>file, <2>2, <2>3 DEF Graph, PrepareForResume
  <2> QED
    BY <1>file, <1>shape, <1>kept, <1>gates, <2>2, <2>3, <2>4, <2>5, BehindOfNode DEF LeftInv
<1>16. CASE EditNode
  <2>1. PICK n \in Present(file) : file' = ApplyNodeChange(file, n)
    BY <1>16 DEF EditNode
  <2>2. file # NoGraph /\ pc' = "none" /\ n \in Node
    BY <1>16 DEF EditNode, Requested, Active, loop, Present
  <2>3. \A m \in Node : file'.node[m] = "failed" => file.node[m] = "failed"
    BY <1>file, <2>1, <2>2 DEF Graph, ApplyNodeChange
  <2> QED
    BY <1>file, <1>shape, <1>kept, <1>gates, <2>1, <2>2, <2>3, BehindOfNode DEF LeftInv
<1> QED
  BY <1>1, <1>2, <1>3, <1>4, <1>5, <1>6, <1>7, <1>8, <1>9, <1>10, <1>11, <1>12, <1>13, <1>14,
     <1>15, <1>16 DEF Next, RunStep

\* At the end of a pass each node that is left over has failed or waits for one
\* that is left over.
LEMMA LeftWaits ==
  ASSUME IndInv, PlannedPresent, LeftInv, pc = "finish",
         NEW n \in Present(graph) \ WithStatus(graph, "done"), graph.node[n] # "failed"
  PROVE  \E d \in DependsOn[n] : d \in Present(graph) \ WithStatus(graph, "done")
<1>1. /\ Active /\ graph = file /\ file # NoGraph /\ graph \in Graph /\ BlockedBehind(graph)
      /\ n \in Node /\ graph.node[n] \notin {"absent", "done"}
  BY RunAssumption DEF IndInv, Saved, TypeOK, Active, FileInv, Good, LeftInv, Present, WithStatus
<1>2. graph.node[n] # "running"
  BY <1>1 DEF IndInv, InFlightIsRunning, LoopShape, WithStatus
<1>3. graph.node[n] \in {"pending", "ready", "blocked"}
  BY <1>1, <1>2, GraphType DEF NodeStatus
<1>4. PromotableNodes(graph) = {} /\ CheckpointNodes(graph) = {} /\ Dispatchable(graph) = {}
  BY DEF LeftInv, PassShape
<1>5. ~DependenciesDone(graph, n)
  <2>1. CASE graph.node[n] = "pending"
    BY <1>1, <1>4, <2>1 DEF PromotableNodes, WithStatus
  <2>2. CASE graph.node[n] = "ready"
    BY <1>1, <1>4, <2>2 DEF CheckpointNodes, Dispatchable, ReadyNodes, WithStatus
  <2>3. CASE graph.node[n] = "blocked"
    BY <1>1, <2>3 DEF BlockedBehind, DependenciesDone
  <2> QED
    BY <1>3, <2>1, <2>2, <2>3
<1>6. PICK d \in DependsOn[n] : graph.node[d] # "done"
  BY <1>5 DEF DependenciesDone
<1>7. d \in Planned
  BY <1>1, <1>6, GraphAssumption DEF Planned
<1>8. d \in Present(graph) \ WithStatus(graph, "done")
  BY <1>1, <1>6, <1>7 DEF PlannedPresent, WithStatus
<1> QED
  BY <1>6, <1>8

\* For every graph without circles in which no checkpoint depends on another, and
\* where no checkpoint failed with its run is retried alone: run() leaves a node
\* over only because it failed or depends on one that failed, after any order of
\* results, failures, retries, edits, crashes and requests (shipyard.ts, graph.ts).
THEOREM LeftBehindFailure == Spec => [](Acyclic /\ GatesApart => NothingRunnableLeft)
<1> DEFINE Inv == GatesApart /\ PlainRetries => LeftInv
<1>1. Init => PlannedPresent /\ Inv
  BY DEF Init, PlannedPresent, LeftInv, PassShape
<1>2. IndInv /\ PlannedPresent /\ Inv /\ [Next]_vars => PlannedPresent' /\ Inv'
  <2>1. IndInv /\ [Next]_vars /\ PlainRetries' => PlainRetries
    BY Counting DEF PlainRetries
  <2>2. IndInv /\ GatesApart /\ PlainRetries /\ PlainRetries' /\ Inv /\ [Next]_vars => LeftInv'
    BY LeftStep
  <2>3. IndInv /\ Inv /\ [Next]_vars => Inv'
    BY <2>1, <2>2 DEF GatesApart
  <2> QED
    BY <2>3, StepEffect, StepPresent
<1>3. IndInv /\ PlannedPresent /\ Inv => (Acyclic /\ GatesApart => NothingRunnableLeft)
  <2> SUFFICES ASSUME IndInv, PlannedPresent, LeftInv, Acyclic, pc = "finish"
               PROVE  \A n \in Present(graph) \ WithStatus(graph, "done") :
                        \E f \in WithStatus(graph, "failed") : n \in AffectedBy(f)
    BY DEF NothingRunnableLeft, PlainRetries
  <2> DEFINE left == {n \in Present(graph) \ WithStatus(graph, "done") :
                        \A f \in WithStatus(graph, "failed") : n \notin AffectedBy(f)}
  <2>1. left \in SUBSET Node
    BY DEF Present
  <2>2. ASSUME NEW n \in left PROVE DependsOn[n] \cap left # {}
    <3>1. n \in Node /\ n \in Present(graph) \ WithStatus(graph, "done")
      BY <2>1
    <3>2. graph.node[n] # "failed"
      BY <2>2, <3>1, AffectedClosed DEF WithStatus
    <3>3. PICK d \in DependsOn[n] : d \in Present(graph) \ WithStatus(graph, "done")
      BY <3>1, <3>2, LeftWaits
    <3>4. \A f \in WithStatus(graph, "failed") : d \notin AffectedBy(f)
      <4> SUFFICES ASSUME NEW f \in WithStatus(graph, "failed"), d \in AffectedBy(f) PROVE FALSE
        OBVIOUS
      <4>1. f \in Node
        BY DEF WithStatus
      <4>2. n \in AffectedBy(f)
        BY <3>1, <3>3, <4>1, AffectedClosed
      <4> QED
        BY <2>2, <4>2
    <3> QED
      BY <3>3, <3>4
  <2>3. left = {}
    <3> HIDE DEF left
    <3> QED
      BY <2>1, <2>2 DEF Acyclic
  <2> QED
    BY <2>3
<1> HIDE DEF Inv
<1> QED
  BY <1>1, <1>2, <1>3, Invariance, PTL DEF Spec
=============================================================================
