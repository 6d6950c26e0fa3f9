-------------------------- MODULE EventStream_proofs --------------------------
(***************************************************************************)
(* Theorems of SessionRuntime and of EventStream, which extends it, for    *)
(* any graph, retry and re-execution budgets, number of commands and       *)
(* crashes, capacities of the channels and connections.  The runtime: its  *)
(* saved row and its log, its budgets, what it waits for, and that it      *)
(* implements DagRun.  The stream: the viewers leave the runtime alone, it *)
(* goes forward only, what it loses, and that the page is told how the     *)
(* session ended.                                                          *)
(***************************************************************************)
EXTENDS EventStream, FiniteSetTheorems, TLAPS

-----------------------------------------------------------------------------
(* The runtime of a session                                                  *)

NodeInHand == {"started", "execute", "verify", "retry_log", "pause_save", "pause_log",
               "fail_save", "fail_log", "command_log_retry", "command_log_approve"}

DoneIn(g) == {n \in Node : g.node[n] = "done"}

\* Where the actor works or waits it has a graph, and where a call concerns a
\* node there is one.
InHand ==
  /\ pc \in (Working \ {"plan"}) \cup {"idle"} => graph # NoGraph
  /\ pc \in NodeInHand => cur \in Node

\* CompletionLogged extended to the memory graph, from which the next snapshot
\* is made.  It runs ahead of the log in one place: an approved checkpoint is
\* done before the approval is appended.
MemoryLogged ==
  graph # NoGraph =>
    DoneIn(graph) \subseteq Logged \cup (IF pc = "command_log_approve" THEN {cur} ELSE {})

\* What the actor found before the event it is about to append.
Dispatched ==
  /\ pc = "started" => DependsOn[cur] \subseteq Logged
  /\ pc \in {"execute", "verify"} => cur \in Started

IndInv == TypeOK /\ InHand /\ CompletionLogged /\ MemoryLogged /\ Dispatched

-----------------------------------------------------------------------------
(* The graph                                                                 *)

LEMMA GraphUpdate ==
  ASSUME NEW g \in Graph, NEW nodes \in [Node -> NodeStatus], NEW s \in GraphStatus
  PROVE  [g EXCEPT !.node = nodes, !.status = s] \in Graph
BY DEF Graph

LEMMA PlannedGraphType == PlannedGraph \in Graph /\ DoneIn(PlannedGraph) = {}
BY DEF PlannedGraph, Graph, GraphStatus, NodeStatus, DoneIn

\* Promoting pending nodes neither finishes a node nor takes one back.
LEMMA UpdatePendingType ==
  ASSUME NEW g \in Graph
  PROVE  UpdatePendingNodes(g) \in Graph /\ DoneIn(UpdatePendingNodes(g)) = DoneIn(g)
BY DEF UpdatePendingNodes, DependenciesSatisfied, Graph, NodeStatus, DoneIn

\* Nor does the normalisation of a recovered graph.
LEMMA NormalizeType ==
  ASSUME NEW g \in Graph, NEW s \in SessionStatus
  PROVE  NormalizeRecovered(g, s) \in Graph /\ DoneIn(NormalizeRecovered(g, s)) = DoneIn(g)
<1> DEFINE nodes == [n \in Node |->
              IF g.node[n] \in {"running", "verifying"} /\ ~KeepsWaiting(g, n, s)
              THEN "ready" ELSE g.node[n]]
           status == IF s \in {"paused", "failed", "done"} THEN s ELSE g.status
           h == [g EXCEPT !.node = nodes, !.status = status]
<1>1. nodes \in [Node -> NodeStatus] /\ status \in GraphStatus
  BY DEF Graph, NodeStatus, GraphStatus
<1>2. h \in Graph
  BY <1>1, GraphUpdate
<1>3. DoneIn(h) = DoneIn(g)
  BY <1>1 DEF DoneIn, Graph
<1>4. NormalizeRecovered(g, s) = UpdatePendingNodes(h)
  BY DEF NormalizeRecovered
<1> QED
  BY <1>2, <1>3, <1>4, UpdatePendingType

-----------------------------------------------------------------------------
(* The event log                                                             *)

LEMMA LogKept ==
  ASSUME UNCHANGED events
  PROVE  UNCHANGED <<Started, Completed, Approved>>
BY DEF Started, Completed, Approved, Recorded

\* One event changes the record of its own type by its own node.
LEMMA LogOne ==
  ASSUME events \in Seq(Event), NEW u \in EventType, NEW m \in Node \cup {NoNode},
         Log(<<Ev(u, m)>>)
  PROVE  /\ events' \in Seq(Event)
         /\ Started' = Started \cup (IF u = "node_started" THEN {m} \cap Node ELSE {})
         /\ Completed' = Completed \cup (IF u = "node_completed" THEN {m} \cap Node ELSE {})
         /\ Approved' = Approved \cup (IF u = "checkpoint_approved" THEN {m} \cap Node ELSE {})
<1>1. Ev(u, m) \in Event
  BY DEF Ev, Event
<1>2. events' = events \o <<Ev(u, m)>> /\ events' \in Seq(Event)
  BY <1>1 DEF Log
<1>3. ASSUME NEW t
      PROVE  Recorded(t)' = Recorded(t) \cup (IF u = t THEN {m} \cap Node ELSE {})
  BY <1>2 DEF Recorded, Ev
<1> QED
  BY <1>2, <1>3 DEF Started, Completed, Approved

\* Other events, one or two at a time, change none of the three records.
LEMMA LogOther ==
  ASSUME events \in Seq(Event), NEW u \in EventType, NEW v \in EventType,
         NEW m \in Node \cup {NoNode}, NEW k \in Node \cup {NoNode},
         Log(<<Ev(u, m), Ev(v, k)>>),
         {u, v} \cap {"node_started", "node_completed", "checkpoint_approved"} = {}
  PROVE  events' \in Seq(Event) /\ UNCHANGED <<Started, Completed, Approved>>
<1>1. Ev(u, m) \in Event /\ Ev(v, k) \in Event
  BY DEF Ev, Event
<1>2. events' = events \o <<Ev(u, m), Ev(v, k)>> /\ events' \in Seq(Event)
  BY <1>1 DEF Log
<1>3. ASSUME NEW t \in {"node_started", "node_completed", "checkpoint_approved"}
      PROVE  Recorded(t)' = Recorded(t)
  <2>1. /\ Len(events) \in Nat /\ Len(events') = Len(events) + 2
        /\ \A i \in 1..Len(events) : events'[i] = events[i]
        /\ events'[Len(events) + 1] = Ev(u, m) /\ events'[Len(events) + 2] = Ev(v, k)
    BY <1>1, <1>2
  <2>2. \A n : Ev(t, n) # Ev(u, m) /\ Ev(t, n) # Ev(v, k)
    BY DEF Ev
  <2>3. \A n : (\E i \in 1..Len(events') : events'[i] = Ev(t, n))
                 <=> (\E i \in 1..Len(events) : events[i] = Ev(t, n))
    BY <2>1, <2>2
  <2> QED
    BY <2>3 DEF Recorded
<1> QED
  BY <1>2, <1>3 DEF Started, Completed, Approved

-----------------------------------------------------------------------------
(* The invariant                                                             *)

LEMMA InitInd == Init => IndInv
<1> SUFFICES ASSUME Init PROVE IndInv
  OBVIOUS
<1> USE DEF Init
<1>1. TypeOK
  BY DEF TypeOK, SessionStatus, PC
<1>2. InHand /\ CompletionLogged /\ MemoryLogged /\ Dispatched
  BY DEF InHand, Working, NodeInHand, CompletionLogged, MemoryLogged, Dispatched
<1> QED
  BY <1>1, <1>2 DEF IndInv

LEMMA StepInd == IndInv /\ [Next]_vars => IndInv'
<1> SUFFICES ASSUME IndInv, [Next]_vars PROVE IndInv'
  OBVIOUS
<1> USE NoGraphAssumption DEF IndInv
<1>typed. /\ graph # NoGraph => graph \in Graph
          /\ snap # NoGraph => snap \in Graph
          /\ events \in Seq(Event)
  BY DEF TypeOK
<1>1. CASE StartRun
  <2>1. TypeOK'
    BY <1>1 DEF StartRun, Go, bounds, TypeOK, SessionStatus, PC, Working
  <2>2. (InHand /\ CompletionLogged /\ MemoryLogged /\ Dispatched)'
    BY <1>1, LogKept DEF StartRun, Go, bounds, InHand, Working, NodeInHand, CompletionLogged,
       MemoryLogged, Dispatched, Logged, DoneIn
  <2> QED
    BY <2>1, <2>2
<1>2. CASE BuildGraph
  <2>1. TypeOK'
    BY <1>2, PlannedGraphType DEF BuildGraph, Go, bounds, durable, TypeOK, PC, Working
  <2>2. (InHand /\ CompletionLogged /\ MemoryLogged /\ Dispatched)'
    BY <1>2, LogKept, PlannedGraphType DEF BuildGraph, Go, bounds, durable, InHand, Working, NodeInHand,
       CompletionLogged, MemoryLogged, Dispatched, Logged, DoneIn
  <2> QED
    BY <2>1, <2>2
<1>3. CASE LogCreated
  <2>1. events' \in Seq(Event) /\ UNCHANGED <<Started, Completed, Approved>>
    BY <1>3, <1>typed, LogOther DEF LogCreated, EventType
  <2>2. TypeOK'
    BY <1>3, <2>1 DEF LogCreated, Go, bounds, memory, TypeOK, PC, Working
  <2>3. (InHand /\ CompletionLogged /\ MemoryLogged /\ Dispatched)'
    BY <1>3, <2>1 DEF LogCreated, Go, bounds, memory, InHand, Working, NodeInHand,
       CompletionLogged, MemoryLogged, Dispatched, Logged, DoneIn
  <2> QED
    BY <2>2, <2>3
<1>4. CASE \E n \in Node : StartNode(n)
  <2> PICK n \in Node : StartNode(n)
    BY <1>4
  <2> DEFINE g == UpdatePendingNodes(graph)
  <2>1. graph \in Graph /\ pc = "tick" /\ n \in ReadyNodes(g)
    BY <1>typed DEF StartNode, InHand, Working
  <2>2. g \in Graph /\ DoneIn(g) = DoneIn(graph)
    BY <2>1, UpdatePendingType
  <2>3. graph' = [g EXCEPT !.node[n] = "running"] /\ snap' = graph'
    BY DEF StartNode
  <2>4. graph' \in Graph /\ DoneIn(graph') \subseteq DoneIn(graph)
    <3>1. graph' \in Graph /\ graph'.node = [g.node EXCEPT ![n] = "running"]
      BY <2>2, <2>3 DEF Graph, NodeStatus
    <3> QED
      BY <2>2, <3>1 DEF DoneIn, Graph
  <2>5. DoneIn(graph) \subseteq Logged
    BY <2>1 DEF MemoryLogged, InHand, Working
  <2>6. DependsOn[n] \subseteq Logged
    BY <2>1, <2>2, <2>5, ConstantsAssumption DEF ReadyNodes, DependenciesSatisfied, DoneIn
  <2>7. UNCHANGED <<Started, Completed, Approved>>
    BY LogKept DEF StartNode
  <2>8. TypeOK'
    BY <2>3, <2>4 DEF StartNode, Go, bounds, TypeOK, PC, Working
  <2>9. (InHand /\ CompletionLogged)'
    BY <2>3, <2>4, <2>5, <2>7 DEF StartNode, Go, bounds, InHand, NodeInHand, Working, CompletionLogged, Logged, DoneIn
  <2>10. (MemoryLogged /\ Dispatched)'
    BY <2>3, <2>4, <2>5, <2>6, <2>7 DEF StartNode, Go, bounds, MemoryLogged, Dispatched, Logged
  <2> QED
    BY <2>8, <2>9, <2>10
<1>5. CASE LogStarted
  <2>1. /\ events' \in Seq(Event) /\ UNCHANGED <<Completed, Approved>>
        /\ cur \in Node /\ Started' = Started \cup {cur}
    BY <1>5, <1>typed, LogOne DEF LogStarted, EventType, InHand, NodeInHand
  <2>2. TypeOK'
    BY <1>5, <2>1 DEF LogStarted, Go, bounds, memory, TypeOK, PC, Working
  <2>3. (InHand /\ CompletionLogged /\ MemoryLogged /\ Dispatched)'
    BY <1>5, <2>1 DEF LogStarted, Go, bounds, memory, InHand, Working, NodeInHand,
       CompletionLogged, MemoryLogged, Dispatched, Logged, DoneIn
  <2> QED
    BY <2>2, <2>3
<1>6. CASE ExecuteOk
  <2>1. /\ events' \in Seq(Event) /\ UNCHANGED <<Started, Completed, Approved>>
        /\ cur \in Node
    BY <1>6, <1>typed, LogOne DEF ExecuteOk, EventType, InHand, NodeInHand
  <2>2. graph \in Graph
    BY <1>6, <1>typed DEF ExecuteOk, InHand, Working
  <2>3. graph' \in Graph /\ graph'.node = [graph.node EXCEPT ![cur] = "verifying"]
    BY <1>6, <2>1, <2>2 DEF ExecuteOk, Graph, NodeStatus
  <2>4. DoneIn(graph') \subseteq DoneIn(graph)
    BY <2>1, <2>2, <2>3 DEF DoneIn, Graph
  <2>5. TypeOK'
    BY <1>6, <2>1, <2>3 DEF ExecuteOk, Go, bounds, TypeOK, PC, Working
  <2>6. (InHand /\ CompletionLogged /\ MemoryLogged /\ Dispatched)'
    BY <1>6, <2>1, <2>2, <2>3, <2>4 DEF ExecuteOk, Go, bounds, InHand, Working, NodeInHand,
       CompletionLogged, MemoryLogged, Dispatched, Logged
  <2> QED
    BY <2>5, <2>6
<1>7. ASSUME FailNode, pc \in {"execute", "verify"} PROVE IndInv'
  <2>1. graph \in Graph /\ cur \in Node
    BY <1>7, <1>typed DEF InHand, Working, NodeInHand
  <2>2. graph' \in Graph /\ graph'.node = [graph.node EXCEPT ![cur] = "failed"]
    BY <1>7, <2>1 DEF FailNode, Graph, NodeStatus, GraphStatus
  <2>3. DoneIn(graph') \subseteq DoneIn(graph) /\ UNCHANGED <<Started, Completed, Approved>>
    BY <1>7, <2>1, <2>2, LogKept DEF FailNode, DoneIn, Graph
  <2>4. TypeOK'
    BY <1>7, <2>2 DEF FailNode, Go, bounds, TypeOK, PC, Working, SessionStatus
  <2>5. (InHand /\ CompletionLogged /\ MemoryLogged /\ Dispatched)'
    BY <1>7, <2>1, <2>2, <2>3 DEF FailNode, Go, bounds, InHand, Working, NodeInHand,
       CompletionLogged, MemoryLogged, Dispatched, Logged
  <2> QED
    BY <2>4, <2>5
<1>8. CASE ExecuteError
  BY <1>7, <1>8 DEF ExecuteError
<1>9. CASE VerifyPassed
  <2>1. /\ events' \in Seq(Event) /\ UNCHANGED <<Started, Approved>>
        /\ cur \in Node /\ Completed' = Completed \cup {cur}
    BY <1>9, <1>typed, LogOne DEF VerifyPassed, EventType, InHand, NodeInHand
  <2>2. graph \in Graph
    BY <1>9, <1>typed DEF VerifyPassed, InHand, Working
  <2>3. graph' \in Graph /\ graph'.node = [graph.node EXCEPT ![cur] = "done"]
    BY <1>9, <2>1, <2>2 DEF VerifyPassed, Graph, NodeStatus
  <2>4. DoneIn(graph') \subseteq DoneIn(graph) \cup {cur}
    BY <2>1, <2>2, <2>3 DEF DoneIn, Graph
  <2>5. TypeOK'
    BY <1>9, <2>1, <2>3 DEF VerifyPassed, Go, bounds, TypeOK, PC, Working
  <2>6. (InHand /\ CompletionLogged /\ MemoryLogged /\ Dispatched)'
    BY <1>9, <2>1, <2>2, <2>3, <2>4 DEF VerifyPassed, Go, bounds, InHand, Working, NodeInHand,
       CompletionLogged, MemoryLogged, Dispatched, Logged
  <2> QED
    BY <2>5, <2>6
<1>10. CASE VerifyRetry
  <2>1. graph \in Graph /\ cur \in Node /\ UNCHANGED <<Started, Completed, Approved>>
    BY <1>10, <1>typed, LogKept DEF VerifyRetry, InHand, Working, NodeInHand
  <2>2. PICK k \in Nat : k = graph.retry[cur] + 1
    BY <2>1 DEF Graph
  <2>3. graph' \in Graph /\ graph'.node = [graph.node EXCEPT ![cur] = "ready"]
    BY <1>10, <2>1, <2>2 DEF VerifyRetry, Graph, NodeStatus
  <2>4. DoneIn(graph') \subseteq DoneIn(graph)
    BY <2>1, <2>3 DEF DoneIn, Graph
  <2>5. TypeOK'
    BY <1>10, <2>3 DEF VerifyRetry, Go, bounds, TypeOK, PC, Working
  <2>6. (InHand /\ CompletionLogged /\ MemoryLogged /\ Dispatched)'
    BY <1>10, <2>1, <2>3, <2>4 DEF VerifyRetry, Go, bounds, InHand, Working, NodeInHand,
       CompletionLogged, MemoryLogged, Dispatched, Logged, DoneIn
  <2> QED
    BY <2>5, <2>6
<1>11. CASE VerifyExhausted
  BY <1>7, <1>11 DEF VerifyExhausted
<1>12. CASE LogRetry
  <2>1. events' \in Seq(Event) /\ UNCHANGED <<Started, Completed, Approved>>
    BY <1>12, <1>typed, LogOne DEF LogRetry, EventType, TypeOK
  <2>2. TypeOK'
    BY <1>12, <2>1 DEF LogRetry, Go, bounds, memory, TypeOK, PC, Working
  <2>3. (InHand /\ CompletionLogged /\ MemoryLogged /\ Dispatched)'
    BY <1>12, <2>1 DEF LogRetry, Go, bounds, memory, InHand, Working, NodeInHand,
       CompletionLogged, MemoryLogged, Dispatched, Logged, DoneIn
  <2> QED
    BY <2>2, <2>3
<1>13. CASE SaveFailed
  <2>1. graph \in Graph /\ UNCHANGED <<Started, Completed, Approved>>
    BY <1>13, <1>typed, LogKept DEF SaveFailed, InHand, Working
  <2>2. TypeOK'
    BY <1>13, <2>1 DEF SaveFailed, Go, bounds, memory, TypeOK, PC, Working
  <2>3. (InHand /\ CompletionLogged /\ MemoryLogged /\ Dispatched)'
    BY <1>13, <2>1 DEF SaveFailed, Go, bounds, memory, InHand, Working, NodeInHand,
       CompletionLogged, MemoryLogged, Dispatched, Logged, DoneIn
  <2> QED
    BY <2>2, <2>3
<1>14. CASE LogFailed
  <2>1. events' \in Seq(Event) /\ UNCHANGED <<Started, Completed, Approved>>
    BY <1>14, <1>typed, LogOther DEF LogFailed, EventType, TypeOK
  <2>2. TypeOK'
    BY <1>14, <2>1 DEF LogFailed, Return, Go, bounds, TypeOK, PC, Working
  <2>3. (InHand /\ CompletionLogged /\ MemoryLogged /\ Dispatched)'
    BY <1>14, <2>1 DEF LogFailed, Return, Go, bounds, InHand, Working, NodeInHand,
       CompletionLogged, MemoryLogged, Dispatched, Logged, DoneIn
  <2> QED
    BY <2>2, <2>3
<1>15. CASE \E n \in Node : PauseAt(n)
  <2> PICK n \in Node : PauseAt(n)
    BY <1>15
  <2> DEFINE g == UpdatePendingNodes(graph)
  <2>1. graph \in Graph /\ UNCHANGED <<Started, Completed, Approved>>
    BY <1>typed, LogKept DEF PauseAt, InHand, Working
  <2>2. g \in Graph /\ DoneIn(g) = DoneIn(graph)
    BY <2>1, UpdatePendingType
  <2>3. graph' = [g EXCEPT !.node[n] = "running", !.status = "paused"]
    BY DEF PauseAt
  <2>4. graph' \in Graph /\ graph'.node = [g.node EXCEPT ![n] = "running"]
    BY <2>2, <2>3 DEF Graph, NodeStatus, GraphStatus
  <2>5. DoneIn(graph') \subseteq DoneIn(graph)
    BY <2>2, <2>4 DEF DoneIn, Graph
  <2>6. TypeOK'
    BY <2>4 DEF PauseAt, Go, bounds, TypeOK, PC, Working, SessionStatus
  <2>7. (InHand /\ CompletionLogged /\ MemoryLogged /\ Dispatched)'
    BY <2>1, <2>4, <2>5 DEF PauseAt, Go, bounds, InHand, Working, NodeInHand,
       CompletionLogged, MemoryLogged, Dispatched, Logged
  <2> QED
    BY <2>6, <2>7
<1>16. CASE SavePaused
  <2>1. graph \in Graph /\ UNCHANGED <<Started, Completed, Approved>>
    BY <1>16, <1>typed, LogKept DEF SavePaused, InHand, Working
  <2>2. TypeOK'
    BY <1>16, <2>1 DEF SavePaused, Go, bounds, memory, TypeOK, PC, Working
  <2>3. (InHand /\ CompletionLogged /\ MemoryLogged /\ Dispatched)'
    BY <1>16, <2>1 DEF SavePaused, Go, bounds, memory, InHand, Working, NodeInHand,
       CompletionLogged, MemoryLogged, Dispatched, Logged, DoneIn
  <2> QED
    BY <2>2, <2>3
<1>17. CASE LogPaused
  <2>1. events' \in Seq(Event) /\ UNCHANGED <<Started, Completed, Approved>>
    BY <1>17, <1>typed, LogOne DEF LogPaused, EventType, TypeOK
  <2>2. TypeOK'
    BY <1>17, <2>1 DEF LogPaused, Return, Go, bounds, memory, TypeOK, PC, Working
  <2>3. (InHand /\ CompletionLogged /\ MemoryLogged /\ Dispatched)'
    BY <1>17, <2>1 DEF LogPaused, Return, Go, bounds, memory, InHand, Working, NodeInHand,
       CompletionLogged, MemoryLogged, Dispatched, Logged, DoneIn
  <2> QED
    BY <2>2, <2>3
<1>18. CASE CompleteGraph
  <2> DEFINE g == UpdatePendingNodes(graph)
  <2>1. graph \in Graph /\ UNCHANGED <<Started, Completed, Approved>>
    BY <1>18, <1>typed, LogKept DEF CompleteGraph, InHand, Working
  <2>2. g \in Graph /\ DoneIn(g) = DoneIn(graph)
    BY <2>1, UpdatePendingType
  <2>3. graph' \in Graph /\ graph'.node = g.node
    BY <1>18, <2>2 DEF CompleteGraph, Graph, GraphStatus
  <2>4. DoneIn(g) = Node
    BY <1>18 DEF CompleteGraph, IsGraphDone, DoneIn
  <2>5. Node \subseteq Logged /\ DoneIn(graph') = DoneIn(graph)
    BY <1>18, <2>1, <2>2, <2>3, <2>4 DEF CompleteGraph, MemoryLogged, DoneIn
  <2>6. TypeOK'
    BY <1>18, <2>3 DEF CompleteGraph, Go, bounds, TypeOK, PC, Working, SessionStatus
  <2>7. (InHand /\ CompletionLogged /\ MemoryLogged /\ Dispatched)'
    BY <1>18, <2>1, <2>3, <2>5 DEF CompleteGraph, Go, bounds, InHand, Working, NodeInHand,
       CompletionLogged, MemoryLogged, Dispatched, Logged
  <2> QED
    BY <2>6, <2>7
<1>19. CASE SaveCompleted
  <2>1. graph \in Graph /\ UNCHANGED <<Started, Completed, Approved>>
    BY <1>19, <1>typed, LogKept DEF SaveCompleted, InHand, Working
  <2>2. TypeOK'
    BY <1>19, <2>1 DEF SaveCompleted, Go, bounds, memory, TypeOK, PC, Working
  <2>3. (InHand /\ CompletionLogged /\ MemoryLogged /\ Dispatched)'
    BY <1>19, <2>1 DEF SaveCompleted, Go, bounds, memory, InHand, Working, NodeInHand,
       CompletionLogged, MemoryLogged, Dispatched, Logged, DoneIn
  <2> QED
    BY <2>2, <2>3
<1>20. CASE LogCompleted
  <2>1. events' \in Seq(Event) /\ UNCHANGED <<Started, Completed, Approved>>
    BY <1>20, <1>typed, LogOne DEF LogCompleted, EventType, TypeOK
  <2>2. TypeOK'
    BY <1>20, <2>1 DEF LogCompleted, Return, Go, bounds, memory, TypeOK, PC, Working
  <2>3. (InHand /\ CompletionLogged /\ MemoryLogged /\ Dispatched)'
    BY <1>20, <2>1 DEF LogCompleted, Return, Go, bounds, memory, InHand, Working, NodeInHand,
       CompletionLogged, MemoryLogged, Dispatched, Logged, DoneIn
  <2> QED
    BY <2>2, <2>3
<1>21. CASE TickStops
  <2>1. graph \in Graph /\ UNCHANGED <<Started, Completed, Approved>>
    BY <1>21, <1>typed, LogKept DEF TickStops, durable, InHand, Working
  <2>2. graph' \in Graph /\ DoneIn(graph') = DoneIn(graph)
    BY <1>21, <2>1, UpdatePendingType DEF TickStops
  <2>3. TypeOK'
    BY <1>21, <2>2 DEF TickStops, Return, Go, bounds, durable, TypeOK, PC, Working
  <2>4. (InHand /\ CompletionLogged /\ MemoryLogged /\ Dispatched)'
    BY <1>21, <2>1, <2>2 DEF TickStops, Return, Go, bounds, durable, InHand, Working, NodeInHand,
       CompletionLogged, MemoryLogged, Dispatched, Logged
  <2> QED
    BY <2>3, <2>4
<1>22. CASE SaveOnReturn
  <2>1. graph \in Graph /\ UNCHANGED <<Started, Completed, Approved>>
    BY <1>22, <1>typed, LogKept DEF SaveOnReturn, InHand, Working
  <2>2. TypeOK'
    BY <1>22, <2>1 DEF SaveOnReturn, Go, bounds, memory, TypeOK, PC, Working
  <2>3. (InHand /\ CompletionLogged /\ MemoryLogged /\ Dispatched)'
    BY <1>22, <2>1 DEF SaveOnReturn, Go, bounds, memory, InHand, Working, NodeInHand,
       CompletionLogged, MemoryLogged, Dispatched, Logged, DoneIn
  <2> QED
    BY <2>2, <2>3
<1>23. CASE \E c \in ClientCommand : Send(c)
  <2> PICK c \in ClientCommand : Send(c)
    BY <1>23
  <2>1. c \in Command /\ UNCHANGED <<Started, Completed, Approved>>
    BY ConstantsAssumption, LogKept DEF Send, durable
  <2>2. TypeOK'
    BY <2>1 DEF Send, durable, TypeOK
  <2>3. (InHand /\ CompletionLogged /\ MemoryLogged /\ Dispatched)'
    BY <2>1 DEF Send, durable, InHand, Working, NodeInHand,
       CompletionLogged, MemoryLogged, Dispatched, Logged, DoneIn
  <2> QED
    BY <2>2, <2>3
<1>24. ASSUME NEW kind \in {"resume", "retry", "approve"}, Receive(kind)
       PROVE  /\ graph \in Graph /\ UNCHANGED <<Started, Completed, Approved>>
              /\ queue' \in Seq(Command) /\ cur' = Head(queue).node
              /\ cur' \in Node \cup {NoNode} /\ (kind # "resume" => cur' \in Node)
              /\ DoneIn(graph) \subseteq Logged
  <2>1. Head(queue) \in Command /\ Tail(queue) \in Seq(Command)
    BY <1>24 DEF Receive, TypeOK
  <2>2. Head(queue).node \in Node \cup {NoNode} /\ (kind # "resume" => Head(queue).node \in Node)
    BY <1>24, <2>1 DEF Receive, Command
  <2>3. graph \in Graph /\ UNCHANGED <<Started, Completed, Approved>>
    BY <1>24, <1>typed, LogKept DEF Receive, InHand
  <2>4. DoneIn(graph) \subseteq Logged
    BY <1>24, <2>3 DEF Receive, MemoryLogged
  <2> QED
    BY <1>24, <2>1, <2>2, <2>3, <2>4 DEF Receive
<1>25. CASE HandleResume
  <2>1. Receive("resume")
    BY <1>25 DEF HandleResume
  <2>2. /\ graph \in Graph /\ UNCHANGED <<Started, Completed, Approved>>
        /\ queue' \in Seq(Command) /\ cur' = Head(queue).node
        /\ cur' \in Node \cup {NoNode}
        /\ DoneIn(graph) \subseteq Logged
    BY <2>1, <1>24
  <2>3. graph' \in Graph /\ graph'.node = graph.node
    BY <1>25, <2>2 DEF HandleResume, Graph, NodeStatus, GraphStatus
  <2>4. DoneIn(graph') = DoneIn(graph)
    BY <2>2, <2>3 DEF DoneIn, Graph
  <2>5. TypeOK'
    BY <1>25, <2>1, <2>2, <2>3 DEF HandleResume, Receive, Go, bounds, TypeOK, PC, Working, SessionStatus
  <2>6. (InHand /\ CompletionLogged /\ MemoryLogged /\ Dispatched)'
    BY <1>25, <2>1, <2>2, <2>3, <2>4 DEF HandleResume, Receive, Go, bounds, InHand, Working, NodeInHand,
       CompletionLogged, MemoryLogged, Dispatched, Logged
  <2> QED
    BY <2>5, <2>6
<1>26. CASE HandleRetryNode
  <2>1. Receive("retry")
    BY <1>26 DEF HandleRetryNode
  <2>2. /\ graph \in Graph /\ UNCHANGED <<Started, Completed, Approved>>
        /\ queue' \in Seq(Command) /\ cur' = Head(queue).node
        /\ cur' \in Node
        /\ DoneIn(graph) \subseteq Logged
    BY <2>1, <1>24
  <2>3. graph' \in Graph /\ graph'.node = [graph.node EXCEPT ![cur'] = "ready"]
    BY <1>26, <2>2 DEF HandleRetryNode, Graph, NodeStatus, GraphStatus
  <2>4. DoneIn(graph') \subseteq DoneIn(graph)
    BY <2>2, <2>3 DEF DoneIn, Graph
  <2>5. TypeOK'
    BY <1>26, <2>1, <2>2, <2>3 DEF HandleRetryNode, Receive, Go, bounds, TypeOK, PC, Working, SessionStatus
  <2>6. (InHand /\ CompletionLogged /\ MemoryLogged /\ Dispatched)'
    BY <1>26, <2>1, <2>2, <2>3, <2>4 DEF HandleRetryNode, Receive, Go, bounds, InHand, Working, NodeInHand,
       CompletionLogged, MemoryLogged, Dispatched, Logged
  <2> QED
    BY <2>5, <2>6
<1>27. CASE HandleApproveCheckpoint
  <2>1. Receive("approve")
    BY <1>27 DEF HandleApproveCheckpoint
  <2>2. /\ graph \in Graph /\ UNCHANGED <<Started, Completed, Approved>>
        /\ queue' \in Seq(Command) /\ cur' = Head(queue).node
        /\ cur' \in Node
        /\ DoneIn(graph) \subseteq Logged
    BY <2>1, <1>24
  <2>3. graph' \in Graph /\ graph'.node = [graph.node EXCEPT ![cur'] = "done"]
    BY <1>27, <2>2 DEF HandleApproveCheckpoint, Graph, NodeStatus, GraphStatus
  <2>4. DoneIn(graph') \subseteq DoneIn(graph) \cup {cur'}
    BY <2>2, <2>3 DEF DoneIn, Graph
  <2>5. TypeOK'
    BY <1>27, <2>1, <2>2, <2>3 DEF HandleApproveCheckpoint, Receive, Go, bounds, TypeOK, PC, Working, SessionStatus
  <2>6. (InHand /\ CompletionLogged /\ MemoryLogged /\ Dispatched)'
    BY <1>27, <2>1, <2>2, <2>3, <2>4 DEF HandleApproveCheckpoint, Receive, Go, bounds, InHand, Working, NodeInHand,
       CompletionLogged, MemoryLogged, Dispatched, Logged
  <2> QED
    BY <2>5, <2>6
<1>28. CASE LogCommand
  <2>1. /\ events' \in Seq(Event) /\ UNCHANGED <<Started, Completed>>
        /\ Approved \subseteq Approved'
        /\ pc = "command_log_approve" => cur \in Approved'
    <3>1. CASE pc = "command_log_resume"
      BY <1>28, <3>1, <1>typed, LogOne DEF LogCommand, EventType
    <3>2. CASE pc = "command_log_retry"
      BY <1>28, <3>2, <1>typed, LogOne DEF LogCommand, EventType, InHand, NodeInHand
    <3>3. CASE pc = "command_log_approve"
      BY <1>28, <3>3, <1>typed, LogOne DEF LogCommand, EventType, InHand, NodeInHand
    <3> QED
      BY <1>28, <3>1, <3>2, <3>3 DEF LogCommand
  <2>2. TypeOK'
    BY <1>28, <2>1 DEF LogCommand, Go, bounds, memory, TypeOK, PC, Working
  <2>3. (InHand /\ CompletionLogged /\ MemoryLogged /\ Dispatched)'
    BY <1>28, <2>1 DEF LogCommand, Go, bounds, memory, InHand, Working, NodeInHand,
       CompletionLogged, MemoryLogged, Dispatched, Logged, DoneIn
  <2> QED
    BY <2>2, <2>3
<1>29. CASE Fault
  <2>1. UNCHANGED <<Started, Completed, Approved>> /\ queue' \in Seq(Command)
    BY <1>29, LogKept DEF Fault, durable, TypeOK
  <2>2. TypeOK'
    BY <1>29, <2>1 DEF Fault, durable, TypeOK, PC
  <2>3. (InHand /\ CompletionLogged /\ MemoryLogged /\ Dispatched)'
    BY <1>29, <2>1 DEF Fault, durable, InHand, Working, NodeInHand,
       CompletionLogged, MemoryLogged, Dispatched, Logged, DoneIn
  <2> QED
    BY <2>2, <2>3
<1>30. CASE Crash
  <2>1. UNCHANGED <<Started, Completed, Approved>>
    BY <1>30, LogKept DEF Crash, durable
  <2>2. TypeOK'
    BY <1>30 DEF Crash, durable, TypeOK, PC
  <2>3. (InHand /\ CompletionLogged /\ MemoryLogged /\ Dispatched)'
    BY <1>30, <2>1 DEF Crash, durable, InHand, Working, NodeInHand,
       CompletionLogged, MemoryLogged, Dispatched, Logged, DoneIn
  <2> QED
    BY <2>2, <2>3
<1>31. CASE Restart
  <2>1. UNCHANGED <<Started, Completed, Approved>>
    BY <1>31, LogKept DEF Restart
  <2>2. CASE ShouldRecover(sess) /\ snap # NoGraph
    <3>1. graph' \in Graph /\ DoneIn(graph') = DoneIn(snap) /\ DoneIn(snap) \subseteq Logged
      BY <1>31, <2>2, <1>typed, NormalizeType DEF Restart, TypeOK, CompletionLogged, DoneIn
    <3>2. TypeOK'
      BY <1>31, <2>2, <3>1 DEF Restart, Go, bounds, TypeOK, PC, Working
    <3>3. (InHand /\ CompletionLogged /\ MemoryLogged /\ Dispatched)'
      BY <1>31, <2>1, <2>2, <3>1 DEF Restart, Go, bounds, InHand, Working, NodeInHand,
       CompletionLogged, MemoryLogged, Dispatched, Logged, DoneIn
    <3> QED
      BY <3>2, <3>3
  <2>3. CASE ~(ShouldRecover(sess) /\ snap # NoGraph)
    BY <1>31, <2>1, <2>3 DEF Restart, Go, bounds, TypeOK, PC, InHand, Working, NodeInHand,
       CompletionLogged, MemoryLogged, Dispatched, Logged, DoneIn
  <2> QED
    BY <2>2, <2>3
<1>32. CASE UNCHANGED vars
  BY <1>32, LogKept DEF vars, TypeOK, InHand, Working, NodeInHand,
       CompletionLogged, MemoryLogged, Dispatched, Logged, DoneIn
<1> QED
  BY <1>1, <1>2, <1>3, <1>4, <1>5, <1>6, <1>8, <1>9, <1>10, <1>11, <1>12, <1>13, <1>14,
     <1>15, <1>16, <1>17, <1>18, <1>19, <1>20, <1>21, <1>22, <1>23, <1>25, <1>26, <1>27,
     <1>28, <1>29, <1>30, <1>31, <1>32 DEF Next, Actor, Tick

\* In every state the program reaches, the invariant the theorems rest on holds.
THEOREM Invariance == Spec => []IndInv
<1>1. Init => IndInv
  BY InitInd
<1>2. IndInv /\ [Next]_vars => IndInv'
  BY StepInd
<1> QED
  BY <1>1, <1>2, PTL DEF Spec

\* Every variable keeps its type: in particular no fault or crash, and no
\* command a client may send, takes a node or the graph to a status the Go code
\* does not assign.
THEOREM TypeCorrect == Spec => []TypeOK
BY Invariance, PTL DEF IndInv

\* Whatever is lost in crashes and failing calls, a node the snapshot calls done
\* and every node of a session recorded as done has its completion or its
\* approval in the event log.
THEOREM CompletionIsLogged == Spec => []CompletionLogged
BY Invariance, PTL DEF IndInv

-----------------------------------------------------------------------------
(* Refinement                                                                *)

\* Steps that append nothing and leave the session done or not done.
LEMMA Stutter ==
  ASSUME UNCHANGED <<Started, Completed, Approved>>, (sess' = "done") <=> (sess = "done")
  PROVE  UNCHANGED Dag!vars
BY DEF Dag!vars

\* Steps that append nothing and may take a finished session up again.
LEMMA MayReopen ==
  ASSUME UNCHANGED <<Started, Completed, Approved>>, sess' # "done"
  PROVE  [Dag!Next]_Dag!vars
<1>1. CASE sess = "done"
  BY <1>1 DEF Dag!Next, Dag!Reopen
<1>2. CASE sess # "done"
  BY <1>2, Stutter
<1> QED
  BY <1>1, <1>2

LEMMA StepRefines == IndInv /\ IndInv' /\ [Next]_vars => [Dag!Next]_Dag!vars
<1> SUFFICES ASSUME IndInv, IndInv', [Next]_vars PROVE [Dag!Next]_Dag!vars
  OBVIOUS
<1>typed. events \in Seq(Event) /\ cur \in Node \cup {NoNode}
  BY DEF IndInv, TypeOK
<1>1. ASSUME UNCHANGED events, sess' # "done" PROVE [Dag!Next]_Dag!vars
  BY <1>1, LogKept, MayReopen
<1>2. ASSUME UNCHANGED <<events, sess>> PROVE [Dag!Next]_Dag!vars
  BY <1>2, LogKept, Stutter
<1>3. ASSUME UNCHANGED <<Started, Completed, Approved, sess>> PROVE [Dag!Next]_Dag!vars
  BY <1>3, Stutter
\* Steps that append nothing.
<1>4. CASE StartRun \/ ExecuteError \/ VerifyExhausted \/ \E n \in Node : PauseAt(n)
  BY <1>4, <1>1 DEF StartRun, ExecuteError, VerifyExhausted, FailNode, PauseAt
<1>5. CASE HandleResume \/ HandleRetryNode \/ HandleApproveCheckpoint
  BY <1>5, <1>1 DEF HandleResume, HandleRetryNode, HandleApproveCheckpoint, Receive
<1>6. CASE BuildGraph \/ VerifyRetry \/ TickStops \/ SaveOnReturn \/ SaveFailed \/ SavePaused
           \/ SaveCompleted \/ (\E n \in Node : StartNode(n)) \/ (\E c \in ClientCommand : Send(c))
  BY <1>6, <1>2 DEF BuildGraph, VerifyRetry, TickStops, SaveOnReturn, SaveFailed, SavePaused,
     SaveCompleted, StartNode, Send, durable
<1>7. CASE Fault \/ Crash \/ Restart \/ UNCHANGED vars
  BY <1>7, <1>2 DEF Fault, Crash, Restart, vars, durable
<1>8. CASE CompleteGraph
  <2>1. UNCHANGED <<Started, Completed, Approved>> /\ sess' = "done"
    BY <1>8, LogKept DEF CompleteGraph
  <2>2. Node \subseteq Logged
    BY <2>1 DEF IndInv, CompletionLogged, Logged
  <2> QED
    BY <2>1, <2>2 DEF Dag!Next, Dag!Finish, Dag!Closed, Logged
\* Steps that append events.
<1>9. CASE LogStarted
  <2>1. cur \in Node /\ DependsOn[cur] \subseteq Logged
    BY <1>9 DEF LogStarted, IndInv, InHand, NodeInHand, Dispatched
  <2>2. Started' = Started \cup {cur} /\ UNCHANGED <<Completed, Approved, sess>>
    BY <1>9, <1>typed, <2>1, LogOne DEF LogStarted, EventType
  <2>3. Dag!Start(cur)
    BY <2>1, <2>2 DEF Dag!Start, Dag!Closed, Logged
  <2> QED
    BY <2>1, <2>3 DEF Dag!Next
<1>10. CASE VerifyPassed
  <2>1. cur \in Node /\ cur \in Started
    BY <1>10 DEF VerifyPassed, IndInv, InHand, NodeInHand, Dispatched
  <2>2. Completed' = Completed \cup {cur} /\ UNCHANGED <<Started, Approved, sess>>
    BY <1>10, <1>typed, <2>1, LogOne DEF VerifyPassed, EventType
  <2>3. Dag!Complete(cur)
    BY <2>1, <2>2 DEF Dag!Complete
  <2> QED
    BY <2>1, <2>3 DEF Dag!Next
<1>11. CASE LogCommand
  <2>1. CASE pc = "command_log_approve"
    <3>1. cur \in Node
      BY <2>1 DEF IndInv, InHand, NodeInHand
    <3>2. Approved' = Approved \cup {cur} /\ UNCHANGED <<Started, Completed, sess>>
      BY <1>11, <1>typed, <2>1, <3>1, LogOne DEF LogCommand, EventType
    <3>3. Dag!Approve(cur)
      BY <3>2 DEF Dag!Approve
    <3> QED
      BY <3>1, <3>3 DEF Dag!Next
  <2>2. CASE pc = "command_log_resume"
    BY <1>11, <1>3, <1>typed, <2>2, LogOne DEF LogCommand, EventType
  <2>3. CASE pc = "command_log_retry"
    BY <1>11, <1>3, <1>typed, <2>3, LogOne DEF LogCommand, EventType
  <2> QED
    BY <1>11, <2>1, <2>2, <2>3 DEF LogCommand
<1>12. CASE ExecuteOk \/ LogRetry \/ LogPaused \/ LogCompleted
  <2>1. PICK u \in {"node_verifying", "node_retry", "graph_paused", "graph_completed"},
             m \in Node \cup {NoNode} : Log(<<Ev(u, m)>>)
    BY <1>12, <1>typed DEF ExecuteOk, LogRetry, LogPaused, LogCompleted
  <2>2. UNCHANGED <<Started, Completed, Approved>>
    BY <1>typed, <2>1, LogOne DEF EventType
  <2> QED
    BY <1>12, <1>3, <2>2 DEF ExecuteOk, LogRetry, LogPaused, LogCompleted
<1>13. CASE LogCreated \/ LogFailed
  <2>1. UNCHANGED <<Started, Completed, Approved>>
    BY <1>13, <1>typed, LogOther DEF LogCreated, LogFailed, EventType
  <2> QED
    BY <1>13, <1>3, <2>1 DEF LogCreated, LogFailed
<1> QED
  BY <1>4, <1>5, <1>6, <1>7, <1>8, <1>9, <1>10, <1>11, <1>12, <1>13 DEF Next, Actor, Tick

\* The runtime implements DagRun for every graph and every number of commands,
\* crashes and faults: no node is started before its dependencies are in the
\* event log, and no session is recorded as done with a node still open.
THEOREM Refinement == Spec => ImplementsDagRun
<1>1. Init => Dag!Init
  BY DEF Init, Dag!Init, Started, Completed, Approved, Recorded
<1>2. IndInv /\ IndInv' /\ [Next]_vars => [Dag!Next]_Dag!vars
  BY StepRefines
<1> QED
  BY <1>1, <1>2, Invariance, PTL DEF Spec, ImplementsDagRun, Dag!Spec

-----------------------------------------------------------------------------
(* Retries and requests in the event log                                     *)

RetriesLogged(n) == {i \in 1..Len(events) : events[i] = Ev("node_retry", n)}

\* A retry of the node was asked for after its last completion.
Requested(n) ==
  \E i \in 1..Len(events) :
    /\ events[i] = Ev("retry_command", n)
    /\ \A j \in i..Len(events) :
         events[j] \notin {Ev("node_completed", n), Ev("checkpoint_approved", n)}

LEMMA OneEvent ==
  ASSUME events \in Seq(Event), NEW u \in EventType, NEW m \in Node \cup {NoNode},
         Log(<<Ev(u, m)>>), NEW n \in Node
  PROVE  /\ RetriesLogged(n)' = RetriesLogged(n) \cup
                 (IF u = "node_retry" /\ m = n THEN {Len(events) + 1} ELSE {})
         /\ Requested(n) /\ ~(u \in {"node_completed", "checkpoint_approved"} /\ m = n)
              => Requested(n)'
         /\ u = "retry_command" /\ m = n => Requested(n)'
<1>1. /\ Len(events) \in Nat /\ Len(events') = Len(events) + 1
      /\ \A i \in 1..Len(events) : events'[i] = events[i]
      /\ events'[Len(events) + 1] = Ev(u, m)
  <2>1. Ev(u, m) \in Event /\ events' = events \o <<Ev(u, m)>>
    BY DEF Ev, Event, Log
  <2> QED
    BY <2>1
<1>2. \A t : Ev(t, n) = Ev(u, m) <=> t = u /\ m = n
  BY DEF Ev
<1>3. RetriesLogged(n)' = RetriesLogged(n) \cup
                 (IF u = "node_retry" /\ m = n THEN {Len(events) + 1} ELSE {})
  BY <1>1, <1>2 DEF RetriesLogged
<1>4. ASSUME Requested(n), ~(u \in {"node_completed", "checkpoint_approved"} /\ m = n)
      PROVE  Requested(n)'
  <2>1. PICK i \in 1..Len(events) :
          /\ events[i] = Ev("retry_command", n)
          /\ \A j \in i..Len(events) :
               events[j] \notin {Ev("node_completed", n), Ev("checkpoint_approved", n)}
    BY <1>4 DEF Requested
  <2>2. i \in 1..Len(events') /\ events'[i] = Ev("retry_command", n)
    BY <1>1, <2>1
  <2>3. ASSUME NEW j \in i..Len(events')
        PROVE  events'[j] \notin {Ev("node_completed", n), Ev("checkpoint_approved", n)}
    <3>1. CASE j = Len(events) + 1
      BY <1>1, <1>2, <1>4, <3>1
    <3>2. CASE j # Len(events) + 1
      BY <1>1, <2>1, <3>2
    <3> QED
      BY <3>1, <3>2
  <2> QED
    BY <2>2, <2>3 DEF Requested
<1>5. ASSUME u = "retry_command", m = n PROVE Requested(n)'
  <2>1. Len(events) + 1 \in 1..Len(events') /\ events'[Len(events) + 1] = Ev("retry_command", n)
    BY <1>1, <1>5
  <2>2. \A j \in (Len(events) + 1)..Len(events') : j = Len(events) + 1
    BY <1>1
  <2>3. Ev("retry_command", n) \notin {Ev("node_completed", n), Ev("checkpoint_approved", n)}
    BY DEF Ev
  <2> QED
    BY <2>1, <2>2, <2>3 DEF Requested
<1> QED
  BY <1>3, <1>4, <1>5

LEMMA TwoEvents ==
  ASSUME events \in Seq(Event), NEW u \in EventType, NEW v \in EventType,
         NEW m \in Node \cup {NoNode}, NEW k \in Node \cup {NoNode},
         Log(<<Ev(u, m), Ev(v, k)>>), NEW n \in Node,
         {u, v} \cap {"node_retry", "node_completed", "checkpoint_approved"} = {}
  PROVE  RetriesLogged(n)' = RetriesLogged(n) /\ (Requested(n) => Requested(n)')
<1>1. /\ Len(events) \in Nat /\ Len(events') = Len(events) + 2
      /\ \A i \in 1..Len(events) : events'[i] = events[i]
      /\ events'[Len(events) + 1] = Ev(u, m) /\ events'[Len(events) + 2] = Ev(v, k)
  <2>1. Ev(u, m) \in Event /\ Ev(v, k) \in Event /\ events' = events \o <<Ev(u, m), Ev(v, k)>>
    BY DEF Ev, Event, Log
  <2> QED
    BY <2>1
<1>2. \A t \in {"node_retry", "node_completed", "checkpoint_approved"} :
        Ev(t, n) # Ev(u, m) /\ Ev(t, n) # Ev(v, k)
  BY DEF Ev
<1>3. RetriesLogged(n)' = RetriesLogged(n)
  <2>1. \A i \in 1..Len(events') : events'[i] = Ev("node_retry", n) => i \in 1..Len(events)
    BY <1>1, <1>2
  <2> QED
    BY <1>1, <2>1 DEF RetriesLogged
<1>4. ASSUME Requested(n) PROVE Requested(n)'
  <2>1. PICK i \in 1..Len(events) :
          /\ events[i] = Ev("retry_command", n)
          /\ \A j \in i..Len(events) :
               events[j] \notin {Ev("node_completed", n), Ev("checkpoint_approved", n)}
    BY <1>4 DEF Requested
  <2>2. i \in 1..Len(events') /\ events'[i] = Ev("retry_command", n)
    BY <1>1, <2>1
  <2>3. ASSUME NEW j \in i..Len(events')
        PROVE  events'[j] \notin {Ev("node_completed", n), Ev("checkpoint_approved", n)}
    <3>1. CASE j > Len(events)
      BY <1>1, <1>2, <3>1
    <3>2. CASE ~(j > Len(events))
      BY <1>1, <2>1, <3>2
    <3> QED
      BY <3>1, <3>2
  <2> QED
    BY <2>2, <2>3 DEF Requested
<1> QED
  BY <1>3, <1>4

LEMMA RetriesFinite ==
  ASSUME events \in Seq(Event), NEW n \in Node
  PROVE  IsFiniteSet(RetriesLogged(n)) /\ Cardinality(RetriesLogged(n)) \in Nat
<1>1. IsFiniteSet(1..Len(events))
  BY FS_Interval
<1>2. IsFiniteSet(RetriesLogged(n))
  BY <1>1, FS_Subset DEF RetriesLogged
<1> QED
  BY <1>2, FS_CardinalityType

-----------------------------------------------------------------------------
(* The retry budget                                                          *)

\* The retry that is counted and saved, but not logged yet.
Unlogged(n) == IF pc = "retry_log" /\ cur = n THEN 1 ELSE 0

CoveredBy(g) ==
  g # NoGraph => \A n \in Node :
    /\ Cardinality(RetriesLogged(n)) + Unlogged(n) <= g.retry[n]
    /\ g.retry[n] <= MaxRetries[n]

\* Both graphs count at least what the log shows, and nothing is logged before
\* there is a graph: this is what makes RetryAccounting inductive.
Budget ==
  /\ CoveredBy(graph) /\ CoveredBy(snap)
  /\ sess = "none" => pc \in {"absent", "down"} /\ events = <<>>
  /\ pc = "plan" => events = <<>>

LEMMA RetriesOfGraph ==
  ASSUME NEW g \in Graph, NEW s \in SessionStatus
  PROVE  UpdatePendingNodes(g).retry = g.retry /\ NormalizeRecovered(g, s).retry = g.retry
BY DEF UpdatePendingNodes, NormalizeRecovered, Graph

\* Steps that log no retry and let both graphs keep the counts of one of them.
LEMMA BudgetKept ==
  ASSUME IndInv, Budget,
         \A n \in Node : RetriesLogged(n)' = RetriesLogged(n),
         pc' # "retry_log",
         graph' # NoGraph =>
           /\ graph' \in Graph
           /\ \/ graph # NoGraph /\ graph'.retry = graph.retry
              \/ snap # NoGraph /\ graph'.retry = snap.retry,
         snap' \in {snap, graph'},
         sess' = "none" => UNCHANGED <<sess, events>> /\ pc' \in {"absent", "down"},
         pc' = "plan" => events' = <<>>
  PROVE  Budget'
<1>1. \A n \in Node : Cardinality(RetriesLogged(n)) \in Nat /\ MaxRetries[n] \in Nat
  BY RetriesFinite, ConstantsAssumption DEF IndInv, TypeOK
<1>2. \A n \in Node : Unlogged(n) \in {0, 1} /\ Unlogged(n)' = 0
  BY DEF Unlogged
<1>3. /\ graph # NoGraph => \A n \in Node : graph.retry[n] \in Nat
      /\ snap # NoGraph => \A n \in Node : snap.retry[n] \in Nat
  BY DEF IndInv, TypeOK, Graph
<1>4. CoveredBy(graph)'
  BY <1>1, <1>2, <1>3 DEF Budget, CoveredBy
<1>5. CoveredBy(snap)'
  <2>1. CASE snap' = graph'
    BY <1>4, <2>1 DEF CoveredBy
  <2>2. CASE snap' = snap
    BY <1>1, <1>2, <1>3, <2>2 DEF Budget, CoveredBy
  <2> QED
    BY <2>1, <2>2
<1> QED
  BY <1>4, <1>5 DEF Budget

LEMMA BudgetStep == IndInv /\ IndInv' /\ Budget /\ [Next]_vars => Budget'
<1> SUFFICES ASSUME IndInv, IndInv', Budget, [Next]_vars PROVE Budget'
  OBVIOUS
<1>typed. /\ graph # NoGraph => graph \in Graph
          /\ snap # NoGraph => snap \in Graph
          /\ graph' # NoGraph => graph' \in Graph
          /\ events \in Seq(Event) /\ cur \in Node \cup {NoNode} /\ sess \in SessionStatus
  BY DEF IndInv, TypeOK
<1>held. /\ pc \in (Working \ {"plan"}) \cup {"idle"} => graph \in Graph /\ graph # NoGraph
         /\ pc \in NodeInHand => cur \in Node
  BY <1>typed DEF IndInv, InHand
<1>row. pc \in Working \cup {"idle"} => sess # "none"
  BY DEF Budget, Working
<1>same. UNCHANGED events => \A n \in Node : RetriesLogged(n)' = RetriesLogged(n)
  BY DEF RetriesLogged
<1>1. CASE StartRun
  <2>1. events' = <<>> /\ events = <<>> /\ sess' = "running" /\ pc' = "plan"
        /\ graph' = graph /\ snap' = snap
    BY <1>1 DEF StartRun, Budget, Go
  <2> QED
    BY <1>same, <1>typed, <2>1, BudgetKept
<1>2. CASE BuildGraph
  <2>1. /\ events = <<>> /\ events' = <<>> /\ graph' = PlannedGraph /\ UNCHANGED <<snap, sess>>
        /\ sess # "none" /\ pc = "plan" /\ pc' = "created"
    BY <1>2 DEF BuildGraph, Budget, durable, Go
  <2>2. \A n \in Node : Cardinality(RetriesLogged(n)') = 0
    BY <2>1, FS_EmptySet DEF RetriesLogged
  <2>3. \A n \in Node : Unlogged(n)' = 0 /\ Unlogged(n) = 0 /\ RetriesLogged(n)' = RetriesLogged(n)
    BY <1>same, <2>1 DEF Unlogged
  <2>4. CoveredBy(graph)'
    BY <2>1, <2>2, <2>3, ConstantsAssumption DEF CoveredBy, PlannedGraph
  <2>5. CoveredBy(snap)'
    BY <2>1, <2>3 DEF Budget, CoveredBy
  <2> QED
    BY <2>1, <2>4, <2>5 DEF Budget
\* Steps that append other events than retries.
<1>3. CASE LogCreated \/ LogFailed
  <2>1. \A n \in Node : RetriesLogged(n)' = RetriesLogged(n)
    <3>1. PICK u \in {"session_created", "node_failed"}, v \in {"graph_initialized", "graph_failed"},
               m \in Node \cup {NoNode} : Log(<<Ev(u, m), Ev(v, NoNode)>>)
      BY <1>3, <1>typed DEF LogCreated, LogFailed
    <3>2. /\ u \in EventType /\ v \in EventType
          /\ {u, v} \cap {"node_retry", "node_completed", "checkpoint_approved"} = {}
      BY DEF EventType
    <3> QED
      BY <1>typed, <3>1, <3>2, TwoEvents
  <2>2. /\ pc \in {"created", "fail_log"} /\ UNCHANGED <<sess, snap, graph>>
        /\ pc' \in {"tick", "idle", "save"}
    BY <1>3 DEF LogCreated, LogFailed, memory, Go, Return
  <2> QED
    BY <1>typed, <1>held, <1>row, <2>1, <2>2, BudgetKept DEF Working
<1>4. CASE LogStarted \/ ExecuteOk \/ VerifyPassed \/ LogPaused \/ LogCompleted \/ LogCommand
  <2>1. /\ pc \in Working \ {"plan"} /\ UNCHANGED <<sess, snap>>
        /\ pc' \in {"execute", "verify", "tick", "idle", "save"}
    BY <1>4 DEF LogStarted, ExecuteOk, VerifyPassed, LogPaused, LogCompleted, LogCommand,
       Go, Return, Working, memory
  <2>2. PICK u \in EventType \ {"node_retry"}, m \in Node \cup {NoNode} : Log(<<Ev(u, m)>>)
    BY <1>4, <1>typed DEF LogStarted, ExecuteOk, VerifyPassed, LogPaused, LogCompleted, LogCommand,
       EventType
  <2>3. ASSUME NEW n \in Node PROVE RetriesLogged(n)' = RetriesLogged(n)
    <3>1. u \in EventType /\ u # "node_retry"
      BY <2>2
    <3>2. RetriesLogged(n)' = RetriesLogged(n) \cup (IF u = "node_retry" /\ m = n THEN {Len(events) + 1} ELSE {})
      BY <1>typed, <2>2, <3>1, OneEvent
    <3> QED
      BY <3>1, <3>2
  <2>4. graph' \in Graph /\ graph # NoGraph /\ graph'.retry = graph.retry
    <3>1. graph \in Graph /\ graph # NoGraph
      BY <1>held, <2>1
    <3>2. \/ graph' = graph \/ \E x \in NodeStatus : graph' = [graph EXCEPT !.node[cur] = x]
      BY <1>4 DEF LogStarted, ExecuteOk, VerifyPassed, LogPaused, LogCompleted, LogCommand, memory,
         NodeStatus
    <3> QED
      BY <3>1, <3>2 DEF Graph
  <2> QED
    BY <1>row, <2>1, <2>3, <2>4, BudgetKept
\* Steps that append nothing.
<1>5. CASE SaveFailed \/ SavePaused \/ SaveCompleted \/ SaveOnReturn
  <2>1. /\ pc \in Working \ {"plan"} /\ UNCHANGED <<sess, events, graph>> /\ snap' = graph
        /\ pc' \in {"fail_log", "pause_log", "done_log", "idle"}
    BY <1>5 DEF SaveFailed, SavePaused, SaveCompleted, SaveOnReturn, memory, Go, Working
  <2> QED
    BY <1>held, <1>row, <1>same, <2>1, BudgetKept
<1>6. CASE CompleteGraph \/ TickStops \/ \E n \in Node : StartNode(n) \/ PauseAt(n)
  <2> DEFINE g == UpdatePendingNodes(graph)
  <2>1. /\ pc = "tick" /\ UNCHANGED events /\ snap' \in {snap, graph'}
        /\ pc' \in {"started", "pause_save", "done_save", "idle", "save"}
        /\ sess' \in {sess, "paused", "done"}
        /\ \/ graph' = g \/ graph' = [g EXCEPT !.status = "done"]
           \/ \E n \in Node : \/ graph' = [g EXCEPT !.node[n] = "running"]
                              \/ graph' = [g EXCEPT !.node[n] = "running", !.status = "paused"]
    BY <1>6 DEF CompleteGraph, TickStops, StartNode, PauseAt, Go, Return, durable
  <2>2. graph \in Graph /\ graph # NoGraph /\ sess # "none"
    BY <1>held, <1>row, <2>1 DEF Working
  <2>3. g \in Graph /\ g.retry = graph.retry
    BY <2>2, UpdatePendingType, RetriesOfGraph DEF SessionStatus
  <2>4. graph' \in Graph /\ graph'.retry = graph.retry
    <3>1. \A x \in {"done", "paused"} :
            [g EXCEPT !.status = x] \in Graph /\ [g EXCEPT !.status = x].retry = g.retry
      BY <2>3 DEF Graph, GraphStatus
    <3>2. \A n \in Node : LET h == [g EXCEPT !.node[n] = "running"]
                         IN  h \in Graph /\ h.retry = g.retry
      BY <2>3 DEF Graph, NodeStatus
    <3>3. \A n \in Node : LET h == [g EXCEPT !.node[n] = "running", !.status = "paused"]
                         IN  h \in Graph /\ h.retry = g.retry
      BY <2>3 DEF Graph, NodeStatus, GraphStatus
    <3>4. CASE graph' = g \/ graph' = [g EXCEPT !.status = "done"]
      BY <2>3, <3>1, <3>4
    <3>5. CASE \E n \in Node : graph' = [g EXCEPT !.node[n] = "running"]
      BY <2>3, <3>2, <3>5
    <3>6. CASE \E n \in Node : graph' = [g EXCEPT !.node[n] = "running", !.status = "paused"]
      BY <2>3, <3>3, <3>6
    <3> QED
      BY <2>1, <3>4, <3>5, <3>6
  <2> QED
    BY <1>same, <2>1, <2>2, <2>4, BudgetKept
<1>7. CASE ExecuteError \/ VerifyExhausted
  <2>1. /\ pc \in {"execute", "verify"} /\ UNCHANGED <<events, snap>> /\ pc' = "fail_save"
        /\ sess' = "failed" /\ graph' = [graph EXCEPT !.node[cur] = "failed", !.status = "failed"]
    BY <1>7 DEF ExecuteError, VerifyExhausted, FailNode, Go
  <2>2. graph \in Graph /\ graph # NoGraph /\ cur \in Node
    BY <1>held, <2>1 DEF Working, NodeInHand
  <2>3. graph' \in Graph /\ graph'.retry = graph.retry
    BY <2>1, <2>2 DEF Graph, NodeStatus, GraphStatus
  <2> QED
    BY <1>same, <2>1, <2>2, <2>3, BudgetKept
<1>8. CASE HandleResume \/ HandleRetryNode \/ HandleApproveCheckpoint
  <2>1. /\ pc = "idle" /\ UNCHANGED <<events, snap>> /\ sess' = "running"
        /\ pc' \in {"command_log_resume", "command_log_retry", "command_log_approve"}
        /\ \/ graph' = [graph EXCEPT !.status = "running"]
           \/ \E x : graph' = [graph EXCEPT !.node[Head(queue).node] = x, !.status = "running"]
    BY <1>8 DEF HandleResume, HandleRetryNode, HandleApproveCheckpoint, Receive, Go
  <2>2. graph \in Graph /\ graph # NoGraph
    BY <1>held, <2>1
  <2>3. graph'.retry = graph.retry /\ graph' \in Graph
    <3>1. pc' \in (Working \ {"plan"})
      BY <2>1 DEF Working
    <3>2. graph' \in Graph
      BY <1>typed, <3>1 DEF IndInv, InHand
    <3> QED
      BY <2>1, <2>2, <3>2 DEF Graph
  <2> QED
    BY <1>same, <2>1, <2>2, <2>3, BudgetKept
<1>9. CASE Fault \/ Crash
  <2>1. /\ UNCHANGED <<events, sess, snap>> /\ graph' = NoGraph /\ pc' \in {"absent", "dead", "down"}
        /\ sess = "none" => pc' = "down"
    BY <1>9, <1>row DEF Fault, Crash, durable
  <2> QED
    BY <1>same, <2>1, BudgetKept
<1>10. CASE Restart
  <2>1. UNCHANGED <<events, sess>> /\ pc' \in {"tick", "idle", "absent"}
    BY <1>10 DEF Restart, Go
  <2>2. CASE ShouldRecover(sess) /\ snap # NoGraph
    <3>1. graph' = NormalizeRecovered(snap, sess) /\ snap' = graph' /\ sess # "none"
      BY <1>10, <2>2 DEF Restart, ShouldRecover
    <3>2. graph' \in Graph /\ graph'.retry = snap.retry
      BY <1>typed, <2>2, <3>1, NormalizeType, RetriesOfGraph
    <3> QED
      BY <1>same, <2>1, <2>2, <3>1, <3>2, BudgetKept
  <2>3. CASE ~(ShouldRecover(sess) /\ snap # NoGraph)
    <3>1. pc' = "absent" /\ UNCHANGED <<snap, graph>>
      BY <1>10, <2>3 DEF Restart, Go
    <3> QED
      BY <1>same, <1>typed, <2>1, <3>1, BudgetKept
  <2> QED
    BY <2>2, <2>3
<1>11. CASE UNCHANGED vars \/ \E c \in ClientCommand : Send(c)
  BY <1>11, <1>same DEF vars, Send, durable, Budget, CoveredBy, Unlogged
\* The retry itself: it is counted and saved, and then logged.
<1>12. CASE VerifyRetry
  <2>1. graph \in Graph /\ graph # NoGraph /\ cur \in Node /\ pc = "verify" /\ sess # "none"
    BY <1>12, <1>held, <1>row DEF VerifyRetry, Working, NodeInHand
  <2>2. /\ graph' = [graph EXCEPT !.node[cur] = "ready", !.retry[cur] = @ + 1] /\ snap' = graph'
        /\ graph.retry[cur] < MaxRetries[cur] /\ pc' = "retry_log" /\ UNCHANGED <<sess, events, cur>>
    BY <1>12 DEF VerifyRetry, Go
  <2>3. \A n \in Node : graph'.retry[n] = IF n = cur THEN graph.retry[n] + 1 ELSE graph.retry[n]
    BY <2>1, <2>2 DEF Graph
  <2>4. CoveredBy(graph)'
    <3> SUFFICES ASSUME NEW n \in Node
                 PROVE  /\ Cardinality(RetriesLogged(n)') + Unlogged(n)' <= graph'.retry[n]
                        /\ graph'.retry[n] <= MaxRetries[n]
      BY DEF CoveredBy
    <3>1. Unlogged(n) = 0 /\ Unlogged(n)' = IF n = cur THEN 1 ELSE 0
      BY <2>1, <2>2 DEF Unlogged
    <3>2. RetriesLogged(n)' = RetriesLogged(n) /\ Cardinality(RetriesLogged(n)) \in Nat
      BY <1>same, <1>typed, <2>2, RetriesFinite
    <3>3. MaxRetries[n] \in Nat /\ graph.retry[n] \in Nat
      BY <2>1, ConstantsAssumption DEF Graph
    <3>4. Cardinality(RetriesLogged(n)) + Unlogged(n) <= graph.retry[n] /\ graph.retry[n] <= MaxRetries[n]
      BY <2>1 DEF Budget, CoveredBy
    <3> QED
      BY <2>2, <2>3, <3>1, <3>2, <3>3, <3>4
  <2> QED
    BY <2>1, <2>2, <2>4 DEF Budget, CoveredBy
<1>13. CASE LogRetry
  <2>1. /\ pc = "retry_log" /\ pc' = "tick" /\ UNCHANGED <<sess, snap, graph>>
        /\ cur \in Node /\ sess # "none" /\ Log(<<Ev("node_retry", cur)>>)
    BY <1>13, <1>held, <1>row DEF LogRetry, Go, memory, Working, NodeInHand
  <2>2. \A n \in Node : RetriesLogged(n)' = RetriesLogged(n) \cup
                                              (IF cur = n THEN {Len(events) + 1} ELSE {})
    BY <1>typed, <2>1, OneEvent DEF EventType
  <2>3. \A n \in Node : /\ Cardinality(RetriesLogged(n)) \in Nat /\ Cardinality(RetriesLogged(n)') \in Nat
                         /\ Cardinality(RetriesLogged(n)') <= Cardinality(RetriesLogged(n)) + Unlogged(n)
    <3> TAKE n \in Node
    <3>1. IsFiniteSet(RetriesLogged(n)) /\ Cardinality(RetriesLogged(n)) \in Nat
      BY <1>typed, RetriesFinite
    <3>2. CASE cur = n
      <4>1. RetriesLogged(n)' = RetriesLogged(n) \cup {Len(events) + 1} /\ Unlogged(n) = 1
        BY <2>1, <2>2, <3>2 DEF Unlogged
      <4>2. \/ Cardinality(RetriesLogged(n) \cup {Len(events) + 1}) = Cardinality(RetriesLogged(n))
            \/ Cardinality(RetriesLogged(n) \cup {Len(events) + 1}) = Cardinality(RetriesLogged(n)) + 1
        BY <3>1, FS_AddElement
      <4> QED
        BY <3>1, <4>1, <4>2
    <3>3. CASE cur # n
      <4>1. RetriesLogged(n)' = RetriesLogged(n) /\ Unlogged(n) = 0
        BY <2>2, <3>3 DEF Unlogged
      <4> QED
        BY <3>1, <4>1
    <3> QED
      BY <3>2, <3>3
  <2>4. /\ \A n \in Node : Unlogged(n)' = 0 /\ Unlogged(n) \in {0, 1}
        /\ graph # NoGraph => \A n \in Node : graph.retry[n] \in Nat
        /\ snap # NoGraph => \A n \in Node : snap.retry[n] \in Nat
    BY <1>typed, <2>1 DEF Unlogged, Graph
  <2>5. (CoveredBy(graph) /\ CoveredBy(snap))'
    BY <2>1, <2>3, <2>4 DEF Budget, CoveredBy
  <2> QED
    BY <2>1, <2>5 DEF Budget
<1> QED
  BY <1>1, <1>2, <1>3, <1>4, <1>5, <1>6, <1>7, <1>8, <1>9, <1>10, <1>11, <1>12, <1>13
     DEF Next, Actor, Tick

\* However often the process crashes or a call fails, the retries of a node seen
\* in the log never exceed the count a recovery starts from, nor the limit.
THEOREM RetriesAccounted == Spec => []RetryAccounting
<1>1. Init => Budget
  BY DEF Init, Budget, CoveredBy
<1>2. IndInv /\ IndInv' /\ Budget /\ [Next]_vars => Budget'
  BY BudgetStep
<1>3. IndInv /\ Budget => RetryAccounting
  <2> SUFFICES ASSUME IndInv, Budget, snap # NoGraph, NEW n \in Node
               PROVE  Cardinality(RetriesLogged(n)) <= snap.retry[n] /\ snap.retry[n] <= MaxRetries[n]
    BY DEF RetryAccounting, RetriesLogged
  <2>1. Cardinality(RetriesLogged(n)) \in Nat /\ snap.retry[n] \in Nat /\ Unlogged(n) \in {0, 1}
    BY RetriesFinite DEF IndInv, TypeOK, Graph, Unlogged
  <2> QED
    BY <2>1 DEF Budget, CoveredBy
<1> QED
  BY <1>1, <1>2, <1>3, Invariance, PTL DEF Spec
-----------------------------------------------------------------------------
(* Work that is done again                                                   *)

\* Where the snapshot is to lose a completion the graph in memory has lost it
\* already, and a retry of the node is in the log, or is logged next.
Asked ==
  /\ snap # NoGraph /\ graph # NoGraph => \A n \in Node :
       snap.node[n] = "done" /\ graph.node[n] # "done" =>
         Requested(n) \/ (pc = "command_log_retry" /\ cur = n)
  /\ pc \in {"started", "execute", "verify"} => graph.node[cur] # "done"
  /\ pc = "command_log_approve" => graph.node[cur] = "done"
  /\ sess = "none" \/ pc = "plan" => snap = NoGraph

\* RerunOnlyOnRequest of one step.
RerunRequested ==
  \A n \in Node :
    (snap # NoGraph /\ snap' # NoGraph /\ snap.node[n] = "done" /\ snap'.node[n] # "done")
      => Requested(n)

\* The step takes no completion in memory back.
KeepsDone == \A n \in Node : graph'.node[n] # "done" => graph.node[n] # "done"

\* Steps that leave the snapshot alone.
LEMMA MemoryOnly ==
  ASSUME Asked, snap' = snap, sess' = sess \/ sess' # "none", graph # NoGraph, KeepsDone,
         pc # "command_log_retry", pc' \notin {"started", "execute", "verify", "command_log_approve", "plan"},
         \A n \in Node : Requested(n) => Requested(n)'
  PROVE  Asked' /\ RerunRequested
BY DEF Asked, RerunRequested, KeepsDone

\* Steps that save the graph.
LEMMA GraphSaved ==
  ASSUME Asked, graph # NoGraph, graph' # NoGraph, snap' = graph', KeepsDone,
         pc # "command_log_retry", pc' \notin {"execute", "verify", "command_log_approve", "plan"},
         pc' = "started" => graph'.node[cur'] # "done",
         sess' # "none"
  PROVE  Asked' /\ RerunRequested
BY DEF Asked, RerunRequested, KeepsDone

LEMMA AskedStep == IndInv /\ IndInv' /\ Budget /\ Asked /\ [Next]_vars => Asked' /\ RerunRequested
<1> SUFFICES ASSUME IndInv, IndInv', Budget, Asked, [Next]_vars PROVE Asked' /\ RerunRequested
  OBVIOUS
<1>typed. /\ graph # NoGraph => graph \in Graph
          /\ snap # NoGraph => snap \in Graph
          /\ graph' # NoGraph => graph' \in Graph
          /\ events \in Seq(Event) /\ cur \in Node \cup {NoNode} /\ sess \in SessionStatus
  BY DEF IndInv, TypeOK
<1>held. /\ pc \in (Working \ {"plan"}) \cup {"idle"} => graph \in Graph /\ graph # NoGraph
         /\ pc \in NodeInHand => cur \in Node
  BY <1>typed DEF IndInv, InHand
<1>next. pc' \in (Working \ {"plan"}) \cup {"idle"} => graph' # NoGraph
  BY DEF IndInv, InHand
<1>row. pc \in Working \cup {"idle"} => sess # "none"
  BY DEF Budget, Working
<1>same. UNCHANGED events => \A n \in Node : Requested(n) => Requested(n)'
  BY DEF Requested
<1>1. CASE StartRun
  BY <1>1, <1>same DEF StartRun, Go, Asked, RerunRequested
<1>2. CASE BuildGraph
  BY <1>2 DEF BuildGraph, Go, durable, Asked, RerunRequested
<1>3. CASE LogCreated \/ LogFailed
  <2>1. PICK u \in {"session_created", "node_failed"}, v \in {"graph_initialized", "graph_failed"},
             m \in Node \cup {NoNode} : Log(<<Ev(u, m), Ev(v, NoNode)>>)
    BY <1>3, <1>typed DEF LogCreated, LogFailed
  <2>2. /\ u \in EventType /\ v \in EventType
        /\ {u, v} \cap {"node_retry", "node_completed", "checkpoint_approved"} = {}
    BY DEF EventType
  <2>3. \A n \in Node : Requested(n) => Requested(n)'
    BY <1>typed, <2>1, <2>2, TwoEvents
  <2>4. /\ pc \in {"created", "fail_log"} /\ UNCHANGED <<sess, snap, graph>>
        /\ pc' \in {"tick", "idle", "save"}
    BY <1>3 DEF LogCreated, LogFailed, memory, Go, Return
  <2> QED
    BY <1>held, <2>3, <2>4, MemoryOnly DEF Working, KeepsDone
<1>4. CASE LogStarted \/ ExecuteOk
  <2>1. PICK u \in {"node_started", "node_verifying"} : Log(<<Ev(u, cur)>>)
    BY <1>4 DEF LogStarted, ExecuteOk
  <2>2. \A n \in Node : Requested(n) => Requested(n)'
    BY <1>typed, <2>1, OneEvent DEF EventType
  <2>3. /\ pc \in {"started", "execute"} /\ pc' \in {"execute", "verify"} /\ UNCHANGED <<sess, snap, cur>>
        /\ graph' = graph \/ graph' = [graph EXCEPT !.node[cur] = "verifying"]
    BY <1>4 DEF LogStarted, ExecuteOk, memory, Go
  <2>4. graph \in Graph /\ graph # NoGraph /\ cur \in Node
    BY <1>held, <2>3 DEF Working, NodeInHand
  <2>5. KeepsDone /\ graph'.node[cur] # "done"
    <3>1. graph.node[cur] # "done"
      BY <2>3 DEF Asked
    <3> QED
      BY <2>3, <2>4, <3>1 DEF KeepsDone, Graph
  <2> QED
    BY <2>2, <2>3, <2>4, <2>5 DEF Asked, RerunRequested, KeepsDone
<1>5. CASE VerifyPassed
  <2>1. /\ pc = "verify" /\ pc' = "tick" /\ UNCHANGED <<sess, snap, cur>>
        /\ graph' = [graph EXCEPT !.node[cur] = "done"] /\ Log(<<Ev("node_completed", cur)>>)
    BY <1>5 DEF VerifyPassed, Go
  <2>2. graph \in Graph /\ graph # NoGraph /\ cur \in Node
    BY <1>held, <2>1 DEF Working, NodeInHand
  <2>3. \A n \in Node : n # cur => (Requested(n) => Requested(n)')
    BY <1>typed, <2>1, OneEvent DEF EventType
  <2>4. \A n \in Node : graph'.node[n] = IF n = cur THEN "done" ELSE graph.node[n]
    BY <2>1, <2>2 DEF Graph
  <2> QED
    BY <2>1, <2>2, <2>3, <2>4 DEF Asked, RerunRequested
<1>6. CASE LogRetry \/ LogPaused \/ LogCompleted
  <2>1. PICK u \in {"node_retry", "graph_paused", "graph_completed"}, m \in Node \cup {NoNode} :
          Log(<<Ev(u, m)>>)
    BY <1>6, <1>typed DEF LogRetry, LogPaused, LogCompleted
  <2>2. \A n \in Node : Requested(n) => Requested(n)'
    BY <1>typed, <2>1, OneEvent DEF EventType
  <2>3. /\ pc \in {"retry_log", "pause_log", "done_log"} /\ UNCHANGED <<sess, snap, graph>>
        /\ pc' \in {"tick", "idle", "save"}
    BY <1>6 DEF LogRetry, LogPaused, LogCompleted, memory, Go, Return
  <2> QED
    BY <1>held, <2>2, <2>3, MemoryOnly DEF Working, KeepsDone
<1>7. CASE LogCommand
  <2>1. /\ pc \in {"command_log_resume", "command_log_retry", "command_log_approve"} /\ pc' = "tick"
        /\ UNCHANGED <<sess, snap, graph, cur>>
    BY <1>7 DEF LogCommand, memory, Go
  <2>2. graph # NoGraph /\ (pc # "command_log_resume" => cur \in Node)
    BY <1>held, <2>1 DEF Working, NodeInHand
  <2>3. CASE pc = "command_log_resume"
    <3>1. \A n \in Node : Requested(n) => Requested(n)'
      BY <1>7, <1>typed, <2>3, OneEvent DEF LogCommand, EventType
    <3> QED
      BY <2>1, <2>2, <2>3, <3>1, MemoryOnly DEF KeepsDone
  <2>4. CASE pc = "command_log_retry"
    <3>1. Log(<<Ev("retry_command", cur)>>) /\ cur \in Node /\ "retry_command" \in EventType
      BY <1>7, <2>2, <2>4 DEF LogCommand, EventType
    <3>2. \A n \in Node : n = cur => Requested(n)'
      BY <1>typed, <3>1, OneEvent
    <3>3. \A n \in Node : Requested(n) => Requested(n)'
      BY <1>typed, <3>1, OneEvent
    <3> QED
      BY <2>1, <2>2, <2>4, <3>1, <3>2, <3>3 DEF Asked, RerunRequested
  <2>5. CASE pc = "command_log_approve"
    <3>1. \A n \in Node : n # cur => (Requested(n) => Requested(n)')
      BY <1>7, <1>typed, <2>2, <2>5, OneEvent DEF LogCommand, EventType
    <3> QED
      BY <2>1, <2>2, <2>5, <3>1 DEF Asked, RerunRequested
  <2> QED
    BY <2>1, <2>3, <2>4, <2>5
<1>8. CASE SaveFailed \/ SavePaused \/ SaveCompleted \/ SaveOnReturn
  <2>1. /\ pc \in {"fail_save", "pause_save", "done_save", "save"} /\ UNCHANGED <<sess, events, graph>>
        /\ snap' = graph /\ pc' \in {"fail_log", "pause_log", "done_log", "idle"}
    BY <1>8 DEF SaveFailed, SavePaused, SaveCompleted, SaveOnReturn, memory, Go
  <2> QED
    BY <1>held, <1>row, <2>1, GraphSaved DEF Working, KeepsDone
<1>9. CASE CompleteGraph \/ TickStops
  <2> DEFINE g == UpdatePendingNodes(graph)
  <2>1. /\ pc = "tick" /\ UNCHANGED <<events, snap>> /\ pc' \in {"done_save", "idle", "save"}
        /\ sess' \in {sess, "done"} /\ (graph' = g \/ graph' = [g EXCEPT !.status = "done"])
    BY <1>9 DEF CompleteGraph, TickStops, Go, Return, durable
  <2>2. graph \in Graph /\ graph # NoGraph /\ sess # "none"
    BY <1>held, <1>row, <2>1 DEF Working
  <2>3. g \in Graph /\ DoneIn(g) = DoneIn(graph)
    BY <2>2, UpdatePendingType
  <2>4. KeepsDone
    <3>1. graph'.node = g.node
      BY <2>1, <2>3 DEF Graph
    <3> QED
      BY <2>3, <3>1 DEF KeepsDone, DoneIn
  <2> QED
    BY <1>same, <2>1, <2>2, <2>4, MemoryOnly
<1>10. ASSUME NEW n \in Node, StartNode(n) \/ PauseAt(n) PROVE Asked' /\ RerunRequested
  <2> DEFINE g == UpdatePendingNodes(graph)
  <2>1. /\ pc = "tick" /\ UNCHANGED events /\ n \in ReadyNodes(g) /\ cur' = n
        /\ \/ graph' = [g EXCEPT !.node[n] = "running"]
           \/ graph' = [g EXCEPT !.node[n] = "running", !.status = "paused"]
    BY <1>10 DEF StartNode, PauseAt, Go
  <2>2. graph \in Graph /\ graph # NoGraph /\ sess # "none"
    BY <1>held, <1>row, <2>1 DEF Working
  <2>3. g \in Graph /\ DoneIn(g) = DoneIn(graph)
    BY <2>2, UpdatePendingType
  <2>4. graph'.node = [g.node EXCEPT ![n] = "running"]
    BY <2>1, <2>3 DEF Graph
  <2>5. graph.node[n] # "done" /\ graph'.node[n] # "done"
    BY <2>1, <2>3, <2>4 DEF ReadyNodes, DoneIn, Graph
  <2>6. KeepsDone
    BY <2>3, <2>4, <2>5 DEF KeepsDone, DoneIn, Graph
  <2>7. CASE StartNode(n)
    <3>1. snap' = graph' /\ pc' = "started" /\ sess' = sess
      BY <2>7 DEF StartNode, Go
    <3>2. graph' # NoGraph
      BY <1>next, <3>1 DEF Working
    <3> QED
      BY <2>1, <2>2, <2>5, <2>6, <3>1, <3>2, GraphSaved
  <2>8. CASE PauseAt(n)
    <3>1. snap' = snap /\ pc' = "pause_save" /\ sess' = "paused"
      BY <2>8 DEF PauseAt, Go
    <3> QED
      BY <1>same, <2>1, <2>2, <2>6, <3>1, MemoryOnly
  <2> QED
    BY <1>10, <2>7, <2>8
<1>11. CASE ExecuteError \/ VerifyExhausted
  <2>1. /\ pc \in {"execute", "verify"} /\ UNCHANGED <<events, snap>> /\ pc' = "fail_save"
        /\ sess' = "failed" /\ graph' = [graph EXCEPT !.node[cur] = "failed", !.status = "failed"]
    BY <1>11 DEF ExecuteError, VerifyExhausted, FailNode, Go
  <2>2. graph \in Graph /\ graph # NoGraph /\ cur \in Node /\ graph.node[cur] # "done"
    BY <1>held, <2>1 DEF Working, NodeInHand, Asked
  <2>3. KeepsDone
    BY <2>1, <2>2 DEF KeepsDone, Graph
  <2> QED
    BY <1>same, <2>1, <2>2, <2>3, MemoryOnly
<1>12. CASE VerifyRetry
  <2>1. /\ pc = "verify" /\ pc' = "retry_log" /\ UNCHANGED <<events, sess>> /\ snap' = graph'
        /\ graph' = [graph EXCEPT !.node[cur] = "ready", !.retry[cur] = @ + 1]
    BY <1>12 DEF VerifyRetry, Go
  <2>2. /\ graph \in Graph /\ graph # NoGraph /\ cur \in Node /\ graph.node[cur] # "done"
        /\ graph' # NoGraph /\ sess # "none"
    BY <1>held, <1>next, <1>row, <2>1 DEF Working, NodeInHand, Asked
  <2>3. KeepsDone
    BY <2>1, <2>2 DEF KeepsDone, Graph
  <2> QED
    BY <2>1, <2>2, <2>3, GraphSaved
<1>13. ASSUME NEW kind \in {"resume", "retry", "approve"}, Receive(kind)
       PROVE  /\ graph \in Graph /\ graph # NoGraph /\ pc = "idle" /\ UNCHANGED <<events, snap>>
              /\ sess' = "running" /\ cur' = Head(queue).node
              /\ kind # "resume" => cur' \in Node
  <2>1. Head(queue) \in Command
    BY <1>13 DEF Receive, IndInv, TypeOK
  <2> QED
    BY <1>13, <1>held, <2>1 DEF Receive, Command
<1>14. CASE HandleResume
  <2>1. Receive("resume") /\ graph' = [graph EXCEPT !.status = "running"] /\ pc' = "command_log_resume"
    BY <1>14 DEF HandleResume, Go
  <2>2. KeepsDone
    BY <1>13, <2>1 DEF KeepsDone, Graph
  <2> QED
    BY <1>13, <1>same, <2>1, <2>2, MemoryOnly
<1>15. CASE HandleRetryNode
  <2>1. /\ Receive("retry") /\ pc' = "command_log_retry"
        /\ graph' = [graph EXCEPT !.node[Head(queue).node] = "ready", !.status = "running"]
    BY <1>15 DEF HandleRetryNode, Go
  <2>2. \A n \in Node : n # cur' => graph'.node[n] = graph.node[n]
    BY <1>13, <2>1 DEF Graph
  <2> QED
    BY <1>13, <1>same, <2>1, <2>2 DEF Asked, RerunRequested
<1>16. CASE HandleApproveCheckpoint
  <2>1. /\ Receive("approve") /\ pc' = "command_log_approve"
        /\ graph' = [graph EXCEPT !.node[Head(queue).node] = "done", !.status = "running"]
    BY <1>16 DEF HandleApproveCheckpoint, Go
  <2>2. \A n \in Node : graph'.node[n] = IF n = cur' THEN "done" ELSE graph.node[n]
    BY <1>13, <2>1 DEF Graph
  <2> QED
    BY <1>13, <1>same, <2>1, <2>2 DEF Asked, RerunRequested
<1>17. CASE Fault \/ Crash
  <2>1. /\ UNCHANGED <<events, sess, snap>> /\ graph' = NoGraph /\ pc' \in {"absent", "dead", "down"}
    BY <1>17 DEF Fault, Crash, durable
  <2> QED
    BY <2>1 DEF Asked, RerunRequested
<1>18. CASE Restart
  <2>1. UNCHANGED <<events, sess>> /\ pc' \in {"tick", "idle", "absent"}
    BY <1>18 DEF Restart, Go
  <2>2. CASE ShouldRecover(sess) /\ snap # NoGraph
    <3>1. graph' = NormalizeRecovered(snap, sess) /\ snap' = graph' /\ sess # "none"
      BY <1>18, <2>2 DEF Restart, ShouldRecover
    <3>2. DoneIn(graph') = DoneIn(snap)
      BY <1>typed, <2>2, <3>1, NormalizeType
    <3> QED
      BY <2>1, <2>2, <3>1, <3>2 DEF Asked, RerunRequested, DoneIn
  <2>3. CASE ~(ShouldRecover(sess) /\ snap # NoGraph)
    <3>1. pc' = "absent" /\ UNCHANGED <<snap, graph>> /\ pc = "down"
      BY <1>18, <2>3 DEF Restart, Go
    <3> QED
      BY <1>same, <2>1, <3>1 DEF Asked, RerunRequested
  <2> QED
    BY <2>2, <2>3
<1>19. CASE UNCHANGED vars \/ \E c \in ClientCommand : Send(c)
  BY <1>19, <1>same DEF vars, Send, durable, Asked, RerunRequested
<1> QED
  BY <1>1, <1>2, <1>3, <1>4, <1>5, <1>6, <1>7, <1>8, <1>9, <1>10, <1>11, <1>12, <1>14, <1>15,
     <1>16, <1>17, <1>18, <1>19 DEF Next, Actor, Tick

\* The memory graph counts every retry that was logged, and takes a completion
\* back only with a request for it.
THEOREM BudgetAndAsked == Spec => [](Budget /\ Asked)
<1>1. Init => Budget /\ Asked
  BY DEF Init, Budget, CoveredBy, Asked
<1>2. IndInv /\ IndInv' /\ Budget /\ Asked /\ [Next]_vars => (Budget /\ Asked)'
  BY BudgetStep, AskedStep
<1> QED
  BY <1>1, <1>2, Invariance, PTL DEF Spec

\* However a session is commanded, and wherever it crashes, no completion the
\* snapshot holds is taken back unless a retry of the node was logged after it.
THEOREM RerunsAreRequested == Spec => RerunOnlyOnRequest
<1>1. IndInv /\ IndInv' /\ Budget /\ Asked /\ [Next]_vars
        => [\A n \in Node :
             (snap # NoGraph /\ snap' # NoGraph /\ snap.node[n] = "done" /\ snap'.node[n] # "done")
             => \E i \in 1..Len(events) :
                  /\ events[i] = Ev("retry_command", n)
                  /\ \A j \in i..Len(events) :
                       events[j] \notin {Ev("node_completed", n), Ev("checkpoint_approved", n)}]_vars
  BY AskedStep DEF RerunRequested, Requested
<1> QED
  BY <1>1, Invariance, BudgetAndAsked, PTL DEF Spec, RerunOnlyOnRequest
-----------------------------------------------------------------------------
(* At rest between two commands                                              *)

HasWaiting(g) == \E c \in Checkpoint : g.node[c] = "running"
HasFailed(g) == \E n \in Node : g.node[n] = "failed"

\* What the row says of the graph in memory, from the write of the row to the
\* next command.
RowMeans ==
  /\ sess = "paused" => graph.status = "paused" /\ HasWaiting(graph)
  /\ sess = "failed" => HasFailed(graph)

\* While the process has not crashed, pc decides what the row says, and a tick
\* that left the row running left nothing to run.
Phase ==
  /\ pc # "down" /\ origin # "restore"
  /\ pc \in {"plan", "created", "tick", "started", "execute", "verify", "retry_log",
             "command_log_resume", "command_log_retry", "command_log_approve"} => sess = "running"
  /\ pc \in {"pause_save", "pause_log", "fail_save", "fail_log", "done_save", "done_log"} =>
       sess # "running" /\ RowMeans
  /\ pc \in {"save", "idle"} => RowMeans /\ (sess = "running" => ReadyNodes(graph) = {})
  /\ pc = "idle" => origin = "command"

\* handleCommand and Bootstrap save before Run waits.
SavedByCommand == pc = "idle" /\ origin = "command" => snap = graph

AtRest == SavedByCommand /\ (crashes = 0 => Phase)

LEMMA WaitingStep == IndInv /\ IndInv' /\ AtRest /\ [Next]_vars => AtRest'
<1> SUFFICES ASSUME IndInv, IndInv', AtRest, [Next]_vars PROVE AtRest'
  OBVIOUS
<1>typed. /\ graph # NoGraph => graph \in Graph
          /\ graph' # NoGraph => graph' \in Graph
          /\ cur \in Node \cup {NoNode} /\ crashes \in Nat
  BY DEF IndInv, TypeOK
<1>held. /\ pc \in (Working \ {"plan"}) \cup {"idle"} => graph \in Graph /\ graph # NoGraph
         /\ pc \in NodeInHand => cur \in Node
  BY <1>typed DEF IndInv, InHand
<1>1. CASE StartRun
  BY <1>1 DEF StartRun, Go, bounds, AtRest, SavedByCommand, Phase
<1>2. CASE BuildGraph \/ LogCreated \/ LogStarted \/ VerifyPassed \/ LogRetry \/ VerifyRetry \/ ExecuteOk
           \/ LogCommand \/ \E n \in Node : StartNode(n)
  <2>1. /\ pc \in {"plan", "created", "started", "verify", "retry_log", "execute", "tick",
                   "command_log_resume", "command_log_retry", "command_log_approve"}
        /\ pc' \in {"created", "tick", "execute", "verify", "retry_log", "started"}
        /\ UNCHANGED <<sess, origin, crashes>>
    BY <1>2 DEF BuildGraph, LogCreated, LogStarted, VerifyPassed, LogRetry, VerifyRetry, ExecuteOk,
       LogCommand, StartNode, Go, bounds, durable, memory
  <2> QED
    BY <2>1 DEF AtRest, SavedByCommand, Phase
<1>3. CASE ExecuteError \/ VerifyExhausted
  <2>1. /\ pc \in {"execute", "verify"} /\ pc' = "fail_save" /\ sess' = "failed"
        /\ UNCHANGED <<origin, crashes>>
        /\ graph' = [graph EXCEPT !.node[cur] = "failed", !.status = "failed"]
    BY <1>3 DEF ExecuteError, VerifyExhausted, FailNode, Go, bounds
  <2>2. graph \in Graph /\ cur \in Node
    BY <1>held, <2>1 DEF Working, NodeInHand
  <2>3. graph'.node[cur] = "failed"
    BY <2>1, <2>2 DEF Graph
  <2> QED
    BY <2>1, <2>2, <2>3 DEF AtRest, SavedByCommand, Phase, RowMeans, HasFailed
<1>4. CASE \E n \in Node : PauseAt(n)
  <2> PICK n \in Node : PauseAt(n)
    BY <1>4
  <2> DEFINE g == UpdatePendingNodes(graph)
  <2>1. /\ pc = "tick" /\ pc' = "pause_save" /\ sess' = "paused" /\ UNCHANGED <<origin, crashes>>
        /\ n \in Checkpoint /\ graph' = [g EXCEPT !.node[n] = "running", !.status = "paused"]
    BY DEF PauseAt, Go, bounds
  <2>2. g \in Graph
    BY <1>held, <2>1, UpdatePendingType DEF Working
  <2>3. graph'.node[n] = "running" /\ graph'.status = "paused"
    BY <2>1, <2>2 DEF Graph
  <2> QED
    BY <2>1, <2>3 DEF AtRest, SavedByCommand, Phase, RowMeans, HasWaiting
<1>5. CASE CompleteGraph
  <2>1. pc = "tick" /\ pc' = "done_save" /\ sess' = "done" /\ UNCHANGED <<origin, crashes>>
    BY <1>5 DEF CompleteGraph, Go, bounds
  <2> QED
    BY <2>1 DEF AtRest, SavedByCommand, Phase, RowMeans
<1>6. CASE SaveFailed \/ SavePaused \/ SaveCompleted
  <2>1. /\ pc \in {"fail_save", "pause_save", "done_save"} /\ pc' \in {"fail_log", "pause_log", "done_log"}
        /\ UNCHANGED <<sess, graph, origin, crashes>>
    BY <1>6 DEF SaveFailed, SavePaused, SaveCompleted, Go, bounds, memory
  <2> QED
    BY <2>1 DEF AtRest, SavedByCommand, Phase, RowMeans, HasFailed, HasWaiting
<1>7. CASE LogFailed \/ LogPaused \/ LogCompleted
  <2>1. /\ pc \in {"fail_log", "pause_log", "done_log"} /\ UNCHANGED <<sess, graph, origin, crashes>>
        /\ pc' = IF origin = "restore" THEN "idle" ELSE "save"
    BY <1>7 DEF LogFailed, LogPaused, LogCompleted, Return, Go, bounds
  <2> QED
    BY <2>1 DEF AtRest, SavedByCommand, Phase, RowMeans, HasFailed, HasWaiting
<1>8. CASE TickStops
  <2> DEFINE g == UpdatePendingNodes(graph)
  <2>1. /\ pc = "tick" /\ UNCHANGED <<sess, origin, crashes>> /\ graph' = g /\ ReadyNodes(g) = {}
        /\ pc' = IF origin = "restore" THEN "idle" ELSE "save"
    BY <1>8 DEF TickStops, Return, Go, bounds, durable
  <2>2. ReadyNodes(graph') = {}
    BY <2>1
  <2> HIDE DEF g
  <2> QED
    BY <2>1, <2>2 DEF AtRest, SavedByCommand, Phase, RowMeans
<1>9. CASE SaveOnReturn
  <2>1. /\ pc = "save" /\ pc' = "idle" /\ UNCHANGED <<sess, graph, crashes>> /\ snap' = graph
        /\ origin' = "command"
    BY <1>9 DEF SaveOnReturn, Go, bounds
  <2> QED
    BY <2>1 DEF AtRest, SavedByCommand, Phase, RowMeans, HasFailed, HasWaiting
<1>10. CASE HandleResume \/ HandleRetryNode \/ HandleApproveCheckpoint
  <2>1. /\ pc = "idle" /\ sess' = "running" /\ origin' = "command" /\ UNCHANGED crashes
        /\ pc' \in {"command_log_resume", "command_log_retry", "command_log_approve"}
    BY <1>10 DEF HandleResume, HandleRetryNode, HandleApproveCheckpoint, Receive, Go, bounds
  <2> QED
    BY <2>1 DEF AtRest, SavedByCommand, Phase
<1>11. CASE Fault
  <2>1. pc' \in {"absent", "dead"} /\ UNCHANGED <<origin, crashes>>
    BY <1>11 DEF Fault, durable
  <2> QED
    BY <2>1 DEF AtRest, SavedByCommand, Phase
<1>12. CASE Crash
  <2>1. pc' = "down" /\ crashes' # 0
    BY <1>12, <1>typed DEF Crash
  <2> QED
    BY <2>1 DEF AtRest, SavedByCommand
<1>13. CASE Restart
  <2>1. pc = "down" /\ UNCHANGED crashes /\ (pc' = "idle" => origin' = "restore")
    BY <1>13 DEF Restart, Go, bounds
  <2> QED
    BY <2>1 DEF AtRest, SavedByCommand, Phase
<1>14. CASE UNCHANGED vars \/ \E c \in ClientCommand : Send(c)
  <2>1. UNCHANGED <<sess, snap, graph, pc, origin, crashes>>
    BY <1>14 DEF vars, Send, durable
  <2> QED
    BY <2>1 DEF AtRest, SavedByCommand, Phase, RowMeans, HasFailed, HasWaiting, ReadyNodes,
       DependenciesSatisfied
<1> QED
  BY <1>1, <1>2, <1>3, <1>4, <1>5, <1>6, <1>7, <1>8, <1>9, <1>10, <1>11, <1>12, <1>13, <1>14
     DEF Next, Actor, Tick

\* Until the first crash, the place of the actor tells what the row says.
THEOREM AlwaysWaiting == Spec => []AtRest
<1>1. Init => AtRest
  BY DEF Init, AtRest, SavedByCommand, Phase
<1> QED
  BY <1>1, WaitingStep, Invariance, PTL DEF Spec

\* What the snapshot lacks during a recovery tick and in the wait after it.
RecoveryLag ==
  /\ pc = "idle" => origin \in {"command", "restore"}
  /\ origin = "restore" =>
       /\ pc \notin {"plan", "created", "save", "command_log_resume", "command_log_retry",
                    "command_log_approve"}
       /\ pc \in {"started", "execute", "retry_log", "fail_log", "pause_log", "done_log"} => snap = graph
       /\ pc \in {"started", "execute", "verify"} => snap.node[cur] = "running"
       /\ pc = "verify" => graph = [snap EXCEPT !.node[cur] = "verifying"]
       /\ pc \in {"tick", "idle"} => snap = graph \/ \E n \in Node : LacksCompletion(n)

\* A tick that finds nothing ready left no node to promote.
LEMMA NothingPromoted ==
  ASSUME NEW g \in Graph, ReadyNodes(UpdatePendingNodes(g)) = {} PROVE UpdatePendingNodes(g) = g
<1> DEFINE h == UpdatePendingNodes(g)
<1>1. /\ h = [g EXCEPT !.node = h.node] /\ h.node \in [Node -> NodeStatus]
      /\ \A n \in Node : h.node[n] = IF g.node[n] = "pending" /\ DependenciesSatisfied(g, n)
                                   THEN "ready" ELSE g.node[n]
  BY DEF UpdatePendingNodes, Graph, NodeStatus
<1>2. \A n \in Node : ~(g.node[n] = "pending" /\ DependenciesSatisfied(g, n))
  <2> SUFFICES ASSUME NEW n \in Node, g.node[n] = "pending", DependenciesSatisfied(g, n) PROVE FALSE
    OBVIOUS
  <2>1. DependsOn[n] \subseteq Node
    BY ConstantsAssumption
  <2>2. h.node[n] = "ready" /\ DependenciesSatisfied(h, n)
    BY <1>1, <2>1 DEF DependenciesSatisfied
  <2> QED
    BY <2>2 DEF ReadyNodes
<1>3. h.node = g.node
  <2>1. g.node \in [Node -> NodeStatus] /\ \A n \in Node : h.node[n] = g.node[n]
    BY <1>1, <1>2 DEF Graph
  <2> HIDE DEF h
  <2> QED
    BY <1>1, <2>1
<1> HIDE DEF h
<1>4. h = g
  BY <1>1, <1>3 DEF Graph
<1> QED
  BY <1>4 DEF h

LEMMA RecoveryLagStep == IndInv /\ IndInv' /\ RecoveryLag /\ [Next]_vars => RecoveryLag'
<1> SUFFICES ASSUME IndInv, IndInv', RecoveryLag, [Next]_vars PROVE RecoveryLag'
  OBVIOUS
<1>typed. /\ snap # NoGraph => snap \in Graph
          /\ cur \in Node \cup {NoNode} /\ events \in Seq(Event)
  BY DEF IndInv, TypeOK
<1>held. /\ pc \in (Working \ {"plan"}) \cup {"idle"} => graph \in Graph
         /\ pc \in NodeInHand => cur \in Node
  BY DEF IndInv, InHand, TypeOK
<1>1. CASE \/ StartRun \/ BuildGraph \/ ExecuteError \/ VerifyExhausted \/ CompleteGraph
           \/ \E n \in Node : PauseAt(n)
  <2>1. \/ pc' \in {"plan", "created"} /\ ((pc = "plan" /\ origin' = origin) \/ origin' = "boot")
        \/ pc' \in {"fail_save", "done_save", "pause_save"}
    BY <1>1 DEF StartRun, BuildGraph, ExecuteError, VerifyExhausted, FailNode, CompleteGraph, PauseAt, Go
  <2> QED
    BY <2>1 DEF RecoveryLag
<1>2. CASE LogCreated \/ LogCommand
  <2>1. /\ pc \in {"created", "command_log_resume", "command_log_retry", "command_log_approve"}
        /\ pc' = "tick" /\ origin' = origin
    BY <1>2 DEF LogCreated, LogCommand, Go, memory
  <2> QED
    BY <2>1 DEF RecoveryLag
<1>3. CASE \E n \in Node : StartNode(n)
  <2> PICK n \in Node : StartNode(n)
    BY <1>3
  <2>1. /\ pc = "tick" /\ pc' = "started" /\ cur' = n /\ snap' = graph'
        /\ graph' = [UpdatePendingNodes(graph) EXCEPT !.node[n] = "running"]
    BY DEF StartNode, Go
  <2>2. UpdatePendingNodes(graph) \in Graph
    BY <1>held, <2>1, UpdatePendingType DEF Working
  <2>3. graph'.node[n] = "running"
    BY <2>1, <2>2 DEF Graph
  <2> QED
    BY <2>1, <2>3 DEF RecoveryLag
<1>4. CASE LogStarted
  BY <1>4 DEF LogStarted, Go, memory, RecoveryLag
<1>5. CASE ExecuteOk
  <2>1. /\ pc = "execute" /\ pc' = "verify" /\ UNCHANGED <<snap, cur, origin>>
        /\ graph' = [graph EXCEPT !.node[cur] = "verifying"]
    BY <1>5 DEF ExecuteOk, Go
  <2> QED
    BY <2>1 DEF RecoveryLag
<1>6. CASE VerifyPassed
  <2>1. /\ pc = "verify" /\ pc' = "tick" /\ UNCHANGED <<snap, cur, origin>>
        /\ graph' = [graph EXCEPT !.node[cur] = "done"]
        /\ events' = events \o <<Ev("node_completed", cur)>>
    BY <1>6 DEF VerifyPassed, Go, Log
  <2>2. cur \in Node
    BY <1>held, <2>1 DEF NodeInHand
  <2>3. CASE origin = "restore"
    <3>1. snap.node[cur] = "running" /\ graph = [snap EXCEPT !.node[cur] = "verifying"]
      BY <2>1, <2>3 DEF RecoveryLag
    <3>2. graph' = [snap EXCEPT !.node[cur] = "done"]
      <4>1. graph \in Graph
        BY <1>held, <2>1 DEF Working
      <4> QED
        BY <2>1, <2>2, <3>1, <4>1 DEF Graph
    <3>3. events'[Len(events')] = Ev("node_completed", cur)
      <4>1. Ev("node_completed", cur) \in Event
        BY <2>2 DEF Ev, Event, EventType
      <4> QED
        BY <1>typed, <2>1, <4>1, LogOne
    <3> QED
      BY <2>1, <2>2, <3>1, <3>2, <3>3 DEF RecoveryLag, LacksCompletion, Ev
  <2>4. CASE origin # "restore"
    BY <2>1, <2>4 DEF RecoveryLag
  <2> QED
    BY <2>3, <2>4
<1>7. CASE VerifyRetry
  BY <1>7 DEF VerifyRetry, Go, RecoveryLag
<1>8. CASE LogRetry
  BY <1>8 DEF LogRetry, Go, memory, RecoveryLag
<1>9. CASE SaveFailed \/ SavePaused \/ SaveCompleted
  <2>1. /\ pc' \in {"fail_log", "pause_log", "done_log"} /\ snap' = graph' /\ origin' = origin
    BY <1>9 DEF SaveFailed, SavePaused, SaveCompleted, Go, memory
  <2> QED
    BY <2>1 DEF RecoveryLag
<1>10. CASE LogFailed \/ LogPaused \/ LogCompleted
  <2>1. /\ pc \in {"fail_log", "pause_log", "done_log"} /\ UNCHANGED <<snap, graph, origin>>
        /\ pc' = IF origin = "restore" THEN "idle" ELSE "save"
    BY <1>10 DEF LogFailed, LogPaused, LogCompleted, Return, Go
  <2> QED
    BY <2>1 DEF RecoveryLag
<1>11. CASE TickStops
  <2>1. /\ pc = "tick" /\ UNCHANGED <<snap, events, origin>>
        /\ graph' = UpdatePendingNodes(graph) /\ ReadyNodes(UpdatePendingNodes(graph)) = {}
        /\ pc' = IF origin = "restore" THEN "idle" ELSE "save"
    BY <1>11 DEF TickStops, Return, Go, durable
  <2>2. graph' = graph
    BY <1>held, <2>1, NothingPromoted DEF Working
  <2> QED
    BY <2>1, <2>2 DEF RecoveryLag, LacksCompletion
<1>12. CASE SaveOnReturn
  BY <1>12 DEF SaveOnReturn, Go, RecoveryLag
<1>13. CASE HandleResume \/ HandleRetryNode \/ HandleApproveCheckpoint
  <2>1. origin' = "command" /\ pc' # "idle"
    BY <1>13 DEF HandleResume, HandleRetryNode, HandleApproveCheckpoint, Receive, Go
  <2> QED
    BY <2>1 DEF RecoveryLag
<1>14. CASE Fault \/ Crash
  <2>1. pc' \in {"absent", "dead", "down"}
    BY <1>14 DEF Fault, Crash
  <2> QED
    BY <2>1 DEF RecoveryLag
<1>15. CASE Restart
  <2>1. \/ pc' = "absent"
        \/ pc' \in {"tick", "idle"} /\ origin' = "restore" /\ snap' = graph'
    BY <1>15 DEF Restart, Go
  <2> QED
    BY <2>1 DEF RecoveryLag
<1>16. CASE UNCHANGED vars \/ \E c \in ClientCommand : Send(c)
  <2>1. UNCHANGED <<snap, graph, events, pc, cur, origin>>
    BY <1>16 DEF vars, Send, durable
  <2> QED
    BY <2>1 DEF RecoveryLag, LacksCompletion
<1> QED
  BY <1>1, <1>2, <1>3, <1>4, <1>5, <1>6, <1>7, <1>8, <1>9, <1>10, <1>11, <1>12, <1>13, <1>14,
     <1>15, <1>16 DEF Next, Actor, Tick

\* Whenever the actor waits, whatever was commanded, failed or crashed before,
\* the snapshot the API reads is the memory graph; after a recovery tick alone
\* it may still show as running the one node whose completion the log ends with.
THEOREM WaitsSaved == Spec => []SavedWhenIdle
<1>1. Init => RecoveryLag
  BY DEF Init, RecoveryLag
<1>2. Spec => []RecoveryLag
  BY <1>1, RecoveryLagStep, Invariance, PTL DEF Spec
<1>3. AtRest /\ RecoveryLag => SavedWhenIdle
  BY DEF AtRest, SavedByCommand, RecoveryLag, SavedWhenIdle
<1> QED
  BY <1>2, <1>3, AlwaysWaiting, PTL

LEMMA WaitingOffers ==
  IndInv /\ AtRest => PausedOffersCheckpoint /\ FailedOffersRetry /\ NoIdleWhileRunnable
BY DEF AtRest, SavedByCommand, Phase, RowMeans, HasFailed, HasWaiting, PausedOffersCheckpoint,
   FailedOffersRetry, NoIdleWhileRunnable

\* As long as the process did not crash, whatever commands come and calls fail:
\* a paused session that waits for the user offers a checkpoint to approve,
THEOREM PausedOffers == Spec => []PausedOffersCheckpoint
BY WaitingOffers, AlwaysWaiting, Invariance, PTL

\* a failed one has a failed node in the snapshot,
THEOREM FailedOffers == Spec => []FailedOffersRetry
BY WaitingOffers, AlwaysWaiting, Invariance, PTL

\* and one that is shown as running and waits has no node that could run.
THEOREM NothingLeftToRun == Spec => []NoIdleWhileRunnable
BY WaitingOffers, AlwaysWaiting, Invariance, PTL
-----------------------------------------------------------------------------
(* The session row and the snapshot                                          *)

AtRow == {"plan", "created", "tick", "started", "execute", "verify", "retry_log",
          "command_log_resume", "command_log_retry", "command_log_approve"}

\* Where the row is written decides what the rest of the way to the event saves.
RowIs(status, saving, logging) ==
  /\ pc \in {saving, logging} => sess = status /\ graph.status = status
  /\ pc = logging => snap = graph

\* Across crashes: the row of a session that is not running is the status of its
\* graph, in memory or saved.
RowFollowsGraph ==
  /\ pc \in AtRow => sess = "running"
  /\ RowIs("failed", "fail_save", "fail_log")
  /\ RowIs("done", "done_save", "done_log")
  /\ RowIs("paused", "pause_save", "pause_log")
  /\ pc = "save" /\ sess # "running" => graph.status = sess
  /\ pc \in {"save", "idle"} /\ sess # "running" => snap # NoGraph /\ snap.status = sess

LEMMA NormalizedStatus ==
  ASSUME NEW g \in Graph, NEW s \in {"paused", "failed", "done"}
  PROVE  NormalizeRecovered(g, s).status = s
<1> DEFINE nodes == [n \in Node |->
              IF g.node[n] \in {"running", "verifying"} /\ ~KeepsWaiting(g, n, s)
              THEN "ready" ELSE g.node[n]]
           h == [g EXCEPT !.node = nodes, !.status = s]
<1>1. NormalizeRecovered(g, s) = UpdatePendingNodes(h)
  <2>1. NormalizeRecovered(g, s) =
          UpdatePendingNodes([g EXCEPT !.node = nodes,
                                       !.status = IF s \in {"paused", "failed", "done"} THEN s ELSE @])
    BY DEF NormalizeRecovered
  <2> HIDE DEF nodes
  <2>2. [g EXCEPT !.node = nodes, !.status = IF s \in {"paused", "failed", "done"} THEN s ELSE @] = h
    BY DEF Graph
  <2> QED
    BY <2>1, <2>2
<1>4. nodes \in [Node -> NodeStatus] /\ s \in GraphStatus
  BY DEF Graph, NodeStatus, GraphStatus
<1> HIDE DEF nodes
<1>2. h.status = s /\ h \in Graph
  BY <1>4 DEF Graph
<1> HIDE DEF h
<1>3. UpdatePendingNodes(h).status = h.status
  BY <1>2 DEF UpdatePendingNodes, Graph
<1> QED
  BY <1>1, <1>2, <1>3

LEMMA RowStep == IndInv /\ IndInv' /\ RowFollowsGraph /\ [Next]_vars => RowFollowsGraph'
<1> SUFFICES ASSUME IndInv, IndInv', RowFollowsGraph, [Next]_vars PROVE RowFollowsGraph'
  OBVIOUS
<1> USE DEF RowFollowsGraph, RowIs, AtRow
<1>typed. /\ graph # NoGraph => graph \in Graph
          /\ snap # NoGraph => snap \in Graph
          /\ sess \in SessionStatus
  BY DEF IndInv, TypeOK
<1>held. pc \in (Working \ {"plan"}) \cup {"idle"} => graph \in Graph /\ graph # NoGraph
  BY <1>typed DEF IndInv, InHand
<1>1. CASE StartRun
  BY <1>1 DEF StartRun, Go, bounds
<1>2. CASE BuildGraph \/ LogCreated \/ LogStarted \/ VerifyPassed \/ LogRetry \/ VerifyRetry \/ ExecuteOk
           \/ LogCommand \/ \E n \in Node : StartNode(n)
  <2>1. /\ pc \in AtRow /\ pc' \in AtRow /\ sess' = sess
    BY <1>2 DEF BuildGraph, LogCreated, LogStarted, VerifyPassed, LogRetry, VerifyRetry, ExecuteOk,
       LogCommand, StartNode, Go, bounds, durable, memory
  <2> QED
    BY <2>1
<1>3. CASE ExecuteError \/ VerifyExhausted
  <2>1. /\ pc \in {"execute", "verify"} /\ pc' = "fail_save" /\ sess' = "failed"
        /\ graph' = [graph EXCEPT !.node[cur] = "failed", !.status = "failed"]
    BY <1>3 DEF ExecuteError, VerifyExhausted, FailNode, Go, bounds
  <2>2. graph \in Graph
    BY <1>held, <2>1 DEF Working
  <2>3. graph'.status = "failed"
    BY <2>1, <2>2 DEF Graph
  <2> QED
    BY <2>1, <2>3
<1>4. CASE \E n \in Node : PauseAt(n)
  <2> PICK n \in Node : PauseAt(n)
    BY <1>4
  <2>1. /\ pc = "tick" /\ pc' = "pause_save" /\ sess' = "paused"
        /\ graph' = [UpdatePendingNodes(graph) EXCEPT !.node[n] = "running", !.status = "paused"]
    BY DEF PauseAt, Go, bounds
  <2>2. PICK g \in Graph : g = UpdatePendingNodes(graph)
    BY <1>held, <2>1, UpdatePendingType DEF Working
  <2>3. graph'.status = "paused"
    BY <2>1, <2>2 DEF Graph
  <2> QED
    BY <2>1, <2>3
<1>5. CASE CompleteGraph
  <2>1. /\ pc = "tick" /\ pc' = "done_save" /\ sess' = "done"
        /\ graph' = [UpdatePendingNodes(graph) EXCEPT !.status = "done"]
    BY <1>5 DEF CompleteGraph, Go, bounds
  <2>2. PICK g \in Graph : g = UpdatePendingNodes(graph)
    BY <1>held, <2>1, UpdatePendingType DEF Working
  <2>3. graph'.status = "done"
    BY <2>1, <2>2 DEF Graph
  <2> QED
    BY <2>1, <2>3
<1>6. CASE SaveFailed \/ SavePaused \/ SaveCompleted
  <2>1. /\ \/ pc = "fail_save" /\ pc' = "fail_log"
           \/ pc = "pause_save" /\ pc' = "pause_log"
           \/ pc = "done_save" /\ pc' = "done_log"
        /\ UNCHANGED <<sess, graph>> /\ snap' = graph
    BY <1>6 DEF SaveFailed, SavePaused, SaveCompleted, Go, bounds, memory
  <2> QED
    BY <2>1
<1>7. CASE LogFailed \/ LogPaused \/ LogCompleted
  <2>1. /\ pc \in {"fail_log", "pause_log", "done_log"} /\ UNCHANGED <<sess, snap, graph>>
        /\ pc' \in {"idle", "save"}
    BY <1>7 DEF LogFailed, LogPaused, LogCompleted, Return, Go, bounds
  <2>2. graph # NoGraph
    BY <1>held, <2>1 DEF Working
  <2> QED
    BY <2>1, <2>2
<1>8. CASE TickStops
  <2>1. pc = "tick" /\ sess' = sess /\ pc' \in {"idle", "save"}
    BY <1>8 DEF TickStops, Return, Go, bounds, durable
  <2> QED
    BY <2>1
<1>9. CASE SaveOnReturn
  <2>1. pc = "save" /\ pc' = "idle" /\ UNCHANGED <<sess, graph>> /\ snap' = graph
    BY <1>9 DEF SaveOnReturn, Go, bounds
  <2>2. graph # NoGraph
    BY <1>held, <2>1 DEF Working
  <2> QED
    BY <2>1, <2>2
<1>10. CASE HandleResume \/ HandleRetryNode \/ HandleApproveCheckpoint
  <2>1. pc' \in AtRow /\ sess' = "running"
    BY <1>10 DEF HandleResume, HandleRetryNode, HandleApproveCheckpoint, Receive, Go, bounds
  <2> QED
    BY <2>1
<1>11. CASE Fault \/ Crash
  <2>1. pc' \in {"absent", "dead", "down"}
    BY <1>11 DEF Fault, Crash
  <2> QED
    BY <2>1
<1>12. CASE Restart
  <2>1. CASE ShouldRecover(sess) /\ snap # NoGraph
    <3>1. /\ graph' = NormalizeRecovered(snap, sess) /\ snap' = graph' /\ sess' = sess
          /\ pc' = (IF ShouldAutoResume(sess, graph') THEN "tick" ELSE "idle")
          /\ snap \in Graph
      BY <1>12, <1>typed, <2>1 DEF Restart, Go, bounds
    <3>2. CASE sess = "running"
      BY <3>1, <3>2
    <3>3. CASE sess # "running"
      <4>1. sess \in {"paused", "failed", "done"} /\ pc' = "idle"
        BY <2>1, <3>1, <3>3 DEF ShouldRecover, ShouldAutoResume
      <4>2. snap'.status = sess
        BY <3>1, <4>1, NormalizedStatus
      <4>3. snap' \in Graph
        BY <3>1, NormalizeType, <1>typed
      <4> QED
        BY <3>1, <4>1, <4>2, <4>3, NoGraphAssumption
    <3> QED
      BY <3>2, <3>3
  <2>2. CASE ~(ShouldRecover(sess) /\ snap # NoGraph)
    <3>1. pc' = "absent"
      BY <1>12, <2>2 DEF Restart, Go
    <3> QED
      BY <3>1
  <2> QED
    BY <2>1, <2>2
<1>13. CASE UNCHANGED vars \/ \E c \in ClientCommand : Send(c)
  <2>1. UNCHANGED <<sess, snap, graph, pc>>
    BY <1>13 DEF vars, Send, durable
  <2> QED
    BY <2>1
<1> QED
  BY <1>1, <1>2, <1>3, <1>4, <1>5, <1>6, <1>7, <1>8, <1>9, <1>10, <1>11, <1>12, <1>13
     DEF Next, Actor, Tick

\* The row and the snapshot of a session that is not running agree but between
\* the two writes.
THEOREM RowAlwaysFollows == Spec => []RowFollowsGraph
<1>1. Init => RowFollowsGraph
  BY DEF Init, RowFollowsGraph, RowIs, AtRow
<1> QED
  BY <1>1, RowStep, Invariance, PTL DEF Spec

\* Whatever crashes, failing calls and commands came before, a session at rest
\* that is shown as done, failed or paused has a snapshot with the same status,
\* although the two are written one after the other (session_runtime.go).
THEOREM RowIsSnapshot ==
  Spec => [](pc = "idle" /\ sess # "running" => snap # NoGraph /\ snap.status = sess)
<1>1. RowFollowsGraph => (pc = "idle" /\ sess # "running" => snap # NoGraph /\ snap.status = sess)
  BY DEF RowFollowsGraph
<1> QED
  BY <1>1, RowAlwaysFollows, PTL

-----------------------------------------------------------------------------
(* The stream of its events                                                  *)

\* The revisions waiting in the channel, in the order they were published.
Waiting == {chan[i] : i \in 1..Len(chan)}

Ordered ==
  /\ \A i \in 1..Len(chan) : chan[i] <= published
  /\ \A i, j \in 1..Len(chan) : i < j => chan[i] < chan[j]

Counted ==
  /\ published \in Nat /\ last \in Nat /\ chan \in Seq(Nat)
  /\ published <= Len(events)
  /\ viewer \in {"api", "web"} /\ link \in {"off", "listed", "live"}

\* Nothing waits for whoever does not listen.
Silent == link # "live" => chan = <<>>

\* What was published after the last revision delivered waits, or met a viewer
\* that could not take it: this is what makes NothingElseLost inductive.
Followed ==
  viewer = "api" /\ link # "off" =>
    \A r \in Nat : last < r /\ r <= published => r \in Waiting \cup unseen

StreamInv == Counted /\ Ordered /\ Silent /\ Followed /\ NothingElseLost

-----------------------------------------------------------------------------
(* The runtime                                                              *)

\* Whoever watches, the steps of the runtime are those of SessionRuntime.
LEMMA StepOfRuntime == [StreamNext]_allVars => [Next]_vars
<1> SUFFICES ASSUME [StreamNext]_allVars PROVE [Next]_vars
  OBVIOUS
<1> USE DEF Viewer
<1>1. CASE RuntimeStep
  BY <1>1 DEF RuntimeStep, Next
<1>2. CASE CrashLosesStream
  BY <1>2 DEF CrashLosesStream, Next
<1>3. CASE PostResume
  BY <1>3, StreamAssumption DEF PostResume, Next, vars
<1>4. CASE Replay \/ Subscribe \/ Follow \/ Connect \/ Deliver \/ Publish \/ Disconnect
  BY <1>4 DEF Replay, Subscribe, Follow, Connect, Deliver, Publish, Disconnect
<1>5. CASE OpenSession \/ ActivateStarted \/ HandleResumeClick
  BY <1>5 DEF OpenSession, ActivateStarted, HandleResumeClick, Load
<1>6. CASE AnswerGraph \/ ReceiveGraph \/ LoadFails
  BY <1>6 DEF AnswerGraph, ReceiveGraph, LoadFails
<1>7. CASE UNCHANGED allVars
  BY <1>7 DEF allVars
<1> QED
  BY <1>1, <1>2, <1>3, <1>4, <1>5, <1>6, <1>7 DEF StreamNext

\* The log of a session only grows.
LEMMA LogLonger ==
  ASSUME events \in Seq(Event), NEW u \in EventType, NEW m \in Node \cup {NoNode}
  PROVE  /\ Log(<<Ev(u, m)>>) => Len(events') >= Len(events)
         /\ \A v \in EventType, k \in Node \cup {NoNode} :
              Log(<<Ev(u, m), Ev(v, k)>>) => Len(events') >= Len(events)
<1>1. Ev(u, m) \in Event /\ \A v \in EventType, k \in Node \cup {NoNode} : Ev(v, k) \in Event
  BY DEF Ev, Event
<1> QED
  BY <1>1 DEF Log

LEMMA EventsGrow == IndInv /\ [Next]_vars => Len(events') >= Len(events) /\ Len(events) \in Nat
<1> SUFFICES ASSUME IndInv, [Next]_vars PROVE Len(events') >= Len(events) /\ Len(events) \in Nat
  OBVIOUS
<1>typed. events \in Seq(Event) /\ Len(events) \in Nat /\ cur \in Node \cup {NoNode} /\ NoNode \in Node \cup {NoNode}
  BY DEF IndInv, TypeOK
<1>1. CASE UNCHANGED events
  BY <1>1, <1>typed
<1>2. CASE LogCreated
  BY <1>2, <1>typed, LogLonger DEF LogCreated, EventType
<1>3. CASE LogStarted \/ ExecuteOk \/ VerifyPassed \/ LogRetry
  BY <1>3, <1>typed, LogLonger DEF LogStarted, ExecuteOk, VerifyPassed, LogRetry, EventType
<1>4. CASE LogFailed
  BY <1>4, <1>typed, LogLonger DEF LogFailed, EventType
<1>5. CASE LogPaused \/ LogCompleted
  BY <1>5, <1>typed, LogLonger DEF LogPaused, LogCompleted, EventType
<1>6. CASE LogCommand
  BY <1>6, <1>typed, LogLonger DEF LogCommand, EventType
<1>7. CASE StartRun \/ BuildGraph \/ SaveOnReturn \/ HandleResume \/ HandleRetryNode
           \/ HandleApproveCheckpoint \/ Fault \/ Crash \/ Restart \/ UNCHANGED vars
           \/ (\E c \in ClientCommand : Send(c))
  BY <1>7, <1>1 DEF StartRun, BuildGraph, SaveOnReturn, HandleResume, HandleRetryNode,
     HandleApproveCheckpoint, Receive, Fault, Crash, Restart, Send, durable, vars
<1>8. CASE \/ ExecuteError \/ VerifyRetry \/ VerifyExhausted \/ SaveFailed \/ SavePaused
           \/ CompleteGraph \/ SaveCompleted \/ TickStops
           \/ (\E n \in Node : StartNode(n) \/ PauseAt(n))
  BY <1>8, <1>1 DEF ExecuteError, FailNode, VerifyRetry, VerifyExhausted, SaveFailed, SavePaused,
     CompleteGraph, SaveCompleted, TickStops, StartNode, PauseAt, durable
<1> QED
  BY <1>2, <1>3, <1>4, <1>5, <1>6, <1>7, <1>8 DEF Next, Actor, Tick

\* The viewers of a session add no behaviour to it, so that whatever is proved of
\* the runtime holds while it is watched (broker.go: Publish never waits).
THEOREM WatchedRuntime == StreamSpec => Spec
<1>1. StreamInit => Init
  BY DEF StreamInit
<1> QED
  BY <1>1, StepOfRuntime, PTL DEF StreamSpec, Spec

-----------------------------------------------------------------------------
(* The stream                                                               *)

LEMMA StreamInitInv == StreamInit => StreamInv
BY DEF StreamInit, Init, StreamInv, Counted, Ordered, Silent, Followed, NothingElseLost, Waiting

\* Steps that touch neither the channel nor what the viewer has.
LEMMA KeptStream ==
  ASSUME StreamInv, Len(events) \in Nat, Len(events') >= Len(events),
         UNCHANGED <<published, viewer, link, chan, last, got, unseen>>, Len(events') \in Nat
  PROVE  StreamInv'
BY DEF StreamInv, Counted, Ordered, Silent, Followed, NothingElseLost, Waiting

LEMMA PublishInv ==
  ASSUME StreamInv, Publish, Len(events) \in Nat
  PROVE  StreamInv'
<1> DEFINE taken == link = "live" /\ Len(chan) < Cap
<1>1. /\ published' = published + 1 /\ published < Len(events) /\ published \in Nat
      /\ UNCHANGED <<events, viewer, link, last, got>>
  BY DEF Publish, StreamInv, Counted, vars
<1>2. /\ chan' = IF taken THEN Append(chan, published + 1) ELSE chan
      /\ unseen' = IF taken \/ link = "off" \/ viewer = "web" THEN unseen
                   ELSE unseen \cup {published + 1}
  BY <1>1 DEF Publish
<1>3. unseen \subseteq unseen'
  BY <1>2
<1>4. chan \in Seq(Nat) /\ chan' \in Seq(Nat)
  BY <1>1, <1>2 DEF StreamInv, Counted
<1> HIDE DEF taken
<1>5. CASE taken
  <2>1. /\ chan' = Append(chan, published + 1) /\ Len(chan') = Len(chan) + 1 /\ Len(chan) \in Nat
        /\ \A i \in 1..Len(chan) : chan'[i] = chan[i]
        /\ chan'[Len(chan) + 1] = published + 1
    BY <1>1, <1>2, <1>4, <1>5
  <2>2. \A i \in 1..Len(chan) : chan[i] \in Nat /\ chan[i] <= published
    BY <1>4 DEF StreamInv, Ordered
  <2>3. Ordered'
    BY <1>1, <2>1, <2>2 DEF StreamInv, Ordered
  <2>4. Waiting' = Waiting \cup {published + 1}
    BY <2>1 DEF Waiting
  <2>5. link = "live"
    BY <1>5 DEF taken
  <2> QED
    BY <1>1, <1>3, <1>4, <2>3, <2>4, <2>5
       DEF StreamInv, Counted, Silent, Followed, NothingElseLost
<1>6. CASE ~taken
  <2>1. chan' = chan
    BY <1>2, <1>6
  <2>2. Ordered'
    BY <1>1, <1>4, <2>1 DEF StreamInv, Ordered
  <2>3. Waiting' = Waiting
    BY <2>1 DEF Waiting
  <2>4. viewer = "api" /\ link # "off" => published + 1 \in unseen'
    BY <1>2, <1>6
  <2> QED
    BY <1>1, <1>3, <1>4, <2>1, <2>2, <2>3, <2>4
       DEF StreamInv, Counted, Silent, Followed, NothingElseLost
<1> QED
  BY <1>5, <1>6

LEMMA HangupInv ==
  ASSUME StreamInv, Hangup, UNCHANGED <<events, viewer, last, got, unseen>>,
         published' = published \/ published' = Len(events), Len(events) \in Nat
  PROVE  StreamInv'
BY DEF Hangup, StreamInv, Counted, Ordered, Silent, Followed, NothingElseLost, Waiting

\* The replay reaches the end of the log, which what is published is behind.
LEMMA ReplayInv ==
  ASSUME StreamInv, Replay, Len(events) \in Nat
  PROVE  StreamInv'
<1>1. /\ UNCHANGED <<events, published, viewer, chan, unseen>> /\ viewer = "api" /\ link' = "listed"
      /\ link = "off" /\ chan = <<>>
      /\ got' = got \cup (last + 1 .. Len(events))
      /\ last' = IF Len(events) > last THEN Len(events) ELSE last
  BY DEF Replay, StreamInv, Silent, vars
<1>2. last' \in Nat /\ last' >= Len(events) /\ last' >= last
  BY <1>1 DEF StreamInv, Counted
<1>3. NothingElseLost'
  BY <1>1, <1>2 DEF StreamInv, Counted, NothingElseLost
<1>4. Followed'
  BY <1>1, <1>2 DEF StreamInv, Counted, Followed
<1> QED
  BY <1>1, <1>2, <1>3, <1>4 DEF StreamInv, Counted, Ordered, Silent

LEMMA FollowInv ==
  ASSUME StreamInv, Follow, Len(events) \in Nat
  PROVE  StreamInv'
<1>1. /\ UNCHANGED <<events, published, viewer, link, unseen>> /\ viewer = "api" /\ link = "live"
      /\ chan # <<>> /\ chan' = Tail(chan)
  BY DEF Follow, Take, vars
<1>2. chan \in Seq(Nat) /\ chan' \in Seq(Nat) /\ published \in Nat /\ last \in Nat
  BY <1>1 DEF StreamInv, Counted
<1>3. /\ Len(chan) \in Nat /\ Len(chan) > 0 /\ Len(chan') = Len(chan) - 1
      /\ \A i \in 1..Len(chan') : chan'[i] = chan[i + 1]
      /\ Head(chan) = chan[1] /\ chan[1] \in Nat
      /\ \A i \in 1..Len(chan) : chan[i] \in Nat
  BY <1>1, <1>2
<1>4. Ordered'
  <2>1. \A i \in 1..Len(chan') : i + 1 \in 1..Len(chan) /\ chan'[i] = chan[i + 1]
    BY <1>3
  <2>2. \A i \in 1..Len(chan') : chan'[i] <= published
    BY <2>1 DEF StreamInv, Ordered
  <2>3. \A i, j \in 1..Len(chan') : i < j => i + 1 < j + 1
    BY <1>3
  <2>4. \A i, j \in 1..Len(chan') : i < j => chan'[i] < chan'[j]
    BY <2>1, <2>3 DEF StreamInv, Ordered
  <2> QED
    BY <1>1, <2>2, <2>4 DEF Ordered
<1>5. Waiting \subseteq Waiting' \cup {Head(chan)}
  <2>1. \A i \in 1..Len(chan) : i = 1 \/ (i - 1 \in 1..Len(chan') /\ chan'[i - 1] = chan[i])
    BY <1>3
  <2> SUFFICES ASSUME NEW r \in Waiting, r # Head(chan) PROVE r \in Waiting'
    OBVIOUS
  <2>2. PICK i \in 1..Len(chan) : chan[i] = r
    BY DEF Waiting
  <2>3. i - 1 \in 1..Len(chan') /\ chan'[i - 1] = r
    BY <1>3, <2>1, <2>2
  <2> QED
    BY <2>3 DEF Waiting
<1>6. \A r \in Waiting : Head(chan) <= r
  <2>1. \A i \in 1..Len(chan) : i = 1 \/ 1 < i
    BY <1>3
  <2> QED
    BY <1>3, <2>1 DEF StreamInv, Ordered, Waiting
<1>7. last' \in Nat /\ got \subseteq got' /\ last' \in {last, Head(chan)} /\ Head(chan) <= last'
      /\ last <= last' /\ (last' # last => Head(chan) \in got')
  BY <1>2, <1>3 DEF Follow
<1>8. Followed'
  BY <1>1, <1>2, <1>3, <1>5, <1>7 DEF StreamInv, Followed
<1>9. \A r \in Nat : last < r /\ r < Head(chan) => r \in unseen
  <2> SUFFICES ASSUME NEW r \in Nat, last < r, r < Head(chan) PROVE r \in unseen
    OBVIOUS
  <2>1. Head(chan) <= published
    BY <1>3 DEF StreamInv, Ordered
  <2>2. r <= published
    BY <1>2, <1>3, <2>1
  <2>3. r \notin Waiting
    BY <1>3, <1>6
  <2> QED
    BY <1>1, <2>2, <2>3 DEF StreamInv, Followed
<1>10. NothingElseLost'
  <2> SUFFICES ASSUME NEW r \in 1..last', r \notin got' PROVE r \in unseen
    BY <1>1 DEF NothingElseLost
  <2>1. r \in Nat /\ r >= 1 /\ r <= last' /\ r \notin got
    BY <1>7
  <2>2. CASE r <= last
    <3>1. r \in 1..last
      BY <1>2, <2>1, <2>2
    <3> QED
      BY <1>1, <2>1, <3>1 DEF StreamInv, NothingElseLost
  <2>3. CASE last < r
    <3>1. last' = Head(chan) /\ Head(chan) \in got'
      BY <1>2, <1>7, <2>1, <2>3
    <3>2. r # Head(chan) /\ r <= Head(chan)
      BY <2>1, <3>1
    <3>3. r < Head(chan)
      BY <1>3, <2>1, <3>2
    <3> QED
      BY <1>9, <2>1, <2>3, <3>3
  <2> QED
    BY <1>2, <2>1, <2>2, <2>3
<1> QED
  BY <1>1, <1>2, <1>4, <1>7, <1>8, <1>10 DEF StreamInv, Counted, Silent

\* What the page takes leaves the rest of the channel in order.
LEMMA DeliverInv ==
  ASSUME StreamInv, Deliver, Len(events) \in Nat
  PROVE  StreamInv'
<1>1. /\ UNCHANGED <<events, published, viewer, link, last, got, unseen>> /\ viewer = "web" /\ link = "live"
      /\ chan # <<>> /\ chan' = Tail(chan)
  BY DEF Deliver, replay, vars
<1>2. chan \in Seq(Nat) /\ chan' \in Seq(Nat)
  BY <1>1 DEF StreamInv, Counted
<1>3. \A i \in 1..Len(chan') : i + 1 \in 1..Len(chan) /\ chan'[i] = chan[i + 1]
  BY <1>1, <1>2
<1>4. \A i, j \in 1..Len(chan') : i < j => i + 1 < j + 1
  BY <1>2
<1>5. Ordered'
  BY <1>1, <1>3, <1>4 DEF StreamInv, Ordered
<1> QED
  BY <1>1, <1>2, <1>5 DEF StreamInv, Counted, Silent, Followed, NothingElseLost

LEMMA StreamStep == IndInv /\ IndInv' /\ StreamInv /\ [StreamNext]_allVars => StreamInv'
<1> SUFFICES ASSUME IndInv, IndInv', StreamInv, [StreamNext]_allVars PROVE StreamInv'
  OBVIOUS
<1>1. Len(events) \in Nat /\ Len(events') \in Nat /\ Len(events') >= Len(events)
  BY StepOfRuntime, EventsGrow DEF IndInv, TypeOK
<1>2. CASE Publish
  BY <1>1, <1>2, PublishInv
<1>3. CASE Disconnect
  BY <1>1, <1>3, HangupInv DEF Disconnect, replay, vars
<1>4. CASE CrashLosesStream
  BY <1>1, <1>4, HangupInv DEF CrashLosesStream, Crash, durable, replay
<1>5. CASE Replay
  BY <1>1, <1>5, ReplayInv
<1>6. CASE Follow
  BY <1>1, <1>6, FollowInv
<1>7. CASE Deliver
  BY <1>1, <1>7, DeliverInv
<1>8. CASE Subscribe
  BY <1>8 DEF Subscribe, StreamInv, Counted, Ordered, Silent, Followed, NothingElseLost, Waiting, replay, vars
<1>9. CASE Connect
  BY <1>9 DEF Connect, StreamInv, Counted, Ordered, Silent, Followed, NothingElseLost, Waiting, replay, vars
<1>10. CASE RuntimeStep \/ PostResume \/ UNCHANGED allVars
  BY <1>1, <1>10, KeptStream DEF RuntimeStep, PostResume, streamVars, allVars, replay
<1>11. CASE OpenSession \/ ActivateStarted \/ HandleResumeClick \/ AnswerGraph \/ ReceiveGraph \/ LoadFails
  BY <1>1, <1>11, KeptStream DEF OpenSession, ActivateStarted, HandleResumeClick, Load, AnswerGraph,
     ReceiveGraph, LoadFails, replay
<1> QED
  BY <1>2, <1>3, <1>4, <1>5, <1>6, <1>7, <1>8, <1>9, <1>10, <1>11 DEF StreamNext, Viewer

THEOREM StreamInvariance == StreamSpec => [](IndInv /\ StreamInv)
<1>1. StreamInit => StreamInv
  BY StreamInitInv
<1>2. IndInv /\ IndInv' /\ StreamInv /\ [StreamNext]_allVars => StreamInv'
  BY StreamStep
<1> QED
  BY <1>1, <1>2, WatchedRuntime, Invariance, PTL DEF StreamSpec

\* For any capacity of the channels and any number of connections and crashes, a
\* revision the stream of a session passes over was published between the replay
\* and the subscription, or met a full channel (stream_handler.go, broker.go).
THEOREM OnlySeenLost == StreamSpec => []NothingElseLost
<1>1. StreamInv => NothingElseLost
  BY DEF StreamInv
<1> QED
  BY <1>1, StreamInvariance, PTL

\* The stream of a session never goes back or repeats itself, across connections
\* and restarts (stream_handler.go).
THEOREM StreamGoesForward == StreamSpec => InOrder
<1>1. IndInv /\ StreamInv /\ [StreamNext]_allVars
        => (last' >= last /\ \A r \in got' \ got : r > last) \/ UNCHANGED allVars
  <2> SUFFICES ASSUME IndInv, StreamInv, [StreamNext]_allVars
               PROVE  last' >= last /\ \A r \in got' \ got : r > last
    OBVIOUS
  <2>1. last \in Nat /\ chan \in Seq(Nat) /\ Len(events) \in Nat
    BY DEF IndInv, TypeOK, StreamInv, Counted
  <2>2. CASE UNCHANGED <<last, got>>
    BY <2>1, <2>2
  <2>3. CASE Replay
    BY <2>1, <2>3 DEF Replay
  <2>4. CASE Follow
    <3>1. Head(chan) \in Nat
      BY <2>1, <2>4 DEF Follow, Take
    <3> QED
      BY <2>1, <2>4, <3>1 DEF Follow
  <2>5. CASE RuntimeStep \/ PostResume \/ Publish \/ Disconnect \/ CrashLosesStream \/ UNCHANGED allVars
    BY <2>2, <2>5 DEF RuntimeStep, PostResume, Publish, Disconnect, CrashLosesStream, streamVars, allVars, replay
  <2>6. CASE \/ OpenSession \/ ActivateStarted \/ HandleResumeClick \/ AnswerGraph \/ ReceiveGraph
             \/ LoadFails \/ Subscribe \/ Connect \/ Deliver
    BY <2>2, <2>6 DEF OpenSession, ActivateStarted, HandleResumeClick, Load, AnswerGraph, ReceiveGraph,
       LoadFails, Subscribe, Connect, Deliver, replay
  <2> QED
    BY <2>3, <2>4, <2>5, <2>6 DEF StreamNext, Viewer
<1> QED
  BY <1>1, StreamInvariance, PTL DEF StreamSpec, InOrder

-----------------------------------------------------------------------------
(* The end of a session and the page                                        *)

EndTypes == {"graph_completed", "graph_failed"}

\* What the page was not told yet.
Untold == Waiting \cup (published + 1 .. Len(events))

LastEnd(r) == r \in 1..Len(events) /\ Ends(r) /\ \A q \in 1..Len(events) : q > r => ~Ends(q)

Ended == sess \in {"done", "failed"} /\ pc \in {"save", "idle"}

EndEvent(status) == IF status = "done" THEN "graph_completed" ELSE "graph_failed"

\* If the last end is still to be told, it is the one the row has.
ToldLast == Ended => \A r \in Untold : LastEnd(r) => events[r].type = EndEvent(sess)

\* The page shows the end of a session, or it is still to be told the last one.
ShownOrTold ==
  viewer = "web" /\ ~outdated /\ Ended => page.run = sess \/ \E r \in Untold : LastEnd(r)

\* Nothing is on its way from a process that is gone.
DownIsCut ==
  pc = "down" => chan = <<>> /\ published = Len(events) /\ fetch.stage = "none" /\ (viewer = "web" => outdated)

\* The actor waits for the store, so that at most one end is unpublished, and it
\* is the last event.
OneUnpublished == \A r \in published + 1 .. Len(events) : Ends(r) => r = Len(events)

Shapes ==
  /\ page = [run |-> page.run, node |-> page.node]
  /\ \A i \in 1..Len(chan) : chan[i] >= 1

EndInv == ToldLast /\ ShownOrTold /\ DownIsCut /\ OneUnpublished /\ Shapes

LEMMA AppendsOne ==
  ASSUME events \in Seq(Event), NEW u \in EventType, NEW m \in Node \cup {NoNode}, Log(<<Ev(u, m)>>)
  PROVE  /\ Len(events') = Len(events) + 1 /\ events'[Len(events')].type = u
         /\ \A i \in 1..Len(events) : events'[i] = events[i]
<1>1. Ev(u, m) \in Event /\ Ev(u, m).type = u
  BY DEF Ev, Event
<1>2. events' = events \o <<Ev(u, m)>>
  BY DEF Log
<1> QED
  BY <1>1, <1>2

LEMMA AppendsTwo ==
  ASSUME events \in Seq(Event), NEW u \in EventType, NEW v \in EventType,
         NEW m \in Node \cup {NoNode}, NEW k \in Node \cup {NoNode}, Log(<<Ev(u, m), Ev(v, k)>>)
  PROVE  /\ Len(events') = Len(events) + 2 /\ events'[Len(events')].type = v
         /\ events'[Len(events) + 1].type = u
         /\ \A i \in 1..Len(events) : events'[i] = events[i]
<1>1. Ev(u, m) \in Event /\ Ev(u, m).type = u /\ Ev(v, k) \in Event /\ Ev(v, k).type = v
  BY DEF Ev, Event
<1>2. events' = events \o <<Ev(u, m), Ev(v, k)>>
  BY DEF Log
<1> QED
  BY <1>1, <1>2

\* What a step of the runtime may add to the log: an end only last.
Appends ==
  /\ Len(events') \in Nat /\ Len(events') > Len(events)
  /\ \A i \in 1..Len(events) : events'[i] = events[i]
  /\ \A r \in Len(events) + 1 .. Len(events') : Ends(r)' => r = Len(events')

LEMMA StepAppends == IndInv /\ [Next]_vars => Appends \/ UNCHANGED events
<1> SUFFICES ASSUME IndInv, [Next]_vars PROVE Appends \/ UNCHANGED events
  OBVIOUS
<1>typed. events \in Seq(Event) /\ Len(events) \in Nat /\ cur \in Node \cup {NoNode} /\ NoNode \in Node \cup {NoNode}
  BY DEF IndInv, TypeOK
<1>one. ASSUME NEW u \in EventType, NEW m \in Node \cup {NoNode}, Log(<<Ev(u, m)>>) PROVE Appends
  BY <1>typed, <1>one, AppendsOne DEF Appends, Ends
<1>two. ASSUME NEW u \in EventType \ EndTypes, NEW v \in EventType,
               NEW m \in Node \cup {NoNode}, NEW k \in Node \cup {NoNode}, Log(<<Ev(u, m), Ev(v, k)>>)
        PROVE  Appends
  <2>1. /\ Len(events') = Len(events) + 2 /\ events'[Len(events')].type = v
        /\ events'[Len(events) + 1].type = u
        /\ \A i \in 1..Len(events) : events'[i] = events[i]
    BY <1>typed, <1>two, AppendsTwo
  <2>2. \A r : r = Len(events) + 1 => ~Ends(r)'
    BY <1>two, <2>1 DEF Ends, EndTypes
  <2>3. \A r \in Len(events) + 1 .. Len(events') : r = Len(events) + 1 \/ r = Len(events')
    BY <1>typed, <2>1
  <2> QED
    BY <1>typed, <2>1, <2>2, <2>3 DEF Appends
<1>2. CASE LogCreated
  <2>1. "session_created" \in EventType \ EndTypes /\ "graph_initialized" \in EventType
    BY DEF EventType, EndTypes
  <2>2. Log(<<Ev("session_created", NoNode), Ev("graph_initialized", NoNode)>>)
    BY <1>2 DEF LogCreated
  <2> QED
    BY <1>typed, <1>two, <2>1, <2>2
<1>3. CASE LogStarted \/ ExecuteOk \/ VerifyPassed \/ LogRetry
  BY <1>3, <1>typed, <1>one DEF LogStarted, ExecuteOk, VerifyPassed, LogRetry, EventType
<1>4. CASE LogFailed
  <2>1. "node_failed" \in EventType \ EndTypes /\ "graph_failed" \in EventType
    BY DEF EventType, EndTypes
  <2>2. Log(<<Ev("node_failed", cur), Ev("graph_failed", NoNode)>>)
    BY <1>4 DEF LogFailed
  <2> QED
    BY <1>typed, <1>two, <2>1, <2>2
<1>5. CASE LogPaused \/ LogCompleted
  BY <1>5, <1>typed, <1>one DEF LogPaused, LogCompleted, EventType
<1>6. CASE LogCommand
  BY <1>6, <1>typed, <1>one DEF LogCommand, EventType
<1>7. CASE StartRun \/ BuildGraph \/ SaveOnReturn \/ HandleResume \/ HandleRetryNode
           \/ HandleApproveCheckpoint \/ Fault \/ Crash \/ Restart \/ UNCHANGED vars
           \/ (\E c \in ClientCommand : Send(c))
  BY <1>7 DEF StartRun, BuildGraph, SaveOnReturn, HandleResume, HandleRetryNode,
     HandleApproveCheckpoint, Receive, Fault, Crash, Restart, Send, durable, vars
<1>8. CASE \/ ExecuteError \/ VerifyRetry \/ VerifyExhausted \/ SaveFailed \/ SavePaused
           \/ CompleteGraph \/ SaveCompleted \/ TickStops
           \/ (\E n \in Node : StartNode(n) \/ PauseAt(n))
  BY <1>8 DEF ExecuteError, FailNode, VerifyRetry, VerifyExhausted, SaveFailed, SavePaused,
     CompleteGraph, SaveCompleted, TickStops, StartNode, PauseAt, durable
<1> QED
  BY <1>2, <1>3, <1>4, <1>5, <1>6, <1>7, <1>8 DEF Next, Actor, Tick

\* A session comes to its end by the event that says so, or is found ended when
\* the process starts again.
LEMMA StepEnds ==
  IndInv /\ RowFollowsGraph /\ [Next]_vars /\ Ended' =>
    \/ Ended /\ UNCHANGED <<sess, events>>
    \/ Appends /\ events'[Len(events')].type = EndEvent(sess')
    \/ pc = "down" /\ UNCHANGED events
<1> SUFFICES ASSUME IndInv, RowFollowsGraph, [Next]_vars, Ended'
             PROVE  \/ Ended /\ UNCHANGED <<sess, events>>
                    \/ Appends /\ events'[Len(events')].type = EndEvent(sess')
                    \/ pc = "down" /\ UNCHANGED events
  OBVIOUS
<1> USE DEF Ended
<1>typed. events \in Seq(Event) /\ Len(events) \in Nat /\ cur \in Node \cup {NoNode} /\ NoNode \in Node \cup {NoNode}
  BY DEF IndInv, TypeOK
<1>1. CASE StartRun \/ BuildGraph \/ LogCreated \/ LogStarted \/ VerifyPassed \/ LogRetry \/ VerifyRetry
           \/ ExecuteOk \/ LogCommand \/ ExecuteError \/ VerifyExhausted \/ CompleteGraph
           \/ SaveFailed \/ SavePaused \/ SaveCompleted
           \/ \E n \in Node : StartNode(n) \/ PauseAt(n)
  <2>1. pc' \in Working \ {"save"}
    BY <1>1 DEF StartRun, BuildGraph, LogCreated, LogStarted, VerifyPassed, LogRetry, VerifyRetry, ExecuteOk,
       LogCommand, ExecuteError, VerifyExhausted, FailNode, CompleteGraph, SaveFailed, SavePaused,
       SaveCompleted, StartNode, PauseAt, Go, Working
  <2> QED
    BY <2>1 DEF Working
<1>2. CASE LogFailed
  <2>1. /\ pc = "fail_log" /\ sess' = sess /\ Log(<<Ev("node_failed", cur), Ev("graph_failed", NoNode)>>)
    BY <1>2 DEF LogFailed
  <2>2. sess' = "failed"
    BY <2>1 DEF RowFollowsGraph, RowIs
  <2>3. events'[Len(events')].type = "graph_failed" /\ Len(events') = Len(events) + 2
    BY <1>typed, <2>1, AppendsTwo DEF EventType
  <2>4. Appends
    BY <1>typed, <2>3, StepAppends
  <2> QED
    BY <2>2, <2>3, <2>4 DEF EndEvent
<1>3. CASE LogCompleted
  <2>1. /\ pc = "done_log" /\ sess' = sess /\ Log(<<Ev("graph_completed", NoNode)>>)
    BY <1>3 DEF LogCompleted
  <2>2. sess' = "done"
    BY <2>1 DEF RowFollowsGraph, RowIs
  <2>3. events'[Len(events')].type = "graph_completed" /\ Len(events') = Len(events) + 1
    BY <1>typed, <2>1, AppendsOne DEF EventType
  <2>4. Appends
    BY <1>typed, <2>3, StepAppends
  <2> QED
    BY <2>2, <2>3, <2>4 DEF EndEvent
<1>4. CASE LogPaused \/ TickStops
  <2>1. pc \in {"pause_log", "tick"} /\ sess' = sess
    BY <1>4 DEF LogPaused, TickStops, durable
  <2> QED
    BY <2>1 DEF RowFollowsGraph, RowIs, AtRow
<1>5. CASE SaveOnReturn \/ UNCHANGED vars \/ \E c \in ClientCommand : Send(c)
  <2>1. /\ pc = "save" \/ pc' = pc
        /\ UNCHANGED <<sess, events>>
    BY <1>5 DEF SaveOnReturn, Send, vars, durable
  <2> QED
    BY <2>1
<1>6. CASE HandleResume \/ HandleRetryNode \/ HandleApproveCheckpoint
  BY <1>6 DEF HandleResume, HandleRetryNode, HandleApproveCheckpoint, Receive
<1>7. CASE Fault \/ Crash
  BY <1>7 DEF Fault, Crash
<1>8. CASE Restart
  BY <1>8 DEF Restart
<1> QED
  BY <1>1, <1>2, <1>3, <1>4, <1>5, <1>6, <1>7, <1>8 DEF Next, Actor, Tick
-----------------------------------------------------------------------------

LEMMA EndOfRuntime ==
  ASSUME IndInv, IndInv', RowFollowsGraph, StreamInv, EndInv, RuntimeStep
  PROVE  EndInv'
<1>1. /\ UNCHANGED <<published, viewer, chan, page, fetch, outdated>> /\ [Next]_vars
  BY DEF RuntimeStep, Next, streamVars
<1>2. pc' # "down"
  <2>1. CASE StartRun \/ Restart \/ Fault \/ \E c \in ClientCommand : Send(c)
    BY <2>1 DEF StartRun, Restart, Fault, Send, Managed, Working, Go
  <2>2. CASE Actor
    BY <2>2 DEF Actor, Tick, BuildGraph, LogCreated, SaveOnReturn, HandleResume, HandleRetryNode,
       HandleApproveCheckpoint, LogCommand, StartNode, PauseAt, LogStarted, ExecuteOk, ExecuteError,
       VerifyPassed, VerifyRetry, VerifyExhausted, FailNode, LogRetry, SaveFailed, LogFailed, SavePaused,
       LogPaused, CompleteGraph, SaveCompleted, LogCompleted, TickStops, Return, Go
  <2> QED
    BY <2>1, <2>2 DEF RuntimeStep
<1>3. published \in Nat /\ Len(events) \in Nat /\ Len(events') \in Nat /\ chan \in Seq(Nat)
  BY DEF IndInv, TypeOK, StreamInv, Counted
<1>4. Appends => published = Len(events)
  BY <1>3 DEF RuntimeStep, AppendReturned, Appends, StartRun, Restart, Send, durable
<1>5. OneUnpublished'
  <2>1. CASE Appends
    BY <1>1, <1>4, <2>1 DEF OneUnpublished, Appends
  <2>2. CASE UNCHANGED events
    BY <1>1, <2>2 DEF EndInv, OneUnpublished, Ends
  <2> QED
    BY <1>1, <2>1, <2>2, StepAppends
<1>6. ToldLast' /\ ShownOrTold'
  <2> SUFFICES ASSUME Ended'
               PROVE  /\ \A r \in Untold' : LastEnd(r)' => events'[r].type = EndEvent(sess')
                      /\ viewer = "web" /\ ~outdated => page.run = sess' \/ \E r \in Untold' : LastEnd(r)'
    BY <1>1 DEF ToldLast, ShownOrTold
  <2>1. CASE Ended /\ UNCHANGED <<sess, events>>
    <3>1. Untold' = Untold /\ \A r : LastEnd(r)' = LastEnd(r)
      BY <1>1, <2>1 DEF Untold, Waiting, LastEnd, Ends
    <3> QED
      BY <2>1, <3>1 DEF EndInv, ToldLast, ShownOrTold
  <2>2. CASE Appends /\ events'[Len(events')].type = EndEvent(sess')
    <3> PICK r : r = Len(events')
      OBVIOUS
    <3>1. Ends(r)' /\ events'[r].type = EndEvent(sess')
      BY <2>2 DEF Ends, EndEvent
    <3>2. r \in 1..Len(events') /\ r \in published + 1 .. Len(events')
      BY <1>3, <1>4, <2>2 DEF Appends
    <3>3. \A q : LastEnd(q)' <=> q = r
      BY <1>3, <3>1, <3>2 DEF LastEnd
    <3>4. r \in Untold'
      BY <1>1, <3>2 DEF Untold
    <3> QED
      BY <3>1, <3>3, <3>4
  <2>3. CASE pc = "down" /\ UNCHANGED events
    <3>1. chan' = <<>> /\ published' = Len(events') /\ (viewer = "web" => outdated)
      BY <1>1, <2>3 DEF EndInv, DownIsCut
    <3>2. Untold' = {}
      BY <1>3, <3>1 DEF Untold, Waiting
    <3> QED
      BY <3>1, <3>2
  <2> QED
    BY <1>1, <2>1, <2>2, <2>3, StepEnds
<1>7. Shapes'
  BY <1>1 DEF EndInv, Shapes
<1> QED
  BY <1>2, <1>5, <1>6, <1>7 DEF EndInv, DownIsCut

\* Steps of the stream that leave the runtime, the channel and the page alone.
LEMMA EndKept ==
  ASSUME EndInv, UNCHANGED <<sess, events, pc, published, viewer, chan, page, outdated>>,
         fetch' = fetch \/ pc # "down"
  PROVE  EndInv'
BY DEF EndInv, ToldLast, ShownOrTold, DownIsCut, OneUnpublished, Shapes, Ended, Untold, Waiting, LastEnd, Ends

\* Steps that only set what the page shows.
LEMMA EndOfPage ==
  ASSUME EndInv, UNCHANGED <<sess, events, pc, published, viewer, chan>>,
         page' = [run |-> page'.run, node |-> page'.node], pc # "down",
         viewer = "web" /\ ~outdated' /\ Ended => page'.run = sess \/ (~outdated /\ page'.run = page.run)
  PROVE  EndInv'
<1>1. Untold' = Untold /\ (\A r : LastEnd(r)' = LastEnd(r)) /\ Ended' = Ended
  BY DEF Untold, Waiting, LastEnd, Ends, Ended
<1>2. ToldLast'
  BY <1>1 DEF EndInv, ToldLast
<1>3. ShownOrTold'
  BY <1>1 DEF EndInv, ShownOrTold
<1> QED
  BY <1>2, <1>3 DEF EndInv, DownIsCut, OneUnpublished, Shapes, Ends

LEMMA EndOfPublish ==
  ASSUME IndInv, StreamInv, EndInv, Publish
  PROVE  EndInv'
<1> DEFINE taken == link = "live" /\ Len(chan) < Cap
<1>1. /\ UNCHANGED <<sess, events, pc, viewer, page>> /\ published < Len(events) /\ published' = published + 1
      /\ published \in Nat /\ Len(events) \in Nat /\ chan \in Seq(Nat)
      /\ chan' = IF taken THEN Append(chan, published + 1) ELSE chan
      /\ outdated' = (outdated \/ (viewer = "web" /\ ~taken /\ Ends(published + 1)))
  BY DEF Publish, vars, IndInv, TypeOK, StreamInv, Counted
<1> HIDE DEF taken
<1>2. (\A r : LastEnd(r)' = LastEnd(r)) /\ Ended' = Ended
  BY <1>1 DEF LastEnd, Ends, Ended
<1>3. Waiting' = (IF taken THEN Waiting \cup {published + 1} ELSE Waiting)
  <2>1. CASE taken
    <3>1. /\ Len(chan') = Len(chan) + 1 /\ Len(chan) \in Nat
          /\ \A i \in 1..Len(chan) : chan'[i] = chan[i]
          /\ chan'[Len(chan) + 1] = published + 1
      BY <1>1, <2>1
    <3> QED
      BY <2>1, <3>1 DEF Waiting
  <2>2. CASE ~taken
    BY <1>1, <2>2 DEF Waiting
  <2> QED
    BY <2>1, <2>2
<1>4. Untold' \subseteq Untold /\ Untold \subseteq Untold' \cup {published + 1}
      /\ (taken => published + 1 \in Untold')
  BY <1>1, <1>3 DEF Untold
<1>5. ToldLast'
  BY <1>1, <1>2, <1>4 DEF EndInv, ToldLast
<1>6. ShownOrTold'
  <2> SUFFICES ASSUME viewer = "web", ~outdated', Ended, page.run # sess
               PROVE  \E r \in Untold' : LastEnd(r)
    BY <1>1, <1>2 DEF ShownOrTold
  <2>1. PICK r \in Untold : LastEnd(r)
    BY <1>1 DEF EndInv, ShownOrTold
  <2>2. r = published + 1 => taken
    BY <1>1, <2>1 DEF LastEnd
  <2> QED
    BY <1>4, <2>1, <2>2
<1>7. OneUnpublished' /\ DownIsCut'
  BY <1>1 DEF EndInv, OneUnpublished, DownIsCut, Ends
<1>8. Shapes'
  <2>1. CASE taken
    BY <1>1, <2>1 DEF EndInv, Shapes
  <2>2. CASE ~taken
    BY <1>1, <2>2 DEF EndInv, Shapes
  <2> QED
    BY <2>1, <2>2
<1> QED
  BY <1>5, <1>6, <1>7, <1>8 DEF EndInv

LEMMA EndOfHangup ==
  ASSUME IndInv, StreamInv, EndInv, Hangup, UNCHANGED <<sess, events, viewer, page>>,
         (fetch' = fetch /\ published' = published /\ pc' = pc)
           \/ (fetch'.stage = "none" /\ published' = Len(events) /\ pc' = "down")
  PROVE  EndInv'
<1>1. /\ chan' = <<>> /\ outdated' = (viewer = "web") /\ published \in Nat /\ Len(events) \in Nat
  BY DEF Hangup, IndInv, TypeOK, StreamInv, Counted
<1>2. Untold' \subseteq Untold
  BY <1>1 DEF Untold, Waiting
<1>3. \A r : LastEnd(r)' = LastEnd(r)
  BY DEF LastEnd, Ends
<1>4. ToldLast'
  <2>1. Ended' => Ended
    BY DEF Ended
  <2> QED
    BY <1>2, <1>3, <2>1 DEF EndInv, ToldLast
<1>5. ShownOrTold'
  BY <1>1 DEF ShownOrTold
<1>8. Shapes'
  <2>1. Len(chan') = 0 /\ page' = page
    BY <1>1
  <2> QED
    BY <2>1 DEF EndInv, Shapes
<1>7. DownIsCut'
  BY <1>1 DEF EndInv, DownIsCut
<1>6. OneUnpublished'
  BY <1>1 DEF EndInv, OneUnpublished, Ends
<1> QED
  BY <1>4, <1>5, <1>6, <1>7, <1>8 DEF EndInv

-----------------------------------------------------------------------------

\* applyRealtimeEvent: only the message of an end takes an ended page elsewhere.
LEMMA AppliedShape ==
  ASSUME page = [run |-> page.run, node |-> page.node], NEW m
  PROVE  LET p == Applied(page, m) IN
         /\ p = [run |-> p.run, node |-> p.node]
         /\ m.type = "graph_done" => p.run = "done"
         /\ m.type = "graph_failed" => p.run = "failed"
         /\ m.type \notin {"graph_done", "graph_failed"} /\ page.run \in {"done", "failed"} => p.run = page.run
<1>1. CASE m.type = "node_update"
  BY <1>1 DEF Applied
<1>2. CASE m.type = "graph_done"
  BY <1>2 DEF Applied
<1>3. CASE m.type = "graph_failed"
  BY <1>3 DEF Applied
<1>4. CASE m.type \notin {"node_update", "graph_done", "graph_failed"}
  <2>1. Applied(page, m) = page
    BY <1>4 DEF Applied
  <2> QED
    BY <1>4, <2>1
<1> QED
  BY <1>1, <1>2, <1>3, <1>4

LEMMA ProjectedEnd ==
  ASSUME NEW e, snap # NoGraph, e.type \in EndTypes
  PROVE  Projected(e).type = IF e.type = "graph_completed" THEN "graph_done" ELSE "graph_failed"
<1>1. e.type \notin NodeEvent
  BY DEF EndTypes, NodeEvent
<1>2. CASE e.type = "graph_completed"
  <2>1. Projected(e) = [type |-> "graph_done"]
    BY <1>1, <1>2 DEF Projected
  <2> QED
    BY <1>2, <2>1
<1>3. CASE e.type = "graph_failed"
  <2>1. Projected(e) = [type |-> "graph_failed"]
    BY <1>1, <1>3 DEF Projected
  <2> QED
    BY <1>3, <2>1
<1> QED
  BY <1>2, <1>3 DEF EndTypes

LEMMA EndOfDeliver ==
  ASSUME IndInv, RowFollowsGraph, StreamInv, EndInv, Deliver
  PROVE  EndInv'
<1> DEFINE h == Head(chan)
           msg == Projected(events[h])
<1>1. /\ UNCHANGED <<sess, events, pc, published, viewer>> /\ viewer = "web"
      /\ chan # <<>> /\ chan' = Tail(chan)
      /\ page' = Applied(page, msg)
      /\ outdated' = IF Ends(h) THEN EndedAgain(h) ELSE outdated
  BY DEF Deliver, vars
<1>2. /\ chan \in Seq(Nat) /\ chan' \in Seq(Nat) /\ published \in Nat /\ Len(events) \in Nat
      /\ published <= Len(events)
  BY <1>1 DEF StreamInv, Counted, IndInv, TypeOK
<1>3. /\ Len(chan) \in Nat /\ Len(chan) > 0 /\ Len(chan') = Len(chan) - 1
      /\ \A i \in 1..Len(chan') : i + 1 \in 1..Len(chan) /\ chan'[i] = chan[i + 1]
      /\ h = chan[1] /\ h \in Nat
  BY <1>1, <1>2
<1>4. h >= 1 /\ h <= published /\ h \in 1..Len(events) /\ h \in Waiting
  BY <1>2, <1>3 DEF StreamInv, Ordered, EndInv, Shapes, Waiting
<1>5. Waiting' \subseteq Waiting /\ Waiting \subseteq Waiting' \cup {h}
  <2>1. \A i \in 1..Len(chan) : i = 1 \/ (i - 1 \in 1..Len(chan') /\ chan'[i - 1] = chan[i])
    BY <1>2, <1>3
  <2>2. Waiting' \subseteq Waiting
    BY <1>3 DEF Waiting
  <2> SUFFICES ASSUME NEW r \in Waiting, r # h PROVE r \in Waiting'
    BY <2>2
  <2>3. PICK i \in 1..Len(chan) : chan[i] = r
    BY DEF Waiting
  <2>4. i - 1 \in 1..Len(chan') /\ chan'[i - 1] = r
    BY <1>3, <2>1, <2>3
  <2> QED
    BY <2>4 DEF Waiting
<1>6. Untold' \subseteq Untold /\ Untold \subseteq Untold' \cup {h} /\ h \in Untold
  BY <1>1, <1>4, <1>5 DEF Untold
<1>7. (\A r : LastEnd(r)' = LastEnd(r)) /\ Ended' = Ended
  BY <1>1 DEF LastEnd, Ends, Ended
<1>8. page' = [run |-> page'.run, node |-> page'.node]
  BY <1>1, AppliedShape DEF EndInv, Shapes
<1>9. Shapes'
  BY <1>3, <1>8 DEF EndInv, Shapes
<1>10. ToldLast'
  BY <1>1, <1>6, <1>7 DEF EndInv, ToldLast
<1>11. OneUnpublished' /\ DownIsCut'
  <2>1. pc # "down"
    BY <1>1 DEF EndInv, DownIsCut
  <2> QED
    BY <1>1, <2>1 DEF EndInv, OneUnpublished, DownIsCut, Ends
<1>12. ShownOrTold'
  <2> SUFFICES ASSUME ~outdated', Ended, \A r \in Untold' : ~LastEnd(r)
               PROVE  page'.run = sess
    BY <1>1, <1>7 DEF ShownOrTold
  <2>1. CASE Ends(h)
    <3>1. \A q \in (h + 1) .. published : ~Ends(q)
      BY <1>1, <2>1 DEF EndedAgain
    <3>2. ASSUME NEW q \in 1..Len(events), q > h PROVE ~Ends(q)
      <4>1. CASE q <= published
        BY <1>2, <1>3, <3>1, <3>2, <4>1
      <4>2. CASE q > published /\ Ends(q)
        <5>1. q \in published + 1 .. Len(events)
          BY <1>2, <4>2
        <5>2. q = Len(events)
          BY <4>2, <5>1 DEF EndInv, OneUnpublished
        <5>3. LastEnd(q)
          BY <1>2, <4>2, <5>2 DEF LastEnd
        <5>4. q \in Untold'
          BY <1>1, <5>1 DEF Untold
        <5> QED
          BY <5>3, <5>4
      <4> QED
        BY <1>2, <4>1, <4>2
    <3>3. LastEnd(h)
      BY <1>4, <2>1, <3>2 DEF LastEnd
    <3>4. events[h].type = EndEvent(sess)
      BY <1>6, <3>3 DEF EndInv, ToldLast
    <3>5. snap # NoGraph /\ sess \in {"done", "failed"}
      BY DEF Ended, RowFollowsGraph
    <3>6. msg.type = IF sess = "done" THEN "graph_done" ELSE "graph_failed"
      BY <3>4, <3>5, ProjectedEnd DEF EndEvent, EndTypes
    <3> HIDE DEF msg
    <3> QED
      BY <1>1, <3>5, <3>6, AppliedShape DEF EndInv, Shapes
  <2>2. CASE ~Ends(h)
    <3>1. \A r \in Untold : ~LastEnd(r)
      BY <1>6, <2>2 DEF LastEnd
    <3>2. page.run = sess /\ sess \in {"done", "failed"}
      BY <1>1, <2>2, <3>1 DEF EndInv, ShownOrTold, Ended
    <3>3. msg.type \notin {"graph_done", "graph_failed"}
      BY <2>2 DEF Ends, Projected, NodeEvent, NodeUpdate
    <3> HIDE DEF msg
    <3> QED
      BY <1>1, <3>2, <3>3, AppliedShape DEF EndInv, Shapes
  <2> QED
    BY <2>1, <2>2
<1> QED
  BY <1>9, <1>10, <1>11, <1>12 DEF EndInv

LEMMA EndStep ==
  IndInv /\ IndInv' /\ RowFollowsGraph /\ StreamInv /\ EndInv /\ [StreamNext]_allVars => EndInv'
<1> SUFFICES ASSUME IndInv, IndInv', RowFollowsGraph, StreamInv, EndInv, [StreamNext]_allVars PROVE EndInv'
  OBVIOUS
<1>shape. page = [run |-> page.run, node |-> page.node]
  BY DEF EndInv, Shapes
<1>1. CASE RuntimeStep
  BY <1>1, EndOfRuntime
<1>2. CASE Publish
  BY <1>2, EndOfPublish
<1>3. CASE Disconnect
  BY <1>3, EndOfHangup DEF Disconnect, vars
<1>4. CASE CrashLosesStream
  <2>1. /\ Hangup /\ UNCHANGED <<sess, events, viewer, page>>
        /\ fetch'.stage = "none" /\ published' = Len(events) /\ pc' = "down"
    BY <1>4 DEF CrashLosesStream, Crash, durable, NoFetch
  <2> QED
    BY <2>1, EndOfHangup
<1>5. CASE Deliver
  BY <1>5, EndOfDeliver
<1>6. CASE Replay \/ Subscribe \/ Follow \/ Connect \/ AnswerGraph \/ UNCHANGED allVars
  <2>1. CASE Replay \/ Subscribe \/ Connect \/ AnswerGraph \/ UNCHANGED allVars
    BY <2>1, EndKept DEF Replay, Subscribe, Connect, AnswerGraph, allVars, streamVars, vars, web, replay
  <2>2. CASE Follow
    <3>1. viewer = "api" /\ UNCHANGED <<sess, events, pc, published, viewer, page, outdated>>
          /\ chan # <<>> /\ chan' = Tail(chan)
      BY <2>2 DEF Follow, Take, vars, web
    <3>2. chan \in Seq(Nat) /\ pc # "down"
      BY <3>1 DEF StreamInv, Counted, EndInv, DownIsCut
    <3>3. \A i \in 1..Len(chan') : i + 1 \in 1..Len(chan) /\ chan'[i] = chan[i + 1]
      BY <3>1, <3>2
    <3>4. Waiting' \subseteq Waiting
      BY <3>3 DEF Waiting
    <3>5. Untold' \subseteq Untold /\ (\A r : LastEnd(r)' = LastEnd(r)) /\ Ended' = Ended
      BY <3>1, <3>4 DEF Untold, LastEnd, Ends, Ended
    <3>6. ToldLast'
      BY <3>1, <3>5 DEF EndInv, ToldLast
    <3> QED
      BY <3>1, <3>2, <3>3, <3>6 DEF EndInv, ShownOrTold, DownIsCut, OneUnpublished, Shapes, Ends
  <2> QED
    BY <1>6, <2>1, <2>2
<1>7. CASE OpenSession \/ ActivateStarted \/ HandleResumeClick
  <2> PICK optimistic \in BOOLEAN : \E resume \in BOOLEAN : Load(optimistic, resume)
    BY <1>7 DEF OpenSession, ActivateStarted, HandleResumeClick
  <2>1. /\ UNCHANGED <<sess, events, pc, published, viewer, chan>>
        /\ page' = IF optimistic THEN [page EXCEPT !.run = "running"] ELSE page
        /\ outdated' = (outdated \/ optimistic) /\ pc # "down"
    BY DEF Load, vars
  <2>2. page' = [run |-> page'.run, node |-> page'.node] /\ (~optimistic => page' = page)
    BY <1>shape, <2>1
  <2> QED
    BY <2>1, <2>2, EndOfPage
<1>8. CASE ReceiveGraph
  <2>1. /\ UNCHANGED <<sess, events, pc, published, viewer, chan>>
        /\ page' = [run |-> page'.run, node |-> page'.node]
        /\ page'.run = ResolveRunStatus(fetch.answer.status)
        /\ outdated' = (snap = NoGraph \/ fetch.answer.status # snap.status)
        /\ fetch.stage = "answered"
    BY <1>8 DEF ReceiveGraph, vars
  <2>2. pc # "down"
    BY <2>1 DEF EndInv, DownIsCut
  <2>3. ~outdated' /\ Ended => page'.run = sess
    BY <2>1 DEF Ended, RowFollowsGraph, ResolveRunStatus
  <2> QED
    BY <2>1, <2>2, <2>3, EndOfPage
<1>9. CASE LoadFails
  <2>1. /\ UNCHANGED <<sess, events, pc, published, viewer, chan>> /\ outdated' /\ pc # "down"
        /\ page' = IF fetch.optimistic THEN page ELSE [page EXCEPT !.run = "idle"]
    BY <1>9 DEF LoadFails, vars, EndInv, DownIsCut
  <2>2. page' = [run |-> page'.run, node |-> page'.node]
    BY <1>shape, <2>1
  <2> QED
    BY <2>1, <2>2, EndOfPage
<1>10. CASE PostResume
  <2>1. CASE Send(ResumeCommand) /\ UNCHANGED <<page, outdated>>
    <3>1. pc # "down"
      BY <1>10 DEF PostResume, EndInv, DownIsCut
    <3> QED
      BY <1>10, <2>1, <3>1, EndKept DEF PostResume, Send, durable
  <2>2. CASE page' = [page EXCEPT !.run = "failed"] /\ outdated' = TRUE /\ UNCHANGED vars
    <3>1. page' = [run |-> page'.run, node |-> page'.node]
      BY <1>shape, <2>2
    <3>2. pc # "down"
      BY <1>10 DEF PostResume, EndInv, DownIsCut
    <3> QED
      BY <1>10, <2>2, <3>1, <3>2, EndOfPage DEF PostResume, vars
  <2> QED
    BY <1>10, <2>1, <2>2 DEF PostResume
<1> QED
  BY <1>1, <1>2, <1>3, <1>4, <1>5, <1>6, <1>7, <1>8, <1>9, <1>10 DEF StreamNext, Viewer

LEMMA EndInit == StreamInit => EndInv
<1> SUFFICES ASSUME StreamInit PROVE EndInv
  OBVIOUS
<1>1. /\ sess = "none" /\ pc = "absent" /\ fetch = NoFetch /\ events = <<>> /\ chan = <<>> /\ published = 0
      /\ page = [run |-> "idle", node |-> [n \in Node |-> "unknown"]]
  BY DEF StreamInit, Init
<1> QED
  BY <1>1 DEF EndInv, ToldLast, ShownOrTold, DownIsCut, OneUnpublished, Shapes, Ended, Ends, NoFetch

\* Once nothing is on its way, a page that was not cut off from the session and
\* did not lose its end shows the status the row has, for any number of restarts,
\* commands and ends (store.ts, useSSE.ts, broker.go).
THEOREM EndIsShown == StreamSpec => []FinishedIsShown
<1>1. StreamInv /\ IndInv /\ EndInv => FinishedIsShown
  <2> SUFFICES ASSUME StreamInv, IndInv, EndInv, viewer = "web", Quiet, ~outdated, sess \in {"done", "failed"}
               PROVE  page.run = sess
    BY DEF FinishedIsShown
  <2>1. Untold = {} /\ Ended
    BY DEF Quiet, AppendReturned, Untold, Waiting, Ended, IndInv, TypeOK
  <2> QED
    BY <2>1 DEF EndInv, ShownOrTold
<1> QED
  BY <1>1, EndInit, EndStep, StreamInvariance, WatchedRuntime, Invariance, RowAlwaysFollows, PTL DEF StreamSpec
=============================================================================
