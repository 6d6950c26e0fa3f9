--------------------------- MODULE ServerRuns_proofs ---------------------------
(***************************************************************************)
(* Theorems of both parts of the TypeScript server.  ServerRuns, for any   *)
(* number of sessions, graphs, requests, runs, crashes and entries of the  *)
(* log that fail: type correctness, one writer of a graph, the mark of a   *)
(* session as running, paused sessions, and what the replay of the         *)
(* operation log may differ in from the graph file.  Previews, for any     *)
(* number of sessions, ports and launches: type correctness, no process    *)
(* left behind, ports that are held, and what a preview that is shown as   *)
(* live stands for.                                                        *)
(***************************************************************************)
EXTENDS ServerRuns, Previews, TLAPS

Run == [stage : Stage, session : Session, graph : Graph \cup {NoGraph},
        auto : BOOLEAN, caller : Caller, late : SUBSET Node]

Working == {"plan", "work", "pass"}
HasGraph(r) == runs[r].stage \in {"work", "wait", "pass", "cut"}

Waits(r) == r \in RunId /\ runs[r].stage = "wait"

\* A run that is not over was started, and has a graph unless it still plans.
Started ==
  \A r \in RunId : /\ runs[r].stage # "over" => r <= made
                   /\ HasGraph(r) => runs[r].graph \in Graph

WorkersAreNewest(s) == Workers(s) \subseteq Newest(s)

WorkersAreMarked(s) == Workers(s) # {} => s \in running

\* A promise belongs to a run of the session that waits; if another run was
\* started since, the session is marked, so that nobody resumes the old one.
PromiseIsKept(s) ==
  pending[s] # NoRun =>
    /\ pending[s] \in Of(s) /\ Waits(pending[s])
    /\ pending[s] \notin Newest(s) => s \in running

MarkIsMeant(s) == s \in running => Workers(s) # {} \/ Waits(pending[s])

PausedHasPromise(s) ==
  sess[s] = "paused" => Waits(pending[s]) \/ crashes > 0

PausedHasFile(s) == sess[s] = "paused" => file[s] # NoGraph

Ctl(s) ==
  /\ WorkersAreNewest(s) /\ WorkersAreMarked(s) /\ PromiseIsKept(s) /\ MarkIsMeant(s)
  /\ PausedHasPromise(s) /\ PausedHasFile(s)

IndInv == TypeOK /\ crashes \in Nat /\ Started /\ \A s \in Session : Ctl(s)

-----------------------------------------------------------------------------
(* Graphs                                                                   *)

LEMMA GraphNode ==
  ASSUME NEW g \in Graph, NEW nodes \in [Node -> NodeStatus], NEW x \in GraphStatus
  PROVE  [g EXCEPT !.node = nodes] \in Graph /\ [g EXCEPT !.status = x] \in Graph
         /\ [g EXCEPT !.status = x, !.node = nodes] \in Graph
         /\ [g EXCEPT !.node = nodes, !.status = x] \in Graph
BY DEF Graph

LEMMA OneNode ==
  ASSUME NEW g \in Graph, NEW n \in Node, NEW v \in NodeStatus, NEW x \in GraphStatus
  PROVE  [g EXCEPT !.node[n] = v] \in Graph /\ [g EXCEPT !.node[n] = v, !.status = x] \in Graph
BY DEF Graph

LEMMA RetryType ==
  ASSUME NEW g \in Graph, NEW n \in Node
  PROVE  RetryNode(g, n) \in Graph
<1> DEFINE nodes == [m \in Node |->
              IF m = n THEN "ready" ELSE IF Blocks(g, n, m) THEN "blocked" ELSE g.node[m]]
<1>1. nodes \in [Node -> NodeStatus]
  BY DEF Graph, NodeStatus
<1>2. PICK k \in Nat : k = g.retry[n] + 1
  BY DEF Graph
<1> HIDE DEF nodes
<1>3. [g EXCEPT !.node = nodes, !.retry[n] = k] \in Graph
  BY <1>1 DEF Graph
<1>4. [g EXCEPT !.node = nodes, !.retry[n] = @ + 1] = [g EXCEPT !.node = nodes, !.retry[n] = k]
  BY <1>2 DEF Graph
<1> QED
  BY <1>3, <1>4 DEF RetryNode, nodes

LEMMA SuccessorType ==
  ASSUME NEW g \in Graph, NEW h \in Successors(g)
  PROVE  h \in Graph
<1> USE DEF WithStatus
<1>1. ASSUME NEW n \in Node PROVE [g EXCEPT !.node[n] = "ready"] \in Graph /\ [g EXCEPT !.node[n] = "running"] \in Graph
  BY DEF Graph, NodeStatus
<1>2. ASSUME NEW n \in Node PROVE CompleteNode(g, n) \in Graph
  BY DEF CompleteNode, Graph, NodeStatus
<1>3. ASSUME NEW n \in Node PROVE FailNode(g, n) \in Graph
  BY DEF FailNode, Graph, NodeStatus
<1> QED
  BY <1>1, <1>2, <1>3, RetryType DEF Successors, PromotableNodes, ReadyNodes

LEMMA PassType ==
  ASSUME NEW g \in Graph, NEW n \in Node
  PROVE  [PassNode(g, n) EXCEPT !.status = "running"] \in Graph
<1>1. PassNode(g, n) \in Graph
  BY DEF PassNode, Graph, NodeStatus
<1> QED
  BY <1>1 DEF Graph, GraphStatus

LEMMA PrepareType ==
  ASSUME NEW g \in Graph
  PROVE  PrepareForResume(g) \in Graph /\ PatchStuck(g) \in Graph /\ RetriedGraph(g) \in Graph
<1>1. PrepareForResume(g) \in Graph
  BY DEF PrepareForResume, Graph, NodeStatus, GraphStatus
<1>2. PatchStuck(g) \in Graph
  BY DEF PatchStuck, Graph, NodeStatus
<1>3. RetriedGraph(g) \in Graph
  <2> DEFINE nodes == [n \in Node |-> CASE g.node[n] = "failed" -> "ready"
                                        [] g.node[n] = "blocked" -> "pending"
                                        [] OTHER -> g.node[n]]
  <2>1. nodes \in [Node -> NodeStatus]
    BY DEF Graph, NodeStatus
  <2> HIDE DEF nodes
  <2>2. [g EXCEPT !.status = "running", !.node = nodes] \in Graph
    BY <2>1 DEF Graph, GraphStatus
  <2> QED
    BY <2>2 DEF RetriedGraph, nodes
<1> QED
  BY <1>1, <1>2, <1>3

LEMMA ChangeType ==
  ASSUME NEW g \in Graph, NEW n \in Node
  PROVE  ApplyNodeChange(g, n) \in Graph
BY DEF ApplyNodeChange, Graph, NodeStatus

LEMMA PlannedType == PlannedGraph \in Graph
BY DEF PlannedGraph, Graph, NodeStatus, GraphStatus

LEMMA FinalType ==
  ASSUME NEW g \in Graph, NEW h \in FinalGraphs(g)
  PROVE  h \in Graph
BY DEF FinalGraphs, Graph, GraphStatus

LEMMA PausedType ==
  ASSUME NEW g \in Graph, NEW n \in CheckpointNodes(g)
  PROVE  PausedAt(g, n) \in Graph
<1>1. n \in Node /\ "running" \in NodeStatus /\ "paused" \in GraphStatus
  BY DEF CheckpointNodes, WithStatus, NodeStatus, GraphStatus
<1> QED
  BY <1>1, OneNode DEF PausedAt

LEMMA PassedType ==
  ASSUME NEW g \in Graph, NEW h \in PassedGraphs(g)
  PROVE  h \in Graph
BY PassType DEF PassedGraphs, WithStatus

\* Whatever a run saves next is a graph.
LEMMA SavedType ==
  ASSUME NEW r \in RunId, HasGraph(r) => runs[r].graph \in Graph, NEW h \in SavedNext(r)
  PROVE  h \in Graph
<1>1. CASE runs[r].stage = "plan"
  BY <1>1, PlannedType DEF SavedNext
<1>2. CASE runs[r].stage = "work"
  <2>1. runs[r].graph \in Graph
    BY <1>2 DEF HasGraph
  <2>2. h \in Successors(runs[r].graph)
          \cup {PausedAt(runs[r].graph, n) : n \in CheckpointNodes(runs[r].graph)}
          \cup FinalGraphs(runs[r].graph)
    BY <1>2 DEF SavedNext
  <2> QED
    BY <2>1, <2>2, SuccessorType, PausedType, FinalType
<1>3. CASE runs[r].stage = "pass"
  <2>1. runs[r].graph \in Graph /\ h \in PassedGraphs(runs[r].graph)
    BY <1>3 DEF HasGraph, SavedNext
  <2> QED
    BY <2>1, PassedType
<1>4. CASE runs[r].stage \notin {"plan", "work", "pass"}
  BY <1>4 DEF SavedNext
<1> QED
  BY <1>1, <1>2, <1>3, <1>4

-----------------------------------------------------------------------------
(* The stores                                                               *)

LEMMA LogType ==
  ASSUME TypeOK, NEW s \in Session, NEW nodes \in SUBSET Node, NEW g \in Graph
  PROVE  LogStatuses(s, nodes, g) \in [Session -> [Node -> NodeStatus \cup {"unlogged"}]]
<1> DEFINE new == Replayed(replay[s], NodeOps(nodes, g))
<1>1. new \in [Node -> NodeStatus \cup {"unlogged"}]
  BY DEF Replayed, NodeOps, Graph, TypeOK
<1> HIDE DEF new
<1>2. [replay EXCEPT ![s] = new] \in [Session -> [Node -> NodeStatus \cup {"unlogged"}]]
  BY <1>1 DEF TypeOK
<1> QED
  BY <1>2 DEF LogStatuses, AppendOps, new

\* What a save and its report to the log leave in the stores.
Stored(s) ==
  /\ file' \in [Session -> Graph \cup {NoGraph}] /\ file'[s] # NoGraph
  /\ \A t \in Session \ {s} : file'[t] = file[t] /\ touched'[t] = touched[t]
  /\ replay' \in [Session -> [Node -> NodeStatus \cup {"unlogged"}]]
  /\ touched' \in [Session -> SUBSET Node]

LEMMA SaveType ==
  ASSUME TypeOK, NEW s \in Session, NEW g \in Graph, NEW nodes \in SUBSET Node,
         NEW behind \in SUBSET Node, Save(s, g, nodes, behind)
  PROVE  Stored(s)
<1>1. PICK lost \in SUBSET nodes :
        /\ file' = [file EXCEPT ![s] = g] /\ replay' = LogStatuses(s, nodes \ lost, g)
        /\ touched' = [touched EXCEPT ![s] = behind \cup lost]
  BY DEF Save
<1>2. replay' \in [Session -> [Node -> NodeStatus \cup {"unlogged"}]]
  BY <1>1, LogType
<1>3. touched' \in [Session -> SUBSET Node] /\ \A t \in Session \ {s} : touched'[t] = touched[t]
  BY <1>1 DEF TypeOK
<1> QED
  BY <1>1, <1>2, <1>3, ServerAssumption DEF TypeOK, Stored

LEMMA UpdateType ==
  ASSUME TypeOK, NEW r \in RunId, NEW s, s = runs[r].session, NEW g \in Graph, Update(r, g)
  PROVE  Stored(s) /\ s \in Session
<1>1. s \in Session /\ touched[s] \in SUBSET Node
  BY DEF TypeOK
<1>2. Unreported(r, g) \in SUBSET Node
  BY DEF Unreported, Present, Changed
<1>3. Save(s, g, Unreported(r, g), touched[s])
  BY DEF Update
<1> QED
  BY <1>1, <1>2, <1>3, SaveType

LEMMA TouchType ==
  ASSUME TypeOK, NEW s \in Session, NEW nodes \in SUBSET Node, Touch(s, nodes)
  PROVE  touched' \in [Session -> SUBSET Node]
BY DEF TypeOK, Touch

\* The status of a session is written, or its directory made, and it is not
\* "paused" by that.
Marked(s) ==
  /\ sess' \in [Session -> SessionStatus]
  /\ sess'[s] = "paused" => sess[s] = "paused"
  /\ sess'[s] = "none" => sess[s] = "none"
  /\ \A t \in Session \ {s} : sess'[t] = sess[t]

LEMMA DirectoryType ==
  ASSUME TypeOK, NEW s \in Session, sess' \in {sess, WithDirectory(s)}
  PROVE  Marked(s)
BY DEF TypeOK, WithDirectory, SessionStatus, Marked

\* The status a handler writes is never "paused", unless it is onCheckpoint's.
LEMMA StatusType ==
  ASSUME TypeOK, NEW s \in Session, NEW x \in {"running", "done", "failed"}, SetStatus(s, x)
  PROVE  Marked(s) /\ sess'[s] # "paused"
<1>1. PICK t \in IF Exists(s) THEN {x} ELSE {sess[s], WithDirectory(s)[s]} :
        sess' = [sess EXCEPT ![s] = t]
  BY DEF SetStatus
<1>2. t \in SessionStatus \ {"paused"} /\ (t = "none" => sess[s] = "none")
  BY <1>1 DEF TypeOK, WithDirectory, SessionStatus, Exists
<1> QED
  BY <1>1, <1>2 DEF TypeOK, Marked

-----------------------------------------------------------------------------
(* The runs                                                                 *)

\* One run changes; which one, and into what, is all that matters below.
Changes(r, e) ==
  /\ runs' \in [RunId -> Run] /\ runs'[r] = e /\ e \in Run
  /\ \A q \in RunId \ {r} : runs'[q] = runs[q]

LEMMA ChangesOne ==
  ASSUME TypeOK, NEW r \in RunId, NEW e \in Run, runs' = [runs EXCEPT ![r] = e]
  PROVE  Changes(r, e)
BY DEF TypeOK, Run, Changes

LEMMA ChangesGraph ==
  ASSUME TypeOK, NEW r \in RunId, NEW g \in Graph, NEW x \in Stage, NEW b \in BOOLEAN,
         \/ runs' = [runs EXCEPT ![r].graph = g, ![r].stage = x]
         \/ runs' = [runs EXCEPT ![r].graph = g] /\ x = runs[r].stage
         \/ runs' = [runs EXCEPT ![r].graph = g, ![r].auto = b, ![r].stage = x]
  PROVE  \E e \in Run : /\ e.stage = x /\ e.session = runs[r].session /\ e.graph = g
                        /\ e.late = runs[r].late /\ Changes(r, e)
<1>0. runs[r] \in Run
  BY DEF TypeOK, Run
<1>1. CASE runs' = [runs EXCEPT ![r].graph = g, ![r].stage = x]
  <2> DEFINE e == [runs[r] EXCEPT !.graph = g, !.stage = x]
  <2>1. e \in Run /\ e.stage = x /\ e.session = runs[r].session /\ e.graph = g /\ e.late = runs[r].late
    BY <1>0 DEF Run
  <2>2. runs' = [runs EXCEPT ![r] = e]
    BY <1>0, <1>1 DEF TypeOK, Run
  <2> HIDE DEF e
  <2> QED
    BY <2>1, <2>2, ChangesOne
<1>2. CASE runs' = [runs EXCEPT ![r].graph = g] /\ x = runs[r].stage
  <2> DEFINE e == [runs[r] EXCEPT !.graph = g]
  <2>1. e \in Run /\ e.stage = x /\ e.session = runs[r].session /\ e.graph = g /\ e.late = runs[r].late
    BY <1>0, <1>2 DEF Run
  <2>2. runs' = [runs EXCEPT ![r] = e]
    BY <1>0, <1>2 DEF TypeOK, Run
  <2> HIDE DEF e
  <2> QED
    BY <2>1, <2>2, ChangesOne
<1>3. CASE runs' = [runs EXCEPT ![r].graph = g, ![r].auto = b, ![r].stage = x]
  <2> DEFINE e == [runs[r] EXCEPT !.graph = g, !.auto = b, !.stage = x]
  <2>1. e \in Run /\ e.stage = x /\ e.session = runs[r].session /\ e.graph = g /\ e.late = runs[r].late
    BY <1>0 DEF Run
  <2>2. runs' = [runs EXCEPT ![r] = e]
    BY <1>0, <1>3 DEF TypeOK, Run
  <2> HIDE DEF e
  <2> QED
    BY <2>1, <2>2, ChangesOne
<1> QED
  BY <1>1, <1>2, <1>3

LEMMA ChangesStage ==
  ASSUME TypeOK, NEW r \in RunId, NEW x \in Stage, runs' = [runs EXCEPT ![r].stage = x]
  PROVE  \E e \in Run : /\ e.stage = x /\ e.session = runs[r].session /\ e.graph = runs[r].graph
                        /\ e.late = runs[r].late /\ Changes(r, e)
<1>0. runs[r] \in Run
  BY DEF TypeOK, Run
<1> DEFINE e == [runs[r] EXCEPT !.stage = x]
<1>1. e \in Run /\ e.stage = x /\ e.session = runs[r].session /\ e.graph = runs[r].graph
      /\ e.late = runs[r].late
  BY <1>0 DEF Run
<1>2. runs' = [runs EXCEPT ![r] = e]
  BY <1>0 DEF TypeOK, Run
<1> HIDE DEF e
<1> QED
  BY <1>1, <1>2, ChangesOne

LEMMA ChangesLate ==
  ASSUME TypeOK, NEW r \in RunId, runs' = [runs EXCEPT ![r].late = {}]
  PROVE  \E e \in Run : /\ e.stage = runs[r].stage /\ e.session = runs[r].session
                        /\ e.graph = runs[r].graph /\ e.late = {} /\ Changes(r, e)
<1>0. runs[r] \in Run
  BY DEF TypeOK, Run
<1> DEFINE e == [runs[r] EXCEPT !.late = {}]
<1>1. /\ e \in Run /\ e.stage = runs[r].stage /\ e.session = runs[r].session
      /\ e.graph = runs[r].graph /\ e.late = {}
  BY <1>0 DEF Run
<1>2. runs' = [runs EXCEPT ![r] = e]
  BY <1>0 DEF TypeOK, Run
<1> HIDE DEF e
<1> QED
  BY <1>1, <1>2, ChangesOne

LEMMA IdleType ==
  ASSUME NEW s \in Session
  PROVE  Idle \in Run /\ [Idle EXCEPT !.session = s] \in Run
         /\ Idle.stage = "over" /\ [Idle EXCEPT !.session = s].stage = "over"
         /\ [Idle EXCEPT !.session = s].session = s /\ [Idle EXCEPT !.session = s].late = {}
<1>1. (CHOOSE t \in Session : TRUE) \in Session
  OBVIOUS
<1> QED
  BY <1>1 DEF Idle, Run, Stage, Caller

LEMMA ChangesOver ==
  ASSUME TypeOK, NEW r \in RunId, Over(r)
  PROVE  \E e \in Run : e.stage = "over" /\ e.session = runs[r].session /\ e.late = {} /\ Changes(r, e)
<1>1. PICK s \in Session : s = runs[r].session
  BY DEF TypeOK
<1>2. runs' = [runs EXCEPT ![r] = [Idle EXCEPT !.session = s]]
  BY <1>1 DEF Over
<1>3. PICK e \in Run :
        e = [Idle EXCEPT !.session = s] /\ e.stage = "over" /\ e.session = s /\ e.late = {}
  BY IdleType
<1> QED
  BY <1>1, <1>2, <1>3, ChangesOne


-----------------------------------------------------------------------------
(* What a step does to the runs and marks of the sessions                   *)

\* The step is one of session s: what the others can tell does not change.
Elsewhere(s) ==
  \A t \in Session \ {s} :
    /\ sess'[t] = sess[t] /\ file'[t] = file[t] /\ pending'[t] = pending[t]
    /\ t \in running' <=> t \in running

\* It changes one run of s, which has the stage x afterwards.
Moves(s, r, x) ==
  /\ r \in RunId /\ s \in Session /\ made' = made /\ crashes' = crashes
  /\ runs[r].session = s /\ runs'[r].session = s /\ runs'[r].stage = x
  /\ \A q \in RunId \ {r} : runs'[q] = runs[q]
  /\ Elsewhere(s)

\* It starts a run of s.
Starts(s, x) ==
  /\ s \in Session /\ made < MaxRuns /\ made' = made + 1 /\ crashes' = crashes
  /\ made + 1 \in RunId
  /\ runs'[made + 1].session = s /\ runs'[made + 1].stage = x
  /\ \A q \in RunId \ {made + 1} : runs'[q] = runs[q]
  /\ Elsewhere(s)

LEMMA OthersKept ==
  ASSUME TypeOK, NEW s, NEW r, NEW x, Moves(s, r, x) \/ Starts(s, x),
         NEW t \in Session \ {s}, Ctl(t)
  PROVE  Ctl(t)'
<1>1. Of(t)' = Of(t) /\ \A q \in Of(t) : runs'[q] = runs[q]
  <2>1. CASE Moves(s, r, x)
    <3>1. \A q \in RunId : /\ runs'[q].session = runs[q].session
                          /\ runs[q].session = t => runs'[q] = runs[q]
      BY <2>1 DEF Moves
    <3> QED
      BY <2>1, <3>1 DEF Moves, Of
  <2>2. CASE Starts(s, x)
    <3>1. made \in Nat /\ \A q \in RunId : q \in Nat
      BY DEF TypeOK, RunId
    <3>2. \A q \in RunId : q <= made + 1 <=> (q <= made \/ q = made + 1)
      BY <3>1
    <3>3. ~(made + 1 <= made)
      BY <3>1
    <3>4. \A q \in RunId : q # made + 1 => runs'[q] = runs[q]
      BY <2>2 DEF Starts
    <3>5. runs'[made + 1].session # t /\ made' = made + 1
      BY <2>2 DEF Starts
    <3> QED
      BY <3>2, <3>3, <3>4, <3>5 DEF Of
  <2> QED
    BY <2>1, <2>2
<1>2. Workers(t)' = Workers(t)
  BY <1>1 DEF Workers, At, Of
<1>3. Newest(t)' = Newest(t)
  BY <1>1 DEF Newest
<1>4. sess'[t] = sess[t] /\ file'[t] = file[t] /\ pending'[t] = pending[t]
      /\ (t \in running' <=> t \in running) /\ crashes' = crashes
  BY DEF Moves, Starts, Elsewhere
<1>5. pending[t] \in RunId \cup {NoRun} /\ NoRun \notin RunId
  BY DEF TypeOK, RunId, NoRun
<1>6. pending[t] # NoRun => pending[t] \in Of(t)
  BY DEF Ctl, PromiseIsKept
<1>7. Waits(pending[t])' <=> Waits(pending[t])
  BY <1>1, <1>4, <1>5, <1>6 DEF Waits
<1> QED
  BY <1>2, <1>3, <1>4, <1>1, <1>7 DEF Ctl, WorkersAreNewest, WorkersAreMarked, PromiseIsKept, MarkIsMeant,
     PausedHasPromise, PausedHasFile

\* There is one newest run.
LEMMA OneNewest ==
  ASSUME TypeOK, NEW s \in Session, WorkersAreNewest(s), NEW r \in Workers(s)
  PROVE  Workers(s) = {r} /\ r \in Newest(s)
BY DEF TypeOK, WorkersAreNewest, Newest, Of, Workers, RunId

LEMMA WorkerOf ==
  ASSUME TypeOK, Started, NEW r \in RunId, runs[r].stage \in {"plan", "work", "pass"},
         NEW s, s = runs[r].session
  PROVE  r \in Workers(s) /\ s \in Session
BY DEF TypeOK, Started, Workers, At, Of

LEMMA SameOf ==
  ASSUME NEW s, NEW r, NEW x, Moves(s, r, x)
  PROVE  Of(s)' = Of(s) /\ Newest(s)' = Newest(s)
BY DEF Moves, Of, Newest

\* A run goes on, or waits, or is cut off as before.
LEMMA StayCtl ==
  ASSUME TypeOK, Started, NEW s, NEW r, NEW x, Moves(s, r, x), Ctl(s),
         runs[r].stage \in Working <=> x \in Working, runs[r].stage = "wait" <=> x = "wait",
         sess'[s] = "paused" => sess[s] = "paused",
         pending' = pending, running' = running, file'[s] = file[s] \/ file'[s] # NoGraph
  PROVE  Ctl(s)'
<1>1. r \in RunId /\ s \in Session
  BY DEF Moves
<1>2. Of(s)' = Of(s) /\ Newest(s)' = Newest(s)
  BY SameOf
<1>3. Workers(s)' = Workers(s)
  <2>1. \A q \in RunId : q \in At({"plan", "work", "pass"})' <=> q \in At({"plan", "work", "pass"})
    BY DEF Moves, At, Working
  <2> QED
    BY <1>2, <2>1 DEF Workers, At
<1>4. Waits(pending[s])' <=> Waits(pending[s])
  BY DEF Waits, Moves
<1>5. crashes' = crashes
  BY DEF Moves
<1> QED
  BY <1>2, <1>3, <1>4, <1>5 DEF Ctl, WorkersAreNewest, WorkersAreMarked, PromiseIsKept, MarkIsMeant,
     PausedHasPromise, PausedHasFile

\* A run gets to its checkpoint: no other run of the session works.
LEMMA WaitCtl ==
  ASSUME TypeOK, Started, NEW s, NEW r, Moves(s, r, "wait"), Ctl(s),
         runs[r].stage \in {"plan", "work", "pass"},
         pending'[s] = r, s \notin running', file'[s] # NoGraph
  PROVE  Ctl(s)'
<1>1. r \in Workers(s) /\ r \in RunId /\ s \in Session
  BY WorkerOf DEF Moves
<1>2. Of(s)' = Of(s) /\ Newest(s)' = Newest(s) /\ r \in Of(s)
  BY <1>1, SameOf DEF Workers
<1>3. Workers(s) = {r} /\ r \in Newest(s)
  BY <1>1, OneNewest DEF Ctl
<1>4. Workers(s)' = {}
  <2>1. \A q \in Of(s) : q # r => q \notin At({"plan", "work", "pass"})'
    BY <1>3 DEF Moves, At, Workers
  <2>2. r \notin At({"plan", "work", "pass"})'
    BY DEF Moves, At
  <2> QED
    BY <1>2, <2>1, <2>2 DEF Workers
<1>5. Waits(pending[s])'
  BY <1>1 DEF Waits, Moves
<1> QED
  BY <1>2, <1>3, <1>4, <1>5 DEF Ctl, WorkersAreNewest, WorkersAreMarked, PromiseIsKept, MarkIsMeant,
     PausedHasPromise, PausedHasFile

\* A run ends; the mark stays only for a promise that is left.
LEMMA EndCtl ==
  ASSUME TypeOK, Started, NEW s, NEW r, NEW x \in {"over", "cut"}, Moves(s, r, x), Ctl(s),
         runs[r].stage \in {"plan", "work", "pass"}, sess'[s] # "paused",
         pending'[s] \in {pending[s], NoRun},
         s \in running' <=> s \in running /\ pending'[s] # NoRun
  PROVE  Ctl(s)'
<1>1. r \in Workers(s) /\ r \in RunId /\ s \in Session
  BY WorkerOf DEF Moves
<1>2. Of(s)' = Of(s) /\ Newest(s)' = Newest(s) /\ r \in Of(s)
  BY <1>1, SameOf DEF Workers
<1>3. Workers(s) = {r} /\ s \in running
  BY <1>1, OneNewest DEF Ctl, WorkersAreMarked
<1>4. Workers(s)' = {}
  <2>1. \A q \in Of(s) : q # r => q \notin At({"plan", "work", "pass"})'
    BY <1>3 DEF Moves, At, Workers
  <2>2. r \notin At({"plan", "work", "pass"})'
    BY DEF Moves, At
  <2> QED
    BY <1>2, <2>1, <2>2 DEF Workers
<1>5. pending'[s] # NoRun => pending'[s] = pending[s] /\ pending[s] \in Of(s) /\ Waits(pending[s])'
  BY DEF Ctl, PromiseIsKept, Waits, Moves
<1> QED
  BY <1>2, <1>3, <1>4, <1>5 DEF Ctl, WorkersAreNewest, WorkersAreMarked, PromiseIsKept, MarkIsMeant,
     PausedHasPromise, PausedHasFile

\* A waiting run goes on: nothing was marked, so that it is the newest.
LEMMA ResumeCtl ==
  ASSUME TypeOK, NEW s, NEW r, Moves(s, r, "pass"), Ctl(s), s \notin running, r # NoRun,
         pending[s] = r, pending'[s] = NoRun, s \in running', sess'[s] # "paused"
  PROVE  Ctl(s)'
<1>1. r \in Of(s) /\ r \in Newest(s) /\ Workers(s) = {} /\ r \in RunId
  BY DEF Ctl, PromiseIsKept, WorkersAreMarked, Moves
<1>2. Of(s)' = Of(s) /\ Newest(s)' = Newest(s)
  BY SameOf
<1>3. Workers(s)' = {r}
  <2>1. \A q \in Of(s) : q # r => q \notin At({"plan", "work", "pass"})'
    BY <1>1 DEF Moves, At, Workers
  <2>2. r \in At({"plan", "work", "pass"})'
    BY <1>1 DEF Moves, At
  <2> QED
    BY <1>1, <1>2, <2>1, <2>2 DEF Workers
<1> QED
  BY <1>1, <1>2, <1>3 DEF Ctl, WorkersAreNewest, WorkersAreMarked, PromiseIsKept, MarkIsMeant,
     PausedHasPromise, PausedHasFile

\* A run is started where nobody works.
LEMMA StartCtl ==
  ASSUME TypeOK, NEW s, NEW x \in {"plan", "work"}, Starts(s, x), Ctl(s),
         Workers(s) = {}, pending'[s] = pending[s], s \in running', sess'[s] # "paused"
  PROVE  Ctl(s)'
<1>1. made \in Nat /\ made + 1 \in RunId
  BY DEF TypeOK, Starts
<1>2. Of(s)' = Of(s) \cup {made + 1} /\ \A q \in Of(s) : q < made + 1
  BY <1>1 DEF Starts, Of, RunId
<1>3. \A q \in Of(s) : runs'[q] = runs[q] /\ q \in RunId
  BY <1>1, <1>2 DEF Starts, Of, RunId
<1>4. Workers(s)' = {made + 1}
  <2>1. \A q \in Of(s) : q \notin At({"plan", "work", "pass"})'
    BY <1>3 DEF Workers, At
  <2>2. made + 1 \in At({"plan", "work", "pass"})'
    BY <1>1 DEF Starts, At
  <2> QED
    BY <1>2, <2>1, <2>2 DEF Workers
<1>5. made + 1 \in Newest(s)'
  <2>1. \A q \in Of(s)' : q \in Nat /\ q <= made + 1
    BY <1>1, <1>2, <1>3 DEF RunId
  <2> QED
    BY <1>2, <2>1 DEF Newest
<1>6. pending[s] # NoRun => pending[s] \in Of(s) /\ Waits(pending[s])'
  BY <1>3 DEF Ctl, PromiseIsKept, Waits
<1> QED
  BY <1>2, <1>4, <1>5, <1>6 DEF Ctl, WorkersAreNewest, WorkersAreMarked, PromiseIsKept, MarkIsMeant,
     PausedHasPromise, PausedHasFile

\* No run and no mark changes.
LEMMA QuietCtl ==
  ASSUME TypeOK, NEW s \in Session, Ctl(s), UNCHANGED <<maps, runs, made, crashes>>,
         sess'[s] = "paused" => sess[s] = "paused" /\ (file'[s] = file[s] \/ file'[s] # NoGraph)
  PROVE  Ctl(s)'
BY DEF Ctl, WorkersAreNewest, WorkersAreMarked, PromiseIsKept, MarkIsMeant,
   PausedHasPromise, PausedHasFile, Workers, Newest, Of, At, Waits, maps

-----------------------------------------------------------------------------
(* The actions                                                              *)

Typed ==
  /\ sess' \in [Session -> SessionStatus] /\ file' \in [Session -> Graph \cup {NoGraph}]
  /\ replay' \in [Session -> [Node -> NodeStatus \cup {"unlogged"}]]
  /\ running' \subseteq Session /\ pending' \in [Session -> RunId \cup {NoRun}]
  /\ touched' \in [Session -> SUBSET Node]

LEMMA MoveIs ==
  ASSUME TypeOK, NEW r \in RunId, NEW e \in Run, Changes(r, e), e.session = runs[r].session,
         UNCHANGED <<made, crashes>>, NEW s, s = runs[r].session, Elsewhere(s)
  PROVE  Moves(s, r, e.stage)
BY DEF TypeOK, Changes, Moves

LEMMA MoveInv ==
  ASSUME IndInv, NEW r \in RunId, runs[r].stage # "over",
         NEW e \in Run, Changes(r, e), e.session = runs[r].session,
         e.stage \notin {"plan", "over"} => e.graph \in Graph,
         UNCHANGED <<made, crashes>>, NEW s, s = runs[r].session, Elsewhere(s),
         Typed, Ctl(s)'
  PROVE  IndInv'
<1>1. Moves(s, r, e.stage) /\ s \in Session
  BY MoveIs DEF IndInv, Moves
<1>2. \A t \in Session : Ctl(t)'
  BY <1>1, OthersKept DEF IndInv
<1>3. Started'
  BY DEF IndInv, Started, Changes, HasGraph
<1>4. TypeOK'
  BY DEF IndInv, TypeOK, Typed, Changes, Run
<1> QED
  BY <1>2, <1>3, <1>4 DEF IndInv

\* A step of the loop of a run that goes on.
LEMMA LoopInv ==
  ASSUME IndInv, NEW r \in RunId, runs[r].stage \in Working,
         NEW e \in Run, Changes(r, e), e.stage \in {"work", "pass"}, e.session = runs[r].session,
         e.graph \in Graph, NEW s \in Session, s = runs[r].session,
         Stored(s), Marked(s), UNCHANGED <<maps, made, crashes>>
  PROVE  IndInv'
<1>1. Elsewhere(s) /\ Typed
  BY DEF Stored, Marked, Elsewhere, Typed, maps, IndInv, TypeOK
<1>2. Moves(s, r, e.stage)
  BY <1>1, MoveIs DEF IndInv
<1>3. Ctl(s)'
  <2>1. e.stage \in Working /\ e.stage # "wait" /\ runs[r].stage # "wait"
    BY DEF Working
  <2> QED
    BY <1>2, <2>1, StayCtl DEF IndInv, Stored, Marked, maps
<1> QED
  BY <1>1, <1>3, MoveInv DEF Working

LEMMA SavePlanInv ==
  ASSUME IndInv, NEW r \in RunId, SavePlan(r)
  PROVE  IndInv'
<1>1. PICK s \in Session : s = runs[r].session
  BY DEF IndInv, TypeOK
<1>2. PICK e \in Run : /\ e.stage = "work" /\ e.session = runs[r].session /\ e.graph = PlannedGraph
                       /\ Changes(r, e)
  <2>1. runs' = [runs EXCEPT ![r].graph = PlannedGraph, ![r].stage = "work"]
    BY DEF SavePlan
  <2>2. "work" \in Stage /\ PlannedGraph \in Graph
    BY PlannedType DEF Stage
  <2> QED
    BY <2>1, <2>2, ChangesGraph DEF IndInv
<1>3. Stored(s)
  <2>1. Present(PlannedGraph) \in SUBSET Node /\ {} \in SUBSET Node
    BY DEF Present
  <2> QED
    BY <1>1, <2>1, PlannedType, SaveType DEF SavePlan, IndInv
<1>4. Marked(s) /\ runs[r].stage \in Working /\ UNCHANGED <<maps, made, crashes>>
  BY <1>1, DirectoryType DEF SavePlan, counts, Working, IndInv
<1> QED
  BY <1>1, <1>2, <1>3, <1>4, PlannedType, LoopInv

LEMMA WorkInv ==
  ASSUME IndInv, NEW r \in RunId, Work(r) \/ PassCheckpoint(r)
  PROVE  IndInv'
<1>1. PICK s \in Session : s = runs[r].session
  BY DEF IndInv, TypeOK
<1>2. runs[r].stage \in Working /\ runs[r].graph \in Graph
  BY DEF Work, PassCheckpoint, IndInv, Started, Working, HasGraph
<1>3. PICK g \in Graph :
        /\ Update(r, g)
        /\ \/ runs' = [runs EXCEPT ![r].graph = g] /\ runs[r].stage = "work"
           \/ runs' = [runs EXCEPT ![r].graph = g, ![r].stage = "work"]
  BY <1>2, SuccessorType, PassedType DEF Work, PassCheckpoint
<1>4. PICK e \in Run : /\ e.stage = "work" /\ e.session = runs[r].session /\ e.graph = g
                       /\ Changes(r, e)
  <2>1. "work" \in Stage
    BY DEF Stage
  <2> QED
    BY <1>3, <2>1, ChangesGraph DEF IndInv
<1>5. Stored(s)
  BY <1>1, <1>3, UpdateType DEF IndInv
<1>6. Marked(s) /\ UNCHANGED <<maps, made, crashes>>
  BY <1>1, DirectoryType DEF Work, PassCheckpoint, counts, IndInv
<1> QED
  BY <1>1, <1>2, <1>4, <1>5, <1>6, LoopInv

LEMMA ReachCheckpointInv ==
  ASSUME IndInv, NEW r \in RunId, ReachCheckpoint(r)
  PROVE  IndInv'
<1>1. runs[r].stage = "work" /\ runs[r].graph \in Graph /\ UNCHANGED <<made, crashes>>
  BY DEF ReachCheckpoint, IndInv, Started, HasGraph, counts
<1>2. PICK s \in Session : s = runs[r].session
  BY DEF IndInv, TypeOK
<1>3. PICK n \in CheckpointNodes(runs[r].graph) :
        LET g == PausedAt(runs[r].graph, n)
        IN  /\ Update(r, g)
            /\ IF runs[r].auto
               THEN /\ runs' = [runs EXCEPT ![r].graph = g, ![r].auto = FALSE, ![r].stage = "pass"]
                    /\ sess' = WithDirectory(s)
                    /\ UNCHANGED maps
               ELSE /\ runs' = [runs EXCEPT ![r].graph = g, ![r].stage = "wait"]
                    /\ SetPending(s, r)
                    /\ sess' = [sess EXCEPT ![s] = IF Exists(s) THEN "paused" ELSE "remains"]
                    /\ ClearSessionRunning(s)
  BY <1>2 DEF ReachCheckpoint
<1>4. PICK g \in Graph : g = PausedAt(runs[r].graph, n)
  BY <1>1, PausedType
<1>5. Stored(s)
  BY <1>2, <1>3, <1>4, UpdateType DEF IndInv
<1>6. CASE runs[r].auto
  <2>1. runs' = [runs EXCEPT ![r].graph = g, ![r].auto = FALSE, ![r].stage = "pass"] /\ "pass" \in Stage
    BY <1>3, <1>4, <1>6 DEF Stage
  <2>2. PICK e \in Run : /\ e.stage = "pass" /\ e.session = runs[r].session /\ e.graph = g
                         /\ Changes(r, e)
    BY <2>1, ChangesGraph DEF IndInv
  <2>3. Marked(s) /\ UNCHANGED maps /\ runs[r].stage \in Working
    BY <1>1, <1>3, <1>6, DirectoryType DEF IndInv, Working
  <2> QED
    BY <1>1, <1>2, <1>5, <2>2, <2>3, LoopInv
<1>7. CASE ~runs[r].auto
  <2>1. runs' = [runs EXCEPT ![r].graph = g, ![r].stage = "wait"] /\ "wait" \in Stage
    BY <1>3, <1>4, <1>7 DEF Stage
  <2>2. PICK e \in Run : /\ e.stage = "wait" /\ e.session = runs[r].session /\ e.graph = g
                         /\ Changes(r, e)
    BY <2>1, ChangesGraph DEF IndInv
  <2>3. /\ pending' = [pending EXCEPT ![s] = r] /\ running' = running \ {s}
        /\ sess' = [sess EXCEPT ![s] = IF Exists(s) THEN "paused" ELSE "remains"]
    BY <1>3, <1>7 DEF SetPending, ClearSessionRunning
  <2>4. Elsewhere(s) /\ Typed
    BY <1>5, <2>3 DEF Stored, Elsewhere, Typed, IndInv, TypeOK, SessionStatus
  <2>5. Moves(s, r, "wait")
    BY <1>1, <1>2, <2>2, <2>4, MoveIs DEF IndInv
  <2>6. pending'[s] = r /\ s \notin running'
    BY <2>3 DEF IndInv, TypeOK
  <2>7. Ctl(s)'
    BY <1>1, <1>5, <2>5, <2>6, WaitCtl DEF IndInv, Stored
  <2> QED
    BY <1>1, <1>2, <2>2, <2>4, <2>7, MoveInv
<1> QED
  BY <1>6, <1>7

\* A tool call changes what a run has reported, and nothing of its stage.
LEMMA LiveToolCallInv ==
  ASSUME IndInv, NEW r \in RunId, LiveToolCall(r)
  PROVE  IndInv'
<1>1. PICK s \in Session : s = runs[r].session
  BY DEF IndInv, TypeOK
<1>2. /\ HasGraph(r) /\ runs[r].graph \in Graph /\ runs[r].late \in SUBSET Node
      /\ UNCHANGED <<file, maps, made, crashes>> /\ sess' = WithDirectory(s)
      /\ runs' = [runs EXCEPT ![r].late = {}]
  BY <1>1 DEF LiveToolCall, At, HasGraph, IndInv, Started, TypeOK, bounds
<1>3. PICK n \in Executing(runs[r].graph) \ runs[r].late :
        LET new == IF replay[s][n] = "unlogged" THEN {n} ELSE {} IN
        /\ replay' = [AppendOps(s, NodeOps(runs[r].late, runs[r].graph)) EXCEPT
                        ![s][n] = IF n \in new THEN "pending" ELSE @]
        /\ Touch(s, runs[r].late \cup new)
  BY <1>1 DEF LiveToolCall
<1>4. n \in Node /\ {n} \in SUBSET Node
  BY DEF Executing, WithStatus
<1>5. replay' \in [Session -> [Node -> NodeStatus \cup {"unlogged"}]]
  <2>1. PICK logged \in [Session -> [Node -> NodeStatus \cup {"unlogged"}]] :
          logged = AppendOps(s, NodeOps(runs[r].late, runs[r].graph))
    BY <1>2, LogType DEF LogStatuses, IndInv
  <2>2. PICK x \in NodeStatus \cup {"unlogged"} : replay' = [logged EXCEPT ![s][n] = x]
    <3>1. logged[s][n] \in NodeStatus \cup {"unlogged"} /\ "pending" \in NodeStatus
      BY <1>4, <2>1 DEF NodeStatus
    <3> QED
      BY <1>3, <2>1, <3>1
  <2> QED
    BY <1>4, <2>1, <2>2
<1>6. PICK more \in SUBSET Node : Touch(s, more)
  BY <1>2, <1>3, <1>4
<1>7. touched' \in [Session -> SUBSET Node]
  BY <1>6, TouchType DEF IndInv
<1>8. PICK e \in Run : /\ e.stage = runs[r].stage /\ e.session = runs[r].session
                       /\ e.graph = runs[r].graph /\ Changes(r, e)
  BY <1>2, ChangesLate DEF IndInv
<1>9. Marked(s)
  BY <1>2, DirectoryType DEF IndInv
<1>10. Elsewhere(s) /\ Typed
  BY <1>2, <1>5, <1>7, <1>9 DEF Marked, Elsewhere, Typed, maps, IndInv, TypeOK
<1>11. Moves(s, r, e.stage)
  BY <1>1, <1>2, <1>8, <1>10, MoveIs DEF IndInv
<1>12. Ctl(s)'
  BY <1>2, <1>8, <1>9, <1>11, StayCtl DEF IndInv, Marked, maps
<1> QED
  BY <1>1, <1>2, <1>8, <1>10, <1>12, MoveInv DEF HasGraph

\* Every end of a run: what its handler does to the maps.
LEMMA FinallyIs ==
  ASSUME TypeOK, NEW r \in RunId, NEW s \in Session, s = runs[r].session, NEW keeps, Finally(r, keeps)
  PROVE  /\ running' \subseteq Session /\ pending' \in [Session -> RunId \cup {NoRun}]
         /\ \A t \in Session \ {s} : pending'[t] = pending[t] /\ (t \in running' <=> t \in running)
         /\ pending'[s] \in {pending[s], NoRun}
         /\ s \in running' <=> s \in running /\ pending'[s] # NoRun
<1>1. CASE pending' = pending
  BY <1>1 DEF Finally, TypeOK
<1>2. CASE pending' = [pending EXCEPT ![s] = NoRun]
  BY <1>2 DEF Finally, TypeOK
<1> QED
  BY <1>1, <1>2 DEF Finally

LEMMA EndInv ==
  ASSUME IndInv, NEW r \in RunId, runs[r].stage \in Working,
         NEW s \in Session, s = runs[r].session,
         NEW e \in Run, Changes(r, e), e.session = s, e.stage \in {"over", "cut"},
         e.stage = "cut" => e.graph \in Graph,
         NEW keeps, Finally(r, keeps), UNCHANGED <<made, crashes>>,
         Marked(s), sess'[s] # "paused", \A t \in Session \ {s} : file'[t] = file[t],
         file' \in [Session -> Graph \cup {NoGraph}],
         replay' \in [Session -> [Node -> NodeStatus \cup {"unlogged"}]],
         touched' \in [Session -> SUBSET Node]
  PROVE  IndInv'
<1>1. /\ running' \subseteq Session /\ pending' \in [Session -> RunId \cup {NoRun}]
      /\ \A t \in Session \ {s} : pending'[t] = pending[t] /\ (t \in running' <=> t \in running)
      /\ pending'[s] \in {pending[s], NoRun}
      /\ s \in running' <=> s \in running /\ pending'[s] # NoRun
  BY FinallyIs DEF IndInv
<1>2. Elsewhere(s) /\ Typed
  BY <1>1 DEF Elsewhere, Typed, Marked
<1>3. Moves(s, r, e.stage)
  BY <1>2, MoveIs DEF IndInv
<1>4. Ctl(s)'
  BY <1>1, <1>3, EndCtl DEF IndInv, Working
<1> QED
  BY <1>2, <1>4, MoveInv DEF Working

LEMMA ReturnInv ==
  ASSUME IndInv, NEW r \in RunId, Return(r)
  PROVE  IndInv'
<1>1. runs[r].stage = "work" /\ runs[r].graph \in Graph
  BY DEF Return, IndInv, Started, HasGraph
<1>2. PICK s \in Session : s = runs[r].session
  BY DEF IndInv, TypeOK
<1>3. PICK g \in FinalGraphs(runs[r].graph) : Update(r, g) /\ SetStatus(s, g.status)
  BY <1>2 DEF Return
<1>4. g \in Graph /\ g.status \in {"done", "failed"}
  BY <1>1, FinalType DEF FinalGraphs, Graph
<1>5. Stored(s)
  BY <1>2, <1>3, <1>4, UpdateType DEF IndInv
<1>6. Marked(s) /\ sess'[s] # "paused"
  BY <1>3, <1>4, StatusType DEF IndInv
<1>7. PICK e \in Run : e.stage = "over" /\ e.session = runs[r].session /\ Changes(r, e)
  BY ChangesOver DEF IndInv, Return
<1>8. UNCHANGED <<made, crashes>> /\ Finally(r, runs[r].caller = "retry")
  BY DEF Return, counts
<1> QED
  BY <1>1, <1>2, <1>5, <1>6, <1>7, <1>8, EndInv DEF Stored, Working

LEMMA PlanFailsInv ==
  ASSUME IndInv, NEW r \in RunId, PlanFails(r)
  PROVE  IndInv'
<1>1. PICK s \in Session : s = runs[r].session
  BY DEF IndInv, TypeOK
<1>2. Marked(s) /\ sess'[s] # "paused"
  BY <1>1, StatusType DEF IndInv, PlanFails
<1>3. PICK e \in Run : e.stage = "over" /\ e.session = runs[r].session /\ Changes(r, e)
  BY ChangesOver DEF IndInv, PlanFails
<1>4. /\ Finally(r, FALSE) /\ UNCHANGED <<file, made, crashes>> /\ runs[r].stage \in Working
      /\ replay' \in [Session -> [Node -> NodeStatus \cup {"unlogged"}]]
      /\ touched' \in [Session -> SUBSET Node] /\ file' \in [Session -> Graph \cup {NoGraph}]
  BY DEF PlanFails, bounds, IndInv, TypeOK, Working
<1> QED
  BY <1>1, <1>2, <1>3, <1>4, EndInv

\* How a rejected run ends.
LEMMA ThrownIs ==
  ASSUME TypeOK, Started, NEW r \in RunId, Throw(r)
  PROVE  \E e \in Run :
           /\ Changes(r, e) /\ e.session = runs[r].session /\ e.stage \in {"over", "cut"}
           /\ e.stage = "over" => e.late = {}
           /\ e.stage = "cut" =>
                /\ HasGraph(r) /\ runs[r].graph \in Graph
                /\ e.graph \in Graph /\ e.graph \in {runs[r].graph} \cup SavedNext(r)
                /\ e.late = Changed(runs[r].graph, e.graph)
<1>1. CASE Over(r)
  BY <1>1, ChangesOver
<1>2. CASE ~Over(r)
  <2>1. PICK g \in {runs[r].graph} \cup SavedNext(r) :
          /\ runs[r].stage # "plan" /\ runs[r].stage \in {"plan", "work", "pass"}
          /\ runs' = [runs EXCEPT ![r].stage = "cut", ![r].graph = g,
                                  ![r].late = Changed(runs[r].graph, g)]
    BY <1>2 DEF Throw, At
  <2>2. HasGraph(r) /\ runs[r].graph \in Graph
    BY <2>1 DEF HasGraph, Started
  <2>3. g \in Graph
    BY <2>2, SavedType
  <2>4. PICK nodes \in SUBSET Node : nodes = Changed(runs[r].graph, g)
    BY DEF Changed
  <2>5. runs[r] \in Run
    BY DEF TypeOK, Run
  <2> DEFINE e == [runs[r] EXCEPT !.stage = "cut", !.graph = g, !.late = nodes]
  <2>6. e \in Run /\ e.stage = "cut" /\ e.session = runs[r].session /\ e.graph = g /\ e.late = nodes
    BY <2>3, <2>5 DEF Run, Stage
  <2>7. runs' = [runs EXCEPT ![r] = e]
    BY <2>1, <2>4, <2>5 DEF TypeOK, Run
  <2> HIDE DEF e
  <2>8. Changes(r, e)
    BY <2>6, <2>7, ChangesOne
  <2> QED
    BY <2>2, <2>3, <2>4, <2>6, <2>8
<1> QED
  BY <1>1, <1>2

\* What its clean-up does to the file.
LEMMA PatchedIs ==
  ASSUME TypeOK, NEW r \in RunId, NEW s \in Session, s = runs[r].session, Throw(r)
  PROVE  \E patched \in Graph \cup {NoGraph} :
           /\ file' = [file EXCEPT ![s] = patched]
           /\ patched = file[s] \/ (file[s] \in Graph /\ patched = PatchStuck(file[s]))
           /\ Touch(s, IF file[s] = NoGraph THEN {} ELSE Changed(file[s], patched))
<1> DEFINE patched == IF runs[r].caller = "run" /\ file[s] # NoGraph THEN PatchStuck(file[s]) ELSE file[s]
<1>1. /\ patched \in Graph \cup {NoGraph}
      /\ patched = file[s] \/ (file[s] \in Graph /\ patched = PatchStuck(file[s]))
  BY PrepareType DEF TypeOK
<1>2. /\ file' = [file EXCEPT ![s] = patched]
      /\ Touch(s, IF file[s] = NoGraph THEN {} ELSE Changed(file[s], patched))
  BY DEF Throw
<1> QED
  BY <1>1, <1>2

LEMMA ThrowInv ==
  ASSUME IndInv, NEW r \in RunId, Throw(r)
  PROVE  IndInv'
<1>1. PICK s \in Session : s = runs[r].session
  BY DEF IndInv, TypeOK
<1>2. PICK patched \in Graph \cup {NoGraph} :
        /\ file' = [file EXCEPT ![s] = patched]
        /\ Touch(s, IF file[s] = NoGraph THEN {} ELSE Changed(file[s], patched))
  BY <1>1, PatchedIs DEF IndInv
<1>3. file' \in [Session -> Graph \cup {NoGraph}] /\ \A t \in Session \ {s} : file'[t] = file[t]
  BY <1>2 DEF IndInv, TypeOK
<1>4. touched' \in [Session -> SUBSET Node]
  <2>1. (IF file[s] = NoGraph THEN {} ELSE Changed(file[s], patched)) \in SUBSET Node
    BY DEF Changed
  <2> QED
    BY <1>2, <2>1, TouchType DEF IndInv
<1>5. Marked(s) /\ sess'[s] # "paused"
  BY <1>1, StatusType DEF IndInv, Throw
<1>6. /\ replay' \in [Session -> [Node -> NodeStatus \cup {"unlogged"}]] /\ UNCHANGED <<made, crashes>>
      /\ Finally(r, FALSE) /\ runs[r].stage \in Working
  BY DEF Throw, At, Working, IndInv, TypeOK
<1>7. PICK e \in Run : /\ Changes(r, e) /\ e.session = s /\ e.stage \in {"over", "cut"}
                       /\ e.stage = "cut" => e.graph \in Graph
  BY <1>1, ThrownIs DEF IndInv
<1> QED
  BY <1>1, <1>3, <1>4, <1>5, <1>6, <1>7, EndInv

-----------------------------------------------------------------------------
(* The routes                                                               *)

LEMMA BeginIs ==
  ASSUME TypeOK, NEW s \in Session, NEW x \in {"plan", "work"}, NEW g \in Graph \cup {NoGraph},
         NEW b \in BOOLEAN, NEW c \in Caller, Begin(s, x, g, b, c)
  PROVE  /\ made < MaxRuns /\ made' = made + 1 /\ made + 1 \in RunId
         /\ running' = running \cup {s}
         /\ \E e \in Run : /\ e.stage = x /\ e.session = s /\ e.graph = g /\ e.late = {}
                           /\ Changes(made + 1, e)
<1> DEFINE e == [stage |-> x, session |-> s, graph |-> g, auto |-> b, caller |-> c, late |-> {}]
<1>1. e \in Run /\ e.stage = x /\ e.session = s /\ e.graph = g /\ e.late = {}
  BY DEF Run, Stage
<1>2. made < MaxRuns /\ made' = made + 1 /\ made + 1 \in RunId
  BY ServerAssumption DEF Begin, TypeOK, RunId
<1>3. runs' = [runs EXCEPT ![made + 1] = e]
  BY DEF Begin
<1> HIDE DEF e
<1>4. Changes(made + 1, e)
  BY <1>1, <1>2, <1>3, ChangesOne
<1> QED
  BY <1>1, <1>2, <1>4 DEF Begin, SetSessionRunning

\* A new run, where nobody works for the session.
LEMMA BeginInv ==
  ASSUME IndInv, NEW s \in Session, NEW x \in {"plan", "work"}, NEW g \in Graph \cup {NoGraph},
         NEW b \in BOOLEAN, NEW c \in Caller, Begin(s, x, g, b, c), x = "work" => g \in Graph,
         Workers(s) = {}, UNCHANGED <<pending, crashes>>, Marked(s), sess'[s] # "paused",
         \A t \in Session \ {s} : file'[t] = file[t],
         file' \in [Session -> Graph \cup {NoGraph}],
         replay' \in [Session -> [Node -> NodeStatus \cup {"unlogged"}]],
         touched' \in [Session -> SUBSET Node]
  PROVE  IndInv'
<1>1. /\ made < MaxRuns /\ made' = made + 1 /\ made + 1 \in RunId
      /\ running' = running \cup {s}
  <2>1. TypeOK
    BY DEF IndInv
  <2> QED
    BY <2>1, ServerAssumption DEF Begin, SetSessionRunning, TypeOK, RunId
<1>2. PICK e \in Run : e.stage = x /\ e.session = s /\ e.graph = g /\ Changes(made + 1, e)
  BY BeginIs DEF IndInv
<1>3. /\ running' \subseteq Session /\ pending' \in [Session -> RunId \cup {NoRun}]
      /\ s \in running' /\ pending'[s] = pending[s]
  BY <1>1 DEF IndInv, TypeOK
<1>4. Elsewhere(s)
  BY <1>1 DEF Elsewhere, Marked, IndInv, TypeOK
<1>5. Starts(s, x)
  BY <1>1, <1>2, <1>4 DEF Starts, Changes
<1>6. Ctl(s)'
  BY <1>3, <1>5, StartCtl DEF IndInv
<1>7. \A t \in Session : Ctl(t)'
  BY <1>5, <1>6, OthersKept DEF IndInv
<1>8. Started'
  <2>1. made \in Nat /\ \A q \in RunId : q \in Nat
    BY DEF IndInv, TypeOK, RunId
  <2>2. \A q \in RunId : q <= made => q <= made + 1
    BY <2>1
  <2>3. made + 1 <= made + 1
    BY <2>1
  <2> QED
    BY <1>1, <1>2, <2>2, <2>3 DEF IndInv, Started, Changes, HasGraph
<1>9. made' \in 0..MaxRuns
  BY <1>1, ServerAssumption DEF IndInv, TypeOK
<1>10. TypeOK'
  BY <1>2, <1>3, <1>9 DEF TypeOK, Changes, Run, Marked
<1> QED
  BY <1>7, <1>8, <1>10 DEF IndInv

LEMMA StartRunInv ==
  ASSUME IndInv, NEW s \in Session, StartRun(s)
  PROVE  IndInv'
<1>1. Workers(s) = {}
  BY DEF StartRun, IndInv, Ctl, WorkersAreMarked
<1>2. /\ Begin(s, "plan", NoGraph, FALSE, "run") /\ UNCHANGED <<file, replay, pending, touched, crashes>>
      /\ "run" \in Caller
  BY DEF StartRun, bounds, Caller
<1>3. /\ file' \in [Session -> Graph \cup {NoGraph}]
      /\ replay' \in [Session -> [Node -> NodeStatus \cup {"unlogged"}]]
      /\ touched' \in [Session -> SUBSET Node]
  BY <1>2 DEF IndInv, TypeOK
<1>4. Marked(s) /\ sess'[s] # "paused"
  BY DEF StartRun, Marked, IndInv, TypeOK, SessionStatus
<1> QED
  BY <1>1, <1>2, <1>3, <1>4, BeginInv

LEMMA BeginResumedInv ==
  ASSUME IndInv, NEW s \in Session, NEW g \in Graph, NEW c \in Caller, BeginResumed(s, g, c),
         Workers(s) = {}, UNCHANGED <<pending, crashes>>, SetStatus(s, "running")
  PROVE  IndInv'
<1>1. PICK h \in Graph : h = PrepareForResume(g)
  BY PrepareType
<1>2. PICK b \in BOOLEAN : b = (g.status = "paused")
  OBVIOUS
<1>3. Begin(s, "work", h, b, c) /\ Save(s, h, Present(h), {})
  BY <1>1, <1>2 DEF BeginResumed
<1>4. Stored(s)
  <2>1. Present(h) \in SUBSET Node /\ {} \in SUBSET Node
    BY DEF Present
  <2> QED
    BY <1>3, <2>1, SaveType DEF IndInv
<1>5. Marked(s) /\ sess'[s] # "paused"
  BY StatusType DEF IndInv
<1> QED
  BY <1>3, <1>4, <1>5, BeginInv DEF Stored

LEMMA ResumeFileInv ==
  ASSUME IndInv, NEW s \in Session, ResumeFile(s)
  PROVE  IndInv'
<1>1. Workers(s) = {}
  BY DEF ResumeFile, IndInv, Ctl, WorkersAreMarked
<1>2. /\ file[s] \in Graph /\ BeginResumed(s, file[s], "resume") /\ UNCHANGED <<pending, crashes>>
      /\ SetStatus(s, "running")
  BY DEF ResumeFile, IndInv, TypeOK, counts
<1>3. PICK g \in Graph : g = file[s]
  BY <1>2
<1> QED
  BY <1>1, <1>2, <1>3, BeginResumedInv DEF Caller

LEMMA ResumePendingInv ==
  ASSUME IndInv, NEW s \in Session, ResumePending(s)
  PROVE  IndInv'
<1>1. PICK r \in RunId : r = pending[s]
  BY DEF ResumePending, IndInv, TypeOK
<1>2. r # NoRun /\ r \in Of(s) /\ runs[r].stage = "wait" /\ runs[r].session = s
  BY <1>1 DEF ResumePending, IndInv, Ctl, PromiseIsKept, Waits, Of
<1>3. PICK e \in Run : /\ e.stage = "pass" /\ e.session = runs[r].session /\ e.graph = runs[r].graph
                       /\ Changes(r, e)
  <2>1. runs' = [runs EXCEPT ![r].stage = "pass"] /\ "pass" \in Stage
    BY <1>1 DEF ResumePending, Stage
  <2> QED
    BY <2>1, ChangesStage DEF IndInv
<1>4. /\ pending' = [pending EXCEPT ![s] = NoRun] /\ running = {} /\ running' = running \cup {s}
      /\ UNCHANGED <<file, replay, made, touched, crashes>>
  BY DEF ResumePending, SetPending, SetSessionRunning, bounds
<1>5. Marked(s) /\ sess'[s] # "paused"
  BY StatusType DEF IndInv, ResumePending
<1>6. Elsewhere(s) /\ Typed /\ pending'[s] = NoRun /\ s \in running' /\ s \notin running
  BY <1>4, <1>5 DEF Elsewhere, Typed, Marked, IndInv, TypeOK
<1>7. Moves(s, r, "pass")
  BY <1>2, <1>3, <1>4, <1>6, MoveIs DEF IndInv
<1>8. Ctl(s)'
  BY <1>1, <1>2, <1>5, <1>6, <1>7, ResumeCtl DEF IndInv
<1>9. runs[r].graph \in Graph
  BY <1>2 DEF IndInv, Started, HasGraph
<1> QED
  BY <1>2, <1>3, <1>4, <1>6, <1>8, <1>9, MoveInv

\* The maps and the runs stay; what a route does to the files of s.
LEMMA QuietInv ==
  ASSUME IndInv, NEW s \in Session, UNCHANGED <<maps, runs, made, crashes>>, Marked(s),
         sess'[s] = "paused" => file'[s] = file[s] \/ file'[s] # NoGraph,
         \A t \in Session \ {s} : file'[t] = file[t],
         file' \in [Session -> Graph \cup {NoGraph}],
         replay' \in [Session -> [Node -> NodeStatus \cup {"unlogged"}]],
         touched' \in [Session -> SUBSET Node]
  PROVE  IndInv'
<1>1. \A t \in Session : Ctl(t)'
  <2> SUFFICES ASSUME NEW t \in Session PROVE Ctl(t)'
    OBVIOUS
  <2>1. sess'[t] = "paused" => sess[t] = "paused" /\ (file'[t] = file[t] \/ file'[t] # NoGraph)
    BY DEF Marked
  <2> QED
    BY <2>1, QuietCtl DEF IndInv
<1>2. TypeOK'
  BY DEF IndInv, TypeOK, Marked, maps
<1>3. Started'
  BY DEF IndInv, Started, HasGraph
<1> QED
  BY <1>1, <1>2, <1>3 DEF IndInv

LEMMA RunResumeInv ==
  ASSUME IndInv, NEW s \in Session, NEW g \in Graph, NEW logged \in SUBSET Node, NEW changed \in SUBSET Node,
         RunResumeSession(s, g, logged, changed), UNCHANGED crashes,
         SetStatus(s, "running") \/ (s \in running /\ UNCHANGED sess)
  PROVE  IndInv'
<1>1. CASE s \notin running
  <2>1. Workers(s) = {}
    BY <1>1 DEF IndInv, Ctl, WorkersAreMarked
  <2>2. BeginResumed(s, g, "retry") /\ UNCHANGED pending
    BY <1>1 DEF RunResumeSession
  <2> QED
    BY <1>1, <2>1, <2>2, BeginResumedInv DEF Caller
<1>2. CASE s \in running
  <2>1. PICK behind \in SUBSET Node :
          Save(s, g, logged, behind) /\ UNCHANGED <<maps, runs, made>>
    <3>1. touched[s] \cup changed \in SUBSET Node
      BY DEF IndInv, TypeOK
    <3> QED
      BY <1>2, <3>1 DEF RunResumeSession
  <2>2. Stored(s)
    BY <2>1, SaveType DEF IndInv
  <2>3. Marked(s)
    BY StatusType, DirectoryType DEF IndInv
  <2> QED
    BY <2>1, <2>2, <2>3, QuietInv DEF Stored
<1> QED
  BY <1>1, <1>2

LEMMA RetrySessionInv ==
  ASSUME IndInv, NEW s \in Session, RetrySession(s)
  PROVE  IndInv'
<1>1. file[s] \in Graph /\ UNCHANGED crashes
  BY DEF RetrySession, Requested, IndInv, TypeOK
<1>2. PICK g \in Graph : g = RetriedGraph(file[s])
  BY <1>1, PrepareType
<1>3. /\ RunResumeSession(s, g, WithStatus(g, "ready") \cup WithStatus(g, "pending"), Changed(file[s], g))
      /\ SetStatus(s, "running")
  BY <1>2 DEF RetrySession
<1>4. PICK logged \in SUBSET Node, changed \in SUBSET Node :
        logged = WithStatus(g, "ready") \cup WithStatus(g, "pending") /\ changed = Changed(file[s], g)
  BY DEF WithStatus, Changed
<1> QED
  BY <1>1, <1>3, <1>4, RunResumeInv

LEMMA RetryOneNodeInv ==
  ASSUME IndInv, NEW s \in Session, RetryOneNode(s)
  PROVE  IndInv'
<1>1. file[s] \in Graph /\ UNCHANGED crashes
  BY DEF RetryOneNode, Requested, IndInv, TypeOK
<1>2. PICK n \in Retryable(file[s]) :
        RunResumeSession(s, [file[s] EXCEPT !.node[n] = "ready"], {n}, {n})
  BY DEF RetryOneNode
<1>3. n \in Node
  BY DEF Retryable, WithStatus
<1>4. PICK g \in Graph : g = [file[s] EXCEPT !.node[n] = "ready"]
  BY <1>1, <1>3, OneNode DEF NodeStatus, GraphStatus
<1>5. SetStatus(s, "running") \/ (s \in running /\ UNCHANGED sess)
  BY DEF RetryOneNode
<1> QED
  BY <1>1, <1>2, <1>3, <1>4, <1>5, RunResumeInv

LEMMA EditNodeInv ==
  ASSUME IndInv, NEW s \in Session, EditNode(s)
  PROVE  IndInv'
<1>1. file[s] \in Graph /\ UNCHANGED <<sess, maps, runs, made, crashes>>
  BY DEF EditNode, Requested, IndInv, TypeOK
<1>2. PICK n \in Present(file[s]) :
        LET others == IF Of(s) \subseteq At({"over", "cut"}) THEN {n} ELSE {}
        IN  Save(s, ApplyNodeChange(file[s], n), {n}, touched[s] \cup (AffectedBy(n) \ others))
  BY DEF EditNode
<1>3. n \in Node /\ {n} \in SUBSET Node
  BY DEF Present
<1>4. PICK g \in Graph : g = ApplyNodeChange(file[s], n)
  BY <1>1, <1>3, ChangeType
<1>5. PICK behind \in SUBSET Node : Save(s, g, {n}, behind)
  <2>1. \A others : touched[s] \cup (AffectedBy(n) \ others) \in SUBSET Node
    BY DEF AffectedBy, IndInv, TypeOK
  <2> QED
    BY <1>2, <1>4, <2>1
<1>6. Stored(s) /\ Marked(s)
  BY <1>1, <1>3, <1>5, SaveType, DirectoryType DEF IndInv
<1> QED
  BY <1>1, <1>6, QuietInv DEF Stored

LEMMA BackfillInv ==
  ASSUME IndInv, NEW s \in Session, Backfill(s)
  PROVE  IndInv'
<1>1. file[s] \in Graph /\ UNCHANGED <<sess, file, maps, runs, made, touched, crashes>>
  BY DEF Backfill, IndInv, TypeOK, bounds
<1>2. PICK g \in Graph, nodes \in SUBSET Node :
        g = file[s] /\ replay' = LogStatuses(s, nodes, g)
  BY <1>1 DEF Backfill, LogStatuses, Present
<1>3. replay' \in [Session -> [Node -> NodeStatus \cup {"unlogged"}]]
  BY <1>2, LogType DEF IndInv
<1>4. Marked(s)
  BY <1>1, DirectoryType DEF IndInv
<1>5. file' \in [Session -> Graph \cup {NoGraph}] /\ touched' \in [Session -> SUBSET Node]
  BY <1>1 DEF IndInv, TypeOK
<1> QED
  BY <1>1, <1>3, <1>4, <1>5, QuietInv

LEMMA DeleteSessionInv ==
  ASSUME IndInv, NEW s \in Session, DeleteSession(s)
  PROVE  IndInv'
<1>1. /\ UNCHANGED <<maps, runs, made, touched, crashes>>
      /\ sess' = [sess EXCEPT ![s] = "deleted"] /\ file' = [file EXCEPT ![s] = NoGraph]
      /\ replay' = [replay EXCEPT ![s] = [n \in Node |-> "unlogged"]]
  BY DEF DeleteSession
<1>2. /\ Marked(s) /\ sess'[s] # "paused" /\ \A t \in Session \ {s} : file'[t] = file[t]
      /\ file' \in [Session -> Graph \cup {NoGraph}]
      /\ replay' \in [Session -> [Node -> NodeStatus \cup {"unlogged"}]]
      /\ touched' \in [Session -> SUBSET Node]
  BY <1>1 DEF IndInv, TypeOK, SessionStatus, Marked
<1> QED
  BY <1>1, <1>2, QuietInv

\* What may be saved without being logged.
LEMMA SaveSetIs ==
  ASSUME NEW s \in Session, NEW saved \in SaveSet(s)
  PROVE  \/ \E r \in Workers(s) : \E g \in SavedNext(r) :
              saved = [graph |-> g, nodes |-> Unreported(r, g)]
         \/ /\ file[s] # NoGraph
            /\ \E g \in RequestedGraphs(file[s]) : saved = [graph |-> g, nodes |-> Changed(file[s], g)]
BY DEF SaveSet

LEMMA RequestedType ==
  ASSUME NEW f \in Graph, NEW g \in RequestedGraphs(f)
  PROVE  g \in Graph
<1>1. \A n \in Node : [f EXCEPT !.node[n] = "ready"] \in Graph
  BY OneNode DEF NodeStatus, GraphStatus
<1> QED
  BY <1>1, PrepareType, ChangeType DEF RequestedGraphs, Retryable, WithStatus, Present

LEMMA SaveSetType ==
  ASSUME IndInv, NEW s \in Session, NEW saved \in SaveSet(s)
  PROVE  saved.graph \in Graph /\ saved.nodes \in SUBSET Node
<1>0. TypeOK /\ Started
  BY DEF IndInv
<1>1. ASSUME NEW r \in Workers(s), NEW g \in SavedNext(r)
      PROVE  g \in Graph /\ Unreported(r, g) \in SUBSET Node
  <2>1. r \in RunId /\ (HasGraph(r) => runs[r].graph \in Graph)
    BY <1>0 DEF Workers, Of, Started
  <2> QED
    BY <2>1, SavedType DEF Unreported, Present, Changed
<1>2. ASSUME file[s] # NoGraph, NEW g \in RequestedGraphs(file[s])
      PROVE  g \in Graph /\ Changed(file[s], g) \in SUBSET Node
  BY <1>0, <1>2, RequestedType DEF TypeOK, Changed
<1> QED
  BY <1>1, <1>2, SaveSetIs

\* The maps and the runs end with the process; what was saved stays.
LEMMA CrashInv ==
  ASSUME IndInv, Crash
  PROVE  IndInv'
<1>1. /\ running' = {} /\ pending' = [s \in Session |-> NoRun] /\ crashes' = crashes + 1
      /\ UNCHANGED <<sess, replay, made>>
  BY DEF Crash
<1>2. /\ file' \in [Session -> Graph \cup {NoGraph}] /\ touched' \in [Session -> SUBSET Node]
      /\ \A s \in Session : file'[s] = file[s] \/ file'[s] # NoGraph
  <2>1. CASE UNCHANGED <<file, touched>>
    BY <2>1 DEF IndInv, TypeOK
  <2>2. CASE ~UNCHANGED <<file, touched>>
    <3>1. PICK s \in Session : \E saved \in SaveSet(s) :
            file' = [file EXCEPT ![s] = saved.graph] /\ Touch(s, saved.nodes)
      BY <2>2 DEF Crash
    <3>2. PICK saved \in SaveSet(s) :
            file' = [file EXCEPT ![s] = saved.graph] /\ Touch(s, saved.nodes)
      BY <3>1
    <3>4. saved.graph \in Graph /\ saved.nodes \in SUBSET Node
      BY SaveSetType
    <3>3. touched' \in [Session -> SUBSET Node]
      BY <3>2, <3>4, TouchType DEF IndInv
    <3> QED
      BY <3>2, <3>3, <3>4, ServerAssumption DEF IndInv, TypeOK
  <2> QED
    BY <2>1, <2>2
<1>3. runs' \in [RunId -> Run] /\ \A r \in RunId : runs'[r].stage = "over"
  <2>1. \A r \in RunId : runs[r].session \in Session
    BY DEF IndInv, TypeOK
  <2>2. runs' = [r \in RunId |-> [Idle EXCEPT !.session = runs[r].session]]
    BY DEF Crash, AllOver
  <2> QED
    BY <2>1, <2>2, IdleType
<1>4. \A s \in Session : Workers(s)' = {}
  BY <1>3 DEF Workers, At
<1>5. crashes' \in Nat /\ crashes' > 0
  BY <1>1 DEF IndInv
<1>6. TypeOK'
  BY <1>1, <1>2, <1>3 DEF IndInv, TypeOK, Run
<1>7. Started'
  BY <1>3 DEF Started, HasGraph
<1>8. \A s \in Session : Ctl(s)'
  BY <1>1, <1>2, <1>4, <1>5 DEF IndInv, Ctl, WorkersAreNewest, WorkersAreMarked, PromiseIsKept,
     MarkIsMeant, PausedHasPromise, PausedHasFile
<1> QED
  BY <1>5, <1>6, <1>7, <1>8 DEF IndInv

LEMMA InitInv == Init => IndInv
<1> SUFFICES ASSUME Init PROVE IndInv
  OBVIOUS
<1>1. PICK s \in Session : TRUE
  BY ServerAssumption
<1>2. runs \in [RunId -> Run] /\ \A r \in RunId : runs[r].stage = "over"
  BY <1>1, IdleType DEF Init
<1>3. TypeOK
  BY <1>2, ServerAssumption DEF Init, TypeOK, Run, SessionStatus, NodeStatus, NoRun
<1>4. Started
  BY <1>2 DEF Started, HasGraph
<1>5. \A t \in Session : Workers(t) = {}
  BY <1>2 DEF Workers, At
<1>6. \A t \in Session : Ctl(t)
  BY <1>5 DEF Init, Ctl, WorkersAreNewest, WorkersAreMarked, PromiseIsKept, MarkIsMeant,
     PausedHasPromise, PausedHasFile
<1>7. crashes \in Nat
  BY DEF Init
<1> QED
  BY <1>3, <1>4, <1>6, <1>7 DEF IndInv

LEMMA StutterInv ==
  ASSUME IndInv, UNCHANGED vars
  PROVE  IndInv'
<1>1. UNCHANGED <<maps, runs, made, crashes, sess, file, replay, touched>>
  BY DEF vars, maps
<1>2. TypeOK' /\ Started' /\ crashes' \in Nat
  BY <1>1 DEF IndInv, TypeOK, Started, HasGraph, maps
<1>3. \A s \in Session : Ctl(s)'
  BY <1>1, QuietCtl DEF IndInv
<1> QED
  BY <1>2, <1>3 DEF IndInv

-----------------------------------------------------------------------------
THEOREM Inductive == Spec => []IndInv
<1>1. Init => IndInv
  BY InitInv
<1>2. IndInv /\ [Next]_vars => IndInv'
  BY SavePlanInv, WorkInv, ReachCheckpointInv, ReturnInv, PlanFailsInv, ThrowInv, LiveToolCallInv,
     StartRunInv, ResumePendingInv, ResumeFileInv, RetrySessionInv, RetryOneNodeInv, EditNodeInv,
     BackfillInv, DeleteSessionInv, CrashInv, StutterInv DEF Next
<1> QED
  BY <1>1, <1>2, PTL DEF Spec

\* Sessions, graphs, logs and runs only take the values they are meant to.
THEOREM TypeCorrect == Spec => []TypeOK
<1>1. IndInv => TypeOK
  BY DEF IndInv
<1> QED
  BY <1>1, Inductive, PTL

\* Only the last started run of a session ever saves its graph, although a retry
\* may start one beside a run that waits at a checkpoint (resume.ts, run.ts).
THEOREM OneRunWrites == Spec => []OneWriter
<1>1. IndInv => OneWriter
  BY DEF IndInv, Ctl, WorkersAreNewest, OneWriter
<1> QED
  BY <1>1, Inductive, PTL

\* A session shown as paused can be resumed: by its promise or from its file.
THEOREM PausedResumes == Spec => []PausedCanResume
<1>1. IndInv => PausedCanResume
  BY DEF IndInv, Ctl, PausedHasPromise, PausedHasFile, PausedCanResume, Waits, At
<1> QED
  BY <1>1, Inductive, PTL

\* The mark of a session as running outlives its runs only for the promise of a
\* run that was superseded.
THEOREM MarkIsExplained == Spec => []MarkedMeansRunning
<1>1. IndInv => MarkedMeansRunning
  BY DEF IndInv, TypeOK, Ctl, MarkIsMeant, MarkedMeansRunning, Waits, At
<1> QED
  BY <1>1, Inductive, PTL
-----------------------------------------------------------------------------
(* What the replay of the operation log may differ in                       *)

TesterAbsent(g) == \A n \in Node : g.node[n] = "absent" <=> n \in Tester

Holds(r) == runs[r].stage \in {"work", "wait", "pass"}

\* What is logged of the other nodes, if anything, is their status in g.
Fits(s, g, nodes) == \A n \in Node \ nodes : replay[s][n] \in {"unlogged", g.node[n]}

\* Nothing is saved of a session that was not started, nor logged of a node
\* that is not in the graph.
LogFollowsFile(s) ==
  /\ file[s] # NoGraph => TesterAbsent(file[s])
  /\ \A n \in Tester : replay[s][n] = "unlogged"
  /\ sess[s] = "none" => file[s] = NoGraph /\ Of(s) = {}

\* A run that plans comes before the graph file.
RunPlanned(s, r) ==
  /\ HasGraph(r) => TesterAbsent(runs[r].graph)
  /\ runs[r].late \cap Tester = {}
  /\ runs[r].stage = "plan" => runs[r].graph = NoGraph /\ file[s] = NoGraph

RunsArePlanned(s) == \A r \in Of(s) : RunPlanned(s, r)

\* What the newest run still holds of a node that was changed behind it will be
\* saved, and is not logged as a change then.  A run may save the graph of a
\* session that was deleted again, so that the log is spoken of without a file, too.
Explained(s) ==
  /\ file[s] = NoGraph => \A n \in Node \ touched[s] : replay[s][n] = "unlogged"
  /\ file[s] # NoGraph =>
       /\ Fits(s, file[s], touched[s])
       /\ \A r \in Newest(s) : Holds(r) => Changed(file[s], runs[r].graph) \subseteq touched[s]

Log(s) == LogFollowsFile(s) /\ RunsArePlanned(s) /\ Explained(s)

LogInv == IndInv /\ \A s \in Session : Log(s)

LEMMA SuccessorAbsent ==
  ASSUME NEW g \in Graph, TesterAbsent(g), NEW h \in Successors(g)
  PROVE  TesterAbsent(h)
<1> USE DEF WithStatus, TesterAbsent
<1>1. ASSUME NEW n \in Node, g.node[n] # "absent", NEW v \in {"ready", "running"}
      PROVE TesterAbsent([g EXCEPT !.node[n] = v])
  BY <1>1 DEF Graph
<1>2. ASSUME NEW n \in Node, g.node[n] = "running" PROVE TesterAbsent(CompleteNode(g, n))
  BY <1>2 DEF CompleteNode, Graph
<1>3. ASSUME NEW n \in Node, g.node[n] = "running" PROVE TesterAbsent(FailNode(g, n))
  BY <1>3 DEF FailNode, Graph, Blocks
<1>4. ASSUME NEW n \in Node, g.node[n] = "running" PROVE TesterAbsent(RetryNode(g, n))
  BY <1>4 DEF RetryNode, Graph, Blocks
<1>5. ASSUME NEW n \in PromotableNodes(g), h = [g EXCEPT !.node[n] = "ready"] PROVE TesterAbsent(h)
  BY <1>1, <1>5 DEF PromotableNodes
<1>6. ASSUME NEW n \in ReadyNodes(g) \ Checkpoint, h = [g EXCEPT !.node[n] = "running"]
      PROVE  TesterAbsent(h)
  BY <1>1, <1>6 DEF ReadyNodes
<1> HIDE DEF TesterAbsent
<1> QED
  BY <1>2, <1>3, <1>4, <1>5, <1>6 DEF Successors

LEMMA OthersAbsent ==
  ASSUME NEW g \in Graph, TesterAbsent(g)
  PROVE  /\ TesterAbsent(PrepareForResume(g)) /\ TesterAbsent(PatchStuck(g))
         /\ TesterAbsent(RetriedGraph(g))
         /\ \A n \in Node : TesterAbsent(ApplyNodeChange(g, n))
         /\ \A n \in Node : g.node[n] \in {"ready", "running", "failed"} =>
              /\ TesterAbsent([g EXCEPT !.node[n] = "ready"])
              /\ TesterAbsent([g EXCEPT !.node[n] = "running", !.status = "paused"])
         /\ \A n \in Node : g.node[n] = "running" =>
              TesterAbsent([PassNode(g, n) EXCEPT !.status = "running"])
         /\ \A x \in GraphStatus : TesterAbsent([g EXCEPT !.status = x])
<1> USE DEF TesterAbsent, WithStatus
<1>1. TesterAbsent(PrepareForResume(g))
  BY DEF PrepareForResume, Graph
<1>2. TesterAbsent(PatchStuck(g))
  BY DEF PatchStuck, Graph
<1>3. TesterAbsent(RetriedGraph(g))
  <2> DEFINE nodes == [n \in Node |-> CASE g.node[n] = "failed" -> "ready"
                                        [] g.node[n] = "blocked" -> "pending"
                                        [] OTHER -> g.node[n]]
  <2>1. \A n \in Node : nodes[n] = "absent" <=> g.node[n] = "absent"
    OBVIOUS
  <2> HIDE DEF nodes
  <2>2. [g EXCEPT !.status = "running", !.node = nodes].node = nodes
    BY DEF Graph
  <2> QED
    BY <2>1, <2>2 DEF RetriedGraph, nodes
<1>4. ASSUME NEW n \in Node PROVE TesterAbsent(ApplyNodeChange(g, n))
  BY DEF ApplyNodeChange, Graph, Present
<1>5. ASSUME NEW n \in Node, g.node[n] \in {"ready", "running", "failed"}
      PROVE /\ TesterAbsent([g EXCEPT !.node[n] = "ready"])
            /\ TesterAbsent([g EXCEPT !.node[n] = "running", !.status = "paused"])
  BY <1>5 DEF Graph
<1>6. ASSUME NEW n \in Node, g.node[n] = "running"
      PROVE TesterAbsent([PassNode(g, n) EXCEPT !.status = "running"])
  BY <1>6 DEF Graph, PassNode
<1>7. ASSUME NEW x \in GraphStatus PROVE TesterAbsent([g EXCEPT !.status = x])
  BY DEF Graph
<1> QED
  BY <1>1, <1>2, <1>3, <1>4, <1>5, <1>6, <1>7

LEMMA PlannedAbsent == TesterAbsent(PlannedGraph)
BY DEF TesterAbsent, PlannedGraph

\* Whatever a run saves next lacks the same nodes.
LEMMA SavedAbsent ==
  ASSUME NEW r \in RunId, HasGraph(r) => runs[r].graph \in Graph /\ TesterAbsent(runs[r].graph),
         NEW h \in SavedNext(r)
  PROVE  TesterAbsent(h)
<1>1. CASE runs[r].stage = "plan"
  BY <1>1, PlannedAbsent DEF SavedNext
<1>2. ASSUME HasGraph(r), NEW n \in CheckpointNodes(runs[r].graph) PROVE TesterAbsent(PausedAt(runs[r].graph, n))
  BY <1>2, OthersAbsent DEF CheckpointNodes, WithStatus, PausedAt
<1>3. ASSUME HasGraph(r), NEW g \in FinalGraphs(runs[r].graph) PROVE TesterAbsent(g)
  BY <1>3, OthersAbsent DEF FinalGraphs, GraphStatus
<1>4. ASSUME HasGraph(r), NEW g \in PassedGraphs(runs[r].graph) PROVE TesterAbsent(g)
  BY <1>4, OthersAbsent DEF PassedGraphs, WithStatus
<1>5. CASE runs[r].stage = "work"
  <2>1. HasGraph(r)
    BY <1>5 DEF HasGraph
  <2>2. h \in Successors(runs[r].graph)
          \cup {PausedAt(runs[r].graph, n) : n \in CheckpointNodes(runs[r].graph)}
          \cup FinalGraphs(runs[r].graph)
    BY <1>5 DEF SavedNext
  <2> QED
    BY <1>2, <1>3, <2>1, <2>2, SuccessorAbsent
<1>6. CASE runs[r].stage = "pass"
  BY <1>4, <1>6 DEF SavedNext, HasGraph
<1>7. CASE runs[r].stage \notin {"plan", "work", "pass"}
  BY <1>7 DEF SavedNext
<1> QED
  BY <1>1, <1>5, <1>6, <1>7

LEMMA RequestedAbsent ==
  ASSUME NEW f \in Graph, TesterAbsent(f), NEW g \in RequestedGraphs(f)
  PROVE  TesterAbsent(g)
BY OthersAbsent DEF RequestedGraphs, Retryable, WithStatus, Present

\* What was reported is in the log, and nothing else changes in it.
LEMMA LoggedIs ==
  ASSUME TypeOK, NEW s \in Session, NEW nodes \in SUBSET Node, NEW g, NEW log, log = LogStatuses(s, nodes, g)
  PROVE  /\ \A n \in Node : log[s][n] = IF n \in nodes THEN g.node[n] ELSE replay[s][n]
         /\ \A t \in Session \ {s} : log[t] = replay[t]
<1> DEFINE new == Replayed(replay[s], NodeOps(nodes, g))
<1>1. \A n \in Node : new[n] = IF n \in nodes THEN g.node[n] ELSE replay[s][n]
  BY DEF Replayed, NodeOps
<1>2. log = [replay EXCEPT ![s] = new]
  BY DEF LogStatuses, AppendOps
<1> HIDE DEF new
<1> QED
  BY <1>1, <1>2 DEF TypeOK

\* The status of no other session changes, and that of s is not lost.
SessionKept(s) ==
  /\ sess'[s] = "none" => sess[s] = "none"
  /\ \A t \in Session \ {s} : sess'[t] = sess[t]

\* No other session's runs change.
RunsKept(s) ==
  \A t \in Session \ {s} : Of(t)' = Of(t) /\ \A q \in Of(t) : runs'[q] = runs[q]

\* Sessions other than s are not concerned.
Only(s) ==
  /\ RunsKept(s)
  /\ \A t \in Session \ {s} :
       sess'[t] = sess[t] /\ file'[t] = file[t] /\ replay'[t] = replay[t] /\ touched'[t] = touched[t]

LEMMA OnlyLog ==
  ASSUME NEW s, Only(s), \A t \in Session : Log(t), s \in Session => Log(s)'
  PROVE  \A t \in Session : Log(t)'
<1> SUFFICES ASSUME NEW t \in Session, t # s PROVE Log(t)'
  OBVIOUS
<1>1. /\ sess'[t] = sess[t] /\ file'[t] = file[t] /\ replay'[t] = replay[t] /\ touched'[t] = touched[t]
      /\ Of(t)' = Of(t) /\ \A q \in Of(t) : runs'[q] = runs[q]
  BY DEF Only, RunsKept
<1>2. Newest(t)' = Newest(t) /\ Newest(t) \subseteq Of(t)
  BY <1>1 DEF Newest
<1>3. LogFollowsFile(t)'
  BY <1>1 DEF Log, LogFollowsFile, TesterAbsent
<1>4. RunsArePlanned(t)'
  BY <1>1 DEF Log, RunsArePlanned, RunPlanned, HasGraph, TesterAbsent
<1>5. Explained(t)'
  <2>1. \A q \in Newest(t) : Holds(q)' = Holds(q) /\ runs'[q].graph = runs[q].graph
    BY <1>1, <1>2 DEF Holds
  <2> QED
    BY <1>1, <1>2, <2>1 DEF Log, Explained, Fits
<1> QED
  BY <1>3, <1>4, <1>5 DEF Log

\* One run of s changes.
LEMMA ChangesIs ==
  ASSUME TypeOK, NEW r \in RunId, NEW e \in Run, Changes(r, e), e.session = runs[r].session, made' = made
  PROVE  /\ \A t \in Session : Of(t)' = Of(t) /\ Newest(t)' = Newest(t)
         /\ RunsKept(runs[r].session)
<1>1. \A q \in RunId : runs'[q].session = runs[q].session
  BY DEF Changes
<1>2. \A t \in Session : Of(t)' = Of(t)
  BY <1>1 DEF Of
<1> QED
  BY <1>2 DEF Changes, Of, Newest, RunsKept

\* One run of s is added, which is its newest.
LEMMA StartIs ==
  ASSUME TypeOK, NEW e \in Run, Changes(made + 1, e), made' = made + 1, made + 1 \in RunId
  PROVE  /\ Of(e.session)' = Of(e.session) \cup {made + 1} /\ Newest(e.session)' = {made + 1}
         /\ \A t \in Session : \A q \in Of(t) : runs'[q] = runs[q]
         /\ RunsKept(e.session)
<1>1. made \in Nat /\ \A q \in RunId : q \in Nat
  BY DEF TypeOK, RunId
<1>2. \A q \in RunId : /\ q <= made + 1 <=> (q <= made \/ q = made + 1)
                       /\ q <= made => q # made + 1
  BY <1>1
<1>3. \A q \in RunId : q # made + 1 => runs'[q] = runs[q]
  BY DEF Changes
<1>4. runs'[made + 1] = e
  BY DEF Changes
<1>5. Of(e.session)' = Of(e.session) \cup {made + 1}
  BY <1>2, <1>3, <1>4 DEF Of
<1>6. \A t \in Session : t # e.session => Of(t)' = Of(t)
  BY <1>2, <1>3, <1>4 DEF Of
<1>7. \A t \in Session : \A q \in Of(t) : runs'[q] = runs[q]
  BY <1>2, <1>3 DEF Of
<1>8. Newest(e.session)' = {made + 1}
  <2>1. \A q \in Of(e.session)' : q \in Nat /\ q <= made + 1
    BY <1>1, <1>2 DEF Of
  <2> QED
    BY <1>1, <1>5, <2>1 DEF Newest
<1> QED
  BY <1>5, <1>6, <1>7, <1>8 DEF RunsKept

\* A run of s changes and has planned: the others are as they were.
LEMMA MovedRuns ==
  ASSUME LogInv, NEW r \in RunId, NEW e \in Run, Changes(r, e), e.session = runs[r].session, made' = made,
         NEW s \in Session, s = runs[r].session, r \in Of(s),
         e.stage \notin {"plan", "over"} => TesterAbsent(e.graph), e.stage # "plan",
         e.late \cap Tester = {}, runs[r].stage \in Working \/ file'[s] = file[s]
  PROVE  RunsArePlanned(s)'
<1>1. Of(s)' = Of(s)
  BY ChangesIs DEF LogInv, IndInv
<1> SUFFICES ASSUME NEW q \in Of(s) PROVE RunPlanned(s, q)'
  BY <1>1 DEF RunsArePlanned
<1>2. CASE q = r
  BY <1>2 DEF Changes, RunPlanned, HasGraph, TesterAbsent
<1>3. CASE q # r
  <2>1. runs'[q] = runs[q] /\ q \in RunId /\ RunPlanned(s, q)
    BY <1>3 DEF Changes, Of, LogInv, Log, RunsArePlanned
  <2>2. CASE file'[s] = file[s]
    BY <2>1, <2>2 DEF RunPlanned, HasGraph, TesterAbsent
  <2>3. CASE runs[r].stage \in Working
    <3>1. r \in Workers(s)
      BY <2>3 DEF Workers, At, Working
    <3>2. Workers(s) = {r}
      BY <3>1, OneNewest DEF LogInv, IndInv, Ctl
    <3>3. runs[q].stage # "plan"
      BY <1>3, <2>1, <3>2 DEF Workers, At
    <3> QED
      BY <2>1, <3>3 DEF RunPlanned, HasGraph, TesterAbsent
  <2> QED
    BY <2>2, <2>3
<1> QED
  BY <1>2, <1>3

\* A graph is saved and some of its nodes are logged, where the log fits in the
\* others or is known to be behind.
LEMMA SavedLog ==
  ASSUME LogInv, NEW s \in Session, NEW g \in Graph, TesterAbsent(g),
         NEW nodes \in SUBSET Node, nodes \cap Tester = {}, NEW behind \in SUBSET Node,
         Save(s, g, nodes, behind), Fits(s, g, behind \cup nodes),
         SessionKept(s), sess[s] # "none", RunsKept(s), RunsArePlanned(s)',
         \A r \in Newest(s)' : Holds(r)' => Changed(g, runs'[r].graph) \subseteq behind
  PROVE  \A t \in Session : Log(t)'
<1>0. TypeOK /\ Log(s)
  BY DEF LogInv, IndInv
<1>1. PICK lost \in SUBSET nodes :
        /\ file' = [file EXCEPT ![s] = g] /\ replay' = LogStatuses(s, nodes \ lost, g)
        /\ touched' = [touched EXCEPT ![s] = behind \cup lost]
  BY DEF Save
<1>2. /\ file'[s] = g /\ g # NoGraph /\ touched'[s] = behind \cup lost
      /\ \A t \in Session \ {s} : file'[t] = file[t] /\ touched'[t] = touched[t]
  BY <1>0, <1>1, ServerAssumption DEF TypeOK
<1>3. /\ \A n \in Node : replay'[s][n] = IF n \in nodes \ lost THEN g.node[n] ELSE replay[s][n]
      /\ \A t \in Session \ {s} : replay'[t] = replay[t]
  <2>1. PICK told \in SUBSET Node : told = nodes \ lost
    OBVIOUS
  <2>2. PICK new : new = Replayed(replay[s], NodeOps(told, g))
    OBVIOUS
  <2>3. replay' = [replay EXCEPT ![s] = new]
    BY <1>1, <2>1, <2>2 DEF LogStatuses, AppendOps
  <2>4. \A n \in Node : new[n] = IF n \in told THEN g.node[n] ELSE replay[s][n]
    BY <2>2 DEF Replayed, NodeOps
  <2> QED
    BY <1>0, <2>1, <2>3, <2>4 DEF TypeOK
<1>4. Only(s)
  BY <1>2, <1>3 DEF Only, SessionKept
<1>5. LogFollowsFile(s)'
  BY <1>0, <1>2, <1>3, GraphAssumption DEF Log, LogFollowsFile, TesterAbsent, SessionKept
<1>6. Fits(s, g, touched[s])'
  <2> SUFFICES ASSUME NEW n \in Node, n \notin behind \cup lost
               PROVE  replay'[s][n] \in {"unlogged", g.node[n]}
    BY <1>2 DEF Fits
  <2>1. CASE n \in nodes
    BY <1>3, <2>1
  <2>2. CASE n \notin nodes
    BY <1>3, <2>2 DEF Fits
  <2> QED
    BY <2>1, <2>2
<1>7. Explained(s)'
  BY <1>2, <1>6 DEF Explained, Fits, Changed
<1> QED
  BY <1>4, <1>5, <1>7, OnlyLog DEF Log, LogInv

\* A graph of which all is logged needs nothing of what was logged before.
LEMMA AllFits ==
  ASSUME NEW s \in Session, LogFollowsFile(s), NEW g, TesterAbsent(g)
  PROVE  Fits(s, g, {} \cup Present(g)) /\ Present(g) \in SUBSET Node /\ Present(g) \cap Tester = {}
BY GraphAssumption DEF LogFollowsFile, TesterAbsent, Fits, Present

\* What a worker saves is what it holds, but for what it will report.
LEMMA WorkerFits ==
  ASSUME LogInv, NEW s \in Session, NEW r \in Workers(s), NEW g, TesterAbsent(g)
  PROVE  /\ Fits(s, g, touched[s] \cup Unreported(r, g))
         /\ Unreported(r, g) \in SUBSET Node /\ Unreported(r, g) \cap Tester = {}
         /\ Newest(s) = {r} /\ r \in RunId /\ r \in Of(s)
         /\ HasGraph(r) => runs[r].graph \in Graph /\ TesterAbsent(runs[r].graph)
<1>0. TypeOK /\ Started /\ Log(s)
  BY DEF LogInv, IndInv
<1>1. r \in RunId /\ r \in Of(s) /\ runs[r].stage \in {"plan", "work", "pass"}
  BY DEF Workers, Of, At
<1>2. Newest(s) = {r}
  <2>1. Workers(s) = {r} /\ r \in Newest(s)
    BY <1>0, OneNewest DEF LogInv, IndInv, Ctl
  <2> QED
    BY <1>0, <2>1 DEF Newest, Of, RunId
<1>3. RunPlanned(s, r)
  BY <1>0, <1>1 DEF Log, RunsArePlanned
<1>4. HasGraph(r) => runs[r].graph \in Graph /\ TesterAbsent(runs[r].graph)
  BY <1>0, <1>1, <1>3 DEF Started, RunPlanned
<1>5. CASE runs[r].stage = "plan"
  <2>1. runs[r].graph = NoGraph /\ file[s] = NoGraph
    BY <1>3, <1>5 DEF RunPlanned
  <2>2. Unreported(r, g) = Present(g)
    BY <2>1 DEF Unreported
  <2>3. Fits(s, g, touched[s] \cup Unreported(r, g))
    BY <1>0, <2>1 DEF Log, Explained, Fits
  <2> QED
    BY <1>0, <1>1, <1>2, <1>4, <2>2, <2>3, AllFits DEF Log
<1>6. CASE runs[r].stage # "plan"
  <2>1. HasGraph(r) /\ Holds(r)
    BY <1>1, <1>6 DEF HasGraph, Holds
  <2>2. PICK h \in Graph : h = runs[r].graph /\ TesterAbsent(h)
    BY <1>4, <2>1
  <2>3. Unreported(r, g) = Changed(h, g)
    BY <2>2, ServerAssumption DEF Unreported
  <2>4. Changed(h, g) \in SUBSET Node /\ Changed(h, g) \cap Tester = {}
    BY <2>2, GraphAssumption DEF Changed, TesterAbsent
  <2>5. Fits(s, g, touched[s] \cup Changed(h, g))
    <3> SUFFICES ASSUME NEW n \in Node, n \notin touched[s], n \notin Changed(h, g)
                 PROVE  replay[s][n] \in {"unlogged", g.node[n]}
      BY DEF Fits
    <3>1. h.node[n] = g.node[n]
      BY DEF Changed
    <3>2. CASE file[s] = NoGraph
      BY <1>0, <3>2 DEF Log, Explained
    <3>3. CASE file[s] # NoGraph
      <4>1. replay[s][n] \in {"unlogged", file[s].node[n]} /\ n \notin Changed(file[s], h)
        BY <1>0, <1>2, <2>1, <2>2, <3>3 DEF Log, Explained, Fits
      <4> QED
        BY <3>1, <4>1 DEF Changed
    <3> QED
      BY <3>2, <3>3
  <2> QED
    BY <1>1, <1>2, <1>4, <2>3, <2>4, <2>5
<1> QED
  BY <1>5, <1>6

\* A worker saves what it has next.
LEMMA WorkerLog ==
  ASSUME LogInv, NEW s \in Session, NEW r \in Workers(s), NEW g \in Graph, g \in SavedNext(r),
         NEW nodes \in SUBSET Node, NEW behind \in SUBSET Node, Save(s, g, nodes, behind),
         \/ nodes = Unreported(r, g) /\ behind = touched[s]
         \/ nodes = Present(g) /\ behind = {},
         NEW e \in Run, Changes(r, e), e.session = runs[r].session, e.stage # "plan",
         e.stage # "over" => e.graph = g, e.late \in {runs[r].late, {}},
         made' = made, SessionKept(s)
  PROVE  \A t \in Session : Log(t)'
<1>0. TypeOK /\ Log(s) /\ r \in RunId /\ r \in Of(s) /\ runs[r].session = s /\ runs[r].stage \in Working
  BY DEF LogInv, IndInv, Workers, Of, At, Working
<1>1. HasGraph(r) => runs[r].graph \in Graph /\ TesterAbsent(runs[r].graph)
  BY WorkerFits, PlannedAbsent
<1>2. TesterAbsent(g)
  BY <1>0, <1>1, SavedAbsent
<1>3. /\ Fits(s, g, touched[s] \cup Unreported(r, g)) /\ Unreported(r, g) \cap Tester = {}
      /\ Newest(s) = {r}
  BY <1>2, WorkerFits
<1>4. Fits(s, g, behind \cup nodes) /\ nodes \cap Tester = {}
  BY <1>0, <1>2, <1>3, AllFits DEF Log
<1>5. e.late \cap Tester = {}
  BY <1>0 DEF Log, RunsArePlanned, RunPlanned
<1>6. RunsArePlanned(s)'
  BY <1>0, <1>2, <1>5, MovedRuns
<1>7. Newest(s)' = {r} /\ RunsKept(s)
  BY <1>0, <1>3, ChangesIs
<1>8. \A q \in Newest(s)' : Holds(q)' => Changed(g, runs'[q].graph) \subseteq behind
  BY <1>7 DEF Changes, Holds, Changed
<1>9. sess[s] # "none"
  BY <1>0 DEF Log, LogFollowsFile
<1> QED
  BY <1>2, <1>4, <1>6, <1>7, <1>8, <1>9, SavedLog

-----------------------------------------------------------------------------
(* The steps of a run and the log                                           *)

LEMMA MarkedKept ==
  ASSUME NEW s, Marked(s)
  PROVE  SessionKept(s)
BY DEF Marked, SessionKept

LEMMA SavePlanLog ==
  ASSUME LogInv, NEW r \in RunId, SavePlan(r)
  PROVE  \A t \in Session : Log(t)'
<1>0. TypeOK /\ Started
  BY DEF LogInv, IndInv
<1>1. PICK s \in Session : s = runs[r].session
  BY <1>0 DEF TypeOK
<1>2. PICK g \in Graph : g = PlannedGraph
  BY PlannedType
<1>3. PICK nodes \in SUBSET Node, behind \in SUBSET Node : nodes = Present(g) /\ behind = {}
  BY DEF Present
<1>4. /\ runs[r].stage = "plan" /\ Save(s, g, nodes, behind) /\ made' = made /\ sess' = WithDirectory(s)
      /\ runs' = [runs EXCEPT ![r].graph = g, ![r].stage = "work"]
  BY <1>1, <1>2, <1>3 DEF SavePlan
<1>5. PICK e \in Run : /\ e.stage = "work" /\ e.session = runs[r].session /\ e.graph = g
                       /\ e.late = runs[r].late /\ Changes(r, e)
  <2>1. "work" \in Stage
    BY DEF Stage
  <2> QED
    BY <1>0, <1>4, <2>1, ChangesGraph
<1>6. r \in Workers(s) /\ g \in SavedNext(r)
  BY <1>0, <1>1, <1>2, <1>4, WorkerOf DEF SavedNext
<1>7. SessionKept(s)
  BY <1>0, <1>4, DirectoryType, MarkedKept
<1> QED
  BY <1>3, <1>4, <1>5, <1>6, <1>7, WorkerLog

\* What an update of the loop saves and reports.
LEMMA UpdateLog ==
  ASSUME LogInv, NEW r \in RunId, runs[r].stage \in {"work", "pass"}, NEW s \in Session, s = runs[r].session,
         NEW g \in Graph, g \in SavedNext(r), Update(r, g), NEW e \in Run, Changes(r, e),
         e.session = runs[r].session, e.stage # "plan", e.stage # "over" => e.graph = g,
         e.late \in {runs[r].late, {}}, made' = made, SessionKept(s)
  PROVE  \A t \in Session : Log(t)'
<1>0. TypeOK /\ Started
  BY DEF LogInv, IndInv
<1>1. r \in Workers(s)
  BY <1>0, WorkerOf
<1>2. PICK nodes \in SUBSET Node, behind \in SUBSET Node :
        nodes = Unreported(r, g) /\ behind = touched[s]
  BY <1>0 DEF Unreported, Present, Changed, TypeOK
<1>3. Save(s, g, nodes, behind)
  BY <1>2 DEF Update
<1> QED
  BY <1>1, <1>2, <1>3, WorkerLog

LEMMA WorkLog ==
  ASSUME LogInv, NEW r \in RunId, Work(r) \/ PassCheckpoint(r)
  PROVE  \A t \in Session : Log(t)'
<1>0. TypeOK /\ Started
  BY DEF LogInv, IndInv
<1>1. PICK s \in Session : s = runs[r].session
  BY <1>0 DEF TypeOK
<1>2. runs[r].stage \in {"work", "pass"} /\ runs[r].graph \in Graph /\ UNCHANGED <<sess, made>>
  BY <1>0 DEF Work, PassCheckpoint, Started, HasGraph
<1>3. PICK g \in SavedNext(r) :
        /\ Update(r, g)
        /\ \/ runs' = [runs EXCEPT ![r].graph = g] /\ runs[r].stage = "work"
           \/ runs' = [runs EXCEPT ![r].graph = g, ![r].stage = "work"]
  <2>1. CASE Work(r)
    BY <2>1 DEF Work, SavedNext
  <2>2. CASE PassCheckpoint(r)
    BY <2>2 DEF PassCheckpoint, SavedNext
  <2> QED
    BY <2>1, <2>2
<1>4. g \in Graph
  BY <1>2, SavedType
<1>5. PICK e \in Run : /\ e.stage = "work" /\ e.session = runs[r].session /\ e.graph = g
                       /\ e.late = runs[r].late /\ Changes(r, e)
  <2>1. "work" \in Stage
    BY DEF Stage
  <2> QED
    BY <1>0, <1>3, <1>4, <2>1, ChangesGraph
<1>6. SessionKept(s)
  BY <1>2 DEF SessionKept
<1> QED
  BY <1>1, <1>2, <1>3, <1>4, <1>5, <1>6, UpdateLog

LEMMA ReachCheckpointLog ==
  ASSUME LogInv, NEW r \in RunId, ReachCheckpoint(r)
  PROVE  \A t \in Session : Log(t)'
<1>0. TypeOK /\ Started
  BY DEF LogInv, IndInv
<1>1. PICK s \in Session : s = runs[r].session
  BY <1>0 DEF TypeOK
<1>2. runs[r].stage = "work" /\ made' = made /\ runs[r].graph \in Graph
  BY <1>0 DEF ReachCheckpoint, Started, HasGraph
<1>3. PICK n \in CheckpointNodes(runs[r].graph) :
        LET g == PausedAt(runs[r].graph, n)
        IN  /\ Update(r, g)
            /\ IF runs[r].auto
               THEN /\ runs' = [runs EXCEPT ![r].graph = g, ![r].auto = FALSE, ![r].stage = "pass"]
                    /\ sess' = WithDirectory(s)
               ELSE /\ runs' = [runs EXCEPT ![r].graph = g, ![r].stage = "wait"]
                    /\ sess' = [sess EXCEPT ![s] = IF Exists(s) THEN "paused" ELSE "remains"]
  BY <1>1 DEF ReachCheckpoint
<1>4. PICK g \in Graph : g = PausedAt(runs[r].graph, n)
  BY <1>2, PausedType
<1>5. g \in SavedNext(r) /\ Update(r, g)
  BY <1>2, <1>3, <1>4 DEF SavedNext
<1>6. PICK x \in {"pass", "wait"} :
        \E e \in Run : /\ e.stage = x /\ e.session = runs[r].session /\ e.graph = g
                       /\ e.late = runs[r].late /\ Changes(r, e)
  <2>0. "pass" \in Stage /\ "wait" \in Stage
    BY DEF Stage
  <2>1. CASE runs[r].auto
    <3>1. runs' = [runs EXCEPT ![r].graph = g, ![r].auto = FALSE, ![r].stage = "pass"]
      BY <1>3, <1>4, <2>1
    <3> QED
      BY <1>0, <2>0, <3>1, ChangesGraph
  <2>2. CASE ~runs[r].auto
    <3>1. runs' = [runs EXCEPT ![r].graph = g, ![r].stage = "wait"]
      BY <1>3, <1>4, <2>2
    <3> QED
      BY <1>0, <2>0, <3>1, ChangesGraph
  <2> QED
    BY <2>1, <2>2
<1>7. SessionKept(s)
  <2>1. CASE sess' = WithDirectory(s)
    BY <1>0, <2>1, DirectoryType, MarkedKept
  <2>2. CASE sess' = [sess EXCEPT ![s] = IF Exists(s) THEN "paused" ELSE "remains"]
    BY <1>0, <2>2 DEF SessionKept, TypeOK
  <2> QED
    BY <1>3, <2>1, <2>2
<1> QED
  BY <1>1, <1>2, <1>5, <1>6, <1>7, UpdateLog

LEMMA ReturnLog ==
  ASSUME LogInv, NEW r \in RunId, Return(r)
  PROVE  \A t \in Session : Log(t)'
<1>0. TypeOK /\ Started
  BY DEF LogInv, IndInv
<1>1. PICK s \in Session : s = runs[r].session
  BY <1>0 DEF TypeOK
<1>2. runs[r].stage = "work" /\ runs[r].graph \in Graph /\ made' = made /\ Over(r)
  BY <1>0 DEF Return, Started, HasGraph
<1>3. PICK g \in FinalGraphs(runs[r].graph) : Update(r, g) /\ SetStatus(s, g.status)
  BY <1>1 DEF Return
<1>4. g \in Graph /\ g.status \in {"done", "failed"} /\ g \in SavedNext(r)
  BY <1>2, FinalType DEF FinalGraphs, Graph, SavedNext
<1>5. PICK e \in Run : e.stage = "over" /\ e.session = runs[r].session /\ e.late = {} /\ Changes(r, e)
  BY <1>0, <1>2, ChangesOver
<1>6. SessionKept(s)
  BY <1>0, <1>3, <1>4, StatusType, MarkedKept
<1> QED
  BY <1>1, <1>2, <1>3, <1>4, <1>5, <1>6, UpdateLog

\* A run is no longer, or no longer saves; the file of its session may be patched.
LEMMA EndLog ==
  ASSUME LogInv, NEW r \in RunId, runs[r].stage \in Working, NEW s \in Session, s = runs[r].session,
         NEW e \in Run, Changes(r, e), e.session = runs[r].session, e.stage \in {"over", "cut"},
         e.stage = "cut" => TesterAbsent(e.graph), e.late \cap Tester = {},
         UNCHANGED <<made, replay>>, SessionKept(s), NEW patched, file' = [file EXCEPT ![s] = patched],
         patched = file[s] \/ (file[s] \in Graph /\ patched = PatchStuck(file[s])),
         Touch(s, IF file[s] = NoGraph THEN {} ELSE Changed(file[s], patched))
  PROVE  \A t \in Session : Log(t)'
<1>0. TypeOK /\ Log(s) /\ Started
  BY DEF LogInv, IndInv
<1>1. r \in Workers(s) /\ r \in Of(s)
  BY <1>0, WorkerOf DEF Working, Workers
<1>2. Newest(s) = {r}
  BY <1>1, WorkerFits, PlannedAbsent
<1>3. Newest(s)' = {r} /\ RunsKept(s) /\ Of(s)' = Of(s)
  BY <1>0, <1>2, ChangesIs
<1>4. RunsArePlanned(s)'
  BY <1>1, MovedRuns
<1>5. /\ file'[s] = patched /\ \A t \in Session \ {s} : file'[t] = file[t] /\ touched'[t] = touched[t]
      /\ touched'[s] = touched[s] \cup IF file[s] = NoGraph THEN {} ELSE Changed(file[s], patched)
  BY <1>0 DEF TypeOK, Touch
<1>6. Only(s)
  BY <1>3, <1>5 DEF Only, SessionKept
<1>7. file[s] # NoGraph => TesterAbsent(patched) /\ patched # NoGraph
  <2>1. file[s] # NoGraph => file[s] \in Graph /\ TesterAbsent(file[s])
    BY <1>0 DEF TypeOK, Log, LogFollowsFile
  <2> QED
    BY <2>1, PrepareType, OthersAbsent, ServerAssumption
<1>8. file[s] = NoGraph => patched = NoGraph
  BY ServerAssumption
<1>9. LogFollowsFile(s)'
  BY <1>0, <1>3, <1>5, <1>7, <1>8 DEF Log, LogFollowsFile, TesterAbsent, SessionKept
<1>10. \A q \in Newest(s)' : ~Holds(q)'
  BY <1>3 DEF Changes, Holds
<1>11. Explained(s)'
  <2>1. CASE file[s] = NoGraph
    BY <1>0, <1>5, <1>8, <2>1 DEF Log, Explained
  <2>2. CASE file[s] # NoGraph
    <3>1. Fits(s, patched, touched[s])'
      <4> SUFFICES ASSUME NEW n \in Node, n \notin touched[s], n \notin Changed(file[s], patched)
                   PROVE  replay[s][n] \in {"unlogged", patched.node[n]}
        BY <1>5, <2>2 DEF Fits
      <4> QED
        BY <1>0, <2>2 DEF Log, Explained, Fits, Changed
    <3> QED
      BY <1>5, <1>7, <1>10, <2>2, <3>1 DEF Explained, Fits
  <2> QED
    BY <2>1, <2>2
<1> QED
  BY <1>4, <1>6, <1>9, <1>11, OnlyLog DEF Log, LogInv

LEMMA PlanFailsLog ==
  ASSUME LogInv, NEW r \in RunId, PlanFails(r)
  PROVE  \A t \in Session : Log(t)'
<1>0. TypeOK
  BY DEF LogInv, IndInv
<1>1. PICK s \in Session : s = runs[r].session
  BY <1>0 DEF TypeOK
<1>2. PICK e \in Run : e.stage = "over" /\ e.session = runs[r].session /\ e.late = {} /\ Changes(r, e)
  BY <1>0, ChangesOver DEF PlanFails
<1>3. runs[r].stage \in Working /\ UNCHANGED <<made, replay, file, touched>>
  BY DEF PlanFails, Working
<1>4. SessionKept(s)
  BY <1>0, <1>1, StatusType, MarkedKept DEF PlanFails
<1>5. PICK f : f = file[s]
  OBVIOUS
<1>6. file' = [file EXCEPT ![s] = f] /\ Touch(s, IF file[s] = NoGraph THEN {} ELSE Changed(file[s], f))
  BY <1>0, <1>3, <1>5 DEF TypeOK, Touch, Changed
<1>7. /\ e.stage \in {"over", "cut"} /\ (e.stage = "cut" => TesterAbsent(e.graph))
      /\ e.late \cap Tester = {} /\ UNCHANGED <<made, replay>>
      /\ f = file[s] \/ (file[s] \in Graph /\ f = PatchStuck(file[s]))
      /\ Changes(r, e) /\ e.session = runs[r].session
  BY <1>2, <1>3, <1>5
<1> QED
  BY <1>1, <1>3, <1>4, <1>6, <1>7, EndLog

LEMMA ThrowLog ==
  ASSUME LogInv, NEW r \in RunId, Throw(r)
  PROVE  \A t \in Session : Log(t)'
<1>0. TypeOK /\ Started
  BY DEF LogInv, IndInv
<1>1. PICK s \in Session : s = runs[r].session
  BY <1>0 DEF TypeOK
<1>2. PICK e \in Run :
        /\ Changes(r, e) /\ e.session = runs[r].session /\ e.stage \in {"over", "cut"}
        /\ e.stage = "over" => e.late = {}
        /\ e.stage = "cut" =>
             /\ HasGraph(r) /\ runs[r].graph \in Graph
             /\ e.graph \in Graph /\ e.graph \in {runs[r].graph} \cup SavedNext(r)
             /\ e.late = Changed(runs[r].graph, e.graph)
  BY <1>0, ThrownIs
<1>3. runs[r].stage \in Working /\ UNCHANGED <<made, replay>>
  BY DEF Throw, At, Working
<1>4. SessionKept(s)
  BY <1>0, <1>1, StatusType, MarkedKept DEF Throw
<1>5. PICK patched \in Graph \cup {NoGraph} :
        /\ file' = [file EXCEPT ![s] = patched]
        /\ patched = file[s] \/ (file[s] \in Graph /\ patched = PatchStuck(file[s]))
        /\ Touch(s, IF file[s] = NoGraph THEN {} ELSE Changed(file[s], patched))
  BY <1>0, <1>1, PatchedIs
<1>6. HasGraph(r) => TesterAbsent(runs[r].graph)
  <2>1. r \in Of(s)
    BY <1>0, <1>1, <1>3, WorkerOf DEF Working, Workers
  <2> QED
    BY <2>1 DEF LogInv, Log, RunsArePlanned, RunPlanned
<1>7. e.stage = "cut" => TesterAbsent(e.graph)
  BY <1>2, <1>6, SavedAbsent
<1>8. e.late \cap Tester = {}
  <2>1. CASE e.stage = "cut"
    BY <1>2, <1>6, <1>7, <2>1, GraphAssumption DEF Changed, TesterAbsent
  <2> QED
    BY <1>2, <2>1
<1> QED
  BY <1>1, <1>2, <1>3, <1>4, <1>5, <1>7, <1>8, EndLog

\* What a tool call reports late is counted as such.
LEMMA LiveToolCallLog ==
  ASSUME LogInv, NEW r \in RunId, LiveToolCall(r)
  PROVE  \A t \in Session : Log(t)'
<1>0. TypeOK /\ Started
  BY DEF LogInv, IndInv
<1>1. PICK s \in Session : s = runs[r].session /\ Log(s)
  BY <1>0 DEF TypeOK, LogInv
<1>2. /\ HasGraph(r) /\ UNCHANGED <<file, made>> /\ sess' = WithDirectory(s)
      /\ runs' = [runs EXCEPT ![r].late = {}]
  BY <1>1 DEF LiveToolCall, At, HasGraph, bounds
<1>3. r \in Of(s) /\ runs[r].graph \in Graph
  BY <1>0, <1>1, <1>2 DEF Started, HasGraph, Of
<1>4. TesterAbsent(runs[r].graph) /\ runs[r].late \cap Tester = {} /\ runs[r].late \in SUBSET Node
  BY <1>0, <1>1, <1>2, <1>3 DEF Log, RunsArePlanned, RunPlanned, TypeOK
<1>5. PICK n \in Executing(runs[r].graph) \ runs[r].late :
        LET new == IF replay[s][n] = "unlogged" THEN {n} ELSE {} IN
        /\ replay' = [AppendOps(s, NodeOps(runs[r].late, runs[r].graph)) EXCEPT
                        ![s][n] = IF n \in new THEN "pending" ELSE @]
        /\ Touch(s, runs[r].late \cup new)
  BY <1>1 DEF LiveToolCall
<1>6. n \in Node \ Tester
  BY <1>4 DEF Executing, WithStatus, TesterAbsent
<1>7. PICK new \in SUBSET Node :
        /\ new = IF replay[s][n] = "unlogged" THEN {n} ELSE {}
        /\ replay' = [AppendOps(s, NodeOps(runs[r].late, runs[r].graph)) EXCEPT
                        ![s][n] = IF n \in new THEN "pending" ELSE @]
        /\ Touch(s, runs[r].late \cup new)
  BY <1>5, <1>6
<1>8. PICK log \in [Session -> [Node -> NodeStatus \cup {"unlogged"}]] :
        log = LogStatuses(s, runs[r].late, runs[r].graph)
  BY <1>0, <1>3, <1>4, LogType
<1>9. /\ \A m \in Node : log[s][m] = IF m \in runs[r].late THEN runs[r].graph.node[m] ELSE replay[s][m]
      /\ \A t \in Session \ {s} : log[t] = replay[t]
  BY <1>0, <1>4, <1>8, LoggedIs
<1>10. /\ \A m \in Node : m \notin runs[r].late \cup new => replay'[s][m] = replay[s][m]
       /\ \A m \in Tester : replay'[s][m] = replay[s][m]
       /\ \A t \in Session \ {s} : replay'[t] = replay[t]
  <2>1. PICK x : replay' = [log EXCEPT ![s][n] = x] /\ (n \notin new => x = log[s][n])
    BY <1>7, <1>8 DEF LogStatuses
  <2>2. /\ \A m \in Node : m # n => replay'[s][m] = log[s][m]
        /\ replay'[s][n] = x /\ \A t \in Session \ {s} : replay'[t] = log[t]
    BY <1>6, <1>8, <2>1
  <2>3. n \notin runs[r].late
    BY <1>5
  <2> QED
    BY <1>4, <1>6, <1>9, <2>1, <2>2, <2>3, GraphAssumption
<1>11. /\ touched'[s] = touched[s] \cup runs[r].late \cup new
       /\ \A t \in Session \ {s} : touched'[t] = touched[t]
  BY <1>0, <1>7 DEF Touch, TypeOK
<1>12. PICK e \in Run : /\ e.stage = runs[r].stage /\ e.session = runs[r].session
                        /\ e.graph = runs[r].graph /\ e.late = {} /\ Changes(r, e)
  BY <1>0, <1>2, ChangesLate
<1>13. Of(s)' = Of(s) /\ Newest(s)' = Newest(s) /\ RunsKept(s)
  BY <1>0, <1>1, <1>2, <1>12, ChangesIs
<1>14. SessionKept(s)
  BY <1>0, <1>2, DirectoryType, MarkedKept
<1>15. Only(s)
  BY <1>2, <1>10, <1>11, <1>13, <1>14 DEF Only, SessionKept
<1>16. LogFollowsFile(s)'
  BY <1>1, <1>2, <1>10, <1>13, <1>14 DEF Log, LogFollowsFile, TesterAbsent, SessionKept
<1>17. RunsArePlanned(s)'
  <2>1. e.stage # "plan" /\ e.late \cap Tester = {} /\ TesterAbsent(e.graph)
    BY <1>2, <1>4, <1>12 DEF HasGraph
  <2> QED
    BY <1>1, <1>2, <1>3, <1>12, <2>1, MovedRuns
<1>18. Explained(s)'
  <2>1. \A q \in Newest(s) : (Holds(q)' <=> Holds(q)) /\ runs'[q].graph = runs[q].graph
    BY <1>12 DEF Newest, Of, Changes, Holds
  <2>2. file[s] = NoGraph => \A m \in Node \ touched'[s] : replay'[s][m] = "unlogged"
    BY <1>1, <1>10, <1>11 DEF Log, Explained
  <2>3. file[s] # NoGraph => Fits(s, file[s], touched[s])'
    BY <1>1, <1>2, <1>10, <1>11 DEF Log, Explained, Fits
  <2>4. file[s] # NoGraph =>
          \A q \in Newest(s)' : Holds(q)' => Changed(file[s], runs'[q].graph) \subseteq touched'[s]
    BY <1>1, <1>11, <1>13, <2>1 DEF Log, Explained
  <2> QED
    BY <1>2, <2>2, <2>3, <2>4 DEF Explained, Fits, Changed
<1> QED
  BY <1>15, <1>16, <1>17, <1>18, OnlyLog DEF Log, LogInv

-----------------------------------------------------------------------------
(* The routes and the log                                                   *)

LEMMA StartRunLog ==
  ASSUME LogInv, NEW s \in Session, StartRun(s)
  PROVE  \A t \in Session : Log(t)'
<1>0. TypeOK /\ Log(s)
  BY DEF LogInv, IndInv
<1>1. /\ Begin(s, "plan", NoGraph, FALSE, "run") /\ UNCHANGED <<file, replay, touched>>
      /\ "run" \in Caller /\ sess[s] = "none" /\ sess' = [sess EXCEPT ![s] = "running"]
  BY DEF StartRun, Caller
<1>2. Of(s) = {} /\ file[s] = NoGraph
  BY <1>0, <1>1 DEF Log, LogFollowsFile
<1>3. PICK e \in Run : /\ e.stage = "plan" /\ e.session = s /\ e.graph = NoGraph /\ e.late = {}
                       /\ Changes(made + 1, e) /\ made' = made + 1 /\ made + 1 \in RunId
  <2>1. PICK x \in {"plan", "work"}, g \in Graph \cup {NoGraph}, b \in BOOLEAN, c \in Caller :
          x = "plan" /\ g = NoGraph /\ b = FALSE /\ c = "run"
    BY <1>1
  <2>2. Begin(s, x, g, b, c)
    BY <1>1, <2>1
  <2> QED
    BY <1>0, <2>1, <2>2, BeginIs
<1>4. Of(s)' = {made + 1} /\ Newest(s)' = {made + 1} /\ RunsKept(s) /\ runs'[made + 1] = e
  BY <1>0, <1>2, <1>3, StartIs DEF Changes
<1>5. sess'[s] = "running" /\ \A t \in Session \ {s} : sess'[t] = sess[t]
  BY <1>0, <1>1 DEF TypeOK
<1>6. Only(s)
  BY <1>1, <1>4, <1>5 DEF Only
<1>7. LogFollowsFile(s)'
  BY <1>0, <1>1, <1>2, <1>5 DEF Log, LogFollowsFile
<1>8. RunsArePlanned(s)'
  BY <1>1, <1>2, <1>3, <1>4 DEF RunsArePlanned, RunPlanned, HasGraph
<1>9. Explained(s)'
  BY <1>0, <1>1, <1>2 DEF Log, Explained
<1> QED
  BY <1>6, <1>7, <1>8, <1>9, OnlyLog DEF Log, LogInv

\* The promised run takes its stage up again; it has the graph it had.
LEMMA ResumePendingLog ==
  ASSUME LogInv, NEW s \in Session, ResumePending(s)
  PROVE  \A t \in Session : Log(t)'
<1>0. TypeOK /\ Log(s)
  BY DEF LogInv, IndInv
<1>1. PICK r \in RunId : r = pending[s] /\ r # NoRun /\ r \in Of(s) /\ runs[r].stage = "wait"
  BY DEF ResumePending, LogInv, IndInv, Ctl, PromiseIsKept, Waits
<1>2. PICK e \in Run : /\ e.stage = "pass" /\ e.session = runs[r].session /\ e.graph = runs[r].graph
                       /\ e.late = runs[r].late /\ Changes(r, e)
  <2>1. runs' = [runs EXCEPT ![r].stage = "pass"] /\ "pass" \in Stage
    BY <1>1 DEF ResumePending, Stage
  <2> QED
    BY <1>0, <2>1, ChangesStage
<1>3. UNCHANGED <<file, replay, made, touched>> /\ SetStatus(s, "running") /\ runs[r].session = s
  BY <1>1 DEF ResumePending, Of
<1>4. SessionKept(s)
  BY <1>0, <1>3, StatusType, MarkedKept
<1>5. Of(s)' = Of(s) /\ Newest(s)' = Newest(s) /\ RunsKept(s)
  BY <1>0, <1>2, <1>3, ChangesIs
<1>6. Only(s)
  BY <1>3, <1>4, <1>5 DEF Only, SessionKept
<1>7. LogFollowsFile(s)'
  BY <1>0, <1>3, <1>4, <1>5 DEF Log, LogFollowsFile, TesterAbsent, SessionKept
<1>8. RunsArePlanned(s)'
  <2>1. /\ TesterAbsent(runs[r].graph) /\ runs[r].late \cap Tester = {}
    BY <1>0, <1>1 DEF Log, RunsArePlanned, RunPlanned, HasGraph
  <2>2. /\ e.stage \notin {"plan", "over"} => TesterAbsent(e.graph)
        /\ e.stage # "plan" /\ e.late \cap Tester = {} /\ file'[s] = file[s]
    BY <1>2, <1>3, <2>1
  <2> QED
    BY <1>1, <1>2, <1>3, <2>2, MovedRuns
<1>9. Explained(s)'
  <2>1. \A q \in Newest(s) : (Holds(q)' <=> Holds(q)) /\ runs'[q].graph = runs[q].graph
    BY <1>1, <1>2 DEF Newest, Of, Changes, Holds
  <2> QED
    BY <1>0, <1>3, <1>5, <2>1 DEF Log, Explained, Fits
<1> QED
  BY <1>6, <1>7, <1>8, <1>9, OnlyLog DEF Log, LogInv

\* A run begins with a graph all of which is logged, where nobody works.
LEMMA BeginResumedLog ==
  ASSUME LogInv, NEW s \in Session, file[s] # NoGraph, Workers(s) = {}, NEW g \in Graph, TesterAbsent(g),
         NEW c \in Caller, BeginResumed(s, g, c), SessionKept(s)
  PROVE  \A t \in Session : Log(t)'
<1>0. TypeOK /\ Log(s)
  BY DEF LogInv, IndInv
<1>1. PICK h \in Graph : h = PrepareForResume(g) /\ TesterAbsent(h)
  BY PrepareType, OthersAbsent
<1>2. PICK b \in BOOLEAN : b = (g.status = "paused")
  OBVIOUS
<1>3. PICK nodes \in SUBSET Node, behind \in SUBSET Node : nodes = Present(h) /\ behind = {}
  BY DEF Present
<1>4. Begin(s, "work", h, b, c) /\ Save(s, h, nodes, behind)
  BY <1>1, <1>2, <1>3 DEF BeginResumed
<1>5. PICK e \in Run : /\ e.stage = "work" /\ e.session = s /\ e.graph = h /\ e.late = {}
                       /\ Changes(made + 1, e) /\ made' = made + 1 /\ made + 1 \in RunId
  BY <1>0, <1>4, BeginIs
<1>6. /\ Of(s)' = Of(s) \cup {made + 1} /\ Newest(s)' = {made + 1} /\ RunsKept(s)
      /\ runs'[made + 1] = e /\ \A q \in Of(s) : runs'[q] = runs[q]
  BY <1>0, <1>5, StartIs DEF Changes
<1>7. RunsArePlanned(s)'
  <2>0. PICK k \in RunId : k = made + 1
    BY <1>5
  <2>1. ASSUME NEW q \in Of(s) PROVE RunPlanned(s, q)'
    <3>1. runs[q].stage # "plan"
      BY DEF Workers, At, Of
    <3> QED
      BY <1>0, <1>6, <3>1 DEF Log, RunsArePlanned, RunPlanned, HasGraph, TesterAbsent
  <2>2. RunPlanned(s, k)'
    BY <1>1, <1>5, <1>6, <2>0 DEF RunPlanned, HasGraph, TesterAbsent
  <2>3. Of(s)' = Of(s) \cup {k}
    BY <1>6, <2>0
  <2>4. \A q \in Of(s)' : RunPlanned(s, q)'
    BY <2>1, <2>2, <2>3
  <2> QED
    BY <2>4 DEF RunsArePlanned
<1>8. Fits(s, h, behind \cup nodes) /\ nodes \cap Tester = {}
  BY <1>0, <1>1, <1>3, AllFits DEF Log
<1>9. \A r \in Newest(s)' : Holds(r)' => Changed(h, runs'[r].graph) \subseteq behind
  BY <1>5, <1>6 DEF Changed
<1>10. sess[s] # "none"
  BY <1>0 DEF Log, LogFollowsFile
<1> QED
  BY <1>1, <1>4, <1>6, <1>7, <1>8, <1>9, <1>10, SavedLog

LEMMA ResumeFileLog ==
  ASSUME LogInv, NEW s \in Session, ResumeFile(s)
  PROVE  \A t \in Session : Log(t)'
<1>0. TypeOK
  BY DEF LogInv, IndInv
<1>1. Workers(s) = {}
  BY DEF ResumeFile, LogInv, IndInv, Ctl, WorkersAreMarked
<1>2. PICK g \in Graph : g = file[s]
  BY <1>0 DEF ResumeFile, TypeOK
<1>3. BeginResumed(s, g, "resume") /\ file[s] # NoGraph /\ TesterAbsent(g) /\ "resume" \in Caller
  BY <1>2 DEF ResumeFile, LogInv, Log, LogFollowsFile, Caller
<1>4. SessionKept(s)
  BY <1>0, StatusType, MarkedKept DEF ResumeFile
<1> QED
  BY <1>1, <1>3, <1>4, BeginResumedLog

\* The graph file is rewritten beside the runs.
LEMMA RewriteLog ==
  ASSUME LogInv, NEW s \in Session, NEW f \in Graph, f = file[s], file[s] # NoGraph,
         NEW g \in Graph, TesterAbsent(g),
         NEW nodes \in SUBSET Node, nodes \cap Tester = {}, NEW behind \in SUBSET Node,
         Save(s, g, nodes, behind), UNCHANGED <<runs, made>>, SessionKept(s),
         touched[s] \subseteq behind, Changed(f, g) \subseteq behind \cup nodes,
         (\E r \in Of(s) : Holds(r)) => Changed(f, g) \subseteq behind
  PROVE  \A t \in Session : Log(t)'
<1>0. TypeOK /\ Log(s)
  BY DEF LogInv, IndInv
<1>1. sess[s] # "none"
  BY <1>0 DEF Log, LogFollowsFile
<1>2. \A t \in Session : Of(t)' = Of(t) /\ Newest(t)' = Newest(t)
  BY DEF Of, Newest
<1>3. RunsKept(s)
  BY <1>2 DEF RunsKept
<1>4. RunsArePlanned(s)'
  BY <1>0, <1>2 DEF Log, RunsArePlanned, RunPlanned, HasGraph, TesterAbsent
<1>5. Fits(s, g, behind \cup nodes)
  <2> SUFFICES ASSUME NEW n \in Node, n \notin behind, n \notin nodes
               PROVE  replay[s][n] \in {"unlogged", g.node[n]}
    BY DEF Fits
  <2>1. n \notin touched[s] /\ n \notin Changed(f, g)
    OBVIOUS
  <2> QED
    BY <1>0, <2>1 DEF Log, Explained, Fits, Changed
<1>6. ASSUME NEW r \in Newest(s)', Holds(r)' PROVE Changed(g, runs'[r].graph) \subseteq behind
  <2>1. r \in Newest(s) /\ r \in Of(s) /\ Holds(r)
    BY <1>2, <1>6 DEF Newest, Holds
  <2>2. Changed(f, runs[r].graph) \subseteq touched[s] /\ Changed(f, g) \subseteq behind
    BY <1>0, <2>1 DEF Log, Explained
  <2> QED
    BY <2>2 DEF Changed
<1> QED
  BY <1>1, <1>3, <1>4, <1>5, <1>6, SavedLog

LEMMA RunResumeLog ==
  ASSUME LogInv, NEW s \in Session, NEW f \in Graph, f = file[s], file[s] # NoGraph,
         NEW g \in Graph, TesterAbsent(g),
         NEW logged \in SUBSET Node, logged \cap Tester = {},
         NEW changed \in SUBSET Node, Changed(f, g) \subseteq changed,
         RunResumeSession(s, g, logged, changed), SessionKept(s)
  PROVE  \A t \in Session : Log(t)'
<1>1. CASE s \notin running
  <2>1. Workers(s) = {}
    BY <1>1 DEF LogInv, IndInv, Ctl, WorkersAreMarked
  <2>2. BeginResumed(s, g, "retry") /\ "retry" \in Caller
    BY <1>1 DEF RunResumeSession, Caller
  <2> QED
    BY <2>1, <2>2, BeginResumedLog
<1>2. CASE s \in running
  <2>1. PICK behind \in SUBSET Node : behind = touched[s] \cup changed
    BY DEF LogInv, IndInv, TypeOK
  <2>2. Save(s, g, logged, behind) /\ UNCHANGED <<runs, made>>
    BY <1>2, <2>1 DEF RunResumeSession
  <2>3. /\ touched[s] \subseteq behind /\ Changed(f, g) \subseteq behind
        /\ Changed(f, g) \subseteq behind \cup logged
    BY <2>1
  <2> QED
    BY <2>2, <2>3, RewriteLog
<1> QED
  BY <1>1, <1>2

LEMMA RetriesLog ==
  ASSUME LogInv, NEW s \in Session, RetrySession(s) \/ RetryOneNode(s)
  PROVE  \A t \in Session : Log(t)'
<1>0. TypeOK
  BY DEF LogInv, IndInv
<1>1. file[s] # NoGraph
  BY DEF RetrySession, RetryOneNode, Requested
<1>2. PICK f \in Graph : f = file[s] /\ TesterAbsent(f)
  BY <1>0, <1>1 DEF LogInv, TypeOK, Log, LogFollowsFile
<1>3. CASE RetrySession(s)
  <2>1. PICK g \in Graph : g = RetriedGraph(f) /\ TesterAbsent(g)
    BY <1>2, PrepareType, OthersAbsent
  <2>2. PICK logged \in SUBSET Node, changed \in SUBSET Node :
          logged = WithStatus(g, "ready") \cup WithStatus(g, "pending") /\ changed = Changed(f, g)
    BY DEF WithStatus, Changed
  <2>3. RunResumeSession(s, g, logged, changed) /\ SetStatus(s, "running")
    BY <1>2, <1>3, <2>1, <2>2 DEF RetrySession
  <2>4. logged \cap Tester = {}
    BY <2>1, <2>2 DEF TesterAbsent, WithStatus
  <2>5. SessionKept(s)
    BY <1>0, <2>3, StatusType, MarkedKept
  <2> QED
    BY <1>1, <1>2, <2>1, <2>2, <2>3, <2>4, <2>5, RunResumeLog
<1>4. CASE RetryOneNode(s)
  <2>1. PICK n \in Retryable(f) :
          /\ RunResumeSession(s, [f EXCEPT !.node[n] = "ready"], {n}, {n})
          /\ UNCHANGED sess \/ SetStatus(s, "running")
    BY <1>2, <1>4 DEF RetryOneNode
  <2>2. n \in Node /\ f.node[n] \in {"failed", "running"}
    BY <2>1 DEF Retryable, WithStatus
  <2>3. PICK g \in Graph : g = [f EXCEPT !.node[n] = "ready"] /\ TesterAbsent(g)
    <3>1. [f EXCEPT !.node[n] = "ready"] \in Graph
      BY <2>2, OneNode DEF NodeStatus, GraphStatus
    <3>2. TesterAbsent([f EXCEPT !.node[n] = "ready"])
      BY <1>2, <2>2, OthersAbsent
    <3> QED
      BY <3>1, <3>2
  <2>4. Changed(f, g) \subseteq {n}
    BY <2>2, <2>3 DEF Changed, Graph
  <2>5. {n} \in SUBSET Node /\ {n} \cap Tester = {}
    BY <1>2, <2>2 DEF TesterAbsent
  <2>6. SessionKept(s)
    BY <1>0, <2>1, StatusType, DirectoryType, MarkedKept
  <2> QED
    BY <1>1, <1>2, <2>1, <2>3, <2>4, <2>5, <2>6, RunResumeLog
<1> QED
  BY <1>3, <1>4

LEMMA EditNodeLog ==
  ASSUME LogInv, NEW s \in Session, EditNode(s)
  PROVE  \A t \in Session : Log(t)'
<1>0. TypeOK
  BY DEF LogInv, IndInv
<1>1. file[s] # NoGraph /\ UNCHANGED <<sess, runs, made>>
  BY DEF EditNode, Requested
<1>2. PICK f \in Graph : f = file[s] /\ TesterAbsent(f)
  BY <1>0, <1>1 DEF LogInv, TypeOK, Log, LogFollowsFile
<1>3. PICK n \in Present(f) :
        LET others == IF Of(s) \subseteq At({"over", "cut"}) THEN {n} ELSE {}
        IN  Save(s, ApplyNodeChange(f, n), {n}, touched[s] \cup (AffectedBy(n) \ others))
  BY <1>2 DEF EditNode
<1>4. n \in Node /\ f.node[n] # "absent"
  BY <1>3 DEF Present
<1>5. PICK g \in Graph : g = ApplyNodeChange(f, n) /\ TesterAbsent(g)
  BY <1>2, <1>4, ChangeType, OthersAbsent
<1>6. PICK others \in SUBSET {n} :
        /\ others = IF Of(s) \subseteq At({"over", "cut"}) THEN {n} ELSE {}
        /\ Save(s, g, {n}, touched[s] \cup (AffectedBy(n) \ others))
  BY <1>3, <1>5
<1>7. PICK behind \in SUBSET Node : behind = touched[s] \cup (AffectedBy(n) \ others)
  BY <1>0 DEF AffectedBy, TypeOK
<1>8. Changed(f, g) \subseteq AffectedBy(n)
  BY <1>5 DEF Changed, ApplyNodeChange, Graph
<1>9. Changed(f, g) \subseteq behind \cup {n} /\ touched[s] \subseteq behind
  BY <1>6, <1>7, <1>8
<1>10. (\E r \in Of(s) : Holds(r)) => Changed(f, g) \subseteq behind
  <2>1. (\E r \in Of(s) : Holds(r)) => others = {}
    BY <1>6 DEF Holds, At
  <2> QED
    BY <1>7, <1>8, <2>1
<1>11. {n} \in SUBSET Node /\ {n} \cap Tester = {}
  BY <1>2, <1>4 DEF TesterAbsent
<1>12. Save(s, g, {n}, behind) /\ SessionKept(s)
  BY <1>1, <1>6, <1>7 DEF SessionKept
<1> QED
  BY <1>1, <1>2, <1>5, <1>9, <1>10, <1>11, <1>12, RewriteLog

\* A session of which only the stores change.
LEMMA StoresLog ==
  ASSUME LogInv, NEW s \in Session, UNCHANGED <<runs, made>>, SessionKept(s),
         file'[s] \in {file[s], NoGraph},
         \A t \in Session \ {s} : /\ file'[t] = file[t]
                                  /\ replay'[t] = replay[t] /\ touched'[t] = touched[t],
         \A n \in Tester : replay'[s][n] = "unlogged", Explained(s)'
  PROVE  \A t \in Session : Log(t)'
<1>1. \A t \in Session : Of(t)' = Of(t)
  BY DEF Of
<1>2. Only(s)
  BY <1>1 DEF Only, RunsKept, SessionKept
<1>3. LogFollowsFile(s)' /\ RunsArePlanned(s)'
  BY <1>1 DEF LogInv, Log, LogFollowsFile, RunsArePlanned, RunPlanned, HasGraph, TesterAbsent, SessionKept
<1> QED
  BY <1>2, <1>3, OnlyLog DEF Log, LogInv

LEMMA BackfillLog ==
  ASSUME LogInv, NEW s \in Session, Backfill(s)
  PROVE  \A t \in Session : Log(t)'
<1>0. TypeOK /\ Log(s)
  BY DEF LogInv, IndInv
<1>1. /\ UNCHANGED <<sess, file, runs, made, touched>> /\ file[s] # NoGraph
      /\ \A n \in Node : replay[s][n] = "unlogged"
  BY DEF Backfill
<1>2. PICK f \in Graph : f = file[s] /\ TesterAbsent(f)
  BY <1>0, <1>1 DEF TypeOK, Log, LogFollowsFile
<1>3. PICK nodes \in SUBSET Present(f) : replay' = AppendOps(s, NodeOps(nodes, f))
  BY <1>2 DEF Backfill
<1>4. PICK new : new = Replayed(replay[s], NodeOps(nodes, f))
  OBVIOUS
<1>5. replay' = [replay EXCEPT ![s] = new]
  BY <1>3, <1>4 DEF AppendOps
<1>6. \A n \in Node : new[n] = IF n \in nodes THEN f.node[n] ELSE replay[s][n]
  BY <1>4 DEF Replayed, NodeOps
<1>7. /\ \A n \in Node : replay'[s][n] = IF n \in nodes THEN f.node[n] ELSE "unlogged"
      /\ \A t \in Session \ {s} : replay'[t] = replay[t]
  BY <1>0, <1>1, <1>5, <1>6 DEF TypeOK
<1>8. \A n \in Tester : replay'[s][n] = "unlogged"
  BY <1>2, <1>7, GraphAssumption DEF Present, TesterAbsent
<1>9. Newest(s)' = Newest(s)
  BY <1>1 DEF Newest, Of
<1>10. Explained(s)'
  BY <1>0, <1>1, <1>2, <1>7, <1>9 DEF Log, Explained, Fits, Holds, Changed
<1>11. SessionKept(s)
  BY <1>1 DEF SessionKept
<1> QED
  BY <1>1, <1>7, <1>8, <1>10, <1>11, StoresLog

LEMMA DeleteSessionLog ==
  ASSUME LogInv, NEW s \in Session, DeleteSession(s)
  PROVE  \A t \in Session : Log(t)'
<1>1. /\ UNCHANGED <<runs, made, touched>>
      /\ sess' = [sess EXCEPT ![s] = "deleted"] /\ file' = [file EXCEPT ![s] = NoGraph]
      /\ replay' = [replay EXCEPT ![s] = [n \in Node |-> "unlogged"]]
  BY DEF DeleteSession
<1>2. /\ SessionKept(s) /\ file'[s] = NoGraph /\ \A n \in Node : replay'[s][n] = "unlogged"
      /\ \A t \in Session \ {s} : /\ file'[t] = file[t]
                                  /\ replay'[t] = replay[t] /\ touched'[t] = touched[t]
  BY <1>1 DEF LogInv, IndInv, TypeOK, SessionKept
<1>3. Explained(s)' /\ \A n \in Tester : replay'[s][n] = "unlogged"
  BY <1>2, GraphAssumption DEF Explained
<1> QED
  BY <1>1, <1>2, <1>3, StoresLog

\* What was saved and not logged is the difference of one save of a run or a request.
LEMMA CrashLog ==
  ASSUME LogInv, Crash
  PROVE  \A t \in Session : Log(t)'
<1>0. TypeOK
  BY DEF LogInv, IndInv
<1>1. UNCHANGED <<sess, replay, made>>
  BY DEF Crash
<1>2. \A r \in RunId : /\ runs'[r].stage = "over" /\ runs'[r].late = {}
                       /\ runs'[r].session = runs[r].session
  <2>1. \A r \in RunId : runs[r].session \in Session
    BY <1>0 DEF TypeOK
  <2>2. runs' = [r \in RunId |-> [Idle EXCEPT !.session = runs[r].session]]
    BY DEF Crash, AllOver
  <2> QED
    BY <2>1, <2>2, IdleType
<1>3. \A t \in Session : Of(t)' = Of(t) /\ RunsArePlanned(t)' /\ \A r \in Newest(t)' : ~Holds(r)'
  BY <1>1, <1>2 DEF Of, RunsArePlanned, RunPlanned, HasGraph, Holds, Newest
<1>4. ASSUME NEW t \in Session, file'[t] = file[t], touched'[t] = touched[t] PROVE Log(t)'
  <2>1. LogFollowsFile(t)'
    BY <1>1, <1>3, <1>4 DEF LogInv, Log, LogFollowsFile, TesterAbsent
  <2>2. Explained(t)'
    BY <1>1, <1>3, <1>4 DEF LogInv, Log, Explained, Fits
  <2> QED
    BY <1>3, <2>1, <2>2 DEF Log
<1>5. CASE UNCHANGED <<file, touched>>
  BY <1>4, <1>5
<1>6. CASE ~UNCHANGED <<file, touched>>
  <2>1. PICK s \in Session : Directory(s) /\ \E saved \in SaveSet(s) :
          file' = [file EXCEPT ![s] = saved.graph] /\ Touch(s, saved.nodes)
    BY <1>6 DEF Crash
  <2>2. PICK saved \in SaveSet(s) : file' = [file EXCEPT ![s] = saved.graph] /\ Touch(s, saved.nodes)
    BY <2>1
  <2>3. PICK g \in Graph, nodes \in SUBSET Node : g = saved.graph /\ nodes = saved.nodes
    BY SaveSetType DEF LogInv
  <2>4. /\ file'[s] = g /\ touched'[s] = touched[s] \cup nodes
        /\ \A t \in Session \ {s} : file'[t] = file[t] /\ touched'[t] = touched[t]
    BY <1>0, <2>2, <2>3 DEF Touch, TypeOK
  <2>5. TesterAbsent(g) /\ Fits(s, g, touched[s] \cup nodes)
    <3>1. ASSUME NEW r \in Workers(s), g \in SavedNext(r), nodes = Unreported(r, g)
          PROVE  TesterAbsent(g) /\ Fits(s, g, touched[s] \cup nodes)
      <4>1. r \in RunId /\ (HasGraph(r) => runs[r].graph \in Graph /\ TesterAbsent(runs[r].graph))
        BY WorkerFits, PlannedAbsent
      <4>2. TesterAbsent(g)
        BY <3>1, <4>1, SavedAbsent
      <4> QED
        BY <3>1, <4>2, WorkerFits
    <3>2. ASSUME file[s] # NoGraph, g \in RequestedGraphs(file[s]), nodes = Changed(file[s], g)
          PROVE  TesterAbsent(g) /\ Fits(s, g, touched[s] \cup nodes)
      <4>1. PICK f \in Graph : f = file[s] /\ TesterAbsent(f)
        BY <1>0, <3>2 DEF LogInv, Log, LogFollowsFile, TypeOK
      <4>2. TesterAbsent(g)
        BY <3>2, <4>1, RequestedAbsent
      <4>3. Fits(s, f, touched[s])
        BY <3>2, <4>1 DEF LogInv, Log, Explained
      <4> QED
        BY <3>2, <4>1, <4>2, <4>3 DEF Fits, Changed
    <3>3. CASE \E r \in Workers(s) : \E h \in SavedNext(r) :
                  saved = [graph |-> h, nodes |-> Unreported(r, h)]
      <4>1. PICK r \in Workers(s) : \E h \in SavedNext(r) : saved = [graph |-> h, nodes |-> Unreported(r, h)]
        BY <3>3
      <4>2. PICK h \in SavedNext(r) : saved = [graph |-> h, nodes |-> Unreported(r, h)]
        BY <4>1
      <4>3. g = h /\ nodes = Unreported(r, h)
        BY <2>3, <4>2
      <4> QED
        BY <3>1, <4>2, <4>3
    <3>4. CASE file[s] # NoGraph /\ \E h \in RequestedGraphs(file[s]) :
                  saved = [graph |-> h, nodes |-> Changed(file[s], h)]
      <4>1. PICK h \in RequestedGraphs(file[s]) : saved = [graph |-> h, nodes |-> Changed(file[s], h)]
        BY <3>4
      <4>2. g = h /\ nodes = Changed(file[s], h)
        BY <2>3, <4>1
      <4> QED
        BY <3>2, <3>4, <4>2
    <3> QED
      BY <3>3, <3>4, SaveSetIs
  <2>6. LogFollowsFile(s)'
    BY <1>1, <1>3, <2>1, <2>4, <2>5 DEF LogInv, Log, LogFollowsFile, Directory, TesterAbsent
  <2>7. Explained(s)'
    BY <1>1, <1>3, <2>4, <2>5, ServerAssumption DEF Explained, Fits
  <2>8. Log(s)'
    BY <1>3, <2>6, <2>7 DEF Log
  <2> QED
    BY <1>4, <2>4, <2>8
<1> QED
  BY <1>5, <1>6

LEMMA InitLog == Init => \A s \in Session : Log(s)
<1> SUFFICES ASSUME Init, NEW s \in Session PROVE Log(s)
  OBVIOUS
<1>1. file[s] = NoGraph /\ Of(s) = {} /\ \A n \in Node : replay[s][n] = "unlogged"
  BY DEF Init, Of, RunId
<1> QED
  BY <1>1, GraphAssumption DEF Init, Log, LogFollowsFile, RunsArePlanned, Explained

LEMMA StutterLog ==
  ASSUME LogInv, UNCHANGED vars
  PROVE  \A s \in Session : Log(s)'
<1>1. UNCHANGED <<sess, file, replay, runs, touched, made>>
  BY DEF vars
<1>2. \A s \in Session : Newest(s)' = Newest(s) /\ Of(s)' = Of(s)
  BY <1>1 DEF Newest, Of
<1> QED
  BY <1>1, <1>2 DEF LogInv, Log, LogFollowsFile, RunsArePlanned, RunPlanned, HasGraph, Explained, Fits,
     Holds, TesterAbsent, Changed

\* What the log says of each session follows its graph file and the memory of its
\* newest run through every request, step of a run, entry that cannot be written
\* and crash.
THEOREM LogInductive == Spec => []LogInv
<1>1. Init => LogInv
  BY InitInv, InitLog DEF LogInv
<1>2. LogInv /\ [Next]_vars => \A s \in Session : Log(s)'
  BY SavePlanLog, WorkLog, ReachCheckpointLog, ReturnLog, PlanFailsLog, ThrowLog, LiveToolCallLog,
     StartRunLog, ResumePendingLog, ResumeFileLog, RetriesLog, EditNodeLog, BackfillLog,
     DeleteSessionLog, CrashLog, StutterLog DEF Next
<1>3. LogInv /\ [Next]_vars /\ IndInv' => LogInv'
  BY <1>2 DEF LogInv
<1> QED
  BY <1>1, <1>3, Inductive, PTL DEF Spec

\* A node for which the replay of the operation log differs from the graph file
\* was, after the last run of its session began, changed by an edit, a retry beside
\* a run, the clean-up of a rejected run or a crash before it was logged; or its
\* entry could not be written; or an execution in flight reported it late (run.ts,
\* resume.ts, node.ts, op-replay.ts): any number of sessions, requests, runs,
\* crashes and entries that fail before.
THEOREM ReplayIsExplained == Spec => []ReplayExplained
<1>1. ASSUME LogInv, NEW s \in Session, file[s] # NoGraph PROVE Mismatched(s) \subseteq touched[s]
  <2>1. Fits(s, file[s], touched[s])
    BY <1>1 DEF LogInv, Log, Explained
  <2> QED
    BY <2>1 DEF Fits, Mismatched, EventGraph
<1>2. LogInv => ReplayExplained
  BY <1>1 DEF ReplayExplained
<1> QED
  BY <1>2, LogInductive, PTL

(***************************************************************************)
(* Previews                                                                *)
(***************************************************************************)

\* The process an entry names is alive, unstopped and launched for the entry.
ChildInv ==
  \A k \in Key : live[k].child # NoLaunch =>
    /\ Alive(live[k].child) /\ live[k].child \notin signalled \cup abandoned
    /\ called[live[k].child] = [key |-> k, port |-> live[k].port]
    /\ live[k].status \in {"starting", "running"}

\* Only processes that run are stopped or left behind.
DeadInv == \A l \in signalled \cup abandoned : Alive(l)

\* What is starting will be settled by a launch that still waits.
StartingInv ==
  \A k \in Key : live[k].status = "starting" => live[k].child \in waiting

\* Without an accident, a waiting launch is the one of the entry.
WaitingInv ==
  \A l \in waiting : called[l].key \notin outlived \cup overlapped =>
    live[called[l].key].child = l /\ live[called[l].key].status = "starting"

\* Without an accident, a running preview has its process.
RunningInv ==
  \A k \in Key \ (outlived \cup overlapped) :
    live[k].status = "running" => live[k].child # NoLaunch

\* A session without overlapping starts looks for a port once, before all else.
FindingInv ==
  \A k \in Key \ overlapped : finding[k] > 0 =>
    finding[k] = 1 /\ live[k].port = NoPort /\ live[k].child = NoLaunch

\* A port not reissued belongs to one session.
PortInv ==
  \A p \in Port \ reissued : \A k, o \in Key : HoldsPort(k, p) /\ HoldsPort(o, p) => k = o

\* No session counts on a port, not reissued, that the server of another listens on.
ListensInv ==
  \A l \in Launch : listens[l] \in Port \ reissued =>
    \A o \in Key : HoldsPort(o, listens[l]) => o = called[l].key

\* The inductive invariant.
PreviewInv ==
  /\ PreviewTypeOK
  /\ DeadInv /\ ChildInv /\ StartingInv /\ WaitingInv /\ RunningInv /\ FindingInv /\ PortInv
  /\ NoneLeftRunning

LEMMA PreviewInitInv == PreviewInit => PreviewInv
<1> SUFFICES ASSUME PreviewInit PROVE PreviewInv
  OBVIOUS
<1> USE PreviewAssumption DEF PreviewInit, NoPreview
<1>1. PreviewTypeOK
  BY DEF PreviewTypeOK, PreviewState, PreviewStatus, Output
<1>2. DeadInv /\ ChildInv /\ StartingInv /\ WaitingInv /\ RunningInv /\ FindingInv
  BY DEF DeadInv, ChildInv, StartingInv, WaitingInv, RunningInv, FindingInv
<1>3. PortInv
  BY DEF PortInv, HoldsPort, LaunchesOf, Called
<1>4. NoneLeftRunning
  BY DEF NoneLeftRunning, Alive
<1> QED
  BY <1>1, <1>2, <1>3, <1>4 DEF PreviewInv

LEMMA PreviewTypeNext ==
  ASSUME PreviewTypeOK, [PreviewNext]_previewVars PROVE PreviewTypeOK'
<1> USE PreviewAssumption DEF PreviewTypeOK, PreviewState, PreviewStatus, Output
<1>1. ASSUME NEW k \in Key, WriteOutput(k) \/ ReadStatus(k) PROVE PreviewTypeOK'
  BY <1>1 DEF WriteOutput, ReadStatus, Scaffold, children, previewHistory
<1>2. ASSUME NEW k \in Key, NEW p \in Port, WithPort(k, p), Scaffold(k),
             finding' \in [Key -> Nat], reissued' \subseteq Port, overlapped' \subseteq Key,
             UNCHANGED <<listens, signalled, abandoned>>
      PROVE  PreviewTypeOK'
  <2>1. CASE Unsupported(k)
    BY <1>2, <2>1 DEF Unsupported, Scaffold
  <2>2. CASE LaunchLivePreview(k, p)
    <3>1. PICK l \in Launch :
            /\ l \notin Called
            /\ called' = [called EXCEPT ![l] = [key |-> k, port |-> p]]
            /\ waiting' = waiting \cup {l}
            /\ \/ process' = [process EXCEPT ![l] = "up"]
               \/ UNCHANGED process
      BY <2>2 DEF LaunchLivePreview
    <3>2. called' \in [Launch -> [key: Key, port: Port] \cup {NoLaunch}]
      BY <3>1
    <3>3. /\ process' \in [Launch -> {"none", "up"}] /\ waiting' \subseteq Launch
          /\ \A m \in Launch : listens[m] # NoPort => process'[m] = "up"
      BY <3>1
    <3>4. \A m \in Launch : called'[m] = NoLaunch <=> process'[m] = "none" /\ m \notin waiting'
      BY <3>1
    <3>5. live' \in [Key -> PreviewState] /\ outlived' \subseteq Key
      BY <2>2 DEF LaunchLivePreview
    <3>6. output' \in [Key -> Output]
      BY <1>2 DEF Scaffold
    <3> QED
      BY <1>2, <3>2, <3>3, <3>4, <3>5, <3>6
  <2> QED
    BY <1>2, <2>1, <2>2 DEF WithPort
<1>3. ASSUME NEW k \in Key, StartLivePreview(k) PROVE PreviewTypeOK'
  <2>1. CASE live[k].port # NoPort
    BY <1>2, <1>3, <2>1 DEF StartLivePreview
  <2>2. CASE live[k].port = NoPort
    <3>1. finding' \in [Key -> Nat] /\ overlapped' \subseteq Key
      BY <1>3, <2>2 DEF StartLivePreview
    <3>2. UNCHANGED <<live, called, waiting, process, listens, output, outlived, signalled,
                      reissued, abandoned>>
      BY <1>3, <2>2 DEF StartLivePreview
    <3> QED
      BY <3>1, <3>2
  <2> QED
    BY <2>1, <2>2
<1>4. ASSUME NEW k \in Key, FoundPort(k) PROVE PreviewTypeOK'
  BY <1>2, <1>4 DEF FoundPort, Reissue
<1>5. ASSUME NEW k \in Key, FindPortFails(k) PROVE PreviewTypeOK'
  BY <1>5 DEF FindPortFails, children, previewHistory
<1>6. ASSUME NEW k \in Key, StopLivePreview(k) PROVE PreviewTypeOK'
  <2>1. live[k] \in PreviewState
    OBVIOUS
  <2>2. live' \in [Key -> PreviewState]
    BY <1>6, <2>1 DEF StopLivePreview, Signal
  <2>3. signalled' \subseteq Launch /\ outlived' \subseteq Key
    BY <1>6, <2>1 DEF StopLivePreview, Signal
  <2>4. output' \in [Key -> Output]
    BY <1>6 DEF StopLivePreview, Signal, Scaffold
  <2>5. UNCHANGED <<finding, called, waiting, process, listens, overlapped, reissued, abandoned>>
    BY <1>6 DEF StopLivePreview, Signal, children
  <2> QED
    BY <2>2, <2>3, <2>4, <2>5
<1>7. ASSUME NEW l \in Launch, Listen(l) PROVE PreviewTypeOK'
  <2>1. /\ process[l] = "up" /\ reissued' \subseteq Port
        /\ \E p \in Port : listens' = [listens EXCEPT ![l] = p]
    BY <1>7 DEF Listen, Alive, Reissue
  <2>2. UNCHANGED <<live, finding, called, waiting, process, signalled, output, overlapped, outlived, abandoned>>
    BY <1>7 DEF Listen
  <2>3. /\ listens' \in [Launch -> Port \cup {NoPort}]
        /\ \A m \in Launch : listens'[m] # NoPort => process[m] = "up"
    BY <2>1
  <2> QED
    BY <2>1, <2>2, <2>3
<1>8. ASSUME NEW l \in Launch, ChildExits(l) PROVE PreviewTypeOK'
  <2>1. called[l] \in [key: Key, port: Port]
    BY <1>8 DEF ChildExits, OnExit, WithoutChild, Alive
  <2>2. live[called[l].key] \in PreviewState
    BY <2>1
  <2>3. live' \in [Key -> PreviewState] /\ outlived' \subseteq Key
    BY <1>8, <2>1, <2>2 DEF ChildExits, OnExit, WithoutChild
  <2>4. /\ process' \in [Launch -> {"none", "up"}] /\ listens' \in [Launch -> Port \cup {NoPort}]
        /\ \A m \in Launch : listens'[m] # NoPort => process'[m] = "up"
    BY <1>8 DEF ChildExits, OnExit, WithoutChild
  <2>5. called' \in [Launch -> [key: Key, port: Port] \cup {NoLaunch}]
    BY <1>8 DEF ChildExits, OnExit, WithoutChild
  <2>6. \A m \in Launch : called'[m] = NoLaunch <=> process'[m] = "none" /\ m \notin waiting
    BY <1>8, <2>1 DEF ChildExits, OnExit, WithoutChild, Alive
  <2>7. signalled' \subseteq Launch /\ abandoned' \subseteq Launch
    BY <1>8 DEF ChildExits, OnExit, WithoutChild
  <2>8. UNCHANGED <<finding, waiting, output, overlapped, reissued>>
    BY <1>8 DEF ChildExits, OnExit, WithoutChild
  <2> QED
    BY <2>3, <2>4, <2>5, <2>6, <2>7, <2>8
<1>9. ASSUME NEW l \in Launch, Connected(l) \/ TimedOut(l) PROVE PreviewTypeOK'
  <2>1. WaitEnds(l)
    BY <1>9 DEF Connected, TimedOut, Signal
  <2>2. called[l] \in [key: Key, port: Port]
    BY <2>1 DEF WaitEnds
  <2>3. live[called[l].key] \in PreviewState
    BY <2>2
  <2>4. live' \in [Key -> PreviewState] /\ signalled' \subseteq Launch
    <3>1. CASE Connected(l)
      BY <2>2, <2>3, <3>1 DEF Connected
    <3>2. CASE TimedOut(l)
      BY <2>2, <2>3, <3>2 DEF TimedOut, Signal
    <3> QED
      BY <1>9, <3>1, <3>2
  <2>5. called' \in [Launch -> [key: Key, port: Port] \cup {NoLaunch}] /\ waiting' \subseteq Launch
    BY <2>1 DEF WaitEnds
  <2>6. \A m \in Launch : called'[m] = NoLaunch <=> process[m] = "none" /\ m \notin waiting'
    BY <2>1, <2>2 DEF WaitEnds, Alive
  <2>7. UNCHANGED <<finding, process, listens, output, previewHistory>>
    BY <2>1 DEF WaitEnds, children
  <2> QED
    BY <2>4, <2>5, <2>6, <2>7 DEF previewHistory
<1>10. CASE ServerExits \/ ServerKilled
  BY <1>10 DEF ServerExits, ServerKilled, Forget, Alive, NoPreview, children
<1>11. CASE UNCHANGED previewVars
  BY <1>11 DEF previewVars, children, previewHistory
<1> QED
  BY <1>1, <1>3, <1>4, <1>5, <1>6, <1>7, <1>8, <1>9, <1>10, <1>11 DEF PreviewNext

\* HoldsPort looks at the entries and the launches of a session.
LEMMA HoldsSame ==
  ASSUME NEW k, NEW p, UNCHANGED <<live, called>> PROVE HoldsPort(k, p)' <=> HoldsPort(k, p)
BY DEF HoldsPort, LaunchesOf, Called

LEMMA PreviewStutters ==
  ASSUME PreviewInv, UNCHANGED <<live, finding, called, waiting, process, signalled, previewHistory>>,
         PreviewTypeOK'
  PROVE  PreviewInv'
<1>1. DeadInv' /\ ChildInv' /\ StartingInv' /\ WaitingInv' /\ RunningInv' /\ FindingInv'
  BY DEF PreviewInv, DeadInv, ChildInv, StartingInv, WaitingInv, RunningInv, FindingInv, Alive, previewHistory
<1>2. PortInv'
  BY HoldsSame DEF PreviewInv, PortInv, previewHistory
<1>3. NoneLeftRunning'
  BY DEF PreviewInv, NoneLeftRunning, Alive, previewHistory
<1> QED
  BY <1>1, <1>2, <1>3 DEF PreviewInv

LEMMA ChildFacts ==
  ASSUME ChildInv, PreviewTypeOK, NEW k \in Key, live[k].child # NoLaunch
  PROVE  /\ live[k].child \in Launch /\ process[live[k].child] # "none"
         /\ called[live[k].child].key = k /\ called[live[k].child].port = live[k].port
         /\ live[k].child \notin signalled \cup abandoned
         /\ live[k].status \in {"starting", "running"}
<1>1. live[k] \in PreviewState
  BY DEF PreviewTypeOK
<1>2. /\ Alive(live[k].child) /\ live[k].child \notin signalled \cup abandoned
      /\ called[live[k].child] = [key |-> k, port |-> live[k].port]
      /\ live[k].status \in {"starting", "running"}
  BY DEF ChildInv
<1> QED
  BY <1>1, <1>2 DEF PreviewState, Alive

\* What a start does once it has a port, provided that no process of the session
\* is in its entry, or that first starts overlapped.
LEMMA WithPortInv ==
  ASSUME PreviewInv, PreviewTypeOK', NEW k \in Key, NEW p \in Port, WithPort(k, p),
         UNCHANGED <<signalled, abandoned, overlapped>>,
         k \in overlapped \/ live[k].child = NoLaunch,
         \A o \in Key \ {k} : finding'[o] = finding[o],
         k \in overlapped \/ finding'[k] = 0,
         reissued \subseteq reissued',
         p \in reissued' \/ \A o \in Key : HoldsPort(o, p) => o = k
  PROVE  PreviewInv'
<1> USE PreviewAssumption DEF PreviewInv, PreviewTypeOK, PreviewState
<1>1. CASE Unsupported(k)
  <2> USE <1>1 DEF Unsupported
  <2>1. live'[k] = [status |-> "error", port |-> NoPort, child |-> NoLaunch]
        /\ \A o \in Key \ {k} : live'[o] = live[o]
    OBVIOUS
  <2>2. ChildInv'
    BY <2>1 DEF ChildInv, Alive
  <2>3. StartingInv'
    BY <2>1 DEF StartingInv
  <2>4. WaitingInv'
    <3> SUFFICES ASSUME NEW l \in waiting, called[l].key \notin outlived \cup overlapped
                 PROVE  live'[called[l].key].child = l /\ live'[called[l].key].status = "starting"
      BY DEF WaitingInv
    <3>1. live[called[l].key].child = l /\ live[called[l].key].status = "starting" /\ called[l].key \in Key
      BY DEF WaitingInv
    <3>2. called[l].key # k
      BY <3>1
    <3> QED
      BY <2>1, <3>1, <3>2
  <2>5. RunningInv'
    BY <2>1 DEF RunningInv
  <2>6. FindingInv'
    BY <2>1 DEF FindingInv
  <2>7. PortInv'
    <3>1. \A o \in Key, q \in Port : HoldsPort(o, q)' => HoldsPort(o, q)
      BY <2>1 DEF HoldsPort, LaunchesOf, Called
    <3> QED
      BY <3>1 DEF PortInv
  <2>8. NoneLeftRunning'
    <3> SUFFICES ASSUME NEW l \in Launch, Alive(l), l \notin signalled \cup abandoned,
                        called[l].key \notin overlapped
                 PROVE  live'[called[l].key].child = l
      BY DEF NoneLeftRunning, Alive
    <3>1. live[called[l].key].child = l /\ called[l].key \in Key
      BY DEF NoneLeftRunning, Alive
    <3>2. called[l].key # k
      BY <3>1
    <3> QED
      BY <2>1, <3>1, <3>2
  <2>9. DeadInv'
    BY DEF DeadInv, Alive
  <2> QED
    BY <2>2, <2>3, <2>4, <2>5, <2>6, <2>7, <2>8, <2>9
<1>2. CASE LaunchLivePreview(k, p)
  <2>1. PICK l \in Launch :
          /\ l \notin Called
          /\ called' = [called EXCEPT ![l] = [key |-> k, port |-> p]]
          /\ waiting' = waiting \cup {l}
          /\ \/ /\ process' = [process EXCEPT ![l] = "up"]
                /\ live' = [live EXCEPT ![k] = [status |-> "starting", port |-> p, child |-> l]]
                /\ UNCHANGED outlived
             \/ /\ UNCHANGED process
                /\ live' = [live EXCEPT ![k] = [status |-> "error", port |-> p, child |-> NoLaunch]]
                /\ outlived' = outlived \cup {k}
    BY <1>2 DEF LaunchLivePreview
  <2>2. l \notin waiting /\ process[l] = "none"
    BY <2>1 DEF Called
  <2>3. called'[l] = [key |-> k, port |-> p] /\ \A m \in Launch \ {l} : called'[m] = called[m] /\ process'[m] = process[m]
    BY <2>1
  <2>4. \A o \in Key \ {k} : live'[o] = live[o]
    BY <2>1
  <2>5. live'[k].port = p
    BY <2>1
  <2>6. l \notin signalled \cup abandoned
    BY <2>2 DEF DeadInv, Alive
  <2>7. ChildInv'
    <3> SUFFICES ASSUME NEW o \in Key, live'[o].child # NoLaunch
                 PROVE  /\ Alive(live[o].child)'
                        /\ live'[o].child \notin signalled \cup abandoned
                        /\ called'[live'[o].child] = [key |-> o, port |-> live'[o].port]
                        /\ live'[o].status \in {"starting", "running"}
      BY DEF ChildInv
    <3>1. CASE o = k
      <4>1. live'[k] = [status |-> "starting", port |-> p, child |-> l] /\ process'[l] = "up"
        BY <2>1, <3>1
      <4> QED
        BY <2>3, <2>6, <3>1, <4>1 DEF Alive
    <3>2. CASE o # k
      <4>1. live'[o] = live[o]
        BY <2>4, <3>2
      <4>2. live[o] \in PreviewState
        OBVIOUS
      <4>3. live[o].child \in Launch
        BY <4>1, <4>2
      <4>4. live[o].child # l
        BY <2>2, <4>1, ChildFacts
      <4> QED
        BY <2>3, <4>1, <4>3, <4>4 DEF ChildInv, Alive
    <3> QED
      BY <3>1, <3>2
  <2>8. StartingInv'
    BY <2>1, <2>4 DEF StartingInv
  <2>9. WaitingInv'
    <3> SUFFICES ASSUME NEW m \in waiting', called'[m].key \notin outlived' \cup overlapped
                 PROVE  live'[called'[m].key].child = m /\ live'[called'[m].key].status = "starting"
      BY DEF WaitingInv
    <3>1. CASE m = l
      BY <2>1, <2>3, <3>1
    <3>2. CASE m # l
      <4>1. m \in waiting /\ called'[m] = called[m] /\ called[m].key \notin outlived \cup overlapped
        BY <2>1, <2>3, <3>2
      <4>2. live[called[m].key].child = m /\ live[called[m].key].status = "starting" /\ called[m].key \in Key
        BY <4>1 DEF WaitingInv
      <4>3. called[m].key # k
        BY <4>1, <4>2
      <4> QED
        BY <2>4, <4>1, <4>2, <4>3
    <3> QED
      BY <3>1, <3>2
  <2>10. RunningInv'
    BY <2>1, <2>4 DEF RunningInv
  <2>11. FindingInv'
    BY <2>4 DEF FindingInv
  <2>12. PortInv'
    <3>1. \A o \in Key, q \in Port : HoldsPort(o, q)' => HoldsPort(o, q) \/ (o = k /\ q = p)
      <4> SUFFICES ASSUME NEW o \in Key, NEW q \in Port, HoldsPort(o, q)'
                   PROVE  HoldsPort(o, q) \/ (o = k /\ q = p)
        OBVIOUS
      <4>1. CASE live'[o].port = q
        BY <2>4, <2>5, <4>1 DEF HoldsPort
      <4>2. CASE \E m \in LaunchesOf(o)' : called'[m].port = q
        <5>1. PICK m \in Launch : called'[m] # NoLaunch /\ called'[m].key = o /\ called'[m].port = q
          BY <4>2 DEF LaunchesOf, Called
        <5>2. CASE m = l
          BY <2>3, <5>1, <5>2
        <5>3. CASE m # l
          BY <2>3, <5>1, <5>3 DEF HoldsPort, LaunchesOf, Called
        <5> QED
          BY <5>2, <5>3
      <4> QED
        BY <4>1, <4>2 DEF HoldsPort
    <3> SUFFICES ASSUME NEW q \in Port \ reissued', NEW o1 \in Key, NEW o2 \in Key,
                        HoldsPort(o1, q)', HoldsPort(o2, q)'
                 PROVE  o1 = o2
      BY DEF PortInv
    <3>2. CASE q = p
      BY <3>1, <3>2
    <3>3. CASE q # p
      BY <3>1, <3>3 DEF PortInv
    <3> QED
      BY <3>2, <3>3
  <2>13. NoneLeftRunning'
    <3> SUFFICES ASSUME NEW m \in Launch, Alive(m)', m \notin signalled \cup abandoned,
                        called'[m].key \notin overlapped
                 PROVE  live'[called'[m].key].child = m
      BY DEF NoneLeftRunning
    <3>1. CASE m = l
      <4>1. process' = [process EXCEPT ![l] = "up"]
        BY <2>1, <2>2, <3>1 DEF Alive
      <4> QED
        BY <2>1, <2>2, <2>3, <3>1, <4>1
    <3>2. CASE m # l
      <4>1. Alive(m) /\ called'[m] = called[m]
        BY <2>3, <3>2 DEF Alive
      <4>2. live[called[m].key].child = m /\ called[m].key \in Key
        BY <4>1 DEF NoneLeftRunning, Alive
      <4>3. called[m].key # k
        BY <4>1, <4>2
      <4> QED
        BY <2>4, <4>1, <4>2, <4>3
    <3> QED
      BY <3>1, <3>2
  <2>14. DeadInv'
    BY <2>3, <2>6 DEF DeadInv, Alive
  <2> QED
    BY <2>7, <2>8, <2>9, <2>10, <2>11, <2>12, <2>13, <2>14
<1> QED
  BY <1>1, <1>2 DEF WithPort

LEMMA StartInv ==
  ASSUME PreviewInv, PreviewTypeOK', NEW k \in Key, StartLivePreview(k) PROVE PreviewInv'
<1> USE PreviewAssumption DEF PreviewInv, PreviewTypeOK, PreviewState
<1>1. CASE live[k].port # NoPort
  <2> DEFINE p == live[k].port
  <2>1. p \in Port
    BY <1>1
  <2>2. WithPort(k, p) /\ UNCHANGED <<finding, overlapped, signalled, abandoned, reissued>>
    BY <1>1 DEF StartLivePreview
  <2>3. live[k].child = NoLaunch
    BY DEF StartLivePreview, ChildInv
  <2>4. k \in overlapped \/ finding'[k] = 0
    BY <1>1, <2>2 DEF FindingInv
  <2>5. p \in reissued' \/ \A o \in Key : HoldsPort(o, p) => o = k
    BY <2>1, <2>2 DEF PortInv, HoldsPort
  <2> QED
    BY <2>1, <2>2, <2>3, <2>4, <2>5, WithPortInv
<1>2. CASE live[k].port = NoPort
  <2>1. /\ finding' = [finding EXCEPT ![k] = @ + 1]
        /\ overlapped' = IF finding[k] > 0 THEN overlapped \cup {k} ELSE overlapped
        /\ UNCHANGED <<live, called, waiting, process, outlived, signalled, reissued, abandoned>>
    BY <1>2 DEF StartLivePreview
  <2>2. overlapped \subseteq overlapped'
    BY <2>1
  <2>3. DeadInv' /\ ChildInv' /\ StartingInv' /\ RunningInv'
    BY <2>1, <2>2 DEF DeadInv, ChildInv, StartingInv, RunningInv, Alive
  <2>4. WaitingInv'
    BY <2>1, <2>2 DEF WaitingInv
  <2>5. FindingInv'
    <3> SUFFICES ASSUME NEW o \in Key \ overlapped', finding'[o] > 0
                 PROVE  finding'[o] = 1 /\ live[o].port = NoPort /\ live[o].child = NoLaunch
      BY <2>1 DEF FindingInv
    <3>1. CASE o = k
      <4>1. finding[k] = 0
        BY <2>1, <3>1
      <4>2. live[k].child = NoLaunch
        BY DEF StartLivePreview, ChildInv
      <4> QED
        BY <1>2, <2>1, <3>1, <4>1, <4>2
    <3>2. CASE o # k
      BY <2>1, <2>2, <3>2 DEF FindingInv
    <3> QED
      BY <3>1, <3>2
  <2>6. PortInv'
    BY <2>1, HoldsSame DEF PortInv
  <2>7. NoneLeftRunning'
    BY <2>1, <2>2 DEF NoneLeftRunning, Alive
  <2> QED
    BY <2>3, <2>4, <2>5, <2>6, <2>7
<1> QED
  BY <1>1, <1>2

LEMMA FoundInv ==
  ASSUME PreviewInv, PreviewTypeOK', NEW k \in Key, FoundPort(k) PROVE PreviewInv'
<1> USE PreviewAssumption DEF PreviewInv, PreviewTypeOK, PreviewState
<1>1. PICK p \in Port : WithPort(k, p) /\ Reissue(k, p)
  BY DEF FoundPort
<1>2. finding[k] > 0 /\ finding' = [finding EXCEPT ![k] = @ - 1] /\ UNCHANGED <<signalled, overlapped, abandoned>>
  BY DEF FoundPort
<1>3. k \in overlapped \/ (live[k].child = NoLaunch /\ finding'[k] = 0)
  BY <1>2 DEF FindingInv
<1>4. p \in reissued' \/ \A o \in Key : HoldsPort(o, p) => o = k
  BY <1>1 DEF Reissue
<1>5. reissued \subseteq reissued'
  BY <1>1 DEF Reissue
<1>6. \A o \in Key \ {k} : finding'[o] = finding[o]
  BY <1>2
<1> QED
  BY <1>1, <1>2, <1>3, <1>4, <1>5, <1>6, WithPortInv

LEMMA FindFailsInv ==
  ASSUME PreviewInv, PreviewTypeOK', NEW k \in Key, FindPortFails(k) PROVE PreviewInv'
<1> USE DEF PreviewInv, FindPortFails, children, previewHistory
<1>1. DeadInv' /\ ChildInv' /\ StartingInv' /\ WaitingInv' /\ RunningInv'
  BY DEF DeadInv, ChildInv, StartingInv, WaitingInv, RunningInv, Alive
<1>2. FindingInv'
  BY DEF FindingInv, PreviewTypeOK
<1>3. PortInv'
  BY HoldsSame DEF PortInv
<1>4. NoneLeftRunning'
  BY DEF NoneLeftRunning, Alive
<1> QED
  BY <1>1, <1>2, <1>3, <1>4

LEMMA ListenInv ==
  ASSUME PreviewInv, PreviewTypeOK', NEW l \in Launch, Listen(l) PROVE PreviewInv'
<1> USE DEF PreviewInv
<1>1. /\ UNCHANGED <<live, finding, called, waiting, process, signalled, overlapped, outlived, abandoned>>
      /\ reissued \subseteq reissued'
  BY DEF Listen, Reissue
<1>2. DeadInv' /\ ChildInv' /\ StartingInv' /\ WaitingInv' /\ RunningInv' /\ FindingInv'
  BY <1>1 DEF DeadInv, ChildInv, StartingInv, WaitingInv, RunningInv, FindingInv, Alive
<1>3. PortInv'
  BY <1>1, HoldsSame DEF PortInv
<1>4. NoneLeftRunning'
  BY <1>1 DEF NoneLeftRunning, Alive
<1> QED
  BY <1>2, <1>3, <1>4

LEMMA ExitInv ==
  ASSUME PreviewInv, PreviewTypeOK', NEW l \in Launch, ChildExits(l) PROVE PreviewInv'
<1> USE PreviewAssumption DEF PreviewInv
<1> DEFINE k == called[l].key
<1>1. /\ Alive(l) /\ called[l] # NoLaunch /\ k \in Key
      /\ live \in [Key -> PreviewState] /\ waiting \subseteq Launch
  BY DEF ChildExits, OnExit, WithoutChild, Alive, PreviewTypeOK
<1>2. /\ process' = [process EXCEPT ![l] = "none"]
      /\ called' = IF l \in waiting THEN called ELSE [called EXCEPT ![l] = NoLaunch]
      /\ live' = IF live[k].child = l
                 THEN [live EXCEPT ![k].child = NoLaunch,
                                   ![k].status = IF @ \in {"starting", "running"} THEN "error" ELSE @]
                 ELSE live
      /\ outlived' = IF l \in waiting THEN outlived \cup {k} ELSE outlived
      /\ signalled' = signalled \ {l} /\ abandoned' = abandoned \ {l}
      /\ UNCHANGED <<finding, waiting, overlapped, reissued>>
  BY DEF ChildExits, OnExit, WithoutChild
<1>3. \A m \in Launch \ {l} : called'[m] = called[m] /\ process'[m] = process[m]
  BY <1>2 DEF PreviewTypeOK
<1>4. process'[l] = "none"
  BY <1>2 DEF PreviewTypeOK
<1>5. \A o \in Key \ {k} : live'[o] = live[o]
  BY <1>1, <1>2
<1>6. \/ live[k].child # l /\ live'[k] = live[k]
      \/ /\ live[k].child = l
         /\ live'[k] = [status |-> "error", port |-> live[k].port, child |-> NoLaunch]
  <2>1. CASE live[k].child # l
    BY <1>2, <2>1
  <2>2. CASE live[k].child = l
    <3>1. live[k].status \in {"starting", "running"}
      BY <1>1, <2>2 DEF ChildInv, PreviewTypeOK
    <3>2. live'[k] = [live[k] EXCEPT !.child = NoLaunch, !.status = "error"]
      BY <1>1, <1>2, <2>2, <3>1
    <3>3. live[k] \in PreviewState
      BY <1>1
    <3>4. live'[k] = [status |-> "error", port |-> live[k].port, child |-> NoLaunch]
      BY <3>2, <3>3 DEF PreviewState
    <3> QED
      BY <2>2, <3>4
  <2> QED
    BY <2>1, <2>2
<1>7. ASSUME NEW o \in Key, live[o].child = l PROVE o = k
  BY <1>7, ChildFacts
<1>8. \A o \in Key : live'[o].child # l
  BY <1>1, <1>5, <1>6, <1>7, NoLaunch \notin Launch
<1>9. DeadInv'
  BY <1>2, <1>3 DEF DeadInv, Alive, PreviewTypeOK
<1>10. ChildInv'
  <2> SUFFICES ASSUME NEW o \in Key, live'[o].child # NoLaunch
               PROVE  /\ Alive(live[o].child)'
                      /\ live'[o].child \notin signalled' \cup abandoned'
                      /\ called'[live'[o].child] = [key |-> o, port |-> live'[o].port]
                      /\ live'[o].status \in {"starting", "running"}
    BY DEF ChildInv
  <2>1. live'[o] = live[o]
    BY <1>5, <1>6
  <2>2. live[o].child \in Launch \ {l}
    BY <1>1, <1>8, <2>1 DEF PreviewState
  <2>3. /\ Alive(live[o].child) /\ live[o].child \notin signalled \cup abandoned
        /\ called[live[o].child] = [key |-> o, port |-> live[o].port]
        /\ live[o].status \in {"starting", "running"}
    BY <2>1 DEF ChildInv
  <2>4. Alive(live[o].child)'
    BY <1>3, <2>1, <2>2, <2>3 DEF Alive
  <2>5. called'[live'[o].child] = [key |-> o, port |-> live'[o].port]
    BY <1>3, <2>1, <2>2, <2>3
  <2>6. live'[o].child \notin signalled' \cup abandoned'
    BY <1>2, <2>1, <2>3
  <2>7. live'[o].status \in {"starting", "running"}
    BY <2>1, <2>3
  <2> QED
    BY <2>4, <2>5, <2>6, <2>7
<1>11. StartingInv'
  <2> SUFFICES ASSUME NEW o \in Key, live'[o].status = "starting" PROVE live'[o].child \in waiting
    BY <1>2 DEF StartingInv
  <2>1. live'[o] = live[o]
    BY <1>5, <1>6
  <2> QED
    BY <2>1 DEF StartingInv
<1>12. WaitingInv'
  <2> SUFFICES ASSUME NEW m \in waiting, called'[m].key \notin outlived' \cup overlapped
               PROVE  live'[called'[m].key].child = m /\ live'[called'[m].key].status = "starting"
    BY <1>2 DEF WaitingInv
  <2>1. called'[m] = called[m]
    BY <1>1, <1>2, <1>3
  <2>2. outlived \subseteq outlived'
    BY <1>2
  <2>3. live[called[m].key].child = m /\ live[called[m].key].status = "starting"
    BY <2>1, <2>2 DEF WaitingInv
  <2>4. called[m].key \in Key
    BY <1>1 DEF PreviewTypeOK
  <2>5. m # l
    BY <1>2, <2>1
  <2> QED
    BY <1>5, <1>6, <2>1, <2>3, <2>4, <2>5
<1>13. RunningInv'
  <2> SUFFICES ASSUME NEW o \in Key \ (outlived' \cup overlapped), live'[o].status = "running"
               PROVE  live'[o].child # NoLaunch
    BY <1>2 DEF RunningInv
  <2>1. o \notin outlived
    BY <1>2
  <2>2. live'[o] = live[o]
    BY <1>5, <1>6
  <2> QED
    BY <2>1, <2>2 DEF RunningInv
<1>14. FindingInv'
  BY <1>2, <1>5, <1>6 DEF FindingInv
<1>15. PortInv'
  <2>1. \A o \in Key : live'[o].port = live[o].port
    BY <1>5, <1>6
  <2>2. \A m \in Launch : called'[m] = NoLaunch \/ called'[m] = called[m]
    BY <1>2 DEF PreviewTypeOK
  <2>3. \A o \in Key, q \in Port : HoldsPort(o, q)' => HoldsPort(o, q)
    BY <2>1, <2>2 DEF HoldsPort, LaunchesOf, Called
  <2> QED
    BY <1>2, <2>3 DEF PortInv
<1>16. NoneLeftRunning'
  <2> SUFFICES ASSUME NEW m \in Launch, Alive(m)', m \notin signalled' \cup abandoned',
                      called'[m].key \notin overlapped
               PROVE  live'[called'[m].key].child = m
    BY <1>2 DEF NoneLeftRunning
  <2>1. m # l
    BY <1>4 DEF Alive
  <2>2. Alive(m) /\ called'[m] = called[m] /\ m \notin signalled \cup abandoned
    BY <1>2, <1>3, <2>1 DEF Alive
  <2>3. live[called[m].key].child = m /\ called[m].key \in Key
    BY <2>2 DEF NoneLeftRunning, Alive, PreviewTypeOK
  <2> QED
    BY <1>5, <1>6, <2>1, <2>2, <2>3
<1> QED
  BY <1>9, <1>10, <1>11, <1>12, <1>13, <1>14, <1>15, <1>16

LEMMA WaitEndsInv ==
  ASSUME PreviewInv, PreviewTypeOK', NEW l \in Launch, Connected(l) \/ TimedOut(l) PROVE PreviewInv'
<1> USE PreviewAssumption DEF PreviewInv
<1> DEFINE k == called[l].key
<1>1. /\ l \in waiting /\ waiting' = waiting \ {l}
      /\ called' = IF Alive(l) THEN called ELSE [called EXCEPT ![l] = NoLaunch]
      /\ UNCHANGED <<finding, process, overlapped, outlived, reissued, abandoned>>
  BY DEF Connected, TimedOut, Signal, WaitEnds, children, previewHistory
<1>2. called[l] # NoLaunch /\ k \in Key /\ live \in [Key -> PreviewState] /\ live[k] \in PreviewState
  BY <1>1 DEF PreviewTypeOK
<1>3. \A m \in Launch : Alive(m) \/ m # l => called'[m] = called[m]
  BY <1>1 DEF PreviewTypeOK
<1>4. \A o \in Key \ {k} : live'[o] = live[o]
  BY <1>2 DEF Connected, TimedOut, Signal
<1>5. \/ /\ live'[k] = [live[k] EXCEPT !.status = "running"]
         /\ UNCHANGED signalled
      \/ /\ live'[k] = [live[k] EXCEPT !.child = NoLaunch, !.status = "error"]
         /\ signalled' = signalled \cup ({live[k].child} \ {NoLaunch})
  <2>1. CASE Connected(l)
    BY <1>2, <2>1 DEF Connected
  <2>2. CASE TimedOut(l)
    BY <1>2, <2>2 DEF TimedOut, Signal
  <2> QED
    BY <2>1, <2>2
<1>6. /\ live'[k].port = live[k].port
      /\ live'[k].status \in {"running", "error"}
      /\ live'[k].child \in {live[k].child, NoLaunch}
  BY <1>2, <1>5 DEF PreviewState
<1>7. DeadInv'
  <2>1. signalled' \subseteq signalled \cup ({live[k].child} \ {NoLaunch})
    BY <1>5
  <2>2. live[k].child = NoLaunch \/ Alive(live[k].child)
    BY <1>2 DEF ChildInv
  <2> QED
    BY <1>1, <2>1, <2>2 DEF DeadInv, Alive
<1>8. ChildInv'
  <2> SUFFICES ASSUME NEW o \in Key, live'[o].child # NoLaunch
               PROVE  /\ Alive(live[o].child)'
                      /\ live'[o].child \notin signalled' \cup abandoned'
                      /\ called'[live'[o].child] = [key |-> o, port |-> live'[o].port]
                      /\ live'[o].status \in {"starting", "running"}
    BY DEF ChildInv
  <2>1. live'[o].child = live[o].child /\ live'[o].port = live[o].port
    BY <1>4, <1>6
  <2>2. live[o].child \in Launch /\ Alive(live[o].child)
        /\ live[o].child \notin signalled \cup abandoned
        /\ called[live[o].child] = [key |-> o, port |-> live[o].port]
        /\ live[o].status \in {"starting", "running"}
    BY <1>2, <2>1 DEF ChildInv, PreviewState
  <2>3. live[o].child \notin signalled'
    <3>1. CASE o = k
      <4>1. UNCHANGED signalled
        BY <1>2, <1>5, <3>1 DEF PreviewState
      <4> QED
        BY <2>2, <4>1
    <3>2. CASE o # k
      <4>1. live[k].child # live[o].child
        BY <1>2, <2>2, <3>2, ChildFacts
      <4> QED
        BY <1>5, <2>2, <4>1
    <3> QED
      BY <3>1, <3>2
  <2>4. live'[o].status \in {"starting", "running"}
    <3>1. CASE o = k
      BY <1>2, <1>5, <3>1 DEF PreviewState
    <3>2. CASE o # k
      BY <1>4, <2>2, <3>2
    <3> QED
      BY <3>1, <3>2
  <2> QED
    BY <1>1, <1>3, <2>1, <2>2, <2>3, <2>4 DEF Alive
<1>9. StartingInv'
  <2> SUFFICES ASSUME NEW o \in Key, live'[o].status = "starting" PROVE live'[o].child \in waiting'
    BY DEF StartingInv
  <2>1. o # k /\ live'[o] = live[o]
    BY <1>4, <1>6
  <2>2. live[o].child \in waiting
    BY <2>1 DEF StartingInv
  <2>3. live[o].child # NoLaunch
    BY <2>2 DEF PreviewTypeOK
  <2>4. called[live[o].child].key = o
    BY <2>3, ChildFacts
  <2> QED
    BY <1>1, <2>1, <2>2, <2>4
<1>10. \A m \in waiting' : called[m].key \notin outlived \cup overlapped => called[m].key # k
  <2> SUFFICES ASSUME NEW m \in waiting', called[m].key \notin outlived \cup overlapped, called[m].key = k
               PROVE  FALSE
    OBVIOUS
  <2>1. live[k].child = m /\ live[k].child = l
    BY <1>1 DEF WaitingInv
  <2> QED
    BY <1>1, <2>1
<1>11. WaitingInv'
  <2> SUFFICES ASSUME NEW m \in waiting', called'[m].key \notin outlived \cup overlapped
               PROVE  live'[called'[m].key].child = m /\ live'[called'[m].key].status = "starting"
    BY <1>1 DEF WaitingInv
  <2>1. called'[m] = called[m] /\ m \in waiting /\ called[m].key \in Key
    BY <1>1, <1>3 DEF PreviewTypeOK
  <2> QED
    BY <1>4, <1>10, <2>1 DEF WaitingInv
<1>12. RunningInv'
  <2> SUFFICES ASSUME NEW o \in Key \ (outlived \cup overlapped), live'[o].status = "running"
               PROVE  live'[o].child # NoLaunch
    BY <1>1 DEF RunningInv
  <2>1. CASE o = k
    <3>1. live[k].child = l
      BY <1>1, <2>1 DEF WaitingInv
    <3>2. live'[k].child = live[k].child
      BY <1>2, <1>5, <2>1 DEF PreviewState
    <3> QED
      BY <2>1, <3>1, <3>2
  <2>2. CASE o # k
    BY <1>4, <2>2 DEF RunningInv
  <2> QED
    BY <2>1, <2>2
<1>13. FindingInv'
  BY <1>1, <1>4, <1>6 DEF FindingInv
<1>14. PortInv'
  <2>1. \A o \in Key : live'[o].port = live[o].port
    BY <1>4, <1>6
  <2>2. \A m \in Launch : called'[m] = NoLaunch \/ called'[m] = called[m]
    BY <1>1 DEF PreviewTypeOK
  <2>3. \A o \in Key, q \in Port : HoldsPort(o, q)' => HoldsPort(o, q)
    BY <2>1, <2>2 DEF HoldsPort, LaunchesOf, Called
  <2> QED
    BY <1>1, <2>3 DEF PortInv
<1>15. NoneLeftRunning'
  <2> SUFFICES ASSUME NEW m \in Launch, Alive(m)', m \notin signalled' \cup abandoned',
                      called'[m].key \notin overlapped
               PROVE  live'[called'[m].key].child = m
    BY <1>1 DEF NoneLeftRunning
  <2>1. Alive(m) /\ called'[m] = called[m] /\ m \notin signalled \cup abandoned
    BY <1>1, <1>3, <1>5 DEF Alive
  <2>2. live[called[m].key].child = m /\ called[m].key \in Key
    BY <2>1 DEF NoneLeftRunning, Alive, PreviewTypeOK
  <2>3. CASE called[m].key = k
    <3>1. live'[k].child = live[k].child
      BY <1>2, <1>5, <2>2, <2>3 DEF PreviewState
    <3> QED
      BY <2>1, <2>2, <2>3, <3>1
  <2>4. CASE called[m].key # k
    BY <1>4, <2>1, <2>2, <2>4
  <2> QED
    BY <2>3, <2>4
<1> QED
  BY <1>7, <1>8, <1>9, <1>11, <1>12, <1>13, <1>14, <1>15

LEMMA StopInv ==
  ASSUME PreviewInv, PreviewTypeOK', NEW k \in Key, StopLivePreview(k) PROVE PreviewInv'
<1> USE PreviewAssumption DEF PreviewInv
<1>1. /\ signalled' = signalled \cup ({live[k].child} \ {NoLaunch})
      /\ live' = [live EXCEPT ![k].child = NoLaunch, ![k].status = "idle"]
      /\ outlived' = IF LaunchesOf(k) \cap waiting # {} THEN outlived \cup {k} ELSE outlived
      /\ UNCHANGED <<finding, called, waiting, process, overlapped, reissued, abandoned>>
  BY DEF StopLivePreview, Signal, children
<1>2. live \in [Key -> PreviewState] /\ live[k] \in PreviewState
  BY DEF PreviewTypeOK
<1>3. \A o \in Key \ {k} : live'[o] = live[o]
  BY <1>1, <1>2
<1>4. live'[k] = [live[k] EXCEPT !.child = NoLaunch, !.status = "idle"]
  BY <1>1, <1>2
<1>5. live'[k].port = live[k].port /\ live'[k].status = "idle" /\ live'[k].child = NoLaunch
  BY <1>2, <1>4 DEF PreviewState
<1>6. outlived \subseteq outlived'
  BY <1>1
<1>7. DeadInv'
  <2>1. live[k].child = NoLaunch \/ Alive(live[k].child)
    BY DEF ChildInv
  <2> QED
    BY <1>1, <2>1 DEF DeadInv, Alive
<1>8. ChildInv'
  <2> SUFFICES ASSUME NEW o \in Key, live'[o].child # NoLaunch
               PROVE  /\ Alive(live[o].child)'
                      /\ live'[o].child \notin signalled' \cup abandoned'
                      /\ called'[live'[o].child] = [key |-> o, port |-> live'[o].port]
                      /\ live'[o].status \in {"starting", "running"}
    BY DEF ChildInv
  <2>1. o # k /\ live'[o] = live[o]
    BY <1>3, <1>5
  <2>2. /\ Alive(live[o].child) /\ live[o].child \notin signalled \cup abandoned
        /\ called[live[o].child] = [key |-> o, port |-> live[o].port]
        /\ live[o].status \in {"starting", "running"}
    BY <2>1 DEF ChildInv
  <2>3. live[k].child # live[o].child
    BY <1>2, <2>1, ChildFacts
  <2>4. Alive(live[o].child)'
    BY <1>1, <2>1, <2>2 DEF Alive
  <2>5. live'[o].child \notin signalled' \cup abandoned'
    BY <1>1, <2>1, <2>2, <2>3
  <2>6. called'[live'[o].child] = [key |-> o, port |-> live'[o].port]
    BY <1>1, <2>1, <2>2
  <2> QED
    BY <2>1, <2>2, <2>4, <2>5, <2>6
<1>9. StartingInv'
  <2> SUFFICES ASSUME NEW o \in Key, live'[o].status = "starting" PROVE live'[o].child \in waiting
    BY <1>1 DEF StartingInv
  <2>1. live'[o] = live[o]
    BY <1>3, <1>5
  <2> QED
    BY <2>1 DEF StartingInv
<1>10. WaitingInv'
  <2> SUFFICES ASSUME NEW m \in waiting, called[m].key \notin outlived' \cup overlapped
               PROVE  live'[called[m].key].child = m /\ live'[called[m].key].status = "starting"
    BY <1>1 DEF WaitingInv
  <2>1. called[m].key # k
    BY <1>1 DEF LaunchesOf, Called, PreviewTypeOK
  <2>2. called[m].key \in Key
    BY DEF PreviewTypeOK
  <2> QED
    BY <1>3, <1>6, <2>1, <2>2 DEF WaitingInv
<1>11. RunningInv'
  <2> SUFFICES ASSUME NEW o \in Key \ (outlived' \cup overlapped), live'[o].status = "running"
               PROVE  live'[o].child # NoLaunch
    BY <1>1 DEF RunningInv
  <2>1. live'[o] = live[o]
    BY <1>3, <1>5
  <2> QED
    BY <1>6, <2>1 DEF RunningInv
<1>12. FindingInv'
  BY <1>1, <1>3, <1>5 DEF FindingInv
<1>13. PortInv'
  <2>1. \A o \in Key : live'[o].port = live[o].port
    BY <1>3, <1>5
  <2>2. \A o \in Key, q \in Port : HoldsPort(o, q)' => HoldsPort(o, q)
    BY <1>1, <2>1 DEF HoldsPort, LaunchesOf, Called
  <2> QED
    BY <1>1, <2>2 DEF PortInv
<1>14. NoneLeftRunning'
  <2> SUFFICES ASSUME NEW m \in Launch, Alive(m), m \notin signalled' \cup abandoned,
                      called[m].key \notin overlapped
               PROVE  live'[called[m].key].child = m
    BY <1>1 DEF NoneLeftRunning, Alive
  <2>1. m \notin signalled
    BY <1>1
  <2>2. live[called[m].key].child = m /\ called[m].key \in Key
    BY <2>1 DEF NoneLeftRunning, Alive, PreviewTypeOK
  <2>3. called[m].key # k
    BY <1>1, <2>2
  <2> QED
    BY <1>3, <2>2, <2>3
<1> QED
  BY <1>7, <1>8, <1>9, <1>10, <1>11, <1>12, <1>13, <1>14

LEMMA ServerEndsInv ==
  ASSUME PreviewInv, PreviewTypeOK', ServerExits \/ ServerKilled PROVE PreviewInv'
<1> USE PreviewAssumption DEF PreviewInv
<1>1. /\ live' = [k \in Key |-> NoPreview]
      /\ finding' = [k \in Key |-> 0]
      /\ waiting' = {} /\ outlived' = {}
      /\ called' = [l \in Launch |-> IF Alive(l) THEN called[l] ELSE NoLaunch]
      /\ UNCHANGED <<process, overlapped, reissued>>
  BY DEF ServerExits, ServerKilled, Forget, children
<1>2. \A k \in Key : live'[k].status = "none" /\ live'[k].port = NoPort /\ live'[k].child = NoLaunch
  BY <1>1 DEF NoPreview
<1>3. ChildInv' /\ StartingInv' /\ WaitingInv' /\ RunningInv' /\ FindingInv'
  BY <1>1, <1>2 DEF ChildInv, StartingInv, WaitingInv, RunningInv, FindingInv
<1>4. DeadInv'
  <2>1. CASE ServerExits
    <3>1. signalled' = signalled \cup ({live[k].child : k \in Key} \ {NoLaunch}) /\ UNCHANGED abandoned
      BY <2>1 DEF ServerExits
    <3>2. \A k \in Key : live[k].child = NoLaunch \/ Alive(live[k].child)
      BY DEF ChildInv
    <3> QED
      BY <1>1, <3>1, <3>2 DEF DeadInv, Alive
  <2>2. CASE ServerKilled
    BY <1>1, <2>2 DEF ServerKilled, DeadInv, Alive
  <2> QED
    BY <2>1, <2>2
<1>5. PortInv'
  <2>1. \A m \in Launch : called'[m] = NoLaunch \/ called'[m] = called[m]
    BY <1>1
  <2>2. \A o \in Key, q \in Port : HoldsPort(o, q)' => HoldsPort(o, q)
    BY <1>2, <2>1 DEF HoldsPort, LaunchesOf, Called
  <2> QED
    BY <1>1, <2>2 DEF PortInv
<1>6. NoneLeftRunning'
  <2> SUFFICES ASSUME NEW m \in Launch, Alive(m), m \notin signalled' \cup abandoned',
                      called[m].key \notin overlapped
               PROVE  FALSE
    BY <1>1 DEF NoneLeftRunning, Alive
  <2>1. CASE ServerExits
    <3>1. m \notin signalled \cup abandoned
      BY <2>1 DEF ServerExits
    <3>2. live[called[m].key].child = m /\ called[m].key \in Key
      BY <3>1 DEF NoneLeftRunning, Alive, PreviewTypeOK
    <3> QED
      BY <2>1, <3>2 DEF ServerExits
  <2>2. CASE ServerKilled
    BY <2>2 DEF ServerKilled
  <2> QED
    BY <2>1, <2>2
<1> QED
  BY <1>3, <1>4, <1>5, <1>6

\* The inductive invariant survives every request, every event of a process, every
\* time-out and every end of the server.
THEOREM PreviewInductive == PreviewSpec => []PreviewInv
<1>1. PreviewInv /\ [PreviewNext]_previewVars => PreviewInv'
  <2> SUFFICES ASSUME PreviewInv, [PreviewNext]_previewVars PROVE PreviewInv'
    OBVIOUS
  <2>0. PreviewTypeOK'
    BY PreviewTypeNext DEF PreviewInv
  <2>1. ASSUME NEW k \in Key, WriteOutput(k) \/ ReadStatus(k) PROVE PreviewInv'
    BY <2>0, <2>1, PreviewStutters DEF WriteOutput, ReadStatus, children
  <2>2. ASSUME NEW k \in Key, StartLivePreview(k) PROVE PreviewInv'
    BY <2>0, <2>2, StartInv
  <2>3. ASSUME NEW k \in Key, FoundPort(k) PROVE PreviewInv'
    BY <2>0, <2>3, FoundInv
  <2>4. ASSUME NEW k \in Key, FindPortFails(k) PROVE PreviewInv'
    BY <2>0, <2>4, FindFailsInv
  <2>5. ASSUME NEW k \in Key, StopLivePreview(k) PROVE PreviewInv'
    BY <2>0, <2>5, StopInv
  <2>6. ASSUME NEW l \in Launch, Listen(l) PROVE PreviewInv'
    BY <2>0, <2>6, ListenInv
  <2>7. ASSUME NEW l \in Launch, ChildExits(l) PROVE PreviewInv'
    BY <2>0, <2>7, ExitInv
  <2>8. ASSUME NEW l \in Launch, Connected(l) \/ TimedOut(l) PROVE PreviewInv'
    BY <2>0, <2>8, WaitEndsInv
  <2>9. CASE ServerExits \/ ServerKilled
    BY <2>0, <2>9, ServerEndsInv
  <2>10. CASE UNCHANGED previewVars
    BY <2>0, <2>10, PreviewStutters DEF previewVars, children
  <2> QED
    BY <2>1, <2>2, <2>3, <2>4, <2>5, <2>6, <2>7, <2>8, <2>9, <2>10 DEF PreviewNext
<1> QED
  BY <1>1, PreviewInitInv, PTL DEF PreviewSpec

\* A session counts on a port no longer when its entry or a launch lets go of it.
LEMMA HoldsLess ==
  ASSUME \A o \in Key : live'[o].port \in {live[o].port, NoPort},
         \A m \in Launch : called'[m] \in {called[m], NoLaunch}
  PROVE  \A o \in Key, q \in Port : HoldsPort(o, q)' => HoldsPort(o, q)
BY PreviewAssumption DEF HoldsPort, LaunchesOf, Called

\* Nobody begins to listen, and who begins to count on a port finds nobody there.
LEMMA ListensKept ==
  ASSUME ListensInv, PreviewTypeOK,
         \A m \in Launch : listens'[m] # NoPort => listens'[m] = listens[m] /\ called'[m] = called[m],
         reissued \subseteq reissued',
         \A o \in Key, q \in Port : HoldsPort(o, q)' => HoldsPort(o, q) \/ ListeningOn(q) = {}
  PROVE  ListensInv'
<1> SUFFICES ASSUME NEW l \in Launch, NEW q \in Port \ reissued', listens'[l] = q,
                    NEW o \in Key, HoldsPort(o, q)'
             PROVE  o = called'[l].key
  BY DEF ListensInv
<1>1. listens[l] = q /\ called'[l] = called[l] /\ q \notin reissued
  BY PreviewAssumption
<1>2. HoldsPort(o, q)
  BY <1>1 DEF ListeningOn
<1> QED
  BY <1>1, <1>2 DEF ListensInv

\* A start counts on the port it was given.
LEMMA StartListens ==
  ASSUME ListensInv, PreviewTypeOK, NEW k \in Key, NEW p \in Port, WithPort(k, p),
         HoldsPort(k, p) \/ ListeningOn(p) = {}, UNCHANGED listens, reissued \subseteq reissued'
  PROVE  ListensInv'
<1> USE PreviewAssumption DEF PreviewTypeOK, PreviewState
<1>1. CASE Unsupported(k)
  <2>1. \A o \in Key : live'[o].port \in {live[o].port, NoPort}
    BY <1>1 DEF Unsupported
  <2>2. \A m \in Launch : called'[m] = called[m]
    BY <1>1 DEF Unsupported
  <2>3. \A o \in Key, q \in Port : HoldsPort(o, q)' => HoldsPort(o, q)
    BY <2>1, <2>2, HoldsLess
  <2> QED
    BY <2>2, <2>3, ListensKept
<1>2. CASE LaunchLivePreview(k, p)
  <2>1. PICK l \in Launch : l \notin Called /\ called' = [called EXCEPT ![l] = [key |-> k, port |-> p]]
    BY <1>2 DEF LaunchLivePreview
  <2>2. /\ called'[l] = [key |-> k, port |-> p] /\ listens[l] = NoPort
        /\ \A m \in Launch \ {l} : called'[m] = called[m]
    BY <2>1 DEF Called
  <2>3. live'[k].port = p /\ \A o \in Key \ {k} : live'[o] = live[o]
    BY <1>2 DEF LaunchLivePreview
  <2>4. ASSUME NEW o \in Key, NEW q \in Port, HoldsPort(o, q)' PROVE HoldsPort(o, q) \/ ListeningOn(q) = {}
    <3>1. CASE live'[o].port = q
      BY <2>3, <3>1 DEF HoldsPort
    <3>2. CASE \E m \in LaunchesOf(o)' : called'[m].port = q
      <4>1. PICK m \in Launch : called'[m] # NoLaunch /\ called'[m].key = o /\ called'[m].port = q
        BY <3>2 DEF LaunchesOf, Called
      <4>2. CASE m = l
        BY <2>2, <4>1, <4>2
      <4>3. CASE m # l
        BY <2>2, <4>1, <4>3 DEF HoldsPort, LaunchesOf, Called
      <4> QED
        BY <4>2, <4>3
    <3> QED
      BY <2>4, <3>1, <3>2 DEF HoldsPort
  <2>5. \A m \in Launch : listens'[m] # NoPort => listens'[m] = listens[m] /\ called'[m] = called[m]
    BY <2>2
  <2> QED
    BY <2>4, <2>5, ListensKept
<1> QED
  BY <1>1, <1>2 DEF WithPort

\* A server that begins to listen: who else counts on its port by then has lost it.
LEMMA ListenListens ==
  ASSUME ListensInv, PreviewTypeOK, NEW l \in Launch, Listen(l)
  PROVE  ListensInv'
<1>1. PICK p \in Port : listens' = [listens EXCEPT ![l] = p] /\ Reissue(called[l].key, p)
  BY DEF Listen
<1>2. UNCHANGED <<live, called>>
  BY DEF Listen
<1>3. listens'[l] = p /\ \A m \in Launch \ {l} : listens'[m] = listens[m]
  BY <1>1 DEF PreviewTypeOK
<1> SUFFICES ASSUME NEW m \in Launch, NEW q \in Port \ reissued', listens'[m] = q,
                    NEW o \in Key, HoldsPort(o, q)'
             PROVE  o = called'[m].key
  BY DEF ListensInv
<1>4. HoldsPort(o, q)
  BY <1>2, HoldsSame
<1>5. CASE m = l
  BY <1>1, <1>2, <1>3, <1>4, <1>5 DEF Reissue, PreviewTypeOK
<1>6. CASE m # l
  <2>1. listens[m] = q /\ q \notin reissued
    BY <1>1, <1>3, <1>6 DEF Reissue
  <2> QED
    BY <1>2, <1>4, <2>1 DEF ListensInv
<1> QED
  BY <1>5, <1>6

LEMMA ListensNext ==
  ASSUME PreviewInv, ListensInv, [PreviewNext]_previewVars
  PROVE  ListensInv'
<1>0. PreviewTypeOK /\ ChildInv
  BY DEF PreviewInv
<1> USE PreviewAssumption
<1>1. ASSUME UNCHANGED <<called, listens, reissued>>, \A o \in Key : live'[o].port \in {live[o].port, NoPort}
      PROVE  ListensInv'
  BY <1>0, <1>1, HoldsLess, ListensKept
<1>2. ASSUME NEW k \in Key, WriteOutput(k) \/ ReadStatus(k) \/ FindPortFails(k) PROVE ListensInv'
  BY <1>1, <1>2 DEF WriteOutput, ReadStatus, FindPortFails, children, previewHistory
<1>3. ASSUME NEW k \in Key, StartLivePreview(k) PROVE ListensInv'
  <2>1. CASE live[k].port # NoPort
    <3>1. PICK p \in Port : p = live[k].port
      BY <1>0, <2>1 DEF PreviewTypeOK, PreviewState
    <3>2. WithPort(k, p) /\ HoldsPort(k, p) /\ UNCHANGED <<listens, reissued>>
      BY <1>3, <2>1, <3>1 DEF StartLivePreview, HoldsPort
    <3> QED
      BY <1>0, <3>2, StartListens
  <2>2. CASE live[k].port = NoPort
    BY <1>1, <1>3, <2>2 DEF StartLivePreview
  <2> QED
    BY <2>1, <2>2
<1>4. ASSUME NEW k \in Key, FoundPort(k) PROVE ListensInv'
  <2>1. PICK p \in Port : ListeningOn(p) = {} /\ WithPort(k, p) /\ Reissue(k, p) /\ UNCHANGED listens
    BY <1>4 DEF FoundPort
  <2>2. reissued \subseteq reissued'
    BY <2>1 DEF Reissue
  <2> QED
    BY <1>0, <2>1, <2>2, StartListens
<1>5. ASSUME NEW k \in Key, StopLivePreview(k) PROVE ListensInv'
  <2>1. /\ live' = [live EXCEPT ![k].child = NoLaunch, ![k].status = "idle"]
        /\ UNCHANGED <<called, listens, reissued>>
    BY <1>5 DEF StopLivePreview, children
  <2>2. \A o \in Key : live'[o].port = live[o].port
    BY <1>0, <2>1 DEF PreviewTypeOK, PreviewState
  <2> QED
    BY <1>1, <2>1, <2>2
<1>6. ASSUME NEW l \in Launch, ChildExits(l) PROVE ListensInv'
  <2>1. /\ listens' = [listens EXCEPT ![l] = NoPort] /\ UNCHANGED reissued
        /\ called' = IF l \in waiting THEN called ELSE [called EXCEPT ![l] = NoLaunch]
        /\ live' = live \/ live' = WithoutChild(called[l].key)
    BY <1>6 DEF ChildExits, OnExit
  <2>2. \A o \in Key : live'[o].port = live[o].port
    BY <1>0, <2>1 DEF PreviewTypeOK, PreviewState, WithoutChild
  <2>3. \A m \in Launch : called'[m] \in {called[m], NoLaunch}
    BY <1>0, <2>1 DEF PreviewTypeOK
  <2>4. \A m \in Launch : listens'[m] # NoPort => listens'[m] = listens[m] /\ called'[m] = called[m]
    BY <1>0, <2>1 DEF PreviewTypeOK
  <2> QED
    BY <1>0, <2>1, <2>2, <2>3, <2>4, HoldsLess, ListensKept
<1>7. ASSUME NEW l \in Launch, Connected(l) \/ TimedOut(l) PROVE ListensInv'
  <2>1. /\ WaitEnds(l) /\ UNCHANGED <<listens, reissued>>
        /\ called' = IF Alive(l) THEN called ELSE [called EXCEPT ![l] = NoLaunch]
    BY <1>7 DEF Connected, TimedOut, WaitEnds, children, previewHistory
  <2>2. \A o \in Key : live'[o].port = live[o].port
    <3>1. called[l].key \in Key /\ live \in [Key -> PreviewState]
      BY <1>0, <2>1 DEF WaitEnds, PreviewTypeOK
    <3>2. CASE Connected(l)
      BY <3>1, <3>2 DEF Connected, PreviewState
    <3>3. CASE TimedOut(l)
      BY <3>1, <3>3 DEF TimedOut, PreviewState
    <3> QED
      BY <1>7, <3>2, <3>3
  <2>3. \A m \in Launch : called'[m] \in {called[m], NoLaunch}
    BY <1>0, <2>1 DEF PreviewTypeOK
  <2>4. \A m \in Launch : listens'[m] # NoPort => listens'[m] = listens[m] /\ called'[m] = called[m]
    BY <1>0, <2>1 DEF PreviewTypeOK, Alive
  <2> QED
    BY <1>0, <2>1, <2>2, <2>3, <2>4, HoldsLess, ListensKept
<1>8. CASE ServerExits \/ ServerKilled
  <2>1. /\ live' = [k \in Key |-> NoPreview] /\ UNCHANGED <<listens, reissued>>
        /\ called' = [m \in Launch |-> IF Alive(m) THEN called[m] ELSE NoLaunch]
    BY <1>8 DEF ServerExits, ServerKilled, Forget, children
  <2>2. \A o \in Key : live'[o].port = NoPort
    BY <2>1 DEF NoPreview
  <2>3. \A m \in Launch : called'[m] \in {called[m], NoLaunch}
    BY <2>1
  <2>4. \A m \in Launch : listens'[m] # NoPort => listens'[m] = listens[m] /\ called'[m] = called[m]
    BY <1>0, <2>1 DEF PreviewTypeOK, Alive
  <2> QED
    BY <1>0, <2>1, <2>2, <2>3, <2>4, HoldsLess, ListensKept
<1>9. CASE UNCHANGED previewVars
  BY <1>1, <1>9 DEF previewVars, children, previewHistory
<1> QED
  BY <1>0, <1>2, <1>3, <1>4, <1>5, <1>6, <1>7, <1>8, <1>9, ListenListens DEF PreviewNext

\* A port on which the server of one session listens is counted on by no other,
\* unless it was reissued.
THEOREM PortsAreOwn == PreviewSpec => []ListensInv
<1>1. PreviewInit => ListensInv
  BY PreviewAssumption DEF PreviewInit, ListensInv
<1>2. PreviewInv /\ ListensInv /\ [PreviewNext]_previewVars => ListensInv'
  BY ListensNext
<1> QED
  BY <1>1, <1>2, PreviewInductive, PTL DEF PreviewSpec

\* preview-manager.ts keeps every entry, launch and process of its type: what waits
\* or runs is known with its session and its port.
THEOREM PreviewsTyped == PreviewSpec => []PreviewTypeOK
<1>1. PreviewInv => PreviewTypeOK
  BY DEF PreviewInv
<1> QED
  BY <1>1, PreviewInductive, PTL

\* For any number of sessions, ports and launches, no process of a preview runs on
\* unstopped and unknown to its session's entry, except after overlapping first
\* starts and after the death of the server.
THEOREM NothingLeftRunning == PreviewSpec => []NoneLeftRunning
<1>1. PreviewInv => NoneLeftRunning
  BY DEF PreviewInv
<1> QED
  BY <1>1, PreviewInductive, PTL

\* For any number of sessions, ports and launches, what is shown as live is the
\* session's own process on the port that is shown, what is shown as starting will
\* be settled by a launch that still waits, and what answers through the proxy was
\* launched for the session unless its port was given to another or taken by a
\* server that had to move.
THEOREM ShownPreviewIsOwn == PreviewSpec => []ShownIsOwn
<1>1. PreviewInv /\ ListensInv => ShownIsOwn
  <2> SUFFICES ASSUME PreviewInv, ListensInv, NEW k \in Key, Shown(k)
               PROVE  /\ live[k].status = "starting" => live[k].child \in waiting
                      /\ k \notin outlived \cup overlapped =>
                           /\ live[k].child \in Launch \ signalled
                           /\ called[live[k].child] = [key |-> k, port |-> live[k].port]
                      /\ \A l \in Proxied(k) : called[l].key = k \/ live[k].port \in reissued
    BY DEF ShownIsOwn
  <2> USE PreviewAssumption DEF PreviewInv
  <2>1. live[k] \in PreviewState
    BY DEF PreviewTypeOK
  <2>2. live[k].status = "starting" => live[k].child \in waiting
    BY DEF StartingInv
  <2>3. ASSUME k \notin outlived \cup overlapped
        PROVE  /\ live[k].child \in Launch \ signalled
               /\ called[live[k].child] = [key |-> k, port |-> live[k].port]
    <3>1. live[k].child # NoLaunch
      <4>1. CASE live[k].status = "starting"
        BY <2>2, <4>1 DEF PreviewTypeOK
      <4>2. CASE live[k].status = "running"
        BY <2>3, <4>2 DEF RunningInv
      <4> QED
        BY <4>1, <4>2 DEF Shown
    <3> QED
      BY <2>1, <3>1 DEF ChildInv, PreviewState
  <2>4. ASSUME NEW l \in Proxied(k), live[k].port \notin reissued PROVE called[l].key = k
    <3>1. l \in Launch /\ listens[l] = live[k].port /\ listens[l] \in Port \ reissued
      BY <2>1, <2>4 DEF Proxied, ListeningOn, Shown, PreviewState
    <3>2. HoldsPort(k, listens[l])
      BY <3>1 DEF HoldsPort
    <3> QED
      BY <3>1, <3>2 DEF ListensInv
  <2> QED
    BY <2>2, <2>3, <2>4
<1> QED
  BY <1>1, PreviewInductive, PortsAreOwn, PTL
=============================================================================
