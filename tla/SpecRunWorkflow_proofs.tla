------------------------- MODULE SpecRunWorkflow_proofs -------------------------
(***************************************************************************)
(* Theorems about SpecRunWorkflow, for every plan and any number of        *)
(* signals and faults.                                                     *)
(*                                                                         *)
(* A pass over the nodes works on a copy of the statuses that signals      *)
(* outdate.  The inductive invariant says what remains true of the copy    *)
(* (Fresh) and of the nodes it no longer holds (Passed), and one lemma per *)
(* operator of the coroutine carries it to the next await.                 *)
(***************************************************************************)
EXTENDS SpecRunWorkflow, TLAPS, FiniteSetTheorems

Called == {"running", "done", "failed"}

\* What the invariants say of the statuses, with the activities run.
GoodStatuses(st, run, skip, start) ==
  /\ {n \in Node : st[n] = "running"} = InFlight(run) \cup ({start} \cap Node)
  /\ skip \subseteq {n \in Node : st[n] = "running"}
  /\ \A n \in Node : st[n] = "blocked" => \E d \in DependsOn[n] : st[d] # "done"
  /\ Topological => \A n \in Node : st[n] \in Called => IsDepsReady(n, st)

\* A node of the copy can only have been skipped since, and nothing that depends
\* on it was called.
Fresh(st, left) ==
  /\ \A n \in left : st[n] \in {"pending", "skipped"}
  /\ Topological => \A m \in left : \A n \in Node : m \in DependsOn[n] => st[n] \notin Called

\* Of the pending nodes outside the copy none has to be blocked, and none will
\* have to because of a node in the copy.
Passed(st, left) ==
  Topological => \A n \in Node \ left :
    st[n] = "pending" => DependsOn[n] \cap left = {} /\ ~HasDepsBlocked(n, st)

Control(p, st, left, start) ==
  /\ p = "starting" => start \in Node
  /\ p \notin {"starting", "over"} => start = NoNode
  /\ p \in {"blocking", "starting"} => Fresh(st, left)
  /\ p = "blocking" => Passed(st, left)
  /\ p = "waiting" => ~Topological

IInv ==
  /\ TypeOK
  /\ GoodStatuses(status, running, skipPending, starting)
  /\ Control(pc, status, visit, starting)

\* What a run of the coroutine to its next await has to establish.
Arrived(run, skip) ==
  /\ pc' \in PC /\ status' \in [Node -> NodeStatus]
  /\ visit' \subseteq Node /\ starting' \in Node \cup {NoNode}
  /\ GoodStatuses(status', run, skip, starting')
  /\ Control(pc', status', visit', starting')

-----------------------------------------------------------------------------
(* A nonempty set of nodes has a first one.                                 *)
LEMMA FirstExists ==
  ASSUME order \in [Node -> Nat], NEW S \in SUBSET Node, S # {}
  PROVE  \E n \in S : IsFirst(n, S)
<1> DEFINE upTo(n) == 0 .. order[n]
           T == {upTo(n) : n \in S}
<1>1. \A n \in Node : upTo(n) \subseteq Nat /\ IsFiniteSet(upTo(n))
  BY FS_Interval
<1>2. T \subseteq FiniteSubsetsOf(Nat) /\ T # {}
  BY <1>1 DEF FiniteSubsetsOf
<1>3. PICK x \in T : \A y \in T : <<y, x>> \notin StrictSubsetOrdering(Nat)
  <2> HIDE DEF T
  <2> QED BY <1>2, FS_StrictSubsetOrderingWellFounded, WFMin
<1>4. PICK n \in S : x = upTo(n) OBVIOUS
<1>5. ASSUME NEW m \in S, order[m] < order[n] PROVE FALSE
  <2>1. upTo(m) \subseteq upTo(n) /\ upTo(m) # upTo(n)
    <3>1. order[m] \in Nat /\ order[n] \in Nat OBVIOUS
    <3>2. order[n] \in upTo(n) /\ order[n] \notin upTo(m) BY <1>5, <3>1
    <3> QED BY <1>5, <3>1, <3>2
  <2>2. <<upTo(m), upTo(n)>> \in StrictSubsetOrdering(Nat)
    BY <1>1, <2>1 DEF StrictSubsetOrdering
  <2> QED BY <1>3, <1>4, <2>2
<1>6. \A m \in S : order[m] \in Nat /\ order[n] \in Nat OBVIOUS
<1> QED BY <1>5, <1>6 DEF IsFirst

(* When nothing executes and nothing can be called, a node is pending only  *)
(* if one of its dependencies failed or is blocked, or the plan is not      *)
(* listed in order: the first pending node depends on settled ones.         *)
LEMMA PendingIsStuck ==
  ASSUME order \in [Node -> Nat], Topological, WorkflowAssumption,
         NEW st \in [Node -> NodeStatus],
         \A n \in Node : st[n] # "running",
         \A n \in Pending(st) : ~IsDepsReady(n, st) /\ ~HasDepsBlocked(n, st)
  PROVE  Pending(st) = {}
<1> SUFFICES ASSUME Pending(st) # {} PROVE FALSE OBVIOUS
<1>1. PICK n \in Pending(st) : IsFirst(n, Pending(st)) BY FirstExists DEF Pending
<1>2. n \in Node /\ DependsOn[n] \subseteq Node BY DEF Pending, WorkflowAssumption
<1>3. \A d \in DependsOn[n] : st[d] # "pending"
  BY <1>1, <1>2 DEF IsFirst, Pending, Topological
<1>4. \A d \in DependsOn[n] : st[d] \in {"done", "skipped"}
  BY <1>1, <1>2, <1>3 DEF HasDepsBlocked, NodeStatus
<1> QED BY <1>1, <1>4 DEF IsDepsReady

-----------------------------------------------------------------------------
(* One lemma per operator of the coroutine.  The end of a pass is reached   *)
(* with something in flight, or with no pending node that could be moved.   *)
LEMMA EndOfPassArrives ==
  ASSUME WorkflowAssumption, TypeOK,
         NEW st \in [Node -> NodeStatus], NEW run, NEW skip,
         GoodStatuses(st, run, skip, NoNode),
         Topological /\ InFlight(run) = {} => Pending(st) = {},
         EndOfPass(st, run)
  PROVE  Arrived(run, skip)
<1>1. status' = st /\ visit' \subseteq Node /\ starting' = NoNode
  BY DEF EndOfPass, Await, Pending
<1>2. pc' \in {"racing", "waiting", "saving"} BY DEF EndOfPass, Await
<1>3. pc' = "waiting" => ~Topological BY DEF EndOfPass, Await
<1> QED BY <1>1, <1>2, <1>3 DEF Arrived, Control, PC

(* A node is called with its dependencies closed; what is left of the copy  *)
(* comes later, so that a called node depends on none of it.                *)
LEMMA DispatchPassArrives ==
  ASSUME WorkflowAssumption, TypeOK,
         NEW st \in [Node -> NodeStatus], NEW run, NEW skip, NEW left \in SUBSET Node,
         GoodStatuses(st, run, skip, NoNode), Fresh(st, left),
         \/ InFlight(run) # {}
         \/ /\ left = Pending(st)
            /\ Topological => \A n \in left : ~HasDepsBlocked(n, st),
         DispatchPass(st, run, left)
  PROVE  Arrived(run, skip)
<1> DEFINE ready == {n \in left : run[n] = "none" /\ IsDepsReady(n, st)}
<1>1. CASE ready = {} /\ EndOfPass(st, run)
  <2>1. ASSUME Topological, InFlight(run) = {} PROVE Pending(st) = {}
    <3>1. \A n \in Node : run[n] = "none" /\ st[n] # "running"
      BY <2>1 DEF InFlight, GoodStatuses, WorkflowAssumption
    <3>2. \A n \in Pending(st) : ~IsDepsReady(n, st) /\ ~HasDepsBlocked(n, st)
      BY <1>1, <2>1, <3>1 DEF Pending
    <3>3. order \in [Node -> Nat] BY DEF TypeOK, WorkflowAssumption
    <3> QED BY <2>1, <3>1, <3>2, <3>3, PendingIsStuck
  <2> QED BY <1>1, <2>1, EndOfPassArrives
<1>2. ASSUME NEW n \in ready, IsFirst(n, ready),
             Await("starting", [st EXCEPT ![n] = "running"], Behind(n, left), n)
      PROVE  Arrived(run, skip)
  <2>1. /\ pc' = "starting" /\ status' = [st EXCEPT ![n] = "running"]
        /\ visit' = Behind(n, left) /\ starting' = n /\ n \in Node /\ n # NoNode
    BY <1>2 DEF Await, WorkflowAssumption
  <2>2. status' \in [Node -> NodeStatus] /\ visit' \subseteq left
    BY <2>1 DEF NodeStatus, Behind
  <2>3. \A m \in Node : status'[m] = IF m = n THEN "running" ELSE st[m] BY <2>1
  <2>4. GoodStatuses(status', run, skip, starting')
    <3>1. {m \in Node : status'[m] = "running"} = InFlight(run) \cup ({starting'} \cap Node)
      BY <2>1, <2>3 DEF GoodStatuses, WorkflowAssumption
    <3>2. skip \subseteq {m \in Node : status'[m] = "running"}
      BY <2>3 DEF GoodStatuses
    <3>3. \A m \in Node : status'[m] = "blocked" => \E d \in DependsOn[m] : status'[d] # "done"
      BY <2>3 DEF GoodStatuses, WorkflowAssumption
    <3>4. ASSUME Topological, NEW m \in Node, status'[m] \in Called
          PROVE  IsDepsReady(m, status')
      <4>1. IsDepsReady(m, st) BY <1>2, <2>3, <3>4 DEF GoodStatuses
      <4>2. n \notin DependsOn[m]
        <5>1. CASE m = n BY <3>4, <5>1 DEF Topological, TypeOK, WorkflowAssumption
        <5>2. CASE m # n BY <2>3, <3>4, <5>2, n \in left DEF Fresh
        <5> QED BY <5>1, <5>2
      <4> QED BY <2>3, <4>1, <4>2 DEF IsDepsReady, WorkflowAssumption
    <3> QED BY <3>1, <3>2, <3>3, <3>4 DEF GoodStatuses
  <2>5. Fresh(status', visit')
    <3>1. n \notin visit'
      BY <2>1 DEF Behind, TypeOK, WorkflowAssumption
    <3>2. \A m \in visit' : status'[m] \in {"pending", "skipped"}
      BY <2>2, <2>3, <3>1 DEF Fresh
    <3>3. ASSUME Topological, NEW m \in visit', NEW w \in Node, m \in DependsOn[w]
          PROVE  status'[w] \notin Called
      <4>1. w # n
        BY <2>1, <3>3 DEF Topological, Behind, TypeOK, WorkflowAssumption
      <4> QED BY <2>2, <2>3, <3>3, <4>1 DEF Fresh
    <3> QED BY <3>2, <3>3 DEF Fresh
  <2> QED BY <2>1, <2>2, <2>4, <2>5 DEF Arrived, Control, PC, Notifying
<1> QED BY <1>1, <1>2 DEF DispatchPass

(* A pass starts from a copy of the pending nodes.                          *)
LEMMA CopyIsFresh ==
  ASSUME WorkflowAssumption, NEW st \in [Node -> NodeStatus], NEW run, NEW skip, NEW start,
         GoodStatuses(st, run, skip, start)
  PROVE  Fresh(st, Pending(st)) /\ Passed(st, Pending(st))
<1>1. \A m, n \in Node : Topological /\ st[m] = "pending" /\ m \in DependsOn[n] => st[n] \notin Called
  BY DEF GoodStatuses, IsDepsReady
<1> QED BY <1>1 DEF Fresh, Passed, Pending

(* A blocked node has a dependency that is not done; the pending nodes the  *)
(* pass left behind come earlier and do not depend on it.                   *)
LEMMA BlockPassArrives ==
  ASSUME WorkflowAssumption, TypeOK,
         NEW st \in [Node -> NodeStatus], NEW run, NEW skip, NEW left \in SUBSET Node,
         GoodStatuses(st, run, skip, NoNode), Fresh(st, left), Passed(st, left),
         BlockPass(st, run, left)
  PROVE  Arrived(run, skip)
<1> DEFINE stuck == {n \in left : HasDepsBlocked(n, st)}
<1>1. CASE stuck = {} /\ DispatchPass(st, run, Pending(st))
  <2>1. Topological => \A n \in Pending(st) : ~HasDepsBlocked(n, st)
    BY <1>1 DEF Passed, Pending
  <2>2. Fresh(st, Pending(st)) /\ Pending(st) \subseteq Node BY CopyIsFresh DEF Pending
  <2> QED BY <1>1, <2>1, <2>2, DispatchPassArrives
<1>2. ASSUME NEW n \in stuck, IsFirst(n, stuck),
             Await("blocking", [st EXCEPT ![n] = "blocked"], Behind(n, left), NoNode)
      PROVE  Arrived(run, skip)
  <2>1. /\ pc' = "blocking" /\ status' = [st EXCEPT ![n] = "blocked"]
        /\ visit' = Behind(n, left) /\ starting' = NoNode /\ n \in Node /\ n \in left
    BY <1>2 DEF Await
  <2>2. status' \in [Node -> NodeStatus] /\ visit' \subseteq left
    BY <2>1 DEF NodeStatus, Behind
  <2>3. \A m \in Node : status'[m] = IF m = n THEN "blocked" ELSE st[m] BY <2>1
  <2>4. st[n] \in {"pending", "skipped"} BY <2>1 DEF Fresh
  <2>5. order \in [Node -> Nat] BY DEF TypeOK, WorkflowAssumption
  <2>6. GoodStatuses(status', run, skip, starting')
    <3>1. {m \in Node : status'[m] = "running"} = {m \in Node : st[m] = "running"}
      BY <2>3, <2>4
    <3>2. \E d \in DependsOn[n] : st[d] # "done" BY <1>2 DEF HasDepsBlocked
    <3>3. \A m \in Node : status'[m] = "blocked" => \E d \in DependsOn[m] : status'[d] # "done"
      BY <2>3, <3>2 DEF GoodStatuses, WorkflowAssumption
    <3>4. ASSUME Topological, NEW m \in Node, status'[m] \in Called
          PROVE  IsDepsReady(m, status')
      <4>1. m # n /\ st[m] \in Called BY <2>3, <3>4 DEF Called
      <4>2. IsDepsReady(m, st) /\ n \notin DependsOn[m]
        BY <2>1, <3>4, <4>1 DEF GoodStatuses, Fresh
      <4> QED BY <2>3, <4>2 DEF IsDepsReady, WorkflowAssumption
    <3> QED BY <2>1, <3>1, <3>3, <3>4 DEF GoodStatuses
  <2>7. n \notin visit' /\ \A m \in visit' : order[n] < order[m]
    <3>1. \A m \in Node : order[m] \in Nat BY <2>5
    <3>2. \A m \in Behind(n, left) : order[n] < order[m] BY <2>1, <3>1 DEF Behind
    <3> QED BY <2>1, <3>1, <3>2
  <2>8. Fresh(status', visit')
    BY <2>2, <2>3, <2>7 DEF Fresh, Called
  <2>9. ASSUME Topological, NEW m \in Node \ visit', status'[m] = "pending"
        PROVE  DependsOn[m] \cap visit' = {} /\ ~HasDepsBlocked(m, status')
    <3>1. m # n /\ st[m] = "pending" BY <2>3, <2>9
    <3>2. CASE m \notin left
      <4>1. DependsOn[m] \cap left = {} /\ ~HasDepsBlocked(m, st)
        BY <2>9, <3>1, <3>2 DEF Passed
      <4> QED BY <2>1, <2>2, <2>3, <4>1 DEF HasDepsBlocked, WorkflowAssumption
    <3>3. CASE m \in left
      <4>1. order[m] < order[n]
        <5>1. order[m] \in Nat /\ order[n] \in Nat BY <2>1, <2>5
        <5>2. ~(order[m] > order[n]) BY <2>1, <2>9, <3>3 DEF Behind
        <5>3. order[m] # order[n]
          <6>1. order \in Orders BY DEF TypeOK
          <6> QED BY <2>1, <3>1, <6>1 DEF WorkflowAssumption
        <5> QED BY <5>1, <5>2, <5>3
      <4>2. ~HasDepsBlocked(m, st)
        BY <1>2, <2>5, <3>3, <4>1 DEF IsFirst
      <4>3. n \notin DependsOn[m] /\ DependsOn[m] \cap visit' = {}
        <5>1. \A d \in DependsOn[m] : d \in Node /\ order[d] < order[m]
          BY <2>9 DEF Topological, WorkflowAssumption
        <5>2. \A d \in DependsOn[m] : order[d] \in Nat BY <2>5, <5>1
        <5>3. order[m] \in Nat /\ order[n] \in Nat BY <2>1, <2>5
        <5>4. \A d \in visit' : d \in Node /\ order[d] \in Nat BY <2>2, <2>5
        <5> QED BY <2>7, <4>1, <5>1, <5>2, <5>3, <5>4
      <4> QED BY <2>3, <4>2, <4>3 DEF HasDepsBlocked, WorkflowAssumption
    <3> QED BY <3>2, <3>3
  <2>10. Passed(status', visit') BY <2>9 DEF Passed
  <2> QED BY <2>1, <2>2, <2>6, <2>8, <2>10 DEF Arrived, Control, PC, Notifying
<1> QED BY <1>1, <1>2 DEF BlockPass

LEMMA LoopTopArrives ==
  ASSUME WorkflowAssumption, TypeOK,
         NEW st \in [Node -> NodeStatus], NEW run, NEW skip,
         GoodStatuses(st, run, skip, NoNode), LoopTop(st, run)
  PROVE  Arrived(run, skip)
<1>1. CASE Await("saving", st, {}, NoNode)
  BY <1>1 DEF Await, Arrived, Control, PC
<1>2. CASE BlockPass(st, run, Pending(st))
  <2>1. Fresh(st, Pending(st)) /\ Passed(st, Pending(st)) /\ Pending(st) \subseteq Node
    BY CopyIsFresh DEF Pending
  <2> QED BY <1>2, <2>1, BlockPassArrives
<1> QED BY <1>1, <1>2 DEF LoopTop

-----------------------------------------------------------------------------
(* The inductive invariant.                                                 *)
LEMMA InitEstablishes == ASSUME WorkflowAssumption, Init PROVE IInv
<1>1. TypeOK
  <2>1. signals \in 0..MaxSignals /\ faults \in 0..MaxFaults BY DEF Init, WorkflowAssumption
  <2>2. status \in [Node -> NodeStatus] /\ running \in [Node -> Activity]
    BY DEF Init, NodeStatus, Activity
  <2> QED BY <2>1, <2>2 DEF Init, TypeOK, PC
<1>2. GoodStatuses(status, running, skipPending, starting)
  BY DEF Init, GoodStatuses, InFlight, Called, WorkflowAssumption
<1>3. Control(pc, status, visit, starting) BY DEF Init, Control
<1> QED BY <1>1, <1>2, <1>3 DEF IInv

(* An await that returns: the rest of the state changes as the action says. *)
LEMMA ArrivesKeeps ==
  ASSUME IInv, Arrived(running', skipPending'), order' = order,
         running' \in [Node -> Activity], skipPending' \subseteq Node,
         UNCHANGED <<cancelled, outcome, bounds>>
  PROVE  IInv'
<1>1. TypeOK' BY DEF IInv, TypeOK, Arrived, bounds
<1>2. Topological' = Topological BY DEF Topological
<1>3. GoodStatuses(status, running, skipPending, starting)'
  BY <1>2 DEF Arrived, GoodStatuses, InFlight, IsDepsReady
<1>4. Control(pc, status, visit, starting)'
  BY <1>2 DEF Arrived, Control, Fresh, Passed, HasDepsBlocked
<1> QED BY <1>1, <1>3, <1>4 DEF IInv

(* Steps of activities and the end: what is waited for and the statuses     *)
(* stay, and an activity in flight stays in flight.                         *)
LEMMA QuietKeeps ==
  ASSUME IInv, UNCHANGED <<order, status, visit, starting, skipPending>>,
         running' \in [Node -> Activity], InFlight(running') = InFlight(running),
         pc' = pc \/ pc' = "over",
         cancelled' \in BOOLEAN, outcome' \in {"none", "done", "failed", "cancelled", "thrown"},
         signals' \in 0..MaxSignals, faults' \in 0..MaxFaults
  PROVE  IInv'
<1>1. TypeOK' BY DEF IInv, TypeOK, PC
<1>2. Topological' = Topological BY DEF Topological
<1>3. GoodStatuses(status, running, skipPending, starting)'
  BY <1>2 DEF IInv, GoodStatuses, InFlight, IsDepsReady
<1>4. Control(pc, status, visit, starting)'
  BY <1>2 DEF IInv, Control, Fresh, Passed, HasDepsBlocked
<1> QED BY <1>1, <1>3, <1>4 DEF IInv

LEMMA ReturnKeeps ==
  ASSUME WorkflowAssumption, IInv, Planned \/ BlockedNotified \/ ResultNotified \/ WakeUp
  PROVE  IInv'
<1> DEFINE st == status
<1>1. UNCHANGED <<order, running, skipPending, cancelled, outcome, bounds>>
  BY DEF Planned, BlockedNotified, ResultNotified, WakeUp
<1>2. /\ TypeOK /\ status \in [Node -> NodeStatus] /\ visit \subseteq Node
      /\ GoodStatuses(status, running, skipPending, starting)
  BY DEF IInv, TypeOK
<1>3. pc \in {"planning", "blocking", "notifying", "waiting"} /\ starting = NoNode
  BY DEF Planned, BlockedNotified, ResultNotified, WakeUp, IInv, Control
<1>4. Arrived(running, skipPending)
  <2>1. CASE LoopTop(status, running) BY <1>2, <1>3, <2>1, LoopTopArrives
  <2>2. CASE pc = "blocking" /\ BlockPass(status, running, visit)
    <3>1. Fresh(status, visit) /\ Passed(status, visit) BY <2>2 DEF IInv, Control
    <3> QED BY <1>2, <1>3, <2>2, <3>1, BlockPassArrives
  <2> QED BY <2>1, <2>2 DEF Planned, BlockedNotified, ResultNotified, WakeUp
<1>5. running' = running /\ skipPending' = skipPending BY <1>1
<1>6. Arrived(running', skipPending') BY <1>4, <1>5
<1>7. running' \in [Node -> Activity] /\ skipPending' \subseteq Node BY <1>2, <1>5 DEF TypeOK
<1> QED BY <1>1, <1>6, <1>7, ArrivesKeeps

(* The node announced as running is in flight from now on.                  *)
LEMMA CallKeeps == ASSUME WorkflowAssumption, IInv, CallActivity PROVE IInv'
<1> DEFINE called == [running EXCEPT ![starting] = "executing"]
<1>1. /\ pc = "starting" /\ running' = called /\ DispatchPass(status, called, visit)
      /\ UNCHANGED <<order, skipPending, cancelled, outcome, bounds>>
  BY DEF CallActivity
<1>2. /\ TypeOK /\ status \in [Node -> NodeStatus] /\ visit \subseteq Node
      /\ running \in [Node -> Activity] /\ starting \in Node
      /\ GoodStatuses(status, running, skipPending, starting) /\ Fresh(status, visit)
  BY <1>1 DEF IInv, TypeOK, Control
<1>3. called \in [Node -> Activity] BY <1>2 DEF Activity
<1>4. InFlight(called) = InFlight(running) \cup {starting}
  BY <1>2 DEF InFlight
<1>5. GoodStatuses(status, called, skipPending, NoNode)
  <2> HIDE DEF called
  <2>1. InFlight(running) \cup ({starting} \cap Node) = InFlight(called) \cup ({NoNode} \cap Node)
    BY <1>2, <1>4 DEF WorkflowAssumption
  <2> QED BY <1>2, <2>1 DEF GoodStatuses
<1>6. Arrived(called, skipPending)
  <2> HIDE DEF called
  <2> QED BY <1>1, <1>2, <1>4, <1>5, DispatchPassArrives
<1>7. Arrived(running', skipPending') BY <1>1, <1>6
<1> QED BY <1>1, <1>2, <1>3, <1>7, ArrivesKeeps DEF IInv, TypeOK

(* The result of a node: nothing that was called depends on a node still    *)
(* running, so that the status it takes disturbs no dependent.              *)
LEMMA ResultKeeps ==
  ASSUME WorkflowAssumption, IInv, NEW n \in Node, HandleResult(n) PROVE IInv'
<1> DEFINE s == IF n \in skipPending THEN "skipped" ELSE running[n]
<1>1. /\ pc = "racing" /\ running[n] \in {"done", "failed"}
      /\ running' = [running EXCEPT ![n] = "none"] /\ skipPending' = skipPending \ {n}
      /\ pc' = "notifying" /\ status' = Settle(n) /\ visit' = {} /\ starting' = NoNode
      /\ UNCHANGED <<order, cancelled, outcome, bounds>>
  BY DEF HandleResult, Await
<1>2. /\ status \in [Node -> NodeStatus] /\ running \in [Node -> Activity]
      /\ skipPending \subseteq Node /\ starting = NoNode
      /\ GoodStatuses(status, running, skipPending, starting)
  BY <1>1 DEF IInv, TypeOK, Control
<1>3. s \in {"skipped", "done", "failed"} BY <1>1
<1>4. \A m \in Node : status'[m] =
         IF m = n THEN s
         ELSE IF s = "done" /\ status[m] = "blocked" /\ n \in DependsOn[m] THEN "pending"
         ELSE status[m]
  BY <1>1 DEF Settle
<1>5. status' \in [Node -> NodeStatus]
  <2> HIDE DEF s
  <2>1. s \in NodeStatus /\ "pending" \in NodeStatus BY <1>3 DEF NodeStatus
  <2>2. status' = [m \in Node |-> status'[m]] BY <1>1 DEF Settle
  <2>3. \A m \in Node : status'[m] \in NodeStatus BY <1>2, <1>4, <2>1
  <2> QED BY <2>2, <2>3
<1>6. status[n] = "running" BY <1>1, <1>2 DEF GoodStatuses, InFlight
<1> HIDE DEF s
<1>7. GoodStatuses(status', running', skipPending', starting')
  <2>1. InFlight(running') = InFlight(running) \ {n}
    BY <1>1, <1>2 DEF InFlight
  <2>2. \A m \in Node : status'[m] = "running" <=> m # n /\ status[m] = "running"
    BY <1>3, <1>4
  <2>3. {m \in Node : status'[m] = "running"} = InFlight(running') \cup ({starting'} \cap Node)
    BY <1>1, <1>2, <2>1, <2>2 DEF GoodStatuses, WorkflowAssumption
  <2>4. skipPending' \subseteq {m \in Node : status'[m] = "running"}
    BY <1>1, <1>2, <2>2 DEF GoodStatuses
  <2>5. ASSUME NEW m \in Node, status'[m] = "blocked"
        PROVE  \E d \in DependsOn[m] : status'[d] # "done"
    <3>1. status[m] = "blocked" /\ ~(s = "done" /\ n \in DependsOn[m])
      BY <1>3, <1>4, <2>5
    <3>2. PICK d \in DependsOn[m] : status[d] # "done" BY <1>2, <3>1 DEF GoodStatuses
    <3>3. d \in Node BY DEF WorkflowAssumption
    <3>4. status'[d] # "done" BY <1>4, <3>1, <3>2, <3>3
    <3> QED BY <3>4
  <2>6. ASSUME Topological, NEW m \in Node, status'[m] \in Called
        PROVE  IsDepsReady(m, status')
    <3>1. status[m] \in Called BY <1>4, <1>6, <2>6 DEF Called
    <3>2. IsDepsReady(m, status) BY <1>2, <2>6, <3>1 DEF GoodStatuses
    <3> QED BY <1>4, <1>6, <3>2 DEF IsDepsReady, WorkflowAssumption
  <2> QED BY <2>3, <2>4, <2>5, <2>6 DEF GoodStatuses
<1>8. Arrived(running', skipPending')
  BY <1>1, <1>5, <1>7 DEF Arrived, Control, PC, Notifying
<1>9. running' \in [Node -> Activity] /\ skipPending' \subseteq Node
  BY <1>1, <1>2 DEF Activity
<1> QED BY <1>1, <1>8, <1>9, ArrivesKeeps

(* A failed node has its dependencies closed and is in no copy that is      *)
(* walked, nor does it depend on a node in one: it may wait again.          *)
LEMMA RetryKeeps ==
  ASSUME WorkflowAssumption, IInv, NEW n \in Node, RetryNode(n) PROVE IInv'
<1>1. /\ status[n] = "failed" /\ status' = [status EXCEPT ![n] = "pending"]
      /\ signals < MaxSignals /\ signals' = signals + 1
      /\ UNCHANGED <<pc, order, visit, starting, running, skipPending, cancelled, outcome, faults>>
  BY DEF RetryNode, Signal
<1>2. /\ TypeOK /\ status \in [Node -> NodeStatus]
      /\ GoodStatuses(status, running, skipPending, starting)
      /\ Control(pc, status, visit, starting)
  BY DEF IInv, TypeOK
<1>3. \A m \in Node : status'[m] = IF m = n THEN "pending" ELSE status[m] BY <1>1, <1>2
<1>4. signals' \in 0..MaxSignals BY <1>1, <1>2 DEF TypeOK, WorkflowAssumption
<1>5. TypeOK'
  <2>1. status' \in [Node -> NodeStatus] BY <1>1, <1>2 DEF NodeStatus
  <2> QED BY <1>1, <1>2, <1>4, <2>1 DEF TypeOK
<1>6. Topological' = Topological BY <1>1 DEF Topological
<1>7. GoodStatuses(status', running, skipPending, starting)
  <2>1. {m \in Node : status'[m] = "running"} = {m \in Node : status[m] = "running"}
    BY <1>1, <1>3
  <2>2. \A m \in Node : status'[m] = "blocked" => \E d \in DependsOn[m] : status'[d] # "done"
    BY <1>1, <1>2, <1>3 DEF GoodStatuses, WorkflowAssumption
  <2>3. ASSUME Topological, NEW m \in Node, status'[m] \in Called
        PROVE  IsDepsReady(m, status')
    <3>1. IsDepsReady(m, status) BY <1>2, <1>3, <2>3 DEF GoodStatuses, Called
    <3> QED BY <1>1, <1>3, <3>1 DEF IsDepsReady, WorkflowAssumption
  <2> QED BY <1>2, <2>1, <2>2, <2>3 DEF GoodStatuses
<1>8. ASSUME Fresh(status, visit) PROVE Fresh(status', visit)
  BY <1>1, <1>2, <1>3, <1>8 DEF Fresh, Called, TypeOK
<1>9. ASSUME pc = "blocking" PROVE Passed(status', visit)
  <2>1. Fresh(status, visit) /\ Passed(status, visit) BY <1>2, <1>9 DEF Control
  <2>2. ASSUME Topological, NEW m \in Node \ visit, status'[m] = "pending"
        PROVE  DependsOn[m] \cap visit = {} /\ ~HasDepsBlocked(m, status')
    <3>1. CASE m = n
      <4>1. DependsOn[n] \cap visit = {} BY <1>1, <2>1, <2>2 DEF Fresh, Called
      <4>2. IsDepsReady(n, status) BY <1>1, <1>2, <2>2 DEF GoodStatuses, Called
      <4> QED BY <1>1, <1>3, <3>1, <4>1, <4>2 DEF IsDepsReady, HasDepsBlocked, WorkflowAssumption
    <3>2. CASE m # n
      <4>1. DependsOn[m] \cap visit = {} /\ ~HasDepsBlocked(m, status)
        BY <1>3, <2>1, <2>2, <3>2 DEF Passed
      <4> QED BY <1>3, <4>1 DEF HasDepsBlocked, WorkflowAssumption
    <3> QED BY <3>1, <3>2
  <2> QED BY <2>2 DEF Passed
<1>10. Control(pc, status', visit, starting) BY <1>2, <1>8, <1>9 DEF Control
<1>11. GoodStatuses(status, running, skipPending, starting)'
  BY <1>1, <1>6, <1>7 DEF GoodStatuses, InFlight, IsDepsReady
<1>12. Control(pc, status, visit, starting)'
  BY <1>1, <1>6, <1>10 DEF Control, Fresh, Passed, HasDepsBlocked
<1> QED BY <1>5, <1>11, <1>12 DEF IInv

(* A skipped node closes dependencies and is called by nobody, whatever copy *)
(* still holds it.                                                           *)
LEMMA SkipKeeps ==
  ASSUME WorkflowAssumption, IInv, NEW n \in Node, SkipNode(n) PROVE IInv'
<1>1. /\ signals < MaxSignals /\ signals' = signals + 1
      /\ UNCHANGED <<pc, order, visit, starting, running, cancelled, outcome, faults>>
  BY DEF SkipNode, Signal
<1>2. /\ TypeOK /\ status \in [Node -> NodeStatus]
      /\ GoodStatuses(status, running, skipPending, starting)
      /\ Control(pc, status, visit, starting)
  BY DEF IInv, TypeOK
<1>3. signals' \in 0..MaxSignals BY <1>1, <1>2 DEF TypeOK, WorkflowAssumption
<1>4. Topological' = Topological BY <1>1 DEF Topological
<1>5. CASE /\ status[n] = "running" /\ skipPending' = skipPending \cup {n}
           /\ UNCHANGED status
  <2>1. TypeOK' BY <1>1, <1>2, <1>3, <1>5 DEF TypeOK
  <2>2. GoodStatuses(status, running, skipPending, starting)'
    BY <1>1, <1>2, <1>4, <1>5 DEF GoodStatuses, InFlight, IsDepsReady
  <2>3. Control(pc, status, visit, starting)'
    BY <1>1, <1>2, <1>4, <1>5 DEF Control, Fresh, Passed, HasDepsBlocked
  <2> QED BY <2>1, <2>2, <2>3 DEF IInv
<1>6. CASE /\ status[n] \in {"pending", "failed", "blocked"}
           /\ status' = [status EXCEPT ![n] = "skipped"] /\ UNCHANGED skipPending
  <2>1. \A m \in Node : status'[m] = IF m = n THEN "skipped" ELSE status[m] BY <1>2, <1>6
  <2>2. TypeOK'
    <3>1. status' \in [Node -> NodeStatus] BY <1>2, <1>6 DEF NodeStatus
    <3> QED BY <1>1, <1>2, <1>3, <1>6, <3>1 DEF TypeOK
  <2>3. GoodStatuses(status', running, skipPending, starting)
    <3>1. {m \in Node : status'[m] = "running"} = {m \in Node : status[m] = "running"}
      BY <1>6, <2>1
    <3>2. \A m \in Node : status'[m] = "blocked" => \E d \in DependsOn[m] : status'[d] # "done"
      BY <1>2, <2>1 DEF GoodStatuses, WorkflowAssumption
    <3>3. ASSUME Topological, NEW m \in Node, status'[m] \in Called
          PROVE  IsDepsReady(m, status')
      <4>1. IsDepsReady(m, status) BY <1>2, <2>1, <3>3 DEF GoodStatuses, Called
      <4> QED BY <2>1, <4>1 DEF IsDepsReady, WorkflowAssumption
    <3> QED BY <1>2, <3>1, <3>2, <3>3 DEF GoodStatuses
  <2>4. ASSUME Fresh(status, visit) PROVE Fresh(status', visit)
    BY <1>2, <2>1, <2>4 DEF Fresh, Called, TypeOK
  <2>5. ASSUME Passed(status, visit) PROVE Passed(status', visit)
    <3>1. \A m \in Node : HasDepsBlocked(m, status') => HasDepsBlocked(m, status)
      BY <2>1 DEF HasDepsBlocked, WorkflowAssumption
    <3> QED BY <2>1, <2>5, <3>1 DEF Passed
  <2>6. Control(pc, status', visit, starting) BY <1>2, <2>4, <2>5 DEF Control
  <2>7. GoodStatuses(status, running, skipPending, starting)'
    BY <1>1, <1>4, <1>6, <2>3 DEF GoodStatuses, InFlight, IsDepsReady
  <2>8. Control(pc, status, visit, starting)'
    BY <1>1, <1>4, <2>6 DEF Control, Fresh, Passed, HasDepsBlocked
  <2> QED BY <2>2, <2>7, <2>8 DEF IInv
<1> QED BY <1>5, <1>6 DEF SkipNode

LEMMA OtherStepsKeep ==
  ASSUME WorkflowAssumption, IInv, Finish \/ PlanFailed \/ Throw \/ CancelRun \/ \E n \in Node : ExecuteNode(n)
  PROVE  IInv'
<1>1. /\ UNCHANGED <<order, status, visit, starting, skipPending>>
      /\ pc' = pc \/ pc' = "over"
  BY DEF Finish, PlanFailed, Throw, CancelRun, ExecuteNode, PassReview, ReturnResult, FailActivity,
         loop, bounds
<1>2. TypeOK BY DEF IInv
<1>3. running' \in [Node -> Activity] /\ InFlight(running') = InFlight(running)
  <2>1. CASE UNCHANGED running BY <1>2, <2>1 DEF TypeOK
  <2>2. ASSUME NEW n \in Node, ExecuteNode(n)
        PROVE  running' \in [Node -> Activity] /\ InFlight(running') = InFlight(running)
    <3>1. running[n] # "none"
      BY <2>2 DEF ExecuteNode, PassReview, ReturnResult, FailActivity
    <3>2. PICK a \in {"reviewed", "done", "failed"} : running' = [running EXCEPT ![n] = a]
      BY <2>2 DEF ExecuteNode, PassReview, ReturnResult, FailActivity
    <3> QED BY <1>2, <3>1, <3>2 DEF TypeOK, Activity, InFlight
  <2> QED BY <2>1, <2>2 DEF Finish, PlanFailed, Throw, CancelRun
<1>4. cancelled' \in BOOLEAN /\ outcome' \in {"none", "done", "failed", "cancelled", "thrown"}
  BY <1>2 DEF TypeOK, Finish, PlanFailed, Throw, CancelRun, ExecuteNode, PassReview,
              ReturnResult, FailActivity
<1>5. signals' \in 0..MaxSignals /\ faults' \in 0..MaxFaults
  BY <1>2 DEF TypeOK, WorkflowAssumption, Finish, PlanFailed, Throw, CancelRun, Signal, ExecuteNode,
              PassReview, ReturnResult, FailActivity, bounds
<1> QED BY <1>1, <1>3, <1>4, <1>5, QuietKeeps

LEMMA NextKeeps == ASSUME WorkflowAssumption, IInv, [Next]_vars PROVE IInv'
<1>1. CASE UNCHANGED vars
  <2>1. IInv /\ running' \in [Node -> Activity] /\ InFlight(running') = InFlight(running)
    BY <1>1 DEF IInv, TypeOK, vars
  <2> QED BY <1>1, <2>1, QuietKeeps DEF IInv, TypeOK, vars
<1>2. CASE Workflow
  BY <1>2, ReturnKeeps, CallKeeps, ResultKeeps, OtherStepsKeep DEF Workflow
<1>3. CASE Throw \/ CancelRun \/ \E n \in Node : ExecuteNode(n) BY <1>3, OtherStepsKeep
<1>4. CASE \E n \in Node : RetryNode(n) \/ SkipNode(n) BY <1>4, RetryKeeps, SkipKeeps
<1> QED BY <1>1, <1>2, <1>3, <1>4 DEF Next

(* The invariant the theorems below follow from.                            *)
THEOREM Invariance == Spec => []IInv
<1>1. Init => IInv BY WorkflowAssumption, InitEstablishes
<1>2. IInv /\ [Next]_vars => IInv' BY WorkflowAssumption, NextKeeps
<1> QED BY <1>1, <1>2, PTL DEF Spec

(* Every variable stays within its set.                                     *)
THEOREM TypeCorrect == Spec => []TypeOK
<1>1. IInv => TypeOK BY DEF IInv
<1> QED BY <1>1, Invariance, PTL

(* What is shown as running executes, has a result nobody took, or is about *)
(* to be called.                                                            *)
THEOREM RunningIsInFlight == Spec => []InFlightIsRunning
<1>1. IInv => InFlightIsRunning BY DEF IInv, GoodStatuses, InFlightIsRunning
<1> QED BY <1>1, Invariance, PTL

(* A node is blocked only while a dependency of it is not done.             *)
THEOREM NobodyStaysBlocked == Spec => []BlockedWaits
<1>1. IInv => BlockedWaits BY DEF IInv, GoodStatuses, BlockedWaits
<1> QED BY <1>1, Invariance, PTL

(* In a plan listed in order a node is called behind its dependencies only. *)
THEOREM CalledInOrder == Spec => []DependenciesFirst
<1>1. IInv => DependenciesFirst
  BY DEF IInv, GoodStatuses, DependenciesFirst, IsDepsReady, Called
<1> QED BY <1>1, Invariance, PTL

(* With such a plan the workflow never waits for a signal.                  *)
THEOREM NeverStuckInOrder == Spec => []WaitsOnlyOutOfOrder
<1>1. IInv => WaitsOnlyOutOfOrder BY DEF IInv, Control, WaitsOnlyOutOfOrder
<1> QED BY <1>1, Invariance, PTL
=============================================================================
