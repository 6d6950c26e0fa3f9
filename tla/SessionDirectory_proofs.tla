------------------------ MODULE SessionDirectory_proofs ------------------------
(***************************************************************************)
(* Theorems of SessionDirectory, for any number of sessions, versions,     *)
(* commands, crashes and failing calls: type correctness, the actor behind *)
(* every session shown as unfinished, and snapshots that only edits take   *)
(* back.                                                                   *)
(***************************************************************************)
EXTENDS SessionDirectory, TLAPS

\* An actor answers for the session, its Start is under way, or it is known to
\* be gone.
Served(s) == Live(s) \/ start[s] \in {"created", "boot"} \/ s \in gone

\* ShownIsServed while the recovery is on its way: what it has not visited yet
\* is the only exception.
ShownOrToDo ==
  \A s \in Session : server # "down" /\ row[s] \in Active => Served(s) \/ (server = "recovering" /\ s \in todo)

\* Whoever may still write the row is in the map, inside Start, or was stopped.
ActorServed ==
  \A s \in Session : /\ actor[s] \in {"plan", "run", "resumed", "settle", "idle"} => entry[s] \/ start[s] = "boot"
                     /\ actor[s] = "plan" => start[s] = "boot"
                     /\ actor[s] = "leaving" => s \in gone

HasGraph == {"run", "resumed", "settle", "idle", "leaving"}
ActorHasGraph == \A s \in Session : actor[s] \in HasGraph => mem[s] # NoGraph

\* Before there is a plan nothing was saved or loaded; nothing is loaded, and
\* nobody runs, before a recovery has begun.
NothingYet ==
  /\ \A s \in Session : start[s] \in {"new", "created"} \/ actor[s] = "plan" => snap[s] = NoGraph /\ loaded[s] = NoGraph
  /\ \A s \in Session : start[s] \in {"new", "created"} => actor[s] = "none"
  /\ server # "up" => \A s \in Session : loaded[s] = NoGraph

\* Neither the snapshot nor what a request has loaded is newer than the graph
\* of the actor that may still save it.
NothingNewer ==
  \A s \in Session : actor[s] \in HasGraph =>
    /\ snap[s] # NoGraph => snap[s] <= mem[s]
    /\ loaded[s] # NoGraph => loaded[s] <= mem[s]

IndInv ==
  /\ TypeOK /\ ActorHasGraph /\ ActorServed /\ ShownOrToDo
  /\ NothingYet /\ NothingNewer

-----------------------------------------------------------------------------
LEMMA InitHolds == Init => IndInv
BY DirectoryAssumption DEF Init, IndInv, TypeOK, ActorHasGraph, HasGraph, NothingYet, NothingNewer,
   ActorServed, ShownOrToDo, Served, Live, Active, RowStatus, Version

\* One step per action; each leaf expands the action and the part only.
LEMMA TypeStep ==
  ASSUME TypeOK, ActorHasGraph, [Next]_vars
  PROVE  TypeOK'
<1> USE DirectoryAssumption DEF vars, volatile, counters, Fault, Forget, Saves, DeletesRow,
       ReleaseLock, NoActor, GiveUp, Ticks, RecoveredGraph, Active, TypeOK, Version,
       RowStatus, Outcome, ActorHasGraph, HasGraph
<1>1. ASSUME NEW s \in Session, Plan(s) PROVE TypeOK'
  BY <1>1 DEF Plan
<1>2. ASSUME NEW s \in Session, Work(s) PROVE TypeOK'
  BY <1>2 DEF Work
<1>3. ASSUME NEW s \in Session, Settle(s) PROVE TypeOK'
  BY <1>3 DEF Settle
<1>4. ASSUME NEW s \in Session, Stall(s) PROVE TypeOK'
  BY <1>4 DEF Stall
<1>5. ASSUME NEW s \in Session, SaveSettled(s) PROVE TypeOK'
  BY <1>5 DEF SaveSettled
<1>6. ASSUME NEW s \in Session, ActorDies(s) PROVE TypeOK'
  BY <1>6 DEF ActorDies
<1>7. ASSUME NEW s \in Session, Leave(s) PROVE TypeOK'
  BY <1>7 DEF Leave
<1>8. ASSUME NEW s \in Session, CreateRow(s) PROVE TypeOK'
  BY <1>8 DEF CreateRow
<1>9. ASSUME NEW s \in Session, Lock(s) PROVE TypeOK'
  BY <1>9 DEF Lock
<1>10. ASSUME NEW s \in Session, Insert(s) PROVE TypeOK'
  BY <1>10 DEF Insert
<1>11. ASSUME NEW s \in Session, BootFails(s) PROVE TypeOK'
  BY <1>11 DEF BootFails
<1>12. ASSUME NEW s \in Session, RequestDelete(s) PROVE TypeOK'
  BY <1>12 DEF RequestDelete
<1>13. ASSUME NEW s \in Session, Stop(s) PROVE TypeOK'
  <2>1. \/ actor' = [actor EXCEPT ![s] = "leaving"] /\ mem' = mem
        \/ actor' = [actor EXCEPT ![s] = "none"] /\ mem' = [mem EXCEPT ![s] = NoGraph]
        \/ UNCHANGED <<actor, mem>>
    BY <1>13 DEF Stop
  <2>2. /\ actor' \in [Session -> {"none", "plan", "run", "resumed", "settle", "idle", "leaving"}]
        /\ mem' \in [Session -> Version \cup {NoGraph}]
    BY <2>1
  <2>3. \/ entry' = [entry EXCEPT ![s] = FALSE] /\ queued' = [queued EXCEPT ![s] = FALSE]
        \/ UNCHANGED <<entry, queued>>
    BY <1>13 DEF Stop
  <2>4. entry' \in [Session -> BOOLEAN] /\ queued' \in [Session -> BOOLEAN]
    BY <2>3
  <2>5. /\ del' = [del EXCEPT ![s] = "delete"] /\ gone' \in {gone, gone \cup {s}}
        /\ UNCHANGED <<server, todo, row, snap, lock, start, loaded, wakes, crashes, faults>>
    BY <1>13 DEF Stop
  <2> QED
    BY <2>2, <2>4, <2>5
<1>14. ASSUME NEW s \in Session, Delete(s) PROVE TypeOK'
  BY <1>14 DEF Delete
<1>15. ASSUME NEW s \in Session, DeleteFails(s) PROVE TypeOK'
  BY <1>15 DEF DeleteFails
<1>16. ASSUME NEW s \in Session, Skip(s) PROVE TypeOK'
  BY <1>16 DEF Skip
<1>17. ASSUME NEW s \in Session, Restore(s) PROVE TypeOK'
  BY <1>17 DEF Restore
<1>18. ASSUME NEW s \in Session, RestoreFails(s) PROVE TypeOK'
  BY <1>18 DEF RestoreFails
<1>19. ASSUME NEW s \in Session, Send(s) PROVE TypeOK'
  BY <1>19 DEF Send
<1>20. ASSUME NEW s \in Session, TakeUp(s) PROVE TypeOK'
  BY <1>20 DEF TakeUp
<1>21. ASSUME NEW s \in Session, Load(s) PROVE TypeOK'
  BY <1>21 DEF Load
<1>22. ASSUME NEW s \in Session, WriteBack(s) PROVE TypeOK'
  BY <1>22 DEF WriteBack
<1>23. CASE Crash
  BY <1>23 DEF Crash
<1>24. CASE Boot
  BY <1>24 DEF Boot
<1>25. CASE Listen
  BY <1>25 DEF Listen
<1>26. CASE UNCHANGED vars
  BY <1>26
<1> QED
  BY <1>1, <1>2, <1>3, <1>4, <1>5, <1>6, <1>7, <1>8, <1>9, <1>10, <1>11, <1>12, <1>13,
     <1>14, <1>15, <1>16, <1>17, <1>18, <1>19, <1>20, <1>21, <1>22, <1>23, <1>24, <1>25,
     <1>26
  DEF Next, Acts, Starts, Deletes, Recovers

\* An actor that has a graph keeps it until it is gone.
LEMMA GraphStep ==
  ASSUME TypeOK, ActorHasGraph, [Next]_vars
  PROVE  ActorHasGraph'
<1> USE DirectoryAssumption DEF vars, volatile, counters, Fault, Forget, Saves, DeletesRow,
       ReleaseLock, NoActor, GiveUp, Ticks, RecoveredGraph, TypeOK, Version,
       ActorHasGraph, HasGraph
<1>1. ASSUME NEW s \in Session, CreateRow(s) \/ Insert(s) \/ RequestDelete(s) \/ Delete(s)
         \/ DeleteFails(s) \/ Skip(s) \/ Send(s) \/ Load(s) \/ WriteBack(s) PROVE ActorHasGraph'
  <2>1. UNCHANGED <<actor, mem>>
    BY <1>1 DEF CreateRow, Insert, RequestDelete, Delete, DeleteFails, Skip, Send, Load, WriteBack
  <2> QED
    BY <2>1
<1>2. ASSUME NEW s \in Session, Plan(s) PROVE ActorHasGraph'
  BY <1>2 DEF Plan
<1>3. ASSUME NEW s \in Session, Work(s) PROVE ActorHasGraph'
  BY <1>3 DEF Work
<1>4. ASSUME NEW s \in Session, Settle(s) PROVE ActorHasGraph'
  BY <1>4 DEF Settle
<1>5. ASSUME NEW s \in Session, Stall(s) PROVE ActorHasGraph'
  BY <1>5 DEF Stall
<1>6. ASSUME NEW s \in Session, SaveSettled(s) PROVE ActorHasGraph'
  BY <1>6 DEF SaveSettled
<1>7. ASSUME NEW s \in Session, ActorDies(s) PROVE ActorHasGraph'
  BY <1>7 DEF ActorDies
<1>8. ASSUME NEW s \in Session, Leave(s) PROVE ActorHasGraph'
  BY <1>8 DEF Leave
<1>9. ASSUME NEW s \in Session, Lock(s) PROVE ActorHasGraph'
  BY <1>9 DEF Lock
<1>10. ASSUME NEW s \in Session, BootFails(s) PROVE ActorHasGraph'
  BY <1>10 DEF BootFails
<1>11. ASSUME NEW s \in Session, Stop(s) PROVE ActorHasGraph'
  BY <1>11 DEF Stop
<1>12. ASSUME NEW s \in Session, Restore(s) PROVE ActorHasGraph'
  BY <1>12 DEF Restore
<1>13. ASSUME NEW s \in Session, RestoreFails(s) PROVE ActorHasGraph'
  BY <1>13 DEF RestoreFails
<1>14. ASSUME NEW s \in Session, TakeUp(s) PROVE ActorHasGraph'
  BY <1>14 DEF TakeUp
<1>15. CASE Crash
  BY <1>15 DEF Crash
<1>16. CASE Boot
  BY <1>16 DEF Boot
<1>17. CASE Listen
  BY <1>17 DEF Listen
<1>18. CASE UNCHANGED vars
  BY <1>18
<1> QED
  BY <1>1, <1>2, <1>3, <1>4, <1>5, <1>6, <1>7, <1>8, <1>9, <1>10, <1>11, <1>12, <1>13,
     <1>14, <1>15, <1>16, <1>17, <1>18
  DEF Next, Acts, Starts, Deletes, Recovers

\* Whoever takes an actor out of the map says so.
LEMMA ActorStep ==
  ASSUME TypeOK, NothingYet, ActorServed, [Next]_vars
  PROVE  ActorServed'
<1> USE DirectoryAssumption DEF vars, volatile, counters, Fault, Forget, Saves, DeletesRow,
       ReleaseLock, NoActor, GiveUp, Ticks, RecoveredGraph, TypeOK, NothingYet,
       ActorServed
<1>1. ASSUME NEW s \in Session, RequestDelete(s) \/ Delete(s) \/ DeleteFails(s) \/ Send(s) \/ Load(s)
         \/ WriteBack(s) PROVE ActorServed'
  <2>1. UNCHANGED <<actor, entry, start, gone>>
    BY <1>1 DEF RequestDelete, Delete, DeleteFails, Send, Load, WriteBack
  <2> QED
    BY <2>1
<1>2. ASSUME NEW s \in Session, Plan(s) PROVE ActorServed'
  BY <1>2 DEF Plan
<1>3. ASSUME NEW s \in Session, Work(s) PROVE ActorServed'
  BY <1>3 DEF Work
<1>4. ASSUME NEW s \in Session, Settle(s) PROVE ActorServed'
  BY <1>4 DEF Settle
<1>5. ASSUME NEW s \in Session, Stall(s) PROVE ActorServed'
  BY <1>5 DEF Stall
<1>6. ASSUME NEW s \in Session, SaveSettled(s) PROVE ActorServed'
  BY <1>6 DEF SaveSettled
<1>7. ASSUME NEW s \in Session, ActorDies(s) PROVE ActorServed'
  BY <1>7 DEF ActorDies
<1>8. ASSUME NEW s \in Session, Leave(s) PROVE ActorServed'
  BY <1>8 DEF Leave
<1>9. ASSUME NEW s \in Session, CreateRow(s) PROVE ActorServed'
  BY <1>9 DEF CreateRow
<1>10. ASSUME NEW s \in Session, Lock(s) PROVE ActorServed'
  BY <1>10 DEF Lock
<1>11. ASSUME NEW s \in Session, Insert(s) PROVE ActorServed'
  BY <1>11 DEF Insert
<1>12. ASSUME NEW s \in Session, BootFails(s) PROVE ActorServed'
  BY <1>12 DEF BootFails
<1>13. ASSUME NEW s \in Session, Stop(s) PROVE ActorServed'
  BY <1>13 DEF Stop
<1>14. ASSUME NEW s \in Session, Skip(s) PROVE ActorServed'
  BY <1>14 DEF Skip
<1>15. ASSUME NEW s \in Session, Restore(s) PROVE ActorServed'
  BY <1>15 DEF Restore
<1>16. ASSUME NEW s \in Session, RestoreFails(s) PROVE ActorServed'
  BY <1>16 DEF RestoreFails
<1>17. ASSUME NEW s \in Session, TakeUp(s) PROVE ActorServed'
  BY <1>17 DEF TakeUp
<1>18. CASE Crash
  BY <1>18 DEF Crash
<1>19. CASE Boot
  BY <1>19 DEF Boot
<1>20. CASE Listen
  BY <1>20 DEF Listen
<1>21. CASE UNCHANGED vars
  BY <1>21
<1> QED
  BY <1>1, <1>2, <1>3, <1>4, <1>5, <1>6, <1>7, <1>8, <1>9, <1>10, <1>11, <1>12, <1>13,
     <1>14, <1>15, <1>16, <1>17, <1>18, <1>19, <1>20, <1>21
  DEF Next, Acts, Starts, Deletes, Recovers

\* What a request loads was saved by somebody, and no actor is left without a plan.
LEMMA NothingStep ==
  ASSUME TypeOK, ActorHasGraph, NothingYet, ActorServed, [Next]_vars
  PROVE  NothingYet'
<1> USE DirectoryAssumption DEF vars, volatile, counters, Fault, Forget, Saves, DeletesRow,
       ReleaseLock, NoActor, GiveUp, Ticks, RecoveredGraph, TypeOK, NothingYet,
       ActorHasGraph, HasGraph, ActorServed
<1>1. ASSUME NEW s \in Session, RequestDelete(s) \/ DeleteFails(s) \/ Skip(s) \/ Send(s) PROVE NothingYet'
  <2>1. UNCHANGED <<server, snap, actor, start, loaded>>
    BY <1>1 DEF RequestDelete, DeleteFails, Skip, Send
  <2> QED
    BY <2>1
<1>2. ASSUME NEW s \in Session, Plan(s) PROVE NothingYet'
  BY <1>2 DEF Plan
<1>3. ASSUME NEW s \in Session, Work(s) PROVE NothingYet'
  BY <1>3 DEF Work
<1>4. ASSUME NEW s \in Session, Settle(s) PROVE NothingYet'
  BY <1>4 DEF Settle
<1>5. ASSUME NEW s \in Session, Stall(s) PROVE NothingYet'
  BY <1>5 DEF Stall
<1>6. ASSUME NEW s \in Session, SaveSettled(s) PROVE NothingYet'
  BY <1>6 DEF SaveSettled
<1>7. ASSUME NEW s \in Session, ActorDies(s) PROVE NothingYet'
  BY <1>7 DEF ActorDies
<1>8. ASSUME NEW s \in Session, Leave(s) PROVE NothingYet'
  BY <1>8 DEF Leave
<1>9. ASSUME NEW s \in Session, CreateRow(s) PROVE NothingYet'
  BY <1>9 DEF CreateRow
<1>10. ASSUME NEW s \in Session, Lock(s) PROVE NothingYet'
  BY <1>10 DEF Lock
<1>11. ASSUME NEW s \in Session, Insert(s) PROVE NothingYet'
  BY <1>11 DEF Insert
<1>12. ASSUME NEW s \in Session, BootFails(s) PROVE NothingYet'
  BY <1>12 DEF BootFails
<1>13. ASSUME NEW s \in Session, Stop(s) PROVE NothingYet'
  BY <1>13 DEF Stop
<1>14. ASSUME NEW s \in Session, Delete(s) PROVE NothingYet'
  BY <1>14 DEF Delete
<1>15. ASSUME NEW s \in Session, Restore(s) PROVE NothingYet'
  BY <1>15 DEF Restore
<1>16. ASSUME NEW s \in Session, RestoreFails(s) PROVE NothingYet'
  BY <1>16 DEF RestoreFails
<1>17. ASSUME NEW s \in Session, TakeUp(s) PROVE NothingYet'
  BY <1>17 DEF TakeUp
<1>18. ASSUME NEW s \in Session, Load(s) PROVE NothingYet'
  BY <1>18 DEF Load
<1>19. ASSUME NEW s \in Session, WriteBack(s) PROVE NothingYet'
  BY <1>19 DEF WriteBack
<1>20. CASE Crash
  BY <1>20 DEF Crash
<1>21. CASE Boot
  BY <1>21 DEF Boot
<1>22. CASE Listen
  BY <1>22 DEF Listen
<1>23. CASE UNCHANGED vars
  BY <1>23
<1> QED
  BY <1>1, <1>2, <1>3, <1>4, <1>5, <1>6, <1>7, <1>8, <1>9, <1>10, <1>11, <1>12, <1>13,
     <1>14, <1>15, <1>16, <1>17, <1>18, <1>19, <1>20, <1>21, <1>22, <1>23
  DEF Next, Acts, Starts, Deletes, Recovers

\* A snapshot that is replaced by an older graph is replaced by a loaded one.
TakesBack ==
  \A s \in Session :
    snap[s] # NoGraph /\ snap'[s] # NoGraph /\ snap'[s] < snap[s] => loaded[s] = snap'[s]

\* What an actor saves is what it has, and that only grows; a recovery begins with the
\* snapshot.
LEMMA NewerStep ==
  ASSUME TypeOK, ActorHasGraph, NothingYet, NothingNewer, [Next]_vars
  PROVE  NothingNewer' /\ TakesBack
<1> USE DirectoryAssumption DEF vars, volatile, counters, Fault, Forget, Saves, DeletesRow,
       ReleaseLock, NoActor, GiveUp, Ticks, RecoveredGraph, TypeOK, Version,
       NothingYet, ActorHasGraph, HasGraph, NothingNewer, TakesBack
<1>1. ASSUME NEW s \in Session, CreateRow(s) \/ Insert(s) \/ RequestDelete(s) \/ DeleteFails(s)
         \/ Skip(s) \/ Send(s) PROVE NothingNewer' /\ TakesBack
  <2>1. UNCHANGED <<snap, mem, actor, loaded>>
    BY <1>1 DEF CreateRow, Insert, RequestDelete, DeleteFails, Skip, Send
  <2> QED
    BY <2>1
<1>2. ASSUME NEW s \in Session, Plan(s) PROVE NothingNewer' /\ TakesBack
  BY <1>2 DEF Plan
<1>3. ASSUME NEW s \in Session, Work(s) PROVE NothingNewer' /\ TakesBack
  BY <1>3 DEF Work
<1>4. ASSUME NEW s \in Session, Settle(s) PROVE NothingNewer' /\ TakesBack
  BY <1>4 DEF Settle
<1>5. ASSUME NEW s \in Session, Stall(s) PROVE NothingNewer' /\ TakesBack
  BY <1>5 DEF Stall
<1>6. ASSUME NEW s \in Session, SaveSettled(s) PROVE NothingNewer' /\ TakesBack
  BY <1>6 DEF SaveSettled
<1>7. ASSUME NEW s \in Session, ActorDies(s) PROVE NothingNewer' /\ TakesBack
  BY <1>7 DEF ActorDies
<1>8. ASSUME NEW s \in Session, Leave(s) PROVE NothingNewer' /\ TakesBack
  BY <1>8 DEF Leave
<1>9. ASSUME NEW s \in Session, Lock(s) PROVE NothingNewer' /\ TakesBack
  BY <1>9 DEF Lock
<1>10. ASSUME NEW s \in Session, BootFails(s) PROVE NothingNewer' /\ TakesBack
  BY <1>10 DEF BootFails
<1>11. ASSUME NEW s \in Session, Stop(s) PROVE NothingNewer' /\ TakesBack
  BY <1>11 DEF Stop
<1>12. ASSUME NEW s \in Session, Delete(s) PROVE NothingNewer' /\ TakesBack
  BY <1>12 DEF Delete
<1>13. ASSUME NEW s \in Session, Restore(s) PROVE NothingNewer' /\ TakesBack
  BY <1>13 DEF Restore
<1>14. ASSUME NEW s \in Session, RestoreFails(s) PROVE NothingNewer' /\ TakesBack
  BY <1>14 DEF RestoreFails
<1>15. ASSUME NEW s \in Session, TakeUp(s) PROVE NothingNewer' /\ TakesBack
  BY <1>15 DEF TakeUp
<1>16. ASSUME NEW s \in Session, Load(s) PROVE NothingNewer' /\ TakesBack
  BY <1>16 DEF Load
<1>17. ASSUME NEW s \in Session, WriteBack(s) PROVE NothingNewer' /\ TakesBack
  BY <1>17 DEF WriteBack
<1>18. CASE Crash
  BY <1>18 DEF Crash
<1>19. CASE Boot
  BY <1>19 DEF Boot
<1>20. CASE Listen
  BY <1>20 DEF Listen
<1>21. CASE UNCHANGED vars
  BY <1>21
<1> QED
  BY <1>1, <1>2, <1>3, <1>4, <1>5, <1>6, <1>7, <1>8, <1>9, <1>10, <1>11, <1>12, <1>13,
     <1>14, <1>15, <1>16, <1>17, <1>18, <1>19, <1>20, <1>21
  DEF Next, Acts, Starts, Deletes, Recovers

\* A row becomes active only through somebody who is served.
LEMMA ShownStep ==
  ASSUME IndInv, [Next]_vars
  PROVE  ShownOrToDo'
<1> USE DirectoryAssumption DEF vars, volatile, counters, Fault, Forget, Saves, DeletesRow,
       ReleaseLock, NoActor, GiveUp, Ticks, RecoveredGraph, Active, Outcome,
       IndInv, TypeOK, ActorServed, NothingYet, ShownOrToDo, Served, Live
<1>1. ASSUME NEW s \in Session, RequestDelete(s) \/ DeleteFails(s) \/ Send(s) \/ Load(s) \/ WriteBack(s) PROVE ShownOrToDo'
  <2>1. UNCHANGED <<server, todo, row, actor, entry, start, gone>>
    BY <1>1 DEF RequestDelete, DeleteFails, Send, Load, WriteBack
  <2> QED
    BY <2>1
<1>2. ASSUME NEW s \in Session, Plan(s) PROVE ShownOrToDo'
  BY <1>2 DEF Plan
<1>3. ASSUME NEW s \in Session, Work(s) PROVE ShownOrToDo'
  BY <1>3 DEF Work
<1>4. ASSUME NEW s \in Session, Settle(s) PROVE ShownOrToDo'
  BY <1>4 DEF Settle
<1>5. ASSUME NEW s \in Session, Stall(s) PROVE ShownOrToDo'
  BY <1>5 DEF Stall
<1>6. ASSUME NEW s \in Session, SaveSettled(s) PROVE ShownOrToDo'
  BY <1>6 DEF SaveSettled
<1>7. ASSUME NEW s \in Session, ActorDies(s) PROVE ShownOrToDo'
  BY <1>7 DEF ActorDies
<1>8. ASSUME NEW s \in Session, Leave(s) PROVE ShownOrToDo'
  BY <1>8 DEF Leave
<1>9. ASSUME NEW s \in Session, CreateRow(s) PROVE ShownOrToDo'
  BY <1>9 DEF CreateRow
<1>10. ASSUME NEW s \in Session, Lock(s) PROVE ShownOrToDo'
  BY <1>10 DEF Lock
<1>11. ASSUME NEW s \in Session, Insert(s) PROVE ShownOrToDo'
  BY <1>11 DEF Insert
<1>12. ASSUME NEW s \in Session, BootFails(s) PROVE ShownOrToDo'
  BY <1>12 DEF BootFails
<1>13. ASSUME NEW s \in Session, Stop(s) PROVE ShownOrToDo'
  BY <1>13 DEF Stop
<1>14. ASSUME NEW s \in Session, Delete(s) PROVE ShownOrToDo'
  BY <1>14 DEF Delete
<1>15. ASSUME NEW s \in Session, Skip(s) PROVE ShownOrToDo'
  BY <1>15 DEF Skip
<1>16. ASSUME NEW s \in Session, Restore(s) PROVE ShownOrToDo'
  BY <1>16 DEF Restore
<1>17. ASSUME NEW s \in Session, RestoreFails(s) PROVE ShownOrToDo'
  BY <1>17 DEF RestoreFails
<1>18. ASSUME NEW s \in Session, TakeUp(s) PROVE ShownOrToDo'
  BY <1>18 DEF TakeUp
<1>19. CASE Crash
  BY <1>19 DEF Crash
<1>20. CASE Boot
  BY <1>20 DEF Boot
<1>21. CASE Listen
  BY <1>21 DEF Listen
<1>22. CASE UNCHANGED vars
  BY <1>22
<1> QED
  BY <1>1, <1>2, <1>3, <1>4, <1>5, <1>6, <1>7, <1>8, <1>9, <1>10, <1>11, <1>12, <1>13,
     <1>14, <1>15, <1>16, <1>17, <1>18, <1>19, <1>20, <1>21, <1>22
  DEF Next, Acts, Starts, Deletes, Recovers

THEOREM Inductive == Spec => []IndInv
<1>1. Init => IndInv
  BY InitHolds
<1>2. IndInv /\ [Next]_vars => IndInv'
  BY TypeStep, GraphStep, ActorStep, NothingStep, NewerStep, ShownStep DEF IndInv
<1> QED
  BY <1>1, <1>2, PTL DEF Spec

\* The directory, the rows and the actors only take the values they are meant to.
THEOREM TypeCorrect == Spec => []TypeOK
<1>1. IndInv => TypeOK
  BY DEF IndInv
<1> QED
  BY <1>1, Inductive, PTL

\* Whatever fails and whoever is deleted meanwhile, a server that listens has an
\* actor at work or waiting for every unfinished session, unless, since the
\* process started, its Start is under way or failed, its actor died, it was
\* stopped, or it had no snapshot to recover (recovery_service.go, manager.go).
THEOREM UnfinishedIsServed == Spec => []ShownIsServed
<1>1. IndInv => ShownIsServed
  BY DEF IndInv, ShownOrToDo, ShownIsServed, Served
<1> QED
  BY <1>1, Inductive, PTL

\* However many crashes, recoveries and cancelled actors there are, a snapshot is
\* replaced by an older graph only by a verification or an edit that had loaded
\* that graph (node_compat_service.go).
THEOREM OnlyEditsTakeBack == Spec => TakenBackOnlyByEdits
<1>1. IndInv /\ [Next]_vars
        => [\A s \in Session :
              snap[s] # NoGraph /\ snap'[s] # NoGraph /\ snap'[s] < snap[s] => loaded[s] = snap'[s]]_vars
  BY NewerStep DEF IndInv, TakesBack
<1> QED
  BY <1>1, Inductive, PTL DEF Spec, TakenBackOnlyByEdits
=============================================================================
