---------------------------- MODULE SessionDirectory ----------------------------
(***************************************************************************)
(* The sessions of the Go backend as a whole: the requests that start,     *)
(* wake, delete, verify and edit them, the manager with its one lock and   *)
(* its map of runtimes (runtime/manager.go), the rows they share           *)
(* (store/sqlite) and the recovery of all of them when the process starts  *)
(* (app/recovery_service.go).  What one actor does with one graph is       *)
(* SessionRuntime's; here a graph is a number, the version of it, and an   *)
(* actor goes on for some versions, settles, and waits for a command.      *)
(* A project has the one session it was made for, so that deleting the     *)
(* project and deleting the session are the same action.                   *)
(***************************************************************************)
EXTENDS Naturals

CONSTANTS
  Session,
  NoSession,
  NoGraph,      \* no snapshot, nothing loaded
  MaxVersion,   \* bound: versions of a graph
  MaxWakes,     \* bound: commands
  MaxCrashes,   \* bound: crashes of the process
  MaxFaults     \* bound: failing calls, clients that disconnect

ASSUME DirectoryAssumption ==
  /\ NoSession \notin Session
  /\ {MaxVersion, MaxWakes, MaxCrashes, MaxFaults} \subseteq Nat
  /\ NoGraph \notin Nat

Version == 0 .. MaxVersion
\* "waiting" stands for paused and failed, which nothing here tells apart.
RowStatus == {"none", "running", "waiting", "done"}
\* What the actor writes to the row when it settles.
Outcome == {"waiting", "done"}

\* shouldRecoverSessionStatus; no Go code writes "interrupted".
Active == {"running", "waiting"}

VARIABLES
  server,   \* "up", "down", or "recovering": no request is served yet
  todo,     \* recovering: sessions not visited
  row,      \* durable: status in the session's row
  snap,     \* durable: version in its snapshot
  mem,      \* version in the memory of its actor
  actor,    \* what the actor does; "resumed": the tick of a recovery;
            \* "leaving": cancelled, one write under way
  entry,    \* it is in the map of the manager
  queued,   \* it has a command waiting
  lock,     \* the session whose Start holds the lock of the manager
  start,    \* its POST /api/runs
  del,      \* its DELETE
  loaded,   \* version a verification or edit outside the actor has loaded
  gone,     \* history: since the process started, Start or the actor failed,
            \* Stop was called, or the recovery found no snapshot
  wakes, crashes, faults

volatile == <<mem, actor, entry, queued, lock, start, del, loaded, gone>>
counters == <<wakes, crashes, faults>>
vars == <<server, todo, row, snap, volatile, counters>>

Init ==
  /\ server = "up" /\ todo = {}
  /\ row = [s \in Session |-> "none"] /\ snap = [s \in Session |-> NoGraph]
  /\ mem = [s \in Session |-> NoGraph] /\ actor = [s \in Session |-> "none"]
  /\ entry = [s \in Session |-> FALSE] /\ queued = [s \in Session |-> FALSE]
  /\ lock = NoSession
  /\ start = [s \in Session |-> "new"] /\ del = [s \in Session |-> "none"]
  /\ loaded = [s \in Session |-> NoGraph]
  /\ gone = {} /\ wakes = 0 /\ crashes = 0 /\ faults = 0

Fault == faults < MaxFaults /\ faults' = faults + 1

-----------------------------------------------------------------------------
(* The stores: a snapshot refers to the row and goes with it                *)

Saves(s, v) == row[s] # "none" /\ snap' = [snap EXCEPT ![s] = v]

DeletesRow(s) ==
  /\ row' = [row EXCEPT ![s] = "none"]
  /\ snap' = [snap EXCEPT ![s] = NoGraph]

-----------------------------------------------------------------------------
(* POST /api/runs: StartRun, Manager.Start, Bootstrap                       *)

CreateRow(s) ==
  /\ server = "up" /\ start[s] = "new"
  /\ row' = [row EXCEPT ![s] = "running"]
  /\ start' = [start EXCEPT ![s] = "created"]
  /\ UNCHANGED <<server, todo, snap, mem, actor, entry, queued, lock, del, loaded, gone, counters>>

\* From here to Insert or BootFails the lock of the manager is held.
Lock(s) ==
  /\ start[s] = "created" /\ lock = NoSession
  /\ lock' = s
  /\ start' = [start EXCEPT ![s] = "boot"]
  /\ actor' = [actor EXCEPT ![s] = "plan"]
  /\ UNCHANGED <<server, todo, row, snap, mem, entry, queued, del, loaded, gone, counters>>

\* The planner's graph and the first two events, which need the row as well.
Plan(s) ==
  /\ actor[s] = "plan" /\ row[s] # "none"
  /\ mem' = [mem EXCEPT ![s] = 0]
  /\ actor' = [actor EXCEPT ![s] = "run"]
  /\ UNCHANGED <<server, todo, row, snap, entry, queued, lock, start, del, loaded, gone, counters>>

Insert(s) ==
  /\ start[s] = "boot" /\ actor[s] = "idle"
  /\ entry' = [entry EXCEPT ![s] = TRUE]
  /\ start' = [start EXCEPT ![s] = "ended"]
  /\ lock' = NoSession
  /\ UNCHANGED <<server, todo, row, snap, mem, actor, queued, del, loaded, gone, counters>>

\* Mutant: an early return of Start leaves the lock behind.
KeepLock == UNCHANGED lock

ReleaseLock == lock' = NoSession

NoActor(s) ==
  /\ actor' = [actor EXCEPT ![s] = "none"]
  /\ mem' = [mem EXCEPT ![s] = NoGraph]

\* A call of Bootstrap fails because the row is gone, the planner or a store
\* says no, or the client went away: its context is the one of the request.
BootFails(s) ==
  /\ start[s] = "boot" /\ actor[s] \in {"plan", "run", "settle"}
  /\ \/ row[s] = "none" /\ UNCHANGED faults
     \/ Fault
  /\ NoActor(s)
  /\ start' = [start EXCEPT ![s] = "ended"]
  /\ gone' = gone \cup {s}
  /\ ReleaseLock
  /\ UNCHANGED <<server, todo, row, snap, entry, queued, del, loaded, wakes, crashes>>

-----------------------------------------------------------------------------
(* The actor, inside Bootstrap, after a command or resumed by the recovery  *)

Ticks(s) == actor[s] \in {"run", "resumed"}

\* A node starts: what was done since the last save is saved with it.
Work(s) ==
  /\ Ticks(s) /\ mem[s] < MaxVersion
  /\ mem' = [mem EXCEPT ![s] = @ + 1]
  /\ Saves(s, mem[s] + 1)
  /\ UNCHANGED <<server, todo, row, actor, entry, queued, lock, start, del, loaded, gone, counters>>

\* The row says first how it ended: a checkpoint, a failure, or all done; the
\* graph says so as well.
Settle(s) ==
  /\ Ticks(s) /\ row[s] # "none"
  /\ \E status \in Outcome : row' = [row EXCEPT ![s] = status]
  /\ mem' = [mem EXCEPT ![s] = IF @ < MaxVersion THEN @ + 1 ELSE @]
  /\ actor' = [actor EXCEPT ![s] = "settle"]
  /\ UNCHANGED <<server, todo, snap, entry, queued, lock, start, del, loaded, gone, counters>>

\* Not all is done and nothing can run: the row stays, with or without work
\* since the last save.  Bootstrap and handleCommand save, the goroutine of
\* Restore waits without a save.
Stall(s) ==
  /\ Ticks(s)
  /\ \E v \in {mem[s], mem[s] + 1} \cap Version : mem' = [mem EXCEPT ![s] = v]
  /\ actor' = [actor EXCEPT ![s] = IF @ = "run" THEN "settle" ELSE "idle"]
  /\ UNCHANGED <<server, todo, row, snap, entry, queued, lock, start, del, loaded, gone, counters>>

SaveSettled(s) ==
  /\ actor[s] = "settle"
  /\ Saves(s, mem[s])
  /\ actor' = [actor EXCEPT ![s] = "idle"]
  /\ UNCHANGED <<server, todo, row, mem, entry, queued, lock, start, del, loaded, gone, counters>>

\* Run returns the error; the entry stays in the map, with nobody behind it.
ActorDies(s) ==
  /\ start[s] # "boot" /\ actor[s] \in {"run", "resumed", "settle"}
  /\ \/ row[s] = "none" /\ UNCHANGED faults
     \/ Fault
  /\ NoActor(s)
  /\ gone' = gone \cup {s}
  /\ UNCHANGED <<server, todo, row, snap, entry, queued, lock, start, del, loaded, wakes, crashes>>

\* A command: Send reads the map under the lock.
Send(s) ==
  /\ server = "up" /\ lock = NoSession /\ entry[s] /\ ~queued[s] /\ wakes < MaxWakes
  /\ queued' = [queued EXCEPT ![s] = TRUE]
  /\ wakes' = wakes + 1
  /\ UNCHANGED <<server, todo, row, snap, mem, actor, entry, lock, start, del, loaded, gone, crashes, faults>>

TakeUp(s) ==
  /\ actor[s] = "idle" /\ entry[s] /\ queued[s]
  /\ queued' = [queued EXCEPT ![s] = FALSE]
  /\ \/ /\ row[s] # "none" /\ UNCHANGED faults
        /\ row' = [row EXCEPT ![s] = "running"]
        /\ actor' = [actor EXCEPT ![s] = "run"]
        /\ UNCHANGED <<mem, gone>>
     \/ /\ (row[s] = "none" /\ UNCHANGED faults) \/ Fault
        /\ NoActor(s)
        /\ gone' = gone \cup {s}
        /\ UNCHANGED row
  /\ UNCHANGED <<server, todo, snap, entry, lock, start, del, loaded, wakes, crashes>>

-----------------------------------------------------------------------------
(* DELETE of a session or of its project                                    *)

RequestDelete(s) ==
  /\ server = "up" /\ row[s] # "none" /\ del[s] = "none"
  /\ del' = [del EXCEPT ![s] = "stop"]
  /\ UNCHANGED <<server, todo, row, snap, mem, actor, entry, queued, lock, start, loaded, gone, counters>>

\* Manager.Stop cancels the actor and does not wait for it; a session without
\* an entry is an error that is ignored.
Stop(s) ==
  /\ del[s] = "stop" /\ lock = NoSession
  /\ del' = [del EXCEPT ![s] = "delete"]
  /\ IF entry[s]
     THEN /\ entry' = [entry EXCEPT ![s] = FALSE]
          /\ queued' = [queued EXCEPT ![s] = FALSE]
          /\ IF actor[s] \in {"run", "resumed", "settle"}
             THEN actor' = [actor EXCEPT ![s] = "leaving"] /\ UNCHANGED mem
             ELSE NoActor(s)
          /\ gone' = gone \cup {s}
     ELSE UNCHANGED <<mem, entry, queued, actor, gone>>
  /\ UNCHANGED <<server, todo, row, snap, lock, start, loaded, counters>>

\* The write that was under way when the context was cancelled, if any.
Leave(s) ==
  /\ actor[s] = "leaving"
  /\ NoActor(s)
  /\ \/ /\ \E v \in {mem[s], mem[s] + 1} \cap Version : Saves(s, v)
        /\ UNCHANGED row
     \/ /\ row[s] # "none" /\ UNCHANGED snap
        /\ \E status \in Outcome \cup {"running"} : row' = [row EXCEPT ![s] = status]
     \/ UNCHANGED <<row, snap>>
  /\ UNCHANGED <<server, todo, entry, queued, lock, start, del, loaded, gone, counters>>

Delete(s) ==
  /\ del[s] = "delete"
  /\ del' = [del EXCEPT ![s] = "none"]
  /\ DeletesRow(s)
  /\ UNCHANGED <<server, todo, mem, actor, entry, queued, lock, start, loaded, gone, counters>>

\* The runtime is stopped and the row stays.
DeleteFails(s) ==
  /\ del[s] = "delete" /\ Fault
  /\ del' = [del EXCEPT ![s] = "none"]
  /\ UNCHANGED <<server, todo, row, snap, mem, actor, entry, queued, lock, start, loaded, gone, wakes, crashes>>

-----------------------------------------------------------------------------
(* Verification and edit of a node outside the actor (NodeCompatService)    *)

Load(s) ==
  /\ server = "up" /\ snap[s] # NoGraph /\ loaded[s] = NoGraph
  /\ loaded' = [loaded EXCEPT ![s] = snap[s]]
  /\ UNCHANGED <<server, todo, row, snap, mem, actor, entry, queued, lock, start, del, gone, counters>>

\* The whole graph is written back with one node changed, or an error is answered.
WriteBack(s) ==
  /\ loaded[s] # NoGraph
  /\ loaded' = [loaded EXCEPT ![s] = NoGraph]
  /\ Saves(s, loaded[s]) \/ UNCHANGED snap
  /\ UNCHANGED <<server, todo, row, mem, actor, entry, queued, lock, start, del, gone, counters>>

-----------------------------------------------------------------------------
(* The process dies; the next one recovers the sessions before it listens   *)

Forget ==
  /\ mem' = [s \in Session |-> NoGraph] /\ actor' = [s \in Session |-> "none"]
  /\ entry' = [s \in Session |-> FALSE] /\ queued' = [s \in Session |-> FALSE]
  /\ lock' = NoSession
  /\ start' = [s \in Session |-> IF start[s] = "new" THEN "new" ELSE "ended"]
  /\ del' = [s \in Session |-> "none"]
  /\ loaded' = [s \in Session |-> NoGraph]
  /\ gone' = {}

Crash ==
  /\ server # "down" /\ crashes < MaxCrashes
  /\ server' = "down" /\ todo' = {}
  /\ crashes' = crashes + 1
  /\ Forget
  /\ UNCHANGED <<row, snap, wakes, faults>>

Boot ==
  /\ server = "down"
  /\ server' = "recovering"
  /\ todo' = {s \in Session : row[s] \in Active}
  /\ UNCHANGED <<row, snap, volatile, counters>>

Skip(s) ==
  /\ server = "recovering" /\ s \in todo /\ snap[s] = NoGraph
  /\ todo' = todo \ {s}
  /\ gone' = gone \cup {s}
  /\ UNCHANGED <<server, row, snap, mem, actor, entry, queued, lock, start, del, loaded, counters>>

\* Mutant: the graph is planned again.
PlannedAgain(s) == 0

RecoveredGraph(s) == snap[s]

\* A session that was running goes on at once, unless its graph was saved as
\* paused, failed or done.
Restore(s) ==
  /\ server = "recovering" /\ s \in todo /\ snap[s] # NoGraph
  /\ todo' = todo \ {s}
  /\ mem' = [mem EXCEPT ![s] = RecoveredGraph(s)]
  /\ Saves(s, RecoveredGraph(s))
  /\ entry' = [entry EXCEPT ![s] = TRUE]
  /\ \E next \in (IF row[s] = "running" THEN {"resumed", "idle"} ELSE {"idle"}) :
       actor' = [actor EXCEPT ![s] = next]
  /\ UNCHANGED <<server, row, queued, lock, start, del, loaded, gone, counters>>

\* Mutant: the recovery goes on with the next session.
GoOn(s) == todo' = todo \ {s} /\ UNCHANGED <<server, volatile>>

\* The first error ends the recovery, and NewRouter panics.
GiveUp(s) == server' = "down" /\ todo' = {} /\ Forget

RestoreFails(s) ==
  /\ server = "recovering" /\ s \in todo /\ Fault
  /\ GiveUp(s)
  /\ UNCHANGED <<row, snap, wakes, crashes>>

Listen ==
  /\ server = "recovering" /\ todo = {}
  /\ server' = "up"
  /\ UNCHANGED <<todo, row, snap, volatile, counters>>

-----------------------------------------------------------------------------
Acts(s) == Plan(s) \/ Work(s) \/ Settle(s) \/ Stall(s) \/ SaveSettled(s) \/ ActorDies(s) \/ Leave(s)
Starts(s) == CreateRow(s) \/ Lock(s) \/ Insert(s) \/ BootFails(s)
Deletes(s) == RequestDelete(s) \/ Stop(s) \/ Delete(s) \/ DeleteFails(s)
Recovers(s) == Skip(s) \/ Restore(s) \/ RestoreFails(s)

Next ==
  \/ \E s \in Session : \/ Acts(s) \/ Starts(s) \/ Deletes(s) \/ Recovers(s)
                        \/ Send(s) \/ TakeUp(s) \/ Load(s) \/ WriteBack(s)
  \/ Crash \/ Boot \/ Listen

Spec == Init /\ [][Next]_vars

\* A Start that holds the lock goes on, an actor does not work forever
\* (GoNodeWork: SessionsSettle), and a request that waits for a lock nobody
\* holds gets it.
FairSpec ==
  /\ Spec
  /\ \A s \in Session : /\ WF_vars(Plan(s) \/ Settle(s) \/ Stall(s) \/ SaveSettled(s))
                        /\ WF_vars(BootFails(s) /\ row[s] = "none")
                        /\ WF_vars(Insert(s)) /\ WF_vars(Stop(s))

-----------------------------------------------------------------------------
TypeOK ==
  /\ server \in {"up", "down", "recovering"} /\ todo \subseteq Session
  /\ row \in [Session -> RowStatus]
  /\ snap \in [Session -> Version \cup {NoGraph}] /\ mem \in [Session -> Version \cup {NoGraph}]
  /\ actor \in [Session -> {"none", "plan", "run", "resumed", "settle", "idle", "leaving"}]
  /\ entry \in [Session -> BOOLEAN] /\ queued \in [Session -> BOOLEAN]
  /\ lock \in Session \cup {NoSession}
  /\ start \in [Session -> {"new", "created", "boot", "ended"}]
  /\ del \in [Session -> {"none", "stop", "delete"}]
  /\ loaded \in [Session -> Version \cup {NoGraph}]
  /\ gone \subseteq Session
  /\ wakes \in 0 .. MaxWakes /\ crashes \in 0 .. MaxCrashes /\ faults \in 0 .. MaxFaults

\* Somebody works for the session or takes its next command from the channel.
Live(s) == entry[s] /\ actor[s] \in {"run", "resumed", "settle", "idle"}

\* While requests are served, a session a client can see as unfinished has an
\* actor at work or waiting, unless, since this process started, its Start is
\* under way or failed, its actor died, somebody stopped it, or there was no
\* snapshot to recover: a recovery that met an error never ends with a session
\* left out (recovery_service.go, router.go), and nothing else loses an actor.
ShownIsServed ==
  \A s \in Session :
    server = "up" /\ row[s] \in Active
      => Live(s) \/ start[s] \in {"created", "boot"} \/ s \in gone

\* No actor ever takes a snapshot back, across crashes, recoveries and the last
\* write of an actor that was cancelled: a snapshot is replaced by an older graph
\* only by a verification or an edit that had loaded that one (NodeCompatService).
TakenBackOnlyByEdits ==
  [][\A s \in Session :
       snap[s] # NoGraph /\ snap'[s] # NoGraph /\ snap'[s] < snap[s] => loaded[s] = snap'[s]]_vars

\* Every DELETE gets past Stop, whose lock a Start may hold through the planning
\* and the first stretch of another session, failing ones included.
StopsGetThrough == \A s \in Session : del[s] = "stop" ~> del[s] # "stop"

\* "The graph snapshot is enough to restore the state of the runtime": with an
\* actor that waits for commands, the snapshot is the graph it has.
SnapshotIsEnough ==
  \A s \in Session : entry[s] /\ actor[s] = "idle" /\ row[s] # "none" => snap[s] = mem[s]
=============================================================================
