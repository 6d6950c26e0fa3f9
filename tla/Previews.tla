------------------------------- MODULE Previews -------------------------------
(***************************************************************************)
(* The live previews of the TypeScript server: a development server of its *)
(* own for the output of a session, started and stopped by requests        *)
(* (apps/server/src, preview-manager.ts and routes/preview.ts).            *)
(*                                                                         *)
(* A start awaits findFreePort when the session has no port yet, and looks *)
(* at nothing again afterwards; a launch polls its port for 30 seconds,    *)
(* whatever becomes of its process.  Everything between two awaits is one  *)
(* step.  The names are prefixed where ServerRuns, the other part of the   *)
(* server, has the same ones.                                              *)
(***************************************************************************)
EXTENDS Naturals

CONSTANTS
  Key,        \* the sessions, as makeKey names them
  Port,       \* the ports the system gives out
  Launch,     \* bound: calls of launchLivePreview that wait or have a process at once
  MaxCalls,   \* bound: starts of each session that await findFreePort at once
  Written,    \* bound: what runs and deletions make of the output of each session
  NoPort, NoLaunch

VARIABLES
  live,       \* livePreviewStates
  finding,    \* starts that await findFreePort
  called,     \* what a launch was called with
  waiting,    \* launches that await waitForPort
  process,    \* the process a launch spawned
  listens,    \* the port that process listens on
  signalled,  \* launches whose process was sent SIGTERM
  output,     \* the output directory of a session
  overlapped, \* history: sessions with two starts in findFreePort at once
  outlived,   \* history: sessions with a launch that waited on without its process
  reissued,   \* history: ports of one session given to another, or taken by its server
  abandoned   \* history: processes left by a server that was killed

previewHistory == <<overlapped, outlived, reissued, abandoned>>
children == <<process, listens>>
previewVars == <<live, finding, called, waiting, children, signalled, output, previewHistory>>

PreviewStatus == {"none", "idle", "starting", "running", "error"}
PreviewState == [status: PreviewStatus, port: Port \cup {NoPort}, child: Launch \cup {NoLaunch}]
NoPreview == [status |-> "none", port |-> NoPort, child |-> NoLaunch]

Output == {"plain",    \* nothing a preview could start
           "react",    \* main.tsx and other components, without a package.json
           "app"}      \* a package.json with a command for a preview

ASSUME PreviewAssumption ==
  /\ NoPort \notin Port /\ MaxCalls \in [Key -> Nat] /\ Written \in [Key -> SUBSET Output]
  /\ NoLaunch \notin Launch \cup [key: Key, port: Port]

PreviewTypeOK ==
  /\ live \in [Key -> PreviewState]
  /\ finding \in [Key -> Nat]
  /\ called \in [Launch -> [key: Key, port: Port] \cup {NoLaunch}]
  /\ process \in [Launch -> {"none", "up"}]
  /\ listens \in [Launch -> Port \cup {NoPort}]
  /\ \A l \in Launch : listens[l] # NoPort => process[l] = "up"
  /\ \A l \in Launch : called[l] = NoLaunch <=> process[l] = "none" /\ l \notin waiting
  /\ waiting \subseteq Launch /\ signalled \subseteq Launch
  /\ output \in [Key -> Output]
  /\ overlapped \subseteq Key /\ outlived \subseteq Key
  /\ reissued \subseteq Port /\ abandoned \subseteq Launch

PreviewInit ==
  /\ live = [k \in Key |-> NoPreview]
  /\ finding = [k \in Key |-> 0]
  /\ called = [l \in Launch |-> NoLaunch]
  /\ process = [l \in Launch |-> "none"]
  /\ listens = [l \in Launch |-> NoPort]
  /\ output = [k \in Key |-> "plain"]
  /\ waiting = {} /\ signalled = {}
  /\ overlapped = {} /\ outlived = {} /\ reissued = {} /\ abandoned = {}

Called == {l \in Launch : called[l] # NoLaunch}
LaunchesOf(k) == {l \in Called : called[l].key = k}
ListeningOn(p) == {l \in Launch : listens[l] = p}
Alive(l) == process[l] # "none"

\* A session that counts on a port, and the ports of others that one gets.
HoldsPort(k, p) == live[k].port = p \/ \E l \in LaunchesOf(k) : called[l].port = p
Reissue(k, p) ==
  reissued' = IF \E o \in Key \ {k} : HoldsPort(o, p) THEN reissued \cup {p} ELSE reissued

\* kind "live" of the status, with the URL of the proxy.
Shown(k) == live[k].status \in {"starting", "running"} /\ live[k].port # NoPort

\* Who answers what is sent through the proxy of a session.
Proxied(k) == IF Shown(k) THEN ListeningOn(live[k].port) ELSE {}

Previewable(k) == output[k] = "app"

\* Asking for the capability writes what a generated React output lacks.
Scaffold(k) == output' = [output EXCEPT ![k] = IF @ = "react" THEN "app" ELSE @]

\* Something else than a preview changes the output: a run, or a deletion.
WriteOutput(k) ==
  /\ \E o \in Written[k] \ {output[k]} : output' = [output EXCEPT ![k] = o]
  /\ UNCHANGED <<live, finding, called, waiting, children, signalled, previewHistory>>

ReadStatus(k) ==
  /\ Scaffold(k)
  /\ UNCHANGED <<live, finding, called, waiting, children, signalled, previewHistory>>

(***************************************************************************)
(* Start                                                                   *)
(***************************************************************************)

Unsupported(k) ==
  /\ ~Previewable(k)
  /\ live' = [live EXCEPT ![k] = [status |-> "error", port |-> NoPort, child |-> NoLaunch]]
  /\ UNCHANGED <<called, waiting, process, outlived>>

\* The process may fail to be created, which is reported at once; the launch
\* waits for the port all the same.
LaunchLivePreview(k, p) ==
  /\ Previewable(k)
  /\ \E l \in Launch :
       /\ l \notin Called
       /\ called' = [called EXCEPT ![l] = [key |-> k, port |-> p]]
       /\ waiting' = waiting \cup {l}
       /\ \/ /\ process' = [process EXCEPT ![l] = "up"]
             /\ live' = [live EXCEPT ![k] = [status |-> "starting", port |-> p, child |-> l]]
             /\ UNCHANGED outlived
          \/ /\ UNCHANGED process
             /\ live' = [live EXCEPT ![k] = [status |-> "error", port |-> p, child |-> NoLaunch]]
             /\ outlived' = outlived \cup {k}

WithPort(k, p) == LaunchLivePreview(k, p) \/ Unsupported(k)

\* A request that finds the preview starting or running changes nothing but the
\* output.
StartLivePreview(k) ==
  /\ live[k].status \notin {"starting", "running"}
  /\ \/ /\ live[k].port # NoPort
        /\ WithPort(k, live[k].port)
        /\ Scaffold(k)
        /\ UNCHANGED <<finding, overlapped>>
     \/ /\ live[k].port = NoPort
        /\ finding[k] < MaxCalls[k]
        /\ finding' = [finding EXCEPT ![k] = @ + 1]
        /\ overlapped' = IF finding[k] > 0 THEN overlapped \cup {k} ELSE overlapped
        /\ UNCHANGED <<live, called, waiting, process, output, outlived>>
  /\ UNCHANGED <<listens, signalled, reissued, abandoned>>

\* The start goes on, whatever the state of the preview is by now.
FoundPort(k) ==
  /\ finding[k] > 0
  /\ finding' = [finding EXCEPT ![k] = @ - 1]
  /\ \E p \in Port :
       /\ ListeningOn(p) = {}
       /\ WithPort(k, p)
       /\ Reissue(k, p)
  /\ Scaffold(k)
  /\ UNCHANGED <<listens, signalled, overlapped, abandoned>>

FindPortFails(k) ==
  /\ finding[k] > 0
  /\ finding' = [finding EXCEPT ![k] = @ - 1]
  /\ UNCHANGED <<live, called, waiting, children, signalled, output, previewHistory>>

(***************************************************************************)
(* The processes, and what waits for them                                  *)
(***************************************************************************)

\* Without --strictPort a server whose port is taken moves to another one, which
\* may be a port the entry of an idle session keeps.
Listen(l) ==
  /\ Alive(l) /\ listens[l] = NoPort
  /\ \E p \in Port :
       /\ ListeningOn(p) = {}
       /\ p # called[l].port => ListeningOn(called[l].port) # {}
       /\ listens' = [listens EXCEPT ![l] = p]
       /\ Reissue(called[l].key, p)
  /\ UNCHANGED <<live, finding, called, waiting, process, signalled, output,
                 overlapped, outlived, abandoned>>

WithoutChild(k) ==
  [live EXCEPT ![k].child = NoLaunch,
               ![k].status = IF @ \in {"starting", "running"} THEN "error" ELSE @]

\* Mutation: the handler of a process changes the entry whichever process it names.
OnExitUnchecked(l, k) == live' = WithoutChild(k)

\* The handler looks whether the process is still the one of the preview.
OnExit(l, k) == live' = IF live[k].child = l THEN WithoutChild(k) ELSE live

ChildExits(l) ==
  /\ Alive(l)
  /\ process' = [process EXCEPT ![l] = "none"]
  /\ listens' = [listens EXCEPT ![l] = NoPort]
  /\ called' = IF l \in waiting THEN called ELSE [called EXCEPT ![l] = NoLaunch]
  /\ OnExit(l, called[l].key)
  /\ outlived' = IF l \in waiting THEN outlived \cup {called[l].key} ELSE outlived
  /\ signalled' = signalled \ {l}
  /\ abandoned' = abandoned \ {l}
  /\ UNCHANGED <<finding, waiting, output, overlapped, reissued>>

WaitEnds(l) ==
  /\ l \in waiting
  /\ waiting' = waiting \ {l}
  /\ called' = IF Alive(l) THEN called ELSE [called EXCEPT ![l] = NoLaunch]
  /\ UNCHANGED <<finding, children, output, previewHistory>>

\* waitForPort connects: whoever listens, and whatever the status is by now.
Connected(l) ==
  /\ WaitEnds(l) /\ ListeningOn(called[l].port) # {}
  /\ live' = [live EXCEPT ![called[l].key].status = "running"]
  /\ UNCHANGED signalled

\* Mutation: the entry forgets its process before the signal.
SignalForgotten(k) == UNCHANGED signalled

Signal(k) == signalled' = signalled \cup ({live[k].child} \ {NoLaunch})

\* waitForPort gives up, and the current process of the preview is stopped.
TimedOut(l) ==
  /\ WaitEnds(l) /\ ListeningOn(called[l].port) = {}
  /\ Signal(called[l].key)
  /\ live' = [live EXCEPT ![called[l].key].child = NoLaunch, ![called[l].key].status = "error"]

StopLivePreview(k) ==
  /\ Signal(k)
  /\ live' = [live EXCEPT ![k].child = NoLaunch, ![k].status = "idle"]
  /\ outlived' = IF LaunchesOf(k) \cap waiting # {} THEN outlived \cup {k} ELSE outlived
  /\ Scaffold(k)
  /\ UNCHANGED <<finding, called, waiting, children, overlapped, reissued, abandoned>>

(***************************************************************************)
(* The end of the server                                                   *)
(***************************************************************************)

Forget ==
  /\ live' = [k \in Key |-> NoPreview]
  /\ finding' = [k \in Key |-> 0]
  /\ waiting' = {}
  /\ called' = [l \in Launch |-> IF Alive(l) THEN called[l] ELSE NoLaunch]
  /\ outlived' = {}
  /\ UNCHANGED <<children, output, overlapped, reissued>>

\* The handler of "exit" stops what the map knows.
ServerExits ==
  /\ Forget
  /\ signalled' = signalled \cup ({live[k].child : k \in Key} \ {NoLaunch})
  /\ UNCHANGED abandoned

\* A signal ends the server without that handler.
ServerKilled ==
  /\ Forget
  /\ abandoned' = abandoned \cup {l \in Launch : Alive(l)}
  /\ UNCHANGED signalled

PreviewNext ==
  \/ \E k \in Key : \/ WriteOutput(k) \/ ReadStatus(k)
                    \/ StartLivePreview(k) \/ FoundPort(k) \/ FindPortFails(k)
                    \/ StopLivePreview(k)
  \/ \E l \in Launch : Listen(l) \/ ChildExits(l) \/ Connected(l) \/ TimedOut(l)
  \/ ServerExits \/ ServerKilled

PreviewSpec == PreviewInit /\ [][PreviewNext]_previewVars

(***************************************************************************)
(* Properties                                                              *)
(***************************************************************************)

\* Every process of a preview that runs unstopped is the one its session's entry
\* names, so that a stop, a timeout or the end of the server reaches it: unless
\* two first starts of the session overlapped, or the server was killed.
NoneLeftRunning ==
  \A l \in Launch : Alive(l) /\ l \notin signalled \cup abandoned =>
    \/ live[called[l].key].child = l
    \/ called[l].key \in overlapped

\* What is shown as starting has a launch that still waits and will settle it.
\* What is shown as live has a process of its own on the port that is shown, which
\* nobody stopped, unless a launch waited on without its process or first starts
\* overlapped; and what answers through the proxy was launched for the session,
\* unless its port was given to another, or taken by a server that had to move.
ShownIsOwn ==
  \A k \in Key : Shown(k) =>
    /\ live[k].status = "starting" => live[k].child \in waiting
    /\ k \notin outlived \cup overlapped =>
         /\ live[k].child \in Launch \ signalled
         /\ called[live[k].child] = [key |-> k, port |-> live[k].port]
    /\ \A l \in Proxied(k) : called[l].key = k \/ live[k].port \in reissued
===============================================================================
