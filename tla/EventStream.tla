------------------------------ MODULE EventStream ------------------------------
(***************************************************************************)
(* How the events of a session reach those who watch it: the event store   *)
(* publishes what it committed (event_repo.go), the broker hands it to     *)
(* bounded channels (broker.go), GET /api/stream replays and follows one   *)
(* session, or follows all of them and projects each event from the        *)
(* snapshot (stream_handler.go, web_compat_service.go), and the page folds *)
(* what it receives into its store (apps/web, domains/execution/store.ts,  *)
(* hooks/useSSE.ts, features/session/useSession.ts).                       *)
(*                                                                         *)
(* Composed with SessionRuntime, whose steps append the events.            *)
(***************************************************************************)
EXTENDS SessionRuntime, TLC

CONSTANTS
  ReplayCap,    \* capacity of a session subscriber's channel (32 in the code)
  FeedCap,      \* capacity of a global subscriber's channel (64)
  MaxConnects, MaxFetches   \* bounds

\* What the page posts itself; other clients may post anything.
ResumeCommand == [kind |-> "resume", node |-> NoNode]

ASSUME StreamAssumption ==
  /\ ReplayCap \in Nat \ {0} /\ FeedCap \in Nat \ {0}
  /\ MaxConnects \in Nat /\ MaxFetches \in Nat
  /\ ResumeCommand \in ClientCommand

VARIABLES
  published,  \* revisions the store handed to the broker
  viewer,     \* "api": the stream of one session; "web": the page
  link,       \* the viewer's connection
  chan,       \* revisions in its channel
  last,       \* api: lastRevision of the handler, afterRevision of the next request
  got,        \* api: revisions received
  page,       \* web: the session in the execution store
  fetch,      \* web: the request of loadSessionIntoStore in flight
  unseen,     \* history: revisions published while the api viewer could not receive them
  outdated,   \* history: the page was last changed by something older than the session
  connects, fetches   \* counters of the bounds

replay == <<last, got, unseen>>
web == <<page, fetch, outdated, fetches>>
streamVars == <<published, viewer, link, chan, last, got, page, fetch, unseen, outdated,
                connects, fetches>>
allVars == <<vars, streamVars>>

RunStatus == {"idle", "running", "done", "failed"}
Page == [run : RunStatus, node : [Node -> NodeStatus \cup {"unknown"}]]
NoFetch == [stage |-> "none"]
Cap == IF viewer = "api" THEN ReplayCap ELSE FeedCap

\* One viewer of either kind: the broker never waits for one, so that viewers
\* do not touch each other.
StreamInit ==
  /\ Init
  /\ published = 0 /\ viewer \in {"api", "web"}
  /\ link = "off" /\ chan = <<>> /\ last = 0 /\ got = {} /\ unseen = {}
  /\ page = [run |-> "idle", node |-> [n \in Node |-> "unknown"]]
  /\ fetch = NoFetch /\ outdated = FALSE
  /\ connects = 0 /\ fetches = 0

-----------------------------------------------------------------------------
(* The producer                                                             *)

\* EventStore.Append returns to the actor once it has published what it
\* committed; nobody else waits for that.
AppendReturned == published = Len(events)

RuntimeStep ==
  /\ \/ AppendReturned /\ (Actor \/ Fault)
     \/ StartRun \/ Restart
     \/ \E c \in ClientCommand : Send(c)
  /\ UNCHANGED streamVars

Ends(r) == events[r].type \in {"graph_completed", "graph_failed"}

\* Whether a later end was already on its way when this one arrives.
EndedAgain(r) == \E q \in (r + 1)..published : Ends(q)

\* InMemoryBroker.Publish: a full channel loses the event.
Publish ==
  /\ published < Len(events)
  /\ published' = published + 1
  /\ LET taken == link = "live" /\ Len(chan) < Cap IN
     /\ chan' = IF taken THEN Append(chan, published') ELSE chan
     /\ unseen' = IF taken \/ link = "off" \/ viewer = "web" THEN unseen
                   ELSE unseen \cup {published'}
     /\ outdated' = (outdated \/ (viewer = "web" /\ ~taken /\ Ends(published')))
  /\ UNCHANGED <<vars, viewer, link, last, got, page, fetch, fetches, connects>>

Hangup == link' = "off" /\ chan' = <<>> /\ outdated' = (viewer = "web")

Disconnect ==
  /\ link # "off" /\ Hangup
  /\ UNCHANGED <<vars, published, viewer, replay, page, fetch, fetches, connects>>

\* The connections end with the process; a committed event may be unpublished.
CrashLosesStream ==
  /\ Crash /\ Hangup
  /\ published' = Len(events) /\ fetch' = NoFetch
  /\ UNCHANGED <<viewer, replay, page, fetches, connects>>

-----------------------------------------------------------------------------
(* GET /api/stream?sessionId=...&afterRevision=...                          *)

\* EventStore.List, written to the response before the subscription.
Replay ==
  /\ viewer = "api" /\ link = "off" /\ pc # "down" /\ connects < MaxConnects
  /\ link' = "listed" /\ connects' = connects + 1
  /\ got' = got \cup (last + 1 .. Len(events))
  /\ last' = IF Len(events) > last THEN Len(events) ELSE last
  /\ UNCHANGED <<vars, published, viewer, chan, unseen, web>>

\* Mutant: the stream goes on from the latest revision, not from the last listed.
SubscribeAtHead ==
  /\ viewer = "api" /\ link = "listed"
  /\ link' = "live" /\ last' = Len(events)
  /\ UNCHANGED <<vars, published, viewer, chan, got, unseen, web, connects>>

\* Broker.Subscribe ignores the revision it is given: the channel starts empty.
Subscribe ==
  /\ viewer = "api" /\ link = "listed"
  /\ link' = "live"
  /\ UNCHANGED <<vars, published, viewer, chan, replay, web, connects>>

Take == viewer = "api" /\ link = "live" /\ chan # <<>> /\ chan' = Tail(chan)

Follow ==
  /\ Take
  /\ IF Head(chan) > last
     THEN got' = got \cup {Head(chan)} /\ last' = Head(chan)
     ELSE UNCHANGED <<got, last>>
  /\ UNCHANGED <<vars, published, viewer, link, unseen, web, connects>>

-----------------------------------------------------------------------------
(* GET /api/stream without a session: the page                              *)

\* SubscribeAll; an EventSource connects again by itself and asks for nothing
\* it missed.
Connect ==
  /\ viewer = "web" /\ link = "off" /\ pc # "down" /\ connects < MaxConnects
  /\ link' = "live" /\ connects' = connects + 1
  /\ UNCHANGED <<vars, published, viewer, chan, replay, web>>

NodeEvent == {"node_started", "node_verifying", "node_completed", "node_failed",
              "node_retry", "checkpoint_approved"}

NodeUpdate(n) == [type |-> "node_update", node |-> n, status |-> snap.node[n]]

\* ProjectRealtimeEvent: a node is sent as the snapshot has it when the event is
\* delivered; without a snapshot there is nothing to send.
Projected(e) ==
  CASE e.type \in NodeEvent /\ snap # NoGraph -> NodeUpdate(e.node)
    [] e.type = "graph_completed" /\ snap # NoGraph -> [type |-> "graph_done"]
    [] e.type = "graph_failed" /\ snap # NoGraph -> [type |-> "graph_failed"]
    [] e.type \in NodeEvent \cup {"graph_completed", "graph_failed"} /\ snap = NoGraph ->
         [type |-> "nothing"]
    [] OTHER -> [type |-> "log"]

\* applyRealtimeEvent: a node event does not take an ended session back.
Applied(p, m) ==
  CASE m.type = "node_update" ->
         [p EXCEPT !.node[m.node] = m.status,
                   !.run = IF @ \in {"done", "failed"} THEN @ ELSE "running"]
    [] m.type = "graph_done" -> [p EXCEPT !.run = "done"]
    [] m.type = "graph_failed" -> [p EXCEPT !.run = "failed"]
    [] OTHER -> p

Deliver ==
  /\ viewer = "web" /\ link = "live" /\ chan # <<>>
  /\ chan' = Tail(chan)
  /\ page' = Applied(page, Projected(events[Head(chan)]))
  /\ outdated' = IF Ends(Head(chan)) THEN EndedAgain(Head(chan)) ELSE outdated
  /\ UNCHANGED <<vars, published, viewer, link, replay, fetch, fetches, connects>>

\* loadSessionIntoStore: a later call makes the answer of an earlier one be
\* ignored.  A session just started or to be resumed is shown as running.
Load(optimistic, resume) ==
  /\ viewer = "web" /\ pc # "down" /\ sess # "none" /\ fetches < MaxFetches
  /\ fetches' = fetches + 1
  /\ fetch' = [stage |-> "asked", optimistic |-> optimistic, resume |-> resume]
  /\ page' = IF optimistic THEN [page EXCEPT !.run = "running"] ELSE page
  /\ outdated' = (outdated \/ optimistic)
  /\ UNCHANGED <<vars, published, viewer, link, chan, replay, connects>>

OpenSession == Load(FALSE, FALSE)
ActivateStarted == origin # "boot" /\ Load(TRUE, FALSE)
HandleResumeClick == Load(TRUE, TRUE)

\* GetSessionGraph: read now, applied later.
AnswerGraph ==
  /\ fetch.stage = "asked" /\ pc # "down"
  /\ fetch' = [fetch EXCEPT !.stage = "answered"] @@
       [answer |-> IF snap = NoGraph
                   THEN [status |-> sess, node |-> page.node, empty |-> TRUE]
                   ELSE [status |-> snap.status, node |-> snap.node, empty |-> FALSE]]
  /\ UNCHANGED <<vars, published, viewer, link, chan, replay, page, outdated, fetches, connects>>

\* Mutant: only a completed session is recognised as ended.
ResolveDone(status) == IF status = "done" THEN status ELSE "running"

ResolveRunStatus(status) ==
  IF status \in {"done", "failed"} THEN status ELSE "running"

Loaded == IF fetch.resume THEN [stage |-> "resume"] ELSE NoFetch

\* replaceSessionSnapshot
ReceiveGraph ==
  /\ fetch.stage = "answered"
  /\ page' = [run  |-> ResolveRunStatus(fetch.answer.status),
              node |-> IF fetch.answer.empty THEN [n \in Node |-> "unknown"]
                       ELSE fetch.answer.node]
  /\ outdated' = (snap = NoGraph \/ fetch.answer.status # snap.status)
  /\ fetch' = Loaded
  /\ UNCHANGED <<vars, published, viewer, link, chan, replay, fetches, connects>>

\* The request fails: what is shown stays, without an optimistic status as idle.
LoadFails ==
  /\ fetch.stage \in {"asked", "answered"}
  /\ page' = IF fetch.optimistic THEN page ELSE [page EXCEPT !.run = "idle"]
  /\ outdated' = TRUE
  /\ fetch' = Loaded
  /\ UNCHANGED <<vars, published, viewer, link, chan, replay, fetches, connects>>

\* handleResume posts once the graph is loaded; a session without a runtime is
\* shown as failed.
PostResume ==
  /\ fetch.stage = "resume"
  /\ \/ Send(ResumeCommand) /\ UNCHANGED <<page, outdated>>
     \/ ~Managed /\ page' = [page EXCEPT !.run = "failed"] /\ outdated' = TRUE /\ UNCHANGED vars
  /\ fetch' = NoFetch
  /\ UNCHANGED <<published, viewer, link, chan, replay, fetches, connects>>

-----------------------------------------------------------------------------
Viewer ==
  \/ Replay \/ Subscribe \/ Follow
  \/ Connect \/ Deliver
  \/ OpenSession \/ ActivateStarted \/ HandleResumeClick
  \/ AnswerGraph \/ ReceiveGraph \/ LoadFails \/ PostResume

StreamNext == RuntimeStep \/ Publish \/ Disconnect \/ CrashLosesStream \/ Viewer

StreamSpec == StreamInit /\ [][StreamNext]_allVars

-----------------------------------------------------------------------------
(* Properties                                                               *)

StreamTypeOK ==
  /\ published \in 0..Len(events) /\ viewer \in {"api", "web"}
  /\ link \in {"off", "listed", "live"}
  /\ chan \in Seq(1..published) /\ Len(chan) <= Cap
  /\ last \in 0..Len(events) /\ got \subseteq 1..Len(events) /\ unseen \subseteq 1..Len(events)
  /\ page \in Page /\ outdated \in BOOLEAN

\* The stream of a session never goes back or repeats itself, neither where the
\* live channel overlaps the replay nor across connections: what it delivers is
\* newer than everything it delivered before.
InOrder == [][last' >= last /\ \A r \in got' \ got : r > last]_allVars

\* A revision the stream has passed over was published in the gap between the
\* replay and the subscription, or met a full channel; nothing else is lost,
\* whatever connections and processes end.
NothingElseLost == viewer = "api" => (1..last) \ got \subseteq unseen

Quiet ==
  /\ pc = "idle" /\ queue = <<>> /\ AppendReturned
  /\ link = "live" /\ chan = <<>> /\ fetch = NoFetch

\* A page that watched a session to its end shows that end, unless it was cut
\* off, lost the last event, or the last thing it was told about the session
\* was older than that.
FinishedIsShown ==
  viewer = "web" /\ Quiet /\ ~outdated /\ sess \in {"done", "failed"} => page.run = sess
=============================================================================
