----------------------------- MODULE Projector -----------------------------
(***************************************************************************)
(* The projector in live mode (static/projector.js): it follows the        *)
(* server's pointer to the current scene of its session, over an event     *)
(* stream and, while that stream is unhealthy, by polling; it renders each *)
(* accepted revision on a chain of promises and puts it on screen only if  *)
(* its render token is still current.  A new revision, a new job and a     *)
(* restarted server overtake renders that are loading.                     *)
(*                                                                         *)
(* A scene is the record of what the pointer names: the server process,    *)
(* the session revision (one per job), the job's revision, and the media   *)
(* the page would show, 0 while the snapshot cannot be displayed.          *)
(***************************************************************************)
EXTENDS Integers, Sequences

CONSTANTS
  QueueSize,   \* event_queue_size of the registry
  MaxChanges,  \* bound on what the server does: jobs, revisions, evictions, plans
  MaxFaults    \* bound on restarts, broken connections, failed requests and renders

ASSUME ProjectorAssumption == QueueSize \in Nat \ {0}

Idle == [is |-> "idle"]
Asked == [is |-> "asked"]
Broken == [is |-> "failed"]
Answered(pointer) == [is |-> "answered", pointer |-> pointer]
NoScene == [instance |-> 0, session |-> 0, revision |-> 0, media |-> 0]

VARIABLES
  server,    \* the current scene, and [planner, issued] beside it
  queue,     \* the events of the projector's subscription not received yet
  stream,    \* "unopened", "open", "broken"
  healthy,   \* liveSessionStreamHealthy
  timer,     \* a rendezvous is scheduled
  poll,      \* the status request on its way: Idle, Asked, Broken or Answered
  client,    \* what the projector has accepted and committed
  chain,     \* liveTransition: the renders in order, the first one running
  screen,    \* the scene on the wall
  failed,    \* the last scene whose render did not end as its stage asks
  done       \* what is used of each bound

transport == <<stream, healthy, timer>>
vars == <<server, queue, stream, healthy, timer, poll, client, chain, screen, failed, done>>

Spend(what) == done' = [done EXCEPT ![what] = @ + 1]

-----------------------------------------------------------------------------
(* The server: the registry's session pointer, as LiveSceneRegistry has it. *)
Scene == [instance |-> server.instance, session |-> server.session,
          revision |-> server.revision, media |-> server.media]
Pointer == [scene |-> Scene, planner |-> server.planner]

\* The status a poll reads has no planner_active; the projector takes that for false.
Status == [scene |-> Scene, planner |-> FALSE]

Offered(q, event) == IF Len(q) = QueueSize THEN Append(Tail(q), event) ELSE Append(q, event)
Published == queue' = IF stream = "open" THEN Offered(queue, Pointer') ELSE queue

ServerStep ==
  /\ Published
  /\ done.changes < MaxChanges /\ Spend("changes")
  /\ UNCHANGED <<transport, poll, client, chain, screen, failed>>

\* A new job takes the session over: a generation starts with nothing to show,
\* a prepared pack is complete at once.
NewJob(media) ==
  /\ server' = [server EXCEPT !.session = server.issued + 1, !.issued = @ + 1,
                              !.revision = 0, !.media = media]
  /\ ServerStep

NewRevision(media) ==
  /\ server.session # 0
  /\ server' = [server EXCEPT !.revision = @ + 1, !.media = media]
  /\ ServerStep

\* The job of the session was evicted: the pointer is withdrawn.
Evicted ==
  /\ server.session # 0
  /\ server' = [server EXCEPT !.session = 0, !.revision = 0, !.media = 0]
  /\ ServerStep

PlannerTurns ==
  /\ server' = [server EXCEPT !.planner = ~@]
  /\ ServerStep

\* The browser sees the end of the connection as one error event.
BreakStream ==
  /\ stream' = IF stream = "open" THEN "broken" ELSE stream
  /\ IF stream = "open" THEN healthy' = FALSE /\ timer' = TRUE /\ queue' = <<>>
     ELSE UNCHANGED <<healthy, timer, queue>>

\* A request the old process has not answered fails with it.
Restart ==
  /\ done.faults < MaxFaults
  /\ server' = [instance |-> server.instance + 1, session |-> 0, revision |-> 0,
                media |-> 0, planner |-> FALSE, issued |-> 0]
  /\ BreakStream
  /\ poll' = IF poll = Asked THEN Broken ELSE poll
  /\ Spend("faults")
  /\ UNCHANGED <<client, chain, screen, failed>>

ConnectionLost ==
  /\ done.faults < MaxFaults /\ stream = "open"
  /\ BreakStream
  /\ Spend("faults")
  /\ UNCHANGED <<server, poll, client, chain, screen, failed>>

-----------------------------------------------------------------------------
(* Renders.                                                                *)
Accepted == [instance |-> client.instance, session |-> client.session,
             revision |-> client.accepted]
Names(scene) == [instance |-> scene.instance, session |-> scene.session,
                 revision |-> scene.revision]

\* The epoch and the abort signal of every earlier token are gone.  A render whose
\* turn has not come yet would return at once: it leaves the chain here.
Overtaken(renders) ==
  IF renders = <<>> \/ Head(renders).phase = "queued" THEN <<>>
  ELSE <<[Head(renders) EXCEPT !.current = FALSE]>>
TokenIsCurrent(render) == render.current /\ Names(render.scene) = Accepted

Render(scene) == [scene |-> scene, current |-> TRUE, phase |-> "queued"]

\* queueLiveSceneSnapshot, once the pointer's session has been taken over.  A
\* revision that is being rendered or that is committed is not rendered again.
Queue(c, renders, scene) ==
  LET sameJob == c.acceptedJob = scene.session
      again == sameJob /\ scene.revision = c.accepted
  IN IF \/ sameJob /\ scene.revision < c.accepted
        \/ again /\ (c.pending \/ scene.media = 0 \/ c.committed = scene.revision)
     THEN client' = c /\ chain' = renders
     ELSE /\ client' = [c EXCEPT !.accepted = scene.revision, !.acceptedJob = scene.session,
                                 !.pending = TRUE,
                                 !.committed = IF sameJob THEN @ ELSE -1,
                                 !.fingerprint = IF sameJob THEN @ ELSE 0]
          /\ chain' = Append(Overtaken(renders), Render(scene))

Fresh(instance) ==
  [instance |-> instance, session |-> 0, accepted |-> -1, acceptedJob |-> 0,
   pending |-> FALSE, committed |-> -1, fingerprint |-> 0, planner |-> FALSE]

\* Fault: a pointer is accepted whatever revision of the session it names.
AcceptAnySession(pointer) ==
  LET scene == pointer.scene
      moved == scene.instance # client.instance
      c == [(IF moved THEN Fresh(scene.instance) ELSE client) EXCEPT !.planner = pointer.planner]
      renders == IF moved THEN Overtaken(chain) ELSE chain
  IN IF scene.session = 0 THEN client' = c /\ chain' = renders
     ELSE Queue([c EXCEPT !.session = scene.session], renders, scene)

\* acceptLiveSceneSessionPointer: the planner's activity comes before the checks
\* on revisions, and another server process clears all that was accepted.
Accept(pointer) ==
  LET scene == pointer.scene
      moved == scene.instance # client.instance
      c == [(IF moved THEN Fresh(scene.instance) ELSE client) EXCEPT !.planner = pointer.planner]
      renders == IF moved THEN Overtaken(chain) ELSE chain
  IN IF scene.session = 0 \/ scene.session < c.session
     THEN client' = c /\ chain' = renders
     ELSE Queue([c EXCEPT !.session = scene.session], renders, scene)

Finished == chain' = Tail(chain)
Loading == chain # <<>> /\ Head(chain).phase = "loading"

\* The transition's turn has come: a snapshot that cannot be displayed only
\* changes the badge, unchanged media are committed without a render.
BeginRender ==
  /\ chain # <<>> /\ Head(chain).phase = "queued"
  /\ LET render == Head(chain) IN
     IF ~TokenIsCurrent(render) THEN Finished /\ UNCHANGED client
     ELSE IF render.scene.media = 0
     THEN Finished /\ client' = [client EXCEPT !.pending = FALSE]
     ELSE IF render.scene.media = client.fingerprint
     THEN /\ Finished
          /\ client' = [client EXCEPT !.pending = FALSE, !.committed = render.scene.revision]
     ELSE /\ chain' = [chain EXCEPT ![1].phase = "loading"]
          /\ UNCHANGED client
  /\ UNCHANGED <<server, queue, transport, poll, screen, failed, done>>

\* commitSceneVersion: the loaded layers replace those on screen, or are discarded.
\* Artwork that falls back to a poorer mode is shown too.
Commit(mode) ==
  /\ Loading
  /\ IF TokenIsCurrent(Head(chain))
     THEN screen' = Head(chain).scene /\ chain' = [chain EXCEPT ![1].phase = mode]
     ELSE Finished /\ UNCHANGED screen
  /\ IF mode = "fallback" THEN done.faults < MaxFaults /\ Spend("faults")
     ELSE UNCHANGED done
  /\ UNCHANGED <<server, queue, transport, poll, client, failed>>

\* The media cannot be loaded, or the renderer does not start: the transition's catch.
RenderFails ==
  /\ done.faults < MaxFaults
  /\ Loading
  /\ IF Head(chain).current
     THEN client' = [client EXCEPT !.pending = FALSE] /\ failed' = Names(Head(chain).scene)
     ELSE UNCHANGED <<client, failed>>
  /\ Finished
  /\ Spend("faults")
  /\ UNCHANGED <<server, queue, transport, poll, screen>>

\* Fault: the token is not looked at again once the scene is painted.
EndRenderUnchecked ==
  /\ chain # <<>> /\ Head(chain).phase \in {"shown", "fallback"}
  /\ LET render == Head(chain)
         satisfied == render.phase = "shown"
     IN /\ client' = IF satisfied
                     THEN [client EXCEPT !.pending = FALSE,
                                         !.committed = render.scene.revision,
                                         !.fingerprint = render.scene.media]
                     ELSE [client EXCEPT !.pending = FALSE]
        /\ failed' = IF satisfied THEN failed ELSE Names(render.scene)
  /\ Finished
  /\ UNCHANGED <<server, queue, transport, poll, screen, done>>

\* The first frame is painted.  Only a mode that satisfies the stage is recorded.
EndRender ==
  /\ chain # <<>> /\ Head(chain).phase \in {"shown", "fallback"}
  /\ LET render == Head(chain)
         satisfied == render.phase = "shown"
     IN IF ~TokenIsCurrent(render) THEN UNCHANGED <<client, failed>>
        ELSE /\ client' = IF satisfied
                          THEN [client EXCEPT !.pending = FALSE,
                                              !.committed = render.scene.revision,
                                              !.fingerprint = render.scene.media]
                          ELSE [client EXCEPT !.pending = FALSE]
             /\ failed' = IF satisfied THEN failed ELSE Names(render.scene)
  /\ Finished
  /\ UNCHANGED <<server, queue, transport, poll, screen, done>>

-----------------------------------------------------------------------------
(* Transport.                                                              *)

\* The first connection is made once startup has read and rendered what there
\* was; later ones are the browser's.  A connection the server refuses is not
\* tried again by the browser, so nothing promises that a broken stream reopens.
\* Timing: an answer of a process that has ended is read before the stream to the
\* next one opens.
StartedUp == stream = "unopened" /\ poll = Idle /\ chain = <<>>

Connect ==
  /\ StartedUp \/ stream = "broken"
  /\ poll.is = "answered" => poll.pointer.scene.instance = server.instance
  /\ stream' = "open" /\ queue' = <<Pointer>>
  /\ timer' = (timer \/ client.instance = 0)
  /\ UNCHANGED <<server, healthy, poll, client, chain, screen, failed, done>>

\* The first connection fails; from here on only the browser's retries open it.
ConnectFails ==
  /\ StartedUp /\ done.faults < MaxFaults
  /\ stream' = "broken" /\ timer' = TRUE
  /\ Spend("faults")
  /\ UNCHANGED <<server, queue, healthy, poll, client, chain, screen, failed>>

ReceiveEvent ==
  /\ stream = "open" /\ queue # <<>>
  /\ Accept(Head(queue))
  /\ queue' = Tail(queue)
  /\ healthy' = TRUE /\ timer' = FALSE
  /\ UNCHANGED <<server, stream, poll, screen, failed, done>>

\* The timer calls rendezvousLiveScene, which has nothing to do while the stream
\* is healthy or a request is on its way.
Rendezvous ==
  /\ timer
  /\ timer' = FALSE
  /\ poll' = IF healthy \/ poll # Idle THEN poll ELSE Asked
  /\ UNCHANGED <<server, queue, stream, healthy, client, chain, screen, failed, done>>

AnswerPoll ==
  /\ poll = Asked
  /\ \/ poll' = Answered(Status) /\ UNCHANGED done
     \/ poll' = Broken /\ done.faults < MaxFaults /\ Spend("faults")
  /\ UNCHANGED <<server, queue, transport, client, chain, screen, failed>>

\* Fault: a poll is not followed by another.
NotRescheduled == UNCHANGED timer

Rescheduled == timer' = (stream # "unopened" /\ ~healthy)

\* The answer is accepted and the next poll scheduled.  At startup a pointer
\* without a pack is left to the stream; a session without a job answers 404.
ReadPoll ==
  /\ \/ poll = Broken /\ UNCHANGED <<client, chain>>
     \/ /\ poll.is = "answered" /\ poll.pointer.scene.session # 0
        /\ Accept(poll.pointer)
     \/ /\ poll.is = "answered"
        /\ \/ poll.pointer.scene.session = 0
           \/ stream = "unopened" /\ poll.pointer.scene.media = 0
        /\ UNCHANGED <<client, chain>>
  /\ poll' = Idle
  /\ Rescheduled
  /\ UNCHANGED <<server, queue, stream, healthy, screen, failed, done>>

Init ==
  /\ server = [instance |-> 1, session |-> 0, revision |-> 0, media |-> 0,
               planner |-> FALSE, issued |-> 0]
  /\ queue = <<>> /\ stream = "unopened" /\ healthy = FALSE /\ timer = FALSE
  /\ poll = Asked  \* restoreAuthoritativeLiveSession
  /\ client = Fresh(0) /\ chain = <<>> /\ screen = NoScene
  /\ failed = Names(NoScene)
  /\ done = [changes |-> 0, faults |-> 0]

RenderStep == BeginRender \/ Commit("shown") \/ Commit("fallback") \/ RenderFails \/ EndRender
TransportStep == ReceiveEvent \/ Rendezvous \/ AnswerPoll \/ ReadPoll

Next ==
  \/ \E media \in {0, 1} : NewJob(media)
  \/ \E media \in {server.media, server.media + 1} : NewRevision(media)
  \/ Evicted
  \/ PlannerTurns
  \/ Restart
  \/ ConnectionLost
  \/ Connect
  \/ ConnectFails
  \/ RenderStep
  \/ TransportStep

Spec == Init /\ [][Next]_vars

\* The browser runs its tasks, a request is answered, and startup ends in a first
\* attempt to connect; whether the stream ever opens is left open.
FairSpec ==
  /\ Spec
  /\ WF_vars(RenderStep)
  /\ WF_vars(ReceiveEvent)
  /\ WF_vars(Rendezvous)
  /\ WF_vars(AnswerPoll)
  /\ WF_vars(ReadPoll)
  /\ WF_vars(StartedUp /\ (Connect \/ ConnectFails))

-----------------------------------------------------------------------------
(* Properties.                                                             *)
Earlier(a, b) ==
  \/ a.instance < b.instance
  \/ a.instance = b.instance /\ a.session < b.session
  \/ a.instance = b.instance /\ a.session = b.session /\ a.revision < b.revision

\* The wall never goes back to an earlier scene or to an earlier revision of its
\* scene, whatever loads slowly and whatever answer comes late.
\* (projector.js:799, docs/architecture.md:5)
ScreenNeverBack == [][~Earlier(screen', screen)]_vars

\* What the projector reports as activated is what is on the wall: the committed
\* revision, as long as no later one is accepted, has its job and media on screen.
\* (projector.js:1770-1793)
ActivatedIsShown ==
  client.committed # -1 /\ client.committed = client.accepted =>
    /\ screen.instance = client.instance /\ screen.session = client.session
    /\ screen.media = client.fingerprint

\* When the server stops changing, the wall shows its scene, or the last attempt at
\* it failed and the flag that keeps a revision from being offered again is down;
\* polling alone is enough, the stream need never open again.
\* (projector.js:1709, 1795-1801, 1907-1945)
Converges ==
  <>[](server.media # 0 =>
         \/ [screen EXCEPT !.revision = 0] = [Scene EXCEPT !.revision = 0]
         \/ failed = Names(Scene) /\ ~client.pending)

\* live_scene.py:1056: planner activity is published "so a projector can yield its
\* GPU".  With the stream healthy and everything delivered, the projector's flag is
\* the server's.
PlannerFollowed ==
  healthy /\ queue = <<>> /\ poll = Idle => client.planner = server.planner

-----------------------------------------------------------------------------
(* The strengthening that makes ActivatedIsShown inductive and keeps the   *)
(* wall from going back.                                                   *)
Servers == [instance : Nat, session : Nat, revision : Nat, media : Nat,
            planner : BOOLEAN, issued : Nat]
Scenes == [instance : Nat, session : Nat, revision : Nat, media : Nat]
Pointers == [scene : Scenes, planner : BOOLEAN]
Phases == {"queued", "loading", "shown", "fallback"}
Renders == [scene : Scenes, current : BOOLEAN, phase : Phases]
Clients == [instance : Nat, session : Nat, accepted : Nat \cup {-1}, acceptedJob : Nat,
            pending : BOOLEAN, committed : Nat \cup {-1}, fingerprint : Nat,
            planner : BOOLEAN]

TypeOK ==
  /\ server \in Servers
  /\ queue \in Seq(Pointers)
  /\ stream \in {"unopened", "open", "broken"}
  /\ poll.is = "answered" => poll.pointer \in Pointers
  /\ client \in Clients
  /\ chain \in Seq(Renders)
  /\ screen \in Scenes

Waiting == IF poll.is = "answered" THEN {poll.pointer.scene} ELSE {}

\* Every scene that is shown, being rendered, on its way or the server's.
ScenesIn(items) == {items[i].scene : i \in DOMAIN items}
Known == {screen, Scene} \cup Waiting \cup ScenesIn(chain) \cup ScenesIn(queue)

SameJob(a, b) == a.instance = b.instance /\ a.session = b.session

\* The server has been through every scene known.
Issued(scene) ==
  /\ scene.session = 0 => scene.revision = 0 /\ scene.media = 0
  /\ scene.instance <= server.instance
  /\ scene.instance = server.instance => scene.session <= server.issued
  /\ SameJob(scene, server) => scene.revision <= server.revision

\* Media only get better from one revision of a job to the next.
Agree(a, b) == SameJob(a, b) /\ a.revision <= b.revision => a.media <= b.media

ScenesFit ==
  /\ \A scene \in Known : Issued(scene)
  /\ \A a, b \in Known : Agree(a, b)

\* No event, and no answer of a poll, is of an earlier process than what the
\* projector has accepted.
TransportFits ==
  /\ client.instance <= server.instance
  /\ stream # "open" => queue = <<>>
  /\ \A i \in DOMAIN queue : queue[i].scene.instance = server.instance
  /\ poll.is = "answered" =>
       /\ client.instance <= poll.pointer.scene.instance
       /\ stream = "open" => poll.pointer.scene.instance = server.instance

\* The wall shows no later scene than the one accepted.
ClientFits ==
  /\ client.acceptedJob = client.session
  /\ client.session # 0 => client.accepted # -1
  /\ client.committed <= client.accepted
  /\ screen.instance <= client.instance
  /\ screen.instance = client.instance => screen.session <= client.session
  /\ SameJob(screen, client) => screen.session = 0 \/ screen.revision <= client.accepted

\* Something of the job is on the wall, at least as good as what was committed.
CommittedFits ==
  IF client.committed = -1 THEN client.fingerprint = 0
  ELSE /\ SameJob(screen, client) /\ client.fingerprint # 0
       /\ client.fingerprint <= screen.media

\* Only the last render of the chain may still come to be shown, only the first one
\* has begun, and what it has painted is on the wall.
ChainFits ==
  /\ \A i \in DOMAIN chain :
       /\ chain[i].scene.session # 0
       /\ i # 1 => chain[i].phase = "queued"
       /\ chain[i].phase # "queued" => chain[i].scene.media # 0
       /\ chain[i].phase \in {"shown", "fallback"} => screen = chain[i].scene
       /\ chain[i].current => i = Len(chain)
       /\ TokenIsCurrent(chain[i]) => client.committed # client.accepted

IInv == /\ TypeOK /\ ScenesFit /\ TransportFits /\ ClientFits /\ CommittedFits
        /\ ChainFits /\ ActivatedIsShown
=============================================================================
