-------------------------- MODULE LiveSceneStreams --------------------------
(***************************************************************************)
(* The registry together with its fan-out: job subscriptions, session      *)
(* subscriptions and the planner-activity flag (live_scene.py).  Every     *)
(* registry step also publishes: a changed snapshot goes to the job's      *)
(* subscribers and, when the job is current, to the session's; eviction    *)
(* and close end subscriptions.  Queues are bounded and drop their oldest  *)
(* item.                                                                   *)
(***************************************************************************)
EXTENDS LiveSceneRegistry, Sequences

CONSTANTS
  JobClient,     \* clients that follow one job
  SessionClient, \* clients that follow one session
  QueueSize,     \* event_queue_size
  MaxPlanners,   \* bound: planner requests of a session at once
  MaxAfter       \* bound: revision a subscribing client claims to have

ASSUME StreamAssumption == QueueSize \in Nat \ {0} /\ MaxPlanners \in Nat /\ MaxAfter \in Nat

VARIABLES
  feed,    \* JobClient -> its LiveSceneSubscription and what it received
  watch,   \* SessionClient -> its LiveSceneSessionSubscription, likewise
  planner  \* Session -> planner requests under way

streamVars == <<vars, feed, watch, planner>>

-----------------------------------------------------------------------------
(* Items of the queues.                                                    *)

\* what tells the snapshots of one record apart
Snapshot(js, j) == [revision |-> js[j].revision, complete |-> js[j].complete]

Closed == [revision |-> 0, complete |-> FALSE]

\* LiveSceneSessionEvent; rev 0 and NoJob when the session has no scene
EventOf(js, ptr, active, s) ==
  LET j == ptr[s].job
  IN [rev |-> ptr[s].rev, job |-> j,
      revision |-> IF j = NoJob THEN 0 ELSE js[j].revision,
      planner |-> active[s] > 0]

ClosedEvent == [rev |-> 0, job |-> NoJob, revision |-> 0, planner |-> FALSE]

\* fault: the newest item dropped
PutIfRoom(queue, item) ==
  IF Len(queue) >= QueueSize THEN queue ELSE Append(queue, item)

\* _put_snapshot, _put_session_event, _put_closed: drop the oldest when full
Put(queue, item) ==
  Append(IF Len(queue) >= QueueSize THEN Tail(queue) ELSE queue, item)

\* an item, if there is one to publish
PutAny(queue, items) == IF items = <<>> THEN queue ELSE Put(queue, Head(items))

-----------------------------------------------------------------------------
(* state "open": in the subscriber set; "closed": ended by the registry    *)
(* (_closed) with items left to read; "idle": not subscribed.  got is the  *)
(* last item read; done says a terminal snapshot or the end was read.      *)

NoFeed == [state |-> "idle", job |-> NoJob, queue |-> <<>>, got |-> Closed,
           after |-> 0, done |-> FALSE]

NoWatch == [state |-> "idle", session |-> NoSession, queue |-> <<>>,
            got |-> ClosedEvent]

StreamInit ==
  /\ Init
  /\ feed = [c \in JobClient |-> NoFeed]
  /\ watch = [c \in SessionClient |-> NoWatch]
  /\ planner = [s \in Session |-> 0]

(* Published for job j in this step: its new snapshot.  A job superseded   *)
(* and evicted by one submit was published in between.                     *)
JobItems(j) ==
  IF ~jobs[j].retained \/ jobs'[j] = jobs[j]
  THEN <<>>
  ELSE IF jobs'[j].born = jobs[j].born
       THEN <<Snapshot(jobs', j)>>
       ELSE IF jobs[j].complete
            THEN <<>>
            ELSE <<[revision |-> jobs[j].revision + 1, complete |-> TRUE]>>

Gone(j) == jobs[j].retained /\ jobs'[j].born # jobs[j].born

(* An evicted record's subscription reads what is queued, then ends.       *)
FeedAfter(f) ==
  IF f.state # "open"
  THEN f
  ELSE LET queue == PutAny(f.queue, JobItems(f.job))
       IN IF ~Gone(f.job)
          THEN [f EXCEPT !.queue = queue]
          ELSE [f EXCEPT !.state = "closed",
                         !.queue = IF queue = <<>> THEN <<Closed>> ELSE queue]

(* Published to session s in this step: the superseded job, the loss of an *)
(* evicted pointer (unless an activation for s replaces it), the new       *)
(* current job or its new snapshot.                                        *)
Replaced(s) == pointer'[s] # pointer[s]

SupersededItem(s) ==
  LET old == pointer[s].job
  IN IF old # NoJob /\ Replaced(s) /\ old \in Active(jobs)
     THEN <<[rev |-> pointer[s].rev, job |-> old,
             revision |-> jobs[old].revision + 1, planner |-> planner[s] > 0]>>
     ELSE <<>>

\* fault: losses not published
LossUnpublished(s, quiet) == <<>>

LostItem(s, quiet) ==
  IF pointer[s].job # NoJob /\ Gone(pointer[s].job) /\ s # quiet
  THEN <<[ClosedEvent EXCEPT !.planner = planner[s] > 0]>>
  ELSE <<>>

CurrentItem(s) ==
  IF pointer'[s].job # NoJob
       /\ (Replaced(s) \/ jobs'[pointer[s].job] # jobs[pointer[s].job])
  THEN <<EventOf(jobs', pointer', planner, s)>>
  ELSE <<>>

(* In the order the code publishes them.                                   *)
WatchAfter(w, quiet) ==
  IF w.state # "open"
  THEN w
  ELSE LET s == w.session
       IN [w EXCEPT !.queue =
             PutAny(PutAny(PutAny(@, SupersededItem(s)), LostItem(s, quiet)),
                    CurrentItem(s))]

FanOut(quiet) ==
  /\ feed' = [c \in JobClient |-> FeedAfter(feed[c])]
  /\ watch' = [c \in SessionClient |-> WatchAfter(watch[c], quiet)]
  /\ UNCHANGED planner

\* fault: subscribers left waiting
CloseStreamsSilently ==
  /\ planner' = [s \in Session |-> 0]
  /\ UNCHANGED <<feed, watch>>

(* The end of close: every subscription left gets the closing item.        *)
CloseStreams ==
  /\ feed' = [c \in JobClient |->
       IF feed[c].state # "open" THEN feed[c]
       ELSE [feed[c] EXCEPT !.state = "closed", !.queue = Put(@, Closed)]]
  /\ watch' = [c \in SessionClient |->
       IF watch[c].state # "open" THEN watch[c]
       ELSE [watch[c] EXCEPT !.state = "closed", !.queue = Put(@, ClosedEvent)]]
  /\ planner' = [s \in Session |-> 0]

-----------------------------------------------------------------------------
(* subscribe.  after is the revision the client says it has seen; a        *)
(* snapshot is queued at once unless the client is up to date with an      *)
(* unfinished job.                                                         *)
Subscribe(c, j, after) ==
  /\ life = "open"
  /\ Unlocked
  /\ feed[c].state = "idle"
  /\ ~feed[c].done
  /\ jobs[j].retained
  /\ feed' = [feed EXCEPT ![c] =
       [NoFeed EXCEPT
          !.state = "open", !.job = j, !.after = after,
          !.queue = IF jobs[j].revision # after \/ jobs[j].complete
                    THEN <<Snapshot(jobs, j)>> ELSE <<>>]]
  /\ UNCHANGED <<vars, watch, planner>>

(* receive: the next item, or the end of a closed, drained subscription.   *)
Receive(c) ==
  /\ feed[c].state # "idle"
  /\ feed[c].queue # <<>> \/ feed[c].state = "closed"
  /\ LET f == feed[c]
     IN feed' = [feed EXCEPT ![c] =
          IF f.queue = <<>> \/ Head(f.queue) = Closed
          THEN [NoFeed EXCEPT !.done = TRUE]
          ELSE [f EXCEPT !.got = Head(f.queue), !.queue = Tail(f.queue),
                         !.done = f.done \/ Head(f.queue).complete]]
  /\ UNCHANGED <<vars, watch, planner>>

(* The client hangs up; a browser reconnects from the revision it has.     *)
Unsubscribe(c) ==
  /\ Unlocked
  /\ feed[c].state = "open"
  /\ feed' = [feed EXCEPT ![c] = [NoFeed EXCEPT !.done = feed[c].done]]
  /\ UNCHANGED <<vars, watch, planner>>

SubscribeSession(c, s) ==
  /\ life = "open"
  /\ Unlocked
  /\ watch[c].state = "idle"
  /\ watch' = [watch EXCEPT ![c] =
       [NoWatch EXCEPT !.state = "open", !.session = s,
                       !.queue = <<EventOf(jobs, pointer, planner, s)>>]]
  /\ UNCHANGED <<vars, feed, planner>>

ReceiveEvent(c) ==
  /\ watch[c].queue # <<>>
  /\ LET w == watch[c]
     IN watch' = [watch EXCEPT ![c] =
          IF w.state = "closed" /\ Len(w.queue) = 1
          THEN NoWatch
          ELSE [w EXCEPT !.got = Head(w.queue), !.queue = Tail(w.queue)]]
  /\ UNCHANGED <<vars, feed, planner>>

UnsubscribeSession(c) ==
  /\ Unlocked
  /\ watch[c].state = "open"
  /\ watch' = [watch EXCEPT ![c] = NoWatch]
  /\ UNCHANGED <<vars, feed, planner>>

(* set_session_planner_active: only a change of the flag is published.     *)
SetPlanner(s, active) ==
  /\ life = "open"
  /\ Unlocked
  /\ IF active THEN planner[s] < MaxPlanners ELSE planner[s] > 0
  /\ planner' = [planner EXCEPT ![s] = IF active THEN @ + 1 ELSE @ - 1]
  /\ watch' = [c \in SessionClient |->
       IF watch[c].state = "open" /\ watch[c].session = s
            /\ (planner'[s] > 0) # (planner[s] > 0)
       THEN [watch[c] EXCEPT !.queue =
               Put(@, EventOf(jobs, pointer, planner', s))]
       ELSE watch[c]]
  /\ UNCHANGED <<vars, feed>>

-----------------------------------------------------------------------------
RegistryStep ==
  \/ /\ \/ \E r \in Inputs : Submit(r)
        \/ \E j \in JobId : PresentSave(j) \/ RunStep(j) \/ SaveLands(j)
        \/ PresentShow
        \/ ActivateShow
        \/ CloseBegin
     /\ FanOut(NoSession)
  \/ \E j \in PreparedId :
       /\ ActivateDeferred(j) \/ ActivateSave(j)
       /\ FanOut(PreparedFor[j])
  \/ CloseEnd /\ CloseStreams
  \/ Stopped /\ UNCHANGED <<feed, watch, planner>>

ClientStep ==
  \/ \E c \in JobClient :
       \/ \E j \in JobId, after \in 0..MaxAfter : Subscribe(c, j, after)
       \/ Receive(c)
       \/ Unsubscribe(c)
  \/ \E c \in SessionClient :
       \/ \E s \in Session : SubscribeSession(c, s)
       \/ ReceiveEvent(c)
       \/ UnsubscribeSession(c)
  \/ \E s \in Session, active \in BOOLEAN : SetPlanner(s, active)

StreamNext == RegistryStep \/ ClientStep

StreamSpec == StreamInit /\ [][StreamNext]_streamVars

(* Readers keep reading; everything else is as fair as in the registry.    *)
StreamFairness ==
  /\ \A c \in JobClient : WF_streamVars(Receive(c))
  /\ WF_streamVars(PresentShow /\ FanOut(NoSession))
  /\ WF_streamVars(ActivateShow /\ FanOut(NoSession))
  /\ WF_streamVars(CloseEnd /\ CloseStreams)
  /\ \A j \in JobId :
       /\ WF_streamVars(RunStep(j) /\ FanOut(NoSession))
       /\ WF_streamVars(SaveLands(j) /\ FanOut(NoSession))

FairStreamSpec == StreamSpec /\ StreamFairness

-----------------------------------------------------------------------------
(* Properties.                                                             *)

Newest(queue) == queue[Len(queue)]

NewestRevision(f) ==
  IF f.queue # <<>> THEN Newest(f.queue).revision
  ELSE IF f.got # Closed THEN f.got.revision ELSE f.after

(* What a subscriber has read and what is queued for it is the course of   *)
(* its job, in order and, whatever the full queue dropped, up to the       *)
(* job's current snapshot.  (live_scene.py:1607-1614)                      *)
FeedsFollowTheirJob ==
  \A c \in JobClient :
    feed[c].state = "open" =>
      LET read == <<feed[c].got>> \o feed[c].queue IN
      /\ NewestRevision(feed[c]) = jobs[feed[c].job].revision
      /\ \A i, k \in DOMAIN read : i < k => read[i].revision < read[k].revision

NewestEvent(w) == IF w.queue # <<>> THEN Newest(w.queue) ELSE w.got

\* b tells of the loss of the scene, of a later scene than a does, or of the
\* same one in no earlier a state
Before(a, b) ==
  \/ b.rev = 0
  \/ b.rev > a.rev
  \/ b.rev = a.rev /\ b.job = a.job /\ b.revision >= a.revision

\* an activation of the session saves its pack
Activating(s) == lock.holder = "activate" /\ PreparedFor[lock.job] = s

(* A session's watcher sees its scenes in order, each one's snapshots too, *)
(* and ends up with exactly what get_session would answer, whatever was    *)
(* superseded, evicted, presented or activated.  Only the loss of a scene  *)
(* resets the order, and only while an activation of that session saves    *)
(* its pack may the watcher lag.  (live_scene.py:1553-1583, 1597-1629)     *)
WatchersFollowTheirSession ==
  \A c \in SessionClient :
    watch[c].state = "open" =>
      LET seen == <<watch[c].got>> \o watch[c].queue IN
      /\ \/ NewestEvent(watch[c]) = EventOf(jobs, pointer, planner, watch[c].session)
         \/ Activating(watch[c].session)
      /\ \A i \in 1..(Len(seen) - 1) : Before(seen[i], seen[i + 1])

(* Whoever follows a job learns its outcome or that the stream has ended.  *)
FollowersLearnTheEnd ==
  \A c \in JobClient :
    feed[c].state = "open" ~> feed[c].done \/ feed[c].state = "idle"

-----------------------------------------------------------------------------
(* The strengthening that makes the two invariants inductive.              *)

Item == [revision : Nat, complete : BOOLEAN]

Feed == [state : {"idle", "open", "closed"}, job : JobId \cup {NoJob},
         queue : Seq(Item), got : Item, after : Nat, done : BOOLEAN]

Event == [rev : Nat, job : JobId \cup {NoJob}, revision : Nat, planner : BOOLEAN]

Watch == [state : {"idle", "open", "closed"}, session : Session \cup {NoSession},
          queue : Seq(Event), got : Event]

StreamTypeOK ==
  /\ feed \in [JobClient -> Feed]
  /\ watch \in [SessionClient -> Watch]
  /\ planner \in [Session -> Nat]

\* a retained record was published and numbered, so its loss shows
RecordsFit ==
  \A j \in Retained(jobs) : jobs[j].revision > 0 /\ jobs[j].born > 0

\* a session without a scene is at no revision, no session ahead of the sequence
PointersFit ==
  \A s \in Session :
    IF pointer[s].job = NoJob THEN pointer[s].rev = 0
    ELSE pointer[s].rev \in 1..sequence

\* what is queued for a follower are snapshots, each newer than the one before
Rising(f) ==
  /\ \A i, k \in DOMAIN f.queue : i < k => f.queue[i].revision < f.queue[k].revision
  /\ \A k \in DOMAIN f.queue : f.got.revision < f.queue[k].revision

FeedsFit ==
  \A c \in JobClient : feed[c].state = "open" =>
    /\ feed[c].job \in Retained(jobs)
    /\ NewestRevision(feed[c]) = jobs[feed[c].job].revision
    /\ Rising(feed[c])

\* whatever a watcher was sent is behind what it would be sent now
Behind(a, s) ==
  a.rev <= sequence /\ Before(a, EventOf(jobs, pointer, planner, s))

Seen(w) == {w.got} \cup {w.queue[i] : i \in DOMAIN w.queue}

Chained(w) ==
  /\ \A i, k \in DOMAIN w.queue : i < k => Before(w.queue[i], w.queue[k])
  /\ \A k \in DOMAIN w.queue : Before(w.got, w.queue[k])

WatchesFit ==
  \A c \in SessionClient : watch[c].state = "open" =>
    LET s == watch[c].session IN
    /\ s \in Session
    /\ NewestEvent(watch[c]) = EventOf(jobs, pointer, planner, s) \/ Activating(s)
    /\ \A a \in Seen(watch[c]) : Behind(a, s)
    /\ Chained(watch[c])

(* The inductive invariant of the streams, on top of the registry's.       *)
StreamInv ==
  /\ IInv
  /\ StreamTypeOK
  /\ RecordsFit
  /\ PointersFit
  /\ FeedsFit
  /\ WatchesFit
=============================================================================
