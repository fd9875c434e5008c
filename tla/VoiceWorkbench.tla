--------------------------- MODULE VoiceWorkbench ---------------------------
(***************************************************************************)
(* The workbench in voice mode (static/workbench.js).  While a child       *)
(* describes a scene, the page transcribes what was recorded so far again  *)
(* and again, has each description checked, buys artwork for one at a time *)
(* and shows a finished scene only if it is what was described last.  The  *)
(* page is one thread: what a handler does up to its next await is one     *)
(* step, and Pump, Compile and TryPresent, which many handlers call, are   *)
(* functions of the page.                                                  *)
(*                                                                         *)
(* A text stands for the description with the page's visual style.  The    *)
(* server is one session of the registry, which other clients use too.     *)
(***************************************************************************)
EXTENDS Integers

CONSTANTS
  Text,           \* what may be heard or typed
  Meaning,        \* the visual facts of each text, as the checker finds them
  Static,         \* texts whose subjects do nothing
  Elsewhere,      \* texts that other clients submit
  Poll,           \* requests of pollLiveScene that may be under way at once
  None,
  MaxRecordings,  \* bound on recordings, also on those that fail to start
  MaxClicks,      \* bound on edits and on presses of the generate button
  MaxTrouble      \* bound on scenes of other clients, failed jobs and requests, lost
                  \* answers, broken streams and restarts together

ASSUME WorkbenchAssumption ==
  /\ None \notin Text /\ Static \subseteq Text /\ Elsewhere \subseteq Text
  /\ \A text \in Text : Meaning[text] # None

VARIABLES
  server,  \* the session's current job: see Empty
  stream,  \* the event stream: see Broken
  poll,    \* pollLiveScene between its awaits
  page,    \* see Loaded
  paid,    \* history: what each recording has had submitted by itself
  done     \* what is used of each bound

vars == <<server, stream, poll, page, paid, done>>

NoJob == <<0, 0>>
JobOf(pointer) == <<pointer.instance, pointer.rev>>
Empty(instance) == [instance |-> instance, rev |-> 0, text |-> None,
                    sub |-> 0, stage |-> "none", shown |-> FALSE]
Over(pointer) == pointer.stage \in {"complete", "failed"}

NoIntent == [text |-> None]
Idle == [phase |-> "idle"]
NoPoll == [phase |-> "none"]

\* A connection that has told nothing yet.
Broken ==
  [said    |-> Empty(0),  \* what it told last of the session
   due     |-> FALSE,     \* whether the page has yet to hear that
   up      |-> FALSE,     \* liveSessionStreamHealthy
   revived |-> FALSE]     \* history: the page has heard that a job has ended, and follows
                          \* it again for what a poll had been told before

\* The page when it has loaded and connected; nothing is typed.
Loaded ==
  [mic       |-> "off",     \* starting, on (listening), stopping (finalizing)
   epoch     |-> 0,         \* recordingEpoch
   partial   |-> FALSE,     \* partialBusy
   story     |-> None,      \* the text field
   latest    |-> NoIntent,  \* voiceGeneration.latest
   timer     |-> FALSE,     \* voiceGeneration.timer
   attempted |-> {},        \* voiceGeneration.attempted
   checking  |-> NoIntent,  \* voiceGeneration.checking
   active    |-> None,      \* voiceGeneration.active
   completed |-> [job |-> NoJob],  \* voiceGeneration.completed
   submitting |-> FALSE,    \* generationSubmitting
   compiles  |-> {},        \* the calls of compileStory that are between two awaits
   pending   |-> [sub |-> 0],      \* pendingSubmission
   reconciling |-> FALSE,   \* generationReconciling
   present   |-> Idle,      \* tryPresentVoiceGeneration between its awaits
   job       |-> NoJob,     \* activeLiveJobId
   seen      |-> Empty(0),  \* latestLiveSnapshot
   known     |-> NoJob,     \* liveServerInstanceId and liveSessionRevision
   subs      |-> 0,         \* submission ids made so far
   overlapped |-> FALSE,    \* history: a call began while another was under way
   leftOver  |-> FALSE,     \* history: that call was one of an earlier recording
   raced     |-> FALSE]     \* history: a job ended while the scene of another was being shown

Init ==
  /\ server = Empty(1) /\ stream = [Broken EXCEPT !.said = Empty(1), !.up = TRUE]
  /\ poll = [k \in Poll |-> NoPoll] /\ page = Loaded /\ paid = {}
  /\ done = [clicks |-> 0, trouble |-> 0]

Trouble == done.trouble < MaxTrouble /\ done' = [done EXCEPT !.trouble = @ + 1]
NoTrouble == UNCHANGED done

-----------------------------------------------------------------------------
(* What the handlers call.                                                 *)
Submitting(w) == w.submitting \/ w.pending.sub # 0
Publishing(w) == w.present # Idle
Stale(w, intent) ==
  \/ w.latest.text # intent.text
  \/ w.latest.epoch # intent.epoch
  \/ w.epoch # intent.epoch

\* What must be so before and after each await of a presentation.
Current(w, text) ==
  /\ w.latest.text = text /\ w.latest.epoch = w.epoch /\ w.story = text
  /\ ~w.partial /\ w.mic \notin {"stopping", "starting"}
  /\ w.job = NoJob /\ ~Submitting(w)

TryPresent(w) ==
  IF /\ w.completed.job # NoJob /\ w.latest.text # None
     /\ w.completed.key = w.latest.text
     /\ ~w.completed.tried /\ ~Publishing(w)
     /\ Current(w, w.latest.text)
     /\ w.latest.final \/ w.latest.seen >= 2
  THEN [w EXCEPT !.present = [phase |-> "pointer", text |-> w.latest.text,
                              job |-> w.completed.job]]
  ELSE w

\* A call of compileStory goes on with its next await, or ends.  generationSubmitting
\* is cleared then, also when another call has begun meanwhile.
Moves(w, c, to) == [w EXCEPT !.compiles = (@ \ {c}) \cup {to}]
Ends(w, c) == [w EXCEPT !.compiles = @ \ {c}, !.submitting = FALSE]
Again(w, c) == [Ends(w, c) EXCEPT !.attempted = @ \ {c.text}]

\* The description is checked: it is kept for later, shown from artwork that means
\* the same, or goes on to be submitted.
AfterCheck(w, c) ==
  LET told == IF c.automatic THEN [w EXCEPT !.latest.checked = TRUE] ELSE w
      manual == [text |-> c.text, epoch |-> w.epoch, seen |-> 1, final |-> TRUE,
                 ready |-> FALSE, checked |-> FALSE, refused |-> FALSE]
  IN IF c.automatic /\ c.text \in Static /\ ~w.latest.final THEN Again(told, c)
     ELSE IF c.automatic /\ (~w.latest.ready \/ w.mic \in {"stopping", "starting"})
     THEN Again(told, c)
     ELSE IF /\ c.automatic /\ w.completed.job # NoJob
             /\ w.completed.meaning = Meaning[c.text]
     THEN TryPresent([Ends(told, c) EXCEPT !.completed.key = c.text])
     ELSE [Moves(told, c, [c EXCEPT !.phase = "prior"]) EXCEPT
             !.latest = IF c.automatic THEN @ ELSE manual,
             !.active = c.text, !.job = NoJob, !.seen = Empty(0)]

\* compileStory, past its guards.  What was refused before is refused again.
Compile(w, text, automatic) ==
  LET c == [phase |-> "check", text |-> text, automatic |-> automatic, epoch |-> w.epoch]
      begun == [w EXCEPT !.submitting = TRUE,
                         !.overlapped = @ \/ \E d \in w.compiles : d.phase # "waiting",
                         !.leftOver = @ \/ \E d \in w.compiles :
                            d.phase \in {"check", "prior"} /\ d.epoch # w.epoch]
  IN IF automatic /\ w.latest.refused THEN w
     ELSE IF automatic /\ w.latest.checked THEN AfterCheck(begun, c)
     ELSE Moves(begun, c, c)

\* Fault: what was attempted in this recording is attempted again.
PumpAgain(w) ==
  IF \/ w.mic \in {"stopping", "starting"} \/ Submitting(w) \/ Publishing(w)
     \/ w.latest.text = None \/ w.latest.epoch # w.epoch \/ w.checking # NoIntent
  THEN w
  ELSE IF w.job # NoJob
  THEN IF w.active # w.latest.text /\ ~w.latest.checked /\ ~w.latest.refused
       THEN [w EXCEPT !.checking = [text |-> w.latest.text, epoch |-> w.epoch]] ELSE w
  ELSE IF w.completed.job # NoJob /\ w.completed.key = w.latest.text THEN TryPresent(w)
  ELSE Compile(w, w.latest.text, TRUE)

\* pumpVoiceGeneration: one description at a time; while its artwork is made, the
\* next one is only checked.
Pump(w) ==
  IF \/ w.mic \in {"stopping", "starting"} \/ Submitting(w) \/ Publishing(w)
     \/ w.latest.text = None \/ w.latest.epoch # w.epoch \/ w.checking # NoIntent
  THEN w
  ELSE IF w.job # NoJob
  THEN IF w.active # w.latest.text /\ ~w.latest.checked /\ ~w.latest.refused
       THEN [w EXCEPT !.checking = [text |-> w.latest.text, epoch |-> w.epoch]] ELSE w
  ELSE IF w.completed.job # NoJob /\ w.completed.key = w.latest.text THEN TryPresent(w)
  ELSE IF w.latest.text \in w.attempted THEN w
  ELSE Compile([w EXCEPT !.attempted = @ \cup {w.latest.text}], w.latest.text, TRUE)

\* offerVoiceTranscript
Offer(w, text, final) ==
  LET same == w.latest.text = text /\ w.latest.epoch = w.epoch
      kept(flag) == same /\ w.latest[flag]
      offered == [w EXCEPT
        !.latest = [text |-> text, epoch |-> w.epoch,
                    seen |-> IF same THEN 2 ELSE 1,
                    final |-> final \/ kept("final"), ready |-> final \/ kept("final"),
                    checked |-> kept("checked"), refused |-> kept("refused")],
        !.story = text, !.timer = ~final]
  IN TryPresent(IF w.mic = "stopping" THEN offered ELSE Pump(offered))

-----------------------------------------------------------------------------
(* What the page makes of a pointer to the session's current job.          *)

\* Fault: the check of what was submitted is credited to whatever job has ended.
FinishCredited(w, p) ==
  LET ended == [w EXCEPT !.job = NoJob, !.active = None,
        !.completed =
          IF p.stage = "failed" THEN @
          ELSE IF @.job = JobOf(p) THEN [@ EXCEPT !.shown = p.shown]
          ELSE [job |-> JobOf(p), key |-> p.text, source |-> p.text,
                meaning |-> IF w.active # None THEN Meaning[w.active] ELSE None,
                shown |-> p.shown, tried |-> FALSE],
        !.raced = @ \/ (Publishing(w) /\ w.completed.job # JobOf(p))]
  IN Pump(ended)

\* finishLiveJob
Finish(w, p) ==
  LET ended == [w EXCEPT !.job = NoJob, !.active = None,
        !.completed =
          IF p.stage = "failed" THEN @
          ELSE IF @.job = JobOf(p) THEN [@ EXCEPT !.shown = p.shown]
          ELSE [job |-> JobOf(p), key |-> p.text, source |-> p.text,
                meaning |-> IF w.active = p.text THEN Meaning[p.text] ELSE None,
                shown |-> p.shown, tried |-> FALSE],
        !.raced = @ \/ (Publishing(w) /\ w.completed.job # JobOf(p))]
  IN Pump(ended)

\* renderLiveSnapshot: what is older than the snapshot on show is dropped.
Revision(p) == IF p.stage = "working" THEN 0 ELSE IF p.shown THEN 2 ELSE 1
Render(w, p) ==
  IF \/ w.job # NoJob /\ JobOf(p) # w.job
     \/ w.seen = p
     \/ w.seen.rev # 0 /\ Revision(p) < Revision(w.seen)
  THEN w
  ELSE LET rendered == [w EXCEPT !.seen = p]
       IN IF Over(p) THEN Finish(rendered, p) ELSE rendered

Forgotten(w) == [w EXCEPT !.job = NoJob, !.seen = Empty(0), !.known[2] = 0]

\* handleLiveSceneSessionPointer and trackLiveSceneSession: a job that is new to the
\* page is followed unless the page has seen a later one.
Handle(w, p) ==
  LET moved == w.known[1] \notin {0, p.instance}
      here == IF moved THEN Forgotten(w) ELSE w
      heard == IF w.job # NoJob THEN w.job ELSE JobOf(w.seen)
  IN IF p.rev = 0 THEN [here EXCEPT !.known[1] = p.instance]
     ELSE IF JobOf(p) = heard /\ w.known = JobOf(p) THEN Render(w, p)
     ELSE IF p.rev < here.known[2] THEN here
     ELSE Render([here EXCEPT !.known = JobOf(p), !.job = JobOf(p), !.seen = Empty(0)], p)

\* What the page then has for its current job.
Retained(w) == IF w.job # NoJob THEN w.job ELSE JobOf(w.seen)

-----------------------------------------------------------------------------
(* Recording.                                                              *)
PressStart ==
  /\ page.mic = "off" /\ ~Publishing(page) /\ page.epoch < MaxRecordings
  /\ page' = [page EXCEPT !.mic = "starting"]
  /\ UNCHANGED <<server, stream, poll, paid, done>>

Started ==
  /\ page.mic = "starting"
  /\ page' = [page EXCEPT !.mic = "on", !.epoch = @ + 1, !.latest = NoIntent,
                          !.attempted = {}, !.timer = FALSE]
  /\ UNCHANGED <<server, stream, poll, paid, done>>

\* The runtime is not ready or the microphone is refused.
StartFails ==
  /\ page.mic = "starting" /\ Trouble
  /\ page' = [page EXCEPT !.mic = "off", !.epoch = @ + 1]
  /\ UNCHANGED <<server, stream, poll, paid>>

PartialBegins ==
  /\ page.mic = "on" /\ ~page.partial /\ ~Publishing(page)
  /\ page' = [page EXCEPT !.partial = TRUE]
  /\ UNCHANGED <<server, stream, poll, paid, done>>

\* What is heard after the recording was ended is left to the final transcript.
PartialHeard(text) ==
  /\ page.partial
  /\ LET heard == IF page.mic = "on" THEN Offer(page, text, FALSE) ELSE page
     IN page' = TryPresent([heard EXCEPT !.partial = FALSE])
  /\ UNCHANGED <<server, stream, poll, paid, done>>

PartialFails ==
  /\ page.partial
  /\ page' = TryPresent([page EXCEPT !.partial = FALSE])
  /\ UNCHANGED <<server, stream, poll, paid, done>>

\* The 350 ms after which a partial description may be submitted.
TimerFires ==
  /\ page.timer
  /\ page' = Pump([page EXCEPT !.timer = FALSE, !.latest.ready = TRUE])
  /\ UNCHANGED <<server, stream, poll, paid, done>>

\* The button, or the end of the microphone's track.
Stop ==
  /\ page.mic = "on"
  /\ page' = [page EXCEPT !.mic = "stopping"]
  /\ UNCHANGED <<server, stream, poll, paid, done>>

\* transcribeRecording waits for the partial transcript and for a presentation.
Final == page.mic = "stopping" /\ ~page.partial /\ ~Publishing(page)

FinalHeard(text) ==
  /\ Final
  /\ page' = Pump([Offer(page, text, TRUE) EXCEPT !.mic = "off"])
  /\ UNCHANGED <<server, stream, poll, paid, done>>

\* Too short, nothing recognized, or the transcription failed.
FinalFails ==
  /\ Final
  /\ page' = [page EXCEPT !.mic = "off", !.latest = NoIntent, !.timer = FALSE]
  /\ UNCHANGED <<server, stream, poll, paid, done>>

-----------------------------------------------------------------------------
(* The text field and the generate button.                                 *)
Locked == page.mic # "off" \/ Submitting(page) \/ Publishing(page) \/ page.job # NoJob
Click == done.clicks < MaxClicks /\ done' = [done EXCEPT !.clicks = @ + 1]

Edit(text) ==
  /\ ~Locked /\ text # page.story /\ Click
  /\ page' = [page EXCEPT !.story = text, !.latest = NoIntent, !.timer = FALSE]
  /\ UNCHANGED <<server, stream, poll, paid>>

\* A finished scene that is not on show is shown without paying for it again.
PressGenerate ==
  /\ page.mic = "off" /\ page.compiles = {} /\ page.pending.sub = 0 /\ page.job = NoJob
  /\ page.story # None /\ Click
  /\ page' =
       IF /\ page.completed.job # NoJob /\ page.completed.key = page.story
          /\ ~page.completed.shown
       THEN TryPresent([page EXCEPT
              !.latest = [text |-> page.story, epoch |-> page.epoch, seen |-> 1,
                          final |-> TRUE, ready |-> FALSE, checked |-> FALSE,
                          refused |-> FALSE],
              !.completed.tried = FALSE])
       ELSE Compile(page, page.story, FALSE)
  /\ UNCHANGED <<server, stream, poll, paid>>

PressCheckStatus ==
  /\ page.pending.sub # 0 /\ ~page.reconciling /\ Click
  /\ page' = [page EXCEPT !.reconciling = TRUE]
  /\ UNCHANGED <<server, stream, poll, paid>>

-----------------------------------------------------------------------------
(* compileStory after each of its awaits.                                  *)
At(c, phase) == c \in page.compiles /\ c.phase = phase

\* A description that was replaced during the check may be attempted later.
Checked(c, fine) ==
  /\ At(c, "check")
  /\ page' =
       IF fine /\ page.story = c.text /\ ~(c.automatic /\ Stale(page, c))
       THEN AfterCheck(page, c)
       ELSE IF ~c.automatic THEN Ends(page, c)
       ELSE IF Stale(page, c) THEN Pump(Again(page, c))
       ELSE [Ends(page, c) EXCEPT !.latest.refused = TRUE]
  /\ UNCHANGED <<server, stream, poll, paid, done>>

\* Fault: when the check of what waits ends, it is not looked at again.
QueuedCheckedOnly(fine) ==
  /\ page.checking # NoIntent
  /\ page' = [page EXCEPT
       !.checking = NoIntent,
       !.latest = IF Stale(page, page.checking) THEN @
                  ELSE IF fine THEN [@ EXCEPT !.checked = TRUE]
                  ELSE [@ EXCEPT !.refused = TRUE]]
  /\ UNCHANGED <<server, stream, poll, paid, done>>
QueuedChecked(fine) ==
  /\ page.checking # NoIntent
  /\ page' = Pump([page EXCEPT
       !.checking = NoIntent,
       !.latest = IF Stale(page, page.checking) THEN @
                  ELSE IF fine THEN [@ EXCEPT !.checked = TRUE]
                  ELSE [@ EXCEPT !.refused = TRUE]])
  /\ UNCHANGED <<server, stream, poll, paid, done>>

Failed(w, c) == Pump([Ends(w, c) EXCEPT !.job = NoJob])

\* The session as it is before the request: unfinished work is left to end first,
\* and a description that was replaced meanwhile is not paid for.
PriorRead(c) ==
  LET kept == IF c.automatic /\ server.text # c.text THEN Again(page, c)
              ELSE Ends(page, c)
  IN
  /\ At(c, "prior")
  /\ IF server.rev # 0 /\ ~Over(server)
     THEN page' = Pump(Handle(kept, server)) /\ UNCHANGED paid
     ELSE IF c.automatic /\ Stale(page, c)
     THEN page' = Pump(Again(page, c)) /\ UNCHANGED paid
     ELSE /\ page' = [Moves(page, c, [phase |-> "post", text |-> c.text,
                                      sub |-> page.subs + 1, prior |-> JobOf(server)])
                      EXCEPT !.subs = @ + 1]
          /\ paid' = IF c.automatic THEN paid \cup {<<c.epoch, c.text>>} ELSE paid
  /\ UNCHANGED <<server, stream, poll, done>>

PriorFails(c) ==
  /\ At(c, "prior") /\ Trouble
  /\ page' = Failed(page, c)
  /\ UNCHANGED <<server, stream, poll, paid>>

\* The registry: accepts what expects its instance and revision, or refuses it.
Serve(c) ==
  LET job == [instance |-> server.instance, rev |-> server.rev + 1, text |-> c.text,
              sub |-> c.sub, stage |-> "working", shown |-> FALSE]
      Answer(a) == page' = Moves(page, c, [c EXCEPT !.phase = a])
  IN
  /\ At(c, "post")
  /\ \/ /\ c.prior = JobOf(server) /\ server' = job
        /\ \/ Answer("accepted") /\ NoTrouble
           \/ Answer("lost") /\ Trouble
     \/ /\ c.prior # JobOf(server) /\ Answer("conflict") /\ NoTrouble
        /\ UNCHANGED server
     \/ /\ \E a \in {"refused", "lost"} : Answer(a)
        /\ Trouble /\ UNCHANGED server
  /\ UNCHANGED <<stream, poll, paid>>

\* The call then waits for reconcileGeneration, unless that is under way already.
Uncertain(w, c) ==
  LET unsure == [w EXCEPT !.pending = [sub |-> c.sub, text |-> c.text, prior |-> c.prior]]
  IN IF w.reconciling THEN Ends(unsure, c)
     ELSE [Moves(unsure, c, [phase |-> "waiting"]) EXCEPT !.reconciling = TRUE]

Accepted(c) ==
  LET job == [instance |-> c.prior[1], rev |-> c.prior[2] + 1, text |-> c.text,
              sub |-> c.sub, stage |-> "working", shown |-> FALSE]
      heard == Handle(page, job)
  IN
  /\ At(c, "accepted")
  /\ page' = IF Retained(heard) = JobOf(job) THEN Pump(Ends(heard, c))
             ELSE Uncertain(heard, c)
  /\ UNCHANGED <<server, stream, poll, paid, done>>

\* Fault: an answer that was lost counts as a refusal.
LostRefused(c) ==
  /\ At(c, "lost")
  /\ page' = Failed(page, c)
  /\ UNCHANGED <<server, stream, poll, paid, done>>
Lost(c) ==
  /\ At(c, "lost")
  /\ page' = Uncertain(page, c)
  /\ UNCHANGED <<server, stream, poll, paid, done>>

\* Another request came first: the page follows what the session has now, if it can
\* read it.
Conflict(c) ==
  LET noted == [page EXCEPT !.attempted = @ \cup {c.text}]
  IN
  /\ At(c, "conflict")
  /\ \/ /\ page' = Pump(Ends(IF server.rev = 0 THEN noted ELSE Handle(noted, server), c))
        /\ NoTrouble
     \/ page' = Failed(noted, c) /\ Trouble
  /\ UNCHANGED <<server, stream, poll, paid>>

Refused(c) ==
  /\ At(c, "refused")
  /\ page' = Failed(page, c)
  /\ UNCHANGED <<server, stream, poll, paid, done>>

\* reconcileGeneration: only the session's job with this very submission settles it.
Mine(p, pending) ==
  /\ p.rev # 0 /\ JobOf(p) # pending.prior
  /\ p.instance = pending.prior[1] /\ p.rev > pending.prior[2]
  /\ p.text = pending.text /\ p.sub = pending.sub

\* When it has settled it, what waits is pumped before the call that waited clears
\* generationSubmitting once more.
Reconciled ==
  LET heard == Handle(page, server)
      settled == Pump([heard EXCEPT !.pending = [sub |-> 0], !.submitting = FALSE])
      Done(w) == [w EXCEPT !.reconciling = FALSE]
      Resumed(w) == IF [phase |-> "waiting"] \in w.compiles
                    THEN Pump(Ends(Done(w), [phase |-> "waiting"])) ELSE Done(w)
  IN
  /\ page.reconciling
  /\ \/ /\ page' = Resumed(IF ~Mine(server, page.pending) THEN page
                           ELSE IF Retained(heard) = JobOf(server) THEN settled ELSE heard)
        /\ NoTrouble
     \/ page' = Resumed(page) /\ Trouble
  /\ UNCHANGED <<server, stream, poll, paid>>

-----------------------------------------------------------------------------
(* tryPresentVoiceGeneration after each of its awaits.                     *)
EndPresent(w) ==
  LET over == [w EXCEPT !.present = Idle]
  IN IF w.latest.text # w.present.text THEN Pump(over) ELSE over

\* voiceSnapshotMatchesIntent
Matches(w, p, text) ==
  \/ p.text = text
  \/ /\ w.completed.job = JobOf(p) /\ w.completed.key = text
     /\ w.completed.meaning # None /\ w.completed.source = p.text

StillCurrent(w) == w.completed.job = w.present.job /\ Current(w, w.present.text)
Tried(w) == IF w.completed.job = w.present.job
            THEN [w EXCEPT !.completed.tried = TRUE] ELSE w

MayPresent(w, p) ==
  /\ StillCurrent(w)
  /\ JobOf(p) = w.present.job /\ Matches(w, p, w.present.text)
  /\ p.stage = "complete"

PresentPointer ==
  /\ page.present.phase = "pointer"
  /\ page' = IF MayPresent(page, server) THEN [Tried(page) EXCEPT !.present.phase = "post"]
             ELSE EndPresent(page)
  /\ UNCHANGED <<server, stream, poll, paid, done>>

\* present: the registry shows its current job if that is the one asked for.
ServePresent ==
  /\ page.present.phase = "post"
  /\ \/ /\ JobOf(server) = page.present.job /\ server.stage = "complete"
        /\ server' = [server EXCEPT !.shown = TRUE]
        /\ \/ /\ page' = [page EXCEPT !.present = [phase |-> "shown", text |-> @.text,
                                                    job |-> @.job, answer |-> server']]
              /\ NoTrouble
           \/ page' = [page EXCEPT !.present.phase = "failed"] /\ Trouble
     \/ /\ JobOf(server) # page.present.job
        /\ page' = [page EXCEPT !.present.phase = "failed"]
        /\ UNCHANGED <<server, done>>
  /\ UNCHANGED <<stream, poll, paid>>

Presented ==
  /\ page.present.phase = "shown"
  /\ page' = EndPresent(IF StillCurrent(page) /\ Matches(page, page.present.answer, page.present.text)
                        THEN Render(page, page.present.answer) ELSE page)
  /\ UNCHANGED <<server, stream, poll, paid, done>>

PresentFails ==
  /\ \/ page.present.phase = "pointer" /\ Trouble
     \/ page.present.phase = "failed" /\ NoTrouble
  /\ page' = EndPresent(Tried(page))
  /\ UNCHANGED <<server, stream, poll, paid>>

-----------------------------------------------------------------------------
(* The session: its jobs, other clients, the event stream.                 *)
\* Another client may show what it made at once; a workbench page waits.
JobEnds ==
  /\ server.stage = "working"
  /\ \/ /\ \E shown \in {FALSE, server.sub = 0} :
             server' = [server EXCEPT !.stage = "complete", !.shown = shown]
        /\ NoTrouble
     \/ server' = [server EXCEPT !.stage = "failed"] /\ Trouble
  /\ UNCHANGED <<stream, poll, page, paid>>

OtherJob(text) ==
  /\ Trouble
  /\ server' = [instance |-> server.instance, rev |-> server.rev + 1, text |-> text,
                sub |-> 0, stage |-> "working", shown |-> FALSE]
  /\ UNCHANGED <<stream, poll, page, paid>>

\* What the process that ended has said is read before the next one answers.
Restart ==
  /\ ~stream.due /\ \A c \in page.compiles : c.phase # "accepted"
  /\ page.present.phase # "shown" /\ \A k \in Poll : poll[k].phase # "answered"
  /\ Trouble
  /\ server' = Empty(server.instance + 1) /\ stream' = Broken
  /\ UNCHANGED <<poll, page, paid>>

\* The stream brings the session's pointer sooner or later; a new connection, in any case.
Tell ==
  /\ stream.said # server
  /\ stream' = [stream EXCEPT !.said = server, !.due = TRUE]
  /\ UNCHANGED <<server, poll, page, paid, done>>

Hear ==
  /\ stream.due
  /\ LET heard == Handle(page, stream.said)
     IN page' = [heard EXCEPT !.reconciling = @ \/ heard.pending.sub # 0]
  /\ stream' = [stream EXCEPT !.due = FALSE, !.up = TRUE, !.revived = FALSE]
  /\ UNCHANGED <<server, poll, paid, done>>

\* The connection breaks, with what it was bringing.
Disconnect ==
  /\ Trouble /\ stream' = Broken
  /\ UNCHANGED <<server, poll, page, paid>>

-----------------------------------------------------------------------------
(* pollLiveScene, while the stream is down and a job is followed.          *)
AskPoll(k) ==
  /\ poll[k] = NoPoll /\ ~stream.up /\ page.job # NoJob
  /\ poll' = [poll EXCEPT ![k] = [phase |-> "asked"]]
  /\ UNCHANGED <<server, stream, page, paid, done>>

\* It is told the current job, or that there is none, or it fails.
AnswerPoll(k) ==
  /\ poll[k].phase = "asked"
  /\ \/ server.rev # 0 /\ poll' = [poll EXCEPT ![k] = [phase |-> "answered", said |-> server]]
     \/ poll' = [poll EXCEPT ![k] = NoPoll]
  /\ UNCHANGED <<server, stream, page, paid, done>>

\* The answer is handled whatever the stream has brought meanwhile.
Revives(w, heard, p) ==
  /\ w.job # JobOf(p) /\ heard.job = JobOf(p)
  /\ ~stream.due /\ JobOf(stream.said) = JobOf(p) /\ Over(stream.said)
HearPoll(k) ==
  /\ poll[k].phase = "answered"
  /\ LET p == poll[k].said
         heard == Handle(page, p)
         again == JobOf(p) = JobOf(stream.said) /\ Over(p)
     IN /\ page' = heard
        /\ stream' = [stream EXCEPT !.revived = (@ /\ ~again) \/ Revives(page, heard, p)]
  /\ poll' = [poll EXCEPT ![k] = NoPoll]
  /\ UNCHANGED <<server, paid, done>>

-----------------------------------------------------------------------------
Finals == (\E text \in Text : FinalHeard(text)) \/ FinalFails
Partials == (\E text \in Text : PartialHeard(text)) \/ PartialFails
CompileStep(c) == (\E fine \in BOOLEAN : Checked(c, fine)) \/ PriorRead(c) \/ PriorFails(c)
                    \/ Serve(c) \/ Accepted(c) \/ Lost(c) \/ Conflict(c) \/ Refused(c)
PresentStep == PresentPointer \/ ServePresent \/ Presented \/ PresentFails
QueuedCheck == \E fine \in BOOLEAN : QueuedChecked(fine)
PollStep == \E k \in Poll : AskPoll(k) \/ AnswerPoll(k) \/ HearPoll(k)

Next ==
  \/ PressStart \/ Started \/ StartFails \/ PartialBegins \/ Partials \/ TimerFires
  \/ Stop \/ Finals
  \/ \E text \in Text : Edit(text)
  \/ PressGenerate \/ PressCheckStatus
  \/ \E c \in page.compiles : CompileStep(c)
  \/ QueuedCheck \/ Reconciled \/ PresentStep
  \/ JobEnds
  \/ \E text \in Elsewhere : OtherJob(text)
  \/ Restart \/ Tell \/ Hear \/ Disconnect \/ PollStep

Spec == Init /\ [][Next]_vars

-----------------------------------------------------------------------------
(* Properties.                                                             *)

\* "The latest description wins without publishing stale output": what the page has
\* the session show means what the description says that it was shown for, although
\* artwork is reused between texts and other clients use the session.
\* (docs/architecture.md:148, workbench.js:721, 869)
OnlyWhatWasDescribedIsShown ==
  [][~server.shown /\ server'.shown /\ page.present.phase = "post"
         /\ page'.present # page.present
       => Meaning[server.text] = Meaning[page.present.text]]_vars

\* In one recording a description is paid for once, however often it is heard and
\* however its request ends.  The exception is a call of an earlier recording that
\* overlaps one of this (OneCallAtATime says how): when it gives its text up, it forgets
\* that this recording has attempted it.  (workbench.js:846, 1790)
PaidOncePerRecording ==
  [][\A c \in page.compiles :
       /\ c.phase = "prior" /\ c.automatic /\ page'.subs > page.subs /\ c \notin page'.compiles
       => <<c.epoch, c.text>> \notin paid \/ page.leftOver]_vars

\* The page never loses sight of artwork it has paid for: while the session works on
\* a submission of the page, the page follows it, or knows that it may have been
\* accepted and submits nothing else.  Calls that overlap (OneCallAtATime says how) are
\* the exception: one forgets the job of another's accepted submission, to look for it
\* itself, and if it fails to, the page only hears of that job when it has ended.
\* (workbench.js:1617, 1854, 1946)
NoPaidJobForgotten ==
  server.stage = "working" /\ server.sub # 0 =>
    \/ page.job = JobOf(server)
    \/ page.pending.sub = server.sub
    \/ \E c \in page.compiles : c.phase \in {"accepted", "lost"} /\ c.sub = server.sub
    \/ page.overlapped

\* One description is compiled at a time.  The code keeps this only until an answer is
\* lost: the call that waited for reconcileGeneration clears generationSubmitting of the
\* call that reconcileGeneration has started.  (workbench.js:1617, 1954)
OneCallAtATime ==
  \A c, d \in {e \in page.compiles : e.phase # "waiting"} : c = d

\* A final description is not left lying.  Once nothing is on its way, running or
\* pending, it is on show, or it was refused or attempted and the page says so, or
\* another client replaced its scene, or an earlier request may still have been
\* accepted: no wake-up is lost between the many handlers that finish something and
\* the descriptions that wait for it.  Five things do leave it lying: a restart of the
\* service under the session's job, a job that ends while the scene of another is being
\* shown, a press of the generate button, calls that have overlapped (OneCallAtATime
\* says how), and the late answer to a poll that makes the page follow an ended job
\* (NoEndedJobFollowed says how).  (workbench.js:826)
Quiet ==
  /\ page.mic = "off" /\ page.compiles = {} /\ page.present = Idle
  /\ page.checking = NoIntent /\ ~page.reconciling
  /\ ~stream.due /\ stream.said = server /\ server.stage # "working"
  /\ \A k \in Poll : poll[k] = NoPoll
Described(w) == w.latest.text # None /\ w.latest.epoch = w.epoch
Settled(w, s) ==
  \/ w.latest.refused \/ w.pending.sub # 0
  \/ IF w.completed.job # NoJob /\ w.completed.key = w.latest.text
     THEN w.completed.tried \/ w.completed.shown \/ w.completed.job # JobOf(s)
     ELSE w.latest.text \in w.attempted
FinalDescriptionSettles ==
  Quiet /\ Described(page) /\ page.latest.final
    => \/ Settled(page, server) \/ server.rev = 0
       \/ page.raced \/ done.clicks > 0 \/ page.overlapped \/ stream.revived

\* A job that the page has been told has ended is not followed any more.  The code keeps
\* this only while the stream holds: the answer to a poll, given before the end and
\* handled after it, is taken for news when a call of compileStory has cleared what was
\* on show meanwhile, and with the stream back no poll follows that would tell the end
\* again.  (workbench.js:1443, 1854, 1434)
NoEndedJobFollowed ==
  stream.up /\ ~stream.due /\ Over(stream.said)
    => page.job # JobOf(stream.said) \/ page.overlapped

-----------------------------------------------------------------------------
(* What OnlyWhatWasDescribedIsShown and PaidOncePerRecording rest on, as   *)
(* inductive invariants.                                                   *)
Whole(r) == r = [f \in DOMAIN r |-> r[f]]
Before(j, k) == j[1] < k[1] \/ (j[1] = k[1] /\ j[2] <= k[2])

\* Artwork is kept for a text of the meaning that it was made for.
CompletedFits(w) ==
  /\ Whole(w.completed) /\ "job" \in DOMAIN w.completed
  /\ w.completed.job # NoJob =>
       /\ {"key", "source", "meaning"} \subseteq DOMAIN w.completed
       /\ w.completed.meaning # None =>
            /\ w.completed.meaning = Meaning[w.completed.source]
            /\ w.completed.meaning = Meaning[w.completed.key]

PresentFits(w) ==
  /\ Whole(w.present) /\ "phase" \in DOMAIN w.present
  /\ Publishing(w) => {"text", "job"} \subseteq DOMAIN w.present

\* Calls whose description has not been submitted.
Describing(w) == {c \in w.compiles : c.phase \in {"check", "prior"}}

CallsFit(w) ==
  /\ \A c \in w.compiles : Whole(c) /\ "phase" \in DOMAIN c
  /\ \A c \in Describing(w) :
       /\ DOMAIN c = {"phase", "text", "automatic", "epoch"}
       /\ c.automatic \in BOOLEAN /\ c.epoch \in 0..w.epoch

\* An automatic call of this recording is the only one of its text, which was attempted
\* and is not paid for; a call of an earlier recording has no company of this one.
Owns(w, c, bought) ==
  /\ \A d \in Describing(w) : d.epoch = w.epoch <=> c.epoch = w.epoch
  /\ c.epoch # w.epoch => \A b \in bought : b[1] # w.epoch
  /\ c.automatic /\ c.epoch = w.epoch =>
       /\ c.text \in w.attempted /\ <<c.epoch, c.text>> \notin bought
       /\ \A d \in Describing(w) : d.automatic /\ d.text = c.text => d = c

AccountFits(w, bought) ==
  \/ w.leftOver
  \/ /\ \A b \in bought : b[1] = w.epoch => b[2] \in w.attempted
     /\ \A c \in Describing(w) : Owns(w, c, bought)

PageFits(w, bought) ==
  /\ Whole(w) /\ DOMAIN w = DOMAIN Loaded
  /\ w.epoch \in Nat /\ w.subs \in Nat
  /\ CompletedFits(w) /\ PresentFits(w) /\ CallsFit(w) /\ AccountFits(w, bought)

PaidFits == \A b \in paid : b = <<b[1], b[2]>> /\ b[1] \in 0..page.epoch

ServerFits ==
  /\ Whole(server) /\ DOMAIN server = DOMAIN Empty(1)
  /\ server.instance \in Nat \ {0} /\ server.rev \in Nat

\* The scene that the page asks the session to show is one that the session had then.
AskedFits ==
  page.present.phase = "post" =>
    /\ page.present.job \in Nat \X Nat /\ Before(page.present.job, JobOf(server))
    /\ JobOf(server) = page.present.job => Meaning[server.text] = Meaning[page.present.text]

IInv == PageFits(page, paid) /\ PaidFits /\ ServerFits /\ AskedFits

-----------------------------------------------------------------------------
(* What NoPaidJobForgotten rests on; s is the session's current job.        *)
OwnJobWorks(s) == s.stage = "working" /\ s.sub # 0

\* What the page is about to hear is what the session was, of the same process.
PointerFits(p, s) ==
  /\ p.instance = s.instance /\ p.rev \in 0..s.rev
  /\ p.rev = s.rev /\ Over(p) => Over(s)
PointersFit ==
  /\ Whole(stream) /\ DOMAIN stream = DOMAIN Broken
  /\ poll = [k \in Poll |-> poll[k]]
  /\ stream.due => PointerFits(stream.said, server)
  /\ \A k \in Poll : poll[k].phase = "answered" => PointerFits(poll[k].said, server)
  /\ page.present.phase = "shown" =>
       Over(page.present.answer) /\ PointerFits(page.present.answer, server)

\* Submissions have an id, and those that were accepted are of this process.
RequestFits(w, c, s) ==
  c.phase \notin {"check", "prior", "waiting"} =>
    /\ DOMAIN c = {"phase", "text", "sub", "prior"} /\ c.sub \in Nat \ {0}
    /\ c.prior \in Nat \X Nat
    /\ c.phase = "accepted" =>
         /\ c.prior[1] = s.instance /\ c.prior[2] < s.rev
         /\ w.overlapped \/ (c.sub = s.sub => s.rev = c.prior[2] + 1)

OneCall(w) ==
  \A c, d \in w.compiles : c.phase # "waiting" /\ d.phase # "waiting" => c = d

\* While a submission of the page is worked on, no other is on its way.
Watched(w, s) ==
  /\ JobOf(w.seen) = JobOf(s) => w.job = JobOf(s)
  /\ \A c \in w.compiles :
       c.phase = "waiting" \/ (c.phase \in {"accepted", "lost"} /\ c.sub = s.sub)
  /\ \/ w.job = JobOf(s)
     \/ w.pending.sub = s.sub
     \/ \E c \in w.compiles : c.phase # "waiting"

\* What is on show in the page is of no later job than the session's.
SeenFits(w, s) == JobOf(w.seen) \in Nat \X Nat /\ Before(JobOf(w.seen), JobOf(s))

FollowFits(w, s) ==
  /\ w.known \in Nat \X Nat
  /\ w.job # NoJob => w.known = w.job /\ w.known[1] # 0
  /\ SeenFits(w, s)
  /\ \A c \in w.compiles : RequestFits(w, c, s)
  /\ w.overlapped \/ (OneCall(w) /\ (OwnJobWorks(s) => Watched(w, s)))

FollowInv == FollowFits(page, server) /\ PointersFit

-----------------------------------------------------------------------------
(* What FinalDescriptionSettles rests on; s is the session's current job.  *)
Undisturbed(w) == ~w.overlapped /\ ~w.raced

\* The description is what the text field says; it is final when the recording is over.
IntentFits(w) ==
  /\ "text" \in DOMAIN w.latest
  /\ w.latest.text # None =>
       /\ DOMAIN w.latest = {"text", "epoch", "seen", "final", "ready", "checked", "refused"}
       /\ w.latest.text \in Text /\ w.latest.epoch \in 0..w.epoch
  /\ Described(w) =>
       /\ w.story = w.latest.text
       /\ w.latest.final => w.latest.ready /\ w.mic \in {"off", "starting"}
  /\ w.mic \in {"off", "starting"} => ~w.partial

\* No call was asked for by the button, and none is forgotten.
CallsWake(w) ==
  /\ w.submitting => w.compiles # {}
  /\ \A c \in Describing(w) :
       /\ DOMAIN c = {"phase", "text", "automatic", "epoch"}
       /\ c.automatic = TRUE /\ c.text \in Text

\* The scene that is being shown is the one that is kept, and of what is described.
SceneFits(w) ==
  /\ "job" \in DOMAIN w.completed
  /\ w.completed.job # NoJob =>
       /\ DOMAIN w.completed = {"job", "key", "source", "meaning", "shown", "tried"}
       /\ w.completed.job \in Nat \X Nat /\ Before(w.completed.job, w.known)
       /\ w.completed.key = w.completed.source \/ w.completed.meaning # None
  /\ Publishing(w) =>
       /\ {"phase", "text", "job"} \subseteq DOMAIN w.present
       /\ w.present.job = w.completed.job /\ w.completed.job # NoJob
       /\ w.present.text = w.latest.text /\ w.completed.key = w.latest.text
       /\ Described(w) /\ ~w.partial /\ w.mic # "starting"
       /\ w.present.phase \in {"pointer", "failed"} \/ w.completed.tried
       /\ w.present.phase = "shown" => JobOf(w.present.answer) = w.present.job

\* A page that has heard of its submission before the answer to it came either follows
\* that job or has seen its end, and does not go back to a scene it was showing.
Submitted(c) == <<c.prior[1], c.prior[2] + 1>>
AnswerComesLate(w) ==
  \A c \in w.compiles : c.phase = "accepted" /\ w.known = Submitted(c) /\ w.job # w.known =>
    /\ JobOf(w.seen) = w.known /\ Over(w.seen)
    /\ w.present.phase = "shown" => w.present.job = w.known

\* The page is behind the session, and keeps the scene of the current job only when
\* that is complete.
BehindFits(w, s) ==
  /\ Before(w.known, JobOf(s)) /\ (w.known[1] = 0 => w.known = NoJob)
  /\ w.job # NoJob => w.seen.rev = 0 \/ w.seen.stage = "working"
  /\ w.completed.job = JobOf(s) => s.stage = "complete" /\ w.completed.source = s.text

\* Whoever ends last among those that a final description waits for looks at it again.
Tended(w, s) ==
  Described(w) /\ w.latest.final =>
    \/ Settled(w, s)
    \/ w.mic # "off" \/ w.compiles # {} \/ Publishing(w) \/ w.checking # NoIntent
    \/ w.job # NoJob \/ w.known # JobOf(s) \/ s.rev = 0

WakeFits(w, s) ==
  /\ IntentFits(w) /\ CallsWake(w) /\ SceneFits(w) /\ AnswerComesLate(w) /\ BehindFits(w, s)

\* What the page was told last is what the session was; when the session's job has not
\* ended since, the page has taken that in.
StageFits(p) == IF p.rev = 0 THEN p.stage = "none" ELSE p.stage = "working" \/ Over(p)
SaidFits(p, s) ==
  /\ JobOf(p) \in Nat \X Nat /\ Before(JobOf(p), JobOf(s)) /\ StageFits(p)
  /\ JobOf(p) = JobOf(s) /\ Over(p) => p.stage = s.stage /\ p.text = s.text
ToldFits ==
  /\ StageFits(server) /\ SaidFits(stream.said, server)
  /\ \A k \in Poll : poll[k].phase = "answered" => SaidFits(poll[k].said, server)
  /\ page.present.phase = "shown" => SaidFits(page.present.answer, server)

TakenIn(w, s) == w.known = JobOf(s) /\ (Over(s) => w.job = NoJob)
TellsAll(w, s, st) ==
  ~st.due /\ ~st.revived /\ s.rev # 0 /\ JobOf(st.said) = JobOf(s) /\ (Over(s) => Over(st.said))
    => TakenIn(w, s)

WakeInv ==
  /\ done.clicks \in Nat /\ DOMAIN done = {"clicks", "trouble"} /\ ToldFits
  /\ done.clicks = 0 /\ Undisturbed(page) =>
       WakeFits(page, server) /\ Tended(page, server) /\ TellsAll(page, server, stream)

=============================================================================
