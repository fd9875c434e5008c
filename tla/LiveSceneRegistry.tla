------------------------- MODULE LiveSceneRegistry -------------------------
(***************************************************************************)
(* LiveSceneJobRegistry (live_scene.py): the process-local registry of     *)
(* progressive generation jobs.  Every coroutine runs on one event loop,   *)
(* so what happens between two awaits is one step.  The registry's         *)
(* asyncio.Lock makes a method atomic except where the method awaits the   *)
(* pack sink with the lock held (present, activate_prepared_pack), and a   *)
(* job's task gives the loop up at every provider update, cache lookup and *)
(* save.                                                                   *)
(*                                                                         *)
(* A rejected call (closed registry, another server instance, a stale      *)
(* revision, a used submission ID, no capacity) changes nothing and is not *)
(* an action.                                                              *)
(***************************************************************************)
EXTENDS Integers, FiniteSets

CONSTANTS
  Session,      \* browser sessions
  NoSession,    \* session_id = None: a legacy request outside any session
  Submission,   \* submission IDs of guarded requests
  NoSubmission, \* submission_id = None: an unguarded request
  FreshId,      \* job IDs drawn by uuid4, each used at most once
  PreparedId,   \* job IDs hashed from (session, activation ID)
  PreparedFor,  \* the session a prepared ID was hashed from
  NoJob,
  Inputs,       \* the requests clients send
  MaxActive, MaxRetained, MaxClaims

JobId == FreshId \cup PreparedId

-----------------------------------------------------------------------------
Stage ==
  {"queued", "planning", "draft", "preview", "master", "motion", "failed"}

ReadyStage == {"draft", "preview", "master", "motion"}

NextStages ==
  [queued   |-> {"planning"},
   planning |-> {"draft"},
   draft    |-> {"preview", "master"},
   preview  |-> {"master"},
   master   |-> {"motion"},
   motion   |-> {},
   failed   |-> {}]

(* The updates the payload contract lets a provider construct.             *)
UpdateShape(stage, complete) ==
  /\ stage \in {"draft", "preview"} => ~complete
  /\ stage = "motion" => complete

\* display fields of the request (text, style, seed) do not steer the registry
RawRequest ==
  [session    : Session \cup {NoSession},
   submission : Submission \cup {NoSubmission},
   expected   : Nat,
   defer      : BOOLEAN]

Request ==
  {r \in RawRequest :
     /\ r.submission # NoSubmission => r.session # NoSession
     /\ r.submission = NoSubmission => r.expected = 0
     /\ r.defer => r.session # NoSession}

NoRequest == [session |-> NoSession, submission |-> NoSubmission,
              expected |-> 0, defer |-> FALSE]

ASSUME RegistryAssumption ==
  /\ NoSession \notin Session
  /\ NoSubmission \notin Submission
  /\ FreshId \cap PreparedId = {}
  /\ NoJob \notin JobId
  /\ PreparedFor \in [PreparedId -> Session]
  /\ IsFiniteSet(JobId)
  /\ Inputs \subseteq Request
  /\ MaxActive \in Nat \ {0}
  /\ MaxRetained \in Nat
  /\ MaxRetained >= MaxActive
  /\ MaxClaims \in Nat

Note == {"none", "superseded", "failed", "upgrade_failed"}

(* retained is FALSE while _jobs holds no record of the ID.                *)
Job == [retained  : BOOLEAN,
        stage     : Stage,
        complete  : BOOLEAN,
        revision  : Nat,
        request   : RawRequest,
        presented : BOOLEAN,
        note      : Note,
        born      : Nat]

Absent == [retained |-> FALSE, stage |-> "queued", complete |-> FALSE,
           revision |-> 0, request |-> NoRequest, presented |-> FALSE,
           note |-> "none", born |-> 0]

Pc == {"none", "start", "restore", "provider",
       "save_update", "save_master", "cleanup"}

(* stage and note are the pending update or warning of a task that awaits  *)
(* the pack sink.                                                          *)
Task == [pc : Pc, stage : Stage, note : {"none", "upgrade_failed"}]

NoTask == [pc |-> "none", stage |-> "queued", note |-> "none"]

LockState == [holder : {"free", "present", "activate"}, job : JobId \cup {NoJob}]

Free == [holder |-> "free", job |-> NoJob]

VARIABLES
  jobs,      \* JobId -> Job: _jobs, its insertion order kept in born
  pointer,   \* Session -> [rev, job]: _session_jobs, rev 0 when absent
  sequence,  \* _session_revision_sequence
  claims,    \* guarded submission -> job: _submission_jobs, never evicted
  tasks,     \* JobId -> Task: where _run of the job is suspended
  lock,      \* _lock while its holder awaits the pack sink
  life,      \* "open", "closing" (close awaits its tasks), "closed"
  saving,    \* jobs whose pack a worker thread is writing
  latest,    \* job whose pack the store's latest pointer names
  inserts,   \* insertions into _jobs so far
  runs,      \* history: which fresh ID was created for which request
  highest    \* history: highest revision each session ever had

vars == <<jobs, pointer, sequence, claims, tasks, lock, life, saving, latest,
          inserts, runs, highest>>

NoPointer == [rev |-> 0, job |-> NoJob]

Init ==
  /\ jobs = [j \in JobId |-> Absent]
  /\ pointer = [s \in Session |-> NoPointer]
  /\ sequence = 0
  /\ claims = [k \in Session \X Submission |-> NoJob]
  /\ tasks = [j \in JobId |-> NoTask]
  /\ lock = Free
  /\ life = "open"
  /\ saving = {}
  /\ latest = NoJob
  /\ inserts = 0
  /\ runs = {}
  /\ highest = [s \in Session |-> 0]

-----------------------------------------------------------------------------
Retained(js) == {j \in JobId : js[j].retained}
Terminal(js) == {j \in Retained(js) : js[j].complete}
Active(js)   == Retained(js) \ Terminal(js)

Guarded(r)   == r.submission # NoSubmission
Claimed      == {k \in Session \X Submission : claims[k] # NoJob}
IssuedId     == {run.job : run \in runs}

\* fault: the sink awaited outside the lock
UnlockedWithoutLock == TRUE

Unlocked     == lock.holder = "free"

(* _evict_completed_locked: at capacity the oldest terminal record goes.   *)
(* One always suffices, since every insertion evicts first.                *)
Victims(js) ==
  IF Cardinality(Retained(js)) < MaxRetained \/ Terminal(js) = {}
  THEN {NoJob}
  ELSE {v \in Terminal(js) :
          \A o \in Terminal(js) : js[v].born <= js[o].born}

\* fault: a full registry refused, evictable or not
CanRetainWithoutEvicting(js) == Cardinality(Retained(js)) < MaxRetained

CanRetain(js) ==
  \/ Cardinality(Retained(js)) < MaxRetained
  \/ Terminal(js) # {}

Evicted(js, v) == [j \in JobId |-> IF j = v THEN Absent ELSE js[j]]

(* A pointer to the victim goes with it.                                   *)
Unpointed(js, v) ==
  [s \in Session |->
     IF v \in JobId /\ js[v].request.session = s /\ pointer[s].job = v
     THEN NoPointer ELSE pointer[s]]

(* task.cancel(): only a provider has cleanup to run before the task ends. *)
Cancelled(task) ==
  IF task.pc = "provider" THEN [NoTask EXCEPT !.pc = "cleanup"]
  ELSE IF task.pc = "cleanup" THEN task ELSE NoTask

NewJob(r, stage, complete) ==
  [retained |-> TRUE, stage |-> stage, complete |-> complete, revision |-> 1,
   request |-> r, presented |-> FALSE, note |-> "none", born |-> inserts + 1]

Advanced(job, stage, complete, note) ==
  [job EXCEPT !.stage = stage, !.complete = complete, !.note = note,
              !.revision = @ + 1]

(* The session's next revision names job j.                                *)
PointTo(ptr, s, j) ==
  IF s \in Session
  THEN /\ sequence' = sequence + 1
       /\ pointer' = [ptr EXCEPT ![s] = [rev |-> sequence + 1, job |-> j]]
       /\ highest' = [highest EXCEPT ![s] = sequence + 1]
  ELSE /\ pointer' = ptr
       /\ UNCHANGED <<sequence, highest>>

-----------------------------------------------------------------------------
(* submit.                                                                 *)

\* fault: the claim not looked up
AdmittedAgain(r) ==
  Guarded(r) =>
    /\ r.expected = pointer[r.session].rev
    /\ Cardinality(Claimed) < MaxClaims

Admitted(r) ==
  Guarded(r) =>
    /\ claims[<<r.session, r.submission>>] = NoJob
    /\ r.expected = pointer[r.session].rev
    /\ Cardinality(Claimed) < MaxClaims

(* The unfinished job of the session, which the new request replaces.      *)
Displaced(r) ==
  {j \in Active(jobs) : r.session \in Session /\ pointer[r.session].job = j}

WithSuperseded(js, old) ==
  [j \in JobId |->
     IF j \in old THEN Advanced(js[j], "failed", TRUE, "superseded") ELSE js[j]]

(* Capacity is checked after the displaced job has been failed and its     *)
(* task cancelled; nothing undoes that when the check fails.               *)
Submit(r) ==
  /\ life = "open"
  /\ Unlocked
  /\ Admitted(r)
  /\ LET old == Displaced(r)
         js  == WithSuperseded(jobs, old)
         cancelled == [j \in JobId |->
                         IF j \in old THEN Cancelled(tasks[j]) ELSE tasks[j]]
     IN IF Cardinality(Active(js)) < MaxActive /\ CanRetain(js)
        THEN \E j \in FreshId \ IssuedId, v \in Victims(js) :
               /\ jobs' = [Evicted(js, v) EXCEPT ![j] = NewJob(r, "queued", FALSE)]
               /\ tasks' = [cancelled EXCEPT ![j] = [NoTask EXCEPT !.pc = "start"]]
               /\ claims' = IF Guarded(r)
                            THEN [claims EXCEPT ![<<r.session, r.submission>>] = j]
                            ELSE claims
               /\ PointTo(Unpointed(js, v), r.session, j)
               /\ inserts' = inserts + 1
               /\ runs' = runs \cup {[job |-> j, request |-> r]}
        ELSE /\ jobs' = js
             /\ tasks' = cancelled
             /\ UNCHANGED <<claims, pointer, sequence, highest, inserts, runs>>
  /\ UNCHANGED <<lock, life, saving, latest>>

-----------------------------------------------------------------------------
(* present: the lock stays held while the pack is saved.                   *)

PresentSave(j) ==
  /\ life = "open"
  /\ Unlocked
  /\ j \in Terminal(jobs)
  /\ jobs[j].request.defer
  /\ pointer[jobs[j].request.session].job = j
  /\ jobs[j].stage \in {"master", "motion"}
  /\ ~jobs[j].presented
  /\ lock' = [holder |-> "present", job |-> j]
  /\ saving' = saving \cup {j}
  /\ UNCHANGED <<jobs, pointer, sequence, claims, tasks, life, latest,
                 inserts, runs, highest>>

PresentShow ==
  /\ lock.holder = "present"
  /\ lock.job \notin saving
  /\ jobs' = [jobs EXCEPT ![lock.job].presented = TRUE,
                          ![lock.job].revision = @ + 1]
  /\ lock' = Free
  /\ UNCHANGED <<pointer, sequence, claims, tasks, life, saving, latest,
                 inserts, runs, highest>>

-----------------------------------------------------------------------------
(* activate_prepared_pack: a verified pack becomes a session's finished    *)
(* scene without a task.  A pack shown at once is saved under the lock,    *)
(* after the eviction and before the insertion.                            *)

\* fault: unfinished work not looked for
ActivatableOverWork(j) ==
  /\ life = "open"
  /\ Unlocked
  /\ ~jobs[j].retained
  /\ CanRetain(jobs)

Activatable(j) ==
  /\ life = "open"
  /\ Unlocked
  /\ pointer[PreparedFor[j]].job \in {NoJob} \cup Terminal(jobs)
  /\ ~jobs[j].retained
  /\ CanRetain(jobs)

InsertPrepared(js, ptr, j, defer) ==
  LET r == [NoRequest EXCEPT !.session = PreparedFor[j], !.defer = defer]
  IN /\ jobs' = [js EXCEPT ![j] = NewJob(r, "master", TRUE)]
     /\ PointTo(ptr, PreparedFor[j], j)
     /\ inserts' = inserts + 1

ActivateDeferred(j) ==
  /\ Activatable(j)
  /\ \E v \in Victims(jobs) :
       InsertPrepared(Evicted(jobs, v), Unpointed(jobs, v), j, TRUE)
  /\ UNCHANGED <<claims, tasks, lock, life, saving, latest, runs>>

ActivateSave(j) ==
  /\ Activatable(j)
  /\ \E v \in Victims(jobs) :
       /\ jobs' = Evicted(jobs, v)
       /\ pointer' = Unpointed(jobs, v)
  /\ lock' = [holder |-> "activate", job |-> j]
  /\ saving' = saving \cup {j}
  /\ UNCHANGED <<sequence, claims, tasks, life, latest, inserts, runs, highest>>

ActivateShow ==
  /\ lock.holder = "activate"
  /\ lock.job \notin saving
  /\ InsertPrepared(jobs, pointer, lock.job, FALSE)
  /\ lock' = Free
  /\ UNCHANGED <<claims, tasks, life, saving, latest, runs>>

-----------------------------------------------------------------------------
(* The pack sink: StoryPackStore.save runs in a worker thread, which a     *)
(* cancelled task does not stop; a failed save is swallowed.               *)

SaveLands(j) ==
  /\ j \in saving
  /\ saving' = saving \ {j}
  /\ latest' \in {j, latest}
  /\ UNCHANGED <<jobs, pointer, sequence, claims, tasks, lock, life,
                 inserts, runs, highest>>

-----------------------------------------------------------------------------
(* _run, one action per await that other coroutines may overtake.  Update  *)
(* jobs[j] to job and leave the task at task:                              *)

Progress(j, job, task) ==
  /\ jobs' = [jobs EXCEPT ![j] = job]
  /\ tasks' = [tasks EXCEPT ![j] = task]
  /\ UNCHANGED saving

Wait(j, task) ==
  /\ tasks' = [tasks EXCEPT ![j] = task]
  /\ UNCHANGED <<jobs, saving>>

StartSave(j, task) ==
  /\ tasks' = [tasks EXCEPT ![j] = task]
  /\ saving' = saving \cup {j}
  /\ UNCHANGED jobs

\* what a step of _run never touches
RunFrame ==
  UNCHANGED <<pointer, sequence, claims, lock, life, latest, inserts, runs,
              highest>>

(* A master scene is finished without motion, after its pack is saved      *)
(* unless its presentation is deferred.                                    *)
CompleteMaster(j, note) ==
  IF jobs[j].complete
  THEN Wait(j, NoTask)
  ELSE Progress(j, Advanced(jobs[j], "master", TRUE, note), NoTask)

FinishMaster(j, note) ==
  IF jobs[j].request.defer
  THEN CompleteMaster(j, note)
  ELSE StartSave(j, [pc |-> "save_master", stage |-> "master", note |-> note])

\* fault: the error swallowed
AbortSilently(j) == Wait(j, NoTask)

(* The except branch: a usable master survives the error as a warning.     *)
Abort(j) ==
  IF jobs[j].retained /\ jobs[j].stage = "master"
  THEN FinishMaster(j, "upgrade_failed")
  ELSE IF j \in Active(jobs)
       THEN Progress(j, Advanced(jobs[j], "failed", TRUE, "failed"), NoTask)
       ELSE Wait(j, NoTask)

\* fault: updates taken after a terminal one
ApplyAndGoOn(j, stage, complete) ==
  IF jobs[j].retained /\ stage \in NextStages[jobs[j].stage]
  THEN Progress(j, Advanced(jobs[j], stage, complete, "none"),
                [NoTask EXCEPT !.pc = "provider"])
  ELSE Abort(j)

(* _transition, then back to the provider unless the update was the last.  *)
Apply(j, stage, complete) ==
  IF jobs[j].retained /\ stage \in NextStages[jobs[j].stage]
  THEN Progress(j, Advanced(jobs[j], stage, complete, "none"),
                IF complete THEN NoTask ELSE [NoTask EXCEPT !.pc = "provider"])
  ELSE Abort(j)

RunStart(j) ==
  /\ tasks[j].pc = "start"
  /\ Unlocked
  /\ IF jobs[j].stage = "queued"
     THEN Progress(j, Advanced(jobs[j], "planning", FALSE, "none"),
                   [NoTask EXCEPT !.pc = "restore"])
     ELSE Abort(j)
  /\ RunFrame

\* no exact scene is stored, or the stored one failed verification
RestoreMiss(j) ==
  /\ tasks[j].pc = "restore"
  /\ Wait(j, [NoTask EXCEPT !.pc = "provider"])
  /\ RunFrame

RestoreHit(j, stage) ==
  /\ tasks[j].pc = "restore"
  /\ Unlocked
  /\ IF jobs[j].stage = "planning"
     THEN Progress(j, Advanced(jobs[j], stage, TRUE, "none"), NoTask)
     ELSE Abort(j)
  /\ RunFrame

(* The provider yields an update.  valid is FALSE for one whose progress   *)
(* or metrics move backwards, which _transition refuses.                   *)
ProviderUpdate(j, stage, complete, valid) ==
  /\ tasks[j].pc = "provider"
  /\ UpdateShape(stage, complete)
  /\ IF complete /\ ~jobs[j].request.defer
     THEN StartSave(j, [pc |-> "save_update", stage |-> stage, note |-> "none"])
     ELSE Unlocked /\ IF valid THEN Apply(j, stage, complete) ELSE Abort(j)
  /\ RunFrame

UpdateSaved(j, valid) ==
  /\ tasks[j].pc = "save_update"
  /\ j \notin saving
  /\ Unlocked
  /\ IF valid THEN Apply(j, tasks[j].stage, TRUE) ELSE Abort(j)
  /\ RunFrame

(* The provider stops: with a master the scene is complete, otherwise the  *)
(* end is a protocol error.                                                *)
ProviderEnd(j) ==
  /\ tasks[j].pc = "provider"
  /\ Unlocked
  /\ IF jobs[j].stage = "master" THEN FinishMaster(j, "none") ELSE Abort(j)
  /\ RunFrame

ProviderFails(j) ==
  /\ tasks[j].pc = "provider"
  /\ Unlocked
  /\ Abort(j)
  /\ RunFrame

MasterSaved(j) ==
  /\ tasks[j].pc = "save_master"
  /\ j \notin saving
  /\ Unlocked
  /\ IF jobs[j].retained /\ jobs[j].stage = "master"
     THEN CompleteMaster(j, tasks[j].note)
     ELSE Abort(j)
  /\ RunFrame

(* A cancelled task still runs its provider's cleanup.                     *)
CleanupEnds(j) ==
  /\ tasks[j].pc = "cleanup"
  /\ Wait(j, NoTask)
  /\ RunFrame

(* An ordinary error raised by that cleanup replaces the cancellation and  *)
(* reaches the except branch.                                              *)
CleanupFails(j) ==
  /\ tasks[j].pc = "cleanup"
  /\ Unlocked
  /\ Abort(j)
  /\ RunFrame

-----------------------------------------------------------------------------
(* close: cancel every task, wait for all of them, then drop the tables.   *)

CloseBegin ==
  /\ life = "open"
  /\ Unlocked
  /\ life' = "closing"
  /\ tasks' = [j \in JobId |-> Cancelled(tasks[j])]
  /\ UNCHANGED <<jobs, pointer, sequence, claims, lock, saving, latest,
                 inserts, runs, highest>>

\* fault: jobs awaited instead of tasks
CloseEndAfterJobs ==
  /\ life = "closing"
  /\ Unlocked
  /\ Active(jobs) = {}
  /\ life' = "closed"
  /\ UNCHANGED <<jobs, pointer, sequence, claims, tasks, lock, saving, latest,
                 inserts, runs, highest>>

CloseEnd ==
  /\ life = "closing"
  /\ Unlocked
  /\ \A j \in JobId : tasks[j].pc = "none"
  /\ life' = "closed"
  /\ UNCHANGED <<jobs, pointer, sequence, claims, tasks, lock, saving, latest,
                 inserts, runs, highest>>

-----------------------------------------------------------------------------
RunStep(j) ==
  \/ RunStart(j)
  \/ RestoreMiss(j)
  \/ \E stage \in {"master", "motion"} : RestoreHit(j, stage)
  \/ \E stage \in ReadyStage, complete, valid \in BOOLEAN :
       ProviderUpdate(j, stage, complete, valid)
  \/ \E valid \in BOOLEAN : UpdateSaved(j, valid)
  \/ ProviderEnd(j)
  \/ ProviderFails(j)
  \/ MasterSaved(j)
  \/ CleanupEnds(j)
  \/ CleanupFails(j)

Client ==
  \/ \E r \in Inputs : Submit(r)
  \/ \E j \in JobId : PresentSave(j)
  \/ \E j \in PreparedId : ActivateDeferred(j) \/ ActivateSave(j)

Background ==
  \/ PresentShow
  \/ ActivateShow
  \/ CloseEnd
  \/ \E j \in JobId : RunStep(j) \/ SaveLands(j)

(* A closed registry has nothing left to do; any other halt is a deadlock. *)
Stopped ==
  /\ life = "closed"
  /\ saving = {}
  /\ UNCHANGED vars

Next == Client \/ CloseBegin \/ Background \/ Stopped

Spec == Init /\ [][Next]_vars

(* Clients owe nothing.  A task that can run is run by the event loop; the *)
(* provider answers or fails within its deadlines; a file write returns.   *)
Fairness ==
  /\ WF_vars(PresentShow)
  /\ WF_vars(ActivateShow)
  /\ WF_vars(CloseEnd)
  /\ \A j \in JobId : WF_vars(RunStep(j)) /\ WF_vars(SaveLands(j))

FairSpec == Spec /\ Fairness
-----------------------------------------------------------------------------
(* Properties.                                                             *)

(* Every variable stays in the type the code gives it.                     *)
TypeOK ==
  /\ jobs \in [JobId -> Job]
  /\ pointer \in [Session -> [rev : Nat, job : JobId \cup {NoJob}]]
  /\ sequence \in Nat
  /\ claims \in [Session \X Submission -> JobId \cup {NoJob}]
  /\ tasks \in [JobId -> Task]
  /\ lock \in LockState
  /\ life \in {"open", "closing", "closed"}
  /\ saving \subseteq JobId
  /\ latest \in JobId \cup {NoJob}
  /\ inserts \in Nat
  /\ runs \subseteq [job : FreshId, request : RawRequest]
  /\ highest \in [Session -> Nat]

(* A session's pointer always names a retained record of that session:     *)
(* eviction never leaves activate_prepared_pack a pointer whose lookup in  *)
(* _jobs would raise, nor get_session a stale one to drop.                 *)
PointersRetained ==
  \A s \in Session : pointer[s].job # NoJob =>
    /\ jobs[pointer[s].job].retained
    /\ jobs[pointer[s].job].request.session = s

(* Unfinished work of a session is only ever its current job: a superseded *)
(* request leaves nothing running that a reader of the registry could see. *)
OnlyCurrentJobWorks ==
  \A j \in Active(jobs) :
    jobs[j].request.session \in Session =>
      pointer[jobs[j].request.session].job = j

(* Paid work is never repeated for a submission ID, not even when the      *)
(* first result was evicted or failed before the retry came in.            *)
OneRunPerSubmission ==
  \A a, b \in runs :
    /\ Guarded(a.request)
    /\ a.request.session = b.request.session
    /\ a.request.submission = b.request.submission
    => a.job = b.job

(* A task that has not been cancelled works on a retained, unfinished job: *)
(* its _transition can never hit a job that was superseded or evicted      *)
(* while it awaited its provider.                                          *)
TaskOwnsOpenJob ==
  \A j \in JobId :
    tasks[j].pc \notin {"none", "cleanup"} => j \in Active(jobs)

(* A deferred scene's pack goes to the store only while the scene is       *)
(* complete and current, and it stays so until the save has landed         *)
(* (present's "same session fence").                                       *)
DeferredSaveIsFenced ==
  \A j \in saving :
    jobs[j].retained /\ jobs[j].request.defer =>
      /\ jobs[j].complete
      /\ pointer[jobs[j].request.session].job = j

(* A finished job never changes again while it is retained, except that a  *)
(* deferred one becomes presented: no late update, error or cancellation   *)
(* rewrites an outcome clients have seen.                                  *)
FinishedIsFinal ==
  [][\A j \in Terminal(jobs) : jobs'[j].retained =>
        \/ jobs'[j] = jobs[j]
        \/ /\ ~jobs[j].presented
           /\ jobs'[j] = [jobs[j] EXCEPT !.presented = TRUE,
                                         !.revision = @ + 1]]_vars

(* A request that is refused never costs the session its running job: a    *)
(* job is superseded only in the step that makes a new job current.        *)
SupersedeReplaces ==
  [][\A j \in Active(jobs) :
       (jobs'[j].note = "superseded" \/ ~jobs'[j].retained) =>
         LET s == jobs[j].request.session
         IN /\ s \in Session
            /\ pointer'[s].rev > pointer[s].rev
            /\ pointer'[s].job \in Active(jobs')]_vars

(* A session revision is never used twice, also when the job it named was  *)
(* evicted in between: a client's (session, revision) names one job.       *)
RevisionsNeverReused ==
  [][\A s \in Session :
       pointer'[s] # pointer[s] /\ pointer'[s] # NoPointer =>
         \A t \in Session : pointer'[s].rev > highest[t]]_vars

(* Every job ends, or the registry is closed: no provider behaviour, race  *)
(* with a newer request or lock wait leaves a client waiting for ever.     *)
EveryJobEnds ==
  \A j \in JobId : j \in Active(jobs) ~> j \notin Active(jobs) \/ life = "closed"

(* close always returns: the tasks it awaits all end.                      *)
CloseReturns == life = "closing" ~> life = "closed"

-----------------------------------------------------------------------------
(* The strengthening that makes the safety properties inductive.           *)

\* while the sink is awaited under the lock, the checks made before still hold
LockKeepsChecks ==
  /\ lock.holder # "free" => lock.job \in JobId
  /\ lock.holder = "activate" =>
       /\ lock.job \in PreparedId
       /\ ~jobs[lock.job].retained
       /\ pointer[PreparedFor[lock.job]].job \in {NoJob} \cup Terminal(jobs)
  /\ lock.holder = "present" =>
       /\ lock.job \in Terminal(jobs)
       /\ jobs[lock.job].request.defer
       /\ jobs[lock.job].stage # "failed"
       /\ ~jobs[lock.job].presented
       /\ \E s \in Session : jobs[lock.job].request.session = s /\ pointer[s].job = lock.job

\* only jobs submitted under a fresh ID have tasks, and a finished job whose
\* task still cleans up was superseded or failed, never usable
TasksFit ==
  /\ \A j \in PreparedId : tasks[j].pc = "none"
  /\ \A j \in Terminal(jobs) : tasks[j].pc = "cleanup" => jobs[j].stage = "failed"

\* the claim of a guarded run outlives its record
ClaimsOutliveJobs ==
  /\ \A j \in FreshId : jobs[j].retained => j \in IssuedId
  /\ \A run \in runs : Guarded(run.request) =>
       /\ run.request.session \in Session
       /\ run.request.submission \in Submission
       /\ claims[<<run.request.session, run.request.submission>>] = run.job

\* deferral belongs to a session, presentation to a deferred finished scene
JobsFit ==
  \A j \in Retained(jobs) :
    /\ jobs[j].request.defer => jobs[j].request.session \in Session
    /\ jobs[j].presented => jobs[j].complete

\* a worker thread writes the pack of a job some task was started for, or the
\* one the lock holder waits for; a deferred scene is only written for present
SavesFit ==
  \A j \in saving :
    /\ j \in FreshId => j \in IssuedId
    /\ j \in PreparedId => lock.holder # "free" /\ lock.job = j
    /\ jobs[j].retained /\ jobs[j].request.defer =>
         lock.holder = "present" /\ lock.job = j

(* The inductive invariant: what the theorems about the registry rest on.  *)
IInv ==
  /\ TypeOK
  /\ PointersRetained
  /\ OnlyCurrentJobWorks
  /\ TaskOwnsOpenJob
  /\ LockKeepsChecks
  /\ TasksFit
  /\ ClaimsOutliveJobs
  /\ JobsFit
  /\ SavesFit

-----------------------------------------------------------------------------
(* Refinement: what a session's browsers see is a timeline of scenes.      *)

PhaseOf(job) ==
  IF ~job.complete THEN "working"
  ELSE IF job.stage = "failed" THEN "failed"
  ELSE IF job.presented THEN "shown" ELSE "ready"

SceneOf(s) ==
  IF pointer[s].job = NoJob
  THEN [rev |-> 0, phase |-> "empty"]
  ELSE [rev |-> pointer[s].rev, phase |-> PhaseOf(jobs[pointer[s].job])]

Timeline == INSTANCE SceneTimeline WITH
  scene <- [s \in Session |-> SceneOf(s)],
  last  <- sequence

(* Through eviction, supersession, cancellation and lock waits, every      *)
(* session's browsers see a legal timeline of scenes.                      *)
ImplementsTimeline == Timeline!Spec

-----------------------------------------------------------------------------
(* Claims of the documentation that the code does not keep.                *)

(* docs/architecture.md: "A stale browser cannot write through a newer     *)
(* session revision."                                                      *)
NoWriteThroughNewerRevision ==
  [][\A r \in Inputs :
       Guarded(r) /\ claims'[<<r.session, r.submission>>] # claims[<<r.session, r.submission>>]
         /\ [job |-> claims'[<<r.session, r.submission>>], request |-> r] \in runs'
       => r.expected >= highest[r.session]]_vars

(* docs/architecture.md: "a completed scene is never replaced by a stale   *)
(* result": once a scene was saved, the store's latest pointer never moves *)
(* to a superseded job.                                                    *)
LatestNeverSuperseded ==
  [][latest # NoJob /\ latest' # latest =>
       ~(jobs[latest'].retained /\ jobs[latest'].note = "superseded")]_vars
=============================================================================
