-------------------------- MODULE LiveSceneProofs --------------------------
(***************************************************************************)
(* Proofs about the live scene registry and its streams, for every set of  *)
(* sessions, job IDs, requests and clients and every capacity and queue    *)
(* size.  A step of the registry either runs a client's method, a part of  *)
(* close, or one step of one job's task; the lemma RunStepShape says once  *)
(* what a task step can do, and the invariant is then shown to be kept by  *)
(* each kind of step.  The registry's theorems carry over to the streams:  *)
(* every step of the streams is one of the registry or leaves it alone.    *)
(* What followers of a job and watchers of a session have read, and what   *)
(* is queued for them, is the course of that job or session up to where it *)
(* is now.                                                                 *)
(***************************************************************************)
EXTENDS LiveSceneStreams, FiniteSetTheorems, TLAPS

-----------------------------------------------------------------------------
(* Records built by the registry's helpers are jobs.                       *)

(* A publication moves a job to another well-formed snapshot.              *)
Follows(new, job, stage, complete) ==
  /\ new \in Job
  /\ new.retained = job.retained
  /\ new.stage = stage
  /\ new.complete = complete
  /\ new.request = job.request
  /\ new.presented = job.presented
  /\ new.born = job.born

\* A job that goes on to another stage is a job of the same submission.
LEMMA AdvancedType ==
  ASSUME NEW job \in Job, NEW stage \in Stage, NEW complete \in BOOLEAN,
         NEW note \in Note
  PROVE  Follows(Advanced(job, stage, complete, note), job, stage, complete)
<1> DEFINE new == Advanced(job, stage, complete, note)
<1>1. job.revision + 1 \in Nat
  BY DEF Job
<1>2. new \in Job
  <2>1. \A n \in Nat : [job EXCEPT !.stage = stage, !.complete = complete,
                                   !.note = note, !.revision = n] \in Job
    BY DEF Job
  <2>2. QED
    BY <1>1, <2>1 DEF Advanced
<1>3. new.retained = job.retained /\ new.request = job.request
  BY DEF Advanced, Job
<1>4. new.stage = stage
  BY DEF Advanced, Job
<1>5. new.complete = complete
  BY DEF Advanced, Job
<1>6. new.presented = job.presented /\ new.born = job.born
  BY DEF Advanced, Job
<1>7. QED
  BY <1>2, <1>3, <1>4, <1>5, <1>6 DEF Follows

(* A new record is well-formed and holds the request it was made for.      *)
LEMMA NewJobType ==
  ASSUME inserts \in Nat, NEW r \in RawRequest, NEW stage \in Stage,
         NEW complete \in BOOLEAN
  PROVE  /\ NewJob(r, stage, complete) \in Job
         /\ NewJob(r, stage, complete).retained
         /\ NewJob(r, stage, complete).stage = stage
         /\ NewJob(r, stage, complete).complete = complete
         /\ NewJob(r, stage, complete).request = r
         /\ ~NewJob(r, stage, complete).presented
BY DEF NewJob, Job, Note

(* The record of an unknown ID is well-formed and not retained.            *)
LEMMA AbsentType ==
  Absent \in Job /\ ~Absent.retained /\ Absent.request = NoRequest
BY DEF Absent, Job, Stage, Note, RawRequest, NoRequest

(* A cancelled task is well-formed and has at most cleanup left to do.     *)
LEMMA CancelledType ==
  ASSUME NEW task \in Task
  PROVE  /\ Cancelled(task) \in Task
         /\ Cancelled(task).pc \in {"none", "cleanup"}
         /\ Cancelled(task).pc = "cleanup" => task.pc \in {"provider", "cleanup"}
<1>1. NoTask \in Task /\ NoTask.pc = "none"
  BY DEF NoTask, Task, Pc, Stage, Note
<1>2. [NoTask EXCEPT !.pc = "cleanup"] \in Task
  BY DEF NoTask, Task, Pc, Stage, Note
<1>3. QED
  BY <1>1, <1>2 DEF Cancelled, Task, NoTask

(* What eviction picks is nothing, or a finished retained record.          *)
LEMMA VictimIsTerminal ==
  ASSUME NEW js, NEW v \in Victims(js)
  PROVE  v = NoJob \/ v \in Terminal(js)
BY DEF Victims

-----------------------------------------------------------------------------
(* Initially nothing is retained, claimed, running or locked.              *)
LEMMA InitIInv == Init => IInv
<1> SUFFICES ASSUME Init PROVE IInv
  OBVIOUS
<1> USE DEF Init
<1>1. TypeOK
  <2>1. jobs \in [JobId -> Job]
    BY AbsentType
  <2>2. tasks \in [JobId -> Task]
    BY DEF NoTask, Task, Pc, Stage, Note
  <2>3. lock \in LockState
    BY DEF Free, LockState
  <2>4. QED
    BY <2>1, <2>2, <2>3 DEF TypeOK, NoPointer
<1>2. Retained(jobs) = {}
  BY AbsentType DEF Retained
<1>3. PointersRetained
  BY DEF PointersRetained, NoPointer
<1>4. OnlyCurrentJobWorks /\ TasksFit /\ JobsFit /\ TaskOwnsOpenJob
  BY <1>2 DEF OnlyCurrentJobWorks, TasksFit, JobsFit, TaskOwnsOpenJob,
              Active, Terminal, NoTask, JobId
<1>5. LockKeepsChecks
  BY DEF LockKeepsChecks, Free
<1>6. ClaimsOutliveJobs
  BY AbsentType DEF ClaimsOutliveJobs, JobId
<1>7. SavesFit
  BY DEF SavesFit
<1>8. QED
  BY <1>1, <1>3, <1>4, <1>5, <1>6, <1>7 DEF IInv

-----------------------------------------------------------------------------
(* One step of a task: it leaves the rest of the registry alone, and       *)
(* either keeps its job's record (and is working on an unfinished job if   *)
(* it is still working) or, holding the lock, advances an unfinished job   *)
(* and ends exactly when it finishes it.                                   *)
TaskAt(j, t) == tasks' = [tasks EXCEPT ![j] = t]

Keeps(j) ==
  /\ jobs' = jobs
  /\ \E t \in Task :
       /\ TaskAt(j, t)
       /\ t.pc # "cleanup"
       /\ t.pc # "none" => j \in Active(jobs)

Advances(j) ==
  /\ Unlocked
  /\ j \in Active(jobs)
  /\ \E stage \in Stage, complete \in BOOLEAN, note \in Note \ {"superseded"}, t \in Task :
       /\ jobs' = [jobs EXCEPT ![j] = Advanced(jobs[j], stage, complete, note)]
       /\ TaskAt(j, t)
       /\ t.pc # "cleanup"
       /\ complete <=> t.pc = "none"

Moves(j) ==
  /\ Keeps(j) \/ Advances(j)
  /\ saving' = saving \/ saving' = saving \cup {j}
  /\ saving' # saving => j \in Active(jobs) /\ ~jobs[j].request.defer

TaskStep(j) == RunFrame /\ tasks[j].pc # "none" /\ Moves(j)

(* Finishing a master advances the unfinished job, or first saves it.      *)
LEMMA FinishMasterShape ==
  ASSUME IInv, Unlocked, NEW j \in Active(jobs), NEW note \in {"none", "upgrade_failed"},
         FinishMaster(j, note) \/ CompleteMaster(j, note)
  PROVE  Moves(j)
<1>0. jobs[j] \in Job /\ j \in JobId /\ ~jobs[j].complete
  BY DEF IInv, TypeOK, Active, Terminal, Retained
<1>1. NoTask \in Task /\ NoTask.pc = "none"
  BY DEF NoTask, Task, Pc, Stage, Note
<1>2. CASE CompleteMaster(j, note)
  <2>1. Progress(j, Advanced(jobs[j], "master", TRUE, note), NoTask)
    BY <1>0, <1>2 DEF CompleteMaster
  <2>2. QED
    <3>1. "master" \in Stage /\ note \in Note \ {"superseded"}
      BY DEF Stage, Note
    <3>2. QED
      BY <1>1, <2>1, <3>1 DEF Progress, Moves, Advances, TaskAt
<1>3. CASE ~CompleteMaster(j, note)
  <2> DEFINE t == [pc |-> "save_master", stage |-> "master", note |-> note]
  <2>1. StartSave(j, t) /\ ~jobs[j].request.defer
    BY <1>3 DEF FinishMaster
  <2>2. t \in Task /\ t.pc = "save_master"
    BY DEF Task, Pc, Stage
  <2> HIDE DEF t
  <2>3. QED
    BY <2>1, <2>2 DEF StartSave, Moves, Keeps, TaskAt
<1>4. QED
  BY <1>2, <1>3

(* The except branch finishes an unfinished job, and leaves any other one. *)
LEMMA AbortShape ==
  ASSUME IInv, Unlocked, NEW j \in JobId, tasks[j].pc # "none", Abort(j)
  PROVE  Moves(j)
<1>0. jobs[j] \in Job
  BY DEF IInv, TypeOK
<1>1. NoTask \in Task /\ NoTask.pc = "none"
  BY DEF NoTask, Task, Pc, Stage, Note
<1>2. CASE jobs[j].retained /\ jobs[j].stage = "master"
  <2>1. j \in Active(jobs)
    BY <1>2 DEF IInv, TaskOwnsOpenJob, TasksFit, Active, Terminal, Retained
  <2>2. FinishMaster(j, "upgrade_failed") /\ "upgrade_failed" \in Note
    BY <1>2 DEF Abort, Note
  <2>3. QED
    BY <2>1, <2>2, FinishMasterShape
<1>3. CASE ~(jobs[j].retained /\ jobs[j].stage = "master") /\ j \in Active(jobs)
  <2>1. Progress(j, Advanced(jobs[j], "failed", TRUE, "failed"), NoTask)
    BY <1>3 DEF Abort
  <2>2. QED
    BY <1>1, <1>3, <2>1 DEF Progress, Moves, Advances, TaskAt, Stage, Note
<1>4. CASE ~(jobs[j].retained /\ jobs[j].stage = "master") /\ j \notin Active(jobs)
  <2>1. Wait(j, NoTask)
    BY <1>4 DEF Abort
  <2>2. QED
    BY <1>1, <2>1 DEF Wait, Moves, Keeps, TaskAt
<1>5. QED
  BY <1>2, <1>3, <1>4

(* A transition advances the job its task owns, or becomes an abort.       *)
LEMMA ApplyShape ==
  ASSUME IInv, Unlocked, NEW j \in Active(jobs), tasks[j].pc # "none",
         NEW stage \in Stage, NEW complete \in BOOLEAN,
         Apply(j, stage, complete)
  PROVE  Moves(j)
<1>0. jobs[j] \in Job /\ j \in JobId
  BY DEF IInv, TypeOK, Active, Retained
<1>1. NoTask \in Task /\ NoTask.pc = "none"
  BY DEF NoTask, Task, Pc, Stage, Note
<1>2. CASE jobs[j].retained /\ stage \in NextStages[jobs[j].stage]
  <2> DEFINE back == [NoTask EXCEPT !.pc = "provider"]
  <2> DEFINE t == IF complete THEN NoTask ELSE back
  <2>1. back \in Task /\ back.pc = "provider"
    BY DEF NoTask, Task, Pc, Stage, Note
  <2>2. t \in Task /\ t.pc # "cleanup" /\ (complete <=> t.pc = "none")
    BY <1>1, <2>1
  <2>3. Progress(j, Advanced(jobs[j], stage, complete, "none"), t)
    BY <1>2 DEF Apply
  <2> HIDE DEF t
  <2>4. QED
    BY <2>2, <2>3 DEF Progress, Moves, Advances, TaskAt, Note
<1>3. CASE ~(jobs[j].retained /\ stage \in NextStages[jobs[j].stage])
  <2>1. Abort(j)
    BY <1>3 DEF Apply
  <2>2. QED
    BY <1>0, <2>1, AbortShape
<1>4. QED
  BY <1>2, <1>3

(* Every action of a task has the shape of a task step.                    *)
LEMMA RunStepShape ==
  ASSUME IInv, NEW j \in JobId, RunStep(j)
  PROVE  TaskStep(j)
<1>0. jobs[j] \in Job /\ tasks[j] \in Task
  BY DEF IInv, TypeOK
<1>1. NoTask \in Task /\ NoTask.pc = "none"
  BY DEF NoTask, Task, Pc, Stage, Note
<1>2. \A pc \in {"restore", "provider"} :
        /\ [NoTask EXCEPT !.pc = pc] \in Task
        /\ [NoTask EXCEPT !.pc = pc].pc = pc
  BY DEF NoTask, Task, Pc, Stage, Note
<1>3. tasks[j].pc \notin {"none", "cleanup"} => j \in Active(jobs)
  BY DEF IInv, TaskOwnsOpenJob
<1>4. CASE RunStart(j)
  <2>1. tasks[j].pc = "start" /\ Unlocked /\ RunFrame
    BY <1>4 DEF RunStart
  <2>2. CASE jobs[j].stage = "queued"
    <3> DEFINE t == [NoTask EXCEPT !.pc = "restore"]
    <3>1. t \in Task /\ t.pc = "restore"
      BY <1>2
    <3>2. Progress(j, Advanced(jobs[j], "planning", FALSE, "none"), t)
      BY <1>4, <2>2 DEF RunStart
    <3>3. "planning" \in Stage /\ "none" \in Note
      BY DEF Stage, Note
    <3> HIDE DEF t
    <3>4. QED
      BY <1>3, <2>1, <3>1, <3>2, <3>3
         DEF Progress, TaskStep, Moves, Advances, TaskAt
  <2>3. CASE jobs[j].stage # "queued"
    BY <1>4, <2>1, <2>3, AbortShape DEF RunStart, TaskStep
  <2>4. QED
    BY <2>2, <2>3
<1>5. CASE RestoreMiss(j)
  <2>1. tasks[j].pc = "restore" /\ RunFrame
          /\ Wait(j, [NoTask EXCEPT !.pc = "provider"])
    BY <1>5 DEF RestoreMiss
  <2>2. QED
    BY <1>2, <1>3, <2>1 DEF Wait, TaskStep, Moves, Keeps, TaskAt
<1>6. ASSUME NEW stage \in {"master", "motion"}, RestoreHit(j, stage)
      PROVE  TaskStep(j)
  <2>1. tasks[j].pc = "restore" /\ Unlocked /\ RunFrame
    BY <1>6 DEF RestoreHit
  <2>2. CASE jobs[j].stage = "planning"
    <3>1. Progress(j, Advanced(jobs[j], stage, TRUE, "none"), NoTask)
      BY <1>6, <2>2 DEF RestoreHit
    <3>2. stage \in Stage /\ "none" \in Note
      BY DEF Stage, Note
    <3>3. QED
      BY <1>1, <1>3, <2>1, <3>1, <3>2
         DEF Progress, TaskStep, Moves, Advances, TaskAt
  <2>3. CASE jobs[j].stage # "planning"
    BY <1>6, <2>1, <2>3, AbortShape DEF RestoreHit, TaskStep
  <2>4. QED
    BY <2>2, <2>3
<1>7. ASSUME NEW stage \in ReadyStage, NEW complete \in BOOLEAN,
             NEW valid \in BOOLEAN, ProviderUpdate(j, stage, complete, valid)
      PROVE  TaskStep(j)
  <2>1. tasks[j].pc = "provider" /\ RunFrame
    BY <1>7 DEF ProviderUpdate
  <2>2. stage \in Stage
    BY DEF Stage, ReadyStage
  <2>3. CASE complete /\ ~jobs[j].request.defer
    <3> DEFINE t == [pc |-> "save_update", stage |-> stage, note |-> "none"]
    <3>1. StartSave(j, t)
      BY <1>7, <2>3 DEF ProviderUpdate
    <3>2. t \in Task /\ t.pc = "save_update"
      BY <2>2 DEF Task, Pc, Note
    <3> HIDE DEF t
    <3>3. QED
      BY <1>3, <2>1, <2>3, <3>1, <3>2 DEF StartSave, TaskStep, Moves, Keeps, TaskAt
  <2>4. CASE ~(complete /\ ~jobs[j].request.defer)
    <3>1. Unlocked /\ (Apply(j, stage, complete) \/ Abort(j))
      BY <1>7, <2>4 DEF ProviderUpdate
    <3>2. QED
      BY <1>3, <2>1, <2>2, <3>1, ApplyShape, AbortShape DEF TaskStep
  <2>5. QED
    BY <2>3, <2>4
<1>8. ASSUME NEW valid \in BOOLEAN, UpdateSaved(j, valid)
      PROVE  TaskStep(j)
  <2>1. tasks[j].pc = "save_update" /\ Unlocked /\ RunFrame
          /\ (Apply(j, tasks[j].stage, TRUE) \/ Abort(j))
    BY <1>8 DEF UpdateSaved
  <2>2. tasks[j].stage \in Stage
    BY <1>0 DEF Task
  <2>3. QED
    BY <1>3, <2>1, <2>2, ApplyShape, AbortShape DEF TaskStep
<1>9. CASE ProviderEnd(j)
  <2>1. tasks[j].pc = "provider" /\ Unlocked /\ RunFrame
          /\ (FinishMaster(j, "none") \/ Abort(j))
    BY <1>9 DEF ProviderEnd
  <2>2. QED
    BY <1>3, <2>1, FinishMasterShape, AbortShape DEF TaskStep
<1>10. CASE ProviderFails(j)
  BY <1>10, AbortShape DEF ProviderFails, TaskStep
<1>11. CASE MasterSaved(j)
  <2>1. tasks[j].pc = "save_master" /\ Unlocked /\ RunFrame
          /\ (CompleteMaster(j, tasks[j].note) \/ Abort(j))
    BY <1>11 DEF MasterSaved
  <2>2. tasks[j].note \in {"none", "upgrade_failed"}
    BY <1>0 DEF Task
  <2>3. QED
    BY <1>3, <2>1, <2>2, FinishMasterShape, AbortShape DEF TaskStep
<1>12. CASE CleanupEnds(j)
  BY <1>1, <1>12 DEF CleanupEnds, Wait, TaskStep, Moves, Keeps, TaskAt
<1>13. CASE CleanupFails(j)
  BY <1>13, AbortShape DEF CleanupFails, TaskStep
<1>14. QED
  BY <1>4, <1>5, <1>6, <1>7, <1>8, <1>9, <1>10, <1>11, <1>12, <1>13 DEF RunStep

-----------------------------------------------------------------------------
(* What superseding and evicting do to the table of jobs.                  *)

(* Superseding fails exactly the displaced jobs, and moves nothing else.   *)
LEMMA SupersededFacts ==
  ASSUME IInv, NEW old \in SUBSET Active(jobs), NEW js,
         js = WithSuperseded(jobs, old)
  PROVE  /\ js \in [JobId -> Job]
         /\ \A i \in JobId :
              /\ js[i].retained = jobs[i].retained
              /\ js[i].request = jobs[i].request
              /\ js[i].presented = jobs[i].presented
              /\ js[i].born = jobs[i].born
              /\ i \notin old => js[i] = jobs[i]
              /\ i \in old => js[i].complete /\ js[i].stage = "failed"
         /\ Retained(js) = Retained(jobs)
         /\ Active(js) = Active(jobs) \ old
         /\ Terminal(js) = Terminal(jobs) \cup old
<1>1. \A i \in JobId : jobs[i] \in Job
  BY DEF IInv, TypeOK
<1>2. old \subseteq JobId /\ old \subseteq Retained(jobs)
  BY DEF Active, Retained
<1>3. "failed" \in Stage /\ "superseded" \in Note /\ TRUE \in BOOLEAN
  BY DEF Stage, Note
<1>4. \A i \in JobId :
        /\ js[i] \in Job
        /\ js[i].retained = jobs[i].retained
        /\ js[i].request = jobs[i].request
        /\ js[i].presented = jobs[i].presented
        /\ js[i].born = jobs[i].born
        /\ i \notin old => js[i] = jobs[i]
        /\ i \in old => js[i].complete /\ js[i].stage = "failed"
  <2> SUFFICES ASSUME NEW i \in JobId
               PROVE  /\ js[i] \in Job
                      /\ js[i].retained = jobs[i].retained
                      /\ js[i].request = jobs[i].request
                      /\ js[i].presented = jobs[i].presented
                      /\ js[i].born = jobs[i].born
                      /\ i \notin old => js[i] = jobs[i]
                      /\ i \in old => js[i].complete /\ js[i].stage = "failed"
    OBVIOUS
  <2>1. CASE i \in old
    <3>1. js[i] = Advanced(jobs[i], "failed", TRUE, "superseded")
      BY <2>1 DEF WithSuperseded
    <3>2. jobs[i] \in Job
      BY <1>1
    <3> DEFINE a == Advanced(jobs[i], "failed", TRUE, "superseded")
    <3>3. /\ a \in Job
          /\ a.retained = jobs[i].retained
          /\ a.request = jobs[i].request
          /\ a.presented = jobs[i].presented
          /\ a.born = jobs[i].born
          /\ a.complete = TRUE
          /\ a.stage = "failed"
      <4>1. Follows(a, jobs[i], "failed", TRUE)
        BY <1>3, <3>2, AdvancedType
      <4>2. QED
        BY <4>1 DEF Follows
    <3>4. js[i] = a
      BY <3>1
    <3> HIDE DEF a
    <3>5. QED
      BY <2>1, <3>3, <3>4
  <2>2. CASE i \notin old
    BY <1>1, <2>2 DEF WithSuperseded
  <2>3. QED
    BY <2>1, <2>2
<1>5. js \in [JobId -> Job]
  BY <1>4 DEF WithSuperseded
<1>6. Retained(js) = Retained(jobs)
  BY <1>4 DEF Retained
<1>7. Terminal(js) = Terminal(jobs) \cup old
  <2>1. \A i \in Retained(jobs) : js[i].complete <=> jobs[i].complete \/ i \in old
    BY <1>1, <1>4 DEF Retained, Job
  <2>2. QED
    BY <1>2, <1>6, <2>1 DEF Terminal
<1>8. Active(js) = Active(jobs) \ old
  BY <1>6, <1>7 DEF Active
<1>9. QED
  BY <1>4, <1>5, <1>6, <1>7, <1>8

(* Cancelling the displaced jobs' tasks leaves every other task alone.     *)
LEMMA CancelledFacts ==
  ASSUME IInv, NEW old, NEW ts,
         ts = [j \in JobId |-> IF j \in old THEN Cancelled(tasks[j]) ELSE tasks[j]]
  PROVE  /\ ts \in [JobId -> Task]
         /\ \A i \in JobId :
              /\ i \notin old => ts[i] = tasks[i]
              /\ i \in old => ts[i].pc \in {"none", "cleanup"}
              /\ ts[i].pc = "cleanup" => tasks[i].pc \in {"provider", "cleanup"}
<1>1. \A i \in JobId : tasks[i] \in Task
  BY DEF IInv, TypeOK
<1>2. \A i \in JobId : i \in old => ts[i] = Cancelled(tasks[i])
  OBVIOUS
<1>3. \A i \in JobId : i \notin old => ts[i] = tasks[i]
  OBVIOUS
<1>4. QED
  BY <1>1, <1>2, <1>3, CancelledType

(* Evicting touches the victim only, and clears the pointer that named it. *)
EvictsOnly(js, v, es, ptr) ==
  /\ es \in [JobId -> Job]
  /\ ptr \in [Session -> [rev : Nat, job : JobId \cup {NoJob}]]
  /\ v = NoJob \/ v \in Terminal(js)
  /\ v \notin Active(js)
  /\ v \in JobId => ~es[v].retained
  /\ \A i \in JobId : i # v => es[i] = js[i]
  /\ \A s \in Session :
       \/ ptr[s] = pointer[s]
       \/ ptr[s] = NoPointer /\ pointer[s].job = v /\ v \in JobId
  /\ \A s \in Session :
       v \in JobId /\ js[v].request.session = s => ptr[s].job # v

\* Making room drops the victim, which is over, and nothing else.
LEMMA EvictedFacts ==
  ASSUME NEW js \in [JobId -> Job], NEW v \in Victims(js),
         pointer \in [Session -> [rev : Nat, job : JobId \cup {NoJob}]]
  PROVE  EvictsOnly(js, v, Evicted(js, v), Unpointed(js, v))
<1> DEFINE es  == Evicted(js, v)
           ptr == Unpointed(js, v)
<1>1. v = NoJob \/ v \in Terminal(js)
  BY VictimIsTerminal
<1>2. NoJob \notin JobId
  BY RegistryAssumption
<1>3. v \notin Active(js)
  BY <1>1, <1>2 DEF Active, Retained
<1>4. es \in [JobId -> Job] /\ (v \in JobId => ~es[v].retained)
  BY AbsentType DEF Evicted
<1>5. \A i \in JobId : i # v => es[i] = js[i]
  BY DEF Evicted
<1>6. NoPointer \in [rev : Nat, job : JobId \cup {NoJob}] /\ NoPointer.job = NoJob
  BY DEF NoPointer
<1>7. ptr \in [Session -> [rev : Nat, job : JobId \cup {NoJob}]]
  BY <1>6 DEF Unpointed
<1>8. \A s \in Session :
        \/ ptr[s] = pointer[s]
        \/ ptr[s] = NoPointer /\ pointer[s].job = v /\ v \in JobId
  BY DEF Unpointed
<1>9. \A s \in Session :
        v \in JobId /\ js[v].request.session = s => ptr[s].job # v
  BY <1>2, <1>6 DEF Unpointed
<1>10. QED
  BY <1>1, <1>3, <1>4, <1>5, <1>7, <1>8, <1>9 DEF EvictsOnly

-----------------------------------------------------------------------------
(* Each kind of step keeps the invariant, and the outcome of every job     *)
(* that had finished before it.                                            *)
OutcomesKept ==
  \A j \in Terminal(jobs) : jobs'[j].retained =>
    \/ jobs'[j] = jobs[j]
    \/ /\ ~jobs[j].presented
       /\ jobs'[j] = [jobs[j] EXCEPT !.presented = TRUE, !.revision = @ + 1]

(* A refused submit has at most superseded the session's unfinished job.   *)
LEMMA RefusedKeepsIInv ==
  ASSUME IInv, Unlocked, NEW r \in Inputs,
         jobs' = WithSuperseded(jobs, Displaced(r)),
         tasks' = [j \in JobId |->
                     IF j \in Displaced(r) THEN Cancelled(tasks[j]) ELSE tasks[j]],
         UNCHANGED <<claims, pointer, sequence, highest, inserts, runs,
                     lock, life, saving, latest>>
  PROVE  IInv' /\ OutcomesKept
<1> DEFINE old == Displaced(r)
<1>1. old \subseteq Active(jobs)
  BY DEF Displaced
<1> HIDE DEF old
<1>2. /\ jobs' \in [JobId -> Job]
      /\ \A i \in JobId :
           /\ jobs'[i].retained = jobs[i].retained
           /\ jobs'[i].request = jobs[i].request
           /\ jobs'[i].presented = jobs[i].presented
           /\ i \notin old => jobs'[i] = jobs[i]
           /\ i \in old => jobs'[i].complete /\ jobs'[i].stage = "failed"
      /\ Retained(jobs)' = Retained(jobs)
      /\ Active(jobs)' = Active(jobs) \ old
      /\ Terminal(jobs)' = Terminal(jobs) \cup old
  BY <1>1, SupersededFacts DEF old, Retained, Active, Terminal
<1>3. /\ tasks' \in [JobId -> Task]
      /\ \A i \in JobId :
           /\ i \notin old => tasks'[i] = tasks[i]
           /\ i \in old => tasks'[i].pc \in {"none", "cleanup"}
           /\ tasks'[i].pc = "cleanup" => tasks[i].pc \in {"provider", "cleanup"}
  BY CancelledFacts DEF old
<1>4. TypeOK'
  BY <1>2, <1>3 DEF IInv, TypeOK
<1>5. PointersRetained'
  BY <1>2 DEF IInv, TypeOK, PointersRetained
<1>6. OnlyCurrentJobWorks'
  BY <1>2 DEF IInv, OnlyCurrentJobWorks, Active, Retained
<1>7. TaskOwnsOpenJob'
  BY <1>2, <1>3 DEF IInv, TaskOwnsOpenJob
<1>8. LockKeepsChecks'
  BY DEF LockKeepsChecks, Unlocked
<1>9. TasksFit'
  <2>1. \A j \in PreparedId : tasks'[j].pc = "none"
    BY <1>3 DEF IInv, TasksFit, JobId
  <2>2. ASSUME NEW j \in Terminal(jobs)', tasks'[j].pc = "cleanup"
        PROVE  jobs'[j].stage = "failed"
    BY <1>2, <1>3, <2>2 DEF IInv, TasksFit, Terminal, Retained
  <2>3. QED
    BY <2>1, <2>2 DEF TasksFit
<1>10. ClaimsOutliveJobs'
  BY <1>2 DEF IInv, ClaimsOutliveJobs, IssuedId, JobId
<1>11. JobsFit'
  <2> SUFFICES ASSUME NEW j \in Retained(jobs)'
               PROVE  /\ jobs'[j].request.defer => jobs'[j].request.session \in Session
                      /\ jobs'[j].presented => jobs'[j].complete
    BY DEF JobsFit
  <2>1. j \in JobId /\ j \in Retained(jobs)
    BY <1>2 DEF Retained
  <2>2. QED
    BY <1>2, <2>1 DEF IInv, JobsFit
<1>12. SavesFit'
  BY <1>2 DEF IInv, TypeOK, SavesFit, IssuedId
<1>13. OutcomesKept
  BY <1>1, <1>2 DEF OutcomesKept, Active, Terminal, Retained
<1>14. QED
  BY <1>4, <1>5, <1>6, <1>7, <1>8, <1>9, <1>10, <1>11, <1>12, <1>13 DEF IInv

(* An admitted submit makes a fresh job its session's current one.         *)
LEMMA AdmittedKeepsIInv ==
  ASSUME IInv, Unlocked, NEW r \in Inputs, Admitted(r),
         NEW js, js = WithSuperseded(jobs, Displaced(r)),
         NEW j \in FreshId \ IssuedId, NEW v \in Victims(js),
         jobs' = [Evicted(js, v) EXCEPT ![j] = NewJob(r, "queued", FALSE)],
         tasks' = [[i \in JobId |-> IF i \in Displaced(r) THEN Cancelled(tasks[i])
                                    ELSE tasks[i]]
                     EXCEPT ![j] = [NoTask EXCEPT !.pc = "start"]],
         claims' = IF Guarded(r)
                   THEN [claims EXCEPT ![<<r.session, r.submission>>] = j]
                   ELSE claims,
         PointTo(Unpointed(js, v), r.session, j),
         inserts' = inserts + 1,
         runs' = runs \cup {[job |-> j, request |-> r]},
         UNCHANGED <<lock, life, saving, latest>>
  PROVE  IInv' /\ OutcomesKept
<1> DEFINE old == Displaced(r)
           new == NewJob(r, "queued", FALSE)
           es  == Evicted(js, v)
           ptr == Unpointed(js, v)
           ts  == [i \in JobId |-> IF i \in old THEN Cancelled(tasks[i])
                                   ELSE tasks[i]]
           go  == [NoTask EXCEPT !.pc = "start"]
<1>1. /\ old \subseteq Active(jobs)
      /\ \A i \in Active(jobs) :
           r.session \in Session /\ pointer[r.session].job = i => i \in old
  BY DEF Displaced
<1>2. /\ jobs' = [es EXCEPT ![j] = new]
      /\ tasks' = [ts EXCEPT ![j] = go]
      /\ PointTo(ptr, r.session, j)
  OBVIOUS
<1>3. /\ ts \in [JobId -> Task]
      /\ \A i \in JobId :
           /\ i \notin old => ts[i] = tasks[i]
           /\ i \in old => ts[i].pc \in {"none", "cleanup"}
           /\ ts[i].pc = "cleanup" => tasks[i].pc \in {"provider", "cleanup"}
  BY CancelledFacts
<1>4. go \in Task /\ go.pc = "start"
  BY DEF NoTask, Task, Pc, Stage, Note
<1>5. js = WithSuperseded(jobs, old)
  OBVIOUS
<1>6. r \in Request /\ r \in RawRequest
  BY RegistryAssumption DEF Request
<1>7. /\ new \in Job
      /\ new.retained
      /\ new.stage = "queued"
      /\ ~new.complete
      /\ new.request = r
      /\ ~new.presented
  <2>1. "queued" \in Stage /\ FALSE \in BOOLEAN /\ inserts \in Nat
    BY DEF IInv, TypeOK, Stage
  <2>2. QED
    BY <1>6, <2>1 DEF NewJob, Job, Note
<1> HIDE DEF old, new, ts, go
<1>8. /\ js \in [JobId -> Job]
      /\ \A i \in JobId :
           /\ js[i].retained = jobs[i].retained
           /\ js[i].request = jobs[i].request
           /\ js[i].presented = jobs[i].presented
           /\ i \notin old => js[i] = jobs[i]
           /\ i \in old => js[i].complete /\ js[i].stage = "failed"
      /\ Retained(js) = Retained(jobs)
      /\ Active(js) = Active(jobs) \ old
      /\ Terminal(js) = Terminal(jobs) \cup old
  BY <1>1, <1>5, SupersededFacts
<1>9. pointer \in [Session -> [rev : Nat, job : JobId \cup {NoJob}]]
  BY DEF IInv, TypeOK
<1>10. /\ es \in [JobId -> Job]
       /\ ptr \in [Session -> [rev : Nat, job : JobId \cup {NoJob}]]
       /\ v = NoJob \/ v \in Terminal(js)
       /\ v \notin Active(js)
       /\ v \in JobId => ~es[v].retained
       /\ \A i \in JobId : i # v => es[i] = js[i]
       /\ \A s \in Session :
            \/ ptr[s] = pointer[s]
            \/ ptr[s] = NoPointer /\ pointer[s].job = v /\ v \in JobId
       /\ \A s \in Session :
            v \in JobId /\ js[v].request.session = s => ptr[s].job # v
  <2>1. js \in [JobId -> Job]
    BY <1>8
  <2>2. EvictsOnly(js, v, es, ptr)
    BY <1>9, <2>1, EvictedFacts
  <2>3. QED
    BY <2>2 DEF EvictsOnly
<1> HIDE DEF es, ptr
<1>11. /\ j \in JobId /\ j \in FreshId /\ j \notin PreparedId /\ j # NoJob
       /\ ~jobs[j].retained
       /\ j \notin Retained(jobs)
  BY RegistryAssumption DEF IInv, ClaimsOutliveJobs, JobId, Retained
<1>12. j # v
  BY <1>8, <1>10, <1>11 DEF Terminal
<1>13. jobs' \in [JobId -> Job] /\ jobs'[j] = new
       /\ \A i \in JobId : i # j => jobs'[i] = es[i]
  <2>1. new \in Job /\ es \in [JobId -> Job] /\ j \in JobId
    BY <1>7, <1>10, <1>11
  <2>2. QED
    BY <1>2, <2>1
<1>14. tasks' \in [JobId -> Task] /\ tasks'[j] = go
       /\ \A i \in JobId : i # j => tasks'[i] = ts[i]
  BY <1>2, <1>3, <1>4, <1>11
<1>15. /\ pointer' \in [Session -> [rev : Nat, job : JobId \cup {NoJob}]]
       /\ sequence' \in Nat
       /\ highest' \in [Session -> Nat]
       /\ r.session \in Session => pointer'[r.session].job = j
       /\ \A s \in Session : s # r.session => pointer'[s] = ptr[s]
  <2>1. /\ ptr \in [Session -> [rev : Nat, job : JobId \cup {NoJob}]]
        /\ highest \in [Session -> Nat] /\ sequence \in Nat
        /\ j \in JobId
    BY <1>10, <1>11 DEF IInv, TypeOK
  <2>2. CASE r.session \in Session
    <3> DEFINE p == [rev |-> sequence + 1, job |-> j]
    <3>1. p \in [rev : Nat, job : JobId \cup {NoJob}] /\ p.job = j
      BY <2>1
    <3>2. /\ pointer' = [ptr EXCEPT ![r.session] = p]
          /\ sequence' = sequence + 1
          /\ highest' = [highest EXCEPT ![r.session] = sequence + 1]
      BY <1>2, <2>2 DEF PointTo
    <3> HIDE DEF p
    <3>3. QED
      BY <2>1, <2>2, <3>1, <3>2
  <2>3. CASE r.session \notin Session
    BY <1>2, <2>1, <2>3 DEF PointTo
  <2>4. QED
    BY <2>2, <2>3
<1>16. \A i \in JobId : i # j /\ jobs'[i].retained =>
         /\ i # v
         /\ jobs'[i] = js[i]
         /\ i \in Retained(jobs)
  BY <1>8, <1>10, <1>13 DEF Retained
<1>17. \A i \in Active(jobs)' : i # j =>
         /\ i \in Active(jobs)
         /\ i \notin old
         /\ i # v
         /\ jobs'[i] = jobs[i]
  <2> SUFFICES ASSUME NEW i \in Active(jobs)', i # j
               PROVE  i \in Active(jobs) /\ i \notin old /\ i # v /\ jobs'[i] = jobs[i]
    OBVIOUS
  <2>1. i \in JobId /\ jobs'[i].retained /\ ~jobs'[i].complete
    BY DEF Active, Terminal, Retained
  <2>2. i # v /\ jobs'[i] = js[i] /\ i \in Retained(jobs)
    BY <1>16, <2>1
  <2>3. i \in Active(js)
    BY <1>8, <2>1, <2>2 DEF Active, Terminal
  <2>4. QED
    BY <1>8, <2>1, <2>2, <2>3
<1>18. TypeOK'
  <2>1. claims' \in [Session \X Submission -> JobId \cup {NoJob}]
    BY <1>11 DEF IInv, TypeOK
  <2>2. runs' \subseteq [job : FreshId, request : RawRequest]
    BY <1>6, <1>11 DEF IInv, TypeOK
  <2>3. inserts' \in Nat
    BY DEF IInv, TypeOK
  <2>4. QED
    BY <1>13, <1>14, <1>15, <2>1, <2>2, <2>3 DEF IInv, TypeOK
<1>19. PointersRetained'
  <2> SUFFICES ASSUME NEW s \in Session, pointer'[s].job # NoJob
               PROVE  /\ jobs'[pointer'[s].job].retained
                      /\ jobs'[pointer'[s].job].request.session = s
    BY DEF PointersRetained
  <2>1. CASE s = r.session
    BY <1>7, <1>13, <1>15, <2>1
  <2>2. CASE s # r.session
    <3>1. pointer'[s] = ptr[s]
      BY <1>15, <2>2
    <3>2. pointer'[s] = pointer[s]
      BY <1>10, <3>1 DEF NoPointer
    <3> DEFINE i == pointer[s].job
    <3>3. i \in JobId /\ jobs[i].retained /\ jobs[i].request.session = s
      BY <1>9, <3>2 DEF IInv, PointersRetained
    <3>4. i # j /\ js[i].request.session = s
      BY <1>8, <1>11, <3>3
    <3>5. i # v
      BY <1>10, <3>1, <3>2, <3>3, <3>4
    <3>6. jobs'[i] = js[i]
      BY <1>10, <1>13, <3>3, <3>4, <3>5
    <3>7. jobs'[i].retained /\ jobs'[i].request.session = s
      BY <1>8, <3>3, <3>6
    <3>8. QED
      BY <3>2, <3>7
  <2>3. QED
    BY <2>1, <2>2
<1>20. OnlyCurrentJobWorks'
  <2> SUFFICES ASSUME NEW i \in Active(jobs)', jobs'[i].request.session \in Session
               PROVE  pointer'[jobs'[i].request.session].job = i
    BY DEF OnlyCurrentJobWorks
  <2>1. CASE i = j
    BY <1>7, <1>13, <1>15, <2>1
  <2>2. CASE i # j
    <3> DEFINE s == jobs'[i].request.session
    <3>1. i \in Active(jobs) /\ i \notin old /\ i # v /\ jobs'[i] = jobs[i]
      BY <1>17, <2>2
    <3>2. s \in Session /\ pointer[s].job = i
      BY <3>1 DEF IInv, OnlyCurrentJobWorks
    <3>3. s # r.session
      BY <1>1, <3>1, <3>2
    <3>4. pointer'[s] = pointer[s]
      BY <1>10, <1>15, <3>1, <3>2, <3>3
    <3>5. QED
      BY <3>2, <3>4
  <2>3. QED
    BY <2>1, <2>2
<1>21. TaskOwnsOpenJob'
  <2> SUFFICES ASSUME NEW i \in JobId, tasks'[i].pc \notin {"none", "cleanup"}
               PROVE  i \in Active(jobs)'
    BY DEF TaskOwnsOpenJob
  <2>1. CASE i = j
    BY <1>7, <1>13, <2>1 DEF Active, Terminal, Retained
  <2>2. CASE i # j
    <3>1. tasks'[i] = ts[i] /\ i \notin old /\ i \in Active(jobs)
      BY <1>3, <1>14, <2>2 DEF IInv, TaskOwnsOpenJob
    <3>2. i \in Active(js) /\ i # v
      BY <1>8, <1>10, <3>1
    <3>3. jobs'[i] = js[i]
      BY <1>10, <1>13, <2>2, <3>2
    <3>4. QED
      BY <3>2, <3>3 DEF Active, Terminal, Retained
  <2>3. QED
    BY <2>1, <2>2
<1>22. LockKeepsChecks'
  BY DEF LockKeepsChecks, Unlocked
<1>23. TasksFit'
  <2>1. \A i \in PreparedId : tasks'[i].pc = "none"
    <3> SUFFICES ASSUME NEW i \in PreparedId PROVE tasks'[i].pc = "none"
      OBVIOUS
    <3>1. i \in JobId /\ i # j /\ tasks[i].pc = "none"
      BY <1>11 DEF JobId, IInv, TasksFit
    <3>2. QED
      BY <1>3, <1>14, <3>1
  <2>2. ASSUME NEW i \in Terminal(jobs)', tasks'[i].pc = "cleanup"
        PROVE  jobs'[i].stage = "failed"
    <3>1. i \in JobId /\ jobs'[i].retained /\ jobs'[i].complete
      BY DEF Terminal, Retained
    <3>2. i # j
      BY <1>7, <1>13, <3>1
    <3>3. jobs'[i] = js[i] /\ i \in Retained(jobs)
      BY <1>16, <3>1, <3>2
    <3>4. i \in Terminal(js)
      BY <1>8, <3>1, <3>3 DEF Terminal
    <3>5. CASE i \in old
      BY <1>8, <3>1, <3>3, <3>5
    <3>6. CASE i \notin old
      BY <1>3, <1>8, <1>14, <2>2, <3>1, <3>2, <3>3, <3>4, <3>6 DEF IInv, TasksFit
    <3>7. QED
      BY <3>5, <3>6
  <2>3. QED
    BY <2>1, <2>2 DEF TasksFit
<1>24. ClaimsOutliveJobs'
  <2> DEFINE run0 == [job |-> j, request |-> r]
  <2>0. runs' = runs \cup {run0} /\ run0.job = j
    OBVIOUS
  <2> HIDE DEF run0
  <2>1. IssuedId' = IssuedId \cup {j}
    BY <2>0 DEF IssuedId
  <2>2. \A i \in FreshId : jobs'[i].retained => i \in IssuedId'
    BY <1>16, <2>1 DEF IInv, ClaimsOutliveJobs, JobId, Retained
  <2>3. ASSUME NEW run \in runs', Guarded(run.request)
        PROVE  /\ run.request.session \in Session
               /\ run.request.submission \in Submission
               /\ claims'[<<run.request.session, run.request.submission>>] = run.job
    <3>1. CASE run = [job |-> j, request |-> r]
      <4>1. Guarded(r) /\ run.job = j /\ run.request = r
        BY <2>3, <3>1
      <4>2. r.session \in Session /\ r.submission \in Submission
        BY <1>6, <4>1 DEF Guarded, Request, RawRequest
      <4>3. QED
        BY <4>1, <4>2 DEF IInv, TypeOK
    <3>2. CASE run \in runs
      <4>1. /\ run.request.session \in Session
            /\ run.request.submission \in Submission
            /\ claims[<<run.request.session, run.request.submission>>] = run.job
        BY <2>3, <3>2 DEF IInv, ClaimsOutliveJobs
      <4>2. run.job # NoJob
        BY <3>2, RegistryAssumption DEF IInv, TypeOK, JobId
      <4>3. Guarded(r) => claims[<<r.session, r.submission>>] = NoJob
        BY DEF Admitted
      <4>4. QED
        BY <4>1, <4>2, <4>3 DEF IInv, TypeOK
    <3>3. QED
      BY <3>1, <3>2
  <2>4. QED
    BY <2>2, <2>3 DEF ClaimsOutliveJobs
<1>25. JobsFit'
  <2> SUFFICES ASSUME NEW i \in Retained(jobs)'
               PROVE  /\ jobs'[i].request.defer => jobs'[i].request.session \in Session
                      /\ jobs'[i].presented => jobs'[i].complete
    BY DEF JobsFit
  <2>1. i \in JobId /\ jobs'[i].retained
    BY DEF Retained
  <2>2. CASE i = j
    BY <1>6, <1>7, <1>13, <2>2 DEF Request, RawRequest
  <2>3. CASE i # j
    BY <1>8, <1>16, <2>1, <2>3 DEF IInv, JobsFit
  <2>4. QED
    BY <2>2, <2>3
<1>26. SavesFit'
  <2> SUFFICES ASSUME NEW i \in saving
               PROVE  /\ i \in FreshId => i \in IssuedId'
                      /\ i \in PreparedId => lock.holder # "free" /\ lock.job = i
                      /\ jobs'[i].retained /\ jobs'[i].request.defer =>
                           lock.holder = "present" /\ lock.job = i
    BY DEF SavesFit
  <2>1. /\ i \in JobId /\ i \in FreshId /\ i \in IssuedId
        /\ ~(jobs[i].retained /\ jobs[i].request.defer)
    BY DEF IInv, TypeOK, SavesFit, Unlocked, JobId
  <2>2. i \in IssuedId' /\ i \notin PreparedId /\ i # j
    BY <2>1, RegistryAssumption DEF IssuedId
  <2>3. QED
    BY <1>8, <1>16, <2>1, <2>2 DEF Retained
<1>27. OutcomesKept
  <2> SUFFICES ASSUME NEW i \in Terminal(jobs), jobs'[i].retained
               PROVE  jobs'[i] = jobs[i]
    BY DEF OutcomesKept
  <2>1. i \in JobId /\ i # j /\ i \notin old
    BY <1>1, <1>11 DEF Active, Terminal, Retained
  <2>2. QED
    BY <1>8, <1>16, <2>1
<1>28. QED
  BY <1>27, <1>18, <1>19, <1>20, <1>21, <1>22, <1>23, <1>24, <1>25, <1>26 DEF IInv

(* A submit either makes a job or is refused after superseding one.        *)
LEMMA SubmitKeepsIInv ==
  ASSUME IInv, NEW r \in Inputs, Submit(r)
  PROVE  IInv' /\ OutcomesKept
<1> DEFINE js == WithSuperseded(jobs, Displaced(r))
           ts == [i \in JobId |-> IF i \in Displaced(r) THEN Cancelled(tasks[i])
                                  ELSE tasks[i]]
<1>1. Unlocked /\ Admitted(r)
  BY DEF Submit
<1>2. CASE Cardinality(Active(js)) < MaxActive /\ CanRetain(js)
  <2>1. PICK j \in FreshId \ IssuedId, v \in Victims(js) :
          /\ jobs' = [Evicted(js, v) EXCEPT ![j] = NewJob(r, "queued", FALSE)]
          /\ tasks' = [ts EXCEPT ![j] = [NoTask EXCEPT !.pc = "start"]]
          /\ claims' = IF Guarded(r)
                       THEN [claims EXCEPT ![<<r.session, r.submission>>] = j]
                       ELSE claims
          /\ PointTo(Unpointed(js, v), r.session, j)
          /\ inserts' = inserts + 1
          /\ runs' = runs \cup {[job |-> j, request |-> r]}
          /\ UNCHANGED <<lock, life, saving, latest>>
    BY <1>2, Zenon DEF Submit
  <2>2. QED
    BY <1>1, <2>1, AdmittedKeepsIInv
<1>3. CASE ~(Cardinality(Active(js)) < MaxActive /\ CanRetain(js))
  <2>1. /\ jobs' = js
        /\ tasks' = ts
        /\ UNCHANGED <<claims, pointer, sequence, highest, inserts, runs,
                       lock, life, saving, latest>>
    BY <1>3, Zenon DEF Submit
  <2>2. QED
    BY <1>1, <2>1, RefusedKeepsIInv
<1>4. QED
  BY <1>2, <1>3

(* present takes the lock for a scene that satisfies its fence.            *)
LEMMA PresentSaveKeepsIInv ==
  ASSUME IInv, NEW j \in JobId, PresentSave(j)
  PROVE  IInv' /\ OutcomesKept
<1> USE DEF PresentSave
<1>1. TypeOK'
  BY DEF IInv, TypeOK, LockState
<1>2. PointersRetained' /\ OnlyCurrentJobWorks' /\ TaskOwnsOpenJob'
  BY DEF IInv, PointersRetained, OnlyCurrentJobWorks, TaskOwnsOpenJob,
         Active, Terminal, Retained
<1>3. LockKeepsChecks'
  <2>1. jobs[j].request.session \in Session /\ j \in Retained(jobs)
    BY DEF IInv, JobsFit, Terminal
  <2>2. QED
    BY <2>1 DEF LockKeepsChecks, Terminal, Retained
<1>4. TasksFit' /\ JobsFit'
  BY DEF IInv, TasksFit, JobsFit, Terminal, Retained
<1>5. ClaimsOutliveJobs'
  BY DEF IInv, ClaimsOutliveJobs, IssuedId
<1>6. SavesFit'
  <2>1. j \in FreshId => j \in IssuedId
    BY DEF IInv, ClaimsOutliveJobs, Terminal, Retained
  <2>2. \A i \in saving : /\ i \in FreshId => i \in IssuedId
                          /\ i \notin PreparedId
                          /\ ~(jobs[i].retained /\ jobs[i].request.defer)
    BY DEF IInv, SavesFit, Unlocked
  <2>3. QED
    BY <2>1, <2>2 DEF SavesFit, IssuedId
<1>7. OutcomesKept
  BY DEF OutcomesKept
<1>8. QED
  BY <1>7, <1>1, <1>2, <1>3, <1>4, <1>5, <1>6 DEF IInv

(* Presenting changes one finished scene that is still current.            *)
LEMMA PresentShowKeepsIInv ==
  ASSUME IInv, PresentShow
  PROVE  IInv' /\ OutcomesKept
<1> DEFINE j == lock.job
           new == [jobs[j] EXCEPT !.presented = TRUE, !.revision = @ + 1]
<1>1. /\ j \in JobId /\ j \in Terminal(jobs) /\ jobs[j] \in Job
      /\ lock.holder = "present" /\ j \notin saving
  BY DEF IInv, TypeOK, LockKeepsChecks, PresentShow, Terminal, Retained
<1>2. jobs' = [jobs EXCEPT ![j] = new]
  BY <1>1 DEF PresentShow, IInv, TypeOK
<1>3. /\ new \in Job
      /\ new.retained = jobs[j].retained
      /\ new.complete = jobs[j].complete
      /\ new.stage = jobs[j].stage
      /\ new.request = jobs[j].request
  <2>1. jobs[j].revision + 1 \in Nat
    BY <1>1 DEF Job
  <2>2. QED
    BY <1>1, <2>1 DEF Job
<1> HIDE DEF new, j
<1>4. /\ jobs' \in [JobId -> Job]
      /\ \A i \in JobId :
           /\ jobs'[i].retained = jobs[i].retained
           /\ jobs'[i].complete = jobs[i].complete
           /\ jobs'[i].stage = jobs[i].stage
           /\ jobs'[i].request = jobs[i].request
           /\ i # j => jobs'[i] = jobs[i]
  BY <1>1, <1>2, <1>3 DEF IInv, TypeOK
<1>5. /\ Retained(jobs)' = Retained(jobs)
      /\ Terminal(jobs)' = Terminal(jobs)
      /\ Active(jobs)' = Active(jobs)
  BY <1>4 DEF Retained, Terminal, Active
<1>6. UNCHANGED <<pointer, sequence, claims, tasks, life, saving, latest,
                  inserts, runs, highest>> /\ lock' = Free
  BY DEF PresentShow
<1>7. TypeOK'
  BY <1>4, <1>6, RegistryAssumption DEF IInv, TypeOK, LockState, Free
<1>8. PointersRetained'
  BY <1>4, <1>6 DEF IInv, TypeOK, PointersRetained
<1>9. OnlyCurrentJobWorks'
  BY <1>4, <1>5, <1>6 DEF IInv, OnlyCurrentJobWorks, Active, Retained
<1>10. TaskOwnsOpenJob'
  BY <1>5, <1>6 DEF IInv, TaskOwnsOpenJob
<1>11. LockKeepsChecks'
  BY <1>6 DEF LockKeepsChecks, Free
<1>12. TasksFit'
  BY <1>4, <1>5, <1>6 DEF IInv, TasksFit, Terminal, Retained
<1>13. ClaimsOutliveJobs'
  BY <1>4, <1>6 DEF IInv, ClaimsOutliveJobs, IssuedId, JobId
<1>14. JobsFit'
  <2>1. \A i \in Retained(jobs) : i \in JobId
    BY DEF Retained
  <2>2. \A i \in Retained(jobs) : jobs'[i].presented => jobs'[i].complete
    BY <1>1, <1>4, <2>1 DEF IInv, JobsFit, Terminal
  <2>3. QED
    BY <1>4, <1>5, <2>1, <2>2 DEF IInv, JobsFit
<1>15. SavesFit'
  <2>1. \A i \in saving : /\ i \in JobId
                          /\ i \in FreshId => i \in IssuedId
                          /\ i \notin PreparedId
                          /\ ~(jobs[i].retained /\ jobs[i].request.defer)
    BY <1>1 DEF IInv, TypeOK, SavesFit, j
  <2>2. QED
    BY <1>4, <1>6, <2>1 DEF SavesFit, IssuedId
<1>16. OutcomesKept
  <2>1. ~jobs[j].presented
    BY <1>1 DEF IInv, LockKeepsChecks, j
  <2>2. jobs'[j] = [jobs[j] EXCEPT !.presented = TRUE, !.revision = @ + 1]
    BY <1>1, <1>2 DEF IInv, TypeOK, new
  <2>3. QED
    BY <1>4, <2>1, <2>2 DEF OutcomesKept, Terminal, Retained
<1>17. QED
  BY <1>16, <1>7, <1>8, <1>9, <1>10, <1>11, <1>12, <1>13, <1>14, <1>15 DEF IInv

(* Inserting a prepared page, after an eviction or none, keeps the parts   *)
(* of the invariant that speak of jobs, pointers and tasks.                *)
LEMMA InsertKeeps ==
  ASSUME IInv, NEW j \in PreparedId, NEW defer \in BOOLEAN,
         NEW es, NEW ptr, NEW v, EvictsOnly(jobs, v, es, ptr),
         ~jobs[j].retained,
         pointer[PreparedFor[j]].job \in {NoJob} \cup Terminal(jobs),
         InsertPrepared(es, ptr, j, defer),
         UNCHANGED <<claims, tasks, runs>>
  PROVE  /\ jobs' \in [JobId -> Job]
         /\ pointer' \in [Session -> [rev : Nat, job : JobId \cup {NoJob}]]
         /\ sequence' \in Nat /\ inserts' \in Nat /\ highest' \in [Session -> Nat]
         /\ PointersRetained'
         /\ OnlyCurrentJobWorks'
         /\ TaskOwnsOpenJob'
         /\ TasksFit'
         /\ ClaimsOutliveJobs'
         /\ JobsFit'
         /\ \A i \in JobId : i # j /\ jobs'[i].retained => jobs'[i] = jobs[i]
<1> DEFINE s == PreparedFor[j]
           r == [NoRequest EXCEPT !.session = s, !.defer = defer]
           new == NewJob(r, "master", TRUE)
<1>1. s \in Session /\ j \in JobId /\ j # NoJob /\ j \notin FreshId
  BY RegistryAssumption DEF JobId
<1>2. r \in RawRequest /\ r.session = s
  BY <1>1 DEF NoRequest, RawRequest
<1> HIDE DEF s, r
<1>3. /\ new \in Job /\ new.retained /\ new.complete /\ new.request = r
      /\ ~new.presented
  <2>1. "master" \in Stage /\ TRUE \in BOOLEAN /\ inserts \in Nat
    BY DEF IInv, TypeOK, Stage
  <2>2. QED
    BY <1>2, <2>1 DEF NewJob, Job, Note
<1>4. jobs' = [es EXCEPT ![j] = new] /\ PointTo(ptr, s, j) /\ inserts' = inserts + 1
  BY DEF InsertPrepared, s, r
<1> HIDE DEF new
<1>5. /\ es \in [JobId -> Job]
      /\ ptr \in [Session -> [rev : Nat, job : JobId \cup {NoJob}]]
      /\ v = NoJob \/ v \in Terminal(jobs)
      /\ v \notin Active(jobs)
      /\ v \in JobId => ~es[v].retained
      /\ \A i \in JobId : i # v => es[i] = jobs[i]
      /\ \A t \in Session :
           \/ ptr[t] = pointer[t]
           \/ ptr[t] = NoPointer /\ pointer[t].job = v /\ v \in JobId
      /\ \A t \in Session :
           v \in JobId /\ jobs[v].request.session = t => ptr[t].job # v
  BY DEF EvictsOnly
<1>6. /\ jobs' \in [JobId -> Job]
      /\ jobs'[j] = new
      /\ \A i \in JobId : i # j => jobs'[i] = es[i]
  BY <1>1, <1>3, <1>4, <1>5
<1>7. /\ pointer' \in [Session -> [rev : Nat, job : JobId \cup {NoJob}]]
      /\ pointer'[s].job = j
      /\ \A t \in Session : t # s => pointer'[t] = ptr[t]
      /\ sequence' \in Nat /\ inserts' \in Nat /\ highest' \in [Session -> Nat]
  <2>1. sequence \in Nat /\ inserts \in Nat /\ highest \in [Session -> Nat]
    BY DEF IInv, TypeOK
  <2> DEFINE p == [rev |-> sequence + 1, job |-> j]
  <2>2. p \in [rev : Nat, job : JobId \cup {NoJob}] /\ p.job = j
    BY <1>1, <2>1
  <2>3. /\ pointer' = [ptr EXCEPT ![s] = p]
        /\ sequence' = sequence + 1
        /\ highest' = [highest EXCEPT ![s] = sequence + 1]
    BY <1>1, <1>4 DEF PointTo
  <2> HIDE DEF p
  <2>4. QED
    BY <1>1, <1>4, <1>5, <2>1, <2>2, <2>3
<1>8. \A i \in JobId : i # j /\ jobs'[i].retained => i # v /\ jobs'[i] = jobs[i]
  BY <1>5, <1>6
<1>9. j # v
  BY <1>1, <1>5 DEF Terminal, Retained
<1>10. PointersRetained'
  <2> SUFFICES ASSUME NEW t \in Session, pointer'[t].job # NoJob
               PROVE  /\ jobs'[pointer'[t].job].retained
                      /\ jobs'[pointer'[t].job].request.session = t
    BY DEF PointersRetained
  <2>1. CASE t = s
    BY <1>2, <1>3, <1>6, <1>7, <2>1
  <2>2. CASE t # s
    <3>1. pointer'[t] = ptr[t] /\ ptr[t] = pointer[t]
      BY <1>5, <1>7, <2>2 DEF NoPointer
    <3> DEFINE i == pointer[t].job
    <3>2. i \in JobId /\ jobs[i].retained /\ jobs[i].request.session = t
      BY <3>1 DEF IInv, TypeOK, PointersRetained
    <3>3. i # j /\ i # v
      BY <1>5, <3>1, <3>2
    <3>4. jobs'[i] = jobs[i]
      BY <1>5, <1>6, <3>2, <3>3
    <3>5. QED
      BY <3>1, <3>2, <3>4
  <2>3. QED
    BY <2>1, <2>2
<1>11. \A i \in Active(jobs)' : i # j /\ i # v /\ i \in Active(jobs) /\ jobs'[i] = jobs[i]
  <2> SUFFICES ASSUME NEW i \in Active(jobs)'
               PROVE  i # j /\ i # v /\ i \in Active(jobs) /\ jobs'[i] = jobs[i]
    OBVIOUS
  <2>1. i \in JobId /\ jobs'[i].retained /\ ~jobs'[i].complete
    BY DEF Active, Terminal, Retained
  <2>2. i # j
    BY <1>3, <1>6, <2>1
  <2>3. i # v /\ jobs'[i] = jobs[i]
    BY <1>8, <2>1, <2>2
  <2>4. QED
    BY <2>1, <2>2, <2>3 DEF Active, Terminal, Retained
<1>12. OnlyCurrentJobWorks'
  <2> SUFFICES ASSUME NEW i \in Active(jobs)', jobs'[i].request.session \in Session
               PROVE  pointer'[jobs'[i].request.session].job = i
    BY DEF OnlyCurrentJobWorks
  <2> DEFINE t == jobs'[i].request.session
  <2>1. i \in Active(jobs) /\ jobs'[i] = jobs[i] /\ i # v
    BY <1>11
  <2>2. t \in Session /\ pointer[t].job = i
    BY <2>1 DEF IInv, OnlyCurrentJobWorks
  <2>3. t # s
    BY <2>1, <2>2, RegistryAssumption DEF s, Active, Retained
  <2>4. QED
    BY <1>5, <1>7, <2>1, <2>2, <2>3
<1>13. TaskOwnsOpenJob'
  <2> SUFFICES ASSUME NEW i \in JobId, tasks[i].pc \notin {"none", "cleanup"}
               PROVE  i \in Active(jobs)'
    BY DEF TaskOwnsOpenJob
  <2>1. i \in Active(jobs) /\ i # j
    BY DEF IInv, TaskOwnsOpenJob, TasksFit
  <2>2. jobs'[i] = jobs[i]
    BY <1>5, <1>6, <2>1
  <2>3. QED
    BY <2>1, <2>2 DEF Active, Terminal, Retained
<1>14. TasksFit'
  <2>1. \A i \in PreparedId : tasks'[i].pc = "none"
    BY DEF IInv, TasksFit
  <2>2. ASSUME NEW i \in Terminal(jobs)', tasks'[i].pc = "cleanup"
        PROVE  jobs'[i].stage = "failed"
    <3>1. i \in JobId /\ jobs'[i].retained /\ jobs'[i].complete
      BY DEF Terminal, Retained
    <3>2. i # j
      BY <2>1, <2>2
    <3>3. jobs'[i] = jobs[i]
      BY <1>8, <3>1, <3>2
    <3>4. QED
      BY <2>2, <3>1, <3>3 DEF IInv, TasksFit, Terminal, Retained
  <2>3. QED
    BY <2>1, <2>2 DEF TasksFit
<1>15. ClaimsOutliveJobs'
  <2>1. \A i \in FreshId : jobs'[i].retained => jobs[i].retained
    BY <1>1, <1>8 DEF JobId
  <2>2. QED
    BY <2>1 DEF IInv, ClaimsOutliveJobs, IssuedId
<1>16. JobsFit'
  <2> SUFFICES ASSUME NEW i \in JobId, jobs'[i].retained
               PROVE  /\ jobs'[i].request.defer => jobs'[i].request.session \in Session
                      /\ jobs'[i].presented => jobs'[i].complete
    BY DEF JobsFit, Retained
  <2>1. CASE i = j
    BY <1>1, <1>2, <1>3, <1>6, <2>1
  <2>2. CASE i # j
    BY <1>8, <2>2 DEF IInv, JobsFit, Retained
  <2>3. QED
    BY <2>1, <2>2
<1>17. QED
  BY <1>6, <1>7, <1>8, <1>10, <1>12, <1>13, <1>14, <1>15, <1>16

(* A deferred activation inserts its page in one step.                     *)
LEMMA ActivateDeferredKeepsIInv ==
  ASSUME IInv, NEW j \in PreparedId, ActivateDeferred(j)
  PROVE  IInv' /\ OutcomesKept
<1>1. PICK v \in Victims(jobs) :
        InsertPrepared(Evicted(jobs, v), Unpointed(jobs, v), j, TRUE)
  BY DEF ActivateDeferred
<1>2. Activatable(j) /\ UNCHANGED <<claims, tasks, lock, life, saving, latest, runs>>
  BY DEF ActivateDeferred
<1>3. jobs \in [JobId -> Job]
        /\ pointer \in [Session -> [rev : Nat, job : JobId \cup {NoJob}]]
  BY DEF IInv, TypeOK
<1>4. EvictsOnly(jobs, v, Evicted(jobs, v), Unpointed(jobs, v))
  BY <1>3, EvictedFacts
<1>5. TRUE \in BOOLEAN /\ ~jobs[j].retained
        /\ pointer[PreparedFor[j]].job \in {NoJob} \cup Terminal(jobs)
  BY <1>2 DEF Activatable
<1>6. /\ jobs' \in [JobId -> Job]
      /\ pointer' \in [Session -> [rev : Nat, job : JobId \cup {NoJob}]]
      /\ sequence' \in Nat /\ inserts' \in Nat /\ highest' \in [Session -> Nat]
      /\ PointersRetained'
      /\ OnlyCurrentJobWorks'
      /\ TaskOwnsOpenJob'
      /\ TasksFit'
      /\ ClaimsOutliveJobs'
      /\ JobsFit'
      /\ \A i \in JobId : i # j /\ jobs'[i].retained => jobs'[i] = jobs[i]
  BY <1>1, <1>2, <1>4, <1>5, InsertKeeps
<1>7. TypeOK'
  BY <1>2, <1>6 DEF IInv, TypeOK
<1>8. LockKeepsChecks'
  BY <1>2 DEF Activatable, LockKeepsChecks, Unlocked
<1>9. SavesFit'
  <2>1. \A i \in saving : /\ i \in JobId
                          /\ i \in FreshId => i \in IssuedId
                          /\ i \notin PreparedId
                          /\ ~(jobs[i].retained /\ jobs[i].request.defer)
    BY <1>2 DEF Activatable, Unlocked, IInv, TypeOK, SavesFit
  <2>2. \A i \in saving : i # j
    BY <2>1
  <2>3. QED
    BY <1>2, <1>6, <2>1, <2>2 DEF SavesFit, IssuedId
<1>10. OutcomesKept
  <2> SUFFICES ASSUME NEW i \in Terminal(jobs), jobs'[i].retained
               PROVE  jobs'[i] = jobs[i]
    BY DEF OutcomesKept
  <2>1. i \in JobId /\ i # j
    BY <1>5 DEF Terminal, Retained
  <2>2. QED
    BY <1>6, <2>1
<1>11. QED
  BY <1>10, <1>6, <1>7, <1>8, <1>9 DEF IInv

(* An activation that is shown at once first evicts and waits for its      *)
(* pack; what it checked about the session still holds after the eviction. *)
LEMMA ActivateSaveKeepsIInv ==
  ASSUME IInv, NEW j \in PreparedId, ActivateSave(j)
  PROVE  IInv' /\ OutcomesKept
<1>1. PICK v \in Victims(jobs) :
        jobs' = Evicted(jobs, v) /\ pointer' = Unpointed(jobs, v)
  BY DEF ActivateSave
<1>2. /\ Activatable(j)
      /\ lock' = [holder |-> "activate", job |-> j]
      /\ saving' = saving \cup {j}
      /\ UNCHANGED <<sequence, claims, tasks, life, latest, inserts, runs, highest>>
  BY DEF ActivateSave
<1>3. jobs \in [JobId -> Job]
        /\ pointer \in [Session -> [rev : Nat, job : JobId \cup {NoJob}]]
  BY DEF IInv, TypeOK
<1>4. EvictsOnly(jobs, v, jobs', pointer')
  BY <1>1, <1>3, EvictedFacts
<1>5. /\ jobs' \in [JobId -> Job]
      /\ pointer' \in [Session -> [rev : Nat, job : JobId \cup {NoJob}]]
      /\ v = NoJob \/ v \in Terminal(jobs)
      /\ v \notin Active(jobs)
      /\ v \in JobId => ~jobs'[v].retained
      /\ \A i \in JobId : i # v => jobs'[i] = jobs[i]
      /\ \A s \in Session :
           \/ pointer'[s] = pointer[s]
           \/ pointer'[s] = NoPointer /\ pointer[s].job = v /\ v \in JobId
      /\ \A s \in Session :
           v \in JobId /\ jobs[v].request.session = s => pointer'[s].job # v
  BY <1>4 DEF EvictsOnly
<1>6. j \in JobId /\ j \notin FreshId /\ NoJob \notin JobId
  BY RegistryAssumption DEF JobId
<1>7. \A i \in JobId : jobs'[i].retained => i # v /\ jobs'[i] = jobs[i]
  BY <1>5
<1>8. Active(jobs)' = Active(jobs)
  BY <1>5, <1>7 DEF Active, Terminal, Retained
<1>9. \A s \in Session : pointer'[s].job # NoJob =>
        /\ pointer'[s] = pointer[s]
        /\ pointer[s].job \in JobId
        /\ pointer[s].job # v
        /\ jobs[pointer[s].job].retained
        /\ jobs[pointer[s].job].request.session = s
  BY <1>5 DEF IInv, TypeOK, PointersRetained, NoPointer
<1>10. TypeOK'
  BY <1>2, <1>5, <1>6 DEF IInv, TypeOK, LockState
<1>11. PointersRetained'
  BY <1>5, <1>9 DEF PointersRetained
<1>12. OnlyCurrentJobWorks'
  <2> SUFFICES ASSUME NEW i \in Active(jobs)', jobs'[i].request.session \in Session
               PROVE  pointer'[jobs'[i].request.session].job = i
    BY DEF OnlyCurrentJobWorks
  <2>1. i \in Active(jobs) /\ i \in JobId /\ i # v
    BY <1>5, <1>8 DEF Active, Retained
  <2>2. jobs'[i] = jobs[i] /\ pointer[jobs[i].request.session].job = i
    BY <1>5, <2>1 DEF IInv, OnlyCurrentJobWorks
  <2>3. QED
    BY <1>5, <2>1, <2>2
<1>13. TaskOwnsOpenJob'
  BY <1>2, <1>8 DEF IInv, TaskOwnsOpenJob
<1>14. LockKeepsChecks'
  <2> DEFINE s == PreparedFor[j]
  <2>1. s \in Session /\ ~jobs[j].retained
          /\ pointer[s].job \in {NoJob} \cup Terminal(jobs)
    BY <1>2, RegistryAssumption DEF Activatable
  <2>2. ~jobs'[j].retained
    BY <1>5, <1>6, <2>1
  <2>3. pointer'[s].job \in {NoJob} \cup Terminal(jobs)'
    <3>1. CASE pointer'[s].job = NoJob
      BY <3>1
    <3>2. CASE pointer'[s].job # NoJob
      BY <1>5, <1>9, <2>1, <3>2 DEF Terminal, Retained
    <3>3. QED
      BY <3>1, <3>2
  <2>4. QED
    BY <1>2, <1>6, <2>2, <2>3 DEF LockKeepsChecks
<1>15. TasksFit'
  BY <1>2, <1>7 DEF IInv, TasksFit, Terminal, Retained
<1>16. ClaimsOutliveJobs'
  BY <1>2, <1>7 DEF IInv, ClaimsOutliveJobs, IssuedId, JobId
<1>17. JobsFit'
  BY <1>7 DEF IInv, JobsFit, Retained
<1>18. SavesFit'
  <2>1. \A i \in saving : /\ i \in JobId
                          /\ i \in FreshId => i \in IssuedId
                          /\ i \notin PreparedId
                          /\ ~(jobs[i].retained /\ jobs[i].request.defer)
    BY <1>2 DEF Activatable, Unlocked, IInv, TypeOK, SavesFit
  <2>2. ~jobs'[j].retained
    BY <1>2, <1>5, <1>6 DEF Activatable
  <2>3. QED
    BY <1>2, <1>6, <1>7, <2>1, <2>2 DEF SavesFit, IssuedId
<1>19. OutcomesKept
  BY <1>7 DEF OutcomesKept, Terminal, Retained
<1>20. QED
  BY <1>19, <1>10, <1>11, <1>12, <1>13, <1>14, <1>15, <1>16, <1>17, <1>18 DEF IInv

(* The insertion after the wait relies on the lock having kept the checks. *)
LEMMA ActivateShowKeepsIInv ==
  ASSUME IInv, ActivateShow
  PROVE  IInv' /\ OutcomesKept
<1> DEFINE j == lock.job
<1>1. /\ lock.holder = "activate" /\ j \notin saving
      /\ InsertPrepared(jobs, pointer, j, FALSE)
      /\ lock' = Free
      /\ UNCHANGED <<claims, tasks, life, saving, latest, runs>>
  BY DEF ActivateShow
<1>2. /\ j \in PreparedId
      /\ ~jobs[j].retained
      /\ pointer[PreparedFor[j]].job \in {NoJob} \cup Terminal(jobs)
  BY <1>1 DEF IInv, LockKeepsChecks
<1> HIDE DEF j
<1>3. EvictsOnly(jobs, NoJob, jobs, pointer) /\ FALSE \in BOOLEAN
  BY RegistryAssumption DEF EvictsOnly, IInv, TypeOK, Active, Retained
<1>4. /\ jobs' \in [JobId -> Job]
      /\ pointer' \in [Session -> [rev : Nat, job : JobId \cup {NoJob}]]
      /\ sequence' \in Nat /\ inserts' \in Nat /\ highest' \in [Session -> Nat]
      /\ PointersRetained'
      /\ OnlyCurrentJobWorks'
      /\ TaskOwnsOpenJob'
      /\ TasksFit'
      /\ ClaimsOutliveJobs'
      /\ JobsFit'
      /\ \A i \in JobId : i # j /\ jobs'[i].retained => jobs'[i] = jobs[i]
  BY <1>1, <1>2, <1>3, InsertKeeps
<1>5. TypeOK'
  BY <1>1, <1>4, RegistryAssumption DEF IInv, TypeOK, LockState, Free
<1>6. LockKeepsChecks'
  BY <1>1 DEF LockKeepsChecks, Free
<1>7. SavesFit'
  <2>1. \A i \in saving : /\ i \in JobId
                          /\ i # j
                          /\ i \in FreshId => i \in IssuedId
                          /\ i \notin PreparedId
                          /\ ~(jobs[i].retained /\ jobs[i].request.defer)
    BY <1>1 DEF IInv, TypeOK, SavesFit, j
  <2>2. QED
    BY <1>1, <1>4, <2>1 DEF SavesFit, IssuedId
<1>8. OutcomesKept
  <2> SUFFICES ASSUME NEW i \in Terminal(jobs), jobs'[i].retained
               PROVE  jobs'[i] = jobs[i]
    BY DEF OutcomesKept
  <2>1. i \in JobId /\ i # j
    BY <1>2 DEF Terminal, Retained
  <2>2. QED
    BY <1>4, <2>1
<1>9. QED
  BY <1>8, <1>4, <1>5, <1>6, <1>7 DEF IInv

(* A save that lands releases nothing but its own entry.                   *)
LEMMA SaveLandsKeepsIInv ==
  ASSUME IInv, NEW j \in JobId, SaveLands(j)
  PROVE  IInv' /\ OutcomesKept
<1> USE DEF SaveLands
<1>1. TypeOK'
  BY DEF IInv, TypeOK
<1>2. PointersRetained' /\ OnlyCurrentJobWorks' /\ TaskOwnsOpenJob'
  BY DEF IInv, PointersRetained, OnlyCurrentJobWorks, TaskOwnsOpenJob,
         Active, Terminal, Retained
<1>3. LockKeepsChecks' /\ TasksFit' /\ JobsFit'
  BY DEF IInv, LockKeepsChecks, TasksFit, JobsFit, Terminal, Retained
<1>4. ClaimsOutliveJobs' /\ SavesFit'
  BY DEF IInv, ClaimsOutliveJobs, SavesFit, IssuedId
<1>5. OutcomesKept
  BY DEF OutcomesKept
<1>6. QED
  BY <1>1, <1>2, <1>3, <1>4, <1>5 DEF IInv

(* A task step keeps the invariant: when it moves its job, that job is     *)
(* unfinished and nobody holds the lock.                                   *)
LEMMA TaskStepKeepsIInv ==
  ASSUME IInv, NEW j \in JobId, TaskStep(j)
  PROVE  IInv' /\ OutcomesKept
<1>1. /\ tasks[j].pc # "none"
      /\ j \notin PreparedId /\ j \in FreshId
      /\ UNCHANGED <<pointer, sequence, claims, lock, life, latest, inserts,
                     runs, highest>>
  BY DEF TaskStep, RunFrame, IInv, TasksFit, JobId
<1>2. PICK t : /\ t \in Task
               /\ tasks' = [tasks EXCEPT ![j] = t]
               /\ t.pc # "cleanup"
               /\ \/ jobs' = jobs /\ (t.pc # "none" => j \in Active(jobs))
                  \/ /\ Unlocked
                     /\ j \in Active(jobs)
                     /\ \E stage \in Stage, complete \in BOOLEAN, note \in Note :
                          /\ jobs' = [jobs EXCEPT ![j] = Advanced(jobs[j], stage, complete, note)]
                          /\ complete <=> t.pc = "none"
  BY DEF TaskStep, Moves, Keeps, Advances, TaskAt
<1>3. /\ tasks' \in [JobId -> Task]
      /\ tasks'[j] = t
      /\ \A i \in JobId : i # j => tasks'[i] = tasks[i]
  BY <1>2 DEF IInv, TypeOK
<1>4. /\ saving' \subseteq saving \cup {j}
      /\ j \in saving' \ saving => j \in Active(jobs) /\ ~jobs[j].request.defer
  BY DEF TaskStep, Moves
<1>5. \A i \in PreparedId : i \in JobId /\ i # j /\ tasks'[i].pc = "none"
  BY <1>1, <1>3 DEF JobId, IInv, TasksFit
<1>6. CASE jobs' = jobs /\ (t.pc # "none" => j \in Active(jobs))
  <2>1. TypeOK'
    BY <1>1, <1>3, <1>4, <1>6 DEF IInv, TypeOK
  <2>2. PointersRetained' /\ OnlyCurrentJobWorks' /\ LockKeepsChecks' /\ JobsFit'
    BY <1>1, <1>6 DEF IInv, PointersRetained, OnlyCurrentJobWorks,
       LockKeepsChecks, JobsFit, Active, Terminal, Retained
  <2>3. TaskOwnsOpenJob'
    BY <1>3, <1>6 DEF IInv, TaskOwnsOpenJob, Active, Terminal, Retained
  <2>4. TasksFit'
    BY <1>2, <1>3, <1>5, <1>6 DEF IInv, TasksFit, Terminal, Retained
  <2>5. ClaimsOutliveJobs'
    BY <1>1, <1>6 DEF IInv, ClaimsOutliveJobs, IssuedId
  <2>6. SavesFit'
    <3>1. j \in saving' \ saving => j \in IssuedId
      BY <1>1, <1>4 DEF IInv, ClaimsOutliveJobs, Active, Retained
    <3>2. QED
      BY <1>1, <1>4, <1>6, <3>1 DEF IInv, SavesFit, IssuedId
  <2>7. OutcomesKept
    BY <1>6 DEF OutcomesKept
  <2>8. QED
    BY <2>1, <2>2, <2>3, <2>4, <2>5, <2>6, <2>7 DEF IInv
<1>7. ASSUME Unlocked, j \in Active(jobs),
             NEW stage \in Stage, NEW complete \in BOOLEAN, NEW note \in Note,
             jobs' = [jobs EXCEPT ![j] = Advanced(jobs[j], stage, complete, note)],
             complete <=> t.pc = "none"
      PROVE  IInv' /\ OutcomesKept
  <2> DEFINE new == Advanced(jobs[j], stage, complete, note)
  <2>1. /\ jobs[j] \in Job /\ jobs[j].retained /\ ~jobs[j].complete
        /\ ~jobs[j].presented
    BY <1>7 DEF IInv, TypeOK, JobsFit, Active, Terminal, Retained
  <2>2. /\ new \in Job
        /\ new.retained = jobs[j].retained
        /\ new.complete = complete
        /\ new.request = jobs[j].request
        /\ new.presented = jobs[j].presented
    <3>1. /\ jobs[j] \in Job /\ stage \in Stage /\ note \in Note
          /\ complete \in BOOLEAN
      BY <1>7, <2>1
    <3>2. Follows(new, jobs[j], stage, complete)
      BY <3>1, AdvancedType
    <3>3. QED
      BY <3>2 DEF Follows
  <2>3. jobs' = [jobs EXCEPT ![j] = new]
    BY <1>7
  <2> HIDE DEF new
  <2>4. /\ jobs' \in [JobId -> Job]
        /\ jobs'[j] = new
        /\ \A i \in JobId : /\ i # j => jobs'[i] = jobs[i]
                            /\ jobs'[i].retained = jobs[i].retained
                            /\ jobs'[i].request = jobs[i].request
                            /\ jobs'[i].presented = jobs[i].presented
    BY <2>2, <2>3 DEF IInv, TypeOK
  <2>5. /\ Retained(jobs)' = Retained(jobs)
        /\ \A i \in Active(jobs)' : i \in Active(jobs) /\ i \in JobId
        /\ \A i \in Terminal(jobs)' : i # j => i \in Terminal(jobs)
    BY <1>7, <2>4 DEF Retained, Active, Terminal
  <2>6. TypeOK'
    BY <1>1, <1>3, <1>4, <2>4 DEF IInv, TypeOK
  <2>7. PointersRetained'
    BY <1>1, <2>4 DEF IInv, TypeOK, PointersRetained
  <2>8. OnlyCurrentJobWorks'
    BY <1>1, <2>4, <2>5 DEF IInv, OnlyCurrentJobWorks
  <2>9. TaskOwnsOpenJob'
    <3> SUFFICES ASSUME NEW i \in JobId, tasks'[i].pc \notin {"none", "cleanup"}
                 PROVE  i \in Active(jobs)'
      BY DEF TaskOwnsOpenJob
    <3>1. CASE i = j
      BY <1>3, <1>7, <2>1, <2>2, <2>4, <3>1 DEF Active, Terminal, Retained
    <3>2. CASE i # j
      BY <1>3, <2>4, <3>2 DEF IInv, TaskOwnsOpenJob, Active, Terminal, Retained
    <3>3. QED
      BY <3>1, <3>2
  <2>10. LockKeepsChecks'
    BY <1>1, <1>7 DEF LockKeepsChecks, Unlocked
  <2>11. TasksFit'
    <3>1. ASSUME NEW i \in Terminal(jobs)', tasks'[i].pc = "cleanup"
          PROVE  jobs'[i].stage = "failed"
      <4>1. i \in JobId /\ i # j
        BY <1>2, <1>3, <3>1 DEF Terminal, Retained
      <4>2. QED
        BY <1>3, <2>4, <2>5, <3>1, <4>1 DEF IInv, TasksFit
    <3>2. QED
      BY <1>5, <3>1 DEF TasksFit
  <2>12. ClaimsOutliveJobs'
    BY <1>1, <2>4 DEF IInv, ClaimsOutliveJobs, IssuedId, JobId
  <2>13. JobsFit'
    <3> SUFFICES ASSUME NEW i \in JobId, jobs'[i].retained
                 PROVE  /\ jobs'[i].request.defer => jobs'[i].request.session \in Session
                        /\ jobs'[i].presented => jobs'[i].complete
      BY DEF JobsFit, Retained
    <3>1. jobs[i].request.defer => jobs[i].request.session \in Session
      BY <2>4 DEF IInv, JobsFit, Retained
    <3>2. jobs'[i].presented => jobs'[i].complete
      BY <2>1, <2>4 DEF IInv, JobsFit, Retained
    <3>3. QED
      BY <2>4, <3>1, <3>2
  <2>14. SavesFit'
    <3>1. j \in IssuedId
      BY <1>1, <2>1 DEF IInv, ClaimsOutliveJobs
    <3>2. \A i \in saving : /\ i \in JobId
                            /\ i \in FreshId => i \in IssuedId
                            /\ i \notin PreparedId
                            /\ ~(jobs[i].retained /\ jobs[i].request.defer)
      BY <1>7 DEF Unlocked, IInv, TypeOK, SavesFit
    <3>3. QED
      BY <1>1, <1>4, <2>4, <3>1, <3>2 DEF SavesFit, IssuedId
  <2>15. OutcomesKept
    BY <2>1, <2>4 DEF OutcomesKept, Terminal, Retained
  <2>16. QED
    BY <2>6, <2>7, <2>8, <2>9, <2>10, <2>11, <2>12, <2>13, <2>14, <2>15 DEF IInv
<1>8. QED
  BY <1>2, <1>6, <1>7

(* close cancels every task, and moves no job.                             *)
LEMMA CloseBeginKeepsIInv ==
  ASSUME IInv, CloseBegin
  PROVE  IInv' /\ OutcomesKept
<1>1. /\ tasks' = [j \in JobId |-> Cancelled(tasks[j])]
      /\ life' = "closing"
      /\ UNCHANGED <<jobs, pointer, sequence, claims, lock, saving, latest,
                     inserts, runs, highest>>
  BY DEF CloseBegin
<1>2. \A i \in JobId :
        /\ tasks'[i] \in Task
        /\ tasks'[i].pc \in {"none", "cleanup"}
        /\ tasks'[i].pc = "cleanup" => tasks[i].pc \in {"provider", "cleanup"}
  BY <1>1, CancelledType DEF IInv, TypeOK
<1>3. tasks' \in [JobId -> Task]
  BY <1>1, <1>2
<1>4. TypeOK'
  BY <1>1, <1>3 DEF IInv, TypeOK
<1>5. PointersRetained' /\ OnlyCurrentJobWorks' /\ LockKeepsChecks' /\ JobsFit'
  BY <1>1 DEF IInv, PointersRetained, OnlyCurrentJobWorks, LockKeepsChecks,
     JobsFit, Active, Terminal, Retained
<1>6. TaskOwnsOpenJob'
  BY <1>2 DEF TaskOwnsOpenJob
<1>7. TasksFit'
  <2>1. \A i \in PreparedId : tasks'[i].pc = "none"
    BY <1>2 DEF IInv, TasksFit, JobId
  <2>2. ASSUME NEW i \in Terminal(jobs)', tasks'[i].pc = "cleanup"
        PROVE  jobs'[i].stage = "failed"
    <3>1. i \in JobId /\ i \in Terminal(jobs) /\ i \notin Active(jobs)
      BY <1>1 DEF Active, Terminal, Retained
    <3>2. tasks[i].pc = "cleanup"
      BY <1>2, <2>2, <3>1 DEF IInv, TaskOwnsOpenJob
    <3>3. QED
      BY <1>1, <3>1, <3>2 DEF IInv, TasksFit
  <2>3. QED
    BY <2>1, <2>2 DEF TasksFit
<1>8. ClaimsOutliveJobs' /\ SavesFit'
  BY <1>1 DEF IInv, ClaimsOutliveJobs, SavesFit, IssuedId
<1>9. OutcomesKept
  BY <1>1 DEF OutcomesKept
<1>10. QED
  BY <1>4, <1>5, <1>6, <1>7, <1>8, <1>9 DEF IInv

(* A step that changes at most life changes nothing the invariant is about. *)
LEMMA QuietKeepsIInv ==
  ASSUME IInv, life' \in {"open", "closing", "closed"},
         UNCHANGED <<jobs, pointer, sequence, claims, tasks, lock, saving,
                     latest, inserts, runs, highest>>
  PROVE  IInv' /\ OutcomesKept
<1>1. TypeOK'
  BY DEF IInv, TypeOK
<1>2. PointersRetained' /\ OnlyCurrentJobWorks' /\ TaskOwnsOpenJob'
  BY DEF IInv, PointersRetained, OnlyCurrentJobWorks, TaskOwnsOpenJob,
         Active, Terminal, Retained
<1>3. LockKeepsChecks' /\ TasksFit' /\ JobsFit'
  BY DEF IInv, LockKeepsChecks, TasksFit, JobsFit, Terminal, Retained
<1>4. ClaimsOutliveJobs' /\ SavesFit'
  BY DEF IInv, ClaimsOutliveJobs, SavesFit, IssuedId
<1>5. OutcomesKept
  BY DEF OutcomesKept
<1>6. QED
  BY <1>1, <1>2, <1>3, <1>4, <1>5 DEF IInv

-----------------------------------------------------------------------------
(* The invariant is inductive.                                             *)
LEMMA NextKeepsIInv ==
  ASSUME IInv, [Next]_vars
  PROVE  IInv' /\ OutcomesKept
<1>1. ASSUME NEW r \in Inputs, Submit(r) PROVE IInv' /\ OutcomesKept
  BY <1>1, SubmitKeepsIInv
<1>2. ASSUME NEW j \in JobId, PresentSave(j) PROVE IInv' /\ OutcomesKept
  BY <1>2, PresentSaveKeepsIInv
<1>3. ASSUME NEW j \in PreparedId, ActivateDeferred(j) PROVE IInv' /\ OutcomesKept
  BY <1>3, ActivateDeferredKeepsIInv
<1>4. ASSUME NEW j \in PreparedId, ActivateSave(j) PROVE IInv' /\ OutcomesKept
  BY <1>4, ActivateSaveKeepsIInv
<1>5. CASE PresentShow
  BY <1>5, PresentShowKeepsIInv
<1>6. CASE ActivateShow
  BY <1>6, ActivateShowKeepsIInv
<1>7. CASE CloseBegin
  BY <1>7, CloseBeginKeepsIInv
<1>8. CASE CloseEnd
  BY <1>8, QuietKeepsIInv DEF CloseEnd
<1>9. ASSUME NEW j \in JobId, RunStep(j) PROVE IInv' /\ OutcomesKept
  BY <1>9, RunStepShape, TaskStepKeepsIInv
<1>10. ASSUME NEW j \in JobId, SaveLands(j) PROVE IInv' /\ OutcomesKept
  BY <1>10, SaveLandsKeepsIInv
<1>11. CASE UNCHANGED vars
  BY <1>11, QuietKeepsIInv DEF vars, IInv, TypeOK
<1>12. QED
  BY <1>1, <1>2, <1>3, <1>4, <1>5, <1>6, <1>7, <1>8, <1>9, <1>10, <1>11
     DEF Next, Client, Background, Stopped

(* The inductive invariant holds in every reachable state of the registry. *)
THEOREM Inductive == Spec => []IInv
<1>1. IInv /\ [Next]_vars => IInv'
  BY NextKeepsIInv
<1>2. QED
  BY InitIInv, <1>1, PTL DEF Spec

(* The variables keep their types for any capacity and any client input.   *)
THEOREM TypeCorrect == Spec => []TypeOK
<1>1. IInv => TypeOK
  BY DEF IInv
<1>2. QED
  BY Inductive, <1>1, PTL

(* Eviction, activation and supersession never leave a session a pointer   *)
(* to a record that is gone.                                               *)
THEOREM PointersStayRetained == Spec => []PointersRetained
<1>1. IInv => PointersRetained
  BY DEF IInv
<1>2. QED
  BY Inductive, <1>1, PTL

(* No superseded request keeps working where a reader could see it.        *)
THEOREM OnlyCurrentWorks == Spec => []OnlyCurrentJobWorks
<1>1. IInv => OnlyCurrentJobWorks
  BY DEF IInv
<1>2. QED
  BY Inductive, <1>1, PTL

(* A live task's transition always finds the job it works on unfinished.   *)
THEOREM TasksOwnOpenJobs == Spec => []TaskOwnsOpenJob
<1>1. IInv => TaskOwnsOpenJob
  BY DEF IInv
<1>2. QED
  BY Inductive, <1>1, PTL

(* A submission ID pays for at most one run, however its records come and  *)
(* go.                                                                     *)
THEOREM PaidOnce == Spec => []OneRunPerSubmission
<1>1. IInv => OneRunPerSubmission
  BY DEF IInv, ClaimsOutliveJobs, OneRunPerSubmission, Guarded
<1>2. QED
  BY Inductive, <1>1, PTL

(* A deferred scene is only ever written while it is complete and current. *)
THEOREM DeferredSavesFenced == Spec => []DeferredSaveIsFenced
<1>1. IInv => DeferredSaveIsFenced
  BY DEF IInv, SavesFit, LockKeepsChecks, DeferredSaveIsFenced, Terminal
<1>2. QED
  BY Inductive, <1>1, PTL

(* No late update, error or cancellation rewrites a finished job.          *)
THEOREM FinishedStaysFinal == Spec => FinishedIsFinal
<1> DEFINE Kept ==
      \A j \in Terminal(jobs) : jobs'[j].retained =>
        \/ jobs'[j] = jobs[j]
        \/ /\ ~jobs[j].presented
           /\ jobs'[j] = [jobs[j] EXCEPT !.presented = TRUE, !.revision = @ + 1]
<1>1. IInv /\ [Next]_vars => [Kept]_vars
  BY NextKeepsIInv DEF OutcomesKept
<1>2. QED
  BY Inductive, <1>1, PTL DEF Spec, FinishedIsFinal

-----------------------------------------------------------------------------
(* Session revisions.                                                      *)

\* the sequence bounds every revision that was ever handed out
SequenceIsHighest == \A s \in Session : highest[s] <= sequence

\* what RevisionsNeverReused says of one step
NewRevisions ==
  \A s \in Session :
    pointer'[s] # pointer[s] /\ pointer'[s] # NoPointer =>
      \A t \in Session : pointer'[s].rev > highest[t]

(* Forgetting pointers hands out no revision.                              *)
LEMMA ForgettingKeepsRevisions ==
  ASSUME SequenceIsHighest, NEW js, NEW v,
         pointer' = Unpointed(js, v), UNCHANGED <<sequence, highest>>
  PROVE  SequenceIsHighest' /\ NewRevisions
BY DEF Unpointed, SequenceIsHighest, NewRevisions

(* Pointing a session to a job hands out the next revision of the whole    *)
(* registry, whichever pointers eviction has just forgotten.               *)
LEMMA PointingKeepsRevisions ==
  ASSUME TypeOK, SequenceIsHighest, NEW js, NEW v,
         NEW s \in Session \cup {NoSession}, NEW j,
         PointTo(Unpointed(js, v), s, j)
  PROVE  SequenceIsHighest' /\ NewRevisions
<1>1. CASE s \in Session
  <2>1. /\ sequence' = sequence + 1
        /\ highest' = [highest EXCEPT ![s] = sequence + 1]
        /\ pointer' = [Unpointed(js, v) EXCEPT ![s] = [rev |-> sequence + 1, job |-> j]]
    BY <1>1 DEF PointTo
  <2>2. sequence \in Nat /\ highest \in [Session -> Nat]
    BY DEF TypeOK
  <2>3. SequenceIsHighest'
    BY <2>1, <2>2 DEF SequenceIsHighest
  <2>4. \A t \in Session : sequence + 1 > highest[t]
    BY <2>2 DEF SequenceIsHighest
  <2>5. pointer'[s].rev = sequence + 1
    BY <1>1, <2>1 DEF Unpointed
  <2>6. \A t \in Session \ {s} : pointer'[t] \in {pointer[t], NoPointer}
    BY <1>1, <2>1 DEF Unpointed
  <2>7. QED
    BY <2>3, <2>4, <2>5, <2>6 DEF NewRevisions
<1>2. CASE s \notin Session
  BY <1>2, ForgettingKeepsRevisions DEF PointTo
<1>3. QED
  BY <1>1, <1>2

(* Unpointed for no victim changes nothing.                                *)
LEMMA NoVictimUnpoints ==
  ASSUME TypeOK, NEW js
  PROVE  Unpointed(js, NoJob) = pointer
BY RegistryAssumption DEF Unpointed, TypeOK

(* A revision handed out is above all revisions handed out before.         *)
LEMMA StepsKeepRevisions ==
  ASSUME IInv, SequenceIsHighest, [Next]_vars
  PROVE  SequenceIsHighest' /\ NewRevisions
<1> USE DEF IInv
<1>1. ASSUME NEW r \in Inputs, Submit(r) PROVE SequenceIsHighest' /\ NewRevisions
  <2> DEFINE js == WithSuperseded(jobs, Displaced(r))
  <2>0. r.session \in Session \cup {NoSession}
    BY RegistryAssumption DEF Request, RawRequest
  <2>1. CASE Cardinality(Active(js)) < MaxActive /\ CanRetain(js)
    <3>1. PICK j \in FreshId, v \in Victims(js) :
            PointTo(Unpointed(js, v), r.session, j)
      BY <1>1, <2>1 DEF Submit
    <3>2. QED
      BY <2>0, <3>1, PointingKeepsRevisions
  <2>2. CASE ~(Cardinality(Active(js)) < MaxActive /\ CanRetain(js))
    <3>1. UNCHANGED <<pointer, sequence, highest>>
      BY <1>1, <2>2 DEF Submit
    <3>2. QED
      BY <3>1 DEF SequenceIsHighest, NewRevisions
  <2>3. QED
    BY <2>1, <2>2
<1>2. ASSUME NEW j \in PreparedId, ActivateDeferred(j)
      PROVE  SequenceIsHighest' /\ NewRevisions
  <2>1. PICK v \in Victims(jobs) :
          PointTo(Unpointed(jobs, v), PreparedFor[j], j)
    BY <1>2 DEF ActivateDeferred, InsertPrepared
  <2>2. QED
    BY <2>1, RegistryAssumption, PointingKeepsRevisions
<1>3. ASSUME NEW j \in PreparedId, ActivateSave(j)
      PROVE  SequenceIsHighest' /\ NewRevisions
  <2>1. /\ \E v \in Victims(jobs) : pointer' = Unpointed(jobs, v)
        /\ UNCHANGED <<sequence, highest>>
    BY <1>3 DEF ActivateSave
  <2>2. QED
    BY <2>1, ForgettingKeepsRevisions
<1>4. CASE ActivateShow
  <2>1. lock.job \in PreparedId
    BY <1>4 DEF ActivateShow, LockKeepsChecks
  <2>2. PointTo(Unpointed(jobs, NoJob), PreparedFor[lock.job], lock.job)
    BY <1>4, NoVictimUnpoints DEF ActivateShow, InsertPrepared
  <2>3. QED
    BY <2>1, <2>2, RegistryAssumption, PointingKeepsRevisions
<1>5. CASE UNCHANGED <<pointer, sequence, highest>>
  BY <1>5 DEF SequenceIsHighest, NewRevisions
<1>6. ASSUME NEW j \in JobId, RunStep(j) PROVE UNCHANGED <<pointer, sequence, highest>>
  BY <1>6, RunStepShape DEF TaskStep, RunFrame
<1>7. ASSUME NEW j \in JobId, PresentSave(j) \/ SaveLands(j)
      PROVE  UNCHANGED <<pointer, sequence, highest>>
  BY <1>7 DEF PresentSave, SaveLands
<1>8. ASSUME PresentShow \/ CloseBegin \/ CloseEnd \/ UNCHANGED vars
      PROVE  UNCHANGED <<pointer, sequence, highest>>
  BY <1>8 DEF PresentShow, CloseBegin, CloseEnd, vars
<1>9. QED
  BY <1>1, <1>2, <1>3, <1>4, <1>5, <1>6, <1>7, <1>8
     DEF Next, Client, Background, Stopped

(* A client's (session, revision) pair names one job for ever, however     *)
(* often its record is evicted.                                            *)
THEOREM RevisionsAreNew == Spec => RevisionsNeverReused
<1>1. Init => SequenceIsHighest
  BY DEF Init, SequenceIsHighest
<1>2. IInv /\ SequenceIsHighest /\ [Next]_vars => SequenceIsHighest'
  BY StepsKeepRevisions
<1>3. IInv /\ SequenceIsHighest /\ [Next]_vars => [NewRevisions]_vars
  BY StepsKeepRevisions
<1>4. QED
  BY Inductive, <1>1, <1>2, <1>3, PTL DEF Spec, RevisionsNeverReused, NewRevisions

-----------------------------------------------------------------------------
(***************************************************************************)
(* The registry implements the timeline of scenes it promises the browsers *)
(* of a session (SceneTimeline), for every set of sessions, job IDs and    *)
(* requests and every capacity; and a job is superseded only in the step   *)
(* that puts another in its place.  Every step of the registry begins a    *)
(* scene, forgets one or moves the current one on, session by session.     *)
(***************************************************************************)

-----------------------------------------------------------------------------
(* What one step does to the scene of a session.                           *)

Begins(s) ==
  /\ pointer'[s].rev = sequence + 1
  /\ sequence' = sequence + 1
  /\ pointer'[s].job \in JobId
  /\ \/ PhaseOf(jobs'[pointer'[s].job]) = "working"
     \/ /\ PhaseOf(jobs'[pointer'[s].job]) = "ready"
        /\ pointer[s].job \in {NoJob} \cup Terminal(jobs)

Forgets(s) ==
  /\ pointer'[s] = NoPointer
  /\ pointer[s].job \in Terminal(jobs)

SnapshotMoves(j) ==
  \/ PhaseOf(jobs'[j]) = PhaseOf(jobs[j])
  \/ PhaseOf(jobs[j]) = "working" /\ PhaseOf(jobs'[j]) \in {"ready", "failed"}
  \/ PhaseOf(jobs[j]) = "ready" /\ PhaseOf(jobs'[j]) = "shown"

GoesOn(s) ==
  /\ pointer'[s] = pointer[s]
  /\ pointer[s].job # NoJob => SnapshotMoves(pointer[s].job)

SessionsMove ==
  /\ sequence' \in Nat /\ sequence' >= sequence
  /\ \A s \in Session : Begins(s) \/ Forgets(s) \/ GoesOn(s)

(* The phases, one by one.                                                 *)
LEMMA Phases ==
  ASSUME NEW job
  PROVE  /\ ~job.complete => PhaseOf(job) = "working"
         /\ job.complete /\ job.stage = "failed" => PhaseOf(job) = "failed"
         /\ job.complete /\ job.stage # "failed" /\ job.presented => PhaseOf(job) = "shown"
         /\ job.complete /\ job.stage # "failed" /\ ~job.presented => PhaseOf(job) = "ready"
  BY DEF PhaseOf

(* A finished job is not worked on.                                        *)
LEMMA FinishedPhase ==
  ASSUME TypeOK, NEW j \in Terminal(jobs)
  PROVE  j \in JobId /\ PhaseOf(jobs[j]) \in {"ready", "shown", "failed"}
  BY DEF TypeOK, Job, Terminal, Retained, PhaseOf

(* Sessions that move so keep to the timeline.                             *)
LEMMA MovesKeepTheTimeline ==
  ASSUME TypeOK, TypeOK', SessionsMove
  PROVE  Timeline!Next
<1> DEFINE scene == [s \in Session |-> SceneOf(s)]
           Old(s) == IF pointer[s].job = NoJob THEN [rev |-> 0, phase |-> "empty"]
                     ELSE [rev |-> pointer[s].rev, phase |-> PhaseOf(jobs[pointer[s].job])]
           New(s) == IF pointer'[s].job = NoJob THEN [rev |-> 0, phase |-> "empty"]
                     ELSE [rev |-> pointer'[s].rev, phase |-> PhaseOf(jobs'[pointer'[s].job])]
<1>1. \A s \in Session : scene[s] = Old(s) /\ scene'[s] = New(s)
  BY DEF SceneOf, PhaseOf
<1>2. /\ sequence \in Nat
      /\ pointer \in [Session -> [rev : Nat, job : JobId \cup {NoJob}]]
      /\ pointer' \in [Session -> [rev : Nat, job : JobId \cup {NoJob}]]
  BY DEF TypeOK
<1>3. \A job : PhaseOf(job) \in {"working", "failed", "shown", "ready"}
  BY DEF PhaseOf
<1>4. NoJob \notin JobId
  BY RegistryAssumption
<1>5. ASSUME NEW s \in Session
      PROVE  New(s) \in [rev : Nat, phase : Timeline!Phase]
  <2>1. pointer'[s].rev \in Nat
    BY <1>2
  <2>2. QED
    BY <1>3, <2>1 DEF Timeline!Phase
<1>6. scene' \in [Session -> [rev : Nat, phase : Timeline!Phase]]
  BY <1>1, <1>5
<1>7. ASSUME NEW s \in Session
      PROVE  Timeline!SessionStep(s)
  <2>1. CASE Begins(s)
    <3>1. New(s) = [rev |-> sequence + 1, phase |-> PhaseOf(jobs'[pointer'[s].job])]
      BY <1>4, <2>1 DEF Begins
    <3>2. pointer[s].job \in {NoJob} \cup Terminal(jobs) => Old(s).phase # "working"
      BY FinishedPhase
    <3>3. Timeline!Begin(s)
      BY <1>1, <1>2, <2>1, <3>1, <3>2 DEF Timeline!Begin, Begins
    <3>4. QED
      BY <3>3 DEF Timeline!SessionStep
  <2>2. CASE Forgets(s)
    <3>1. New(s) = [rev |-> 0, phase |-> "empty"]
      BY <2>2 DEF Forgets, NoPointer
    <3>2. Old(s).phase \in {"ready", "shown", "failed"}
      BY <1>4, <2>2, FinishedPhase DEF Forgets
    <3>3. Timeline!Forget(s)
      BY <1>1, <3>1, <3>2 DEF Timeline!Forget, Timeline!Empty
    <3>4. QED
      BY <3>3 DEF Timeline!SessionStep
  <2>3. CASE GoesOn(s) /\ pointer[s].job = NoJob
    <3>1. scene'[s] = scene[s]
      BY <1>1, <2>3 DEF GoesOn
    <3>2. QED
      BY <3>1 DEF Timeline!SessionStep
  <2>4. CASE GoesOn(s) /\ pointer[s].job # NoJob
    <3> DEFINE j == pointer[s].job
    <3>1. /\ Old(s) = [rev |-> pointer[s].rev, phase |-> PhaseOf(jobs[j])]
          /\ New(s) = [rev |-> pointer[s].rev, phase |-> PhaseOf(jobs'[j])]
          /\ SnapshotMoves(j)
      BY <2>4 DEF GoesOn
    <3>2. CASE PhaseOf(jobs'[j]) = PhaseOf(jobs[j])
      BY <1>1, <3>1, <3>2 DEF Timeline!SessionStep
    <3>3. CASE PhaseOf(jobs[j]) = "working" /\ PhaseOf(jobs'[j]) \in {"ready", "failed"}
      BY <1>1, <3>1, <3>3 DEF Timeline!SessionStep, Timeline!End
    <3>4. CASE PhaseOf(jobs[j]) = "ready" /\ PhaseOf(jobs'[j]) = "shown"
      BY <1>1, <3>1, <3>4 DEF Timeline!SessionStep, Timeline!Show
    <3>5. QED
      BY <3>1, <3>2, <3>3, <3>4 DEF SnapshotMoves
  <2>5. QED
    BY <2>1, <2>2, <2>3, <2>4 DEF SessionsMove
<1>8. QED
  BY <1>6, <1>7 DEF SessionsMove, Timeline!Next

-----------------------------------------------------------------------------
(* Every step of the registry moves the sessions so.                       *)

(* A step that moves no pointer and no job moves no session.               *)
LEMMA StillSessionsMove ==
  ASSUME TypeOK, UNCHANGED <<jobs, pointer, sequence>>
  PROVE  SessionsMove
  BY DEF TypeOK, SessionsMove, GoesOn, SnapshotMoves

(* A step that moves one job on, and no pointer.                           *)
LEMMA OneJobMoves ==
  ASSUME TypeOK, NEW j \in JobId, UNCHANGED <<pointer, sequence>>,
         \A i \in JobId : i # j => jobs'[i] = jobs[i],
         SnapshotMoves(j)
  PROVE  SessionsMove
  <1>1. \A s \in Session : pointer[s].job # NoJob => SnapshotMoves(pointer[s].job)
    BY DEF TypeOK, SnapshotMoves
  <1>2. QED
    BY <1>1 DEF TypeOK, SessionsMove, GoesOn

(* A task's step leaves its job alone or moves an unfinished one on.       *)
LEMMA TaskStepMoves ==
  ASSUME IInv, NEW j \in JobId, TaskStep(j)
  PROVE  SessionsMove
  <1>1. TypeOK /\ UNCHANGED <<pointer, sequence>>
    BY DEF IInv, TaskStep, RunFrame
  <1>2. CASE Keeps(j)
    BY <1>1, <1>2, StillSessionsMove DEF Keeps
  <1>3. CASE Advances(j)
    <2>1. PICK stage \in Stage, complete \in BOOLEAN, note \in Note \ {"superseded"} :
            jobs' = [jobs EXCEPT ![j] = Advanced(jobs[j], stage, complete, note)]
      BY <1>3 DEF Advances
    <2>2. jobs[j] \in Job /\ ~jobs[j].complete /\ ~jobs[j].presented
      BY <1>3 DEF Advances, IInv, TypeOK, JobsFit, Active, Terminal, Retained
    <2>3. Follows(Advanced(jobs[j], stage, complete, note), jobs[j], stage, complete)
      BY <2>2, AdvancedType
    <2>4. /\ ~jobs'[j].presented
          /\ \A i \in JobId : i # j => jobs'[i] = jobs[i]
      BY <1>1, <2>1, <2>2, <2>3 DEF TypeOK, Follows
    <2>5. SnapshotMoves(j)
      BY <2>2, <2>4, Phases DEF SnapshotMoves
    <2>6. QED
      BY <1>1, <2>4, <2>5, OneJobMoves
  <1>4. QED
    BY <1>2, <1>3 DEF TaskStep, Moves

(* A presented scene was ready.                                            *)
LEMMA PresentShowMoves ==
  ASSUME IInv, PresentShow
  PROVE  SessionsMove
  <1> DEFINE j == lock.job
  <1>1. /\ j \in Terminal(jobs) /\ jobs[j].stage # "failed" /\ ~jobs[j].presented
        /\ j \in JobId /\ TypeOK
    BY DEF PresentShow, IInv, LockKeepsChecks, Terminal, Retained
  <1>2. /\ jobs' = [jobs EXCEPT ![j].presented = TRUE, ![j].revision = @ + 1]
        /\ UNCHANGED <<pointer, sequence>>
    BY DEF PresentShow
  <1>3. jobs[j] \in Job /\ jobs[j].complete
    BY <1>1 DEF TypeOK, Terminal
  <1>4. /\ jobs'[j].complete = jobs[j].complete /\ jobs'[j].stage = jobs[j].stage
        /\ jobs'[j].presented
        /\ \A i \in JobId : i # j => jobs'[i] = jobs[i]
    BY <1>1, <1>2, <1>3 DEF TypeOK, Job
  <1>5. SnapshotMoves(j)
    BY <1>1, <1>3, <1>4 DEF SnapshotMoves, PhaseOf
  <1>6. QED
    BY <1>1, <1>2, <1>4, <1>5, OneJobMoves

(* Making room forgets the sessions whose scene goes, and no other.        *)
LEMMA EvictionForgets ==
  ASSUME IInv, NEW js, NEW v, NEW es, NEW ptr, EvictsOnly(js, v, es, ptr),
         NEW s \in Session,
         \A i \in JobId : js[i].request = jobs[i].request
  PROVE  \/ ptr[s] = NoPointer /\ pointer[s].job = v /\ v \in Terminal(js)
         \/ ptr[s] = pointer[s] /\ pointer[s].job = NoJob
         \/ /\ ptr[s] = pointer[s]
            /\ pointer[s].job \in JobId \ {v}
            /\ es[pointer[s].job] = js[pointer[s].job]
  <1>1. pointer[s].job \in JobId \cup {NoJob} /\ NoJob \notin JobId
    BY RegistryAssumption DEF IInv, TypeOK
  <1>2. pointer[s].job # NoJob => jobs[pointer[s].job].request.session = s
    BY DEF IInv, PointersRetained
  <1>3. CASE ptr[s] = pointer[s] /\ pointer[s].job # NoJob
    <2>1. pointer[s].job # v
      BY <1>1, <1>2, <1>3 DEF EvictsOnly
    <2>2. QED
      BY <1>1, <1>3, <2>1 DEF EvictsOnly
  <1>4. CASE ptr[s] # pointer[s]
    BY <1>1, <1>4 DEF EvictsOnly
  <1>5. QED
    BY <1>1, <1>3, <1>4

(* A prepared page begins, ready, a scene that pushes out no work.         *)
LEMMA InsertMoves ==
  ASSUME IInv, NEW j \in PreparedId, NEW defer \in BOOLEAN,
         NEW es, NEW ptr, NEW v, EvictsOnly(jobs, v, es, ptr),
         ~jobs[j].retained,
         pointer[PreparedFor[j]].job \in {NoJob} \cup Terminal(jobs),
         InsertPrepared(es, ptr, j, defer)
  PROVE  SessionsMove
  <1> DEFINE r == [NoRequest EXCEPT !.session = PreparedFor[j], !.defer = defer]
             p == PreparedFor[j]
             new == NewJob(r, "master", TRUE)
  <1>1. /\ jobs' = [es EXCEPT ![j] = new] /\ p \in Session /\ j \in JobId
        /\ sequence' = sequence + 1
        /\ pointer' = [ptr EXCEPT ![p] = [rev |-> sequence + 1, job |-> j]]
    BY RegistryAssumption DEF InsertPrepared, PointTo, JobId
  <1>2. /\ es \in [JobId -> Job] /\ DOMAIN ptr = Session /\ sequence \in Nat
    BY DEF EvictsOnly, IInv, TypeOK
  <1>3. PhaseOf(new) = "ready"
    BY DEF PhaseOf, NewJob
  <1> HIDE DEF new
  <1>4. Begins(p)
    BY <1>1, <1>2, <1>3 DEF Begins
  <1>5. ASSUME NEW s \in Session, s # p PROVE Forgets(s) \/ GoesOn(s)
    <2>1. pointer'[s] = ptr[s]
      BY <1>1, <1>2, <1>5
    <2>2. pointer[s].job \in JobId => pointer[s].job # j
      BY RegistryAssumption DEF IInv, PointersRetained
    <2>3. \A i \in JobId : i # j => jobs'[i] = es[i]
      BY <1>1, <1>2
    <2>4. CASE ptr[s] = NoPointer /\ pointer[s].job = v /\ v \in Terminal(jobs)
      BY <2>1, <2>4 DEF Forgets
    <2>5. CASE ptr[s] = pointer[s] /\ pointer[s].job = NoJob
      BY <2>1, <2>5 DEF GoesOn
    <2>6. CASE /\ ptr[s] = pointer[s]
               /\ pointer[s].job \in JobId \ {v}
               /\ es[pointer[s].job] = jobs[pointer[s].job]
      BY <2>1, <2>2, <2>3, <2>6 DEF GoesOn, SnapshotMoves
    <2>7. QED
      BY <2>4, <2>5, <2>6, EvictionForgets
  <1>6. QED
    BY <1>1, <1>2, <1>4, <1>5 DEF SessionsMove

(* An accepted request makes a new job the one its session is at, after    *)
(* what it displaced has been failed and room has been made.               *)
Replaces(r, j, v, js) ==
  /\ j \in JobId /\ ~jobs[j].retained
  /\ jobs'[j].retained /\ ~jobs'[j].complete /\ jobs'[j].note = "none"
  /\ \A i \in JobId : i # j => jobs'[i] = Evicted(js, v)[i]
  /\ EvictsOnly(js, v, Evicted(js, v), Unpointed(js, v))
  /\ PointTo(Unpointed(js, v), r.session, j)

(* A submit replaces, or is refused after it has failed what it displaced. *)
LEMMA SubmitShape ==
  ASSUME IInv, NEW r \in Inputs, Submit(r), NEW js, js = WithSuperseded(jobs, Displaced(r))
  PROVE  \/ /\ Cardinality(Active(js)) < MaxActive /\ CanRetain(js)
            /\ \E j \in JobId : \E v \in Victims(js) : Replaces(r, j, v, js)
         \/ /\ ~(Cardinality(Active(js)) < MaxActive /\ CanRetain(js))
            /\ jobs' = js
            /\ UNCHANGED <<pointer, sequence, highest>>
  <1>1. CASE Cardinality(Active(js)) < MaxActive /\ CanRetain(js)
    <2>1. PICK j \in FreshId \ IssuedId, v \in Victims(js) :
            /\ jobs' = [Evicted(js, v) EXCEPT ![j] = NewJob(r, "queued", FALSE)]
            /\ PointTo(Unpointed(js, v), r.session, j)
      BY <1>1, Zenon DEF Submit
    <2> DEFINE new == NewJob(r, "queued", FALSE)
    <2>2. new.retained /\ ~new.complete /\ new.note = "none"
      BY DEF NewJob
    <2>3. j \in JobId /\ ~jobs[j].retained
      BY DEF JobId, IInv, ClaimsOutliveJobs
    <2>4. Displaced(r) \in SUBSET Active(jobs)
      BY DEF Displaced
    <2>5. js \in [JobId -> Job]
      BY <2>4, SupersededFacts
    <2>6. EvictsOnly(js, v, Evicted(js, v), Unpointed(js, v))
      BY <2>5, EvictedFacts DEF IInv, TypeOK
    <2>7. /\ jobs' = [Evicted(js, v) EXCEPT ![j] = new]
          /\ Evicted(js, v) \in [JobId -> Job]
      BY <2>1, <2>6 DEF EvictsOnly
    <2> HIDE DEF new
    <2>8. jobs'[j] = new /\ \A i \in JobId : i # j => jobs'[i] = Evicted(js, v)[i]
      BY <2>3, <2>7
    <2>9. Replaces(r, j, v, js)
      BY <2>1, <2>2, <2>3, <2>6, <2>8 DEF Replaces
    <2>10. QED
      BY <1>1, <2>3, <2>9
  <1>2. CASE ~(Cardinality(Active(js)) < MaxActive /\ CanRetain(js))
    BY <1>2, Zenon DEF Submit
  <1>3. QED
    BY <1>1, <1>2

(* The session of a displaced job is the one that asks.                    *)
LEMMA DisplacedIsOwn ==
  ASSUME IInv, NEW r, NEW i \in Displaced(r)
  PROVE  /\ i \in Active(jobs) /\ r.session \in Session
         /\ pointer[r.session].job = i /\ jobs[i].request.session = r.session
  <1>1. i \in Active(jobs) /\ r.session \in Session /\ pointer[r.session].job = i
    BY DEF Displaced
  <1>2. i # NoJob
    BY <1>1, RegistryAssumption DEF Active, Retained
  <1>3. QED
    BY <1>1, <1>2 DEF IInv, PointersRetained

(* A submit begins a scene in its own session, and may make room elsewhere. *)
LEMMA SubmitMoves ==
  ASSUME IInv, NEW r \in Inputs, Submit(r)
  PROVE  SessionsMove
  <1> DEFINE js == WithSuperseded(jobs, Displaced(r))
  <1>1. Displaced(r) \in SUBSET Active(jobs)
    BY DEF Displaced
  <1>2. /\ js \in [JobId -> Job]
        /\ \A i \in JobId :
             /\ js[i].request = jobs[i].request
             /\ js[i].presented = jobs[i].presented
             /\ i \notin Displaced(r) => js[i] = jobs[i]
             /\ i \in Displaced(r) => js[i].complete /\ js[i].stage = "failed"
        /\ Terminal(js) = Terminal(jobs) \cup Displaced(r)
    BY <1>1, SupersededFacts
  <1>3. TypeOK /\ sequence \in Nat
    BY DEF IInv, TypeOK
  <1> HIDE DEF js
  <1>4. CASE jobs' = js /\ UNCHANGED <<pointer, sequence, highest>>
    <2>1. ASSUME NEW i \in JobId PROVE SnapshotMoves(i)
      <3>1. CASE i \notin Displaced(r)
        BY <1>2, <1>4, <3>1 DEF SnapshotMoves
      <3>2. CASE i \in Displaced(r)
        <4>1. ~jobs[i].complete
          BY <1>1, <3>2 DEF Active, Terminal
        <4>2. QED
          BY <1>2, <1>4, <3>2, <4>1 DEF SnapshotMoves, PhaseOf
      <3>3. QED
        BY <3>1, <3>2
    <2>2. \A s \in Session : pointer[s].job \in JobId \cup {NoJob}
      BY <1>3 DEF TypeOK
    <2>3. QED
      BY <1>3, <1>4, <2>1, <2>2 DEF SessionsMove, GoesOn
  <1>5. ASSUME NEW j \in JobId, NEW v \in Victims(js), Replaces(r, j, v, js)
        PROVE  SessionsMove
    <2> DEFINE es == Evicted(js, v)
               ptr == Unpointed(js, v)
    <2>1. /\ EvictsOnly(js, v, es, ptr) /\ PointTo(ptr, r.session, j)
          /\ \A i \in JobId : i # j => jobs'[i] = es[i]
          /\ ~jobs[j].retained /\ ~jobs'[j].complete
      BY <1>5 DEF Replaces
    <2>2. DOMAIN ptr = Session
      BY <2>1 DEF EvictsOnly
    <2> HIDE DEF es, ptr
    <2>3. \A s \in Session : s # r.session => pointer'[s] = ptr[s]
      BY <2>1, <2>2 DEF PointTo
    <2>4. ASSUME r.session \in Session
          PROVE  Begins(r.session)
      <3>1. pointer'[r.session] = [rev |-> sequence + 1, job |-> j] /\ sequence' = sequence + 1
        BY <2>1, <2>2, <2>4 DEF PointTo
      <3>2. QED
        BY <2>1, <3>1 DEF Begins, PhaseOf
    <2>5. sequence' \in Nat /\ sequence' >= sequence
      BY <1>3, <2>1 DEF PointTo
    <2>6. ASSUME NEW s \in Session, s # r.session
          PROVE  Forgets(s) \/ GoesOn(s)
      <3>1. \A i \in JobId : js[i].request = jobs[i].request
        BY <1>2
      <3>2. pointer'[s] = ptr[s]
        BY <2>3, <2>6
      <3>3. pointer[s].job # NoJob =>
              /\ jobs[pointer[s].job].retained
              /\ jobs[pointer[s].job].request.session = s
        BY DEF IInv, PointersRetained
      <3>4. pointer[s].job # NoJob => pointer[s].job # j /\ pointer[s].job \notin Displaced(r)
        BY <2>1, <2>6, <3>3, DisplacedIsOwn
      <3>5. CASE ptr[s] = NoPointer /\ pointer[s].job = v /\ v \in Terminal(js)
        <4>1. v # NoJob
          BY <3>5, RegistryAssumption DEF Terminal, Retained
        <4>2. QED
          BY <1>2, <3>2, <3>4, <3>5, <4>1 DEF Forgets
      <3>6. CASE ptr[s] = pointer[s] /\ pointer[s].job = NoJob
        BY <3>2, <3>6 DEF GoesOn
      <3>7. CASE /\ ptr[s] = pointer[s]
                 /\ pointer[s].job \in JobId \ {v}
                 /\ es[pointer[s].job] = js[pointer[s].job]
        <4>1. pointer[s].job # NoJob
          BY <3>7, RegistryAssumption
        <4>2. jobs'[pointer[s].job] = jobs[pointer[s].job]
          BY <1>2, <2>1, <3>4, <3>7, <4>1
        <4>3. QED
          BY <3>2, <3>7, <4>2 DEF GoesOn, SnapshotMoves
      <3>8. QED
        BY <2>1, <3>1, <3>5, <3>6, <3>7, EvictionForgets
    <2>7. QED
      BY <2>4, <2>5, <2>6 DEF SessionsMove
  <1>6. QED
    BY <1>4, <1>5, SubmitShape DEF js

(* A page that is saved before it is shown may forget the session it makes *)
(* room in.                                                                *)
LEMMA ActivateSaveMoves ==
  ASSUME IInv, NEW j \in PreparedId, ActivateSave(j)
  PROVE  SessionsMove
  <1>1. PICK v \in Victims(jobs) : jobs' = Evicted(jobs, v) /\ pointer' = Unpointed(jobs, v)
    BY DEF ActivateSave
  <1>2. UNCHANGED sequence /\ TypeOK /\ sequence \in Nat
    BY DEF ActivateSave, IInv, TypeOK
  <1>3. EvictsOnly(jobs, v, jobs', pointer')
    BY <1>1, <1>2, EvictedFacts DEF TypeOK
  <1>4. \A s \in Session : Forgets(s) \/ GoesOn(s)
    BY <1>3, EvictionForgets DEF Forgets, GoesOn, SnapshotMoves
  <1>5. QED
    BY <1>2, <1>4 DEF SessionsMove

(* Every step of the registry.                                             *)
LEMMA StepsMove ==
  ASSUME IInv, [Next]_vars
  PROVE  SessionsMove
  <1>1. ASSUME NEW r \in Inputs, Submit(r) PROVE SessionsMove
    BY <1>1, SubmitMoves
  <1>2. ASSUME NEW j \in PreparedId, ActivateDeferred(j) PROVE SessionsMove
    <2>1. /\ Activatable(j)
          /\ \E v \in Victims(jobs) :
               InsertPrepared(Evicted(jobs, v), Unpointed(jobs, v), j, TRUE)
      BY <1>2 DEF ActivateDeferred
    <2>2. PICK v \in Victims(jobs) :
            InsertPrepared(Evicted(jobs, v), Unpointed(jobs, v), j, TRUE)
      BY <2>1
    <2>3. EvictsOnly(jobs, v, Evicted(jobs, v), Unpointed(jobs, v))
      BY EvictedFacts DEF IInv, TypeOK
    <2>4. QED
      BY <2>1, <2>2, <2>3, InsertMoves DEF Activatable
  <1>3. ASSUME NEW j \in PreparedId, ActivateSave(j) PROVE SessionsMove
    BY <1>3, ActivateSaveMoves
  <1>4. CASE ActivateShow
    <2>1. /\ lock.job \in PreparedId
          /\ ~jobs[lock.job].retained
          /\ pointer[PreparedFor[lock.job]].job \in {NoJob} \cup Terminal(jobs)
          /\ InsertPrepared(jobs, pointer, lock.job, FALSE)
      BY <1>4 DEF ActivateShow, IInv, LockKeepsChecks
    <2>2. EvictsOnly(jobs, NoJob, jobs, pointer)
      BY RegistryAssumption DEF EvictsOnly, IInv, TypeOK, Active, Retained
    <2>3. QED
      BY <2>1, <2>2, InsertMoves
  <1>5. CASE PresentShow
    BY <1>5, PresentShowMoves
  <1>6. ASSUME NEW j \in JobId, RunStep(j) PROVE SessionsMove
    BY <1>6, RunStepShape, TaskStepMoves
  <1>7. ASSUME NEW j \in JobId, PresentSave(j) \/ SaveLands(j) PROVE SessionsMove
    BY <1>7, StillSessionsMove DEF PresentSave, SaveLands, IInv
  <1>8. CASE CloseBegin \/ CloseEnd \/ UNCHANGED vars
    BY <1>8, StillSessionsMove DEF CloseBegin, CloseEnd, vars, IInv
  <1>9. QED
    BY <1>1, <1>2, <1>3, <1>4, <1>5, <1>6, <1>7, <1>8 DEF Next, Client, Background, Stopped

-----------------------------------------------------------------------------
(* Through eviction, supersession, cancellation and lock waits, what the   *)
(* browsers of a session are shown is a legal timeline of scenes, for any  *)
(* sessions, requests and capacities: the registry implements it.          *)
THEOREM TimelineImplemented == Spec => ImplementsTimeline
  <1>1. Init => Timeline!Init
    BY DEF Init, Timeline!Init, Timeline!Empty, SceneOf, NoPointer
  <1>2. IInv /\ IInv' /\ [Next]_vars => [Timeline!Next]_Timeline!vars
    BY StepsMove, MovesKeepTheTimeline DEF IInv
  <1>3. QED
    BY Inductive, <1>1, <1>2, PTL DEF Spec, ImplementsTimeline, Timeline!Spec

-----------------------------------------------------------------------------
(* A job is superseded by another, or not at all.                          *)

\* unfinished jobs are not superseded ones, no pointer is ahead of the sequence,
\* and no more jobs are unfinished than may be
WorkFits ==
  /\ \A j \in Active(jobs) : jobs[j].note # "superseded"
  /\ \A s \in Session : pointer[s].rev <= sequence
  /\ Cardinality(Active(jobs)) <= MaxActive

\* what SupersedeReplaces says of one step
SupersededOnlyByAnother ==
  \A j \in Active(jobs) :
    (jobs'[j].note = "superseded" \/ ~jobs'[j].retained) =>
      LET s == jobs[j].request.session
      IN /\ s \in Session
         /\ pointer'[s].rev > pointer[s].rev
         /\ pointer'[s].job \in Active(jobs')

\* no unfinished job is superseded, and none is new
Harmless ==
  \A i \in JobId :
    \/ jobs'[i] = jobs[i]
    \/ i \in Active(jobs) /\ jobs'[i].retained /\ jobs'[i].note # "superseded"
    \/ i \notin Active(jobs) /\ ~(jobs'[i].retained /\ ~jobs'[i].complete)

(* The unfinished jobs are finitely many.                                  *)
LEMMA ActiveIsFinite ==
  ASSUME NEW js
  PROVE  IsFiniteSet(Active(js)) /\ Cardinality(Active(js)) \in Nat
  <1>1. Active(js) \in SUBSET JobId
    BY DEF Active, Retained
  <1>2. QED
    BY <1>1, RegistryAssumption, FS_Subset, FS_CardinalityType

(* Pointers stay behind the sequence.                                      *)
LEMMA PointersStayBehind ==
  ASSUME TypeOK, WorkFits, SessionsMove
  PROVE  \A s \in Session : pointer'[s].rev <= sequence'
  BY DEF TypeOK, WorkFits, SessionsMove, Begins, Forgets, GoesOn, NoPointer

(* A harmless step supersedes nothing and starts nothing.                  *)
LEMMA HarmlessKeepsWorkFits ==
  ASSUME TypeOK, WorkFits, SessionsMove, Harmless
  PROVE  WorkFits' /\ SupersededOnlyByAnother
  <1>1. \A i \in Active(jobs)' : i \in Active(jobs) /\ jobs'[i].note # "superseded"
    BY DEF Harmless, WorkFits, Active, Terminal, Retained
  <1>2. Cardinality(Active(jobs)') <= Cardinality(Active(jobs))
    BY <1>1, ActiveIsFinite, FS_Subset
  <1>3. Cardinality(Active(jobs)') <= MaxActive
    <2>1. Cardinality(Active(jobs)') \in Nat
      BY ActiveIsFinite
    <2>2. QED
      BY <1>2, <2>1, ActiveIsFinite, RegistryAssumption DEF WorkFits
  <1>4. SupersededOnlyByAnother
    BY DEF Harmless, WorkFits, SupersededOnlyByAnother, Active, Retained
  <1>5. QED
    BY <1>1, <1>3, <1>4, PointersStayBehind DEF WorkFits

(* A submit that displaces a job finds room for its own: it is not refused. *)
LEMMA DisplacingMakesRoom ==
  ASSUME IInv, WorkFits, NEW r, Displaced(r) # {}, NEW js, js = WithSuperseded(jobs, Displaced(r))
  PROVE  Cardinality(Active(js)) < MaxActive /\ CanRetain(js)
  <1>1. PICK i \in Displaced(r) : TRUE
    OBVIOUS
  <1>2. Displaced(r) \in SUBSET Active(jobs)
    BY DEF Displaced
  <1>3. Active(js) = Active(jobs) \ Displaced(r) /\ Terminal(js) = Terminal(jobs) \cup Displaced(r)
    BY <1>2, SupersededFacts
  <1>4. Active(js) \in SUBSET (Active(jobs) \ {i})
    BY <1>1, <1>3
  <1>5. /\ IsFiniteSet(Active(jobs) \ {i})
        /\ Cardinality(Active(jobs) \ {i}) = Cardinality(Active(jobs)) - 1
    BY <1>1, <1>2, ActiveIsFinite, FS_RemoveElement
  <1>6. Cardinality(Active(js)) <= Cardinality(Active(jobs)) - 1
    BY <1>4, <1>5, FS_Subset
  <1>7. Cardinality(Active(js)) < MaxActive
    BY <1>6, ActiveIsFinite, RegistryAssumption DEF WorkFits
  <1>8. QED
    BY <1>1, <1>3, <1>7 DEF CanRetain

(* A submit supersedes only what it replaces.                              *)
LEMMA SubmitKeepsWorkFits ==
  ASSUME IInv, WorkFits, NEW r \in Inputs, Submit(r)
  PROVE  WorkFits' /\ SupersededOnlyByAnother
  <1> DEFINE js == WithSuperseded(jobs, Displaced(r))
  <1>1. TypeOK /\ SessionsMove
    BY SubmitMoves DEF IInv
  <1>2. Displaced(r) \in SUBSET Active(jobs)
    BY DEF Displaced
  <1>3. /\ \A i \in JobId : /\ js[i].retained = jobs[i].retained
                            /\ i \notin Displaced(r) => js[i] = jobs[i]
        /\ Active(js) = Active(jobs) \ Displaced(r)
    BY <1>2, SupersededFacts
  <1>4. CASE /\ ~(Cardinality(Active(js)) < MaxActive /\ CanRetain(js))
             /\ jobs' = js
    <2>1. Displaced(r) = {}
      BY <1>4, DisplacingMakesRoom
    <2>2. Harmless
      BY <1>3, <1>4, <2>1 DEF Harmless
    <2>3. QED
      BY <1>1, <2>2, HarmlessKeepsWorkFits
  <1>5. ASSUME Cardinality(Active(js)) < MaxActive,
               NEW j \in JobId, NEW v \in Victims(js), Replaces(r, j, v, js)
        PROVE  WorkFits' /\ SupersededOnlyByAnother
    <2> DEFINE es == Evicted(js, v)
               ptr == Unpointed(js, v)
    <2>1. /\ EvictsOnly(js, v, es, ptr) /\ PointTo(ptr, r.session, j)
          /\ \A i \in JobId : i # j => jobs'[i] = es[i]
          /\ ~jobs[j].retained
          /\ jobs'[j].retained /\ ~jobs'[j].complete /\ jobs'[j].note = "none"
      BY <1>5 DEF Replaces
    <2> HIDE DEF es, ptr, js
    <2>2. \A i \in JobId : i # v => es[i] = js[i]
      BY <2>1 DEF EvictsOnly
    <2>3. v \notin Active(js) /\ (v \in JobId => ~es[v].retained)
      BY <2>1 DEF EvictsOnly
    <2>4. ASSUME NEW i \in Active(jobs)', i # j
          PROVE  i \in Active(js) /\ i \in Active(jobs) /\ jobs'[i] = jobs[i]
      <3>1. i \in JobId /\ jobs'[i].retained /\ ~jobs'[i].complete
        BY DEF Active, Terminal, Retained
      <3>2. i # v /\ jobs'[i] = js[i]
        BY <2>1, <2>2, <2>3, <2>4, <3>1
      <3>3. i \in Active(js)
        BY <3>1, <3>2 DEF Active, Terminal, Retained
      <3>4. QED
        BY <1>3, <3>1, <3>2, <3>3
    <2>5. Cardinality(Active(jobs)') <= MaxActive
      <3>1. /\ IsFiniteSet(Active(js) \cup {j})
            /\ Cardinality(Active(js) \cup {j}) <= Cardinality(Active(js)) + 1
        <4>1. IsFiniteSet(Active(js)) /\ Cardinality(Active(js)) \in Nat
          BY ActiveIsFinite
        <4>2. /\ IsFiniteSet(Active(js) \cup {j})
              /\ Cardinality(Active(js) \cup {j}) =
                   IF j \in Active(js) THEN Cardinality(Active(js))
                   ELSE Cardinality(Active(js)) + 1
          BY <4>1, FS_AddElement, Zenon
        <4>3. QED
          BY <4>1, <4>2
      <3>2. Active(jobs)' \in SUBSET (Active(js) \cup {j})
        BY <2>4
      <3>3. Cardinality(Active(jobs)') <= Cardinality(Active(js) \cup {j})
        BY <3>1, <3>2, FS_Subset
      <3>4. /\ Cardinality(Active(jobs)') \in Nat
            /\ Cardinality(Active(js)) \in Nat
            /\ Cardinality(Active(js) \cup {j}) \in Nat
        BY <3>1, ActiveIsFinite, FS_CardinalityType
      <3>5. QED
        BY <1>5, <3>1, <3>3, <3>4, RegistryAssumption
    <2>6. \A i \in Active(jobs)' : jobs'[i].note # "superseded"
      BY <2>1, <2>4 DEF WorkFits
    <2>7. WorkFits'
      BY <1>1, <2>5, <2>6, PointersStayBehind DEF WorkFits
    <2>8. ASSUME NEW i \in Active(jobs), jobs'[i].note = "superseded" \/ ~jobs'[i].retained
          PROVE  i \in Displaced(r)
      <3>1. i \in JobId /\ jobs[i].retained /\ jobs[i].note # "superseded" /\ i # j
        BY <2>1 DEF WorkFits, Active, Retained
      <3>2. SUFFICES ASSUME i \notin Displaced(r) PROVE FALSE
        OBVIOUS
      <3>3. i \in Active(js) /\ js[i] = jobs[i]
        BY <1>3, <3>1, <3>2
      <3>4. jobs'[i] = jobs[i]
        BY <2>1, <2>2, <2>3, <3>1, <3>3
      <3>5. QED
        BY <2>8, <3>1, <3>4
    <2>9. SupersededOnlyByAnother
      <3> SUFFICES ASSUME NEW i \in Active(jobs), jobs'[i].note = "superseded" \/ ~jobs'[i].retained
                   PROVE  /\ jobs[i].request.session \in Session
                          /\ pointer'[jobs[i].request.session].rev
                               > pointer[jobs[i].request.session].rev
                          /\ pointer'[jobs[i].request.session].job \in Active(jobs')
        BY DEF SupersededOnlyByAnother
      <3>1. r.session \in Session /\ jobs[i].request.session = r.session
        BY <2>8, DisplacedIsOwn
      <3>2. pointer'[r.session] = [rev |-> sequence + 1, job |-> j]
        BY <2>1, <3>1 DEF PointTo, EvictsOnly
      <3>3. pointer[r.session].rev \in Nat /\ sequence \in Nat /\ pointer[r.session].rev <= sequence
        BY <1>1, <3>1 DEF TypeOK, WorkFits
      <3>4. j \in Active(jobs')
        BY <2>1 DEF Active, Terminal, Retained
      <3>5. QED
        BY <3>1, <3>2, <3>3, <3>4
    <2>10. QED
      BY <2>7, <2>9
  <1>6. QED
    BY <1>4, <1>5, SubmitShape DEF js

(* Everything else the registry does supersedes nothing.                   *)
LEMMA OthersAreHarmless ==
  ASSUME IInv, [Next]_vars, \A r \in Inputs : ~Submit(r)
  PROVE  Harmless
  <1>1. ASSUME NEW j \in PreparedId, NEW defer \in BOOLEAN, NEW es, NEW ptr, NEW v,
               EvictsOnly(jobs, v, es, ptr), ~jobs[j].retained,
               InsertPrepared(es, ptr, j, defer)
        PROVE  Harmless
    <2> DEFINE r == [NoRequest EXCEPT !.session = PreparedFor[j], !.defer = defer]
               new == NewJob(r, "master", TRUE)
    <2>1. jobs' = [es EXCEPT ![j] = new] /\ new.complete
      BY <1>1 DEF InsertPrepared, NewJob
    <2> HIDE DEF new
    <2>2. \A i \in JobId : jobs'[i] = IF i = j THEN new ELSE es[i]
      BY <1>1, <2>1 DEF EvictsOnly
    <2>3. QED
      BY <1>1, <2>1, <2>2 DEF Harmless, EvictsOnly, Active, Retained
  <1>2. ASSUME NEW j \in PreparedId, ActivateDeferred(j) PROVE Harmless
    <2>1. /\ Activatable(j)
          /\ \E v \in Victims(jobs) :
               InsertPrepared(Evicted(jobs, v), Unpointed(jobs, v), j, TRUE)
      BY <1>2 DEF ActivateDeferred
    <2>2. PICK v \in Victims(jobs) :
            InsertPrepared(Evicted(jobs, v), Unpointed(jobs, v), j, TRUE)
      BY <2>1
    <2>3. EvictsOnly(jobs, v, Evicted(jobs, v), Unpointed(jobs, v))
      BY EvictedFacts DEF IInv, TypeOK
    <2>4. QED
      BY <1>1, <2>1, <2>2, <2>3 DEF Activatable
  <1>3. ASSUME NEW j \in PreparedId, ActivateSave(j) PROVE Harmless
    <2>1. PICK v \in Victims(jobs) : jobs' = Evicted(jobs, v)
      BY <1>3 DEF ActivateSave
    <2>2. EvictsOnly(jobs, v, jobs', Unpointed(jobs, v))
      BY <2>1, EvictedFacts DEF IInv, TypeOK
    <2>3. QED
      BY <2>2 DEF Harmless, EvictsOnly
  <1>4. CASE ActivateShow
    <2>1. /\ lock.job \in PreparedId /\ ~jobs[lock.job].retained
          /\ InsertPrepared(jobs, pointer, lock.job, FALSE)
      BY <1>4 DEF ActivateShow, IInv, LockKeepsChecks
    <2>2. EvictsOnly(jobs, NoJob, jobs, pointer)
      BY RegistryAssumption DEF EvictsOnly, IInv, TypeOK, Active, Retained
    <2>3. QED
      BY <1>1, <2>1, <2>2
  <1>5. CASE PresentShow
    <2> DEFINE j == lock.job
    <2>1. j \in Terminal(jobs) /\ j \in JobId /\ jobs[j] \in Job
      BY <1>5 DEF PresentShow, IInv, TypeOK, LockKeepsChecks, Terminal, Retained
    <2>2. jobs' = [jobs EXCEPT ![j].presented = TRUE, ![j].revision = @ + 1]
      BY <1>5 DEF PresentShow
    <2>3. jobs'[j].complete /\ \A i \in JobId : i # j => jobs'[i] = jobs[i]
      BY <2>1, <2>2 DEF IInv, TypeOK, Job, Terminal
    <2>4. QED
      BY <2>1, <2>3 DEF Harmless, Active
  <1>6. ASSUME NEW j \in JobId, RunStep(j) PROVE Harmless
    <2>1. Keeps(j) \/ Advances(j)
      BY <1>6, RunStepShape DEF TaskStep, Moves
    <2>2. CASE Keeps(j)
      BY <2>2 DEF Keeps, Harmless
    <2>3. CASE Advances(j)
      <3>1. PICK stage \in Stage, complete \in BOOLEAN, note \in Note \ {"superseded"} :
              jobs' = [jobs EXCEPT ![j] = Advanced(jobs[j], stage, complete, note)]
        BY <2>3 DEF Advances
      <3>2. j \in Active(jobs) /\ jobs[j] \in Job /\ jobs[j].retained
        BY <2>3 DEF Advances, IInv, TypeOK, Active, Retained
      <3> DEFINE new == Advanced(jobs[j], stage, complete, note)
      <3>3. new.note = note /\ new.retained
        BY <3>2 DEF Advanced, Job
      <3> HIDE DEF new
      <3>4. jobs'[j] = new /\ \A i \in JobId : i # j => jobs'[i] = jobs[i]
        BY <3>1, <3>2 DEF new, IInv, TypeOK
      <3>5. QED
        BY <3>2, <3>3, <3>4 DEF Harmless
    <2>4. QED
      BY <2>1, <2>2, <2>3
  <1>7. ASSUME NEW j \in JobId, PresentSave(j) \/ SaveLands(j) PROVE Harmless
    BY <1>7 DEF PresentSave, SaveLands, Harmless
  <1>8. CASE CloseBegin \/ CloseEnd \/ UNCHANGED vars
    BY <1>8 DEF CloseBegin, CloseEnd, vars, Harmless
  <1>9. QED
    BY <1>2, <1>3, <1>4, <1>5, <1>6, <1>7, <1>8 DEF Next, Client, Background, Stopped

(* The work in hand fits after every step, and nothing is superseded but   *)
(* by what replaces it.                                                    *)
LEMMA StepsKeepWorkFits ==
  ASSUME IInv, WorkFits, [Next]_vars
  PROVE  WorkFits' /\ SupersededOnlyByAnother
  <1>1. CASE \E r \in Inputs : Submit(r)
    BY <1>1, SubmitKeepsWorkFits
  <1>2. CASE \A r \in Inputs : ~Submit(r)
    BY <1>2, StepsMove, OthersAreHarmless, HarmlessKeepsWorkFits DEF IInv
  <1>3. QED
    BY <1>1, <1>2

(* Initially there is no work.                                             *)
LEMMA InitWorkFits == Init => WorkFits
  <1> SUFFICES ASSUME Init PROVE WorkFits
    OBVIOUS
  <1>1. Active(jobs) = {}
    BY AbsentType DEF Init, Active, Retained
  <1>2. Cardinality(Active(jobs)) <= MaxActive
    BY <1>1, FS_EmptySet, RegistryAssumption
  <1>3. \A s \in Session : pointer[s].rev <= sequence
    BY DEF Init, NoPointer
  <1>4. QED
    BY <1>1, <1>2, <1>3 DEF WorkFits

-----------------------------------------------------------------------------
(* A request that is refused never costs a session its running job, for    *)
(* any capacity: the capacity is checked after the displaced job was       *)
(* failed, but a job displaced is always room enough.                      *)
THEOREM SupersededIsReplaced == Spec => SupersedeReplaces
  <1>1. IInv /\ WorkFits /\ [Next]_vars => WorkFits'
    BY StepsKeepWorkFits
  <1>2. IInv /\ WorkFits /\ [Next]_vars => [SupersededOnlyByAnother]_vars
    BY StepsKeepWorkFits
  <1>3. QED
    BY Inductive, InitWorkFits, <1>1, <1>2, PTL
       DEF Spec, SupersedeReplaces, SupersededOnlyByAnother

(* No more jobs are unfinished at a time than the registry allows.         *)
THEOREM WorkWithinCapacity == Spec => [](Cardinality(Active(jobs)) <= MaxActive)
  <1>1. IInv /\ WorkFits /\ [Next]_vars => WorkFits'
    BY StepsKeepWorkFits
  <1>2. WorkFits => Cardinality(Active(jobs)) <= MaxActive
    BY DEF WorkFits
  <1>3. QED
    BY Inductive, InitWorkFits, <1>1, <1>2, PTL DEF Spec

-----------------------------------------------------------------------------
(* The streams: what their clients have read follows the registry.         *)

-----------------------------------------------------------------------------
(* What one step of the registry does to a record, to the pointers.        *)

RecordMoves(j) ==
  \/ jobs'[j] = jobs[j]
  \/ jobs'[j] = Absent
  \/ /\ jobs'[j].retained
     /\ jobs'[j].born = jobs[j].born
     /\ jobs'[j].revision > jobs[j].revision

\* a record that comes into the table is a new one, published once
Arrives(j) == jobs'[j].retained /\ jobs'[j].born > 0 /\ jobs'[j].revision > 0

RecordsMove ==
  /\ \A j \in Retained(jobs) : RecordMoves(j)
  /\ \A j \in JobId \ Retained(jobs) : jobs'[j] = jobs[j] \/ Arrives(j)
  /\ \A s \in Session :
       pointer'[s] = NoPointer /\ pointer[s].job # NoJob =>
         jobs'[pointer[s].job] = Absent

(* Nothing happens to the table.                                           *)
LEMMA StillRecordsMove ==
  ASSUME TypeOK, UNCHANGED <<jobs, pointer>>
  PROVE  RecordsMove
  <1>1. NoPointer.job = NoJob
    BY DEF NoPointer
  <1>2. QED
    BY <1>1 DEF RecordsMove, RecordMoves, Retained

(* One record is published anew.                                           *)
LEMMA OneRecordMoves ==
  ASSUME TypeOK, NEW j \in Retained(jobs), UNCHANGED pointer,
         \A i \in JobId : i # j => jobs'[i] = jobs[i],
         jobs'[j].retained, jobs'[j].born = jobs[j].born,
         jobs'[j].revision > jobs[j].revision
  PROVE  RecordsMove
  <1>1. NoPointer.job = NoJob
    BY DEF NoPointer
  <1>2. QED
    BY <1>1 DEF RecordsMove, RecordMoves, Retained

(* A publication is the next revision of its record.                       *)
LEMMA AdvancedRevision ==
  ASSUME NEW job \in Job, NEW stage, NEW complete \in BOOLEAN, NEW note
  PROVE  /\ Advanced(job, stage, complete, note).revision > job.revision
         /\ Advanced(job, stage, complete, note).born = job.born
         /\ Advanced(job, stage, complete, note).retained = job.retained
  <1>1. job.revision \in Nat
    BY DEF Job
  <1>2. /\ Advanced(job, stage, complete, note).revision = job.revision + 1
        /\ Advanced(job, stage, complete, note).born = job.born
        /\ Advanced(job, stage, complete, note).retained = job.retained
    BY DEF Advanced, Job
  <1>3. QED
    BY <1>1, <1>2

LEMMA NewJobArrives ==
  ASSUME inserts \in Nat, NEW r, NEW stage, NEW complete
  PROVE  /\ NewJob(r, stage, complete).retained
         /\ NewJob(r, stage, complete).born > 0
         /\ NewJob(r, stage, complete).revision > 0
  BY DEF NewJob

(* A task's step.                                                          *)
LEMMA TaskStepRecords ==
  ASSUME IInv, NEW j \in JobId, TaskStep(j)
  PROVE  RecordsMove
  <1>1. TypeOK /\ UNCHANGED pointer
    BY DEF IInv, TaskStep, RunFrame
  <1>2. CASE Keeps(j)
    BY <1>1, <1>2, StillRecordsMove DEF Keeps
  <1>3. CASE Advances(j)
    <2>1. PICK stage \in Stage, complete \in BOOLEAN, note \in Note \ {"superseded"} :
            jobs' = [jobs EXCEPT ![j] = Advanced(jobs[j], stage, complete, note)]
      BY <1>3 DEF Advances
    <2>2. jobs[j] \in Job /\ j \in Retained(jobs) /\ jobs[j].retained
      BY <1>1, <1>3 DEF Advances, TypeOK, Active, Retained
    <2> DEFINE new == Advanced(jobs[j], stage, complete, note)
    <2>3. new.revision > jobs[j].revision /\ new.born = jobs[j].born /\ new.retained
      BY <2>2, AdvancedRevision
    <2> HIDE DEF new
    <2>4. jobs'[j] = new /\ \A i \in JobId : i # j => jobs'[i] = jobs[i]
      BY <1>1, <2>1 DEF new, TypeOK
    <2>5. QED
      BY <1>1, <2>2, <2>3, <2>4, OneRecordMoves
  <1>4. QED
    BY <1>2, <1>3 DEF TaskStep, Moves

LEMMA PresentShowRecords ==
  ASSUME IInv, PresentShow
  PROVE  RecordsMove
  <1> DEFINE j == lock.job
  <1>1. j \in Retained(jobs) /\ TypeOK /\ UNCHANGED pointer
    BY DEF PresentShow, IInv, LockKeepsChecks, Terminal
  <1>2. jobs[j] \in Job /\ j \in JobId /\ jobs[j].retained /\ jobs[j].revision \in Nat
    BY <1>1 DEF TypeOK, Retained, Job
  <1>3. jobs' = [jobs EXCEPT ![j].presented = TRUE, ![j].revision = @ + 1]
    BY DEF PresentShow
  <1>4. /\ jobs'[j].retained = jobs[j].retained /\ jobs'[j].born = jobs[j].born
        /\ jobs'[j].revision = jobs[j].revision + 1
        /\ \A i \in JobId : i # j => jobs'[i] = jobs[i]
    BY <1>1, <1>2, <1>3 DEF TypeOK, Job
  <1>5. jobs'[j].revision > jobs[j].revision
    BY <1>2, <1>4
  <1>6. QED
    BY <1>1, <1>2, <1>4, <1>5, OneRecordMoves

(* Making room: the record that goes takes the pointer to it along.        *)
LEMMA EvictionRecords ==
  ASSUME TypeOK, NEW js \in [JobId -> Job], NEW v \in Victims(js),
         \A i \in JobId :
           \/ js[i] = jobs[i]
           \/ /\ jobs[i].retained /\ js[i].retained /\ js[i].born = jobs[i].born
              /\ js[i].revision > jobs[i].revision
  PROVE  LET es == Evicted(js, v)  ptr == Unpointed(js, v)
         IN /\ \A i \in JobId :
                 \/ es[i] = jobs[i]
                 \/ es[i] = Absent /\ jobs[i].retained
                 \/ /\ jobs[i].retained /\ es[i].retained /\ es[i].born = jobs[i].born
                    /\ es[i].revision > jobs[i].revision
            /\ \A s \in Session :
                 \/ ptr[s] = pointer[s]
                 \/ pointer[s].job \in JobId /\ es[pointer[s].job] = Absent
  <1>1. v \in JobId => js[v].retained
    BY VictimIsTerminal, RegistryAssumption DEF Terminal, Retained
  <1>2. \A i \in JobId : Evicted(js, v)[i] = IF i = v THEN Absent ELSE js[i]
    BY DEF Evicted
  <1>3. \A s \in Session :
          Unpointed(js, v)[s] = pointer[s] \/ (v \in JobId /\ pointer[s].job = v)
    BY DEF Unpointed
  <1>4. \A i \in JobId : js[i].retained = jobs[i].retained
    BY DEF TypeOK, Job
  <1>5. QED
    BY <1>1, <1>2, <1>3, <1>4

(* A prepared page comes in where room was made.                           *)
LEMMA InsertRecords ==
  ASSUME TypeOK, NEW j \in PreparedId, NEW defer \in BOOLEAN,
         NEW es \in [JobId -> Job], NEW ptr,
         ~jobs[j].retained, DOMAIN ptr = Session,
         \A i \in JobId : es[i] = jobs[i] \/ (es[i] = Absent /\ jobs[i].retained),
         \A s \in Session :
           \/ ptr[s] = pointer[s]
           \/ pointer[s].job \in JobId /\ es[pointer[s].job] = Absent,
         \A s \in Session : pointer[s].job # NoJob => jobs[pointer[s].job].retained,
         InsertPrepared(es, ptr, j, defer)
  PROVE  RecordsMove
  <1> DEFINE r == [NoRequest EXCEPT !.session = PreparedFor[j], !.defer = defer]
             new == NewJob(r, "master", TRUE)
  <1>1. /\ jobs' = [es EXCEPT ![j] = new] /\ j \in JobId
        /\ PointTo(ptr, PreparedFor[j], j)
    BY DEF InsertPrepared, JobId
  <1>2. new.retained /\ new.born > 0 /\ new.revision > 0
    BY NewJobArrives DEF TypeOK
  <1> HIDE DEF new
  <1>3. jobs'[j] = new /\ \A i \in JobId : i # j => jobs'[i] = es[i]
    BY <1>1
  <1>4. \A s \in Session : pointer'[s] = ptr[s] \/ pointer'[s].job = j
    BY <1>1 DEF PointTo
  <1>5. j # NoJob /\ NoPointer.job = NoJob
    BY <1>1, RegistryAssumption DEF NoPointer
  <1>6. ASSUME NEW s \in Session, pointer'[s] = NoPointer, pointer[s].job # NoJob
        PROVE  jobs'[pointer[s].job] = Absent
    <2>1. pointer'[s] = ptr[s] /\ ptr[s] # pointer[s]
      BY <1>4, <1>5, <1>6
    <2>2. pointer[s].job # j
      BY <1>6
    <2>3. QED
      BY <1>3, <2>1, <2>2
  <1>7. QED
    BY <1>2, <1>3, <1>6 DEF RecordsMove, RecordMoves, Arrives, Retained

(* A superseded record is published once more.                             *)
LEMMA SupersededRevision ==
  ASSUME IInv, NEW r
  PROVE  LET js == WithSuperseded(jobs, Displaced(r))
         IN \A i \in JobId :
              \/ js[i] = jobs[i]
              \/ /\ jobs[i].retained /\ js[i].retained /\ js[i].born = jobs[i].born
                 /\ js[i].revision > jobs[i].revision
  <1> SUFFICES ASSUME NEW i \in JobId
               PROVE  LET js == WithSuperseded(jobs, Displaced(r))
                      IN \/ js[i] = jobs[i]
                         \/ /\ jobs[i].retained /\ js[i].retained
                            /\ js[i].born = jobs[i].born
                            /\ js[i].revision > jobs[i].revision
    OBVIOUS
  <1>1. jobs[i] \in Job
    BY DEF IInv, TypeOK
  <1>2. CASE i \in Displaced(r)
    <2> DEFINE new == Advanced(jobs[i], "failed", TRUE, "superseded")
    <2>1. WithSuperseded(jobs, Displaced(r))[i] = new
      BY <1>2 DEF WithSuperseded
    <2>2. jobs[i].retained
      BY <1>2 DEF Displaced, Active, Retained
    <2>3. \A complete \in BOOLEAN :
            LET a == Advanced(jobs[i], "failed", complete, "superseded")
            IN a.revision > jobs[i].revision /\ a.born = jobs[i].born /\ a.retained
      BY <1>1, <2>2, AdvancedRevision
    <2>4. new.revision > jobs[i].revision /\ new.born = jobs[i].born /\ new.retained
      BY <2>3
    <2> HIDE DEF new
    <2>5. QED
      BY <2>1, <2>2, <2>4
  <1>3. CASE i \notin Displaced(r)
    BY <1>3 DEF WithSuperseded
  <1>4. QED
    BY <1>2, <1>3

LEMMA SubmitRecords ==
  ASSUME IInv, NEW r \in Inputs, Submit(r)
  PROVE  RecordsMove
  <1> DEFINE js == WithSuperseded(jobs, Displaced(r))
  <1>1. TypeOK /\ Displaced(r) \in SUBSET Active(jobs)
    BY DEF IInv, Displaced
  <1>2. js \in [JobId -> Job]
    BY <1>1, SupersededFacts
  <1>3. \A i \in JobId :
          \/ js[i] = jobs[i]
          \/ /\ jobs[i].retained /\ js[i].retained /\ js[i].born = jobs[i].born
             /\ js[i].revision > jobs[i].revision
    BY SupersededRevision
  <1>4. NoPointer.job = NoJob
    BY DEF NoPointer
  <1>5. CASE Cardinality(Active(js)) < MaxActive /\ CanRetain(js)
    <2>1. PICK j \in FreshId \ IssuedId, v \in Victims(js) :
            /\ jobs' = [Evicted(js, v) EXCEPT ![j] = NewJob(r, "queued", FALSE)]
            /\ PointTo(Unpointed(js, v), r.session, j)
      BY <1>5, Zenon DEF Submit
    <2> DEFINE new == NewJob(r, "queued", FALSE)
               es == Evicted(js, v)
               ptr == Unpointed(js, v)
    <2>2. new.retained /\ new.born > 0 /\ new.revision > 0
      BY <1>1, NewJobArrives DEF TypeOK
    <2>3. j \in JobId /\ ~jobs[j].retained /\ j # NoJob
      BY RegistryAssumption DEF JobId, IInv, ClaimsOutliveJobs
    <2>4. EvictsOnly(js, v, es, ptr)
      BY <1>1, <1>2, EvictedFacts DEF TypeOK
    <2>5. /\ \A i \in JobId :
               \/ es[i] = jobs[i]
               \/ es[i] = Absent /\ jobs[i].retained
               \/ /\ jobs[i].retained /\ es[i].retained /\ es[i].born = jobs[i].born
                  /\ es[i].revision > jobs[i].revision
          /\ \A s \in Session :
               \/ ptr[s] = pointer[s]
               \/ pointer[s].job \in JobId /\ es[pointer[s].job] = Absent
      BY <1>1, <1>2, <1>3, EvictionRecords
    <2>6. /\ jobs' = [es EXCEPT ![j] = new] /\ es \in [JobId -> Job]
          /\ DOMAIN ptr = Session /\ PointTo(ptr, r.session, j)
      BY <2>1, <2>4 DEF EvictsOnly
    <2> HIDE DEF new, es, ptr, js
    <2>7. jobs'[j] = new /\ \A i \in JobId : i # j => jobs'[i] = es[i]
      BY <2>3, <2>6
    <2>8. \A s \in Session : pointer'[s] = ptr[s] \/ pointer'[s].job = j
      BY <2>6 DEF PointTo
    <2>9. ASSUME NEW s \in Session, pointer'[s] = NoPointer, pointer[s].job # NoJob
          PROVE  jobs'[pointer[s].job] = Absent
      <3>1. pointer'[s] = ptr[s] /\ ptr[s] # pointer[s]
        BY <1>4, <2>3, <2>8, <2>9
      <3>2. jobs[pointer[s].job].retained
        BY <2>9 DEF IInv, PointersRetained
      <3>3. pointer[s].job # j
        BY <2>3, <3>2
      <3>4. QED
        BY <2>5, <2>7, <3>1, <3>3
    <2>10. QED
      BY <2>2, <2>3, <2>5, <2>7, <2>9 DEF RecordsMove, RecordMoves, Arrives, Retained
  <1>6. CASE ~(Cardinality(Active(js)) < MaxActive /\ CanRetain(js))
    <2>1. jobs' = js /\ UNCHANGED pointer
      BY <1>6, Zenon DEF Submit
    <2>2. QED
      BY <1>3, <1>4, <2>1 DEF RecordsMove, RecordMoves, Retained
  <1>7. QED
    BY <1>5, <1>6

(* Every step of the registry.                                             *)
LEMMA StepsMoveRecords ==
  ASSUME IInv, [Next]_vars
  PROVE  RecordsMove
  <1>1. TypeOK /\ \A s \in Session : pointer[s].job # NoJob => jobs[pointer[s].job].retained
    BY DEF IInv, PointersRetained
  <1>2. ASSUME NEW v \in Victims(jobs)
        PROVE  LET es == Evicted(jobs, v)  ptr == Unpointed(jobs, v)
               IN /\ es \in [JobId -> Job] /\ DOMAIN ptr = Session
                  /\ \A i \in JobId : es[i] = jobs[i] \/ (es[i] = Absent /\ jobs[i].retained)
                  /\ \A s \in Session :
                       \/ ptr[s] = pointer[s]
                       \/ pointer[s].job \in JobId /\ es[pointer[s].job] = Absent
    <2>1. jobs \in [JobId -> Job]
      BY <1>1 DEF TypeOK
    <2>2. EvictsOnly(jobs, v, Evicted(jobs, v), Unpointed(jobs, v))
      BY <1>1, EvictedFacts DEF TypeOK
    <2>3. v \in JobId => jobs[v].retained
      BY VictimIsTerminal, RegistryAssumption DEF Terminal, Retained
    <2>4. \A i \in JobId : Evicted(jobs, v)[i] = IF i = v THEN Absent ELSE jobs[i]
      BY DEF Evicted
    <2>5. \A s \in Session :
            Unpointed(jobs, v)[s] = pointer[s] \/ (v \in JobId /\ pointer[s].job = v)
      BY DEF Unpointed
    <2>6. QED
      BY <2>2, <2>3, <2>4, <2>5 DEF EvictsOnly
  <1>3. ASSUME NEW r \in Inputs, Submit(r) PROVE RecordsMove
    BY <1>3, SubmitRecords
  <1>4. ASSUME NEW j \in PreparedId, ActivateDeferred(j) PROVE RecordsMove
    <2>1. /\ Activatable(j)
          /\ \E v \in Victims(jobs) :
               InsertPrepared(Evicted(jobs, v), Unpointed(jobs, v), j, TRUE)
      BY <1>4 DEF ActivateDeferred
    <2>2. PICK v \in Victims(jobs) :
            InsertPrepared(Evicted(jobs, v), Unpointed(jobs, v), j, TRUE)
      BY <2>1
    <2>3. ~jobs[j].retained
      BY <2>1 DEF Activatable
    <2>4. \A defer \in BOOLEAN :
            InsertPrepared(Evicted(jobs, v), Unpointed(jobs, v), j, defer) => RecordsMove
      BY <1>1, <1>2, <2>3, InsertRecords
    <2>5. QED
      BY <2>2, <2>4
  <1>5. ASSUME NEW j \in PreparedId, ActivateSave(j) PROVE RecordsMove
    <2>1. PICK v \in Victims(jobs) :
            jobs' = Evicted(jobs, v) /\ pointer' = Unpointed(jobs, v)
      BY <1>5 DEF ActivateSave
    <2>2. NoPointer.job = NoJob
      BY DEF NoPointer
    <2>3. /\ \A i \in JobId : jobs'[i] = jobs[i] \/ (jobs'[i] = Absent /\ jobs[i].retained)
          /\ \A s \in Session :
               \/ pointer'[s] = pointer[s]
               \/ pointer[s].job \in JobId /\ jobs'[pointer[s].job] = Absent
      BY <1>2, <2>1
    <2>4. QED
      BY <2>2, <2>3 DEF RecordsMove, RecordMoves, Retained
  <1>6. CASE ActivateShow
    <2>1. /\ lock.job \in PreparedId /\ ~jobs[lock.job].retained
          /\ InsertPrepared(jobs, pointer, lock.job, FALSE)
      BY <1>6 DEF ActivateShow, IInv, LockKeepsChecks
    <2>2. jobs \in [JobId -> Job] /\ DOMAIN pointer = Session
      BY <1>1 DEF TypeOK
    <2>3. QED
      BY <1>1, <2>1, <2>2, InsertRecords
  <1>7. CASE PresentShow
    BY <1>7, PresentShowRecords
  <1>8. ASSUME NEW j \in JobId, RunStep(j) PROVE RecordsMove
    BY <1>8, RunStepShape, TaskStepRecords
  <1>9. ASSUME NEW j \in JobId, PresentSave(j) \/ SaveLands(j) PROVE RecordsMove
    BY <1>1, <1>9, StillRecordsMove DEF PresentSave, SaveLands
  <1>10. CASE CloseBegin \/ CloseEnd \/ UNCHANGED vars
    BY <1>1, <1>10, StillRecordsMove DEF CloseBegin, CloseEnd, vars
  <1>11. QED
    BY <1>3, <1>4, <1>5, <1>6, <1>7, <1>8, <1>9, <1>10 DEF Next, Client, Background, Stopped

(* So records stay numbered and pointers stay behind the sequence.         *)
LEMMA RecordsStayFit ==
  ASSUME IInv, IInv', RecordsFit, RecordsMove
  PROVE  RecordsFit'
  <1> SUFFICES ASSUME NEW j \in JobId, jobs'[j].retained
               PROVE  jobs'[j].revision > 0 /\ jobs'[j].born > 0
    BY DEF RecordsFit, Retained
  <1>1. jobs[j] \in Job /\ jobs'[j] \in Job
    BY DEF IInv, TypeOK
  <1>2. CASE j \in Retained(jobs)
    <2>1. jobs[j].revision > 0 /\ jobs[j].born > 0 /\ RecordMoves(j)
      BY <1>2 DEF RecordsFit, RecordsMove
    <2>2. jobs[j].revision \in Nat /\ jobs'[j].revision \in Nat
      BY <1>1 DEF Job
    <2>3. jobs'[j] # Absent
      BY AbsentType
    <2>4. QED
      BY <2>1, <2>2, <2>3 DEF RecordMoves
  <1>3. CASE j \notin Retained(jobs)
    BY <1>3 DEF RecordsMove, Arrives, Retained
  <1>4. QED
    BY <1>2, <1>3

LEMMA PointersStayFit ==
  ASSUME IInv, PointersFit, SessionsMove
  PROVE  PointersFit'
  <1> SUFFICES ASSUME NEW s \in Session
               PROVE  IF pointer'[s].job = NoJob THEN pointer'[s].rev = 0
                      ELSE pointer'[s].rev \in 1..sequence'
    BY DEF PointersFit
  <1>1. /\ sequence \in Nat /\ pointer[s].rev \in Nat
        /\ sequence' \in Nat /\ sequence' >= sequence
        /\ NoJob \notin JobId
    BY RegistryAssumption DEF IInv, TypeOK, SessionsMove
  <1>2. IF pointer[s].job = NoJob THEN pointer[s].rev = 0 ELSE pointer[s].rev \in 1..sequence
    BY DEF PointersFit
  <1>3. CASE Begins(s)
    BY <1>1, <1>3 DEF Begins
  <1>4. CASE Forgets(s)
    BY <1>4 DEF Forgets, NoPointer
  <1>5. CASE GoesOn(s)
    BY <1>1, <1>2, <1>5 DEF GoesOn
  <1>6. QED
    BY <1>3, <1>4, <1>5 DEF SessionsMove

-----------------------------------------------------------------------------
(* A bounded queue keeps the order of what it keeps: what is put is last,  *)
(* before it stand all the items there were but perhaps the first.         *)
Extends(p, q, x) ==
  \E d \in {0, 1} :
    /\ DOMAIN q = 1..Len(q) /\ DOMAIN p = 1..(Len(q) - d + 1)
    /\ Len(q) - d \in Nat
    /\ \A i \in 1..(Len(q) - d) : p[i] = q[i + d] /\ i + d \in DOMAIN q
    /\ p[Len(q) - d + 1] = x

\* whether the queue had room or not
LEMMA PutShape ==
  ASSUME NEW T, NEW q \in Seq(T), NEW x \in T
  PROVE  /\ Put(q, x) \in Seq(T)
         /\ Put(q, x) # <<>>
         /\ Newest(Put(q, x)) = x
         /\ Extends(Put(q, x), q, x)
  <1>1. QueueSize \in Nat /\ QueueSize > 0
    BY StreamAssumption
  <1>2. CASE Len(q) >= QueueSize
    <2>1. Len(q) \in Nat /\ Len(q) >= 1 /\ q # <<>>
      BY <1>1, <1>2
    <2>2. Put(q, x) = Append(Tail(q), x)
      BY <1>2 DEF Put
    <2>3. Tail(q) \in Seq(T) /\ Len(Tail(q)) = Len(q) - 1
      BY <2>1
    <2>4. \A i \in 1..(Len(q) - 1) : Tail(q)[i] = q[i + 1]
      BY <2>1
    <2>5. /\ Put(q, x) \in Seq(T) /\ Len(Put(q, x)) = Len(q) - 1 + 1
          /\ \A i \in 1..(Len(q) - 1) : Put(q, x)[i] = q[i + 1]
          /\ Put(q, x)[Len(q) - 1 + 1] = x
      BY <2>1, <2>2, <2>3, <2>4
    <2>6. QED
      BY <2>1, <2>5 DEF Newest, Extends
  <1>3. CASE ~(Len(q) >= QueueSize)
    <2>1. Put(q, x) = Append(q, x) /\ Len(q) \in Nat
      BY <1>3 DEF Put
    <2>2. /\ Put(q, x) \in Seq(T) /\ Len(Put(q, x)) = Len(q) - 0 + 1
          /\ \A i \in 1..(Len(q) - 0) : Put(q, x)[i] = q[i + 0]
          /\ Put(q, x)[Len(q) - 0 + 1] = x
      BY <2>1
    <2>3. QED
      BY <2>1, <2>2 DEF Newest, Extends
  <1>4. QED
    BY <1>2, <1>3

(* An item is read off the front.                                          *)
LEMMA HeadAndTail ==
  ASSUME NEW T, NEW q \in Seq(T), q # <<>>
  PROVE  /\ Head(q) \in T /\ Head(q) = q[1] /\ 1 \in DOMAIN q
         /\ Tail(q) \in Seq(T)
         /\ \A i \in DOMAIN Tail(q) : Tail(q)[i] = q[i + 1] /\ i + 1 \in DOMAIN q
         /\ Tail(q) # <<>> => Newest(Tail(q)) = Newest(q)
         /\ Tail(q) = <<>> => Newest(q) = Head(q)
  <1>1. Len(q) \in Nat /\ Len(q) >= 1 /\ DOMAIN q = 1..Len(q)
    OBVIOUS
  <1>2. /\ Tail(q) \in Seq(T) /\ Len(Tail(q)) = Len(q) - 1
        /\ DOMAIN Tail(q) = 1..(Len(q) - 1)
        /\ \A i \in 1..(Len(q) - 1) : Tail(q)[i] = q[i + 1]
    BY <1>1
  <1>3. Head(q) = q[1] /\ Head(q) \in T
    BY <1>1
  <1>4. Tail(q) # <<>> => Len(q) - 1 >= 1
    BY <1>1, <1>2
  <1>5. Tail(q) = <<>> => Len(q) = 1
    BY <1>1, <1>2
  <1>6. QED
    BY <1>1, <1>2, <1>3, <1>4, <1>5 DEF Newest

(* A follower's queue rises when a newer snapshot is put.                  *)
LEMMA PutRises ==
  ASSUME NEW f \in Feed, NEW x \in Item, Rising(f),
         f.got.revision < x.revision,
         \A k \in DOMAIN f.queue : f.queue[k].revision < x.revision
  PROVE  LET g == [f EXCEPT !.queue = Put(@, x)]
         IN g \in Feed /\ Rising(g) /\ NewestRevision(g) = x.revision
  <1> DEFINE q == f.queue
             p == Put(q, x)
             g == [f EXCEPT !.queue = p]
  <1>1. q \in Seq(Item) /\ f.got \in Item
    BY DEF Feed
  <1>2. /\ p \in Seq(Item) /\ p # <<>> /\ Newest(p) = x
        /\ Extends(p, q, x)
    BY <1>1, PutShape
  <1>3. g \in Feed /\ g.queue = p /\ g.got = f.got
    BY <1>2 DEF Feed
  <1> HIDE DEF p, q, g
  <1>4. PICK d \in {0, 1} :
          /\ DOMAIN q = 1..Len(q) /\ DOMAIN p = 1..(Len(q) - d + 1)
          /\ Len(q) - d \in Nat
          /\ \A i \in 1..(Len(q) - d) : p[i] = q[i + d] /\ i + d \in DOMAIN q
          /\ p[Len(q) - d + 1] = x
    BY <1>2 DEF Extends
  <1>5. \A k \in DOMAIN p : k \in 1..(Len(q) - d) \/ k = Len(q) - d + 1
    BY <1>4
  <1>6. /\ \A i, k \in DOMAIN q : i < k => q[i].revision < q[k].revision
        /\ \A k \in DOMAIN q : f.got.revision < q[k].revision
        /\ \A k \in DOMAIN q : q[k].revision < x.revision
    BY DEF Rising, q
  <1>7. \A k \in DOMAIN p : f.got.revision < p[k].revision
    BY <1>4, <1>5, <1>6
  <1>8. ASSUME NEW i \in DOMAIN p, NEW k \in DOMAIN p, i < k
        PROVE  p[i].revision < p[k].revision
    <2>1. i \in 1..(Len(q) - d)
      BY <1>4, <1>8
    <2> DEFINE a == i + d
    <2>2. p[i] = q[a] /\ a \in DOMAIN q
      BY <1>4, <2>1
    <2> HIDE DEF a
    <2>3. CASE k = Len(q) - d + 1
      BY <1>4, <1>6, <2>2, <2>3
    <2>4. CASE k \in 1..(Len(q) - d)
      <3> DEFINE b == k + d
      <3>1. p[k] = q[b] /\ b \in DOMAIN q
        BY <1>4, <2>4
      <3>2. a < b
        BY <1>4, <1>8, <2>1, <2>4 DEF a
      <3> HIDE DEF b
      <3>3. QED
        BY <1>6, <2>2, <3>1, <3>2
    <2>5. QED
      BY <1>5, <2>3, <2>4
  <1>9. Rising(g)
    BY <1>3, <1>7, <1>8 DEF Rising
  <1>10. NewestRevision(g) = x.revision
    BY <1>2, <1>3 DEF NewestRevision
  <1>11. QED
    BY <1>3, <1>9, <1>10 DEF g, p, q

(* Whatever a follower has been sent is no newer than the newest of it.    *)
LEMMA NothingNewer ==
  ASSUME NEW f \in Feed, NEW n \in Nat, Rising(f), NewestRevision(f) < n
  PROVE  /\ f.got.revision < n
         /\ \A k \in DOMAIN f.queue : f.queue[k].revision < n
  <1>1. f.queue \in Seq(Item) /\ f.got \in Item /\ f.after \in Nat
    BY DEF Feed
  <1>2. /\ \A k \in DOMAIN f.queue : f.queue[k].revision \in Nat
        /\ f.got.revision \in Nat
    <2>1. \A k \in DOMAIN f.queue : f.queue[k] \in Item
      BY <1>1
    <2>2. QED
      BY <1>1, <2>1 DEF Item
  <1>3. CASE f.queue = <<>>
    <2>1. DOMAIN f.queue = {}
      BY <1>3
    <2>2. f.got.revision < n
      BY <1>1, <1>2, <1>3 DEF NewestRevision, Closed
    <2>3. QED
      BY <2>1, <2>2
  <1>4. CASE f.queue # <<>>
    <2> DEFINE l == Len(f.queue)
    <2>1. l \in Nat /\ l >= 1 /\ DOMAIN f.queue = 1..l /\ l \in DOMAIN f.queue
      BY <1>1, <1>4
    <2>2. f.queue[l].revision < n
      BY <1>4 DEF NewestRevision, Newest
    <2> HIDE DEF l
    <2>3. ASSUME NEW k \in DOMAIN f.queue PROVE f.queue[k].revision < n
      <3>1. k = l \/ k < l
        BY <2>1
      <3>2. CASE k = l
        BY <2>2, <3>2
      <3>3. CASE k < l
        <4>1. f.queue[k].revision < f.queue[l].revision
          BY <2>1, <3>3 DEF Rising
        <4>2. QED
          BY <1>2, <2>1, <2>2, <4>1
      <3>4. QED
        BY <3>1, <3>2, <3>3
    <2>4. f.got.revision < f.queue[l].revision
      BY <2>1 DEF Rising
    <2>5. QED
      BY <1>2, <2>1, <2>2, <2>3, <2>4
  <1>5. QED
    BY <1>3, <1>4

\* an open follower is at its job's current snapshot
FeedFits(f) ==
  f.state = "open" =>
    /\ f.job \in Retained(jobs)
    /\ NewestRevision(f) = jobs[f.job].revision
    /\ Rising(f)

(* A step of the registry takes its followers along.                       *)
LEMMA FollowersGoAlong ==
  ASSUME IInv, IInv', RecordsFit, RecordsMove,
         NEW f \in Feed, f.state = "open", FeedFits(f)
  PROVE  /\ FeedAfter(f) \in Feed
         /\ FeedAfter(f).state = "open" =>
              /\ FeedAfter(f).job \in Retained(jobs')
              /\ NewestRevision(FeedAfter(f)) = jobs'[FeedAfter(f).job].revision
              /\ Rising(FeedAfter(f))
  <1> DEFINE j == f.job
             q == PutAny(f.queue, JobItems(j))
  <1>1. /\ j \in JobId /\ jobs[j].retained /\ jobs[j].born > 0
        /\ jobs[j] \in Job /\ jobs'[j] \in Job /\ RecordMoves(j)
    BY DEF FeedFits, Retained, RecordsFit, RecordsMove, IInv, TypeOK
  <1>2. /\ jobs[j].revision \in Nat /\ jobs'[j].revision \in Nat
        /\ jobs[j].complete \in BOOLEAN /\ jobs'[j].complete \in BOOLEAN
        /\ jobs[j].born \in Nat
    BY <1>1 DEF Job
  <1>3. f.queue \in Seq(Item) /\ NewestRevision(f) = jobs[j].revision /\ Rising(f)
    BY DEF Feed, FeedFits
  <1>4. FeedAfter(f) = IF ~Gone(j) THEN [f EXCEPT !.queue = q]
                       ELSE [f EXCEPT !.state = "closed",
                                      !.queue = IF q = <<>> THEN <<Closed>> ELSE q]
    BY DEF FeedAfter
  <1>5. CASE jobs'[j] = jobs[j]
    <2>1. JobItems(j) = <<>> /\ ~Gone(j)
      BY <1>5 DEF JobItems, Gone
    <2>2. q = f.queue
      BY <2>1 DEF PutAny
    <2>3. FeedAfter(f) = f
      BY <1>4, <2>1, <2>2 DEF Feed
    <2>4. QED
      BY <1>1, <1>3, <1>5, <2>3 DEF Retained
  <1>6. CASE jobs'[j] = Absent
    <2>1. Gone(j) /\ jobs'[j].born # jobs[j].born /\ jobs'[j] # jobs[j]
      BY <1>1, <1>6 DEF Gone, Absent
    <2>2. JobItems(j) = IF jobs[j].complete THEN <<>>
                        ELSE <<[revision |-> jobs[j].revision + 1, complete |-> TRUE]>>
      BY <1>1, <2>1 DEF JobItems
    <2>3. q \in Seq(Item)
      <3>1. CASE jobs[j].complete
        BY <1>3, <2>2, <3>1 DEF PutAny
      <3>2. CASE ~jobs[j].complete
        <4> DEFINE x == [revision |-> jobs[j].revision + 1, complete |-> TRUE]
        <4>1. x \in Item
          BY <1>2 DEF Item
        <4> HIDE DEF x
        <4>2. q = Put(f.queue, x)
          BY <2>2, <3>2 DEF PutAny, x
        <4>3. QED
          BY <1>3, <4>1, <4>2, PutShape
      <3>3. QED
        BY <3>1, <3>2
    <2> HIDE DEF q
    <2>4. Closed \in Item
      BY DEF Closed, Item
    <2>5. (IF q = <<>> THEN <<Closed>> ELSE q) \in Seq(Item)
      BY <2>3, <2>4
    <2>6. FeedAfter(f) \in Feed /\ FeedAfter(f).state = "closed"
      BY <1>4, <2>1, <2>5 DEF Feed
    <2>7. QED
      BY <2>6
  <1>7. CASE /\ jobs'[j].retained
             /\ jobs'[j].born = jobs[j].born
             /\ jobs'[j].revision > jobs[j].revision
    <2> DEFINE x == Snapshot(jobs', j)
    <2>1. ~Gone(j) /\ jobs'[j] # jobs[j]
      BY <1>2, <1>7 DEF Gone
    <2>2. x \in Item /\ x.revision = jobs'[j].revision
      BY <1>2 DEF Snapshot, Item
    <2>3. JobItems(j) = <<x>>
      BY <1>1, <1>7, <2>1 DEF JobItems
    <2> HIDE DEF x
    <2>4. q = Put(f.queue, x)
      BY <2>3 DEF PutAny
    <2>5. FeedAfter(f) = [f EXCEPT !.queue = Put(@, x)]
      BY <1>4, <2>1, <2>4
    <2>6. /\ f.got.revision < x.revision
          /\ \A k \in DOMAIN f.queue : f.queue[k].revision < x.revision
      BY <1>2, <1>3, <1>7, <2>2, NothingNewer
    <2>7. /\ FeedAfter(f) \in Feed /\ Rising(FeedAfter(f))
          /\ NewestRevision(FeedAfter(f)) = x.revision
      BY <1>3, <2>2, <2>5, <2>6, PutRises
    <2>8. FeedAfter(f).job = j
      BY <2>5 DEF Feed
    <2>9. QED
      BY <1>1, <1>7, <2>2, <2>7, <2>8 DEF Retained
  <1>8. QED
    BY <1>1, <1>5, <1>6, <1>7 DEF RecordMoves

(* What is read moves from the queue to the hand.                          *)
LEMMA ReadingRises ==
  ASSUME NEW f \in Feed, f.queue # <<>>, Rising(f), f.got.revision \in Nat,
         NEW d \in BOOLEAN
  PROVE  LET g == [f EXCEPT !.got = Head(f.queue), !.queue = Tail(f.queue), !.done = d]
         IN /\ g \in Feed /\ g.state = f.state /\ g.job = f.job
            /\ Rising(g)
            /\ NewestRevision(g) = NewestRevision(f)
  <1> DEFINE q == f.queue
             h == Head(q)
             t == Tail(q)
             g == [f EXCEPT !.got = h, !.queue = t, !.done = d]
  <1>1. q \in Seq(Item) /\ f.got \in Item
    BY DEF Feed
  <1>2. /\ h \in Item /\ h = q[1] /\ 1 \in DOMAIN q
        /\ t \in Seq(Item)
        /\ \A i \in DOMAIN t : t[i] = q[i + 1] /\ i + 1 \in DOMAIN q
        /\ t # <<>> => Newest(t) = Newest(q)
        /\ t = <<>> => Newest(q) = h
    BY <1>1, HeadAndTail
  <1> HIDE DEF h, t
  <1>3. /\ g \in Feed /\ g.state = f.state /\ g.job = f.job
        /\ g.got = h /\ g.queue = t
    BY <1>2 DEF Feed
  <1> HIDE DEF g
  <1>4. /\ \A i, k \in DOMAIN q : i < k => q[i].revision < q[k].revision
        /\ \A k \in DOMAIN q : f.got.revision < q[k].revision
    BY DEF Rising
  <1>5. DOMAIN t \in SUBSET Nat /\ \A i \in DOMAIN t : i >= 1
    BY <1>2
  <1>6. \A k \in DOMAIN t : h.revision < t[k].revision
    <2> SUFFICES ASSUME NEW k \in DOMAIN t PROVE h.revision < t[k].revision
      OBVIOUS
    <2> DEFINE b == k + 1
    <2>1. b \in DOMAIN q /\ t[k] = q[b] /\ 1 < b
      BY <1>2, <1>5
    <2> HIDE DEF b
    <2>2. QED
      BY <1>2, <1>4, <2>1
  <1>7. \A i, k \in DOMAIN t : i < k => t[i].revision < t[k].revision
    <2> SUFFICES ASSUME NEW i \in DOMAIN t, NEW k \in DOMAIN t, i < k
                 PROVE  t[i].revision < t[k].revision
      OBVIOUS
    <2> DEFINE a == i + 1
               b == k + 1
    <2>1. /\ a \in DOMAIN q /\ t[i] = q[a] /\ b \in DOMAIN q /\ t[k] = q[b]
          /\ a < b
      BY <1>2, <1>5
    <2> HIDE DEF a, b
    <2>2. QED
      BY <1>4, <2>1
  <1>8. h # Closed
    <2>1. h.revision \in Nat /\ f.got.revision < h.revision
      BY <1>2, <1>4 DEF Item
    <2>2. h.revision # 0
      BY <2>1
    <2>3. QED
      BY <2>2 DEF Closed
  <1>9. NewestRevision(g) = NewestRevision(f)
    BY <1>2, <1>3, <1>8 DEF NewestRevision
  <1>10. QED
    BY <1>3, <1>6, <1>7, <1>9 DEF Rising, g, h, t

LEMMA IdleFeed ==
  ASSUME NEW d \in BOOLEAN
  PROVE  [NoFeed EXCEPT !.done = d] \in Feed /\ [NoFeed EXCEPT !.done = d].state = "idle"
  <1>1. <<>> \in Seq(Item) /\ Closed \in Item
    BY DEF Closed, Item
  <1>2. QED
    BY <1>1 DEF NoFeed, Feed

(* One follower changes, the registry does not.                            *)
LEMMA OneFollower ==
  ASSUME StreamTypeOK, FeedsFit, UNCHANGED jobs, NEW c \in JobClient,
         NEW g \in Feed, FeedFits(g), feed' = [feed EXCEPT ![c] = g]
  PROVE  feed' \in [JobClient -> Feed] /\ FeedsFit'
  <1>1. \A x \in JobClient : FeedFits(feed[x])
    BY DEF FeedsFit, FeedFits
  <1>2. feed' \in [JobClient -> Feed] /\ \A x \in JobClient : FeedFits(feed'[x])
    BY <1>1 DEF StreamTypeOK
  <1>3. QED
    BY <1>2 DEF FeedsFit, FeedFits, NewestRevision, Rising

(* Subscribing, reading and hanging up.                                    *)
LEMMA FollowersRead ==
  ASSUME IInv, StreamTypeOK, RecordsFit, FeedsFit, NEW c \in JobClient,
         \/ \E j \in JobId, after \in 0..MaxAfter : Subscribe(c, j, after)
         \/ Receive(c)
         \/ Unsubscribe(c)
  PROVE  feed' \in [JobClient -> Feed] /\ FeedsFit'
  <1> DEFINE f == feed[c]
  <1>1. UNCHANGED jobs
    BY DEF Subscribe, Receive, Unsubscribe, vars
  <1>2. f \in Feed /\ FeedFits(f) /\ f.done \in BOOLEAN
    BY DEF StreamTypeOK, FeedsFit, FeedFits, Feed
  <1>3. ASSUME NEW j \in JobId, NEW after \in 0..MaxAfter, Subscribe(c, j, after)
        PROVE  feed' \in [JobClient -> Feed] /\ FeedsFit'
    <2> DEFINE first == IF jobs[j].revision # after \/ jobs[j].complete
                        THEN <<Snapshot(jobs, j)>> ELSE <<>>
               g == [NoFeed EXCEPT !.state = "open", !.job = j, !.after = after,
                                   !.queue = first]
    <2>1. feed' = [feed EXCEPT ![c] = g] /\ jobs[j].retained
      BY <1>3 DEF Subscribe
    <2>2. jobs[j] \in Job /\ jobs[j].revision > 0
      BY <2>1 DEF IInv, TypeOK, RecordsFit, Retained
    <2>3. /\ Snapshot(jobs, j) \in Item /\ Snapshot(jobs, j).revision = jobs[j].revision
          /\ jobs[j].revision \in Nat
      BY <2>2 DEF Snapshot, Item, Job
    <2>4. after \in Nat
      BY <1>3, StreamAssumption
    <2>5. first \in Seq(Item)
      BY <2>3
    <2> HIDE DEF first
    <2>6. /\ g \in Feed /\ g.job = j /\ g.queue = first /\ g.got = Closed /\ g.after = after
          /\ Closed.revision = 0
      BY <2>4, <2>5 DEF NoFeed, Feed, Closed, Item
    <2> HIDE DEF g
    <2>7. CASE jobs[j].revision # after \/ jobs[j].complete
      <3>1. first = <<Snapshot(jobs, j)>>
        BY <2>7 DEF first
      <3>2. /\ first # <<>> /\ DOMAIN first = {1} /\ first[1] = Snapshot(jobs, j)
            /\ Newest(first) = Snapshot(jobs, j)
        BY <3>1 DEF Newest
      <3>3. Rising(g) /\ NewestRevision(g) = jobs[j].revision
        BY <2>2, <2>3, <2>6, <3>2 DEF Rising, NewestRevision
      <3>4. QED
        BY <1>1, <2>1, <2>6, <3>3, OneFollower DEF FeedFits, Retained
    <2>8. CASE ~(jobs[j].revision # after \/ jobs[j].complete)
      <3>1. first = <<>> /\ DOMAIN first = {} /\ after = jobs[j].revision
        BY <2>8 DEF first
      <3>2. Rising(g) /\ NewestRevision(g) = jobs[j].revision
        BY <2>6, <3>1 DEF Rising, NewestRevision
      <3>3. QED
        BY <1>1, <2>1, <2>6, <3>2, OneFollower DEF FeedFits, Retained
    <2>9. QED
      BY <2>7, <2>8
  <1>4. CASE Receive(c)
    <2> DEFINE d == f.done \/ Head(f.queue).complete
               g == [f EXCEPT !.got = Head(f.queue), !.queue = Tail(f.queue), !.done = d]
    <2>1. CASE f.queue = <<>> \/ Head(f.queue) = Closed
      <3>1. feed' = [feed EXCEPT ![c] = [NoFeed EXCEPT !.done = TRUE]]
        BY <1>4, <2>1 DEF Receive
      <3>2. \A x \in BOOLEAN : LET i == [NoFeed EXCEPT !.done = x] IN i \in Feed /\ FeedFits(i)
        BY IdleFeed DEF FeedFits
      <3>3. \A x \in BOOLEAN : feed' = [feed EXCEPT ![c] = [NoFeed EXCEPT !.done = x]] =>
              feed' \in [JobClient -> Feed] /\ FeedsFit'
        BY <1>1, <3>2, OneFollower
      <3>4. QED
        BY <3>1, <3>3
    <2>2. CASE f.queue # <<>> /\ Head(f.queue) # Closed
      <3>1. feed' = [feed EXCEPT ![c] = g]
        BY <1>4, <2>2 DEF Receive
      <3>2. f.queue \in Seq(Item) /\ f.got.revision \in Nat
        BY <1>2 DEF Feed, Item
      <3>3. Head(f.queue) \in Item /\ Tail(f.queue) \in Seq(Item)
        BY <2>2, <3>2, HeadAndTail
      <3>4. d \in BOOLEAN
        BY <1>2, <3>3 DEF Item
      <3> HIDE DEF d
      <3>5. g \in Feed /\ g.state = f.state /\ g.job = f.job
        BY <1>2, <3>3, <3>4 DEF Feed
      <3>6. FeedFits(g)
        <4>1. CASE f.state = "open"
          <5>1. Rising(f) /\ NewestRevision(f) = jobs[f.job].revision /\ f.job \in Retained(jobs)
            BY <1>2, <4>1 DEF FeedFits
          <5>2. Rising(g) /\ NewestRevision(g) = NewestRevision(f)
            BY <1>2, <2>2, <3>2, <3>4, <5>1, ReadingRises
          <5>3. QED
            BY <3>5, <5>1, <5>2 DEF FeedFits
        <4>2. CASE f.state # "open"
          BY <3>5, <4>2 DEF FeedFits
        <4>3. QED
          BY <4>1, <4>2
      <3>7. QED
        BY <1>1, <3>1, <3>5, <3>6, OneFollower
    <2>3. QED
      BY <2>1, <2>2
  <1>5. CASE Unsubscribe(c)
    <2>1. feed' = [feed EXCEPT ![c] = [NoFeed EXCEPT !.done = f.done]]
      BY <1>5 DEF Unsubscribe
    <2>2. LET i == [NoFeed EXCEPT !.done = f.done] IN i \in Feed /\ FeedFits(i)
      BY <1>2, IdleFeed DEF FeedFits
    <2>3. QED
      BY <1>1, <2>1, <2>2, OneFollower
  <1>6. QED
    BY <1>3, <1>4, <1>5

-----------------------------------------------------------------------------
(* Events of a session.                                                    *)

(* An event tells what get_session answers.                                *)
LEMMA EventFacts ==
  ASSUME NEW js \in [JobId -> Job], NEW act \in [Session -> Nat],
         NEW ptr \in [Session -> [rev : Nat, job : JobId \cup {NoJob}]],
         NEW s \in Session
  PROVE  /\ EventOf(js, ptr, act, s) \in Event
         /\ EventOf(js, ptr, act, s).rev = ptr[s].rev
         /\ EventOf(js, ptr, act, s).job = ptr[s].job
         /\ ptr[s].job # NoJob =>
              /\ EventOf(js, ptr, act, s).revision = js[ptr[s].job].revision
              /\ js[ptr[s].job].revision \in Nat
  <1>1. ptr[s].rev \in Nat /\ ptr[s].job \in JobId \cup {NoJob} /\ act[s] \in Nat
    OBVIOUS
  <1>2. ptr[s].job # NoJob => js[ptr[s].job].revision \in Nat
    BY <1>1 DEF Job
  <1>3. (act[s] > 0) \in BOOLEAN
    OBVIOUS
  <1>4. QED
    BY <1>1, <1>2, <1>3 DEF EventOf, Event

(* Everything seen comes before an event put last, so the chain goes on.   *)
LEMMA PutChains ==
  ASSUME NEW w \in Watch, NEW x \in Event, Chained(w),
         \A a \in Seen(w) : Before(a, x)
  PROVE  LET g == [w EXCEPT !.queue = Put(@, x)]
         IN /\ g \in Watch /\ g.state = w.state /\ g.session = w.session
            /\ Chained(g)
            /\ Seen(g) \subseteq Seen(w) \cup {x}
            /\ NewestEvent(g) = x
  <1> DEFINE q == w.queue
             p == Put(q, x)
             g == [w EXCEPT !.queue = p]
  <1>1. q \in Seq(Event) /\ w.got \in Event
    BY DEF Watch
  <1>2. /\ p \in Seq(Event) /\ p # <<>> /\ Newest(p) = x
        /\ Extends(p, q, x)
    BY <1>1, PutShape
  <1>3. /\ g \in Watch /\ g.queue = p /\ g.got = w.got
        /\ g.state = w.state /\ g.session = w.session
    BY <1>2 DEF Watch
  <1>4. /\ \A i, k \in DOMAIN q : i < k => Before(q[i], q[k])
        /\ \A k \in DOMAIN q : Before(w.got, q[k])
        /\ \A k \in DOMAIN q : Before(q[k], x) /\ q[k] \in Seen(w)
        /\ Before(w.got, x) /\ w.got \in Seen(w)
    BY DEF Chained, Seen
  <1> HIDE DEF p, q, g
  <1>5. PICK d \in {0, 1} :
          /\ DOMAIN q = 1..Len(q) /\ DOMAIN p = 1..(Len(q) - d + 1)
          /\ Len(q) - d \in Nat
          /\ \A i \in 1..(Len(q) - d) : p[i] = q[i + d] /\ i + d \in DOMAIN q
          /\ p[Len(q) - d + 1] = x
    BY <1>2 DEF Extends
  <1>6. \A k \in DOMAIN p : k \in 1..(Len(q) - d) \/ k = Len(q) - d + 1
    BY <1>5
  <1>7. ASSUME NEW k \in DOMAIN p
        PROVE  Before(w.got, p[k]) /\ p[k] \in Seen(w) \cup {x}
    BY <1>4, <1>5, <1>6
  <1>8. ASSUME NEW i \in DOMAIN p, NEW k \in DOMAIN p, i < k
        PROVE  Before(p[i], p[k])
    <2>1. i \in 1..(Len(q) - d)
      BY <1>5, <1>8
    <2> DEFINE a == i + d
    <2>2. p[i] = q[a] /\ a \in DOMAIN q
      BY <1>5, <2>1
    <2> HIDE DEF a
    <2>3. CASE k = Len(q) - d + 1
      BY <1>4, <1>5, <2>2, <2>3
    <2>4. CASE k \in 1..(Len(q) - d)
      <3> DEFINE b == k + d
      <3>1. p[k] = q[b] /\ b \in DOMAIN q
        BY <1>5, <2>4
      <3>2. a < b
        BY <1>5, <1>8, <2>1, <2>4 DEF a
      <3> HIDE DEF b
      <3>3. QED
        BY <1>4, <2>2, <3>1, <3>2
    <2>5. QED
      BY <1>6, <2>3, <2>4
  <1>9. Chained(g)
    BY <1>3, <1>7, <1>8 DEF Chained
  <1>10. Seen(g) \subseteq Seen(w) \cup {x}
    BY <1>3, <1>4, <1>7 DEF Seen
  <1>11. NewestEvent(g) = x
    BY <1>2, <1>3 DEF NewestEvent
  <1>12. QED
    BY <1>3, <1>9, <1>10, <1>11 DEF g, p, q

(* The same for an event that may not be there.                            *)
LEMMA PutAnyChains ==
  ASSUME NEW w \in Watch, NEW items, NEW g, Chained(w),
         g = [w EXCEPT !.queue = PutAny(@, items)],
         items # <<>> =>
           \E x \in Event : items = <<x>> /\ \A a \in Seen(w) : Before(a, x)
  PROVE  /\ g \in Watch /\ g.state = w.state /\ g.session = w.session
         /\ Chained(g)
         /\ items = <<>> => g = w
         /\ items # <<>> => /\ Seen(g) \subseteq Seen(w) \cup {items[1]}
                            /\ NewestEvent(g) = items[1]
  <1>1. CASE items = <<>>
    <2>1. g = w
      BY <1>1 DEF PutAny, Watch
    <2>2. QED
      BY <1>1, <2>1
  <1>2. CASE items # <<>>
    <2>1. PICK x \in Event : items = <<x>> /\ \A a \in Seen(w) : Before(a, x)
      BY <1>2
    <2>2. items[1] = x /\ PutAny(w.queue, items) = Put(w.queue, x)
      BY <1>2, <2>1 DEF PutAny
    <2>3. g = [w EXCEPT !.queue = Put(@, x)]
      BY <2>2
    <2>4. /\ g \in Watch /\ g.state = w.state /\ g.session = w.session
          /\ Chained(g)
          /\ Seen(g) \subseteq Seen(w) \cup {x}
          /\ NewestEvent(g) = x
      BY <2>1, <2>3, PutChains
    <2>5. QED
      BY <1>2, <2>2, <2>4
  <1>3. QED
    BY <1>1, <1>2

(* What was behind stays behind.                                           *)
LEMMA BehindStays ==
  ASSUME IInv, IInv', PointersFit, PointersFit', RecordsMove, SessionsMove,
         StreamTypeOK, UNCHANGED planner,
         NEW a \in Event, NEW s \in Session, Behind(a, s)
  PROVE  /\ a.rev <= sequence'
         /\ Before(a, EventOf(jobs', pointer', planner', s))
  <1> DEFINE e == EventOf(jobs, pointer, planner, s)
             n == EventOf(jobs', pointer', planner', s)
  <1>1. /\ e \in Event /\ e.rev = pointer[s].rev /\ e.job = pointer[s].job
        /\ pointer[s].job # NoJob => e.revision = jobs[pointer[s].job].revision
    <2>1. /\ jobs \in [JobId -> Job] /\ planner \in [Session -> Nat]
          /\ pointer \in [Session -> [rev : Nat, job : JobId \cup {NoJob}]]
      BY DEF IInv, TypeOK, StreamTypeOK
    <2>2. QED
      BY <2>1, EventFacts, Zenon
  <1>2. /\ n \in Event /\ n.rev = pointer'[s].rev /\ n.job = pointer'[s].job
        /\ pointer'[s].job # NoJob => n.revision = jobs'[pointer'[s].job].revision
    <2>1. /\ jobs' \in [JobId -> Job] /\ planner' \in [Session -> Nat]
          /\ pointer' \in [Session -> [rev : Nat, job : JobId \cup {NoJob}]]
      BY DEF IInv, TypeOK, StreamTypeOK
    <2>2. QED
      BY <2>1, EventFacts, Zenon
  <1> HIDE DEF e, n
  <1>3. /\ sequence \in Nat /\ sequence' \in Nat /\ sequence' >= sequence
        /\ a.rev \in Nat /\ a.revision \in Nat /\ a.rev <= sequence /\ Before(a, e)
    BY DEF IInv, TypeOK, SessionsMove, Behind, Event, e
  <1>4. a.rev <= sequence'
    BY <1>3
  <1>5. CASE pointer'[s].job = NoJob
    <2>1. n.rev = 0
      BY <1>2, <1>5 DEF PointersFit
    <2>2. QED
      BY <1>4, <2>1 DEF Before, n
  <1>6. CASE Begins(s)
    <2>1. n.rev > a.rev
      BY <1>2, <1>3, <1>6 DEF Begins
    <2>2. QED
      BY <1>4, <2>1 DEF Before, n
  <1>7. CASE Forgets(s)
    <2>1. n.rev = 0
      BY <1>2, <1>7 DEF Forgets, NoPointer
    <2>2. QED
      BY <1>4, <2>1 DEF Before, n
  <1>8. CASE GoesOn(s) /\ pointer[s].job # NoJob
    <2> DEFINE j == pointer[s].job
    <2>1. pointer'[s] = pointer[s] /\ j \in JobId
      BY <1>8 DEF GoesOn, IInv, TypeOK
    <2>2. jobs[j].retained /\ jobs'[j].retained
      BY <1>8, <2>1 DEF IInv, PointersRetained
    <2>3. jobs'[j].revision >= jobs[j].revision
      <3>1. RecordMoves(j) /\ jobs'[j] # Absent
        BY <2>1, <2>2, AbsentType DEF RecordsMove, Retained
      <3>2. jobs[j].revision \in Nat /\ jobs'[j].revision \in Nat
        BY <2>1 DEF IInv, TypeOK, Job
      <3>3. QED
        BY <3>1, <3>2 DEF RecordMoves
    <2>4. e.rev = n.rev /\ e.job = n.job /\ n.revision >= e.revision
      BY <1>1, <1>2, <1>8, <2>1, <2>3
    <2>5. e.rev \in Nat /\ e.revision \in Nat /\ n.revision \in Nat
      BY <1>1, <1>2 DEF Event
    <2>6. Before(a, n)
      BY <1>3, <2>4, <2>5 DEF Before
    <2>7. QED
      BY <1>4, <2>6 DEF n
  <1>9. QED
    BY <1>5, <1>6, <1>7, <1>8 DEF SessionsMove, GoesOn

\* an activation of the session saves its pack after the step
ActivatingNext(s) == lock'.holder = "activate" /\ PreparedFor[lock'.job] = s

\* an open watcher is where its session is
WatchFits(w) ==
  w.state = "open" =>
    /\ w.session \in Session
    /\ \/ NewestEvent(w) = EventOf(jobs, pointer, planner, w.session)
       \/ Activating(w.session)
    /\ \A a \in Seen(w) : Behind(a, w.session)
    /\ Chained(w)

\* and is so after the step
WatchWillFit(w) ==
  w.state = "open" =>
    /\ w.session \in Session
    /\ \/ NewestEvent(w) = EventOf(jobs', pointer', planner', w.session)
       \/ ActivatingNext(w.session)
    /\ \A a \in Seen(w) :
         a.rev <= sequence' /\ Before(a, EventOf(jobs', pointer', planner', w.session))
    /\ Chained(w)

LEMMA SeenAreEvents ==
  ASSUME NEW w \in Watch
  PROVE  Seen(w) \subseteq Event
  BY DEF Watch, Seen

(* What a step of the registry publishes to a session, and in which case.  *)
LEMMA PublishedItems ==
  ASSUME IInv, IInv', RecordsFit, PointersFit, RecordsMove,
         SessionsMove, NEW s \in Session, NEW quiet
  PROVE  /\ Begins(s) => CurrentItem(s) = <<EventOf(jobs', pointer', planner, s)>>
         /\ CurrentItem(s) # <<>> =>
              CurrentItem(s) = <<EventOf(jobs', pointer', planner, s)>>
         /\ SupersededItem(s) # <<>> =>
              /\ Begins(s) /\ pointer[s].job # NoJob
              /\ SupersededItem(s) =
                   <<[rev |-> pointer[s].rev, job |-> pointer[s].job,
                      revision |-> jobs[pointer[s].job].revision + 1,
                      planner |-> planner[s] > 0]>>
         /\ LostItem(s, quiet) # <<>> =>
              LostItem(s, quiet) =
                <<[rev |-> 0, job |-> NoJob, revision |-> 0, planner |-> planner[s] > 0]>>
         /\ Forgets(s) /\ s # quiet => LostItem(s, quiet) # <<>>
         /\ Forgets(s) => CurrentItem(s) = <<>>
         /\ GoesOn(s) => /\ SupersededItem(s) = <<>> /\ LostItem(s, quiet) = <<>>
                         /\ CurrentItem(s) = <<>> =>
                              \/ pointer[s].job = NoJob
                              \/ jobs'[pointer[s].job] = jobs[pointer[s].job]
  <1> DEFINE old == pointer[s].job
  <1>1. /\ pointer[s].rev \in Nat /\ sequence \in Nat /\ NoJob \notin JobId
        /\ old \in JobId \cup {NoJob} /\ pointer[s].rev <= sequence
    BY RegistryAssumption DEF IInv, TypeOK, PointersFit
  <1>2. old # NoJob => old \in JobId /\ jobs[old].retained /\ jobs[old].born > 0
    BY <1>1 DEF IInv, PointersRetained, RecordsFit, Retained
  <1>3. [ClosedEvent EXCEPT !.planner = planner[s] > 0] =
          [rev |-> 0, job |-> NoJob, revision |-> 0, planner |-> planner[s] > 0]
    BY DEF ClosedEvent
  <1>4. \A x : <<x>> # <<>>
    OBVIOUS
  <1>5. Forgets(s) => old # NoJob /\ jobs'[old] = Absent /\ pointer'[s].job = NoJob
    <2>1. Forgets(s) => old \in JobId
      BY DEF Forgets, Terminal, Retained
    <2>2. QED
      BY <1>1, <2>1 DEF Forgets, NoPointer, RecordsMove
  <1>6. old # NoJob /\ jobs'[old] = Absent => Gone(old)
    BY <1>2 DEF Gone, Absent
  <1>7. GoesOn(s) /\ old # NoJob => ~Gone(old)
    <2> SUFFICES ASSUME GoesOn(s), old # NoJob PROVE jobs'[old].born = jobs[old].born
      BY DEF Gone
    <2>1. jobs'[old].retained
      BY DEF GoesOn, IInv, PointersRetained
    <2>2. RecordMoves(old) /\ jobs'[old] # Absent
      BY <1>2, <2>1, AbsentType DEF RecordsMove, Retained
    <2>3. QED
      BY <2>2 DEF RecordMoves
  <1>8. Begins(s) => Replaced(s) /\ pointer'[s].job # NoJob
    BY <1>1 DEF Begins, Replaced
  <1>9. Forgets(s) => old \notin Active(jobs)
    BY DEF Forgets, Active
  <1>10. GoesOn(s) => ~Replaced(s)
    BY DEF GoesOn, Replaced
  <1>11. /\ Begins(s) => CurrentItem(s) = <<EventOf(jobs', pointer', planner, s)>>
         /\ CurrentItem(s) # <<>> =>
              CurrentItem(s) = <<EventOf(jobs', pointer', planner, s)>>
         /\ Forgets(s) => CurrentItem(s) = <<>>
    BY <1>5, <1>8 DEF CurrentItem
  <1>12. /\ LostItem(s, quiet) # <<>> =>
              LostItem(s, quiet) =
                <<[rev |-> 0, job |-> NoJob, revision |-> 0, planner |-> planner[s] > 0]>>
         /\ Forgets(s) /\ s # quiet => LostItem(s, quiet) # <<>>
         /\ GoesOn(s) => LostItem(s, quiet) = <<>>
    BY <1>3, <1>4, <1>5, <1>6, <1>7 DEF LostItem
  <1>13. GoesOn(s) => /\ SupersededItem(s) = <<>>
                      /\ CurrentItem(s) = <<>> =>
                           \/ old = NoJob
                           \/ jobs'[old] = jobs[old]
    BY <1>1, <1>4, <1>10 DEF SupersededItem, CurrentItem, GoesOn
  <1>14. SupersededItem(s) # <<>> =>
              /\ Replaced(s) /\ old # NoJob /\ old \in Active(jobs)
              /\ SupersededItem(s) =
                   <<[rev |-> pointer[s].rev, job |-> old,
                      revision |-> jobs[old].revision + 1,
                      planner |-> planner[s] > 0]>>
    BY DEF SupersededItem
  <1>15. SupersededItem(s) # <<>> => Begins(s)
    BY <1>9, <1>10, <1>14 DEF SessionsMove
  <1>16. QED
    BY <1>11, <1>12, <1>13, <1>14, <1>15

(* A step of the registry takes its watchers along; only the watcher of a  *)
(* session whose activation is under way may lag.                          *)
LEMMA WatchersGoAlong ==
  ASSUME IInv, IInv', StreamTypeOK, RecordsFit, PointersFit, PointersFit',
         RecordsMove, SessionsMove, UNCHANGED planner,
         NEW w \in Watch, w.state = "open", WatchFits(w), NEW quiet,
         w.session = quiet => Begins(w.session) \/ ActivatingNext(w.session),
         Activating(w.session) => Begins(w.session) \/ ActivatingNext(w.session)
  PROVE  /\ WatchAfter(w, quiet) \in Watch
         /\ WatchWillFit(WatchAfter(w, quiet))
  <1> DEFINE s == w.session
             e == EventOf(jobs, pointer, planner, s)
             n == EventOf(jobs', pointer', planner', s)
             i1 == SupersededItem(s)
             i2 == LostItem(s, quiet)
             i3 == CurrentItem(s)
             w1 == [w EXCEPT !.queue = PutAny(@, i1)]
             w2 == [w1 EXCEPT !.queue = PutAny(@, i2)]
             w3 == [w2 EXCEPT !.queue = PutAny(@, i3)]
             After(a) == a.rev <= sequence' /\ Before(a, n)
  <1>1. /\ s \in Session /\ (NewestEvent(w) = e \/ Activating(s))
        /\ (\A a \in Seen(w) : Behind(a, s)) /\ Chained(w)
    BY DEF WatchFits
  <1>2. planner' = planner /\ n = EventOf(jobs', pointer', planner, s)
    OBVIOUS
  <1>3. WatchAfter(w, quiet) = w3
    BY DEF WatchAfter, Watch
  <1>4. /\ n \in Event /\ n.rev = pointer'[s].rev /\ n.job = pointer'[s].job
        /\ n.rev <= sequence'
    <2>1. /\ jobs' \in [JobId -> Job] /\ planner' \in [Session -> Nat]
          /\ pointer' \in [Session -> [rev : Nat, job : JobId \cup {NoJob}]]
      BY DEF IInv, TypeOK, StreamTypeOK
    <2>2. n \in Event /\ n.rev = pointer'[s].rev /\ n.job = pointer'[s].job
      BY <1>1, <2>1, EventFacts, Zenon
    <2>3. pointer'[s].rev <= sequence'
      BY <1>1 DEF IInv, TypeOK, PointersFit
    <2>4. QED
      BY <2>2, <2>3
  <1>5. /\ e \in Event /\ e.rev = pointer[s].rev /\ e.job = pointer[s].job
        /\ pointer[s].job # NoJob => e.revision = jobs[pointer[s].job].revision
    <2>1. /\ jobs \in [JobId -> Job] /\ planner \in [Session -> Nat]
          /\ pointer \in [Session -> [rev : Nat, job : JobId \cup {NoJob}]]
      BY DEF IInv, TypeOK, StreamTypeOK
    <2>2. QED
      BY <1>1, <2>1, EventFacts, Zenon
  <1>6. \A a \in Seen(w) : a \in Event /\ After(a)
    <2>1. Seen(w) \subseteq Event
      BY SeenAreEvents
    <2>2. QED
      BY <1>1, <2>1, BehindStays
  <1>7. /\ Begins(s) => i3 = <<n>>
        /\ i3 # <<>> => i3 = <<n>>
        /\ i1 # <<>> =>
             /\ Begins(s) /\ pointer[s].job # NoJob
             /\ i1 = <<[rev |-> pointer[s].rev, job |-> pointer[s].job,
                        revision |-> jobs[pointer[s].job].revision + 1,
                        planner |-> planner[s] > 0]>>
        /\ i2 # <<>> =>
             i2 = <<[rev |-> 0, job |-> NoJob, revision |-> 0, planner |-> planner[s] > 0]>>
        /\ Forgets(s) /\ s # quiet => i2 # <<>>
        /\ Forgets(s) => i3 = <<>>
        /\ GoesOn(s) => /\ i1 = <<>> /\ i2 = <<>>
                        /\ i3 = <<>> => \/ pointer[s].job = NoJob
                                        \/ jobs'[pointer[s].job] = jobs[pointer[s].job]
    BY <1>1, <1>2, PublishedItems
  <1>8. /\ sequence \in Nat /\ sequence' \in Nat /\ sequence' >= sequence
        /\ pointer[s].rev \in Nat /\ pointer[s].rev <= sequence
        /\ pointer[s].job \in JobId \cup {NoJob}
    BY <1>1 DEF IInv, TypeOK, SessionsMove, PointersFit
  <1>9. i1 # <<>> => /\ \E x \in Event : i1 = <<x>> /\ \A a \in Seen(w) : Before(a, x)
                     /\ i1[1] \in Event /\ After(i1[1])
    <2> SUFFICES ASSUME i1 # <<>>
                 PROVE  /\ \E x \in Event : i1 = <<x>> /\ \A a \in Seen(w) : Before(a, x)
                        /\ i1[1] \in Event /\ After(i1[1])
      OBVIOUS
    <2> DEFINE j == pointer[s].job
               x == [rev |-> pointer[s].rev, job |-> j,
                     revision |-> jobs[j].revision + 1, planner |-> planner[s] > 0]
    <2>1. i1 = <<x>> /\ Begins(s) /\ j # NoJob /\ j \in JobId
      BY <1>7, <1>8
    <2>2. jobs[j].revision \in Nat
      BY <2>1 DEF IInv, TypeOK, Job
    <2>3. (planner[s] > 0) \in BOOLEAN
      OBVIOUS
    <2>4. /\ x \in Event /\ x.rev = pointer[s].rev /\ x.job = j
          /\ x.revision = jobs[j].revision + 1
      BY <1>8, <2>1, <2>2, <2>3 DEF Event
    <2> HIDE DEF x
    <2>5. ASSUME NEW a \in Seen(w) PROVE Before(a, x)
      <3>1. Before(a, e) /\ a \in Event /\ e.rev = pointer[s].rev /\ e.rev \in Nat
        BY <1>1, <1>5, <1>6, <1>8 DEF Behind
      <3>2. e.job = j /\ e.revision = jobs[j].revision /\ a.revision \in Nat /\ a.rev \in Nat
        BY <1>5, <2>1, <3>1 DEF Event
      <3> HIDE DEF e
      <3>3. QED
        BY <2>2, <2>4, <3>1, <3>2 DEF Before
    <2>6. After(x)
      <3>1. n.rev = sequence + 1
        BY <1>4, <2>1 DEF Begins
      <3> HIDE DEF n
      <3>2. QED
        BY <1>8, <2>4, <3>1 DEF Before
    <2>7. i1[1] = x
      BY <2>1
    <2>8. QED
      BY <2>1, <2>4, <2>5, <2>6, <2>7
  <1>10. /\ w1 \in Watch /\ w1.state = "open" /\ w1.session = s /\ Chained(w1)
         /\ i1 = <<>> => w1 = w
         /\ \A a \in Seen(w1) : a \in Event /\ After(a)
    <2>1. /\ w1 \in Watch /\ w1.state = w.state /\ w1.session = w.session /\ Chained(w1)
          /\ i1 = <<>> => w1 = w
          /\ i1 # <<>> => Seen(w1) \subseteq Seen(w) \cup {i1[1]}
      BY <1>1, <1>9, PutAnyChains
    <2>2. QED
      BY <1>6, <1>9, <2>1
  <1>11. i2 # <<>> => /\ \E x \in Event : i2 = <<x>> /\ \A a \in Seen(w1) : Before(a, x)
                      /\ i2[1] \in Event /\ After(i2[1])
                      /\ i2[1].rev = 0 /\ i2[1].job = NoJob /\ i2[1].revision = 0
                      /\ i2[1].planner = (planner[s] > 0)
    <2> SUFFICES ASSUME i2 # <<>>
                 PROVE  /\ \E x \in Event : i2 = <<x>> /\ \A a \in Seen(w1) : Before(a, x)
                        /\ i2[1] \in Event /\ After(i2[1])
                        /\ i2[1].rev = 0 /\ i2[1].job = NoJob /\ i2[1].revision = 0
                        /\ i2[1].planner = (planner[s] > 0)
      OBVIOUS
    <2> DEFINE x == [rev |-> 0, job |-> NoJob, revision |-> 0, planner |-> planner[s] > 0]
    <2>1. i2 = <<x>> /\ i2[1] = x
      BY <1>7
    <2>2. (planner[s] > 0) \in BOOLEAN
      OBVIOUS
    <2>3. /\ x \in Event /\ x.rev = 0 /\ x.job = NoJob /\ x.revision = 0
          /\ x.planner = (planner[s] > 0)
      BY <2>2 DEF Event
    <2> HIDE DEF x
    <2>4. \A a \in Seen(w1) : Before(a, x)
      BY <2>3 DEF Before
    <2>5. After(x)
      <3>1. n.rev \in Nat /\ (n.rev = 0 \/ n.rev > 0)
        BY <1>4 DEF Event
      <3> HIDE DEF n
      <3>2. QED
        BY <1>8, <2>3, <3>1 DEF Before
    <2>6. QED
      BY <2>1, <2>3, <2>4, <2>5
  <1>12. /\ w2 \in Watch /\ w2.state = "open" /\ w2.session = s /\ Chained(w2)
         /\ i2 = <<>> => w2 = w1
         /\ i2 # <<>> => NewestEvent(w2) = i2[1]
         /\ \A a \in Seen(w2) : a \in Event /\ After(a)
    <2> HIDE DEF w1
    <2>1. /\ w2 \in Watch /\ w2.state = w1.state /\ w2.session = w1.session /\ Chained(w2)
          /\ i2 = <<>> => w2 = w1
          /\ i2 # <<>> => Seen(w2) \subseteq Seen(w1) \cup {i2[1]} /\ NewestEvent(w2) = i2[1]
      BY <1>10, <1>11, PutAnyChains
    <2>2. QED
      BY <1>10, <1>11, <2>1
  <1>13. After(n)
    <2>1. n.rev \in Nat /\ n.revision \in Nat
      BY <1>4 DEF Event
    <2> HIDE DEF n
    <2>2. QED
      BY <1>4, <2>1 DEF Before
  <1>14. /\ w3 \in Watch /\ w3.state = "open" /\ w3.session = s /\ Chained(w3)
         /\ i3 = <<>> => w3 = w2
         /\ i3 # <<>> => NewestEvent(w3) = n
         /\ \A a \in Seen(w3) : a \in Event /\ After(a)
    <2> HIDE DEF w2, n
    <2>1. i3 # <<>> => \E x \in Event : i3 = <<x>> /\ \A a \in Seen(w2) : Before(a, x)
      BY <1>4, <1>7, <1>12
    <2>2. /\ w3 \in Watch /\ w3.state = w2.state /\ w3.session = w2.session /\ Chained(w3)
          /\ i3 = <<>> => w3 = w2
          /\ i3 # <<>> => Seen(w3) \subseteq Seen(w2) \cup {i3[1]} /\ NewestEvent(w3) = i3[1]
      BY <1>12, <2>1, PutAnyChains
    <2>3. i3 # <<>> => i3[1] = n
      BY <1>7
    <2>4. QED
      BY <1>4, <1>12, <1>13, <2>2, <2>3
  <1>15. NewestEvent(w3) = n \/ ActivatingNext(s)
    <2>1. CASE i3 # <<>>
      BY <1>14, <2>1
    <2>2. CASE i3 = <<>> /\ Forgets(s)
      <3>1. CASE s = quiet
        BY <1>7, <2>2, <3>1
      <3>2. CASE s # quiet
        <4>1. NewestEvent(w3) = i2[1] /\ i2[1] \in Event
          BY <1>7, <1>11, <1>12, <1>14, <2>2, <3>2
        <4>2. n = [rev |-> 0, job |-> NoJob, revision |-> 0, planner |-> planner[s] > 0]
          BY <1>2, <2>2 DEF Forgets, NoPointer, EventOf
        <4>3. i2 = <<[rev |-> 0, job |-> NoJob, revision |-> 0, planner |-> planner[s] > 0]>>
          BY <1>7, <2>2, <3>2
        <4>4. QED
          BY <4>1, <4>2, <4>3
      <3>3. QED
        BY <3>1, <3>2
    <2>3. CASE i3 = <<>> /\ GoesOn(s)
      <3>1. w3 = w
        BY <1>7, <1>10, <1>12, <1>14, <2>3
      <3>2. pointer'[s] = pointer[s]
            /\ (pointer[s].job = NoJob \/ jobs'[pointer[s].job] = jobs[pointer[s].job])
        BY <1>7, <2>3 DEF GoesOn
      <3>3. n = e
        BY <1>2, <3>2 DEF EventOf
      <3>4. Activating(s) => ActivatingNext(s)
        BY <1>7, <2>3
      <3> HIDE DEF n, e, w3
      <3>5. QED
        BY <1>1, <3>1, <3>3, <3>4
    <2>4. QED
      BY <1>1, <1>7, <2>1, <2>2, <2>3 DEF SessionsMove
  <1>16. QED
    <2> HIDE DEF w3
    <2>1. w3 \in Watch /\ WatchWillFit(w3)
      BY <1>1, <1>14, <1>15 DEF WatchWillFit
    <2>2. QED
      BY <1>3, <2>1

(* A session that comes to a job that was not there begins a scene.        *)
LEMMA ArrivalBegins ==
  ASSUME IInv, SessionsMove, NEW s \in Session, NEW j \in JobId,
         ~jobs[j].retained, pointer'[s].job = j
  PROVE  Begins(s)
  <1>1. j # NoJob /\ NoPointer.job = NoJob
    BY RegistryAssumption DEF NoPointer
  <1>2. pointer[s].job # j
    BY <1>1 DEF IInv, PointersRetained
  <1>3. QED
    BY <1>1, <1>2 DEF SessionsMove, Forgets, GoesOn

LEMMA InsertPoints ==
  ASSUME NEW j \in PreparedId, NEW defer \in BOOLEAN, NEW js, NEW ptr,
         DOMAIN ptr = Session, InsertPrepared(js, ptr, j, defer)
  PROVE  pointer'[PreparedFor[j]].job = j
  BY RegistryAssumption DEF InsertPrepared, PointTo

(* An activation that saves its pack goes on, or shows its page.           *)
LEMMA ActivationGoesOn ==
  ASSUME IInv, [Next]_vars, SessionsMove, NEW s \in Session, Activating(s)
  PROVE  Begins(s) \/ ActivatingNext(s)
  <1>1. lock.holder = "activate" /\ PreparedFor[lock.job] = s /\ ~Unlocked
    BY DEF Activating, Unlocked
  <1>2. CASE ActivateShow
    <2>1. /\ lock.job \in PreparedId /\ lock.job \in JobId /\ ~jobs[lock.job].retained
          /\ InsertPrepared(jobs, pointer, lock.job, FALSE)
      BY <1>2 DEF ActivateShow, IInv, LockKeepsChecks, JobId
    <2>2. DOMAIN pointer = Session
      BY DEF IInv, TypeOK
    <2>3. \A defer \in BOOLEAN : InsertPrepared(jobs, pointer, lock.job, defer) =>
            pointer'[PreparedFor[lock.job]].job = lock.job
      BY <2>1, <2>2, InsertPoints
    <2>4. pointer'[s].job = lock.job
      BY <1>1, <2>1, <2>3
    <2>5. QED
      BY <2>1, <2>4, ArrivalBegins
  <1>3. CASE ~ActivateShow
    <2>1. ASSUME NEW j \in JobId, RunStep(j) PROVE UNCHANGED lock
      BY <2>1, RunStepShape DEF TaskStep, RunFrame
    <2>2. ASSUME NEW j \in JobId, PresentSave(j) \/ SaveLands(j) PROVE UNCHANGED lock
      BY <1>1, <2>2 DEF PresentSave, SaveLands
    <2>3. ASSUME NEW j \in PreparedId, ActivateDeferred(j) \/ ActivateSave(j)
          PROVE  UNCHANGED lock
      BY <1>1, <2>3 DEF ActivateDeferred, ActivateSave, Activatable
    <2>4. ASSUME NEW r \in Inputs, Submit(r) PROVE UNCHANGED lock
      BY <1>1, <2>4 DEF Submit
    <2>5. ASSUME PresentShow PROVE UNCHANGED lock
      BY <1>1, <2>5 DEF PresentShow
    <2>6. ASSUME CloseBegin \/ CloseEnd \/ UNCHANGED vars PROVE UNCHANGED lock
      BY <2>6 DEF CloseBegin, CloseEnd, vars
    <2>7. UNCHANGED lock
      BY <1>3, <2>1, <2>2, <2>3, <2>4, <2>5, <2>6 DEF Next, Client, Background, Stopped
    <2>8. QED
      BY <1>1, <2>7 DEF ActivatingNext
  <1>4. QED
    BY <1>2, <1>3

(* An activation whose own session gives its place up is under way, or has *)
(* begun its scene.                                                        *)
LEMMA ActivationIsQuiet ==
  ASSUME IInv, SessionsMove, NEW j \in PreparedId,
         ActivateDeferred(j) \/ ActivateSave(j)
  PROVE  Begins(PreparedFor[j]) \/ ActivatingNext(PreparedFor[j])
  <1>1. j \in JobId /\ PreparedFor[j] \in Session
    BY RegistryAssumption DEF JobId
  <1>2. CASE ActivateDeferred(j)
    <2>1. /\ ~jobs[j].retained
          /\ \E v \in Victims(jobs) :
               InsertPrepared(Evicted(jobs, v), Unpointed(jobs, v), j, TRUE)
      BY <1>2 DEF ActivateDeferred, Activatable
    <2>2. PICK v \in Victims(jobs) :
            InsertPrepared(Evicted(jobs, v), Unpointed(jobs, v), j, TRUE)
      BY <2>1
    <2>3. DOMAIN Unpointed(jobs, v) = Session
      BY DEF Unpointed
    <2>4. \A defer \in BOOLEAN :
            InsertPrepared(Evicted(jobs, v), Unpointed(jobs, v), j, defer) =>
              pointer'[PreparedFor[j]].job = j
      BY <2>3, InsertPoints
    <2>5. pointer'[PreparedFor[j]].job = j
      BY <2>2, <2>4
    <2>6. QED
      BY <1>1, <2>1, <2>5, ArrivalBegins
  <1>3. CASE ActivateSave(j)
    BY <1>3 DEF ActivateSave, ActivatingNext
  <1>4. QED
    BY <1>2, <1>3

-----------------------------------------------------------------------------
(* The steps.                                                              *)

\* what the streams' steps rest on
RegistryMoves ==
  /\ IInv' /\ RecordsFit' /\ PointersFit'
  /\ RecordsMove /\ SessionsMove

LEMMA StepsAreTheRegistrys ==
  ASSUME [StreamNext]_streamVars
  PROVE  [Next]_vars
  <1>1. ClientStep => UNCHANGED vars
    BY DEF ClientStep, Subscribe, Receive, Unsubscribe, SubscribeSession, ReceiveEvent,
           UnsubscribeSession, SetPlanner
  <1>2. RegistryStep => Next
    BY DEF RegistryStep, Next, Client, Background, JobId
  <1>3. QED
    BY <1>1, <1>2 DEF StreamNext, streamVars

LEMMA RegistryGoesOn ==
  ASSUME IInv, RecordsFit, PointersFit, [Next]_vars
  PROVE  RegistryMoves
  <1>1. IInv' /\ RecordsMove /\ SessionsMove
    BY NextKeepsIInv, StepsMoveRecords, StepsMove
  <1>2. QED
    BY <1>1, RecordsStayFit, PointersStayFit DEF RegistryMoves

(* Followers and watchers go along with a step of the registry.            *)
LEMMA FanOutKeeps ==
  ASSUME IInv, StreamTypeOK, RecordsFit, PointersFit, FeedsFit, WatchesFit,
         RegistryMoves, NEW quiet, FanOut(quiet),
         quiet \in Session => Begins(quiet) \/ ActivatingNext(quiet),
         \A s \in Session : Activating(s) => Begins(s) \/ ActivatingNext(s)
  PROVE  StreamTypeOK' /\ FeedsFit' /\ WatchesFit'
  <1>1. /\ feed' = [c \in JobClient |-> FeedAfter(feed[c])]
        /\ watch' = [c \in SessionClient |-> WatchAfter(watch[c], quiet)]
        /\ planner' = planner
    BY DEF FanOut
  <1>2. ASSUME NEW c \in JobClient
        PROVE  /\ FeedAfter(feed[c]) \in Feed
               /\ FeedAfter(feed[c]).state = "open" =>
                    /\ FeedAfter(feed[c]).job \in Retained(jobs')
                    /\ NewestRevision(FeedAfter(feed[c])) =
                         jobs'[FeedAfter(feed[c]).job].revision
                    /\ Rising(FeedAfter(feed[c]))
    <2>1. feed[c] \in Feed /\ FeedFits(feed[c])
      BY DEF StreamTypeOK, FeedsFit, FeedFits
    <2>2. CASE feed[c].state = "open"
      BY <2>1, <2>2, FollowersGoAlong DEF RegistryMoves
    <2>3. CASE feed[c].state # "open"
      <3>1. FeedAfter(feed[c]) = feed[c]
        BY <2>3 DEF FeedAfter
      <3>2. QED
        BY <2>1, <2>3, <3>1
    <2>4. QED
      BY <2>2, <2>3
  <1>3. ASSUME NEW c \in SessionClient
        PROVE  WatchAfter(watch[c], quiet) \in Watch /\ WatchWillFit(WatchAfter(watch[c], quiet))
    <2>1. watch[c] \in Watch /\ WatchFits(watch[c])
      BY DEF StreamTypeOK, WatchesFit, WatchFits
    <2>2. CASE watch[c].state = "open"
      <3> DEFINE s == watch[c].session
      <3>1. s \in Session
        BY <2>1, <2>2 DEF WatchFits
      <3>2. s = quiet => Begins(s) \/ ActivatingNext(quiet)
        BY <3>1
      <3>3. Activating(s) => Begins(s) \/ ActivatingNext(s)
        BY <3>1
      <3>4. QED
        BY <1>1, <2>1, <2>2, <3>2, <3>3, WatchersGoAlong DEF RegistryMoves
    <2>3. CASE watch[c].state # "open"
      <3>1. WatchAfter(watch[c], quiet) = watch[c]
        BY <2>3 DEF WatchAfter
      <3>2. QED
        BY <2>1, <2>3, <3>1 DEF WatchWillFit
    <2>4. QED
      BY <2>2, <2>3
  <1>4. StreamTypeOK'
    BY <1>1, <1>2, <1>3 DEF StreamTypeOK
  <1>5. FeedsFit'
    BY <1>1, <1>2 DEF FeedsFit, NewestRevision, Rising
  <1>6. WatchesFit'
    BY <1>1, <1>3 DEF WatchesFit, WatchWillFit, Activating, ActivatingNext, Behind
  <1>7. QED
    BY <1>4, <1>5, <1>6

(* What a watcher reads moves from the queue to the hand.                  *)
LEMMA ReadingChains ==
  ASSUME NEW w \in Watch, w.queue # <<>>, Chained(w)
  PROVE  LET g == [w EXCEPT !.got = Head(w.queue), !.queue = Tail(w.queue)]
         IN /\ Chained(g)
            /\ Seen(g) \subseteq Seen(w)
            /\ NewestEvent(g) = NewestEvent(w)
  <1> DEFINE q == w.queue
             h == Head(q)
             t == Tail(q)
             g == [w EXCEPT !.got = h, !.queue = t]
  <1>1. q \in Seq(Event)
    BY DEF Watch
  <1>2. /\ h \in Event /\ h = q[1] /\ 1 \in DOMAIN q
        /\ t \in Seq(Event)
        /\ \A i \in DOMAIN t : t[i] = q[i + 1] /\ i + 1 \in DOMAIN q
        /\ t # <<>> => Newest(t) = Newest(q)
        /\ t = <<>> => Newest(q) = h
    BY <1>1, HeadAndTail
  <1> HIDE DEF h, t
  <1>3. g.got = h /\ g.queue = t
    BY DEF Watch
  <1> HIDE DEF g
  <1>4. \A i, k \in DOMAIN q : i < k => Before(q[i], q[k])
    BY DEF Chained
  <1>5. DOMAIN t \in SUBSET Nat /\ \A i \in DOMAIN t : i >= 1
    BY <1>2
  <1>6. \A k \in DOMAIN t : Before(h, t[k]) /\ t[k] \in Seen(w)
    <2> SUFFICES ASSUME NEW k \in DOMAIN t PROVE Before(h, t[k]) /\ t[k] \in Seen(w)
      OBVIOUS
    <2> DEFINE b == k + 1
    <2>1. b \in DOMAIN q /\ t[k] = q[b] /\ 1 < b
      BY <1>2, <1>5
    <2> HIDE DEF b
    <2>2. QED
      BY <1>2, <1>4, <2>1 DEF Seen
  <1>7. \A i, k \in DOMAIN t : i < k => Before(t[i], t[k])
    <2> SUFFICES ASSUME NEW i \in DOMAIN t, NEW k \in DOMAIN t, i < k
                 PROVE  Before(t[i], t[k])
      OBVIOUS
    <2> DEFINE a == i + 1
               b == k + 1
    <2>1. /\ a \in DOMAIN q /\ t[i] = q[a] /\ b \in DOMAIN q /\ t[k] = q[b]
          /\ a < b
      BY <1>2, <1>5
    <2> HIDE DEF a, b
    <2>2. QED
      BY <1>4, <2>1
  <1>8. h \in Seen(w)
    BY <1>2 DEF Seen
  <1>9. NewestEvent(g) = NewestEvent(w)
    BY <1>2, <1>3 DEF NewestEvent
  <1>10. Chained(g) /\ Seen(g) \subseteq Seen(w)
    BY <1>3, <1>6, <1>7, <1>8 DEF Chained, Seen
  <1>11. QED
    BY <1>9, <1>10 DEF g, h, t

LEMMA NoWatchType == NoWatch \in Watch /\ NoWatch.state = "idle" /\ ClosedEvent \in Event
  <1>1. ClosedEvent \in Event /\ <<>> \in Seq(Event)
    BY DEF ClosedEvent, Event
  <1>2. QED
    BY <1>1 DEF NoWatch, Watch

(* One watcher changes, the registry does not.                             *)
LEMMA OneWatcher ==
  ASSUME StreamTypeOK, WatchesFit, UNCHANGED <<vars, planner>>, NEW c \in SessionClient,
         NEW g \in Watch, WatchFits(g), watch' = [watch EXCEPT ![c] = g]
  PROVE  watch' \in [SessionClient -> Watch] /\ WatchesFit'
  <1>1. \A x \in SessionClient : WatchFits(watch[x])
    BY DEF WatchesFit, WatchFits
  <1>2. watch' \in [SessionClient -> Watch] /\ \A x \in SessionClient : WatchFits(watch'[x])
    BY <1>1 DEF StreamTypeOK
  <1>3. UNCHANGED <<jobs, pointer, planner, lock, sequence>>
    BY DEF vars
  <1>4. QED
    BY <1>2, <1>3
       DEF WatchesFit, WatchFits, NewestEvent, Activating, Seen, Behind, Chained

(* Watching a session, reading its events and hanging up.                  *)
LEMMA WatchersRead ==
  ASSUME IInv, StreamTypeOK, PointersFit, WatchesFit, NEW c \in SessionClient,
         \/ \E s \in Session : SubscribeSession(c, s)
         \/ ReceiveEvent(c)
         \/ UnsubscribeSession(c)
  PROVE  watch' \in [SessionClient -> Watch] /\ WatchesFit'
  <1> DEFINE w == watch[c]
  <1>1. UNCHANGED <<vars, planner>>
    BY DEF SubscribeSession, ReceiveEvent, UnsubscribeSession
  <1>2. w \in Watch /\ WatchFits(w)
    BY DEF StreamTypeOK, WatchesFit, WatchFits
  <1>3. ASSUME NEW s \in Session, SubscribeSession(c, s)
        PROVE  watch' \in [SessionClient -> Watch] /\ WatchesFit'
    <2> DEFINE e == EventOf(jobs, pointer, planner, s)
               g == [NoWatch EXCEPT !.state = "open", !.session = s, !.queue = <<e>>]
    <2>1. watch' = [watch EXCEPT ![c] = g]
      BY <1>3 DEF SubscribeSession
    <2>2. e \in Event /\ e.rev = pointer[s].rev
      <3>1. /\ jobs \in [JobId -> Job] /\ planner \in [Session -> Nat]
            /\ pointer \in [Session -> [rev : Nat, job : JobId \cup {NoJob}]]
        BY DEF IInv, TypeOK, StreamTypeOK
      <3>2. QED
        BY <3>1, EventFacts, Zenon
    <2>3. e.rev \in Nat /\ e.revision \in Nat /\ e.rev <= sequence /\ sequence \in Nat
      BY <2>2 DEF Event, PointersFit, IInv, TypeOK
    <2> HIDE DEF e
    <2>4. /\ g \in Watch /\ g.session = s /\ g.queue = <<e>> /\ g.got = ClosedEvent
      <3>1. <<e>> \in Seq(Event)
        BY <2>2
      <3>2. QED
        BY <3>1, NoWatchType DEF NoWatch, Watch
    <2> HIDE DEF g
    <2>5. <<e>> # <<>> /\ DOMAIN <<e>> = {1} /\ <<e>>[1] = e /\ Newest(<<e>>) = e
      BY DEF Newest
    <2>6. ClosedEvent.rev = 0
      BY DEF ClosedEvent
    <2>7. Before(ClosedEvent, e) /\ Before(e, e)
      BY <2>3, <2>6 DEF Before
    <2>8. Seen(g) = {ClosedEvent, e} /\ NewestEvent(g) = e
      BY <2>4, <2>5 DEF Seen, NewestEvent
    <2>9. Chained(g)
      BY <2>4, <2>5, <2>7 DEF Chained
    <2>10. \A a \in Seen(g) : Behind(a, s)
      BY <2>3, <2>6, <2>7, <2>8 DEF Behind, e
    <2>11. WatchFits(g)
      BY <2>4, <2>8, <2>9, <2>10 DEF WatchFits, e
    <2>12. QED
      BY <1>1, <2>1, <2>4, <2>11, OneWatcher
  <1>4. CASE ReceiveEvent(c)
    <2> DEFINE g == [w EXCEPT !.got = Head(w.queue), !.queue = Tail(w.queue)]
    <2>1. CASE w.state = "closed" /\ Len(w.queue) = 1
      <3>1. watch' = [watch EXCEPT ![c] = NoWatch]
        BY <1>4, <2>1 DEF ReceiveEvent
      <3>2. QED
        BY <1>1, <3>1, NoWatchType, OneWatcher DEF WatchFits
    <2>2. CASE ~(w.state = "closed" /\ Len(w.queue) = 1)
      <3>1. watch' = [watch EXCEPT ![c] = g] /\ w.queue # <<>>
        BY <1>4, <2>2 DEF ReceiveEvent
      <3>2. Head(w.queue) \in Event /\ Tail(w.queue) \in Seq(Event)
        <4>1. w.queue \in Seq(Event)
          BY <1>2 DEF Watch
        <4>2. QED
          BY <3>1, <4>1, HeadAndTail
      <3>3. g \in Watch /\ g.state = w.state /\ g.session = w.session
        BY <1>2, <3>2 DEF Watch
      <3>4. WatchFits(g)
        <4>1. CASE w.state = "open"
          <5>1. Chained(g) /\ Seen(g) \subseteq Seen(w) /\ NewestEvent(g) = NewestEvent(w)
            BY <1>2, <3>1, <4>1, ReadingChains DEF WatchFits
          <5> HIDE DEF g
          <5>2. QED
            BY <1>2, <3>3, <4>1, <5>1 DEF WatchFits
        <4>2. CASE w.state # "open"
          BY <3>3, <4>2 DEF WatchFits
        <4>3. QED
          BY <4>1, <4>2
      <3> HIDE DEF g
      <3>5. QED
        BY <1>1, <3>1, <3>3, <3>4, OneWatcher
    <2>3. QED
      BY <2>1, <2>2
  <1>5. CASE UnsubscribeSession(c)
    <2>1. watch' = [watch EXCEPT ![c] = NoWatch]
      BY <1>5 DEF UnsubscribeSession
    <2>2. QED
      BY <1>1, <2>1, NoWatchType, OneWatcher DEF WatchFits
  <1>6. QED
    BY <1>3, <1>4, <1>5

(* A change of the planner's flag is told to every watcher of the session. *)
LEMMA PlannerIsTold ==
  ASSUME IInv, StreamTypeOK, PointersFit, WatchesFit,
         NEW s \in Session, NEW active \in BOOLEAN, SetPlanner(s, active)
  PROVE  /\ planner' \in [Session -> Nat]
         /\ watch' \in [SessionClient -> Watch]
         /\ WatchesFit'
  <1>1. /\ UNCHANGED vars /\ Unlocked
        /\ UNCHANGED <<jobs, pointer, lock, sequence>>
    BY DEF SetPlanner, vars
  <1>2. /\ planner' \in [Session -> Nat]
        /\ \A t \in Session : t # s => planner'[t] = planner[t]
    <2>1. planner \in [Session -> Nat]
      BY DEF StreamTypeOK
    <2>2. CASE active
      BY <2>1, <2>2 DEF SetPlanner
    <2>3. CASE ~active
      <3>1. planner' = [planner EXCEPT ![s] = @ - 1] /\ planner[s] > 0
        BY <2>3 DEF SetPlanner
      <3>2. planner[s] - 1 \in Nat
        BY <2>1, <3>1
      <3>3. QED
        BY <2>1, <3>1, <3>2
    <2>4. QED
      BY <2>2, <2>3
  <1>3. ASSUME NEW t \in Session
        PROVE  LET n == EventOf(jobs, pointer, planner', t)
                   e == EventOf(jobs, pointer, planner, t)
               IN /\ n \in Event
                  /\ n.rev = e.rev /\ n.job = e.job /\ n.revision = e.revision
                  /\ e.rev = 0 \/ e.job # NoJob
                  /\ (planner'[t] > 0) = (planner[t] > 0) => n = e
    <2>1. /\ jobs \in [JobId -> Job]
          /\ pointer \in [Session -> [rev : Nat, job : JobId \cup {NoJob}]]
      BY DEF IInv, TypeOK
    <2>2. EventOf(jobs, pointer, planner', t) \in Event
      BY <1>2, <2>1, EventFacts
    <2>3. pointer[t].job = NoJob => pointer[t].rev = 0
      BY DEF PointersFit
    <2>4. QED
      BY <2>2, <2>3 DEF EventOf
  <1>4. ASSUME NEW c \in SessionClient
        PROVE  watch'[c] \in Watch /\ WatchWillFit(watch'[c])
    <2> DEFINE w == watch[c]
               t == w.session
               n == EventOf(jobs, pointer, planner', t)
               g == [w EXCEPT !.queue = Put(@, n)]
    <2>1. w \in Watch /\ WatchFits(w)
      BY DEF StreamTypeOK, WatchesFit, WatchFits
    <2>2. watch'[c] = IF w.state = "open" /\ t = s /\ (planner'[s] > 0) # (planner[s] > 0)
                      THEN [w EXCEPT !.queue = Put(@, EventOf(jobs, pointer, planner', s))]
                      ELSE w
      BY DEF SetPlanner
    <2>3. CASE w.state # "open"
      BY <2>1, <2>2, <2>3 DEF WatchWillFit
    <2>4. CASE w.state = "open"
      <3>1. /\ t \in Session /\ NewestEvent(w) = EventOf(jobs, pointer, planner, t)
            /\ \A a \in Seen(w) : Behind(a, t)
            /\ Chained(w)
        BY <1>1, <2>1, <2>4 DEF WatchFits, Activating, Unlocked
      <3>2. /\ n \in Event
            /\ n.rev = EventOf(jobs, pointer, planner, t).rev
            /\ n.job = EventOf(jobs, pointer, planner, t).job
            /\ n.revision = EventOf(jobs, pointer, planner, t).revision
            /\ (planner'[t] > 0) = (planner[t] > 0) => n = EventOf(jobs, pointer, planner, t)
        BY <1>3, <3>1
      <3>3. \A a \in Seen(w) : a.rev <= sequence /\ Before(a, n)
        BY <3>1, <3>2 DEF Behind, Before
      <3>4. n.rev <= sequence /\ Before(n, n)
        <4>1. n.rev = pointer[t].rev /\ n.rev \in Nat /\ n.revision \in Nat
          BY <3>2 DEF EventOf, Event
        <4>2. pointer[t].rev <= sequence
          BY <3>1 DEF PointersFit, IInv, TypeOK
        <4>3. QED
          BY <4>1, <4>2 DEF Before
      <3>5. CASE (planner'[t] > 0) = (planner[t] > 0)
        <4>1. watch'[c] = w
          BY <2>2, <3>5
        <4>2. NewestEvent(w) = n
          BY <3>1, <3>2, <3>5
        <4>3. QED
          BY <1>1, <2>1, <3>1, <3>3, <4>1, <4>2 DEF WatchWillFit
      <3>6. CASE t = s /\ (planner'[t] > 0) # (planner[t] > 0)
        <4>1. watch'[c] = g
          BY <2>2, <2>4, <3>6
        <4> HIDE DEF n
        <4>2. /\ g \in Watch /\ g.session = t /\ Chained(g)
              /\ Seen(g) \subseteq Seen(w) \cup {n}
              /\ NewestEvent(g) = n
          BY <2>1, <3>1, <3>2, <3>3, PutChains
        <4> HIDE DEF g
        <4>3. \A a \in Seen(g) : a.rev <= sequence' /\ Before(a, n)
          BY <1>1, <3>3, <3>4, <4>2
        <4>4. WatchWillFit(g)
          BY <1>1, <3>1, <4>2, <4>3 DEF WatchWillFit, n
        <4>5. QED
          BY <4>1, <4>2, <4>4
      <3>7. QED
        BY <1>2, <3>1, <3>5, <3>6
    <2>5. QED
      BY <2>3, <2>4
  <1>5. watch' \in [SessionClient -> Watch]
    <2>1. watch' = [c \in SessionClient |-> watch'[c]]
      BY DEF SetPlanner
    <2>2. QED
      BY <1>4, <2>1
  <1>6. WatchesFit'
    BY <1>4 DEF WatchesFit, WatchWillFit, Activating, ActivatingNext, Behind
  <1>7. QED
    BY <1>2, <1>5, <1>6

(* The streams that close leave no follower and no watcher to be told.     *)
LEMMA ClosingKeeps ==
  ASSUME StreamTypeOK, CloseStreams
  PROVE  StreamTypeOK' /\ FeedsFit' /\ WatchesFit'
  <1>1. Closed \in Item /\ ClosedEvent \in Event
    BY NoWatchType DEF Closed, Item
  <1>2. ASSUME NEW c \in JobClient
        PROVE  feed'[c] \in Feed /\ feed'[c].state # "open"
    <2>1. feed[c] \in Feed /\ feed[c].queue \in Seq(Item)
      BY DEF StreamTypeOK, Feed
    <2>2. Put(feed[c].queue, Closed) \in Seq(Item)
      BY <1>1, <2>1, PutShape
    <2>3. feed'[c] = IF feed[c].state # "open" THEN feed[c]
                     ELSE [feed[c] EXCEPT !.state = "closed",
                                          !.queue = Put(feed[c].queue, Closed)]
      BY DEF CloseStreams
    <2>4. \A p \in Seq(Item) :
            LET g == [feed[c] EXCEPT !.state = "closed", !.queue = p]
            IN g \in Feed /\ g.state = "closed"
      BY <2>1 DEF Feed
    <2>5. QED
      BY <2>1, <2>2, <2>3, <2>4
  <1>3. ASSUME NEW c \in SessionClient
        PROVE  watch'[c] \in Watch /\ watch'[c].state # "open"
    <2>1. watch[c] \in Watch /\ watch[c].queue \in Seq(Event)
      BY DEF StreamTypeOK, Watch
    <2>2. Put(watch[c].queue, ClosedEvent) \in Seq(Event)
      BY <1>1, <2>1, PutShape
    <2>3. watch'[c] = IF watch[c].state # "open" THEN watch[c]
                      ELSE [watch[c] EXCEPT !.state = "closed",
                                            !.queue = Put(watch[c].queue, ClosedEvent)]
      BY DEF CloseStreams
    <2>4. QED
      BY <2>1, <2>2, <2>3 DEF Watch
  <1>4. StreamTypeOK'
    <2>1. /\ feed' = [c \in JobClient |-> feed'[c]]
          /\ watch' = [c \in SessionClient |-> watch'[c]]
          /\ planner' \in [Session -> Nat]
      BY DEF CloseStreams
    <2>2. QED
      BY <1>2, <1>3, <2>1 DEF StreamTypeOK
  <1>5. QED
    BY <1>2, <1>3, <1>4 DEF FeedsFit, WatchesFit

-----------------------------------------------------------------------------
(* Initially nobody follows anything.                                      *)
LEMMA InitStreamInv == StreamInit => StreamInv
  <1> SUFFICES ASSUME StreamInit PROVE StreamInv
    OBVIOUS
  <1>1. IInv
    BY InitIInv DEF StreamInit
  <1>2. <<>> \in Seq(Item) /\ Closed \in Item /\ NoFeed.state = "idle"
    BY DEF Closed, Item, NoFeed
  <1>3. NoFeed \in Feed
    BY <1>2 DEF NoFeed, Feed
  <1>4. StreamTypeOK
    BY <1>3, NoWatchType DEF StreamInit, StreamTypeOK
  <1>5. RecordsFit
    BY AbsentType DEF StreamInit, Init, RecordsFit, Retained
  <1>6. PointersFit
    BY DEF StreamInit, Init, PointersFit, NoPointer
  <1>7. FeedsFit /\ WatchesFit
    BY <1>2, NoWatchType DEF StreamInit, FeedsFit, WatchesFit
  <1>8. QED
    BY <1>1, <1>4, <1>5, <1>6, <1>7 DEF StreamInv

(* Every step keeps the invariant.                                         *)
LEMMA StreamStepKeeps ==
  ASSUME StreamInv, [StreamNext]_streamVars
  PROVE  StreamInv'
  <1>1. /\ IInv /\ StreamTypeOK /\ RecordsFit /\ PointersFit /\ FeedsFit /\ WatchesFit
        /\ [Next]_vars
    BY StepsAreTheRegistrys DEF StreamInv
  <1>2. RegistryMoves
    BY <1>1, RegistryGoesOn
  <1>3. \A s \in Session : Activating(s) => Begins(s) \/ ActivatingNext(s)
    BY <1>1, <1>2, ActivationGoesOn DEF RegistryMoves
  <1>4. SUFFICES StreamTypeOK' /\ FeedsFit' /\ WatchesFit'
    BY <1>2 DEF StreamInv, RegistryMoves
  <1>5. ASSUME FanOut(NoSession) PROVE StreamTypeOK' /\ FeedsFit' /\ WatchesFit'
    BY <1>1, <1>2, <1>3, <1>5, FanOutKeeps, RegistryAssumption
  <1>6. ASSUME NEW j \in PreparedId, ActivateDeferred(j) \/ ActivateSave(j),
               FanOut(PreparedFor[j])
        PROVE  StreamTypeOK' /\ FeedsFit' /\ WatchesFit'
    <2>1. Begins(PreparedFor[j]) \/ ActivatingNext(PreparedFor[j])
      BY <1>1, <1>2, <1>6, ActivationIsQuiet DEF RegistryMoves
    <2>2. QED
      BY <1>1, <1>2, <1>3, <1>6, <2>1, FanOutKeeps
  <1>7. ASSUME UNCHANGED streamVars PROVE StreamTypeOK' /\ FeedsFit' /\ WatchesFit'
    <2>1. UNCHANGED <<jobs, pointer, sequence, lock, feed, watch, planner>>
      BY <1>7 DEF streamVars, vars
    <2>2. QED
      BY <1>1, <2>1
         DEF StreamTypeOK, FeedsFit, WatchesFit, NewestRevision, Rising, NewestEvent,
             Activating, Seen, Behind, Chained, Retained
  <1>8. ASSUME RegistryStep PROVE StreamTypeOK' /\ FeedsFit' /\ WatchesFit'
    <2>1. \/ FanOut(NoSession)
          \/ \E j \in PreparedId :
               (ActivateDeferred(j) \/ ActivateSave(j)) /\ FanOut(PreparedFor[j])
          \/ CloseStreams
          \/ UNCHANGED streamVars
      BY <1>8 DEF RegistryStep, Stopped, streamVars
    <2>2. QED
      BY <1>1, <1>5, <1>6, <1>7, <2>1, ClosingKeeps
  <1>9. ASSUME NEW c \in JobClient,
               \/ \E j \in JobId, after \in 0..MaxAfter : Subscribe(c, j, after)
               \/ Receive(c)
               \/ Unsubscribe(c)
        PROVE  StreamTypeOK' /\ FeedsFit' /\ WatchesFit'
    <2>1. UNCHANGED <<vars, watch, planner>>
      BY <1>9 DEF Subscribe, Receive, Unsubscribe
    <2>2. UNCHANGED <<jobs, pointer, sequence, lock, watch, planner>>
      BY <2>1 DEF vars
    <2>3. feed' \in [JobClient -> Feed] /\ FeedsFit'
      BY <1>1, <1>9, FollowersRead
    <2>4. WatchesFit' /\ StreamTypeOK'
      BY <1>1, <2>2, <2>3
         DEF StreamTypeOK, WatchesFit, NewestEvent, Activating, Seen, Behind, Chained
    <2>5. QED
      BY <2>3, <2>4
  <1>10. UNCHANGED <<vars, feed>> => FeedsFit'
    BY <1>1 DEF FeedsFit, NewestRevision, Rising, Retained, vars
  <1>11. ASSUME NEW c \in SessionClient,
               \/ \E s \in Session : SubscribeSession(c, s)
               \/ ReceiveEvent(c)
               \/ UnsubscribeSession(c)
        PROVE  StreamTypeOK' /\ FeedsFit' /\ WatchesFit'
    <2>1. UNCHANGED <<vars, feed, planner>>
      BY <1>11 DEF SubscribeSession, ReceiveEvent, UnsubscribeSession
    <2>2. watch' \in [SessionClient -> Watch] /\ WatchesFit'
      BY <1>1, <1>11, WatchersRead
    <2>3. QED
      BY <1>1, <1>10, <2>1, <2>2 DEF StreamTypeOK
  <1>12. ASSUME NEW s \in Session, NEW active \in BOOLEAN, SetPlanner(s, active)
        PROVE  StreamTypeOK' /\ FeedsFit' /\ WatchesFit'
    <2>1. UNCHANGED <<vars, feed>>
      BY <1>12 DEF SetPlanner
    <2>2. QED
      BY <1>1, <1>10, <1>12, <2>1, PlannerIsTold DEF StreamTypeOK
  <1>13. QED
    BY <1>7, <1>8, <1>9, <1>11, <1>12 DEF StreamNext, ClientStep

(* The streams' invariant holds for any clients and queue sizes.           *)
THEOREM StreamsInductive == StreamSpec => []StreamInv
  <1>1. StreamInv /\ [StreamNext]_streamVars => StreamInv'
    BY StreamStepKeeps
  <1>2. QED
    BY InitStreamInv, <1>1, PTL DEF StreamSpec

(* An item in front of a queue.                                            *)
LEMMA InFront ==
  ASSUME NEW T, NEW x \in T, NEW q \in Seq(T)
  PROVE  LET r == <<x>> \o q
         IN /\ DOMAIN r = 1..(Len(q) + 1) /\ Len(r) = Len(q) + 1 /\ Len(q) \in Nat
            /\ DOMAIN q = 1..Len(q)
            /\ r[1] = x
            /\ \A i \in 2..(Len(q) + 1) : r[i] = q[i - 1] /\ i - 1 \in DOMAIN q
  <1>1. <<x>> \in Seq(T) /\ Len(<<x>>) = 1 /\ <<x>>[1] = x
    OBVIOUS
  <1>2. Len(q) \in Nat /\ DOMAIN q = 1..Len(q)
    OBVIOUS
  <1>3. QED
    BY <1>1, <1>2

(* A follower of a job has read, and has queued, its snapshots in order    *)
(* and up to the current one, however slowly it reads and whatever a full  *)
(* queue drops: for any number of clients, jobs and any size of queue.     *)
THEOREM FeedsFollow == StreamSpec => []FeedsFollowTheirJob
  <1>1. StreamInv => FeedsFollowTheirJob
    <2> SUFFICES ASSUME StreamInv, NEW c \in JobClient, feed[c].state = "open"
                 PROVE  LET read == <<feed[c].got>> \o feed[c].queue
                        IN /\ NewestRevision(feed[c]) = jobs[feed[c].job].revision
                           /\ \A i, k \in DOMAIN read :
                                i < k => read[i].revision < read[k].revision
      BY DEF FeedsFollowTheirJob
    <2> DEFINE q == feed[c].queue
               g == feed[c].got
               read == <<g>> \o q
    <2>1. /\ NewestRevision(feed[c]) = jobs[feed[c].job].revision
          /\ \A i, k \in DOMAIN q : i < k => q[i].revision < q[k].revision
          /\ \A k \in DOMAIN q : g.revision < q[k].revision
      BY DEF StreamInv, FeedsFit, Rising
    <2>2. g \in Item /\ q \in Seq(Item)
      BY DEF StreamInv, StreamTypeOK, Feed
    <2>3. /\ DOMAIN read = 1..(Len(q) + 1) /\ Len(q) \in Nat
          /\ read[1] = g
          /\ \A i \in 2..(Len(q) + 1) : read[i] = q[i - 1] /\ i - 1 \in DOMAIN q
      BY <2>2, InFront
    <2> HIDE DEF read, q, g
    <2>4. ASSUME NEW i \in DOMAIN read, NEW k \in DOMAIN read, i < k
          PROVE  read[i].revision < read[k].revision
      <3> DEFINE b == k - 1
      <3>1. read[k] = q[b] /\ b \in DOMAIN q
        BY <2>3, <2>4
      <3>2. CASE i = 1
        <4> HIDE DEF b
        <4>1. QED
          BY <2>1, <2>3, <3>1, <3>2
      <3>3. CASE i # 1
        <4> DEFINE a == i - 1
        <4>1. read[i] = q[a] /\ a \in DOMAIN q /\ a < b
          BY <2>3, <2>4, <3>3
        <4> HIDE DEF a, b
        <4>2. QED
          BY <2>1, <3>1, <4>1
      <3>4. QED
        BY <3>2, <3>3
    <2>5. QED
      BY <2>1, <2>4 DEF read, q, g
  <1>2. QED
    BY StreamsInductive, <1>1, PTL

(* A watcher of a session sees its scenes and their snapshots in order and *)
(* ends up where the session is, for any sessions, watchers and requests   *)
(* and any size of queue: it lags only while an activation saves its pack. *)
THEOREM WatchersFollow == StreamSpec => []WatchersFollowTheirSession
  <1>1. StreamInv => WatchersFollowTheirSession
    <2> SUFFICES ASSUME StreamInv, NEW c \in SessionClient, watch[c].state = "open"
                 PROVE  LET seen == <<watch[c].got>> \o watch[c].queue
                        IN /\ \/ NewestEvent(watch[c])
                                   = EventOf(jobs, pointer, planner, watch[c].session)
                              \/ Activating(watch[c].session)
                           /\ \A i \in 1..(Len(seen) - 1) : Before(seen[i], seen[i + 1])
      BY DEF WatchersFollowTheirSession
    <2> DEFINE q == watch[c].queue
               g == watch[c].got
               seen == <<g>> \o q
    <2>1. /\ \/ NewestEvent(watch[c]) = EventOf(jobs, pointer, planner, watch[c].session)
             \/ Activating(watch[c].session)
          /\ \A i, k \in DOMAIN q : i < k => Before(q[i], q[k])
          /\ \A k \in DOMAIN q : Before(g, q[k])
      BY DEF StreamInv, WatchesFit, Chained
    <2>2. g \in Event /\ q \in Seq(Event)
      BY DEF StreamInv, StreamTypeOK, Watch
    <2>3. /\ Len(seen) = Len(q) + 1 /\ Len(q) \in Nat
          /\ seen[1] = g
          /\ \A i \in 2..(Len(q) + 1) : seen[i] = q[i - 1] /\ i - 1 \in DOMAIN q
      BY <2>2, InFront
    <2> HIDE DEF seen, q, g
    <2>4. ASSUME NEW i \in 1..(Len(seen) - 1)
          PROVE  Before(seen[i], seen[i + 1])
      <3>1. i + 1 \in 2..(Len(q) + 1) /\ (i + 1) - 1 = i
        BY <2>3
      <3>2. seen[i + 1] = q[i] /\ i \in DOMAIN q
        BY <2>3, <3>1
      <3>3. CASE i = 1
        BY <2>1, <2>3, <3>2, <3>3
      <3>4. CASE i # 1
        <4> DEFINE a == i - 1
        <4>1. seen[i] = q[a] /\ a \in DOMAIN q /\ a < i
          BY <2>3, <3>4
        <4> HIDE DEF a
        <4>2. QED
          BY <2>1, <3>2, <4>1
      <3>5. QED
        BY <3>3, <3>4
    <2>5. QED
      BY <2>1, <2>4 DEF seen, q, g
  <1>2. QED
    BY StreamsInductive, <1>1, PTL
=============================================================================
