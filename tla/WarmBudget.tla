---------------------------- MODULE WarmBudget ----------------------------
(***************************************************************************)
(* WarmModalSceneProvider and the live-scene adapter above it              *)
(* (finite_modal_provider.py): every paid GPU call is sent under a         *)
(* reservation of the ledger, either its own, one prepared while the scene *)
(* is planned, or that of an explicit warm session which later calls       *)
(* share.  The ledger is changed by worker threads (asyncio.to_thread),    *)
(* which go on when the task that awaits them is cancelled.  A caller is a *)
(* live-scene job, which makes several calls and then cleans up, or a user *)
(* who prewarms.                                                           *)
(***************************************************************************)
EXTENDS ModalLedger

CONSTANTS Job,             \* job ids, which are scene ids; none is used twice
          User,            \* requests to prewarm
          Prewarm,         \* the ids they may ask for
          Other,           \* experiments of other processes on the ledger
          CallCeiling,     \* worst_case_gpu_usd of one call
          SessionCeiling,  \* WARM_FAST_SESSION_CEILING_USD
          ProviderCap,     \* session_gpu_cap_usd
          Reports,         \* what the workspace may report as billed
          Costs,           \* what calls may be estimated to have cost
          EnablePreview, EnableMotion, AutoPrewarm,
          MaxCrashes

ASSUME WarmAssumption ==
    /\ CallCeiling \in Nat /\ SessionCeiling \in Nat /\ ProviderCap \in Nat
    /\ Reports \subseteq Nat /\ Costs \subseteq Nat /\ MaxCrashes \in Nat
    /\ {EnablePreview, EnableMotion, AutoPrewarm} \subseteq BOOLEAN

VARIABLES ledger,    \* the ledger file
          workers,   \* threads on their way to the ledger
          holder,    \* who holds _operation_lock
          session,   \* _warm_session
          prepared,  \* _prepared_fast_authorizations, by experiment
          charged,   \* the three *_gpu_usd counters of the provider, added up
          op, pc,    \* what each caller does, and where it is
          rid,       \* the reservation it works with
          reply,     \* what its worker returned
          owed,      \* history: reservations a call was sent under, not settled
          crashes

memory == <<holder, session, prepared, charged>>
callers == <<op, pc, rid, reply>>
vars == <<ledger, workers, memory, callers, owed, crashes>>

Caller == Job \cup User
Nobody == "nobody"
NoExperiment == <<"none", Nobody>>
NoSession == [exp |-> NoExperiment, motion |-> FALSE, scene |-> Nobody,
              preview |-> Nobody, expired |-> FALSE]
Active == session # NoSession
Overdue == Active /\ session.expired

Experiment == {"session", "authorized", "preview", "render", "motion", "other", "none"}
                \X (Job \cup User \cup Prewarm \cup Other \cup {Nobody})

ASSUME NameAssumption == Nobody \notin Job \cup User /\ Job \cap User = {}

\* warm-session:, fast-authorization:<scene>, fast-authorization:<scene>-preview, ...
OwnExperiment(c) ==
    CASE op[c] = "prepare" -> <<"authorized", c>>
      [] op[c] \in {"preparePreview", "preview"} -> <<"preview", c>>
      [] op[c] = "fast" -> <<"render", c>>
      [] op[c] = "motion" -> <<"motion", c>>
PreparedFor(c) == IF op[c] \in {"preview", "dropPreview"} THEN <<"preview", c>>
                  ELSE IF op[c] \in {"fast", "dropPrepared"} THEN <<"authorized", c>>
                  ELSE NoExperiment
OnSession(c) == rid[c] = session.exp

Paying == {"prewarm", "prepare", "preparePreview", "preview", "fast", "motion"}
Expiring == {"status", "prewarm", "preview", "fast", "motion"}
Dropping == {"dropSession", "dropPrepared", "dropPreview"}

NextOp(c) ==
    CASE op[c] = "prewarm" -> IF c \in Job THEN "fast" ELSE "done"
      [] op[c] = "preparePreview" -> "preview"
      [] op[c] \in {"status", "prepare", "preview"} -> "fast"
      [] op[c] = "fast" -> IF EnableMotion THEN "motion" ELSE "dropSession"
      [] op[c] = "motion" -> "dropSession"
      [] op[c] = "dropSession" -> "dropPrepared"
      [] op[c] = "dropPrepared" -> "dropPreview"
      [] op[c] = "dropPreview" -> "done"

\* A preview fails open to the final render; any other failure ends the job,
\* whose clean-up forgets the session and releases what was prepared.
AfterFailure(c) ==
    IF c \in User \/ op[c] \in Dropping THEN "done"
    ELSE IF op[c] \in {"preparePreview", "preview"} THEN "fast"
    ELSE "dropSession"

Init == /\ ledger = EmptyLedger /\ workers = {} /\ holder = Nobody
        /\ session = NoSession /\ prepared = {} /\ charged = 0
        /\ op = [c \in Caller |-> "idle"] /\ pc = [c \in Caller |-> "idle"]
        /\ rid = [c \in Caller |-> NoExperiment]
        /\ reply = [c \in Caller |-> "none"]
        /\ owed = {} /\ crashes = 0

\* The caller leaves the lock, if it had it, and goes on with operation o.
GoOn(c, o) == /\ op' = [op EXCEPT ![c] = o]
              /\ pc' = [pc EXCEPT ![c] = IF o = "done" THEN "done" ELSE "waiting"]
              /\ rid' = [rid EXCEPT ![c] = IF o = "prewarm" THEN <<"session", c>>
                                           ELSE NoExperiment]
              /\ reply' = [reply EXCEPT ![c] = "none"]
              /\ holder' = IF holder = c THEN Nobody ELSE holder
Fail(c) == GoOn(c, AfterFailure(c))

\* The caller stays in its operation, at p, working with reservation e.
Stay(c, p, e) == /\ pc' = [pc EXCEPT ![c] = p]
                 /\ rid' = [rid EXCEPT ![c] = e]
                 /\ reply' = [reply EXCEPT ![c] = "none"]
                 /\ holder' = c
                 /\ UNCHANGED op
CostsUpTo(ceiling) == {cost \in Costs : cost <= ceiling}
Start(c, w) == workers' = workers \cup {w}
Worker(c, do, e, as, amount) ==
    [do |-> do, rid |-> e, as |-> as, amount |-> amount, for |-> c]

\* The lock is taken and no session is overdue, or the overdue one was settled.
Inside(c) == \/ pc[c] = "waiting" /\ holder = Nobody /\ ~Overdue
             \/ pc[c] = "entered"

(***************************************************************************)
(* A live-scene job.  The registry runs one paid job at a time.            *)
(***************************************************************************)
BeginJob(j) ==
    /\ op[j] = "idle" /\ \A i \in Job : op[i] \in {"idle", "done"}
    /\ \/ GoOn(j, "status")
       \/ EnablePreview /\ GoOn(j, "preparePreview")
    /\ UNCHANGED <<ledger, workers, session, prepared, charged, owed, crashes>>

\* _prepare_warm_renderer; likely_warm also depends on a clock of its own.
Status(c) ==
    /\ op[c] = "status" /\ Inside(c)
    /\ \/ Active /\ GoOn(c, "fast")
       \/ ~Active /\ GoOn(c, "prepare")
       \/ ~Active /\ AutoPrewarm /\ GoOn(c, "prewarm")
    /\ UNCHANGED <<ledger, workers, session, prepared, charged, owed, crashes>>

BeginUser(u) ==
    /\ op[u] = "idle"
    /\ op' = [op EXCEPT ![u] = "prewarm"] /\ pc' = [pc EXCEPT ![u] = "waiting"]
    /\ \E p \in Prewarm : rid' = [rid EXCEPT ![u] = <<"session", p>>]
    /\ UNCHANGED <<ledger, workers, memory, reply, owed, crashes>>

\* _require_ready and _require_new_output, before the lock is asked for
NotReady(c) ==
    /\ op[c] \in Paying /\ pc[c] = "waiting"
    /\ Fail(c)
    /\ UNCHANGED <<ledger, workers, session, prepared, charged, owed, crashes>>

(***************************************************************************)
(* _expire_warm_session_locked                                             *)
(***************************************************************************)
Tick == /\ Active /\ ~session.expired
        /\ session' = [session EXCEPT !.expired = TRUE]
        /\ UNCHANGED <<ledger, workers, holder, prepared, charged, callers, owed, crashes>>

StartExpiry(c) ==
    /\ op[c] \in Expiring /\ pc[c] = "waiting" /\ holder = Nobody /\ Overdue
    /\ \E cost \in CostsUpTo(SessionCeiling) :
          Start(c, Worker(c, "settle", session.exp, session.exp, cost))
    /\ Stay(c, "expiring", rid[c])
    /\ UNCHANGED <<ledger, session, prepared, charged, owed, crashes>>

\* fault: the lock is kept when the settlement raises
FinishExpiryLocked(c) ==
    /\ pc[c] = "expiring" /\ reply[c] = "ok"
    /\ session' = NoSession
    /\ IF op[c] \in {"status", "prewarm"} THEN Stay(c, "entered", rid[c]) ELSE Fail(c)
    /\ UNCHANGED <<ledger, workers, prepared, charged, owed, crashes>>
\* The operations that would have used the session raise.
FinishExpiry(c) ==
    /\ pc[c] = "expiring" /\ reply[c] # "none"
    /\ session' = IF reply[c] = "ok" THEN NoSession ELSE session
    /\ IF reply[c] = "ok" /\ op[c] \in {"status", "prewarm"}
       THEN Stay(c, "entered", rid[c]) ELSE Fail(c)
    /\ UNCHANGED <<ledger, workers, prepared, charged, owed, crashes>>

(***************************************************************************)
(* Reservations                                                            *)
(***************************************************************************)
Prewarms(c) ==
    /\ op[c] = "prewarm" /\ Inside(c)
    /\ IF Active THEN Fail(c) ELSE Stay(c, "billing", rid[c])
    /\ UNCHANGED <<ledger, workers, session, prepared, charged, owed, crashes>>

\* _reserve: the cap of this provider, in memory
Charge(c, e) == IF charged + CallCeiling > ProviderCap
                THEN Fail(c) /\ UNCHANGED charged
                ELSE Stay(c, "billing", e) /\ charged' = charged + CallCeiling
Refund(c) == charged' = IF op[c] = "prewarm" THEN charged ELSE charged - CallCeiling

\* prepare_fast_authorization looks at the session, expired or not.
Prepare(c) ==
    /\ op[c] \in {"prepare", "preparePreview"} /\ pc[c] = "waiting" /\ holder = Nobody
    /\ IF Active \/ OwnExperiment(c) \in prepared
       THEN GoOn(c, NextOp(c)) /\ UNCHANGED charged
       ELSE Charge(c, OwnExperiment(c))
    /\ UNCHANGED <<ledger, workers, session, prepared, owed, crashes>>

\* _reserve_against_current_billing: the report, then the ledger in a thread
ReadBilling(c) ==
    /\ pc[c] = "billing"
    /\ \/ /\ Start(c, Worker(c, "authorize", rid[c], rid[c],
                             IF op[c] = "prewarm" THEN SessionCeiling ELSE CallCeiling))
          /\ Stay(c, "authorizing", rid[c])
          /\ UNCHANGED charged
       \/ Fail(c) /\ Refund(c) /\ UNCHANGED workers
    /\ UNCHANGED <<ledger, session, prepared, owed, crashes>>

Authorized(c) ==
    /\ pc[c] = "authorizing" /\ reply[c] # "none"
    /\ \/ /\ reply[c] = "ok" /\ op[c] \in {"prepare", "preparePreview"}
          /\ prepared' = prepared \cup {rid[c]} /\ GoOn(c, NextOp(c))
          /\ UNCHANGED <<charged, owed>>
       \/ /\ reply[c] = "ok" /\ op[c] \notin {"prepare", "preparePreview"}
          /\ Stay(c, "sent", rid[c]) /\ owed' = owed \cup {rid[c]}
          /\ UNCHANGED <<prepared, charged>>
       \/ /\ reply[c] = "error"
          /\ Fail(c) /\ Refund(c) /\ UNCHANGED <<prepared, owed>>
    /\ UNCHANGED <<ledger, workers, session, crashes>>

(***************************************************************************)
(* Remote calls                                                            *)
(***************************************************************************)
\* What the session allows: one preview, then the scene it belongs to.
SessionTakes(c) ==
    CASE op[c] = "preview" -> session.preview = Nobody
      [] op[c] = "fast" -> session.scene = Nobody /\ session.preview \in {Nobody, c}
      [] op[c] = "motion" -> session.scene = c /\ session.motion

Generates(c) == op[c] \in {"preview", "fast", "motion"} /\ Inside(c)
GenerateOnSession(c) ==
    /\ Generates(c) /\ Active
    /\ IF PreparedFor(c) \notin prepared /\ SessionTakes(c)
       THEN Stay(c, "sent", session.exp) /\ owed' = owed \cup {session.exp}
       ELSE Fail(c) /\ UNCHANGED owed
    /\ UNCHANGED <<ledger, workers, session, prepared, charged, crashes>>
\* fault: the prepared authorization is not taken out when it is used
GeneratePreparedTwice(c) ==
    /\ Generates(c) /\ ~Active /\ PreparedFor(c) \in prepared
    /\ Stay(c, "sent", PreparedFor(c)) /\ owed' = owed \cup {PreparedFor(c)}
    /\ UNCHANGED <<ledger, workers, session, prepared, charged, crashes>>
GeneratePrepared(c) ==
    /\ Generates(c) /\ ~Active /\ PreparedFor(c) \in prepared
    /\ prepared' = prepared \ {PreparedFor(c)}
    /\ Stay(c, "sent", PreparedFor(c)) /\ owed' = owed \cup {PreparedFor(c)}
    /\ UNCHANGED <<ledger, workers, session, charged, crashes>>
GenerateAlone(c) ==
    /\ Generates(c) /\ ~Active /\ PreparedFor(c) \notin prepared
    /\ Charge(c, OwnExperiment(c))
    /\ UNCHANGED <<ledger, workers, session, prepared, owed, crashes>>
Generate(c) == GenerateOnSession(c) \/ GeneratePrepared(c) \/ GenerateAlone(c)

\* The call fails, or its answer is unusable or above its stage cap: what it
\* cost is unknown, so its reservation stays.
CallFails(c) ==
    /\ pc[c] = "sent"
    /\ session' = IF OnSession(c) \/ op[c] = "prewarm" THEN NoSession ELSE session
    /\ Fail(c)
    /\ UNCHANGED <<ledger, workers, prepared, charged, owed, crashes>>

\* The answer ends the operation, or the reservation is settled first.
Warmed(c) ==
    /\ op[c] = "prewarm" /\ pc[c] = "sent"
    /\ \E motion \in IF EnableMotion THEN (IF c \in Job THEN {TRUE} ELSE BOOLEAN) ELSE {FALSE} :
          session' = [NoSession EXCEPT !.exp = rid[c], !.motion = motion]
    /\ GoOn(c, NextOp(c))
    /\ UNCHANGED <<ledger, workers, prepared, charged, owed, crashes>>
Kept(c) ==
    /\ pc[c] = "sent" /\ OnSession(c)
    /\ \/ op[c] = "preview" /\ session' = [session EXCEPT !.preview = c]
       \/ op[c] = "fast" /\ session.motion /\ session' = [session EXCEPT !.scene = c]
    /\ GoOn(c, NextOp(c))
    /\ UNCHANGED <<ledger, workers, prepared, charged, owed, crashes>>
Settles(c) ==
    /\ pc[c] = "sent"
    /\ \/ /\ OnSession(c)
          /\ \/ op[c] = "motion"
             \/ op[c] = "fast" /\ ~session.motion
          /\ session' = [session EXCEPT !.scene = c]
          /\ \E cost \in CostsUpTo(SessionCeiling) :
                Start(c, Worker(c, "settle", rid[c], rid[c], cost))
       \/ /\ ~OnSession(c) /\ op[c] # "prewarm"
          /\ \E cost \in CostsUpTo(CallCeiling) :
                Start(c, Worker(c, "settle", rid[c], OwnExperiment(c), cost))
          /\ UNCHANGED session
    /\ Stay(c, "settling", rid[c])
    /\ UNCHANGED <<ledger, prepared, charged, owed, crashes>>

\* A failed settlement forgets the session; without one the call stays charged.
SettleEnds(c) ==
    /\ pc[c] = "settling" /\ reply[c] # "none"
    /\ session' = IF OnSession(c) THEN NoSession ELSE session
    /\ charged' = IF OnSession(c) \/ reply[c] = "error" THEN charged
                  ELSE charged - CallCeiling + ledger.records[OwnExperiment(c)]
    /\ IF reply[c] = "ok" THEN GoOn(c, NextOp(c)) ELSE Fail(c)
    /\ UNCHANGED <<ledger, workers, prepared, owed, crashes>>

(***************************************************************************)
(* Clean-up, shielded from cancellation                                    *)
(***************************************************************************)
\* fault: only a session that belongs to the scene is forgotten
DropOwnSession(c) ==
    /\ op[c] = "dropSession" /\ pc[c] = "waiting" /\ holder = Nobody
    /\ session' = IF session.scene = c THEN NoSession ELSE session
    /\ GoOn(c, NextOp(c))
    /\ UNCHANGED <<ledger, workers, prepared, charged, owed, crashes>>
\* fault: a session that has begun a scene is kept for the next one
DropFreshSession(c) ==
    /\ op[c] = "dropSession" /\ pc[c] = "waiting" /\ holder = Nobody
    /\ session' = IF session.scene = Nobody THEN NoSession ELSE session
    /\ GoOn(c, NextOp(c))
    /\ UNCHANGED <<ledger, workers, prepared, charged, owed, crashes>>
\* abandon_warm_session
DropSession(c) ==
    /\ op[c] = "dropSession" /\ pc[c] = "waiting" /\ holder = Nobody
    /\ session' = IF session.scene \in {Nobody, c} THEN NoSession ELSE session
    /\ GoOn(c, NextOp(c))
    /\ UNCHANGED <<ledger, workers, prepared, charged, owed, crashes>>

\* abandon_prepared_fast_authorization, for the scene and for its preview
DropPrepared(c) ==
    /\ op[c] \in {"dropPrepared", "dropPreview"} /\ pc[c] = "waiting" /\ holder = Nobody
    /\ IF PreparedFor(c) \in prepared
       THEN /\ Start(c, Worker(c, "release", PreparedFor(c), PreparedFor(c), 0))
            /\ Stay(c, "releasing", PreparedFor(c))
       ELSE GoOn(c, NextOp(c)) /\ UNCHANGED workers
    /\ UNCHANGED <<ledger, session, prepared, charged, owed, crashes>>
Dropped(c) ==
    /\ pc[c] = "releasing" /\ reply[c] # "none"
    /\ \/ /\ reply[c] = "ok" /\ GoOn(c, NextOp(c))
          /\ prepared' = prepared \ {rid[c]} /\ charged' = charged - CallCeiling
       \/ reply[c] = "error" /\ Fail(c) /\ UNCHANGED <<prepared, charged>>
    /\ UNCHANGED <<ledger, workers, session, owed, crashes>>

(***************************************************************************)
(* A job is cancelled when a newer page replaces it, when its planner      *)
(* fails, or (its preview alone) when the plan is ready first.  Its worker *)
(* goes on; what the worker returned is lost.                              *)
(***************************************************************************)
Cancel(c) ==
    /\ c \in Job /\ op[c] \in Paying \cup {"status"} /\ pc[c] # "entered"
    /\ workers' = {IF w.for = c THEN [w EXCEPT !.for = Nobody] ELSE w : w \in workers}
    /\ session' = IF pc[c] \in {"sent", "settling"} /\ (OnSession(c) \/ op[c] = "prewarm")
                  THEN NoSession ELSE session
    /\ IF pc[c] \in {"billing", "authorizing"} THEN Refund(c) ELSE UNCHANGED charged
    /\ \/ GoOn(c, "dropSession")
       \/ op[c] \in {"preparePreview", "preview"} /\ GoOn(c, "fast")
    /\ UNCHANGED <<ledger, prepared, owed, crashes>>

(***************************************************************************)
(* Worker threads, other processes, the operator and crashes               *)
(***************************************************************************)
Answer(w, r) == reply' = IF w.for = Nobody THEN reply ELSE [reply EXCEPT ![w.for] = r]

Authorize(w) ==
    /\ w.do = "authorize"
    /\ \E reported \in Reports :
          IF MayAuthorize(ledger, w.rid, w.amount, reported)
          THEN /\ ledger' = Reserved(Anchored(ledger, reported), w.rid, w.amount)
               /\ Answer(w, "ok")
          ELSE Answer(w, "error") /\ UNCHANGED ledger
    /\ UNCHANGED owed
Settle(w) ==
    /\ w.do = "settle"
    /\ IF MaySettle(ledger, w.rid, w.as, w.amount)
       THEN /\ ledger' = Recorded(Released(ledger, w.rid), w.as, w.amount)
            /\ owed' = owed \ {w.rid} /\ Answer(w, "ok")
       ELSE Answer(w, "error") /\ UNCHANGED <<ledger, owed>>
Release(w) ==
    /\ w.do = "release"
    /\ IF MayRelease(ledger, w.rid)
       THEN ledger' = Released(ledger, w.rid) /\ Answer(w, "ok")
       ELSE Answer(w, "error") /\ UNCHANGED ledger
    /\ UNCHANGED owed
\* Reading or replacing the file fails, and leaves it as it was.
FileFails(w) == Answer(w, "error") /\ UNCHANGED <<ledger, owed>>

RunWorker(w) ==
    /\ workers' = workers \ {w}
    /\ Authorize(w) \/ Settle(w) \/ Release(w) \/ FileFails(w)
    /\ UNCHANGED <<memory, op, pc, rid, crashes>>

\* reserve_modal_budget and settle_modal_budget in another process
OtherReserves(e) ==
    /\ Readable(ledger) /\ e \notin DOMAIN ledger.records \cup DOMAIN ledger.reservations
    /\ Usage(ledger) + CallCeiling <= RunCap
    /\ ledger' = Reserved(ledger, e, CallCeiling)
    /\ UNCHANGED <<workers, memory, callers, owed, crashes>>
OtherSettles(e) ==
    /\ \E cost \in CostsUpTo(CallCeiling) :
          MaySettle(ledger, e, e, cost) /\ ledger' = Recorded(Released(ledger, e), e, cost)
    /\ UNCHANGED <<workers, memory, callers, owed, crashes>>

\* reconcile_failed_modal_budget_reservation: an operator replaces the ceiling of
\* a call that has failed by what the workspace reports.
InUse(e) == \/ session.exp = e \/ e \in prepared
            \/ \E c \in Caller : rid[c] = e
            \/ \E w \in workers : w.rid = e
Reconcile(e) ==
    /\ Readable(ledger) /\ e \in owed \cap DOMAIN ledger.reservations /\ ~InUse(e)
    /\ \E reported \in Reports : ledger' = Released(Anchored(ledger, reported), e)
    /\ owed' = owed \ {e}
    /\ UNCHANGED <<workers, memory, callers, crashes>>

\* The process is killed and started again; the file and the calls it sent remain.
Crash ==
    /\ crashes < MaxCrashes /\ crashes' = crashes + 1
    /\ workers' = {} /\ holder' = Nobody /\ session' = NoSession
    /\ prepared' = {} /\ charged' = 0
    /\ op' = [c \in Caller |-> IF op[c] = "idle" THEN "idle" ELSE "done"]
    /\ pc' = [c \in Caller |-> IF op[c] = "idle" THEN "idle" ELSE "done"]
    /\ rid' = [c \in Caller |-> NoExperiment]
    /\ reply' = [c \in Caller |-> "none"]
    /\ UNCHANGED <<ledger, owed>>

Step(c) == \/ Status(c) \/ StartExpiry(c) \/ FinishExpiry(c)
           \/ Prewarms(c) \/ Prepare(c) \/ ReadBilling(c) \/ Authorized(c)
           \/ Generate(c) \/ CallFails(c) \/ Warmed(c) \/ Kept(c) \/ Settles(c)
           \/ SettleEnds(c) \/ DropSession(c) \/ DropPrepared(c) \/ Dropped(c)

Next == \/ \E j \in Job : BeginJob(j)
        \/ \E u \in User : BeginUser(u)
        \/ \E c \in Caller : NotReady(c) \/ Step(c) \/ Cancel(c)
        \/ \E w \in workers : RunWorker(w)
        \/ \E e \in {"other"} \X Other : OtherReserves(e) \/ OtherSettles(e)
        \/ \E e \in owed : Reconcile(e)
        \/ Tick \/ Crash

Spec == Init /\ [][Next]_vars
FairSpec == /\ Spec
            /\ WF_vars(\E c \in Caller : Step(c))
            /\ WF_vars(\E w \in workers : RunWorker(w))

(***************************************************************************)
(* Properties                                                              *)
(***************************************************************************)
\* A call that was sent and is neither settled nor reconciled has its whole
\* ceiling in the ledger, whoever failed, was cancelled or crashed since.
PaidCallsReserved == owed \subseteq DOMAIN ledger.reservations

\* A session that belongs to a scene does not outlive the job of that scene.
SessionEndsWithItsJob ==
    \A j \in {session.scene, session.preview} \cap Job : op[j] # "done"

\* Whoever waits for the operation lock gets it, and every operation ends.
OperationsEnd == \A c \in Caller : op[c] # "idle" ~> op[c] = "done"

\* A session whose reservation is gone from the ledger (its settlement went on
\* after the caller was cancelled) would make every operation raise: it is
\* forgotten in the end.
Stale == Active /\ session.exp \notin DOMAIN ledger.reservations
StaleSessionForgotten == Stale ~> ~Stale

\* An authorization that no call consumed is released when its job is over, as
\* test_unused_overlapped_authorization_is_released_on_scene_cancellation says.
UnusedAuthorizationReleased ==
    \A j \in Job : op[j] = "done" /\ workers = {} /\ crashes = 0
                     => <<"authorized", j>> \notin DOMAIN ledger.reservations \ owed

(***************************************************************************)
(* The strengthening that makes PaidCallsReserved inductive                *)
(***************************************************************************)
SessionIds == {"session"} \X (Caller \cup Prewarm)
PreparedIds == {"authorized", "preview"} \X Caller
PaidIds == SessionIds \cup {"authorized", "preview", "render", "motion"} \X Caller
Locked == {"expiring", "entered", "billing", "authorizing", "sent", "settling", "releasing"}

IsLedger(l) == l = [prior |-> l.prior, records |-> l.records, reservations |-> l.reservations]
WorkerRecord == [do : {"authorize", "settle", "release"}, rid : PaidIds,
                 as : PaidIds, amount : Nat, for : Caller \cup {Nobody}]
TypeOK ==
    /\ IsLedger(ledger)
    /\ workers \subseteq WorkerRecord
    /\ holder \in Caller \cup {Nobody}
    /\ session \in [exp : SessionIds \cup {NoExperiment}, motion : BOOLEAN,
                    scene : Caller \cup {Nobody}, preview : Caller \cup {Nobody},
                    expired : BOOLEAN]
    /\ DOMAIN op = Caller
    /\ pc \in [Caller -> Locked \cup {"idle", "waiting", "done"}]
    /\ rid \in [Caller -> PaidIds \cup {NoExperiment}]
    /\ reply \in [Caller -> {"none", "ok", "error"}]

Reserves(e) == e \in DOMAIN ledger.reservations
OnRecord(e) == e \in DOMAIN ledger.records
\* A settlement of e is on its way, and may take its reservation at any time.
Doomed(e) == \E w \in workers : w.do = "settle" /\ w.rid = e

HolderFits == \A c \in Caller : pc[c] \in Locked <=> holder = c

CallerFits(c) ==
    LET e == rid[c] IN
    /\ op[c] = "prewarm" /\ pc[c] \in Locked \cup {"waiting"} => e \in SessionIds
    /\ pc[c] \in {"billing", "authorizing", "sent", "settling"} =>
         op[c] \in Paying /\ e \in PaidIds \ prepared
    /\ pc[c] \in {"billing", "authorizing"} /\ op[c] # "prewarm" => e = OwnExperiment(c)
    /\ pc[c] = "entered" => op[c] \in {"status", "prewarm"}
    /\ pc[c] = "expiring" => op[c] \in Expiring
    /\ pc[c] \in {"sent", "settling"} /\ op[c] # "prewarm" /\ e \in SessionIds => OnSession(c)
    /\ pc[c] = "authorizing" /\ reply[c] = "ok" => Reserves(e) /\ e \notin owed /\ ~Doomed(e)
    /\ pc[c] = "sent" => e \in owed /\ ~Doomed(e)
    /\ pc[c] = "releasing" => e \in prepared /\ op[c] \in Dropping

\* A session has its reservation until its settlement is on its way.
SessionFits ==
    Active =>
      /\ session.exp \in SessionIds /\ (Reserves(session.exp) \/ OnRecord(session.exp))
      /\ ~Reserves(session.exp) \/ Doomed(session.exp) =>
           session.expired \/ \E c \in Caller : pc[c] = "settling" /\ OnSession(c)

PreparedFits ==
    \A e \in prepared :
      /\ e \in PreparedIds /\ e \notin owed /\ ~Doomed(e)
      /\ Reserves(e) \/ \E c \in Caller : /\ pc[c] = "releasing" /\ reply[c] = "ok"
                                          /\ rid[c] = e

\* A thread answers the caller that waits for it, and what it settles is reserved or
\* has been settled under its own name.
WorkersFit ==
    \A w \in workers :
      /\ w.do = "release" => w.for # Nobody
      /\ w.for # Nobody =>
           /\ reply[w.for] = "none"
           /\ \/ w.do = "authorize" /\ pc[w.for] = "authorizing" /\ rid[w.for] = w.rid
              \/ w.do = "settle" /\ pc[w.for] \in {"settling", "expiring"}
              \/ w.do = "release" /\ pc[w.for] = "releasing" /\ rid[w.for] = w.rid
      /\ w.do = "settle" => /\ Reserves(w.rid) \/ OnRecord(w.rid)
                            /\ w.rid \in SessionIds => w.as = w.rid
      /\ \A v \in workers \ {w} :
           /\ w.for # Nobody => v.for # w.for
           /\ w.do = "settle" /\ v.do = "settle" /\ v.rid = w.rid => w.as = w.rid

OwedFits == owed \subseteq PaidIds /\ PaidCallsReserved

IInv == /\ TypeOK /\ HolderFits /\ (\A c \in Caller : CallerFits(c))
        /\ SessionFits /\ PreparedFits /\ WorkersFit /\ OwedFits

(***************************************************************************)
(* What SessionEndsWithItsJob needs besides IInv                           *)
(***************************************************************************)
Busy(c) == op[c] \notin {"idle", "done"}

UsersPrewarm == \A u \in User : op[u] \in {"idle", "prewarm", "done"}

JobsApart == \A i, j \in Job : Busy(i) /\ Busy(j) => i = j

\* Whoever owns the session is between its preview and its clean-up.
OwnersFit == \A c \in {session.scene, session.preview} \ {Nobody} :
               c \in Job /\ op[c] \in {"fast", "motion", "dropSession"}

ReleasersFit == \A c \in Caller :
                  pc[c] = "releasing" => op[c] \in {"dropPrepared", "dropPreview"}

OwnerInv == UsersPrewarm /\ JobsApart /\ OwnersFit /\ ReleasersFit
============================================================================
