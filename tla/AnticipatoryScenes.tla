-------------------------- MODULE AnticipatoryScenes --------------------------
(***************************************************************************)
(* AnticipatorySceneOrchestrator (anticipatory.py): candidate scenes for   *)
(* the next pages are submitted in batches, rendered and criticised by one *)
(* task each under a semaphore, and committed, cancelled, expired or       *)
(* evicted by requests that run under _lock.                               *)
(*                                                                         *)
(* A key is (session token and sequence, branch).  cache_key leaves both   *)
(* out and digests the content: candidates of the same content share a     *)
(* cached result.  A request that is refused changes nothing but what its  *)
(* _expire_locked does (Sweep); the same holds for status().               *)
(*                                                                         *)
(* The specification's names carry the word Scenes, because                *)
(* PreparedPagesProofs takes this module together with PreparedPages.      *)
(***************************************************************************)
EXTENDS Integers, Sequences, FiniteSets, SequencesExt

CONSTANTS Slot,           \* (session_token, sequence) pairs
          Branch,         \* branch ids
          Content,        \* the scene content of each branch
          MaxCandidates,  \* max_candidates
          MaxRenders,     \* max_concurrent_renders
          CacheEntries,   \* cache_entries
          MaxStarts       \* bound: how many tasks are started in all

ASSUME LimitsAssumption == /\ MaxCandidates \in Nat /\ MaxCandidates >= 2
                           /\ MaxRenders \in Nat \ {0}
                           /\ CacheEntries \in Nat /\ MaxStarts \in Nat

Key == Slot \X Branch
SlotOf(k) == k[1]
Brief(k) == Content[k[2]]

VARIABLES state,       \* the record's CandidateState, "absent" without one
          order,       \* the insertion order of _records
          selected,    \* records with selected = True
          attempts,    \* their render_attempts
          barred,      \* records that hold an error or are cache hits
          due,         \* records whose not_after has passed
          ended,       \* keys whose terminal event is set
          registered,  \* _tasks: which task of the key, 0 for none
          used,        \* how many tasks were started for the key
          pc,          \* where each task is
          cancelled,   \* tasks with a cancellation on its way
          cache,       \* briefs _cache holds an accepted scene for
          closed       \* _closed

records == <<state, order, selected, attempts, barred, ended>>
tasks == <<registered, used, pc, cancelled>>
sceneVars == <<records, due, tasks, cache, closed>>

\* The tasks of a key are numbered in the order they are started.
Task == Key \X (1..MaxStarts)
Started == {t \in Task : t[2] <= used[t[1]]}
Pc == {"free", "new", "render1", "critic1", "render2", "critic2", "done"}

Working == {"queued", "rendering", "critiquing", "repairing"}
Live == Working \cup {"ready", "committed"}
Dead == {"cancelled", "rejected", "failed", "expired"}
\* CandidateState.terminal
Terminal == {"ready", "committed"} \cup Dead
Held == {k \in Key : state[k] # "absent"}

ScenesInit ==
    /\ state = [k \in Key |-> "absent"] /\ order = <<>>
    /\ selected = {} /\ attempts = [k \in Key |-> 0] /\ barred = {}
    /\ due = {} /\ ended = {}
    /\ registered = [k \in Key |-> 0] /\ used = [k \in Key |-> 0]
    /\ pc = [t \in Task |-> "free"] /\ cancelled = {}
    /\ cache = {} /\ closed = FALSE

\* A candidate's not_after passes.
Elapse(k) == /\ k \in Held \ due
             /\ due' = due \cup {k}
             /\ UNCHANGED <<records, tasks, cache, closed>>

----------------------------------------------------------------------------
\* What every request does under the lock.

\* The tasks _tasks names for the keys K are cancelled unless they are done.
CancelTasks(K) ==
    cancelled' = cancelled \cup
        {t \in Task : t[1] \in K /\ registered[t[1]] = t[2] /\ pc[t] # "done"}

Expirable == {k \in Held \cap due : state[k] \notin {"committed", "expired"}}
\* The states after _expire_locked.
Swept == [k \in Key |-> IF k \in Expirable THEN "expired" ELSE state[k]]

\* status(), and a submit or commit that is refused.
Sweep == /\ state' = Swept
         /\ barred' = barred \cup Expirable
         /\ ended' = ended \cup Expirable
         /\ CancelTasks(Expirable)
         /\ UNCHANGED <<order, selected, attempts, due, registered, used, pc,
                        cache, closed>>

----------------------------------------------------------------------------
\* submit

Batches == {<<k>> : k \in Key} \cup
           {b \in Key \X Key : SlotOf(b[1]) = SlotOf(b[2]) /\ b[1] # b[2]}

Evictable(k) == Swept[k] \in Terminal \ {"committed"}

Fits(kept, batch) == Len(kept) + Len(batch) <= MaxCandidates

\* The places in the order, up to that of k, that may be evicted.
EvictableUpTo(k) ==
    {i \in DOMAIN order : Evictable(order[i]) /\ \A h \in 1..(i - 1) : order[h] # k}
\* The oldest evictable records, as many as the batch lacks room for.
EvictedBy(batch) ==
    {k \in Key : /\ Evictable(k)
                 /\ Cardinality(EvictableUpTo(k)) <= Len(order) + Len(batch) - MaxCandidates}

\* The order without them, and the keys of a batch that then has its place.
Kept(batch) == SelectSeq(order, LAMBDA k : k \notin EvictedBy(batch))
Added(batch) == IF Fits(Kept(batch), batch) THEN ToSet(batch) ELSE {}

\* Records are dropped with all that is kept of them, cache hits are ready at once, and
\* for a miss a task is started.
Enter(evicted, hits, misses) ==
    /\ state' = [k \in Key |-> CASE k \in evicted -> "absent"
                                 [] k \in hits -> "ready"
                                 [] k \in misses -> "queued"
                                 [] OTHER -> Swept[k]]
    /\ selected' = selected \ evicted
    /\ attempts' = [k \in Key |-> IF k \in evicted THEN 0 ELSE attempts[k]]
    /\ barred' = ((barred \cup Expirable) \ evicted) \cup hits
    /\ ended' = ((ended \cup Expirable) \ evicted) \cup hits
    /\ due' = due \ evicted
    /\ used' = [k \in Key |-> used[k] + IF k \in misses THEN 1 ELSE 0]
    /\ registered' = [k \in Key |-> IF k \in misses THEN used'[k] ELSE registered[k]]
    /\ pc' = [t \in Task |-> IF t[1] \in misses /\ t[2] = used'[t[1]] THEN "new" ELSE pc[t]]
    /\ CancelTasks(Expirable)
    /\ cache' = cache \ {Brief(k) : k \in misses}

\* Records are evicted for a batch that then does not fit all the same.  A
\* cached result may have gone stale (a shorter expiry, an asset that is not
\* available any more): it is dropped and the candidate rendered.
Submit(batch) ==
    /\ ~closed
    /\ ToSet(batch) \cap Held = {}
    /\ \E hits \in SUBSET {k \in Added(batch) : Brief(k) \in cache} :
         LET misses == Added(batch) \ hits IN
         /\ Cardinality(Started) + Cardinality(misses) <= MaxStarts
         /\ Enter(EvictedBy(batch), hits, misses)
    /\ order' = IF Added(batch) = {} THEN Kept(batch) ELSE Kept(batch) \o batch
    /\ UNCHANGED closed

----------------------------------------------------------------------------
\* commit, cancel, close

\* fault: only the branches that are ready make way
CommitOverReady(k) ==
    LET rest == {j \in Key \ {k} : SlotOf(j) = SlotOf(k) /\ Swept[j] = "ready"}
    IN /\ Swept[k] \in Live
       /\ state' = [j \in Key |->
            CASE j \in rest -> "cancelled"
              [] j = k /\ Swept[k] = "ready" -> "committed"
              [] OTHER -> Swept[j]]
       /\ selected' = selected \cup {k}
       /\ barred' = barred \cup Expirable
       /\ ended' = ended \cup Expirable \cup rest
       /\ CancelTasks(Expirable \cup rest)
       /\ UNCHANGED <<order, attempts, due, registered, used, pc, cache, closed>>
\* A candidate that is still being worked on is selected: it will be committed
\* when it is accepted.  Its siblings are cancelled, committed ones excepted.
Commit(k) ==
    LET rest == {j \in Key \ {k} : /\ SlotOf(j) = SlotOf(k)
                                   /\ Swept[j] \in Live \ {"committed"}}
    IN /\ Swept[k] \in Live
       /\ state' = [j \in Key |->
            CASE j \in rest -> "cancelled"
              [] j = k /\ Swept[k] = "ready" -> "committed"
              [] OTHER -> Swept[j]]
       /\ selected' = selected \cup {k}
       /\ barred' = barred \cup Expirable
       /\ ended' = ended \cup Expirable \cup rest
       /\ CancelTasks(Expirable \cup rest)
       /\ UNCHANGED <<order, attempts, due, registered, used, pc, cache, closed>>

\* fault: the waiters of a cancelled candidate are not told
CancelRecordsQuietly(K) ==
    /\ state' = [k \in Key |-> IF k \in K THEN "cancelled" ELSE state[k]]
    /\ CancelTasks(K)
    /\ UNCHANGED <<order, selected, attempts, barred, ended, due, registered,
                   used, pc, cache>>
\* _cancel_locked for the keys K
CancelRecords(K) ==
    /\ state' = [k \in Key |-> IF k \in K THEN "cancelled" ELSE state[k]]
    /\ ended' = ended \cup K
    /\ CancelTasks(K)
    /\ UNCHANGED <<order, selected, attempts, barred, due, registered, used,
                   pc, cache>>

\* cancel(session_token, sequence) does not look at the clock.
Cancel(s) ==
    /\ CancelRecords({k \in Key : SlotOf(k) = s /\ state[k] \in Live \ {"committed"}})
    /\ UNCHANGED closed

\* close() cancels the candidates of the registered tasks.  It raises at a task
\* whose record was evicted, and the candidates after it keep running.
Close ==
    LET named == {k \in Key : registered[k] # 0}
        live  == {k \in named : state[k] \in Live \ {"committed"}}
    IN /\ ~closed /\ closed' = TRUE
       /\ \E K \in SUBSET live : /\ named \subseteq Held => K = live
                                 /\ CancelRecords(K)

----------------------------------------------------------------------------
\* _run_candidate, one task per started candidate

\* fault: a task never gives its place in the semaphore back
HoldingForGood == {t \in Started : pc[t] # "new"}
Holding == {t \in Task : pc[t] \notin {"free", "new", "done"}}

At(t, P) == pc[t] \in P /\ t \notin cancelled
MoveTo(t, p) == pc' = [pc EXCEPT ![t] = p]
Put(k, s) == state' = [state EXCEPT ![k] = s]

\* The task leaves, the record stays as it is.
Stop(t) == MoveTo(t, "done") /\ UNCHANGED <<records, cancelled, cache>>

\* The record ends in state s with an error, and the task leaves.
EndWith(t, s) == /\ Put(t[1], s) /\ MoveTo(t, "done")
                 /\ barred' = barred \cup {t[1]}
                 /\ ended' = ended \cup {t[1]}
                 /\ UNCHANGED <<order, selected, attempts, cache>>

\* _expire_record_locked, called by the task itself
ExpireRecord(t) == EndWith(t, "expired") /\ CancelTasks({t[1]})

\* _fail
Fail(t) == IF state[t[1]] \in {"absent", "cancelled", "expired", "committed"}
           THEN Stop(t)
           ELSE EndWith(t, "failed") /\ UNCHANGED cancelled

\* _begin_render, in the semaphore
BeginRender(t) ==
    LET k == t[1] IN
    /\ At(t, {"new"}) /\ Cardinality(Holding) < MaxRenders
    /\ \/ state[k] = "absent" /\ Stop(t)
       \/ k \in Held \cap due /\ ExpireRecord(t)
       \/ state[k] = "cancelled" /\ k \notin due /\ Stop(t)
       \/ /\ state[k] \notin {"absent", "cancelled"} /\ k \notin due
          /\ Put(k, "rendering") /\ MoveTo(t, "render1")
          /\ UNCHANGED <<order, selected, attempts, barred, ended, cancelled,
                         cache>>
    /\ UNCHANGED <<due, registered, used, closed>>

\* A task whose record has been ended by a request stops at the next step; a
\* candidate that is due expires there.
Stopped(k) == state[k] \in {"absent", "cancelled", "expired"}
Halt(t) == \/ Stopped(t[1]) /\ Stop(t)
           \/ ~Stopped(t[1]) /\ t[1] \in due /\ ExpireRecord(t)

\* The renderer answers: _validate_render_cost and _record_render.
Rendered(t) ==
    LET k == t[1] IN
    /\ At(t, {"render1", "render2"})
    /\ \/ Halt(t)
       \/ /\ ~Stopped(k) /\ k \notin due
          /\ Put(k, "critiquing")
          /\ attempts' = [attempts EXCEPT ![k] = @ + 1]
          /\ MoveTo(t, IF pc[t] = "render1" THEN "critic1" ELSE "critic2")
          /\ UNCHANGED <<order, selected, barred, ended, cancelled, cache>>
    /\ UNCHANGED <<due, registered, used, closed>>

\* The renderer or the critic raises, or the render costs too much.
CallFails(t) == /\ At(t, {"render1", "critic1", "render2", "critic2"})
                /\ Fail(t)
                /\ UNCHANGED <<due, registered, used, closed>>

\* The cache keeps the newest entries.
Remember(b) ==
    IF CacheEntries = 0 THEN UNCHANGED cache
    ELSE IF Cardinality(cache \cup {b}) <= CacheEntries THEN cache' = cache \cup {b}
    ELSE \E old \in cache \ {b} : cache' = (cache \cup {b}) \ {old}

\* _promote: the clock is not looked at.  model_validate refuses a record with
\* an error, a cache hit with render work and a third render.
Accepted(t) ==
    LET k == t[1] IN
    /\ At(t, {"critic1", "critic2"})
    /\ \/ Stopped(k) /\ Stop(t)
       \/ ~Stopped(k) /\ (k \in barred \/ attempts[k] > 2) /\ Fail(t)
       \/ /\ ~Stopped(k) /\ k \notin barred /\ attempts[k] <= 2
          /\ Put(k, IF k \in selected THEN "committed" ELSE "ready")
          /\ ended' = ended \cup {k}
          /\ Remember(Brief(k))
          /\ MoveTo(t, "done")
          /\ UNCHANGED <<order, selected, attempts, barred, cancelled>>
    /\ UNCHANGED <<due, registered, used, closed>>

\* The critic asks for a repair without a correction, or for a second one.
Rejected(t) == /\ At(t, {"critic1", "critic2"})
               /\ \/ Stopped(t[1]) /\ Stop(t)
                  \/ ~Stopped(t[1]) /\ EndWith(t, "rejected") /\ UNCHANGED cancelled
               /\ UNCHANGED <<due, registered, used, closed>>

\* _begin_repair
Repaired(t) ==
    LET k == t[1] IN
    /\ At(t, {"critic1"})
    /\ \/ Halt(t)
       \/ /\ ~Stopped(k) /\ k \notin due
          /\ Put(k, "repairing") /\ MoveTo(t, "render2")
          /\ UNCHANGED <<order, selected, attempts, barred, ended, cancelled, cache>>
    /\ UNCHANGED <<due, registered, used, closed>>

\* A cancelled task leaves when the call it waits for has let go.
Unwind(t) == /\ t \in cancelled /\ pc[t] \notin {"free", "done"}
             /\ Stop(t)
             /\ UNCHANGED <<due, registered, used, closed>>

\* The done callback: it drops whatever task _tasks names for the key.
Retire(t) == /\ pc[t] = "done"
             /\ MoveTo(t, "free")
             /\ registered' = [registered EXCEPT ![t[1]] = 0]
             /\ cancelled' = cancelled \ {t}
             /\ UNCHANGED <<records, due, used, cache, closed>>

Run(t) == \/ BeginRender(t) \/ Rendered(t) \/ CallFails(t) \/ Accepted(t)
          \/ Rejected(t) \/ Repaired(t) \/ Unwind(t) \/ Retire(t)

ScenesNext ==
    \/ Sweep \/ Close
    \/ \E k \in Key : Elapse(k) \/ Commit(k)
    \/ \E b \in Batches : Submit(b)
    \/ \E s \in Slot : Cancel(s)
    \/ \E t \in Task : Run(t)

ScenesSpec == ScenesInit /\ [][ScenesNext]_sceneVars
\* Renderer and critic calls have timeouts; the event loop resumes its tasks.
FairSpec == ScenesSpec /\ \A t \in Task : WF_sceneVars(Run(t))

----------------------------------------------------------------------------
\* What the orchestrator keeps per record (its place in the order, selection,
\* error, expiry, event) never outlives the record.
ScenesTypeOK ==
    /\ state \in [Key -> {"absent"} \cup Live \cup Dead]
    /\ IsInjective(order) /\ ToSet(order) = Held
    /\ selected \subseteq Held /\ barred \subseteq Held
    /\ due \subseteq Held /\ ended \subseteq Held
    /\ attempts \in [Key -> Nat]
    /\ registered \in [Key -> 0..MaxStarts] /\ used \in [Key -> 0..MaxStarts]
    /\ pc \in [Task -> Pc] /\ cancelled \subseteq Task
    /\ cache \subseteq Range(Content) /\ closed \in BOOLEAN

\* However commits and batches are mixed, at most one selected branch of a
\* sequence is still worked on: two would both become committed later.  This holds
\* of sequences none of whose branches was evicted and started again: the done
\* callback of an old task may drop the new one (TasksStayNamed), which then works on
\* unseen, and makes even a committed candidate of its key be rendered again.
\* (anticipatory.py:455, 557)
OneSelectionPending ==
    \A s \in Slot :
      (\A k \in Key : SlotOf(k) = s => used[k] <= 1) =>
        Cardinality({k \in selected : SlotOf(k) = s /\ state[k] \in Working}) <= 1

\* A task of k is at work and was not cancelled.
Busy(k) == \E t \in Task : t[1] = k /\ pc[t] \notin {"free", "done"} /\ t \notin cancelled

\* A record, its task and its waiters agree: a candidate is worked on exactly while it
\* has a task that nobody cancelled (none is forgotten, none renders for the dead), and
\* wait_terminal returns for settled candidates and for no other.  A candidate that is
\* started again is excepted, as above.  (anticipatory.py:427, 703)
RecordTaskAndWaitersAgree ==
    \A k \in Key : used[k] <= 1 =>
      /\ state[k] \in Working <=> Busy(k)
      /\ k \in Held => (k \in ended <=> state[k] \in Terminal)

\* _tasks names every task that works and was not cancelled, so that a cancellation
\* reaches it.  The code keeps this only until a key is started again: the done
\* callback of the old task removes the entry of the new one.
TasksStayNamed ==
    \A t \in Task : pc[t] \notin {"free", "done"} /\ t \notin cancelled
                      => registered[t[1]] = t[2]

\* Every candidate settles, whatever requests arrive meanwhile.
EveryCandidateSettles == \A k \in Key : state[k] \in Working ~> state[k] \notin Working

\* docs/architecture.md:248: "Prepared candidate expires | Candidate cannot be
\* committed or activated".
ExpiredNeverCommitted ==
    [][\A k \in due : state[k] # "committed" => state'[k] # "committed"]_sceneVars

----------------------------------------------------------------------------
(* The strengthening that makes the two inductive.                         *)
RecordsFit ==
    /\ state \in [Key -> {"absent"} \cup Live \cup Dead]
    /\ selected \subseteq Held /\ due \subseteq Held /\ ended \subseteq Held

\* Tasks that were not started yet are free.
TasksFit ==
    /\ used \in [Key -> Nat] /\ registered \in [Key -> Nat]
    /\ \A k \in Key : registered[k] <= used[k]
    /\ pc \in [Task -> Pc] /\ cancelled \subseteq Task
    /\ \A t \in Task \ Started : pc[t] = "free" /\ t \notin cancelled

\* The one task of a key is named until its done callback has run.
TasksNamedOnce ==
    \A t \in Task : used[t[1]] <= 1 => (pc[t] # "free" <=> registered[t[1]] = t[2])

OnePending ==
    \A j, k \in selected :
      /\ SlotOf(j) = SlotOf(k) /\ \A i \in Key : SlotOf(i) = SlotOf(k) => used[i] <= 1
      /\ state[j] \in Working /\ state[k] \in Working
      => j = k

ScenesIInv == RecordsFit /\ TasksFit /\ TasksNamedOnce /\ RecordTaskAndWaitersAgree /\ OnePending

============================================================================
