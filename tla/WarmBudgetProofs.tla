-------------------------- MODULE WarmBudgetProofs --------------------------
(***************************************************************************)
(* For any callers, ids, ceilings, caps and reports: a paid call has its   *)
(* whole ceiling in the ledger until it is settled or reconciled, and a    *)
(* session that belongs to a scene ends with its job.  The argument of the *)
(* first: the operation lock has one holder, and only the holder works     *)
(* with a reservation; what it works with is not among the prepared ones;  *)
(* and a thread that settles a reservation of somebody else's call cannot  *)
(* exist, because whoever starts one waits for it or has given the call    *)
(* up.                                                                     *)
(***************************************************************************)
EXTENDS WarmBudget, TLAPS

-----------------------------------------------------------------------------
(* The ids of reservations.                                                *)

\* What the ids say about their use.
LEMMA Ids ==
  /\ SessionIds \subseteq PaidIds /\ PreparedIds \subseteq PaidIds
  /\ SessionIds \cap PreparedIds = {}
  /\ NoExperiment \notin PaidIds
  /\ \A e \in {"other"} \X Other : e \notin PaidIds
  BY DEF SessionIds, PreparedIds, PaidIds, NoExperiment

\* An operation's own reservation, and the one that was prepared for it.
LEMMA OwnIds ==
  ASSUME NEW c \in Caller
  PROVE  /\ op[c] \in {"prepare", "preparePreview"} => OwnExperiment(c) \in PreparedIds
         /\ op[c] \in Paying \ {"prewarm"} => OwnExperiment(c) \in PaidIds \ SessionIds
         /\ op[c] \in {"fast", "motion"} => OwnExperiment(c) \notin PreparedIds
         /\ op[c] = "preview" => OwnExperiment(c) = PreparedFor(c)
         /\ PreparedFor(c) \in PreparedIds \cup {NoExperiment}
  BY DEF OwnExperiment, PreparedFor, PreparedIds, PaidIds, SessionIds, Paying, NoExperiment

\* The session that a user or a job asks for.
LEMMA OwnSession ==
  /\ \A c \in Caller : <<"session", c>> \in SessionIds
  /\ \A p \in Prewarm : <<"session", p>> \in SessionIds
  BY DEF SessionIds

-----------------------------------------------------------------------------
(* What the operations of the ledger do to its reservations and records.   *)

LEMMA Reserving ==
  ASSUME NEW l, IsLedger(l), NEW e, NEW amount
  PROVE  LET m == Reserved(l, e, amount)
         IN  /\ IsLedger(m) /\ DOMAIN m.records = DOMAIN l.records
             /\ DOMAIN m.reservations = DOMAIN l.reservations \cup {e}
  BY DEF IsLedger, Reserved, With

\* A release takes one reservation away and no record.
LEMMA Releasing ==
  ASSUME NEW l, IsLedger(l), NEW e
  PROVE  LET m == Released(l, e)
         IN  /\ IsLedger(m) /\ DOMAIN m.records = DOMAIN l.records
             /\ DOMAIN m.reservations = DOMAIN l.reservations \ {e}
  BY DEF IsLedger, Released, Without

\* A settlement adds one record and leaves the reservations as they are.
LEMMA Recording ==
  ASSUME NEW l, IsLedger(l), NEW e, NEW cost
  PROVE  LET m == Recorded(l, e, cost)
         IN  /\ IsLedger(m) /\ DOMAIN m.records = DOMAIN l.records \cup {e}
             /\ DOMAIN m.reservations = DOMAIN l.reservations
  BY DEF IsLedger, Recorded, With

\* A reconciliation changes the anchored total only.
LEMMA Anchoring ==
  ASSUME NEW l, IsLedger(l), NEW reported
  PROVE  LET m == Anchored(l, reported)
         IN  /\ IsLedger(m) /\ m.records = l.records /\ m.reservations = l.reservations
  BY DEF IsLedger, Anchored

\* The ledger as the other definitions see it: by the ids it holds.
Holds(reservations, records) ==
  /\ IsLedger(ledger')
  /\ \A e : Reserves(e)' <=> e \in reservations
  /\ \A e : OnRecord(e)' <=> e \in records

-----------------------------------------------------------------------------
(* How a caller moves.                                                     *)

\* Nobody else has moved.
OthersStay(c) ==
  \A d \in Caller \ {c} : /\ op'[d] = op[d] /\ pc'[d] = pc[d]
                          /\ rid'[d] = rid[d] /\ reply'[d] = reply[d]

CallersTyped ==
  /\ holder' \in Caller \cup {Nobody}
  /\ DOMAIN op' = Caller
  /\ pc' \in [Caller -> Locked \cup {"idle", "waiting", "done"}]
  /\ rid' \in [Caller -> PaidIds \cup {NoExperiment}]
  /\ reply' \in [Caller -> {"none", "ok", "error"}]

\* A caller that goes on holds nothing and waits for nobody.
LEMMA GoOnMoves ==
  ASSUME TypeOK, NEW c \in Caller, NEW o, GoOn(c, o)
  PROVE  /\ CallersTyped /\ OthersStay(c)
         /\ op'[c] = o /\ pc'[c] \in {"waiting", "done"} /\ reply'[c] = "none"
         /\ o = "prewarm" => rid'[c] \in SessionIds
         /\ holder' = IF holder = c THEN Nobody ELSE holder
  <1>1. <<"session", c>> \in PaidIds \cup {NoExperiment} /\ <<"session", c>> \in SessionIds
    BY Ids, OwnSession
  <1>2. rid' \in [Caller -> PaidIds \cup {NoExperiment}]
    BY <1>1 DEF GoOn, TypeOK
  <1>3. pc' \in [Caller -> Locked \cup {"idle", "waiting", "done"}]
    BY DEF GoOn, TypeOK
  <1>4. reply' \in [Caller -> {"none", "ok", "error"}] /\ holder' \in Caller \cup {Nobody}
          /\ DOMAIN op' = Caller
    BY DEF GoOn, TypeOK
  <1>5. OthersStay(c)
    BY DEF GoOn, TypeOK, OthersStay
  <1>6. op'[c] = o /\ pc'[c] \in {"waiting", "done"} /\ reply'[c] = "none"
         /\ (o = "prewarm" => rid'[c] \in SessionIds)
         /\ holder' = IF holder = c THEN Nobody ELSE holder
    BY <1>1 DEF GoOn, TypeOK
  <1>7. QED
    BY <1>2, <1>3, <1>4, <1>5, <1>6 DEF CallersTyped

\* A caller that stays in its operation has the lock.
LEMMA StayMoves ==
  ASSUME TypeOK, NEW c \in Caller, NEW p \in Locked, NEW e \in PaidIds \cup {NoExperiment},
         Stay(c, p, e)
  PROVE  /\ CallersTyped /\ OthersStay(c)
         /\ op' = op /\ pc'[c] = p /\ rid'[c] = e /\ reply'[c] = "none" /\ holder' = c
  <1>1. rid' \in [Caller -> PaidIds \cup {NoExperiment}] /\ rid'[c] = e
    BY DEF Stay, TypeOK
  <1>2. pc' \in [Caller -> Locked \cup {"idle", "waiting", "done"}] /\ pc'[c] = p
    BY DEF Stay, TypeOK
  <1>3. OthersStay(c)
    BY DEF Stay, TypeOK, OthersStay
  <1>4. QED
    BY <1>1, <1>2, <1>3 DEF Stay, TypeOK, CallersTyped

-----------------------------------------------------------------------------
(* Who works with a reservation.                                           *)

\* While c has the lock, or nobody has it, nobody else works with a reservation.
LEMMA OthersIdle ==
  ASSUME HolderFits, NEW c \in Caller, holder \in {c, Nobody}, NEW d \in Caller \ {c}
  PROVE  pc[d] \notin Locked
  BY NameAssumption DEF HolderFits, Caller

\* Who does not work with a reservation has nothing to lose.
LEMMA IdleFits ==
  ASSUME NEW c \in Caller, OthersStay(c), NEW d \in Caller \ {c}, CallerFits(d),
         pc[d] \notin Locked
  PROVE  CallerFits(d)'
  BY DEF OthersStay, CallerFits, Locked

\* The lock goes with the caller that goes on, and comes with the one that stays.
LEMMA HolderMoves ==
  ASSUME HolderFits, NEW c \in Caller, OthersStay(c),
         \/ pc'[c] \notin Locked /\ holder' = IF holder = c THEN Nobody ELSE holder
         \/ pc'[c] \in Locked /\ holder' = c /\ holder \in {c, Nobody}
  PROVE  HolderFits'
  <1> SUFFICES ASSUME NEW d \in Caller PROVE (pc[d] \in Locked <=> holder = d)'
    BY DEF HolderFits, Locked
  <1>1. Nobody # d
    BY NameAssumption DEF Caller
  <1>2. CASE d = c
    BY <1>1, <1>2
  <1>3. CASE d # c
    BY <1>1, <1>3, NameAssumption DEF HolderFits, OthersStay, Caller
  <1>4. QED
    BY <1>2, <1>3

-----------------------------------------------------------------------------
(* Threads whose caller does not wait for them any more.                   *)

Orphan(c, w) == IF w.for = c THEN [w EXCEPT !.for = Nobody] ELSE w
Orphaned(c) == {Orphan(c, w) : w \in workers}

\* A thread whose caller is gone does the same work for nobody.
LEMMA OrphanIs ==
  ASSUME NEW c \in Caller, NEW w \in WorkerRecord
  PROVE  LET v == Orphan(c, w)
         IN  /\ v \in WorkerRecord /\ v.do = w.do /\ v.rid = w.rid /\ v.as = w.as
             /\ v.for = IF w.for = c THEN Nobody ELSE w.for
             /\ w.for # c => v = w
  BY DEF Orphan, WorkerRecord

\* A caller nobody works for leaves no thread behind.
LEMMA NoOrphans ==
  ASSUME NEW c \in Caller, \A w \in workers : w.for # c
  PROVE  workers = Orphaned(c)
  BY DEF Orphaned, Orphan

\* Nobody answers a caller that has its answer, or that waits for none.
LEMMA NoThread ==
  ASSUME TypeOK, WorkersFit, NEW c \in Caller,
         \/ reply[c] # "none"
         \/ pc[c] \notin {"authorizing", "settling", "expiring", "releasing"}
  PROVE  \A w \in workers : w.for # c
  BY NameAssumption DEF WorkersFit, Caller

\* The reservations about to be released are the same when a caller leaves its thread.
LEMMA OrphansDoom ==
  ASSUME TypeOK, NEW c \in Caller, workers' = Orphaned(c), NEW e
  PROVE  Doomed(e)' <=> Doomed(e)
  BY OrphanIs DEF TypeOK, Doomed, Orphaned

\* The threads fit still when a caller leaves, unless its own thread releases.
LEMMA OrphansFit ==
  ASSUME TypeOK, WorkersFit, NEW c \in Caller, workers' = Orphaned(c), OthersStay(c),
         \A w \in workers : w.for = c => w.do # "release", UNCHANGED ledger
  PROVE  WorkersFit' /\ workers' \subseteq WorkerRecord
  <1>1. workers \subseteq WorkerRecord
    BY DEF TypeOK
  <1>2. workers' \subseteq WorkerRecord
    BY <1>1, OrphanIs DEF Orphaned
  <1> SUFFICES ASSUME NEW x \in workers'
      PROVE /\ x.do = "release" => x.for # Nobody
            /\ x.for # Nobody =>
                 /\ reply'[x.for] = "none"
                 /\ \/ x.do = "authorize" /\ pc'[x.for] = "authorizing" /\ rid'[x.for] = x.rid
                    \/ x.do = "settle" /\ pc'[x.for] \in {"settling", "expiring"}
                    \/ x.do = "release" /\ pc'[x.for] = "releasing" /\ rid'[x.for] = x.rid
            /\ x.do = "settle" => /\ Reserves(x.rid)' \/ OnRecord(x.rid)'
                                  /\ x.rid \in SessionIds => x.as = x.rid
            /\ \A y \in workers' \ {x} :
                 /\ x.for # Nobody => y.for # x.for
                 /\ x.do = "settle" /\ y.do = "settle" /\ y.rid = x.rid => x.as = x.rid
    BY <1>2 DEF WorkersFit
  <1>3. PICK w \in workers : x = Orphan(c, w)
    BY DEF Orphaned
  <1>4. /\ w \in WorkerRecord /\ x.do = w.do /\ x.rid = w.rid /\ x.as = w.as
        /\ x.for = IF w.for = c THEN Nobody ELSE w.for
        /\ w.for # c => x = w
    BY <1>1, <1>3, OrphanIs
  <1>5. w.for \in Caller \cup {Nobody} /\ Nobody # c
    BY <1>4, NameAssumption DEF WorkerRecord, Caller
  <1>6. x.do = "release" => x.for # Nobody
    BY <1>4, <1>5 DEF WorkersFit
  <1>7. x.for # Nobody =>
                 /\ reply'[x.for] = "none"
                 /\ \/ x.do = "authorize" /\ pc'[x.for] = "authorizing" /\ rid'[x.for] = x.rid
                    \/ x.do = "settle" /\ pc'[x.for] \in {"settling", "expiring"}
                    \/ x.do = "release" /\ pc'[x.for] = "releasing" /\ rid'[x.for] = x.rid
    BY <1>4, <1>5 DEF WorkersFit, OthersStay
  <1>8. x.do = "settle" => /\ Reserves(x.rid)' \/ OnRecord(x.rid)'
                           /\ x.rid \in SessionIds => x.as = x.rid
    BY <1>4 DEF WorkersFit, Reserves, OnRecord
  <1>9. ASSUME NEW y \in workers' \ {x}
        PROVE  /\ x.for # Nobody => y.for # x.for
               /\ x.do = "settle" /\ y.do = "settle" /\ y.rid = x.rid => x.as = x.rid
    <2>1. PICK z \in workers : y = Orphan(c, z)
      BY <1>9 DEF Orphaned
    <2>2. /\ y.do = z.do /\ y.rid = z.rid
          /\ y.for = IF z.for = c THEN Nobody ELSE z.for
      BY <1>1, <2>1, OrphanIs
    <2>3. z # w
      BY <1>3, <1>9, <2>1
    <2>4. QED
      BY <1>4, <1>5, <2>2, <2>3 DEF WorkersFit
  <1>10. QED
    BY <1>6, <1>7, <1>8, <1>9

-----------------------------------------------------------------------------
(* A caller goes on.                                                       *)

SessionRecord == [exp : SessionIds \cup {NoExperiment}, motion : BOOLEAN,
                  scene : Caller \cup {Nobody}, preview : Caller \cup {Nobody},
                  expired : BOOLEAN]

\* The session, and what is prepared, after c has gone: neither leans on c.
SessionStands(c) ==
  Active' => /\ session'.exp \in SessionIds
             /\ Reserves(session'.exp) \/ OnRecord(session'.exp)
             /\ ~Reserves(session'.exp) \/ Doomed(session'.exp) =>
                  \/ session'.expired
                  \/ \E d \in Caller \ {c} : pc[d] = "settling" /\ rid[d] = session'.exp
PreparedStands(c) ==
  \A e \in prepared' :
    /\ e \in PreparedIds /\ e \notin owed /\ ~Doomed(e)
    /\ \/ Reserves(e)
       \/ \E d \in Caller \ {c} : pc[d] = "releasing" /\ reply[d] = "ok" /\ rid[d] = e

\* A caller that goes on to its next operation, and may drop the session or a
\* prepared authorization on the way, keeps the invariant.
LEMMA GoOnKeepsIInv ==
  ASSUME IInv, NEW c \in Caller, NEW o, GoOn(c, o), UNCHANGED <<ledger, owed>>,
         workers' = Orphaned(c), \A w \in workers : w.for = c => w.do # "release",
         session' \in SessionRecord,
         \/ holder \in {c, Nobody}
         \/ session'.exp = session.exp /\ prepared' = prepared,
         SessionStands(c), PreparedStands(c)
  PROVE  IInv'
  <1>1. TypeOK /\ HolderFits /\ WorkersFit /\ \A d \in Caller : CallerFits(d)
    BY DEF IInv
  <1>2. /\ CallersTyped /\ OthersStay(c)
        /\ op'[c] = o /\ pc'[c] \in {"waiting", "done"} /\ reply'[c] = "none"
        /\ o = "prewarm" => rid'[c] \in SessionIds
        /\ holder' = IF holder = c THEN Nobody ELSE holder
    BY <1>1, GoOnMoves
  <1>3. WorkersFit' /\ workers' \subseteq WorkerRecord
    BY <1>1, <1>2, OrphansFit
  <1>4. TypeOK'
    BY <1>1, <1>2, <1>3 DEF TypeOK, CallersTyped, SessionRecord
  <1>5. HolderFits'
    <2>1. pc'[c] \notin Locked
      BY <1>2 DEF Locked
    <2>2. QED
      BY <1>1, <1>2, <2>1, HolderMoves
  <1>6. \A e : (Doomed(e)' <=> Doomed(e)) /\ (Reserves(e)' <=> Reserves(e))
                 /\ (OnRecord(e)' <=> OnRecord(e))
    BY <1>1, OrphansDoom DEF Reserves, OnRecord
  <1>7. ASSUME NEW d \in Caller PROVE CallerFits(d)'
    <2>1. CASE d = c
      BY <1>2, <2>1 DEF CallerFits, Locked
    <2>2. CASE d # c /\ pc[d] \notin Locked
      BY <1>1, <1>2, <2>2, IdleFits
    <2>3. CASE d # c /\ pc[d] \in Locked
      <3>1. session'.exp = session.exp /\ prepared' = prepared
        BY <1>1, <2>3, OthersIdle
      <3>2. op'[d] = op[d] /\ pc'[d] = pc[d] /\ rid'[d] = rid[d] /\ reply'[d] = reply[d]
        BY <1>2, <2>3 DEF OthersStay
      <3>3. (OnSession(d) <=> OnSession(d)') /\ (OwnExperiment(d))' = OwnExperiment(d)
        BY <3>1, <3>2 DEF OnSession, OwnExperiment
      <3>4. CallerFits(d)
        BY <1>1
      <3>5. QED
        BY <1>6, <3>1, <3>2, <3>3, <3>4 DEF CallerFits
    <2>4. QED
      BY <2>1, <2>2, <2>3
  <1>8. SessionFits'
    <2> SUFFICES ASSUME Active'
        PROVE (/\ session.exp \in SessionIds /\ (Reserves(session.exp) \/ OnRecord(session.exp))
               /\ ~Reserves(session.exp) \/ Doomed(session.exp) =>
                    session.expired \/ \E d \in Caller : pc[d] = "settling" /\ OnSession(d))'
      BY DEF SessionFits
    <2>1. \A d \in Caller \ {c} : pc[d] = "settling" /\ rid[d] = session'.exp =>
            pc'[d] = "settling" /\ OnSession(d)'
      BY <1>2 DEF OthersStay, OnSession
    <2>2. (Reserves(session.exp)' <=> Reserves(session'.exp))
            /\ (OnRecord(session.exp)' <=> OnRecord(session'.exp))
            /\ (Doomed(session.exp)' <=> Doomed(session'.exp))
      <3>1. /\ Reserves(session.exp)' <=> Reserves(session'.exp)
            /\ OnRecord(session.exp)' <=> OnRecord(session'.exp)
        BY DEF Reserves, OnRecord
      <3>2. Doomed(session.exp)' <=> \E w \in workers' : w.do = "settle" /\ w.rid = session'.exp
        BY DEF Doomed
      <3>3. \A e : (\E w \in workers' : w.do = "settle" /\ w.rid = e) <=> Doomed(e)
        BY <1>6 DEF Doomed
      <3>4. QED
        BY <3>1, <3>2, <3>3
    <2>3. QED
      BY <2>1, <2>2 DEF SessionStands
  <1>9. PreparedFits'
    BY <1>2, <1>6 DEF PreparedFits, PreparedStands, OthersStay
  <1>10. OwedFits'
    BY DEF IInv, OwedFits, PaidCallsReserved
  <1>11. QED
    BY <1>3, <1>4, <1>5, <1>7, <1>8, <1>9, <1>10 DEF IInv

\* The session stands if c forgets it, or leaves it as it was.
LEMMA SessionStandsStill ==
  ASSUME IInv, NEW c \in Caller, UNCHANGED <<ledger, workers>> \/ workers' = Orphaned(c),
         \/ session' = NoSession
         \/ /\ session' = session \/ Active
            /\ session'.exp = session.exp /\ session'.expired = session.expired
            /\ ~(pc[c] = "settling" /\ OnSession(c))
  PROVE  SessionStands(c)
  <1> SUFFICES ASSUME Active'
      PROVE /\ session'.exp \in SessionIds
            /\ Reserves(session'.exp) \/ OnRecord(session'.exp)
            /\ ~Reserves(session'.exp) \/ Doomed(session'.exp) =>
                 \/ session'.expired
                 \/ \E d \in Caller \ {c} : pc[d] = "settling" /\ rid[d] = session'.exp
    BY DEF SessionStands
  <1>1. /\ Active /\ session'.exp = session.exp /\ session'.expired = session.expired
        /\ ~(pc[c] = "settling" /\ OnSession(c))
    BY DEF Active
  <1>2. SessionFits
    BY DEF IInv
  <1>3. QED
    BY <1>1, <1>2 DEF SessionFits, OnSession

\* The prepared authorizations stand when they stay and the caller released none.
LEMMA PreparedStandsStill ==
  ASSUME IInv, NEW c \in Caller, prepared' = prepared,
         ~(pc[c] = "releasing" /\ reply[c] = "ok")
  PROVE  PreparedStands(c)
  BY DEF IInv, PreparedFits, PreparedStands

\* No session is a session record.
LEMMA NoSessionRecord == NoSession \in SessionRecord
  BY DEF NoSession, SessionRecord

\* A caller goes on without having changed anything but the session.
LEMMA QuietlyKeepsIInv ==
  ASSUME IInv, NEW c \in Caller, NEW o, GoOn(c, o),
         UNCHANGED <<ledger, workers, owed, prepared>>,
         \/ reply[c] # "none"
         \/ pc[c] \notin {"authorizing", "settling", "expiring", "releasing"},
         ~(pc[c] = "releasing" /\ reply[c] = "ok"),
         \/ session' = NoSession /\ (holder \in {c, Nobody} \/ pc[c] \in Locked)
         \/ /\ session' = session \/ Active
            /\ session' \in SessionRecord
            /\ session'.exp = session.exp /\ session'.expired = session.expired
            /\ ~(pc[c] = "settling" /\ OnSession(c))
  PROVE  IInv'
  <1>1. \A w \in workers : w.for # c
    BY NoThread DEF IInv
  <1>2. workers' = Orphaned(c)
    BY <1>1, NoOrphans
  <1>3. SessionStands(c) /\ PreparedStands(c)
    BY SessionStandsStill, PreparedStandsStill
  <1>4. session' \in SessionRecord
    BY NoSessionRecord
  <1>5. holder \in {c, Nobody} \/ (session'.exp = session.exp /\ prepared' = prepared)
    BY DEF IInv, HolderFits
  <1>6. QED
    BY <1>1, <1>2, <1>3, <1>4, <1>5, GoOnKeepsIInv

\* The session is one always.
LEMMA SessionIsRecord == TypeOK => session \in SessionRecord
  BY DEF TypeOK, SessionRecord

\* Jobs begin, look at the session, and give an operation up before it begins.
LEMMA LooksKeepIInv ==
  ASSUME IInv, NEW c \in Caller, (c \in Job /\ BeginJob(c)) \/ Status(c) \/ NotReady(c)
  PROVE  IInv'
  <1>1. /\ UNCHANGED <<ledger, workers, session, prepared, owed>>
        /\ \E o : GoOn(c, o)
    <2>1. CASE BeginJob(c)
      BY <2>1 DEF BeginJob
    <2>2. CASE Status(c)
      BY <2>2 DEF Status
    <2>3. CASE NotReady(c)
      BY <2>3 DEF NotReady, Fail, AfterFailure
    <2>4. QED
      BY <2>1, <2>2, <2>3
  <1>2. pc[c] \notin Locked \ {"entered"}
    <2>1. CallerFits(c) /\ TypeOK
      BY DEF IInv
    <2>2. CASE BeginJob(c)
      BY <2>1, <2>2 DEF BeginJob, CallerFits, Locked, Paying, Expiring, Dropping
    <2>3. CASE Status(c) \/ NotReady(c)
      BY <2>3 DEF Status, NotReady, Inside, Locked
    <2>4. QED
      BY <2>2, <2>3
  <1>3. session \in SessionRecord
    BY SessionIsRecord DEF IInv
  <1>4. QED
    BY <1>1, <1>2, <1>3, QuietlyKeepsIInv DEF Locked

\* An operation ends on its way: it finds the session overdue or taken, its provider's
\* cap reached, its authorization refused, its prepared call there already.
LEMMA RefusalsKeepIInv ==
  ASSUME IInv, NEW c \in Caller, NEW o, GoOn(c, o),
         UNCHANGED <<ledger, workers, owed, prepared, session>>,
         \/ pc[c] \in {"waiting", "entered", "billing"}
         \/ pc[c] \in {"expiring", "authorizing"} /\ reply[c] # "none"
  PROVE  IInv'
  <1>1. session \in SessionRecord
    BY SessionIsRecord DEF IInv
  <1>2. QED
    BY <1>1, QuietlyKeepsIInv

\* The overdue session was settled by an operation that would have used it.
LEMMA ExpiredKeepsIInv ==
  ASSUME IInv, NEW c \in Caller, FinishExpiry(c), Fail(c)
  PROVE  IInv'
  <1>1. /\ pc[c] = "expiring" /\ reply[c] # "none" /\ session' \in {NoSession, session}
        /\ UNCHANGED <<ledger, workers, owed, prepared>>
        /\ \E o : GoOn(c, o)
    BY DEF FinishExpiry, Fail
  <1>2. session \in SessionRecord
    BY SessionIsRecord DEF IInv
  <1>3. QED
    BY <1>1, <1>2, QuietlyKeepsIInv DEF Locked

\* A call fails, warms the session, or leaves its mark in it.
LEMMA CallFailsKeepsIInv ==
  ASSUME IInv, NEW c \in Caller, CallFails(c)
  PROVE  IInv'
  <1>1. /\ pc[c] = "sent" /\ session' \in {NoSession, session}
        /\ UNCHANGED <<ledger, workers, owed, prepared>>
        /\ \E o : GoOn(c, o)
    BY DEF CallFails, Fail
  <1>2. session \in SessionRecord
    BY SessionIsRecord DEF IInv
  <1>3. QED
    BY <1>1, <1>2, QuietlyKeepsIInv DEF Locked

\* A warmed session is stored with the expiry the prewarm promised.
LEMMA WarmedKeepsIInv ==
  ASSUME IInv, NEW c \in Caller, Warmed(c)
  PROVE  IInv'
  <1>1. /\ op[c] = "prewarm" /\ pc[c] = "sent" /\ TypeOK /\ CallerFits(c) /\ HolderFits
        /\ UNCHANGED <<ledger, workers, owed, prepared>>
        /\ \E o : GoOn(c, o)
    BY DEF Warmed, IInv
  <1>2. rid[c] \in SessionIds /\ Reserves(rid[c]) /\ ~Doomed(rid[c])
    BY <1>1 DEF CallerFits, IInv, OwedFits, PaidCallsReserved, Reserves, Locked
  <1>3. \E motion \in BOOLEAN : session' = [NoSession EXCEPT !.exp = rid[c], !.motion = motion]
    BY DEF Warmed
  <1>4. session' \in SessionRecord /\ session'.exp = rid[c]
    BY <1>2, <1>3 DEF NoSession, SessionRecord
  <1>5. SessionStands(c)
    BY <1>2, <1>4 DEF SessionStands
  <1>6. PreparedStands(c)
    BY <1>1, PreparedStandsStill
  <1>7. \A w \in workers : w.for # c
    BY <1>1, NoThread DEF IInv
  <1>8. workers' = Orphaned(c)
    BY <1>1, <1>7, NoOrphans
  <1>9. holder = c
    BY <1>1 DEF HolderFits, Locked
  <1>10. QED
    BY <1>1, <1>4, <1>5, <1>6, <1>7, <1>8, <1>9, GoOnKeepsIInv

\* A generated preview keeps its session for the motion to come.
LEMMA KeptKeepsIInv ==
  ASSUME IInv, NEW c \in Caller, Kept(c)
  PROVE  IInv'
  <1>1. /\ pc[c] = "sent" /\ OnSession(c) /\ TypeOK /\ CallerFits(c)
        /\ UNCHANGED <<ledger, workers, owed, prepared>>
        /\ \E o : GoOn(c, o)
    BY DEF Kept, IInv
  <1>2. Active
    BY <1>1, Ids DEF CallerFits, OnSession, Active, NoSession
  <1>3. \/ session' = [session EXCEPT !.preview = c]
        \/ session' = [session EXCEPT !.scene = c]
    BY DEF Kept
  <1>4. session' \in SessionRecord /\ session'.exp = session.exp
          /\ session'.expired = session.expired
    BY <1>1, <1>3, SessionIsRecord DEF SessionRecord
  <1>5. QED
    BY <1>1, <1>2, <1>4, QuietlyKeepsIInv

\* A settlement ends, the clean-up forgets a session, or finds nothing to release.
LEMMA SettleEndsKeepsIInv ==
  ASSUME IInv, NEW c \in Caller, SettleEnds(c)
  PROVE  IInv'
  <1>1. /\ pc[c] = "settling" /\ reply[c] # "none"
        /\ \/ OnSession(c) /\ session' = NoSession
           \/ ~OnSession(c) /\ session' = session
        /\ UNCHANGED <<ledger, workers, owed, prepared>>
        /\ \E o : GoOn(c, o)
    BY DEF SettleEnds, Fail
  <1>2. session \in SessionRecord
    BY SessionIsRecord DEF IInv
  <1>3. QED
    BY <1>1, <1>2, QuietlyKeepsIInv DEF Locked

\* A job's clean-up forgets its session.
LEMMA DropSessionKeepsIInv ==
  ASSUME IInv, NEW c \in Caller, DropSession(c)
  PROVE  IInv'
  <1>1. /\ pc[c] = "waiting" /\ holder = Nobody /\ session' \in {NoSession, session}
        /\ UNCHANGED <<ledger, workers, owed, prepared>>
        /\ \E o : GoOn(c, o)
    BY DEF DropSession
  <1>2. session \in SessionRecord
    BY SessionIsRecord DEF IInv
  <1>3. QED
    BY <1>1, <1>2, QuietlyKeepsIInv

\* What was prepared has been released, or could not be.
LEMMA DroppedKeepsIInv ==
  ASSUME IInv, NEW c \in Caller, Dropped(c)
  PROVE  IInv'
  <1>1. /\ pc[c] = "releasing" /\ reply[c] # "none" /\ TypeOK /\ HolderFits
        /\ UNCHANGED <<ledger, workers, owed, session>>
        /\ \E o : GoOn(c, o)
    BY DEF Dropped, Fail, IInv
  <1>2. \/ prepared' = prepared \ {rid[c]}
        \/ prepared' = prepared /\ reply[c] = "error"
    BY DEF Dropped
  <1>3. session \in SessionRecord /\ SessionStands(c)
    BY <1>1, SessionIsRecord, SessionStandsStill
  <1>4. PreparedStands(c)
    BY <1>1, <1>2 DEF IInv, PreparedFits, PreparedStands
  <1>5. \A w \in workers : w.for # c
    BY <1>1, NoThread DEF IInv
  <1>6. workers' = Orphaned(c)
    BY <1>1, <1>5, NoOrphans
  <1>7. holder = c
    BY <1>1 DEF HolderFits, Locked
  <1>8. QED
    BY <1>1, <1>3, <1>4, <1>5, <1>6, <1>7, GoOnKeepsIInv

\* A job is cancelled anywhere: what its thread does from then on concerns a
\* reservation that nobody works with.
LEMMA CancelKeepsIInv ==
  ASSUME IInv, NEW c \in Caller, Cancel(c)
  PROVE  IInv'
  <1>1. /\ TypeOK /\ HolderFits /\ CallerFits(c)
        /\ op[c] \in Paying \cup {"status"} /\ workers' = Orphaned(c)
        /\ UNCHANGED <<ledger, prepared, owed>>
        /\ \E o : GoOn(c, o)
    BY DEF Cancel, IInv, Orphaned, Orphan
  <1>2. \/ session' = NoSession /\ pc[c] \in Locked
        \/ session' = session /\ ~(pc[c] = "settling" /\ OnSession(c))
    BY DEF Cancel, Locked
  <1>3. pc[c] # "releasing"
    BY <1>1 DEF CallerFits, Paying, Dropping
  <1>4. \A w \in workers : w.for = c => w.do # "release"
    BY <1>1, <1>3, NameAssumption DEF IInv, WorkersFit, Caller
  <1>5. SessionStands(c) /\ PreparedStands(c)
    BY <1>1, <1>2, <1>3, SessionStandsStill, PreparedStandsStill
  <1>6. session' \in SessionRecord
    BY <1>1, <1>2, SessionIsRecord, NoSessionRecord
  <1>7. holder \in {c, Nobody} \/ (session'.exp = session.exp /\ prepared' = prepared)
    BY <1>1, <1>2 DEF HolderFits
  <1>8. QED
    BY <1>1, <1>4, <1>5, <1>6, <1>7, GoOnKeepsIInv

-----------------------------------------------------------------------------
(* A caller stays in its operation.                                        *)

\* What c may be doing at p with reservation e.
Works(c, p, e) ==
  /\ op[c] = "prewarm" => e \in SessionIds
  /\ p \in {"billing", "authorizing", "sent", "settling"} =>
       op[c] \in Paying /\ e \in PaidIds \ prepared'
  /\ p \in {"billing", "authorizing"} /\ op[c] # "prewarm" => e = OwnExperiment(c)
  /\ p = "entered" => op[c] \in {"status", "prewarm"}
  /\ p = "expiring" => op[c] \in Expiring
  /\ p \in {"sent", "settling"} /\ op[c] # "prewarm" /\ e \in SessionIds => e = session'.exp
  /\ p = "sent" => e \in owed' /\ ~Doomed(e)
  /\ p = "releasing" => e \in prepared' /\ op[c] \in Dropping

\* A caller that holds the lock and stays in its operation keeps the invariant when
\* the parts it touches fit still.
LEMMA StayKeepsIInv ==
  ASSUME IInv, NEW c \in Caller, NEW p \in Locked, NEW e \in PaidIds \cup {NoExperiment},
         Stay(c, p, e), holder \in {c, Nobody}, UNCHANGED ledger,
         Works(c, p, e), p = "sent" => UNCHANGED workers,
         workers' \subseteq WorkerRecord, session' \in SessionRecord,
         SessionFits', PreparedFits', WorkersFit', OwedFits'
  PROVE  IInv'
  <1>1. TypeOK /\ HolderFits /\ \A d \in Caller : CallerFits(d)
    BY DEF IInv
  <1>2. /\ CallersTyped /\ OthersStay(c)
        /\ op' = op /\ pc'[c] = p /\ rid'[c] = e /\ reply'[c] = "none" /\ holder' = c
    BY <1>1, StayMoves
  <1>3. TypeOK'
    BY <1>1, <1>2 DEF TypeOK, CallersTyped, SessionRecord
  <1>4. HolderFits'
    BY <1>1, <1>2, HolderMoves
  <1>5. CallerFits(c)'
    <2>1. OwnExperiment(c)' = OwnExperiment(c) /\ (OnSession(c)' <=> e = session'.exp)
      BY <1>2 DEF OwnExperiment, OnSession
    <2>2. p = "sent" => ~Doomed(rid[c])'
      BY <1>2 DEF Works, Doomed
    <2>3. QED
      BY <1>2, <2>1, <2>2 DEF CallerFits, Works, Locked
  <1>6. \A d \in Caller \ {c} : CallerFits(d)'
    BY <1>1, <1>2, OthersIdle, IdleFits
  <1>7. QED
    BY <1>3, <1>4, <1>5, <1>6 DEF IInv

\* Where the others stay, session and prepared reservations stand as they did.
LEMMA SessionFitsStill ==
  ASSUME IInv, NEW c \in Caller, OthersStay(c), UNCHANGED <<ledger, workers>>,
         session' = NoSession \/ session' = session, pc[c] # "settling"
  PROVE  SessionFits'
  <1>1. CASE session' = NoSession
    BY <1>1 DEF SessionFits, Active, NoSession, NoExperiment
  <1>2. CASE session' = session
    <2>1. SessionFits
      BY DEF IInv
    <2>2. \A d \in Caller : pc[d] = "settling" /\ OnSession(d) =>
            (pc[d] = "settling" /\ OnSession(d))'
      BY <1>2 DEF OthersStay, OnSession
    <2>3. QED
      BY <1>2, <2>1, <2>2 DEF SessionFits, Active, Reserves, OnRecord, Doomed, NoSession, NoExperiment
  <1>3. QED
    BY <1>1, <1>2

\* Fewer prepared authorizations fit where more did.
LEMMA PreparedFitsStill ==
  ASSUME IInv, NEW c \in Caller, OthersStay(c), UNCHANGED <<ledger, workers>>,
         prepared' \subseteq prepared, owed' \cap prepared' = {}, pc[c] # "releasing"
  PROVE  PreparedFits'
  <1>1. \A d \in Caller : pc[d] = "releasing" => pc'[d] = pc[d] /\ reply'[d] = reply[d]
                                                 /\ rid'[d] = rid[d]
    BY DEF OthersStay
  <1>2. QED
    BY <1>1 DEF IInv, PreparedFits, Reserves, Doomed

\* The threads fit still when a caller without one moves.
LEMMA WorkersFitStill ==
  ASSUME IInv, NEW c \in Caller, OthersStay(c), UNCHANGED <<ledger, workers>>,
         \A w \in workers : w.for # c
  PROVE  WorkersFit'
  <1>1. \A w \in workers : w.for # Nobody => w.for \in Caller \ {c}
    BY DEF IInv, TypeOK, WorkerRecord
  <1>2. \A w \in workers : w.for # Nobody =>
          pc'[w.for] = pc[w.for] /\ reply'[w.for] = reply[w.for] /\ rid'[w.for] = rid[w.for]
    BY <1>1 DEF OthersStay
  <1>3. WorkersFit
    BY DEF IInv
  <1>4. QED
    BY <1>2, <1>3 DEF WorkersFit, Reserves, OnRecord

\* A caller enters the lock, or reads the report before it reserves.
LEMMA EntersKeepsIInv ==
  ASSUME IInv, NEW c \in Caller, NEW p \in {"entered", "billing"},
         NEW e \in PaidIds \cup {NoExperiment}, Stay(c, p, e), holder \in {c, Nobody},
         UNCHANGED <<ledger, workers, prepared, owed>>,
         session' = NoSession \/ session' = session, Works(c, p, e),
         \/ pc[c] \in {"waiting", "entered"}
         \/ pc[c] = "expiring" /\ reply[c] # "none"
  PROVE  IInv'
  <1>1. TypeOK /\ p \in Locked
    BY DEF IInv, Locked
  <1>2. OthersStay(c)
    BY <1>1, StayMoves
  <1>3. \A w \in workers : w.for # c
    BY NoThread DEF IInv
  <1>4. session' \in SessionRecord /\ workers' \subseteq WorkerRecord
    BY <1>1, SessionIsRecord, NoSessionRecord DEF TypeOK
  <1>5. SessionFits' /\ WorkersFit'
    BY <1>2, <1>3, SessionFitsStill, WorkersFitStill
  <1>6. PreparedFits'
    <2>1. owed' \cap prepared' = {}
      BY DEF IInv, PreparedFits
    <2>2. QED
      BY <1>2, <2>1, PreparedFitsStill
  <1>7. OwedFits'
    BY DEF IInv, OwedFits, PaidCallsReserved
  <1>8. p # "sent"
    OBVIOUS
  <1>9. QED
    BY <1>1, <1>4, <1>5, <1>6, <1>7, <1>8, StayKeepsIInv

\* The lock is free, or the caller's own.
LEMMA InsideHolds ==
  ASSUME IInv, NEW c \in Caller, Inside(c) \/ pc[c] \in Locked \/ holder = Nobody
  PROVE  holder \in {c, Nobody}
  BY DEF IInv, HolderFits, Inside, Locked

\* The answer to the settlement of an expired session.
LEMMA FinishExpiryKeepsIInv ==
  ASSUME IInv, NEW c \in Caller, FinishExpiry(c)
  PROVE  IInv'
  <1>1. CASE Fail(c)
    BY <1>1, ExpiredKeepsIInv
  <1>2. CASE op[c] \in {"status", "prewarm"} /\ Stay(c, "entered", rid[c])
    <2>1. /\ TypeOK /\ CallerFits(c) /\ pc[c] = "expiring" /\ reply[c] # "none"
          /\ session' \in {NoSession, session}
          /\ UNCHANGED <<ledger, workers, prepared, owed>>
      BY DEF FinishExpiry, IInv
    <2>2. rid[c] \in PaidIds \cup {NoExperiment}
      BY <2>1 DEF TypeOK
    <2>3. Works(c, "entered", rid[c])
      BY <1>2, <2>1 DEF Works, CallerFits, Locked
    <2>4. holder \in {c, Nobody}
      BY <2>1, InsideHolds DEF Locked
    <2>5. QED
      BY <1>2, <2>1, <2>2, <2>3, <2>4, EntersKeepsIInv
  <1>3. QED
    BY <1>1, <1>2 DEF FinishExpiry

\* A prewarm that has the lock begins: nothing, an expiry, or a reservation.
LEMMA PrewarmsKeepsIInv ==
  ASSUME IInv, NEW c \in Caller, Prewarms(c)
  PROVE  IInv'
  <1>1. /\ TypeOK /\ CallerFits(c) /\ op[c] = "prewarm" /\ pc[c] \in {"waiting", "entered"}
        /\ UNCHANGED <<ledger, workers, session, prepared, owed>> /\ holder \in {c, Nobody}
    BY InsideHolds DEF Prewarms, Inside, IInv
  <1>2. CASE Fail(c)
    BY <1>1, <1>2, RefusalsKeepIInv DEF Fail
  <1>3. CASE Stay(c, "billing", rid[c])
    <2>1. rid[c] \in SessionIds /\ rid[c] \in PaidIds
      BY <1>1, Ids DEF CallerFits, Locked
    <2>2. rid[c] \notin prepared
      BY <2>1, Ids DEF IInv, PreparedFits
    <2>3. Works(c, "billing", rid[c])
      BY <1>1, <2>1, <2>2 DEF Works, Paying
    <2>4. QED
      BY <1>1, <1>3, <2>1, <2>3, EntersKeepsIInv
  <1>4. QED
    BY <1>2, <1>3 DEF Prewarms

\* An operation asks for a reservation of its own.
LEMMA ChargeKeepsIInv ==
  ASSUME IInv, NEW c \in Caller, Charge(c, OwnExperiment(c)), holder \in {c, Nobody},
         UNCHANGED <<ledger, workers, session, prepared, owed>>,
         pc[c] \in {"waiting", "entered"},
         op[c] \in Paying \ {"prewarm"}, OwnExperiment(c) \in PaidIds \ prepared
  PROVE  IInv'
  <1>1. CASE Fail(c)
    BY <1>1, RefusalsKeepIInv DEF Fail
  <1>2. CASE Stay(c, "billing", OwnExperiment(c))
    <2>1. Works(c, "billing", OwnExperiment(c))
      BY DEF Works
    <2>2. QED
      BY <1>2, <2>1, EntersKeepsIInv
  <1>3. QED
    BY <1>1, <1>2 DEF Charge

\* An authorization is prepared ahead of the plan.
LEMMA PrepareKeepsIInv ==
  ASSUME IInv, NEW c \in Caller, Prepare(c)
  PROVE  IInv'
  <1>1. /\ op[c] \in {"prepare", "preparePreview"} /\ pc[c] = "waiting" /\ holder = Nobody
        /\ UNCHANGED <<ledger, workers, session, prepared, owed>>
    BY DEF Prepare
  <1>2. CASE GoOn(c, NextOp(c))
    BY <1>1, <1>2, RefusalsKeepIInv
  <1>3. CASE Charge(c, OwnExperiment(c)) /\ OwnExperiment(c) \notin prepared
    <2>1. OwnExperiment(c) \in PaidIds /\ op[c] \in Paying \ {"prewarm"}
      BY <1>1, OwnIds, Ids DEF Paying
    <2>2. QED
      BY <1>1, <1>3, <2>1, ChargeKeepsIInv
  <1>4. QED
    BY <1>2, <1>3 DEF Prepare

\* A generation without a session reserves its own ceiling.
LEMMA GenerateAloneKeepsIInv ==
  ASSUME IInv, NEW c \in Caller, GenerateAlone(c)
  PROVE  IInv'
  <1>1. /\ op[c] \in {"preview", "fast", "motion"} /\ pc[c] \in {"waiting", "entered"}
        /\ PreparedFor(c) \notin prepared /\ Charge(c, OwnExperiment(c))
        /\ UNCHANGED <<ledger, workers, session, prepared, owed>> /\ holder \in {c, Nobody}
    BY InsideHolds DEF GenerateAlone, Generates, Inside
  <1>2. op[c] \in Paying \ {"prewarm"}
    BY <1>1 DEF Paying
  <1>3. OwnExperiment(c) \in PaidIds
    BY <1>2, OwnIds
  <1>4. OwnExperiment(c) \notin prepared
    BY <1>1, OwnIds DEF IInv, PreparedFits
  <1>5. QED
    BY <1>1, <1>2, <1>3, <1>4, ChargeKeepsIInv

-----------------------------------------------------------------------------
(* A paid call is sent.                                                    *)

\* It is sent under a reservation that nobody settles and that is prepared no more.
LEMMA SendsKeepsIInv ==
  ASSUME IInv, NEW c \in Caller, NEW e \in PaidIds, Stay(c, "sent", e),
         holder \in {c, Nobody}, UNCHANGED <<ledger, workers, session>>,
         owed' = owed \cup {e}, prepared' \subseteq prepared, e \notin prepared',
         op[c] \in Paying, Reserves(e), ~Doomed(e),
         op[c] = "prewarm" => e \in SessionIds,
         op[c] # "prewarm" /\ e \in SessionIds => e = session.exp,
         \/ pc[c] \in {"waiting", "entered"}
         \/ pc[c] = "authorizing" /\ reply[c] # "none"
  PROVE  IInv'
  <1>1. TypeOK /\ "sent" \in Locked
    BY DEF IInv, Locked
  <1>2. OthersStay(c)
    BY <1>1, StayMoves
  <1>3. \A w \in workers : w.for # c
    BY NoThread DEF IInv
  <1>4. session' \in SessionRecord /\ workers' \subseteq WorkerRecord
    BY <1>1, SessionIsRecord DEF TypeOK
  <1>5. SessionFits' /\ WorkersFit'
    BY <1>2, <1>3, SessionFitsStill, WorkersFitStill
  <1>6. PreparedFits'
    <2>1. owed' \cap prepared' = {}
      BY DEF IInv, PreparedFits
    <2>2. QED
      BY <1>2, <2>1, PreparedFitsStill
  <1>7. OwedFits'
    BY DEF IInv, OwedFits, PaidCallsReserved, Reserves
  <1>8. Works(c, "sent", e)
    BY DEF Works
  <1>9. QED
    BY <1>1, <1>4, <1>5, <1>6, <1>7, <1>8, StayKeepsIInv

\* The answer to a reservation: the call is sent, or it is refused.
LEMMA AuthorizedKeepsIInv ==
  ASSUME IInv, NEW c \in Caller, Authorized(c)
  PROVE  IInv'
  <1>1. /\ TypeOK /\ HolderFits /\ CallerFits(c) /\ pc[c] = "authorizing" /\ reply[c] # "none"
        /\ UNCHANGED <<ledger, workers, session>>
    BY DEF Authorized, IInv
  <1>2. holder = c
    BY <1>1 DEF HolderFits, Locked
  <1>3. op[c] \in Paying /\ rid[c] \in PaidIds \ prepared
    BY <1>1 DEF CallerFits
  <1>4. CASE reply[c] = "error"
    BY <1>1, <1>4, RefusalsKeepIInv DEF Authorized, Fail
  <1>5. CASE reply[c] = "ok" /\ op[c] \in {"prepare", "preparePreview"}
    <2>1. /\ prepared' = prepared \cup {rid[c]} /\ GoOn(c, NextOp(c)) /\ UNCHANGED owed
      BY <1>5 DEF Authorized
    <2>2. rid[c] \in PreparedIds
      BY <1>1, <1>5, OwnIds DEF CallerFits
    <2>3. Reserves(rid[c]) /\ rid[c] \notin owed /\ ~Doomed(rid[c])
      BY <1>1, <1>5 DEF CallerFits
    <2>4. PreparedStands(c)
      BY <1>1, <2>1, <2>2, <2>3 DEF IInv, PreparedFits, PreparedStands
    <2>5. session' \in SessionRecord /\ SessionStands(c)
      BY <1>1, SessionIsRecord, SessionStandsStill
    <2>6. \A w \in workers : w.for # c
      BY <1>1, NoThread DEF IInv
    <2>7. workers' = Orphaned(c)
      BY <1>1, <2>6, NoOrphans
    <2>8. QED
      BY <1>1, <1>2, <2>1, <2>4, <2>5, <2>6, <2>7, GoOnKeepsIInv
  <1>6. CASE reply[c] = "ok" /\ op[c] \notin {"prepare", "preparePreview"}
    <2>1. /\ Stay(c, "sent", rid[c]) /\ owed' = owed \cup {rid[c]} /\ UNCHANGED prepared
      BY <1>6 DEF Authorized
    <2>2. Reserves(rid[c]) /\ ~Doomed(rid[c])
      BY <1>1, <1>6 DEF CallerFits
    <2>3. op[c] = "prewarm" => rid[c] \in SessionIds
      BY <1>1 DEF CallerFits, Locked
    <2>4. op[c] # "prewarm" => rid[c] \notin SessionIds
      BY <1>1, <1>3, OwnIds DEF CallerFits
    <2>5. QED
      BY <1>1, <1>2, <1>3, <2>1, <2>2, <2>3, <2>4, SendsKeepsIInv
  <1>7. QED
    BY <1>1, <1>4, <1>5, <1>6 DEF TypeOK

\* A session that is not overdue has its reservation, unless its holder settles it.
LEMMA SessionPays ==
  ASSUME IInv, NEW c \in Caller, pc[c] # "settling", holder \in {c, Nobody},
         Active, ~Overdue
  PROVE  session.exp \in SessionIds /\ Reserves(session.exp) /\ ~Doomed(session.exp)
  <1>1. \A d \in Caller : pc[d] # "settling"
    BY OthersIdle DEF IInv, Locked
  <1>2. QED
    BY <1>1 DEF IInv, SessionFits, Overdue

\* A generation begins with the lock free and no session overdue.
LEMMA GeneratesIsInside ==
  ASSUME IInv, NEW c \in Caller, Generates(c)
  PROVE  /\ pc[c] = "waiting" /\ holder = Nobody /\ ~Overdue
         /\ op[c] \in Paying \ {"prewarm"}
  BY DEF Generates, Inside, IInv, CallerFits, Paying

\* A generation on a warm session is sent under the session's reservation.
LEMMA GenerateOnSessionKeepsIInv ==
  ASSUME IInv, NEW c \in Caller, GenerateOnSession(c)
  PROVE  IInv'
  <1>1. /\ pc[c] = "waiting" /\ holder = Nobody /\ Active /\ ~Overdue
        /\ op[c] \in Paying \ {"prewarm"}
        /\ UNCHANGED <<ledger, workers, session, prepared>>
    BY GeneratesIsInside DEF GenerateOnSession
  <1>2. CASE Fail(c) /\ UNCHANGED owed
    BY <1>1, <1>2, RefusalsKeepIInv DEF Fail
  <1>3. CASE Stay(c, "sent", session.exp) /\ owed' = owed \cup {session.exp}
    <2>1. session.exp \in SessionIds /\ Reserves(session.exp) /\ ~Doomed(session.exp)
      BY <1>1, SessionPays
    <2>2. session.exp \in PaidIds /\ session.exp \notin prepared
      BY <2>1, Ids DEF IInv, PreparedFits
    <2>3. QED
      BY <1>1, <1>3, <2>1, <2>2, SendsKeepsIInv
  <1>4. QED
    BY <1>2, <1>3 DEF GenerateOnSession

\* A generation with a prepared authorization uses it up.
LEMMA GeneratePreparedKeepsIInv ==
  ASSUME IInv, NEW c \in Caller, GeneratePrepared(c)
  PROVE  IInv'
  <1> DEFINE e == PreparedFor(c)
  <1>1. /\ pc[c] = "waiting" /\ holder = Nobody /\ op[c] \in Paying \ {"prewarm"}
        /\ e \in prepared /\ prepared' = prepared \ {e}
        /\ Stay(c, "sent", e) /\ owed' = owed \cup {e}
        /\ UNCHANGED <<ledger, workers, session>>
    BY GeneratesIsInside DEF GeneratePrepared
  <1> HIDE DEF e
  <1>2. \A d \in Caller : pc[d] # "releasing"
    BY <1>1, OthersIdle DEF IInv, Locked
  <1>3. e \in PreparedIds /\ Reserves(e) /\ ~Doomed(e)
    BY <1>1, <1>2 DEF IInv, PreparedFits
  <1>4. e \in PaidIds /\ e \notin SessionIds
    BY <1>3, Ids
  <1>5. QED
    BY <1>1, <1>3, <1>4, SendsKeepsIInv

-----------------------------------------------------------------------------
(* A thread is started, and its caller waits for it.                       *)

\* What the thread w of a caller at p with reservation e may be about to do.  If it
\* settles, no thread settles the same reservation under another name, and nobody else
\* counts on what it settles.
Sets(w, p, e) ==
  /\ \/ w.do = "authorize" /\ p = "authorizing" /\ w.rid = e
     \/ w.do = "settle" /\ p \in {"settling", "expiring"}
     \/ w.do = "release" /\ p = "releasing" /\ w.rid = e
  /\ w.do = "settle" =>
       /\ Reserves(w.rid) \/ OnRecord(w.rid)
       /\ w.rid \in SessionIds => w.as = w.rid
       /\ w.rid \in SessionIds \/ ~Doomed(w.rid)
       /\ w.rid \notin prepared
       /\ Active /\ w.rid = session.exp =>
            session.expired \/ (p = "settling" /\ e = session.exp)

\* An operation that waited gets the lock and begins.
LEMMA StartsKeepsIInv ==
  ASSUME IInv, NEW c \in Caller, NEW p \in {"authorizing", "settling", "expiring", "releasing"},
         NEW e \in PaidIds \cup {NoExperiment}, Stay(c, p, e), holder \in {c, Nobody},
         UNCHANGED <<ledger, prepared, owed>>,
         NEW w \in WorkerRecord, w.for = c, workers' = workers \cup {w}, Sets(w, p, e),
         session' \in SessionRecord, session' = session \/ Active,
         session'.exp = session.exp, session'.expired = session.expired,
         Works(c, p, e), pc[c] \in {"waiting", "billing", "sent"}
  PROVE  IInv'
  <1>1. TypeOK /\ p \in Locked
    BY DEF IInv, Locked
  <1>2. /\ OthersStay(c)
        /\ op' = op /\ pc'[c] = p /\ rid'[c] = e /\ reply'[c] = "none"
    BY <1>1, StayMoves
  <1>3. \A v \in workers : v.for # c
    BY NoThread DEF IInv
  <1>4. workers' \subseteq WorkerRecord
    BY <1>1 DEF TypeOK
  <1>5. \A x : (Reserves(x)' <=> Reserves(x)) /\ (OnRecord(x)' <=> OnRecord(x))
    BY DEF Reserves, OnRecord
  <1>6. SessionFits'
    <2> SUFFICES ASSUME Active'
        PROVE (/\ session.exp \in SessionIds /\ (Reserves(session.exp) \/ OnRecord(session.exp))
               /\ ~Reserves(session.exp) \/ Doomed(session.exp) =>
                    session.expired \/ \E d \in Caller : pc[d] = "settling" /\ OnSession(d))'
      BY DEF SessionFits
    <2>1. Active
      BY DEF Active
    <2>2. \A d \in Caller : pc[d] # "settling"
      BY OthersIdle DEF IInv, Locked
    <2>3. session.exp \in SessionIds /\ (Reserves(session.exp) \/ OnRecord(session.exp))
            /\ (~Reserves(session.exp) \/ Doomed(session.exp) => session.expired)
      BY <2>1, <2>2 DEF IInv, SessionFits
    <2>4. Doomed(session.exp)' => Doomed(session.exp) \/ (w.do = "settle" /\ w.rid = session.exp)
      <3>1. Doomed(session.exp)' =>
              \E v \in workers \cup {w} : v.do = "settle" /\ v.rid = session.exp
        BY DEF Doomed
      <3>2. (\E v \in workers \cup {w} : v.do = "settle" /\ v.rid = session.exp) =>
              Doomed(session.exp) \/ (w.do = "settle" /\ w.rid = session.exp)
        BY DEF Doomed
      <3>3. QED
        BY <3>1, <3>2
    <2>5. p = "settling" /\ e = session.exp => (pc[c] = "settling" /\ OnSession(c))'
      BY <1>2 DEF OnSession
    <2>6. Reserves(session.exp)' = Reserves(session.exp)
            /\ OnRecord(session.exp)' = OnRecord(session.exp)
      BY DEF Reserves, OnRecord
    <2>7. QED
      BY <2>1, <2>3, <2>4, <2>5, <2>6 DEF Sets
  <1>7. PreparedFits'
    <2>1. \A x \in prepared : Doomed(x)' => Doomed(x)
      BY DEF Doomed, Sets
    <2>2. \A d \in Caller : pc[d] = "releasing" =>
            pc'[d] = pc[d] /\ reply'[d] = reply[d] /\ rid'[d] = rid[d]
      BY <1>2 DEF OthersStay
    <2>3. QED
      BY <1>5, <2>1, <2>2 DEF IInv, PreparedFits
  <1>8. WorkersFit'
    <2>1. \A v \in workers : v.for # Nobody => v.for \in Caller \ {c}
      BY <1>1, <1>3 DEF TypeOK, WorkerRecord
    <2>2. \A v \in workers : v.for # Nobody =>
            pc'[v.for] = pc[v.for] /\ reply'[v.for] = reply[v.for] /\ rid'[v.for] = rid[v.for]
      BY <1>2, <2>1 DEF OthersStay
    <2>3. WorkersFit
      BY DEF IInv
    <2>4. ASSUME NEW v \in workers
          PROVE  /\ v.do = "release" => v.for # Nobody
                 /\ v.for # Nobody =>
                      /\ reply'[v.for] = "none"
                      /\ \/ v.do = "authorize" /\ pc'[v.for] = "authorizing" /\ rid'[v.for] = v.rid
                         \/ v.do = "settle" /\ pc'[v.for] \in {"settling", "expiring"}
                         \/ v.do = "release" /\ pc'[v.for] = "releasing" /\ rid'[v.for] = v.rid
                 /\ v.do = "settle" => /\ Reserves(v.rid)' \/ OnRecord(v.rid)'
                                       /\ v.rid \in SessionIds => v.as = v.rid
      BY <1>5, <2>2, <2>3 DEF WorkersFit
    <2>5. /\ w.for # Nobody /\ reply'[c] = "none"
          /\ \/ w.do = "authorize" /\ pc'[c] = "authorizing" /\ rid'[c] = w.rid
             \/ w.do = "settle" /\ pc'[c] \in {"settling", "expiring"}
             \/ w.do = "release" /\ pc'[c] = "releasing" /\ rid'[c] = w.rid
          /\ w.do = "settle" => /\ Reserves(w.rid)' \/ OnRecord(w.rid)'
                                /\ w.rid \in SessionIds => w.as = w.rid
      BY <1>2, <1>5, NameAssumption DEF Sets, Caller
    <2>6. ASSUME NEW v \in workers', NEW u \in workers' \ {v}
          PROVE  /\ v.for # Nobody => u.for # v.for
                 /\ v.do = "settle" /\ u.do = "settle" /\ u.rid = v.rid => v.as = v.rid
      <3>1. CASE v \in workers /\ u \in workers
        BY <2>3, <2>6, <3>1 DEF WorkersFit
      <3>2. CASE v = w /\ u \in workers
        BY <1>3, <3>2 DEF Sets, Doomed
      <3>3. CASE v \in workers /\ u = w
        BY <1>3, <2>3, <3>3 DEF Sets, Doomed, WorkersFit
      <3>4. QED
        BY <2>6, <3>1, <3>2, <3>3
    <2>7. QED
      BY <2>4, <2>5, <2>6 DEF WorkersFit
  <1>9. OwedFits'
    BY DEF IInv, OwedFits, PaidCallsReserved
  <1>10. p # "sent"
    OBVIOUS
  <1>11. QED
    BY <1>1, <1>4, <1>6, <1>7, <1>8, <1>9, <1>10, StayKeepsIInv

\* A new thread does what it was started for.
LEMMA WorkerIs ==
  ASSUME NEW c \in Caller, NEW do \in {"authorize", "settle", "release"}, NEW e \in PaidIds,
         NEW as \in PaidIds, NEW amount \in Nat
  PROVE  LET w == Worker(c, do, e, as, amount)
         IN  /\ w \in WorkerRecord /\ w.do = do /\ w.rid = e /\ w.as = as /\ w.for = c
  BY DEF Worker, WorkerRecord

\* The settlement of an expired session is handed to a thread.
LEMMA StartExpiryKeepsIInv ==
  ASSUME IInv, NEW c \in Caller, StartExpiry(c)
  PROVE  IInv'
  <1>1. /\ op[c] \in Expiring /\ pc[c] = "waiting" /\ holder = Nobody /\ Active /\ session.expired
        /\ Stay(c, "expiring", rid[c]) /\ UNCHANGED <<ledger, session, prepared, owed>>
        /\ TypeOK /\ CallerFits(c)
    BY DEF StartExpiry, Overdue, IInv
  <1>2. PICK cost \in CostsUpTo(SessionCeiling) :
          workers' = workers \cup {Worker(c, "settle", session.exp, session.exp, cost)}
    BY DEF StartExpiry, Start
  <1>3. session.exp \in SessionIds /\ (Reserves(session.exp) \/ OnRecord(session.exp))
    BY <1>1 DEF IInv, SessionFits
  <1>4. session.exp \in PaidIds /\ session.exp \notin prepared /\ cost \in Nat
    BY <1>3, Ids, WarmAssumption DEF IInv, PreparedFits, CostsUpTo
  <1> DEFINE w == Worker(c, "settle", session.exp, session.exp, cost)
  <1>5. w \in WorkerRecord /\ w.do = "settle" /\ w.rid = session.exp
          /\ w.as = session.exp /\ w.for = c /\ workers' = workers \cup {w}
    BY <1>2, <1>4, WorkerIs
  <1> HIDE DEF w
  <1>6. Sets(w, "expiring", rid[c])
    BY <1>1, <1>3, <1>4, <1>5 DEF Sets
  <1>7. Works(c, "expiring", rid[c])
    BY <1>1 DEF Works, CallerFits
  <1>8. rid[c] \in PaidIds \cup {NoExperiment} /\ session \in SessionRecord
    BY <1>1, SessionIsRecord DEF TypeOK
  <1>9. QED
    BY <1>1, <1>5, <1>6, <1>7, <1>8, StartsKeepsIInv

\* The billing report is in, and the reservation is handed to a thread.
LEMMA ReadBillingKeepsIInv ==
  ASSUME IInv, NEW c \in Caller, ReadBilling(c)
  PROVE  IInv'
  <1>1. /\ pc[c] = "billing" /\ UNCHANGED <<ledger, session, prepared, owed>>
        /\ TypeOK /\ CallerFits(c)
    BY DEF ReadBilling, IInv
  <1>2. CASE Fail(c) /\ UNCHANGED workers
    BY <1>1, <1>2, RefusalsKeepIInv DEF Fail
  <1>3. CASE Stay(c, "authorizing", rid[c]) /\
             \E amount \in Nat :
               workers' = workers \cup {Worker(c, "authorize", rid[c], rid[c], amount)}
    <2>1. PICK amount \in Nat :
            workers' = workers \cup {Worker(c, "authorize", rid[c], rid[c], amount)}
      BY <1>3
    <2>2. rid[c] \in PaidIds \ prepared /\ op[c] \in Paying
      BY <1>1 DEF CallerFits
    <2> DEFINE w == Worker(c, "authorize", rid[c], rid[c], amount)
    <2>3. w \in WorkerRecord /\ w.do = "authorize" /\ w.rid = rid[c] /\ w.for = c
            /\ workers' = workers \cup {w}
      BY <2>1, <2>2, WorkerIs
    <2> HIDE DEF w
    <2>4. Sets(w, "authorizing", rid[c])
      BY <2>3 DEF Sets
    <2>5. Works(c, "authorizing", rid[c])
      BY <1>1, <2>2 DEF Works, CallerFits, Locked
    <2>6. holder \in {c, Nobody} /\ session \in SessionRecord
      BY <1>1, InsideHolds, SessionIsRecord DEF Locked
    <2>7. QED
      BY <1>1, <1>3, <2>2, <2>3, <2>4, <2>5, <2>6, StartsKeepsIInv
  <1>4. QED
    <2>1. SessionCeiling \in Nat /\ CallCeiling \in Nat
      BY WarmAssumption
    <2>2. Start(c, Worker(c, "authorize", rid[c], rid[c],
                         IF op[c] = "prewarm" THEN SessionCeiling ELSE CallCeiling)) =>
            \E amount \in Nat :
               workers' = workers \cup {Worker(c, "authorize", rid[c], rid[c], amount)}
      BY <2>1 DEF Start
    <2>3. QED
      BY <1>2, <1>3, <2>2 DEF ReadBilling

\* A prepared authorization nobody used is given back.
LEMMA DropPreparedKeepsIInv ==
  ASSUME IInv, NEW c \in Caller, DropPrepared(c)
  PROVE  IInv'
  <1>1. /\ op[c] \in {"dropPrepared", "dropPreview"} /\ pc[c] = "waiting" /\ holder = Nobody
        /\ UNCHANGED <<ledger, session, prepared, owed>> /\ TypeOK
    BY DEF DropPrepared, IInv
  <1>2. CASE GoOn(c, NextOp(c)) /\ UNCHANGED workers
    BY <1>1, <1>2, RefusalsKeepIInv
  <1> DEFINE e == PreparedFor(c)
             w == Worker(c, "release", e, e, 0)
  <1>3. CASE e \in prepared /\ Start(c, w) /\ Stay(c, "releasing", e)
    <2>1. e \in PaidIds /\ e \in prepared /\ Stay(c, "releasing", e)
      BY <1>3, Ids DEF IInv, PreparedFits
    <2>2. w \in WorkerRecord /\ w.do = "release" /\ w.rid = e /\ w.for = c
            /\ workers' = workers \cup {w}
      BY <1>3, <2>1, WorkerIs DEF Start
    <2> HIDE DEF w, e
    <2>3. Sets(w, "releasing", e)
      BY <2>2 DEF Sets
    <2>4. Works(c, "releasing", e)
      BY <1>1, <2>1 DEF Works, Dropping
    <2>5. session \in SessionRecord
      BY <1>1, SessionIsRecord
    <2>6. QED
      BY <1>1, <2>1, <2>2, <2>3, <2>4, <2>5, StartsKeepsIInv
  <1>4. QED
    BY <1>2, <1>3 DEF DropPrepared

\* What a call cost is known: its own reservation is settled, or the session's.
LEMMA SettlesKeepsIInv ==
  ASSUME IInv, NEW c \in Caller, Settles(c)
  PROVE  IInv'
  <1>1. /\ pc[c] = "sent" /\ Stay(c, "settling", rid[c]) /\ UNCHANGED <<ledger, prepared, owed>>
        /\ TypeOK /\ CallerFits(c)
    BY DEF Settles, IInv
  <1>2. /\ op[c] \in Paying /\ rid[c] \in PaidIds \ prepared /\ ~Doomed(rid[c])
        /\ Reserves(rid[c])
        /\ op[c] = "prewarm" => rid[c] \in SessionIds
        /\ op[c] # "prewarm" /\ rid[c] \in SessionIds => OnSession(c)
    BY <1>1 DEF CallerFits, IInv, OwedFits, PaidCallsReserved, Reserves, Locked
  <1>3. /\ session' \in SessionRecord /\ session'.exp = session.exp
        /\ session'.expired = session.expired /\ (session' = session \/ Active)
    <2>1. session \in SessionRecord
      BY <1>1, SessionIsRecord
    <2>2. CASE session' = session
      BY <2>1, <2>2
    <2>3. CASE OnSession(c) /\ session' = [session EXCEPT !.scene = c]
      <3>1. Active
        BY <1>2, <2>3, Ids DEF OnSession, Active, NoSession
      <3>2. QED
        BY <2>1, <2>3, <3>1 DEF SessionRecord
    <2>4. QED
      BY <2>2, <2>3 DEF Settles
  <1>4. Works(c, "settling", rid[c])
    BY <1>1, <1>2, <1>3 DEF Works, OnSession
  <1>5. holder \in {c, Nobody}
    BY <1>1, InsideHolds DEF Locked
  <1>6. \E as \in PaidIds, cost \in Nat :
          /\ workers' = workers \cup {Worker(c, "settle", rid[c], as, cost)}
          /\ rid[c] \in SessionIds => as = rid[c]
          /\ session.exp = rid[c] => OnSession(c)
    <2>1. CASE OnSession(c)
      <3>1. PICK cost \in CostsUpTo(SessionCeiling) :
              workers' = workers \cup {Worker(c, "settle", rid[c], rid[c], cost)}
        BY <2>1 DEF Settles, Start
      <3>2. cost \in Nat
        BY WarmAssumption DEF CostsUpTo
      <3>3. QED
        BY <1>2, <2>1, <3>1, <3>2
    <2>2. CASE ~OnSession(c)
      <3>1. op[c] # "prewarm"
        BY <2>2 DEF Settles
      <3>2. PICK cost \in CostsUpTo(CallCeiling) :
              workers' = workers \cup {Worker(c, "settle", rid[c], OwnExperiment(c), cost)}
        BY <2>2 DEF Settles, Start
      <3>3. cost \in Nat /\ OwnExperiment(c) \in PaidIds
        BY <1>2, <3>1, OwnIds, WarmAssumption DEF CostsUpTo
      <3>4. QED
        BY <1>2, <2>2, <3>1, <3>2, <3>3 DEF OnSession
    <2>3. QED
      BY <2>1, <2>2
  <1>7. PICK as \in PaidIds, cost \in Nat :
          /\ workers' = workers \cup {Worker(c, "settle", rid[c], as, cost)}
          /\ rid[c] \in SessionIds => as = rid[c]
          /\ session.exp = rid[c] => OnSession(c)
    BY <1>6
  <1> DEFINE w == Worker(c, "settle", rid[c], as, cost)
  <1>8. w \in WorkerRecord /\ w.do = "settle" /\ w.rid = rid[c] /\ w.as = as /\ w.for = c
          /\ workers' = workers \cup {w}
    <2>1. rid[c] \in PaidIds
      BY <1>2
    <2>2. w \in WorkerRecord /\ w.do = "settle" /\ w.rid = rid[c] /\ w.as = as /\ w.for = c
      BY <2>1 DEF Worker, WorkerRecord
    <2>3. QED
      BY <1>7, <2>2
  <1> HIDE DEF w
  <1>9. Sets(w, "settling", rid[c])
    BY <1>2, <1>7, <1>8 DEF Sets
  <1>10. QED
    BY <1>1, <1>2, <1>3, <1>4, <1>5, <1>8, <1>9, StartsKeepsIInv

-----------------------------------------------------------------------------
(* Users, the clock, the ledger and crashes.                               *)

\* A user asks for a warm session, and has nothing yet.
LEMMA BeginUserKeepsIInv ==
  ASSUME IInv, NEW u \in User, BeginUser(u)
  PROVE  IInv'
  <1>1. /\ u \in Caller /\ op[u] = "idle" /\ TypeOK /\ HolderFits /\ CallerFits(u)
        /\ UNCHANGED <<ledger, workers, holder, session, prepared, reply, owed>>
    BY DEF BeginUser, IInv, Caller, memory
  <1>2. pc[u] \notin Locked /\ holder # u
    BY <1>1 DEF CallerFits, HolderFits, Locked, Paying, Expiring, Dropping
  <1>3. PICK p \in Prewarm : rid' = [rid EXCEPT ![u] = <<"session", p>>]
    BY DEF BeginUser
  <1>4. op' = [op EXCEPT ![u] = "prewarm"] /\ pc' = [pc EXCEPT ![u] = "waiting"]
    BY DEF BeginUser
  <1>5. <<"session", p>> \in SessionIds /\ <<"session", p>> \in PaidIds
    BY OwnSession, Ids
  <1>6. OthersStay(u) /\ op'[u] = "prewarm" /\ pc'[u] = "waiting" /\ rid'[u] \in SessionIds
    BY <1>1, <1>3, <1>4, <1>5 DEF OthersStay, TypeOK
  <1>7. TypeOK'
    <2>1. rid' \in [Caller -> PaidIds \cup {NoExperiment}]
      BY <1>1, <1>3, <1>5 DEF TypeOK
    <2>2. pc' \in [Caller -> Locked \cup {"idle", "waiting", "done"}] /\ DOMAIN op' = Caller
      BY <1>1, <1>4 DEF TypeOK
    <2>3. QED
      BY <1>1, <2>1, <2>2 DEF TypeOK
  <1>8. HolderFits'
    BY <1>1, <1>2, <1>6, HolderMoves DEF Locked
  <1>9. ASSUME NEW d \in Caller PROVE CallerFits(d)'
    <2>1. CASE d = u
      BY <1>6, <2>1 DEF CallerFits, Locked
    <2>2. CASE d # u
      <3>1. op'[d] = op[d] /\ pc'[d] = pc[d] /\ rid'[d] = rid[d] /\ reply'[d] = reply[d]
        BY <1>6, <2>2 DEF OthersStay
      <3>2. (OnSession(d) <=> OnSession(d)') /\ OwnExperiment(d)' = OwnExperiment(d)
        BY <1>1, <3>1 DEF OnSession, OwnExperiment
      <3>3. CallerFits(d)
        BY DEF IInv
      <3>4. QED
        BY <1>1, <3>1, <3>2, <3>3 DEF CallerFits, Reserves, Doomed
    <2>3. QED
      BY <2>1, <2>2
  <1>10. \A w \in workers : w.for # u
    BY <1>1, <1>2, NoThread DEF IInv, Locked
  <1>11. SessionFits' /\ WorkersFit'
    BY <1>1, <1>2, <1>6, <1>10, SessionFitsStill, WorkersFitStill DEF Locked
  <1>12. PreparedFits'
    <2>1. owed' \cap prepared' = {}
      BY <1>1 DEF IInv, PreparedFits
    <2>2. QED
      BY <1>1, <1>2, <1>6, <2>1, PreparedFitsStill DEF Locked
  <1>13. OwedFits'
    BY <1>1 DEF IInv, OwedFits, PaidCallsReserved
  <1>14. QED
    BY <1>7, <1>8, <1>9, <1>11, <1>12, <1>13 DEF IInv

\* The session's time runs out.
LEMMA TickKeepsIInv ==
  ASSUME IInv, Tick
  PROVE  IInv'
  <1>1. /\ Active /\ session' = [session EXCEPT !.expired = TRUE] /\ session \in SessionRecord
        /\ UNCHANGED <<ledger, workers, holder, prepared, op, pc, rid, reply, owed>>
    BY SessionIsRecord DEF Tick, IInv, callers
  <1>2. session' \in SessionRecord /\ session'.exp = session.exp /\ session'.expired
    BY <1>1 DEF SessionRecord
  <1>3. TypeOK' /\ HolderFits'
    BY <1>1, <1>2 DEF IInv, TypeOK, SessionRecord, HolderFits
  <1>4. ASSUME NEW d \in Caller PROVE CallerFits(d)'
    <2>1. (OnSession(d) <=> OnSession(d)') /\ OwnExperiment(d)' = OwnExperiment(d)
      BY <1>1, <1>2 DEF OnSession, OwnExperiment
    <2>2. CallerFits(d)
      BY DEF IInv
    <2>3. QED
      BY <1>1, <2>1, <2>2 DEF CallerFits, Reserves, Doomed
  <1>5. SessionFits'
    BY <1>1, <1>2 DEF IInv, SessionFits, Reserves, OnRecord
  <1>6. PreparedFits' /\ WorkersFit' /\ OwedFits'
    BY <1>1 DEF IInv, PreparedFits, WorkersFit, OwedFits, PaidCallsReserved, Reserves, OnRecord,
                Doomed
  <1>7. QED
    BY <1>3, <1>4, <1>5, <1>6 DEF IInv

\* Nobody counts on the reservation e, which is leaving the ledger.
Free(e) ==
  /\ e \notin owed'
  /\ \A c \in Caller : rid[c] = e =>
       pc[c] # "sent" /\ ~(pc[c] = "authorizing" /\ reply[c] = "ok")
  /\ e \in prepared =>
       \E c \in Caller : pc[c] = "releasing" /\ reply'[c] = "ok" /\ rid[c] = e
  /\ session.exp = e => OnRecord(e)' /\ Doomed(e)
  /\ \A v \in workers' : v.do = "settle" /\ v.rid = e => OnRecord(e)'

\* What a thread or another process does to the ledger, and the answer it gives.
LEMMA LedgerStepKeepsIInv ==
  ASSUME IInv, workers' \subseteq workers,
         UNCHANGED <<holder, session, prepared, op, pc, rid>>,
         IsLedger(ledger'),
         reply' \in [Caller -> {"none", "ok", "error"}],
         \A c \in Caller : \/ reply'[c] = reply[c]
                           \/ reply[c] = "none" /\ \A v \in workers' : v.for # c,
         \A c \in Caller : pc[c] = "authorizing" /\ reply'[c] = "ok" =>
           \/ reply[c] = "ok"
           \/ Reserves(rid[c])' /\ rid[c] \notin owed' /\ ~Doomed(rid[c]),
         owed' \subseteq owed,
         \A c \in Caller : pc[c] = "sent" => rid[c] \in owed',
         \A e \in PaidIds : Reserves(e) => Reserves(e)' \/ Free(e),
         \A e \in PaidIds : OnRecord(e) => OnRecord(e)'
  PROVE  IInv'
  <1>1. TypeOK'
    BY DEF IInv, TypeOK
  <1>2. HolderFits'
    BY DEF IInv, HolderFits
  <1>3. \A e : Doomed(e)' => Doomed(e)
    BY DEF Doomed
  <1>4. ASSUME NEW c \in Caller PROVE CallerFits(c)'
    <2>1. (OnSession(c) <=> OnSession(c)') /\ OwnExperiment(c)' = OwnExperiment(c)
            /\ (Doomed(rid[c])' => Doomed(rid[c]))
      BY DEF OnSession, OwnExperiment, Doomed
    <2>2. CallerFits(c)
      BY DEF IInv
    <2>3. (pc[c] = "authorizing" /\ reply[c] = "ok" =>
             Reserves(rid[c]) /\ rid[c] \notin owed /\ ~Doomed(rid[c]))'
      <3>1. SUFFICES ASSUME pc[c] = "authorizing", reply'[c] = "ok"
            PROVE  Reserves(rid[c])' /\ rid[c] \notin owed' /\ ~Doomed(rid[c])
        BY <2>1
      <3>2. CASE reply[c] = "ok"
        <4>1. rid[c] \in PaidIds /\ Reserves(rid[c]) /\ rid[c] \notin owed /\ ~Doomed(rid[c])
          BY <2>2, <3>1, <3>2 DEF CallerFits
        <4>2. ~Free(rid[c])
          BY <3>1, <3>2 DEF Free
        <4>3. Reserves(rid[c])'
          <5>1. \A e \in PaidIds : Reserves(e) /\ ~Free(e) => Reserves(e)'
            OBVIOUS
          <5>2. ASSUME NEW e \in PaidIds, e = rid[c] PROVE Reserves(e)' => Reserves(rid[c])'
            BY <5>2 DEF Reserves
          <5>3. QED
            BY <4>1, <4>2, <5>1, <5>2
        <4>4. QED
          BY <4>1, <4>3
      <3>3. CASE reply[c] # "ok"
        BY <3>1, <3>3
      <3>4. QED
        BY <3>2, <3>3
    <2>4. QED
      BY <2>1, <2>2, <2>3 DEF CallerFits
  <1>5. SessionFits'
    <2> SUFFICES ASSUME Active
        PROVE (/\ session.exp \in SessionIds /\ (Reserves(session.exp) \/ OnRecord(session.exp))
               /\ ~Reserves(session.exp) \/ Doomed(session.exp) =>
                    session.expired \/ \E d \in Caller : pc[d] = "settling" /\ OnSession(d))'
      BY DEF SessionFits, Active
    <2> DEFINE e == session.exp
    <2>1. /\ e \in SessionIds /\ e \in PaidIds /\ (Reserves(e) \/ OnRecord(e))
          /\ ~Reserves(e) \/ Doomed(e) =>
               session.expired \/ \E d \in Caller : pc[d] = "settling" /\ OnSession(d)
      BY Ids DEF IInv, SessionFits
    <2>2. Free(e) => OnRecord(e)' /\ Doomed(e)
      BY DEF Free, OnRecord
    <2>3. (Reserves(e) => Reserves(e)' \/ Free(e)) /\ (OnRecord(e) => OnRecord(e)')
      <3>1. ASSUME NEW x \in PaidIds, x = e
            PROVE  (Reserves(e)' <=> Reserves(x)') /\ (OnRecord(e)' <=> OnRecord(x)')
        BY <3>1 DEF Reserves, OnRecord
      <3>2. QED
        BY <2>1, <3>1
    <2>4. Doomed(e)' => Doomed(e)
      BY DEF Doomed
    <2>5. (\E d \in Caller : pc[d] = "settling" /\ OnSession(d)) =>
            (\E d \in Caller : pc[d] = "settling" /\ OnSession(d))'
      BY DEF OnSession
    <2>6. QED
      BY <2>1, <2>2, <2>3, <2>4, <2>5
  <1>6. PreparedFits'
    <2> SUFFICES ASSUME NEW e \in prepared
        PROVE /\ e \in PreparedIds /\ e \notin owed' /\ ~Doomed(e)'
              /\ \/ Reserves(e)'
                 \/ \E c \in Caller : pc'[c] = "releasing" /\ reply'[c] = "ok" /\ rid'[c] = e
      BY DEF PreparedFits
    <2>1. /\ e \in PreparedIds /\ e \notin owed /\ ~Doomed(e) /\ e \in PaidIds
          /\ \/ Reserves(e)
             \/ \E c \in Caller : pc[c] = "releasing" /\ reply[c] = "ok" /\ rid[c] = e
      BY Ids DEF IInv, PreparedFits
    <2>2. Free(e) => \E c \in Caller : pc[c] = "releasing" /\ reply'[c] = "ok" /\ rid[c] = e
      BY DEF Free
    <2>3. QED
      BY <1>3, <2>1, <2>2
  <1>7. WorkersFit'
    <2>1. WorkersFit /\ TypeOK
      BY DEF IInv
    <2>2. ASSUME NEW w \in workers'
          PROVE  /\ w.do = "release" => w.for # Nobody
                 /\ w.for # Nobody =>
                      /\ reply'[w.for] = "none"
                      /\ \/ w.do = "authorize" /\ pc'[w.for] = "authorizing" /\ rid'[w.for] = w.rid
                         \/ w.do = "settle" /\ pc'[w.for] \in {"settling", "expiring"}
                         \/ w.do = "release" /\ pc'[w.for] = "releasing" /\ rid'[w.for] = w.rid
                 /\ w.do = "settle" => /\ Reserves(w.rid)' \/ OnRecord(w.rid)'
                                       /\ w.rid \in SessionIds => w.as = w.rid
      <3>1. w \in workers /\ w.for \in Caller \cup {Nobody} /\ w.rid \in PaidIds
        BY <2>1, <2>2 DEF TypeOK, WorkerRecord
      <3>2. w.for # Nobody => reply'[w.for] = reply[w.for]
        BY <2>2, <3>1
      <3>3. w.do = "settle" => Reserves(w.rid) \/ OnRecord(w.rid)
        BY <2>1, <3>1 DEF WorkersFit
      <3>4. w.do = "settle" /\ Free(w.rid) => OnRecord(w.rid)'
        BY <2>2 DEF Free
      <3>5. QED
        BY <2>1, <3>1, <3>2, <3>3, <3>4 DEF WorkersFit
    <2>3. QED
      BY <2>1, <2>2 DEF WorkersFit
  <1>8. OwedFits'
    <2>1. owed \subseteq PaidIds /\ \A e \in owed : Reserves(e)
      BY DEF IInv, OwedFits, PaidCallsReserved, Reserves
    <2>2. \A e \in owed' : ~Free(e)
      BY DEF Free
    <2>3. \A e \in owed' : Reserves(e)'
      BY <2>1, <2>2
    <2>4. QED
      BY <2>1, <2>3 DEF OwedFits, PaidCallsReserved, Reserves
  <1>9. QED
    BY <1>1, <1>2, <1>4, <1>5, <1>6, <1>7, <1>8 DEF IInv

\* The answer of a thread reaches the caller that waits for it, and nobody else.
LEMMA AnswerMoves ==
  ASSUME IInv, NEW w \in workers, NEW r \in {"ok", "error"}, Answer(w, r),
         workers' = workers \ {w}
  PROVE  /\ reply' \in [Caller -> {"none", "ok", "error"}]
         /\ \A c \in Caller : reply'[c] = IF w.for = c THEN r ELSE reply[c]
         /\ \A c \in Caller : \/ reply'[c] = reply[c]
                              \/ reply[c] = "none" /\ \A v \in workers' : v.for # c
  <1>1. w.for \in Caller \cup {Nobody} /\ reply \in [Caller -> {"none", "ok", "error"}]
    BY DEF IInv, TypeOK, WorkerRecord
  <1>2. \A c \in Caller : reply'[c] = IF w.for = c THEN r ELSE reply[c]
    BY <1>1, NameAssumption DEF Answer, Caller
  <1>3. reply' \in [Caller -> {"none", "ok", "error"}]
    BY <1>1 DEF Answer
  <1>4. w.for # Nobody => reply[w.for] = "none" /\ \A v \in workers' : v.for # w.for
    BY DEF IInv, WorkersFit
  <1>5. \A c \in Caller : w.for = c => c # Nobody
    BY NameAssumption DEF Caller
  <1>6. QED
    BY <1>2, <1>3, <1>4, <1>5

\* A thread that fails, or is refused, changes no reservation.
LEMMA ErrorKeepsIInv ==
  ASSUME IInv, NEW w \in workers, Answer(w, "error"), workers' = workers \ {w},
         UNCHANGED <<memory, op, pc, rid, ledger, owed>>
  PROVE  IInv'
  <1>1. /\ reply' \in [Caller -> {"none", "ok", "error"}]
        /\ \A c \in Caller : reply'[c] = IF w.for = c THEN "error" ELSE reply[c]
        /\ \A c \in Caller : \/ reply'[c] = reply[c]
                             \/ reply[c] = "none" /\ \A v \in workers' : v.for # c
    BY AnswerMoves
  <1>2. \A c \in Caller : pc[c] = "authorizing" /\ reply'[c] = "ok" => reply[c] = "ok"
    BY <1>1
  <1>3. \A c \in Caller : pc[c] = "sent" => rid[c] \in owed'
    BY DEF IInv, CallerFits
  <1>4. IsLedger(ledger')
    BY DEF IInv, TypeOK
  <1>5. \A e : (Reserves(e) => Reserves(e)') /\ (OnRecord(e) => OnRecord(e)')
    BY DEF Reserves, OnRecord
  <1>6. QED
    BY <1>1, <1>2, <1>3, <1>4, <1>5, LedgerStepKeepsIInv DEF memory

\* A thread reserves a ceiling in the ledger, or finds no room.
LEMMA AuthorizeKeepsIInv ==
  ASSUME IInv, NEW w \in workers, Authorize(w), workers' = workers \ {w},
         UNCHANGED <<memory, op, pc, rid>>
  PROVE  IInv'
  <1>1. CASE Answer(w, "error") /\ UNCHANGED ledger
    BY <1>1, ErrorKeepsIInv DEF Authorize
  <1>2. ASSUME NEW reported \in Reports, MayAuthorize(ledger, w.rid, w.amount, reported),
               ledger' = Reserved(Anchored(ledger, reported), w.rid, w.amount), Answer(w, "ok")
        PROVE  IInv'
    <2>1. /\ IsLedger(ledger') /\ DOMAIN ledger'.records = DOMAIN ledger.records
          /\ DOMAIN ledger'.reservations = DOMAIN ledger.reservations \cup {w.rid}
      BY <1>2, Anchoring, Reserving DEF IInv, TypeOK
    <2>2. \A e : /\ Reserves(e) => Reserves(e)'
                 /\ OnRecord(e) => OnRecord(e)'
      BY <2>1 DEF Reserves, OnRecord
    <2>3. ~Reserves(w.rid) /\ ~OnRecord(w.rid)
      BY <1>2 DEF MayAuthorize, Reserves, OnRecord
    <2>4. ~Doomed(w.rid) /\ w.rid \notin owed
      BY <2>3 DEF IInv, WorkersFit, Doomed, OwedFits, PaidCallsReserved, Reserves
    <2>5. /\ reply' \in [Caller -> {"none", "ok", "error"}]
          /\ \A c \in Caller : reply'[c] = IF w.for = c THEN "ok" ELSE reply[c]
          /\ \A c \in Caller : \/ reply'[c] = reply[c]
                               \/ reply[c] = "none" /\ \A v \in workers' : v.for # c
      BY <1>2, AnswerMoves
    <2>6. UNCHANGED owed /\ w.do = "authorize"
      BY DEF Authorize
    <2>7. ASSUME NEW c \in Caller, pc[c] = "authorizing", reply'[c] = "ok", reply[c] # "ok"
          PROVE  Reserves(rid[c])' /\ rid[c] \notin owed' /\ ~Doomed(rid[c])
      <3>1. w.for = c /\ c # Nobody
        BY <2>5, <2>7, NameAssumption DEF Caller
      <3>2. rid[c] = w.rid
        BY <2>6, <3>1 DEF IInv, WorkersFit
      <3>3. rid' = rid
        OBVIOUS
      <3>4. QED
        BY <2>1, <2>4, <2>6, <3>2, <3>3 DEF Reserves
    <2>8. \A c \in Caller : pc[c] = "sent" => rid[c] \in owed'
      BY <2>6 DEF IInv, CallerFits
    <2>9. QED
      BY <2>1, <2>2, <2>5, <2>6, <2>7, <2>8, LedgerStepKeepsIInv DEF memory
  <1>3. QED
    BY <1>1, <1>2 DEF Authorize

\* A thread settles a reservation at what the call cost.
LEMMA SettleKeepsIInv ==
  ASSUME IInv, NEW w \in workers, Settle(w), workers' = workers \ {w},
         UNCHANGED <<memory, op, pc, rid>>
  PROVE  IInv'
  <1>1. CASE Answer(w, "error") /\ UNCHANGED <<ledger, owed>>
    BY <1>1, ErrorKeepsIInv
  <1>2. CASE /\ ledger' = Recorded(Released(ledger, w.rid), w.as, w.amount)
             /\ owed' = owed \ {w.rid} /\ Answer(w, "ok")
    <2>1. /\ IsLedger(ledger') /\ DOMAIN ledger'.records = DOMAIN ledger.records \cup {w.as}
          /\ DOMAIN ledger'.reservations = DOMAIN ledger.reservations \ {w.rid}
      BY <1>2, Releasing, Recording DEF IInv, TypeOK
    <2>2. \A e : /\ Reserves(e) => Reserves(e)' \/ e = w.rid
                 /\ OnRecord(e) => OnRecord(e)'
      BY <2>1 DEF Reserves, OnRecord
    <2>3. Doomed(w.rid) /\ w.do = "settle" /\ w.rid \in PaidIds
      BY DEF Settle, Doomed, IInv, TypeOK, WorkerRecord
    <2>4. w.as = w.rid => OnRecord(w.rid)'
      BY <2>1 DEF OnRecord
    <2>5. w.rid \notin prepared
      BY <2>3 DEF IInv, PreparedFits
    <2>6. session.exp = w.rid => w.as = w.rid
      <3>1. ASSUME session.exp = w.rid PROVE session.exp \in SessionIds
        BY <2>3, <3>1, Ids DEF IInv, SessionFits, Active, NoSession
      <3>2. QED
        BY <2>3, <3>1 DEF IInv, WorkersFit
    <2>7. \A v \in workers' : v.do = "settle" /\ v.rid = w.rid => w.as = w.rid
      BY <2>3 DEF IInv, WorkersFit
    <2>8. \A c \in Caller : rid[c] = w.rid =>
            pc[c] # "sent" /\ ~(pc[c] = "authorizing" /\ reply[c] = "ok")
      BY <2>3 DEF IInv, CallerFits
    <2>9. Free(w.rid)
      BY <1>2, <2>3, <2>4, <2>5, <2>6, <2>7, <2>8 DEF Free
    <2>10. /\ reply' \in [Caller -> {"none", "ok", "error"}]
           /\ \A c \in Caller : reply'[c] = IF w.for = c THEN "ok" ELSE reply[c]
           /\ \A c \in Caller : \/ reply'[c] = reply[c]
                                \/ reply[c] = "none" /\ \A v \in workers' : v.for # c
      BY <1>2, AnswerMoves
    <2>11. \A c \in Caller : pc[c] = "authorizing" /\ reply'[c] = "ok" => reply[c] = "ok"
      BY <2>3, <2>10, NameAssumption DEF IInv, WorkersFit, Caller
    <2>12. \A c \in Caller : pc[c] = "sent" => rid[c] \in owed'
      BY <1>2, <2>8 DEF IInv, CallerFits
    <2>13. QED
      BY <1>2, <2>1, <2>2, <2>9, <2>10, <2>11, <2>12, LedgerStepKeepsIInv DEF memory
  <1>3. QED
    BY <1>1, <1>2 DEF Settle

\* A thread releases a reservation that paid for nothing.
LEMMA ReleaseKeepsIInv ==
  ASSUME IInv, NEW w \in workers, Release(w), workers' = workers \ {w},
         UNCHANGED <<memory, op, pc, rid>>
  PROVE  IInv'
  <1>1. CASE Answer(w, "error") /\ UNCHANGED ledger
    BY <1>1, ErrorKeepsIInv DEF Release
  <1>2. CASE ledger' = Released(ledger, w.rid) /\ Answer(w, "ok")
    <2>1. /\ IsLedger(ledger') /\ DOMAIN ledger'.records = DOMAIN ledger.records
          /\ DOMAIN ledger'.reservations = DOMAIN ledger.reservations \ {w.rid}
      BY <1>2, Releasing DEF IInv, TypeOK
    <2>2. \A e : /\ Reserves(e) => Reserves(e)' \/ e = w.rid
                 /\ OnRecord(e) => OnRecord(e)'
      BY <2>1 DEF Reserves, OnRecord
    <2>3. /\ w.for \in Caller /\ pc[w.for] = "releasing" /\ rid[w.for] = w.rid
          /\ UNCHANGED owed /\ w.do = "release"
      BY DEF Release, IInv, WorkersFit, TypeOK, WorkerRecord
    <2>4. w.rid \in prepared
      BY <2>3 DEF IInv, CallerFits
    <2>5. w.rid \in PreparedIds /\ w.rid \notin owed /\ ~Doomed(w.rid)
      BY <2>4 DEF IInv, PreparedFits
    <2>6. /\ reply' \in [Caller -> {"none", "ok", "error"}]
          /\ \A c \in Caller : reply'[c] = IF w.for = c THEN "ok" ELSE reply[c]
          /\ \A c \in Caller : \/ reply'[c] = reply[c]
                               \/ reply[c] = "none" /\ \A v \in workers' : v.for # c
      BY <1>2, AnswerMoves
    <2>7. \A c \in Caller : rid[c] = w.rid =>
            pc[c] # "sent" /\ ~(pc[c] = "authorizing" /\ reply[c] = "ok")
      BY <2>4 DEF IInv, CallerFits
    <2>8. session.exp # w.rid
      BY <2>5, Ids DEF IInv, SessionFits, Active, NoSession
    <2>9. \A v \in workers' : ~(v.do = "settle" /\ v.rid = w.rid)
      BY <2>5 DEF Doomed
    <2>10. Free(w.rid)
      BY <2>3, <2>5, <2>6, <2>7, <2>8, <2>9 DEF Free
    <2>11. \A c \in Caller : pc[c] = "authorizing" /\ reply'[c] = "ok" => reply[c] = "ok"
      BY <2>3, <2>6
    <2>12. \A c \in Caller : pc[c] = "sent" => rid[c] \in owed'
      BY <2>3 DEF IInv, CallerFits
    <2>13. QED
      BY <2>1, <2>2, <2>3, <2>6, <2>10, <2>11, <2>12, LedgerStepKeepsIInv DEF memory
  <1>3. QED
    BY <1>1, <1>2 DEF Release

\* Whatever a thread does.
LEMMA RunWorkerKeepsIInv ==
  ASSUME IInv, NEW w \in workers, RunWorker(w)
  PROVE  IInv'
  BY AuthorizeKeepsIInv, SettleKeepsIInv, ReleaseKeepsIInv, ErrorKeepsIInv
     DEF RunWorker, FileFails

\* Other processes reserve and settle under ids of their own; the operator reconciles
\* what no caller and no thread of this process has to do with.
LEMMA OthersKeepIInv ==
  ASSUME IInv,
         \/ \E e \in {"other"} \X Other : OtherReserves(e) \/ OtherSettles(e)
         \/ \E e \in owed : Reconcile(e)
  PROVE  IInv'
  <1>1. IsLedger(ledger) /\ owed \subseteq PaidIds
    BY DEF IInv, TypeOK, OwedFits
  <1>2. UNCHANGED <<workers, holder, session, prepared, op, pc, rid, reply>>
    BY DEF OtherReserves, OtherSettles, Reconcile, memory, callers
  <1>3. \E e : /\ IsLedger(ledger') /\ owed' = owed \ {e}
               /\ DOMAIN ledger.records \subseteq DOMAIN ledger'.records
               /\ DOMAIN ledger.reservations \ {e} \subseteq DOMAIN ledger'.reservations
               /\ e \notin PaidIds \/ (~InUse(e))
    <2>1. ASSUME NEW e \in {"other"} \X Other, OtherReserves(e)
          PROVE  /\ IsLedger(ledger') /\ owed' = owed \ {e}
                 /\ DOMAIN ledger.records \subseteq DOMAIN ledger'.records
                 /\ DOMAIN ledger.reservations \ {e} \subseteq DOMAIN ledger'.reservations
                 /\ e \notin PaidIds
      <3>1. e \notin PaidIds
        BY Ids
      <3>2. /\ IsLedger(ledger') /\ DOMAIN ledger'.records = DOMAIN ledger.records
            /\ DOMAIN ledger'.reservations = DOMAIN ledger.reservations \cup {e}
        BY <1>1, <2>1, Reserving DEF OtherReserves
      <3>3. QED
        BY <1>1, <2>1, <3>1, <3>2 DEF OtherReserves
    <2>2. ASSUME NEW e \in {"other"} \X Other, OtherSettles(e)
          PROVE  /\ IsLedger(ledger') /\ owed' = owed \ {e}
                 /\ DOMAIN ledger.records \subseteq DOMAIN ledger'.records
                 /\ DOMAIN ledger.reservations \ {e} \subseteq DOMAIN ledger'.reservations
                 /\ e \notin PaidIds
      <3>1. e \notin PaidIds
        BY Ids
      <3>2. PICK cost \in CostsUpTo(CallCeiling) : ledger' = Recorded(Released(ledger, e), e, cost)
        BY <2>2 DEF OtherSettles
      <3>3. /\ IsLedger(ledger') /\ DOMAIN ledger'.records = DOMAIN ledger.records \cup {e}
            /\ DOMAIN ledger'.reservations = DOMAIN ledger.reservations \ {e}
        BY <1>1, <3>2, Releasing, Recording
      <3>4. QED
        BY <1>1, <2>2, <3>1, <3>3 DEF OtherSettles
    <2>3. ASSUME NEW e \in owed, Reconcile(e)
          PROVE  /\ IsLedger(ledger') /\ owed' = owed \ {e}
                 /\ DOMAIN ledger.records \subseteq DOMAIN ledger'.records
                 /\ DOMAIN ledger.reservations \ {e} \subseteq DOMAIN ledger'.reservations
                 /\ ~InUse(e)
      <3>1. PICK reported \in Reports : ledger' = Released(Anchored(ledger, reported), e)
        BY <2>3 DEF Reconcile
      <3>2. /\ IsLedger(ledger') /\ DOMAIN ledger'.records = DOMAIN ledger.records
            /\ DOMAIN ledger'.reservations = DOMAIN ledger.reservations \ {e}
        BY <1>1, <3>1, Anchoring, Releasing
      <3>3. QED
        BY <2>3, <3>2 DEF Reconcile
    <2>4. QED
      BY <2>1, <2>2, <2>3
  <1>4. PICK e : /\ IsLedger(ledger') /\ owed' = owed \ {e}
                 /\ DOMAIN ledger.records \subseteq DOMAIN ledger'.records
                 /\ DOMAIN ledger.reservations \ {e} \subseteq DOMAIN ledger'.reservations
                 /\ e \notin PaidIds \/ (~InUse(e))
    BY <1>3
  <1>5. \A x \in PaidIds : /\ Reserves(x) => Reserves(x)' \/ Free(x)
                           /\ OnRecord(x) => OnRecord(x)'
    <2>1. ASSUME NEW x \in PaidIds, x = e PROVE Free(x)
      BY <1>2, <1>4, <2>1 DEF InUse, Free
    <2>2. QED
      BY <1>4, <2>1 DEF Reserves, OnRecord
  <1>6. \A c \in Caller : pc[c] = "sent" => rid[c] \in owed'
    <2>1. ASSUME NEW c \in Caller, pc[c] = "sent" PROVE rid[c] \in owed /\ rid[c] # e
      BY <1>1, <1>4, <2>1 DEF IInv, CallerFits, InUse
    <2>2. QED
      BY <1>4, <2>1
  <1>7. reply' \in [Caller -> {"none", "ok", "error"}]
    BY <1>2 DEF IInv, TypeOK
  <1>8. QED
    BY <1>2, <1>4, <1>5, <1>6, <1>7, LedgerStepKeepsIInv

\* After a crash nobody works with a reservation, and the file is what it was.
LEMMA CrashKeepsIInv ==
  ASSUME IInv, Crash
  PROVE  IInv'
  <1>1. /\ workers' = {} /\ holder' = Nobody /\ session' = NoSession /\ prepared' = {}
        /\ DOMAIN op' = Caller
        /\ pc' \in [Caller -> {"idle", "done"}]
        /\ \A c \in Caller : op'[c] # "prewarm"
        /\ rid' \in [Caller -> {NoExperiment}] /\ reply' \in [Caller -> {"none"}]
        /\ UNCHANGED <<ledger, owed>>
    BY DEF Crash
  <1>2. NoSession \in SessionRecord /\ NoSession.exp = NoExperiment
    BY NoSessionRecord DEF NoSession
  <1>3. TypeOK'
    BY <1>1, <1>2 DEF IInv, TypeOK, SessionRecord
  <1>4. \A c \in Caller : pc'[c] \notin Locked /\ holder' # c
    BY <1>1, NameAssumption DEF Locked, Caller
  <1>5. HolderFits' /\ \A c \in Caller : CallerFits(c)'
    BY <1>1, <1>4 DEF HolderFits, CallerFits, Locked
  <1>6. SessionFits' /\ PreparedFits' /\ WorkersFit' /\ OwedFits'
    BY <1>1 DEF IInv, SessionFits, Active, PreparedFits, WorkersFit, OwedFits, PaidCallsReserved,
                NoSession, NoExperiment
  <1>7. QED
    BY <1>3, <1>5, <1>6 DEF IInv

-----------------------------------------------------------------------------
(* The inductive invariant.                                                *)

\* An empty ledger, no session and idle callers satisfy it.
LEMMA InitIInv == Init => IInv
  <1> SUFFICES ASSUME Init PROVE IInv
    OBVIOUS
  <1>1. \A c \in Caller : pc[c] = "idle" /\ op[c] = "idle" /\ holder # c
    BY NameAssumption DEF Init, Caller
  <1>2. TypeOK
    BY NoSessionRecord DEF Init, TypeOK, IsLedger, EmptyLedger, SessionRecord
  <1>3. HolderFits /\ \A c \in Caller : CallerFits(c)
    BY <1>1 DEF HolderFits, CallerFits, Locked
  <1>4. SessionFits /\ PreparedFits /\ WorkersFit /\ OwedFits
    BY DEF Init, SessionFits, Active, PreparedFits, WorkersFit, OwedFits, PaidCallsReserved
  <1>5. QED
    BY <1>2, <1>3, <1>4 DEF IInv

\* Every operation of a caller keeps it.
LEMMA StepKeepsIInv ==
  ASSUME IInv, NEW c \in Caller, Step(c)
  PROVE  IInv'
  <1>1. CASE Status(c)
    BY <1>1, LooksKeepIInv
  <1>2. CASE StartExpiry(c) \/ FinishExpiry(c)
    BY <1>2, StartExpiryKeepsIInv, FinishExpiryKeepsIInv
  <1>3. CASE Prewarms(c) \/ Prepare(c) \/ ReadBilling(c) \/ Authorized(c)
    BY <1>3, PrewarmsKeepsIInv, PrepareKeepsIInv, ReadBillingKeepsIInv, AuthorizedKeepsIInv
  <1>4. CASE Generate(c)
    BY <1>4, GenerateOnSessionKeepsIInv, GeneratePreparedKeepsIInv, GenerateAloneKeepsIInv
       DEF Generate
  <1>5. CASE CallFails(c) \/ Warmed(c) \/ Kept(c) \/ Settles(c) \/ SettleEnds(c)
    BY <1>5, CallFailsKeepsIInv, WarmedKeepsIInv, KeptKeepsIInv, SettlesKeepsIInv,
       SettleEndsKeepsIInv
  <1>6. CASE DropSession(c) \/ DropPrepared(c) \/ Dropped(c)
    BY <1>6, DropSessionKeepsIInv, DropPreparedKeepsIInv, DroppedKeepsIInv
  <1>7. QED
    BY <1>1, <1>2, <1>3, <1>4, <1>5, <1>6 DEF Step

\* So does every step of the threads, the other processes, the clock and the crashes.
LEMMA NextKeepsIInv == IInv /\ [Next]_vars => IInv'
  <1> SUFFICES ASSUME IInv, [Next]_vars PROVE IInv'
    OBVIOUS
  <1>1. CASE UNCHANGED vars
    <2>1. UNCHANGED <<ledger, workers, holder, session, prepared, op, pc, rid, reply, owed>>
      BY <1>1 DEF vars, memory, callers
    <2>2. TypeOK' /\ HolderFits'
      BY <2>1 DEF IInv, TypeOK, HolderFits
    <2>3. \A c \in Caller : CallerFits(c)'
      BY <2>1 DEF IInv, CallerFits, OwnExperiment, OnSession, Reserves, Doomed
    <2>4. SessionFits' /\ PreparedFits'
      BY <2>1 DEF IInv, SessionFits, Active, OnSession, PreparedFits, Reserves, OnRecord, Doomed
    <2>5. WorkersFit' /\ OwedFits'
      BY <2>1 DEF IInv, WorkersFit, OwedFits, PaidCallsReserved, Reserves, OnRecord
    <2>6. QED
      BY <2>2, <2>3, <2>4, <2>5 DEF IInv
  <1>2. ASSUME NEW j \in Job, BeginJob(j) PROVE IInv'
    BY <1>2, LooksKeepIInv DEF Caller
  <1>3. ASSUME NEW u \in User, BeginUser(u) PROVE IInv'
    BY <1>3, BeginUserKeepsIInv
  <1>4. ASSUME NEW c \in Caller, NotReady(c) \/ Step(c) \/ Cancel(c) PROVE IInv'
    BY <1>4, LooksKeepIInv, StepKeepsIInv, CancelKeepsIInv
  <1>5. ASSUME NEW w \in workers, RunWorker(w) PROVE IInv'
    BY <1>5, RunWorkerKeepsIInv
  <1>6. CASE Tick \/ Crash
    BY <1>6, TickKeepsIInv, CrashKeepsIInv
  <1>7. QED
    BY <1>1, <1>2, <1>3, <1>4, <1>5, <1>6, OthersKeepIInv DEF Next

\* The inductive invariant holds in every reachable state of the provider, whatever
\* is cancelled and whenever it is killed.  (finite_modal_provider.py:356)
THEOREM Inductive == Spec => []IInv
  BY InitIInv, NextKeepsIInv, PTL DEF Spec

-----------------------------------------------------------------------------
(* What follows.                                                           *)

\* A call that was sent and is neither settled nor reconciled has its whole ceiling in
\* the ledger: for any number of jobs, users and other processes, any ceilings and any
\* report.  (finite_modal_provider.py:687, modal_budget.py)
THEOREM PaidCallsStayReserved == Spec => []PaidCallsReserved
  <1>1. IInv => PaidCallsReserved
    BY DEF IInv, OwedFits
  <1>2. QED
    BY <1>1, Inductive, PTL

-----------------------------------------------------------------------------
(* A session that belongs to a scene does not outlive its job.             *)

\* Where an operation goes on.
LEMMA Nexts ==
  ASSUME NEW c \in Caller
  PROVE  /\ op[c] = "prewarm" => NextOp(c) = IF c \in Job THEN "fast" ELSE "done"
         /\ op[c] = "preparePreview" => NextOp(c) = "preview"
         /\ op[c] \in {"status", "prepare", "preview"} => NextOp(c) = "fast"
         /\ op[c] = "fast" => NextOp(c) \in {"motion", "dropSession"}
         /\ op[c] = "motion" => NextOp(c) = "dropSession"
         /\ op[c] = "dropSession" => NextOp(c) = "dropPrepared"
         /\ op[c] = "dropPrepared" => NextOp(c) = "dropPreview"
         /\ op[c] = "dropPreview" => NextOp(c) = "done"
  BY DEF NextOp

\* Where a failure leads.
LEMMA Failures ==
  ASSUME NEW c \in Caller
  PROVE  /\ c \in User => AfterFailure(c) = "done"
         /\ c \notin User /\ op[c] \in {"fast", "motion"} => AfterFailure(c) = "dropSession"
  BY DEF AfterFailure, Dropping

\* No owner is added but c, in operation o.
OwnersAfter(c, o) ==
  \A d \in {session'.scene, session'.preview} \ {Nobody} :
    IF d = c THEN c \in Job /\ o \in {"fast", "motion", "dropSession"}
             ELSE d \in {session.scene, session.preview}

\* The operation of c is the only one that changes.
LEMMA MovesKeepOwners ==
  ASSUME TypeOK, OwnerInv, NEW c \in Caller, NEW o, OthersStay(c), op'[c] = o,
         pc'[c] = "releasing" => o \in {"dropPrepared", "dropPreview"},
         c \in User => o \in {"prewarm", "done"},
         \/ o = "done" \/ Busy(c) \/ c \in User
         \/ \A i \in Job : op[i] \in {"idle", "done"},
         OwnersAfter(c, o)
  PROVE  OwnerInv'
  <1>1. UsersPrewarm'
    BY DEF OwnerInv, UsersPrewarm, OthersStay, Caller
  <1>2. JobsApart'
    <2> SUFFICES ASSUME NEW i \in Job, NEW j \in Job, Busy(i)', Busy(j)', i # j PROVE FALSE
      BY DEF JobsApart
    <2>1. CASE i # c /\ j # c
      BY <2>1 DEF OwnerInv, JobsApart, Busy, OthersStay, Caller
    <2>2. CASE i = c \/ j = c
      <3>1. c \in Job /\ o # "done" /\ c \notin User
        BY <2>2, NameAssumption DEF Busy
      <3>2. PICK k \in {i, j} : k # c
        OBVIOUS
      <3>3. k \in Job /\ Busy(k)
        BY <3>2 DEF OthersStay, Busy, Caller
      <3>4. QED
        BY <3>1, <3>2, <3>3 DEF OwnerInv, JobsApart, Busy
    <2>3. QED
      BY <2>1, <2>2
  <1>3. OwnersFit'
    BY DEF OwnerInv, OwnersFit, OwnersAfter, OthersStay, Caller
  <1>4. ReleasersFit'
    BY DEF OwnerInv, ReleasersFit, OthersStay
  <1>5. QED
    BY <1>1, <1>2, <1>3, <1>4 DEF OwnerInv

\* The session stays as it is, or is forgotten.
SessionLeft == session' \in {session, NoSession}

LEMMA StillOwned ==
  ASSUME OwnerInv, SessionLeft, NEW c, NEW o,
         op[c] \in {"fast", "motion", "dropSession"} => o \in {"fast", "motion", "dropSession"}
  PROVE  OwnersAfter(c, o)
  BY DEF OwnerInv, OwnersFit, OwnersAfter, SessionLeft, NoSession

LEMMA FailKeepsOwners ==
  ASSUME TypeOK, OwnerInv, NEW c \in Caller, Fail(c), SessionLeft, Busy(c),
         op[c] # "dropSession"
  PROVE  OwnerInv'
  <1> DEFINE o == AfterFailure(c)
  <1>1. GoOn(c, o)
    BY DEF Fail
  <1>2. c \in User => o = "done" /\ op[c] \notin {"fast", "motion"}
    BY Failures DEF OwnerInv, UsersPrewarm
  <1>3. op[c] \in {"fast", "motion"} => o = "dropSession"
    BY <1>2, Failures
  <1> HIDE DEF o
  <1>4. OthersStay(c) /\ op'[c] = o /\ pc'[c] # "releasing"
    BY <1>1, GoOnMoves
  <1>5. OwnersAfter(c, o)
    BY <1>3, StillOwned
  <1>6. QED
    BY <1>2, <1>4, <1>5, MovesKeepOwners

\* What an operation of c may be, but the one that forgets the session.
Steady == {"prewarm", "preparePreview", "status", "prepare", "preview", "fast", "motion",
           "dropPrepared", "dropPreview"}

LEMMA SteadyIs ==
  /\ Paying \subseteq Steady /\ Expiring \subseteq Steady
  /\ \A o \in Steady : o \notin {"idle", "done", "dropSession"}
  BY DEF Paying, Expiring, Steady

LEMMA NextKeepsOwners ==
  ASSUME TypeOK, OwnerInv, NEW c \in Caller, GoOn(c, NextOp(c)), op[c] \in Steady,
         OwnersAfter(c, NextOp(c))
  PROVE  OwnerInv'
  <1> DEFINE o == NextOp(c)
  <1>1. c \in User => o = "done"
    BY Nexts, NameAssumption DEF OwnerInv, UsersPrewarm, Steady
  <1>2. Busy(c)
    BY SteadyIs DEF Busy
  <1>3. GoOn(c, o) /\ OwnersAfter(c, o)
    OBVIOUS
  <1> HIDE DEF o
  <1>4. OthersStay(c) /\ op'[c] = o /\ pc'[c] # "releasing"
    BY <1>3, GoOnMoves
  <1>5. QED
    BY <1>1, <1>2, <1>3, <1>4, MovesKeepOwners

\* The same when the session is left alone.
LEMMA NextLeavesOwners ==
  ASSUME TypeOK, OwnerInv, NEW c \in Caller, GoOn(c, NextOp(c)), op[c] \in Steady,
         SessionLeft
  PROVE  OwnerInv'
  <1>1. op[c] \in {"fast", "motion", "dropSession"} =>
          NextOp(c) \in {"fast", "motion", "dropSession"}
    BY Nexts DEF Steady
  <1>2. OwnersAfter(c, NextOp(c))
    BY <1>1, StillOwned
  <1>3. QED
    BY <1>2, NextKeepsOwners

LEMMA StayKeepsOwners ==
  ASSUME TypeOK, OwnerInv, NEW c \in Caller, NEW p \in Locked,
         NEW e \in PaidIds \cup {NoExperiment}, Stay(c, p, e), Busy(c),
         p = "releasing" => op[c] \in {"dropPrepared", "dropPreview"},
         OwnersAfter(c, op[c])
  PROVE  OwnerInv'
  <1>1. OthersStay(c) /\ op' = op /\ pc'[c] = p
    BY StayMoves
  <1>2. c \in User => op[c] = "prewarm"
    BY DEF OwnerInv, UsersPrewarm, Busy
  <1>3. QED
    BY <1>1, <1>2, MovesKeepOwners

\* Whoever works with a reservation is in an operation that has one.
LEMMA LockedOps ==
  ASSUME IInv, OwnerInv, NEW c \in Caller, pc[c] \in Locked \cup {"waiting"},
         pc[c] = "waiting" => op[c] \in Steady
  PROVE  op[c] \in Steady
  BY SteadyIs DEF IInv, CallerFits, OwnerInv, ReleasersFit, Locked, Steady

\* One lemma per group of actions; first those that leave the session as it is, or
\* forget it.
LEMMA LooksKeepOwners ==
  ASSUME IInv, OwnerInv, NEW c \in Caller, BeginJob(c) \/ Status(c) \/ NotReady(c),
         BeginJob(c) => c \in Job
  PROVE  OwnerInv'
  <1>1. TypeOK /\ SessionLeft
    BY DEF IInv, BeginJob, Status, NotReady, SessionLeft
  <1>2. CASE BeginJob(c)
    <2>1. PICK o \in {"status", "preparePreview"} : GoOn(c, o)
      BY <1>2 DEF BeginJob
    <2>2. c \notin User /\ op[c] = "idle" /\ \A i \in Job : op[i] \in {"idle", "done"}
      BY <1>2, NameAssumption DEF BeginJob
    <2>3. OthersStay(c) /\ op'[c] = o /\ pc'[c] # "releasing"
      BY <1>1, <2>1, GoOnMoves
    <2>4. OwnersAfter(c, o)
      BY <1>1, <2>2, StillOwned
    <2>5. QED
      BY <1>1, <2>2, <2>3, <2>4, MovesKeepOwners
  <1>3. CASE Status(c)
    <2>1. PICK o \in {"fast", "prepare", "prewarm"} : GoOn(c, o)
      BY <1>3 DEF Status
    <2>2. op[c] = "status"
      BY <1>3 DEF Status
    <2>3. c \notin User /\ Busy(c)
      BY <2>2 DEF OwnerInv, UsersPrewarm, Busy
    <2>4. OthersStay(c) /\ op'[c] = o /\ pc'[c] # "releasing"
      BY <1>1, <2>1, GoOnMoves
    <2>5. OwnersAfter(c, o)
      BY <1>1, <2>2, StillOwned
    <2>6. QED
      BY <1>1, <2>3, <2>4, <2>5, MovesKeepOwners
  <1>4. CASE NotReady(c)
    BY <1>1, <1>4, SteadyIs, FailKeepsOwners DEF NotReady, Busy
  <1>5. QED
    BY <1>2, <1>3, <1>4

\* A caller that fails or stays where it is, with the session as it is or forgotten.
StaysOrFails(c) ==
  \/ Fail(c)
  \/ \E p \in Locked, e \in PaidIds \cup {NoExperiment} :
       Stay(c, p, e) /\ (p = "releasing" => op[c] \in {"dropPrepared", "dropPreview"})

LEMMA StaysOrFailsKeepsOwners ==
  ASSUME IInv, OwnerInv, NEW c \in Caller, StaysOrFails(c), op[c] \in Steady, SessionLeft
  PROVE  OwnerInv'
  <1>1. TypeOK /\ Busy(c) /\ op[c] # "dropSession"
    BY SteadyIs DEF IInv, Busy
  <1>2. CASE Fail(c)
    BY <1>1, <1>2, FailKeepsOwners
  <1>3. ASSUME NEW p \in Locked, NEW e \in PaidIds \cup {NoExperiment}, Stay(c, p, e),
               p = "releasing" => op[c] \in {"dropPrepared", "dropPreview"}
        PROVE  OwnerInv'
    <2>1. OwnersAfter(c, op[c])
      BY StillOwned
    <2>2. QED
      BY <1>1, <1>3, <2>1, StayKeepsOwners
  <1>4. QED
    BY <1>2, <1>3 DEF StaysOrFails

\* The ids a caller may work with.
LEMMA WorksWith ==
  ASSUME IInv, NEW c \in Caller
  PROVE  /\ rid[c] \in PaidIds \cup {NoExperiment}
         /\ session.exp \in PaidIds \cup {NoExperiment}
         /\ PreparedFor(c) \in PaidIds \cup {NoExperiment}
         /\ op[c] \in Paying \ {"prewarm"} => OwnExperiment(c) \in PaidIds \cup {NoExperiment}
  BY Ids, OwnIds DEF IInv, TypeOK

LEMMA ExpiryKeepsOwners ==
  ASSUME IInv, OwnerInv, NEW c \in Caller, StartExpiry(c) \/ FinishExpiry(c)
  PROVE  OwnerInv'
  <1>1. op[c] \in Steady
    BY LockedOps, SteadyIs DEF StartExpiry, FinishExpiry, Locked
  <1>2. SessionLeft
    BY DEF StartExpiry, FinishExpiry, SessionLeft
  <1>3. StaysOrFails(c)
    BY WorksWith DEF StartExpiry, FinishExpiry, StaysOrFails, Locked
  <1>4. QED
    BY <1>1, <1>2, <1>3, StaysOrFailsKeepsOwners

LEMMA ChargeStaysOrFails ==
  ASSUME IInv, NEW c \in Caller, op[c] \in Paying \ {"prewarm"}, Charge(c, OwnExperiment(c))
  PROVE  StaysOrFails(c)
  BY WorksWith DEF Charge, StaysOrFails, Locked

LEMMA ReservesKeepOwners ==
  ASSUME IInv, OwnerInv, NEW c \in Caller,
         Prewarms(c) \/ Prepare(c) \/ ReadBilling(c) \/ Authorized(c)
  PROVE  OwnerInv'
  <1>1. SessionLeft /\ TypeOK
    BY DEF Prewarms, Prepare, ReadBilling, Authorized, SessionLeft, IInv
  <1>2. op[c] \in Steady
    <2>1. op[c] \in {"prewarm", "prepare", "preparePreview"} => op[c] \in Steady
      BY DEF Steady
    <2>2. Prewarms(c) \/ Prepare(c) => op[c] \in Steady
      BY <2>1 DEF Prewarms, Prepare
    <2>3. ReadBilling(c) \/ Authorized(c) => pc[c] \in {"billing", "authorizing"}
      BY DEF ReadBilling, Authorized
    <2>4. pc[c] \in {"billing", "authorizing"} => op[c] \in Steady
      BY LockedOps DEF Locked
    <2>5. QED
      BY <2>2, <2>3, <2>4
  <1>3. StaysOrFails(c) \/ GoOn(c, NextOp(c))
    <2>1. CASE Prewarms(c)
      BY <2>1, WorksWith DEF Prewarms, StaysOrFails, Locked
    <2>2. CASE Prepare(c)
      BY <2>2, ChargeStaysOrFails DEF Prepare, Paying
    <2>3. CASE ReadBilling(c)
      BY <2>3, WorksWith DEF ReadBilling, StaysOrFails, Locked
    <2>4. CASE Authorized(c)
      BY <2>4, WorksWith DEF Authorized, StaysOrFails, Locked
    <2>5. QED
      BY <2>1, <2>2, <2>3, <2>4
  <1>4. QED
    BY <1>1, <1>2, <1>3, StaysOrFailsKeepsOwners, NextLeavesOwners

LEMMA GenerateKeepsOwners ==
  ASSUME IInv, OwnerInv, NEW c \in Caller, Generate(c)
  PROVE  OwnerInv'
  <1>1. op[c] \in {"preview", "fast", "motion"}
    BY DEF Generate, GenerateOnSession, GeneratePrepared, GenerateAlone, Generates
  <1>2. op[c] \in Steady /\ op[c] \in Paying \ {"prewarm"}
    BY <1>1 DEF Steady, Paying
  <1>3. SessionLeft
    BY DEF Generate, GenerateOnSession, GeneratePrepared, GenerateAlone, SessionLeft
  <1>4. StaysOrFails(c)
    <2>1. CASE GenerateOnSession(c) \/ GeneratePrepared(c)
      BY <2>1, WorksWith DEF GenerateOnSession, GeneratePrepared, StaysOrFails, Locked
    <2>2. CASE GenerateAlone(c)
      BY <2>2, <1>2, ChargeStaysOrFails DEF GenerateAlone
    <2>3. QED
      BY <2>1, <2>2 DEF Generate
  <1>5. QED
    BY <1>2, <1>3, <1>4, StaysOrFailsKeepsOwners

\* A session that is new belongs to nobody yet.
LEMMA WarmedKeepsOwners ==
  ASSUME IInv, OwnerInv, NEW c \in Caller, CallFails(c) \/ Warmed(c)
  PROVE  OwnerInv'
  <1>1. op[c] \in Steady /\ TypeOK
    BY LockedOps DEF CallFails, Warmed, Locked, IInv
  <1>2. CASE CallFails(c)
    BY <1>1, <1>2, StaysOrFailsKeepsOwners DEF CallFails, SessionLeft, StaysOrFails
  <1>3. CASE Warmed(c)
    <2>1. session'.scene = Nobody /\ session'.preview = Nobody
      BY <1>3 DEF Warmed, NoSession
    <2>2. OwnersAfter(c, NextOp(c))
      BY <2>1 DEF OwnersAfter
    <2>3. QED
      BY <1>1, <1>3, <2>2, NextKeepsOwners DEF Warmed
  <1>4. QED
    BY <1>2, <1>3

\* Only a job makes calls on the session, and only it is added to the owners.
LEMMA KeptKeepsOwners ==
  ASSUME IInv, OwnerInv, NEW c \in Caller, Kept(c)
  PROVE  OwnerInv'
  <1>1. op[c] \in {"preview", "fast"} /\ TypeOK
    BY DEF Kept, IInv
  <1>2. c \in Job
    BY <1>1 DEF OwnerInv, UsersPrewarm, Caller
  <1>3. NextOp(c) \in {"fast", "motion", "dropSession"} /\ op[c] \in Steady
    BY <1>1, Nexts DEF Steady
  <1>4. session \in SessionRecord
    BY <1>1, SessionIsRecord
  <1>5. \A d \in {session'.scene, session'.preview} \ {c} :
          d \in {session.scene, session.preview}
    BY <1>4 DEF Kept, SessionRecord
  <1>6. OwnersAfter(c, NextOp(c))
    BY <1>2, <1>3, <1>5 DEF OwnersAfter
  <1>7. QED
    BY <1>1, <1>3, <1>6, NextKeepsOwners DEF Kept

LEMMA SettlesKeepOwners ==
  ASSUME IInv, OwnerInv, NEW c \in Caller, Settles(c)
  PROVE  OwnerInv'
  <1>1. op[c] \in Steady /\ TypeOK
    BY LockedOps DEF Settles, Locked, IInv
  <1>2. Stay(c, "settling", rid[c]) /\ rid[c] \in PaidIds \cup {NoExperiment}
          /\ "settling" \in Locked
    BY WorksWith DEF Settles, Locked
  <1>3. CASE session' = session
    <2>1. StaysOrFails(c) /\ SessionLeft
      BY <1>2, <1>3 DEF StaysOrFails, SessionLeft
    <2>2. QED
      BY <1>1, <2>1, StaysOrFailsKeepsOwners
  <1>4. CASE op[c] \in {"fast", "motion"} /\ session' = [session EXCEPT !.scene = c]
    <2>1. c \in Job
      BY <1>4 DEF OwnerInv, UsersPrewarm, Caller
    <2>2. session \in SessionRecord
      BY <1>1, SessionIsRecord
    <2>3. \A d \in {session'.scene, session'.preview} \ {c} :
            d \in {session.scene, session.preview}
      BY <1>4, <2>2 DEF SessionRecord
    <2>4. OwnersAfter(c, op[c])
      BY <1>4, <2>1, <2>3 DEF OwnersAfter
    <2>5. Busy(c)
      BY <1>4 DEF Busy
    <2>6. QED
      BY <1>1, <1>2, <2>4, <2>5, StayKeepsOwners
  <1>5. QED
    BY <1>3, <1>4 DEF Settles

LEMMA SettleEndsKeepsOwners ==
  ASSUME IInv, OwnerInv, NEW c \in Caller, SettleEnds(c)
  PROVE  OwnerInv'
  <1>1. op[c] \in Steady /\ TypeOK
    BY LockedOps DEF SettleEnds, Locked, IInv
  <1>2. SessionLeft /\ (StaysOrFails(c) \/ GoOn(c, NextOp(c)))
    BY DEF SettleEnds, SessionLeft, StaysOrFails
  <1>3. QED
    BY <1>1, <1>2, StaysOrFailsKeepsOwners, NextLeavesOwners

\* The clean-up finds the session its own, nobody's or gone: no other job is busy.
LEMMA DropSessionKeepsOwners ==
  ASSUME IInv, OwnerInv, NEW c \in Caller, DropSession(c)
  PROVE  OwnerInv'
  <1>1. op[c] = "dropSession" /\ TypeOK
    BY DEF DropSession, IInv
  <1>2. c \in Job /\ c \notin User
    BY <1>1 DEF OwnerInv, UsersPrewarm, Caller
  <1>3. session.scene \in {Nobody, c}
    <2> SUFFICES ASSUME session.scene # Nobody PROVE session.scene = c
      OBVIOUS
    <2>1. session.scene \in Job /\ Busy(session.scene)
      BY DEF OwnerInv, OwnersFit, Busy
    <2>2. QED
      BY <1>1, <1>2, <2>1 DEF OwnerInv, JobsApart, Busy
  <1>4. session' = NoSession
    BY <1>3 DEF DropSession
  <1>5. OwnersAfter(c, "dropPrepared")
    BY <1>4 DEF OwnersAfter, NoSession
  <1>6. GoOn(c, "dropPrepared")
    BY <1>1, Nexts DEF DropSession
  <1>7. OthersStay(c) /\ op'[c] = "dropPrepared" /\ pc'[c] # "releasing"
    BY <1>1, <1>6, GoOnMoves
  <1>8. Busy(c)
    BY <1>1 DEF Busy
  <1>9. QED
    BY <1>1, <1>2, <1>5, <1>7, <1>8, MovesKeepOwners

LEMMA DropPreparedKeepsOwners ==
  ASSUME IInv, OwnerInv, NEW c \in Caller, DropPrepared(c) \/ Dropped(c)
  PROVE  OwnerInv'
  <1>1. op[c] \in {"dropPrepared", "dropPreview"}
    BY DEF DropPrepared, Dropped, OwnerInv, ReleasersFit
  <1>2. op[c] \in Steady /\ TypeOK
    BY <1>1 DEF Steady, IInv
  <1>3. SessionLeft
    BY DEF DropPrepared, Dropped, SessionLeft
  <1>4. StaysOrFails(c) \/ GoOn(c, NextOp(c))
    BY <1>1, WorksWith DEF DropPrepared, Dropped, StaysOrFails, Locked
  <1>5. QED
    BY <1>2, <1>3, <1>4, StaysOrFailsKeepsOwners, NextLeavesOwners

LEMMA CancelKeepsOwners ==
  ASSUME IInv, OwnerInv, NEW c \in Caller, Cancel(c)
  PROVE  OwnerInv'
  <1>1. c \in Job /\ c \notin User /\ op[c] \in Paying \cup {"status"}
    BY NameAssumption DEF Cancel
  <1>2. Busy(c) /\ TypeOK /\ SessionLeft
    BY <1>1 DEF Paying, Busy, IInv, Cancel, SessionLeft
  <1>3. PICK o \in {"dropSession", "fast"} : GoOn(c, o)
    BY DEF Cancel
  <1>4. OthersStay(c) /\ op'[c] = o /\ pc'[c] # "releasing"
    BY <1>2, <1>3, GoOnMoves
  <1>5. OwnersAfter(c, o)
    BY <1>2, StillOwned
  <1>6. QED
    BY <1>1, <1>2, <1>4, <1>5, MovesKeepOwners

LEMMA BeginUserKeepsOwners ==
  ASSUME IInv, OwnerInv, NEW u \in User, BeginUser(u)
  PROVE  OwnerInv'
  <1>1. TypeOK /\ SessionLeft /\ u \in Caller
    BY DEF IInv, BeginUser, memory, SessionLeft, Caller
  <1>2. OthersStay(u) /\ op'[u] = "prewarm" /\ pc'[u] = "waiting"
    BY <1>1 DEF BeginUser, OthersStay, TypeOK
  <1>3. op[u] = "idle"
    BY DEF BeginUser
  <1>4. OwnersAfter(u, "prewarm")
    BY <1>1, <1>3, StillOwned
  <1>5. QED
    BY <1>1, <1>2, <1>4, MovesKeepOwners

\* Steps that move no caller.
LEMMA UnmovedKeepsOwners ==
  ASSUME OwnerInv, UNCHANGED <<op, pc>>,
         session'.scene = session.scene /\ session'.preview = session.preview
  PROVE  OwnerInv'
  BY DEF OwnerInv, UsersPrewarm, JobsApart, Busy, OwnersFit, ReleasersFit

LEMMA CrashKeepsOwners ==
  ASSUME IInv, OwnerInv, Crash
  PROVE  OwnerInv'
  <1>1. session' = NoSession /\ \A c \in Caller : op'[c] \in {"idle", "done"}
                                                  /\ pc'[c] \in {"idle", "done"}
    BY DEF Crash
  <1>2. QED
    BY <1>1 DEF OwnerInv, UsersPrewarm, JobsApart, Busy, OwnersFit, ReleasersFit, NoSession,
                Caller

LEMMA StepKeepsOwners ==
  ASSUME IInv, OwnerInv, NEW c \in Caller, NotReady(c) \/ Step(c) \/ Cancel(c)
  PROVE  OwnerInv'
  <1>1. CASE Status(c) \/ NotReady(c)
    <2>1. BeginJob(c) => c \in Job
      BY <1>1, SteadyIs DEF Status, NotReady, BeginJob
    <2>2. QED
      BY <1>1, <2>1, LooksKeepOwners
  <1>2. CASE StartExpiry(c) \/ FinishExpiry(c) \/ Cancel(c)
    BY <1>2, ExpiryKeepsOwners, CancelKeepsOwners
  <1>3. CASE Prewarms(c) \/ Prepare(c) \/ ReadBilling(c) \/ Authorized(c) \/ Generate(c)
    BY <1>3, ReservesKeepOwners, GenerateKeepsOwners
  <1>4. CASE CallFails(c) \/ Warmed(c) \/ Kept(c) \/ Settles(c) \/ SettleEnds(c)
    BY <1>4, WarmedKeepsOwners, KeptKeepsOwners, SettlesKeepOwners, SettleEndsKeepsOwners
  <1>5. CASE DropSession(c) \/ DropPrepared(c) \/ Dropped(c)
    BY <1>5, DropSessionKeepsOwners, DropPreparedKeepsOwners
  <1>6. QED
    BY <1>1, <1>2, <1>3, <1>4, <1>5 DEF Step

LEMMA NextKeepsOwnerInv == IInv /\ OwnerInv /\ [Next]_vars => OwnerInv'
  <1> SUFFICES ASSUME IInv, OwnerInv, [Next]_vars PROVE OwnerInv'
    OBVIOUS
  <1>1. CASE UNCHANGED vars
    BY <1>1, UnmovedKeepsOwners DEF vars, memory, callers
  <1>2. ASSUME NEW j \in Job, BeginJob(j) PROVE OwnerInv'
    BY <1>2, LooksKeepOwners DEF Caller
  <1>3. ASSUME NEW u \in User, BeginUser(u) PROVE OwnerInv'
    BY <1>3, BeginUserKeepsOwners
  <1>4. ASSUME NEW c \in Caller, NotReady(c) \/ Step(c) \/ Cancel(c) PROVE OwnerInv'
    BY <1>4, StepKeepsOwners
  <1>5. ASSUME NEW w \in workers, RunWorker(w) PROVE OwnerInv'
    BY <1>5, UnmovedKeepsOwners DEF RunWorker, memory
  <1>6. ASSUME NEW e, OtherReserves(e) \/ OtherSettles(e) \/ Reconcile(e) PROVE OwnerInv'
    BY <1>6, UnmovedKeepsOwners DEF OtherReserves, OtherSettles, Reconcile, memory, callers
  <1>7. CASE Tick
    <2>1. session \in SessionRecord
      BY SessionIsRecord DEF IInv
    <2>2. session'.scene = session.scene /\ session'.preview = session.preview
      BY <1>7, <2>1 DEF Tick, SessionRecord
    <2>3. QED
      BY <1>7, <2>2, UnmovedKeepsOwners DEF Tick, callers
  <1>8. CASE Crash
    BY <1>8, CrashKeepsOwners
  <1>9. QED
    BY <1>1, <1>2, <1>3, <1>4, <1>5, <1>6, <1>7, <1>8 DEF Next

\* A session that belongs to a scene does not outlive the job of that scene: whoever
\* cancels, fails or crashes, the job's clean-up finds the session its own or gone, for
\* any number of jobs and users.  (finite_modal_provider.py:1103-1116)
THEOREM SessionsEndWithTheirJobs == Spec => []SessionEndsWithItsJob
  <1>1. Init => OwnerInv
    BY DEF Init, OwnerInv, UsersPrewarm, JobsApart, Busy, OwnersFit, ReleasersFit, NoSession,
           Caller
  <1>2. OwnerInv => SessionEndsWithItsJob
    BY NameAssumption DEF OwnerInv, OwnersFit, SessionEndsWithItsJob, Caller
  <1>3. QED
    BY <1>1, <1>2, Inductive, NextKeepsOwnerInv, PTL DEF Spec
=============================================================================
