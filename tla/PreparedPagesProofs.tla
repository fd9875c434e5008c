------------------------- MODULE PreparedPagesProofs -------------------------
(***************************************************************************)
(* What holds of prepared page playback for any pages, any number of local *)
(* requests at once and any capacity, whatever requests are lost; and of   *)
(* the service it asks, the orchestrator of AnticipatoryScenes, for any    *)
(* slots, branches, contents and limits.                                   *)
(***************************************************************************)
EXTENDS PreparedPages, AnticipatoryScenes, FiniteSetTheorems, TLAPS

-----------------------------------------------------------------------------
(* How the record of a call moves.                                         *)

\* The call of c now has these fields, and no other call has moved.
Moved(c, p, step, reply) ==
  /\ call' \in [Call -> CallRecord]
  /\ call'[c].page = p /\ call'[c].at = step /\ call'[c].answer = reply
  /\ \A d \in Call : d # c => call'[d] = call[d]

\* What a call looks like after it goes on to its next await.
LEMMA GotoMoves ==
  ASSUME TypeOK, NEW c \in Call, NEW step \in {"submit"} \cup Using, Goto(c, step)
  PROVE  Moved(c, call[c].page, step, "none")
  <1>1. call[c] \in CallRecord
    BY DEF TypeOK
  <1> DEFINE r == [call[c] EXCEPT !.at = step, !.answer = "none"]
  <1>2. r \in CallRecord /\ r.page = call[c].page /\ r.at = step /\ r.answer = "none"
    BY <1>1 DEF CallRecord, Using
  <1>3. call' = [call EXCEPT ![c] = r]
    BY DEF Goto
  <1> HIDE DEF r
  <1>4. QED
    BY <1>2, <1>3 DEF Moved, TypeOK

\* What a call looks like after it hears from the service.
LEMMA AnswerMoves ==
  ASSUME TypeOK, NEW c \in Call,
         NEW reply \in {"failed", "working", "ready", "ended", "committed"},
         call' = [call EXCEPT ![c].answer = reply]
  PROVE  Moved(c, call[c].page, call[c].at, reply)
  <1>1. call[c] \in CallRecord
    BY DEF TypeOK
  <1> DEFINE r == [call[c] EXCEPT !.answer = reply]
  <1>2. r \in CallRecord /\ r.page = call[c].page /\ r.at = call[c].at /\ r.answer = reply
    BY <1>1 DEF CallRecord, Using
  <1>3. call' = [call EXCEPT ![c] = r]
    OBVIOUS
  <1> HIDE DEF r
  <1>4. QED
    BY <1>2, <1>3 DEF Moved, TypeOK

\* What a call looks like after it has ended.
LEMMA IdleMoves ==
  ASSUME TypeOK, NEW c \in Call, call' = [call EXCEPT ![c] = Idle]
  PROVE  Moved(c, NoPage, "idle", "none")
  <1>1. Idle \in CallRecord /\ Idle.page = NoPage /\ Idle.at = "idle" /\ Idle.answer = "none"
    BY DEF Idle, CallRecord
  <1>2. QED
    BY <1>1 DEF Moved, TypeOK

\* What a call looks like after it began with its page.
LEMMA BeginMoves ==
  ASSUME TypeOK, NEW c \in Call, NEW p \in Page, NEW step \in {"plan", "waits"},
         NEW op \in {"prepare", "status", "stage", "activate", "discard"},
         call' = [call EXCEPT ![c] = [Idle EXCEPT !.op = op, !.page = p, !.at = step]]
  PROVE  Moved(c, p, step, "none")
  <1> DEFINE begun == [Idle EXCEPT !.op = op, !.page = p, !.at = step]
  <1>1. begun \in CallRecord /\ begun.page = p /\ begun.at = step /\ begun.answer = "none"
    BY DEF Idle, CallRecord
  <1> HIDE DEF begun
  <1>2. call' = [call EXCEPT ![c] = begun]
    BY DEF begun
  <1>3. QED
    BY <1>1, <1>2 DEF Moved, TypeOK

-----------------------------------------------------------------------------
(* Pages in preparation and pages held.                                    *)

\* Steps that move no page into preparation or into the pages held keep the room.
LEMMA RoomKeptWithout ==
  ASSUME RoomIsKept, preparing' = preparing,
         In("preparing")' = In("preparing"), In("held")' \subseteq In("held")
  PROVE  RoomIsKept'
  <1>1. IsFiniteSet(In("held")) /\ In("held")' \in SUBSET In("held")
    BY DEF RoomIsKept
  <1>2. IsFiniteSet(In("held")') /\ Cardinality(In("held")') <= Cardinality(In("held"))
    BY <1>1, FS_Subset
  <1>3. /\ Cardinality(In("held")) \in Nat /\ Cardinality(In("held")') \in Nat
        /\ Cardinality(In("preparing")) \in Nat
    BY <1>1, <1>2, FS_CardinalityType DEF RoomIsKept
  <1>4. /\ IsFiniteSet(In("preparing"))' /\ IsFiniteSet(In("held"))'
        /\ preparing' = Cardinality(In("preparing"))'
        /\ (Cardinality(In("held")) + Cardinality(In("preparing")) <= Capacity)'
    BY <1>2, <1>3, PreparedAssumption DEF RoomIsKept
  <1>5. QED
    BY <1>4 DEF RoomIsKept

\* The pages held and in preparation are counted without overlap.
LEMMA RoomBoundsPages == RoomIsKept => PagesWithinCapacity
  <1> SUFFICES ASSUME RoomIsKept PROVE PagesWithinCapacity
    OBVIOUS
  <1> DEFINE P == In("preparing")
  <1> DEFINE H == In("held")
  <1>1. {p \in Page : page[p] \in {"preparing", "held"}} = P \cup H
    BY DEF In
  <1>2. P \cap H = {}
    BY DEF In
  <1>3. IsFiniteSet(P) /\ IsFiniteSet(H)
    BY DEF RoomIsKept
  <1>4. Cardinality(P) + Cardinality(H) <= Capacity
    BY <1>3, FS_CardinalityType, PreparedAssumption DEF RoomIsKept
  <1> HIDE DEF P, H
  <1>5. Cardinality(P \cup H) = Cardinality(P) + Cardinality(H) - Cardinality(P \cap H)
    BY <1>3, FS_Union
  <1>6. Cardinality(P \cap H) = 0
    BY <1>2, FS_EmptySet
  <1>7. Cardinality(P) \in Nat /\ Cardinality(H) \in Nat
    BY <1>3, FS_CardinalityType
  <1>8. Cardinality(P \cup H) <= Capacity
    BY <1>4, <1>5, <1>6, <1>7, PreparedAssumption
  <1>9. QED
    BY <1>1, <1>8 DEF PagesWithinCapacity

-----------------------------------------------------------------------------
(* The inductive invariant.                                                *)

\* No page and no call satisfies it.
LEMMA InitIInv == Init => IInv
  <1> SUFFICES ASSUME Init PROVE IInv
    OBVIOUS
  <1>1. In("preparing") = {} /\ In("held") = {}
    BY DEF Init, In
  <1>2. RoomIsKept
    BY <1>1, FS_EmptySet, PreparedAssumption DEF Init, RoomIsKept
  <1>3. TypeOK
    BY DEF Init, TypeOK, Idle, CallRecord, Using
  <1>4. CallsFit /\ PreparersApart /\ StagedIsCommitted /\ DiscardedIsReleased
    BY DEF Init, CallsFit, CallFits, PreparersApart, Preparing, StagedIsCommitted,
           DiscardedIsReleased, Idle, Using
  <1>5. QED
    BY <1>2, <1>3, <1>4 DEF IInv

\* The service answers: the candidate it answers for is that of the call's page.
LEMMA ServeKeepsIInv ==
  ASSUME IInv, NEW c \in Call, Serve(c)
  PROVE  IInv'
  <1>1. UNCHANGED <<page, expired, staged, owner, preparing, shown>>
    BY DEF Serve
  <1>2. TypeOK /\ call[c].page \in Page
    BY DEF IInv, CallsFit, CallFits, Serve, ServeSubmit, ServeStatus, ServeCommit, ServeCancel,
           Asks
  <1>3. PICK said \in {"working", "ready", "ended", "committed"} :
          /\ call' = [call EXCEPT ![c].answer = said]
          /\ \/ call[c].at = "submit" /\ remote' = [remote EXCEPT ![call[c].page] = said]
             \/ call[c].at = "status" /\ remote' = [remote EXCEPT ![call[c].page] = said]
                  /\ said = remote[call[c].page]
             \/ call[c].at \in {"commit", "cancel"} /\ said \in {"committed", "ended"}
                  /\ remote' = [remote EXCEPT ![call[c].page] = said]
          /\ call[c].at = "commit" => said = "committed" /\ call[c].page \in committed'
          /\ committed \subseteq committed'
    <2>1. CASE ServeSubmit(c)
      BY <2>1 DEF ServeSubmit, Reply, Asks
    <2>2. CASE ServeStatus(c)
      <3>1. remote[call[c].page] \in {"working", "ready", "ended", "committed"}
        BY <1>2, <2>2 DEF ServeStatus, TypeOK
      <3>2. QED
        BY <2>2, <3>1 DEF ServeStatus, Reply, Asks
    <2>3. CASE ServeCommit(c)
      BY <2>3 DEF ServeCommit, Reply, Asks
    <2>4. CASE ServeCancel(c)
      BY <2>4 DEF ServeCancel, Reply, Asks
    <2>5. QED
      BY <2>1, <2>2, <2>3, <2>4 DEF Serve
  <1>4. Moved(c, call[c].page, call[c].at, said)
    BY <1>2, <1>3, AnswerMoves
  <1>5. remote' \in [Page -> {"unknown", "working", "ready", "ended", "committed"}]
    BY <1>2, <1>3 DEF TypeOK
  <1>6. TypeOK'
    BY <1>1, <1>2, <1>4, <1>5 DEF TypeOK, Moved
  <1>7. CallsFit'
    <2> SUFFICES ASSUME NEW d \in Call PROVE CallFits(d)'
      BY DEF CallsFit
    <2>1. CallFits(d) /\ CallFits(c)
      BY DEF IInv, CallsFit
    <2>2. CASE d = c
      BY <1>1, <1>2, <1>3, <1>4, <2>1, <2>2 DEF CallFits, Moved, TypeOK, Using
    <2>3. CASE d # c
      BY <1>1, <1>2, <1>3, <1>4, <2>1, <2>3 DEF CallFits, Moved, TypeOK, Using
    <2>4. QED
      BY <2>2, <2>3
  <1>8. PreparersApart'
    BY <1>4 DEF IInv, PreparersApart, Preparing, Moved
  <1>9. StagedIsCommitted'
    BY <1>1, <1>3 DEF IInv, StagedIsCommitted
  <1>10. DiscardedIsReleased'
    BY <1>1, <1>2, <1>3 DEF IInv, DiscardedIsReleased, CallsFit, CallFits, TypeOK
  <1>11. RoomIsKept'
    BY <1>1 DEF IInv, RoomIsKept, In
  <1>12. QED
    BY <1>6, <1>7, <1>8, <1>9, <1>10, <1>11 DEF IInv

\* Lost requests, expiring pages, and a service that loses or ends candidates: a
\* candidate only goes back to work when its page is submitted.
LEMMA WorldKeepsIInv ==
  ASSUME IInv,
         \/ \E c \in Call : RequestFails(c)
         \/ \E p \in Page : Expire(p) \/ CandidateMoves(p)
         \/ ServiceRestarts
         \/ Replaced
  PROVE  IInv'
  <1>1. UNCHANGED <<page, staged, owner, preparing, committed>> /\ expired \subseteq expired'
    BY DEF RequestFails, Expire, CandidateMoves, ServiceRestarts, Replaced, local
  <1>2. RoomIsKept'
    BY <1>1 DEF IInv, RoomIsKept, In
  <1>3. CASE \E c \in Call : RequestFails(c)
    <2> PICK c \in Call : RequestFails(c)
      BY <1>3
    <2>1. Moved(c, call[c].page, call[c].at, "failed") /\ UNCHANGED <<expired, remote>>
      BY AnswerMoves DEF RequestFails, IInv
    <2>2. TypeOK'
      BY <1>1, <2>1 DEF IInv, TypeOK, Moved
    <2>3. CallsFit'
      <3> SUFFICES ASSUME NEW d \in Call PROVE CallFits(d)'
        BY DEF CallsFit
      <3>1. CallFits(d)
        BY DEF IInv, CallsFit
      <3>2. QED
        BY <1>1, <2>1, <3>1 DEF CallFits, Moved
    <2>4. PreparersApart' /\ StagedIsCommitted' /\ DiscardedIsReleased'
      BY <1>1, <2>1 DEF IInv, PreparersApart, Preparing, Moved, StagedIsCommitted,
                        DiscardedIsReleased
    <2>5. QED
      BY <1>2, <2>2, <2>3, <2>4 DEF IInv
  <1>4. CASE ~\E c \in Call : RequestFails(c)
    <2>1. /\ call' = call /\ expired' \in SUBSET Page
          /\ remote' \in [Page -> {"unknown", "working", "ready", "ended", "committed"}]
          /\ \A p \in Page : remote'[p] \in {"working", "ready"} => remote[p] \in {"working", "ready"}
      BY <1>4 DEF Expire, CandidateMoves, ServiceRestarts, Replaced, local, IInv, TypeOK
    <2>2. TypeOK'
      BY <1>1, <2>1 DEF IInv, TypeOK
    <2>3. CallsFit'
      BY <1>1, <2>1 DEF IInv, CallsFit, CallFits
    <2>4. PreparersApart' /\ StagedIsCommitted' /\ DiscardedIsReleased'
      BY <1>1, <2>1 DEF IInv, PreparersApart, Preparing, StagedIsCommitted, DiscardedIsReleased
    <2>5. QED
      BY <1>2, <2>2, <2>3, <2>4 DEF IInv
  <1>5. QED
    BY <1>3, <1>4

\* A call that moves without touching pages keeps the invariant if it fits where it is
\* now, does not begin to prepare a page, and leaves alone the locks others hold.
LEMMA CallMovesKeepIInv ==
  ASSUME IInv, NEW c \in Call, NEW p, NEW step, NEW reply, Moved(c, p, step, reply),
         UNCHANGED <<page, expired, preparing, remote, committed>>,
         staged \subseteq staged', staged' \subseteq committed, staged' \in SUBSET Page,
         owner' \in [Page -> Call \cup {Free}],
         \A q \in Page : owner[q] \notin {Free, c} => owner'[q] = owner[q],
         step \in {"plan", "submit"} => Preparing(c) /\ p = call[c].page,
         CallFits(c)'
  PROVE  IInv'
  <1>1. TypeOK'
    BY DEF IInv, TypeOK, Moved
  <1>2. CallsFit'
    <2> SUFFICES ASSUME NEW d \in Call, d # c PROVE CallFits(d)'
      BY DEF CallsFit
    <2>1. CallFits(d) /\ d # Free /\ call'[d] = call[d]
      BY PreparedAssumption DEF IInv, CallsFit, Moved
    <2>2. QED
      BY <2>1 DEF CallFits, Using
  <1>3. PreparersApart'
    BY DEF IInv, PreparersApart, Preparing, Moved
  <1>4. StagedIsCommitted' /\ DiscardedIsReleased'
    BY DEF IInv, StagedIsCommitted, DiscardedIsReleased
  <1>5. RoomIsKept'
    BY DEF IInv, RoomIsKept, In
  <1>6. QED
    BY <1>1, <1>2, <1>3, <1>4, <1>5 DEF IInv

\* A request about a page begins, and waits for the page's lock.
LEMMA BeginKeepsIInv ==
  ASSUME IInv, NEW c \in Call, NEW p \in Page,
         NEW op \in {"status", "stage", "activate", "discard"}, Begin(c, op, p)
  PROVE  IInv'
  <1>1. UNCHANGED <<page, expired, staged, owner, preparing, remote, committed>>
    BY DEF Begin
  <1>2. Moved(c, p, "waits", "none")
    <2>1. "waits" \in {"plan", "waits"}
            /\ op \in {"prepare", "status", "stage", "activate", "discard"}
            /\ TypeOK /\ call' = [call EXCEPT ![c] = [Idle EXCEPT !.op = op, !.page = p, !.at = "waits"]]
      BY DEF Begin, IInv
    <2>2. QED
      BY <2>1, BeginMoves
  <1>3. CallFits(c)'
    BY <1>1, <1>2 DEF Begin, Usable, CallFits, Moved, Using
  <1>4. owner' \in [Page -> Call \cup {Free}] /\ staged' \subseteq committed /\ staged' \in SUBSET Page
    BY <1>1 DEF IInv, TypeOK, StagedIsCommitted
  <1>5. QED
    BY <1>1, <1>2, <1>3, <1>4, CallMovesKeepIInv

\* Who takes the lock of a page, or is turned away.
LEMMA TakersKeepIInv ==
  ASSUME IInv, NEW c \in Call,
         \/ StartRefresh(c)
         \/ StartActivate(c)
         \/ StartDiscard(c) /\ UNCHANGED page /\ Hold(c, "cancel")
  PROVE  IInv'
  <1>1. /\ UNCHANGED <<page, expired, staged, preparing, remote, committed>>
        /\ call[c].at = "waits" /\ owner[call[c].page] = Free
    BY DEF StartRefresh, StartActivate, StartDiscard, Take
  <1>2. /\ TypeOK /\ call[c].page \in Page /\ CallFits(c)
        /\ page[call[c].page] \in {"held", "purged", "discarded"}
    BY <1>1 DEF IInv, CallsFit, CallFits
  <1>3. staged' \subseteq committed /\ staged' \in SUBSET Page
    BY <1>1 DEF IInv, TypeOK, StagedIsCommitted
  <1>4. CASE TurnAway(c)
    <2>1. Moved(c, NoPage, "idle", "none") /\ UNCHANGED owner
      BY <1>2, <1>4, IdleMoves DEF TurnAway
    <2>2. CallFits(c)'
      BY <2>1 DEF CallFits, Moved, Using
    <2>3. QED
      BY <1>1, <1>2, <1>3, <2>1, <2>2, CallMovesKeepIInv DEF TypeOK
  <1>5. ASSUME NEW step \in {"status", "show", "cancel"}, Hold(c, step),
               step = "show" => call[c].page \in staged /\ page[call[c].page] = "held"
        PROVE  IInv'
    <2>1. Moved(c, call[c].page, step, "none")
      <3>1. step \in {"submit"} \cup Using /\ Goto(c, step)
        BY <1>5 DEF Using, Hold
      <3>2. QED
        BY <1>2, <3>1, GotoMoves
    <2>2. owner' = [owner EXCEPT ![call[c].page] = c]
      BY <1>5 DEF Hold
    <2>3. CallFits(c)'
      BY <1>1, <1>2, <1>5, <2>1, <2>2 DEF CallFits, Moved, Using, TypeOK
    <2>4. owner' \in [Page -> Call \cup {Free}]
            /\ \A q \in Page : owner[q] \notin {Free, c} => owner'[q] = owner[q]
      BY <1>1, <1>2, <2>2 DEF TypeOK
    <2>5. QED
      BY <1>1, <1>3, <2>1, <2>3, <2>4, CallMovesKeepIInv
  <1>6. CASE StartRefresh(c)
    BY <1>4, <1>5, <1>6 DEF StartRefresh
  <1>7. CASE StartActivate(c)
    BY <1>4, <1>5, <1>7 DEF StartActivate, Usable
  <1>8. CASE StartDiscard(c) /\ UNCHANGED page /\ Hold(c, "cancel")
    BY <1>5, <1>8
  <1>9. QED
    BY <1>6, <1>7, <1>8

\* What the holder of a page's lock does, short of discarding the page.
LEMMA HoldersKeepIInv ==
  ASSUME IInv, NEW c \in Call, Refreshed(c) \/ Fetched(c) \/ Committed(c) \/ Show(c)
  PROVE  IInv'
  <1>1. UNCHANGED <<page, expired, preparing, remote, committed>> /\ call[c].at \in Using
    BY DEF Refreshed, Fetched, Committed, Show, Answered, Using
  <1>2. /\ TypeOK /\ call[c].page \in Page /\ CallFits(c) /\ owner[call[c].page] = c
        /\ page[call[c].page] \in {"held", "purged", "discarded"}
    BY <1>1 DEF IInv, CallsFit, CallFits, Using
  <1>3. staged \subseteq staged' /\ staged' \subseteq committed /\ staged' \in SUBSET Page
    BY <1>2 DEF IInv, TypeOK, StagedIsCommitted, CallFits, Refreshed, Fetched, Committed, Show,
                Answered
  <1>4. CASE Leave(c)
    <2>1. Moved(c, NoPage, "idle", "none") /\ owner' = [owner EXCEPT ![call[c].page] = Free]
      BY <1>2, <1>4, IdleMoves DEF Leave
    <2>2. CallFits(c)'
      BY <2>1 DEF CallFits, Moved, Using
    <2>3. owner' \in [Page -> Call \cup {Free}]
            /\ \A q \in Page : owner[q] \notin {Free, c} => owner'[q] = owner[q]
      BY <1>2, <2>1 DEF TypeOK
    <2>4. QED
      BY <1>1, <1>3, <2>1, <2>2, <2>3, CallMovesKeepIInv
  <1>5. ASSUME NEW step \in {"fetch", "commit"}, Goto(c, step), UNCHANGED owner
        PROVE  IInv'
    <2>1. Moved(c, call[c].page, step, "none")
      <3>1. step \in {"submit"} \cup Using
        BY DEF Using
      <3>2. QED
        BY <1>2, <1>5, <3>1, GotoMoves
    <2>2. CallFits(c)'
      BY <1>1, <1>2, <1>5, <2>1 DEF CallFits, Moved, Using
    <2>3. QED
      BY <1>1, <1>2, <1>3, <1>5, <2>1, <2>2, CallMovesKeepIInv DEF TypeOK
  <1>6. QED
    BY <1>4, <1>5 DEF Refreshed, Fetched, Committed, Show

\* A page is discarded by the holder of its lock, or while the lock is free, and only
\* when the service has nothing left to do for it or does not have to be told.
LEMMA DiscardKeepsIInv ==
  ASSUME IInv, NEW c \in Call, NEW q \in Page, Discarded(q),
         Moved(c, NoPage, "idle", "none"), owner[q] \in {Free, c},
         owner' \in [Page -> Call \cup {Free}],
         \A r \in Page : owner[r] \notin {Free, c} => owner'[r] = owner[r],
         q \in staged \cup expired \/ remote[q] \notin {"working", "ready"},
         UNCHANGED <<expired, staged, preparing, remote, committed>>
  PROVE  IInv'
  <1>1. TypeOK /\ page' = [page EXCEPT ![q] = IF page[q] = "held" THEN "discarded" ELSE page[q]]
    BY DEF IInv, Discarded
  <1>2. TypeOK'
    BY <1>1 DEF TypeOK, Moved
  <1>3. CallsFit'
    <2> SUFFICES ASSUME NEW d \in Call PROVE CallFits(d)'
      BY DEF CallsFit
    <2>1. CASE d = c
      BY <2>1 DEF CallFits, Moved, Using
    <2>2. CASE d # c
      <3>1. CallFits(d) /\ d # Free /\ call'[d] = call[d]
        BY <2>2, PreparedAssumption DEF IInv, CallsFit, Moved
      <3> DEFINE p == call[d].page
      <3>2. /\ call[d].at # "idle" => p \in Page
            /\ call[d].at \in Using => p # q /\ owner'[p] = d
        BY <2>2, <3>1 DEF CallFits, Using
      <3>3. \A r \in Page : page'[r] = IF r = q /\ page[q] = "held" THEN "discarded" ELSE page[r]
        BY <1>1 DEF TypeOK
      <3>4. QED
        BY <3>1, <3>2, <3>3 DEF CallFits, Using
    <2>3. QED
      BY <2>1, <2>2
  <1>4. PreparersApart' /\ StagedIsCommitted'
    BY DEF IInv, PreparersApart, Preparing, Moved, StagedIsCommitted
  <1>5. DiscardedIsReleased'
    BY <1>1 DEF IInv, DiscardedIsReleased, TypeOK
  <1>6. In("preparing")' = In("preparing") /\ In("held")' \subseteq In("held")
    BY <1>1 DEF In, TypeOK
  <1>7. RoomIsKept'
    BY <1>6, RoomKeptWithout DEF IInv
  <1>8. QED
    BY <1>2, <1>3, <1>4, <1>5, <1>7 DEF IInv

\* A discard takes the lock, and hears what became of its cancellation.
LEMMA DiscardersKeepIInv ==
  ASSUME IInv, NEW c \in Call, StartDiscard(c) \/ Cancelled(c)
  PROVE  IInv'
  <1>1. CASE StartDiscard(c)
    <2>1. /\ call[c].at = "waits" /\ owner[call[c].page] = Free /\ TypeOK
          /\ UNCHANGED <<expired, staged, preparing, remote, committed>>
      BY <1>1 DEF StartDiscard, Take, IInv
    <2>2. call[c].page \in Page
      BY <2>1 DEF IInv, CallsFit, CallFits
    <2>3. CASE TurnAway(c) /\ Discarded(call[c].page) /\ call[c].page \in staged \cup expired
      <3>1. Moved(c, NoPage, "idle", "none") /\ UNCHANGED owner
        BY <2>1, <2>3, IdleMoves DEF TurnAway
      <3>2. QED
        BY <2>1, <2>2, <2>3, <3>1, DiscardKeepsIInv DEF TypeOK
    <2>4. CASE UNCHANGED page /\ Hold(c, "cancel")
      BY <1>1, <2>4, TakersKeepIInv
    <2>5. QED
      BY <1>1, <2>3, <2>4 DEF StartDiscard
  <1>2. CASE Cancelled(c)
    <2>1. /\ call[c].at = "cancel" /\ call[c].answer # "none" /\ Leave(c) /\ TypeOK
          /\ UNCHANGED <<expired, staged, preparing, remote, committed>>
      BY <1>2 DEF Cancelled, Answered, IInv
    <2>2. call[c].page \in Page /\ owner[call[c].page] = c /\ CallFits(c)
      BY <2>1 DEF IInv, CallsFit, CallFits, Using
    <2>3. Moved(c, NoPage, "idle", "none") /\ owner' = [owner EXCEPT ![call[c].page] = Free]
      BY <2>1, IdleMoves DEF Leave
    <2>4. owner' \in [Page -> Call \cup {Free}]
            /\ \A r \in Page : owner[r] \notin {Free, c} => owner'[r] = owner[r]
      BY <2>1, <2>2, <2>3 DEF TypeOK
    <2>5. CASE Discarded(call[c].page) /\ call[c].answer # "failed"
      <3>1. remote[call[c].page] \notin {"working", "ready"}
        BY <2>1, <2>2, <2>5 DEF CallFits
      <3>2. QED
        BY <2>1, <2>2, <2>3, <2>4, <2>5, <3>1, DiscardKeepsIInv
    <2>6. CASE UNCHANGED page
      <3>1. CallFits(c)'
        BY <2>3 DEF CallFits, Moved, Using
      <3>2. staged' \subseteq committed /\ staged' \in SUBSET Page
        BY <2>1 DEF IInv, TypeOK, StagedIsCommitted
      <3>3. QED
        BY <2>1, <2>3, <2>4, <2>6, <3>1, <3>2, CallMovesKeepIInv
    <2>7. QED
      BY <1>2, <2>5, <2>6 DEF Cancelled
  <1>3. QED
    BY <1>1, <1>2

\* A preparation drops the expired pages and counts those left before it adds its own.
LEMMA PrepareKeepsIInv ==
  ASSUME IInv, NEW c \in Call, NEW p \in Page, Prepare(c, p)
  PROVE  IInv'
  <1>1. UNCHANGED <<expired, staged, owner, remote, committed>> /\ page[p] = "new" /\ TypeOK
    BY DEF Prepare, IInv
  <1>2. /\ Purged \in [Page -> {"new", "preparing", "held", "failed", "purged", "discarded"}]
        /\ \A q \in Page : Purged[q] # page[q] => page[q] = "held" /\ Purged[q] = "purged"
    BY <1>1 DEF Purged, TypeOK
  <1>3. CASE Full(Purged)
    <2>1. page' = Purged /\ UNCHANGED <<preparing, call>>
      BY <1>3 DEF Prepare
    <2>2. TypeOK'
      BY <1>1, <1>2, <2>1 DEF TypeOK
    <2>3. CallsFit'
      BY <1>1, <1>2, <2>1 DEF IInv, CallsFit, CallFits, Using
    <2>4. PreparersApart' /\ StagedIsCommitted' /\ DiscardedIsReleased'
      BY <1>1, <1>2, <2>1 DEF IInv, PreparersApart, Preparing, StagedIsCommitted,
                              DiscardedIsReleased
    <2>5. In("preparing")' = In("preparing") /\ In("held")' \subseteq In("held")
      BY <1>2, <2>1 DEF In
    <2>6. RoomIsKept'
      BY <2>1, <2>5, RoomKeptWithout DEF IInv
    <2>7. QED
      BY <2>2, <2>3, <2>4, <2>6 DEF IInv
  <1>4. CASE ~Full(Purged)
    <2>1. page' = [Purged EXCEPT ![p] = "preparing"] /\ preparing' = preparing + 1
      BY <1>4 DEF Prepare
    <2>2. Moved(c, p, "plan", "none")
      <3>1. /\ call' = [call EXCEPT ![c] = [Idle EXCEPT !.op = "prepare", !.page = p, !.at = "plan"]]
            /\ "prepare" \in {"prepare", "status", "stage", "activate", "discard"}
            /\ "plan" \in {"plan", "waits"}
        BY <1>4 DEF Prepare
      <3>2. QED
        BY <1>1, <3>1, BeginMoves
    <2>3. TypeOK'
      BY <1>1, <1>2, <2>1, <2>2 DEF TypeOK, Moved
    <2>4. \A q \in Page : \/ q = p /\ page'[q] = "preparing"
                          \/ q # p /\ page'[q] = page[q]
                          \/ q # p /\ page[q] = "held" /\ page'[q] = "purged"
      BY <1>2, <2>1
    <2>5. CallsFit'
      <3> SUFFICES ASSUME NEW d \in Call PROVE CallFits(d)'
        BY DEF CallsFit
      <3>1. CASE d = c
        BY <2>2, <2>4, <3>1 DEF CallFits, Moved, Using
      <3>2. CASE d # c
        <4>1. CallFits(d) /\ call'[d] = call[d]
          BY <2>2, <3>2 DEF IInv, CallsFit, Moved
        <4>2. call[d].at # "idle" => call[d].page \in Page /\ call[d].page # p
          <5>1. call[d] \in CallRecord
            BY <1>1 DEF TypeOK
          <5>2. call[d].at \in {"idle", "plan", "submit", "waits"} \cup Using
            BY <5>1 DEF CallRecord
          <5>3. QED
            BY <1>1, <4>1, <5>2 DEF CallFits
        <4>3. QED
          BY <1>1, <2>4, <4>1, <4>2 DEF CallFits, Using
      <3>3. QED
        BY <3>1, <3>2
    <2>6. PreparersApart'
      <3>1. \A d \in Call : Preparing(d) => call[d].page # p
        BY <1>1 DEF IInv, CallsFit, CallFits, Preparing
      <3>2. QED
        BY <2>2, <3>1 DEF IInv, PreparersApart, Preparing, Moved
    <2>7. StagedIsCommitted' /\ DiscardedIsReleased'
      BY <1>1, <2>4 DEF IInv, StagedIsCommitted, DiscardedIsReleased
    <2>8. RoomIsKept'
      <3> DEFINE P == In("preparing")
      <3> DEFINE H == In("held")
      <3>1. /\ In("preparing")' = P \cup {p} /\ p \notin P
            /\ In("held")' = {q \in Page : Purged[q] = "held"} /\ In("held")' \in SUBSET H
        BY <1>1, <1>2, <2>1 DEF In
      <3>2. IsFiniteSet(P) /\ IsFiniteSet(H) /\ preparing = Cardinality(P)
        BY DEF IInv, RoomIsKept
      <3>3. IsFiniteSet(P \cup {p}) /\ Cardinality(P \cup {p}) = Cardinality(P) + 1
        BY <3>1, <3>2, FS_AddElement
      <3>4. IsFiniteSet(In("held")')
        BY <3>1, <3>2, FS_Subset
      <3>5. Cardinality(P) \in Nat /\ Cardinality(In("held")') \in Nat
        BY <3>2, <3>4, FS_CardinalityType
      <3>6. ~(Cardinality(In("held")') + Cardinality(P) >= Capacity)
        BY <1>4, <3>1, <3>2 DEF Full
      <3> HIDE DEF P, H
      <3>7. Cardinality(In("held")') + Cardinality(P \cup {p}) <= Capacity
        BY <3>3, <3>5, <3>6, PreparedAssumption
      <3>8. /\ IsFiniteSet(In("preparing"))' /\ IsFiniteSet(In("held"))'
            /\ preparing' = Cardinality(In("preparing"))'
            /\ (Cardinality(In("held")) + Cardinality(In("preparing")) <= Capacity)'
        BY <2>1, <3>1, <3>2, <3>3, <3>4, <3>7
      <3>9. QED
        BY <3>8 DEF RoomIsKept
    <2>9. QED
      BY <2>3, <2>5, <2>6, <2>7, <2>8 DEF IInv
  <1>5. QED
    BY <1>3, <1>4

\* A preparation that ends gives its place to the page, or back.
LEMMA PreparedKeepsIInv ==
  ASSUME IInv, NEW c \in Call, Preparing(c), NEW outcome \in {"held", "failed"},
         Prepared(c, outcome), UNCHANGED <<expired, staged, owner, remote, committed>>
  PROVE  IInv'
  <1> DEFINE q == call[c].page
  <1>1. TypeOK /\ q \in Page /\ page[q] = "preparing"
    BY DEF IInv, CallsFit, CallFits, Preparing
  <1>2. page' = [page EXCEPT ![q] = outcome] /\ preparing' = preparing - 1
    BY DEF Prepared
  <1>3. Moved(c, NoPage, "idle", "none")
    BY <1>1, IdleMoves DEF Prepared
  <1>4. TypeOK'
    BY <1>1, <1>2, <1>3 DEF TypeOK, Moved
  <1>5. CallsFit'
    <2> SUFFICES ASSUME NEW d \in Call PROVE CallFits(d)'
      BY DEF CallsFit
    <2>1. CASE d = c
      BY <1>3, <2>1 DEF CallFits, Moved, Using
    <2>2. CASE d # c
      <3>1. CallFits(d) /\ call'[d] = call[d]
        BY <1>3, <2>2 DEF IInv, CallsFit, Moved
      <3>2. Preparing(d) => call[d].page # q
        BY <2>2 DEF IInv, PreparersApart
      <3>3. /\ \A p \in Page : p # q => page'[p] = page[p]
            /\ call[d].at \in Using \cup {"waits"} => call[d].page # q
        BY <1>1, <1>2, <3>1 DEF CallFits, TypeOK
      <3>4. QED
        BY <3>1, <3>2, <3>3 DEF CallFits, Preparing, Using
    <2>3. QED
      BY <2>1, <2>2
  <1>6. PreparersApart'
    BY <1>3 DEF IInv, PreparersApart, Preparing, Moved
  <1>7. StagedIsCommitted' /\ DiscardedIsReleased'
    BY <1>1, <1>2 DEF IInv, StagedIsCommitted, DiscardedIsReleased, TypeOK
  <1>8. RoomIsKept'
    <2> DEFINE P == In("preparing")
    <2> DEFINE H == In("held")
    <2>1. /\ q \in P /\ q \notin H /\ In("preparing")' = P \ {q}
          /\ In("held")' \in {H, H \cup {q}}
      BY <1>1, <1>2 DEF In, TypeOK
    <2>2. /\ IsFiniteSet(P) /\ IsFiniteSet(H) /\ preparing = Cardinality(P)
          /\ Cardinality(H) + Cardinality(P) <= Capacity
      BY DEF IInv, RoomIsKept
    <2>3. IsFiniteSet(P \ {q}) /\ Cardinality(P \ {q}) = Cardinality(P) - 1
      BY <2>1, <2>2, FS_RemoveElement
    <2>4. IsFiniteSet(H \cup {q}) /\ Cardinality(H \cup {q}) = Cardinality(H) + 1
      BY <2>1, <2>2, FS_AddElement
    <2>5. Cardinality(P) \in Nat /\ Cardinality(H) \in Nat
      BY <2>2, FS_CardinalityType
    <2> HIDE DEF P, H
    <2>6. IsFiniteSet(In("held")') /\ Cardinality(In("held")') + Cardinality(P \ {q}) <= Capacity
      <3>1. CASE In("held")' = H
        BY <2>2, <2>3, <2>5, <3>1, PreparedAssumption
      <3>2. CASE In("held")' = H \cup {q}
        <4>1. /\ IsFiniteSet(In("held")')
              /\ Cardinality(In("held")') = Cardinality(H) + 1
          BY <2>4, <3>2
        <4>2. Cardinality(H) + 1 + (Cardinality(P) - 1) <= Capacity
          BY <2>2, <2>5, PreparedAssumption
        <4>3. QED
          BY <2>3, <4>1, <4>2
      <3>3. QED
        BY <2>1, <3>1, <3>2
    <2>7. /\ IsFiniteSet(In("preparing"))' /\ IsFiniteSet(In("held"))'
          /\ preparing' = Cardinality(In("preparing"))'
          /\ (Cardinality(In("held")) + Cardinality(In("preparing")) <= Capacity)'
      BY <1>2, <2>1, <2>2, <2>3, <2>6
    <2>8. QED
      BY <2>7 DEF RoomIsKept
  <1>9. QED
    BY <1>4, <1>5, <1>6, <1>7, <1>8 DEF IInv

\* The preparation of a page, from its plan to its entry in the table.
LEMMA PreparersKeepIInv ==
  ASSUME IInv, NEW c \in Call, Planned(c) \/ Submitted(c)
  PROVE  IInv'
  <1>1. UNCHANGED <<expired, staged, owner, remote, committed>> /\ Preparing(c) /\ TypeOK
    BY DEF Planned, Submitted, Answered, Preparing, IInv
  <1>2. CASE \E outcome \in {"held", "failed"} : Prepared(c, outcome)
    BY <1>1, <1>2, PreparedKeepsIInv
  <1>3. CASE Goto(c, "submit") /\ UNCHANGED <<page, preparing>>
    <2>1. Moved(c, call[c].page, "submit", "none")
      BY <1>1, <1>3, GotoMoves
    <2>2. CallFits(c)'
      BY <1>1, <1>3, <2>1 DEF IInv, CallsFit, CallFits, Preparing, Moved, Using
    <2>3. staged' \subseteq committed /\ staged' \in SUBSET Page
      BY <1>1 DEF IInv, TypeOK, StagedIsCommitted
    <2>4. QED
      BY <1>1, <1>3, <2>1, <2>2, <2>3, CallMovesKeepIInv DEF TypeOK
  <1>4. QED
    BY <1>2, <1>3 DEF Planned, Submitted

\* Every step of a call, the service or the clock keeps it.
LEMMA NextKeepsIInv == IInv /\ [Next]_vars => IInv'
  <1> SUFFICES ASSUME IInv, [Next]_vars PROVE IInv'
    OBVIOUS
  <1>1. CASE UNCHANGED vars
    BY <1>1 DEF vars, local, IInv, TypeOK, CallsFit, CallFits, PreparersApart, Preparing,
                StagedIsCommitted, RoomIsKept, In, DiscardedIsReleased
  <1>2. ASSUME NEW c \in Call, NEW p \in Page, Prepare(c, p) PROVE IInv'
    BY <1>2, PrepareKeepsIInv
  <1>3. ASSUME NEW c \in Call, NEW p \in Page,
               NEW op \in {"status", "stage", "activate", "discard"}, Begin(c, op, p)
        PROVE  IInv'
    BY <1>3, BeginKeepsIInv
  <1>4. ASSUME NEW c \in Call, Operation(c) PROVE IInv'
    BY <1>4, PreparersKeepIInv, TakersKeepIInv, HoldersKeepIInv, DiscardersKeepIInv
       DEF Operation
  <1>5. ASSUME NEW c \in Call, Serve(c) PROVE IInv'
    BY <1>5, ServeKeepsIInv
  <1>6. CASE \/ \E c \in Call : RequestFails(c)
             \/ \E p \in Page : Expire(p) \/ CandidateMoves(p)
             \/ ServiceRestarts
             \/ Replaced
    BY <1>6, WorldKeepsIInv
  <1>7. QED
    BY <1>1, <1>2, <1>3, <1>4, <1>5, <1>6 DEF Next

\* The inductive invariant holds in every reachable state of the playback.
\* (anticipatory_playback.py:87)
THEOREM Inductive == Spec => []IInv
  BY InitIInv, NextKeepsIInv, PTL DEF Spec

-----------------------------------------------------------------------------
(* What follows.                                                           *)

\* However many preparations run at once, the pages held and on their way never
\* exceed the capacity.  (anticipatory_playback.py:98-105)
THEOREM PagesStayWithinCapacity == Spec => []PagesWithinCapacity
  <1>1. IInv => PagesWithinCapacity
    BY RoomBoundsPages DEF IInv
  <1>2. QED
    BY <1>1, Inductive, PTL

\* A page discarded before it expires leaves no work behind at the service, whatever
\* requests and answers are lost.  (anticipatory_playback.py:275-282)
THEOREM DiscardedStaysReleased == Spec => []DiscardedIsReleased
  <1>1. IInv => DiscardedIsReleased
    BY DEF IInv
  <1>2. QED
    BY <1>1, Inductive, PTL

\* What goes on the wall was committed by the service and nobody has discarded it,
\* because its activation holds the page's lock.  (anticipatory_playback.py:257-272)
THEOREM CommittedPagesGoUp == Spec => OnlyCommittedPagesGoUp
  <1> DEFINE Goes == shown' \notin {shown, NoPage} =>
                       shown' \in committed /\ page[shown'] # "discarded"
  <1>1. IInv /\ [Next]_vars => [Goes]_vars
    <2> SUFFICES ASSUME IInv, Next, shown' \notin {shown, NoPage}
                 PROVE  shown' \in committed /\ page[shown'] # "discarded"
      OBVIOUS
    <2>1. PICK c \in Call : Show(c)
      <3>1. \A c \in Call, p \in Page : Prepare(c, p) => UNCHANGED shown
        BY DEF Prepare
      <3>2. \A c \in Call, p \in Page, op \in {"status", "stage", "activate", "discard"} :
              Begin(c, op, p) => UNCHANGED shown
        BY DEF Begin
      <3>3. \A c \in Call : Operation(c) /\ ~Show(c) => UNCHANGED shown
        BY DEF Operation, Planned, Submitted, StartRefresh, StartActivate, StartDiscard, Take,
               Refreshed, Fetched, Committed, Cancelled
      <3>4. \A c \in Call : Serve(c) \/ RequestFails(c) => UNCHANGED shown
        BY DEF Serve, RequestFails
      <3>5. \A p \in Page : Expire(p) \/ CandidateMoves(p) => UNCHANGED shown
        BY DEF Expire, CandidateMoves
      <3>6. ~ServiceRestarts /\ ~Replaced
        BY DEF ServiceRestarts, Replaced
      <3>7. QED
        BY <3>1, <3>2, <3>3, <3>4, <3>5, <3>6 DEF Next
    <2>2. shown' = call[c].page /\ call[c].at = "show"
      BY <2>1 DEF Show
    <2>3. CallFits(c) /\ StagedIsCommitted
      BY DEF IInv, CallsFit
    <2>4. QED
      BY <2>2, <2>3 DEF CallFits, StagedIsCommitted
  <1>2. QED
    BY <1>1, Inductive, PTL DEF Spec, OnlyCommittedPagesGoUp

-----------------------------------------------------------------------------
(* The orchestrator.  Of a key that was started once, the one task is      *)
(* named in _tasks until its done callback has run: whoever ends the       *)
(* record reaches it, and while it is at work nobody else ends the record  *)
(* without cancelling it.  That keeps records, tasks and waiters in        *)
(* agreement, and with them the branches of a sequence apart.              *)

RecordStates == {"absent"} \cup Live \cup Dead

\* What a task is.
LEMMA SceneTasks ==
  /\ \A t \in Task : t[1] \in Key /\ t[2] \in 1..MaxStarts /\ t = <<t[1], t[2]>>
  /\ \A k \in Key, i \in 1..MaxStarts : <<k, i>> \in Task
  BY DEF Task, Key

\* The words for the states of a record are different words.
LEMMA StatesApart ==
  /\ Working \cap Terminal = {} /\ "absent" \notin Working \cup Terminal
  /\ RecordStates = {"absent"} \cup Working \cup Terminal
  /\ Dead \subseteq Terminal /\ Live \subseteq RecordStates
  BY DEF RecordStates, Working, Terminal, Live, Dead

\* A request under the lock ends the records E: it cancels their tasks and tells their
\* waiters; beside that it may commit records that are ready.
RequestEnds(E) ==
  /\ E \subseteq Held
  /\ state' \in [Key -> RecordStates]
  /\ \A k \in E : state'[k] \in Terminal
  /\ \A k \in Key \ E : state'[k] = state[k] \/ (state[k] = "ready" /\ state'[k] = "committed")
  /\ ended' = ended \cup E
  /\ CancelTasks(E)
  /\ UNCHANGED <<registered, used, pc>>

LEMMA RequestsKeepTasks ==
  ASSUME TasksFit, NEW K \in SUBSET Key, CancelTasks(K), UNCHANGED <<registered, used, pc>>
  PROVE  TasksFit'
<1>1. \A t \in Task : registered[t[1]] = t[2] => t \in Started
  BY SceneTasks DEF TasksFit, Started
<1>2. Started' = Started
  BY DEF Started
<1> QED BY <1>1, <1>2 DEF TasksFit, CancelTasks

\* Whoever ends records keeps records, tasks and waiters in agreement.
LEMMA RequestsKeepAgreement ==
  ASSUME ScenesIInv, NEW E \in SUBSET Key, RequestEnds(E)
  PROVE  /\ TasksFit' /\ TasksNamedOnce' /\ RecordTaskAndWaitersAgree'
         /\ Held' = Held /\ ended' \subseteq Held'
<1>1. TasksFit'
  BY RequestsKeepTasks DEF ScenesIInv, RequestEnds
<1>2. TasksNamedOnce'
  BY DEF ScenesIInv, TasksNamedOnce, RequestEnds
<1>3. Held' = Held /\ ended' \subseteq Held'
  BY StatesApart DEF ScenesIInv, RecordsFit, RequestEnds, Held, Terminal
<1>4. ASSUME NEW k \in Key, used'[k] <= 1
      PROVE  /\ state'[k] \in Working <=> Busy(k)'
             /\ k \in Held' => (k \in ended' <=> state'[k] \in Terminal)
  <2>1. /\ used[k] <= 1
        /\ state[k] \in Working <=> Busy(k)
        /\ k \in Held => (k \in ended <=> state[k] \in Terminal)
    BY <1>4 DEF ScenesIInv, RecordTaskAndWaitersAgree, RequestEnds
  <2>2. CASE k \in E
    <3>1. \A t \in Task : t[1] = k /\ pc[t] \notin {"free", "done"} => t \in cancelled'
      <4> SUFFICES ASSUME NEW t \in Task, t[1] = k, pc[t] \notin {"free", "done"}
                   PROVE  t \in cancelled'
        OBVIOUS
      <4>1. registered[t[1]] = t[2]
        BY <2>1 DEF ScenesIInv, TasksNamedOnce
      <4> QED BY <4>1, <2>2 DEF RequestEnds, CancelTasks
    <3> QED BY <2>2, <3>1, StatesApart DEF RequestEnds, Busy
  <2>3. CASE k \notin E
    <3>1. \A t \in Task : t[1] = k => (t \in cancelled' <=> t \in cancelled)
      BY <2>3 DEF RequestEnds, CancelTasks
    <3>2. Busy(k)' <=> Busy(k)
      BY <3>1 DEF Busy, RequestEnds
    <3>3. k \in ended' <=> k \in ended
      BY <2>3 DEF RequestEnds
    <3>4. CASE state'[k] = state[k]
      BY <2>1, <3>2, <3>3, <3>4, <1>3
    <3>5. CASE state[k] = "ready" /\ state'[k] = "committed"
      BY <2>1, <3>2, <3>3, <3>5, <1>3 DEF Working, Terminal
    <3> QED BY <2>3, <3>4, <3>5 DEF RequestEnds
  <2> QED BY <2>2, <2>3
<1> QED BY <1>1, <1>2, <1>3, <1>4 DEF RecordTaskAndWaitersAgree

\* Keys are started more and more often.  If nothing that is selected takes up work, no
\* second branch of a sequence comes to be worked on.
LEMMA PendingKept ==
  ASSUME ScenesIInv, \A k \in Key : used[k] <= used'[k], used' \in [Key -> Nat],
         selected' \subseteq Key,
         \A k \in selected' : used'[k] <= 1 /\ state'[k] \in Working
                                => k \in selected /\ state[k] \in Working
  PROVE  OnePending'
<1> SUFFICES ASSUME NEW j \in selected', NEW k \in selected', SlotOf(j) = SlotOf(k),
                    \A i \in Key : SlotOf(i) = SlotOf(k) => used'[i] <= 1,
                    state'[j] \in Working, state'[k] \in Working
             PROVE  j = k
  BY DEF OnePending
<1>1. \A i \in Key : SlotOf(i) = SlotOf(k) => used[i] <= 1
  BY DEF ScenesIInv, TasksFit
<1>2. /\ j \in selected /\ state[j] \in Working
      /\ k \in selected /\ state[k] \in Working
  OBVIOUS
<1> QED BY <1>1, <1>2 DEF ScenesIInv, OnePending

\* _expire_locked.
LEMMA SweptFacts ==
  ASSUME RecordsFit
  PROVE  /\ Expirable \subseteq Held
         /\ Swept \in [Key -> RecordStates]
         /\ \A k \in Key : Swept[k] = IF k \in Expirable THEN "expired" ELSE state[k]
         /\ \A k \in Key : (Swept[k] = "absent") <=> (k \notin Held)
  BY DEF RecordsFit, Expirable, Swept, Held, RecordStates, Dead, Live

LEMMA SweepKeepsIInv ==
  ASSUME ScenesIInv, Sweep
  PROVE  ScenesIInv'
<1>1. RequestEnds(Expirable)
  <2>1. RecordsFit /\ state' = Swept /\ \A k \in Expirable : k \in Key
    BY DEF ScenesIInv, Sweep, Expirable, Held
  <2>2. \A k \in Expirable : state'[k] \in Terminal
    BY <2>1, SweptFacts DEF Terminal, Dead
  <2> QED BY <2>1, <2>2, SweptFacts DEF Sweep, RequestEnds
<1>2. Expirable \in SUBSET Key
  BY DEF Expirable, Held
<1>3. /\ TasksFit' /\ TasksNamedOnce' /\ RecordTaskAndWaitersAgree'
      /\ Held' = Held /\ ended' \subseteq Held'
  BY <1>1, <1>2, RequestsKeepAgreement
<1>4. RecordsFit'
  BY <1>1, <1>3 DEF ScenesIInv, RecordsFit, RequestEnds, Sweep, RecordStates
<1>5. OnePending'
  BY <1>1, StatesApart, PendingKept DEF ScenesIInv, RecordsFit, TasksFit, RequestEnds, Sweep,
     Held, Working
<1> QED BY <1>3, <1>4, <1>5 DEF ScenesIInv

LEMMA CancellationKeepsIInv ==
  ASSUME ScenesIInv, NEW K \in SUBSET Key, CancelRecords(K),
         \A k \in K : state[k] \in Live \ {"committed"}
  PROVE  ScenesIInv'
<1>1. RequestEnds(K)
  BY DEF ScenesIInv, RecordsFit, CancelRecords, RequestEnds, Terminal, Dead, RecordStates,
     Held, Live, Working
<1>3. /\ TasksFit' /\ TasksNamedOnce' /\ RecordTaskAndWaitersAgree'
      /\ Held' = Held /\ ended' \subseteq Held'
  BY <1>1, RequestsKeepAgreement
<1>4. RecordsFit'
  BY <1>1, <1>3 DEF ScenesIInv, RecordsFit, RequestEnds, CancelRecords, RecordStates
<1>5. OnePending'
  BY <1>1, StatesApart, PendingKept DEF ScenesIInv, RecordsFit, TasksFit, RequestEnds,
     CancelRecords, Held, Working
<1> QED BY <1>3, <1>4, <1>5 DEF ScenesIInv

LEMMA CommitKeepsIInv ==
  ASSUME ScenesIInv, NEW k \in Key, Commit(k)
  PROVE  ScenesIInv'
<1> DEFINE rest == {j \in Key \ {k} : /\ SlotOf(j) = SlotOf(k)
                                      /\ Swept[j] \in Live \ {"committed"}}
           E == Expirable \cup rest
<1>1. RecordsFit /\ Swept[k] \in Live
  BY DEF ScenesIInv, Commit
<1>2. /\ state' = [j \in Key |-> IF j \in rest THEN "cancelled"
                                 ELSE IF j = k /\ Swept[k] = "ready" THEN "committed"
                                 ELSE Swept[j]]
      /\ selected' = selected \cup {k} /\ ended' = ended \cup E
      /\ CancelTasks(E) /\ UNCHANGED <<due, registered, used, pc>>
  BY DEF Commit
<1>3. /\ k \in Held /\ k \notin rest /\ k \notin Expirable
      /\ \A j \in rest : j \in Held /\ j \notin Expirable
  BY <1>1, SweptFacts DEF Live, Working
<1>4. RequestEnds(E)
  <2>1. \A j \in Key : state'[j] \in RecordStates
    BY <1>1, <1>2, SweptFacts DEF RecordStates, Dead, Live
  <2>2. \A j \in E : state'[j] \in Terminal
    <3>1. \A j \in rest : j \in Key /\ state'[j] = "cancelled"
      BY <1>2
    <3>2. \A j \in Expirable \ rest : j \in Key /\ state'[j] = "expired"
      BY <1>1, <1>2, <1>3, SweptFacts DEF Held
    <3> QED BY <3>1, <3>2 DEF Terminal, Dead
  <2>3. \A j \in Key \ E : state'[j] = state[j] \/ (state[j] = "ready" /\ state'[j] = "committed")
    BY <1>1, <1>2, <1>3, SweptFacts
  <2> QED BY <1>1, <1>2, <1>3, <2>1, <2>2, <2>3, SweptFacts DEF RequestEnds
<1>5. E \in SUBSET Key
  BY <1>1, SweptFacts DEF Held
<1>6. /\ TasksFit' /\ TasksNamedOnce' /\ RecordTaskAndWaitersAgree'
      /\ Held' = Held /\ ended' \subseteq Held'
  BY <1>4, <1>5, RequestsKeepAgreement
<1>7. RecordsFit'
  BY <1>1, <1>2, <1>3, <1>4, <1>6 DEF RecordsFit, RequestEnds, RecordStates
<1>8. \A j \in Key : state'[j] \in Working /\ SlotOf(j) = SlotOf(k) => j = k
  <2> SUFFICES ASSUME NEW j \in Key, SlotOf(j) = SlotOf(k), j # k, state'[j] \in Working
               PROVE  FALSE
    OBVIOUS
  <2>1. j \notin rest /\ state'[j] = Swept[j]
    BY <1>2 DEF Working
  <2> QED BY <2>1 DEF Live, Working
<1>9. \A j \in Key : state'[j] \in Working => state[j] \in Working
  BY <1>4, StatesApart DEF RequestEnds, Working
<1>10. \A j \in selected' : j \in Key
  BY <1>7 DEF RecordsFit, Held
<1>11. OnePending'
  <2> SUFFICES ASSUME NEW i \in selected', NEW j \in selected', SlotOf(i) = SlotOf(j),
                      \A l \in Key : SlotOf(l) = SlotOf(j) => used'[l] <= 1,
                      state'[i] \in Working, state'[j] \in Working
               PROVE  i = j
    BY DEF OnePending
  <2>1. CASE SlotOf(j) = SlotOf(k)
    BY <2>1, <1>8, <1>10
  <2>2. CASE SlotOf(j) # SlotOf(k)
    <3>1. i \in selected /\ j \in selected
      BY <2>2, <1>2
    <3> QED BY <3>1, <1>2, <1>9, <1>10 DEF ScenesIInv, OnePending
  <2> QED BY <2>1, <2>2
<1> QED BY <1>6, <1>7, <1>11 DEF ScenesIInv

LEMMA ElapseKeepsIInv ==
  ASSUME ScenesIInv, NEW k \in Key, Elapse(k)
  PROVE  ScenesIInv'
<1>1. due' \subseteq Held /\ UNCHANGED <<state, selected, ended, registered, used, pc, cancelled>>
  BY DEF ScenesIInv, RecordsFit, Elapse, records, tasks
<1>2. Held' = Held /\ Started' = Started
  BY <1>1 DEF Held, Started
<1>3. \A j \in Key : Busy(j)' <=> Busy(j)
  BY <1>1 DEF Busy
<1>4. RecordsFit' /\ TasksFit' /\ TasksNamedOnce'
  BY <1>1, <1>2 DEF ScenesIInv, RecordsFit, TasksFit, TasksNamedOnce
<1>5. RecordTaskAndWaitersAgree'
  BY <1>1, <1>2, <1>3 DEF ScenesIInv, RecordTaskAndWaitersAgree
<1>6. OnePending'
  BY <1>1 DEF ScenesIInv, OnePending
<1> QED BY <1>4, <1>5, <1>6 DEF ScenesIInv

LEMMA CancelKeepsIInv ==
  ASSUME ScenesIInv, NEW s \in Slot, Cancel(s)
  PROVE  ScenesIInv'
  BY CancellationKeepsIInv DEF Cancel

LEMMA CloseKeepsIInv ==
  ASSUME ScenesIInv, Close
  PROVE  ScenesIInv'
<1>1. PICK K \in SUBSET {k \in Key : registered[k] # 0 /\ state[k] \in Live \ {"committed"}} :
             CancelRecords(K)
  BY DEF Close
<1> QED BY <1>1, CancellationKeepsIInv

----------------------------------------------------------------------------
\* What a task does to its record.

LEMMA TaskOfCleanKey ==
  ASSUME ScenesIInv, NEW t \in Task, pc[t] # "free", used[t[1]] <= 1
  PROVE  /\ \A u \in Task : u[1] = t[1] /\ pc[u] # "free" => u = t
         /\ Busy(t[1]) <=> pc[t] # "done" /\ t \notin cancelled
<1>1. \A u \in Task : u[1] = t[1] /\ pc[u] # "free" => u = t
  <2> SUFFICES ASSUME NEW u \in Task, u[1] = t[1], pc[u] # "free"
               PROVE  u = t
    OBVIOUS
  <2>1. registered[t[1]] = t[2] /\ registered[t[1]] = u[2]
    BY DEF ScenesIInv, TasksNamedOnce
  <2> QED BY <2>1, SceneTasks
<1> QED BY <1>1 DEF Busy

\* A task that is at work and was not cancelled has a record that is worked on.
LEMMA TaskAtWork ==
  ASSUME ScenesIInv, NEW t \in Task, pc[t] \notin {"free", "done"}, t \notin cancelled,
         used[t[1]] <= 1
  PROVE  state[t[1]] \in Working /\ t[1] \in Held /\ t[1] \notin ended
<1>1. t[1] \in Key /\ Busy(t[1])
  BY SceneTasks, TaskOfCleanKey
<1>2. state[t[1]] \in Working
  BY <1>1 DEF ScenesIInv, RecordTaskAndWaitersAgree
<1>3. t[1] \in Held /\ state[t[1]] \notin Terminal
  BY <1>1, <1>2, StatesApart DEF Held
<1> QED BY <1>1, <1>2, <1>3 DEF ScenesIInv, RecordTaskAndWaitersAgree

LEMMA TaskMovesKeepIInv ==
  ASSUME ScenesIInv, NEW t \in Task, pc[t] \notin {"free", "done"}, NEW p \in Pc \ {"free"},
         MoveTo(t, p), UNCHANGED <<due, registered, used, selected>>,
         state' \in [Key -> RecordStates], Held' = Held,
         \A k \in Key \ {t[1]} : state'[k] = state[k],
         ended' = ended \/ (ended' = ended \cup {t[1]} /\ t[1] \in Held),
         cancelled' = cancelled \/ CancelTasks({t[1]}),
         used[t[1]] <= 1 =>
           /\ state'[t[1]] \in Working <=> (p # "done" /\ t \notin cancelled')
           /\ t[1] \in Held => (t[1] \in ended' <=> state'[t[1]] \in Terminal)
           /\ state'[t[1]] \in Working => state[t[1]] \in Working
  PROVE  ScenesIInv'
<1>1. t[1] \in Key
  BY SceneTasks
<1>2. /\ \A u \in Task \ {t} : pc'[u] = pc[u]
      /\ pc'[t] = p /\ pc' \in [Task -> Pc]
  BY DEF MoveTo, ScenesIInv, TasksFit
<1>3. RecordsFit'
  BY DEF ScenesIInv, RecordsFit, RecordStates
<1>4. TasksFit'
  <2>1. \A u \in Task : registered[u[1]] = u[2] => u \in Started
    BY SceneTasks DEF ScenesIInv, TasksFit, Started
  <2>2. Started' = Started
    BY DEF Started
  <2>3. /\ cancelled' \subseteq Task
        /\ \A u \in Task \ Started : u \notin cancelled'
    BY <2>1 DEF ScenesIInv, TasksFit, CancelTasks
  <2>4. t \in Started
    BY DEF ScenesIInv, TasksFit
  <2>5. \A u \in Task \ Started : pc'[u] = "free"
    BY <1>2, <2>4 DEF ScenesIInv, TasksFit
  <2> QED BY <1>2, <2>2, <2>3, <2>5 DEF ScenesIInv, TasksFit
<1>5. TasksNamedOnce'
  <2> SUFFICES ASSUME NEW u \in Task, used[u[1]] <= 1
               PROVE  pc'[u] # "free" <=> registered[u[1]] = u[2]
    BY DEF TasksNamedOnce
  <2>1. pc[u] # "free" <=> registered[u[1]] = u[2]
    BY DEF ScenesIInv, TasksNamedOnce
  <2> QED BY <2>1, <1>2
<1>6. RecordTaskAndWaitersAgree'
  <2> SUFFICES ASSUME NEW k \in Key, used[k] <= 1
               PROVE  /\ state'[k] \in Working <=> Busy(k)'
                      /\ k \in Held' => (k \in ended' <=> state'[k] \in Terminal)
    BY DEF RecordTaskAndWaitersAgree
  <2>1. CASE k = t[1]
    <3>1. \A u \in Task : u[1] = k /\ pc[u] # "free" => u = t
      BY <2>1, TaskOfCleanKey
    <3>2. Busy(k)' <=> (p # "done" /\ t \notin cancelled')
      BY <2>1, <3>1, <1>2 DEF Busy
    <3> QED BY <2>1, <3>2
  <2>2. CASE k # t[1]
    <3>1. \A u \in Task : u[1] = k => (u \in cancelled' <=> u \in cancelled)
      BY <2>2 DEF CancelTasks
    <3>2. Busy(k)' <=> Busy(k)
      BY <2>2, <3>1, <1>2 DEF Busy
    <3>3. k \in ended' <=> k \in ended
      BY <2>2
    <3>4. /\ state[k] \in Working <=> Busy(k)
          /\ k \in Held => (k \in ended <=> state[k] \in Terminal)
      BY DEF ScenesIInv, RecordTaskAndWaitersAgree
    <3> QED BY <2>2, <3>2, <3>3, <3>4
  <2> QED BY <2>1, <2>2
<1>7. OnePending'
  BY <1>1, PendingKept DEF ScenesIInv, RecordsFit, TasksFit, Held
<1> QED BY <1>3, <1>4, <1>5, <1>6, <1>7 DEF ScenesIInv

\* It leaves and the record stays as it is.
LEMMA StopKeepsIInv ==
  ASSUME ScenesIInv, NEW t \in Task, pc[t] \notin {"free", "done"}, Stop(t),
         UNCHANGED <<due, registered, used>>,
         t \in cancelled \/ state[t[1]] \notin Working
  PROVE  ScenesIInv'
<1>1. t[1] \in Key
  BY SceneTasks
<1>2. used[t[1]] <= 1 => /\ state[t[1]] \notin Working
                         /\ t[1] \in Held => (t[1] \in ended <=> state[t[1]] \in Terminal)
  BY <1>1, TaskOfCleanKey DEF ScenesIInv, RecordTaskAndWaitersAgree
<1>3. /\ MoveTo(t, "done") /\ UNCHANGED <<state, selected, ended, cancelled>>
      /\ Held' = Held /\ state' \in [Key -> RecordStates] /\ "done" \in Pc \ {"free"}
  BY DEF Stop, records, Held, ScenesIInv, RecordsFit, RecordStates, Pc
<1> QED BY <1>1, <1>2, <1>3, TaskMovesKeepIInv

\* It leaves with the record settled in s.
LEMMA SettleKeepsIInv ==
  ASSUME ScenesIInv, NEW t \in Task, pc[t] \notin {"free", "done"}, state[t[1]] # "absent",
         NEW s \in Terminal, Put(t[1], s), MoveTo(t, "done"), ended' = ended \cup {t[1]},
         cancelled' = cancelled \/ CancelTasks({t[1]}),
         UNCHANGED <<due, registered, used, selected>>
  PROVE  ScenesIInv'
<1>1. t[1] \in Held
  BY SceneTasks DEF Held
<1>2. state' \in [Key -> RecordStates] /\ state'[t[1]] = s /\ s # "absent" /\ s \notin Working
  BY <1>1, StatesApart DEF Put, ScenesIInv, RecordsFit, RecordStates, Held
<1>3. \A k \in Key \ {t[1]} : state'[k] = state[k]
  BY DEF Put, ScenesIInv, RecordsFit
<1>4. Held' = Held
  BY <1>1, <1>2, <1>3 DEF Held
<1>5. "done" \in Pc \ {"free"}
  BY DEF Pc
<1> QED BY <1>1, <1>2, <1>3, <1>4, <1>5, TaskMovesKeepIInv

\* It goes on working.
LEMMA WorkKeepsIInv ==
  ASSUME ScenesIInv, NEW t \in Task, pc[t] \notin {"free", "done"}, t \notin cancelled,
         state[t[1]] # "absent",
         NEW s \in Working, Put(t[1], s), NEW p \in Pc \ {"free", "done"}, MoveTo(t, p),
         UNCHANGED <<due, registered, used, selected, ended, cancelled>>
  PROVE  ScenesIInv'
<1>1. t[1] \in Held
  BY SceneTasks DEF Held
<1>2. state' \in [Key -> RecordStates] /\ state'[t[1]] = s /\ s # "absent" /\ s \notin Terminal
  BY <1>1, StatesApart DEF Put, ScenesIInv, RecordsFit, RecordStates, Held
<1>3. \A k \in Key \ {t[1]} : state'[k] = state[k]
  BY DEF Put, ScenesIInv, RecordsFit
<1>4. Held' = Held
  BY <1>1, <1>2, <1>3 DEF Held
<1>5. used[t[1]] <= 1 => state[t[1]] \in Working /\ t[1] \notin ended
  BY TaskAtWork
<1> QED BY <1>1, <1>2, <1>3, <1>4, <1>5, TaskMovesKeepIInv

\* The expiry of a record by its own task.
LEMMA ExpireKeepsIInv ==
  ASSUME ScenesIInv, NEW t \in Task, pc[t] \notin {"free", "done"}, state[t[1]] # "absent",
         ExpireRecord(t), UNCHANGED <<due, registered, used>>
  PROVE  ScenesIInv'
<1>1. "expired" \in Terminal
  BY DEF Terminal, Dead
<1> QED BY <1>1, SettleKeepsIInv DEF ExpireRecord, EndWith

LEMMA FailKeepsIInv ==
  ASSUME ScenesIInv, NEW t \in Task, pc[t] \notin {"free", "done"}, Fail(t),
         UNCHANGED <<due, registered, used>>
  PROVE  ScenesIInv'
<1>1. CASE state[t[1]] \in {"absent", "cancelled", "expired", "committed"}
  BY <1>1, StopKeepsIInv DEF Fail, Working
<1>2. CASE state[t[1]] \notin {"absent", "cancelled", "expired", "committed"}
  <2>1. "failed" \in Terminal
    BY DEF Terminal, Dead
  <2> QED BY <1>2, <2>1, SettleKeepsIInv DEF Fail, EndWith
<1> QED BY <1>1, <1>2

LEMMA HaltKeepsIInv ==
  ASSUME ScenesIInv, NEW t \in Task, pc[t] \notin {"free", "done"}, Halt(t),
         UNCHANGED <<due, registered, used>>
  PROVE  ScenesIInv'
<1>1. CASE Stopped(t[1]) /\ Stop(t)
  BY <1>1, StopKeepsIInv DEF Stopped, Working
<1>2. CASE ~Stopped(t[1]) /\ ExpireRecord(t)
  BY <1>2, ExpireKeepsIInv DEF Stopped
<1> QED BY <1>1, <1>2 DEF Halt

LEMMA BeginRenderKeepsIInv ==
  ASSUME ScenesIInv, NEW t \in Task, BeginRender(t)
  PROVE  ScenesIInv'
<1>1. /\ pc[t] \notin {"free", "done"} /\ t \notin cancelled
      /\ UNCHANGED <<due, registered, used>>
  BY DEF BeginRender, At
<1>2. CASE state[t[1]] \in {"absent", "cancelled"} /\ Stop(t)
  BY <1>1, <1>2, StopKeepsIInv DEF Working
<1>3. CASE t[1] \in Held /\ ExpireRecord(t)
  BY <1>1, <1>3, ExpireKeepsIInv DEF Held
<1>4. CASE /\ state[t[1]] \notin {"absent", "cancelled"}
           /\ Put(t[1], "rendering") /\ MoveTo(t, "render1")
           /\ UNCHANGED <<order, selected, attempts, barred, ended, cancelled, cache>>
  <2>1. "rendering" \in Working /\ "render1" \in Pc \ {"free", "done"}
    BY DEF Working, Pc
  <2> QED BY <1>1, <1>4, <2>1, WorkKeepsIInv
<1> QED BY <1>2, <1>3, <1>4 DEF BeginRender

LEMMA RenderedKeepsIInv ==
  ASSUME ScenesIInv, NEW t \in Task, Rendered(t)
  PROVE  ScenesIInv'
<1>1. /\ pc[t] \notin {"free", "done"} /\ t \notin cancelled
      /\ UNCHANGED <<due, registered, used>>
  BY DEF Rendered, At
<1>2. CASE Halt(t)
  BY <1>1, <1>2, HaltKeepsIInv
<1>3. CASE /\ ~Stopped(t[1]) /\ Put(t[1], "critiquing")
           /\ MoveTo(t, IF pc[t] = "render1" THEN "critic1" ELSE "critic2")
           /\ UNCHANGED <<order, selected, barred, ended, cancelled, cache>>
  <2> DEFINE p == IF pc[t] = "render1" THEN "critic1" ELSE "critic2"
  <2>1. "critiquing" \in Working /\ p \in Pc \ {"free", "done"} /\ state[t[1]] # "absent"
    BY <1>3 DEF Working, Pc, Stopped
  <2>2. MoveTo(t, p)
    BY <1>3
  <2> HIDE DEF p
  <2> QED BY <1>1, <1>3, <2>1, <2>2, WorkKeepsIInv
<1> QED BY <1>2, <1>3 DEF Rendered

LEMMA CallFailsKeepsIInv ==
  ASSUME ScenesIInv, NEW t \in Task, CallFails(t)
  PROVE  ScenesIInv'
<1>1. pc[t] \notin {"free", "done"}
  BY DEF CallFails, At
<1> QED BY <1>1, FailKeepsIInv DEF CallFails

LEMMA AcceptedKeepsIInv ==
  ASSUME ScenesIInv, NEW t \in Task, Accepted(t)
  PROVE  ScenesIInv'
<1>1. /\ pc[t] \notin {"free", "done"} /\ t \notin cancelled
      /\ UNCHANGED <<due, registered, used>>
  BY DEF Accepted, At
<1>2. CASE Stopped(t[1]) /\ Stop(t)
  BY <1>1, <1>2, StopKeepsIInv DEF Stopped, Working
<1>3. CASE Fail(t)
  BY <1>1, <1>3, FailKeepsIInv
<1>4. CASE /\ ~Stopped(t[1])
           /\ Put(t[1], IF t[1] \in selected THEN "committed" ELSE "ready")
           /\ ended' = ended \cup {t[1]} /\ MoveTo(t, "done")
           /\ UNCHANGED <<order, selected, attempts, barred, cancelled>>
  <2> DEFINE s == IF t[1] \in selected THEN "committed" ELSE "ready"
  <2>1. s \in Terminal /\ state[t[1]] # "absent" /\ Put(t[1], s)
    BY <1>4 DEF Terminal, Stopped
  <2> HIDE DEF s
  <2> QED BY <1>1, <1>4, <2>1, SettleKeepsIInv
<1> QED BY <1>2, <1>3, <1>4 DEF Accepted

LEMMA RejectedKeepsIInv ==
  ASSUME ScenesIInv, NEW t \in Task, Rejected(t)
  PROVE  ScenesIInv'
<1>1. pc[t] \notin {"free", "done"} /\ UNCHANGED <<due, registered, used>>
  BY DEF Rejected, At
<1>2. CASE Stopped(t[1]) /\ Stop(t)
  BY <1>1, <1>2, StopKeepsIInv DEF Stopped, Working
<1>3. CASE ~Stopped(t[1]) /\ EndWith(t, "rejected") /\ UNCHANGED cancelled
  <2>1. "rejected" \in Terminal /\ state[t[1]] # "absent"
    BY <1>3 DEF Terminal, Dead, Stopped
  <2> QED BY <1>1, <1>3, <2>1, SettleKeepsIInv DEF EndWith
<1> QED BY <1>2, <1>3 DEF Rejected

LEMMA RepairedKeepsIInv ==
  ASSUME ScenesIInv, NEW t \in Task, Repaired(t)
  PROVE  ScenesIInv'
<1>1. /\ pc[t] \notin {"free", "done"} /\ t \notin cancelled
      /\ UNCHANGED <<due, registered, used>>
  BY DEF Repaired, At
<1>2. CASE Halt(t)
  BY <1>1, <1>2, HaltKeepsIInv
<1>3. CASE /\ ~Stopped(t[1]) /\ Put(t[1], "repairing") /\ MoveTo(t, "render2")
           /\ UNCHANGED <<order, selected, attempts, barred, ended, cancelled, cache>>
  <2>1. "repairing" \in Working /\ "render2" \in Pc \ {"free", "done"} /\ state[t[1]] # "absent"
    BY <1>3 DEF Working, Pc, Stopped
  <2> QED BY <1>1, <1>3, <2>1, WorkKeepsIInv
<1> QED BY <1>2, <1>3 DEF Repaired

LEMMA UnwindKeepsIInv ==
  ASSUME ScenesIInv, NEW t \in Task, Unwind(t)
  PROVE  ScenesIInv'
  BY StopKeepsIInv DEF Unwind

\* The done callback drops the entry of the key's one task, or one of a key that was
\* started again.
LEMMA RetireKeepsIInv ==
  ASSUME ScenesIInv, NEW t \in Task, Retire(t)
  PROVE  ScenesIInv'
<1>1. /\ pc[t] = "done" /\ t[1] \in Key
      /\ UNCHANGED <<state, selected, ended, due, used>>
      /\ pc' \in [Task -> Pc] /\ pc'[t] = "free" /\ \A u \in Task \ {t} : pc'[u] = pc[u]
      /\ registered' \in [Key -> Nat] /\ registered'[t[1]] = 0
      /\ \A k \in Key \ {t[1]} : registered'[k] = registered[k]
      /\ cancelled' = cancelled \ {t}
  BY SceneTasks DEF Retire, MoveTo, records, ScenesIInv, TasksFit, Pc
<1>2. Held' = Held /\ Started' = Started
  BY <1>1 DEF Held, Started
<1>3. \A k \in Key : Busy(k)' <=> Busy(k)
  BY <1>1 DEF Busy
<1>4. RecordsFit' /\ RecordTaskAndWaitersAgree' /\ OnePending'
  BY <1>1, <1>2, <1>3 DEF ScenesIInv, RecordsFit, RecordTaskAndWaitersAgree, OnePending
<1>5. TasksFit'
  BY <1>1, <1>2 DEF ScenesIInv, TasksFit
<1>6. TasksNamedOnce'
  <2> SUFFICES ASSUME NEW u \in Task, used[u[1]] <= 1
               PROVE  pc'[u] # "free" <=> registered'[u[1]] = u[2]
    BY <1>1 DEF TasksNamedOnce
  <2>0. u[1] \in Key /\ u[2] > 0
    BY SceneTasks
  <2>1. pc[u] # "free" <=> registered[u[1]] = u[2]
    BY DEF ScenesIInv, TasksNamedOnce
  <2>2. CASE u = t
    BY <2>0, <2>2, <1>1
  <2>3. CASE u # t /\ u[1] = t[1]
    BY <2>0, <2>3, <1>1, TaskOfCleanKey
  <2>4. CASE u[1] # t[1]
    BY <2>0, <2>1, <2>4, <1>1
  <2> QED BY <2>2, <2>3, <2>4
<1> QED BY <1>4, <1>5, <1>6 DEF ScenesIInv

LEMMA RunKeepsIInv ==
  ASSUME ScenesIInv, NEW t \in Task, Run(t)
  PROVE  ScenesIInv'
  BY BeginRenderKeepsIInv, RenderedKeepsIInv, CallFailsKeepsIInv, AcceptedKeepsIInv,
     RejectedKeepsIInv, RepairedKeepsIInv, UnwindKeepsIInv, RetireKeepsIInv DEF Run

----------------------------------------------------------------------------
\* submit

LEMMA BatchFacts ==
  ASSUME NEW batch \in Batches
  PROVE  ToSet(batch) \subseteq Key /\ IsFiniteSet(ToSet(batch))
<1>1. CASE batch \in {<<k>> : k \in Key}
  <2>1. PICK k \in Key : batch = <<k>>
    BY <1>1
  <2>2. ToSet(batch) = {k}
    BY <2>1 DEF ToSet
  <2> QED BY <2>1, <2>2, FS_Singleton
<1>2. CASE batch \in Key \X Key
  <2>1. PICK j \in Key, k \in Key : batch = <<j, k>>
    BY <1>2
  <2>2. ToSet(batch) = {j} \cup {k}
    BY <2>1 DEF ToSet
  <2>3. IsFiniteSet({j}) /\ IsFiniteSet({j} \cup {k})
    BY FS_Singleton, FS_AddElement
  <2> QED BY <2>1, <2>2, <2>3
<1> QED BY <1>1, <1>2 DEF Batches

\* A task is started only while the bound leaves room for a task's number.
LEMMA RoomForATask ==
  ASSUME NEW M, IsFiniteSet(M),
         Cardinality(Started) + Cardinality(M) <= MaxStarts, M # {}
  PROVE  1 \in 1..MaxStarts
<1> SUFFICES ASSUME MaxStarts = 0
             PROVE  FALSE
  BY LimitsAssumption
<1>1. 1..MaxStarts = {}
  OBVIOUS
<1>2. Started = {}
  BY <1>1 DEF Started, Task
<1>3. Cardinality(Started) = 0
  BY <1>2, FS_EmptySet
<1>4. Cardinality(M) \in Nat /\ Cardinality(M) # 0
  BY FS_EmptySet, FS_CardinalityType
<1> QED BY <1>3, <1>4

LEMMA EvictedFacts ==
  ASSUME RecordsFit, NEW batch
  PROVE  /\ EvictedBy(batch) \subseteq Held
         /\ \A k \in EvictedBy(batch) \ Expirable : state[k] \in Terminal
  BY SweptFacts DEF EvictedBy, Evictable, Terminal, Dead, Held

\* A submit finds some candidates in the cache and starts tasks for others, all of them
\* new.
LEMMA SubmitEnters ==
  ASSUME NEW batch \in Batches, Submit(batch)
  PROVE  \E hits, misses \in SUBSET Key :
           /\ (hits \cup misses) \cap Held = {} /\ hits \cap misses = {}
           /\ misses # {} => 1 \in 1..MaxStarts
           /\ Enter(EvictedBy(batch), hits, misses)
<1>1. PICK hits \in SUBSET {k \in Added(batch) : Brief(k) \in cache} :
        /\ Cardinality(Started) + Cardinality(Added(batch) \ hits) <= MaxStarts
        /\ Enter(EvictedBy(batch), hits, Added(batch) \ hits)
  BY DEF Submit
<1> DEFINE misses == Added(batch) \ hits
<1>2. ToSet(batch) \cap Held = {} /\ Added(batch) \subseteq ToSet(batch)
  BY DEF Submit, Added
<1>3. misses \subseteq Key /\ hits \subseteq Key /\ IsFiniteSet(misses)
  BY <1>2, BatchFacts, FS_Subset
<1>4. misses # {} => 1 \in 1..MaxStarts
  BY <1>1, <1>3, RoomForATask
<1>5. (hits \cup misses) \cap Held = {} /\ hits \cap misses = {}
  BY <1>2
<1> QED BY <1>1, <1>3, <1>4, <1>5

LEMMA EnteredStates ==
  ASSUME NEW evicted \in SUBSET Held, NEW hits, NEW misses,
         (hits \cup misses) \cap Held = {}, hits \cap misses = {},
         Enter(evicted, hits, misses)
  PROVE  state' = [k \in Key |-> IF k \in evicted THEN "absent"
                                 ELSE IF k \in hits THEN "ready"
                                 ELSE IF k \in misses THEN "queued" ELSE Swept[k]]
<1>1. \A k \in Key : /\ k \in evicted => k \notin hits /\ k \notin misses
                     /\ k \in hits => k \notin misses
  OBVIOUS
<1>2. state' = [k \in Key |-> CASE k \in evicted -> "absent"
                                [] k \in hits -> "ready"
                                [] k \in misses -> "queued"
                                [] OTHER -> Swept[k]]
  BY DEF Enter
<1> QED BY <1>1, <1>2, Zenon

LEMMA SubmitKeepsTasks ==
  ASSUME ScenesIInv, NEW evicted, NEW hits, NEW misses \in SUBSET Key,
         Enter(evicted, hits, misses)
  PROVE  TasksFit' /\ TasksNamedOnce'
<1>1. \A k \in Key : used'[k] = IF k \in misses THEN used[k] + 1 ELSE used[k]
  BY DEF Enter, ScenesIInv, TasksFit
<1>2. \A k \in Key : registered'[k] = IF k \in misses THEN used'[k] ELSE registered[k]
  BY DEF Enter
<1>3. /\ used' \in [Key -> Nat] /\ registered' \in [Key -> Nat]
      /\ \A k \in Key : registered'[k] <= used'[k]
  BY <1>1, <1>2 DEF Enter, ScenesIInv, TasksFit
<1>4. \A t \in Task : pc'[t] = IF t[1] \in misses /\ t[2] = used'[t[1]] THEN "new" ELSE pc[t]
  BY DEF Enter
<1>5. pc' \in [Task -> Pc]
  BY DEF Enter, ScenesIInv, TasksFit, Pc
<1>6. \A t \in Task \ Started' : t \notin Started /\ pc'[t] = "free"
  BY <1>1, <1>4, SceneTasks DEF Started, ScenesIInv, TasksFit
<1>7. cancelled' \subseteq Task /\ \A t \in Task \ Started : t \notin cancelled'
  BY SceneTasks DEF Enter, CancelTasks, ScenesIInv, TasksFit, Started
<1>8. TasksFit'
  BY <1>3, <1>5, <1>6, <1>7 DEF TasksFit
<1>9. TasksNamedOnce'
  <2> SUFFICES ASSUME NEW t \in Task, used'[t[1]] <= 1
               PROVE  pc'[t] # "free" <=> registered'[t[1]] = t[2]
    BY DEF TasksNamedOnce
  <2>0. t[1] \in Key /\ t[2] \in Nat /\ t[2] > 0
    BY SceneTasks
  <2>1. CASE t[1] \in misses
    <3>1. used[t[1]] = 0 /\ used'[t[1]] = 1
      BY <2>0, <2>1, <1>1 DEF ScenesIInv, TasksFit
    <3>2. pc[t] = "free"
      BY <2>0, <3>1 DEF ScenesIInv, TasksFit, Started
    <3> QED BY <2>0, <2>1, <3>1, <3>2, <1>2, <1>4
  <2>2. CASE t[1] \notin misses
    <3>1. pc[t] # "free" <=> registered[t[1]] = t[2]
      BY <2>0, <2>2, <1>1 DEF ScenesIInv, TasksNamedOnce
    <3> QED BY <2>0, <2>2, <3>1, <1>2, <1>4
  <2> QED BY <2>1, <2>2
<1> QED BY <1>8, <1>9

LEMMA SubmitKeepsIInv ==
  ASSUME ScenesIInv, NEW batch \in Batches, Submit(batch)
  PROVE  ScenesIInv'
<1> DEFINE evicted == EvictedBy(batch)
<1>1. RecordsFit
  BY DEF ScenesIInv
<1>2. PICK hits \in SUBSET Key, misses \in SUBSET Key :
        /\ (hits \cup misses) \cap Held = {} /\ hits \cap misses = {}
        /\ misses # {} => 1 \in 1..MaxStarts
        /\ Enter(evicted, hits, misses)
  BY SubmitEnters
<1>3. /\ evicted \subseteq Held
      /\ \A k \in evicted \ Expirable : state[k] \in Terminal
  BY <1>1, EvictedFacts
<1> HIDE DEF evicted
<1>4. TasksFit' /\ TasksNamedOnce'
  BY <1>2, SubmitKeepsTasks
<1>5. \A k \in Key : state'[k] = IF k \in evicted THEN "absent"
                                 ELSE IF k \in hits THEN "ready"
                                 ELSE IF k \in misses THEN "queued" ELSE Swept[k]
  BY <1>2, <1>3, EnteredStates
<1>6. \A k \in Key : k \in Held' <=> (k \in Held \ evicted \/ k \in hits \/ k \in misses)
  BY <1>2, <1>3, <1>5, <1>1, SweptFacts DEF Held
<1>7. RecordsFit'
  <2>1. state' \in [Key -> {"absent"} \cup Live \cup Dead]
    BY <1>2, <1>3, <1>1, EnteredStates, SweptFacts DEF RecordStates, Live, Working
  <2>2. Held \subseteq Key
    BY DEF Held
  <2>3. Expirable \subseteq Held
    BY <1>1, SweptFacts
  <2> QED BY <2>1, <2>2, <2>3, <1>1, <1>2, <1>6 DEF RecordsFit, Enter
<1>8. ASSUME NEW k \in Key, used'[k] <= 1
      PROVE  /\ state'[k] \in Working <=> Busy(k)'
             /\ k \in Held' => (k \in ended' <=> state'[k] \in Terminal)
  <2>1. used'[k] = IF k \in misses THEN used[k] + 1 ELSE used[k]
    BY <1>2 DEF Enter, ScenesIInv, TasksFit
  <2>2. used[k] \in Nat /\ used[k] <= 1
    BY <1>8, <2>1 DEF ScenesIInv, TasksFit
  <2>3. /\ state[k] \in Working <=> Busy(k)
        /\ k \in Held => (k \in ended <=> state[k] \in Terminal)
    BY <2>2 DEF ScenesIInv, RecordTaskAndWaitersAgree
  <2>4. \A t \in Task : t[1] = k /\ k \notin misses => pc'[t] = pc[t]
    BY <1>2 DEF Enter
  <2>5. \A t \in Task : t[1] = k /\ k \notin Expirable => (t \in cancelled' <=> t \in cancelled)
    BY <1>2 DEF Enter, CancelTasks
  <2>6. k \in ended' <=> ((k \in ended \/ k \in Expirable) /\ k \notin evicted) \/ k \in hits
    <3>1. ended' = ((ended \cup Expirable) \ evicted) \cup hits
      BY <1>2 DEF Enter
    <3> QED BY <3>1
  <2>7. k \in Expirable => k \in Held
    BY <1>1, SweptFacts
  <2>8. CASE k \in Expirable
    <3>1. k \notin hits /\ k \notin misses
      BY <2>7, <2>8, <1>2
    <3>2. \A t \in Task : t[1] = k /\ pc'[t] \notin {"free", "done"} => t \in cancelled'
      <4> SUFFICES ASSUME NEW t \in Task, t[1] = k, pc[t] \notin {"free", "done"}
                   PROVE  t \in cancelled'
        BY <2>4, <3>1
      <4>1. registered[t[1]] = t[2]
        BY <2>2 DEF ScenesIInv, TasksNamedOnce
      <4> QED BY <4>1, <2>8, <1>2 DEF Enter, CancelTasks
    <3>3. ~Busy(k)'
      BY <3>2 DEF Busy
    <3>4. state'[k] = IF k \in evicted THEN "absent" ELSE "expired"
      BY <3>1, <2>8, <1>1, <1>5, SweptFacts
    <3> QED BY <3>1, <3>3, <3>4, <2>6, <2>8, <1>6, StatesApart DEF Working, Terminal, Dead
  <2>9. CASE k \in misses
    <3>1. k \notin Held /\ k \notin evicted /\ k \notin hits /\ k \notin Expirable /\ k \notin ended
      BY <2>9, <1>2, <1>3, <2>7, <1>1 DEF RecordsFit
    <3>2. state'[k] = "queued" /\ k \notin ended'
      BY <2>6, <2>9, <3>1, <1>5
    <3>3. used[k] = 0 /\ used'[k] = 1
      BY <1>8, <2>1, <2>2, <2>9
    <3>4. <<k, 1>> \in Task
      BY <2>9, <1>2, SceneTasks
    <3>5. <<k, 1>> \notin cancelled'
      <4>1. <<k, 1>> \notin Started
        BY <3>3 DEF Started
      <4> QED BY <4>1, <3>1, <3>4, <2>5 DEF ScenesIInv, TasksFit
    <3>6. pc'[<<k, 1>>] = "new"
      BY <2>9, <3>3, <3>4, <1>2 DEF Enter
    <3>7. Busy(k)'
      BY <3>4, <3>5, <3>6 DEF Busy
    <3> QED BY <3>2, <3>7 DEF Working, Terminal, Dead
  <2>10. CASE k \notin Expirable /\ k \notin misses
    <3>1. Busy(k)' <=> Busy(k)
      BY <2>4, <2>5, <2>10 DEF Busy
    <3>2. CASE k \in evicted
      BY <2>3, <2>6, <2>10, <3>1, <3>2, <1>2, <1>3, <1>5, <1>6, StatesApart
    <3>3. CASE k \in hits
      <4>1. k \notin Held /\ state[k] = "absent" /\ k \notin evicted
        BY <3>3, <1>2, <1>3 DEF Held
      <4>2. state'[k] = "ready" /\ k \in ended'
        BY <4>1, <3>3, <2>6, <1>5
      <4> QED BY <4>1, <4>2, <2>3, <3>1 DEF Working, Terminal
    <3>4. CASE k \notin evicted /\ k \notin hits
      <4>1. state'[k] = state[k]
        BY <3>4, <2>10, <1>1, <1>5, SweptFacts
      <4> QED BY <4>1, <3>1, <3>4, <2>3, <2>6, <2>10, <1>6
    <3> QED BY <3>2, <3>3, <3>4
  <2> QED BY <2>8, <2>9, <2>10
<1>9. RecordTaskAndWaitersAgree'
  BY <1>8 DEF RecordTaskAndWaitersAgree
<1>10. OnePending'
  <2>1. \A k \in Key : used[k] <= used'[k]
    BY <1>2 DEF Enter, ScenesIInv, TasksFit
  <2>2. used' \in [Key -> Nat] /\ selected' \subseteq selected
    BY <1>2, <1>4 DEF Enter, TasksFit
  <2>3. \A k \in selected' : k \in Key /\ k \in Held /\ k \notin hits /\ k \notin misses
    BY <2>2, <1>1, <1>2 DEF RecordsFit, Held
  <2>4. \A k \in selected' : state'[k] \in Working => state[k] \in Working
    BY <2>3, <1>1, <1>5, SweptFacts DEF Working
  <2> QED BY <2>1, <2>2, <2>3, <2>4, PendingKept
<1> QED BY <1>4, <1>7, <1>9, <1>10 DEF ScenesIInv

----------------------------------------------------------------------------
LEMMA ScenesStartInIInv == ScenesInit => ScenesIInv
<1> SUFFICES ASSUME ScenesInit
             PROVE  ScenesIInv
  OBVIOUS
<1>1. RecordsFit
  BY DEF ScenesInit, RecordsFit
<1>2. TasksFit
  BY DEF ScenesInit, TasksFit, Pc
<1>3. TasksNamedOnce
  BY SceneTasks DEF ScenesInit, TasksNamedOnce
<1>4. RecordTaskAndWaitersAgree
  BY DEF ScenesInit, RecordTaskAndWaitersAgree, Busy, Working, Held
<1>5. OnePending
  BY DEF ScenesInit, OnePending
<1> QED BY <1>1, <1>2, <1>3, <1>4, <1>5 DEF ScenesIInv

LEMMA ScenesKeepIInv ==
  ASSUME ScenesIInv, [ScenesNext]_sceneVars
  PROVE  ScenesIInv'
<1>1. CASE UNCHANGED sceneVars
  <2>1. UNCHANGED <<state, selected, ended, due, registered, used, pc, cancelled>>
    BY <1>1 DEF sceneVars, records, tasks
  <2>2. Held' = Held /\ Started' = Started /\ \A k \in Key : Busy(k)' <=> Busy(k)
    BY <2>1 DEF Held, Started, Busy
  <2> QED BY <2>1, <2>2 DEF ScenesIInv, RecordsFit, TasksFit, TasksNamedOnce,
        RecordTaskAndWaitersAgree, OnePending
<1>2. CASE ScenesNext
  BY <1>2, SweepKeepsIInv, CloseKeepsIInv, ElapseKeepsIInv, CommitKeepsIInv,
     SubmitKeepsIInv, CancelKeepsIInv, RunKeepsIInv DEF ScenesNext
<1> QED BY <1>1, <1>2

LEMMA OnePendingCounts == OnePending => OneSelectionPending
<1> SUFFICES ASSUME OnePending, NEW s \in Slot,
                    \A k \in Key : SlotOf(k) = s => used[k] <= 1
             PROVE  Cardinality({k \in selected : SlotOf(k) = s /\ state[k] \in Working}) <= 1
  BY DEF OneSelectionPending
<1> DEFINE P == {k \in selected : SlotOf(k) = s /\ state[k] \in Working}
<1>1. CASE P = {}
  <2>1. Cardinality(P) = 0
    BY <1>1, FS_EmptySet
  <2> QED BY <2>1
<1>2. CASE P # {}
  <2>1. PICK k \in P : TRUE
    BY <1>2
  <2>2. P = {k}
    BY <2>1 DEF OnePending
  <2>3. Cardinality(P) = 1
    BY <2>2, FS_Singleton
  <2> QED BY <2>3
<1> QED BY <1>1, <1>2

\* The strengthening of the orchestrator's invariants holds in every reachable state.
THEOREM ServiceInductive == ScenesSpec => []ScenesIInv
<1>1. ScenesIInv /\ [ScenesNext]_sceneVars => ScenesIInv'
  BY ScenesKeepIInv
<1> QED BY <1>1, ScenesStartInIInv, PTL DEF ScenesSpec

\* At most one selected branch of a sequence is still worked on, as long as none of the
\* sequence's branches was evicted and started again: two would both become committed.
THEOREM OneBranchPending == ScenesSpec => []OneSelectionPending
<1>1. ScenesIInv => OneSelectionPending
  BY OnePendingCounts DEF ScenesIInv
<1> QED BY <1>1, ServiceInductive, PTL

\* A candidate is worked on exactly while it has a task that nobody cancelled, and its
\* waiters are told exactly when it has settled, unless it was started again.
THEOREM RecordsAndTasksAgree == ScenesSpec => []RecordTaskAndWaitersAgree
<1>1. ScenesIInv => RecordTaskAndWaitersAgree
  BY DEF ScenesIInv
<1> QED BY <1>1, ServiceInductive, PTL

=============================================================================
