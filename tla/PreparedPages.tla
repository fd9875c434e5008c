---------------------------- MODULE PreparedPages ----------------------------
(***************************************************************************)
(* AnticipatoryPlayback (anticipatory_playback.py): exact next pages that  *)
(* are planned on the device, rendered and approved by a remote service,   *)
(* staged on the device once the service has committed them, and only then *)
(* put on the wall.  Requests to the service, made through the edge        *)
(* coordinator, can be lost on their way there or back; the service may    *)
(* restart and forget everything; pages expire; and one page may be        *)
(* staged, shown and discarded by several callers at once.                 *)
(***************************************************************************)
EXTENDS Integers, FiniteSets

CONSTANTS
  Page,      \* prepared_id of every page ever prepared
  Call,      \* requests of the local clients under way at one time
  Capacity,  \* pages held or in preparation: eight in the code
  NoPage, Free

ASSUME PreparedAssumption ==
  /\ Capacity \in Nat \ {0}
  /\ NoPage \notin Page /\ Free \notin Call

VARIABLES
  page,       \* _pages: where each page is; purged pages went because they expired
  expired,    \* pages whose expires_at has passed here
  staged,     \* pages with a verified pack on the device
  owner,      \* who holds the lock of each page
  preparing,  \* _preparing
  call,       \* what each caller does
  remote,     \* the candidate of each page at the service
  committed,  \* history: pages the service has committed
  shown       \* the prepared page on the wall, NoPage for anything else

local == <<page, expired, staged, owner, preparing, call>>
vars == <<local, remote, committed, shown>>

Idle == [op |-> "none", page |-> NoPage, at |-> "idle", answer |-> "none"]

Init ==
  /\ page = [p \in Page |-> "new"] /\ expired = {} /\ staged = {}
  /\ owner = [p \in Page |-> Free] /\ preparing = 0
  /\ call = [c \in Call |-> Idle]
  /\ remote = [p \in Page |-> "unknown"] /\ committed = {} /\ shown = NoPage

\* _get: the page is held and has not expired.
Usable(p) == page[p] = "held" /\ p \notin expired

Goto(c, step) == call' = [call EXCEPT ![c].at = step, ![c].answer = "none"]
Leave(c) == /\ call' = [call EXCEPT ![c] = Idle]
            /\ owner' = [owner EXCEPT ![call[c].page] = Free]

-----------------------------------------------------------------------------
(* The service, as its HTTP interface shows it: see AnticipatoryScenes.    *)
Asks(c, what) == call[c].at = what /\ call[c].answer = "none"
Answered(c, what) == call[c].at = what /\ call[c].answer # "none"
Requests == {"submit", "status", "commit", "cancel"}

Reply(c, state) == /\ call' = [call EXCEPT ![c].answer = state]
                   /\ remote' = [remote EXCEPT ![call[c].page] = state]

\* A cached scene is ready at once.  A full service refuses.
ServeSubmit(c) ==
  /\ Asks(c, "submit")
  /\ \E state \in {"working", "ready"} : Reply(c, state)
  /\ UNCHANGED committed

ServeStatus(c) ==
  /\ Asks(c, "status") /\ remote[call[c].page] # "unknown"
  /\ Reply(c, remote[call[c].page])
  /\ UNCHANGED committed

ServeCommit(c) ==
  /\ Asks(c, "commit") /\ remote[call[c].page] \in {"ready", "committed"}
  /\ Reply(c, "committed")
  /\ committed' = committed \cup {call[c].page}

ServeCancel(c) ==
  /\ Asks(c, "cancel") /\ remote[call[c].page] # "unknown"
  /\ Reply(c, IF remote[call[c].page] = "committed" THEN "committed" ELSE "ended")
  /\ UNCHANGED committed

Serve(c) == /\ ServeSubmit(c) \/ ServeStatus(c) \/ ServeCommit(c) \/ ServeCancel(c)
            /\ UNCHANGED <<page, expired, staged, owner, preparing, shown>>

\* A refusal, a timeout, or a connection lost on the way there or back.
RequestFails(c) ==
  /\ call[c].at \in Requests /\ call[c].answer # "failed"
  /\ call' = [call EXCEPT ![c].answer = "failed"]
  /\ UNCHANGED <<page, expired, staged, owner, preparing, remote, committed, shown>>

\* The critic approves, or the candidate is rejected, fails or expires over there.
CandidateMoves(p) ==
  /\ \/ remote[p] = "working" /\ remote' = [remote EXCEPT ![p] = "ready"]
     \/ remote[p] \in {"working", "ready"} /\ remote' = [remote EXCEPT ![p] = "ended"]
  /\ UNCHANGED <<local, committed, shown>>

ServiceRestarts ==
  /\ remote' = [p \in Page |-> "unknown"]
  /\ UNCHANGED <<local, committed, shown>>

-----------------------------------------------------------------------------
(* Preparation.                                                            *)
Expire(p) ==
  /\ page[p] \in {"preparing", "held"} /\ p \notin expired
  /\ expired' = expired \cup {p}
  /\ UNCHANGED <<page, staged, owner, preparing, call, remote, committed, shown>>

Purged == [p \in Page |-> IF page[p] = "held" /\ p \in expired THEN "purged" ELSE page[p]]
Full(pages) == Cardinality({p \in Page : pages[p] = "held"}) + preparing >= Capacity

\* fault: only the pages that are held count, not those on their way
PrepareUncounted(c, p) ==
  /\ call[c] = Idle /\ page[p] = "new"
  /\ Cardinality({q \in Page : Purged[q] = "held"}) < Capacity
  /\ page' = [Purged EXCEPT ![p] = "preparing"]
  /\ preparing' = preparing + 1
  /\ call' = [call EXCEPT ![c] = [Idle EXCEPT !.op = "prepare", !.page = p, !.at = "plan"]]
  /\ UNCHANGED <<expired, staged, owner, remote, committed, shown>>

\* A preparation that finds no room has still dropped the expired pages.
Prepare(c, p) ==
  /\ call[c] = Idle /\ page[p] = "new"
  /\ IF Full(Purged)
     THEN page' = Purged /\ UNCHANGED <<preparing, call>>
     ELSE /\ page' = [Purged EXCEPT ![p] = "preparing"]
          /\ preparing' = preparing + 1
          /\ call' = [call EXCEPT ![c] = [Idle EXCEPT !.op = "prepare", !.page = p,
                                                      !.at = "plan"]]
  /\ UNCHANGED <<expired, staged, owner, remote, committed, shown>>

Prepared(c, outcome) ==
  /\ page' = [page EXCEPT ![call[c].page] = outcome]
  /\ preparing' = preparing - 1
  /\ call' = [call EXCEPT ![c] = Idle]

\* The critic is asked whether it is there and the page is planned on the device.
Planned(c) ==
  /\ call[c].at = "plan"
  /\ \/ Goto(c, "submit") /\ UNCHANGED <<page, preparing>>
     \/ Prepared(c, "failed")
  /\ UNCHANGED <<expired, staged, owner, remote, committed, shown>>

Submitted(c) ==
  /\ Answered(c, "submit")
  /\ Prepared(c, IF call[c].answer = "failed" THEN "failed" ELSE "held")
  /\ UNCHANGED <<expired, staged, owner, remote, committed, shown>>

-----------------------------------------------------------------------------
(* Operations on a page, one at a time under its lock.                     *)

\* The page is looked up before its lock is waited for.
Begin(c, op, p) ==
  /\ call[c] = Idle
  /\ IF op = "discard" THEN page[p] = "held" ELSE Usable(p)
  /\ call' = [call EXCEPT ![c] = [Idle EXCEPT !.op = op, !.page = p, !.at = "waits"]]
  /\ UNCHANGED <<page, expired, staged, owner, preparing, remote, committed, shown>>

Take(c, op) ==
  /\ call[c].at = "waits" /\ call[c].op = op /\ owner[call[c].page] = Free
  /\ UNCHANGED <<expired, staged, preparing, remote, committed, shown>>

Hold(c, step) == Goto(c, step) /\ owner' = [owner EXCEPT ![call[c].page] = c]
TurnAway(c) == call' = [call EXCEPT ![c] = Idle] /\ UNCHANGED owner

\* status and stage ask the service, unless the page is staged already.
StartRefresh(c) ==
  /\ Take(c, "status") \/ Take(c, "stage")
  /\ IF Usable(call[c].page) /\ call[c].page \notin staged
     THEN Hold(c, "status") ELSE TurnAway(c)
  /\ UNCHANGED page

\* fault: the page is not looked up again under its lock
StartActivateUnchecked(c) ==
  /\ Take(c, "activate")
  /\ IF call[c].page \in staged THEN Hold(c, "show") ELSE TurnAway(c)
  /\ UNCHANGED page

StartActivate(c) ==
  /\ Take(c, "activate")
  /\ IF Usable(call[c].page) /\ call[c].page \in staged THEN Hold(c, "show") ELSE TurnAway(c)
  /\ UNCHANGED page

Discarded(p) == page' = [page EXCEPT ![p] = IF @ = "held" THEN "discarded" ELSE @]

\* fault: the page is dropped before the service is told
StartDiscardDropping(c) ==
  /\ Take(c, "discard")
  /\ IF call[c].page \notin staged /\ call[c].page \notin expired
     THEN Hold(c, "cancel") ELSE TurnAway(c)
  /\ Discarded(call[c].page)

\* Only work that may still go on at the service is cancelled there.
StartDiscard(c) ==
  /\ Take(c, "discard")
  /\ IF call[c].page \notin staged /\ call[c].page \notin expired
     THEN Hold(c, "cancel") /\ UNCHANGED page
     ELSE TurnAway(c) /\ Discarded(call[c].page)

Refreshed(c) ==
  /\ Answered(c, "status")
  /\ IF call[c].op = "stage" /\ call[c].answer \in {"ready", "committed"}
     THEN Goto(c, "fetch") /\ UNCHANGED owner
     ELSE Leave(c)
  /\ UNCHANGED <<page, expired, staged, preparing, remote, committed, shown>>

\* Master and depth are downloaded, verified and stored in the cache, or are not.
Fetched(c) ==
  /\ call[c].at = "fetch"
  /\ \/ Goto(c, "commit") /\ UNCHANGED owner
     \/ Leave(c)
  /\ UNCHANGED <<page, expired, staged, preparing, remote, committed, shown>>

\* The page may have expired, and been dropped by a preparation, meanwhile.
Committed(c) ==
  /\ Answered(c, "commit")
  /\ staged' = IF call[c].answer = "committed" /\ Usable(call[c].page)
               THEN staged \cup {call[c].page} ELSE staged
  /\ Leave(c)
  /\ UNCHANGED <<page, expired, preparing, remote, committed, shown>>

\* activate_prepared_pack: the registry shows the page, or refuses because the
\* session has moved on.
Show(c) ==
  /\ call[c].at = "show"
  /\ shown' \in {shown, call[c].page}
  /\ Leave(c)
  /\ UNCHANGED <<page, expired, staged, preparing, remote, committed>>

\* A discard the service did not confirm leaves the page where it is.
Cancelled(c) ==
  /\ Answered(c, "cancel")
  /\ IF call[c].answer = "failed" THEN UNCHANGED page ELSE Discarded(call[c].page)
  /\ Leave(c)
  /\ UNCHANGED <<expired, staged, preparing, remote, committed, shown>>

\* Another scene takes the wall.
Replaced ==
  /\ shown # NoPage /\ shown' = NoPage
  /\ UNCHANGED <<local, remote, committed>>

-----------------------------------------------------------------------------
Operation(c) ==
  \/ Planned(c) \/ Submitted(c)
  \/ StartRefresh(c) \/ StartActivate(c) \/ StartDiscard(c)
  \/ Refreshed(c) \/ Fetched(c) \/ Committed(c) \/ Show(c) \/ Cancelled(c)

Next ==
  \/ \E c \in Call, p \in Page :
       \/ Prepare(c, p)
       \/ \E op \in {"status", "stage", "activate", "discard"} : Begin(c, op, p)
  \/ \E c \in Call : Operation(c) \/ Serve(c) \/ RequestFails(c)
  \/ \E p \in Page : Expire(p) \/ CandidateMoves(p)
  \/ ServiceRestarts
  \/ Replaced

Spec == Init /\ [][Next]_vars

-----------------------------------------------------------------------------
(* Properties.                                                             *)

\* What goes on the wall was committed by the service, and nobody has discarded it:
\* not even while its activation waited for the page or for the registry.
\* (anticipatory_playback.py:257-272, docs/architecture.md:229)
OnlyCommittedPagesGoUp ==
  [][shown' \notin {shown, NoPage} =>
       shown' \in committed /\ page[shown'] # "discarded"]_vars

\* However many preparations run at once, and whichever fail, the pages held and
\* those under way never exceed the capacity.  (anticipatory_playback.py:98-105)
PagesWithinCapacity ==
  Cardinality({p \in Page : page[p] \in {"preparing", "held"}}) <= Capacity

\* A page discarded in time leaves no work behind at the service: what is not staged
\* here is not rendered, reviewed or kept ready there, whatever answers were lost.
\* (anticipatory_playback.py:275-282)
DiscardedIsReleased ==
  \A p \in Page :
    page[p] = "discarded" /\ p \notin expired \cup staged =>
      remote[p] \notin {"working", "ready"}

-----------------------------------------------------------------------------
(* The strengthening that makes them inductive.                            *)
Using == {"status", "fetch", "commit", "show", "cancel"}
CallRecord ==
  [op : {"none", "prepare", "status", "stage", "activate", "discard"},
   page : Page \cup {NoPage},
   at : {"idle", "plan", "submit", "waits"} \cup Using,
   answer : {"none", "failed", "working", "ready", "ended", "committed"}]

TypeOK ==
  /\ page \in [Page -> {"new", "preparing", "held", "failed", "purged", "discarded"}]
  /\ expired \in SUBSET Page /\ staged \in SUBSET Page
  /\ owner \in [Page -> Call \cup {Free}]
  /\ call \in [Call -> CallRecord]
  /\ remote \in [Page -> {"unknown", "working", "ready", "ended", "committed"}]

\* Who prepares a page finds it in preparation, who uses one holds its lock, and an
\* answer that came still holds of the candidate at the service.
CallFits(c) ==
  LET p == call[c].page  at == call[c].at  answer == call[c].answer IN
  /\ at # "idle" => p \in Page
  /\ at \in {"plan", "submit"} => page[p] = "preparing"
  /\ at \in Using \cup {"waits"} => page[p] \in {"held", "purged", "discarded"}
  /\ at \in Using => owner[p] = c
  /\ at = "show" => p \in staged /\ page[p] # "discarded"
  /\ at = "commit" /\ answer = "committed" => p \in committed
  /\ at = "cancel" /\ answer \notin {"none", "failed"} => remote[p] \notin {"working", "ready"}
CallsFit == \A c \in Call : CallFits(c)

Preparing(c) == call[c].at \in {"plan", "submit"}
PreparersApart ==
  \A c, d \in Call : Preparing(c) /\ Preparing(d) /\ call[c].page = call[d].page => c = d

StagedIsCommitted == staged \subseteq committed

\* The counter is exact, and there is room for what is prepared.
In(state) == {p \in Page : page[p] = state}
RoomIsKept ==
  /\ IsFiniteSet(In("preparing")) /\ IsFiniteSet(In("held"))
  /\ preparing = Cardinality(In("preparing"))
  /\ Cardinality(In("held")) + Cardinality(In("preparing")) <= Capacity

IInv ==
  /\ TypeOK /\ CallsFit /\ PreparersApart /\ StagedIsCommitted /\ RoomIsKept
  /\ DiscardedIsReleased
=============================================================================
