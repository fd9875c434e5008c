--------------------------- MODULE StoryPackStore ---------------------------
(***************************************************************************)
(* StoryPackStore (story_store.py): packs as files named by their digest,  *)
(* a "latest" pointer beside them, and an in-memory index from the exact   *)
(* request to the pack that answers it.  Every process that opens the      *)
(* directory (the API, the pack installer) has an asyncio lock and an      *)
(* index of its own.  The work is done by worker threads: a caller that is *)
(* cancelled gives the lock back while its thread goes on.  A process may  *)
(* die between any two steps, and a file may be damaged.                   *)
(***************************************************************************)
EXTENDS Integers, Sequences, FiniteSets

CONSTANTS
  Process, Call,           \* Call bounds the operations in all
  Pack, Request,
  RequestOf,               \* the request a stored pack answers, NoRequest if none
  NoPack, NoRequest, Free,
  MaxFaults                \* bound on crashes, damaged files and failed writes

ASSUME StoreAssumption ==
  /\ RequestOf \in [Pack -> Request \cup {NoRequest}]
  /\ NoPack \notin Pack /\ NoRequest \notin Request /\ Free \notin Call

VARIABLES
  written,  \* when the file of a pack was last replaced, 0 while there is none
  damaged,  \* packs whose file does not have the digest in its name
  latest,   \* the pack the pointer names
  clock,
  running,  \* processes that are up
  index,    \* _live_scene_index of each process
  lock,     \* _lock of each process
  call,     \* the operations: see Idle
  returned, \* packs a save has returned for, in this process or before it started
  spoiled,  \* requests of packs that were damaged at some time
  faults

disk == <<written, damaged, latest, clock>>
vars == <<disk, running, index, lock, call, returned, spoiled, faults>>

NoIndex == [r \in Request |-> NoPack]
\* process, operation and argument of a call; where its caller is; the step its
\* thread takes next, 0 without a thread; and the pack a thread has in hand
Idle == [process |-> Free, op |-> "none", arg |-> NoPack, caller |-> "new",
         step |-> 0, hand |-> NoPack]

Init ==
  /\ written = [p \in Pack |-> 0] /\ damaged = {} /\ latest = NoPack /\ clock = 0
  /\ running = {} /\ index = [o \in Process |-> NoIndex] /\ lock = [o \in Process |-> Free]
  /\ call = [c \in Call |-> Idle]
  /\ returned = [o \in Process |-> {}] /\ spoiled = {} /\ faults = 0

Whole == {p \in Pack : written[p] # 0} \ damaged
Fault == faults < MaxFaults /\ faults' = faults + 1

-----------------------------------------------------------------------------
(* Processes.                                                              *)

\* fault: the index is left to the saves to fill
RebuiltNever == NoIndex
\* The newest whole pack of each request.
Rebuilt ==
  [r \in Request |->
     LET candidates == {p \in Whole : RequestOf[p] = r} IN
     IF candidates = {} THEN NoPack
     ELSE CHOOSE p \in candidates : \A other \in candidates : written[other] <= written[p]]

\* initialize ends before the process serves anything.
Start(o) ==
  /\ o \notin running
  /\ running' = running \cup {o}
  /\ index' = [index EXCEPT ![o] = Rebuilt]
  /\ returned' = [returned EXCEPT ![o] = UNION {returned[other] : other \in Process}]
  /\ UNCHANGED <<disk, lock, call, spoiled, faults>>

\* A crash takes threads and memory; a half-written temporary file is never read.
Crash(o) ==
  /\ o \in running /\ Fault
  /\ running' = running \ {o}
  /\ call' = [c \in Call |-> IF call[c].process = o /\ call[c].caller # "returned"
                             THEN [call[c] EXCEPT !.caller = "gone", !.step = 0]
                             ELSE call[c]]
  /\ lock' = [lock EXCEPT ![o] = Free]
  /\ index' = [index EXCEPT ![o] = NoIndex]
  /\ UNCHANGED <<disk, returned, spoiled>>

Damage(p) ==
  /\ p \in Whole /\ Fault
  /\ damaged' = damaged \cup {p}
  /\ spoiled' = spoiled \cup {RequestOf[p]}
  /\ UNCHANGED <<written, latest, clock, running, index, lock, call, returned>>

-----------------------------------------------------------------------------
(* Callers.                                                                *)
Begin(c, o, op, arg) ==
  /\ call[c] = Idle /\ o \in running
  /\ call' = [call EXCEPT ![c] = [Idle EXCEPT !.process = o, !.op = op, !.arg = arg,
                                              !.caller = "waits"]]
  /\ UNCHANGED <<disk, running, index, lock, returned, spoiled, faults>>

Enter(c) ==
  /\ call[c].caller = "waits" /\ lock[call[c].process] = Free
  /\ lock' = [lock EXCEPT ![call[c].process] = c]
  /\ call' = [call EXCEPT ![c].caller = "holds", ![c].step = 1]
  /\ UNCHANGED <<disk, running, index, returned, spoiled, faults>>

\* A cancelled caller gives the lock back; its thread goes on unless it has not begun.
Cancel(c) ==
  /\ call[c].caller \in {"waits", "holds"}
  /\ lock' = [o \in Process |-> IF lock[o] = c THEN Free ELSE lock[o]]
  /\ \E step \in {call[c].step} \cup (IF call[c].step = 1 THEN {0} ELSE {}) :
       call' = [call EXCEPT ![c].caller = "gone", ![c].step = step]
  /\ UNCHANGED <<disk, running, index, returned, spoiled, faults>>

\* The thread is through: its caller, if there is one, gives the lock back.
Over(c, hand) ==
  /\ call' = [call EXCEPT ![c].step = 0, ![c].hand = hand,
                          ![c].caller = IF @ = "holds" THEN "returned" ELSE @]
  /\ lock' = [o \in Process |-> IF lock[o] = c THEN Free ELSE lock[o]]

GoOn(c, hand) ==
  /\ call' = [call EXCEPT ![c].step = @ + 1, ![c].hand = hand]
  /\ UNCHANGED lock

-----------------------------------------------------------------------------
(* What the threads do.                                                    *)

\* fault: the pointer is moved before the pack is written
SaveStepsPointerFirst == <<"latest", "pack", "index">>
SaveSteps == <<"pack", "latest", "index">>

Saves(c, what) ==
  call[c].op = "save" /\ call[c].step \in 1 .. 3 /\ SaveSteps[call[c].step] = what

WritePack(c) ==
  /\ Saves(c, "pack")
  /\ clock' = clock + 1
  /\ written' = [written EXCEPT ![call[c].arg] = clock']
  /\ damaged' = damaged \ {call[c].arg}
  /\ GoOn(c, NoPack)
  /\ UNCHANGED <<latest, running, index, returned, spoiled, faults>>

PointLatest(c) ==
  /\ Saves(c, "latest")
  /\ latest' = call[c].arg
  /\ GoOn(c, NoPack)
  /\ UNCHANGED <<written, damaged, clock, running, index, returned, spoiled, faults>>

\* The disk is full: save raises, and what was written stays.
WriteFails(c) ==
  /\ Saves(c, "pack") \/ Saves(c, "latest")
  /\ Fault
  /\ Over(c, NoPack)
  /\ UNCHANGED <<disk, running, index, returned, spoiled>>

PutIndex(c) ==
  LET o == call[c].process  p == call[c].arg IN
  /\ Saves(c, "index")
  /\ index' = [index EXCEPT ![o] = [r \in Request |-> IF RequestOf[p] = r THEN p ELSE @[r]]]
  /\ returned' = IF call[c].caller = "holds" THEN [returned EXCEPT ![o] = @ \cup {p}] ELSE returned
  /\ Over(c, p)
  /\ UNCHANGED <<disk, running, spoiled, faults>>

\* _find_live_scene_sync: the candidate, then its file, then the entry is dropped.
LookUp(c) ==
  LET found == index[call[c].process][call[c].arg] IN
  /\ call[c].op = "find" /\ call[c].step = 1
  /\ IF found = NoPack THEN Over(c, NoPack) ELSE GoOn(c, found)
  /\ UNCHANGED <<disk, running, index, returned, spoiled, faults>>

ReadCandidate(c) ==
  /\ call[c].op = "find" /\ call[c].step = 2
  /\ IF call[c].hand \in Whole THEN Over(c, call[c].hand) ELSE GoOn(c, call[c].hand)
  /\ UNCHANGED <<disk, running, index, returned, spoiled, faults>>

DropCandidate(c) ==
  /\ call[c].op = "find" /\ call[c].step = 3
  /\ index' = [index EXCEPT ![call[c].process][call[c].arg] = NoPack]
  /\ Over(c, NoPack)
  /\ UNCHANGED <<disk, running, returned, spoiled, faults>>

\* _latest_sync: the pointer, then the file it names.
ReadPointer(c) ==
  /\ call[c].op = "latest" /\ call[c].step = 1
  /\ IF latest = NoPack THEN Over(c, NoPack) ELSE GoOn(c, latest)
  /\ UNCHANGED <<disk, running, index, returned, spoiled, faults>>

ReadLatest(c) ==
  /\ call[c].op = "latest" /\ call[c].step = 2
  /\ Over(c, IF call[c].hand \in Whole THEN call[c].hand ELSE NoPack)
  /\ UNCHANGED <<disk, running, index, returned, spoiled, faults>>

Thread(c) == \/ WritePack(c) \/ PointLatest(c) \/ WriteFails(c) \/ PutIndex(c)
             \/ LookUp(c) \/ ReadCandidate(c) \/ DropCandidate(c)
             \/ ReadPointer(c) \/ ReadLatest(c)

Next ==
  \/ \E o \in Process : Start(o) \/ Crash(o)
  \/ \E p \in Pack : Damage(p)
  \/ \E c \in Call, o \in Process :
       \/ \E p \in Pack : Begin(c, o, "save", p)
       \/ \E r \in Request : Begin(c, o, "find", r)
       \/ Begin(c, o, "latest", NoPack)
  \/ \E c \in Call : Enter(c) \/ Cancel(c) \/ Thread(c)

Spec == Init /\ [][Next]_vars

-----------------------------------------------------------------------------
(* Properties.                                                             *)

\* Whichever process dies between its writes, and whoever else is saving: once
\* there is a latest pack there is a file for it.  (story_store.py:51)
LatestIsStored == latest # NoPack => written[latest] # 0

\* A completed scene whose save returned is found by its request, in that process and
\* in every one started later: no paid image is rendered again because of a crash, a
\* cancelled caller or another save.  Requests with a damaged file are left out:
\* a find that was cancelled may drop the entry a later save put there.
\* (story_store.py:53, 136)
SavedIsFound ==
  \A o \in running : \A p \in returned[o] :
    RequestOf[p] \in Request \ spoiled =>
      LET found == index[o][RequestOf[p]] IN found \in Whole /\ RequestOf[found] = RequestOf[p]

-----------------------------------------------------------------------------
(* The strengthening that makes them inductive.                            *)
CallRecord ==
  [process : Process \cup {Free}, op : {"none", "save", "find", "latest"},
   arg : Pack \cup Request \cup {NoPack},
   caller : {"new", "waits", "holds", "returned", "gone"},
   step : 0 .. 3, hand : Pack \cup {NoPack}]

TypeOK ==
  /\ written \in [Pack -> Nat] /\ damaged \in SUBSET Pack /\ clock \in Nat
  /\ latest \in Pack \cup {NoPack}
  /\ running \in SUBSET Process
  /\ index \in [Process -> [Request -> Pack \cup {NoPack}]]
  /\ lock \in [Process -> Call \cup {Free}]
  /\ call \in [Call -> CallRecord]
  /\ returned \in [Process -> SUBSET Pack]
  /\ faults \in Nat

\* A thread past its first step has written its pack, or has in hand one that its
\* process has indexed; it drops an entry only for a request with a damaged file.
Fits(r) ==
  /\ r.op # "none" => r.process \in Process
  /\ r.op = "save" =>
       /\ r.arg \in Pack
       /\ r.step \in {2, 3} => written[r.arg] # 0
  /\ r.op = "find" =>
       /\ r.arg \in Request
       /\ r.step = 2 => /\ r.hand \in Pack /\ RequestOf[r.hand] = r.arg
                        /\ written[r.hand] # 0
       /\ r.step = 3 => r.arg \in spoiled
ThreadsFit == \A c \in Call : Fits(call[c])

\* An index names packs that are there and answer its requests.
IndexFits ==
  \A o \in Process : \A r \in Request :
    index[o][r] # NoPack => RequestOf[index[o][r]] = r /\ written[index[o][r]] # 0

DamageIsKnown == \A p \in damaged : RequestOf[p] \in spoiled
ReturnedIsWritten == \A o \in Process : \A p \in returned[o] : written[p] # 0
ClockIsAhead == \A p \in Pack : written[p] <= clock

\* An entry is there for every request of a pack that was saved, in a process that runs.
ReturnedIsIndexed ==
  \A o \in running : \A p \in returned[o] :
    RequestOf[p] \in Request \ spoiled => index[o][RequestOf[p]] # NoPack

IInv ==
  /\ TypeOK /\ LatestIsStored /\ ThreadsFit /\ IndexFits /\ DamageIsKnown
  /\ ReturnedIsWritten /\ ClockIsAhead /\ ReturnedIsIndexed
=============================================================================
