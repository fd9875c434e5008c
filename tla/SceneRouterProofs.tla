------------------------- MODULE SceneRouterProofs -------------------------
(***************************************************************************)
(* What holds of the paid routes for any number of callers, scenes, routes *)
(* and directories, any cooldowns and any bound on a search.               *)
(***************************************************************************)
EXTENDS SceneRouter, FiniteSetTheorems, TLAPS

USE DEF Route

----------------------------------------------------------------------------
(* How the record of a call moves. *)

\* Call c is now at pc of this route, looked at this epoch and has this result; what it
\* asks for and what it missed is unchanged, and no other call has moved.
HasMoved(c, pc, at, seen, result) ==
    /\ call' \in [Call -> CallRecord]
    /\ call'[c].pc = pc /\ call'[c].at = at
    /\ call'[c].epoch = seen /\ call'[c].result = result
    /\ call'[c].scene = call[c].scene /\ call'[c].dest = call[c].dest
    /\ call'[c].before = call[c].before /\ call'[c].missed = call[c].missed
    /\ \A d \in Call : d # c => call'[d] = call[d]

\* A record that keeps what the call asks for makes such a move.
LEMMA RecordMoves ==
  ASSUME TypeOK, NEW c \in Call, NEW r \in CallRecord, call' = [call EXCEPT ![c] = r],
         r.scene = call[c].scene, r.dest = call[c].dest,
         r.before = call[c].before, r.missed = call[c].missed
  PROVE  HasMoved(c, r.pc, r.at, r.epoch, r.result)
  BY DEF HasMoved, TypeOK

\* What is left of a call that goes on to its next await.
LEMMA MovedRecord ==
  ASSUME TypeOK, NEW c \in Call, NEW pc \in Pc
  PROVE  /\ Moved(c, pc) \in CallRecord
         /\ Moved(c, pc).pc = pc /\ Moved(c, pc).at = call[c].at
         /\ Moved(c, pc).epoch = 0 /\ Moved(c, pc).result = call[c].result
         /\ Moved(c, pc).scene = call[c].scene /\ Moved(c, pc).dest = call[c].dest
         /\ Moved(c, pc).before = call[c].before /\ Moved(c, pc).missed = call[c].missed
  <1>1. call[c] \in CallRecord
    BY DEF TypeOK
  <1>2. QED
    BY <1>1 DEF Moved, CallRecord

\* What a call looks like after it has ended.
LEMMA FinishMoves ==
  ASSUME TypeOK, NEW c \in Call, NEW result \in Result, Finish(c, result)
  PROVE  HasMoved(c, "done", call[c].at, 0, result)
  <1> DEFINE m == Moved(c, "done")
  <1> DEFINE r == [m EXCEPT !.result = result]
  <1>1. /\ m \in CallRecord /\ m.pc = "done" /\ m.at = call[c].at /\ m.epoch = 0
        /\ m.scene = call[c].scene /\ m.dest = call[c].dest
        /\ m.before = call[c].before /\ m.missed = call[c].missed
    BY MovedRecord DEF Pc
  <1>2. call' = [call EXCEPT ![c] = r]
    BY DEF Finish
  <1> HIDE DEF m
  <1>3. /\ r \in CallRecord /\ r.pc = "done" /\ r.at = call[c].at /\ r.epoch = 0
        /\ r.result = result /\ r.scene = call[c].scene /\ r.dest = call[c].dest
        /\ r.before = call[c].before /\ r.missed = call[c].missed
    BY <1>1 DEF CallRecord
  <1> HIDE DEF r
  <1>4. HasMoved(c, r.pc, r.at, r.epoch, r.result)
    BY <1>2, <1>3, RecordMoves
  <1>5. QED
    BY <1>3, <1>4

\* What a call looks like after it goes on to its next await.
LEMMA AtMoves ==
  ASSUME TypeOK, NEW c \in Call, NEW pc \in Pc, At(c, pc)
  PROVE  HasMoved(c, pc, call[c].at, 0, call[c].result)
  <1> DEFINE r == Moved(c, pc)
  <1>1. call' = [call EXCEPT ![c] = r]
    BY DEF At
  <1>2. /\ r \in CallRecord /\ r.pc = pc /\ r.at = call[c].at /\ r.epoch = 0
        /\ r.result = call[c].result /\ r.scene = call[c].scene /\ r.dest = call[c].dest
        /\ r.before = call[c].before /\ r.missed = call[c].missed
    BY MovedRecord
  <1> HIDE DEF r
  <1>3. HasMoved(c, r.pc, r.at, r.epoch, r.result)
    BY <1>1, <1>2, RecordMoves
  <1>4. QED
    BY <1>2, <1>3

\* What a call looks like after it has given a route up.
LEMMA NextRouteMoves ==
  ASSUME TypeOK, NEW c \in Call, NextRoute(c), call[c].at \in Route
  PROVE  HasMoved(c, "gate", call[c].at + 1, 0, call[c].result)
  <1> DEFINE m == Moved(c, "gate")
  <1> DEFINE r == [m EXCEPT !.at = m.at + 1]
  <1>1. /\ m \in CallRecord /\ m.pc = "gate" /\ m.at = call[c].at /\ m.epoch = 0
        /\ m.result = call[c].result
        /\ m.scene = call[c].scene /\ m.dest = call[c].dest
        /\ m.before = call[c].before /\ m.missed = call[c].missed
    BY MovedRecord DEF Pc
  <1>2. call' = [call EXCEPT ![c] = r]
    BY DEF NextRoute
  <1> HIDE DEF m
  <1>3. m.at + 1 \in 1 .. Routes + 1
    BY <1>1, RoutesAssumption
  <1>4. /\ r \in CallRecord /\ r.pc = "gate" /\ r.at = call[c].at + 1 /\ r.epoch = 0
        /\ r.result = call[c].result /\ r.scene = call[c].scene /\ r.dest = call[c].dest
        /\ r.before = call[c].before /\ r.missed = call[c].missed
    BY <1>1, <1>3 DEF CallRecord
  <1> HIDE DEF r
  <1>5. HasMoved(c, r.pc, r.at, r.epoch, r.result)
    BY <1>2, <1>4, RecordMoves
  <1>6. QED
    BY <1>4, <1>5

\* What a call looks like after it remembered the epoch of a route.
LEMMA LookMoves ==
  ASSUME TypeOK, NEW c \in Call, NEW seen \in Nat,
         call' = [call EXCEPT ![c].pc = "probing", ![c].epoch = seen]
  PROVE  HasMoved(c, "probing", call[c].at, seen, call[c].result)
  <1> DEFINE r == [call[c] EXCEPT !.pc = "probing", !.epoch = seen]
  <1>1. call[c] \in CallRecord
    BY DEF TypeOK
  <1>2. /\ r \in CallRecord /\ r.pc = "probing" /\ r.at = call[c].at /\ r.epoch = seen
        /\ r.result = call[c].result /\ r.scene = call[c].scene /\ r.dest = call[c].dest
        /\ r.before = call[c].before /\ r.missed = call[c].missed
    BY <1>1 DEF CallRecord, Pc
  <1>3. call' = [call EXCEPT ![c] = r]
    OBVIOUS
  <1> HIDE DEF r
  <1>4. HasMoved(c, r.pc, r.at, r.epoch, r.result)
    BY <1>2, <1>3, RecordMoves
  <1>5. QED
    BY <1>2, <1>4

----------------------------------------------------------------------------
(* How what is known of the routes moves. *)

\* Epochs grow, and who was looking at a route when it failed knows less than it.
Forward ==
    /\ open' \in [Route -> Nat] /\ warm' \in [Route -> Nat] /\ epoch' \in [Route -> Nat]
    /\ \A r \in Route : epoch[r] <= epoch'[r]
    /\ doubted' \subseteq Call \cup {Connection}
    /\ \A r \in Route : \A o \in Observers(r) :
         o \in doubted' => o \in doubted \/ epoch[r] < epoch'[r]

\* Who is observing is known by its name.
LEMMA ObserversAre ==
  ASSUME TypeOK
  PROVE  /\ \A r \in Route : \A c \in Call :
              c \in Observers(r) <=> call[c].pc = "probing" /\ call[c].at = r
         /\ \A r \in Route : Connection \in Observers(r) <=> r = 1 /\ conn.pc = "heading"
         /\ \A r \in Route : Observers(r) \subseteq Call \cup {Connection}
  BY ConnectionAssumption DEF Observers

\* A success of a probe moves no epoch back.
LEMMA MarkGoesForward ==
  ASSUME TypeOK, NEW r \in Route, Mark(r), doubted' \subseteq doubted
  PROVE  Forward
  BY ClockAssumption DEF TypeOK, Mark, Forward

\* Neither does a step that leaves the routes alone.
LEMMA StayGoesForward ==
  ASSUME TypeOK, UNCHANGED readiness, doubted' \subseteq doubted
  PROVE  Forward
  BY DEF TypeOK, readiness, Forward

\* A failure moves the epoch of its route forward, past every look at it.
LEMMA FailureGoesForward ==
  ASSUME TypeOK, NEW c \in Call, call[c].at \in Route,
         \/ Invalidate(c)
         \/ \E ticks \in Nat : MarkUnavailable(c, ticks)
  PROVE  Forward
  <1> DEFINE r == call[c].at
  <1>1. /\ open' \in [Route -> Nat] /\ warm' \in [Route -> Nat]
        /\ epoch' = [epoch EXCEPT ![r] = @ + 1]
        /\ doubted' \subseteq doubted \cup Observers(r)
    <2>1. Failed(c, r) /\ (open' = open \/ \E ticks \in Nat : open' = [open EXCEPT ![r] = ticks])
      BY DEF Invalidate, MarkUnavailable
    <2>2. /\ warm' = [warm EXCEPT ![r] = 0] /\ epoch' = [epoch EXCEPT ![r] = @ + 1]
          /\ doubted' = (doubted \cup Observers(r)) \ {c}
      BY <2>1 DEF Failed
    <2>3. open' \in [Route -> Nat]
      BY <2>1 DEF TypeOK
    <2>4. QED
      BY <2>2, <2>3 DEF TypeOK
  <1>2. epoch \in [Route -> Nat]
    BY DEF TypeOK
  <1>3. /\ epoch' \in [Route -> Nat] /\ epoch[r] < epoch'[r]
        /\ \A q \in Route : epoch[q] <= epoch'[q]
    BY <1>1, <1>2
  <1>4. doubted' \subseteq Call \cup {Connection}
    BY <1>1, ObserversAre DEF TypeOK
  <1>5. ASSUME NEW q \in Route, NEW o \in Observers(q), o \in Observers(r) PROVE q = r
    BY <1>5, ObserversAre
  <1>6. \A q \in Route : \A o \in Observers(q) :
          o \in doubted' => o \in doubted \/ epoch[q] < epoch'[q]
    BY <1>1, <1>3, <1>5
  <1>7. QED
    BY <1>1, <1>3, <1>4, <1>6 DEF Forward

----------------------------------------------------------------------------
(* How the bundles on disk move. *)

\* Nothing is taken away or changed, a manifest lies in a directory that exists, and
\* none comes into a directory that existed without one, its owner's excepted.
Carries(own) ==
    /\ made' \in SUBSET Dir /\ made \subseteq made'
    /\ holds' \in [Dir -> Manifests \cup {Nothing}]
    /\ newer' \in [Dir -> SUBSET Dir]
    /\ Saved' \subseteq made'
    /\ \A d \in Dir : holds[d] # Nothing => holds'[d] = holds[d]
    /\ \A d \in made \ own : holds[d] = Nothing => holds'[d] = Nothing

\* Whatever a route was paid for, its manifest is one.
LEMMA ManifestIn ==
  ASSUME NEW r, NEW s \in Scene
  PROVE  Manifest(r, s) \in Manifests /\ Manifest(r, s) # Nothing
  BY StoreAssumption DEF Manifest, Manifests

\* Leaving the disk alone is such a step.
LEMMA StayCarries ==
  ASSUME TypeOK, Saved \subseteq made, UNCHANGED store
  PROVE  Carries({})
  BY DEF TypeOK, store, Carries, Saved

\* So is making a directory.
LEMMA MakeCarries ==
  ASSUME TypeOK, Saved \subseteq made, NEW d \in Dir, Make(d), UNCHANGED <<holds, newer>>
  PROVE  Carries({})
  BY DEF TypeOK, Make, Carries, Saved

\* A manifest written has a scene and leaves the others as they were.
LEMMA Written ==
  ASSUME TypeOK, NEW d \in Dir, NEW s \in Manifests, Write(d, s)
  PROVE  /\ holds' \in [Dir -> Manifests \cup {Nothing}]
         /\ newer' \in [Dir -> SUBSET Dir]
         /\ holds'[d] = s /\ \A e \in Dir : e # d => holds'[e] = holds[e]
         /\ Saved' = Saved \cup {d}
  <1>1. /\ holds' \in [Dir -> Manifests \cup {Nothing}]
        /\ holds'[d] = s /\ \A e \in Dir : e # d => holds'[e] = holds[e]
    BY DEF TypeOK, Write
  <1>2. newer' \in [Dir -> SUBSET Dir]
    BY DEF TypeOK, Write
  <1>3. Saved' = Saved \cup {d}
    BY <1>1, StoreAssumption DEF Saved
  <1>4. QED
    BY <1>1, <1>2, <1>3

\* A new directory with a manifest, the same manifest anew, or the first one of a
\* directory that belongs to the writer.
LEMMA WriteCarries ==
  ASSUME TypeOK, Saved \subseteq made, NEW d \in Dir, NEW s \in Manifests,
         Write(d, s)
  PROVE  /\ Make(d) /\ d \notin made => Carries({})
         /\ made' = made /\ holds[d] = s => Carries({})
         /\ made' = made /\ d \in made \ Saved => Carries({d})
  <1>1. /\ holds' \in [Dir -> Manifests \cup {Nothing}]
        /\ newer' \in [Dir -> SUBSET Dir]
        /\ holds'[d] = s /\ \A e \in Dir : e # d => holds'[e] = holds[e]
        /\ Saved' = Saved \cup {d} /\ s # Nothing /\ made \in SUBSET Dir
    BY Written, StoreAssumption DEF TypeOK
  <1>2. CASE Make(d) /\ d \notin made
    <2>1. holds[d] = Nothing
      BY <1>2 DEF Saved
    <2>2. Carries({})
      BY <1>1, <1>2, <2>1 DEF Carries, Make
    <2>3. QED
      BY <1>2, <2>2 DEF Make
  <1>3. CASE made' = made /\ holds[d] = s
    <2>1. d \in Saved
      BY <1>1, <1>3 DEF Saved
    <2>2. Carries({})
      BY <1>1, <1>3, <2>1 DEF Carries
    <2>3. QED
      BY <1>1, <1>3, <2>1, <2>2 DEF Make
  <1>4. CASE made' = made /\ d \in made \ Saved
    <2>1. holds[d] = Nothing
      BY <1>4 DEF Saved
    <2>2. Carries({d})
      BY <1>1, <1>4, <2>1 DEF Carries
    <2>3. QED
      BY <1>1, <1>4, <2>1, <2>2 DEF Make
  <1>5. QED
    BY <1>2, <1>3, <1>4

----------------------------------------------------------------------------
(* The inductive invariant. *)

\* A call that has not begun is a call.
LEMMA NewCallRecord == ASSUME NEW c \in Call PROVE NewCall(c) \in CallRecord
  <1>1. (CHOOSE s \in Scene : TRUE) \in Scene
    BY RoutesAssumption
  <1>2. (CHOOSE d \in Dest[c] : TRUE) \in Dir
    BY StoreAssumption
  <1>3. 1 \in 1 .. Routes + 1
    BY RoutesAssumption
  <1>4. QED
    BY <1>1, <1>2, <1>3 DEF NewCall, CallRecord, Pc, Result

\* A router that was just built satisfies it.
LEMMA InitIInv == Init => IInv
  <1> SUFFICES ASSUME Init PROVE IInv
    OBVIOUS
  <1>1. \A c \in Call : NewCall(c) \in CallRecord
    BY NewCallRecord
  <1>2. TypeOK
    BY <1>1 DEF Init, TypeOK, Outcome, NoConnection
  <1>3. \A c \in Call : /\ call[c].pc = "idle" /\ call[c].at = 1 /\ call[c].result = "none"
                        /\ call[c].before = {} /\ \A r \in Route : attempt[c][r] = "none"
    BY DEF Init, NewCall
  <1>4. \A c \in Call : WalkFits(c)
    BY <1>2, <1>3 DEF WalkFits, Here
  <1>5. \A c \in Call : BillFits(c) /\ CopyFits(c)
    BY <1>3 DEF BillFits, CopyFits
  <1>6. LooksFit /\ Saved \subseteq made
    BY <1>3 DEF Init, LooksFit, Saved, NoConnection
  <1>7. QED
    BY <1>2, <1>4, <1>5, <1>6 DEF IInv

\* Who has paid stays where it paid, and for what.
PaidStay ==
    \A b \in Call : \A r \in Route : attempt[b][r] = "paid" =>
      /\ attempt'[b][r] = "paid"
      /\ call'[b].scene = call[b].scene /\ call'[b].dest = call[b].dest

\* So the bundle that was paid for before a call is where it was, and says that it is
\* the call's scene or was written by a route that does not say.
LEMMA PaidBefore ==
  ASSUME IInv, PaidStay, NEW c \in Call
  PROVE  /\ \A b \in call[c].before :
              /\ b \in Call /\ call'[b].scene = call[c].scene
              /\ \E r \in Route : attempt'[b][r] = "paid"
              /\ call'[b].dest = call[b].dest
              /\ holds[call[b].dest] = call[c].scene \/ Unmarked(b)
              /\ call[b].dest \in Saved
              /\ Unmarked(b) => Unmarked(b)'
  <1> SUFFICES ASSUME NEW b \in call[c].before
               PROVE  /\ b \in Call /\ call'[b].scene = call[c].scene
                      /\ \E r \in Route : attempt'[b][r] = "paid"
                      /\ call'[b].dest = call[b].dest
                      /\ holds[call[b].dest] = call[c].scene \/ Unmarked(b)
                      /\ call[b].dest \in Saved
                      /\ Unmarked(b) => Unmarked(b)'
    OBVIOUS
  <1>1. BillFits(c) /\ TypeOK
    BY DEF IInv
  <1>2. b \in Payers(call[c].scene)
    BY <1>1 DEF BillFits
  <1>3. b \in Call /\ call[b].scene = call[c].scene
    BY <1>2 DEF Payers
  <1>4. PICK r \in Route : attempt[b][r] = "paid"
    BY <1>2 DEF Payers
  <1>5. BillFits(b)
    BY <1>3 DEF IInv
  <1>6. holds[call[b].dest] = Manifest(r, call[c].scene)
    BY <1>3, <1>4, <1>5 DEF BillFits
  <1>7. call[b].dest \in Dir /\ call[c].scene \in Scene
    BY <1>1, <1>3 DEF TypeOK, CallRecord
  <1>8. holds[call[b].dest] = call[c].scene \/ Unmarked(b)
    BY <1>4, <1>6 DEF Manifest, Unmarked
  <1>9. call[b].dest \in Saved
    BY <1>6, <1>7, ManifestIn DEF Saved
  <1>10. Unmarked(b) => Unmarked(b)'
    BY <1>3 DEF PaidStay, Unmarked
  <1>11. QED
    BY <1>3, <1>4, <1>8, <1>9, <1>10 DEF PaidStay

\* The calls that did not move still fit when the routes have moved forward.
LEMMA OthersFit ==
  ASSUME IInv, Forward, NEW own, Carries(own), PaidStay,
         NEW d \in Call, call'[d] = call[d], attempt'[d] = attempt[d]
  PROVE  /\ WalkFits(d)' /\ BillFits(d)'
         /\ (call[d].pc = "probing" => LookFits(d, call[d].at, call[d].epoch))'
  <1>1. /\ TypeOK /\ WalkFits(d) /\ BillFits(d) /\ call[d] \in CallRecord
        /\ call[d].pc = "probing" => LookFits(d, call[d].at, call[d].epoch)
    BY DEF IInv, LooksFit, TypeOK
  <1>2. WalkFits(d)'
    BY <1>1 DEF WalkFits
  <1>3. BillFits(d)'
    <2>1. \A r \in Route : attempt'[d][r] = "paid" =>
            holds'[call'[d].dest] = Manifest(r, call'[d].scene)
      <3>1. call[d].dest \in Dir /\ \A r \in Route : Manifest(r, call[d].scene) # Nothing
        BY <1>1, ManifestIn DEF CallRecord
      <3>2. QED
        BY <1>1, <3>1 DEF BillFits, Carries
    <2>2. call'[d].before \subseteq Payers(call[d].scene)'
      BY PaidBefore DEF Payers
    <2>3. \A b \in call[d].before :
            call'[b].dest = call[b].dest /\ (Unmarked(b) => Unmarked(b)')
      BY PaidBefore
    <2>4. \A b \in call'[d].before :
            /\ call'[d].pc = "reading" => call'[b].dest \in call'[d].listed \cup call'[d].missed
            /\ (call'[d].pc \notin Searching \cup {"done"}
                  \/ \E r \in Route : attempt'[d][r] # "none")
                 => /\ call'[b].dest # call'[d].dest
                    /\ call'[b].dest \in call'[d].missed \/ Unmarked(b)'
      BY <1>1, <2>3 DEF BillFits
    <2>5. call'[d].pc = "idle" => call'[d].before = {}
      BY <1>1 DEF BillFits
    <2>6. QED
      BY <2>1, <2>2, <2>4, <2>5 DEF BillFits
  <1>4. ASSUME call[d].pc = "probing" PROVE LookFits(d, call[d].at, call[d].epoch)'
    <2>1. call[d].at \in Route /\ call[d].epoch \in Nat
      BY <1>1, <1>4 DEF WalkFits, TypeOK, CallRecord
    <2>2. d \in Observers(call[d].at)
      BY <1>1, <1>4, <2>1, ObserversAre
    <2>3. d \in doubted' => d \in doubted \/ epoch[call[d].at] < epoch'[call[d].at]
      BY <2>1, <2>2 DEF Forward
    <2>4. epoch[call[d].at] \in Nat /\ epoch'[call[d].at] \in Nat
            /\ epoch[call[d].at] <= epoch'[call[d].at]
      BY <1>1, <2>1 DEF TypeOK, Forward
    <2>5. QED
      BY <1>1, <1>4, <2>1, <2>3, <2>4 DEF LookFits
  <1>5. QED
    BY <1>2, <1>3, <1>4

\* So does the shared preconnect.
LEMMA ConnectionFits ==
  ASSUME IInv, Forward, conn' = conn
  PROVE  (conn.pc = "heading" => LookFits(Connection, 1, conn.epoch))'
  <1> SUFFICES ASSUME conn.pc = "heading" PROVE LookFits(Connection, 1, conn.epoch)'
    OBVIOUS
  <1>1. 1 \in Route /\ conn.epoch \in Nat /\ LookFits(Connection, 1, conn.epoch) /\ TypeOK
    BY RoutesAssumption DEF IInv, LooksFit, TypeOK
  <1>2. Connection \in Observers(1)
    BY <1>1, ObserversAre
  <1>3. Connection \in doubted' => Connection \in doubted \/ epoch[1] < epoch'[1]
    BY <1>1, <1>2 DEF Forward
  <1>4. epoch[1] \in Nat /\ epoch'[1] \in Nat /\ epoch[1] <= epoch'[1]
    BY <1>1 DEF TypeOK, Forward
  <1>5. QED
    BY <1>1, <1>3, <1>4 DEF LookFits

\* What a step of call c does: no other call moves, what was paid stays paid, and a
\* manifest comes only where nobody else waits for one.
CallStep(c) ==
    /\ call' \in [Call -> CallRecord] /\ \A d \in Call : d # c => call'[d] = call[d]
    /\ attempt' \in [Call -> [Route -> Outcome]]
    /\ \A d \in Call : d # c => attempt'[d] = attempt[d]
    /\ PaidStay
    /\ IF call[c].pc = "copying" THEN Carries({call[c].dest}) ELSE Carries({})
    /\ call'[c].pc = "copying" => /\ call[c].pc # "copying"
                                  /\ call'[c].dest \in (made' \ Saved') \ made
    /\ conn' = conn /\ closed' = closed

\* Whoever copies goes on to have its directory for itself.
LEMMA CopiersFit ==
  ASSUME IInv, NEW c \in Call, CallStep(c), NEW d \in Call
  PROVE  CopyFits(d)'
  <1> SUFFICES ASSUME call'[d].pc = "copying"
               PROVE  /\ call'[d].dest \in made' \ Saved'
                      /\ \A b \in Call : b # d /\ call'[b].pc = "copying"
                                        => call'[b].dest # call'[d].dest
    BY DEF CopyFits
  <1>1. \A b \in Call : CopyFits(b) /\ TypeOK
    BY DEF IInv
  <1>2. ASSUME NEW b \in Call, b # c, call'[b].pc = "copying"
        PROVE  /\ call'[b].dest = call[b].dest /\ call[b].pc = "copying"
               /\ call[b].dest \in made /\ call[b].dest \in made' \ Saved'
    <2>1. call'[b] = call[b] /\ call[b].dest \in made \ Saved
      BY <1>1, <1>2 DEF CallStep, CopyFits
    <2>2. call[c].pc = "copying" => call[b].dest # call[c].dest
      BY <1>1, <1>2, <2>1 DEF CopyFits
    <2>3. call[b].dest \in Dir /\ holds[call[b].dest] = Nothing
      BY <1>1, <2>1 DEF TypeOK, Saved
    <2>4. made \subseteq made' /\ holds'[call[b].dest] = Nothing
      BY <2>1, <2>2, <2>3 DEF CallStep, Carries
    <2>5. QED
      BY <1>2, <2>1, <2>3, <2>4 DEF Saved
  <1>3. CASE d = c
    <2>1. call'[c].dest \in (made' \ Saved') \ made
      BY <1>3 DEF CallStep
    <2>2. QED
      BY <1>2, <1>3, <2>1
  <1>4. CASE d # c
    <2>1. call'[d].dest \in made /\ call'[d].dest \in made' \ Saved' /\ call[d].pc = "copying"
            /\ call'[d].dest = call[d].dest
      BY <1>2, <1>4
    <2>2. ASSUME NEW b \in Call, b # d, call'[b].pc = "copying"
          PROVE  call'[b].dest # call'[d].dest
      <3>1. CASE b = c
        BY <2>1, <2>2, <3>1 DEF CallStep
      <3>2. CASE b # c
        BY <1>1, <1>2, <2>1, <2>2, <3>2 DEF CopyFits
      <3>3. QED
        BY <3>1, <3>2
    <2>3. QED
      BY <2>1, <2>2
  <1>5. QED
    BY <1>3, <1>4

\* A step of call c keeps the invariant if c fits where it is now.
LEMMA StepOfOneCall ==
  ASSUME IInv, Forward, NEW c \in Call, CallStep(c), WalkFits(c)', BillFits(c)',
         (call[c].pc = "probing" => LookFits(c, call[c].at, call[c].epoch))'
  PROVE  IInv'
  <1>1. PICK own : Carries(own)
    BY DEF CallStep
  <1>2. TypeOK' /\ Saved' \subseteq made'
    BY <1>1 DEF IInv, TypeOK, Forward, CallStep, Carries
  <1>3. \A d \in Call : /\ WalkFits(d)' /\ BillFits(d)'
                        /\ (call[d].pc = "probing" =>
                              LookFits(d, call[d].at, call[d].epoch))'
    <2> SUFFICES ASSUME NEW d \in Call
                 PROVE  /\ WalkFits(d)' /\ BillFits(d)'
                        /\ (call[d].pc = "probing" =>
                              LookFits(d, call[d].at, call[d].epoch))'
      OBVIOUS
    <2>1. CASE d = c
      BY <2>1
    <2>2. CASE d # c
      BY <1>1, <2>2, OthersFit DEF CallStep
    <2>3. QED
      BY <2>1, <2>2
  <1>4. (conn.pc = "heading" => LookFits(Connection, 1, conn.epoch))'
    BY ConnectionFits DEF CallStep
  <1>5. \A d \in Call : CopyFits(d)'
    BY CopiersFit
  <1>6. QED
    BY <1>2, <1>3, <1>4, <1>5 DEF IInv, LooksFit

\* What a call did at one route, and what it did at the others.
LEMMA AttemptMoves ==
  ASSUME TypeOK, NEW c \in Call, NEW q \in Route, NEW outcome \in Outcome,
         attempt' = [attempt EXCEPT ![c][q] = outcome]
  PROVE  /\ attempt' \in [Call -> [Route -> Outcome]]
         /\ \A d \in Call : d # c => attempt'[d] = attempt[d]
         /\ \A r \in Route : attempt'[c][r] = IF r = q THEN outcome ELSE attempt[c][r]
  BY DEF TypeOK

\* A call that moves along its routes takes what it asked for and what it missed with
\* it; what it has paid for is on disk.
LEMMA MoveFitsBill ==
  ASSUME IInv, NEW c \in Call, NEW pc, NEW at, NEW seen, NEW result,
         HasMoved(c, pc, at, seen, result), pc \notin {"idle", "reading"},
         PaidStay, NEW own, Carries(own),
         \A r \in Route : attempt'[c][r] = "paid" =>
            attempt[c][r] = "paid" \/ holds'[call[c].dest] = Manifest(r, call[c].scene),
         pc \notin Searching \cup {"done"} \/ attempt'[c] # attempt[c] =>
            \/ call[c].pc \notin Searching \cup {"done"}
            \/ \E r \in Route : attempt[c][r] # "none"
  PROVE  BillFits(c)'
  <1>1. TypeOK /\ BillFits(c) /\ call[c] \in CallRecord
    BY DEF IInv, TypeOK
  <1>2. \A r \in Route : attempt'[c][r] = "paid" =>
          holds'[call'[c].dest] = Manifest(r, call'[c].scene)
    <2>1. call[c].dest \in Dir /\ \A r \in Route : Manifest(r, call[c].scene) # Nothing
      BY <1>1, ManifestIn DEF CallRecord
    <2>2. QED
      BY <1>1, <2>1 DEF BillFits, Carries, HasMoved
  <1>3. \A b \in call[c].before :
          /\ b \in Call /\ call'[b].scene = call[c].scene /\ call'[b].dest = call[b].dest
          /\ \E r \in Route : attempt'[b][r] = "paid"
          /\ Unmarked(b) => Unmarked(b)'
    BY PaidBefore
  <1>4. call'[c].before \subseteq Payers(call[c].scene)'
    BY <1>3 DEF HasMoved, Payers
  <1>5. ASSUME NEW b \in call'[c].before,
               \/ call'[c].pc \notin Searching \cup {"done"}
               \/ \E r \in Route : attempt'[c][r] # "none"
        PROVE  /\ call'[b].dest # call'[c].dest
               /\ call'[b].dest \in call'[c].missed \/ Unmarked(b)'
    <2>1. b \in call[c].before /\ call'[b].dest = call[b].dest
            /\ call'[c].missed = call[c].missed /\ call'[c].dest = call[c].dest
            /\ (Unmarked(b) => Unmarked(b)')
      BY <1>3, <1>5 DEF HasMoved
    <2>2. \/ call[c].pc \notin Searching \cup {"done"}
          \/ \E r \in Route : attempt[c][r] # "none"
      BY <1>5 DEF HasMoved
    <2>3. QED
      BY <1>1, <2>1, <2>2 DEF BillFits
  <1>6. call'[c].pc \notin {"idle", "reading"}
    BY DEF HasMoved
  <1>7. \A b \in call'[c].before :
          (call'[c].pc \notin Searching \cup {"done"}
             \/ \E r \in Route : attempt'[c][r] # "none")
            => /\ call'[b].dest # call'[c].dest
               /\ call'[b].dest \in call'[c].missed \/ Unmarked(b)'
    BY <1>5
  <1>8. QED
    BY <1>2, <1>4, <1>6, <1>7 DEF BillFits

\* A step that only takes more liberty with the disk is one that takes less.
LEMMA CarriesMore ==
  ASSUME Carries({}), NEW own
  PROVE  Carries(own)
  BY DEF Carries

\* A move of a call that leaves nothing to copy is a step of it.
LEMMA MoveIsStep ==
  ASSUME NEW c \in Call, NEW pc, NEW at, NEW seen, NEW result,
         HasMoved(c, pc, at, seen, result), pc # "copying",
         attempt' \in [Call -> [Route -> Outcome]],
         \A d \in Call : d # c => attempt'[d] = attempt[d],
         \A r \in Route : attempt[c][r] = "paid" => attempt'[c][r] = "paid",
         Carries({}) \/ (call[c].pc = "copying" /\ Carries({call[c].dest})),
         conn' = conn, closed' = closed
  PROVE  CallStep(c)
  <1>1. PaidStay
    BY DEF PaidStay, HasMoved
  <1>2. IF call[c].pc = "copying" THEN Carries({call[c].dest}) ELSE Carries({})
    BY CarriesMore
  <1>3. call'[c].pc # "copying" /\ call' \in [Call -> CallRecord]
          /\ \A d \in Call : d # c => call'[d] = call[d]
    BY DEF HasMoved
  <1>4. QED
    BY <1>1, <1>2, <1>3 DEF CallStep

\* A call that leaves a route behind has billed nothing there.
LEMMA NextRouteKeepsIInv ==
  ASSUME IInv, Forward, NEW c \in Call, NextRoute(c), call[c].at \in Route,
         UNCHANGED <<conn, store, closed>>,
         \/ call[c].pc \in {"gate", "joining", "probing"} /\ UNCHANGED attempt
         \/ /\ call[c].pc = "generating"
            /\ attempt' = [attempt EXCEPT ![c][call[c].at] = "safe"]
  PROVE  IInv'
  <1> DEFINE at == call[c].at
  <1>1. TypeOK /\ WalkFits(c) /\ BillFits(c) /\ call[c] \in CallRecord
    BY DEF IInv, TypeOK
  <1>2. HasMoved(c, "gate", at + 1, 0, call[c].result)
    BY <1>1, NextRouteMoves
  <1>3. PICK outcome \in {"none", "safe"} :
          /\ attempt' \in [Call -> [Route -> Outcome]]
          /\ \A d \in Call : d # c => attempt'[d] = attempt[d]
          /\ \A r \in Route : attempt'[c][r] = IF r = at THEN outcome ELSE attempt[c][r]
    <2>1. CASE call[c].pc \in {"gate", "joining", "probing"} /\ UNCHANGED attempt
      <3>1. attempt[c][at] = "none"
        BY <1>1, <2>1 DEF WalkFits, Here
      <3>2. QED
        BY <1>1, <2>1, <3>1 DEF TypeOK
    <2>2. CASE attempt' = [attempt EXCEPT ![c][at] = "safe"]
      <3>1. "safe" \in Outcome
        BY DEF Outcome
      <3>2. QED
        BY <1>1, <2>2, <3>1, AttemptMoves
    <2>3. QED
      BY <2>1, <2>2
  <1>4. at \in Nat /\ at <= Routes /\ call[c].result = "none"
    BY <1>1 DEF WalkFits
  <1>5. WalkFits(c)'
    <2>1. \A r \in Route : /\ r > at + 1 => attempt'[c][r] = "none"
                           /\ r < at + 1 => attempt'[c][r] \in {"none", "safe"}
                           /\ r = at + 1 => attempt'[c][r] = "none"
      BY <1>1, <1>3, <1>4, RoutesAssumption DEF WalkFits
    <2>2. QED
      BY <1>2, <1>4, <2>1 DEF WalkFits, HasMoved, Here, Searching
  <1>6. \A r \in Route : attempt'[c][r] = "paid" <=> attempt[c][r] = "paid"
    BY <1>1, <1>3, <1>4 DEF WalkFits, Here
  <1>7. Carries({})
    BY StayCarries DEF IInv
  <1>8. CallStep(c)
    BY <1>2, <1>3, <1>6, <1>7, MoveIsStep
  <1>9. PaidStay
    BY <1>8 DEF CallStep
  <1>10. BillFits(c)'
    BY <1>2, <1>6, <1>7, <1>9, MoveFitsBill DEF Searching
  <1>11. (call[c].pc = "probing" => LookFits(c, call[c].at, call[c].epoch))'
    BY <1>2 DEF HasMoved
  <1>12. QED
    BY <1>5, <1>8, <1>10, <1>11, StepOfOneCall

\* A call that ends stands at the only route that may have billed it.
LEMMA FinishKeepsIInv ==
  ASSUME IInv, Forward, NEW c \in Call, NEW result \in Result, Finish(c, result),
         conn' = conn, closed' = closed,
         Carries({}) \/ (call[c].pc = "copying" /\ Carries({call[c].dest})),
         result = "unavailable" => call[c].at > Routes,
         \/ call[c].pc \notin {"idle", "generating"} /\ UNCHANGED attempt
         \/ /\ call[c].pc = "generating"
            /\ attempt' = [attempt EXCEPT ![c][call[c].at] = "ambiguous"]
  PROVE  IInv'
  <1> DEFINE at == call[c].at
  <1>1. TypeOK /\ WalkFits(c) /\ BillFits(c) /\ call[c] \in CallRecord
    BY DEF IInv, TypeOK
  <1>2. HasMoved(c, "done", at, 0, result)
    BY <1>1, FinishMoves
  <1>3. /\ attempt' \in [Call -> [Route -> Outcome]]
        /\ \A d \in Call : d # c => attempt'[d] = attempt[d]
        /\ \A r \in Route : \/ attempt'[c][r] = attempt[c][r] /\ call[c].pc # "generating"
                            \/ attempt'[c][r] = attempt[c][r] /\ r # at
                            \/ attempt'[c][r] = "ambiguous" /\ r = at
        /\ call[c].pc # "generating" => attempt' = attempt
    <2>1. CASE call[c].pc # "generating" /\ UNCHANGED attempt
      BY <1>1, <2>1 DEF TypeOK
    <2>2. CASE call[c].pc = "generating" /\ attempt' = [attempt EXCEPT ![c][at] = "ambiguous"]
      <3>1. "ambiguous" \in Outcome /\ at \in Route
        BY <1>1, <2>2 DEF Outcome, WalkFits
      <3>2. QED
        BY <1>1, <2>2, <3>1, AttemptMoves
    <2>3. QED
      BY <2>1, <2>2
  <1>4. WalkFits(c)'
    <2>1. \A r \in Route : /\ r > at => attempt'[c][r] = "none"
                           /\ r < at => attempt'[c][r] \in {"none", "safe"}
                           /\ r = at => attempt'[c][r] \in {"none", "paid", "ambiguous"}
      BY <1>1, <1>3 DEF WalkFits, Here, CallRecord, Pc
    <2>2. QED
      BY <1>2, <2>1 DEF WalkFits, HasMoved, Here, Searching
  <1>5. \A r \in Route : attempt'[c][r] = "paid" <=> attempt[c][r] = "paid"
    <2>1. call[c].pc = "generating" => attempt[c][at] = "running"
      BY <1>1 DEF WalkFits, Here
    <2>2. QED
      BY <1>3, <2>1
  <1>6. PICK own : Carries(own)
    OBVIOUS
  <1>7. CallStep(c)
    BY <1>2, <1>3, <1>5, MoveIsStep
  <1>8. PaidStay
    BY <1>7 DEF CallStep
  <1>9. BillFits(c)'
    <2>1. attempt'[c] # attempt[c] => call[c].pc \notin Searching \cup {"done"}
      BY <1>3 DEF Searching
    <2>2. QED
      BY <1>2, <1>5, <1>6, <1>8, <2>1, MoveFitsBill
  <1>10. (call[c].pc = "probing" => LookFits(c, call[c].at, call[c].epoch))'
    BY <1>2 DEF HasMoved
  <1>11. QED
    BY <1>4, <1>7, <1>9, <1>10, StepOfOneCall

\* A route is used by a request that has billed nothing so far.
LEMMA ReadyKeepsIInv ==
  ASSUME IInv, Forward, NEW c \in Call, call[c].at \in Route, Ready(c, call[c].at),
         call[c].pc \in {"gate", "joining", "probing"}, UNCHANGED <<conn, store, closed>>
  PROVE  IInv'
  <1> DEFINE at == call[c].at
  <1>1. TypeOK /\ WalkFits(c) /\ BillFits(c) /\ call[c] \in CallRecord /\ Carries({})
    BY StayCarries DEF IInv, TypeOK
  <1>2. CASE call[c].kind # "generate"
    BY <1>1, <1>2, FinishKeepsIInv, RoutesAssumption DEF Ready, Result
  <1>3. CASE call[c].kind = "generate"
    <2>1. HasMoved(c, "generating", at, 0, call[c].result)
      <3>1. At(c, "generating") /\ "generating" \in Pc
        BY <1>3 DEF Ready, Pc
      <3>2. QED
        BY <1>1, <3>1, AtMoves
    <2>2. "running" \in Outcome /\ attempt' = [attempt EXCEPT ![c][at] = "running"]
      BY <1>3 DEF Ready, Outcome
    <2>3. /\ attempt' \in [Call -> [Route -> Outcome]]
          /\ \A d \in Call : d # c => attempt'[d] = attempt[d]
          /\ \A r \in Route : attempt'[c][r] = IF r = at THEN "running" ELSE attempt[c][r]
      BY <1>1, <2>2, AttemptMoves
    <2>4. WalkFits(c)'
      BY <1>1, <2>1, <2>3 DEF WalkFits, HasMoved, Here, Searching
    <2>5. attempt[c][at] = "none"
      BY <1>1 DEF WalkFits, Here
    <2>6. \A r \in Route : attempt'[c][r] = "paid" <=> attempt[c][r] = "paid"
      BY <2>3, <2>5
    <2>7. CallStep(c)
      BY <1>1, <2>1, <2>3, <2>6, MoveIsStep
    <2>8. PaidStay
      BY <2>7 DEF CallStep
    <2>9. BillFits(c)'
      BY <1>1, <2>1, <2>6, <2>8, MoveFitsBill DEF Searching
    <2>10. (call[c].pc = "probing" => LookFits(c, call[c].at, call[c].epoch))'
      BY <2>1 DEF HasMoved
    <2>11. QED
      BY <2>4, <2>7, <2>9, <2>10, StepOfOneCall
  <1>4. QED
    BY <1>2, <1>3

\* A call that moves on before it has tried a route fits where it is.
LEMMA UntriedKeepsIInv ==
  ASSUME IInv, Forward, NEW c \in Call, NEW pc \in Pc, NEW at, NEW seen \in Nat,
         HasMoved(c, pc, at, seen, call[c].result), at = call[c].at,
         call[c].pc \in {"idle", "gate", "joining"}, pc \in {"gate", "joining", "probing"},
         pc = "joining" => at = 1, pc = "probing" => at \in Route,
         pc = "probing" => seen <= epoch'[at] /\ (c \in doubted' => seen < epoch'[at]),
         UNCHANGED <<conn, store, closed, attempt>>
  PROVE  IInv'
  <1>1. TypeOK /\ WalkFits(c) /\ call[c] \in CallRecord /\ Carries({})
    BY StayCarries DEF IInv, TypeOK
  <1>2. WalkFits(c)'
    <2>1. Here(call[c].pc) = {"none"} /\ Here(pc) = {"none"}
      <3>1. Here(pc) = {"none"}
        BY DEF Here
      <3>2. Here(call[c].pc) = {"none"}
        BY DEF Here
      <3>3. QED
        BY <3>1, <3>2
    <2>2. \A r \in Route : /\ r > at => attempt'[c][r] = "none"
                           /\ r < at => attempt'[c][r] \in {"none", "safe"}
                           /\ r = at => attempt'[c][r] = "none"
      BY <1>1, <2>1 DEF WalkFits
    <2>3. call[c].result = "none"
      BY <1>1 DEF WalkFits
    <2>4. /\ call'[c].pc = pc /\ call'[c].at = at /\ call'[c].result = "none"
      BY <2>3 DEF HasMoved
    <2>5. Here(call'[c].pc) = {"none"}
      BY <2>1, <2>4
    <2>6. \A r \in Route : r = call'[c].at => attempt'[c][r] \in Here(call'[c].pc)
      BY <2>2, <2>4, <2>5
    <2>7. QED
      BY <2>2, <2>4, <2>6 DEF WalkFits, Searching
  <1>3. CallStep(c)
    BY <1>1, MoveIsStep DEF TypeOK
  <1>4. PaidStay
    BY <1>3 DEF CallStep
  <1>5. BillFits(c)'
    BY <1>1, <1>4, MoveFitsBill DEF Searching
  <1>6. (call[c].pc = "probing" => LookFits(c, call[c].at, call[c].epoch))'
    <2>1. call'[c].pc = pc /\ call'[c].at = at /\ call'[c].epoch = seen
      BY DEF HasMoved
    <2>2. QED
      BY <2>1 DEF LookFits
  <1>7. QED
    BY <1>2, <1>3, <1>5, <1>6, StepOfOneCall

\* The cached answer of the gate: the next route, this one, or a look at it.
LEMMA ReadCacheKeepsIInv ==
  ASSUME IInv, NEW c \in Call, call[c].at \in Route, call[c].pc \in {"gate", "joining"},
         ReadCache(c, call[c].at)
  PROVE  IInv'
  <1> DEFINE at == call[c].at
  <1>1. UNCHANGED <<readiness, conn, store, closed>> /\ TypeOK
    BY DEF ReadCache, IInv
  <1>2. doubted' \subseteq doubted /\ Forward
    BY <1>1, StayGoesForward DEF ReadCache
  <1>3. CASE NextRoute(c) /\ UNCHANGED attempt
    BY <1>1, <1>2, <1>3, NextRouteKeepsIInv
  <1>4. CASE Ready(c, at)
    BY <1>1, <1>2, <1>4, ReadyKeepsIInv
  <1>5. CASE /\ call' = [call EXCEPT ![c].pc = "probing", ![c].epoch = epoch[at]]
             /\ doubted' = doubted \ {c} /\ UNCHANGED attempt
    <2>1. epoch[at] \in Nat
      BY <1>1 DEF TypeOK
    <2>2. HasMoved(c, "probing", at, epoch[at], call[c].result)
      BY <1>1, <1>5, <2>1, LookMoves
    <2>3. epoch[at] <= epoch'[at] /\ c \notin doubted'
      BY <1>1, <1>5, <2>1 DEF readiness
    <2>4. QED
      BY <1>1, <1>2, <1>5, <2>1, <2>2, <2>3, UntriedKeepsIInv DEF Pc
  <1>6. QED
    BY <1>3, <1>4, <1>5 DEF ReadCache

\* A call that begins has billed nothing.
LEMMA BeginKeepsIInv ==
  ASSUME IInv, NEW c \in Call, BeginProbe(c) \/ BeginGenerate(c)
  PROVE  IInv'
  <1>1. UNCHANGED <<readiness, conn, store, closed, attempt, doubted>> /\ TypeOK
          /\ call[c].pc = "idle" /\ WalkFits(c) /\ BillFits(c) /\ call[c] \in CallRecord
    BY DEF BeginProbe, BeginGenerate, IInv, TypeOK
  <1>2. Forward /\ Carries({})
    BY <1>1, StayGoesForward, StayCarries DEF IInv
  <1>3. CASE BeginProbe(c)
    <2>1. HasMoved(c, "gate", call[c].at, 0, call[c].result)
      BY <1>1, <1>3, AtMoves DEF BeginProbe, Pc
    <2>2. QED
      BY <1>1, <1>2, <2>1, UntriedKeepsIInv DEF Pc
  <1>4. CASE BeginGenerate(c)
    <2>1. PICK s \in Scene, d \in Dest[c] :
            call' = [call EXCEPT ![c] =
                      [@ EXCEPT !.kind = "generate", !.scene = s, !.dest = d,
                                !.pc = "listing", !.before = Payers(s)]]
      BY <1>4 DEF BeginGenerate
    <2> DEFINE r == [call[c] EXCEPT !.kind = "generate", !.scene = s, !.dest = d,
                                    !.pc = "listing", !.before = Payers(s)]
    <2>2. d \in Dir /\ Payers(s) \in SUBSET Call
      BY StoreAssumption DEF Payers
    <2>3. /\ r \in CallRecord /\ r.pc = "listing" /\ r.at = call[c].at /\ r.scene = s
          /\ r.dest = d /\ r.before = Payers(s) /\ r.result = call[c].result
      BY <1>1, <2>2 DEF CallRecord, Pc, Searching
    <2>4. call' = [call EXCEPT ![c] = r]
      BY <2>1
    <2> HIDE DEF r
    <2>5. call' \in [Call -> CallRecord] /\ call'[c] = r
            /\ \A b \in Call : b # c => call'[b] = call[b]
      BY <1>1, <2>3, <2>4 DEF TypeOK
    <2>6. \A q \in Route : attempt[c][q] = "none"
      BY <1>1, RoutesAssumption DEF WalkFits, Here
    <2>7. WalkFits(c)'
      <3>1. call[c].at = 1 /\ call[c].result = "none"
        BY <1>1 DEF WalkFits
      <3>2. QED
        BY <1>1, <2>3, <2>5, <2>6, <3>1 DEF WalkFits, Here, Searching
    <2>8. PaidStay
      BY <1>1, <2>5, <2>6 DEF PaidStay
    <2>9. CallStep(c)
      <3>1. call'[c].pc # "copying"
        BY <2>3, <2>5
      <3>2. attempt' \in [Call -> [Route -> Outcome]]
        BY <1>1 DEF TypeOK
      <3>3. QED
        BY <1>1, <1>2, <2>5, <2>8, <3>1, <3>2 DEF CallStep
    <2>10. BillFits(c)'
      <3>1. \A b \in Payers(s) : b # c
        BY <2>6 DEF Payers
      <3>2. Payers(s) \subseteq Payers(s)'
        BY <1>1, <2>2, <2>5, <3>1 DEF Payers
      <3>3. \A q \in Route : attempt'[c][q] = "none"
        BY <1>1, <2>6
      <3>4. call'[c].before \subseteq Payers(call[c].scene)'
        BY <2>3, <2>5, <3>2 DEF Payers
      <3>5. call'[c].pc = "listing"
        BY <2>3, <2>5
      <3>6. QED
        BY <3>3, <3>4, <3>5 DEF BillFits, Searching
    <2>11. (call[c].pc = "probing" => LookFits(c, call[c].at, call[c].epoch))'
      BY <2>3, <2>5
    <2>12. QED
      BY <1>2, <2>7, <2>9, <2>10, <2>11, StepOfOneCall
  <1>5. QED
    BY <1>3, <1>4

\* A call that searches has not tried a route.
LEMMA SearchersFresh ==
  ASSUME IInv, NEW c \in Call, call[c].pc \in Searching
  PROVE  /\ TypeOK /\ call[c] \in CallRecord /\ BillFits(c)
         /\ call[c].at = 1 /\ call[c].result = "none"
         /\ \A r \in Route : attempt[c][r] = "none"
  <1>1. TypeOK /\ call[c] \in CallRecord /\ BillFits(c) /\ WalkFits(c)
    BY DEF IInv, TypeOK
  <1>2. Here(call[c].pc) = {"none"}
    BY DEF Here, Searching
  <1>3. call[c].at = 1 /\ call[c].result = "none"
    BY <1>1 DEF WalkFits, Searching
  <1>4. QED
    BY <1>1, <1>2, <1>3, RoutesAssumption DEF WalkFits

\* A search that lists its candidates lists what was paid for, or has missed it.
LEMMA ListKeepsIInv ==
  ASSUME IInv, NEW c \in Call, List(c)
  PROVE  IInv'
  <1>1. /\ UNCHANGED <<readiness, conn, store, closed, attempt, doubted>>
        /\ call[c].pc = "listing" /\ call[c].pc \in Searching
    BY DEF List, Searching
  <1>2. /\ TypeOK /\ call[c] \in CallRecord /\ BillFits(c)
        /\ call[c].at = 1 /\ call[c].result = "none"
        /\ \A r \in Route : attempt[c][r] = "none"
    BY <1>1, SearchersFresh
  <1>3. Forward /\ Carries({})
    BY <1>1, <1>2, StayGoesForward, StayCarries DEF IInv
  <1>4. CASE Finish(c, "failed")
    BY <1>1, <1>3, <1>4, FinishKeepsIInv DEF Result
  <1> DEFINE hidden == Hidden(call[c].dest)
  <1>5. CASE call' = [call EXCEPT ![c].pc = "reading", ![c].listed = Saved \ hidden,
                                  ![c].missed = hidden \cap Paid(c)]
    <2> DEFINE r == [call[c] EXCEPT !.pc = "reading", !.listed = Saved \ hidden,
                                    !.missed = hidden \cap Paid(c)]
    <2>1. hidden \in SUBSET Dir /\ Saved \in SUBSET Dir
      BY DEF Hidden, Saved
    <2>2. call' = [call EXCEPT ![c] = r]
      BY <1>5
    <2>3. /\ r.pc = "reading" /\ r.at = call[c].at /\ r.result = call[c].result
          /\ r.scene = call[c].scene /\ r.dest = call[c].dest /\ r.before = call[c].before
          /\ r.listed = Saved \ hidden /\ r.missed = hidden \cap Paid(c)
      <3> HIDE DEF hidden
      <3>1. QED
        BY <1>2 DEF CallRecord
    <2>4. r \in CallRecord
      <3> HIDE DEF hidden
      <3>1. Saved \ hidden \in SUBSET Dir /\ hidden \cap Paid(c) \in SUBSET Dir
              /\ "reading" \in Pc
        BY <2>1 DEF Pc, Searching
      <3>2. QED
        BY <1>2, <3>1 DEF CallRecord
    <2> HIDE DEF r, hidden
    <2>5. call' \in [Call -> CallRecord] /\ call'[c] = r
            /\ \A b \in Call : b # c => call'[b] = call[b]
      BY <1>2, <2>2, <2>4 DEF TypeOK
    <2>6. PaidStay
      BY <1>1, <1>2, <2>5 DEF PaidStay
    <2>7. CallStep(c)
      <3>1. attempt' \in [Call -> [Route -> Outcome]] /\ call'[c].pc # "copying"
        BY <1>1, <1>2, <2>3, <2>5 DEF TypeOK
      <3>2. QED
        BY <1>1, <1>3, <2>5, <2>6, <3>1 DEF CallStep
    <2>8. WalkFits(c)'
      BY <1>1, <1>2, <2>3, <2>5 DEF WalkFits, Here, Searching
    <2>9. BillFits(c)'
      <3>1. \A b \in call[c].before :
              /\ b \in Call /\ call'[b].scene = call[c].scene
              /\ \E q \in Route : attempt'[b][q] = "paid"
              /\ call'[b].dest = call[b].dest /\ call[b].dest \in Saved
        BY <2>6, PaidBefore
      <3>2. call'[c].before \subseteq Payers(call[c].scene)'
        BY <2>3, <2>5, <3>1 DEF Payers
      <3>3. \A b \in call'[c].before :
              call'[b].dest \in call'[c].listed \cup call'[c].missed
        BY <2>3, <2>5, <3>1 DEF Paid
      <3>4. \A q \in Route : attempt'[c][q] = "none"
        BY <1>1, <1>2
      <3>5. call'[c].pc = "reading"
        BY <2>3, <2>5
      <3>6. QED
        BY <3>2, <3>3, <3>4, <3>5 DEF BillFits, Searching
    <2>10. (call[c].pc = "probing" => LookFits(c, call[c].at, call[c].epoch))'
      BY <2>3, <2>5
    <2>11. QED
      BY <1>3, <2>7, <2>8, <2>9, <2>10, StepOfOneCall
  <1>6. QED
    BY <1>4, <1>5 DEF List

\* A search that ends without a bundle could not read what was paid for, and has a
\* directory of its own.
LEMMA ReadKeepsIInv ==
  ASSUME IInv, NEW c \in Call, Read(c)
  PROVE  IInv'
  <1> DEFINE dest == call[c].dest
  <1>1. /\ UNCHANGED <<readiness, conn, holds, newer, closed, attempt, doubted>>
        /\ call[c].pc = "reading" /\ call[c].pc \in Searching
    BY DEF Read, Searching
  <1>2. /\ TypeOK /\ call[c] \in CallRecord /\ BillFits(c)
        /\ call[c].at = 1 /\ call[c].result = "none"
        /\ \A r \in Route : attempt[c][r] = "none"
    BY <1>1, SearchersFresh
  <1>3. Forward /\ dest \in Dir /\ Saved \subseteq made
    BY <1>1, <1>2, StayGoesForward DEF IInv, CallRecord
  <1>4. UNCHANGED made => Carries({})
    BY <1>1, <1>2, <1>3, StayCarries DEF store
  <1>5. attempt' \in [Call -> [Route -> Outcome]]
    BY <1>1, <1>2 DEF TypeOK
  <1>6. PICK unread \in SUBSET call[c].listed :
          \/ /\ \E result \in {"served", "failed"} : Finish(c, result)
             /\ UNCHANGED made
          \/ dest \notin made /\ At(c, "copying") /\ Make(dest)
          \/ /\ dest \notin made /\ Usable(c, unread) = {} /\ UNCHANGED made
             /\ call' = [call EXCEPT ![c] = [Moved(c, "gate") EXCEPT
                                     !.missed = @ \cup (unread \cap Paid(c))]]
    BY DEF Read
  <1>7. CASE (\E result \in {"served", "failed"} : Finish(c, result)) /\ UNCHANGED made
    BY <1>1, <1>3, <1>4, <1>7, FinishKeepsIInv DEF Result
  <1>8. CASE dest \notin made /\ At(c, "copying") /\ Make(dest)
    <2>1. HasMoved(c, "copying", 1, 0, "none")
      BY <1>2, <1>8, AtMoves DEF Pc, Searching
    <2>2. Carries({})
      BY <1>1, <1>2, <1>3, <1>8, MakeCarries
    <2>3. PaidStay
      BY <1>1, <1>2, <2>1 DEF PaidStay, HasMoved
    <2>4. call'[c].dest \in (made' \ Saved') \ made
      <3>1. call'[c].dest = dest /\ dest \in made' /\ dest \notin Saved
        BY <1>3, <1>8, <2>1 DEF HasMoved, Make
      <3>2. QED
        BY <1>1, <1>8, <3>1 DEF Saved
    <2>5. CallStep(c)
      BY <1>1, <1>5, <2>1, <2>2, <2>3, <2>4 DEF CallStep, HasMoved
    <2>6. WalkFits(c)'
      BY <1>1, <1>2, <2>1 DEF WalkFits, HasMoved, Here, Searching
    <2>7. BillFits(c)'
      BY <1>1, <1>2, <2>1, <2>2, <2>3, MoveFitsBill DEF Searching
    <2>8. (call[c].pc = "probing" => LookFits(c, call[c].at, call[c].epoch))'
      BY <2>1 DEF HasMoved
    <2>9. QED
      BY <1>3, <2>5, <2>6, <2>7, <2>8, StepOfOneCall
  <1>9. CASE /\ dest \notin made /\ Usable(c, unread) = {} /\ UNCHANGED made
             /\ call' = [call EXCEPT ![c] = [Moved(c, "gate") EXCEPT
                                     !.missed = @ \cup (unread \cap Paid(c))]]
    <2> DEFINE m == Moved(c, "gate")
    <2> DEFINE r == [m EXCEPT !.missed = m.missed \cup (unread \cap Paid(c))]
    <2>1. /\ m \in CallRecord /\ m.pc = "gate" /\ m.at = call[c].at /\ m.epoch = 0
          /\ m.result = call[c].result
          /\ m.scene = call[c].scene /\ m.dest = call[c].dest
          /\ m.before = call[c].before /\ m.missed = call[c].missed
      BY <1>2, MovedRecord DEF Pc
    <2>2. call' = [call EXCEPT ![c] = r]
      BY <1>9
    <2>3. unread \in SUBSET Dir
      BY <1>2 DEF CallRecord
    <2> HIDE DEF m
    <2>4. /\ r \in CallRecord /\ r.pc = "gate" /\ r.at = call[c].at
          /\ r.result = call[c].result
          /\ r.scene = call[c].scene /\ r.dest = call[c].dest
          /\ r.before = call[c].before
          /\ r.missed = call[c].missed \cup (unread \cap Paid(c))
      BY <2>1, <2>3 DEF CallRecord
    <2> HIDE DEF r
    <2>5. call' \in [Call -> CallRecord] /\ call'[c] = r
            /\ \A b \in Call : b # c => call'[b] = call[b]
      BY <1>2, <2>2, <2>4 DEF TypeOK
    <2>6. PaidStay
      BY <1>1, <1>2, <2>5 DEF PaidStay
    <2>7. CallStep(c)
      <3>1. call'[c].pc # "copying"
        BY <2>4, <2>5
      <3>2. QED
        BY <1>1, <1>4, <1>5, <1>9, <2>5, <2>6, <3>1 DEF CallStep
    <2>8. WalkFits(c)'
      BY <1>1, <1>2, <2>4, <2>5 DEF WalkFits, Here, Searching
    <2>9. BillFits(c)'
      <3>1. \A b \in call[c].before :
              /\ b \in Call /\ call'[b].scene = call[c].scene
              /\ \E q \in Route : attempt'[b][q] = "paid"
              /\ call'[b].dest = call[b].dest /\ call[b].dest \in Saved
              /\ holds[call[b].dest] = call[c].scene \/ Unmarked(b)
              /\ Unmarked(b) => Unmarked(b)'
        BY <2>6, PaidBefore
      <3>2. call'[c].before \subseteq Payers(call[c].scene)'
        <4>1. call'[c].before = call[c].before /\ call'[c].scene = call[c].scene
          BY <2>4, <2>5
        <4>2. QED
          BY <3>1, <4>1 DEF Payers
      <3>3. ASSUME NEW b \in call[c].before
            PROVE  /\ call'[b].dest # call'[c].dest
                   /\ call'[b].dest \in call'[c].missed \/ Unmarked(b)'
        <4>1. call[b].dest \in call[c].listed \cup call[c].missed
          BY <1>1, <1>2 DEF BillFits
        <4>2. call[b].dest \in Paid(c)
          BY DEF Paid
        <4>3. call[b].dest \in call[c].listed => call[b].dest \in unread \/ Unmarked(b)
          BY <1>9, <3>1 DEF Usable
        <4>4. call[b].dest # dest
          BY <1>3, <1>9, <3>1
        <4>5. QED
          BY <2>4, <2>5, <3>1, <4>1, <4>2, <4>3, <4>4
      <3>4. \A q \in Route : attempt'[c][q] = "none"
        BY <1>1, <1>2
      <3>5. call'[c].pc = "gate" /\ call'[c].before = call[c].before
        BY <2>4, <2>5
      <3>6. QED
        BY <3>2, <3>3, <3>4, <3>5 DEF BillFits
    <2>10. (call[c].pc = "probing" => LookFits(c, call[c].at, call[c].epoch))'
      BY <2>4, <2>5
    <2>11. QED
      BY <1>3, <2>7, <2>8, <2>9, <2>10, StepOfOneCall
  <1>10. QED
    BY <1>6, <1>7, <1>8, <1>9

\* A copy fills the directory its call has made.
LEMMA CopyKeepsIInv ==
  ASSUME IInv, NEW c \in Call, Copy(c)
  PROVE  IInv'
  <1> DEFINE dest == call[c].dest
  <1>1. /\ UNCHANGED <<readiness, conn, made, closed, attempt, doubted>>
        /\ call[c].pc = "copying" /\ TypeOK /\ Saved \subseteq made /\ CopyFits(c)
    BY DEF Copy, IInv
  <1>2. dest \in Dir /\ dest \in made \ Saved /\ call[c].scene \in Manifests
    BY <1>1 DEF TypeOK, CallRecord, CopyFits, Manifests
  <1>3. Carries({dest})
    <2>1. CASE Write(dest, call[c].scene)
      BY <1>1, <1>2, <2>1, WriteCarries
    <2>2. CASE UNCHANGED <<holds, newer>>
      BY <1>1, <2>2, StayCarries, CarriesMore DEF store
    <2>3. QED
      BY <2>1, <2>2 DEF Copy
  <1>4. Forward
    BY <1>1, StayGoesForward
  <1>5. PICK result \in {"served", "failed"} : Finish(c, result)
    BY DEF Copy
  <1>6. QED
    BY <1>1, <1>3, <1>4, <1>5, FinishKeepsIInv DEF Result

\* What a call does at a route before its paid request.
LEMMA WalkersKeepIInv ==
  ASSUME IInv, NEW c \in Call, Gate(c) \/ Joined(c) \/ ProbeFails(c) \/ ProbePasses(c)
  PROVE  IInv'
  <1>1. TypeOK /\ WalkFits(c) /\ BillFits(c) /\ call[c] \in CallRecord /\ Saved \subseteq made
    BY DEF IInv, TypeOK
  <1>3. CASE Gate(c)
    <2>1. call[c].pc = "gate" /\ call[c].at \in 1 .. Routes + 1
      BY <1>1, <1>3 DEF Gate, CallRecord
    <2>2. CASE ReadCache(c, call[c].at) /\ call[c].at <= Routes
      BY <2>1, <2>2, RoutesAssumption, ReadCacheKeepsIInv
    <2>3. ASSUME UNCHANGED <<readiness, conn, store, closed, attempt, doubted>>
          PROVE  Forward
      BY <1>1, <2>3, StayGoesForward
    <2>4. CASE /\ call[c].at > Routes /\ Finish(c, "unavailable")
               /\ UNCHANGED <<readiness, conn, store, closed, attempt, doubted>>
      <3>1. Carries({})
        BY <1>1, <2>4, StayCarries
      <3>2. QED
        BY <2>1, <2>3, <2>4, <3>1, FinishKeepsIInv DEF Result
    <2>5. CASE /\ call[c].at = 1 /\ At(c, "joining")
               /\ UNCHANGED <<readiness, conn, store, closed, attempt, doubted>>
      <3>1. HasMoved(c, "joining", call[c].at, 0, call[c].result)
        BY <1>1, <2>5, AtMoves DEF Pc
      <3>2. QED
        BY <2>1, <2>3, <2>5, <3>1, UntriedKeepsIInv DEF Pc
    <2>6. QED
      BY <1>3, <2>2, <2>4, <2>5 DEF Gate
  <1>4. CASE Joined(c)
    <2>1. call[c].pc = "joining" /\ call[c].at = 1 /\ 1 \in Route
      BY <1>1, <1>4, RoutesAssumption DEF Joined, WalkFits
    <2>2. QED
      BY <1>4, <2>1, ReadCacheKeepsIInv DEF Joined
  <1>5. CASE ProbeFails(c)
    <2>1. call[c].pc \in {"joining", "probing"} /\ call[c].at \in Route
      BY <1>1, <1>5, RoutesAssumption DEF ProbeFails, WalkFits
    <2>2. Forward
      BY <1>1, <1>5, <2>1, FailureGoesForward, ClockAssumption DEF ProbeFails
    <2>3. QED
      BY <1>5, <2>1, <2>2, NextRouteKeepsIInv DEF ProbeFails
  <1>6. CASE ProbePasses(c)
    <2>1. call[c].pc = "probing" /\ call[c].at \in Route
            /\ UNCHANGED <<conn, store, closed>> /\ doubted' \subseteq doubted
      BY <1>1, <1>6 DEF ProbePasses, WalkFits
    <2>2. CASE Mark(call[c].at) /\ Ready(c, call[c].at)
      BY <1>1, <2>1, <2>2, MarkGoesForward, ReadyKeepsIInv
    <2>3. CASE NextRoute(c) /\ UNCHANGED <<readiness, attempt>>
      BY <1>1, <2>1, <2>3, StayGoesForward, NextRouteKeepsIInv
    <2>4. QED
      BY <1>6, <2>2, <2>3 DEF ProbePasses
  <1>7. QED
    BY <1>3, <1>4, <1>5, <1>6

\* What a failed request leaves behind takes nothing away.
LEMMA LeavingsCarry ==
  ASSUME IInv, NEW c \in Call, Leavings(c)
  PROVE  Carries({})
  <1>1. /\ TypeOK /\ Saved \subseteq made
        /\ call[c].dest \in Dir /\ Manifest(call[c].at, call[c].scene) \in Manifests
    BY ManifestIn DEF IInv, TypeOK, CallRecord
  <1>2. CASE UNCHANGED store
    BY <1>1, <1>2, StayCarries
  <1>3. CASE Make(call[c].dest) /\ UNCHANGED <<holds, newer>>
    BY <1>1, <1>3, MakeCarries
  <1>4. CASE /\ call[c].dest \notin made /\ Make(call[c].dest)
             /\ Write(call[c].dest, Manifest(call[c].at, call[c].scene))
    BY <1>1, <1>4, WriteCarries
  <1>5. QED
    BY <1>2, <1>3, <1>4 DEF Leavings

\* The paid request and what follows it.
LEMMA PayersKeepIInv ==
  ASSUME IInv, NEW c \in Call,
         \/ GenerateSucceeds(c) \/ GenerateRejected(c) \/ GenerateLimited(c)
         \/ GenerateAmbiguous(c) \/ Record(c) \/ Cancel(c)
  PROVE  IInv'
  <1> DEFINE at == call[c].at
  <1> DEFINE dest == call[c].dest
  <1> DEFINE manifest == Manifest(at, call[c].scene)
  <1>1. /\ TypeOK /\ WalkFits(c) /\ BillFits(c) /\ call[c] \in CallRecord
        /\ Saved \subseteq made /\ dest \in Dir /\ manifest \in Manifests
    BY ManifestIn DEF IInv, TypeOK, CallRecord
  <1>2. CASE Cancel(c)
    <2>1. /\ UNCHANGED <<readiness, conn, store, closed, attempt>> /\ doubted' \subseteq doubted
          /\ call[c].pc \notin {"idle", "generating"} /\ Finish(c, "failed")
      BY <1>2 DEF Cancel
    <2>2. Forward /\ Carries({})
      BY <1>1, <2>1, StayGoesForward, StayCarries
    <2>3. QED
      BY <2>1, <2>2, FinishKeepsIInv DEF Result
  <1>3. CASE Record(c)
    <2>1. /\ UNCHANGED <<readiness, conn, made, closed, attempt, doubted>>
          /\ call[c].pc = "recording"
          /\ \E result \in {"served", "failed"} : Finish(c, result)
      BY <1>3 DEF Record
    <2>2. holds[dest] = manifest
      <3>1. at \in Route /\ attempt[c][at] = "paid"
        BY <1>1, <2>1 DEF WalkFits, Here
      <3>2. QED
        BY <1>1, <3>1 DEF BillFits
    <2>3. Carries({})
      <3>1. CASE Write(dest, manifest)
        BY <1>1, <2>1, <2>2, <3>1, WriteCarries
      <3>2. CASE UNCHANGED <<holds, newer>>
        BY <1>1, <2>1, <3>2, StayCarries DEF store
      <3>3. QED
        BY <1>3, <3>1, <3>2 DEF Record
    <2>4. Forward
      BY <1>1, <2>1, StayGoesForward
    <2>5. QED
      BY <2>1, <2>3, <2>4, FinishKeepsIInv DEF Result
  <1>4. ASSUME call[c].pc = "generating" PROVE at \in Route
    BY <1>1, <1>4 DEF WalkFits
  <1>5. CASE GenerateAmbiguous(c)
    <2>1. /\ call[c].pc = "generating" /\ at \in Route /\ UNCHANGED <<conn, closed>>
          /\ attempt' = [attempt EXCEPT ![c][at] = "ambiguous"] /\ Finish(c, "failed")
      BY <1>4, <1>5 DEF GenerateAmbiguous, Bill
    <2>2. Forward
      BY <1>1, <1>5, <2>1, FailureGoesForward DEF GenerateAmbiguous
    <2>3. Carries({})
      BY <1>5, LeavingsCarry DEF GenerateAmbiguous
    <2>4. QED
      BY <2>1, <2>2, <2>3, FinishKeepsIInv DEF Result
  <1>6. CASE GenerateRejected(c) \/ GenerateLimited(c)
    <2>1. call[c].pc = "generating" /\ at \in Route /\ UNCHANGED <<conn, store, closed>>
            /\ attempt' = [attempt EXCEPT ![c][at] = "safe"] /\ NextRoute(c)
      BY <1>4, <1>6 DEF GenerateRejected, GenerateLimited, Bill
    <2>2. \E ticks \in Nat : MarkUnavailable(c, ticks)
      BY <1>6, ClockAssumption DEF GenerateRejected, GenerateLimited
    <2>3. Forward
      BY <1>1, <2>1, <2>2, FailureGoesForward
    <2>4. QED
      BY <2>1, <2>3, NextRouteKeepsIInv
  <1>7. CASE GenerateSucceeds(c)
    <2>1. /\ call[c].pc = "generating" /\ at \in Route /\ UNCHANGED <<conn, closed>>
          /\ dest \notin made /\ Make(dest) /\ Write(dest, manifest)
          /\ Forward /\ attempt' = [attempt EXCEPT ![c][at] = "paid"]
      BY <1>1, <1>4, <1>7, MarkGoesForward DEF GenerateSucceeds, Bill
    <2>2. HasMoved(c, "recording", at, 0, call[c].result)
      BY <1>1, <1>7, AtMoves DEF GenerateSucceeds, Pc
    <2>3. "paid" \in Outcome
      BY DEF Outcome
    <2>4. /\ attempt' \in [Call -> [Route -> Outcome]]
          /\ \A d \in Call : d # c => attempt'[d] = attempt[d]
          /\ \A r \in Route : attempt'[c][r] = IF r = at THEN "paid" ELSE attempt[c][r]
      BY <1>1, <2>1, <2>3, AttemptMoves
    <2>5. WalkFits(c)'
      BY <1>1, <2>1, <2>2, <2>4 DEF WalkFits, HasMoved, Here, Searching
    <2>6. Carries({}) /\ holds'[dest] = manifest
      BY <1>1, <2>1, WriteCarries, Written
    <2>7. CallStep(c)
      BY <2>1, <2>2, <2>4, <2>6, MoveIsStep
    <2>8. PaidStay
      BY <2>7 DEF CallStep
    <2>9. BillFits(c)'
      <3>1. \A r \in Route : attempt'[c][r] = "paid" =>
              attempt[c][r] = "paid" \/ holds'[dest] = Manifest(r, call[c].scene)
        BY <2>4, <2>6
      <3>2. QED
        BY <2>1, <2>2, <2>6, <2>8, <3>1, MoveFitsBill DEF Searching
    <2>10. (call[c].pc = "probing" => LookFits(c, call[c].at, call[c].epoch))'
      BY <2>2 DEF HasMoved
    <2>11. QED
      BY <2>1, <2>5, <2>7, <2>9, <2>10, StepOfOneCall
  <1>8. QED
    BY <1>2, <1>3, <1>5, <1>6, <1>7

\* Steps of no call in particular leave the calls and what they have paid as they are.
LEMMA SharedStep ==
  ASSUME IInv, Forward, Carries({}), UNCHANGED <<attempt, call>>,
         conn' \in [pc : {"none", "started", "heading"}, epoch : Nat], closed' \in BOOLEAN,
         (conn.pc = "heading" => LookFits(Connection, 1, conn.epoch))'
  PROVE  IInv'
  <1>1. TypeOK' /\ Saved' \subseteq made'
    BY DEF IInv, TypeOK, Forward, Carries
  <1>2. PaidStay
    BY DEF PaidStay
  <1>3. \A c \in Call : /\ WalkFits(c)' /\ BillFits(c)'
                        /\ (call[c].pc = "probing" =>
                              LookFits(c, call[c].at, call[c].epoch))'
    BY <1>2, OthersFit
  <1>4. \A c \in Call : CopyFits(c)'
    <2> SUFFICES ASSUME NEW c \in Call, call[c].pc = "copying"
                 PROVE  /\ call[c].dest \in made' \ Saved'
                        /\ \A b \in Call : b # c /\ call[b].pc = "copying"
                                          => call[b].dest # call[c].dest
      BY DEF CopyFits
    <2>1. CopyFits(c) /\ TypeOK
      BY DEF IInv
    <2>2. call[c].dest \in made \ Saved /\ call[c].dest \in Dir
      BY <2>1 DEF CopyFits, TypeOK
    <2>3. call[c].dest \in made' /\ holds'[call[c].dest] = Nothing
      BY <2>2 DEF Carries, Saved
    <2>4. QED
      BY <2>1, <2>3 DEF CopyFits, Saved
  <1>5. QED
    BY <1>1, <1>3, <1>4 DEF IInv, LooksFit

\* A bundle of another process lies in a directory of its own.
LEMMA OtherBundleKeepsIInv ==
  ASSUME IInv, NEW d \in Dir, OtherBundle(d)
  PROVE  IInv'
  <1>1. /\ UNCHANGED <<readiness, conn, call, closed, attempt, doubted>>
        /\ TypeOK /\ Saved \subseteq made /\ d \notin made /\ Make(d)
    BY DEF OtherBundle, IInv
  <1>2. PICK scene \in Manifests : Write(d, scene)
    BY DEF OtherBundle, Manifests
  <1>3. Carries({})
    BY <1>1, <1>2, WriteCarries
  <1>4. Forward
    BY <1>1, StayGoesForward
  <1>5. /\ conn' \in [pc : {"none", "started", "heading"}, epoch : Nat]
        /\ closed' \in BOOLEAN
    BY <1>1 DEF TypeOK
  <1>6. QED
    BY <1>1, <1>3, <1>4, <1>5, ConnectionFits, SharedStep

\* The shared preconnect bills nothing, and its looks are as old as their epochs.
LEMMA ConnectionKeepsIInv ==
  ASSUME IInv, Prepare \/ ConnectionLooks \/ ConnectionEnds \/ Tick
  PROVE  IInv'
  <1>1. /\ TypeOK /\ Saved \subseteq made /\ 1 \in Route
        /\ UNCHANGED <<store, attempt, call, closed>> /\ epoch' = epoch /\ epoch[1] \in Nat
    <2>1. UNCHANGED <<store, attempt, call, closed>> /\ epoch' = epoch
      BY DEF Prepare, ConnectionLooks, ConnectionEnds, Tick, Mark, readiness
    <2>2. TypeOK /\ 1 \in Route /\ Saved \subseteq made
      BY RoutesAssumption DEF IInv
    <2>3. QED
      BY <2>1, <2>2 DEF TypeOK
  <1>2. Forward
    <2>1. CASE Tick
      <3>1. Down(open) \in [Route -> Nat] /\ Down(warm) \in [Route -> Nat]
        BY <1>1 DEF TypeOK, Down
      <3>2. open' = Down(open) /\ warm' = Down(warm) /\ doubted' = doubted
        BY <2>1 DEF Tick
      <3>3. epoch \in [Route -> Nat] /\ doubted \subseteq Call \cup {Connection}
        BY <1>1 DEF TypeOK
      <3>4. \A r \in Route : epoch[r] <= epoch[r]
        BY <3>3
      <3>5. QED
        BY <1>1, <3>1, <3>2, <3>3, <3>4 DEF Forward
    <2>2. CASE UNCHANGED readiness /\ doubted' \subseteq doubted
      BY <1>1, <2>2, StayGoesForward
    <2>3. CASE Mark(1) /\ doubted' \subseteq doubted
      BY <1>1, <2>3, MarkGoesForward
    <2>4. QED
      BY <2>1, <2>2, <2>3 DEF Prepare, ConnectionLooks, ConnectionEnds
  <1>3. conn' \in [pc : {"none", "started", "heading"}, epoch : Nat]
    BY <1>1 DEF TypeOK, Prepare, ConnectionLooks, ConnectionEnds, Tick, NoConnection
  <1>4. (conn.pc = "heading" => LookFits(Connection, 1, conn.epoch))'
    <2>1. CASE conn' = conn
      BY <1>2, <2>1, ConnectionFits
    <2>2. CASE conn'.pc # "heading"
      BY <2>2
    <2>3. CASE conn' = [pc |-> "heading", epoch |-> epoch[1]] /\ doubted' = doubted \ {Connection}
      BY <1>1, <2>3 DEF LookFits
    <2>4. QED
      BY <1>1, <2>1, <2>2, <2>3
      DEF TypeOK, Prepare, ConnectionLooks, ConnectionEnds, Tick, NoConnection
  <1>5. closed' \in BOOLEAN
    BY <1>1 DEF TypeOK
  <1>6. Carries({})
    BY <1>1, StayCarries
  <1>7. QED
    BY <1>1, <1>2, <1>3, <1>4, <1>5, <1>6, SharedStep

\* A call that joined the preconnect is a call when it was cancelled with it.
LEMMA JoinerEnds ==
  ASSUME NEW r \in CallRecord
  PROVE  [r EXCEPT !.pc = "done", !.result = "failed"] \in CallRecord
  BY DEF CallRecord, Pc, Result

\* Closing cancels the preconnect and whoever has joined it.
LEMMA CloseKeepsIInv ==
  ASSUME IInv, Close
  PROVE  IInv'
  <1>1. /\ TypeOK /\ Saved \subseteq made /\ UNCHANGED <<readiness, store, attempt>>
        /\ closed' \in BOOLEAN /\ conn' = NoConnection /\ doubted' \subseteq doubted
    BY DEF IInv, Close
  <1>2. Forward /\ Carries({})
    BY <1>1, StayGoesForward, StayCarries
  <1>3. conn' \in [pc : {"none", "started", "heading"}, epoch : Nat] /\ conn'.pc = "none"
    BY <1>1 DEF NoConnection
  <1>4. \A c \in Call :
          \/ call'[c] = call[c]
          \/ /\ call[c].pc = "joining"
             /\ call'[c] = [call[c] EXCEPT !.pc = "done", !.result = "failed"]
    BY DEF Close
  <1>5. \A c \in Call : call'[c] \in CallRecord
    <2> SUFFICES ASSUME NEW c \in Call PROVE call'[c] \in CallRecord
      OBVIOUS
    <2>1. call[c] \in CallRecord
      BY <1>1 DEF TypeOK
    <2>2. [call[c] EXCEPT !.pc = "done", !.result = "failed"] \in CallRecord
      BY <2>1, JoinerEnds
    <2>3. QED
      BY <1>4, <2>1, <2>2
  <1>6. call' \in [Call -> CallRecord]
    BY <1>5 DEF Close
  <1>7. TypeOK' /\ Saved' \subseteq made'
    <2>1. attempt' \in [Call -> [Route -> Outcome]]
      BY <1>1 DEF TypeOK
    <2>2. QED
      BY <1>1, <1>2, <1>3, <1>6, <2>1 DEF TypeOK, Forward, Carries
  <1>8. \A c \in Call : /\ call'[c].scene = call[c].scene /\ call'[c].dest = call[c].dest
                        /\ call'[c].before = call[c].before /\ call'[c].missed = call[c].missed
                        /\ call'[c].at = call[c].at
                        /\ \/ call'[c] = call[c]
                           \/ call'[c].pc = "done" /\ call'[c].result = "failed"
    <2> SUFFICES ASSUME NEW c \in Call
                 PROVE  /\ call'[c].scene = call[c].scene /\ call'[c].dest = call[c].dest
                        /\ call'[c].before = call[c].before /\ call'[c].missed = call[c].missed
                        /\ call'[c].at = call[c].at
                        /\ \/ call'[c] = call[c]
                           \/ call'[c].pc = "done" /\ call'[c].result = "failed"
      OBVIOUS
    <2>1. call[c] \in CallRecord
      BY <1>1 DEF TypeOK
    <2> DEFINE r == [call[c] EXCEPT !.pc = "done", !.result = "failed"]
    <2>2. /\ r.scene = call[c].scene /\ r.dest = call[c].dest
          /\ r.before = call[c].before /\ r.missed = call[c].missed
          /\ r.at = call[c].at /\ r.pc = "done" /\ r.result = "failed"
      BY <2>1 DEF CallRecord
    <2>3. call'[c] = call[c] \/ call'[c] = r
      BY <1>4
    <2> HIDE DEF r
    <2>4. QED
      BY <2>2, <2>3
  <1>9. PaidStay
    BY <1>1, <1>8 DEF PaidStay
  <1>10. \A c \in Call : /\ WalkFits(c)' /\ BillFits(c)'
                         /\ (call[c].pc = "probing" =>
                               LookFits(c, call[c].at, call[c].epoch))'
    <2> SUFFICES ASSUME NEW c \in Call
                 PROVE  /\ WalkFits(c)' /\ BillFits(c)'
                        /\ (call[c].pc = "probing" =>
                              LookFits(c, call[c].at, call[c].epoch))'
      OBVIOUS
    <2>1. CASE call'[c] = call[c]
      BY <1>1, <1>2, <1>9, <2>1, OthersFit
    <2>2. CASE /\ call[c].pc = "joining"
               /\ call'[c] = [call[c] EXCEPT !.pc = "done", !.result = "failed"]
      <3>1. WalkFits(c) /\ BillFits(c) /\ call[c] \in CallRecord
        BY <1>1 DEF IInv, TypeOK
      <3>2. call'[c].pc = "done" /\ call'[c].result = "failed"
        BY <2>2, <3>1 DEF CallRecord
      <3>3. WalkFits(c)'
        <4>1. Here("joining") = {"none"} /\ "none" \in Here("done")
          BY DEF Here
        <4>2. QED
          BY <1>1, <1>8, <2>2, <3>1, <3>2, <4>1 DEF WalkFits, Searching
      <3>4. BillFits(c)'
        <4>1. attempt'[c] = attempt[c] /\ \A d \in Dir : holds'[d] = holds[d]
          BY <1>1 DEF store
        <4>2. \A r \in Route : attempt'[c][r] = "paid" =>
                holds'[call'[c].dest] = Manifest(r, call'[c].scene)
          BY <1>8, <3>1, <4>1 DEF BillFits, CallRecord
        <4>3. call'[c].before \subseteq Payers(call[c].scene)'
          BY <1>8, <1>9, PaidBefore DEF Payers
        <4>4. \A b \in call'[c].before :
                (\E r \in Route : attempt'[c][r] # "none")
                  => /\ call'[b].dest # call'[c].dest
                     /\ call'[b].dest \in call'[c].missed \/ Unmarked(b)'
          <5>1. \A b \in call[c].before :
                  call'[b].dest = call[b].dest /\ (Unmarked(b) => Unmarked(b)')
            BY <1>9, PaidBefore
          <5>2. QED
            BY <1>8, <3>1, <4>1, <5>1 DEF BillFits
        <4>5. QED
          BY <3>2, <4>2, <4>3, <4>4 DEF BillFits, Searching
      <3>5. QED
        BY <3>2, <3>3, <3>4
    <2>3. QED
      BY <1>4, <2>1, <2>2
  <1>11. \A c \in Call : CopyFits(c)'
    <2> SUFFICES ASSUME NEW c \in Call PROVE CopyFits(c)'
      OBVIOUS
    <2>1. CopyFits(c)
      BY DEF IInv
    <2>2. \A b \in Call : call'[b].pc = "copying" => call[b].pc = "copying"
      BY <1>8
    <2>3. made' = made /\ Saved' = Saved
      BY <1>1 DEF store, Saved
    <2>4. QED
      BY <1>8, <2>1, <2>2, <2>3 DEF CopyFits
  <1>12. (conn.pc = "heading" => LookFits(Connection, 1, conn.epoch))'
    BY <1>3
  <1>13. QED
    BY <1>7, <1>10, <1>11, <1>12 DEF IInv, LooksFit

\* Every step of a call, another process, the preconnect or the clock keeps it.
LEMMA NextKeepsIInv == IInv /\ [Next]_vars => IInv'
  <1> SUFFICES ASSUME IInv, [Next]_vars PROVE IInv'
    OBVIOUS
  <1>1. CASE UNCHANGED vars
    <2>1. UNCHANGED <<open, warm, epoch, conn, call, store, closed, attempt, doubted>>
      BY <1>1 DEF vars, readiness
    <2>2. TypeOK /\ Saved \subseteq made /\ Carries({}) /\ Forward
      BY <2>1, StayCarries, StayGoesForward DEF IInv, readiness
    <2>3. conn' \in [pc : {"none", "started", "heading"}, epoch : Nat] /\ closed' \in BOOLEAN
      BY <2>1, <2>2 DEF TypeOK
    <2>4. QED
      BY <2>1, <2>2, <2>3, ConnectionFits, SharedStep
  <1>2. ASSUME NEW c \in Call, BeginProbe(c) \/ BeginGenerate(c) \/ Walk(c) \/ Cancel(c)
        PROVE  IInv'
    BY <1>2, BeginKeepsIInv, ListKeepsIInv, ReadKeepsIInv, CopyKeepsIInv, WalkersKeepIInv,
       PayersKeepIInv DEF Walk
  <1>3. CASE Prepare \/ Shared \/ Close \/ Tick
    BY <1>3, ConnectionKeepsIInv, CloseKeepsIInv DEF Shared
  <1>4. ASSUME NEW d \in Dir, OtherBundle(d) PROVE IInv'
    BY <1>4, OtherBundleKeepsIInv
  <1>5. QED
    BY <1>1, <1>2, <1>3, <1>4 DEF Next

\* The inductive invariant holds in every reachable state of the router.
\* (provider_router.py:80)
THEOREM Inductive == Spec => []IInv
  BY InitIInv, NextKeepsIInv, PTL DEF Spec

----------------------------------------------------------------------------
(* What follows. *)

\* "Fail over before billing, never after an ambiguous paid request", for any number of
\* routes and callers: one route at most can have billed a call, and the call stands
\* there.  (provider_router.py:81, 193-261)
THEOREM OneBillAtMost == Spec => []OnePossibleBill
  <1>1. IInv => OnePossibleBill
    <2> SUFFICES ASSUME IInv, NEW c \in Call
                 PROVE  LET may == {r \in Route : attempt[c][r] \in Billable} IN
                        /\ Cardinality(may) <= 1
                        /\ \A r \in may : /\ call[c].at = r
                                          /\ call[c].pc \in {"generating", "recording", "done"}
                        /\ call[c].result = "unavailable" => may = {}
      BY DEF OnePossibleBill
    <2> DEFINE may == {r \in Route : attempt[c][r] \in Billable}
    <2>1. WalkFits(c) /\ call[c] \in CallRecord
      BY DEF IInv, TypeOK
    <2>2. \A r \in may : call[c].at = r /\ call[c].pc \in {"generating", "recording", "done"}
      <3> SUFFICES ASSUME NEW r \in Route, attempt[c][r] \in Billable
                   PROVE  call[c].at = r /\ call[c].pc \in {"generating", "recording", "done"}
        OBVIOUS
      <3>1. call[c].at \in Nat /\ r \in Nat
        BY <2>1, RoutesAssumption DEF CallRecord
      <3>2. call[c].at = r
        BY <2>1, <3>1 DEF WalkFits, Billable
      <3>3. QED
        BY <2>1, <3>2 DEF WalkFits, Billable, Here
    <2>3. Cardinality(may) <= 1
      <3>1. may \in SUBSET {call[c].at}
        BY <2>2
      <3>2. IsFiniteSet({call[c].at}) /\ Cardinality({call[c].at}) = 1
        BY FS_Singleton
      <3>3. QED
        BY <3>1, <3>2, FS_Subset
    <2>4. call[c].result = "unavailable" => may = {}
      BY <2>1, <2>2, RoutesAssumption DEF WalkFits, CallRecord
    <2>5. QED
      BY <2>2, <2>3, <2>4
  <1>2. QED
    BY <1>1, Inductive, PTL

\* A request repeated after an earlier one was paid uses a route only if its directory is
\* another one and its search never looked into the bundle that was paid for, because that
\* is behind Kept newer manifests or could not be read, or could not know it, because the
\* route that was paid does not write what was asked for.  So a directory that was paid for
\* is not paid for again, for any number of calls, scenes, directories and routes and any
\* bound on the search.  (provider_router.py:414-487)
THEOREM RetriesFindTheBundle == Spec => []RetryFindsTheBundle
  <1>1. IInv => RetryFindsTheBundle
    <2> SUFFICES ASSUME IInv, NEW c \in Call, NEW b \in call[c].before,
                        \E r \in Route : attempt[c][r] # "none"
                 PROVE  /\ call[b].dest # call[c].dest
                        /\ call[b].dest \in call[c].missed \/ Unmarked(b)
      BY DEF RetryFindsTheBundle
    <2>1. BillFits(c)
      BY DEF IInv
    <2>2. QED
      BY <2>1 DEF BillFits
  <1>2. QED
    BY <1>1, Inductive, PTL

\* The steps that move a call away from its probe are its own.
LEMMA ProbersMove ==
  ASSUME IInv, Next, NEW c \in Call, call[c].pc = "probing", call'[c] # call[c]
  PROVE  ProbeFails(c) \/ ProbePasses(c) \/ (Cancel(c) /\ UNCHANGED readiness)
  <1>1. TypeOK
    BY DEF IInv
  <1>2. ASSUME NEW d \in Call, BeginProbe(d) \/ BeginGenerate(d) \/ Walk(d) \/ Cancel(d)
        PROVE  d = c
    <2>1. \E r : call' = [call EXCEPT ![d] = r]
      <3>1. CASE BeginProbe(d) \/ BeginGenerate(d) \/ Cancel(d)
        BY <3>1 DEF BeginProbe, BeginGenerate, Cancel, At, Finish
      <3>2. CASE List(d) \/ Read(d) \/ Copy(d) \/ Record(d)
        BY <3>2 DEF List, Read, Copy, Record, At, Finish
      <3>3. CASE Gate(d) \/ Joined(d) \/ ProbeFails(d) \/ ProbePasses(d)
        BY <3>3 DEF Gate, Joined, ProbeFails, ProbePasses, ReadCache, Ready, At, Finish, NextRoute
      <3>4. CASE \/ GenerateSucceeds(d) \/ GenerateRejected(d) \/ GenerateLimited(d)
                 \/ GenerateAmbiguous(d)
        BY <3>4 DEF GenerateSucceeds, GenerateRejected, GenerateLimited, GenerateAmbiguous, At,
                    Finish, NextRoute
      <3>5. QED
        BY <1>2, <3>1, <3>2, <3>3, <3>4 DEF Walk
    <2>2. QED
      BY <1>1, <2>1 DEF TypeOK
  <1>3. ASSUME BeginProbe(c) \/ BeginGenerate(c) \/ Walk(c) \/ Cancel(c)
        PROVE  ProbeFails(c) \/ ProbePasses(c) \/ (Cancel(c) /\ UNCHANGED readiness)
    <2>1. ~(BeginProbe(c) \/ BeginGenerate(c))
      BY DEF BeginProbe, BeginGenerate
    <2>2. ~(List(c) \/ Read(c) \/ Copy(c) \/ Record(c))
      BY DEF List, Read, Copy, Record
    <2>3. ~(Gate(c) \/ Joined(c))
      BY DEF Gate, Joined
    <2>4. ~(GenerateSucceeds(c) \/ GenerateRejected(c) \/ GenerateLimited(c)
              \/ GenerateAmbiguous(c))
      BY DEF GenerateSucceeds, GenerateRejected, GenerateLimited, GenerateAmbiguous
    <2>5. QED
      BY <1>3, <2>1, <2>2, <2>3, <2>4 DEF Walk, Cancel
  <1>4. ~(Prepare \/ Shared \/ Tick)
    BY DEF Prepare, Shared, ConnectionLooks, ConnectionEnds, Tick
  <1>5. ~Close
    BY DEF Close
  <1>6. \A d \in Dir : ~OtherBundle(d)
    BY DEF OtherBundle
  <1>7. QED
    BY <1>2, <1>3, <1>4, <1>5, <1>6 DEF Next

\* A look that is older than its route's last failure changes nothing for the better: its
\* epoch is behind.  (provider_router.py:351-366)
THEOREM StaleProbesChangeNothing == Spec => StaleProbeChangesNothing
  <1> DEFINE Held ==
        /\ \A c \in Call \cap doubted :
             LET r == call[c].at IN
             call[c].pc = "probing" /\ call'[c] # call[c]
               => /\ warm'[r] <= warm[r] /\ (open[r] > 0 => open'[r] > 0)
                  /\ call'[c].pc # "generating"
        /\ Connection \in doubted /\ conn.pc = "heading" /\ conn'.pc = "none"
             => warm'[1] <= warm[1] /\ (open[1] > 0 => open'[1] > 0)
  <1>1. IInv /\ Next => Held
    <2> SUFFICES ASSUME IInv, Next PROVE Held
      OBVIOUS
    <2>1. ASSUME NEW c \in Call, c \in doubted, call[c].pc = "probing", call'[c] # call[c]
          PROVE  /\ warm'[call[c].at] <= warm[call[c].at]
                 /\ open[call[c].at] > 0 => open'[call[c].at] > 0
                 /\ call'[c].pc # "generating"
      <3> DEFINE r == call[c].at
      <3>1. TypeOK /\ WalkFits(c) /\ r \in Route /\ call[c].epoch < epoch[r]
              /\ call[c].epoch \in Nat /\ epoch[r] \in Nat
        BY <2>1 DEF IInv, LooksFit, LookFits, WalkFits, TypeOK, CallRecord
      <3>2. warm[r] \in Nat /\ open[r] \in Nat
        BY <3>1 DEF TypeOK
      <3>3. CASE ProbeFails(c)
        <4>1. warm'[r] = 0 /\ open'[r] = Cooldown
          BY <3>1, <3>3 DEF ProbeFails, MarkUnavailable, Failed, TypeOK
        <4>2. call'[c].pc = "gate"
          BY <3>1, <3>3, NextRouteMoves DEF ProbeFails, HasMoved
        <4>3. QED
          BY <3>2, <4>1, <4>2, ClockAssumption
      <3>4. CASE ProbePasses(c)
        <4>1. ~MayMark(r, call[c].epoch)
          BY <3>1 DEF MayMark
        <4>2. NextRoute(c) /\ UNCHANGED readiness
          BY <3>4, <4>1 DEF ProbePasses
        <4>3. call'[c].pc = "gate"
          BY <3>1, <4>2, NextRouteMoves DEF HasMoved
        <4>4. QED
          BY <3>2, <4>2, <4>3 DEF readiness
      <3>5. CASE Cancel(c) /\ UNCHANGED readiness
        <4>1. call'[c].pc = "done"
          BY <3>1, <3>5, FinishMoves DEF Cancel, HasMoved, Result
        <4>2. QED
          BY <3>2, <3>5, <4>1 DEF readiness
      <3>6. QED
        BY <2>1, <3>3, <3>4, <3>5, ProbersMove
    <2>2. ASSUME Connection \in doubted, conn.pc = "heading", conn'.pc = "none"
          PROVE  warm'[1] <= warm[1] /\ (open[1] > 0 => open'[1] > 0)
      <3>1. TypeOK /\ conn.epoch < epoch[1] /\ conn.epoch \in Nat /\ epoch[1] \in Nat
              /\ warm[1] \in Nat /\ open[1] \in Nat
        <4>1. TypeOK /\ LooksFit /\ 1 \in Route
          BY RoutesAssumption DEF IInv
        <4>2. LookFits(Connection, 1, conn.epoch)
          BY <2>2, <4>1 DEF LooksFit
        <4>3. conn.epoch < epoch[1]
          BY <2>2, <4>2 DEF LookFits
        <4>4. QED
          BY <4>1, <4>3 DEF TypeOK
      <3>2. ~MayMark(1, conn.epoch)
        BY <3>1 DEF MayMark
      <3>3. UNCHANGED readiness
        <4>1. CASE ConnectionEnds
          BY <3>2, <4>1 DEF ConnectionEnds
        <4>2. CASE Close
          BY <4>2 DEF Close
        <4>3. ~(Prepare \/ ConnectionLooks \/ Tick)
          BY <2>2 DEF Prepare, Connecting, ConnectionLooks, Tick
        <4>4. ASSUME NEW d \in Call
              PROVE  ~(BeginProbe(d) \/ BeginGenerate(d) \/ Walk(d) \/ Cancel(d))
          <5>1. ~(BeginProbe(d) \/ BeginGenerate(d) \/ Cancel(d))
            BY <2>2 DEF BeginProbe, BeginGenerate, Cancel
          <5>2. ~(List(d) \/ Read(d) \/ Copy(d) \/ Record(d))
            BY <2>2 DEF List, Read, Copy, Record
          <5>3. ~(Gate(d) \/ Joined(d) \/ ProbeFails(d) \/ ProbePasses(d))
            BY <2>2 DEF Gate, Joined, ProbeFails, ProbePasses, ReadCache
          <5>4. ~(GenerateSucceeds(d) \/ GenerateRejected(d) \/ GenerateLimited(d)
                    \/ GenerateAmbiguous(d))
            BY <2>2 DEF GenerateSucceeds, GenerateRejected, GenerateLimited, GenerateAmbiguous
          <5>5. QED
            BY <5>1, <5>2, <5>3, <5>4 DEF Walk
        <4>5. ASSUME NEW d \in Dir PROVE ~OtherBundle(d)
          BY <2>2 DEF OtherBundle
        <4>6. QED
          BY <4>1, <4>2, <4>3, <4>4, <4>5 DEF Next, Shared
      <3>4. QED
        BY <3>1, <3>3 DEF readiness
    <2>3. QED
      BY <2>1, <2>2
  <1>2. QED
    BY <1>1, Inductive, PTL DEF Spec, StaleProbeChangesNothing
============================================================================
