------------------------ MODULE StoreAndReaderProofs ------------------------
(***************************************************************************)
(* What holds of the two ends of a reading.  Of the story pack store: for  *)
(* any processes, packs, requests, concurrent operations, and any number   *)
(* of crashes and damaged files.  Of the reader, from the transcript to    *)
(* the word shown: for any pages, texts, transcripts and queue size, and   *)
(* any number of resets, page turns, broken connections and failed         *)
(* requests.                                                               *)
(***************************************************************************)
EXTENDS StoryPackStore, ReaderSession, WellFoundedInduction, TLAPS

-----------------------------------------------------------------------------
(* The pack the index is rebuilt with exists.                              *)

\* A set of naturals that is not empty has a least element.
LEMMA LeastNatural ==
  ASSUME NEW T \in SUBSET Nat, T # {}
  PROVE  \E x \in T : \A y \in T : x <= y
  <1> DEFINE R == {ss \in Nat \X Nat : ss[1] < ss[2]}
  <1>1. IsWellFoundedOn(R, Nat)
    BY NatLessThanWellFounded DEF OpToRel
  <1>2. \A x, y \in Nat : <<y, x>> \in R <=> y < x
    OBVIOUS
  <1> HIDE DEF R
  <1>3. PICK x \in T : \A y \in T : ~(<<y, x>> \in R)
    BY <1>1, WFMin
  <1>4. ASSUME NEW y \in T PROVE x <= y
    <2>1. x \in Nat /\ y \in Nat /\ ~(y < x)
      BY <1>2, <1>3
    <2>2. QED
      BY <2>1
  <1>5. QED
    BY <1>4

\* Of packs written by now one was written last.
LEMMA NewestExists ==
  ASSUME TypeOK, ClockIsAhead, NEW candidates \in SUBSET Pack, candidates # {}
  PROVE  \E p \in candidates : \A other \in candidates : written[other] <= written[p]
  <1> DEFINE Age(p) == clock - written[p]
  <1> DEFINE T == {Age(p) : p \in candidates}
  <1>1. \A p \in candidates : written[p] \in Nat /\ Age(p) \in Nat
    BY DEF TypeOK, ClockIsAhead
  <1>2. T \in SUBSET Nat /\ T # {}
    BY <1>1
  <1>3. PICK age \in T : \A other \in T : age <= other
    BY <1>2, LeastNatural
  <1>4. PICK p \in candidates : age = Age(p)
    BY <1>3
  <1>5. \A other \in candidates : Age(p) <= Age(other)
    BY <1>3, <1>4
  <1>6. \A other \in candidates : written[other] <= written[p]
    BY <1>1, <1>5 DEF TypeOK
  <1>7. QED
    BY <1>6

\* A process that starts indexes a whole pack for every request that has one.
LEMMA RebuiltFits ==
  ASSUME TypeOK, ClockIsAhead, NEW r \in Request
  PROVE  /\ Rebuilt \in [Request -> Pack \cup {NoPack}]
         /\ Rebuilt[r] # NoPack => Rebuilt[r] \in Whole /\ RequestOf[Rebuilt[r]] = r
         /\ \A p \in Whole : RequestOf[p] = r => Rebuilt[r] # NoPack
  <1> DEFINE Candidates(q) == {p \in Whole : RequestOf[p] = q}
  <1> DEFINE Newest(q) == CHOOSE p \in Candidates(q) :
                            \A other \in Candidates(q) : written[other] <= written[p]
  <1>1. \A q \in Request : Candidates(q) # {} => Newest(q) \in Candidates(q)
    <2> SUFFICES ASSUME NEW q \in Request, Candidates(q) # {}
                 PROVE  Newest(q) \in Candidates(q)
      OBVIOUS
    <2>1. Candidates(q) \in SUBSET Pack
      BY DEF Whole
    <2> HIDE DEF Candidates
    <2>2. \E p \in Candidates(q) : \A other \in Candidates(q) : written[other] <= written[p]
      BY <2>1, NewestExists
    <2>3. QED
      BY <2>2
  <1>2. \A q \in Request : Rebuilt[q] = IF Candidates(q) = {} THEN NoPack ELSE Newest(q)
    BY DEF Rebuilt
  <1>3. Whole \in SUBSET Pack /\ NoPack \notin Pack
    BY StoreAssumption DEF Whole
  <1>4. Rebuilt \in [Request -> Pack \cup {NoPack}]
    <2>1. \A q \in Request : Rebuilt[q] \in Pack \cup {NoPack}
      BY <1>1, <1>2, <1>3
    <2>2. Rebuilt = [q \in Request |-> Rebuilt[q]]
      BY DEF Rebuilt
    <2>3. QED
      BY <2>1, <2>2
  <1>5. QED
    BY <1>1, <1>2, <1>3, <1>4

-----------------------------------------------------------------------------
(* The inductive invariant.                                                *)

\* An empty directory and processes that have just started satisfy it.
LEMMA InitIInv == Init => IInv
  <1> SUFFICES ASSUME Init PROVE IInv
    OBVIOUS
  <1>1. TypeOK
    BY StoreAssumption DEF Init, TypeOK, Idle, NoIndex, CallRecord
  <1>2. LatestIsStored /\ ThreadsFit /\ IndexFits /\ DamageIsKnown /\ ReturnedIsWritten
          /\ ClockIsAhead /\ ReturnedIsIndexed
    BY DEF Init, LatestIsStored, ThreadsFit, Fits, IndexFits, DamageIsKnown,
           ReturnedIsWritten, ClockIsAhead, ReturnedIsIndexed, Idle, NoIndex
  <1>3. QED
    BY <1>1, <1>2 DEF IInv

\* What the steps make of the record of a call.
LEMMA RecordMoves ==
  ASSUME NEW r \in CallRecord
  PROVE  /\ \A k \in {"waits", "holds", "returned", "gone"}, n \in 0 .. 3 :
              [r EXCEPT !.caller = k, !.step = n] \in CallRecord
         /\ \A k \in {"new", "waits", "holds", "returned", "gone"}, n \in 0 .. 3,
              p \in Pack \cup {NoPack} :
              [r EXCEPT !.step = n, !.hand = p, !.caller = k] \in CallRecord
         /\ \A n \in 0 .. 3, p \in Pack \cup {NoPack} :
              [r EXCEPT !.step = n, !.hand = p] \in CallRecord
  BY DEF CallRecord

\* Threads keep fitting: those left alone, because packs stay written and requests
\* stay spoiled, and the one that moved, because its record does.
LEMMA OneCallMoves ==
  ASSUME TypeOK, ThreadsFit, NEW c \in Call, NEW r \in CallRecord,
         call' = [call EXCEPT ![c] = r], Fits(r)',
         \A p \in Pack : written[p] # 0 => written'[p] # 0,
         spoiled \subseteq spoiled'
  PROVE  call' \in [Call -> CallRecord] /\ ThreadsFit'
  <1>1. call' \in [Call -> CallRecord]
    BY DEF TypeOK
  <1>2. ASSUME NEW d \in Call, d # c PROVE Fits(call[d])'
    <2>1. call'[d] = call[d] /\ Fits(call[d])
      BY <1>2 DEF TypeOK, ThreadsFit
    <2>2. QED
      BY <2>1 DEF Fits
  <1>3. call'[c] = r
    BY DEF TypeOK
  <1>4. QED
    BY <1>1, <1>2, <1>3 DEF ThreadsFit

\* What the callers do leaves disk and indexes alone.
LEMMA CallersKeepIInv ==
  ASSUME IInv, NEW c \in Call,
         \/ Enter(c) \/ Cancel(c)
         \/ \E o \in Process : \/ \E p \in Pack : Begin(c, o, "save", p)
                               \/ \E r \in Request : Begin(c, o, "find", r)
                               \/ Begin(c, o, "latest", NoPack)
  PROVE  IInv'
  <1>1. UNCHANGED <<written, damaged, clock, latest, running, index, returned, spoiled, faults>>
    BY DEF Enter, Cancel, Begin, disk
  <1>2. TypeOK /\ ThreadsFit /\ call[c] \in CallRecord /\ Fits(call[c])
    BY DEF IInv, TypeOK, ThreadsFit
  <1>3. PICK r \in CallRecord : call' = [call EXCEPT ![c] = r] /\ Fits(r)
    <2>1. CASE Enter(c)
      <3> DEFINE r == [call[c] EXCEPT !.caller = "holds", !.step = 1]
      <3>1. r \in CallRecord
        <4>1. \A k \in {"waits", "holds", "returned", "gone"}, n \in 0 .. 3 :
                [call[c] EXCEPT !.caller = k, !.step = n] \in CallRecord
          BY <1>2, RecordMoves
        <4>2. 1 \in 0 .. 3
          OBVIOUS
        <4>3. QED
          BY <4>1, <4>2
      <3>2. call' = [call EXCEPT ![c] = r]
        BY <2>1 DEF Enter
      <3>3. Fits(r)
        BY <1>2 DEF Fits, CallRecord
      <3>4. QED
        BY <3>1, <3>2, <3>3
    <2>2. CASE Cancel(c)
      <3>1. PICK n \in {0, call[c].step} :
              call' = [call EXCEPT ![c].caller = "gone", ![c].step = n]
        BY <2>2 DEF Cancel
      <3> DEFINE r == [call[c] EXCEPT !.caller = "gone", !.step = n]
      <3>2. n \in 0 .. 3
        BY <1>2, <3>1 DEF CallRecord
      <3>3. r \in CallRecord /\ call' = [call EXCEPT ![c] = r]
        BY <1>2, <3>1, <3>2, RecordMoves
      <3>4. Fits(r)
        BY <1>2, <3>1 DEF Fits, CallRecord
      <3>5. QED
        BY <3>3, <3>4
    <2>3. ASSUME NEW o \in Process, NEW op \in {"save", "find", "latest"},
                 NEW arg \in Pack \cup Request \cup {NoPack},
                 op = "save" => arg \in Pack, op = "find" => arg \in Request,
                 Begin(c, o, op, arg)
          PROVE  \E r \in CallRecord : call' = [call EXCEPT ![c] = r] /\ Fits(r)
      <3> DEFINE r == [Idle EXCEPT !.process = o, !.op = op, !.arg = arg, !.caller = "waits"]
      <3>1. Idle \in CallRecord
        BY DEF Idle, CallRecord
      <3>2. r \in CallRecord
        BY <3>1 DEF CallRecord
      <3>3. r.op = op /\ r.arg = arg /\ r.step = 0 /\ r.process = o
        BY DEF Idle
      <3>4. call' = [call EXCEPT ![c] = r]
        BY <2>3 DEF Begin
      <3> HIDE DEF r
      <3>5. Fits(r)
        BY <2>3, <3>3 DEF Fits
      <3>6. QED
        BY <3>2, <3>4, <3>5
    <2>4. QED
      BY <2>1, <2>2, <2>3
  <1>4. Fits(r)'
    BY <1>1, <1>3 DEF Fits
  <1>5. call' \in [Call -> CallRecord] /\ ThreadsFit'
    BY <1>1, <1>2, <1>3, <1>4, OneCallMoves
  <1>6. lock' \in [Process -> Call \cup {Free}]
    BY <1>2 DEF Enter, Cancel, Begin, TypeOK
  <1>7. TypeOK'
    BY <1>1, <1>2, <1>5, <1>6 DEF TypeOK
  <1>8. LatestIsStored' /\ IndexFits' /\ DamageIsKnown' /\ ReturnedIsWritten' /\ ClockIsAhead'
          /\ ReturnedIsIndexed'
    BY <1>1 DEF IInv, LatestIsStored, IndexFits, DamageIsKnown, ReturnedIsWritten,
                ClockIsAhead, ReturnedIsIndexed
  <1>9. QED
    BY <1>5, <1>7, <1>8 DEF IInv

\* A call whose thread is through fits, whatever its thread did.
LEMMA CallOver ==
  ASSUME TypeOK, ThreadsFit, NEW c \in Call, NEW p \in Pack \cup {NoPack}, Over(c, p),
         \A q \in Pack : written[q] # 0 => written'[q] # 0,
         spoiled \subseteq spoiled'
  PROVE  /\ call' \in [Call -> CallRecord] /\ ThreadsFit'
         /\ lock' \in [Process -> Call \cup {Free}]
  <1>1. call[c] \in CallRecord /\ Fits(call[c])
    BY DEF TypeOK, ThreadsFit
  <1>2. PICK r \in CallRecord :
          /\ call' = [call EXCEPT ![c] = r]
          /\ r.op = call[c].op /\ r.arg = call[c].arg /\ r.step = 0
          /\ r.process = call[c].process
    <2> DEFINE k == IF call[c].caller = "holds" THEN "returned" ELSE call[c].caller
    <2> DEFINE moved == [call[c] EXCEPT !.step = 0, !.hand = p, !.caller = k]
    <2>1. k \in {"new", "waits", "holds", "returned", "gone"} /\ 0 \in 0 .. 3
      BY <1>1 DEF CallRecord
    <2>2. call' = [call EXCEPT ![c] = moved]
      BY DEF Over
    <2>3. /\ moved.op = call[c].op /\ moved.arg = call[c].arg /\ moved.step = 0
          /\ moved.process = call[c].process
      BY <1>1 DEF CallRecord
    <2>4. moved \in CallRecord
      <3> HIDE DEF k
      <3>1. \A j \in {"new", "waits", "holds", "returned", "gone"}, n \in 0 .. 3,
                q \in Pack \cup {NoPack} :
               [call[c] EXCEPT !.step = n, !.hand = q, !.caller = j] \in CallRecord
        BY <1>1, RecordMoves
      <3>2. QED
        BY <2>1, <3>1
    <2>5. QED
      BY <2>2, <2>3, <2>4
  <1>3. lock' \in [Process -> Call \cup {Free}]
    BY DEF Over, TypeOK
  <1>4. Fits(r)'
    BY <1>1, <1>2 DEF Fits
  <1>5. QED
    BY <1>2, <1>3, <1>4, OneCallMoves

\* A call whose thread goes on fits if it has got what its next step needs.
LEMMA CallGoesOn ==
  ASSUME TypeOK, ThreadsFit, NEW c \in Call, NEW p \in Pack \cup {NoPack}, GoOn(c, p),
         call[c].step < 3,
         \A q \in Pack : written[q] # 0 => written'[q] # 0,
         spoiled \subseteq spoiled',
         call[c].op = "save" => written'[call[c].arg] # 0,
         call[c].op = "find" =>
           /\ call[c].step = 1 => /\ p \in Pack /\ RequestOf[p] = call[c].arg
                                 /\ written'[p] # 0
           /\ call[c].step = 2 => call[c].arg \in spoiled'
  PROVE  /\ call' \in [Call -> CallRecord] /\ ThreadsFit'
         /\ lock' \in [Process -> Call \cup {Free}]
  <1>1. call[c] \in CallRecord /\ Fits(call[c]) /\ call[c].step \in 0 .. 3
    BY DEF TypeOK, ThreadsFit, CallRecord
  <1>2. PICK r \in CallRecord :
          /\ call' = [call EXCEPT ![c] = r]
          /\ r.op = call[c].op /\ r.arg = call[c].arg /\ r.hand = p
          /\ r.step = call[c].step + 1 /\ r.process = call[c].process
    <2> DEFINE moved == [call[c] EXCEPT !.step = call[c].step + 1, !.hand = p]
    <2>1. call[c].step + 1 \in 0 .. 3
      BY <1>1
    <2>2. moved \in CallRecord
      BY <1>1, <2>1, RecordMoves
    <2>3. call' = [call EXCEPT ![c] = moved]
      BY DEF GoOn
    <2>4. /\ moved.op = call[c].op /\ moved.arg = call[c].arg /\ moved.hand = p
          /\ moved.step = call[c].step + 1 /\ moved.process = call[c].process
      BY <1>1 DEF CallRecord
    <2>5. QED
      BY <2>2, <2>3, <2>4
  <1>3. lock' \in [Process -> Call \cup {Free}]
    BY DEF GoOn, TypeOK
  <1>4. Fits(r)'
    BY <1>1, <1>2 DEF Fits
  <1>5. QED
    BY <1>2, <1>3, <1>4, OneCallMoves

\* Threads that leave the disk and the indexes alone.
LEMMA ReadersKeepIInv ==
  ASSUME IInv, NEW c \in Call,
         WriteFails(c) \/ LookUp(c) \/ ReadCandidate(c) \/ ReadPointer(c) \/ ReadLatest(c)
  PROVE  IInv'
  <1>1. UNCHANGED <<written, damaged, clock, latest, running, index, returned, spoiled>>
    BY DEF WriteFails, LookUp, ReadCandidate, ReadPointer, ReadLatest, disk
  <1>2. /\ TypeOK /\ ThreadsFit /\ call[c] \in CallRecord /\ Fits(call[c])
        /\ latest \in Pack \cup {NoPack} /\ faults' \in Nat
        /\ call[c].hand \in Pack \cup {NoPack}
    BY DEF IInv, TypeOK, ThreadsFit, WriteFails, LookUp, ReadCandidate, ReadPointer, ReadLatest,
           Fault, CallRecord
  <1>3. /\ call' \in [Call -> CallRecord] /\ ThreadsFit'
        /\ lock' \in [Process -> Call \cup {Free}]
    <2>1. CASE WriteFails(c)
      BY <1>1, <1>2, <2>1, CallOver DEF WriteFails
    <2>2. CASE LookUp(c)
      <3> DEFINE found == index[call[c].process][call[c].arg]
      <3>1. call[c].op = "find" /\ call[c].step = 1 /\ call[c].arg \in Request
        BY <1>2, <2>2 DEF LookUp, Fits
      <3>2. CASE found = NoPack
        BY <1>1, <1>2, <2>2, <3>2, CallOver DEF LookUp
      <3>3. CASE found # NoPack
        <4>1. call[c].process \in Process
          BY <1>2, <3>1 DEF Fits
        <4>2. found \in Pack /\ RequestOf[found] = call[c].arg /\ written[found] # 0
          BY <3>1, <3>3, <4>1 DEF IInv, TypeOK, IndexFits
        <4>3. GoOn(c, found)
          BY <2>2, <3>3 DEF LookUp
        <4>4. QED
          BY <1>1, <1>2, <3>1, <4>2, <4>3, CallGoesOn
      <3>4. QED
        BY <3>2, <3>3
    <2>3. CASE ReadCandidate(c)
      <3> DEFINE p == call[c].hand
      <3>1. call[c].op = "find" /\ call[c].step = 2 /\ p \in Pack
              /\ RequestOf[p] = call[c].arg /\ written[p] # 0
        BY <1>2, <2>3 DEF ReadCandidate, Fits
      <3>2. CASE p \in Whole
        BY <1>1, <1>2, <2>3, <3>2, CallOver DEF ReadCandidate
      <3>3. CASE p \notin Whole
        <4>1. call[c].arg \in spoiled
          BY <3>1, <3>3 DEF IInv, DamageIsKnown, Whole
        <4>2. QED
          BY <1>1, <1>2, <2>3, <3>1, <3>3, <4>1, CallGoesOn DEF ReadCandidate
      <3>4. QED
        BY <3>2, <3>3
    <2>4. CASE ReadPointer(c)
      BY <1>1, <1>2, <2>4, CallOver, CallGoesOn DEF ReadPointer
    <2>5. CASE ReadLatest(c)
      BY <1>1, <1>2, <2>5, CallOver DEF ReadLatest
    <2>6. QED
      BY <2>1, <2>2, <2>3, <2>4, <2>5
  <1>4. TypeOK'
    BY <1>1, <1>2, <1>3 DEF TypeOK
  <1>5. LatestIsStored' /\ IndexFits' /\ DamageIsKnown' /\ ReturnedIsWritten' /\ ClockIsAhead'
          /\ ReturnedIsIndexed'
    BY <1>1 DEF IInv, LatestIsStored, IndexFits, DamageIsKnown, ReturnedIsWritten,
                ClockIsAhead, ReturnedIsIndexed
  <1>6. QED
    BY <1>3, <1>4, <1>5 DEF IInv

\* A save writes the pack, then points at it, then indexes it.
LEMMA SaveOrder ==
  ASSUME NEW c \in Call, NEW what, Saves(c, what)
  PROVE  /\ call[c].op = "save" /\ call[c].step \in 1 .. 3
         /\ what = "pack" => call[c].step = 1
         /\ what = "latest" => call[c].step = 2
         /\ what = "index" => call[c].step = 3
  <1>1. call[c].op = "save" /\ call[c].step \in {1, 2, 3} /\ SaveSteps[call[c].step] = what
    BY DEF Saves
  <1>2. SaveSteps[1] = "pack" /\ SaveSteps[2] = "latest" /\ SaveSteps[3] = "index"
    BY DEF SaveSteps
  <1>3. QED
    BY <1>1, <1>2

\* The pack is there from then on, and is not damaged.
LEMMA WritePackKeepsIInv ==
  ASSUME IInv, NEW c \in Call, WritePack(c)
  PROVE  IInv'
  <1> DEFINE p == call[c].arg
  <1>1. TypeOK /\ ThreadsFit /\ call[c].op = "save" /\ call[c].step = 1 /\ p \in Pack
    BY SaveOrder DEF IInv, ThreadsFit, Fits, WritePack
  <1>2. /\ written' = [written EXCEPT ![p] = clock'] /\ clock' = clock + 1
        /\ clock \in Nat /\ written \in [Pack -> Nat]
        /\ \A q \in Pack : written[q] <= clock
    BY <1>1 DEF WritePack, IInv, TypeOK, ClockIsAhead
  <1>3. /\ written' \in [Pack -> Nat] /\ clock' \in Nat /\ ClockIsAhead'
        /\ \A q \in Pack : written[q] # 0 => written'[q] # 0
        /\ written'[p] # 0
    BY <1>1, <1>2 DEF ClockIsAhead
  <1>4. UNCHANGED <<latest, running, index, returned, spoiled, faults>>
    BY DEF WritePack
  <1>5. NoPack \in Pack \cup {NoPack} /\ GoOn(c, NoPack)
    BY DEF WritePack
  <1>6. call' \in [Call -> CallRecord] /\ ThreadsFit' /\ lock' \in [Process -> Call \cup {Free}]
    BY <1>1, <1>3, <1>4, <1>5, CallGoesOn
  <1>7. TypeOK' /\ DamageIsKnown'
    BY <1>3, <1>4, <1>6 DEF WritePack, IInv, TypeOK, DamageIsKnown
  <1>8. LatestIsStored' /\ ReturnedIsWritten' /\ ReturnedIsIndexed'
    BY <1>1, <1>3, <1>4 DEF IInv, TypeOK, LatestIsStored, ReturnedIsWritten, ReturnedIsIndexed
  <1>9. IndexFits'
    BY <1>1, <1>3, <1>4 DEF IInv, TypeOK, IndexFits
  <1>10. QED
    BY <1>3, <1>6, <1>7, <1>8, <1>9 DEF IInv

\* The pointer moves to a pack that has been written.
LEMMA PointLatestKeepsIInv ==
  ASSUME IInv, NEW c \in Call, PointLatest(c)
  PROVE  IInv'
  <1> DEFINE p == call[c].arg
  <1>1. /\ TypeOK /\ ThreadsFit /\ call[c].op = "save" /\ call[c].step = 2 /\ p \in Pack
        /\ written[p] # 0
    BY SaveOrder DEF IInv, ThreadsFit, Fits, PointLatest
  <1>2. UNCHANGED <<written, damaged, clock, running, index, returned, spoiled, faults>>
    BY DEF PointLatest
  <1>3. NoPack \in Pack \cup {NoPack} /\ GoOn(c, NoPack) /\ latest' = p
    BY DEF PointLatest
  <1>4. call' \in [Call -> CallRecord] /\ ThreadsFit' /\ lock' \in [Process -> Call \cup {Free}]
    BY <1>1, <1>2, <1>3, CallGoesOn
  <1>5. TypeOK' /\ LatestIsStored'
    BY <1>1, <1>2, <1>3, <1>4 DEF TypeOK, LatestIsStored
  <1>6. IndexFits' /\ DamageIsKnown' /\ ReturnedIsWritten' /\ ClockIsAhead' /\ ReturnedIsIndexed'
    BY <1>2 DEF IInv, IndexFits, DamageIsKnown, ReturnedIsWritten, ClockIsAhead,
                ReturnedIsIndexed
  <1>7. QED
    BY <1>4, <1>5, <1>6 DEF IInv

\* The index gets a pack that has been written, for the request it answers.
LEMMA PutIndexKeepsIInv ==
  ASSUME IInv, NEW c \in Call, PutIndex(c)
  PROVE  IInv'
  <1> DEFINE o == call[c].process
  <1> DEFINE p == call[c].arg
  <1>1. /\ TypeOK /\ ThreadsFit /\ call[c].op = "save" /\ call[c].step = 3 /\ p \in Pack
        /\ written[p] # 0 /\ o \in Process /\ p # NoPack
    BY SaveOrder, StoreAssumption DEF IInv, ThreadsFit, Fits, PutIndex
  <1>2. UNCHANGED <<written, damaged, clock, latest, running, spoiled, faults>>
    BY DEF PutIndex, disk
  <1>3. p \in Pack \cup {NoPack} /\ Over(c, p)
    BY <1>1 DEF PutIndex
  <1>4. call' \in [Call -> CallRecord] /\ ThreadsFit' /\ lock' \in [Process -> Call \cup {Free}]
    BY <1>1, <1>2, <1>3, CallOver
  <1>5. /\ index' \in [Process -> [Request -> Pack \cup {NoPack}]]
        /\ \A q \in Process, r \in Request :
             index'[q][r] = IF q = o /\ RequestOf[p] = r THEN p ELSE index[q][r]
    BY <1>1 DEF PutIndex, TypeOK
  <1>6. /\ returned' \in [Process -> SUBSET Pack]
        /\ \A q \in Process : returned'[q] \subseteq returned[q] \cup (IF q = o THEN {p} ELSE {})
    BY <1>1 DEF PutIndex, TypeOK
  <1>7. TypeOK'
    BY <1>1, <1>2, <1>4, <1>5, <1>6 DEF TypeOK
  <1>8. IndexFits'
    BY <1>1, <1>2, <1>5 DEF IInv, IndexFits
  <1>9. ReturnedIsWritten'
    BY <1>1, <1>2, <1>6 DEF IInv, ReturnedIsWritten
  <1>10. ReturnedIsIndexed'
    <2> SUFFICES ASSUME NEW q \in running, NEW stored \in returned'[q],
                        RequestOf[stored] \in Request \ spoiled
                 PROVE  index'[q][RequestOf[stored]] # NoPack
      BY <1>2 DEF ReturnedIsIndexed
    <2>1. q \in Process
      BY <1>1 DEF TypeOK
    <2>2. CASE q = o /\ stored = p
      BY <1>1, <1>5, <2>1, <2>2
    <2>3. CASE stored \in returned[q]
      BY <1>1, <1>5, <2>1, <2>3 DEF IInv, ReturnedIsIndexed
    <2>4. QED
      BY <1>6, <2>1, <2>2, <2>3
  <1>11. LatestIsStored' /\ DamageIsKnown' /\ ClockIsAhead'
    BY <1>2 DEF IInv, LatestIsStored, DamageIsKnown, ClockIsAhead
  <1>12. QED
    BY <1>4, <1>7, <1>8, <1>9, <1>10, <1>11 DEF IInv

\* Only an entry whose request has had a damaged file is dropped.
LEMMA DropCandidateKeepsIInv ==
  ASSUME IInv, NEW c \in Call, DropCandidate(c)
  PROVE  IInv'
  <1> DEFINE o == call[c].process
  <1> DEFINE r == call[c].arg
  <1>1. /\ TypeOK /\ ThreadsFit /\ call[c].op = "find" /\ call[c].step = 3 /\ r \in Request
        /\ r \in spoiled /\ o \in Process
    BY DEF IInv, ThreadsFit, Fits, DropCandidate
  <1>2. UNCHANGED <<written, damaged, clock, latest, running, returned, spoiled, faults>>
    BY DEF DropCandidate, disk
  <1>3. NoPack \in Pack \cup {NoPack} /\ Over(c, NoPack)
    BY DEF DropCandidate
  <1>4. call' \in [Call -> CallRecord] /\ ThreadsFit' /\ lock' \in [Process -> Call \cup {Free}]
    BY <1>1, <1>2, <1>3, CallOver
  <1>5. /\ index' \in [Process -> [Request -> Pack \cup {NoPack}]]
        /\ \A q \in Process, other \in Request :
             index'[q][other] = IF q = o /\ other = r THEN NoPack ELSE index[q][other]
    BY <1>1 DEF DropCandidate, TypeOK
  <1>6. TypeOK'
    BY <1>1, <1>2, <1>4, <1>5 DEF TypeOK
  <1>7. IndexFits' /\ ReturnedIsIndexed'
    BY <1>1, <1>2, <1>5 DEF IInv, TypeOK, IndexFits, ReturnedIsIndexed
  <1>8. LatestIsStored' /\ DamageIsKnown' /\ ReturnedIsWritten' /\ ClockIsAhead'
    BY <1>2 DEF IInv, LatestIsStored, DamageIsKnown, ReturnedIsWritten, ClockIsAhead
  <1>9. QED
    BY <1>4, <1>6, <1>7, <1>8 DEF IInv

\* A process that starts reads back everything the saves before it left.
LEMMA StartKeepsIInv ==
  ASSUME IInv, NEW o \in Process, Start(o)
  PROVE  IInv'
  <1>1. UNCHANGED <<written, damaged, clock, latest, lock, call, spoiled, faults>>
          /\ running' = running \cup {o}
    BY DEF Start, disk
  <1>2. TypeOK /\ ClockIsAhead
    BY DEF IInv
  <1>3. /\ index' \in [Process -> [Request -> Pack \cup {NoPack}]]
        /\ \A q \in Process : index'[q] = IF q = o THEN Rebuilt ELSE index[q]
    <2>1. index' = [index EXCEPT ![o] = Rebuilt] /\ index \in [Process -> [Request -> Pack \cup {NoPack}]]
      BY <1>2 DEF Start, TypeOK
    <2>2. Rebuilt \in [Request -> Pack \cup {NoPack}]
      <3>1. CASE Request = {}
        <4>1. Rebuilt = [r \in Request |-> Rebuilt[r]]
          BY DEF Rebuilt
        <4>2. QED
          BY <3>1, <4>1
      <3>2. CASE Request # {}
        BY <1>2, <3>2, RebuiltFits
      <3>3. QED
        BY <3>1, <3>2
    <2>3. QED
      BY <2>1, <2>2
  <1>4. /\ returned' \in [Process -> SUBSET Pack]
        /\ \A q \in Process : returned'[q] = IF q = o THEN UNION {returned[z] : z \in Process}
                                             ELSE returned[q]
    BY <1>2 DEF Start, TypeOK
  <1>5. TypeOK'
    BY <1>1, <1>2, <1>3, <1>4 DEF TypeOK
  <1>6. IndexFits'
    <2> SUFFICES ASSUME NEW q \in Process, NEW r \in Request, index'[q][r] # NoPack
                 PROVE  RequestOf[index'[q][r]] = r /\ written[index'[q][r]] # 0
      BY <1>1 DEF IndexFits
    <2>1. CASE q = o
      <3>1. Rebuilt[r] \in Whole /\ RequestOf[Rebuilt[r]] = r
        BY <1>2, <1>3, <2>1, RebuiltFits
      <3>2. QED
        BY <1>3, <2>1, <3>1 DEF Whole
    <2>2. CASE q # o
      BY <1>3, <2>2 DEF IInv, IndexFits
    <2>3. QED
      BY <2>1, <2>2
  <1>7. ReturnedIsWritten'
    BY <1>1, <1>4 DEF IInv, ReturnedIsWritten
  <1>8. ReturnedIsIndexed'
    <2> SUFFICES ASSUME NEW q \in running', NEW stored \in returned'[q],
                        RequestOf[stored] \in Request \ spoiled
                 PROVE  index'[q][RequestOf[stored]] # NoPack
      BY <1>1 DEF ReturnedIsIndexed
    <2>1. CASE q = o
      <3>1. stored \in Pack /\ written[stored] # 0
        BY <1>2, <1>4, <2>1 DEF IInv, ReturnedIsWritten, TypeOK
      <3>2. stored \notin damaged
        BY DEF IInv, DamageIsKnown
      <3>3. stored \in Whole
        BY <3>1, <3>2 DEF Whole
      <3>4. QED
        BY <1>2, <1>3, <2>1, <3>3, RebuiltFits
    <2>2. CASE q # o
      BY <1>1, <1>2, <1>3, <1>4, <2>2 DEF IInv, ReturnedIsIndexed, TypeOK
    <2>3. QED
      BY <2>1, <2>2
  <1>9. LatestIsStored' /\ ThreadsFit' /\ DamageIsKnown' /\ ClockIsAhead'
    BY <1>1 DEF IInv, LatestIsStored, ThreadsFit, Fits, DamageIsKnown, ClockIsAhead
  <1>10. QED
    BY <1>5, <1>6, <1>7, <1>8, <1>9 DEF IInv

\* A crash takes threads and memory and leaves the disk.
LEMMA CrashKeepsIInv ==
  ASSUME IInv, NEW o \in Process, Crash(o)
  PROVE  IInv'
  <1>1. UNCHANGED <<written, damaged, clock, latest, returned, spoiled>>
          /\ running' = running \ {o} /\ index' = [index EXCEPT ![o] = NoIndex]
          /\ lock' = [lock EXCEPT ![o] = Free]
    BY DEF Crash, disk
  <1>2. TypeOK /\ ThreadsFit /\ faults' \in Nat
    <2>1. TypeOK /\ ThreadsFit /\ faults' = faults + 1
      BY DEF IInv, Crash, Fault
    <2>2. QED
      BY <2>1 DEF TypeOK
  <1>3. \A c \in Call : call'[c] \in CallRecord /\ Fits(call'[c])
    <2> SUFFICES ASSUME NEW c \in Call PROVE call'[c] \in CallRecord /\ Fits(call'[c])
      OBVIOUS
    <2>1. call[c] \in CallRecord /\ Fits(call[c])
      BY <1>2 DEF TypeOK, ThreadsFit
    <2>2. CASE call'[c] = call[c]
      BY <2>1, <2>2
    <2>3. CASE call'[c] = [call[c] EXCEPT !.caller = "gone", !.step = 0]
      <3> DEFINE r == [call[c] EXCEPT !.caller = "gone", !.step = 0]
      <3>1. r \in CallRecord
        <4>1. \A k \in {"waits", "holds", "returned", "gone"}, n \in 0 .. 3 :
                [call[c] EXCEPT !.caller = k, !.step = n] \in CallRecord
          BY <2>1, RecordMoves
        <4>2. 0 \in 0 .. 3
          OBVIOUS
        <4>3. QED
          BY <4>1, <4>2
      <3>2. r.op = call[c].op /\ r.arg = call[c].arg /\ r.step = 0 /\ r.process = call[c].process
        BY <2>1 DEF CallRecord
      <3> HIDE DEF r
      <3>3. Fits(r)
        BY <2>1, <3>2 DEF Fits
      <3>4. QED
        BY <2>3, <3>1, <3>3 DEF r
    <2>4. QED
      BY <2>2, <2>3 DEF Crash
  <1>4. call' \in [Call -> CallRecord]
    BY <1>3 DEF Crash
  <1>5. ThreadsFit'
    <2> SUFFICES ASSUME NEW c \in Call PROVE Fits(call[c])'
      BY DEF ThreadsFit
    <2>1. Fits(call'[c])
      BY <1>3
    <2>2. QED
      BY <1>1, <2>1 DEF Fits
  <1>6. index' \in [Process -> [Request -> Pack \cup {NoPack}]]
    BY <1>1, <1>2 DEF TypeOK, NoIndex
  <1>7. TypeOK'
    BY <1>1, <1>2, <1>4, <1>6 DEF TypeOK
  <1>8. IndexFits' /\ ReturnedIsIndexed'
    BY <1>1, <1>2 DEF IInv, TypeOK, IndexFits, ReturnedIsIndexed, NoIndex
  <1>9. LatestIsStored' /\ DamageIsKnown' /\ ReturnedIsWritten' /\ ClockIsAhead'
    BY <1>1 DEF IInv, LatestIsStored, DamageIsKnown, ReturnedIsWritten, ClockIsAhead
  <1>10. QED
    BY <1>5, <1>7, <1>8, <1>9 DEF IInv

\* A damaged file spoils its request and takes nothing else.
LEMMA DamageKeepsIInv ==
  ASSUME IInv, NEW p \in Pack, Damage(p)
  PROVE  IInv'
  <1>1. UNCHANGED <<written, latest, clock, running, index, lock, call, returned>>
          /\ damaged' = damaged \cup {p} /\ spoiled' = spoiled \cup {RequestOf[p]}
          /\ faults' \in Nat
    BY DEF Damage, Fault, IInv, TypeOK
  <1>2. TypeOK'
    BY <1>1 DEF IInv, TypeOK
  <1>3. ThreadsFit'
    BY <1>1 DEF IInv, ThreadsFit, Fits
  <1>4. DamageIsKnown' /\ ReturnedIsIndexed'
    BY <1>1 DEF IInv, DamageIsKnown, ReturnedIsIndexed
  <1>5. LatestIsStored' /\ IndexFits' /\ ReturnedIsWritten' /\ ClockIsAhead'
    BY <1>1 DEF IInv, LatestIsStored, IndexFits, ReturnedIsWritten, ClockIsAhead
  <1>6. QED
    BY <1>2, <1>3, <1>4, <1>5 DEF IInv

\* Every step of a thread, a caller, a dying process or the file system keeps it.
LEMMA NextKeepsIInv == IInv /\ [Next]_vars => IInv'
  <1> SUFFICES ASSUME IInv, [Next]_vars PROVE IInv'
    OBVIOUS
  <1>1. CASE UNCHANGED vars
    BY <1>1 DEF vars, disk, IInv, TypeOK, LatestIsStored, ThreadsFit, Fits, IndexFits,
                DamageIsKnown, ReturnedIsWritten, ClockIsAhead, ReturnedIsIndexed
  <1>2. CASE \E o \in Process : Start(o) \/ Crash(o)
    BY <1>2, StartKeepsIInv, CrashKeepsIInv
  <1>3. CASE \E p \in Pack : Damage(p)
    BY <1>3, DamageKeepsIInv
  <1>4. ASSUME NEW c \in Call,
               \/ Enter(c) \/ Cancel(c)
               \/ \E o \in Process : \/ \E p \in Pack : Begin(c, o, "save", p)
                                     \/ \E r \in Request : Begin(c, o, "find", r)
                                     \/ Begin(c, o, "latest", NoPack)
        PROVE  IInv'
    BY <1>4, CallersKeepIInv
  <1>5. ASSUME NEW c \in Call, Thread(c) PROVE IInv'
    BY <1>5, WritePackKeepsIInv, PointLatestKeepsIInv, PutIndexKeepsIInv,
       DropCandidateKeepsIInv, ReadersKeepIInv DEF Thread
  <1>6. QED
    BY <1>1, <1>2, <1>3, <1>4, <1>5 DEF Next

\* The inductive invariant holds in every reachable state of the store's processes.
\* (story_store.py:22)
THEOREM Inductive == Spec => []IInv
  BY InitIInv, NextKeepsIInv, PTL DEF Spec

-----------------------------------------------------------------------------
(* What follows.                                                           *)

\* Whichever process dies between its two writes, whoever is cancelled and whoever
\* else saves: the pointer names a pack that has a file.  (story_store.py:51)
THEOREM LatestStaysStored == Spec => []LatestIsStored
  <1>1. IInv => LatestIsStored
    BY DEF IInv
  <1>2. QED
    BY <1>1, Inductive, PTL

\* A saved pack answers its request in every process that runs, after any number
\* of crashes, restarts, cancelled operations and damaged files of other requests.
\* (story_store.py:53, 136)
THEOREM SavedStaysFound == Spec => []SavedIsFound
  <1>1. IInv => SavedIsFound
    <2> SUFFICES ASSUME IInv, NEW o \in running, NEW p \in returned[o],
                        RequestOf[p] \in Request \ spoiled
                 PROVE  LET found == index[o][RequestOf[p]]
                        IN  found \in Whole /\ RequestOf[found] = RequestOf[p]
      BY DEF SavedIsFound
    <2> DEFINE found == index[o][RequestOf[p]]
    <2>1. o \in Process /\ found \in Pack \cup {NoPack} /\ found # NoPack
      BY DEF IInv, TypeOK, ReturnedIsIndexed
    <2>2. RequestOf[found] = RequestOf[p] /\ written[found] # 0
      BY <2>1 DEF IInv, IndexFits
    <2>3. found \notin damaged
      BY <2>2 DEF IInv, DamageIsKnown
    <2>4. QED
      BY <2>1, <2>2, <2>3 DEF Whole
  <1>2. QED
    BY <1>1, Inductive, PTL

-----------------------------------------------------------------------------
(* The reader.  A set of naturals that holds 0 and with every number the   *)
(* next is induction enough for the recursive functions of the model: each *)
(* is defined, step by step, on the whole of its domain.                   *)

\* Induction over the naturals, for a set.
LEMMA SetInduction ==
  ASSUME NEW S, 0 \in S, \A n \in Nat : n \in S => n + 1 \in S
  PROVE  \A n \in Nat : n \in S
  <1> DEFINE T == Nat \ S
             R == OpToRel(<, Nat)
  <1>1. IsWellFoundedOn(R, Nat)
    BY NatLessThanWellFounded
  <1>2. \A m, n \in Nat : m < n => <<m, n>> \in R
    BY DEF OpToRel
  <1> HIDE DEF R
  <1>3. CASE T # {}
    <2>1. PICK x \in T : \A y \in T : <<y, x>> \notin R
      BY <1>1, <1>3, WFMin
    <2>2. x # 0 /\ x - 1 \in Nat /\ x - 1 < x
      BY <2>1
    <2>3. x - 1 \in S
      BY <1>2, <2>1, <2>2
    <2>4. QED
      BY <2>1, <2>2, <2>3
  <1>4. QED
    BY <1>3

\* Induction over the numbers up to n.
LEMMA RangeInduction ==
  ASSUME NEW n \in Nat, NEW S, 0 \in S, \A k \in 1 .. n : k - 1 \in S => k \in S
  PROVE  \A k \in 0 .. n : k \in S
  <1> DEFINE T == {k \in Nat : k <= n => k \in S}
  <1>1. 0 \in T
    OBVIOUS
  <1>2. ASSUME NEW k \in Nat, k \in T PROVE k + 1 \in T
    <2>1. CASE k + 1 <= n
      <3>1. k + 1 \in 1 .. n /\ (k + 1) - 1 = k /\ k \in S
        BY <1>2, <2>1
      <3>2. QED
        BY <3>1
    <2>2. QED
      BY <2>1
  <1>3. \A k \in Nat : k \in T
    <2> HIDE DEF T
    <2>1. QED
      BY <1>1, <1>2, SetInduction
  <1>4. QED
    BY <1>3

\* The row of the n + 1 values that begins with a and goes on by step.
Row(f, D, a, n, step) ==
  /\ f \in [0 .. n -> D] /\ f[0] = a
  /\ \A k \in 1 .. n : f[k] = step[k][f[k - 1]]

\* Such a row exists.
LEMMA RowExists ==
  ASSUME NEW D, NEW a \in D, NEW n \in Nat, NEW step \in [1 .. n -> [D -> D]]
  PROVE  \E f : Row(f, D, a, n, step)
  <1> DEFINE Can(m) == \E f : Row(f, D, a, m, step)
             S == {m \in Nat : Can(m)}
  <1>1. 0 \in S
    <2>1. Row([k \in 0 .. 0 |-> a], D, a, 0, step)
      BY DEF Row
    <2>2. QED
      BY <2>1
  <1>2. ASSUME NEW m \in 1 .. n, m - 1 \in S PROVE m \in S
    <2>1. PICK f : Row(f, D, a, m - 1, step)
      BY <1>2
    <2>2. /\ f \in [0 .. m - 1 -> D] /\ f[0] = a
          /\ \A k \in 1 .. m - 1 : f[k] = step[k][f[k - 1]]
      BY <2>1 DEF Row
    <2> DEFINE g == [k \in 0 .. m |-> IF k < m THEN f[k] ELSE step[m][f[m - 1]]]
    <2>3. f[m - 1] \in D /\ step[m][f[m - 1]] \in D
      BY <2>2
    <2>4. g \in [0 .. m -> D] /\ g[0] = a
      BY <2>2, <2>3
    <2>5. ASSUME NEW k \in 1 .. m PROVE g[k] = step[k][g[k - 1]]
      <3>1. CASE k < m
        <4>1. k \in 1 .. m - 1 /\ g[k] = f[k] /\ g[k - 1] = f[k - 1]
          BY <3>1
        <4>2. QED
          BY <2>2, <4>1
      <3>2. CASE k = m
        <4>1. m - 1 \in 0 .. m /\ m - 1 < m /\ m \in 0 .. m
          OBVIOUS
        <4>2. g[m - 1] = f[m - 1] /\ g[m] = step[m][f[m - 1]]
          BY <4>1
        <4>3. QED
          BY <3>2, <4>2
      <3>3. QED
        BY <3>1, <3>2
    <2>6. Row(g, D, a, m, step)
      BY <2>4, <2>5 DEF Row
    <2>7. Can(m)
      <3> HIDE DEF g
      <3>1. QED
        BY <2>6
    <2>8. QED
      <3> HIDE DEF Can
      <3>1. QED
        BY <2>7
  <1>3. \A m \in 0 .. n : m \in S
    <2> HIDE DEF S
    <2>1. QED
      BY <1>1, <1>2, RangeInduction
  <1>4. n \in S
    <2>1. n \in 0 .. n
      OBVIOUS
    <2> HIDE DEF S
    <2>2. QED
      BY <1>3, <2>1
  <1>5. QED
    BY <1>4

\* An event leaves a view of the same page.
LEMMA HandledKeepsViews ==
  ASSUME NEW view \in Views, NEW event \in Events
  PROVE  /\ Handled(view, event) \in Views
         /\ Handled(view, event).page = view.page
  BY DEF Handled, NewWord, NewReading, Views, Events

\* Handling a row of events goes through a row of views.
Through(views, view, events) ==
  /\ views \in [0 .. Len(events) -> Views] /\ views[0] = view
  /\ \A k \in 1 .. Len(events) : views[k] = Handled(views[k - 1], events[k])

\* Replayed is the end of such a row.
LEMMA ReplayedThrough ==
  ASSUME NEW view \in Views, NEW events \in Seq(Events)
  PROVE  \E views : Through(views, view, events) /\ Replayed(view, events) = views[Len(events)]
  <1> DEFINE n == Len(events)
             Unfolds(f) == f = [k \in 0 .. n |-> IF k = 0 THEN view
                                                 ELSE Handled(f[k - 1], events[k])]
             at == CHOOSE f : Unfolds(f)
             step == [k \in 1 .. n |-> [v \in Views |-> Handled(v, events[k])]]
  <1>1. n \in Nat /\ \A k \in 1 .. n : events[k] \in Events
    OBVIOUS
  <1>2. Replayed(view, events) = at[n]
    BY DEF Replayed
  <1>3. \A k \in 1 .. n, v \in Views : Handled(v, events[k]) \in Views
    BY <1>1, HandledKeepsViews
  <1>4. step \in [1 .. n -> [Views -> Views]]
    BY <1>3
  <1>5. PICK f : Row(f, Views, view, n, step)
    <2>1. n \in Nat /\ view \in Views
      BY <1>1
    <2> HIDE DEF step, n
    <2>2. QED
      BY <2>1, <1>4, RowExists
  <1>6. /\ f \in [0 .. n -> Views] /\ f[0] = view
        /\ \A k \in 1 .. n : f[k] = Handled(f[k - 1], events[k])
    <2>1. /\ f \in [0 .. n -> Views] /\ f[0] = view
          /\ \A k \in 1 .. n : f[k] = step[k][f[k - 1]]
      <3> HIDE DEF step
      <3>1. QED
        BY <1>5 DEF Row
    <2>2. \A k \in 1 .. n : f[k - 1] \in Views
      BY <1>1, <2>1
    <2>3. QED
      BY <2>1, <2>2
  <1>7. Unfolds(f)
    <2>1. \A k \in 0 .. n : k # 0 => k \in 1 .. n
      BY <1>1
    <2>2. QED
      BY <1>6, <2>1
  <1>8. Unfolds(at)
    <2> HIDE DEF Unfolds
    <2>1. QED
      BY <1>7
  <1> DEFINE S == {k \in 0 .. n : at[k] \in Views}
  <1> HIDE DEF at
  <1>9. at[0] = view /\ \A k \in 1 .. n : at[k] = Handled(at[k - 1], events[k])
    BY <1>1, <1>8
  <1>10. \A k \in 0 .. n : k \in S
    <2>1. 0 \in S
      BY <1>1, <1>9
    <2>2. ASSUME NEW k \in 1 .. n, k - 1 \in S PROVE k \in S
      <3>1. at[k - 1] \in Views /\ events[k] \in Events /\ k \in 0 .. n
        BY <1>1, <2>2
      <3>2. Handled(at[k - 1], events[k]) \in Views
        BY <3>1, HandledKeepsViews
      <3>3. QED
        BY <1>9, <3>1, <3>2
    <2>3. QED
      <3> HIDE DEF S, n
      <3>1. QED
        BY <1>1, <2>1, <2>2, RangeInduction
  <1>11. Through(at, view, events)
    BY <1>8, <1>9, <1>10 DEF Through
  <1>12. QED
    BY <1>2, <1>11

\* A row of events leaves a view of the same page.
LEMMA ReplayedKeepsViews ==
  ASSUME NEW view \in Views, NEW events \in Seq(Events)
  PROVE  Replayed(view, events) \in Views /\ Replayed(view, events).page = view.page
  <1> DEFINE n == Len(events)
  <1>1. n \in Nat /\ n \in 0 .. n /\ \A k \in 1 .. n : events[k] \in Events
    OBVIOUS
  <1>2. PICK views : Through(views, view, events) /\ Replayed(view, events) = views[n]
    BY ReplayedThrough
  <1> DEFINE S == {k \in 0 .. n : views[k].page = view.page}
  <1>3. 0 \in S
    BY <1>1, <1>2 DEF Through
  <1>4. ASSUME NEW k \in 1 .. n, k - 1 \in S PROVE k \in S
    <2>1. /\ views[k - 1] \in Views /\ views[k - 1].page = view.page /\ k \in 0 .. n
          /\ views[k] = Handled(views[k - 1], events[k])
      BY <1>1, <1>2, <1>4 DEF Through
    <2>2. QED
      BY <1>1, <2>1, HandledKeepsViews
  <1>5. \A k \in 0 .. n : k \in S
    <2> HIDE DEF S, n
    <2>1. QED
      BY <1>1, <1>3, <1>4, RangeInduction
  <1>6. QED
    BY <1>1, <1>2, <1>5 DEF Through

\* No events change nothing.
LEMMA ReplayedNone ==
  ASSUME NEW view \in Views
  PROVE  Replayed(view, <<>>) = view
  <1>1. <<>> \in Seq(Events) /\ Len(<<>>) = 0
    OBVIOUS
  <1>2. PICK views : Through(views, view, <<>>) /\ Replayed(view, <<>>) = views[0]
    BY <1>1, ReplayedThrough
  <1>3. QED
    BY <1>2 DEF Through

\* One event is handled.
LEMMA ReplayedOne ==
  ASSUME NEW view \in Views, NEW event \in Events
  PROVE  Replayed(view, <<event>>) = Handled(view, event)
  <1>1. <<event>> \in Seq(Events) /\ Len(<<event>>) = 1 /\ <<event>>[1] = event
    OBVIOUS
  <1>2. PICK views : Through(views, view, <<event>>) /\ Replayed(view, <<event>>) = views[1]
    BY <1>1, ReplayedThrough
  <1>3. views[0] = view /\ views[1] = Handled(views[1 - 1], <<event>>[1])
    BY <1>1, <1>2 DEF Through
  <1>4. QED
    BY <1>1, <1>2, <1>3

\* Events can be handled in two parts.
LEMMA ReplayedInTurn ==
  ASSUME NEW view \in Views, NEW first \in Seq(Events), NEW then \in Seq(Events)
  PROVE  Replayed(view, first \o then) = Replayed(Replayed(view, first), then)
  <1> DEFINE m == Len(first)
             n == Len(then)
             all == first \o then
  <1>1. /\ m \in Nat /\ n \in Nat /\ all \in Seq(Events) /\ Len(all) = m + n
        /\ m \in 0 .. m /\ n \in 0 .. n
        /\ \A k \in 1 .. m : all[k] = first[k]
        /\ \A k \in 1 .. n : all[m + k] = then[k]
    OBVIOUS
  <1>2. PICK A : Through(A, view, first) /\ Replayed(view, first) = A[m]
    BY ReplayedThrough
  <1>3. A[m] \in Views
    BY <1>1, <1>2 DEF Through
  <1>4. PICK B : Through(B, A[m], then) /\ Replayed(A[m], then) = B[n]
    BY <1>3, ReplayedThrough
  <1>5. PICK V : Through(V, view, all) /\ Replayed(view, all) = V[m + n]
    BY <1>1, ReplayedThrough
  <1> DEFINE S == {k \in 0 .. m : V[k] = A[k]}
             T == {k \in 0 .. n : V[m + k] = B[k]}
  <1> HIDE DEF all
  <1>6. m \in S
    <2>1. 0 \in S
      BY <1>1, <1>2, <1>5 DEF Through
    <2>2. ASSUME NEW k \in 1 .. m, k - 1 \in S PROVE k \in S
      <3>1. /\ k \in 0 .. m /\ k \in 1 .. m + n /\ V[k - 1] = A[k - 1]
        BY <1>1, <2>2
      <3>2. V[k] = Handled(V[k - 1], all[k]) /\ A[k] = Handled(A[k - 1], first[k])
        BY <1>1, <1>2, <1>5, <3>1 DEF Through
      <3>3. QED
        BY <1>1, <3>1, <3>2
    <2>3. \A k \in 0 .. m : k \in S
      <3> HIDE DEF S, m
      <3>1. QED
        BY <1>1, <2>1, <2>2, RangeInduction
    <2>4. QED
      BY <1>1, <2>3
  <1>7. n \in T
    <2>1. 0 \in T
      BY <1>1, <1>4, <1>6 DEF Through
    <2>2. ASSUME NEW k \in 1 .. n, k - 1 \in T PROVE k \in T
      <3>1. /\ k \in 0 .. n /\ m + k \in 1 .. m + n /\ (m + k) - 1 = m + (k - 1)
            /\ V[m + (k - 1)] = B[k - 1]
        BY <1>1, <2>2
      <3>2. V[m + k] = Handled(V[(m + k) - 1], all[m + k])
        BY <1>1, <1>5, <3>1 DEF Through
      <3>3. B[k] = Handled(B[k - 1], then[k])
        BY <1>4 DEF Through
      <3>4. all[m + k] = then[k]
        BY <1>1
      <3>5. QED
        BY <3>1, <3>2, <3>3, <3>4
    <2>3. \A k \in 0 .. n : k \in T
      <3> HIDE DEF T, n
      <3>1. QED
        BY <1>1, <2>1, <2>2, RangeInduction
    <2>4. QED
      BY <1>1, <2>3
  <1>8. QED
    BY <1>1, <1>2, <1>4, <1>5, <1>7 DEF all

\* The first event is handled first.
LEMMA ReplayedHead ==
  ASSUME NEW view \in Views, NEW events \in Seq(Events), events # <<>>
  PROVE  Replayed(view, events) = Replayed(Handled(view, Head(events)), Tail(events))
  <1> DEFINE e == Head(events)
             rest == Tail(events)
  <1>1. e \in Events /\ rest \in Seq(Events) /\ <<e>> \in Seq(Events)
    OBVIOUS
  <1>2. events = <<e>> \o rest
    OBVIOUS
  <1> HIDE DEF e, rest
  <1>3. Replayed(view, <<e>> \o rest) = Replayed(Replayed(view, <<e>>), rest)
    BY <1>1, ReplayedInTurn
  <1>4. Replayed(view, <<e>>) = Handled(view, e)
    BY <1>1, ReplayedOne
  <1>5. QED
    BY <1>2, <1>3, <1>4 DEF e, rest

\* A place of the generation, or of an earlier one, that is not past the word reached.
UpTo(generation, place, g, reached) ==
  generation <= g /\ (generation = g => place <= reached)

\* Events that are not past a place take no view past it.
LEMMA ReplayedUpTo ==
  ASSUME NEW view \in Views, NEW events \in Seq(Events), NEW g \in Nat, NEW reached \in Nat,
         UpTo(view.generation, view.cursor, g, reached),
         \A k \in 1 .. Len(events) : UpTo(events[k].generation, events[k].index, g, reached)
  PROVE  UpTo(Replayed(view, events).generation, Replayed(view, events).cursor, g, reached)
  <1> DEFINE n == Len(events)
  <1>1. n \in Nat /\ n \in 0 .. n /\ \A k \in 1 .. n : events[k] \in Events
    OBVIOUS
  <1>2. PICK views : Through(views, view, events) /\ Replayed(view, events) = views[n]
    BY ReplayedThrough
  <1> DEFINE S == {k \in 0 .. n : UpTo(views[k].generation, views[k].cursor, g, reached)}
  <1>3. 0 \in S
    BY <1>1, <1>2 DEF Through
  <1>4. ASSUME NEW k \in 1 .. n, k - 1 \in S PROVE k \in S
    <2> DEFINE v == views[k - 1]
               e == events[k]
    <2>1. /\ v \in Views /\ k \in 0 .. n /\ views[k] = Handled(v, e)
          /\ UpTo(v.generation, v.cursor, g, reached) /\ e \in Events
          /\ UpTo(e.generation, e.index, g, reached)
      BY <1>1, <1>2, <1>4, SMTT(30) DEF Through
    <2> HIDE DEF v, e
    <2>2. UpTo(Handled(v, e).generation, Handled(v, e).cursor, g, reached)
      BY <2>1 DEF UpTo, Handled, NewWord, NewReading, Views, Events
    <2>3. QED
      BY <2>1, <2>2
  <1>5. \A k \in 0 .. n : k \in S
    <2> HIDE DEF S, n
    <2>1. QED
      BY <1>1, <1>3, <1>4, RangeInduction
  <1>6. QED
    BY <1>1, <1>2, <1>5

\* One view of a page is not past another.
NotPast(v, w) ==
  /\ v.page = w.page
  /\ v.generation < w.generation \/ (v.generation = w.generation /\ v.cursor <= w.cursor)

\* An event leaves two views in their order, and takes neither back.
LEMMA HandledInOrder ==
  ASSUME NEW v \in Views, NEW w \in Views, NEW event \in Events, NotPast(v, w)
  PROVE  NotPast(Handled(v, event), Handled(w, event)) /\ NotPast(v, Handled(v, event))
  BY DEF NotPast, Handled, NewWord, NewReading, Views, Events

\* A row of events leaves two views in their order.
LEMMA ReplayedInOrder ==
  ASSUME NEW v \in Views, NEW w \in Views, NEW events \in Seq(Events), NotPast(v, w)
  PROVE  NotPast(Replayed(v, events), Replayed(w, events))
  <1> DEFINE n == Len(events)
  <1>1. n \in Nat /\ n \in 0 .. n /\ \A k \in 1 .. n : events[k] \in Events
    OBVIOUS
  <1>2. PICK V : Through(V, v, events) /\ Replayed(v, events) = V[n]
    BY ReplayedThrough
  <1>3. PICK W : Through(W, w, events) /\ Replayed(w, events) = W[n]
    BY ReplayedThrough
  <1> DEFINE S == {k \in 0 .. n : NotPast(V[k], W[k])}
  <1>4. 0 \in S
    BY <1>1, <1>2, <1>3 DEF Through
  <1>5. ASSUME NEW k \in 1 .. n, k - 1 \in S PROVE k \in S
    <2>1. /\ V[k - 1] \in Views /\ W[k - 1] \in Views /\ k \in 0 .. n /\ events[k] \in Events
          /\ V[k] = Handled(V[k - 1], events[k]) /\ W[k] = Handled(W[k - 1], events[k])
          /\ NotPast(V[k - 1], W[k - 1])
      BY <1>1, <1>2, <1>3, <1>5 DEF Through
    <2>2. QED
      BY <2>1, HandledInOrder
  <1>6. \A k \in 0 .. n : k \in S
    <2> HIDE DEF S, n
    <2>1. QED
      BY <1>1, <1>4, <1>5, RangeInduction
  <1>7. QED
    BY <1>1, <1>2, <1>3, <1>6

\* A row of events takes no view back.
LEMMA ReplayedGoesOn ==
  ASSUME NEW view \in Views, NEW events \in Seq(Events)
  PROVE  NotPast(view, Replayed(view, events))
  <1> DEFINE n == Len(events)
  <1>1. n \in Nat /\ n \in 0 .. n /\ \A k \in 1 .. n : events[k] \in Events
    OBVIOUS
  <1>2. PICK views : Through(views, view, events) /\ Replayed(view, events) = views[n]
    BY ReplayedThrough
  <1> DEFINE S == {k \in 0 .. n : NotPast(view, views[k])}
  <1>3. 0 \in S
    BY <1>1, <1>2 DEF Through, NotPast, Views
  <1>4. ASSUME NEW k \in 1 .. n, k - 1 \in S PROVE k \in S
    <2> DEFINE v == views[k - 1]
    <2>1. /\ v \in Views /\ k \in 0 .. n /\ views[k] = Handled(v, events[k])
          /\ NotPast(view, v) /\ events[k] \in Events
      BY <1>1, <1>2, <1>4 DEF Through
    <2> HIDE DEF v
    <2>2. NotPast(v, v)
      BY <2>1 DEF NotPast, Views
    <2>3. NotPast(v, Handled(v, events[k])) /\ Handled(v, events[k]) \in Views
      BY <2>1, <2>2, HandledInOrder, HandledKeepsViews
    <2>4. NotPast(view, Handled(v, events[k]))
      BY <2>1, <2>3 DEF NotPast, Views
    <2>5. QED
      BY <2>1, <2>4
  <1>5. \A k \in 0 .. n : k \in S
    <2> HIDE DEF S, n
    <2>1. QED
      BY <1>1, <1>3, <1>4, RangeInduction
  <1>6. QED
    BY <1>1, <1>2, <1>5

-----------------------------------------------------------------------------
(* What a transcript newly reaches is in reading order, and beyond the     *)
(* word reached.                                                           *)

\* A row of page positions in reading order, up to the position before i.
Ascending(met, i) ==
  /\ met \in Seq(Nat)
  /\ \A k \in 1 .. Len(met) : met[k] < i
  /\ \A j, k \in 1 .. Len(met) : j < k => met[j] < met[k]

LEMMA AscendingAppend ==
  ASSUME NEW met, NEW i \in Nat, NEW h \in Nat, i < h, Ascending(met, i)
  PROVE  Ascending(Append(met, i), h)
  <1>1. /\ Append(met, i) \in Seq(Nat) /\ Len(Append(met, i)) = Len(met) + 1 /\ Len(met) \in Nat
        /\ \A k \in 1 .. Len(met) : met[k] \in Nat
        /\ \A k \in 1 .. Len(met) + 1 :
             Append(met, i)[k] = IF k = Len(met) + 1 THEN i ELSE met[k]
    BY DEF Ascending
  <1>2. \A k \in 1 .. Len(met) + 1 : k = Len(met) + 1 \/ k \in 1 .. Len(met)
    BY <1>1
  <1>3. \A k \in 1 .. Len(met) + 1 : Append(met, i)[k] < h
    BY <1>1, <1>2 DEF Ascending
  <1>4. ASSUME NEW j \in 1 .. Len(met) + 1, NEW k \in 1 .. Len(met) + 1, j < k
        PROVE  Append(met, i)[j] < Append(met, i)[k]
    <2>1. j \in 1 .. Len(met) /\ Append(met, i)[j] = met[j]
      BY <1>1, <1>4
    <2>2. QED
      BY <1>1, <1>2, <1>4, <2>1 DEF Ascending
  <1>5. QED
    BY <1>1, <1>3, <1>4 DEF Ascending

\* Where the walk over page and transcript can stand.
Walks == {w \in [i : Nat, j : Nat, met : Seq(Nat)] : w.i >= 1 /\ Ascending(w.met, w.i)}

LEMMA MatchStepWalks ==
  ASSUME NEW page, NEW spoken, NEW L, NEW w \in Walks
  PROVE  MatchStep(page, spoken, L, w) \in Walks
  <1>1. w.i \in Nat /\ w.j \in Nat /\ w.met \in Seq(Nat) /\ w.i >= 1 /\ Ascending(w.met, w.i)
    BY DEF Walks
  <1>2. Ascending(Append(w.met, w.i), w.i + 1) /\ Append(w.met, w.i) \in Seq(Nat)
    <2>1. w.i + 1 \in Nat /\ w.i < w.i + 1
      BY <1>1
    <2>2. QED
      BY <1>1, <2>1, AscendingAppend
  <1>3. Ascending(w.met, w.i + 1)
    BY <1>1 DEF Ascending
  <1>4. [i |-> w.i + 1, j |-> w.j + 1, met |-> Append(w.met, w.i)] \in Walks
    <2>1. w.i + 1 \in Nat /\ w.j + 1 \in Nat /\ w.i + 1 >= 1
      BY <1>1
    <2>2. QED
      BY <1>2, <2>1 DEF Walks
  <1>5. [w EXCEPT !.i = @ + 1] = [i |-> w.i + 1, j |-> w.j, met |-> w.met]
    BY DEF Walks
  <1>6. [w EXCEPT !.j = @ + 1] = [i |-> w.i, j |-> w.j + 1, met |-> w.met]
    BY DEF Walks
  <1>7. [w EXCEPT !.i = @ + 1] \in Walks
    BY <1>1, <1>3, <1>5 DEF Walks
  <1>8. [w EXCEPT !.j = @ + 1] \in Walks
    BY <1>1, <1>6 DEF Walks
  <1>9. QED
    BY <1>4, <1>7, <1>8 DEF MatchStep

\* The walk, round by round.
Walked(at, page, spoken) ==
  /\ at[0] = [i |-> 1, j |-> 1, met |-> <<>>]
  /\ \A k \in 1 .. Len(page) + Len(spoken) :
       at[k] = MatchStep(page, spoken, Lengths(page, spoken), at[k - 1])

\* The alignment is where the walk ends.
LEMMA MatchesWalk ==
  ASSUME NEW page, Len(page) \in Nat, NEW spoken, Len(spoken) \in Nat
  PROVE  \E at : Walked(at, page, spoken) /\ Matches(page, spoken) = at[Len(page) + Len(spoken)].met
  <1> DEFINE L == Lengths(page, spoken)
             n == Len(page) + Len(spoken)
             none == [i |-> 1, j |-> 1, met |-> <<>>]
             Unfolds(f) == f = [k \in 0 .. n |-> IF k = 0 THEN none
                                                 ELSE MatchStep(page, spoken, L, f[k - 1])]
             at == CHOOSE f : Unfolds(f)
             step == [k \in 1 .. n |-> [w \in Walks |-> MatchStep(page, spoken, L, w)]]
  <1>1. Matches(page, spoken) = at[n].met
    BY DEF Matches
  <1> HIDE DEF L
  <1>2. n \in Nat
    OBVIOUS
  <1>3. none \in Walks
    <2>1. Ascending(<<>>, 1)
      BY DEF Ascending
    <2>2. QED
      BY <2>1 DEF Walks
  <1>4. step \in [1 .. n -> [Walks -> Walks]]
    BY MatchStepWalks
  <1> HIDE DEF none
  <1>5. PICK f : Row(f, Walks, none, n, step)
    <2> HIDE DEF step, n
    <2>1. QED
      BY <1>2, <1>3, <1>4, RowExists
  <1>6. /\ f \in [0 .. n -> Walks] /\ f[0] = none
        /\ \A k \in 1 .. n : f[k] = MatchStep(page, spoken, L, f[k - 1])
    <2>1. /\ f \in [0 .. n -> Walks] /\ f[0] = none
          /\ \A k \in 1 .. n : f[k] = step[k][f[k - 1]]
      <3> HIDE DEF step
      <3>1. QED
        BY <1>5 DEF Row
    <2>2. \A k \in 1 .. n : f[k - 1] \in Walks
      BY <1>2, <2>1
    <2>3. QED
      BY <2>1, <2>2
  <1>7. Unfolds(f)
    <2>1. \A k \in 0 .. n : k # 0 => k \in 1 .. n
      BY <1>2
    <2>2. QED
      BY <1>6, <2>1
  <1>8. Unfolds(at)
    <2> HIDE DEF Unfolds
    <2>1. QED
      BY <1>7
  <1> HIDE DEF at
  <1>9. at[0] = none /\ \A k \in 1 .. n : at[k] = MatchStep(page, spoken, L, at[k - 1])
    BY <1>2, <1>8
  <1>10. Walked(at, page, spoken)
    BY <1>9 DEF Walked, L, none
  <1>11. QED
    BY <1>1, <1>10

\* The alignment meets the words of a page in reading order.
LEMMA MatchesAscend ==
  ASSUME NEW page, Len(page) \in Nat, NEW spoken, Len(spoken) \in Nat
  PROVE  \E i \in Nat : Ascending(Matches(page, spoken), i)
  <1> DEFINE n == Len(page) + Len(spoken)
  <1>1. PICK at : Walked(at, page, spoken) /\ Matches(page, spoken) = at[n].met
    BY MatchesWalk
  <1> DEFINE S == {k \in 0 .. n : at[k] \in Walks}
  <1>2. n \in Nat
    OBVIOUS
  <1>3. 0 \in S
    <2>1. Ascending(<<>>, 1)
      BY DEF Ascending
    <2>2. [i |-> 1, j |-> 1, met |-> <<>>] \in Walks
      BY <2>1 DEF Walks
    <2>3. QED
      BY <1>1, <1>2, <2>2 DEF Walked
  <1>4. ASSUME NEW k \in 1 .. n, k - 1 \in S PROVE k \in S
    <2>1. at[k - 1] \in Walks /\ k \in 0 .. n
      BY <1>2, <1>4
    <2>2. QED
      BY <1>1, <2>1, MatchStepWalks DEF Walked
  <1>5. \A k \in 0 .. n : k \in S
    <2> HIDE DEF S, n
    <2>1. QED
      BY <1>2, <1>3, <1>4, RangeInduction
  <1>6. at[n] \in Walks
    <2>1. n \in 0 .. n
      BY <1>2
    <2>2. QED
      BY <1>5, <2>1
  <1>7. QED
    BY <1>1, <1>6 DEF Walks

\* The selection, position by position.
Selected(at, reached, met) ==
  /\ at[0] = <<>>
  /\ \A k \in 1 .. Len(met) :
       at[k] = IF met[k] > reached THEN Append(at[k - 1], met[k]) ELSE at[k - 1]

\* Beyond is the end of such a selection.
LEMMA BeyondSelects ==
  ASSUME NEW reached \in Nat, NEW met \in Seq(Nat)
  PROVE  \E at : Selected(at, reached, met) /\ Beyond(reached, met) = at[Len(met)]
  <1> DEFINE n == Len(met)
             Chosen(k, row) == IF met[k] > reached THEN Append(row, met[k]) ELSE row
             Unfolds(f) == f = [k \in 0 .. n |->
                                  IF k = 0 THEN <<>>
                                  ELSE IF met[k] > reached THEN Append(f[k - 1], met[k])
                                  ELSE f[k - 1]]
             at == CHOOSE f : Unfolds(f)
             step == [k \in 1 .. n |-> [row \in Seq(Nat) |-> Chosen(k, row)]]
             none == <<>>
  <1>1. Beyond(reached, met) = at[n]
    BY DEF Beyond
  <1>2. /\ n \in Nat /\ n \in 0 .. n /\ met \in Seq(Nat)
        /\ \A k \in 1 .. n : met[k] \in Nat
    OBVIOUS
  <1>3. none \in Seq(Nat)
    OBVIOUS
  <1>4. step \in [1 .. n -> [Seq(Nat) -> Seq(Nat)]]
    BY <1>2
  <1>5. PICK f : Row(f, Seq(Nat), none, n, step)
    <2> HIDE DEF step, n, none
    <2>1. QED
      BY <1>2, <1>3, <1>4, RowExists
  <1>6. /\ f \in [0 .. n -> Seq(Nat)] /\ f[0] = <<>>
        /\ \A k \in 1 .. n : f[k] = Chosen(k, f[k - 1])
    <2>1. /\ f \in [0 .. n -> Seq(Nat)] /\ f[0] = none
          /\ \A k \in 1 .. n : f[k] = step[k][f[k - 1]]
      <3> HIDE DEF step, none
      <3>1. QED
        BY <1>5 DEF Row
    <2>2. \A k \in 1 .. n : f[k - 1] \in Seq(Nat) /\ step[k][f[k - 1]] = Chosen(k, f[k - 1])
      <3>1. \A k \in 1 .. n : k - 1 \in 0 .. n
        BY <1>2
      <3> HIDE DEF none, Chosen, n
      <3>2. \A k \in 1 .. n : f[k - 1] \in Seq(Nat)
        BY <2>1, <3>1
      <3>3. QED
        BY <3>2
    <2> HIDE DEF Chosen, step
    <2>3. QED
      BY <2>1, <2>2
  <1>7. Unfolds(f)
    <2>1. \A k \in 0 .. n : k # 0 => k \in 1 .. n
      BY <1>2
    <2>2. QED
      BY <1>6, <2>1
  <1>8. Unfolds(at)
    <2> HIDE DEF Unfolds
    <2>1. QED
      BY <1>7
  <1> HIDE DEF at
  <1>9. at[0] = <<>> /\ \A k \in 1 .. n : at[k] = Chosen(k, at[k - 1])
    <2>1. 0 \in 0 .. n /\ \A k \in 1 .. n : k \in 0 .. n /\ k # 0
      BY <1>2
    <2> HIDE DEF n
    <2>2. QED
      BY <1>8, <2>1
  <1>10. QED
    BY <1>1, <1>9 DEF Selected

\* What is selected beyond a word is in reading order, and beyond it.
LEMMA BeyondAscends ==
  ASSUME NEW reached \in Nat, NEW met, NEW i \in Nat, Ascending(met, i)
  PROVE  /\ Ascending(Beyond(reached, met), i)
         /\ \A k \in 1 .. Len(Beyond(reached, met)) : Beyond(reached, met)[k] > reached
  <1>0. met \in Seq(Nat)
    BY DEF Ascending
  <1>1. PICK at : Selected(at, reached, met) /\ Beyond(reached, met) = at[Len(met)]
    BY <1>0, BeyondSelects
  <1> DEFINE n == Len(met)
             \* how far the rest of the row lies
             Rest(k) == IF k < n THEN met[k + 1] ELSE i
             Good(k) == /\ Ascending(at[k], Rest(k))
                        /\ \A h \in 1 .. Len(at[k]) : at[k][h] > reached
             S == {k \in 0 .. n : Good(k)}
  <1>2. /\ n \in Nat /\ n \in 0 .. n /\ met \in Seq(Nat)
        /\ \A k \in 1 .. n : met[k] \in Nat /\ met[k] < i
        /\ \A j, k \in 1 .. n : j < k => met[j] < met[k]
    BY DEF Ascending
  <1>3. at[0] = <<>> /\ \A k \in 1 .. n :
          at[k] = IF met[k] > reached THEN Append(at[k - 1], met[k]) ELSE at[k - 1]
    BY <1>1 DEF Selected
  <1>4. 0 \in S
    <2>1. Ascending(<<>>, Rest(0)) /\ Len(<<>>) = 0
      BY DEF Ascending
    <2>2. QED
      BY <1>2, <1>3, <2>1
  <1>5. ASSUME NEW k \in 1 .. n, k - 1 \in S PROVE k \in S
    <2> DEFINE row == at[k - 1]
    <2>1. /\ k \in 0 .. n /\ Rest(k - 1) = met[k] /\ met[k] \in Nat
          /\ Rest(k) \in Nat /\ met[k] < Rest(k)
      BY <1>2
    <2>2. at[k] = IF met[k] > reached THEN Append(row, met[k]) ELSE row
      BY <1>3
    <2>3. Ascending(row, met[k]) /\ \A h \in 1 .. Len(row) : row[h] > reached
      BY <1>5, <2>1
    <2> HIDE DEF row, Rest
    <2>4. row \in Seq(Nat) /\ Len(row) \in Nat
      BY <2>3 DEF Ascending
    <2>5. CASE met[k] > reached
      <3>1. at[k] = Append(row, met[k])
        BY <2>2, <2>5
      <3>2. Ascending(at[k], Rest(k))
        BY <2>1, <2>3, <3>1, AscendingAppend
      <3>3. \A h \in 1 .. Len(at[k]) : at[k][h] > reached
        BY <2>1, <2>3, <2>4, <2>5, <3>1
      <3>4. QED
        BY <2>1, <3>2, <3>3
    <2>6. CASE ~(met[k] > reached)
      <3>1. at[k] = row
        BY <2>2, <2>6
      <3>2. Ascending(row, Rest(k))
        BY <2>1, <2>3, <2>4, SMTT(30) DEF Ascending
      <3>3. QED
        BY <2>1, <2>3, <3>1, <3>2
    <2>7. QED
      BY <2>5, <2>6
  <1>6. Good(n)
    <2>1. \A k \in 0 .. n : k \in S
      <3> HIDE DEF S, n
      <3>1. QED
        BY <1>2, <1>4, <1>5, RangeInduction
    <2> HIDE DEF Good
    <2>2. QED
      BY <1>2, <2>1
  <1>7. Rest(n) = i
    BY <1>2
  <1>8. Ascending(at[n], i) /\ \A h \in 1 .. Len(at[n]) : at[n][h] > reached
    <2> HIDE DEF Rest
    <2>1. QED
      BY <1>6, <1>7
  <1>9. QED
    BY <1>1, <1>8

\* What a transcript newly reaches is in reading order, and beyond the word reached.
LEMMA NewlyReachedAscends ==
  ASSUME NEW page, NEW T, page \in Seq(T), NEW spoken, Len(spoken) \in Nat,
         NEW reached \in Nat, NEW mode
  PROVE  /\ \E i \in Nat : Ascending(NewlyReached(page, spoken, reached, mode), i)
         /\ \A k \in 1 .. Len(NewlyReached(page, spoken, reached, mode)) :
              NewlyReached(page, spoken, reached, mode)[k] > reached
  <1> DEFINE left == SubSeq(page, reached + 1, Len(page))
             rest == Matches(left, spoken)
             moved == [k \in DOMAIN rest |-> rest[k] + reached]
             met == IF mode = "cumulative" THEN Matches(page, spoken) ELSE moved
  <1>1. NewlyReached(page, spoken, reached, mode) = Beyond(reached, met)
    BY DEF NewlyReached
  <1>2. Len(page) \in Nat /\ Len(left) \in Nat
    OBVIOUS
  <1> HIDE DEF left
  <1>3. PICK i \in Nat : Ascending(Matches(page, spoken), i)
    BY <1>2, MatchesAscend
  <1>4. PICK j \in Nat : Ascending(rest, j)
    BY <1>2, MatchesAscend
  <1> HIDE DEF rest
  <1>5. /\ moved \in Seq(Nat) /\ Len(moved) = Len(rest) /\ Len(rest) \in Nat
        /\ \A k \in 1 .. Len(rest) : moved[k] = rest[k] + reached /\ rest[k] \in Nat
    <2>1. rest \in Seq(Nat)
      BY <1>4 DEF Ascending
    <2>2. Len(rest) \in Nat /\ DOMAIN rest = 1 .. Len(rest) /\ \A k \in 1 .. Len(rest) : rest[k] \in Nat
      BY <2>1
    <2>3. moved \in [1 .. Len(rest) -> Nat]
      BY <2>2
    <2>4. QED
      BY <2>2, <2>3
  <1> HIDE DEF moved
  <1>6. Ascending(moved, j + reached)
    <2>1. \A k \in 1 .. Len(rest) : rest[k] < j
      BY <1>4 DEF Ascending
    <2>2. \A h, k \in 1 .. Len(rest) : h < k => rest[h] < rest[k]
      BY <1>4 DEF Ascending
    <2>3. \A k \in 1 .. Len(moved) : moved[k] < j + reached
      BY <1>5, <2>1
    <2>4. \A h, k \in 1 .. Len(moved) : h < k => moved[h] < moved[k]
      BY <1>5, <2>2
    <2>5. QED
      BY <1>5, <2>3, <2>4 DEF Ascending
  <1>7. \E h \in Nat : Ascending(met, h)
    <2>1. j + reached \in Nat
      OBVIOUS
    <2>2. QED
      BY <1>3, <1>6, <2>1
  <1> HIDE DEF met
  <1>8. PICK h \in Nat : Ascending(met, h)
    BY <1>7
  <1>9. QED
    BY <1>1, <1>8, BeyondAscends

-----------------------------------------------------------------------------
(* The table of the alignment, and what it holds.                          *)

\* The larger of two numbers.
LEMMA MaxOfTwo ==
  ASSUME NEW a \in Nat, NEW b \in Nat
  PROVE  Max({a, b}) = IF a >= b THEN a ELSE b
  BY DEF Max

\* A row that is filled from its end.
Back(f, D, a, n, step) ==
  /\ f \in [1 .. n + 1 -> D] /\ f[n + 1] = a
  /\ \A k \in 1 .. n : f[k] = step[k][f[k + 1]]

\* Such a row exists.
LEMMA BackExists ==
  ASSUME NEW D, NEW a \in D, NEW n \in Nat, NEW step \in [1 .. n -> [D -> D]]
  PROVE  \E f : Back(f, D, a, n, step)
  <1> DEFINE turned == [k \in 1 .. n |-> step[(n + 1) - k]]
  <1>1. turned \in [1 .. n -> [D -> D]]
    <2>1. \A k \in 1 .. n : (n + 1) - k \in 1 .. n
      OBVIOUS
    <2>2. QED
      BY <2>1
  <1>2. PICK g : Row(g, D, a, n, turned)
    <2> HIDE DEF turned
    <2>1. QED
      BY <1>1, RowExists
  <1>3. /\ g \in [0 .. n -> D] /\ g[0] = a
        /\ \A k \in 1 .. n : g[k] = turned[k][g[k - 1]]
    BY <1>2 DEF Row
  <1> DEFINE f == [k \in 1 .. n + 1 |-> g[(n + 1) - k]]
  <1>4. f \in [1 .. n + 1 -> D]
    <2>1. \A k \in 1 .. n + 1 : (n + 1) - k \in 0 .. n
      OBVIOUS
    <2>2. QED
      BY <1>3, <2>1
  <1>5. f[n + 1] = a
    BY <1>3
  <1>6. ASSUME NEW k \in 1 .. n PROVE f[k] = step[k][f[k + 1]]
    <2>1. /\ (n + 1) - k \in 1 .. n /\ (n + 1) - ((n + 1) - k) = k
          /\ ((n + 1) - k) - 1 = (n + 1) - (k + 1) /\ k \in 1 .. n + 1 /\ k + 1 \in 1 .. n + 1
      OBVIOUS
    <2>2. g[(n + 1) - k] = turned[(n + 1) - k][g[((n + 1) - k) - 1]]
      BY <1>3, <2>1
    <2>3. turned[(n + 1) - k] = step[k]
      BY <2>1
    <2>4. QED
      BY <2>1, <2>2, <2>3
  <1>7. Back(f, D, a, n, step)
    <2> HIDE DEF f
    <2>1. QED
      BY <1>4, <1>5, <1>6 DEF Back
  <1>8. QED
    <2> HIDE DEF f
    <2>1. QED
      BY <1>7

\* A row of the table, from the one below it.
RowFollows(row, page, spoken, i, below) ==
  /\ row \in [1 .. Len(spoken) + 1 -> Nat] /\ row[Len(spoken) + 1] = 0
  /\ \A j \in 1 .. Len(spoken) :
       row[j] = IF page[i] = spoken[j] THEN below[j + 1] + 1
                ELSE IF below[j] >= row[j + 1] THEN below[j] ELSE row[j + 1]

\* LengthsRow is such a row.
LEMMA LengthsRowFollows ==
  ASSUME NEW page, NEW spoken, Len(spoken) \in Nat, NEW i,
         NEW below \in [1 .. Len(spoken) + 1 -> Nat]
  PROVE  RowFollows(LengthsRow(page, spoken, i, below), page, spoken, i, below)
  <1> DEFINE n == Len(spoken)
             Entry(j, x) == IF page[i] = spoken[j] THEN below[j + 1] + 1
                           ELSE IF below[j] >= x THEN below[j] ELSE x
             step == [j \in 1 .. n |-> [x \in Nat |-> Entry(j, x)]]
             Unfolds(f) == f = [j \in 1 .. n + 1 |->
                                  IF j > n THEN 0
                                  ELSE IF page[i] = spoken[j] THEN below[j + 1] + 1
                                  ELSE Max({below[j], f[j + 1]})]
             at == CHOOSE f : Unfolds(f)
  <1>1. LengthsRow(page, spoken, i, below) = at
    BY DEF LengthsRow
  <1>2. n \in Nat /\ \A j \in 1 .. n : j \in 1 .. n + 1 /\ j + 1 \in 1 .. n + 1 /\ ~(j > n)
    OBVIOUS
  <1>3. \A j \in 1 .. n, x \in Nat : Entry(j, x) \in Nat
    BY <1>2
  <1>4. step \in [1 .. n -> [Nat -> Nat]]
    <2> HIDE DEF Entry
    <2>1. QED
      BY <1>3
  <1>5. PICK f : Back(f, Nat, 0, n, step)
    <2> HIDE DEF step, n
    <2>1. QED
      BY <1>2, <1>4, BackExists
  <1>6. /\ f \in [1 .. n + 1 -> Nat] /\ f[n + 1] = 0
        /\ \A j \in 1 .. n : f[j] = Entry(j, f[j + 1])
    <2>1. /\ f \in [1 .. n + 1 -> Nat] /\ f[n + 1] = 0
          /\ \A j \in 1 .. n : f[j] = step[j][f[j + 1]]
      <3> HIDE DEF step
      <3>1. QED
        BY <1>5 DEF Back
    <2>2. \A j \in 1 .. n : f[j + 1] \in Nat
      BY <1>2, <2>1
    <2> HIDE DEF Entry
    <2>3. QED
      BY <2>1, <2>2
  <1>7. \A j \in 1 .. n, x \in Nat : page[i] # spoken[j] => Max({below[j], x}) = Entry(j, x)
    <2>1. \A j \in 1 .. n : below[j] \in Nat
      BY <1>2
    <2>2. QED
      BY <2>1, MaxOfTwo
  <1>8. Unfolds(f)
    <2>1. \A j \in 1 .. n + 1 : j > n => j = n + 1
      BY <1>2
    <2>2. \A j \in 1 .. n + 1 : ~(j > n) => j \in 1 .. n
      BY <1>2
    <2>3. ASSUME NEW j \in 1 .. n + 1
          PROVE f[j] = IF j > n THEN 0
                       ELSE IF page[i] = spoken[j] THEN below[j + 1] + 1
                       ELSE Max({below[j], f[j + 1]})
      <3>1. CASE j > n
        BY <1>6, <2>1, <3>1
      <3>2. CASE ~(j > n)
        <4>1. j \in 1 .. n /\ f[j + 1] \in Nat /\ f[j] = Entry(j, f[j + 1])
          BY <1>2, <1>6, <2>2, <3>2
        <4>2. CASE page[i] = spoken[j]
          BY <3>2, <4>1, <4>2
        <4>3. CASE page[i] # spoken[j]
          <5>1. f[j] = Max({below[j], f[j + 1]})
            BY <1>7, <4>1, <4>3
          <5>2. QED
            BY <3>2, <4>3, <5>1
        <4>4. QED
          BY <4>2, <4>3
      <3>3. QED
        BY <3>1, <3>2
    <2>4. QED
      BY <1>6, <2>3
  <1>9. Unfolds(at)
    <2> HIDE DEF Unfolds
    <2>1. QED
      BY <1>8
  <1> HIDE DEF at
  <1>10. /\ at[n + 1] = 0
         /\ \A j \in 1 .. n : at[j] = IF page[i] = spoken[j] THEN below[j + 1] + 1
                                      ELSE Max({below[j], at[j + 1]})
    <2>1. n + 1 \in 1 .. n + 1 /\ n + 1 > n
      BY <1>2
    <2>2. QED
      BY <1>2, <1>9, <2>1
  <1> DEFINE S == {k \in 0 .. n : at[(n + 1) - k] = f[(n + 1) - k]}
  <1>11. \A k \in 0 .. n : k \in S
    <2>1. 0 \in S
      BY <1>2, <1>6, <1>10
    <2>2. ASSUME NEW k \in 1 .. n, k - 1 \in S PROVE k \in S
      <3> DEFINE j == (n + 1) - k
      <3>1. k \in 0 .. n /\ j \in 1 .. n /\ (n + 1) - (k - 1) = j + 1
        BY <1>2
      <3>2. at[j + 1] = f[j + 1]
        BY <2>2, <3>1
      <3>3. f[j + 1] \in Nat
        BY <1>2, <1>6, <3>1
      <3> HIDE DEF j
      <3>4. at[j] = f[j]
        <4>1. CASE page[i] = spoken[j]
          BY <1>6, <1>10, <3>1, <4>1
        <4>2. CASE page[i] # spoken[j]
          <5>1. at[j] = Max({below[j], f[j + 1]}) /\ f[j] = Entry(j, f[j + 1])
            BY <1>6, <1>10, <3>1, <3>2, <4>2
          <5>2. QED
            BY <1>7, <3>1, <3>3, <4>2, <5>1
        <4>3. QED
          BY <4>1, <4>2
      <3>5. QED
        BY <3>1, <3>4 DEF j
    <2>3. QED
      <3> HIDE DEF S, n
      <3>1. QED
        BY <1>2, <2>1, <2>2, RangeInduction
  <1>12. \A j \in 1 .. n + 1 : at[j] = f[j]
    <2>1. \A j \in 1 .. n + 1 : (n + 1) - j \in 0 .. n /\ (n + 1) - ((n + 1) - j) = j
      BY <1>2
    <2>2. \A j \in 1 .. n + 1 : (n + 1) - j \in S
      BY <1>11, <2>1
    <2>3. QED
      BY <2>1, <2>2
  <1>13. at \in [1 .. n + 1 -> Nat]
    <2>1. at = [j \in 1 .. n + 1 |-> at[j]]
      BY <1>9
    <2>2. \A j \in 1 .. n + 1 : at[j] \in Nat
      BY <1>6, <1>12
    <2>3. QED
      BY <2>1, <2>2
  <1>14. \A j \in 1 .. n : at[j] = Entry(j, at[j + 1])
    <2> HIDE DEF Entry
    <2>1. QED
      BY <1>2, <1>6, <1>12
  <1>15. QED
    BY <1>1, <1>10, <1>13, <1>14 DEF RowFollows

\* What the table holds: the rows follow one another from below.
Table(L, page, spoken) ==
  /\ L \in [1 .. Len(page) + 1 -> [1 .. Len(spoken) + 1 -> Nat]]
  /\ L[Len(page) + 1] = [j \in 1 .. Len(spoken) + 1 |-> 0]
  /\ \A i \in 1 .. Len(page) : RowFollows(L[i], page, spoken, i, L[i + 1])

\* Lengths is such a table.
LEMMA LengthsFits ==
  ASSUME NEW page, Len(page) \in Nat, NEW spoken, Len(spoken) \in Nat
  PROVE  Table(Lengths(page, spoken), page, spoken)
  <1> DEFINE m == Len(page)
             D == [1 .. Len(spoken) + 1 -> Nat]
             zero == [j \in 1 .. Len(spoken) + 1 |-> 0]
             Above(i, below) == LengthsRow(page, spoken, i, below)
             step == [i \in 1 .. m |-> [below \in D |-> Above(i, below)]]
             Unfolds(f) == f = [i \in 1 .. m + 1 |-> IF i > m THEN zero ELSE Above(i, f[i + 1])]
             at == CHOOSE f : Unfolds(f)
  <1>1. Lengths(page, spoken) = at
    BY DEF Lengths
  <1>2. m \in Nat /\ \A i \in 1 .. m : i \in 1 .. m + 1 /\ i + 1 \in 1 .. m + 1 /\ ~(i > m)
    OBVIOUS
  <1>3. zero \in D
    OBVIOUS
  <1>4. \A i, below : below \in D => RowFollows(Above(i, below), page, spoken, i, below)
    BY LengthsRowFollows
  <1>5. \A i, below : below \in D => Above(i, below) \in D
    <2> HIDE DEF Above
    <2>1. QED
      BY <1>4 DEF RowFollows
  <1> HIDE DEF Above, zero, D
  <1>6. step \in [1 .. m -> [D -> D]]
    BY <1>5
  <1>7. PICK f : Back(f, D, zero, m, step)
    <2> HIDE DEF step, m
    <2>1. QED
      BY <1>2, <1>3, <1>6, BackExists
  <1>8. /\ f \in [1 .. m + 1 -> D] /\ f[m + 1] = zero
        /\ \A i \in 1 .. m : f[i] = Above(i, f[i + 1])
    <2>1. /\ f \in [1 .. m + 1 -> D] /\ f[m + 1] = zero
          /\ \A i \in 1 .. m : f[i] = step[i][f[i + 1]]
      <3> HIDE DEF step
      <3>1. QED
        BY <1>7 DEF Back
    <2>2. \A i \in 1 .. m : f[i + 1] \in D
      BY <1>2, <2>1
    <2>3. QED
      BY <2>1, <2>2
  <1>9. Unfolds(f)
    <2>1. \A i \in 1 .. m + 1 : (i > m => i = m + 1) /\ (~(i > m) => i \in 1 .. m)
      BY <1>2
    <2>2. \A i \in 1 .. m + 1 : f[i] = IF i > m THEN zero ELSE Above(i, f[i + 1])
      BY <1>8, <2>1
    <2>3. QED
      BY <1>8, <2>2
  <1>10. Unfolds(at)
    <2> HIDE DEF Unfolds
    <2>1. QED
      BY <1>9
  <1> HIDE DEF at
  <1>11. at[m + 1] = zero /\ \A i \in 1 .. m : at[i] = Above(i, at[i + 1])
    <2>1. m + 1 \in 1 .. m + 1 /\ m + 1 > m
      BY <1>2
    <2>2. QED
      BY <1>2, <1>10, <2>1
  <1> DEFINE S == {k \in 0 .. m : at[(m + 1) - k] = f[(m + 1) - k]}
  <1>12. \A k \in 0 .. m : k \in S
    <2>1. 0 \in S
      BY <1>2, <1>8, <1>11
    <2>2. ASSUME NEW k \in 1 .. m, k - 1 \in S PROVE k \in S
      <3> DEFINE i == (m + 1) - k
      <3>1. k \in 0 .. m /\ i \in 1 .. m /\ (m + 1) - (k - 1) = i + 1
        BY <1>2
      <3>2. at[i + 1] = f[i + 1]
        BY <2>2, <3>1
      <3> HIDE DEF i
      <3>3. at[i] = f[i]
        BY <1>8, <1>11, <3>1, <3>2
      <3>4. QED
        BY <3>1, <3>3 DEF i
    <2>3. QED
      <3> HIDE DEF S, m
      <3>1. QED
        BY <1>2, <2>1, <2>2, RangeInduction
  <1>13. \A i \in 1 .. m + 1 : at[i] = f[i]
    <2>1. \A i \in 1 .. m + 1 : (m + 1) - i \in 0 .. m /\ (m + 1) - ((m + 1) - i) = i
      BY <1>2
    <2>2. \A i \in 1 .. m + 1 : (m + 1) - i \in S
      BY <1>12, <2>1
    <2>3. QED
      BY <2>1, <2>2
  <1>14. at \in [1 .. m + 1 -> D]
    <2>1. at = [i \in 1 .. m + 1 |-> at[i]]
      BY <1>10
    <2>2. \A i \in 1 .. m + 1 : at[i] \in D
      BY <1>8, <1>13
    <2>3. QED
      BY <2>1, <2>2
  <1>15. \A i \in 1 .. m : RowFollows(at[i], page, spoken, i, at[i + 1])
    <2>1. \A i \in 1 .. m : at[i + 1] \in D
      BY <1>2, <1>14
    <2>2. QED
      BY <1>4, <1>11, <2>1
  <1>16. QED
    BY <1>1, <1>11, <1>14, <1>15 DEF Table, D, zero

\* Entry by entry.
LEMMA TableEntries ==
  ASSUME NEW page, Len(page) \in Nat, NEW spoken, Len(spoken) \in Nat, NEW L,
         Table(L, page, spoken)
  PROVE  /\ \A i \in 1 .. Len(page) + 1, j \in 1 .. Len(spoken) + 1 :
              L[i][j] \in Nat /\ (i > Len(page) \/ j > Len(spoken) => L[i][j] = 0)
         /\ \A i \in 1 .. Len(page), j \in 1 .. Len(spoken) :
              L[i][j] = IF page[i] = spoken[j] THEN L[i + 1][j + 1] + 1
                        ELSE IF L[i + 1][j] >= L[i][j + 1] THEN L[i + 1][j] ELSE L[i][j + 1]
  <1> DEFINE m == Len(page)
             n == Len(spoken)
  <1>1. /\ L \in [1 .. m + 1 -> [1 .. n + 1 -> Nat]] /\ m \in Nat /\ n \in Nat
        /\ L[m + 1] = [j \in 1 .. n + 1 |-> 0]
    BY DEF Table
  <1>2. ASSUME NEW i \in 1 .. m
        PROVE  /\ L[i][n + 1] = 0
               /\ \A j \in 1 .. n :
                    L[i][j] = IF page[i] = spoken[j] THEN L[i + 1][j + 1] + 1
                              ELSE IF L[i + 1][j] >= L[i][j + 1] THEN L[i + 1][j] ELSE L[i][j + 1]
    BY DEF Table, RowFollows
  <1>3. ASSUME NEW i \in 1 .. m + 1, NEW j \in 1 .. n + 1, i > m \/ j > n PROVE L[i][j] = 0
    <2>1. CASE i > m
      <3>1. i = m + 1
        BY <1>1, <2>1
      <3>2. QED
        BY <1>1, <3>1
    <2>2. CASE ~(i > m)
      <3>1. i \in 1 .. m /\ j = n + 1
        BY <1>1, <1>3, <2>2
      <3>2. QED
        BY <1>2, <3>1
    <2>3. QED
      BY <2>1, <2>2
  <1>4. \A i \in 1 .. m + 1, j \in 1 .. n + 1 : L[i][j] \in Nat
    BY <1>1
  <1>5. QED
    BY <1>2, <1>3, <1>4

-----------------------------------------------------------------------------
(* Alignments, and how long they can be.                                   *)

\* Induction over the places of the table, from its last row and column.
LEMMA TableInduction ==
  ASSUME NEW m \in Nat, NEW n \in Nat, NEW Good,
         \A i \in 1 .. m + 1, j \in 1 .. n + 1 :
            \/ i > m
            \/ j > n
            \/ <<i + 1, j + 1>> \in Good /\ <<i + 1, j>> \in Good /\ <<i, j + 1>> \in Good
            => <<i, j>> \in Good
  PROVE  \A i \in 1 .. m + 1, j \in 1 .. n + 1 : <<i, j>> \in Good
  <1> DEFINE Left(i, j) == ((m + 1) - i) + ((n + 1) - j)
             S == {d \in Nat : \A i \in 1 .. m + 1, j \in 1 .. n + 1 :
                                 Left(i, j) <= d => <<i, j>> \in Good}
  <1>1. 0 \in S
    <2>1. ASSUME NEW i \in 1 .. m + 1, NEW j \in 1 .. n + 1, Left(i, j) <= 0
          PROVE  <<i, j>> \in Good
      <3>1. i > m
        BY <2>1
      <3>2. QED
        BY <3>1
    <2>2. QED
      BY <2>1
  <1>2. ASSUME NEW d \in Nat, d \in S PROVE d + 1 \in S
    <2>1. ASSUME NEW i \in 1 .. m + 1, NEW j \in 1 .. n + 1, Left(i, j) <= d + 1
          PROVE  <<i, j>> \in Good
      <3>1. CASE i > m \/ j > n
        BY <3>1
      <3>2. CASE ~(i > m) /\ ~(j > n)
        <4>1. /\ i + 1 \in 1 .. m + 1 /\ j + 1 \in 1 .. n + 1
              /\ Left(i + 1, j + 1) <= d /\ Left(i + 1, j) <= d /\ Left(i, j + 1) <= d
          BY <2>1, <3>2
        <4>2. /\ <<i + 1, j + 1>> \in Good /\ <<i + 1, j>> \in Good /\ <<i, j + 1>> \in Good
          <5> HIDE DEF Left
          <5>1. QED
            BY <1>2, <4>1
        <4>3. QED
          BY <4>2
      <3>3. QED
        BY <3>1, <3>2
    <2>2. QED
      BY <2>1
  <1>3. \A d \in Nat : d \in S
    <2> HIDE DEF S
    <2>1. QED
      BY <1>1, <1>2, SetInduction
  <1>4. ASSUME NEW i \in 1 .. m + 1, NEW j \in 1 .. n + 1 PROVE <<i, j>> \in Good
    <2>1. Left(i, j) \in Nat
      OBVIOUS
    <2>2. Left(i, j) \in S
      <3> HIDE DEF S
      <3>1. QED
        BY <1>3, <2>1
    <2>3. Left(i, j) <= Left(i, j)
      BY <2>1
    <2>4. QED
      BY <2>2, <2>3
  <1>5. QED
    BY <1>4

\* Places on the page, and spoken words that meet them in order, from (i, j) on.
Chain(page, spoken, p, s, i, j) ==
  /\ p \in Seq(Nat) /\ s \in Seq(Nat) /\ Len(p) = Len(s)
  /\ \A k \in 1 .. Len(p) :
       /\ i <= p[k] /\ p[k] <= Len(page) /\ j <= s[k] /\ s[k] <= Len(spoken)
       /\ page[p[k]] = spoken[s[k]]
  /\ \A k, l \in 1 .. Len(p) : k < l => p[k] < p[l] /\ s[k] < s[l]

\* What is left of a chain after its first place.
LEMMA ChainRest ==
  ASSUME NEW page, NEW spoken, NEW p, NEW s, NEW i \in Nat, NEW j \in Nat,
         Chain(page, spoken, p, s, i, j), p # <<>>
  PROVE  /\ Chain(page, spoken, Tail(p), Tail(s), p[1] + 1, s[1] + 1)
         /\ Chain(page, spoken, Tail(p), Tail(s), i + 1, j + 1)
         /\ Len(Tail(p)) = Len(p) - 1 /\ Len(p) \in Nat /\ p[1] \in Nat /\ s[1] \in Nat
         /\ i <= p[1] /\ p[1] <= Len(page) /\ j <= s[1] /\ s[1] <= Len(spoken)
         /\ page[p[1]] = spoken[s[1]]
  <1> DEFINE pr == Tail(p)
             sr == Tail(s)
  <1>1. /\ p \in Seq(Nat) /\ s \in Seq(Nat) /\ Len(p) = Len(s) /\ Len(p) \in Nat /\ 1 \in 1 .. Len(p)
        /\ s # <<>>
    BY DEF Chain
  <1>2. /\ pr \in Seq(Nat) /\ sr \in Seq(Nat) /\ Len(pr) = Len(p) - 1 /\ Len(sr) = Len(pr)
        /\ Len(pr) \in Nat /\ \A k \in 1 .. Len(pr) : pr[k] = p[k + 1] /\ sr[k] = s[k + 1]
    BY <1>1
  <1> HIDE DEF pr, sr
  <1>3. \A k \in 1 .. Len(pr) : k + 1 \in 1 .. Len(p) /\ 1 < k + 1
    BY <1>1, <1>2
  <1>4. /\ p[1] \in Nat /\ s[1] \in Nat /\ \A k \in 1 .. Len(p) : p[k] \in Nat /\ s[k] \in Nat
    BY <1>1
  <1>5. /\ i <= p[1] /\ p[1] <= Len(page) /\ j <= s[1] /\ s[1] <= Len(spoken)
        /\ page[p[1]] = spoken[s[1]]
    BY <1>1 DEF Chain
  <1>6. ASSUME NEW k \in 1 .. Len(pr)
        PROVE  /\ p[1] + 1 <= pr[k] /\ pr[k] <= Len(page)
               /\ s[1] + 1 <= sr[k] /\ sr[k] <= Len(spoken)
               /\ page[pr[k]] = spoken[sr[k]]
    <2>1. p[1] < p[k + 1] /\ s[1] < s[k + 1]
      BY <1>1, <1>3 DEF Chain
    <2>2. p[k + 1] <= Len(page) /\ s[k + 1] <= Len(spoken) /\ page[p[k + 1]] = spoken[s[k + 1]]
      BY <1>3 DEF Chain
    <2>3. p[k + 1] \in Nat /\ s[k + 1] \in Nat
      BY <1>3, <1>4
    <2>4. p[1] + 1 <= p[k + 1] /\ s[1] + 1 <= s[k + 1]
      BY <1>4, <2>1, <2>3
    <2>5. pr[k] = p[k + 1] /\ sr[k] = s[k + 1]
      BY <1>2
    <2>6. QED
      BY <2>2, <2>4, <2>5
  <1>7. ASSUME NEW k \in 1 .. Len(pr), NEW l \in 1 .. Len(pr), k < l
        PROVE  pr[k] < pr[l] /\ sr[k] < sr[l]
    <2>1. k + 1 < l + 1
      BY <1>7
    <2>2. p[k + 1] < p[l + 1] /\ s[k + 1] < s[l + 1]
      BY <1>3, <2>1 DEF Chain
    <2>3. QED
      BY <1>2, <2>2
  <1>8. Chain(page, spoken, pr, sr, p[1] + 1, s[1] + 1)
    BY <1>2, <1>6, <1>7 DEF Chain
  <1>9. ASSUME NEW k \in 1 .. Len(pr) PROVE i + 1 <= pr[k] /\ j + 1 <= sr[k]
    <2>1. pr[k] \in Nat /\ sr[k] \in Nat
      BY <1>2
    <2>2. p[1] + 1 <= pr[k] /\ s[1] + 1 <= sr[k]
      BY <1>6
    <2>3. /\ p[1] \in Nat /\ s[1] \in Nat /\ i <= p[1] /\ j <= s[1]
      BY <1>4, <1>5
    <2>4. QED
      BY <2>1, <2>2, <2>3, SMTT(30)
  <1>10. Chain(page, spoken, pr, sr, i + 1, j + 1)
    BY <1>2, <1>6, <1>7, <1>9 DEF Chain
  <1>11. QED
    BY <1>1, <1>2, <1>4, <1>5, <1>8, <1>10 DEF pr, sr

\* Where a chain begins.
LEMMA ChainFirst ==
  ASSUME NEW page, NEW spoken, NEW p, NEW s, NEW i, NEW j,
         Chain(page, spoken, p, s, i, j), p # <<>>
  PROVE  /\ Len(p) \in Nat /\ p[1] \in Nat /\ s[1] \in Nat
         /\ i <= p[1] /\ p[1] <= Len(page) /\ j <= s[1] /\ s[1] <= Len(spoken)
         /\ page[p[1]] = spoken[s[1]]
  <1>1. p \in Seq(Nat) /\ s \in Seq(Nat) /\ Len(p) = Len(s) /\ Len(p) \in Nat /\ 1 \in 1 .. Len(p)
    BY DEF Chain
  <1>2. p[1] \in Nat /\ s[1] \in Nat
    BY <1>1
  <1>3. QED
    BY <1>1, <1>2 DEF Chain

\* A chain that begins later.
LEMMA ChainFrom ==
  ASSUME NEW page, NEW spoken, NEW p, NEW s, NEW i, NEW j,
         Chain(page, spoken, p, s, i, j), NEW g \in Nat, NEW h \in Nat,
         p = <<>> \/ (g <= p[1] /\ h <= s[1])
  PROVE  Chain(page, spoken, p, s, g, h)
  <1>1. /\ p \in Seq(Nat) /\ s \in Seq(Nat) /\ Len(p) = Len(s) /\ Len(p) \in Nat
        /\ \A k \in 1 .. Len(p) : p[k] \in Nat /\ s[k] \in Nat
    BY SMTT(30) DEF Chain
  <1>2. ASSUME NEW k \in 1 .. Len(p) PROVE g <= p[k] /\ h <= s[k]
    <2>1. 1 \in 1 .. Len(p) /\ p # <<>>
      BY <1>1
    <2>2. CASE k = 1
      BY <2>1, <2>2
    <2>3. CASE k # 1
      <3>1. 1 < k
        BY <2>3
      <3>2. p[1] < p[k] /\ s[1] < s[k]
        BY <2>1, <3>1 DEF Chain
      <3>3. QED
        BY <1>1, <2>1, <3>2
    <2>4. QED
      BY <2>2, <2>3
  <1>3. QED
    BY <1>1, <1>2 DEF Chain

Bounded(L, page, spoken, i, j) ==
  \A p, s : Chain(page, spoken, p, s, i, j) => Len(p) <= L[i][j]

\* No chain has more places than the table says.
LEMMA ChainsBounded ==
  ASSUME NEW page, Len(page) \in Nat, NEW spoken, Len(spoken) \in Nat, NEW L,
         Table(L, page, spoken)
  PROVE  \A i \in 1 .. Len(page) + 1, j \in 1 .. Len(spoken) + 1 :
           Bounded(L, page, spoken, i, j)
  <1> DEFINE m == Len(page)
             n == Len(spoken)
             Good == {ij \in (1 .. m + 1) \X (1 .. n + 1) :
                        Bounded(L, page, spoken, ij[1], ij[2])}
  <1>1. /\ \A i \in 1 .. m + 1, j \in 1 .. n + 1 :
             L[i][j] \in Nat /\ (i > m \/ j > n => L[i][j] = 0)
        /\ \A i \in 1 .. m, j \in 1 .. n :
             L[i][j] = IF page[i] = spoken[j] THEN L[i + 1][j + 1] + 1
                       ELSE IF L[i + 1][j] >= L[i][j + 1] THEN L[i + 1][j] ELSE L[i][j + 1]
    BY TableEntries
  <1>2. m \in Nat /\ n \in Nat
    OBVIOUS
  <1>3. ASSUME NEW i \in 1 .. m + 1, NEW j \in 1 .. n + 1, i > m \/ j > n
        PROVE  Bounded(L, page, spoken, i, j)
    <2>1. ASSUME NEW p, NEW s, Chain(page, spoken, p, s, i, j) PROVE Len(p) <= L[i][j]
      <3>1. p = <<>>
        <4>1. ASSUME p # <<>> PROVE FALSE
          <5>1. i <= p[1] /\ p[1] <= m /\ j <= s[1] /\ s[1] <= n /\ p[1] \in Nat /\ s[1] \in Nat
            BY <2>1, <4>1, ChainFirst
          <5>2. QED
            BY <1>2, <1>3, <5>1
        <4>2. QED
          BY <4>1
      <3>2. Len(p) = 0
        BY <3>1
      <3>3. QED
        BY <1>1, <1>3, <3>2
    <2>2. QED
      BY <2>1 DEF Bounded
  <1>4. ASSUME NEW i \in 1 .. m, NEW j \in 1 .. n,
               Bounded(L, page, spoken, i + 1, j + 1), Bounded(L, page, spoken, i + 1, j),
               Bounded(L, page, spoken, i, j + 1)
        PROVE  Bounded(L, page, spoken, i, j)
    <2>3. /\ i \in 1 .. m + 1 /\ j \in 1 .. n + 1 /\ i + 1 \in 1 .. m + 1 /\ j + 1 \in 1 .. n + 1
          /\ i \in Nat /\ j \in Nat
      BY <1>2
    <2>0. /\ L[i][j] \in Nat /\ L[i + 1][j] \in Nat /\ L[i][j + 1] \in Nat
          /\ L[i + 1][j + 1] \in Nat
          /\ L[i][j] = IF page[i] = spoken[j] THEN L[i + 1][j + 1] + 1
                       ELSE IF L[i + 1][j] >= L[i][j + 1] THEN L[i + 1][j] ELSE L[i][j + 1]
      BY <1>1, <2>3
    <2>1. ASSUME NEW p, NEW s, Chain(page, spoken, p, s, i, j) PROVE Len(p) <= L[i][j]
      <3>1. CASE p = <<>>
        BY <2>0, <3>1
      <3>2. CASE p # <<>>
        <4>1. /\ Len(p) \in Nat /\ p[1] \in Nat /\ s[1] \in Nat
              /\ i <= p[1] /\ p[1] <= m /\ j <= s[1] /\ s[1] <= n
              /\ page[p[1]] = spoken[s[1]]
          BY <2>1, <3>2, ChainFirst
        <4>6. Chain(page, spoken, Tail(p), Tail(s), i + 1, j + 1) /\ Len(Tail(p)) = Len(p) - 1
          BY <2>1, <2>3, <3>2, ChainRest
        <4>2. CASE page[i] = spoken[j]
          <5>1. Len(Tail(p)) <= L[i + 1][j + 1]
            BY <1>4, <4>6 DEF Bounded
          <5>2. QED
            BY <2>0, <4>1, <4>2, <4>6, <5>1, SMTT(30)
        <4>3. CASE page[i] # spoken[j] /\ p[1] # i
          <5>1. i + 1 <= p[1] /\ i + 1 \in Nat /\ j \in Nat
            BY <4>1, <4>3
          <5>2. Chain(page, spoken, p, s, i + 1, j)
            BY <2>1, <4>1, <5>1, ChainFrom
          <5>3. Len(p) <= L[i + 1][j]
            BY <1>4, <5>2 DEF Bounded
          <5>4. QED
            BY <2>0, <4>1, <4>3, <5>3, SMTT(30)
        <4>4. CASE page[i] # spoken[j] /\ p[1] = i
          <5>1. s[1] # j
            BY <4>1, <4>4
          <5>2. j + 1 <= s[1] /\ j + 1 \in Nat /\ i \in Nat
            BY <4>1, <5>1
          <5>3. Chain(page, spoken, p, s, i, j + 1)
            BY <2>1, <4>1, <5>2, ChainFrom
          <5>4. Len(p) <= L[i][j + 1]
            BY <1>4, <5>3 DEF Bounded
          <5>5. QED
            BY <2>0, <4>1, <4>4, <5>4, SMTT(30)
        <4>5. QED
          BY <4>2, <4>3, <4>4
      <3>3. QED
        BY <3>1, <3>2
    <2>2. QED
      BY <2>1 DEF Bounded
  <1>5. ASSUME NEW i \in 1 .. m + 1, NEW j \in 1 .. n + 1,
               \/ i > m
               \/ j > n
               \/ <<i + 1, j + 1>> \in Good /\ <<i + 1, j>> \in Good /\ <<i, j + 1>> \in Good
        PROVE  <<i, j>> \in Good
    <2>1. CASE i > m \/ j > n
      BY <1>3, <2>1
    <2>2. CASE ~(i > m) /\ ~(j > n)
      <3>1. i \in 1 .. m /\ j \in 1 .. n
        BY <1>2, <2>2
      <3>2. /\ Bounded(L, page, spoken, i + 1, j + 1) /\ Bounded(L, page, spoken, i + 1, j)
            /\ Bounded(L, page, spoken, i, j + 1)
        BY <1>5, <2>2
      <3>3. Bounded(L, page, spoken, i, j)
        BY <1>4, <3>1, <3>2
      <3>4. QED
        BY <3>3
    <2>3. QED
      BY <2>1, <2>2
  <1>6. \A i \in 1 .. m + 1, j \in 1 .. n + 1 : <<i, j>> \in Good
    <2> HIDE DEF Good, m, n
    <2>1. QED
      BY <1>2, <1>5, TableInduction
  <1>7. QED
    BY <1>6

-----------------------------------------------------------------------------
(* The earliest of the longest alignments.                                 *)

\* Places that spoken words from j on meet on the page from i on.
Meets(page, spoken, p, i, j) == \E s : Chain(page, spoken, p, s, i, j)

\* The earliest of the longest alignments that are left from (i, j) on.
Best(L, page, spoken, p, i, j) ==
  /\ Meets(page, spoken, p, i, j)
  /\ Len(p) = L[i][j]
  /\ \A q : Meets(page, spoken, q, i, j) /\ Len(q) = L[i][j] => ComesFirst(p, q)

\* An alignment is a sequence of places.
LEMMA MeetsFits ==
  ASSUME NEW page, NEW spoken, NEW p, NEW i, NEW j, Meets(page, spoken, p, i, j)
  PROVE  p \in Seq(Nat) /\ Len(p) \in Nat /\ DOMAIN p = 1 .. Len(p)
  BY DEF Meets, Chain

\* A word put before an alignment.
Put(i, t) == <<i>> \o t

\* What such a row holds.
LEMMA PutFits ==
  ASSUME NEW i \in Nat, NEW t \in Seq(Nat)
  PROVE  /\ Put(i, t) \in Seq(Nat) /\ Len(Put(i, t)) = Len(t) + 1 /\ Len(t) \in Nat
         /\ Put(i, t)[1] = i /\ \A k \in 1 .. Len(t) : Put(i, t)[k + 1] = t[k]
         /\ \A k \in 2 .. Len(t) + 1 : Put(i, t)[k] = t[k - 1]
  BY DEF Put

\* A row that is not empty is its first place put before the others.
LEMMA PutBack ==
  ASSUME NEW q \in Seq(Nat), q # <<>>
  PROVE  q = Put(q[1], Tail(q)) /\ q[1] \in Nat /\ Tail(q) \in Seq(Nat) /\ Len(Tail(q)) = Len(q) - 1
  BY DEF Put

\* A word that meets is put before an alignment of what comes after.
LEMMA ChainPut ==
  ASSUME NEW page, Len(page) \in Nat, NEW spoken, Len(spoken) \in Nat,
         NEW i \in 1 .. Len(page), NEW j \in 1 .. Len(spoken), page[i] = spoken[j],
         NEW t, NEW s, Chain(page, spoken, t, s, i + 1, j + 1)
  PROVE  Chain(page, spoken, Put(i, t), Put(j, s), i, j)
  <1> DEFINE p == Put(i, t)
             z == Put(j, s)
  <1>1. /\ t \in Seq(Nat) /\ s \in Seq(Nat) /\ Len(t) = Len(s) /\ i \in Nat /\ j \in Nat
        /\ Len(t) \in Nat /\ \A k \in 1 .. Len(t) : t[k] \in Nat /\ s[k] \in Nat
    BY SMTT(30) DEF Chain
  <1>2. /\ p \in Seq(Nat) /\ z \in Seq(Nat) /\ Len(p) = Len(t) + 1 /\ Len(z) = Len(p)
        /\ p[1] = i /\ z[1] = j
        /\ \A k \in 2 .. Len(t) + 1 : p[k] = t[k - 1] /\ z[k] = s[k - 1]
    <2>1. /\ p \in Seq(Nat) /\ Len(p) = Len(t) + 1 /\ p[1] = i
          /\ \A k \in 2 .. Len(t) + 1 : p[k] = t[k - 1]
      BY <1>1, PutFits
    <2>2. /\ z \in Seq(Nat) /\ Len(z) = Len(s) + 1 /\ z[1] = j
          /\ \A k \in 2 .. Len(s) + 1 : z[k] = s[k - 1]
      BY <1>1, PutFits
    <2> HIDE DEF p, z
    <2>3. QED
      BY <1>1, <2>1, <2>2
  <1> HIDE DEF p, z
  <1>3. ASSUME NEW k \in 1 .. Len(p)
        PROVE  k = 1 \/ (k \in 2 .. Len(t) + 1 /\ k - 1 \in 1 .. Len(t))
    BY <1>1, <1>2
  <1>4. ASSUME NEW k \in 1 .. Len(t)
        PROVE  /\ i < t[k] /\ t[k] <= Len(page) /\ j < s[k] /\ s[k] <= Len(spoken)
               /\ page[t[k]] = spoken[s[k]] /\ t[k] \in Nat /\ s[k] \in Nat
    <2>1. /\ i + 1 <= t[k] /\ t[k] <= Len(page) /\ j + 1 <= s[k] /\ s[k] <= Len(spoken)
          /\ page[t[k]] = spoken[s[k]]
      BY DEF Chain
    <2>2. t[k] \in Nat /\ s[k] \in Nat
      BY <1>1
    <2>3. QED
      BY <1>1, <2>1, <2>2, SMTT(30)
  <1>5. ASSUME NEW k \in 1 .. Len(p)
        PROVE  /\ i <= p[k] /\ p[k] <= Len(page) /\ j <= z[k] /\ z[k] <= Len(spoken)
               /\ page[p[k]] = spoken[z[k]]
    <2>1. CASE k = 1
      BY <1>2, <2>1
    <2>2. CASE k # 1
      <3>1. k \in 2 .. Len(t) + 1 /\ k - 1 \in 1 .. Len(t)
        BY <1>3, <2>2
      <3>2. p[k] = t[k - 1] /\ z[k] = s[k - 1]
        BY <1>2, <3>1
      <3>3. /\ i < t[k - 1] /\ t[k - 1] <= Len(page) /\ j < s[k - 1] /\ s[k - 1] <= Len(spoken)
            /\ page[t[k - 1]] = spoken[s[k - 1]] /\ t[k - 1] \in Nat /\ s[k - 1] \in Nat
        BY <1>4, <3>1
      <3>4. QED
        BY <1>1, <3>2, <3>3, SMTT(30)
    <2>3. QED
      BY <2>1, <2>2
  <1>6. ASSUME NEW k \in 1 .. Len(p), NEW l \in 1 .. Len(p), k < l
        PROVE  p[k] < p[l] /\ z[k] < z[l]
    <2>1. l \in 2 .. Len(t) + 1 /\ l - 1 \in 1 .. Len(t)
      BY <1>3, <1>6
    <2>2. p[l] = t[l - 1] /\ z[l] = s[l - 1]
      BY <1>2, <2>1
    <2>3. CASE k = 1
      BY <1>2, <1>4, <2>1, <2>2, <2>3
    <2>4. CASE k # 1
      <3>1. k \in 2 .. Len(t) + 1 /\ k - 1 \in 1 .. Len(t) /\ k - 1 < l - 1
        BY <1>3, <1>6, <2>4
      <3>2. p[k] = t[k - 1] /\ z[k] = s[k - 1]
        BY <1>2, <3>1
      <3>3. t[k - 1] < t[l - 1] /\ s[k - 1] < s[l - 1]
        BY <2>1, <3>1 DEF Chain
      <3>4. QED
        BY <2>2, <3>2, <3>3
    <2>5. QED
      BY <2>3, <2>4
  <1>7. Chain(page, spoken, p, z, i, j)
    BY <1>2, <1>5, <1>6 DEF Chain
  <1>8. QED
    BY <1>7 DEF p, z

\* The same word put before two alignments leaves their order.
LEMMA FirstPut ==
  ASSUME NEW i \in Nat, NEW t \in Seq(Nat), NEW r \in Seq(Nat), Len(t) = Len(r), ComesFirst(t, r)
  PROVE  ComesFirst(Put(i, t), Put(i, r))
  <1> DEFINE p == Put(i, t)
             q == Put(i, r)
  <1>1. /\ p \in Seq(Nat) /\ q \in Seq(Nat) /\ Len(p) = Len(t) + 1 /\ Len(t) \in Nat
        /\ p[1] = i /\ q[1] = i
        /\ \A k \in 2 .. Len(t) + 1 : p[k] = t[k - 1] /\ q[k] = r[k - 1]
        /\ \A k \in 1 .. Len(t) : p[k + 1] = t[k] /\ q[k + 1] = r[k]
    <2>1. /\ p \in Seq(Nat) /\ Len(p) = Len(t) + 1 /\ p[1] = i /\ Len(t) \in Nat
          /\ \A k \in 2 .. Len(t) + 1 : p[k] = t[k - 1]
          /\ \A k \in 1 .. Len(t) : p[k + 1] = t[k]
      BY PutFits
    <2>2. /\ q \in Seq(Nat) /\ q[1] = i
          /\ \A k \in 2 .. Len(r) + 1 : q[k] = r[k - 1]
          /\ \A k \in 1 .. Len(r) : q[k + 1] = r[k]
      BY PutFits
    <2> HIDE DEF p, q
    <2>3. QED
      BY <2>1, <2>2
  <1>2. CASE t = r
    BY <1>2 DEF ComesFirst
  <1>3. CASE t # r
    <2> HIDE DEF p, q
    <2>1. PICK k \in DOMAIN t : t[k] < r[k] /\ \A x \in 1 .. k - 1 : t[x] = r[x]
      BY <1>3 DEF ComesFirst
    <2>2. DOMAIN t = 1 .. Len(t) /\ DOMAIN p = 1 .. Len(p) /\ k \in 1 .. Len(t)
      BY <1>1, <2>1, SMTT(30)
    <2>3. k + 1 \in DOMAIN p /\ p[k + 1] = t[k] /\ q[k + 1] = r[k]
      <3>1. Len(t) \in Nat /\ Len(p) = Len(t) + 1
        BY <1>1
      <3>2. k + 1 \in 1 .. Len(p)
        BY <2>2, <3>1
      <3>3. p[k + 1] = t[k] /\ q[k + 1] = r[k]
        BY <1>1, <2>2
      <3>4. QED
        BY <2>2, <3>2, <3>3
    <2>4. ASSUME NEW x \in 1 .. (k + 1) - 1 PROVE p[x] = q[x]
      <3>1. CASE x = 1
        BY <1>1, <3>1
      <3>2. CASE x # 1
        <4>1. x \in 2 .. Len(t) + 1 /\ x - 1 \in 1 .. k - 1
          <5>1. Len(t) \in Nat /\ k \in 1 .. Len(t)
            BY <1>1, <2>2
          <5>2. QED
            BY <3>2, <5>1
        <4>2. QED
          BY <1>1, <2>1, <4>1
      <3>3. QED
        BY <3>1, <3>2
    <2>5. ComesFirst(p, q)
      BY <2>1, <2>3, <2>4 DEF ComesFirst
    <2>6. QED
      BY <2>5 DEF p, q
  <1>4. QED
    BY <1>2, <1>3

\* Where nothing is left to meet, the empty alignment is the best.
LEMMA BestAtEnd ==
  ASSUME NEW L, NEW page, NEW spoken, NEW i \in Nat, NEW j \in Nat, L[i][j] = 0
  PROVE  Best(L, page, spoken, <<>>, i, j)
  <1>1. Chain(page, spoken, <<>>, <<>>, i, j)
    BY DEF Chain
  <1>2. \A q : Meets(page, spoken, q, i, j) /\ Len(q) = 0 => q = <<>>
    BY MeetsFits
  <1>3. QED
    BY <1>1, <1>2 DEF Best, Meets, ComesFirst

\* What the table says of a place and of the three after it.
LEMMA TableAt ==
  ASSUME NEW page, Len(page) \in Nat, NEW spoken, Len(spoken) \in Nat, NEW L,
         Table(L, page, spoken), NEW i \in 1 .. Len(page), NEW j \in 1 .. Len(spoken)
  PROVE  /\ i \in Nat /\ j \in Nat
         /\ L[i][j] \in Nat /\ L[i + 1][j] \in Nat /\ L[i][j + 1] \in Nat
         /\ L[i + 1][j + 1] \in Nat
         /\ L[i][j] = IF page[i] = spoken[j] THEN L[i + 1][j + 1] + 1
                      ELSE IF L[i + 1][j] >= L[i][j + 1] THEN L[i + 1][j] ELSE L[i][j + 1]
         /\ Bounded(L, page, spoken, i, j) /\ Bounded(L, page, spoken, i + 1, j)
         /\ Bounded(L, page, spoken, i, j + 1) /\ Bounded(L, page, spoken, i + 1, j + 1)
  <1>1. /\ i \in 1 .. Len(page) + 1 /\ i + 1 \in 1 .. Len(page) + 1
        /\ j \in 1 .. Len(spoken) + 1 /\ j + 1 \in 1 .. Len(spoken) + 1 /\ i \in Nat /\ j \in Nat
    OBVIOUS
  <1>2. /\ L[i][j] \in Nat /\ L[i + 1][j] \in Nat /\ L[i][j + 1] \in Nat
        /\ L[i + 1][j + 1] \in Nat
    BY <1>1, TableEntries
  <1>3. L[i][j] = IF page[i] = spoken[j] THEN L[i + 1][j + 1] + 1
                  ELSE IF L[i + 1][j] >= L[i][j + 1] THEN L[i + 1][j] ELSE L[i][j + 1]
    <2>1. \A g \in 1 .. Len(page), h \in 1 .. Len(spoken) :
             L[g][h] = IF page[g] = spoken[h] THEN L[g + 1][h + 1] + 1
                       ELSE IF L[g + 1][h] >= L[g][h + 1] THEN L[g + 1][h] ELSE L[g][h + 1]
      BY TableEntries
    <2>2. QED
      BY <2>1
  <1>4. /\ Bounded(L, page, spoken, i, j) /\ Bounded(L, page, spoken, i + 1, j)
        /\ Bounded(L, page, spoken, i, j + 1) /\ Bounded(L, page, spoken, i + 1, j + 1)
    BY <1>1, ChainsBounded
  <1>5. QED
    BY <1>1, <1>2, <1>3, <1>4

\* A word that meets begins the best alignment.
LEMMA BestMatch ==
  ASSUME NEW page, Len(page) \in Nat, NEW spoken, Len(spoken) \in Nat, NEW L,
         Table(L, page, spoken), NEW i \in 1 .. Len(page), NEW j \in 1 .. Len(spoken),
         page[i] = spoken[j], NEW t, Best(L, page, spoken, t, i + 1, j + 1)
  PROVE  Best(L, page, spoken, Put(i, t), i, j)
  <1>1. /\ L[i][j] \in Nat /\ L[i + 1][j + 1] \in Nat /\ L[i][j] = L[i + 1][j + 1] + 1
        /\ i \in Nat /\ j \in Nat
    BY TableAt
  <1>2. PICK s : Chain(page, spoken, t, s, i + 1, j + 1)
    BY DEF Best, Meets
  <1>3. t \in Seq(Nat) /\ Len(t) = L[i + 1][j + 1]
    BY <1>2 DEF Chain, Best
  <1>4. Meets(page, spoken, Put(i, t), i, j)
    BY <1>2, ChainPut DEF Meets
  <1>5. /\ Put(i, t) \in Seq(Nat) /\ Len(Put(i, t)) = L[i][j] /\ Put(i, t)[1] = i
        /\ DOMAIN Put(i, t) = 1 .. L[i][j]
    <2>1. Put(i, t) \in Seq(Nat) /\ Len(Put(i, t)) = Len(t) + 1 /\ Put(i, t)[1] = i
      BY <1>1, <1>3, PutFits
    <2> DEFINE u == Put(i, t)
    <2> HIDE DEF u
    <2>2. u \in Seq(Nat) => DOMAIN u = 1 .. Len(u)
      OBVIOUS
    <2>3. DOMAIN Put(i, t) = 1 .. Len(Put(i, t))
      BY <2>1, <2>2 DEF u
    <2>4. QED
      BY <1>1, <1>3, <2>1, <2>3
  <1>6. ASSUME NEW q, Meets(page, spoken, q, i, j), Len(q) = L[i][j]
        PROVE  ComesFirst(Put(i, t), q)
    <2>1. PICK z : Chain(page, spoken, q, z, i, j)
      BY <1>6 DEF Meets
    <2>2. q \in Seq(Nat) /\ q # <<>>
      BY <1>1, <1>6, <2>1 DEF Chain
    <2>3. q[1] \in Nat /\ i <= q[1]
      BY <2>1, <2>2, ChainFirst
    <2>4. CASE q[1] = i
      <3>1. Chain(page, spoken, Tail(q), Tail(z), i + 1, j + 1) /\ Len(Tail(q)) = Len(q) - 1
        BY <1>1, <2>1, <2>2, ChainRest
      <3>2. Tail(q) \in Seq(Nat) /\ q = Put(i, Tail(q))
        BY <2>2, <2>4, PutBack
      <3> DEFINE r == Tail(q)
      <3> HIDE DEF r
      <3>3. Meets(page, spoken, r, i + 1, j + 1) /\ Len(r) = L[i + 1][j + 1]
        BY <1>1, <1>6, <3>1 DEF Meets, r
      <3>4. ComesFirst(t, r)
        BY <3>3 DEF Best
      <3>5. r \in Seq(Nat) /\ q = Put(i, r) /\ Len(t) = Len(r)
        BY <1>3, <3>2, <3>3 DEF r
      <3>6. ComesFirst(Put(i, t), Put(i, r))
        BY <1>1, <1>3, <3>4, <3>5, FirstPut
      <3>7. QED
        BY <3>5, <3>6
    <2>5. CASE q[1] # i
      <3>1. i < q[1]
        BY <1>1, <2>3, <2>5
      <3> DEFINE u == Put(i, t)
      <3>2. 1 \in DOMAIN u /\ u[1] = i
        BY <1>1, <1>5
      <3> HIDE DEF u
      <3>3. ComesFirst(u, q)
        BY <3>1, <3>2 DEF ComesFirst
      <3>4. QED
        BY <3>3 DEF u
    <2>6. QED
      BY <2>4, <2>5
  <1>7. QED
    BY <1>4, <1>5, <1>6 DEF Best

\* A word of the page is skipped only when no longest alignment begins with it.
LEMMA BestSkipPage ==
  ASSUME NEW page, Len(page) \in Nat, NEW spoken, Len(spoken) \in Nat, NEW L,
         Table(L, page, spoken), NEW i \in 1 .. Len(page), NEW j \in 1 .. Len(spoken),
         page[i] # spoken[j], L[i + 1][j] > L[i][j + 1],
         NEW t, Best(L, page, spoken, t, i + 1, j)
  PROVE  Best(L, page, spoken, t, i, j)
  <1>1. /\ L[i][j] \in Nat /\ L[i + 1][j] \in Nat /\ L[i][j + 1] \in Nat
        /\ L[i][j] = L[i + 1][j] /\ i \in Nat /\ j \in Nat
        /\ Bounded(L, page, spoken, i, j + 1)
    BY TableAt
  <1>2. PICK s : Chain(page, spoken, t, s, i + 1, j)
    BY DEF Best, Meets
  <1>3. Chain(page, spoken, t, s, i, j)
    <2>1. t = <<>> \/ (i <= t[1] /\ j <= s[1])
      <3>1. ASSUME t # <<>> PROVE i <= t[1] /\ j <= s[1]
        <4>1. i + 1 <= t[1] /\ j <= s[1] /\ t[1] \in Nat
          BY <1>2, <3>1, ChainFirst
        <4>2. QED
          BY <1>1, <4>1
      <3>2. QED
        BY <3>1
    <2>2. QED
      BY <1>1, <1>2, <2>1, ChainFrom
  <1>4. ASSUME NEW q, Meets(page, spoken, q, i, j), Len(q) = L[i][j]
        PROVE  Meets(page, spoken, q, i + 1, j)
    <2>1. PICK z : Chain(page, spoken, q, z, i, j)
      BY <1>4 DEF Meets
    <2>2. q # <<>> => /\ q[1] \in Nat /\ z[1] \in Nat /\ i <= q[1] /\ j <= z[1]
                      /\ page[q[1]] = spoken[z[1]]
      BY <2>1, ChainFirst
    <2>3. CASE q = <<>> \/ q[1] # i
      <3>1. q = <<>> \/ (i + 1 <= q[1] /\ j <= z[1])
        BY <1>1, <2>2, <2>3
      <3>2. i + 1 \in Nat /\ j \in Nat
        BY <1>1
      <3>3. Chain(page, spoken, q, z, i + 1, j)
        BY <2>1, <3>1, <3>2, ChainFrom
      <3>4. QED
        BY <3>3 DEF Meets
    <2>4. CASE q # <<>> /\ q[1] = i
      <3>1. z[1] # j
        BY <2>2, <2>4
      <3>2. i <= q[1] /\ j + 1 <= z[1] /\ j + 1 \in Nat
        BY <1>1, <2>2, <2>4, <3>1
      <3>3. Chain(page, spoken, q, z, i, j + 1)
        BY <1>1, <2>1, <3>2, ChainFrom
      <3>4. Len(q) <= L[i][j + 1]
        BY <1>1, <3>3 DEF Bounded
      <3>5. QED
        BY <1>1, <1>4, <3>4
    <2>5. QED
      BY <2>3, <2>4
  <1>5. QED
    BY <1>1, <1>3, <1>4 DEF Best, Meets

\* What a chain says, with its order at hand.
LEMMA ChainOrder ==
  ASSUME NEW page, NEW spoken, NEW p, NEW s, NEW i, NEW j, Chain(page, spoken, p, s, i, j)
  PROVE  /\ p \in Seq(Nat) /\ s \in Seq(Nat) /\ Len(p) = Len(s) /\ Len(p) \in Nat
         /\ \A k \in 1 .. Len(p) :
              /\ p[k] \in Nat /\ s[k] \in Nat
              /\ i <= p[k] /\ p[k] <= Len(page) /\ j <= s[k] /\ s[k] <= Len(spoken)
              /\ page[p[k]] = spoken[s[k]]
         /\ \A k, l \in 1 .. Len(p) : k < l => p[k] < p[l] /\ s[k] < s[l]
         /\ \A k, l \in 1 .. Len(p) : k <= l => p[k] <= p[l] /\ s[k] <= s[l]
  <1>1. /\ p \in Seq(Nat) /\ s \in Seq(Nat) /\ Len(p) = Len(s) /\ Len(p) \in Nat
        /\ \A k \in 1 .. Len(p) : p[k] \in Nat /\ s[k] \in Nat
    BY DEF Chain
  <1>2. /\ \A k \in 1 .. Len(p) :
              /\ i <= p[k] /\ p[k] <= Len(page) /\ j <= s[k] /\ s[k] <= Len(spoken)
              /\ page[p[k]] = spoken[s[k]]
        /\ \A k, l \in 1 .. Len(p) : k < l => p[k] < p[l] /\ s[k] < s[l]
    BY DEF Chain
  <1>3. ASSUME NEW k \in 1 .. Len(p), NEW l \in 1 .. Len(p), k <= l
        PROVE  p[k] <= p[l] /\ s[k] <= s[l]
    <2>1. CASE k = l
      BY <1>1, <2>1
    <2>2. CASE k # l
      <3>1. p[k] < p[l] /\ s[k] < s[l]
        BY <1>2, <1>3, <2>2
      <3>2. QED
        BY <1>1, <3>1
    <2>3. QED
      BY <2>1, <2>2
  <1>4. QED
    BY <1>1, <1>2, <1>3

\* Two alignments that agree up to y: the spoken words of the one before y, of
\* the other from y on.
LEMMA ChainSplice ==
  ASSUME NEW page, NEW spoken, NEW p, NEW s, NEW q, NEW u, NEW i, NEW j \in Nat, NEW g \in Nat,
         Chain(page, spoken, p, s, i, j), Chain(page, spoken, q, u, i, g), Len(p) = Len(q),
         NEW y \in 2 .. Len(p), \A x \in 1 .. y - 1 : p[x] = q[x], u[y - 1] < s[y]
  PROVE  Meets(page, spoken, p, i, g)
  <1>1. /\ p \in Seq(Nat) /\ s \in Seq(Nat) /\ Len(p) = Len(s) /\ Len(p) \in Nat
        /\ \A k \in 1 .. Len(p) :
             /\ p[k] \in Nat /\ s[k] \in Nat
             /\ i <= p[k] /\ p[k] <= Len(page) /\ j <= s[k] /\ s[k] <= Len(spoken)
             /\ page[p[k]] = spoken[s[k]]
        /\ \A k, l \in 1 .. Len(p) : k < l => p[k] < p[l] /\ s[k] < s[l]
        /\ \A k, l \in 1 .. Len(p) : k <= l => p[k] <= p[l] /\ s[k] <= s[l]
    BY ChainOrder
  <1>2. /\ u \in Seq(Nat) /\ Len(p) = Len(u)
        /\ \A k \in 1 .. Len(p) :
             /\ u[k] \in Nat /\ g <= u[k] /\ u[k] <= Len(spoken) /\ page[q[k]] = spoken[u[k]]
        /\ \A k, l \in 1 .. Len(p) : k < l => u[k] < u[l]
        /\ \A k, l \in 1 .. Len(p) : k <= l => u[k] <= u[l]
    <2>1. /\ q \in Seq(Nat) /\ u \in Seq(Nat) /\ Len(q) = Len(u) /\ Len(q) \in Nat
          /\ \A k \in 1 .. Len(q) :
               /\ q[k] \in Nat /\ u[k] \in Nat
               /\ i <= q[k] /\ q[k] <= Len(page) /\ g <= u[k] /\ u[k] <= Len(spoken)
               /\ page[q[k]] = spoken[u[k]]
          /\ \A k, l \in 1 .. Len(q) : k < l => q[k] < q[l] /\ u[k] < u[l]
          /\ \A k, l \in 1 .. Len(q) : k <= l => q[k] <= q[l] /\ u[k] <= u[l]
      BY ChainOrder
    <2>2. QED
      BY <2>1
  <1> DEFINE z == [x \in 1 .. Len(p) |-> IF x < y THEN u[x] ELSE s[x]]
  <1>3. /\ z \in Seq(Nat) /\ Len(z) = Len(p)
        /\ \A x \in 1 .. Len(p) : z[x] = IF x < y THEN u[x] ELSE s[x]
    <2>1. \A x \in 1 .. Len(p) : u[x] \in Nat /\ s[x] \in Nat
      BY <1>1, <1>2
    <2>2. QED
      BY <1>1, <2>1
  <1> HIDE DEF z
  <1>4. y \in 1 .. Len(p) /\ y - 1 \in 1 .. Len(p) /\ y \in Nat
    BY <1>1, SMTT(30)
  <1>5. ASSUME NEW x \in 1 .. Len(p), ~(x < y) PROVE u[y - 1] < s[x]
    <2>1. s[y] <= s[x]
      BY <1>1, <1>4, <1>5
    <2>2. s[y] \in Nat /\ s[x] \in Nat /\ u[y - 1] \in Nat
      BY <1>1, <1>2, <1>4
    <2>3. QED
      BY <2>1, <2>2
  <1>6. ASSUME NEW x \in 1 .. Len(p)
        PROVE  /\ i <= p[x] /\ p[x] <= Len(page) /\ g <= z[x] /\ z[x] <= Len(spoken)
               /\ page[p[x]] = spoken[z[x]]
    <2>1. i <= p[x] /\ p[x] <= Len(page)
      BY <1>1
    <2>2. CASE x < y
      <3>1. x \in 1 .. y - 1
        BY <1>4, <2>2
      <3>2. p[x] = q[x] /\ z[x] = u[x]
        BY <1>3, <2>2, <3>1
      <3>3. QED
        BY <1>2, <2>1, <3>2
    <2>3. CASE ~(x < y)
      <3>1. z[x] = s[x]
        BY <1>3, <2>3
      <3>2. u[y - 1] < s[x] /\ g <= u[y - 1] /\ u[y - 1] \in Nat /\ s[x] \in Nat
        BY <1>1, <1>2, <1>4, <1>5, <2>3
      <3>3. g <= s[x]
        BY <3>2
      <3>4. QED
        BY <1>1, <2>1, <3>1, <3>3
    <2>4. QED
      BY <2>2, <2>3
  <1>7. ASSUME NEW k \in 1 .. Len(p), NEW l \in 1 .. Len(p), k < l
        PROVE  p[k] < p[l] /\ z[k] < z[l]
    <2>1. p[k] < p[l] /\ s[k] < s[l] /\ u[k] < u[l]
      BY <1>1, <1>2, <1>7
    <2>2. CASE l < y
      <3>1. z[k] = u[k] /\ z[l] = u[l]
        BY <1>3, <1>4, <1>7, <2>2
      <3>2. QED
        BY <2>1, <3>1
    <2>3. CASE ~(k < y)
      <3>1. z[k] = s[k] /\ z[l] = s[l]
        BY <1>3, <1>4, <1>7, <2>3
      <3>2. QED
        BY <2>1, <3>1
    <2>4. CASE k < y /\ ~(l < y)
      <3>1. z[k] = u[k] /\ z[l] = s[l]
        BY <1>3, <2>4
      <3>2. k <= y - 1
        BY <1>4, <2>4
      <3>3. u[k] <= u[y - 1]
        BY <1>2, <1>4, <3>2
      <3>4. u[y - 1] < s[l]
        BY <1>5, <2>4
      <3>5. u[k] \in Nat /\ u[y - 1] \in Nat /\ s[l] \in Nat
        BY <1>1, <1>2, <1>4
      <3>6. QED
        BY <2>1, <3>1, <3>3, <3>4, <3>5
    <2>5. QED
      BY <2>2, <2>3, <2>4
  <1>8. Chain(page, spoken, p, z, i, g)
    BY <1>1, <1>3, <1>6, <1>7 DEF Chain
  <1>9. QED
    BY <1>8 DEF Meets

\* Two alignments of which one is behind the other at k, on the page and in the
\* text: the one up to k and the other from k on make a longer one.
LEMMA ChainInsert ==
  ASSUME NEW page, NEW spoken, NEW p, NEW s, NEW q, NEW u, NEW i, NEW j \in Nat, NEW g \in Nat,
         Chain(page, spoken, p, s, i, j), Chain(page, spoken, q, u, i, g), Len(p) = Len(q),
         j <= g, NEW k \in 1 .. Len(p), p[k] < q[k], s[k] < u[k]
  PROVE  \E v, z : Chain(page, spoken, v, z, i, j) /\ Len(v) = Len(p) + 1
  <1>1. /\ p \in Seq(Nat) /\ s \in Seq(Nat) /\ Len(p) = Len(s) /\ Len(p) \in Nat
        /\ \A x \in 1 .. Len(p) :
             /\ p[x] \in Nat /\ s[x] \in Nat
             /\ i <= p[x] /\ p[x] <= Len(page) /\ j <= s[x] /\ s[x] <= Len(spoken)
             /\ page[p[x]] = spoken[s[x]]
        /\ \A x, y \in 1 .. Len(p) : x < y => p[x] < p[y] /\ s[x] < s[y]
        /\ \A x, y \in 1 .. Len(p) : x <= y => p[x] <= p[y] /\ s[x] <= s[y]
    BY ChainOrder
  <1>2. /\ q \in Seq(Nat) /\ u \in Seq(Nat) /\ Len(p) = Len(u)
        /\ \A x \in 1 .. Len(p) :
             /\ q[x] \in Nat /\ u[x] \in Nat
             /\ i <= q[x] /\ q[x] <= Len(page) /\ g <= u[x] /\ u[x] <= Len(spoken)
             /\ page[q[x]] = spoken[u[x]]
        /\ \A x, y \in 1 .. Len(p) : x < y => q[x] < q[y] /\ u[x] < u[y]
        /\ \A x, y \in 1 .. Len(p) : x <= y => q[x] <= q[y] /\ u[x] <= u[y]
    <2>1. /\ q \in Seq(Nat) /\ u \in Seq(Nat) /\ Len(q) = Len(u) /\ Len(q) \in Nat
          /\ \A x \in 1 .. Len(q) :
               /\ q[x] \in Nat /\ u[x] \in Nat
               /\ i <= q[x] /\ q[x] <= Len(page) /\ g <= u[x] /\ u[x] <= Len(spoken)
               /\ page[q[x]] = spoken[u[x]]
          /\ \A x, y \in 1 .. Len(q) : x < y => q[x] < q[y] /\ u[x] < u[y]
          /\ \A x, y \in 1 .. Len(q) : x <= y => q[x] <= q[y] /\ u[x] <= u[y]
      BY ChainOrder
    <2>2. QED
      BY <2>1
  <1> DEFINE v == [x \in 1 .. Len(p) + 1 |-> IF x <= k THEN p[x] ELSE q[x - 1]]
             z == [x \in 1 .. Len(p) + 1 |-> IF x <= k THEN s[x] ELSE u[x - 1]]
  <1>3. /\ v \in Seq(Nat) /\ Len(v) = Len(p) + 1 /\ z \in Seq(Nat) /\ Len(z) = Len(v)
        /\ \A x \in 1 .. Len(v) : /\ v[x] = IF x <= k THEN p[x] ELSE q[x - 1]
                                  /\ z[x] = IF x <= k THEN s[x] ELSE u[x - 1]
    <2>1. \A x \in 1 .. Len(p) + 1 : /\ (x <= k => p[x] \in Nat /\ s[x] \in Nat)
                                     /\ (~(x <= k) => q[x - 1] \in Nat /\ u[x - 1] \in Nat)
      <3>1. \A x \in 1 .. Len(p) + 1 : (x <= k => x \in 1 .. Len(p))
                                    /\ (~(x <= k) => x - 1 \in 1 .. Len(p))
        <4>1. Len(p) \in Nat
          BY <1>1
        <4>2. QED
          BY <4>1
      <3>2. QED
        BY <1>1, <1>2, <3>1
    <2>2. v \in Seq(Nat) /\ Len(v) = Len(p) + 1
      BY <1>1, <2>1, SMTT(30)
    <2>3. z \in Seq(Nat) /\ Len(z) = Len(p) + 1
      BY <1>1, <2>1, SMTT(30)
    <2>4. QED
      BY <2>2, <2>3
  <1> HIDE DEF v, z
  <1>4. ASSUME NEW x \in 1 .. Len(v)
        PROVE  /\ x <= k => x \in 1 .. Len(p)
               /\ ~(x <= k) => x - 1 \in 1 .. Len(p) /\ k <= x - 1
    <2>1. Len(p) \in Nat /\ x \in 1 .. Len(p) + 1 /\ k \in 1 .. Len(p)
      BY <1>1, <1>3
    <2>2. QED
      BY <2>1
  <1>5. ASSUME NEW x \in 1 .. Len(v)
        PROVE  /\ i <= v[x] /\ v[x] <= Len(page) /\ j <= z[x] /\ z[x] <= Len(spoken)
               /\ page[v[x]] = spoken[z[x]]
    <2>1. CASE x <= k
      <3>1. x \in 1 .. Len(p) /\ v[x] = p[x] /\ z[x] = s[x]
        BY <1>3, <1>4, <2>1
      <3>2. QED
        BY <1>1, <3>1
    <2>2. CASE ~(x <= k)
      <3>1. x - 1 \in 1 .. Len(p) /\ v[x] = q[x - 1] /\ z[x] = u[x - 1]
        BY <1>3, <1>4, <2>2
      <3>2. u[x - 1] \in Nat /\ g <= u[x - 1]
        BY <1>2, <3>1
      <3>3. j <= u[x - 1]
        BY <3>2
      <3>4. QED
        BY <1>2, <3>1, <3>3
    <2>3. QED
      BY <2>1, <2>2
  <1>6. ASSUME NEW x \in 1 .. Len(v), NEW y \in 1 .. Len(v), x < y
        PROVE  v[x] < v[y] /\ z[x] < z[y]
    <2>1. CASE y <= k
      <3>1. x <= k
        BY <1>3, <1>6, <2>1
      <3>2. /\ x \in 1 .. Len(p) /\ v[x] = p[x] /\ z[x] = s[x]
            /\ y \in 1 .. Len(p) /\ v[y] = p[y] /\ z[y] = s[y]
        BY <1>3, <1>4, <2>1, <3>1
      <3>3. QED
        BY <1>1, <1>6, <3>2
    <2>2. CASE ~(x <= k)
      <3>1. ~(y <= k)
        BY <1>3, <1>6, <2>2
      <3>2. /\ x - 1 \in 1 .. Len(p) /\ v[x] = q[x - 1] /\ z[x] = u[x - 1]
            /\ y - 1 \in 1 .. Len(p) /\ v[y] = q[y - 1] /\ z[y] = u[y - 1]
        BY <1>3, <1>4, <2>2, <3>1
      <3>3. x - 1 < y - 1
        BY <1>6
      <3>4. QED
        BY <1>2, <3>2, <3>3
    <2>3. CASE x <= k /\ ~(y <= k)
      <3>1. /\ x \in 1 .. Len(p) /\ v[x] = p[x] /\ z[x] = s[x]
            /\ y - 1 \in 1 .. Len(p) /\ k <= y - 1 /\ v[y] = q[y - 1] /\ z[y] = u[y - 1]
        BY <1>3, <1>4, <2>3
      <3>2. p[x] <= p[k] /\ s[x] <= s[k] /\ q[k] <= q[y - 1] /\ u[k] <= u[y - 1]
        BY <1>1, <1>2, <2>3, <3>1
      <3>3. /\ p[x] \in Nat /\ p[k] \in Nat /\ q[k] \in Nat /\ q[y - 1] \in Nat
            /\ s[x] \in Nat /\ s[k] \in Nat /\ u[k] \in Nat /\ u[y - 1] \in Nat
        BY <1>1, <1>2, <3>1
      <3>4. p[x] < q[y - 1]
        <4>1. p[x] <= p[k] /\ q[k] <= q[y - 1] /\ p[k] < q[k]
          BY <3>2
        <4>2. QED
          BY <3>3, <4>1, SMTT(30)
      <3>6. s[x] < u[y - 1]
        <4>1. s[x] <= s[k] /\ u[k] <= u[y - 1] /\ s[k] < u[k]
          BY <3>2
        <4>2. QED
          BY <3>3, <4>1, SMTT(30)
      <3>5. QED
        BY <3>1, <3>4, <3>6
    <2>4. QED
      BY <2>1, <2>2, <2>3
  <1>7. Chain(page, spoken, v, z, i, j)
    BY <1>3, <1>5, <1>6 DEF Chain
  <1>8. QED
    BY <1>3, <1>7

\* Two rows of one length differ somewhere first.
LEMMA FirstDifference ==
  ASSUME NEW t \in Seq(Nat), NEW q \in Seq(Nat), Len(t) = Len(q), t # q
  PROVE  \E k \in 1 .. Len(t) : t[k] # q[k] /\ \A x \in 1 .. k - 1 : t[x] = q[x]
  <1> SUFFICES ASSUME \A k \in 1 .. Len(t) : (\A x \in 1 .. k - 1 : t[x] = q[x]) => t[k] = q[k]
               PROVE  FALSE
    OBVIOUS
  <1> DEFINE S == {k \in Nat : \A x \in 1 .. k : t[x] = q[x]}
  <1>1. 0 \in S
    OBVIOUS
  <1>2. ASSUME NEW k \in 1 .. Len(t), k - 1 \in S PROVE k \in S
    <2>1. \A x \in 1 .. k - 1 : t[x] = q[x]
      BY <1>2
    <2>2. t[k] = q[k]
      BY <2>1
    <2>3. \A x \in 1 .. k : x = k \/ x \in 1 .. k - 1
      OBVIOUS
    <2>4. \A x \in 1 .. k : t[x] = q[x]
      BY <2>1, <2>2, <2>3
    <2>5. QED
      BY <2>4
  <1>3. Len(t) \in Nat
    OBVIOUS
  <1>4. \A k \in 0 .. Len(t) : k \in S
    <2> HIDE DEF S
    <2>1. QED
      BY <1>1, <1>2, <1>3, RangeInduction
  <1>5. \A x \in 1 .. Len(t) : t[x] = q[x]
    BY <1>3, <1>4
  <1>6. t = q
    <2>1. t = [x \in 1 .. Len(t) |-> t[x]] /\ q = [x \in 1 .. Len(t) |-> q[x]]
      OBVIOUS
    <2> DEFINE n == Len(t)
    <2> HIDE DEF n
    <2>2. t = [x \in 1 .. n |-> t[x]] /\ q = [x \in 1 .. n |-> q[x]]
      BY <2>1 DEF n
    <2>3. \A x \in 1 .. n : t[x] = q[x]
      BY <1>5 DEF n
    <2>4. [x \in 1 .. n |-> t[x]] = [x \in 1 .. n |-> q[x]]
      BY <2>3
    <2>5. QED
      BY <2>2, <2>4
  <1>7. QED
    BY <1>6

\* Of two alignments only one comes first.
LEMMA ComesFirstOnce ==
  ASSUME NEW p \in Seq(Nat), NEW q \in Seq(Nat), ComesFirst(p, q), ComesFirst(q, p)
  PROVE  p = q
  <1> SUFFICES ASSUME p # q PROVE FALSE
    OBVIOUS
  <1>1. PICK k \in DOMAIN p : p[k] < q[k] /\ \A x \in 1 .. k - 1 : p[x] = q[x]
    BY DEF ComesFirst
  <1>2. PICK l \in DOMAIN q : q[l] < p[l] /\ \A x \in 1 .. l - 1 : q[x] = p[x]
    BY DEF ComesFirst
  <1>3. k \in 1 .. Len(p) /\ l \in 1 .. Len(q) /\ p[k] \in Nat /\ q[l] \in Nat
    BY <1>1, <1>2
  <1>4. k \in Nat /\ l \in Nat /\ 1 <= k /\ 1 <= l
    BY <1>3
  <1>5. CASE k = l
    <2>1. p[k] \in Nat /\ q[k] \in Nat
      BY <1>3, <1>5
    <2>2. QED
      BY <1>1, <1>2, <1>5, <2>1
  <1>6. CASE k < l
    <2>1. k \in 1 .. l - 1
      BY <1>4, <1>6
    <2>2. p[k] = q[k]
      BY <1>2, <2>1
    <2>3. QED
      BY <1>1, <1>3, <2>2
  <1>7. CASE l < k
    <2>1. l \in 1 .. k - 1
      BY <1>4, <1>7
    <2>2. p[l] = q[l]
      BY <1>1, <2>1
    <2>3. QED
      BY <1>2, <1>3, <2>2
  <1>8. QED
    BY <1>4, <1>5, <1>6, <1>7

\* Two longest alignments, of which only the other takes spoken word j: the one
\* that does not comes first, when it is the earliest of its kind.
LEMMA NoLaterOne ==
  ASSUME NEW page, Len(page) \in Nat, NEW spoken, Len(spoken) \in Nat, NEW L,
         NEW i \in Nat, NEW j \in Nat, L[i][j] \in Nat, L[i][j] = L[i][j + 1],
         Bounded(L, page, spoken, i, j), NEW t, Best(L, page, spoken, t, i, j + 1),
         NEW q, Meets(page, spoken, q, i, j), Len(q) = L[i][j]
  PROVE  ComesFirst(t, q)
  <1> SUFFICES ASSUME ~ComesFirst(t, q) PROVE FALSE
    OBVIOUS
  <1>1. PICK u : Chain(page, spoken, t, u, i, j + 1)
    BY DEF Best, Meets
  <1>2. PICK z : Chain(page, spoken, q, z, i, j)
    BY DEF Meets
  <1>3. /\ t \in Seq(Nat) /\ Len(t) \in Nat /\ DOMAIN t = 1 .. Len(t) /\ Len(t) = Len(q)
        /\ \A k \in 1 .. Len(t) : t[k] \in Nat /\ u[k] \in Nat /\ j + 1 <= u[k]
        /\ \A k, l \in 1 .. Len(t) : k < l => u[k] < u[l]
    <2>1. Len(t) = L[i][j + 1]
      BY DEF Best
    <2>2. /\ t \in Seq(Nat) /\ Len(t) \in Nat
          /\ \A k \in 1 .. Len(t) : t[k] \in Nat /\ u[k] \in Nat /\ j + 1 <= u[k]
          /\ \A k, l \in 1 .. Len(t) : k < l => u[k] < u[l]
      BY <1>1, ChainOrder
    <2>3. QED
      BY <2>1, <2>2, SMTT(30)
  <1>4. q \in Seq(Nat) /\ \A k \in 1 .. Len(q) : q[k] \in Nat /\ z[k] \in Nat /\ j <= z[k]
    BY <1>2, ChainOrder
  <1>5. ~Meets(page, spoken, q, i, j + 1)
    BY DEF Best
  <1>6. t # q
    BY DEF ComesFirst
  <1>7. PICK k \in 1 .. Len(t) : t[k] # q[k] /\ \A x \in 1 .. k - 1 : t[x] = q[x]
    BY <1>3, <1>4, <1>6, FirstDifference
  <1>8. q[k] < t[k]
    <2>1. ~(t[k] < q[k])
      BY <1>3, <1>7 DEF ComesFirst
    <2>2. t[k] \in Nat /\ q[k] \in Nat
      BY <1>3, <1>4
    <2>3. QED
      BY <1>7, <2>1, <2>2
  <1>9. k \in Nat /\ 1 <= k /\ k <= Len(q) /\ j + 1 \in Nat /\ k \in 1 .. Len(q)
    BY <1>3
  <1>10. q # <<>>
    BY <1>4, <1>9
  <1>11. z[1] = j
    <2>1. 1 \in 1 .. Len(q)
      BY <1>3, <1>9
    <2>2. z[1] \in Nat /\ j <= z[1]
      BY <1>4, <2>1
    <2>3. ASSUME z[1] # j PROVE FALSE
      <3>1. j + 1 <= z[1] /\ i <= q[1]
        <4>1. i <= q[1]
          BY <1>2, <1>10, ChainFirst
        <4>2. QED
          BY <2>2, <2>3, <4>1
      <3>2. Chain(page, spoken, q, z, i, j + 1)
        BY <1>2, <1>9, <3>1, ChainFrom
      <3>3. QED
        BY <1>5, <3>2 DEF Meets
    <2>4. QED
      BY <2>3
  <1>12. z[k] < u[k]
    <2>1. u[k] \in Nat /\ z[k] \in Nat /\ j + 1 <= u[k]
      BY <1>3, <1>4, <1>9
    <2>2. CASE k = 1
      BY <1>11, <2>1, <2>2
    <2>3. CASE k # 1
      <3>1. k \in 2 .. Len(q) /\ k - 1 \in 1 .. Len(t) /\ k - 1 < k
        BY <1>3, <1>9, <2>3
      <3>2. ~(u[k - 1] < z[k])
        <4>1. \A x \in 1 .. k - 1 : q[x] = t[x]
          BY <1>7
        <4>2. ASSUME u[k - 1] < z[k] PROVE Meets(page, spoken, q, i, j + 1)
          <5>1. Len(q) = Len(t)
            BY <1>3
          <5>2. QED
            BY <1>1, <1>2, <1>9, <3>1, <4>1, <4>2, <5>1, ChainSplice
        <4>3. QED
          BY <1>5, <4>2
      <3>3. u[k - 1] \in Nat /\ u[k - 1] < u[k]
        BY <1>3, <3>1
      <3>4. QED
        BY <2>1, <3>2, <3>3
    <2>4. QED
      BY <2>2, <2>3
  <1>13. PICK v, w : Chain(page, spoken, v, w, i, j) /\ Len(v) = Len(q) + 1
    <2>1. j <= j + 1 /\ Len(q) = Len(t)
      BY <1>3
    <2>2. \E v, w : Chain(page, spoken, v, w, i, j) /\ Len(v) = Len(q) + 1
      BY <1>1, <1>2, <1>8, <1>9, <1>12, <2>1, ChainInsert
    <2>3. QED
      BY <2>2
  <1>14. Len(v) <= L[i][j]
    BY <1>13 DEF Bounded
  <1>15. QED
    BY <1>13, <1>14

\* A spoken word is skipped only when that loses nothing.
LEMMA BestSkipSpoken ==
  ASSUME NEW page, Len(page) \in Nat, NEW spoken, Len(spoken) \in Nat, NEW L,
         Table(L, page, spoken), NEW i \in 1 .. Len(page), NEW j \in 1 .. Len(spoken),
         page[i] # spoken[j], ~(L[i + 1][j] > L[i][j + 1]),
         NEW t, Best(L, page, spoken, t, i, j + 1)
  PROVE  Best(L, page, spoken, t, i, j)
  <1>1. /\ L[i][j] \in Nat /\ L[i + 1][j] \in Nat /\ L[i][j + 1] \in Nat
        /\ L[i][j] = L[i][j + 1] /\ i \in Nat /\ j \in Nat
        /\ Bounded(L, page, spoken, i, j)
    BY TableAt
  <1>2. PICK s : Chain(page, spoken, t, s, i, j + 1)
    BY DEF Best, Meets
  <1>3. Chain(page, spoken, t, s, i, j)
    <2>1. t = <<>> \/ (i <= t[1] /\ j <= s[1])
      <3>1. ASSUME t # <<>> PROVE i <= t[1] /\ j <= s[1]
        <4>1. i <= t[1] /\ j + 1 <= s[1] /\ s[1] \in Nat
          BY <1>2, <3>1, ChainFirst
        <4>2. QED
          BY <1>1, <4>1
      <3>2. QED
        BY <3>1
    <2>2. QED
      BY <1>1, <1>2, <2>1, ChainFrom
  <1>4. \A q : Meets(page, spoken, q, i, j) /\ Len(q) = L[i][j] => ComesFirst(t, q)
    BY <1>1, NoLaterOne
  <1>5. Len(t) = L[i][j]
    BY <1>1 DEF Best
  <1>6. QED
    BY <1>3, <1>4, <1>5 DEF Best, Meets

HasBest(L, page, spoken, i, j) == \E t : Best(L, page, spoken, t, i, j)

\* Every place of the table has an earliest longest alignment.
LEMMA BestExists ==
  ASSUME NEW page, Len(page) \in Nat, NEW spoken, Len(spoken) \in Nat, NEW L,
         Table(L, page, spoken)
  PROVE  \A i \in 1 .. Len(page) + 1, j \in 1 .. Len(spoken) + 1 :
           HasBest(L, page, spoken, i, j)
  <1> DEFINE m == Len(page)
             n == Len(spoken)
             Good == {ij \in (1 .. m + 1) \X (1 .. n + 1) :
                        HasBest(L, page, spoken, ij[1], ij[2])}
  <1>1. m \in Nat /\ n \in Nat
    OBVIOUS
  <1>2. ASSUME NEW i \in 1 .. m + 1, NEW j \in 1 .. n + 1, i > m \/ j > n
        PROVE  HasBest(L, page, spoken, i, j)
    <2>1. L[i][j] = 0
      BY <1>2, TableEntries
    <2>2. i \in Nat /\ j \in Nat
      BY <1>1
    <2>3. QED
      BY <2>1, <2>2, BestAtEnd DEF HasBest
  <1>3. ASSUME NEW i \in 1 .. m, NEW j \in 1 .. n,
               HasBest(L, page, spoken, i + 1, j + 1), HasBest(L, page, spoken, i + 1, j),
               HasBest(L, page, spoken, i, j + 1)
        PROVE  HasBest(L, page, spoken, i, j)
    <2>1. CASE page[i] = spoken[j]
      <3>1. PICK t : Best(L, page, spoken, t, i + 1, j + 1)
        BY <1>3 DEF HasBest
      <3>2. Best(L, page, spoken, Put(i, t), i, j)
        BY <2>1, <3>1, BestMatch
      <3>3. QED
        BY <3>2 DEF HasBest
    <2>2. CASE page[i] # spoken[j] /\ L[i + 1][j] > L[i][j + 1]
      <3>1. PICK t : Best(L, page, spoken, t, i + 1, j)
        BY <1>3 DEF HasBest
      <3>2. Best(L, page, spoken, t, i, j)
        BY <2>2, <3>1, BestSkipPage
      <3>3. QED
        BY <3>2 DEF HasBest
    <2>3. CASE page[i] # spoken[j] /\ ~(L[i + 1][j] > L[i][j + 1])
      <3>1. PICK t : Best(L, page, spoken, t, i, j + 1)
        BY <1>3 DEF HasBest
      <3>2. Best(L, page, spoken, t, i, j)
        BY <2>3, <3>1, BestSkipSpoken
      <3>3. QED
        BY <3>2 DEF HasBest
    <2>4. QED
      BY <2>1, <2>2, <2>3
  <1>5. ASSUME NEW i \in 1 .. m + 1, NEW j \in 1 .. n + 1,
               \/ i > m
               \/ j > n
               \/ <<i + 1, j + 1>> \in Good /\ <<i + 1, j>> \in Good /\ <<i, j + 1>> \in Good
        PROVE  <<i, j>> \in Good
    <2>1. CASE i > m \/ j > n
      BY <1>2, <2>1
    <2>2. CASE ~(i > m) /\ ~(j > n)
      <3>1. i \in 1 .. m /\ j \in 1 .. n
        BY <1>1, <2>2
      <3>2. /\ HasBest(L, page, spoken, i + 1, j + 1) /\ HasBest(L, page, spoken, i + 1, j)
            /\ HasBest(L, page, spoken, i, j + 1)
        BY <1>5, <2>2
      <3>3. HasBest(L, page, spoken, i, j)
        BY <1>3, <3>1, <3>2
      <3>4. QED
        BY <3>3
    <2>3. QED
      BY <2>1, <2>2
  <1>6. \A i \in 1 .. m + 1, j \in 1 .. n + 1 : <<i, j>> \in Good
    <2> HIDE DEF Good, m, n
    <2>1. QED
      BY <1>1, <1>5, TableInduction
  <1>7. QED
    BY <1>6

\* And only one.
LEMMA BestOnce ==
  ASSUME NEW L, NEW page, NEW spoken, NEW i, NEW j, NEW p, NEW q,
         Best(L, page, spoken, p, i, j), Best(L, page, spoken, q, i, j)
  PROVE  p = q
  <1>1. p \in Seq(Nat) /\ q \in Seq(Nat)
    BY MeetsFits DEF Best
  <1>2. ComesFirst(p, q) /\ ComesFirst(q, p)
    BY DEF Best
  <1>3. QED
    BY <1>1, <1>2, ComesFirstOnce

\* The entries of two rows, one after the other.
LEMMA ConcatEntries ==
  ASSUME NEW a \in Seq(Nat), NEW b \in Seq(Nat)
  PROVE  /\ a \o b \in Seq(Nat) /\ Len(a \o b) = Len(a) + Len(b)
         /\ Len(a) \in Nat /\ Len(b) \in Nat
         /\ \A k \in 1 .. Len(a) + Len(b) :
              (a \o b)[k] = IF k <= Len(a) THEN a[k] ELSE b[k - Len(a)]
  OBVIOUS

\* A place at the end of one row, or at the beginning of the next.
LEMMA AppendPut ==
  ASSUME NEW met \in Seq(Nat), NEW i \in Nat, NEW r \in Seq(Nat)
  PROVE  Append(met, i) \o r = met \o Put(i, r)
  <1> DEFINE a == Append(met, i) \o r
             b == met \o Put(i, r)
             n == Len(met) + 1 + Len(r)
  <1>1. Len(met) \in Nat /\ Len(r) \in Nat /\ n \in Nat
    OBVIOUS
  <1>2. /\ a \in Seq(Nat) /\ Len(a) = n
        /\ \A k \in 1 .. n : a[k] = IF k <= Len(met) THEN met[k]
                                    ELSE IF k = Len(met) + 1 THEN i ELSE r[k - (Len(met) + 1)]
    <2> DEFINE d == Append(met, i)
    <2>1. /\ d \in Seq(Nat) /\ Len(d) = Len(met) + 1
          /\ \A k \in 1 .. Len(met) + 1 : d[k] = IF k = Len(met) + 1 THEN i ELSE met[k]
      OBVIOUS
    <2> HIDE DEF d
    <2>2. /\ d \o r \in Seq(Nat) /\ Len(d \o r) = n
          /\ \A k \in 1 .. n : (d \o r)[k] = IF k <= Len(d) THEN d[k] ELSE r[k - Len(d)]
      <3>1. Len(d) + Len(r) = n
        BY <1>1, <2>1
      <3>2. /\ d \o r \in Seq(Nat) /\ Len(d \o r) = Len(d) + Len(r)
            /\ \A k \in 1 .. Len(d) + Len(r) :
                 (d \o r)[k] = IF k <= Len(d) THEN d[k] ELSE r[k - Len(d)]
        BY <2>1, ConcatEntries
      <3> HIDE DEF n
      <3>3. QED
        BY <3>1, <3>2
    <2>3. ASSUME NEW k \in 1 .. n
          PROVE  (d \o r)[k] = IF k <= Len(met) THEN met[k]
                               ELSE IF k = Len(met) + 1 THEN i ELSE r[k - (Len(met) + 1)]
      BY <1>1, <2>1, <2>2
    <2>4. QED
      BY <2>2, <2>3 DEF d
  <1>3. /\ b \in Seq(Nat) /\ Len(b) = n
        /\ \A k \in 1 .. n : b[k] = IF k <= Len(met) THEN met[k]
                                    ELSE IF k = Len(met) + 1 THEN i ELSE r[k - (Len(met) + 1)]
    <2> DEFINE d == Put(i, r)
    <2>1. /\ d \in Seq(Nat) /\ Len(d) = Len(r) + 1 /\ d[1] = i
          /\ \A k \in 2 .. Len(r) + 1 : d[k] = r[k - 1]
      BY PutFits
    <2> HIDE DEF d
    <2>2. /\ met \o d \in Seq(Nat) /\ Len(met \o d) = n
          /\ \A k \in 1 .. n : (met \o d)[k] = IF k <= Len(met) THEN met[k] ELSE d[k - Len(met)]
      <3>1. Len(met) + Len(d) = n
        BY <1>1, <2>1
      <3>2. /\ met \o d \in Seq(Nat) /\ Len(met \o d) = Len(met) + Len(d)
            /\ \A k \in 1 .. Len(met) + Len(d) :
                 (met \o d)[k] = IF k <= Len(met) THEN met[k] ELSE d[k - Len(met)]
        BY <2>1, ConcatEntries
      <3> HIDE DEF n
      <3>3. QED
        BY <3>1, <3>2
    <2>3. ASSUME NEW k \in 1 .. n
          PROVE  (met \o d)[k] = IF k <= Len(met) THEN met[k]
                                 ELSE IF k = Len(met) + 1 THEN i ELSE r[k - (Len(met) + 1)]
      <3>1. CASE k <= Len(met)
        BY <2>2, <3>1
      <3>2. CASE k = Len(met) + 1
        <4>1. ~(k <= Len(met)) /\ k - Len(met) = 1
          BY <1>1, <3>2
        <4>2. QED
          BY <2>1, <2>2, <3>2, <4>1
      <3>3. CASE ~(k <= Len(met)) /\ k # Len(met) + 1
        <4>1. k - Len(met) \in 2 .. Len(r) + 1 /\ (k - Len(met)) - 1 = k - (Len(met) + 1)
          <5>1. k \in Nat /\ k <= Len(met) + 1 + Len(r) /\ Len(met) \in Nat /\ Len(r) \in Nat
            BY <1>1
          <5>2. QED
            BY <3>3, <5>1
        <4>2. d[k - Len(met)] = r[k - (Len(met) + 1)]
          BY <2>1, <4>1
        <4>3. ~(k <= Len(met)) /\ (met \o d)[k] = d[k - Len(met)]
          BY <2>2, <3>3
        <4>4. QED
          BY <3>3, <4>2, <4>3
      <3>4. QED
        BY <3>1, <3>2, <3>3
    <2>4. QED
      BY <2>2, <2>3 DEF d
  <1> HIDE DEF a, b, n
  <1>4. a = [k \in 1 .. n |-> a[k]] /\ b = [k \in 1 .. n |-> b[k]]
    BY <1>2, <1>3
  <1>5. \A k \in 1 .. n : a[k] = b[k]
    BY <1>2, <1>3
  <1>6. a = b
    BY <1>4, <1>5
  <1>7. QED
    BY <1>6 DEF a, b

\* Where the walk stands after k rounds: what it has met, with the best of what
\* is left, is the best there is.
OnTheWay(w, page, spoken, k) ==
  /\ w \in Walks
  /\ w.i \in 1 .. Len(page) + 1 /\ w.j \in 1 .. Len(spoken) + 1
  /\ \E t : /\ Best(Lengths(page, spoken), page, spoken, t, w.i, w.j)
            /\ Best(Lengths(page, spoken), page, spoken, w.met \o t, 1, 1)
  /\ w.i > Len(page) \/ w.j > Len(spoken) \/ w.i + w.j >= k + 2

\* A round of the walk keeps to the way.
LEMMA GoesOn ==
  ASSUME NEW page, Len(page) \in Nat, NEW spoken, Len(spoken) \in Nat, NEW k \in Nat,
         NEW w, OnTheWay(w, page, spoken, k)
  PROVE  OnTheWay(MatchStep(page, spoken, Lengths(page, spoken), w), page, spoken, k + 1)
  <1> DEFINE L == Lengths(page, spoken)
             m == Len(page)
             n == Len(spoken)
             next == MatchStep(page, spoken, L, w)
  <1>1. Table(L, page, spoken)
    BY LengthsFits
  <1> HIDE DEF L
  <1>2. /\ w \in Walks /\ w.i \in 1 .. m + 1 /\ w.j \in 1 .. n + 1 /\ w.met \in Seq(Nat)
        /\ w.i \in Nat /\ w.j \in Nat
        /\ w.i > m \/ w.j > n \/ w.i + w.j >= k + 2
    BY DEF OnTheWay, Walks
  <1>3. PICK t : Best(L, page, spoken, t, w.i, w.j) /\ Best(L, page, spoken, w.met \o t, 1, 1)
    BY DEF OnTheWay, L
  <1>4. next \in Walks
    BY <1>2, MatchStepWalks
  <1>5. CASE w.i > m \/ w.j > n
    <2>1. next = w
      BY <1>5 DEF MatchStep
    <2> HIDE DEF next
    <2>2. QED
      BY <1>2, <1>3, <1>5, <2>1 DEF OnTheWay, L, next
  <1>6. CASE ~(w.i > m) /\ ~(w.j > n)
    <2>1. /\ w.i \in 1 .. m /\ w.j \in 1 .. n /\ w.i + w.j >= k + 2
          /\ w.i + 1 \in 1 .. m + 1 /\ w.j + 1 \in 1 .. n + 1
      BY <1>2, <1>6, SMTT(30)
    <2>2. /\ HasBest(L, page, spoken, w.i + 1, w.j + 1) /\ HasBest(L, page, spoken, w.i + 1, w.j)
          /\ HasBest(L, page, spoken, w.i, w.j + 1)
      BY <1>1, <1>2, <2>1, BestExists
    <2>3. CASE page[w.i] = spoken[w.j]
      <3>1. PICK r : Best(L, page, spoken, r, w.i + 1, w.j + 1)
        BY <2>2 DEF HasBest
      <3>2. t = Put(w.i, r)
        <4>1. Best(L, page, spoken, Put(w.i, r), w.i, w.j)
          BY <1>1, <2>1, <2>3, <3>1, BestMatch
        <4>2. QED
          BY <1>3, <4>1, BestOnce
      <3>3. next.i = w.i + 1 /\ next.j = w.j + 1 /\ next.met = Append(w.met, w.i)
        BY <1>6, <2>3 DEF MatchStep
      <3>4. next.met \o r = w.met \o t
        <4>1. r \in Seq(Nat)
          BY <3>1, MeetsFits DEF Best
        <4>2. Append(w.met, w.i) \o r = w.met \o Put(w.i, r)
          BY <1>2, <4>1, AppendPut
        <4>3. QED
          BY <3>2, <3>3, <4>2
      <3> HIDE DEF next
      <3>5. next.i + next.j >= (k + 1) + 2
        <4>1. w.i \in Nat /\ w.j \in Nat /\ w.i + w.j >= k + 2
          BY <1>2, <2>1
        <4>2. QED
          BY <3>3, <4>1
      <3>6. Best(L, page, spoken, r, next.i, next.j) /\ Best(L, page, spoken, next.met \o r, 1, 1)
        BY <1>3, <3>1, <3>3, <3>4
      <3>7. QED
        BY <1>4, <2>1, <3>3, <3>5, <3>6 DEF OnTheWay, L, next
    <2>4. CASE page[w.i] # spoken[w.j] /\ L[w.i + 1][w.j] > L[w.i][w.j + 1]
      <3>1. PICK r : Best(L, page, spoken, r, w.i + 1, w.j)
        BY <2>2 DEF HasBest
      <3>2. t = r
        <4>1. Best(L, page, spoken, r, w.i, w.j)
          BY <1>1, <2>1, <2>4, <3>1, BestSkipPage
        <4>2. QED
          BY <1>3, <4>1, BestOnce
      <3>3. next.i = w.i + 1 /\ next.j = w.j /\ next.met = w.met
        <4>1. next = [w EXCEPT !.i = @ + 1]
          BY <1>6, <2>4 DEF MatchStep
        <4>2. QED
          BY <1>2, <4>1 DEF Walks
      <3> HIDE DEF next
      <3>5. next.i + next.j >= (k + 1) + 2
        <4>1. w.i \in Nat /\ w.j \in Nat /\ w.i + w.j >= k + 2
          BY <1>2, <2>1
        <4>2. QED
          BY <3>3, <4>1
      <3>6. Best(L, page, spoken, r, next.i, next.j) /\ Best(L, page, spoken, next.met \o r, 1, 1)
        BY <1>3, <3>1, <3>2, <3>3
      <3>7. QED
        BY <1>2, <1>4, <2>1, <3>3, <3>5, <3>6 DEF OnTheWay, L, next
    <2>5. CASE page[w.i] # spoken[w.j] /\ ~(L[w.i + 1][w.j] > L[w.i][w.j + 1])
      <3>1. PICK r : Best(L, page, spoken, r, w.i, w.j + 1)
        BY <2>2 DEF HasBest
      <3>2. t = r
        <4>1. Best(L, page, spoken, r, w.i, w.j)
          BY <1>1, <2>1, <2>5, <3>1, BestSkipSpoken
        <4>2. QED
          BY <1>3, <4>1, BestOnce
      <3>3. next.i = w.i /\ next.j = w.j + 1 /\ next.met = w.met
        <4>1. next = [w EXCEPT !.j = @ + 1]
          BY <1>6, <2>5 DEF MatchStep
        <4>2. QED
          BY <1>2, <4>1 DEF Walks
      <3> HIDE DEF next
      <3>5. next.i + next.j >= (k + 1) + 2
        <4>1. w.i \in Nat /\ w.j \in Nat /\ w.i + w.j >= k + 2
          BY <1>2, <2>1
        <4>2. QED
          BY <3>3, <4>1
      <3>6. Best(L, page, spoken, r, next.i, next.j) /\ Best(L, page, spoken, next.met \o r, 1, 1)
        BY <1>3, <3>1, <3>2, <3>3
      <3>7. QED
        BY <1>2, <1>4, <2>1, <3>3, <3>5, <3>6 DEF OnTheWay, L, next
    <2>6. QED
      BY <2>3, <2>4, <2>5
  <1>7. QED
    BY <1>5, <1>6 DEF L

-----------------------------------------------------------------------------
(* The walk finds it.                                                      *)

\* The walk ends with the best alignment of the whole page and transcript.
LEMMA WalkIsBest ==
  ASSUME NEW page, Len(page) \in Nat, NEW spoken, Len(spoken) \in Nat
  PROVE  Best(Lengths(page, spoken), page, spoken, Matches(page, spoken), 1, 1)
  <1> DEFINE L == Lengths(page, spoken)
             m == Len(page)
             n == Len(spoken)
  <1>1. Table(L, page, spoken)
    BY LengthsFits
  <1>2. PICK at : Walked(at, page, spoken) /\ Matches(page, spoken) = at[m + n].met
    BY MatchesWalk
  <1>3. m \in Nat /\ n \in Nat /\ m + n \in Nat
    OBVIOUS
  <1> DEFINE S == {k \in 0 .. m + n : OnTheWay(at[k], page, spoken, k)}
  <1>4. 0 \in S
    <2> DEFINE none == [i |-> 1, j |-> 1, met |-> <<>>]
    <2>1. Ascending(<<>>, 1)
      BY DEF Ascending
    <2>2. none \in Walks
      BY <2>1 DEF Walks
    <2>3. 1 \in 1 .. m + 1 /\ 1 \in 1 .. n + 1
      BY <1>3
    <2>4. PICK t : Best(L, page, spoken, t, 1, 1)
      <3> HIDE DEF L
      <3>1. QED
        BY <1>1, <2>3, BestExists DEF HasBest
    <2>5. <<>> \o t = t
      <3>1. t \in Seq(Nat)
        BY <2>4, MeetsFits DEF Best
      <3>2. QED
        BY <3>1
    <2>6. none.i = 1 /\ none.j = 1 /\ none.met = <<>>
      OBVIOUS
    <2>7. at[0] = none
      BY <1>2 DEF Walked
    <2> HIDE DEF none
    <2>8. Best(L, page, spoken, t, none.i, none.j) /\ Best(L, page, spoken, none.met \o t, 1, 1)
      BY <2>4, <2>5, <2>6
    <2>9. none.i + none.j >= 0 + 2
      BY <2>6
    <2>10. OnTheWay(none, page, spoken, 0)
      BY <2>2, <2>3, <2>6, <2>8, <2>9 DEF OnTheWay
    <2>11. QED
      BY <1>3, <2>7, <2>10
  <1>5. ASSUME NEW k \in 1 .. m + n, k - 1 \in S PROVE k \in S
    <2>1. OnTheWay(at[k - 1], page, spoken, k - 1) /\ k \in 0 .. m + n
      BY <1>3, <1>5
    <2>2. k - 1 \in Nat /\ (k - 1) + 1 = k
      OBVIOUS
    <2>3. at[k] = MatchStep(page, spoken, L, at[k - 1])
      BY <1>2 DEF Walked
    <2>4. OnTheWay(MatchStep(page, spoken, L, at[k - 1]), page, spoken, (k - 1) + 1)
      BY <2>1, <2>2, GoesOn
    <2>5. OnTheWay(at[k], page, spoken, k)
      BY <2>2, <2>3, <2>4
    <2>6. QED
      BY <2>1, <2>5
  <1>6. \A k \in 0 .. m + n : k \in S
    <2> DEFINE e == m + n
    <2> HIDE DEF S, e
    <2>1. e \in Nat /\ \A k \in 1 .. e : k - 1 \in S => k \in S
      BY <1>3, <1>5 DEF e
    <2>2. \A k \in 0 .. e : k \in S
      BY <1>4, <2>1, RangeInduction
    <2>3. QED
      BY <2>2 DEF e
  <1> DEFINE w == at[m + n]
  <1>7. OnTheWay(w, page, spoken, m + n)
    <2>1. m + n \in 0 .. m + n
      BY <1>3
    <2>2. QED
      BY <1>6, <2>1
  <1> HIDE DEF w
  <1>8. /\ w.i \in 1 .. m + 1 /\ w.j \in 1 .. n + 1 /\ w.met \in Seq(Nat)
        /\ w.i > m \/ w.j > n \/ w.i + w.j >= (m + n) + 2
    BY <1>7 DEF OnTheWay, Walks
  <1>9. PICK t : Best(L, page, spoken, t, w.i, w.j) /\ Best(L, page, spoken, w.met \o t, 1, 1)
    BY <1>7 DEF OnTheWay
  <1>10. w.i > m \/ w.j > n
    BY <1>3, <1>8
  <1> HIDE DEF L
  <1>11. t = <<>>
    <2>1. L[w.i][w.j] = 0
      BY <1>1, <1>8, <1>10, TableEntries
    <2>2. t \in Seq(Nat) /\ Len(t) = 0
      BY <1>9, <2>1, MeetsFits DEF Best
    <2>3. QED
      BY <2>2
  <1>12. w.met \o t = w.met
    BY <1>8, <1>11
  <1>13. Best(L, page, spoken, w.met, 1, 1)
    BY <1>9, <1>12
  <1>14. QED
    BY <1>2, <1>13 DEF L, w

\* The places of the reference definition are those of the chains.
LEMMA CommonMeets ==
  ASSUME NEW page, Len(page) \in Nat, NEW spoken, Len(spoken) \in Nat, NEW n \in Nat, NEW p
  PROVE  p \in Common(page, spoken, n) <=> Meets(page, spoken, p, 1, 1) /\ Len(p) = n
  <1>1. ASSUME p \in Common(page, spoken, n)
        PROVE  Meets(page, spoken, p, 1, 1) /\ Len(p) = n
    <2>1. /\ p \in InOrder(n, Len(page))
          /\ \E s \in InOrder(n, Len(spoken)) : \A k \in 1 .. n : page[p[k]] = spoken[s[k]]
      BY <1>1 DEF Common
    <2>2. PICK s \in InOrder(n, Len(spoken)) : \A k \in 1 .. n : page[p[k]] = spoken[s[k]]
      BY <2>1
    <2>3. /\ p \in [1 .. n -> 1 .. Len(page)] /\ \A j, k \in 1 .. n : j < k => p[j] < p[k]
      BY <2>1 DEF InOrder
    <2>4. /\ s \in [1 .. n -> 1 .. Len(spoken)] /\ \A j, k \in 1 .. n : j < k => s[j] < s[k]
      BY DEF InOrder
    <2>5. p \in Seq(Nat) /\ Len(p) = n
      <3>1. p \in [1 .. n -> Nat]
        BY <2>3
      <3>2. QED
        BY <3>1
    <2>6. s \in Seq(Nat) /\ Len(s) = n
      <3>1. s \in [1 .. n -> Nat]
        BY <2>4
      <3>2. QED
        BY <3>1
    <2>7. \A k \in 1 .. n : /\ 1 <= p[k] /\ p[k] <= Len(page)
                            /\ 1 <= s[k] /\ s[k] <= Len(spoken)
      BY <2>3, <2>4
    <2>8. Chain(page, spoken, p, s, 1, 1)
      BY <2>2, <2>3, <2>4, <2>5, <2>6, <2>7 DEF Chain
    <2>9. QED
      BY <2>5, <2>8 DEF Meets
  <1>2. ASSUME Meets(page, spoken, p, 1, 1), Len(p) = n
        PROVE  p \in Common(page, spoken, n)
    <2>1. PICK s : Chain(page, spoken, p, s, 1, 1)
      BY <1>2 DEF Meets
    <2>2. /\ p \in Seq(Nat) /\ s \in Seq(Nat) /\ Len(s) = n
          /\ \A k \in 1 .. n : /\ p[k] \in Nat /\ s[k] \in Nat
                               /\ 1 <= p[k] /\ p[k] <= Len(page)
                               /\ 1 <= s[k] /\ s[k] <= Len(spoken)
                               /\ page[p[k]] = spoken[s[k]]
          /\ \A k, l \in 1 .. n : k < l => p[k] < p[l] /\ s[k] < s[l]
      <3>1. /\ p \in Seq(Nat) /\ s \in Seq(Nat) /\ Len(p) = Len(s)
            /\ \A k \in 1 .. Len(p) :
                 /\ p[k] \in Nat /\ s[k] \in Nat
                 /\ 1 <= p[k] /\ p[k] <= Len(page) /\ 1 <= s[k] /\ s[k] <= Len(spoken)
                 /\ page[p[k]] = spoken[s[k]]
            /\ \A k, l \in 1 .. Len(p) : k < l => p[k] < p[l] /\ s[k] < s[l]
        BY <2>1, ChainOrder
      <3>2. QED
        BY <1>2, <3>1
    <2>3. p = [k \in 1 .. n |-> p[k]] /\ s = [k \in 1 .. n |-> s[k]]
      BY <1>2, <2>2
    <2>4. \A k \in 1 .. n : p[k] \in 1 .. Len(page) /\ s[k] \in 1 .. Len(spoken)
      BY <2>2
    <2>5. p \in InOrder(n, Len(page)) /\ s \in InOrder(n, Len(spoken))
      BY <2>2, <2>3, <2>4 DEF InOrder
    <2>6. QED
      BY <2>2, <2>5 DEF Common
  <1>3. QED
    BY <1>1, <1>2

\* A page has no more words to meet than it has words.
LEMMA ChainFits ==
  ASSUME NEW page, Len(page) \in Nat, NEW spoken, NEW p, Meets(page, spoken, p, 1, 1)
  PROVE  Len(p) <= Len(page)
  <1>1. PICK s : Chain(page, spoken, p, s, 1, 1)
    BY DEF Meets
  <1>2. /\ Len(p) \in Nat
        /\ \A k \in 1 .. Len(p) : p[k] \in Nat /\ 1 <= p[k] /\ p[k] <= Len(page)
        /\ \A k, l \in 1 .. Len(p) : k < l => p[k] < p[l]
    BY <1>1, ChainOrder
  <1> DEFINE S == {k \in 0 .. Len(p) : k # 0 => k <= p[k]}
  <1>3. 0 \in S
    BY <1>2
  <1>4. ASSUME NEW k \in 1 .. Len(p), k - 1 \in S PROVE k \in S
    <2>1. k \in Nat /\ k \in 0 .. Len(p) /\ p[k] \in Nat /\ 1 <= p[k]
      BY <1>2
    <2>2. CASE k = 1
      BY <2>1, <2>2
    <2>3. CASE k # 1
      <3>1. k - 1 \in 1 .. Len(p) /\ k - 1 < k
        BY <2>1, <2>3
      <3>2. k - 1 <= p[k - 1] /\ p[k - 1] < p[k] /\ p[k - 1] \in Nat
        BY <1>2, <1>4, <3>1
      <3>3. k <= p[k]
        BY <2>1, <3>2
      <3>4. QED
        BY <2>1, <3>3
    <2>4. QED
      BY <2>2, <2>3
  <1>5. \A k \in 0 .. Len(p) : k \in S
    <2> HIDE DEF S
    <2>1. QED
      BY <1>2, <1>3, <1>4, RangeInduction
  <1>6. CASE Len(p) = 0
    BY <1>6
  <1>7. CASE Len(p) # 0
    <2>1. Len(p) \in 1 .. Len(p) /\ Len(p) \in 0 .. Len(p)
      BY <1>2, <1>7
    <2>2. Len(p) <= p[Len(p)]
      BY <1>5, <1>7, <2>1
    <2>3. p[Len(p)] \in Nat /\ p[Len(p)] <= Len(page)
      BY <1>2, <2>1
    <2>4. QED
      BY <1>2, <2>2, <2>3
  <1>8. QED
    BY <1>6, <1>7

(* Of the longest alignments of any page with any transcript, the walk over   *)
(* the table returns the one whose words come first on the page.             *)
THEOREM WalkIsEarliest ==
  ASSUME NEW page, Len(page) \in Nat, NEW spoken, Len(spoken) \in Nat
  PROVE  Matches(page, spoken) = EarliestLongest(page, spoken)
  <1> DEFINE L == Lengths(page, spoken)
             p == Matches(page, spoken)
             N == L[1][1]
             sizes == {n \in 0 .. Len(page) : Common(page, spoken, n) # {}}
  <1>1. Best(L, page, spoken, p, 1, 1)
    BY WalkIsBest
  <1>2. N \in Nat /\ Bounded(L, page, spoken, 1, 1)
    <2>1. 1 \in 1 .. Len(page) + 1 /\ 1 \in 1 .. Len(spoken) + 1
      OBVIOUS
    <2>2. Table(L, page, spoken)
      BY LengthsFits
    <2> HIDE DEF L
    <2>3. QED
      BY <2>1, <2>2, TableEntries, ChainsBounded
  <1> HIDE DEF L, p
  <1>3. Meets(page, spoken, p, 1, 1) /\ Len(p) = N
    BY <1>1 DEF Best
  <1>4. N \in sizes
    <2>1. N \in 0 .. Len(page)
      BY <1>2, <1>3, ChainFits
    <2>2. p \in Common(page, spoken, N)
      BY <1>2, <1>3, CommonMeets
    <2>3. QED
      BY <2>1, <2>2
  <1>5. ASSUME NEW n \in sizes PROVE n <= N
    <2>1. n \in Nat
      OBVIOUS
    <2>2. PICK q : q \in Common(page, spoken, n)
      OBVIOUS
    <2>3. Meets(page, spoken, q, 1, 1) /\ Len(q) = n
      BY <2>1, <2>2, CommonMeets
    <2>4. QED
      BY <1>2, <2>3 DEF Bounded, Meets
  <1>6. Max(sizes) = N
    <2>1. \A n \in sizes : n \in Nat
      OBVIOUS
    <2> HIDE DEF sizes, N
    <2>2. \A n \in sizes : N >= n
      BY <1>2, <1>5, <2>1
    <2>3. \A n \in sizes : (\A k \in sizes : n >= k) => n = N
      BY <1>2, <1>4, <2>1, <2>2
    <2>4. QED
      BY <1>4, <2>2, <2>3 DEF Max
  <1>7. \A q : q \in Longest(page, spoken) <=> Meets(page, spoken, q, 1, 1) /\ Len(q) = N
    <2>1. Longest(page, spoken) = Common(page, spoken, N)
      BY <1>6 DEF Longest
    <2>2. QED
      BY <1>2, <2>1, CommonMeets
  <1>8. p \in Longest(page, spoken) /\ \A q \in Longest(page, spoken) : ComesFirst(p, q)
    BY <1>1, <1>3, <1>7 DEF Best
  <1>9. ASSUME NEW q \in Longest(page, spoken),
               \A other \in Longest(page, spoken) : ComesFirst(q, other)
        PROVE  q = p
    <2>1. q \in Seq(Nat) /\ p \in Seq(Nat)
      BY <1>3, <1>7, MeetsFits
    <2>2. ComesFirst(q, p) /\ ComesFirst(p, q)
      BY <1>8, <1>9
    <2>3. QED
      BY <2>1, <2>2, ComesFirstOnce
  <1>10. EarliestLongest(page, spoken) = p
    BY <1>8, <1>9 DEF EarliestLongest
  <1>11. QED
    BY <1>10 DEF p

\* What is selected ends with the last position, if anything is selected.
LEMMA BeyondEnds ==
  ASSUME NEW reached \in Nat, NEW met, NEW i \in Nat, Ascending(met, i),
         Beyond(reached, met) # <<>>
  PROVE  met # <<>> /\ Last(Beyond(reached, met)) = met[Len(met)]
  <1> DEFINE n == Len(met)
  <1>1. /\ met \in Seq(Nat) /\ n \in Nat /\ \A k \in 1 .. n : met[k] \in Nat
        /\ \A j, k \in 1 .. n : j < k => met[j] < met[k]
    BY DEF Ascending
  <1>2. PICK at : Selected(at, reached, met) /\ Beyond(reached, met) = at[n]
    BY <1>1, BeyondSelects
  <1>3. n # 0
    BY <1>2 DEF Selected
  <1>4. n \in 1 .. n /\ n - 1 \in 0 .. n /\ met[n] \in Nat /\ met # <<>>
    BY <1>1, <1>3
  <1>5. at[n] = IF met[n] > reached THEN Append(at[n - 1], met[n]) ELSE at[n - 1]
    BY <1>2, <1>4 DEF Selected
  <1> DEFINE S == {k \in 0 .. n : at[k] \in Seq(Nat)}
  <1>6. 0 \in S
    <2>1. at[0] \in Seq(Nat)
      BY <1>2 DEF Selected
    <2>2. 0 \in 0 .. n
      BY <1>1
    <2>3. QED
      BY <2>1, <2>2
  <1>7. ASSUME NEW k \in 1 .. n, k - 1 \in S PROVE k \in S
    <2>1. at[k] = IF met[k] > reached THEN Append(at[k - 1], met[k]) ELSE at[k - 1]
      BY <1>2 DEF Selected
    <2>2. at[k - 1] \in Seq(Nat) /\ met[k] \in Nat /\ k \in 0 .. n
      BY <1>1, <1>7
    <2>3. at[k] \in Seq(Nat)
      <3>1. CASE met[k] > reached
        <4>1. at[k] = Append(at[k - 1], met[k])
          BY <2>1, <3>1
        <4> DEFINE row == at[k - 1]
                   word == met[k]
        <4>2. at[k] = Append(row, word) /\ row \in Seq(Nat) /\ word \in Nat
          BY <2>2, <4>1
        <4> HIDE DEF row, word
        <4>3. QED
          BY <4>2
      <3>2. CASE ~(met[k] > reached)
        BY <2>1, <2>2, <3>2
      <3>3. QED
        BY <3>1, <3>2
    <2>4. QED
      BY <2>2, <2>3
  <1>8. \A k \in 0 .. n : k \in S
    <2> HIDE DEF S, n
    <2>1. QED
      BY <1>1, <1>6, <1>7, RangeInduction
  <1>9. at[n - 1] \in Seq(Nat)
    BY <1>4, <1>8
  <1>10. CASE met[n] > reached
    <2>1. Beyond(reached, met) = Append(at[n - 1], met[n])
      BY <1>2, <1>5, <1>10
    <2> DEFINE row == at[n - 1]
    <2> HIDE DEF row
    <2>2. Last(Append(row, met[n])) = met[n]
      <3>1. row \in Seq(Nat)
        BY <1>9 DEF row
      <3>2. /\ Len(Append(row, met[n])) = Len(row) + 1
            /\ Append(row, met[n])[Len(row) + 1] = met[n]
        BY <1>4, <3>1
      <3>3. QED
        BY <3>2 DEF Last
    <2>3. QED
      BY <1>4, <2>1, <2>2 DEF row
  <1>11. CASE ~(met[n] > reached)
    <2>1. Ascending(met, met[n] + 1)
      <3>1. ASSUME NEW k \in 1 .. n PROVE met[k] < met[n] + 1
        <4>1. CASE k = n
          BY <1>4, <4>1
        <4>2. CASE k # n
          <5>1. k < n
            BY <1>1, <4>2
          <5>2. met[k] < met[n] /\ met[k] \in Nat
            BY <1>1, <1>4, <5>1
          <5>3. QED
            BY <1>4, <5>2
        <4>3. QED
          BY <4>1, <4>2
      <3>2. QED
        BY <1>1, <3>1 DEF Ascending
    <2> DEFINE new == Beyond(reached, met)
    <2>2. /\ new \in Seq(Nat) /\ \A k \in 1 .. Len(new) : new[k] < met[n] + 1
          /\ \A k \in 1 .. Len(new) : new[k] > reached
      <3>1. met[n] + 1 \in Nat
        BY <1>4
      <3>2. Ascending(new, met[n] + 1) /\ \A k \in 1 .. Len(new) : new[k] > reached
        BY <2>1, <3>1, BeyondAscends
      <3> HIDE DEF new
      <3>3. QED
        BY <3>2 DEF Ascending
    <2> HIDE DEF new
    <2>3. new # <<>>
      BY DEF new
    <2>4. 1 \in 1 .. Len(new) /\ new[1] \in Nat
      BY <2>2, <2>3
    <2>5. new[1] < met[n] + 1 /\ new[1] > reached
      BY <2>2, <2>4
    <2>6. QED
      BY <1>4, <1>11, <2>4, <2>5
  <1>12. QED
    BY <1>10, <1>11

\* Where a transcript takes the reading.
LEMMA NewlyReachedEnds ==
  ASSUME NEW page, NEW T, page \in Seq(T), NEW spoken, Len(spoken) \in Nat,
         NEW reached \in Nat, NEW mode, NewlyReached(page, spoken, reached, mode) # <<>>
  PROVE  \E from \in {0, reached} :
           Last(NewlyReached(page, spoken, reached, mode)) =
             from + EarliestReached(SubSeq(page, from + 1, Len(page)), spoken)
  <1> DEFINE left == SubSeq(page, reached + 1, Len(page))
             rest == Matches(left, spoken)
             moved == [k \in DOMAIN rest |-> rest[k] + reached]
             whole == Matches(page, spoken)
             met == IF mode = "cumulative" THEN whole ELSE moved
  <1>1. NewlyReached(page, spoken, reached, mode) = Beyond(reached, met)
    BY DEF NewlyReached
  <1>2. Len(page) \in Nat /\ Len(left) \in Nat
    OBVIOUS
  <1>3. CASE mode = "cumulative"
    <2>1. PICK i \in Nat : Ascending(whole, i)
      BY <1>2, MatchesAscend
    <2>2. met = whole
      BY <1>3
    <2> HIDE DEF whole
    <2>3. whole # <<>> /\ Last(Beyond(reached, whole)) = whole[Len(whole)]
      BY <1>1, <2>1, <2>2, BeyondEnds
    <2>4. whole = EarliestLongest(page, spoken)
      BY <1>2, WalkIsEarliest DEF whole
    <2>5. EarliestReached(page, spoken) = whole[Len(whole)]
      BY <2>3, <2>4 DEF EarliestReached, Last
    <2>6. SubSeq(page, 0 + 1, Len(page)) = page
      OBVIOUS
    <2>7. whole[Len(whole)] \in Nat
      <3>1. whole \in Seq(Nat)
        BY <2>1 DEF Ascending
      <3>2. QED
        BY <2>3, <3>1
    <2>8. Last(NewlyReached(page, spoken, reached, mode))
            = 0 + EarliestReached(SubSeq(page, 0 + 1, Len(page)), spoken)
      <3> DEFINE z == SubSeq(page, 0 + 1, Len(page))
      <3>1. EarliestReached(z, spoken) = whole[Len(whole)]
        BY <2>5, <2>6
      <3> HIDE DEF z
      <3>2. EarliestReached(z, spoken) = 0 + EarliestReached(z, spoken)
        BY <2>7, <3>1
      <3>3. Last(NewlyReached(page, spoken, reached, mode)) = EarliestReached(z, spoken)
        BY <1>1, <2>2, <2>3, <3>1
      <3>4. QED
        BY <3>2, <3>3 DEF z
    <2>9. QED
      BY <2>8
  <1>4. CASE mode # "cumulative"
    <2> HIDE DEF left
    <2>1. PICK i \in Nat : Ascending(rest, i)
      BY <1>2, MatchesAscend
    <2> HIDE DEF rest
    <2>2. rest \in Seq(Nat) /\ Len(rest) \in Nat /\ DOMAIN rest = 1 .. Len(rest)
          /\ (\A k \in 1 .. Len(rest) : rest[k] \in Nat /\ rest[k] < i)
          /\ \A j, k \in 1 .. Len(rest) : j < k => rest[j] < rest[k]
      BY <2>1 DEF Ascending
    <2>3. /\ moved \in Seq(Nat) /\ Len(moved) = Len(rest)
          /\ \A k \in 1 .. Len(rest) : moved[k] = rest[k] + reached
      <3>1. moved \in [1 .. Len(rest) -> Nat]
        BY <2>2
      <3>2. QED
        BY <2>2, <3>1
    <2>4. met = moved
      BY <1>4
    <2> HIDE DEF moved
    <2>5. Ascending(moved, i + reached)
      <3>1. \A k \in 1 .. Len(rest) : moved[k] < i + reached
        BY <2>2, <2>3
      <3>2. \A j, k \in 1 .. Len(rest) : j < k => moved[j] < moved[k]
        <4>1. ASSUME NEW j \in 1 .. Len(rest), NEW k \in 1 .. Len(rest), j < k
              PROVE  moved[j] < moved[k]
          <5>1. rest[j] < rest[k] /\ rest[j] \in Nat /\ rest[k] \in Nat
            BY <2>2, <4>1
          <5>2. moved[j] = rest[j] + reached /\ moved[k] = rest[k] + reached
            BY <2>3
          <5>3. QED
            BY <5>1, <5>2
        <4>2. QED
          BY <4>1
      <3>3. QED
        BY <2>3, <3>1, <3>2 DEF Ascending
    <2>6. moved # <<>> /\ Last(Beyond(reached, moved)) = moved[Len(moved)]
      <3>1. i + reached \in Nat
        OBVIOUS
      <3>2. QED
        BY <1>1, <2>4, <2>5, <3>1, BeyondEnds
    <2>7. rest # <<>> /\ Len(rest) \in 1 .. Len(rest)
      BY <2>2, <2>3, <2>6
    <2>8. moved[Len(moved)] = reached + rest[Len(rest)]
      BY <2>2, <2>3, <2>7
    <2>9. rest = EarliestLongest(left, spoken)
      BY <1>2, WalkIsEarliest DEF rest
    <2>10. EarliestReached(left, spoken) = rest[Len(rest)]
      BY <2>7, <2>9 DEF EarliestReached, Last
    <2>11. Last(NewlyReached(page, spoken, reached, mode))
             = reached + EarliestReached(left, spoken)
      BY <1>1, <2>4, <2>6, <2>8, <2>10
    <2>12. QED
      BY <2>11 DEF left
  <1>5. QED
    BY <1>3, <1>4

\* Only a transcript takes the reading on.
LEMMA IngestReaches ==
  ASSUME session \in Places, NEW spoken \in Transcripts, NEW mode \in Modes,
         Ingest(spoken, mode), session'.reached > session.reached
  PROVE  \E from \in {0, session.reached} :
           LET page == Text[session.page]
           IN session'.reached =
                from + EarliestReached(SubSeq(page, from + 1, Len(page)), spoken)
  <1> DEFINE page == Text[session.page]
             new == NewlyReached(page, spoken, session.reached, mode)
  <1>1. /\ session.page # NoPage
        /\ session' = IF new = <<>> THEN session ELSE [session EXCEPT !.reached = Last(new)]
    BY DEF Ingest
  <1>2. session.page \in Page /\ session.reached \in Nat
    BY <1>1 DEF Places
  <1>3. page \in Seq(STRING) /\ spoken \in Seq(STRING) /\ Len(spoken) \in Nat
    BY <1>2, ReaderAssumption
  <1> HIDE DEF page, new
  <1>4. new # <<>>
    <2>1. ASSUME new = <<>> PROVE FALSE
      <3>1. session' = session
        BY <1>1, <2>1
      <3>2. QED
        BY <1>2, <3>1
    <2>2. QED
      BY <2>1
  <1>5. session'.reached = Last(new)
    BY <1>1, <1>4 DEF Places
  <1>6. \E from \in {0, session.reached} :
          Last(new) = from + EarliestReached(SubSeq(page, from + 1, Len(page)), spoken)
    BY <1>2, <1>3, <1>4, NewlyReachedEnds DEF new
  <1>7. QED
    BY <1>5, <1>6 DEF page

-----------------------------------------------------------------------------
(* Where the events lead a view.                                           *)

\* Where a view must arrive to show what is read.
Target(s) == [page |-> s.page, generation |-> s.generation, cursor |-> s.reached]
ViewUpTo(view, s) == UpTo(view.generation, view.cursor, s.generation, s.reached)
EventsUpTo(events, s) ==
  \A k \in 1 .. Len(events) : UpTo(events[k].generation, events[k].index, s.generation, s.reached)
Leads(view, events, s) == Replayed(view, events) = Target(s)

\* What is read can be shown, and is not ahead of itself.
LEMMA TargetView ==
  ASSUME NEW s \in Places, s.page \in Page
  PROVE  Target(s) \in Views /\ ViewUpTo(Target(s), s) /\ Target(s).page = s.page
  BY DEF Target, ViewUpTo, UpTo, Places, Views

\* A view that is neither ahead of the target nor behind it is the target.
LEMMA ArrivedIsTarget ==
  ASSUME NEW s \in Places, NEW w \in Views, ViewUpTo(w, s), NotPast(Target(s), w)
  PROVE  w = Target(s)
  <1>1. w.page = s.page /\ w.generation = s.generation /\ w.cursor = s.reached
    BY DEF Target, ViewUpTo, UpTo, NotPast, Places, Views
  <1>2. w = [page |-> w.page, generation |-> w.generation, cursor |-> w.cursor]
    BY DEF Views
  <1>3. QED
    BY <1>1, <1>2 DEF Target

\* From the target events that are not ahead lead nowhere else.
LEMMA TargetStays ==
  ASSUME NEW s \in Places, s.page \in Page, NEW events \in Seq(Events), EventsUpTo(events, s)
  PROVE  Leads(Target(s), events, s)
  <1> DEFINE t == Target(s)
             w == Replayed(t, events)
  <1>1. t \in Views /\ ViewUpTo(t, s)
    BY TargetView
  <1>2. w \in Views /\ NotPast(t, w)
    BY <1>1, ReplayedKeepsViews, ReplayedGoesOn
  <1>3. ViewUpTo(w, s)
    <2>1. s.generation \in Nat /\ s.reached \in Nat
      BY DEF Places
    <2> HIDE DEF t
    <2>2. QED
      BY <1>1, <2>1, ReplayedUpTo DEF ViewUpTo, EventsUpTo
  <1> HIDE DEF w
  <1>4. w = t
    BY <1>2, <1>3, ArrivedIsTarget
  <1>5. QED
    BY <1>4 DEF w, Leads

\* A status takes no view back, off its page or past the word reached.
LEMMA AppliedFits ==
  ASSUME NEW s \in Places, NEW view \in Views, NEW status \in Places, ViewUpTo(view, s),
         UpTo(status.generation, status.reached, s.generation, s.reached)
  PROVE  /\ Applied(status, view) \in Views /\ ViewUpTo(Applied(status, view), s)
         /\ Applied(status, view).page = view.page
         /\ NotPast(view, Applied(status, view))
  <1>1. CASE status.page # view.page \/ Outdated(status, view)
    <2>1. Applied(status, view) = view
      BY <1>1 DEF Applied
    <2>2. NotPast(view, view)
      BY DEF NotPast, Views
    <2>3. QED
      BY <2>1, <2>2
  <1>2. CASE ~(status.page # view.page \/ Outdated(status, view))
    <2> DEFINE w == [page |-> view.page, generation |-> status.generation,
                     cursor |-> status.reached]
    <2>1. Applied(status, view) = w
      BY <1>2 DEF Applied, Views
    <2>2. w \in Views /\ ViewUpTo(w, s)
      BY DEF Views, Places, ViewUpTo
    <2>3. NotPast(view, w)
      BY <1>2 DEF NotPast, Outdated, Views, Places
    <2>4. QED
      BY <2>1, <2>2, <2>3
  <1>3. QED
    BY <1>1, <1>2

\* A status that is not ahead takes a view that is led there not off its way.
LEMMA AppliedLeads ==
  ASSUME NEW s \in Places, NEW view \in Views, NEW status \in Places, ViewUpTo(view, s),
         UpTo(status.generation, status.reached, s.generation, s.reached),
         NEW events \in Seq(Events), EventsUpTo(events, s), Leads(view, events, s)
  PROVE  Leads(Applied(status, view), events, s)
  <1> DEFINE w == Applied(status, view)
             x == Replayed(w, events)
  <1>1. w \in Views /\ ViewUpTo(w, s) /\ NotPast(view, w)
    BY AppliedFits
  <1> HIDE DEF w
  <1>2. x \in Views /\ NotPast(Replayed(view, events), x)
    BY <1>1, ReplayedKeepsViews, ReplayedInOrder
  <1>3. ViewUpTo(x, s)
    <2>1. s.generation \in Nat /\ s.reached \in Nat
      BY DEF Places
    <2>2. QED
      BY <1>1, <2>1, ReplayedUpTo DEF ViewUpTo, EventsUpTo
  <1> HIDE DEF x
  <1>4. x = Target(s)
    BY <1>2, <1>3, ArrivedIsTarget DEF Leads
  <1>5. QED
    BY <1>4 DEF x, w, Leads

\* The status of the present reading leads there at once.
LEMMA PresentStatusLeads ==
  ASSUME NEW s \in Places, NEW view \in Views, ViewUpTo(view, s), view.page = s.page,
         NEW events \in Seq(Events), EventsUpTo(events, s)
  PROVE  Leads(Applied(s, view), events, s)
  <1>1. s.page \in Page /\ UpTo(s.generation, s.reached, s.generation, s.reached)
    BY DEF Views, Places, UpTo
  <1>2. Applied(s, view) \in Views /\ ViewUpTo(Applied(s, view), s)
    BY <1>1, AppliedFits
  <1>3. NotPast(Target(s), Applied(s, view))
    BY DEF Target, NotPast, Applied, Outdated, ViewUpTo, UpTo, Places, Views
  <1>4. Applied(s, view) = Target(s)
    BY <1>2, <1>3, ArrivedIsTarget
  <1>5. QED
    BY <1>1, <1>4, TargetStays

\* What a reset of the reading publishes leads every view of the page to its beginning.
LEMMA ResetLeads ==
  ASSUME NEW s \in Places, NEW t \in Places,
         t.page = s.page, t.generation = s.generation + 1, t.reached = 0,
         NEW view \in Views, ViewUpTo(view, s), view.page = s.page,
         NEW events \in Seq(Events), EventsUpTo(events, s),
         NEW reset \in Events, reset.type = "session.reset", reset.page = t.page,
         reset.generation = t.generation
  PROVE  Leads(view, events \o <<reset>>, t)
  <1> DEFINE w == Replayed(view, events)
  <1>1. w \in Views /\ w.page = s.page
    BY ReplayedKeepsViews
  <1>2. w.generation <= s.generation
    <2>1. s.generation \in Nat /\ s.reached \in Nat
      BY DEF Places
    <2>2. QED
      BY <2>1, ReplayedUpTo DEF ViewUpTo, EventsUpTo, UpTo
  <1>3. Replayed(view, events \o <<reset>>) = Handled(w, reset)
    <2>1. <<reset>> \in Seq(Events)
      OBVIOUS
    <2>2. Replayed(view, events \o <<reset>>) = Replayed(w, <<reset>>)
      BY <2>1, ReplayedInTurn
    <2> HIDE DEF w
    <2>3. Replayed(w, <<reset>>) = Handled(w, reset)
      BY <1>1, ReplayedOne
    <2>4. QED
      BY <2>2, <2>3
  <1> HIDE DEF w
  <1>4. NewReading(w, reset) /\ ~NewWord(w, reset)
    BY <1>1, <1>2 DEF NewReading, NewWord, Views, Places, Events
  <1>5. Handled(w, reset) = [page |-> w.page, generation |-> reset.generation, cursor |-> 0]
    BY <1>1, <1>4 DEF Handled, Views
  <1>6. QED
    BY <1>1, <1>3, <1>5 DEF Leads, Target

\* What a transcript publishes leads on to the last of the words it newly reaches.
Heralds(numbered, s, new) ==
  /\ numbered \in Seq(Events) /\ Len(numbered) = Len(new) + 1
  /\ numbered[1].type = "transcript.partial"
  /\ \A k \in 1 .. Len(new) :
       /\ numbered[k + 1].type = "word.reached" /\ numbered[k + 1].page = s.page
       /\ numbered[k + 1].generation = s.generation /\ numbered[k + 1].index = new[k]

\* From the word reached they lead, word by word, to the last.
LEMMA WordsLead ==
  ASSUME NEW s \in Places, s.page \in Page, NEW new, NEW i \in Nat, Ascending(new, i),
         \A k \in 1 .. Len(new) : new[k] > s.reached,
         NEW numbered, Heralds(numbered, s, new)
  PROVE  Replayed(Target(s), numbered) =
           [page |-> s.page, generation |-> s.generation,
            cursor |-> IF new = <<>> THEN s.reached ELSE new[Len(new)]]
  <1> DEFINE n == Len(new)
             At(k) == [page |-> s.page, generation |-> s.generation,
                       cursor |-> IF k = 0 THEN s.reached ELSE new[k]]
             t == Target(s)
  <1>1. /\ n \in Nat /\ \A k \in 1 .. n : new[k] \in Nat /\ new[k] > s.reached
        /\ \A j, k \in 1 .. n : j < k => new[j] < new[k]
        /\ numbered \in Seq(Events) /\ Len(numbered) = n + 1
    BY DEF Ascending, Heralds
  <1>2. t \in Views
    BY TargetView
  <1>3. PICK V : Through(V, t, numbered) /\ Replayed(t, numbered) = V[n + 1]
    BY <1>1, <1>2, ReplayedThrough
  <1>4. /\ V[0] = t /\ \A k \in 1 .. n + 1 : V[k] = Handled(V[k - 1], numbered[k])
    BY <1>1, <1>3 DEF Through
  <1> DEFINE S == {k \in 0 .. n : V[k + 1] = At(k)}
  <1>5. 0 \in S
    <2>1. V[1] = Handled(t, numbered[1]) /\ t = At(0)
      BY <1>1, <1>4 DEF Target
    <2>2. Handled(t, numbered[1]) = t
      BY DEF Heralds, Handled, NewWord, NewReading
    <2>3. QED
      BY <1>1, <2>1, <2>2
  <1>6. ASSUME NEW k \in 1 .. n, k - 1 \in S PROVE k \in S
    <2> DEFINE v == At(k - 1)
               e == numbered[k + 1]
    <2>1. V[k + 1] = Handled(v, e)
      <3>1. k + 1 \in 1 .. n + 1 /\ (k + 1) - 1 = k /\ (k - 1) + 1 = k /\ V[k] = v
        BY <1>1, <1>6
      <3>2. QED
        BY <1>4, <3>1
    <2>2. /\ e.type = "word.reached" /\ e.page = s.page /\ e.generation = s.generation
          /\ e.index = new[k]
      BY DEF Heralds
    <2>3. v.cursor < new[k]
      <3>1. CASE k = 1
        BY <1>1, <3>1 DEF Places
      <3>2. CASE k # 1
        BY <1>1, <3>2
      <3>3. QED
        BY <3>1, <3>2
    <2>4. v.cursor \in Nat /\ v.page = s.page /\ v.generation = s.generation
      BY <1>1 DEF Places
    <2>5. Handled(v, e) = [v EXCEPT !.cursor = new[k]]
      <3> HIDE DEF v, e
      <3>1. NewWord(v, e)
        BY <1>1, <2>2, <2>3, <2>4 DEF NewWord
      <3>2. QED
        BY <2>2, <3>1 DEF Handled
    <2>6. [v EXCEPT !.cursor = new[k]] = At(k)
      BY <1>1
    <2>7. QED
      BY <1>1, <2>1, <2>5, <2>6
  <1>7. n \in S
    <2>1. \A k \in 0 .. n : k \in S
      <3> HIDE DEF S, n
      <3>1. QED
        BY <1>1, <1>5, <1>6, RangeInduction
    <2>2. n \in 0 .. n
      BY <1>1
    <2>3. QED
      BY <2>1, <2>2
  <1>8. new = <<>> <=> n = 0
    BY DEF Ascending
  <1>9. QED
    BY <1>3, <1>7, <1>8

-----------------------------------------------------------------------------
(* What a publication leaves in the queue.                                 *)

\* What the assumption says of the constants, fact by fact.
LEMMA ReaderConstants ==
  /\ FirstPage \in Page /\ QueueSize \in Nat /\ QueueSize >= 1
  /\ \A p \in Page : Text[p] \in Seq(STRING)
  /\ \A spoken \in Transcripts : spoken \in Seq(STRING) /\ Len(spoken) \in Nat
  BY ReaderAssumption

\* What a numbered event keeps of the published one.
SameEvent(e, f) ==
  e.type = f.type /\ e.page = f.page /\ e.generation = f.generation /\ e.index = f.index

Numbered(events) ==
  [k \in DOMAIN events |-> [events[k] EXCEPT !.sequence = sequence + k,
                                             !.dropped = Len(queue) + k > QueueSize]]

\* The fields of an event that is numbered and marked.
LEMMA EventRenumbered ==
  ASSUME NEW e \in Events, NEW g, NEW h
  PROVE  [e EXCEPT !.sequence = g, !.dropped = h]
           = [type |-> e.type, page |-> e.page, generation |-> e.generation,
              index |-> e.index, sequence |-> g, dropped |-> h]
  <1> DEFINE x == [e EXCEPT !.sequence = g]
             y == [type |-> e.type, page |-> e.page, generation |-> e.generation,
                   index |-> e.index, sequence |-> g, dropped |-> e.dropped]
  <1>1. x = y
    BY DEF Events
  <1>2. [y EXCEPT !.dropped = h]
           = [type |-> e.type, page |-> e.page, generation |-> e.generation,
              index |-> e.index, sequence |-> g, dropped |-> h]
    OBVIOUS
  <1>3. [e EXCEPT !.sequence = g, !.dropped = h] = [x EXCEPT !.dropped = h]
    OBVIOUS
  <1>4. QED
    BY <1>1, <1>2, <1>3

\* The members of two sequences in a row.
LEMMA ConcatFits ==
  ASSUME NEW S, NEW p \in Seq(S), NEW q \in Seq(S)
  PROVE  /\ p \o q \in Seq(S) /\ Len(p \o q) = Len(p) + Len(q)
         /\ \A k \in 1 .. Len(p) : (p \o q)[k] = p[k]
         /\ \A k \in 1 .. Len(q) : (p \o q)[Len(p) + k] = q[k]
  OBVIOUS

\* Numbered events are the published ones, with the numbers that follow.
LEMMA NumberedFits ==
  ASSUME ReaderTypeOK, NEW events \in Seq(Events)
  PROVE  /\ Numbered(events) \in Seq(Events) /\ Len(Numbered(events)) = Len(events)
         /\ \A k \in 1 .. Len(events) :
              /\ SameEvent(Numbered(events)[k], events[k])
              /\ Numbered(events)[k].sequence = sequence + k
              /\ Numbered(events)[k].dropped = (Len(queue) + k > QueueSize)
  <1>1. sequence \in Nat /\ queue \in Seq(Events) /\ Len(queue) \in Nat
    BY DEF ReaderTypeOK
  <1>2. Len(events) \in Nat /\ DOMAIN events = 1 .. Len(events)
    OBVIOUS
  <1>3. ASSUME NEW k \in 1 .. Len(events)
        PROVE  /\ Numbered(events)[k] \in Events /\ SameEvent(Numbered(events)[k], events[k])
               /\ Numbered(events)[k].sequence = sequence + k
               /\ Numbered(events)[k].dropped = (Len(queue) + k > QueueSize)
    <2> DEFINE e == events[k]
               more == Len(queue) + k > QueueSize
               f == [type |-> e.type, page |-> e.page, generation |-> e.generation,
                     index |-> e.index, sequence |-> sequence + k, dropped |-> more]
    <2>1. e \in Events
      OBVIOUS
    <2>2. Numbered(events)[k] = [e EXCEPT !.sequence = sequence + k, !.dropped = more]
      BY <1>2 DEF Numbered
    <2>3. more \in BOOLEAN /\ sequence + k \in Nat
      BY <1>1
    <2> HIDE DEF e, more
    <2>4. [e EXCEPT !.sequence = sequence + k, !.dropped = more] = f
      BY <2>1, EventRenumbered
    <2>5. f \in Events /\ SameEvent(f, e)
      BY <2>1, <2>3 DEF Events, SameEvent
    <2>6. QED
      BY <2>2, <2>4, <2>5 DEF e, more
  <1>4. Numbered(events) \in [1 .. Len(events) -> Events]
    BY <1>2, <1>3 DEF Numbered
  <1>5. QED
    BY <1>2, <1>3, <1>4

\* A full queue loses its oldest events; what is left is in order and, if any was lost,
\* marked.
LEMMA KeptFits ==
  ASSUME NEW q \in Seq(Events)
  PROVE  /\ Kept(q) \in Seq(Events) /\ Len(Kept(q)) <= QueueSize
         /\ \E d \in Nat : /\ Len(q) = d + Len(Kept(q))
                           /\ \A k \in 1 .. Len(Kept(q)) : Kept(q)[k] = q[d + k]
                           /\ d # 0 => Len(q) > QueueSize /\ Len(Kept(q)) >= 1
         /\ Len(q) <= QueueSize => Kept(q) = q
  <1>1. Len(q) \in Nat /\ QueueSize \in Nat /\ QueueSize >= 1
    BY ReaderConstants
  <1>2. CASE Len(q) <= QueueSize
    <2>1. Kept(q) = q
      BY <1>1, <1>2 DEF Kept
    <2>2. 0 \in Nat /\ Len(q) = 0 + Len(q) /\ \A k \in 1 .. Len(q) : q[k] = q[0 + k]
      BY <1>1
    <2>3. QED
      BY <1>1, <1>2, <2>1, <2>2
  <1>3. CASE Len(q) > QueueSize
    <2> DEFINE d == Len(q) - QueueSize
               r == SubSeq(q, d + 1, Len(q))
    <2>1. Kept(q) = r
      BY <1>3 DEF Kept
    <2>2. d \in Nat /\ d # 0 /\ d + 1 \in 1 .. Len(q) /\ Len(q) = d + QueueSize
      BY <1>1, <1>3
    <2>3. /\ r \in Seq(Events) /\ Len(r) = QueueSize
          /\ \A k \in 1 .. QueueSize : r[k] = q[d + k]
      <3> HIDE DEF d
      <3>1. r \in Seq(Events) /\ Len(r) = (Len(q) - (d + 1)) + 1
        BY <1>1, <2>2
      <3>2. Len(r) = QueueSize
        BY <1>1, <2>2, <3>1
      <3>3. ASSUME NEW k \in 1 .. QueueSize PROVE r[k] = q[d + k]
        <4>1. k \in 1 .. (Len(q) - (d + 1)) + 1 /\ ((d + 1) + k) - 1 = d + k
          BY <1>1, <2>2
        <4>2. r[k] = q[((d + 1) + k) - 1]
          BY <1>1, <2>2, <4>1
        <4>3. QED
          BY <4>1, <4>2
      <3>4. QED
        BY <3>1, <3>2, <3>3
    <2> HIDE DEF d, r
    <2>4. QED
      BY <1>1, <1>3, <2>1, <2>2, <2>3
  <1>4. QED
    BY <1>1, <1>2, <1>3

\* The queue after a publication: in order, of old and new events, and complete or
\* marked.
LEMMA PublishFits ==
  ASSUME ReaderTypeOK, QueueInOrder, NEW events \in Seq(Events), events # <<>>,
         Publish(events), last' = last
  PROVE  /\ queue' \in Seq(Events) /\ Len(queue') <= QueueSize /\ sequence' \in Nat
         /\ QueueInOrder'
         /\ \A k \in 1 .. Len(queue') :
              \/ \E j \in 1 .. Len(queue) : queue'[k] = queue[j]
              \/ \E j \in 1 .. Len(events) : SameEvent(queue'[k], events[j])
         /\ \/ socket # "open"
            \/ \E k \in DOMAIN queue' : queue'[k].dropped
            \/ queue' = queue \o Numbered(events)
  <1>1. /\ queue \in Seq(Events) /\ Len(queue) \in Nat /\ Len(queue) <= QueueSize
        /\ sequence \in Nat /\ last \in Nat /\ DOMAIN queue = 1 .. Len(queue)
    BY DEF ReaderTypeOK
  <1>2. Len(events) \in Nat /\ Len(events) >= 1
    OBVIOUS
  <1>3. CASE socket # "open"
    <2>1. sequence' = sequence /\ queue' = queue
      BY <1>3 DEF Publish, Subscribed, hub
    <2>2. QED
      BY <1>1, <1>3, <2>1 DEF QueueInOrder
  <1>4. CASE socket = "open"
    <2> DEFINE N == Numbered(events)
               n == Len(queue)
               m == Len(events)
               all == queue \o N
    <2>1. sequence' = sequence + m /\ queue' = Kept(all)
      BY <1>4 DEF Publish, Subscribed, Numbered
    <2>2. /\ N \in Seq(Events) /\ Len(N) = m
          /\ \A k \in 1 .. m : /\ SameEvent(N[k], events[k]) /\ N[k].sequence = sequence + k
                               /\ N[k].dropped = (n + k > QueueSize)
      BY NumberedFits
    <2> HIDE DEF N
    <2>3. /\ all \in Seq(Events) /\ Len(all) = n + m
          /\ \A k \in 1 .. n : all[k] = queue[k]
          /\ \A k \in n + 1 .. n + m : k - n \in 1 .. m /\ all[k] = N[k - n]
      <3>1. /\ all \in Seq(Events) /\ Len(all) = n + m
            /\ \A k \in 1 .. n : all[k] = queue[k]
            /\ \A k \in 1 .. m : all[n + k] = N[k]
        <4>1. N \in Seq(Events) /\ queue \in Seq(Events) /\ Len(N) = m
          BY <1>1, <2>2
        <4>2. /\ queue \o N \in Seq(Events) /\ Len(queue \o N) = Len(queue) + Len(N)
              /\ \A k \in 1 .. Len(queue) : (queue \o N)[k] = queue[k]
              /\ \A k \in 1 .. Len(N) : (queue \o N)[Len(queue) + k] = N[k]
          <5> HIDE DEF all, n, m
          <5>1. QED
            BY <4>1, ConcatFits
        <4> HIDE DEF m
        <4>3. QED
          BY <4>1, <4>2
      <3>2. \A k \in n + 1 .. n + m : k - n \in 1 .. m /\ n + (k - n) = k
        BY <1>1, <1>2
      <3>3. QED
        BY <3>1, <3>2
    <2> HIDE DEF all
    <2>4. queue' \in Seq(Events) /\ Len(queue') <= QueueSize
      BY <2>1, <2>3, KeptFits
    <2>5. PICK d \in Nat : /\ n + m = d + Len(queue')
                           /\ \A k \in 1 .. Len(queue') : queue'[k] = all[d + k]
                           /\ d # 0 => n + m > QueueSize /\ Len(queue') >= 1
      <3>1. \E d \in Nat : /\ Len(all) = d + Len(Kept(all))
                           /\ \A k \in 1 .. Len(Kept(all)) : Kept(all)[k] = all[d + k]
                           /\ d # 0 => Len(all) > QueueSize /\ Len(Kept(all)) >= 1
        BY <2>3, KeptFits
      <3>2. QED
        BY <2>1, <2>3, <3>1
    <2>6. /\ Len(queue') \in Nat /\ DOMAIN queue' = 1 .. Len(queue')
          /\ \A k \in 1 .. Len(queue') : d + k \in 1 .. n \/ d + k \in n + 1 .. n + m
      BY <1>1, <1>2, <2>4, <2>5
    <2>7. ASSUME NEW k \in 1 .. n + m
          PROVE  /\ all[k].sequence \in Nat /\ last < all[k].sequence
                 /\ all[k].sequence <= sequence + m
      <3>1. CASE k \in 1 .. n
        <4>1. all[k] = queue[k] /\ queue[k] \in Events
          BY <1>1, <2>3, <3>1
        <4>2. last < queue[k].sequence /\ queue[k].sequence <= sequence
          BY <1>1, <3>1 DEF QueueInOrder
        <4>3. QED
          BY <1>1, <1>2, <4>1, <4>2, SMTT(30) DEF Events
      <3>2. CASE k \in n + 1 .. n + m
        <4>1. all[k] = N[k - n] /\ k - n \in 1 .. m
          BY <2>3, <3>2
        <4>2. all[k].sequence = sequence + (k - n)
          BY <2>2, <4>1
        <4>3. last <= sequence
          BY DEF QueueInOrder
        <4>4. QED
          BY <1>1, <1>2, <4>1, <4>2, <4>3
      <3>3. QED
        BY <1>1, <1>2, <3>1, <3>2
    <2>8. ASSUME NEW j \in 1 .. n + m, NEW k \in 1 .. n + m, j < k
          PROVE  all[j].sequence < all[k].sequence
      <3>1. CASE k \in 1 .. n
        <4>1. j \in 1 .. n /\ all[j] = queue[j] /\ all[k] = queue[k]
          BY <1>1, <1>2, <2>3, <2>8, <3>1
        <4>2. QED
          BY <1>1, <2>8, <3>1, <4>1 DEF QueueInOrder
      <3>2. CASE k \in n + 1 .. n + m
        <4>1. all[k].sequence = sequence + (k - n) /\ k - n \in 1 .. m
          BY <2>2, <2>3, <3>2
        <4>2. CASE j \in 1 .. n
          <5>1. all[j] = queue[j] /\ queue[j].sequence <= sequence /\ queue[j] \in Events
            <6>1. all[j] = queue[j]
              BY <2>3, <4>2
            <6>2. queue[j] \in Events
              BY <1>1, <4>2
            <6>3. queue[j].sequence <= sequence
              BY <1>1, <4>2 DEF QueueInOrder
            <6>4. QED
              BY <6>1, <6>2, <6>3
          <5>2. QED
            <6>1. all[j].sequence <= sequence /\ all[j].sequence \in Nat
              BY <5>1 DEF Events
            <6>2. all[k].sequence > sequence
              BY <1>1, <1>2, <4>1
            <6>3. all[k].sequence \in Nat
              BY <1>1, <1>2, <4>1
            <6>4. QED
              BY <1>1, <6>1, <6>2, <6>3
        <4>3. CASE j \in n + 1 .. n + m
          <5>1. all[j].sequence = sequence + (j - n)
            BY <2>2, <2>3, <4>3
          <5>2. QED
            BY <1>1, <2>8, <4>1, <5>1
        <4>4. QED
          BY <1>1, <1>2, <4>2, <4>3
      <3>3. QED
        BY <1>1, <1>2, <3>1, <3>2
    <2>9. QueueInOrder'
      <3>1. last' <= sequence'
        BY <1>1, <1>2, <2>1 DEF QueueInOrder
      <3>2. \A k \in DOMAIN queue' :
              last' < queue'[k].sequence /\ queue'[k].sequence <= sequence'
        BY <2>1, <2>5, <2>6, <2>7
      <3>3. ASSUME NEW j \in DOMAIN queue', NEW k \in DOMAIN queue', j < k
            PROVE  queue'[j].sequence < queue'[k].sequence
        <4>1. d + j \in 1 .. n + m /\ d + k \in 1 .. n + m /\ d + j < d + k
          BY <1>1, <1>2, <2>6, <3>3
        <4>2. queue'[j] = all[d + j] /\ queue'[k] = all[d + k]
          BY <2>5, <2>6
        <4>3. QED
          BY <2>8, <4>1, <4>2
      <3>4. QED
        BY <3>1, <3>2, <3>3 DEF QueueInOrder
    <2>10. ASSUME NEW k \in 1 .. Len(queue')
           PROVE  \/ \E j \in 1 .. n : queue'[k] = queue[j]
                  \/ \E j \in 1 .. m : SameEvent(queue'[k], events[j])
      <3>1. queue'[k] = all[d + k]
        BY <2>5
      <3>2. CASE d + k \in 1 .. n
        BY <2>3, <3>1, <3>2
      <3>3. CASE d + k \in n + 1 .. n + m
        <4>1. (d + k) - n \in 1 .. m /\ queue'[k] = N[(d + k) - n]
          BY <2>3, <3>1, <3>3
        <4>2. QED
          BY <2>2, <4>1
      <3>4. QED
        BY <2>6, <3>2, <3>3
    <2>11. (\E k \in DOMAIN queue' : queue'[k].dropped) \/ queue' = queue \o N
      <3>1. CASE n + m <= QueueSize
        <4>1. all \in Seq(Events) /\ Len(all) <= QueueSize
          BY <2>3, <3>1
        <4>2. Kept(all) = all
          BY <4>1, KeptFits
        <4>3. queue' = all
          BY <2>1, <4>2
        <4>4. QED
          BY <4>3 DEF all
      <3>2. CASE n + m > QueueSize
        <4> DEFINE l == Len(queue')
        <4>1. l >= 1 /\ l \in 1 .. l /\ d + l = n + m
          <5>1. QueueSize \in Nat
            BY ReaderConstants
          <5>2. d # 0
            BY <1>1, <1>2, <2>4, <2>5, <2>6, <3>2, <5>1
          <5>3. QED
            BY <2>5, <2>6, <5>2
        <4>2. queue'[l] = all[n + m]
          BY <2>5, <4>1
        <4>3. n + m \in n + 1 .. n + m /\ (n + m) - n = m /\ m \in 1 .. m
          BY <1>1, <1>2
        <4>4. queue'[l] = N[m]
          BY <2>3, <4>2, <4>3
        <4>5. queue'[l].dropped
          BY <2>2, <3>2, <4>3, <4>4
        <4>6. QED
          BY <2>6, <4>1, <4>5
      <3>3. QED
        BY <1>1, <1>2, <3>1, <3>2, ReaderConstants
    <2>12. sequence' \in Nat
      BY <1>1, <1>2, <2>1
    <2>13. queue' = queue \o N <=> queue' = queue \o Numbered(events)
      BY DEF N
    <2> HIDE DEF n, m
    <2>14. \A k \in 1 .. Len(queue') :
              \/ \E j \in 1 .. Len(queue) : queue'[k] = queue[j]
              \/ \E j \in 1 .. Len(events) : SameEvent(queue'[k], events[j])
      BY <2>10 DEF n, m
    <2>15. QED
      BY <2>4, <2>9, <2>11, <2>12, <2>13, <2>14
  <1>5. QED
    BY <1>3, <1>4

-----------------------------------------------------------------------------
(* Nothing is ahead of a reading that goes on.                             *)

\* A reading goes on, or a later one begins.
Grown(s, t) ==
  s.generation < t.generation \/ (s.generation = t.generation /\ s.reached <= t.reached)
AnswerUpTo(r, s) ==
  r.is = "answered" => UpTo(r.status.generation, r.status.reached, s.generation, s.reached)

\* NothingAhead, part by part.
LEMMA NothingAheadParts ==
  NothingAhead <=>
    /\ ViewUpTo(shown, session) /\ EventsUpTo(queue, session) /\ EventsUpTo(pending, session)
    /\ AnswerUpTo(sync, session) /\ AnswerUpTo(turn, session) /\ AnswerUpTo(ownReset, session)
  BY DEF NothingAhead, Within, ViewUpTo, UpTo, EventsUpTo, AnswerUpTo

\* The same after a step.
LEMMA NothingAheadPartsNext ==
  NothingAhead' <=>
    /\ ViewUpTo(shown', session') /\ EventsUpTo(queue', session')
    /\ EventsUpTo(pending', session')
    /\ AnswerUpTo(sync', session') /\ AnswerUpTo(turn', session')
    /\ AnswerUpTo(ownReset', session')
  BY DEF NothingAhead, Within, ViewUpTo, UpTo, EventsUpTo, AnswerUpTo

\* What is not ahead of a reading is not ahead of a later one.
LEMMA GrownKeeps ==
  ASSUME NEW s \in Places, NEW t \in Places, Grown(s, t)
  PROVE  /\ \A v \in Views : ViewUpTo(v, s) => ViewUpTo(v, t)
         /\ \A es \in Seq(Events) : EventsUpTo(es, s) => EventsUpTo(es, t)
         /\ \A r, asked : RequestFits(r, asked) /\ AnswerUpTo(r, s) /\ (\A a \in asked : a.is = "asked")
              => AnswerUpTo(r, t)
  <1>1. /\ s.generation \in Nat /\ s.reached \in Nat /\ t.generation \in Nat /\ t.reached \in Nat
    BY DEF Places
  <1>2. \A g, i \in Nat : UpTo(g, i, s.generation, s.reached) => UpTo(g, i, t.generation, t.reached)
    BY <1>1 DEF UpTo, Grown
  <1>3. \A v \in Views : ViewUpTo(v, s) => ViewUpTo(v, t)
    BY <1>2 DEF ViewUpTo, Views
  <1>4. ASSUME NEW es \in Seq(Events), EventsUpTo(es, s) PROVE EventsUpTo(es, t)
    <2>1. \A k \in 1 .. Len(es) : es[k] \in Events
      OBVIOUS
    <2>2. \A e \in Events : e.generation \in Nat /\ e.index \in Nat
      BY DEF Events
    <2>3. QED
      BY <1>2, <1>4, <2>1, <2>2 DEF EventsUpTo
  <1>5. ASSUME NEW r, NEW asked, RequestFits(r, asked), AnswerUpTo(r, s),
               \A a \in asked : a.is = "asked"
        PROVE  AnswerUpTo(r, t)
    <2>1. CASE r.is = "answered"
      <3>1. r.status \in Places
        BY <1>5, <2>1 DEF RequestFits, None
      <3>2. QED
        BY <1>2, <1>5, <2>1, <3>1 DEF AnswerUpTo, Places
    <2>2. QED
      BY <2>1 DEF AnswerUpTo
  <1>6. QED
    BY <1>3, <1>4, <1>5

\* The same for the answers under way.
LEMMA RequestsGrow ==
  ASSUME ReaderTypeOK, NothingAhead, NEW t \in Places, Grown(session, t)
  PROVE  AnswerUpTo(sync, t) /\ AnswerUpTo(turn, t) /\ AnswerUpTo(ownReset, t)
  <1>1. /\ \A a \in {Sent} : a.is = "asked"
        /\ \A a \in {Asked(p) : p \in Page} : a.is = "asked"
    BY DEF Sent, Asked
  <1>2. /\ RequestFits(sync, {Sent}) /\ RequestFits(ownReset, {Sent})
        /\ RequestFits(turn, {Asked(p) : p \in Page}) /\ session \in Places
    BY DEF ReaderTypeOK
  <1>3. AnswerUpTo(sync, session) /\ AnswerUpTo(turn, session) /\ AnswerUpTo(ownReset, session)
    BY NothingAheadParts
  <1>4. \A r, asked : RequestFits(r, asked) /\ AnswerUpTo(r, session) /\ (\A a \in asked : a.is = "asked")
              => AnswerUpTo(r, t)
    BY <1>2, GrownKeeps
  <1>5. QED
    BY <1>1, <1>2, <1>3, <1>4

\* While the reading goes on and events are published, nothing gets ahead.
LEMMA PublishNothingAhead ==
  ASSUME ReaderTypeOK, NothingAhead, session' \in Places, Grown(session, session'),
         queue' \in Seq(Events), NEW events, EventsUpTo(events, session'),
         \A k \in 1 .. Len(queue') :
              \/ \E j \in 1 .. Len(queue) : queue'[k] = queue[j]
              \/ \E j \in 1 .. Len(events) : SameEvent(queue'[k], events[j]),
         shown' = shown, pending' = pending, sync' = sync, turn' = turn,
         AnswerUpTo(ownReset', session') \/ ownReset' = ownReset
  PROVE  NothingAhead'
  <1>1. /\ session \in Places /\ shown \in Views /\ queue \in Seq(Events)
        /\ pending \in Seq(Events)
    BY DEF ReaderTypeOK
  <1>2. /\ ViewUpTo(shown, session) /\ EventsUpTo(queue, session)
        /\ EventsUpTo(pending, session)
    BY NothingAheadParts
  <1>3. /\ ViewUpTo(shown, session') /\ EventsUpTo(queue, session')
        /\ EventsUpTo(pending, session')
    BY <1>1, <1>2, GrownKeeps
  <1>4. AnswerUpTo(sync, session') /\ AnswerUpTo(turn, session') /\ AnswerUpTo(ownReset, session')
    BY RequestsGrow
  <1>5. EventsUpTo(queue', session')
    <2> SUFFICES ASSUME NEW k \in 1 .. Len(queue')
                 PROVE  UpTo(queue'[k].generation, queue'[k].index,
                             session'.generation, session'.reached)
      BY DEF EventsUpTo
    <2>1. CASE \E j \in 1 .. Len(queue) : queue'[k] = queue[j]
      BY <1>3, <2>1 DEF EventsUpTo
    <2>2. CASE \E j \in 1 .. Len(events) : SameEvent(queue'[k], events[j])
      BY <2>2 DEF EventsUpTo, SameEvent
    <2>3. QED
      BY <2>1, <2>2
  <1>6. QED
    BY <1>3, <1>4, <1>5, NothingAheadPartsNext

\* The view that Resumes speaks of: what is shown, or what the answer awaited makes of it.
LEMMA AnswerHeld ==
  ASSUME ReaderTypeOK, NothingAhead, sync # None, sync # Sent
  PROVE  /\ sync.is = "answered" /\ sync.status \in Places
         /\ Applied(sync.status, shown) \in Views
         /\ ViewUpTo(Applied(sync.status, shown), session)
         /\ Applied(sync.status, shown).page = shown.page
         /\ NotPast(shown, Applied(sync.status, shown))
  <1>1. sync.is = "answered" /\ sync.status \in Places /\ shown \in Views /\ session \in Places
    BY DEF ReaderTypeOK, RequestFits, Answered
  <1>2. /\ ViewUpTo(shown, session)
        /\ UpTo(sync.status.generation, sync.status.reached, session.generation, session.reached)
    BY <1>1, NothingAheadParts DEF AnswerUpTo
  <1>3. QED
    BY <1>1, <1>2, AppliedFits

\* When what is published leads on from wherever the events led to (or, afresh, from
\* anywhere on the page), the projector is still led there.
LEMMA PublishResumes ==
  ASSUME ReaderTypeOK, NothingAhead, Resumes, NEW events \in Seq(Events), NEW afresh \in BOOLEAN,
         \/ socket # "open"
         \/ \E k \in DOMAIN queue' : queue'[k].dropped
         \/ queue' = queue \o Numbered(events),
         UNCHANGED <<socket, shown, pending, sync, again, turn, strayed>>,
         session'.page = session.page, afresh \/ workbench' = workbench,
         queue' = queue \o Numbered(events) =>
           \A v \in Views :
              /\ ViewUpTo(v, session) /\ v.page = session.page
              /\ afresh \/ Leads(v, pending \o queue, session)
              => Leads(v, pending \o queue', session')
  PROVE  Resumes'
  <1>1. sync' = None => pending' = <<>> /\ ~again'
    BY DEF Resumes
  <1>2. ASSUME socket' = "open", ~Excused'
        PROVE  IF sync' = None THEN Follows(shown)'
               ELSE again' \/ sync' = Sent \/ Follows(Applied(sync.status, shown))'
    <2>1. ~\E k \in DOMAIN queue' : queue'[k].dropped
      BY <1>2 DEF Excused
    <2>2. queue' = queue \o Numbered(events)
      BY <1>2, <2>1
    <2>3. queue \in Seq(Events) /\ shown \in Views /\ session \in Places
      BY DEF ReaderTypeOK
    <2>4. ASSUME ~afresh PROVE ~Excused
      <3>1. ASSUME NEW k \in DOMAIN queue PROVE ~queue[k].dropped
        <4>1. Numbered(events) \in Seq(Events)
          BY NumberedFits
        <4>2. k \in DOMAIN (queue \o Numbered(events)) /\ (queue \o Numbered(events))[k] = queue[k]
          BY <2>3, <4>1
        <4>3. QED
          BY <2>1, <2>2, <4>2
      <3>2. QED
        BY <1>2, <2>4, <3>1 DEF Excused
    <2>5. shown.page = session.page
      BY <1>2 DEF Excused
    <2>6. CASE sync = None
      <3>1. afresh \/ Leads(shown, pending \o queue, session)
        BY <1>2, <2>4, <2>6 DEF Resumes, Follows, Undelivered, Leads, Target
      <3>2. ViewUpTo(shown, session)
        BY NothingAheadParts
      <3>3. Leads(shown, pending \o queue', session')
        BY <2>2, <2>3, <2>5, <3>1, <3>2
      <3>4. QED
        BY <2>6, <3>3 DEF Follows, Undelivered, Leads, Target
    <2>7. CASE sync # None /\ (again \/ sync = Sent)
      BY <2>7
    <2>8. CASE sync # None /\ ~again /\ sync # Sent
      <3> DEFINE w == Applied(sync.status, shown)
      <3>1. afresh \/ Leads(w, pending \o queue, session)
        BY <1>2, <2>4, <2>8 DEF Resumes, Follows, Undelivered, Leads, Target
      <3>2. w \in Views /\ ViewUpTo(w, session) /\ w.page = session.page
        BY <2>5, <2>8, AnswerHeld
      <3> HIDE DEF w
      <3>3. Leads(w, pending \o queue', session')
        BY <2>2, <3>1, <3>2
      <3>4. Follows(Applied(sync.status, shown))'
        BY <3>3 DEF w, Follows, Undelivered, Leads, Target
      <3>5. QED
        BY <2>8, <3>4
    <2>9. QED
      BY <2>6, <2>7, <2>8
  <1>3. QED
    BY <1>1, <1>2 DEF Resumes

-----------------------------------------------------------------------------
(* Each operation keeps the reader's invariant: those of the registry.     *)

LEMMA EventFits ==
  ASSUME NEW type \in {"transcript.partial", "word.reached", "session.reset"},
         NEW s \in Places, NEW place \in Nat
  PROVE  /\ Event(type, s, place) \in Events
         /\ Event(type, s, place).type = type /\ Event(type, s, place).page = s.page
         /\ Event(type, s, place).generation = s.generation
         /\ Event(type, s, place).index = place
  BY DEF Event, Events, Places

\* What a transcript publishes: itself, and the words it newly reaches.
Told(s, new) ==
  <<Event("transcript.partial", s, 0)>> \o
    [k \in DOMAIN new |-> Event("word.reached", s, new[k])]

LEMMA ToldFits ==
  ASSUME NEW s \in Places, NEW new \in Seq(Nat)
  PROVE  /\ Told(s, new) \in Seq(Events) /\ Len(Told(s, new)) = Len(new) + 1
         /\ Told(s, new)[1] = Event("transcript.partial", s, 0)
         /\ \A k \in 1 .. Len(new) : Told(s, new)[k + 1] = Event("word.reached", s, new[k])
  <1> DEFINE first == Event("transcript.partial", s, 0)
             words == [k \in DOMAIN new |-> Event("word.reached", s, new[k])]
  <1>1. Len(new) \in Nat /\ DOMAIN new = 1 .. Len(new) /\ \A k \in 1 .. Len(new) : new[k] \in Nat
    OBVIOUS
  <1>2. \A k \in 1 .. Len(new) : Event("word.reached", s, new[k]) \in Events
    BY <1>1, EventFits
  <1>3. words \in [1 .. Len(new) -> Events]
    BY <1>1, <1>2
  <1>4. /\ words \in Seq(Events) /\ Len(words) = Len(new)
        /\ \A k \in 1 .. Len(new) : words[k] = Event("word.reached", s, new[k])
    BY <1>1, <1>3
  <1>5. first \in Events /\ <<first>> \in Seq(Events) /\ Len(<<first>>) = 1 /\ <<first>>[1] = first
    <2>1. first \in Events
      BY EventFits
    <2> HIDE DEF first
    <2>2. QED
      BY <2>1
  <1> HIDE DEF first, words
  <1>6. /\ <<first>> \o words \in Seq(Events) /\ Len(<<first>> \o words) = Len(new) + 1
        /\ (<<first>> \o words)[1] = first
        /\ \A k \in 1 .. Len(new) : (<<first>> \o words)[k + 1] = words[k]
    BY <1>1, <1>4, <1>5
  <1>7. Told(s, new) = <<first>> \o words
    BY DEF Told, first, words
  <1>8. QED
    BY <1>4, <1>6, <1>7 DEF first

LEMMA IngestKeeps ==
  ASSUME ReaderIInv, NEW spoken \in Transcripts, NEW mode, Ingest(spoken, mode)
  PROVE  ReaderIInv'
  <1> DEFINE new == NewlyReached(Text[session.page], spoken, session.reached, mode)
             told == Told(session, new)
             n == Len(new)
  <1>1. ReaderTypeOK /\ NothingAhead /\ QueueInOrder /\ Resumes
    BY DEF ReaderIInv
  <1>2. /\ session \in Places /\ session.page \in Page /\ session.reached \in Nat
        /\ session.generation \in Nat
    BY <1>1 DEF ReaderTypeOK, Places, Ingest
  <1>3. /\ session' = IF new = <<>> THEN session ELSE [session EXCEPT !.reached = Last(new)]
        /\ Publish(told)
        /\ UNCHANGED <<socket, client, turn, configured, ownReset, workbench, strayed>>
    BY DEF Ingest, Told
  <1>4. PICK i \in Nat : Ascending(new, i)
    BY <1>2, ReaderConstants, NewlyReachedAscends
  <1>5. \A k \in 1 .. Len(new) : new[k] > session.reached
    BY <1>2, ReaderConstants, NewlyReachedAscends
  <1> HIDE DEF new
  <1>6. /\ new \in Seq(Nat) /\ n \in Nat /\ (new = <<>> <=> n = 0)
        /\ \A k \in 1 .. n : new[k] \in Nat /\ new[k] <= new[n]
        /\ n # 0 => Last(new) = new[n]
    BY <1>4 DEF Ascending, Last
  <1> DEFINE arrived == IF new = <<>> THEN session.reached ELSE new[n]
  <1>7. session' = [page |-> session.page, generation |-> session.generation, reached |-> arrived]
    <2>1. CASE new = <<>>
      BY <1>2, <1>3, <2>1 DEF Places
    <2>2. CASE new # <<>>
      BY <1>2, <1>3, <1>6, <2>2 DEF Places
    <2>3. QED
      BY <2>1, <2>2
  <1>8. /\ arrived \in Nat /\ session.reached <= arrived
        /\ \A k \in 1 .. n : new[k] <= arrived
    <2>1. CASE new = <<>>
      BY <1>2, <1>6, <2>1
    <2>2. CASE new # <<>>
      <3>1. n \in 1 .. n
        BY <1>6, <2>2
      <3>2. QED
        BY <1>2, <1>5, <1>6, <2>2, <3>1
    <2>3. QED
      BY <2>1, <2>2
  <1> HIDE DEF arrived
  <1>9. session' \in Places /\ Grown(session, session')
    BY <1>2, <1>7, <1>8 DEF Places, Grown
  <1>10. /\ told \in Seq(Events) /\ Len(told) = n + 1
         /\ told[1] = Event("transcript.partial", session, 0)
         /\ \A k \in 1 .. n : told[k + 1] = Event("word.reached", session, new[k])
    BY <1>2, <1>6, ToldFits
  <1>11. told # <<>>
    BY <1>6, <1>10
  <1> HIDE DEF told
  <1>12. UNCHANGED <<socket, shown, last, pending, sync, again, turn, ownReset, workbench, strayed>>
    BY <1>3 DEF client
  <1>13. /\ queue' \in Seq(Events) /\ Len(queue') <= QueueSize /\ sequence' \in Nat
         /\ QueueInOrder'
         /\ \A k \in 1 .. Len(queue') :
              \/ \E j \in 1 .. Len(queue) : queue'[k] = queue[j]
              \/ \E j \in 1 .. Len(told) : SameEvent(queue'[k], told[j])
         /\ \/ socket # "open"
            \/ \E k \in DOMAIN queue' : queue'[k].dropped
            \/ queue' = queue \o Numbered(told)
    BY <1>1, <1>3, <1>10, <1>11, <1>12, PublishFits
  <1>14. ReaderTypeOK'
    BY <1>1, <1>9, <1>12, <1>13 DEF ReaderTypeOK
  <1>15. EventsUpTo(told, session')
    <2> SUFFICES ASSUME NEW k \in 1 .. n + 1
                 PROVE  UpTo(told[k].generation, told[k].index,
                             session'.generation, session'.reached)
      BY <1>10 DEF EventsUpTo
    <2>1. CASE k = 1
      <3>1. told[k].generation = session.generation /\ told[k].index = 0
        BY <1>2, <1>10, <2>1, EventFits
      <3>2. QED
        BY <1>2, <1>7, <1>8, <3>1 DEF UpTo
    <2>2. CASE k # 1
      <3>1. k - 1 \in 1 .. n /\ (k - 1) + 1 = k
        BY <1>6, <2>2
      <3>2. told[k] = Event("word.reached", session, new[k - 1])
        BY <1>10, <3>1
      <3>3. told[k].generation = session.generation /\ told[k].index = new[k - 1]
        BY <1>2, <1>6, <3>1, <3>2, EventFits
      <3>4. QED
        BY <1>2, <1>7, <1>8, <3>1, <3>3 DEF UpTo
    <2>3. QED
      BY <2>1, <2>2
  <1>16. NothingAhead'
    BY <1>1, <1>9, <1>12, <1>13, <1>15, PublishNothingAhead
  <1>17. Resumes'
    <2>1. ASSUME NEW v \in Views, ViewUpTo(v, session), v.page = session.page,
                 Leads(v, pending \o queue, session), queue' = queue \o Numbered(told)
          PROVE  Leads(v, pending \o queue', session')
      <3> DEFINE U == pending \o queue
                 N == Numbered(told)
                 t == Target(session)
      <3>1. /\ pending \in Seq(Events) /\ queue \in Seq(Events)
        BY <1>1 DEF ReaderTypeOK
      <3>2. /\ N \in Seq(Events) /\ Len(N) = n + 1
            /\ \A k \in 1 .. n + 1 : SameEvent(N[k], told[k])
        BY <1>1, <1>10, NumberedFits
      <3> HIDE DEF N
      <3>3. Heralds(N, session, new)
        <4>1. N[1].type = "transcript.partial"
          <5>1. 1 \in 1 .. n + 1 /\ told[1].type = "transcript.partial"
            BY <1>2, <1>6, <1>10, EventFits
          <5>2. QED
            BY <3>2, <5>1 DEF SameEvent
        <4>2. ASSUME NEW k \in 1 .. n
              PROVE  /\ N[k + 1].type = "word.reached" /\ N[k + 1].page = session.page
                     /\ N[k + 1].generation = session.generation /\ N[k + 1].index = new[k]
          <5>1. k + 1 \in 1 .. n + 1 /\ told[k + 1] = Event("word.reached", session, new[k])
            BY <1>6, <1>10
          <5>2. /\ told[k + 1].type = "word.reached" /\ told[k + 1].page = session.page
                /\ told[k + 1].generation = session.generation /\ told[k + 1].index = new[k]
            BY <1>2, <1>6, <5>1, EventFits
          <5>3. QED
            BY <3>2, <5>1, <5>2 DEF SameEvent
        <4>3. QED
          BY <3>2, <4>1, <4>2 DEF Heralds
      <3>4. Replayed(t, N) = Target(session')
        BY <1>2, <1>4, <1>5, <1>7, <3>3, WordsLead DEF Target, arrived
      <3>5. U \in Seq(Events) /\ pending \o (queue \o N) = U \o N
        BY <3>1, <3>2
      <3> HIDE DEF U
      <3>6. Replayed(v, U \o N) = Replayed(Replayed(v, U), N)
        BY <3>2, <3>5, ReplayedInTurn
      <3>7. Replayed(v, U) = t
        BY <2>1 DEF Leads, U
      <3>8. QED
        BY <2>1, <3>4, <3>5, <3>6, <3>7 DEF Leads, N
    <2>2. queue' = queue \o Numbered(told) =>
            \A v \in Views : /\ ViewUpTo(v, session) /\ v.page = session.page
                             /\ FALSE \/ Leads(v, pending \o queue, session)
                             => Leads(v, pending \o queue', session')
      BY <2>1
    <2>3. session'.page = session.page
      BY <1>7
    <2>4. QED
      BY <1>1, <1>10, <1>12, <1>13, <2>2, <2>3, PublishResumes
  <1>18. QED
    BY <1>13, <1>14, <1>16, <1>17 DEF ReaderIInv

\* The events not taken yet are not ahead.
LEMMA UndeliveredUpTo ==
  ASSUME ReaderTypeOK, NothingAhead
  PROVE  pending \o queue \in Seq(Events) /\ EventsUpTo(pending \o queue, session)
  <1>1. pending \in Seq(Events) /\ queue \in Seq(Events)
    BY DEF ReaderTypeOK
  <1>2. EventsUpTo(pending, session) /\ EventsUpTo(queue, session)
    BY NothingAheadParts
  <1>3. /\ pending \o queue \in Seq(Events) /\ Len(pending \o queue) = Len(pending) + Len(queue)
        /\ Len(pending) \in Nat /\ Len(queue) \in Nat
        /\ \A k \in 1 .. Len(pending) : (pending \o queue)[k] = pending[k]
        /\ \A k \in 1 .. Len(queue) : (pending \o queue)[Len(pending) + k] = queue[k]
    BY <1>1, ConcatFits
  <1>4. ASSUME NEW k \in 1 .. Len(pending \o queue), ~(k \in 1 .. Len(pending))
        PROVE  k - Len(pending) \in 1 .. Len(queue) /\ Len(pending) + (k - Len(pending)) = k
    BY <1>3, <1>4
  <1>5. QED
    BY <1>2, <1>3, <1>4 DEF EventsUpTo

\* The session after a reset.
LEMMA RestartedFits ==
  ASSUME session \in Places
  PROVE  /\ Restarted = [page |-> session.page, generation |-> session.generation + 1,
                         reached |-> 0]
         /\ Restarted \in Places
  <1>1. /\ session.page \in Page \cup {NoPage} /\ session.generation \in Nat
        /\ session.generation + 1 \in Nat /\ session.reached \in Nat /\ session \in Places
    BY DEF Places
  <1> DEFINE x == [page |-> session.page, generation |-> session.generation + 1,
                   reached |-> session.reached]
  <1>2. Restarted = [page |-> session.page, generation |-> session.generation + 1, reached |-> 0]
    <2>1. [session EXCEPT !.generation = session.generation + 1] = x
      BY <1>1 DEF Places
    <2>2. [x EXCEPT !.reached = 0]
            = [page |-> session.page, generation |-> session.generation + 1, reached |-> 0]
      OBVIOUS
    <2> HIDE DEF x
    <2>3. Restarted = [[session EXCEPT !.generation = session.generation + 1] EXCEPT !.reached = 0]
      BY <1>1 DEF Restarted
    <2>4. QED
      BY <2>1, <2>2, <2>3
  <1>3. QED
    BY <1>1, <1>2 DEF Places

\* A reset of the reading, whoever asked for it.
LEMMA RestartKeeps ==
  ASSUME ReaderIInv, session' = Restarted, Publish(<<Event("session.reset", Restarted, 0)>>),
         UNCHANGED <<socket, client, turn, strayed>>,
         RequestFits(ownReset', {Sent}), AnswerUpTo(ownReset', session') \/ ownReset' = ownReset
  PROVE  ReaderIInv'
  <1> DEFINE e == Event("session.reset", Restarted, 0)
             told == <<e>>
  <1>1. ReaderTypeOK /\ NothingAhead /\ QueueInOrder /\ Resumes
    BY DEF ReaderIInv
  <1>2. /\ session \in Places /\ session.reached \in Nat /\ session.generation \in Nat
        /\ pending \in Seq(Events) /\ queue \in Seq(Events)
    BY <1>1 DEF ReaderTypeOK, Places
  <1>3. session' = [page |-> session.page, generation |-> session.generation + 1, reached |-> 0]
    BY <1>2, RestartedFits
  <1>4. session' \in Places /\ Grown(session, session')
    BY <1>2, <1>3 DEF Places, Grown
  <1>5. /\ e \in Events /\ e.type = "session.reset" /\ e.page = session'.page
        /\ e.generation = session'.generation /\ e.index = 0
    BY <1>4, EventFits
  <1>6. Publish(told)
    OBVIOUS
  <1> HIDE DEF e
  <1>7. told \in Seq(Events) /\ told # <<>> /\ Len(told) = 1 /\ told[1] = e
    BY <1>5
  <1> HIDE DEF told
  <1>8. UNCHANGED <<socket, shown, last, pending, sync, again, turn, strayed>>
    BY DEF client
  <1>9. /\ queue' \in Seq(Events) /\ Len(queue') <= QueueSize /\ sequence' \in Nat
        /\ QueueInOrder'
        /\ \A k \in 1 .. Len(queue') :
             \/ \E j \in 1 .. Len(queue) : queue'[k] = queue[j]
             \/ \E j \in 1 .. Len(told) : SameEvent(queue'[k], told[j])
        /\ \/ socket # "open"
           \/ \E k \in DOMAIN queue' : queue'[k].dropped
           \/ queue' = queue \o Numbered(told)
    BY <1>1, <1>6, <1>7, <1>8, PublishFits
  <1>10. ReaderTypeOK'
    BY <1>1, <1>4, <1>8, <1>9 DEF ReaderTypeOK
  <1>11. EventsUpTo(told, session')
    BY <1>3, <1>5, <1>7, <1>2 DEF EventsUpTo, UpTo
  <1>12. NothingAhead'
    BY <1>1, <1>4, <1>8, <1>9, <1>11, PublishNothingAhead
  <1>13. ASSUME NEW v \in Views, ViewUpTo(v, session), v.page = session.page,
                queue' = queue \o Numbered(told)
         PROVE  Leads(v, pending \o queue', session')
    <2> DEFINE N == Numbered(told)
               f == N[1]
    <2>1. N \in Seq(Events) /\ Len(N) = 1 /\ SameEvent(f, e)
      BY <1>1, <1>7, NumberedFits
    <2>2. f \in Events /\ N = <<f>>
      <3> HIDE DEF N
      <3>1. QED
        BY <2>1
    <2>3. f.type = "session.reset" /\ f.page = session'.page /\ f.generation = session'.generation
      BY <1>5, <2>1 DEF SameEvent
    <2> HIDE DEF f
    <2>4. pending \o queue \in Seq(Events) /\ EventsUpTo(pending \o queue, session)
      BY <1>1, UndeliveredUpTo
    <2>5. Leads(v, (pending \o queue) \o <<f>>, session')
      BY <1>2, <1>3, <1>4, <1>13, <2>2, <2>3, <2>4, ResetLeads
    <2>6. (pending \o queue) \o <<f>> = pending \o (queue \o <<f>>)
      BY <1>2, <2>2
    <2>7. QED
      BY <1>13, <2>2, <2>5, <2>6
  <1>14. Resumes'
    <2>1. queue' = queue \o Numbered(told) =>
            \A v \in Views : /\ ViewUpTo(v, session) /\ v.page = session.page
                             /\ TRUE \/ Leads(v, pending \o queue, session)
                             => Leads(v, pending \o queue', session')
      BY <1>13
    <2>2. session'.page = session.page
      BY <1>3
    <2>3. QED
      BY <1>1, <1>7, <1>8, <1>9, <2>1, <2>2, PublishResumes
  <1>15. QED
    BY <1>9, <1>10, <1>12, <1>14 DEF ReaderIInv

LEMMA WorkbenchResetsKeeps == ReaderIInv /\ WorkbenchResets => ReaderIInv'
  <1>1. ReaderIInv => RequestFits(ownReset, {Sent})
    BY DEF ReaderIInv, ReaderTypeOK
  <1>2. QED
    BY <1>1, RestartKeeps DEF WorkbenchResets

LEMMA AnswerResetKeeps == ReaderIInv /\ AnswerReset => ReaderIInv'
  <1> SUFFICES ASSUME ReaderIInv, AnswerReset PROVE ReaderIInv'
    OBVIOUS
  <1>1. CASE session.page = NoPage
    <2>1. /\ ownReset' = None
          /\ UNCHANGED <<session, queue, sequence, socket, shown, last, pending, sync, again, turn,
                         workbench, strayed>>
      BY <1>1 DEF AnswerReset, hub, client
    <2>2. ReaderTypeOK'
      BY <2>1 DEF ReaderIInv, ReaderTypeOK, RequestFits
    <2>3. NothingAhead'
      BY <2>1, NothingAheadParts, NothingAheadPartsNext DEF ReaderIInv, AnswerUpTo, None
    <2>4. QueueInOrder' /\ Resumes'
      BY <2>1 DEF ReaderIInv, QueueInOrder, Resumes, Excused, Follows, Undelivered
    <2>5. QED
      BY <2>2, <2>3, <2>4 DEF ReaderIInv
  <1>2. CASE session.page # NoPage
    <2>1. /\ session' = Restarted /\ Publish(<<Event("session.reset", Restarted, 0)>>)
          /\ ownReset' = Answered(session') /\ UNCHANGED <<socket, client, turn, strayed>>
      BY <1>2 DEF AnswerReset
    <2>2. session' \in Places
      BY <2>1, RestartedFits DEF ReaderIInv, ReaderTypeOK
    <2>3. RequestFits(ownReset', {Sent}) /\ AnswerUpTo(ownReset', session')
      BY <2>1, <2>2 DEF RequestFits, Answered, AnswerUpTo, UpTo, Places
    <2>4. QED
      BY <2>1, <2>3, RestartKeeps
  <1>3. QED
    BY <1>1, <1>2

-----------------------------------------------------------------------------
(* The socket and the requests for the status.                             *)

\* The session after a configuration: the same, or a later reading.
LEMMA ConfiguredFits ==
  ASSUME session \in Places, NEW p \in Page
  PROVE  /\ Configured(p) \in Places /\ Grown(session, Configured(p))
         /\ Configured(p).page = p
         /\ UpTo(Configured(p).generation, Configured(p).reached,
                 Configured(p).generation, Configured(p).reached)
  <1>1. /\ session.page \in Page \cup {NoPage} /\ session.generation \in Nat
        /\ session.reached \in Nat /\ session.generation + 1 \in Nat
    BY DEF Places
  <1>2. QED
    BY <1>1 DEF Configured, Places, Grown, UpTo

\* A session that goes on while nothing is published leaves nothing ahead.
LEMMA SessionGrows ==
  ASSUME ReaderTypeOK, NothingAhead, session' \in Places, Grown(session, session'),
         UNCHANGED <<queue, shown, pending, sync, ownReset>>,
         turn' = turn \/ AnswerUpTo(turn', session')
  PROVE  NothingAhead'
  <1>1. /\ session \in Places /\ shown \in Views /\ queue \in Seq(Events)
        /\ pending \in Seq(Events)
    BY DEF ReaderTypeOK
  <1>2. /\ ViewUpTo(shown, session) /\ EventsUpTo(queue, session)
        /\ EventsUpTo(pending, session)
    BY NothingAheadParts
  <1>3. /\ ViewUpTo(shown, session') /\ EventsUpTo(queue, session')
        /\ EventsUpTo(pending, session')
    BY <1>1, <1>2, GrownKeeps
  <1>4. AnswerUpTo(sync, session') /\ AnswerUpTo(turn, session') /\ AnswerUpTo(ownReset, session')
    BY RequestsGrow
  <1>5. QED
    BY <1>3, <1>4, NothingAheadPartsNext

LEMMA WorkbenchConfiguresKeeps ==
  ASSUME ReaderIInv, NEW p \in Page, WorkbenchConfigures(p)
  PROVE  ReaderIInv'
  <1>1. /\ session' = Configured(p) /\ workbench' = "configured"
        /\ UNCHANGED <<queue, sequence, socket, shown, last, pending, sync, again, turn, ownReset,
                       strayed>>
    BY DEF WorkbenchConfigures, hub, client
  <1>2. session \in Places /\ session' \in Places /\ Grown(session, session')
    BY <1>1, ConfiguredFits DEF ReaderIInv, ReaderTypeOK
  <1>3. ReaderTypeOK'
    BY <1>1, <1>2 DEF ReaderIInv, ReaderTypeOK
  <1>4. NothingAhead'
    BY <1>1, <1>2, SessionGrows DEF ReaderIInv
  <1>5. QueueInOrder' /\ Resumes'
    BY <1>1 DEF ReaderIInv, QueueInOrder, Resumes, Excused
  <1>6. QED
    BY <1>3, <1>4, <1>5 DEF ReaderIInv

LEMMA AnswerTurnKeeps == ReaderIInv /\ AnswerTurn => ReaderIInv'
  <1> SUFFICES ASSUME ReaderIInv, AnswerTurn PROVE ReaderIInv'
    OBVIOUS
  <1>1. /\ session' = Configured(turn.page) /\ turn' = Answered(session')
        /\ UNCHANGED <<queue, sequence, socket, shown, last, pending, sync, again, ownReset,
                       strayed>>
    BY DEF AnswerTurn, hub, client
  <1>2. turn.page \in Page /\ session \in Places
    BY DEF ReaderIInv, ReaderTypeOK, RequestFits, AnswerTurn, None, Asked, Answered
  <1>3. /\ session' \in Places /\ Grown(session, session')
        /\ UpTo(session'.generation, session'.reached, session'.generation, session'.reached)
    BY <1>1, <1>2, ConfiguredFits
  <1>4. /\ turn' # None /\ RequestFits(turn', {Asked(p) : p \in Page})
        /\ AnswerUpTo(turn', session')
    BY <1>1, <1>3 DEF RequestFits, Answered, AnswerUpTo, None
  <1>5. ReaderTypeOK'
    BY <1>1, <1>3, <1>4 DEF ReaderIInv, ReaderTypeOK
  <1>6. NothingAhead'
    BY <1>1, <1>3, <1>4, SessionGrows DEF ReaderIInv
  <1>7. QueueInOrder' /\ Resumes'
    BY <1>1, <1>4 DEF ReaderIInv, QueueInOrder, Resumes, Excused
  <1>8. QED
    BY <1>5, <1>6, <1>7 DEF ReaderIInv

LEMMA ConnectKeeps == ReaderIInv /\ Connect => ReaderIInv'
  <1> SUFFICES ASSUME ReaderIInv, Connect PROVE ReaderIInv'
    OBVIOUS
  <1>1. /\ socket' = "open"
        /\ \/ sync = None /\ sync' = Sent /\ again' = again
           \/ sync # None /\ sync' = sync /\ again' = TRUE
        /\ UNCHANGED <<session, queue, sequence, shown, last, pending, turn, ownReset, strayed>>
    BY DEF Connect, Synchronize, hub, ReaderIInv, ReaderTypeOK
  <1>2. Sent # None /\ RequestFits(Sent, {Sent}) /\ AnswerUpTo(Sent, session)
    BY DEF Sent, None, RequestFits, AnswerUpTo
  <1>3. ReaderTypeOK'
    BY <1>1, <1>2 DEF ReaderIInv, ReaderTypeOK
  <1>4. NothingAhead'
    BY <1>1, <1>2, NothingAheadParts, NothingAheadPartsNext DEF ReaderIInv
  <1>5. QueueInOrder'
    BY <1>1 DEF ReaderIInv, QueueInOrder
  <1>6. Resumes'
    BY <1>1, <1>2 DEF ReaderIInv, Resumes
  <1>7. QED
    BY <1>3, <1>4, <1>5, <1>6 DEF ReaderIInv

\* A closed socket: the subscription is gone, and what was not taken is forgotten.
LEMMA ClosedKeeps ==
  ASSUME ReaderIInv, socket' = "closed", queue' = <<>>, sequence' = 0, last' = 0,
         pending' = <<>>, UNCHANGED <<session, shown, turn, ownReset, strayed>>,
         (sync' = sync /\ again' = again) \/ (sync' = None /\ again' = FALSE)
  PROVE  ReaderIInv'
  <1>1. <<>> \in Seq(Events) /\ Len(<<>>) = 0 /\ DOMAIN <<>> = {}
    OBVIOUS
  <1>2. RequestFits(None, {Sent}) /\ AnswerUpTo(None, session)
    BY DEF None, RequestFits, AnswerUpTo
  <1>3. ReaderTypeOK'
    <2>1. RequestFits(sync', {Sent}) /\ again' \in BOOLEAN
      BY <1>2 DEF ReaderIInv, ReaderTypeOK
    <2>2. /\ queue' \in Seq(Events) /\ Len(queue') <= QueueSize /\ pending' \in Seq(Events)
          /\ sequence' \in Nat /\ last' \in Nat
      BY <1>1, ReaderConstants
    <2>3. QED
      BY <2>1, <2>2 DEF ReaderIInv, ReaderTypeOK
  <1>4. NothingAhead'
    BY <1>1, <1>2, NothingAheadParts, NothingAheadPartsNext DEF ReaderIInv, EventsUpTo
  <1>5. QueueInOrder'
    BY <1>1 DEF QueueInOrder
  <1>6. Resumes'
    BY DEF ReaderIInv, Resumes
  <1>7. QED
    BY <1>3, <1>4, <1>5, <1>6 DEF ReaderIInv

LEMMA DisconnectKeeps == ReaderIInv /\ Disconnect => ReaderIInv'
  <1> SUFFICES ASSUME ReaderIInv, Disconnect PROVE ReaderIInv'
    OBVIOUS
  <1>1. /\ socket' = "closed" /\ queue' = <<>> /\ sequence' = 0 /\ last' = 0 /\ pending' = <<>>
        /\ UNCHANGED <<session, shown, turn, ownReset, strayed>>
        /\ sync' = sync /\ again' = again
    BY DEF Disconnect, Unsubscribe
  <1>2. (sync' = sync /\ again' = again) \/ (sync' = None /\ again' = FALSE)
    BY <1>1
  <1>3. QED
    BY <1>1, <1>2, ClosedKeeps

LEMMA SynchronizationFailsKeeps == ReaderIInv /\ SynchronizationFails => ReaderIInv'
  <1> SUFFICES ASSUME ReaderIInv, SynchronizationFails PROVE ReaderIInv'
    OBVIOUS
  <1>1. /\ sync' = None /\ again' = FALSE /\ pending' = <<>>
        /\ UNCHANGED <<session, shown, turn, ownReset, strayed>>
    BY DEF SynchronizationFails
  <1>2. CASE socket = "open"
    BY <1>1, <1>2, ClosedKeeps DEF SynchronizationFails, Subscribed, Unsubscribe
  <1>3. CASE socket # "open"
    <2>1. UNCHANGED <<socket, last, queue, sequence>>
      BY <1>3 DEF SynchronizationFails, Subscribed, hub
    <2>2. <<>> \in Seq(Events) /\ Len(<<>>) = 0
      OBVIOUS
    <2>3. RequestFits(None, {Sent}) /\ AnswerUpTo(None, session)
      BY DEF None, RequestFits, AnswerUpTo
    <2>4. ReaderTypeOK'
      BY <1>1, <2>1, <2>2, <2>3 DEF ReaderIInv, ReaderTypeOK
    <2>5. NothingAhead'
      BY <1>1, <2>1, <2>2, <2>3, NothingAheadParts, NothingAheadPartsNext
         DEF ReaderIInv, EventsUpTo
    <2>6. QueueInOrder' /\ Resumes'
      BY <1>1, <1>3, <2>1 DEF ReaderIInv, QueueInOrder, Resumes
    <2>7. QED
      BY <2>4, <2>5, <2>6 DEF ReaderIInv
  <1>4. QED
    BY <1>2, <1>3

LEMMA AnswerStatusKeeps == ReaderIInv /\ AnswerStatus => ReaderIInv'
  <1> SUFFICES ASSUME ReaderIInv, AnswerStatus PROVE ReaderIInv'
    OBVIOUS
  <1>1. /\ sync.is = "asked" /\ sync' = Answered(session)
        /\ UNCHANGED <<session, queue, sequence, socket, shown, last, pending, again, turn,
                       ownReset, workbench, strayed>>
    BY DEF AnswerStatus, hub
  <1>2. ReaderTypeOK /\ NothingAhead /\ session \in Places /\ shown \in Views
    BY DEF ReaderIInv, ReaderTypeOK
  <1>3. sync' # None /\ sync'.status = session
    BY <1>1 DEF Answered, None
  <1>4. RequestFits(sync', {Sent}) /\ AnswerUpTo(sync', session)
    BY <1>1, <1>2 DEF RequestFits, Answered, AnswerUpTo, UpTo, Places
  <1>5. ReaderTypeOK'
    BY <1>1, <1>2, <1>4 DEF ReaderTypeOK
  <1>6. NothingAhead'
    BY <1>1, <1>2, <1>4, NothingAheadParts, NothingAheadPartsNext
  <1>7. QueueInOrder'
    BY <1>1 DEF ReaderIInv, QueueInOrder
  <1>8. Resumes'
    <2>1. ASSUME ~Excused' PROVE Follows(Applied(sync.status, shown))'
      <3>1. shown.page = session.page
        BY <1>1, <2>1 DEF Excused
      <3>2. ViewUpTo(shown, session)
        BY <1>2, NothingAheadParts
      <3>3. pending \o queue \in Seq(Events) /\ EventsUpTo(pending \o queue, session)
        BY <1>2, UndeliveredUpTo
      <3>4. Leads(Applied(session, shown), pending \o queue, session)
        BY <1>2, <3>1, <3>2, <3>3, PresentStatusLeads
      <3>5. QED
        BY <1>1, <1>3, <3>4 DEF Follows, Undelivered, Leads, Target
    <2>2. QED
      BY <1>3, <2>1 DEF Resumes
  <1>9. QED
    BY <1>5, <1>6, <1>7, <1>8 DEF ReaderIInv

-----------------------------------------------------------------------------
(* The events taken.                                                       *)

\* The first event of the queue is new to the projector, and before the others.
LEMMA QueueHead ==
  ASSUME ReaderTypeOK, QueueInOrder, queue # <<>>
  PROVE  /\ Head(queue) \in Events /\ Tail(queue) \in Seq(Events)
         /\ Len(Tail(queue)) <= QueueSize
         /\ 1 \in DOMAIN queue /\ queue[1] = Head(queue)
         /\ \A k \in 1 .. Len(Tail(queue)) : k + 1 \in 1 .. Len(queue) /\ Tail(queue)[k] = queue[k + 1]
         /\ \A k \in DOMAIN queue : k = 1 \/ (k - 1 \in DOMAIN Tail(queue) /\ queue[k] = Tail(queue)[k - 1])
         /\ last < Head(queue).sequence /\ Head(queue).sequence <= sequence
         /\ \A k \in DOMAIN Tail(queue) : /\ Head(queue).sequence < Tail(queue)[k].sequence
                                          /\ Tail(queue)[k].sequence <= sequence
         /\ \A j, k \in DOMAIN Tail(queue) :
              j < k => Tail(queue)[j].sequence < Tail(queue)[k].sequence
  <1> DEFINE q == Tail(queue)
  <1>1. /\ queue \in Seq(Events) /\ Len(queue) \in Nat /\ Len(queue) <= QueueSize
        /\ DOMAIN queue = 1 .. Len(queue) /\ QueueSize \in Nat
    BY ReaderConstants DEF ReaderTypeOK
  <1>2. /\ Head(queue) \in Events /\ q \in Seq(Events) /\ Len(q) = Len(queue) - 1
        /\ 1 \in DOMAIN queue /\ queue[1] = Head(queue) /\ DOMAIN q = 1 .. Len(q)
        /\ Len(q) \in Nat /\ \A k \in 1 .. Len(q) : q[k] = queue[k + 1]
    BY <1>1
  <1> HIDE DEF q
  <1>3. \A k \in DOMAIN q : k + 1 \in DOMAIN queue /\ q[k] = queue[k + 1]
    BY <1>1, <1>2
  <1>4. \A k \in DOMAIN queue : k = 1 \/ (k - 1 \in DOMAIN q /\ queue[k] = q[k - 1])
    <2>1. \A k \in 1 .. Len(queue) : k = 1 \/ (k - 1 \in 1 .. Len(q) /\ (k - 1) + 1 = k)
      BY <1>1, <1>2
    <2>2. QED
      BY <1>1, <1>2, <2>1
  <1>5. last < Head(queue).sequence /\ Head(queue).sequence <= sequence
    BY <1>2 DEF QueueInOrder
  <1>6. \A k \in DOMAIN q : Head(queue).sequence < q[k].sequence /\ q[k].sequence <= sequence
    <2>1. \A k \in DOMAIN q : 1 < k + 1
      BY <1>2
    <2>2. QED
      BY <1>2, <1>3, <2>1 DEF QueueInOrder
  <1>7. \A j, k \in DOMAIN q : j < k => q[j].sequence < q[k].sequence
    <2>1. \A j, k \in DOMAIN q : j < k => j + 1 < k + 1
      BY <1>2
    <2>2. QED
      BY <1>3, <2>1 DEF QueueInOrder
  <1>8. Len(q) <= QueueSize /\ \A k \in 1 .. Len(q) : k + 1 \in 1 .. Len(queue) /\ q[k] = queue[k + 1]
    BY <1>1, <1>2, <1>3
  <1>9. QED
    BY <1>2, <1>4, <1>5, <1>6, <1>7, <1>8 DEF q

LEMMA ReceiveKeeps == ReaderIInv /\ Receive => ReaderIInv'
  <1> SUFFICES ASSUME ReaderIInv, Receive PROVE ReaderIInv'
    OBVIOUS
  <1> DEFINE e == Head(queue)
             q == Tail(queue)
  <1>1. ReaderTypeOK /\ NothingAhead /\ QueueInOrder /\ Resumes /\ queue # <<>>
    BY DEF ReaderIInv, Receive
  <1>2. /\ e \in Events /\ q \in Seq(Events) /\ Len(q) <= QueueSize
        /\ 1 \in DOMAIN queue /\ queue[1] = e
        /\ \A k \in 1 .. Len(q) : k + 1 \in 1 .. Len(queue) /\ q[k] = queue[k + 1]
        /\ \A k \in DOMAIN queue : k = 1 \/ (k - 1 \in DOMAIN q /\ queue[k] = q[k - 1])
        /\ last < e.sequence /\ e.sequence <= sequence
        /\ \A k \in DOMAIN q : e.sequence < q[k].sequence /\ q[k].sequence <= sequence
        /\ \A j, k \in DOMAIN q : j < k => q[j].sequence < q[k].sequence
    BY <1>1, QueueHead
  <1>3. /\ queue \in Seq(Events) /\ pending \in Seq(Events) /\ shown \in Views
        /\ session \in Places /\ last \in Nat /\ again \in BOOLEAN
        /\ DOMAIN queue = 1 .. Len(queue) /\ e.sequence \in Nat
    BY <1>1, <1>2 DEF ReaderTypeOK, Events
  <1>4. ~(e.sequence <= last)
    BY <1>2, <1>3
  <1>5. /\ queue' = q /\ last' = e.sequence
        /\ IF sync # None \/ Gap(e)
           THEN pending' = Append(pending, e) /\ shown' = shown
           ELSE shown' = Handled(shown, e) /\ pending' = pending
        /\ IF Gap(e) THEN Synchronize(TRUE) ELSE sync' = sync /\ again' = again
        /\ UNCHANGED <<session, sequence, socket, turn, ownReset, workbench, strayed>>
    BY <1>4 DEF Receive
  <1>6. /\ ~Gap(e) => sync' = sync /\ again' = again
        /\ Gap(e) => \/ sync = None /\ sync' = Sent /\ again' = again
                     \/ sync # None /\ sync' = sync /\ again' = TRUE
    BY <1>3, <1>5 DEF Synchronize
  <1>7. queue = <<e>> \o q
    BY <1>1, <1>3
  <1> HIDE DEF e, q
  <1>8. Sent # None /\ RequestFits(Sent, {Sent}) /\ AnswerUpTo(Sent, session)
    BY DEF Sent, None, RequestFits, AnswerUpTo
  <1>9. /\ Handled(shown, e) \in Views /\ Handled(shown, e).page = shown.page
        /\ Append(pending, e) \in Seq(Events)
    BY <1>2, <1>3, HandledKeepsViews
  <1>10. ReaderTypeOK'
    <2>1. shown' \in Views /\ pending' \in Seq(Events)
      BY <1>3, <1>5, <1>9
    <2>2. RequestFits(sync', {Sent}) /\ again' \in BOOLEAN
      BY <1>1, <1>3, <1>6, <1>8 DEF ReaderTypeOK
    <2>3. QED
      BY <1>1, <1>2, <1>3, <1>5, <2>1, <2>2 DEF ReaderTypeOK
  <1>11. /\ ViewUpTo(shown, session) /\ EventsUpTo(queue, session)
         /\ EventsUpTo(pending, session)
         /\ AnswerUpTo(sync, session) /\ AnswerUpTo(turn, session) /\ AnswerUpTo(ownReset, session)
    BY <1>1, NothingAheadParts
  <1>12. UpTo(e.generation, e.index, session.generation, session.reached)
    BY <1>2, <1>3, <1>11 DEF EventsUpTo
  <1>13. NothingAhead'
    <2>1. EventsUpTo(q, session)
      BY <1>2, <1>11 DEF EventsUpTo
    <2>2. ViewUpTo(shown', session)
      <3>1. ViewUpTo(Handled(shown, e), session)
        BY <1>2, <1>3, <1>11, <1>12
           DEF ViewUpTo, UpTo, Handled, NewWord, NewReading, Views, Events, Places
      <3>2. QED
        BY <1>5, <1>11, <3>1
    <2>3. EventsUpTo(Append(pending, e), session)
      <3>1. /\ Len(Append(pending, e)) = Len(pending) + 1 /\ Len(pending) \in Nat
            /\ \A k \in 1 .. Len(pending) : Append(pending, e)[k] = pending[k]
            /\ Append(pending, e)[Len(pending) + 1] = e
        BY <1>2, <1>3
      <3>2. \A k \in 1 .. Len(pending) + 1 : k \in 1 .. Len(pending) \/ k = Len(pending) + 1
        BY <3>1
      <3>3. QED
        BY <1>11, <1>12, <3>1, <3>2 DEF EventsUpTo
    <2>4. EventsUpTo(pending', session) /\ AnswerUpTo(sync', session)
      BY <1>5, <1>6, <1>8, <1>11, <2>3
    <2>5. QED
      BY <1>5, <1>11, <2>1, <2>2, <2>4, NothingAheadPartsNext
  <1>14. QueueInOrder'
    BY <1>2, <1>5 DEF QueueInOrder
  <1>15. Resumes'
    <2>1. sync' = None => pending' = <<>> /\ ~again'
      BY <1>1, <1>5, <1>6, <1>8 DEF Resumes
    <2>2. ASSUME socket' = "open", ~Excused', Gap(e)
          PROVE  sync' # None /\ (again' \/ sync' = Sent)
      BY <1>6, <1>8, <2>2
    <2>3. ASSUME socket' = "open", ~Excused', ~Gap(e)
          PROVE  IF sync' = None THEN Follows(shown)'
                 ELSE again' \/ sync' = Sent \/ Follows(Applied(sync.status, shown))'
      <3>1. shown'.page = shown.page
        BY <1>5, <1>9
      <3>2. ~\E k \in DOMAIN queue : queue[k].dropped
        <4>1. ~\E k \in DOMAIN q : q[k].dropped
          BY <1>5, <2>3 DEF Excused
        <4>2. ~e.dropped
          BY <2>3 DEF Gap
        <4>3. QED
          BY <1>2, <4>1, <4>2
      <3>3. ~Excused /\ socket = "open"
        BY <1>5, <2>3, <3>1, <3>2 DEF Excused
      <3>4. CASE sync = None
        <4>1. pending = <<>> /\ pending' = <<>> /\ shown' = Handled(shown, e) /\ sync' = None
          BY <1>1, <1>5, <1>6, <2>3, <3>4 DEF Resumes
        <4>2. <<>> \o queue = queue /\ <<>> \o q = q
          BY <1>2, <1>3
        <4>3. Replayed(shown, queue) = Target(session)
          BY <1>1, <3>3, <3>4, <4>1, <4>2 DEF Resumes, Follows, Undelivered, Target
        <4>4. Replayed(shown, queue) = Replayed(Handled(shown, e), q)
          BY <1>1, <1>3, ReplayedHead DEF e, q
        <4>5. QED
          BY <1>5, <4>1, <4>2, <4>3, <4>4 DEF Follows, Undelivered, Target
      <3>5. CASE sync # None
        <4>1. pending' = Append(pending, e) /\ shown' = shown /\ sync' = sync /\ again' = again
          BY <1>5, <1>6, <2>3, <3>5
        <4>2. Append(pending, e) \o q = pending \o (<<e>> \o q)
          BY <1>2, <1>3
        <4>3. Undelivered' = Undelivered
          BY <1>5, <1>7, <4>1, <4>2 DEF Undelivered
        <4>4. again \/ sync = Sent \/ Follows(Applied(sync.status, shown))
          BY <1>1, <3>3, <3>5 DEF Resumes
        <4>5. QED
          BY <1>5, <3>5, <4>1, <4>3, <4>4 DEF Follows
      <3>6. QED
        BY <3>4, <3>5
    <2>4. QED
      BY <2>1, <2>2, <2>3 DEF Resumes
  <1>16. QED
    BY <1>10, <1>13, <1>14, <1>15 DEF ReaderIInv

\* The answer of a synchronization, and what it makes of the view shown.
LEMMA SynchronizedKeeps == ReaderIInv /\ Synchronized => ReaderIInv'
  <1> SUFFICES ASSUME ReaderIInv, Synchronized PROVE ReaderIInv'
    OBVIOUS
  <1> DEFINE w == Applied(sync.status, shown)
  <1>1. ReaderTypeOK /\ NothingAhead /\ QueueInOrder /\ Resumes
    BY DEF ReaderIInv
  <1>2. sync # None /\ sync # Sent
    BY DEF Synchronized, None, Sent
  <1>3. /\ pending \in Seq(Events) /\ queue \in Seq(Events) /\ shown \in Views
        /\ session \in Places /\ Len(<<>>) = 0 /\ <<>> \in Seq(Events) /\ <<>> \o queue = queue
    BY <1>1 DEF ReaderTypeOK
  <1>4. w \in Views /\ ViewUpTo(w, session) /\ w.page = shown.page
    BY <1>1, <1>2, AnswerHeld
  <1>5. /\ EventsUpTo(queue, session) /\ EventsUpTo(pending, session)
        /\ AnswerUpTo(turn, session) /\ AnswerUpTo(ownReset, session)
    BY <1>1, NothingAheadParts
  <1>6. /\ IF again THEN shown' = w /\ sync' = Sent /\ pending' = pending
           ELSE shown' = Replayed(w, pending) /\ sync' = None /\ pending' = <<>>
        /\ again' = FALSE /\ strayed' = (strayed /\ ~Follows(shown)')
        /\ UNCHANGED <<session, queue, sequence, socket, last, turn, ownReset, workbench>>
    BY DEF Synchronized, hub
  <1>7. /\ RequestFits(Sent, {Sent}) /\ AnswerUpTo(Sent, session) /\ Sent # None
        /\ RequestFits(None, {Sent}) /\ AnswerUpTo(None, session)
    BY DEF Sent, None, RequestFits, AnswerUpTo
  <1> HIDE DEF w
  <1>8. /\ Replayed(w, pending) \in Views /\ Replayed(w, pending).page = w.page
        /\ ViewUpTo(Replayed(w, pending), session)
    <2>1. session.generation \in Nat /\ session.reached \in Nat
      BY <1>3 DEF Places
    <2>2. QED
      BY <1>3, <1>4, <1>5, <2>1, ReplayedKeepsViews, ReplayedUpTo DEF ViewUpTo, EventsUpTo
  <1>9. /\ shown' \in Views /\ ViewUpTo(shown', session) /\ shown'.page = shown.page
        /\ pending' \in Seq(Events) /\ EventsUpTo(pending', session)
        /\ RequestFits(sync', {Sent}) /\ AnswerUpTo(sync', session)
    <2>1. EventsUpTo(<<>>, session)
      BY <1>3 DEF EventsUpTo
    <2>2. CASE again
      BY <1>3, <1>4, <1>5, <1>6, <1>7, <2>2
    <2>3. CASE ~again
      BY <1>3, <1>4, <1>6, <1>7, <1>8, <2>1, <2>3
    <2>4. QED
      BY <2>2, <2>3
  <1>10. ReaderTypeOK'
    BY <1>1, <1>6, <1>9 DEF ReaderTypeOK
  <1>11. NothingAhead'
    BY <1>5, <1>6, <1>9, NothingAheadPartsNext
  <1>12. QueueInOrder'
    BY <1>1, <1>6 DEF QueueInOrder
  <1>13. Resumes'
    <2>1. sync' = None => pending' = <<>> /\ ~again'
      BY <1>6, <1>7
    <2>2. CASE again
      <3>1. sync' = Sent
        BY <1>6, <2>2
      <3>2. QED
        BY <1>7, <2>1, <3>1 DEF Resumes
    <2>3. CASE ~again
      <3>1. ASSUME socket' = "open", ~Excused' PROVE Follows(shown)'
        <4>1. CASE strayed
          BY <1>6, <3>1, <4>1 DEF Excused
        <4>2. CASE ~strayed
          <5>1. ~Excused /\ socket = "open"
            BY <1>6, <1>9, <3>1, <4>2 DEF Excused
          <5>2. Replayed(w, pending \o queue) = Target(session)
            BY <1>1, <1>2, <2>3, <5>1 DEF Resumes, Follows, Undelivered, Target, w
          <5>3. Replayed(w, pending \o queue) = Replayed(Replayed(w, pending), queue)
            BY <1>3, <1>4, ReplayedInTurn
          <5>4. QED
            BY <1>3, <1>6, <2>3, <5>2, <5>3 DEF Follows, Undelivered, Target
        <4>3. QED
          BY <4>1, <4>2
      <3>2. QED
        BY <1>6, <2>1, <2>3, <3>1 DEF Resumes
    <2>4. QED
      BY <2>2, <2>3
  <1>14. QED
    BY <1>10, <1>11, <1>12, <1>13 DEF ReaderIInv

-----------------------------------------------------------------------------
(* The projector's own page turns and resets.                              *)

\* Whoever is on the way is not taken off it by the answer still awaited.
LEMMA LedResumes ==
  ASSUME ReaderTypeOK', NothingAhead', sync' = None => pending' = <<>> /\ ~again',
         strayed' = ~Follows(shown)'
  PROVE  Resumes'
  <1>1. /\ session' \in Places /\ shown' \in Views /\ pending' \in Seq(Events)
        /\ queue' \in Seq(Events) /\ pending' \o queue' \in Seq(Events)
        /\ RequestFits(sync', {Sent})
    BY DEF ReaderTypeOK
  <1>2. /\ ViewUpTo(shown', session') /\ EventsUpTo(queue', session')
        /\ EventsUpTo(pending', session') /\ AnswerUpTo(sync', session')
    BY NothingAheadPartsNext
  <1>3. EventsUpTo(pending' \o queue', session')
    <2>1. /\ Len(pending' \o queue') = Len(pending') + Len(queue')
          /\ Len(pending') \in Nat /\ Len(queue') \in Nat
          /\ \A k \in 1 .. Len(pending') : (pending' \o queue')[k] = pending'[k]
          /\ \A k \in 1 .. Len(queue') : (pending' \o queue')[Len(pending') + k] = queue'[k]
      BY <1>1, ConcatFits
    <2>2. ASSUME NEW k \in 1 .. Len(pending' \o queue'), ~(k \in 1 .. Len(pending'))
          PROVE  k - Len(pending') \in 1 .. Len(queue') /\ Len(pending') + (k - Len(pending')) = k
      BY <2>1, <2>2
    <2>3. QED
      BY <1>2, <2>1, <2>2 DEF EventsUpTo
  <1>4. ASSUME ~Excused', sync' # None, sync' # Sent
        PROVE  Follows(Applied(sync.status, shown))'
    <2>1. sync'.is = "answered" /\ sync'.status \in Places
      BY <1>1, <1>4 DEF RequestFits, Answered
    <2>2. Leads(shown', pending' \o queue', session')
      BY <1>4 DEF Excused, Follows, Undelivered, Leads, Target
    <2>3. UpTo(sync'.status.generation, sync'.status.reached, session'.generation, session'.reached)
      BY <1>2, <2>1 DEF AnswerUpTo
    <2>4. Leads(Applied(sync'.status, shown'), pending' \o queue', session')
      BY <1>1, <1>2, <1>3, <2>1, <2>2, <2>3, AppliedLeads
    <2>5. QED
      BY <2>4 DEF Follows, Undelivered, Leads, Target
  <1>5. QED
    BY <1>4 DEF Resumes, Excused

LEMMA TurnKeeps ==
  ASSUME ReaderIInv, NEW p \in Page, Turn(p)
  PROVE  ReaderIInv'
  <1>1. /\ UNCHANGED <<session, queue, sequence, socket, last, sync, again, ownReset, workbench>>
        /\ strayed' = (strayed \/ turn' = None)
        /\ \/ shown' = [shown EXCEPT !.page = p] /\ pending' = pending /\ turn' = turn
           \/ /\ shown' = [shown EXCEPT !.page = p, !.cursor = 0]
              /\ pending' = <<>> /\ turn' = Asked(p)
        /\ turn = None
    BY DEF Turn, hub
  <1>2. /\ ReaderTypeOK /\ NothingAhead /\ QueueInOrder /\ Resumes /\ shown \in Views
        /\ session \in Places /\ <<>> \in Seq(Events) /\ Len(<<>>) = 0
    BY DEF ReaderIInv, ReaderTypeOK
  <1>3. /\ ViewUpTo(shown, session) /\ EventsUpTo(queue, session)
        /\ EventsUpTo(pending, session) /\ AnswerUpTo(sync, session)
        /\ AnswerUpTo(turn, session) /\ AnswerUpTo(ownReset, session)
    BY <1>2, NothingAheadParts
  <1>4. shown' \in Views /\ ViewUpTo(shown', session)
    <2>1. CASE shown' = [shown EXCEPT !.page = p]
      BY <1>2, <1>3, <2>1 DEF Views, ViewUpTo
    <2>2. CASE shown' = [shown EXCEPT !.page = p, !.cursor = 0]
      <3> DEFINE x == [page |-> p, generation |-> shown.generation, cursor |-> shown.cursor]
      <3>1. [shown EXCEPT !.page = p] = x
        BY <1>2 DEF Views
      <3>2. [x EXCEPT !.cursor = 0] = [page |-> p, generation |-> shown.generation, cursor |-> 0]
        OBVIOUS
      <3>3. shown' = [[shown EXCEPT !.page = p] EXCEPT !.cursor = 0]
        BY <2>2
      <3> HIDE DEF x
      <3>4. shown' = [page |-> p, generation |-> shown.generation, cursor |-> 0]
        BY <3>1, <3>2, <3>3
      <3>5. QED
        BY <1>2, <1>3, <3>4 DEF Views, Places, ViewUpTo, UpTo
    <2>3. QED
      BY <1>1, <2>1, <2>2
  <1>5. /\ Asked(p) # None /\ Asked(p).is # "answered"
        /\ RequestFits(Asked(p), {Asked(x) : x \in Page})
    BY DEF Asked, None, RequestFits
  <1>6. /\ pending' \in Seq(Events) /\ EventsUpTo(pending', session)
        /\ AnswerUpTo(turn', session) /\ RequestFits(turn', {Asked(x) : x \in Page})
        /\ strayed' \in BOOLEAN
    <2>1. EventsUpTo(<<>>, session) /\ AnswerUpTo(Asked(p), session)
      BY <1>2, <1>5 DEF EventsUpTo, AnswerUpTo
    <2>2. RequestFits(turn, {Asked(x) : x \in Page}) /\ pending \in Seq(Events)
      BY <1>2 DEF ReaderTypeOK
    <2>3. strayed' \in BOOLEAN
      BY <1>1
    <2>4. QED
      BY <1>1, <1>2, <1>3, <1>5, <2>1, <2>2, <2>3
  <1>7. ReaderTypeOK'
    BY <1>1, <1>2, <1>4, <1>6 DEF ReaderTypeOK
  <1>8. NothingAhead'
    BY <1>1, <1>3, <1>4, <1>6, NothingAheadPartsNext
  <1>9. QueueInOrder'
    BY <1>1, <1>2 DEF QueueInOrder
  <1>10. Resumes'
    <2>1. Excused'
      BY <1>1, <1>5 DEF Excused
    <2>2. sync' = None => pending' = <<>> /\ ~again'
      BY <1>1, <1>2 DEF Resumes
    <2>3. QED
      BY <2>1, <2>2 DEF Resumes
  <1>11. QED
    BY <1>7, <1>8, <1>9, <1>10 DEF ReaderIInv

\* The projector's own answers move its view to what they say of the session.
LEMMA MovedKeeps ==
  ASSUME ReaderIInv, NEW view \in Views, ViewUpTo(view, session), shown' = view,
         UNCHANGED <<session, queue, sequence, socket, last, pending, sync, again>>,
         strayed' = ~Follows(shown)',
         turn' \in {None, turn}, ownReset' \in {None, ownReset}
  PROVE  ReaderIInv'
  <1>1. ReaderTypeOK /\ NothingAhead /\ QueueInOrder /\ Resumes
    BY DEF ReaderIInv
  <1>2. /\ EventsUpTo(queue, session) /\ EventsUpTo(pending, session) /\ AnswerUpTo(sync, session)
        /\ AnswerUpTo(turn, session) /\ AnswerUpTo(ownReset, session)
    BY <1>1, NothingAheadParts
  <1>3. /\ \A asked : RequestFits(None, asked)
        /\ AnswerUpTo(None, session)
    BY DEF RequestFits, AnswerUpTo, None
  <1>4. /\ RequestFits(turn', {Asked(p) : p \in Page}) /\ RequestFits(ownReset', {Sent})
        /\ AnswerUpTo(turn', session) /\ AnswerUpTo(ownReset', session) /\ strayed' \in BOOLEAN
    BY <1>1, <1>2, <1>3 DEF ReaderTypeOK
  <1>5. ReaderTypeOK'
    BY <1>1, <1>4 DEF ReaderTypeOK
  <1>6. NothingAhead'
    BY <1>2, <1>4, NothingAheadPartsNext
  <1>7. QueueInOrder'
    BY <1>1 DEF QueueInOrder
  <1>8. Resumes'
    <2>1. sync' = None => pending' = <<>> /\ ~again'
      BY <1>1 DEF Resumes
    <2>2. QED
      BY <1>5, <1>6, <2>1, LedResumes
  <1>9. QED
    BY <1>5, <1>6, <1>7, <1>8 DEF ReaderIInv

LEMMA TurnedMoves ==
  ASSUME ReaderIInv, Turned
  PROVE  /\ shown' = [page |-> shown.page, generation |-> turn.status.generation,
                      cursor |-> turn.status.reached]
         /\ shown' \in Views /\ ViewUpTo(shown', session)
  <1>1. shown \in Views /\ turn.is = "answered"
    BY DEF ReaderIInv, ReaderTypeOK, Turned
  <1>2. turn.status \in Places
    BY <1>1 DEF ReaderIInv, ReaderTypeOK, RequestFits, None, Asked
  <1>3. UpTo(turn.status.generation, turn.status.reached, session.generation, session.reached)
    BY <1>1, NothingAheadParts DEF ReaderIInv, AnswerUpTo
  <1> DEFINE g == turn.status.generation
             i == turn.status.reached
             x == [page |-> shown.page, generation |-> g, cursor |-> shown.cursor]
  <1>4. shown' = [shown EXCEPT !.generation = g, !.cursor = i]
    BY DEF Turned
  <1>5. g \in Nat /\ i \in Nat
    BY <1>2 DEF Places
  <1> HIDE DEF g, i
  <1>6. shown' = [page |-> shown.page, generation |-> g, cursor |-> i]
    <2>1. [shown EXCEPT !.generation = g] = x
      BY <1>1 DEF Views
    <2>2. [x EXCEPT !.cursor = i] = [page |-> shown.page, generation |-> g, cursor |-> i]
      OBVIOUS
    <2> HIDE DEF x
    <2>3. shown' = [[shown EXCEPT !.generation = g] EXCEPT !.cursor = i]
      BY <1>4
    <2>4. QED
      BY <2>1, <2>2, <2>3
  <1>7. shown' \in Views /\ ViewUpTo(shown', session)
    BY <1>1, <1>3, <1>5, <1>6 DEF Views, ViewUpTo, g, i
  <1>8. QED
    BY <1>6, <1>7 DEF g, i

LEMMA TurnedKeeps == ReaderIInv /\ Turned => ReaderIInv'
  <1> SUFFICES ASSUME ReaderIInv, Turned PROVE ReaderIInv'
    OBVIOUS
  <1>1. /\ UNCHANGED <<session, queue, sequence, socket, last, pending, sync, again, ownReset>>
        /\ turn' = None /\ strayed' = ~Follows(shown)'
    BY DEF Turned, hub
  <1>2. shown' \in Views /\ ViewUpTo(shown', session)
    BY TurnedMoves
  <1>3. QED
    BY <1>1, <1>2, MovedKeeps

LEMMA ResetMoves ==
  ASSUME ReaderIInv, ResetDone
  PROVE  /\ shown' = [page |-> shown.page, generation |-> ownReset.status.generation, cursor |-> 0]
         /\ shown' \in Views /\ ViewUpTo(shown', session)
  <1>1. shown \in Views /\ ownReset.is = "answered" /\ session \in Places
    BY DEF ReaderIInv, ReaderTypeOK, ResetDone
  <1>2. ownReset.status \in Places
    BY <1>1 DEF ReaderIInv, ReaderTypeOK, RequestFits, None, Sent
  <1>3. UpTo(ownReset.status.generation, ownReset.status.reached,
             session.generation, session.reached)
    BY <1>1, NothingAheadParts DEF ReaderIInv, AnswerUpTo
  <1> DEFINE g == ownReset.status.generation
             x == [page |-> shown.page, generation |-> g, cursor |-> shown.cursor]
  <1>4. shown' = [shown EXCEPT !.generation = g, !.cursor = 0]
    BY DEF ResetDone
  <1>5. g \in Nat
    BY <1>2 DEF Places
  <1>6. UpTo(g, 0, session.generation, session.reached)
    BY <1>1, <1>2, <1>3 DEF UpTo, Places
  <1> HIDE DEF g
  <1>7. shown' = [page |-> shown.page, generation |-> g, cursor |-> 0]
    <2>1. [shown EXCEPT !.generation = g] = x
      BY <1>1 DEF Views
    <2>2. [x EXCEPT !.cursor = 0] = [page |-> shown.page, generation |-> g, cursor |-> 0]
      OBVIOUS
    <2> HIDE DEF x
    <2>3. shown' = [[shown EXCEPT !.generation = g] EXCEPT !.cursor = 0]
      BY <1>4
    <2>4. QED
      BY <2>1, <2>2, <2>3
  <1>8. shown' \in Views /\ ViewUpTo(shown', session)
    BY <1>1, <1>5, <1>6, <1>7 DEF Views, ViewUpTo
  <1>9. QED
    BY <1>7, <1>8 DEF g

LEMMA ResetDoneKeeps == ReaderIInv /\ ResetDone => ReaderIInv'
  <1> SUFFICES ASSUME ReaderIInv, ResetDone PROVE ReaderIInv'
    OBVIOUS
  <1>1. /\ UNCHANGED <<session, queue, sequence, socket, last, pending, sync, again, turn>>
        /\ ownReset' = None /\ strayed' = ~Follows(shown)'
    BY DEF ResetDone, hub
  <1>2. shown' \in Views /\ ViewUpTo(shown', session)
    BY ResetMoves
  <1>3. QED
    BY <1>1, <1>2, MovedKeeps

\* Requests made or given up move nothing but themselves.
LEMMA RequestsKeep ==
  ASSUME ReaderIInv,
         UNCHANGED <<session, queue, sequence, socket, shown, last, pending, sync, again>>,
         \/ strayed' = TRUE
         \/ UNCHANGED <<turn, workbench, strayed>>,
         turn' \in {None, turn}, ownReset' \in {None, Sent, ownReset}
  PROVE  ReaderIInv'
  <1>1. ReaderTypeOK /\ NothingAhead /\ QueueInOrder /\ Resumes
    BY DEF ReaderIInv
  <1>2. /\ ViewUpTo(shown, session) /\ EventsUpTo(queue, session) /\ EventsUpTo(pending, session)
        /\ AnswerUpTo(sync, session) /\ AnswerUpTo(turn, session) /\ AnswerUpTo(ownReset, session)
    BY <1>1, NothingAheadParts
  <1>3. /\ \A asked : RequestFits(None, asked)
        /\ RequestFits(Sent, {Sent}) /\ AnswerUpTo(None, session) /\ AnswerUpTo(Sent, session)
    BY DEF RequestFits, AnswerUpTo, None, Sent
  <1>4. /\ RequestFits(turn', {Asked(p) : p \in Page}) /\ RequestFits(ownReset', {Sent})
        /\ AnswerUpTo(turn', session) /\ AnswerUpTo(ownReset', session) /\ strayed' \in BOOLEAN
    BY <1>1, <1>2, <1>3 DEF ReaderTypeOK
  <1>5. ReaderTypeOK'
    BY <1>1, <1>4 DEF ReaderTypeOK
  <1>6. NothingAhead'
    BY <1>2, <1>4, NothingAheadPartsNext
  <1>7. QueueInOrder'
    BY <1>1 DEF QueueInOrder
  <1>8. sync' = None => pending' = <<>> /\ ~again'
    BY <1>1 DEF Resumes
  <1>9. Resumes'
    <2>1. CASE strayed' = TRUE
      BY <1>8, <2>1 DEF Resumes, Excused
    <2>2. CASE UNCHANGED <<turn, workbench, strayed>>
      BY <1>1, <2>2 DEF Resumes, Excused, Follows, Undelivered
    <2>3. QED
      BY <2>1, <2>2
  <1>10. QED
    BY <1>5, <1>6, <1>7, <1>9 DEF ReaderIInv

LEMMA TurnFailsKeeps == ReaderIInv /\ TurnFails => ReaderIInv'
  BY RequestsKeep DEF TurnFails, hub, client

LEMMA PressResetKeeps == ReaderIInv /\ PressReset => ReaderIInv'
  BY RequestsKeep DEF PressReset, hub, client

LEMMA ResetFailsKeeps == ReaderIInv /\ ResetFails => ReaderIInv'
  BY RequestsKeep DEF ResetFails, hub, client

LEMMA ReaderStutters == ReaderIInv /\ UNCHANGED readerVars => ReaderIInv'
  BY RequestsKeep DEF readerVars

-----------------------------------------------------------------------------
(* What follows.                                                           *)

LEMMA ReaderStarts == ReaderInit => ReaderIInv
  <1> SUFFICES ASSUME ReaderInit PROVE ReaderIInv
    OBVIOUS
  <1>1. /\ <<>> \in Seq(Events) /\ Len(<<>>) = 0 /\ DOMAIN <<>> = {}
        /\ FirstPage \in Page /\ QueueSize \in Nat
    BY ReaderConstants
  <1>2. /\ RequestFits(None, {Sent}) /\ AnswerUpTo(None, session)
        /\ RequestFits(Asked(FirstPage), {Asked(p) : p \in Page})
        /\ AnswerUpTo(Asked(FirstPage), session)
    BY <1>1 DEF RequestFits, AnswerUpTo, None, Asked
  <1>3. session \in Places /\ shown \in Views /\ ViewUpTo(shown, session)
    BY <1>1 DEF ReaderInit, Places, Views, ViewUpTo, UpTo
  <1>4. ReaderTypeOK
    <2>1. /\ queue \in Seq(Events) /\ Len(queue) <= QueueSize /\ pending \in Seq(Events)
      BY <1>1 DEF ReaderInit
    <2>3. sequence \in Nat /\ last \in Nat /\ socket \in {"unopened", "closed", "open"}
      BY DEF ReaderInit
    <2>4. again \in BOOLEAN /\ strayed \in BOOLEAN
      BY DEF ReaderInit
    <2>2. /\ RequestFits(sync, {Sent}) /\ RequestFits(ownReset, {Sent})
          /\ RequestFits(turn, {Asked(p) : p \in Page})
      BY <1>2 DEF ReaderInit
    <2>5. QED
      BY <1>3, <2>1, <2>2, <2>3, <2>4 DEF ReaderTypeOK
  <1>5. EventsUpTo(queue, session) /\ EventsUpTo(pending, session)
    BY <1>1 DEF ReaderInit, EventsUpTo
  <1>6. NothingAhead
    BY <1>2, <1>3, <1>5, NothingAheadParts DEF ReaderInit
  <1>7. QueueInOrder
    BY <1>1 DEF ReaderInit, QueueInOrder
  <1>8. Resumes
    BY DEF ReaderInit, Resumes
  <1>9. QED
    BY <1>4, <1>6, <1>7, <1>8 DEF ReaderIInv

LEMMA ReaderNextKeepsIInv == ReaderIInv /\ [ReaderNext]_readerVars => ReaderIInv'
  <1> SUFFICES ASSUME ReaderIInv, [ReaderNext]_readerVars PROVE ReaderIInv'
    OBVIOUS
  <1>1. ASSUME NEW spoken \in Transcripts, NEW mode \in Modes, Ingest(spoken, mode)
        PROVE  ReaderIInv'
    BY <1>1, IngestKeeps
  <1>2. ASSUME NEW p \in Page, WorkbenchConfigures(p) PROVE ReaderIInv'
    BY <1>2, WorkbenchConfiguresKeeps
  <1>3. ASSUME NEW p \in Page, Turn(p) PROVE ReaderIInv'
    BY <1>3, TurnKeeps
  <1>4. CASE Served
    BY <1>4, WorkbenchResetsKeeps, AnswerStatusKeeps, AnswerTurnKeeps, AnswerResetKeeps DEF Served
  <1>5. CASE Shows
    BY <1>5, SynchronizedKeeps, TurnedKeeps, ResetDoneKeeps DEF Shows
  <1>6. CASE Connect
    BY <1>6, ConnectKeeps
  <1>7. CASE Receive
    BY <1>7, ReceiveKeeps
  <1>8. CASE PressReset \/ Disconnect \/ SynchronizationFails \/ TurnFails \/ ResetFails
    BY <1>8, PressResetKeeps, DisconnectKeeps, SynchronizationFailsKeeps, TurnFailsKeeps,
       ResetFailsKeeps
  <1>9. CASE UNCHANGED readerVars
    BY <1>9, ReaderStutters
  <1>10. QED
    BY <1>1, <1>2, <1>3, <1>4, <1>5, <1>6, <1>7, <1>8, <1>9 DEF ReaderNext

(* What the reader's properties rest on holds in every state: whatever       *)
(* carries a place of the reading is not past the word reached, the events   *)
(* of the queue are new and in order, and what is not taken yet leads to the *)
(* word reached or a gap is still to be noticed.                            *)
THEOREM ReaderInvariant == ReaderSpec => []ReaderIInv
  <1>1. ReaderInit => ReaderIInv
    BY ReaderStarts
  <1>2. ReaderIInv /\ [ReaderNext]_readerVars => ReaderIInv'
    BY ReaderNextKeepsIInv
  <1>3. QED
    BY <1>1, <1>2, PTL DEF ReaderSpec

(* No older event, status or pending event takes the projector past the     *)
(* word reached on the page that is read.                                   *)
THEOREM ProjectorNeverAhead == ReaderSpec => []NeverAhead
  <1>1. ReaderIInv => NeverAhead
    BY DEF ReaderIInv, NothingAhead, Within, NeverAhead
  <1>2. QED
    BY <1>1, ReaderInvariant, PTL

(* With the socket open and no request under way, the events still to be     *)
(* taken lead to the word reached, unless one of them announces a gap.      *)
THEOREM EventsAreEnough == ReaderSpec => []EventsSuffice
  <1>1. ReaderIInv => EventsSuffice
    <2> SUFFICES ASSUME ReaderIInv, socket = "open", sync = None, turn = None,
                        workbench = "idle", ~strayed, shown.page = session.page,
                        ~\E k \in DOMAIN Undelivered : Undelivered[k].dropped
                 PROVE  Follows(shown)
      BY DEF EventsSuffice
    <2>1. Resumes /\ pending = <<>> /\ queue \in Seq(Events)
      BY DEF ReaderIInv, Resumes, ReaderTypeOK
    <2>2. Undelivered = queue
      BY <2>1 DEF Undelivered
    <2>3. ~Excused
      BY <2>2 DEF Excused
    <2>4. QED
      BY <2>1, <2>3 DEF Resumes
  <1>2. QED
    BY <1>1, ReaderInvariant, PTL

-----------------------------------------------------------------------------
\* What a step may do to the view shown, when it is not the answer to a turn or a reset.
LEMMA ViewGoesOn ==
  ASSUME ReaderIInv, [ReaderNext]_readerVars, ownReset' = ownReset, turn' = turn
  PROVE  shown'.page = shown.page => NotPast(shown, shown')
  <1>1. ReaderTypeOK /\ NothingAhead /\ QueueInOrder /\ shown \in Views
    BY DEF ReaderIInv, ReaderTypeOK
  <1>2. NotPast(shown, shown)
    BY <1>1 DEF NotPast, Views
  <1>3. CASE Receive
    <2> DEFINE e == Head(queue)
    <2>1. e \in Events
      BY <1>1, <1>3, QueueHead DEF Receive
    <2>2. shown' = shown \/ shown' = Handled(shown, e)
      BY <1>3 DEF Receive, client
    <2> HIDE DEF e
    <2>3. QED
      BY <1>1, <1>2, <2>1, <2>2, HandledInOrder
  <1>4. CASE Synchronized
    <2> DEFINE w == Applied(sync.status, shown)
    <2>1. w \in Views /\ NotPast(shown, w)
      BY <1>1, <1>4, AnswerHeld DEF Synchronized, None, Sent
    <2>2. shown' = w \/ shown' = Replayed(w, pending)
      BY <1>4 DEF Synchronized
    <2> HIDE DEF w
    <2>3. Replayed(w, pending) \in Views /\ NotPast(w, Replayed(w, pending))
      BY <1>1, <2>1, ReplayedKeepsViews, ReplayedGoesOn DEF ReaderTypeOK
    <2>4. NotPast(shown, Replayed(w, pending))
      BY <1>1, <2>1, <2>3 DEF NotPast, Views
    <2>5. QED
      BY <2>1, <2>2, <2>4
  <1>5. ASSUME NEW p \in Page, Turn(p) PROVE shown'.page # shown.page
    <2>1. p # shown.page /\ (\/ shown' = [shown EXCEPT !.page = p]
                             \/ shown' = [shown EXCEPT !.page = p, !.cursor = 0])
      BY <1>5 DEF Turn
    <2>2. QED
      BY <1>1, <2>1 DEF Views
  <1>6. ~Turned /\ ~ResetDone
    BY DEF Turned, ResetDone, None
  <1>7. ASSUME NEW spoken \in Transcripts, NEW mode \in Modes, Ingest(spoken, mode)
        PROVE  shown' = shown
    BY <1>7 DEF Ingest, client
  <1>8. ASSUME NEW p \in Page, WorkbenchConfigures(p) PROVE shown' = shown
    BY <1>8 DEF WorkbenchConfigures, client
  <1>9. CASE Served
    BY <1>2, <1>9 DEF Served, WorkbenchResets, AnswerStatus, AnswerTurn, AnswerReset, client
  <1>10. CASE Connect \/ PressReset \/ Disconnect \/ SynchronizationFails \/ TurnFails
              \/ ResetFails \/ UNCHANGED readerVars
    BY <1>2, <1>10 DEF Connect, PressReset, Disconnect, SynchronizationFails, TurnFails,
                       ResetFails, client, readerVars
  <1>11. QED
    BY <1>2, <1>3, <1>4, <1>5, <1>6, <1>7, <1>8, <1>9, <1>10 DEF ReaderNext, Shows

(* Only the answers to the projector's own reset and page turn take the      *)
(* word shown back within a reading.                                        *)
THEOREM ProjectorNeverBack == ReaderSpec => NeverBack
  <1>1. ReaderIInv /\ [ReaderNext]_readerVars =>
          [shown'.page = shown.page /\ shown'.generation = shown.generation
             /\ shown'.cursor < shown.cursor => ownReset' # ownReset \/ turn' # turn]_readerVars
    <2> SUFFICES ASSUME ReaderIInv, [ReaderNext]_readerVars, shown'.page = shown.page,
                        shown'.generation = shown.generation, shown'.cursor < shown.cursor,
                        ownReset' = ownReset, turn' = turn
                 PROVE  FALSE
      OBVIOUS
    <2>1. NotPast(shown, shown')
      BY ViewGoesOn
    <2>2. shown \in Views /\ shown' \in Views
      BY ReaderNextKeepsIInv DEF ReaderIInv, ReaderTypeOK
    <2>3. QED
      BY <2>1, <2>2 DEF NotPast, Views
  <1>2. QED
    BY <1>1, ReaderInvariant, PTL DEF ReaderSpec, NeverBack

\* Every other step leaves the word reached, or begins a reading.
LEMMA OthersReachNothing ==
  ASSUME session \in Places, [ReaderNext]_readerVars,
         ~\E spoken \in Transcripts, mode \in Modes : Ingest(spoken, mode)
  PROVE  session' = session \/ session'.reached = 0
  <1>1. ASSUME NEW p \in Page \cup {NoPage} PROVE Configured(p) = session \/ Configured(p).reached = 0
    BY DEF Configured
  <1>2. Restarted.reached = 0
    BY DEF Restarted, Places
  <1>3. ASSUME NEW p \in Page, WorkbenchConfigures(p) PROVE session' = session \/ session'.reached = 0
    BY <1>1, <1>3 DEF WorkbenchConfigures
  <1>4. ASSUME NEW p \in Page, Turn(p) PROVE session' = session
    BY <1>4 DEF Turn
  <1>5. CASE WorkbenchResets \/ AnswerReset
    BY <1>2, <1>5 DEF WorkbenchResets, AnswerReset
  <1>6. CASE AnswerTurn
    <2>1. session' = Configured(turn.page)
      BY <1>6 DEF AnswerTurn
    <2>2. QED
      BY <2>1 DEF Configured
  <1>7. CASE AnswerStatus \/ Shows \/ Connect \/ Receive \/ PressReset \/ Disconnect
             \/ SynchronizationFails \/ TurnFails \/ ResetFails \/ UNCHANGED readerVars
    BY <1>7 DEF AnswerStatus, Shows, Synchronized, Turned, ResetDone, Connect, Receive,
                PressReset, Disconnect, SynchronizationFails, TurnFails, ResetFails, readerVars
  <1>8. QED
    BY <1>3, <1>4, <1>5, <1>6, <1>7 DEF ReaderNext, Served

(* A transcript takes the reading to the last word of the earliest longest   *)
(* alignment with the page, or with what is left of it, and nowhere else: no *)
(* page, however often it repeats its words, is read further than that.      *)
THEOREM ReadingReachesEarliest == ReaderSpec => ReachesEarliest
  <1>1. ReaderIInv /\ [ReaderNext]_readerVars =>
          [session'.reached > session.reached =>
             \E spoken \in Transcripts, from \in {0, session.reached} :
               LET page == Text[session.page]
               IN session'.reached =
                    from + EarliestReached(SubSeq(page, from + 1, Len(page)), spoken)]_readerVars
    <2> SUFFICES ASSUME ReaderIInv, [ReaderNext]_readerVars, session'.reached > session.reached
                 PROVE  \E spoken \in Transcripts, from \in {0, session.reached} :
                          LET page == Text[session.page]
                          IN session'.reached =
                               from + EarliestReached(SubSeq(page, from + 1, Len(page)), spoken)
      OBVIOUS
    <2>1. session \in Places /\ session.reached \in Nat
      BY DEF ReaderIInv, ReaderTypeOK, Places
    <2>2. PICK spoken \in Transcripts, mode \in Modes : Ingest(spoken, mode)
      BY <2>1, OthersReachNothing
    <2>3. QED
      BY <2>1, <2>2, IngestReaches
  <1>2. QED
    BY <1>1, ReaderInvariant, PTL DEF ReaderSpec, ReachesEarliest
=============================================================================
