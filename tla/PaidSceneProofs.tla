-------------------------- MODULE PaidSceneProofs --------------------------
(***************************************************************************)
(* What holds of the paid providers for any calls and scenes, any cap and  *)
(* ceiling, and any number of restarts.                                    *)
(***************************************************************************)
EXTENDS PaidScene, FiniteSetTheorems, TLAPS

-----------------------------------------------------------------------------
(* What the calls hold that have sent nothing, as a call of the finite     *)
(* provider goes on.                                                       *)

\* Multiples of the ceiling.
LEMMA Multiples ==
  \A n \in Int : /\ Ceiling * n \in Int
                 /\ Ceiling * (n + 1) = Ceiling * n + Ceiling
                 /\ Ceiling * (n - 1) = Ceiling * n - Ceiling
  BY PaidAssumption

\* Finitely many calls, finitely many of them unposted.
LEMMA UnpostedCounted ==
  ASSUME NEW W \in SUBSET Call
  PROVE  IsFiniteSet(W) /\ Cardinality(W) \in Nat
  BY PaidAssumption, FS_Subset, FS_CardinalityType

\* A call that moves changes their number by itself.
LEMMA UnpostedMoves ==
  ASSUME NEW c \in Call, NEW p, TypeOK, Goto(c, p)
  PROVE  LET before == pc[c] \in {"preparing", "reserving"}
             after == p \in {"preparing", "reserving"}
         IN  /\ Cardinality(Unposted) \in Nat
             /\ (before <=> after) => Cardinality(Unposted') = Cardinality(Unposted)
             /\ ~before /\ after => Cardinality(Unposted') = Cardinality(Unposted) + 1
             /\ before /\ ~after => Cardinality(Unposted') = Cardinality(Unposted) - 1
  <1> DEFINE before == pc[c] \in {"preparing", "reserving"}
             after == p \in {"preparing", "reserving"}
  <1>1. /\ Unposted \in SUBSET Call
        /\ c \in Unposted <=> before
    BY DEF Unposted
  <1>2. Unposted' = (Unposted \ {c}) \cup (IF after THEN {c} ELSE {})
    BY DEF Unposted, Goto, TypeOK
  <1>3. IsFiniteSet(Unposted) /\ Cardinality(Unposted) \in Nat
    BY <1>1, UnpostedCounted
  <1>4. CASE before <=> after
    <2>1. Unposted' = Unposted
      BY <1>1, <1>2, <1>4
    <2>2. QED
      BY <1>3, <1>4, <2>1
  <1>5. CASE ~before /\ after
    <2>1. Unposted' = Unposted \cup {c} /\ c \notin Unposted
      BY <1>1, <1>2, <1>5
    <2>2. Cardinality(Unposted') = Cardinality(Unposted) + 1
      BY <1>3, <2>1, FS_AddElement
    <2>3. QED
      BY <1>3, <1>5, <2>2
  <1>6. CASE before /\ ~after
    <2>1. Unposted' = Unposted \ {c} /\ c \in Unposted
      BY <1>1, <1>2, <1>6
    <2>2. Cardinality(Unposted') = Cardinality(Unposted) - 1
      BY <1>3, <2>1, FS_RemoveElement
    <2>3. QED
      BY <1>3, <1>6, <2>2
  <1>7. QED
    BY <1>4, <1>5, <1>6

\* Cloud Run and Vertex: one call at a time, booked when it is answered.
LEMMA BookedAfterKeeps ==
  ASSUME NEW c \in Call, IInv, Enter(c) \/ Token(c) \/ VertexAnswers(c) \/ VertexAnswersBadly(c)
         \/ VertexRejects(c) \/ VertexInterrupted(c) \/ CloudRunAnswers(c)
         \/ CloudRunFails(c) \/ Packaged(c)
  PROVE  IInv'
  <1> USE PaidAssumption
  <1> USE DEF IInv, Enter, Token, VertexAnswers, VertexAnswersBadly, VertexRejects,
              VertexInterrupted, CloudRunAnswers, CloudRunFails, Packaged, StillWarm,
              Refused, Leave, Goto, Send, Price, Counts, Costs, Unsent, Is, money, states
  <1>1. TypeOK'
    BY DEF TypeOK, Pc, Request, Entry
  <1>2. LockHeldInside'
    BY DEF LockHeldInside, Inside, TypeOK
  <1>3. BookedAfter'
    BY DEF BookedAfter, HasCapacity, TypeOK, LockHeldInside, Inside
  <1>4. BookedBefore'
    BY DEF BookedBefore, HasCapacity, TypeOK, LockHeldInside, Entry, Inside
  <1>5. BookedMeanwhile'
    BY DEF BookedMeanwhile, TypeOK, LockHeldInside, HasCapacity, Unposted
  <1>6. SentIsRemembered'
    BY DEF SentIsRemembered, TypeOK
  <1>7. ScenePaidOnce'
    BY DEF ScenePaidOnce, SentIsRemembered, TypeOK, HasCapacity, BookedBefore
  <1>8. QED
    BY <1>1, <1>2, <1>3, <1>4, <1>5, <1>6, <1>7

\* Klein: booked, remembered and sent in one step.
LEMMA KleinKeeps ==
  ASSUME NEW c \in Call, IInv, EnterKlein(c) \/ KleinEnds(c)
  PROVE  IInv'
  <1> USE PaidAssumption
  <1> USE DEF IInv, EnterKlein, KleinEnds, StillWarm, Refused, SendKlein, Send, Price,
              Counts, Leave, Goto, Is, money, states
  <1>1. TypeOK'
    BY DEF TypeOK, Pc, Request, Entry
  <1>2. LockHeldInside'
    BY DEF LockHeldInside, Inside, TypeOK
  <1>3. BookedAfter'
    BY DEF BookedAfter, HasCapacity, TypeOK, LockHeldInside, Inside
  <1>4. BookedBefore'
    BY DEF BookedBefore, HasCapacity, TypeOK, LockHeldInside, Entry, Inside
  <1>5. BookedMeanwhile'
    BY DEF BookedMeanwhile, TypeOK, LockHeldInside, HasCapacity, Unposted
  <1>6. SentIsRemembered'
    BY DEF SentIsRemembered, TypeOK
  <1>7. ScenePaidOnce'
    BY DEF ScenePaidOnce, SentIsRemembered, TypeOK, HasCapacity, BookedBefore
  <1>8. QED
    BY <1>1, <1>2, <1>3, <1>4, <1>5, <1>6, <1>7

\* The prepared provider: claimed on disk before it is sent.
LEMMA PreparedKeeps ==
  ASSUME NEW c \in Call, IInv, EnterPrepared(c) \/ PreparedEnds(c)
  PROVE  IInv'
  <1> USE PaidAssumption
  <1> USE DEF IInv, EnterPrepared, PreparedEnds, MayClaim, Refused, Send, Price, Counts,
              Leave, Goto, Is, money, states
  <1>1. TypeOK'
    <2>1. CASE EnterPrepared(c)
      BY <2>1 DEF TypeOK, Pc, Request, Entry
    <2>2. CASE PreparedEnds(c)
      BY <2>2 DEF TypeOK, Pc, Request, Entry
    <2>3. QED
      BY <2>1, <2>2
  <1>2. LockHeldInside'
    BY DEF LockHeldInside, Inside, TypeOK
  <1>3. BookedAfter'
    BY DEF BookedAfter, HasCapacity, TypeOK, LockHeldInside, Inside
  <1>4. BookedBefore'
    BY DEF BookedBefore, HasCapacity, TypeOK, LockHeldInside, Entry, Inside
  <1>5. BookedMeanwhile'
    BY DEF BookedMeanwhile, TypeOK, LockHeldInside, HasCapacity, Unposted
  <1>6. SentIsRemembered'
    <2>1. CASE EnterPrepared(c)
      <3>1. sent' \subseteq sent \cup {<<session, c, wants[c]>>}
        BY <2>1
      <3>2. sent' # sent => onFile'[wants[c]] = Ceiling
        BY <2>1 DEF TypeOK, Entry
      <3>3. \A r \in Request : onFile[r] > 0 => onFile'[r] > 0
        BY <2>1 DEF TypeOK, Entry
      <3>4. Is("prepared") /\ provider' = provider /\ session' = session
        BY <2>1
      <3>5. QED
        BY <3>1, <3>2, <3>3, <3>4 DEF SentIsRemembered, TypeOK
    <2>2. CASE PreparedEnds(c)
      BY <2>2 DEF SentIsRemembered, TypeOK
    <2>3. QED
      BY <2>1, <2>2
  <1>7. ScenePaidOnce'
    BY DEF ScenePaidOnce, SentIsRemembered, TypeOK, HasCapacity, BookedBefore
  <1>8. QED
    BY <1>1, <1>2, <1>3, <1>4, <1>5, <1>6, <1>7

\* What a call of the finite provider holds before it has sent anything.
Holds(p) == IF p \in {"preparing", "reserving"} THEN Ceiling ELSE 0

\* The account of a step that books at least what it bills and holds.
LEMMA AccountArithmetic ==
  ASSUME NEW b \in Int, NEW b2 \in Int, NEW u \in Int, NEW u2 \in Int,
         NEW n \in Nat, NEW m, NEW g \in Int, NEW h \in Int,
         u + Ceiling * n <= b, u2 - u + h - g <= b2 - b,
         \/ m = n /\ h = g
         \/ m = n + 1 /\ h = Ceiling /\ g = 0
         \/ m = n - 1 /\ h = 0 /\ g = Ceiling
  PROVE  u2 + Ceiling * m <= b2
  <1> DEFINE k == Ceiling * n
  <1>1. /\ k \in Int /\ Ceiling \in Int
        /\ Ceiling * (n + 1) = k + Ceiling
        /\ Ceiling * (n - 1) = k - Ceiling
        /\ u + k <= b
    BY Multiples, PaidAssumption
  <1>2. \/ m = n /\ u2 - u <= b2 - b
        \/ m = n + 1 /\ u2 - u + Ceiling <= b2 - b
        \/ m = n - 1 /\ u2 - u - Ceiling <= b2 - b
    BY <1>1
  <1>3. \/ Ceiling * m = k /\ u2 - u <= b2 - b
        \/ Ceiling * m = k + Ceiling /\ u2 - u + Ceiling <= b2 - b
        \/ Ceiling * m = k - Ceiling /\ u2 - u - Ceiling <= b2 - b
    BY <1>1, <1>2
  <1> DEFINE q == Ceiling * m
  <1>4. \/ q = k /\ u2 - u <= b2 - b
        \/ q = k + Ceiling /\ u2 - u + Ceiling <= b2 - b
        \/ q = k - Ceiling /\ u2 - u - Ceiling <= b2 - b
    BY <1>3
  <1> HIDE DEF k, q
  <1>5. u2 + q <= b2
    BY <1>1, <1>4
  <1>6. QED
    BY <1>5 DEF q

\* A call that moves keeps the account, if it books as much as it takes.
LEMMA AccountKept ==
  ASSUME NEW c \in Call, NEW p, TypeOK, BookedMeanwhile, Is("modal"), Goto(c, p),
         booked' \in Int, charged' \in Int,
         charged' - charged + Holds(p) - Holds(pc[c]) <= booked' - booked
  PROVE  charged' + Ceiling * Cardinality(Unposted') <= booked'
  <1> DEFINE n == Cardinality(Unposted)
             m == Cardinality(Unposted')
  <1>1. n \in Nat
    BY UnpostedMoves
  <1>2. charged + Ceiling * n <= booked
    BY DEF BookedMeanwhile
  <1>3. charged \in Int /\ booked \in Int
    BY DEF TypeOK
  <1>4. \/ m = n /\ Holds(p) = Holds(pc[c])
        \/ m = n + 1 /\ Holds(p) = Ceiling /\ Holds(pc[c]) = 0
        \/ m = n - 1 /\ Holds(p) = 0 /\ Holds(pc[c]) = Ceiling
    BY UnpostedMoves DEF Holds
  <1>5. Holds(p) \in Int /\ Holds(pc[c]) \in Int
    BY PaidAssumption DEF Holds
  <1> HIDE DEF n, m
  <1>6. charged' + Ceiling * m <= booked'
    BY <1>1, <1>2, <1>3, <1>4, <1>5, AccountArithmetic
  <1>7. QED
    BY <1>6 DEF m

\* Each of its steps does.
LEMMA AccountOfModal ==
  ASSUME NEW c \in Call, IInv, Is("modal"),
         \/ EnterModal(c) \/ ModalSettles(c) \/ ModalFails(c)
         \/ Begin(c) \/ ReadBilling(c) \/ Authorized(c) \/ Unauthorized(c) \/ Cancel(c)
  PROVE  booked' <= Cap /\ charged' + Ceiling * Cardinality(Unposted') <= booked'
  <1>0. /\ TypeOK /\ BookedMeanwhile /\ LockHeldInside
        /\ booked \in Int /\ charged \in Int /\ pc \in [Call -> Pc]
        /\ booked <= Cap /\ Cap \in Int /\ Ceiling \in Nat /\ Ceiling > 0
    BY PaidAssumption DEF IInv, TypeOK, BookedMeanwhile
  <1> DEFINE Moves(p) == /\ Goto(c, p) /\ booked' \in Int /\ charged' \in Int
                         /\ charged' - charged + Holds(p) - Holds(pc[c]) <= booked' - booked
                         /\ booked' <= Cap
  <1>1. ASSUME NEW p, Moves(p)
        PROVE  booked' <= Cap /\ charged' + Ceiling * Cardinality(Unposted') <= booked'
    BY <1>0, <1>1, AccountKept
  <1>2. CASE EnterModal(c)
    <2>1. Moves("preparing") \/ Moves("done")
      BY <1>0, <1>2 DEF EnterModal, HasCapacity, Refused, Goto, Holds, money
    <2>2. QED
      BY <1>1, <2>1
  <1>3. CASE ModalSettles(c)
    <2>1. PICK cost \in 1..Ceiling : /\ Costs(c, cost)
                                     /\ booked' \in {booked, booked - Ceiling + cost}
      BY <1>3 DEF ModalSettles
    <2>2. /\ charged' = charged - Ceiling + cost /\ cost \in Int /\ cost <= Ceiling
          /\ booked' = booked \/ booked' = booked - Ceiling + cost
      BY <2>1, PaidAssumption DEF Costs
    <2>3. Goto(c, "done") /\ Holds("done") = 0 /\ Holds(pc[c]) = 0
      BY <1>3 DEF ModalSettles, Leave, Holds
    <2>4. /\ booked' \in Int /\ charged' \in Int /\ booked' <= Cap
          /\ charged' - charged + 0 - 0 <= booked' - booked
      BY <1>0, <2>2
    <2>5. Moves("done")
      BY <2>3, <2>4
    <2>6. QED
      BY <1>1, <2>5
  <1>4. CASE ModalFails(c)
    <2>1. Moves("done")
      BY <1>0, <1>4 DEF ModalFails, Leave, Goto, Holds, money
    <2>2. QED
      BY <1>1, <2>1
  <1>5. CASE Begin(c)
    <2>1. Moves("waiting") \/ Moves("done")
      BY <1>0, <1>5 DEF Begin, Goto, Holds, money
    <2>2. QED
      BY <1>1, <2>1
  <1>6. CASE ReadBilling(c)
    <2>1. Moves("reserving") \/ Moves("done")
      BY <1>0, <1>6 DEF ReadBilling, Leave, Unsent, Goto, Holds, Is, money
    <2>2. QED
      BY <1>1, <2>1
  <1>7. CASE Authorized(c)
    <2>1. CASE pc[c] = "reserving"
      <3>1. Moves("posting")
        BY <1>0, <1>7, <2>1 DEF Authorized, Send, Price, Counts, Goto, Holds, Is, money
      <3>2. QED
        BY <1>1, <3>1
    <2>2. CASE pc[c] # "reserving"
      <3>1. Unposted' = Unposted /\ booked' = booked /\ charged' = charged
        BY <1>7, <2>2 DEF Authorized, Unposted, money
      <3>2. QED
        BY <1>0, <3>1 DEF BookedMeanwhile
    <2>3. QED
      BY <2>1, <2>2
  <1>8. CASE Unauthorized(c)
    <2>1. CASE pc[c] = "reserving"
      <3>1. Moves("done")
        BY <1>0, <1>8, <2>1 DEF Unauthorized, Leave, Unsent, Goto, Holds, Is, money
      <3>2. QED
        BY <1>1, <3>1
    <2>2. CASE pc[c] # "reserving"
      <3>1. Unposted' = Unposted /\ booked' = booked /\ charged' = charged
        BY <1>8, <2>2 DEF Unauthorized, Unposted, money
      <3>2. QED
        BY <1>0, <3>1 DEF BookedMeanwhile
    <2>3. QED
      BY <2>1, <2>2
  <1>9. CASE Cancel(c)
    <2>1. Moves("done")
      BY <1>0, <1>9 DEF Cancel, LockHeldInside, Leave, Unsent, Goto, Holds, Is, money
    <2>2. QED
      BY <1>1, <2>1
  <1>10. QED
    BY <1>2, <1>3, <1>4, <1>5, <1>6, <1>7, <1>8, <1>9

\* The finite provider's calls overlap: its account, its ledger entries, and that no
\* two requests on their way share one, are kept by every step of a call.
LEMMA MeanwhileKept ==
  ASSUME NEW c \in Call, IInv,
         \/ EnterModal(c) \/ ModalSettles(c) \/ ModalFails(c)
         \/ Begin(c) \/ ReadBilling(c) \/ Authorized(c) \/ Unauthorized(c) \/ Cancel(c)
  PROVE  BookedMeanwhile'
  <1> SUFFICES ASSUME Is("modal") PROVE BookedMeanwhile'
    BY DEF BookedMeanwhile, Is, EnterModal, ModalSettles, ModalFails, Begin, ReadBilling,
           Authorized, Unauthorized, Cancel
  <1>1. booked' <= Cap /\ charged' + Ceiling * Cardinality(Unposted') <= booked'
    BY AccountOfModal
  <1>a. /\ TypeOK /\ LockHeldInside /\ Ceiling \in Nat /\ Ceiling > 0
    BY PaidAssumption DEF IInv
  <1>b. \A r \in Request : r \in Entry
    BY DEF Entry
  <1>c. /\ \A r \in Request : billed[r] <= onFile[r] /\ (onFile[r] = 0 => billed[r] = 0)
        /\ \A e \in Call : pc[e] = "posting" =>
              onFile[wants[e]] = Ceiling /\ billed[wants[e]] = Ceiling
        /\ \A e, f \in Call : pc[e] = "posting" /\ pc[f] = "posting" /\ wants[e] = wants[f]
                                 => e = f
    BY Zenon DEF IInv, BookedMeanwhile
  <1>2. /\ pc \in [Call -> Pc] /\ wants \in [Call -> Request]
        /\ billed \in [Request -> Int] /\ onFile \in [Entry -> Nat]
    BY <1>a, <1>b, <1>c DEF TypeOK
  <1> DEFINE Rest == /\ \A r \in Request : /\ billed'[r] <= onFile'[r]
                                           /\ onFile'[r] = 0 => billed'[r] = 0
                     /\ \A e \in Call : pc'[e] = "posting" =>
                           onFile'[wants'[e]] = Ceiling /\ billed'[wants'[e]] = Ceiling
                     /\ \A e, f \in Call : pc'[e] = "posting" /\ pc'[f] = "posting"
                                            /\ wants'[e] = wants'[f] => e = f
  <1>3. ASSUME NEW p, p # "posting", pc' = [pc EXCEPT ![c] = p], wants' = wants,
               onFile' = onFile, billed' = billed
        PROVE  Rest
    BY <1>a, <1>b, <1>c, <1>2, <1>3
  <1>8. ASSUME Begin(c) PROVE Rest
    <2>1. /\ \A e \in Call : /\ pc'[e] = "posting" => pc[e] = "posting" /\ e # c
                             /\ e # c => wants'[e] = wants[e]
          /\ onFile' = onFile /\ billed' = billed
      BY <1>2, <1>8 DEF Begin, Goto, money
    <2>2. QED
      BY <1>c, <2>1
  <1>9. ASSUME Unauthorized(c) PROVE Rest
    <2>1. CASE pc[c] = "reserving"
      <3>1. /\ pc' = [pc EXCEPT ![c] = "done"] /\ wants' = wants /\ onFile' = onFile
            /\ billed' = billed
        BY <1>9, <2>1 DEF Unauthorized, Leave, Unsent, Goto, money
      <3> HIDE DEF Rest
      <3>2. QED
        BY <1>3, <3>1
    <2>2. CASE pc[c] # "reserving"
      <3>1. pc' = pc /\ wants' = wants /\ onFile' = onFile /\ billed' = billed
        BY <1>9, <2>2 DEF Unauthorized, money
      <3>2. QED
        BY <1>c, <3>1
    <2>3. QED
      BY <2>1, <2>2
  <1>10. ASSUME ModalSettles(c) PROVE Rest
    <2>1. PICK cost \in 1..Ceiling : /\ Costs(c, cost)
                                     /\ onFile' = [onFile EXCEPT ![wants[c]] = cost]
      BY <1>10 DEF ModalSettles
    <2>2. /\ pc[c] = "posting" /\ pc' = [pc EXCEPT ![c] = "done"] /\ wants' = wants
          /\ billed' = [billed EXCEPT ![wants[c]] = @ - Ceiling + cost]
      BY <1>10, <2>1 DEF ModalSettles, Costs, Leave, Goto
    <2>3. /\ billed'[wants[c]] = cost /\ onFile'[wants[c]] = cost /\ cost > 0
          /\ \A r \in Request : r # wants[c] => billed'[r] = billed[r] /\ onFile'[r] = onFile[r]
      BY <1>a, <1>b, <1>c, <1>2, <2>1, <2>2
    <2>4. \A e \in Call : pc'[e] = "posting" => pc[e] = "posting" /\ e # c /\ wants[e] # wants[c]
      BY <1>a, <1>b, <1>c, <1>2, <2>2
    <2>5. QED
      BY <1>a, <1>b, <1>c, <1>2, <2>2, <2>3, <2>4
  <1>11. ASSUME Authorized(c) PROVE Rest
    <2>1. /\ EntryOf(c) = wants[c] /\ onFile[wants[c]] = 0 /\ wants' = wants
          /\ onFile' = [onFile EXCEPT ![wants[c]] = Ceiling]
      BY <1>11 DEF Authorized, EntryOf, Is
    <2>2. /\ onFile'[wants[c]] = Ceiling
          /\ \A r \in Request : r # wants[c] => onFile'[r] = onFile[r]
          /\ billed[wants[c]] = 0
      BY <1>a, <1>b, <1>c, <1>2, <2>1
    <2>3. \A e \in Call : pc[e] = "posting" => wants[e] # wants[c]
      BY <1>a, <1>b, <1>c, <2>1
    <2>4. CASE pc[c] = "reserving"
      <3>1. /\ pc' = [pc EXCEPT ![c] = "posting"]
            /\ billed' = [billed EXCEPT ![wants[c]] = @ + Ceiling]
        BY <1>11, <2>4 DEF Authorized, Send, Price, Counts, Goto, Is
      <3>2. /\ billed'[wants[c]] = Ceiling
            /\ \A r \in Request : r # wants[c] => billed'[r] = billed[r]
        BY <1>a, <1>b, <1>c, <1>2, <2>2, <3>1
      <3>3. QED
        BY <1>a, <1>b, <1>c, <1>2, <2>1, <2>2, <2>3, <3>1, <3>2
    <2>5. CASE pc[c] # "reserving"
      <3>1. pc' = pc /\ billed' = billed
        BY <1>11, <2>5 DEF Authorized, money
      <3>2. QED
        BY <1>a, <1>b, <1>c, <1>2, <2>1, <2>2, <2>3, <3>1
    <2>6. QED
      BY <2>4, <2>5
  <1> HIDE DEF Rest
  <1>4. ASSUME EnterModal(c) PROVE Rest
    BY <1>3, <1>4 DEF EnterModal, Refused, Goto, money
  <1>5. ASSUME ModalFails(c) PROVE Rest
    BY <1>3, <1>5 DEF ModalFails, Leave, Goto, money
  <1>6. ASSUME ReadBilling(c) PROVE Rest
    BY <1>3, <1>6 DEF ReadBilling, Leave, Unsent, Goto, money
  <1>7. ASSUME Cancel(c) PROVE Rest
    BY <1>3, <1>7 DEF Cancel, Leave, Unsent, Goto, money
  <1>12. Rest
    BY <1>4, <1>5, <1>6, <1>7, <1>8, <1>9, <1>10, <1>11
  <1>13. QED
    BY <1>1, <1>12 DEF BookedMeanwhile, Rest

\* The finite provider's own steps.
LEMMA ModalKeeps ==
  ASSUME NEW c \in Call, IInv, EnterModal(c) \/ ModalSettles(c) \/ ModalFails(c)
  PROVE  IInv'
  <1>5. BookedMeanwhile'
    BY MeanwhileKept
  <1> USE PaidAssumption
  <1> USE DEF IInv, EnterModal, ModalSettles, ModalFails, Refused, Costs, Leave, Goto, Is,
              money, states
  <1>1. TypeOK'
    BY DEF TypeOK, Pc, Request, Entry
  <1>2. LockHeldInside'
    BY DEF LockHeldInside, Inside, TypeOK
  <1>3. BookedAfter'
    BY DEF BookedAfter, HasCapacity, TypeOK, LockHeldInside, Inside
  <1>4. BookedBefore'
    BY DEF BookedBefore, HasCapacity, TypeOK, LockHeldInside, Entry, Inside
  <1>6. SentIsRemembered'
    <2>1. /\ sent' = sent /\ provider' = provider /\ session' = session
          /\ attempted' = attempted /\ sent \subseteq Nat \X Call \X Request
      BY DEF TypeOK
    <2>2. \A r \in Request : onFile[r] > 0 => onFile'[r] > 0
      <3>1. CASE ModalSettles(c)
        BY <3>1 DEF TypeOK, Entry
      <3>2. CASE EnterModal(c) \/ ModalFails(c)
        BY <3>2
      <3>3. QED
        BY <3>1, <3>2
    <2>3. \A x \in sent : x[3] \in Request
      BY <2>1
    <2>4. QED
      BY <2>1, <2>2, <2>3 DEF SentIsRemembered
  <1>7. ScenePaidOnce'
    BY DEF ScenePaidOnce, SentIsRemembered, TypeOK, HasCapacity, BookedBefore
  <1>8. QED
    BY <1>1, <1>2, <1>3, <1>4, <1>5, <1>6, <1>7

\* Before the request: the ledger's thread, cancellations.
LEMMA SharedKeeps ==
  ASSUME NEW c \in Call, IInv, Begin(c) \/ ReadBilling(c) \/ Authorized(c) \/ Unauthorized(c) \/ Cancel(c)
  PROVE  IInv'
  <1>5. BookedMeanwhile'
    BY MeanwhileKept
  <1> USE PaidAssumption
  <1> USE DEF IInv, Begin, ReadBilling, Authorized, Unauthorized, Cancel, EntryOf, SendKlein,
              Send, Price, Counts, Leave, Unsent, Goto, Is, money, states
  <1>1. TypeOK'
    <2>1. CASE Authorized(c)
      <3>0. wants[c] \in Request /\ pc \in [Call -> Pc]
        BY DEF TypeOK
      <3>1. /\ pc' \in [Call -> Pc]
            /\ wants' = wants /\ provider' = provider /\ owner' = owner
            /\ session' = session /\ warm' = warm /\ stopped' = stopped
        BY <2>1, <3>0 DEF Pc
      <3>6. working' \subseteq Call /\ authorized' \in BOOLEAN
        BY <2>1 DEF TypeOK
      <3>7. attempted' \subseteq Request
        BY <2>1, <3>0 DEF TypeOK
      <3>2. onFile' \in [Entry -> Nat]
        BY <2>1 DEF TypeOK, Entry
      <3>3. /\ booked' \in Int /\ charged' \in Int /\ escaped' \in Nat
            /\ sent' \subseteq Nat \X Call \X Request
        BY <2>1 DEF TypeOK
      <3>4. billed' \in [Request -> Int]
        BY <2>1 DEF TypeOK
      <3>5. QED
        BY <3>1, <3>2, <3>3, <3>4, <3>6, <3>7 DEF TypeOK
    <2>2. CASE Begin(c)
      BY <2>2 DEF TypeOK, Pc
    <2>3. CASE ReadBilling(c) \/ Unauthorized(c) \/ Cancel(c)
      BY <2>3 DEF TypeOK, Pc
    <2>4. QED
      BY <2>1, <2>2, <2>3
  <1>2. LockHeldInside'
    BY DEF LockHeldInside, Inside, TypeOK
  <1>3. BookedAfter'
    BY DEF BookedAfter, HasCapacity, TypeOK, LockHeldInside, Inside
  <1>4. BookedBefore'
    BY DEF BookedBefore, HasCapacity, TypeOK, LockHeldInside, Entry, Inside
  <1>6. SentIsRemembered'
    <2>1. CASE Authorized(c)
      <3>1. /\ sent' \subseteq sent \cup {<<session, c, wants[c]>>}
            /\ provider' = provider /\ session' = session /\ attempted \subseteq attempted'
        BY <2>1
      <3>2. sent' # sent => /\ Is("modal") => onFile'[wants[c]] > 0
                            /\ Is("klein") => wants[c] \in attempted'
                            /\ provider \in {"modal", "klein"}
        BY <2>1 DEF TypeOK, Entry
      <3>3. \A r \in Request : onFile[r] > 0 => onFile'[r] > 0
        BY <2>1 DEF TypeOK, Entry
      <3>4. QED
        BY <3>1, <3>2, <3>3 DEF SentIsRemembered, TypeOK
    <2>2. CASE ~Authorized(c)
      BY <2>2 DEF SentIsRemembered, TypeOK
    <2>3. QED
      BY <2>1, <2>2
  <1>7. ScenePaidOnce'
    BY DEF ScenePaidOnce, SentIsRemembered, TypeOK, HasCapacity, BookedBefore
  <1>8. QED
    BY <1>1, <1>2, <1>3, <1>4, <1>5, <1>6, <1>7

\* Time, closing, and another process.
LEMMA OthersKeep ==
  ASSUME IInv, Expire \/ Close \/ Restart \/ UNCHANGED vars
  PROVE  IInv'
  <1> USE PaidAssumption
  <1> USE DEF IInv, Expire, Close, Restart, vars, Is, money, states
  <1>1. TypeOK'
    <2>1. CASE Restart
      <3>1. pc' \in [Call -> Pc]
        BY <2>1 DEF TypeOK, Pc
      <3>2. onFile' \in [Entry -> Nat]
        BY <2>1 DEF TypeOK, Entry
      <3>3. session' \in Nat /\ booked' \in Int /\ charged' \in Int /\ escaped' \in Nat
        BY <2>1 DEF TypeOK
      <3>4. QED
        BY <2>1, <3>1, <3>2, <3>3 DEF TypeOK
    <2>2. CASE ~Restart
      BY <2>2 DEF TypeOK
    <2>3. QED
      BY <2>1, <2>2
  <1>2. LockHeldInside'
    BY DEF LockHeldInside, Inside, TypeOK
  <1>3. BookedAfter'
    BY DEF BookedAfter, HasCapacity, TypeOK, LockHeldInside, Inside
  <1>4. BookedBefore'
    BY DEF BookedBefore, HasCapacity, TypeOK, LockHeldInside, Entry, Inside
  <1>5. BookedMeanwhile'
    <2>1. CASE Restart
      <3>1. Unposted' = {}
        BY <2>1 DEF Unposted
      <3>2. Ceiling * Cardinality(Unposted') = 0
        BY <3>1, FS_EmptySet
      <3>3. \A e \in Call : pc'[e] # "posting"
        BY <2>1
      <3>4. \A r \in Request : onFile'[r] = onFile[r] /\ billed'[r] = billed[r]
        BY <2>1 DEF TypeOK, Entry, Request, Session, Warmup
      <3>5. booked' = 0 /\ charged' = 0 /\ provider' = provider
        BY <2>1
      <3>6. QED
        BY <3>2, <3>3, <3>4, <3>5 DEF BookedMeanwhile
    <2>2. CASE ~Restart
      <3>1. Unposted' = Unposted
        BY <2>2 DEF Unposted
      <3>2. QED
        BY <2>2, <3>1 DEF BookedMeanwhile
    <2>3. QED
      BY <2>1, <2>2
  <1>6. SentIsRemembered'
    <2>1. /\ sent' = sent /\ provider' = provider
          /\ \A x \in sent : x[1] \in Nat /\ x[3] \in Request
      BY DEF TypeOK
    <2>2. \A r \in Request : onFile'[r] = onFile[r]
      BY DEF TypeOK, Entry, Request, Session, Warmup
    <2>3. session \in Nat /\ (\/ session' = session /\ attempted' = attempted
                              \/ session' = session + 1)
      BY DEF TypeOK
    <2>4. QED
      BY <2>1, <2>2, <2>3 DEF SentIsRemembered
  <1>7. ScenePaidOnce'
    BY DEF ScenePaidOnce, SentIsRemembered, TypeOK, HasCapacity, BookedBefore
  <1>8. QED
    BY <1>1, <1>2, <1>3, <1>4, <1>5, <1>6, <1>7

-----------------------------------------------------------------------------
\* The session starts with nothing booked, written or sent.
LEMMA InitIInv == Init => IInv
  <1> SUFFICES ASSUME Init PROVE IInv
    OBVIOUS
  <1> USE PaidAssumption DEF Init, Is
  <1>1. TypeOK
    <2>1. pc \in [Call -> Pc] /\ wants \in [Call -> Request]
      BY DEF Pc, Request
    <2>2. onFile \in [Entry -> Nat] /\ billed \in [Request -> Int]
      OBVIOUS
    <2>3. provider \in {"modal", "cloud_run", "vertex", "klein", "prepared"}
      OBVIOUS
    <2>4. session \in Nat /\ booked \in Int /\ charged \in Int /\ escaped \in Nat
      OBVIOUS
    <2>5. QED
      BY <2>1, <2>2, <2>3, <2>4 DEF TypeOK
  <1>2. LockHeldInside /\ BookedAfter /\ BookedBefore
    BY DEF LockHeldInside, BookedAfter, BookedBefore, Inside, Entry
  <1>3. BookedMeanwhile
    <2>1. Unposted = {}
      BY DEF Unposted
    <2>2. Ceiling * Cardinality(Unposted) = 0
      BY <2>1, FS_EmptySet
    <2>3. QED
      BY <2>2 DEF BookedMeanwhile, Entry
  <1>4. SentIsRemembered /\ ScenePaidOnce
    BY DEF SentIsRemembered, ScenePaidOnce
  <1>5. QED
    BY <1>1, <1>2, <1>3, <1>4 DEF IInv

\* Every step keeps the invariant.
LEMMA NextKeepsIInv == IInv /\ [Next]_vars => IInv'
  BY BookedAfterKeeps, KleinKeeps, PreparedKeeps, ModalKeeps, SharedKeeps, OthersKeep
     DEF Next

\* The inductive invariant of the paid providers.
THEOREM Inductive == Spec => []IInv
  BY InitIInv, NextKeepsIInv, PTL DEF Spec

\* What may have been billed is covered, whoever was cancelled or died: by the
\* cap but for the requests that are known to escape it, and by the ledger.
THEOREM BillsAreCovered == Spec => []BilledIsCovered
  <1>1. IInv => BilledIsCovered
    <2> SUFFICES ASSUME IInv PROVE BilledIsCovered
      OBVIOUS
    <2> USE PaidAssumption
    <2>1. CASE provider \in {"vertex", "cloud_run"}
      BY <2>1 DEF IInv, TypeOK, BookedAfter, HasCapacity, BilledIsCovered, Is
    <2>2. CASE provider \in {"klein", "prepared"}
      BY <2>2 DEF IInv, TypeOK, BookedBefore, BilledIsCovered, Is, Entry
    <2>3. CASE provider = "modal"
      <3>1. Cardinality(Unposted) \in Nat
        BY UnpostedCounted DEF Unposted
      <3>2. Ceiling * Cardinality(Unposted) >= 0
        BY <3>1
      <3>3. charged <= Cap
        BY <2>3, <3>1, <3>2, Multiples DEF IInv, TypeOK, BookedMeanwhile, Is
      <3>4. QED
        BY <2>3, <3>3 DEF IInv, TypeOK, BookedMeanwhile, BilledIsCovered, Is
    <2>4. QED
      BY <2>1, <2>2, <2>3 DEF IInv, TypeOK
  <1>2. QED
    BY <1>1, Inductive, PTL

\* No request is paid for twice where the provider means to prevent it: in any
\* process, or in the life of a Klein session.
THEOREM PaidOnce == Spec => []ScenePaidOnce
  <1>1. IInv => ScenePaidOnce
    BY DEF IInv
  <1>2. QED
    BY <1>1, Inductive, PTL
=============================================================================
