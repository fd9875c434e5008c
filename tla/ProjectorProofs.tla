-------------------------- MODULE ProjectorProofs --------------------------
(***************************************************************************)
(* For any queue size, any number of jobs, revisions, restarts, broken     *)
(* connections and failed renders: what the projector reports as activated *)
(* is on the wall, and the wall never goes back.  The argument: the server *)
(* hands revisions out in order, so that among all scenes known anywhere   *)
(* the later ones of a job have media at least as good; the projector      *)
(* accepts in that order and nothing of an earlier process; the wall never *)
(* shows more than was accepted; and only the last render of the chain is  *)
(* current, so what it commits is what it has put on the wall.             *)
(***************************************************************************)
EXTENDS Projector, TLAPS

-----------------------------------------------------------------------------
(* Sequences of items that carry a scene.                                  *)

LEMMA Tails ==
  ASSUME NEW T, NEW q \in Seq(T), q # <<>>
  PROVE  /\ Tail(q) \in Seq(T) /\ Head(q) = q[1] /\ q[1] \in T
         /\ 1 \in DOMAIN q /\ Len(Tail(q)) = Len(q) - 1
         /\ \A i \in DOMAIN Tail(q) : Tail(q)[i] = q[i + 1] /\ i + 1 \in DOMAIN q
         /\ ScenesIn(Tail(q)) \subseteq ScenesIn(q) /\ q[1].scene \in ScenesIn(q)
  <1>1. /\ Tail(q) \in Seq(T) /\ Head(q) = q[1] /\ q[1] \in T
        /\ 1 \in DOMAIN q /\ Len(Tail(q)) = Len(q) - 1
    OBVIOUS
  <1>2. \A i \in DOMAIN Tail(q) : Tail(q)[i] = q[i + 1] /\ i + 1 \in DOMAIN q
    OBVIOUS
  <1>3. QED
    BY <1>1, <1>2 DEF ScenesIn

LEMMA Appends ==
  ASSUME NEW T, NEW q \in Seq(T), NEW e \in T
  PROVE  /\ Append(q, e) \in Seq(T) /\ Len(Append(q, e)) = Len(q) + 1
         /\ \A i \in DOMAIN Append(q, e) :
              IF i = Len(q) + 1 THEN Append(q, e)[i] = e
                                ELSE i \in DOMAIN q /\ Append(q, e)[i] = q[i]
         /\ ScenesIn(Append(q, e)) \subseteq ScenesIn(q) \cup {e.scene}
  <1>1. Append(q, e) \in Seq(T) /\ Len(Append(q, e)) = Len(q) + 1
    OBVIOUS
  <1>2. \A i \in DOMAIN Append(q, e) :
          IF i = Len(q) + 1 THEN Append(q, e)[i] = e
                            ELSE i \in DOMAIN q /\ Append(q, e)[i] = q[i]
    OBVIOUS
  <1>3. QED
    BY <1>1, <1>2 DEF ScenesIn

\* A full queue gives up its oldest event: nothing else is added to it.
LEMMA OfferedItems ==
  ASSUME NEW q \in Seq(Pointers), NEW e \in Pointers
  PROVE  /\ Offered(q, e) \in Seq(Pointers)
         /\ ScenesIn(Offered(q, e)) \subseteq ScenesIn(q) \cup {e.scene}
         /\ \A i \in DOMAIN Offered(q, e) :
              Offered(q, e)[i] = e \/ \E k \in DOMAIN q : Offered(q, e)[i] = q[k]
  <1>1. CASE Len(q) = QueueSize
    <2>1. q # <<>>
      BY <1>1, ProjectorAssumption
    <2>2. Tail(q) \in Seq(Pointers) /\ ScenesIn(Tail(q)) \subseteq ScenesIn(q)
            /\ \A i \in DOMAIN Tail(q) : Tail(q)[i] = q[i + 1] /\ i + 1 \in DOMAIN q
      BY <2>1, Tails
    <2> DEFINE t == Tail(q)
    <2>3. t \in Seq(Pointers) /\ Offered(q, e) = Append(t, e)
      BY <1>1, <2>2 DEF Offered
    <2>4. \A i \in DOMAIN t : \E k \in DOMAIN q : t[i] = q[k]
      BY <2>2
    <2>5. ScenesIn(t) \subseteq ScenesIn(q)
      BY <2>2
    <2> HIDE DEF t
    <2>6. QED
      BY <2>3, <2>4, <2>5, Appends
  <1>2. CASE Len(q) # QueueSize
    BY <1>2, Appends DEF Offered
  <1>3. QED
    BY <1>1, <1>2

LEMMA SceneTyped ==
  ASSUME TypeOK
  PROVE  /\ Scene \in Scenes /\ Pointer \in Pointers /\ Status \in Pointers
         /\ Pointer.scene = Scene /\ Status.scene = Scene
         /\ Scene.instance = server.instance /\ Scene.session = server.session
         /\ Scene.revision = server.revision /\ Scene.media = server.media
  <1>1. server \in Servers
    BY DEF TypeOK
  <1>2. /\ Scene.instance = server.instance /\ Scene.session = server.session
        /\ Scene.revision = server.revision /\ Scene.media = server.media
        /\ Scene \in Scenes
    BY <1>1 DEF Scene, Scenes, Servers
  <1>3. Pointer.scene = Scene /\ Pointer \in Pointers
    BY <1>1, <1>2 DEF Pointer, Pointers, Servers
  <1>4. Status.scene = Scene /\ Status \in Pointers
    BY <1>2 DEF Status, Pointers
  <1>5. QED
    BY <1>2, <1>3, <1>4

\* Whatever is known is a scene.
LEMMA KnownTyped ==
  ASSUME TypeOK
  PROVE  Known \subseteq Scenes
  <1>1. ScenesIn(chain) \subseteq Scenes
    <2>1. \A i \in DOMAIN chain : chain[i] \in Renders
      BY DEF TypeOK
    <2>2. QED
      BY <2>1 DEF ScenesIn, Renders
  <1>2. ScenesIn(queue) \subseteq Scenes
    <2>1. \A i \in DOMAIN queue : queue[i] \in Pointers
      BY DEF TypeOK
    <2>2. QED
      BY <2>1 DEF ScenesIn, Pointers
  <1>3. Waiting \subseteq Scenes
    BY DEF TypeOK, Waiting, Pointers
  <1>4. QED
    BY <1>1, <1>2, <1>3, SceneTyped DEF TypeOK, Known

-----------------------------------------------------------------------------
(* What the steps of the server do.                                        *)

\* Nothing is known that was not known before.
LEMMA ScenesStay ==
  ASSUME ScenesFit, server' = server, Known' \subseteq Known
  PROVE  ScenesFit'
  BY DEF ScenesFit, Issued, Agree, SameJob

\* One scene is new, and it fits in.
LEMMA ScenesGrow ==
  ASSUME ScenesFit, Known' \subseteq Known \cup {Scene'}, Scene' \in Scenes,
         \A scene \in Known \cup {Scene'} : Issued(scene)',
         \A scene \in Known : Agree(scene, Scene') /\ Agree(Scene', scene)
  PROVE  ScenesFit'
  <1>1. Agree(Scene', Scene')
    BY DEF Agree, Scenes
  <1>2. QED
    BY <1>1 DEF ScenesFit

\* How an eviction and a plan change the server.
LEMMA EvictionChanges ==
  ASSUME NEW v \in Servers, NEW w,
         w = [v EXCEPT !.session = 0, !.revision = 0, !.media = 0]
  PROVE  /\ w.instance = v.instance /\ w.session = 0
         /\ w.issued = v.issued /\ w.revision = 0 /\ w.media = 0
         /\ w \in Servers
  <1>1. /\ w.instance = v.instance /\ w.issued = v.issued
        /\ w.session \in Nat /\ w.revision \in Nat /\ w.media \in Nat
    BY DEF Servers
  <1>2. w.planner \in BOOLEAN
    BY DEF Servers
  <1>3. w = [instance |-> w.instance, session |-> w.session, revision |-> w.revision,
             media |-> w.media, planner |-> w.planner, issued |-> w.issued]
    BY DEF Servers
  <1>4. w \in Servers
    BY <1>1, <1>2, <1>3 DEF Servers
  <1>5. QED
    BY <1>4 DEF Servers

LEMMA PlanChanges ==
  ASSUME NEW v \in Servers, NEW w, w = [v EXCEPT !.planner = ~@]
  PROVE  /\ w.instance = v.instance /\ w.session = v.session
         /\ w.issued = v.issued /\ w.revision = v.revision /\ w.media = v.media
         /\ w \in Servers
  <1>1. /\ w.instance = v.instance /\ w.issued = v.issued
        /\ w.session \in Nat /\ w.revision \in Nat /\ w.media \in Nat
    BY DEF Servers
  <1>2. w.planner \in BOOLEAN
    BY DEF Servers
  <1>3. w = [instance |-> w.instance, session |-> w.session, revision |-> w.revision,
             media |-> w.media, planner |-> w.planner, issued |-> w.issued]
    BY DEF Servers
  <1>4. w \in Servers
    BY <1>1, <1>2, <1>3 DEF Servers
  <1>5. QED
    BY <1>4 DEF Servers

\* A step of the server that hands out one scene and publishes it.
LEMMA ServerStepKeepsIInv ==
  ASSUME IInv, ServerStep,
         server' \in Servers,
         server'.instance = server.instance,
         \A scene \in Known \cup {Scene'} : Issued(scene)',
         \A scene \in Known : Agree(scene, Scene') /\ Agree(Scene', scene)
  PROVE  IInv'
  <1> USE DEF IInv
  <1>1. UNCHANGED <<stream, poll, client, chain, screen>>
    BY DEF ServerStep, transport
  <1>2. /\ Scene' \in Scenes /\ Pointer' \in Pointers /\ Pointer'.scene = Scene'
        /\ Scene'.instance = server'.instance
    <2>1. Scene' \in Scenes /\ Scene'.instance = server'.instance
      BY DEF Scene, Scenes, Servers
    <2>2. Pointer' \in Pointers /\ Pointer'.scene = Scene'
      BY <2>1 DEF Pointer, Pointers, Servers
    <2>3. QED
      BY <2>1, <2>2
  <1>3. /\ queue' \in Seq(Pointers) /\ ScenesIn(queue') \subseteq ScenesIn(queue) \cup {Scene'}
        /\ stream # "open" => queue' = <<>>
        /\ \A i \in DOMAIN queue' : queue'[i].scene.instance = server'.instance
    <2>1. CASE stream = "open"
      <3>1. queue' = Offered(queue, Pointer') /\ queue \in Seq(Pointers)
        BY <2>1 DEF ServerStep, Published, TypeOK
      <3> DEFINE e == Pointer'
      <3>2. e \in Pointers /\ e.scene = Scene' /\ e.scene.instance = server'.instance
        BY <1>2
      <3>3. queue' = Offered(queue, e)
        BY <3>1
      <3>4. /\ queue' \in Seq(Pointers) /\ ScenesIn(queue') \subseteq ScenesIn(queue) \cup {e.scene}
            /\ \A i \in DOMAIN queue' : queue'[i] = e \/ \E k \in DOMAIN queue : queue'[i] = queue[k]
        BY <3>1, <3>2, <3>3, OfferedItems
      <3> HIDE DEF e
      <3>5. QED
        BY <2>1, <3>2, <3>4 DEF TransportFits
    <2>2. CASE stream # "open"
      BY <2>2 DEF ServerStep, Published, TypeOK, TransportFits
    <2>3. QED
      BY <2>1, <2>2
  <1>4. TypeOK'
    BY <1>1, <1>3 DEF TypeOK
  <1>5. ScenesFit'
    <2>1. Known' \subseteq Known \cup {Scene'}
      BY <1>1, <1>3 DEF Known, Waiting, ScenesIn
    <2>2. QED
      BY <1>2, <2>1, ScenesGrow
  <1>6. TransportFits'
    BY <1>1, <1>3 DEF TransportFits
  <1>7. ClientFits' /\ CommittedFits' /\ ActivatedIsShown' /\ ChainFits'
    BY <1>1 DEF ClientFits, SameJob, CommittedFits, ActivatedIsShown, ChainFits, TokenIsCurrent,
                Accepted, Names
  <1>8. QED
    BY <1>4, <1>5, <1>6, <1>7

LEMMA NewJobKeepsIInv ==
  ASSUME IInv, NEW media \in {0, 1}, NewJob(media)
  PROVE  IInv'
  <1>1. server' = [server EXCEPT !.session = server.issued + 1, !.issued = @ + 1,
                                 !.revision = 0, !.media = media]
    BY DEF NewJob
  <1>2. /\ server' \in Servers
        /\ server'.instance = server.instance /\ server'.session = server.issued + 1
        /\ server'.issued = server.issued + 1 /\ server'.revision = 0
    <2>1. server \in Servers /\ media \in Nat
      BY DEF IInv, TypeOK
    <2> DEFINE w == server'
    <2>2. w = [server EXCEPT !.session = server.issued + 1, !.issued = @ + 1,
                             !.revision = 0, !.media = media]
      BY <1>1
    <2> HIDE DEF w
    <2>3. /\ w.instance = server.instance /\ w.session = server.issued + 1
          /\ w.issued = server.issued + 1 /\ w.revision = 0 /\ w \in Servers
      <3>1. /\ w.instance = server.instance /\ w.issued \in Nat
           /\ w.session \in Nat /\ w.revision \in Nat /\ w.media \in Nat
        BY <2>1, <2>2 DEF Servers
      <3>2. w.planner \in BOOLEAN
        BY <2>1, <2>2 DEF Servers
      <3>3. w = [instance |-> w.instance, session |-> w.session, revision |-> w.revision,
                media |-> w.media, planner |-> w.planner, issued |-> w.issued]
        BY <2>1, <2>2 DEF Servers
      <3>4. w \in Servers
        BY <2>1, <2>2, <3>1, <3>2, <3>3 DEF Servers
      <3>5. QED
        BY <2>1, <2>2, <3>4 DEF Servers
    <2>4. QED
      BY <2>3 DEF w
  <1>3. /\ Scene' \in Scenes /\ Scene'.instance = server.instance
        /\ Scene'.session = server.issued + 1 /\ Scene'.revision = 0
    BY <1>2 DEF Scene, Scenes, Servers
  <1>4. \A scene \in Known : Issued(scene) /\ scene \in Scenes
    BY KnownTyped DEF IInv, ScenesFit
  <1>5. server \in Servers
    BY DEF IInv, TypeOK
  <1>6. \A scene \in Known : Issued(scene)' /\ ~SameJob(scene, Scene')
    BY <1>2, <1>3, <1>4, <1>5 DEF Issued, SameJob, Scenes, Servers
  <1>7. \A scene \in {Scene'} : Issued(scene)'
    BY <1>2, <1>3, <1>5 DEF Issued, SameJob, Servers
  <1>8. \A scene \in Known : Agree(scene, Scene') /\ Agree(Scene', scene)
    BY <1>6 DEF Agree, SameJob
  <1>9. QED
    BY <1>2, <1>6, <1>7, <1>8, ServerStepKeepsIInv DEF NewJob

LEMMA NewRevisionKeepsIInv ==
  ASSUME IInv, NEW media \in {server.media, server.media + 1}, NewRevision(media)
  PROVE  IInv'
  <1>1. server' = [server EXCEPT !.revision = @ + 1, !.media = media] /\ server.session # 0
    BY DEF NewRevision
  <1>2. server \in Servers
    BY DEF IInv, TypeOK
  <1>3. media \in Nat /\ media >= server.media
    BY <1>2 DEF Servers
  <1>4. /\ server' \in Servers
        /\ server'.instance = server.instance /\ server'.session = server.session
        /\ server'.issued = server.issued /\ server'.revision = server.revision + 1
        /\ server'.media = media
    <2> DEFINE w == server'
    <2>1. w = [server EXCEPT !.revision = @ + 1, !.media = media]
      BY <1>1
    <2> HIDE DEF w
    <2>2. /\ w \in Servers
          /\ w.instance = server.instance /\ w.session = server.session
          /\ w.issued = server.issued /\ w.revision = server.revision + 1
          /\ w.media = media
      <3>1. /\ w.instance = server.instance /\ w.issued \in Nat
           /\ w.session \in Nat /\ w.revision \in Nat /\ w.media \in Nat
        BY <1>2, <1>3, <2>1 DEF Servers
      <3>2. w.planner \in BOOLEAN
        BY <1>2, <1>3, <2>1 DEF Servers
      <3>3. w = [instance |-> w.instance, session |-> w.session, revision |-> w.revision,
                media |-> w.media, planner |-> w.planner, issued |-> w.issued]
        BY <1>2, <1>3, <2>1 DEF Servers
      <3>4. w \in Servers
        BY <1>2, <1>3, <2>1, <3>1, <3>2, <3>3 DEF Servers
      <3>5. QED
        BY <1>2, <1>3, <2>1, <3>4 DEF Servers
    <2>3. QED
      BY <2>2 DEF w
  <1>5. /\ Scene' \in Scenes /\ Scene'.instance = server.instance
        /\ Scene'.session = server.session /\ Scene'.revision = server.revision + 1
        /\ Scene'.media = media
    BY <1>4 DEF Scene, Scenes, Servers
  <1>6. \A scene \in Known : Issued(scene) /\ scene \in Scenes /\ Agree(scene, Scene)
    BY KnownTyped DEF IInv, ScenesFit, Known
  <1>7. \A scene \in Known : Issued(scene)'
    BY <1>2, <1>4, <1>6 DEF Issued, SameJob, Scenes, Servers
  <1>8. \A scene \in {Scene'} : Issued(scene)'
    <2>1. Issued(Scene) /\ Scene.session = server.session /\ Scene.instance = server.instance
      BY <1>6, SceneTyped DEF Known, IInv
    <2>2. QED
      BY <1>1, <1>2, <1>4, <1>5, <2>1 DEF Issued, SameJob, Servers
  <1>9. \A scene \in Known : Agree(scene, Scene') /\ Agree(Scene', scene)
    <2> SUFFICES ASSUME NEW scene \in Known PROVE Agree(scene, Scene') /\ Agree(Scene', scene)
      OBVIOUS
    <2>1. Scene.session = server.session /\ Scene.instance = server.instance
            /\ Scene.revision = server.revision /\ Scene.media = server.media
      BY SceneTyped DEF IInv
    <2>2. SameJob(scene, Scene') =>
            SameJob(scene, Scene) /\ scene.revision <= server.revision
              /\ scene.media <= server.media
      BY <1>5, <1>6, <2>1 DEF Issued, SameJob, Agree
    <2>3. scene.revision \in Nat /\ scene.media \in Nat
      BY <1>6 DEF Scenes
    <2>4. Agree(scene, Scene')
      BY <1>2, <1>3, <1>5, <2>2, <2>3 DEF Agree, Servers
    <2>5. Agree(Scene', scene)
      BY <1>2, <1>5, <2>2, <2>3 DEF Agree, SameJob, Servers
    <2>6. QED
      BY <2>4, <2>5
  <1>10. QED
    BY <1>4, <1>7, <1>8, <1>9, ServerStepKeepsIInv DEF NewRevision

LEMMA EvictedKeepsIInv ==
  ASSUME IInv, Evicted
  PROVE  IInv'
  <1>1. server \in Servers
    BY DEF IInv, TypeOK
  <1>2. /\ server' \in Servers
        /\ server'.instance = server.instance /\ server'.session = 0
        /\ server'.issued = server.issued /\ server'.revision = 0 /\ server'.media = 0
    <2> DEFINE w == server'
    <2>1. w = [server EXCEPT !.session = 0, !.revision = 0, !.media = 0]
      BY DEF Evicted
    <2> HIDE DEF w
    <2>2. /\ w \in Servers
          /\ w.instance = server.instance /\ w.session = 0
          /\ w.issued = server.issued /\ w.revision = 0 /\ w.media = 0
      BY <1>1, <2>1, EvictionChanges
    <2>3. QED
      BY <2>2 DEF w
  <1>3. /\ Scene' \in Scenes /\ Scene'.instance = server.instance
        /\ Scene'.session = 0 /\ Scene'.revision = 0 /\ Scene'.media = 0
    BY <1>2 DEF Scene, Scenes, Servers
  <1>4. \A scene \in Known : Issued(scene) /\ scene \in Scenes
    BY KnownTyped DEF IInv, ScenesFit
  <1>5. \A scene \in Known : Issued(scene)'
    BY <1>1, <1>2, <1>4 DEF Issued, SameJob, Scenes, Servers
  <1>6. \A scene \in {Scene'} : Issued(scene)'
    BY <1>1, <1>2, <1>3 DEF Issued, SameJob, Servers
  <1>7. \A scene \in Known : Agree(scene, Scene') /\ Agree(Scene', scene)
    BY <1>3, <1>4 DEF Agree, SameJob, Issued, Scenes
  <1>8. QED
    BY <1>2, <1>5, <1>6, <1>7, ServerStepKeepsIInv DEF Evicted

LEMMA PlannerTurnsKeepsIInv ==
  ASSUME IInv, PlannerTurns
  PROVE  IInv'
  <1>1. server \in Servers
    BY DEF IInv, TypeOK
  <1>2. /\ server' \in Servers
        /\ server'.instance = server.instance /\ server'.session = server.session
        /\ server'.issued = server.issued /\ server'.revision = server.revision
        /\ server'.media = server.media
    <2> DEFINE w == server'
    <2>1. w = [server EXCEPT !.planner = ~@]
      BY DEF PlannerTurns
    <2> HIDE DEF w
    <2>2. /\ w \in Servers
          /\ w.instance = server.instance /\ w.session = server.session
          /\ w.issued = server.issued /\ w.revision = server.revision
          /\ w.media = server.media
      BY <1>1, <2>1, PlanChanges
    <2>3. QED
      BY <2>2 DEF w
  <1>3. Scene' = Scene
    BY <1>2 DEF Scene
  <1>4. Scene \in Known
    BY DEF Known
  <1>5. \A scene \in Known : Issued(scene)'
    BY <1>2 DEF IInv, ScenesFit, Issued, SameJob
  <1>6. \A scene \in Known : Agree(scene, Scene) /\ Agree(Scene, scene)
    BY <1>4 DEF IInv, ScenesFit
  <1>7. QED
    BY <1>2, <1>3, <1>4, <1>5, <1>6, ServerStepKeepsIInv DEF PlannerTurns

\* What the projector has accepted and what is on the wall are left alone.
LEMMA WallStays ==
  ASSUME IInv, UNCHANGED <<client, chain, screen>>
  PROVE  ClientFits' /\ CommittedFits' /\ ActivatedIsShown' /\ ChainFits'
  BY DEF IInv, ClientFits, SameJob, CommittedFits, ActivatedIsShown, ChainFits, TokenIsCurrent,
         Accepted, Names

LEMMA RestartKeepsIInv ==
  ASSUME IInv, Restart
  PROVE  IInv'
  <1>1. TypeOK /\ ScenesFit /\ TransportFits /\ server \in Servers
    BY DEF IInv, TypeOK
  <1>2. /\ server'.instance = server.instance + 1 /\ server'.session = 0
        /\ server'.issued = 0 /\ server'.revision = 0 /\ server'.media = 0
        /\ server' \in Servers
    BY <1>1 DEF Restart, Servers
  <1>3. queue' = <<>> /\ stream' # "open" /\ stream' \in {"unopened", "broken"}
    BY <1>1 DEF Restart, BreakStream, TransportFits, TypeOK
  <1>4. poll'.is = "answered" => poll' = poll
    BY DEF Restart, Broken
  <1>5. /\ Scene' \in Scenes /\ Scene'.instance = server.instance + 1
        /\ Scene'.session = 0 /\ Scene'.revision = 0 /\ Scene'.media = 0
    BY <1>1, <1>2 DEF Scene, Scenes, Servers
  <1>6. \A scene \in Known : Issued(scene) /\ scene \in Scenes
    BY <1>1, KnownTyped DEF ScenesFit
  <1>7. \A scene \in Known : Issued(scene)' /\ ~SameJob(scene, Scene')
    BY <1>1, <1>2, <1>5, <1>6 DEF Issued, SameJob, Scenes, Servers
  <1>8. \A scene \in {Scene'} : Issued(scene)'
    BY <1>1, <1>2, <1>5 DEF Issued, SameJob, Servers
  <1>9. \A scene \in Known : Agree(scene, Scene') /\ Agree(Scene', scene)
    BY <1>7 DEF Agree, SameJob
  <1>10. ScenesFit'
    <2>1. Known' \subseteq Known \cup {Scene'}
      BY <1>3, <1>4 DEF Known, Waiting, ScenesIn, Restart
    <2>2. QED
      BY <1>1, <1>5, <1>7, <1>8, <1>9, <2>1, ScenesGrow
  <1>11. TypeOK'
    <2>1. <<>> \in Seq(Pointers)
      OBVIOUS
    <2>2. QED
      BY <1>1, <1>2, <1>3, <1>4, <2>1 DEF TypeOK, Restart
  <1>12. TransportFits'
    BY <1>1, <1>2, <1>3, <1>4 DEF TransportFits, Restart, TypeOK, Servers, Clients
  <1>13. QED
    BY <1>10, <1>11, <1>12, WallStays DEF IInv, Restart

LEMMA ConnectionLostKeepsIInv ==
  ASSUME IInv, ConnectionLost
  PROVE  IInv'
  <1>1. TypeOK /\ ScenesFit /\ TransportFits
    BY DEF IInv
  <1>2. queue' = <<>> /\ stream' = "broken"
    BY DEF ConnectionLost, BreakStream
  <1>3. UNCHANGED <<server, poll, client, chain, screen>>
    BY DEF ConnectionLost
  <1>4. <<>> \in Seq(Pointers)
    OBVIOUS
  <1>5. TypeOK' /\ TransportFits'
    BY <1>1, <1>2, <1>3, <1>4 DEF TypeOK, TransportFits
  <1>6. Known' \subseteq Known
    BY <1>2, <1>3 DEF Known, Waiting, ScenesIn, Scene
  <1>7. QED
    BY <1>1, <1>3, <1>5, <1>6, ScenesStay, WallStays DEF IInv

LEMMA ConnectKeepsIInv ==
  ASSUME IInv, Connect
  PROVE  IInv'
  <1>1. TypeOK /\ ScenesFit /\ TransportFits
    BY DEF IInv
  <1>2. UNCHANGED <<server, poll, client, chain, screen>>
    BY DEF Connect
  <1>3. Pointer \in Pointers /\ Pointer.scene = Scene /\ Scene.instance = server.instance
    BY <1>1, SceneTyped
  <1>4. /\ queue' \in Seq(Pointers) /\ stream' = "open"
        /\ \A i \in DOMAIN queue' : queue'[i] = Pointer
    <2> DEFINE e == Pointer
    <2>1. e \in Pointers /\ queue' = <<e>> /\ stream' = "open"
      BY <1>3 DEF Connect
    <2> HIDE DEF e
    <2>2. queue' \in Seq(Pointers) /\ \A i \in DOMAIN queue' : queue'[i] = e
      BY <2>1
    <2>3. QED
      BY <2>1, <2>2 DEF e
  <1>5. poll.is = "answered" => poll.pointer.scene.instance = server.instance
    BY DEF Connect
  <1>6. TypeOK'
    BY <1>1, <1>2, <1>4 DEF TypeOK
  <1>7. TransportFits'
    BY <1>1, <1>2, <1>3, <1>4, <1>5 DEF TransportFits
  <1>8. Known' \subseteq Known
    <2>1. ScenesIn(queue') \subseteq {Scene}
      BY <1>3, <1>4 DEF ScenesIn
    <2>2. QED
      BY <1>2, <2>1 DEF Known, Waiting, Scene
  <1>9. QED
    BY <1>1, <1>2, <1>6, <1>7, <1>8, ScenesStay, WallStays DEF IInv

LEMMA ConnectFailsKeepsIInv ==
  ASSUME IInv, ConnectFails
  PROVE  IInv'
  <1>1. TypeOK /\ ScenesFit /\ TransportFits
    BY DEF IInv
  <1>2. UNCHANGED <<server, queue, poll, client, chain, screen>> /\ stream' = "broken"
          /\ stream = "unopened"
    BY DEF ConnectFails, StartedUp
  <1>3. TypeOK' /\ TransportFits'
    BY <1>1, <1>2 DEF TypeOK, TransportFits
  <1>4. Known' \subseteq Known
    BY <1>2 DEF Known, Waiting, Scene
  <1>5. QED
    BY <1>1, <1>2, <1>3, <1>4, ScenesStay, WallStays DEF IInv

\* The timer, and the answer to a poll: nothing is accepted yet.
LEMMA RendezvousKeepsIInv ==
  ASSUME IInv, Rendezvous
  PROVE  IInv'
  <1>1. TypeOK /\ ScenesFit /\ TransportFits
    BY DEF IInv
  <1>2. UNCHANGED <<server, queue, stream, client, chain, screen>>
    BY DEF Rendezvous
  <1>3. poll'.is = "answered" => poll' = poll
    BY DEF Rendezvous, Asked
  <1>4. TypeOK' /\ TransportFits'
    BY <1>1, <1>2, <1>3 DEF TypeOK, TransportFits
  <1>5. Known' \subseteq Known
    BY <1>2, <1>3 DEF Known, Waiting, Scene
  <1>6. QED
    BY <1>1, <1>2, <1>4, <1>5, ScenesStay, WallStays DEF IInv

LEMMA AnswerPollKeepsIInv ==
  ASSUME IInv, AnswerPoll
  PROVE  IInv'
  <1>1. TypeOK /\ ScenesFit /\ TransportFits
    BY DEF IInv
  <1>2. UNCHANGED <<server, queue, stream, client, chain, screen>>
    BY DEF AnswerPoll, transport
  <1>3. poll'.is = "answered" => poll'.pointer = Status
    BY DEF AnswerPoll, Answered, Broken
  <1>4. Status \in Pointers /\ Status.scene = Scene /\ Scene.instance = server.instance
    BY <1>1, SceneTyped
  <1>5. TypeOK' /\ TransportFits'
    BY <1>1, <1>2, <1>3, <1>4 DEF TypeOK, TransportFits
  <1>6. Known' \subseteq Known
    BY <1>2, <1>3, <1>4 DEF Known, Waiting, Scene
  <1>7. QED
    BY <1>1, <1>2, <1>5, <1>6, ScenesStay, WallStays DEF IInv

-----------------------------------------------------------------------------
(* Renders.                                                                *)

\* The parts of IInv that say what a client has accepted look at these fields only.
LEMMA PendingIsApart ==
  ASSUME NEW c \in Clients, NEW w, w = [c EXCEPT !.pending = FALSE]
  PROVE  /\ w.instance = c.instance /\ w.session = c.session /\ w.accepted = c.accepted
         /\ w.acceptedJob = c.acceptedJob /\ w.committed = c.committed
         /\ w.fingerprint = c.fingerprint /\ w \in Clients
  <1>1. /\ w.instance = c.instance /\ w.session = c.session /\ w.accepted = c.accepted
        /\ w.acceptedJob = c.acceptedJob /\ w.committed = c.committed
        /\ w.fingerprint = c.fingerprint
    BY DEF Clients
  <1>2. w.pending \in BOOLEAN /\ w.planner \in BOOLEAN
    BY DEF Clients
  <1>3. w = [instance |-> w.instance, session |-> w.session, accepted |-> w.accepted,
             acceptedJob |-> w.acceptedJob, pending |-> w.pending,
             committed |-> w.committed, fingerprint |-> w.fingerprint,
             planner |-> w.planner]
    BY DEF Clients
  <1>4. w \in Clients
    <2>1. /\ w.instance \in Nat /\ w.session \in Nat /\ w.accepted \in Nat \cup {-1}
          /\ w.acceptedJob \in Nat /\ w.committed \in Nat \cup {-1}
          /\ w.fingerprint \in Nat
      BY <1>1 DEF Clients
    <2>2. QED
      BY <1>2, <1>3, <2>1 DEF Clients
  <1>5. QED
    BY <1>1, <1>4

\* When the first render leaves the chain, none of the others has begun.
LEMMA ChainFinishes ==
  ASSUME IInv, chain # <<>>, Finished
  PROVE  /\ chain' \in Seq(Renders)
         /\ ScenesIn(chain') \subseteq ScenesIn(chain)
         /\ chain[1].current => chain' = <<>>
         /\ \A i \in DOMAIN chain' :
              /\ chain'[i].scene.session # 0 /\ chain'[i].phase = "queued"
              /\ chain'[i].current => i = Len(chain')
              /\ TokenIsCurrent(chain'[i]) => client.committed # client.accepted
  <1>1. chain \in Seq(Renders) /\ ChainFits
    BY DEF IInv, TypeOK
  <1>2. /\ chain' = Tail(chain) /\ chain' \in Seq(Renders) /\ Len(chain') = Len(chain) - 1
        /\ 1 \in DOMAIN chain
        /\ \A i \in DOMAIN chain' : chain'[i] = chain[i + 1] /\ i + 1 \in DOMAIN chain
        /\ ScenesIn(chain') \subseteq ScenesIn(chain)
    BY <1>1, Tails DEF Finished
  <1>3. chain[1].current => chain' = <<>>
    <2>1. chain[1].current => Len(chain') = 0
      BY <1>1, <1>2 DEF ChainFits
    <2>2. QED
      BY <1>2, <2>1
  <1>4. ASSUME NEW i \in DOMAIN chain'
        PROVE  /\ chain'[i].scene.session # 0 /\ chain'[i].phase = "queued"
               /\ chain'[i].current => i = Len(chain')
               /\ TokenIsCurrent(chain'[i]) => client.committed # client.accepted
    <2> DEFINE k == i + 1
    <2>1. k \in DOMAIN chain /\ k # 1 /\ chain'[i] = chain[k] /\ i \in Nat
      BY <1>2
    <2>2. k = Len(chain) => i = Len(chain')
      BY <1>1, <1>2, <2>1
    <2> HIDE DEF k
    <2>3. /\ chain[k].scene.session # 0 /\ chain[k].phase = "queued"
          /\ chain[k].current => k = Len(chain)
          /\ TokenIsCurrent(chain[k]) => client.committed # client.accepted
      BY <1>1, <2>1 DEF ChainFits
    <2>4. QED
      BY <2>1, <2>2, <2>3
  <1>5. QED
    BY <1>2, <1>3, <1>4

\* A render leaves the chain; what was accepted and committed, and the wall, stay.
LEMMA FinishedKeepsIInv ==
  ASSUME IInv, chain # <<>>, Finished,
         client' = client \/ client' = [client EXCEPT !.pending = FALSE],
         UNCHANGED <<server, queue, transport, poll, screen>>
  PROVE  IInv'
  <1>1. /\ client'.instance = client.instance /\ client'.session = client.session
        /\ client'.accepted = client.accepted /\ client'.acceptedJob = client.acceptedJob
        /\ client'.committed = client.committed
        /\ client'.fingerprint = client.fingerprint /\ client' \in Clients
    <2>1. client \in Clients
      BY DEF IInv, TypeOK
    <2>2. CASE client' = client
      BY <2>1, <2>2
    <2>3. CASE client' = [client EXCEPT !.pending = FALSE]
      BY <2>1, <2>3, PendingIsApart, Zenon
    <2>4. QED
      BY <2>2, <2>3
  <1>2. /\ chain' \in Seq(Renders) /\ ScenesIn(chain') \subseteq ScenesIn(chain)
        /\ \A i \in DOMAIN chain' :
             /\ chain'[i].scene.session # 0 /\ chain'[i].phase = "queued"
             /\ chain'[i].current => i = Len(chain')
             /\ TokenIsCurrent(chain'[i]) => client.committed # client.accepted
    BY ChainFinishes
  <1>3. TypeOK' /\ TransportFits'
    BY <1>1, <1>2 DEF IInv, TypeOK, TransportFits, transport
  <1>4. ScenesFit'
    <2>1. Known' \subseteq Known
      BY <1>2 DEF Known, Waiting, ScenesIn, Scene
    <2>2. QED
      BY <2>1, ScenesStay DEF IInv
  <1>5. ClientFits' /\ CommittedFits' /\ ActivatedIsShown'
    BY <1>1 DEF IInv, ClientFits, CommittedFits, ActivatedIsShown, SameJob
  <1>6. ChainFits'
    BY <1>1, <1>2 DEF ChainFits, TokenIsCurrent, Accepted
  <1>7. QED
    BY <1>3, <1>4, <1>5, <1>6 DEF IInv

\* A current token's scene is the accepted one, and nothing on the wall is later.
LEMMA CurrentScene ==
  ASSUME IInv, NEW render, chain # <<>>, render = Head(chain), TokenIsCurrent(render)
  PROVE  /\ render.scene \in Scenes /\ render \in Renders /\ render.scene \in Known
         /\ render = chain[1] /\ render.current /\ render.scene.session # 0
         /\ SameJob(render.scene, client) /\ render.scene.revision = client.accepted
         /\ SameJob(screen, client) =>
              screen.revision <= client.accepted /\ screen.media <= render.scene.media
         /\ Len(chain) = 1
  <1>1. chain \in Seq(Renders) /\ screen \in Scenes /\ client \in Clients
    BY DEF IInv, TypeOK
  <1>2. /\ render = chain[1] /\ render \in Renders /\ 1 \in DOMAIN chain
        /\ render.scene \in ScenesIn(chain)
    BY <1>1, Tails
  <1>3. render.scene \in Scenes /\ render.scene \in Known
    BY <1>2 DEF Renders, Known
  <1>4. render.scene.session # 0 /\ Len(chain) = 1 /\ render.current
    BY <1>2 DEF IInv, ChainFits, TokenIsCurrent
  <1>5. /\ render.scene.instance = client.instance /\ render.scene.session = client.session
        /\ render.scene.revision = client.accepted
    BY <1>1, <1>3 DEF TokenIsCurrent, Names, Accepted
  <1>6. SameJob(screen, client) => screen.revision <= client.accepted
    BY <1>4, <1>5 DEF IInv, ClientFits, SameJob
  <1>7. Agree(screen, render.scene)
    BY <1>3 DEF IInv, ScenesFit, Known
  <1>8. SameJob(screen, client) => screen.media <= render.scene.media
    BY <1>5, <1>6, <1>7 DEF Agree, SameJob
  <1>9. QED
    BY <1>2, <1>3, <1>4, <1>5, <1>6, <1>8 DEF SameJob

\* The first render goes on to its next phase.
LEMMA PhaseTurns ==
  ASSUME NEW q \in Seq(Renders), q # <<>>,
         NEW phase \in Phases
  PROVE  LET r == [q EXCEPT ![1] = [q[1] EXCEPT !.phase = phase]]
         IN /\ r \in Seq(Renders) /\ Len(r) = Len(q) /\ DOMAIN r = DOMAIN q
            /\ ScenesIn(r) \subseteq ScenesIn(q)
            /\ \A i \in DOMAIN r :
                 /\ r[i].scene = q[i].scene /\ r[i].current = q[i].current
                 /\ r[i].phase = IF i = 1 THEN phase ELSE q[i].phase
  <1>1. 1 \in DOMAIN q /\ q[1] \in Renders
    BY Tails
  <1> DEFINE e == [q[1] EXCEPT !.phase = phase]
             r == [q EXCEPT ![1] = e]
  <1>2. e \in Renders /\ e.scene = q[1].scene /\ e.current = q[1].current /\ e.phase = phase
    BY <1>1 DEF Renders, Phases
  <1> HIDE DEF e
  <1>4. r \in Seq(Renders) /\ Len(r) = Len(q) /\ DOMAIN r = DOMAIN q
    BY <1>1, <1>2
  <1>5. \A i \in DOMAIN r : r[i] = IF i = 1 THEN e ELSE q[i]
    BY <1>1, <1>4
  <1> HIDE DEF r
  <1>6. \A i \in DOMAIN r :
              /\ r[i].scene = q[i].scene /\ r[i].current = q[i].current
              /\ r[i].phase = IF i = 1 THEN phase ELSE q[i].phase
    BY <1>2, <1>5
  <1>7. ScenesIn(r) \subseteq ScenesIn(q)
    BY <1>4, <1>6 DEF ScenesIn
  <1>8. QED
    BY <1>4, <1>6, <1>7 DEF r, e

LEMMA BeginRenderKeepsIInv ==
  ASSUME IInv, BeginRender
  PROVE  IInv'
  <1> DEFINE render == Head(chain)
  <1>1. chain # <<>> /\ render.phase = "queued"
          /\ UNCHANGED <<server, queue, transport, poll, screen>>
    BY DEF BeginRender
  <1>2. CASE ~TokenIsCurrent(render)
    BY <1>1, <1>2, FinishedKeepsIInv DEF BeginRender
  <1>3. CASE TokenIsCurrent(render) /\ render.scene.media = 0
    BY <1>1, <1>3, FinishedKeepsIInv DEF BeginRender
  <1>4. CASE /\ TokenIsCurrent(render) /\ render.scene.media # 0
             /\ render.scene.media = client.fingerprint
    <2>1. /\ Finished
          /\ client' = [client EXCEPT !.pending = FALSE, !.committed = render.scene.revision]
      BY <1>4 DEF BeginRender
    <2>2. /\ render.scene \in Scenes /\ render.current /\ render = chain[1]
          /\ SameJob(render.scene, client) /\ render.scene.revision = client.accepted
          /\ SameJob(screen, client) => screen.media <= render.scene.media
      BY <1>1, <1>4, CurrentScene
    <2>3. client \in Clients /\ screen \in Scenes
      BY DEF IInv, TypeOK
    <2> DEFINE revision == render.scene.revision
    <2>4. revision \in Nat
      BY <2>2 DEF Scenes
    <2> HIDE DEF revision, render
    <2>5. client' = [client EXCEPT !.pending = FALSE, !.committed = revision]
      BY <2>1 DEF revision
    <2>6. /\ client'.instance = client.instance /\ client'.session = client.session
          /\ client'.accepted = client.accepted
          /\ client'.acceptedJob = client.acceptedJob
          /\ client'.committed = revision /\ client'.fingerprint = client.fingerprint
      BY <2>3, <2>5 DEF Clients
    <2>7. client' \in Clients
      <3>1. client'.pending \in BOOLEAN /\ client'.planner \in BOOLEAN
        BY <2>3, <2>5 DEF Clients
      <3>2. client' = [instance |-> client'.instance, session |-> client'.session,
                       accepted |-> client'.accepted, acceptedJob |-> client'.acceptedJob,
                       pending |-> client'.pending, committed |-> client'.committed,
                       fingerprint |-> client'.fingerprint, planner |-> client'.planner]
        BY <2>3, <2>5 DEF Clients
      <3>3. /\ client'.instance \in Nat /\ client'.session \in Nat
            /\ client'.accepted \in Nat \cup {-1} /\ client'.acceptedJob \in Nat
            /\ client'.committed \in Nat \cup {-1} /\ client'.fingerprint \in Nat
        BY <2>3, <2>4, <2>6 DEF Clients
      <3>4. QED
        BY <3>1, <3>2, <3>3 DEF Clients
    <2>8. chain' = <<>> /\ chain' \in Seq(Renders) /\ ScenesIn(chain') \subseteq ScenesIn(chain)
      BY <1>1, <2>1, <2>2, ChainFinishes
    <2>9. TypeOK' /\ TransportFits'
      BY <1>1, <2>6, <2>7, <2>8 DEF IInv, TypeOK, TransportFits, transport
    <2>10. ScenesFit'
      <3>1. Known' \subseteq Known
        BY <1>1, <2>8 DEF Known, Waiting, ScenesIn, Scene
      <3>2. QED
        BY <1>1, <3>1, ScenesStay DEF IInv
    <2>11. client.committed # -1
      BY <1>4 DEF IInv, CommittedFits
    <2>12. /\ SameJob(screen, client) /\ screen.media = client.fingerprint
           /\ client.fingerprint # 0
      BY <1>4, <2>2, <2>3, <2>11 DEF IInv, CommittedFits, Scenes, Clients
    <2>13. revision = client.accepted
      BY <2>2 DEF revision
    <2>14. ClientFits'
      BY <1>1, <2>3, <2>6, <2>13 DEF IInv, ClientFits, SameJob, Clients
    <2>15. CommittedFits' /\ ActivatedIsShown'
      BY <1>1, <2>3, <2>4, <2>6, <2>12 DEF CommittedFits, ActivatedIsShown, SameJob, Scenes, Clients
    <2>16. ChainFits'
      BY <2>8 DEF ChainFits
    <2>17. QED
      BY <2>9, <2>10, <2>14, <2>15, <2>16 DEF IInv
  <1>5. CASE /\ TokenIsCurrent(render) /\ render.scene.media # 0
             /\ render.scene.media # client.fingerprint
    <2>1. chain' = [chain EXCEPT ![1].phase = "loading"] /\ UNCHANGED client
      BY <1>5 DEF BeginRender
    <2>2. chain \in Seq(Renders) /\ ChainFits /\ render = chain[1]
      BY <1>1, Tails DEF IInv, TypeOK
    <2>3. /\ chain' \in Seq(Renders) /\ Len(chain') = Len(chain) /\ DOMAIN chain' = DOMAIN chain
          /\ ScenesIn(chain') \subseteq ScenesIn(chain)
          /\ \A i \in DOMAIN chain' :
               /\ chain'[i].scene = chain[i].scene /\ chain'[i].current = chain[i].current
               /\ chain'[i].phase = IF i = 1 THEN "loading" ELSE chain[i].phase
      <3>1. "loading" \in Phases
        BY DEF Phases
      <3>2. chain' = [chain EXCEPT ![1] = [chain[1] EXCEPT !.phase = "loading"]]
        BY <2>1
      <3>3. chain \in Seq(Renders) /\ chain # <<>>
        BY <1>1, <2>2
      <3>4. QED
        BY <3>1, <3>2, <3>3, PhaseTurns, Zenon
    <2>4. TypeOK' /\ TransportFits'
      BY <1>1, <2>1, <2>3 DEF IInv, TypeOK, TransportFits, transport
    <2>5. ScenesFit'
      <3>1. Known' \subseteq Known
        BY <1>1, <2>3 DEF Known, Waiting, ScenesIn, Scene
      <3>2. QED
        BY <1>1, <3>1, ScenesStay DEF IInv
    <2>6. ClientFits' /\ CommittedFits' /\ ActivatedIsShown'
      BY <1>1, <2>1 DEF IInv, ClientFits, CommittedFits, ActivatedIsShown, SameJob
    <2>7. ChainFits'
      <3> SUFFICES ASSUME NEW i \in DOMAIN chain'
                   PROVE (/\ chain[i].scene.session # 0
                          /\ i # 1 => chain[i].phase = "queued"
                          /\ chain[i].phase # "queued" => chain[i].scene.media # 0
                          /\ chain[i].phase \in {"shown", "fallback"} => screen = chain[i].scene
                          /\ chain[i].current => i = Len(chain)
                          /\ TokenIsCurrent(chain[i]) => client.committed # client.accepted)'
        BY DEF ChainFits
      <3>1. /\ chain'[i].scene = chain[i].scene /\ chain'[i].current = chain[i].current
            /\ chain'[i].phase = IF i = 1 THEN "loading" ELSE chain[i].phase
            /\ i \in DOMAIN chain
        BY <2>3
      <3>2. QED
        BY <1>1, <1>5, <2>1, <2>2, <2>3, <3>1 DEF ChainFits, TokenIsCurrent, Accepted
    <2>8. QED
      BY <2>4, <2>5, <2>6, <2>7 DEF IInv
  <1>6. QED
    BY <1>2, <1>3, <1>4, <1>5

LEMMA CommitKeepsIInv ==
  ASSUME IInv, NEW mode \in {"shown", "fallback"}, Commit(mode)
  PROVE  IInv'
  <1> DEFINE render == Head(chain)
  <1>1. chain # <<>> /\ render.phase = "loading"
          /\ UNCHANGED <<server, queue, transport, poll, client>>
    BY DEF Commit, Loading
  <1>2. CASE ~TokenIsCurrent(render)
    BY <1>1, <1>2, FinishedKeepsIInv DEF Commit
  <1>3. CASE TokenIsCurrent(render)
    <2>1. screen' = render.scene /\ chain' = [chain EXCEPT ![1].phase = mode]
      BY <1>3 DEF Commit
    <2>2. /\ render.scene \in Scenes /\ render.scene \in Known
          /\ render = chain[1] /\ render.scene.session # 0
          /\ SameJob(render.scene, client) /\ render.scene.revision = client.accepted
          /\ SameJob(screen, client) => screen.media <= render.scene.media
          /\ Len(chain) = 1
      BY <1>1, <1>3, CurrentScene
    <2>3. /\ chain \in Seq(Renders) /\ client \in Clients /\ screen \in Scenes
          /\ 1 \in DOMAIN chain
      BY <1>1, Tails DEF IInv, TypeOK
    <2>4. /\ chain' \in Seq(Renders) /\ Len(chain') = Len(chain) /\ DOMAIN chain' = DOMAIN chain
          /\ ScenesIn(chain') \subseteq ScenesIn(chain)
          /\ \A i \in DOMAIN chain' :
               /\ chain'[i].scene = chain[i].scene /\ chain'[i].current = chain[i].current
               /\ chain'[i].phase = IF i = 1 THEN mode ELSE chain[i].phase
      <3>1. mode \in Phases
        BY DEF Phases
      <3>2. chain' = [chain EXCEPT ![1] = [chain[1] EXCEPT !.phase = mode]]
        BY <2>1
      <3>3. chain \in Seq(Renders) /\ chain # <<>>
        BY <1>1, <2>3
      <3>4. QED
        BY <3>1, <3>2, <3>3, PhaseTurns, Zenon
    <2> DEFINE scene == render.scene
    <2>5. /\ screen' = scene /\ scene \in Scenes /\ scene.session # 0
          /\ scene.instance = client.instance /\ scene.session = client.session
          /\ scene.revision = client.accepted
          /\ SameJob(screen, client) => screen.media <= scene.media
          /\ chain[1].scene = scene
      BY <2>1, <2>2 DEF SameJob
    <2>6. scene.media # 0 /\ client.committed # client.accepted
      BY <1>1, <1>3, <2>2, <2>3 DEF IInv, ChainFits
    <2> HIDE DEF scene, render
    <2>7. TypeOK' /\ TransportFits'
      BY <1>1, <2>4, <2>5 DEF IInv, TypeOK, TransportFits, transport
    <2>8. ScenesFit'
      <3>1. scene \in ScenesIn(chain)
        BY <2>3, <2>5 DEF ScenesIn
      <3>2. Known' \subseteq Known
        BY <1>1, <2>4, <2>5, <3>1 DEF Known, Waiting, Scene
      <3>3. QED
        BY <1>1, <3>2, ScenesStay DEF IInv
    <2>9. ClientFits'
      BY <1>1, <2>3, <2>5 DEF IInv, ClientFits, SameJob, Scenes, Clients
    <2>10. CommittedFits'
      BY <1>1, <2>3, <2>5 DEF IInv, CommittedFits, SameJob, Scenes, Clients
    <2>11. ActivatedIsShown'
      BY <1>1, <2>6 DEF ActivatedIsShown
    <2>12. ChainFits'
      <3>1. ASSUME NEW i \in DOMAIN chain' PROVE i = 1
        BY <2>2, <2>3, <2>4
      <3>2. /\ chain'[1].scene = scene /\ chain'[1].phase = mode
            /\ Len(chain') = 1 /\ 1 \in DOMAIN chain'
        BY <2>2, <2>3, <2>4, <2>5
      <3>3. QED
        BY <1>1, <2>5, <2>6, <3>1, <3>2 DEF ChainFits
    <2>13. QED
      BY <2>7, <2>8, <2>9, <2>10, <2>11, <2>12 DEF IInv
  <1>4. QED
    BY <1>2, <1>3

LEMMA RenderFailsKeepsIInv ==
  ASSUME IInv, RenderFails
  PROVE  IInv'
  BY FinishedKeepsIInv DEF RenderFails, Loading

LEMMA EndRenderKeepsIInv ==
  ASSUME IInv, EndRender
  PROVE  IInv'
  <1> DEFINE render == Head(chain)
  <1>1. chain # <<>> /\ render.phase \in {"shown", "fallback"} /\ Finished
          /\ UNCHANGED <<server, queue, transport, poll, screen>>
    BY DEF EndRender
  <1>2. CASE ~TokenIsCurrent(render) \/ render.phase # "shown"
    BY <1>1, <1>2, FinishedKeepsIInv DEF EndRender
  <1>3. CASE TokenIsCurrent(render) /\ render.phase = "shown"
    <2>1. client' = [client EXCEPT !.pending = FALSE, !.committed = render.scene.revision,
                                   !.fingerprint = render.scene.media]
      BY <1>3 DEF EndRender
    <2>2. /\ render.scene \in Scenes /\ render.current /\ render = chain[1]
          /\ SameJob(render.scene, client) /\ render.scene.revision = client.accepted
      BY <1>1, <1>3, CurrentScene
    <2>3. client \in Clients /\ chain \in Seq(Renders) /\ 1 \in DOMAIN chain
      BY <1>1, Tails DEF IInv, TypeOK
    <2>4. screen = render.scene /\ render.scene.media # 0
      BY <1>3, <2>2, <2>3 DEF IInv, ChainFits
    <2> DEFINE revision == render.scene.revision
               media == render.scene.media
    <2>5. /\ revision \in Nat /\ media \in Nat /\ media # 0 /\ screen.media = media
          /\ revision = client.accepted /\ screen.revision = revision
          /\ screen.instance = client.instance /\ screen.session = client.session
      BY <2>2, <2>4 DEF Scenes, SameJob
    <2>6. client' = [client EXCEPT !.pending = FALSE, !.committed = revision,
                                   !.fingerprint = media]
      BY <2>1
    <2>7. chain' = <<>> /\ chain' \in Seq(Renders) /\ ScenesIn(chain') \subseteq ScenesIn(chain)
      BY <1>1, <2>2, ChainFinishes
    <2> HIDE DEF revision, media, render
    <2>8. /\ client'.instance = client.instance /\ client'.session = client.session
          /\ client'.accepted = client.accepted
          /\ client'.acceptedJob = client.acceptedJob
          /\ client'.committed = revision /\ client'.fingerprint = media
      BY <2>3, <2>6 DEF Clients
    <2>9. client' \in Clients
      <3>1. client'.pending \in BOOLEAN /\ client'.planner \in BOOLEAN
        BY <2>3, <2>6 DEF Clients
      <3>2. client' = [instance |-> client'.instance, session |-> client'.session,
                       accepted |-> client'.accepted, acceptedJob |-> client'.acceptedJob,
                       pending |-> client'.pending, committed |-> client'.committed,
                       fingerprint |-> client'.fingerprint, planner |-> client'.planner]
        BY <2>3, <2>6 DEF Clients
      <3>3. /\ client'.instance \in Nat /\ client'.session \in Nat
            /\ client'.accepted \in Nat \cup {-1} /\ client'.acceptedJob \in Nat
            /\ client'.committed \in Nat \cup {-1} /\ client'.fingerprint \in Nat
        BY <2>3, <2>5, <2>8 DEF Clients
      <3>4. QED
        BY <3>1, <3>2, <3>3 DEF Clients
    <2>10. TypeOK' /\ TransportFits'
      BY <1>1, <2>7, <2>8, <2>9 DEF IInv, TypeOK, TransportFits, transport
    <2>11. ScenesFit'
      <3>1. Known' \subseteq Known
        BY <1>1, <2>7 DEF Known, Waiting, ScenesIn, Scene
      <3>2. QED
        BY <1>1, <3>1, ScenesStay DEF IInv
    <2>12. ClientFits'
      BY <1>1, <2>3, <2>5, <2>8 DEF IInv, ClientFits, SameJob, Clients
    <2>13. CommittedFits' /\ ActivatedIsShown'
      BY <1>1, <2>3, <2>5, <2>8 DEF CommittedFits, ActivatedIsShown, SameJob, Clients
    <2>14. ChainFits'
      BY <2>7 DEF ChainFits
    <2>15. QED
      BY <2>10, <2>11, <2>12, <2>13, <2>14 DEF IInv
  <1>4. QED
    BY <1>2, <1>3

-----------------------------------------------------------------------------
(* A pointer is accepted.  What a client c and a chain q must be like for  *)
(* the wall that there is:                                                 *)
ClientHolds(c) ==
  /\ c.acceptedJob = c.session
  /\ c.session # 0 => c.accepted # -1
  /\ c.committed <= c.accepted
  /\ screen.instance <= c.instance
  /\ screen.instance = c.instance => screen.session <= c.session
  /\ SameJob(screen, c) => screen.session = 0 \/ screen.revision <= c.accepted
  /\ IF c.committed = -1 THEN c.fingerprint = 0
     ELSE SameJob(screen, c) /\ c.fingerprint # 0 /\ c.fingerprint <= screen.media
  /\ c.committed # -1 /\ c.committed = c.accepted => screen.media = c.fingerprint

Begun(render) ==
  /\ render.phase # "queued" => render.scene.media # 0
  /\ render.phase \in {"shown", "fallback"} => screen = render.scene

Current(c, render) ==
  /\ render.current
  /\ render.scene.instance = c.instance /\ render.scene.session = c.session
  /\ render.scene.revision = c.accepted

ChainHolds(c, q) ==
  \A i \in DOMAIN q :
    /\ q[i].scene.session # 0 /\ Begun(q[i])
    /\ i # 1 => q[i].phase = "queued"
    /\ q[i].current => i = Len(q)
    /\ Current(c, q[i]) => c.committed # c.accepted

LEMMA HoldsBefore ==
  ASSUME IInv
  PROVE  ClientHolds(client) /\ ChainHolds(client, chain)
  <1>1. ClientHolds(client)
    BY DEF IInv, ClientFits, CommittedFits, ActivatedIsShown, ClientHolds
  <1>2. ChainHolds(client, chain)
    BY DEF IInv, ChainFits, ChainHolds, Begun, Current, TokenIsCurrent, Names, Accepted
  <1>3. QED
    BY <1>1, <1>2

LEMMA HoldsAfter ==
  ASSUME ClientHolds(client'), ChainHolds(client', chain'), screen' = screen
  PROVE  ClientFits' /\ CommittedFits' /\ ActivatedIsShown' /\ ChainFits'
  <1>1. ClientFits' /\ CommittedFits' /\ ActivatedIsShown'
    BY DEF ClientFits, CommittedFits, ActivatedIsShown, ClientHolds, SameJob
  <1>2. ChainFits'
    BY DEF ChainFits, ChainHolds, Begun, Current, TokenIsCurrent, Names, Accepted
  <1>3. QED
    BY <1>1, <1>2

\* Only a render that has begun survives being overtaken, and it is not current.
LEMMA OvertakenHolds ==
  ASSUME NEW c, NEW q \in Seq(Renders), ChainHolds(c, q)
  PROVE  LET o == Overtaken(q)
         IN /\ o \in Seq(Renders) /\ Len(o) <= 1 /\ ScenesIn(o) \subseteq ScenesIn(q)
            /\ \A i \in DOMAIN o :
                 i = 1 /\ o[i].scene.session # 0 /\ Begun(o[i]) /\ ~o[i].current
  <1>1. CASE q = <<>> \/ Head(q).phase = "queued"
    <2>1. Overtaken(q) = <<>>
      BY <1>1 DEF Overtaken
    <2>2. <<>> \in Seq(Renders) /\ Len(<<>>) <= 1 /\ ScenesIn(<<>>) \subseteq ScenesIn(q)
      BY DEF ScenesIn
    <2>3. QED
      BY <2>1, <2>2
  <1>2. CASE ~(q = <<>> \/ Head(q).phase = "queued")
    <2>1. Head(q) = q[1] /\ q[1] \in Renders /\ 1 \in DOMAIN q /\ q[1].scene \in ScenesIn(q)
      BY <1>2, Tails
    <2> DEFINE e == [q[1] EXCEPT !.current = FALSE]
    <2>2. /\ e \in Renders /\ e.scene = q[1].scene /\ e.phase = q[1].phase
          /\ e.current = FALSE
      BY <2>1 DEF Renders
    <2>3. Overtaken(q) = <<e>>
      BY <1>2, <2>1 DEF Overtaken
    <2>4. e.scene.session # 0 /\ Begun(e)
      BY <2>1, <2>2 DEF ChainHolds, Begun
    <2> HIDE DEF e
    <2>5. <<e>> \in Seq(Renders) /\ Len(<<e>>) = 1 /\ \A i \in DOMAIN <<e>> : i = 1 /\ <<e>>[i] = e
      BY <2>2
    <2>6. ScenesIn(<<e>>) \subseteq ScenesIn(q)
      BY <2>1, <2>2, <2>5 DEF ScenesIn
    <2>7. QED
      BY <2>2, <2>3, <2>4, <2>5, <2>6
  <1>3. QED
    BY <1>1, <1>2

\* The client the pointer is taken by: a fresh one when the server is another.
LEMMA TakenBy ==
  ASSUME IInv, NEW pointer \in Pointers, client.instance <= pointer.scene.instance
  PROVE  LET moved == pointer.scene.instance # client.instance
             c == [(IF moved THEN Fresh(pointer.scene.instance) ELSE client)
                     EXCEPT !.planner = pointer.planner]
             renders == IF moved THEN Overtaken(chain) ELSE chain
         IN /\ c \in Clients /\ c.instance = pointer.scene.instance /\ ClientHolds(c)
            /\ renders \in Seq(Renders) /\ ScenesIn(renders) \subseteq ScenesIn(chain)
            /\ ChainHolds(c, renders)
  <1> DEFINE instance == pointer.scene.instance
             planner == pointer.planner
  <1>1. instance \in Nat /\ planner \in BOOLEAN /\ client.instance <= instance
    BY DEF Pointers, Scenes
  <1>2. client \in Clients /\ chain \in Seq(Renders) /\ screen \in Scenes
    BY DEF IInv, TypeOK
  <1>3. ClientHolds(client) /\ ChainHolds(client, chain)
    BY HoldsBefore
  <1> HIDE DEF instance, planner
  <1>4. CASE instance # client.instance
    <2> DEFINE c == [instance |-> instance, session |-> 0, accepted |-> -1,
                     acceptedJob |-> 0, pending |-> FALSE, committed |-> -1,
                     fingerprint |-> 0, planner |-> planner]
               renders == Overtaken(chain)
    <2>1. [Fresh(instance) EXCEPT !.planner = planner] = c
      <3> DEFINE f == Fresh(instance)
                 w == [f EXCEPT !.planner = planner]
      <3>1. /\ f \in Clients /\ f.instance = instance /\ f.session = 0 /\ f.accepted = -1
            /\ f.acceptedJob = 0 /\ f.pending = FALSE /\ f.committed = -1
            /\ f.fingerprint = 0
        BY <1>1 DEF Fresh, Clients
      <3> HIDE DEF f
      <3>2. /\ w.instance = instance /\ w.session = 0 /\ w.accepted = -1
            /\ w.acceptedJob = 0 /\ w.pending = FALSE /\ w.committed = -1
            /\ w.fingerprint = 0 /\ w.planner = planner
        BY <3>1 DEF Clients
      <3>3. w = [instance |-> w.instance, session |-> w.session, accepted |-> w.accepted,
                 acceptedJob |-> w.acceptedJob, pending |-> w.pending,
                 committed |-> w.committed, fingerprint |-> w.fingerprint,
                 planner |-> w.planner]
        BY <3>1 DEF Clients
      <3> HIDE DEF w
      <3>4. w = c
        BY <3>2, <3>3
      <3>5. QED
        BY <3>4 DEF w, f
    <2>2. c \in Clients
      BY <1>1 DEF Clients
    <2>3. ClientHolds(c)
      BY <1>1, <1>2, <1>3, <1>4 DEF ClientHolds, SameJob, Scenes, Clients
    <2>4. /\ renders \in Seq(Renders) /\ Len(renders) <= 1
          /\ ScenesIn(renders) \subseteq ScenesIn(chain)
          /\ \A i \in DOMAIN renders :
               /\ i = 1 /\ renders[i].scene.session # 0
               /\ Begun(renders[i]) /\ ~renders[i].current
      BY <1>2, <1>3, OvertakenHolds
    <2>5. c.instance = instance
      OBVIOUS
    <2> HIDE DEF c, renders
    <2>6. ChainHolds(c, renders)
      BY <2>4 DEF ChainHolds, Current
    <2>7. QED
      BY <1>4, <2>1, <2>2, <2>3, <2>4, <2>5, <2>6 DEF instance, planner, renders
  <1>5. CASE instance = client.instance
    <2> DEFINE c == [client EXCEPT !.planner = planner]
    <2>1. /\ c.instance = client.instance /\ c.session = client.session
          /\ c.accepted = client.accepted /\ c.acceptedJob = client.acceptedJob
          /\ c.pending = client.pending /\ c.committed = client.committed
          /\ c.fingerprint = client.fingerprint /\ c.planner = planner
      BY <1>2 DEF Clients
    <2>2. c = [instance |-> c.instance, session |-> c.session, accepted |-> c.accepted,
               acceptedJob |-> c.acceptedJob, pending |-> c.pending,
               committed |-> c.committed, fingerprint |-> c.fingerprint,
               planner |-> c.planner]
      BY <1>2 DEF Clients
    <2>3. /\ c.instance \in Nat /\ c.session \in Nat /\ c.accepted \in Nat \cup {-1}
          /\ c.acceptedJob \in Nat /\ c.committed \in Nat \cup {-1} /\ c.fingerprint \in Nat
      BY <1>2, <2>1 DEF Clients
    <2>4. c.pending \in BOOLEAN /\ c.planner \in BOOLEAN
      BY <1>1, <1>2, <2>1 DEF Clients
    <2> HIDE DEF c
    <2>5. c \in Clients
      BY <2>2, <2>3, <2>4 DEF Clients
    <2>6. ClientHolds(c) /\ ChainHolds(c, chain)
      BY <1>3, <2>1 DEF ClientHolds, ChainHolds, Current, SameJob
    <2>7. QED
      BY <1>2, <1>5, <2>1, <2>5, <2>6 DEF c, instance, planner
  <1>6. QED
    BY <1>4, <1>5

LEMMA SessionSet ==
  ASSUME NEW c \in Clients, NEW session \in Nat
  PROVE  LET d == [c EXCEPT !.session = session]
         IN /\ d \in Clients /\ d.instance = c.instance /\ d.session = session
            /\ d.accepted = c.accepted /\ d.acceptedJob = c.acceptedJob
            /\ d.committed = c.committed /\ d.fingerprint = c.fingerprint
  <1> DEFINE d == [c EXCEPT !.session = session]
  <1>1. /\ d.instance = c.instance /\ d.session = session
        /\ d.accepted = c.accepted /\ d.acceptedJob = c.acceptedJob
        /\ d.pending = c.pending /\ d.committed = c.committed
        /\ d.fingerprint = c.fingerprint /\ d.planner = c.planner
    BY DEF Clients
  <1>2. d = [instance |-> d.instance, session |-> d.session, accepted |-> d.accepted,
             acceptedJob |-> d.acceptedJob, pending |-> d.pending,
             committed |-> d.committed, fingerprint |-> d.fingerprint,
             planner |-> d.planner]
    BY DEF Clients
  <1>3. /\ d.instance \in Nat /\ d.session \in Nat /\ d.accepted \in Nat \cup {-1}
        /\ d.acceptedJob \in Nat /\ d.committed \in Nat \cup {-1} /\ d.fingerprint \in Nat
    BY <1>1 DEF Clients
  <1>4. d.pending \in BOOLEAN /\ d.planner \in BOOLEAN
    BY <1>1 DEF Clients
  <1> HIDE DEF d
  <1>5. d \in Clients
    BY <1>2, <1>3, <1>4 DEF Clients
  <1>6. QED
    BY <1>1, <1>5 DEF d

LEMMA QueueHolds ==
  ASSUME NEW c \in Clients, NEW renders \in Seq(Renders), NEW scene \in Scenes,
         screen \in Scenes, ClientHolds(c), ChainHolds(c, renders),
         scene.session # 0, c.instance = scene.instance, c.session <= scene.session,
         Queue([c EXCEPT !.session = scene.session], renders, scene)
  PROVE  /\ client' \in Clients /\ client'.instance = scene.instance
         /\ chain' \in Seq(Renders) /\ ScenesIn(chain') \subseteq ScenesIn(renders) \cup {scene}
         /\ ClientHolds(client') /\ ChainHolds(client', chain')
  <1> DEFINE d == [c EXCEPT !.session = scene.session]
             sameJob == d.acceptedJob = scene.session
             again == sameJob /\ scene.revision = d.accepted
             stays == \/ sameJob /\ scene.revision < d.accepted
                      \/ /\ again
                         /\ d.pending \/ scene.media = 0 \/ d.committed = scene.revision
  <1>1. /\ d \in Clients /\ d.instance = c.instance /\ d.session = scene.session
        /\ d.accepted = c.accepted /\ d.acceptedJob = c.acceptedJob
        /\ d.committed = c.committed /\ d.fingerprint = c.fingerprint
    BY SessionSet, Zenon DEF Scenes
  <1>2. IF stays THEN client' = d /\ chain' = renders
        ELSE /\ client' = [d EXCEPT !.accepted = scene.revision, !.acceptedJob = scene.session,
                                    !.pending = TRUE,
                                    !.committed = IF sameJob THEN @ ELSE -1,
                                    !.fingerprint = IF sameJob THEN @ ELSE 0]
             /\ chain' = Append(Overtaken(renders), Render(scene))
    BY DEF Queue
  <1> HIDE DEF d
  <1>3. CASE stays
    <2>1. c.session = d.session
      BY <1>1, <1>3 DEF ClientHolds
    <2>2. ClientHolds(d)
      BY <1>1, <2>1 DEF ClientHolds, SameJob
    <2>3. ChainHolds(d, renders)
      BY <1>1, <2>1 DEF ChainHolds, Current
    <2>4. QED
      BY <1>1, <1>2, <1>3, <2>2, <2>3
  <1>4. CASE ~stays
    <2> DEFINE w == client'
               e == Render(scene)
               o == Overtaken(renders)
               committed == IF sameJob THEN d.committed ELSE -1
               fingerprint == IF sameJob THEN d.fingerprint ELSE 0
    <2>1. committed \in Nat \cup {-1} /\ fingerprint \in Nat
      BY <1>1 DEF Clients
    <2>2. committed = (IF sameJob THEN c.committed ELSE -1)
            /\ fingerprint = (IF sameJob THEN c.fingerprint ELSE 0)
      BY <1>1
    <2>3. w = [d EXCEPT !.accepted = scene.revision, !.acceptedJob = scene.session,
                        !.pending = TRUE, !.committed = committed,
                        !.fingerprint = fingerprint]
      BY <1>2, <1>4
    <2>4. chain' = Append(o, e)
      BY <1>2, <1>4
    <2> HIDE DEF w, committed, fingerprint
    <2>5. scene.revision \in Nat /\ scene.session \in Nat /\ scene.instance \in Nat
      BY DEF Scenes
    <2>6. /\ w.instance = d.instance /\ w.session = d.session
          /\ w.accepted = scene.revision /\ w.acceptedJob = scene.session
          /\ w.committed = committed /\ w.fingerprint = fingerprint
      BY <1>1, <2>3 DEF Clients
    <2>7. w \in Clients
      <3>1. w.pending \in BOOLEAN /\ w.planner \in BOOLEAN
        BY <1>1, <2>3 DEF Clients
      <3>2. w = [instance |-> w.instance, session |-> w.session, accepted |-> w.accepted,
                 acceptedJob |-> w.acceptedJob, pending |-> w.pending,
                 committed |-> w.committed, fingerprint |-> w.fingerprint,
                 planner |-> w.planner]
        BY <1>1, <2>3 DEF Clients
      <3>3. /\ w.instance \in Nat /\ w.session \in Nat /\ w.accepted \in Nat \cup {-1}
            /\ w.acceptedJob \in Nat /\ w.committed \in Nat \cup {-1} /\ w.fingerprint \in Nat
        BY <1>1, <2>1, <2>5, <2>6 DEF Clients
      <3>4. QED
        BY <3>1, <3>2, <3>3 DEF Clients
    <2>8. sameJob <=> c.session = scene.session
      BY <1>1 DEF ClientHolds
    <2>9. ClientHolds(w) /\ (committed # -1 => committed # scene.revision)
      <3>1. CASE sameJob
        <4>1. /\ c.session = scene.session /\ committed = c.committed
              /\ fingerprint = c.fingerprint
          BY <2>2, <2>8, <3>1
        <4>2. c.accepted <= scene.revision /\ (c.accepted = scene.revision => c.committed # scene.revision)
          BY <1>1, <1>4, <2>5, <3>1 DEF Clients
        <4>3. committed # scene.revision
          BY <2>5, <4>1, <4>2 DEF ClientHolds, Clients
        <4>4. QED
          BY <1>1, <2>5, <2>6, <4>1, <4>2, <4>3 DEF ClientHolds, SameJob, Clients, Scenes
      <3>2. CASE ~sameJob
        <4>1. c.session < scene.session /\ committed = -1 /\ fingerprint = 0
          BY <2>2, <2>5, <2>8, <3>2 DEF Clients
        <4>2. screen.instance = scene.instance => screen.session < scene.session
          BY <2>5, <4>1 DEF ClientHolds, Clients, Scenes
        <4>3. QED
          BY <1>1, <2>5, <2>6, <4>1, <4>2 DEF ClientHolds, SameJob, Clients, Scenes
      <3>3. QED
        BY <3>1, <3>2
    <2>10. /\ o \in Seq(Renders) /\ Len(o) <= 1 /\ ScenesIn(o) \subseteq ScenesIn(renders)
           /\ \A i \in DOMAIN o :
                i = 1 /\ o[i].scene.session # 0 /\ Begun(o[i]) /\ ~o[i].current
      BY OvertakenHolds
    <2>11. /\ e \in Renders /\ e.scene = scene /\ e.phase = "queued"
      BY DEF Render, Renders, Phases
    <2> HIDE DEF e, o
    <2>12. /\ chain' \in Seq(Renders) /\ Len(chain') = Len(o) + 1
           /\ \A i \in DOMAIN chain' :
                IF i = Len(o) + 1 THEN chain'[i] = e
                                  ELSE i \in DOMAIN o /\ chain'[i] = o[i]
           /\ ScenesIn(chain') \subseteq ScenesIn(o) \cup {e.scene}
      BY <2>4, <2>10, <2>11, Appends
    <2>13. ChainHolds(w, chain')
      <3> SUFFICES ASSUME NEW i \in DOMAIN chain'
                   PROVE  /\ chain'[i].scene.session # 0 /\ Begun(chain'[i])
                          /\ i # 1 => chain'[i].phase = "queued"
                          /\ chain'[i].current => i = Len(chain')
                          /\ Current(w, chain'[i]) => w.committed # w.accepted
        BY DEF ChainHolds
      <3>1. CASE i = Len(o) + 1
        <4>1. chain'[i] = e
          BY <2>12, <3>1
        <4>2. w.committed # w.accepted
          BY <2>5, <2>6, <2>9
        <4>3. QED
          BY <2>11, <2>12, <3>1, <4>1, <4>2 DEF Begun
      <3>2. CASE i # Len(o) + 1
        BY <2>10, <2>12, <3>2 DEF Current
      <3>3. QED
        BY <3>1, <3>2
    <2>14. QED
      BY <1>1, <2>6, <2>7, <2>9, <2>10, <2>11, <2>12, <2>13 DEF w
  <1>5. QED
    BY <1>3, <1>4

LEMMA AcceptHolds ==
  ASSUME IInv, NEW pointer \in Pointers, client.instance <= pointer.scene.instance,
         Accept(pointer)
  PROVE  /\ client' \in Clients /\ client'.instance = pointer.scene.instance
         /\ chain' \in Seq(Renders)
         /\ ScenesIn(chain') \subseteq ScenesIn(chain) \cup {pointer.scene}
         /\ ClientHolds(client') /\ ChainHolds(client', chain')
  <1> DEFINE scene == pointer.scene
             moved == scene.instance # client.instance
             c == [(IF moved THEN Fresh(scene.instance) ELSE client)
                     EXCEPT !.planner = pointer.planner]
             renders == IF moved THEN Overtaken(chain) ELSE chain
  <1>1. /\ c \in Clients /\ c.instance = scene.instance /\ ClientHolds(c)
        /\ renders \in Seq(Renders) /\ ScenesIn(renders) \subseteq ScenesIn(chain)
        /\ ChainHolds(c, renders)
    BY TakenBy
  <1>2. IF scene.session = 0 \/ scene.session < c.session
        THEN client' = c /\ chain' = renders
        ELSE Queue([c EXCEPT !.session = scene.session], renders, scene)
    BY DEF Accept
  <1>3. scene \in Scenes /\ screen \in Scenes
    BY DEF Pointers, IInv, TypeOK
  <1> HIDE DEF c, renders, scene
  <1>4. CASE scene.session = 0 \/ scene.session < c.session
    BY <1>1, <1>2, <1>4 DEF scene
  <1>5. CASE ~(scene.session = 0 \/ scene.session < c.session)
    <2>1. scene.session # 0 /\ c.session <= scene.session
      BY <1>1, <1>3, <1>5 DEF Scenes, Clients
    <2>2. Queue([c EXCEPT !.session = scene.session], renders, scene)
      BY <1>2, <1>5
    <2>3. /\ client' \in Clients /\ client'.instance = scene.instance
          /\ chain' \in Seq(Renders)
          /\ ScenesIn(chain') \subseteq ScenesIn(renders) \cup {scene}
          /\ ClientHolds(client') /\ ChainHolds(client', chain')
      BY <1>1, <1>3, <2>1, <2>2, QueueHolds
    <2>4. QED
      BY <1>1, <2>3 DEF scene
  <1>6. QED
    BY <1>4, <1>5

LEMMA ReceiveEventKeepsIInv ==
  ASSUME IInv, ReceiveEvent
  PROVE  IInv'
  <1>1. /\ stream = "open" /\ queue # <<>> /\ Accept(Head(queue)) /\ queue' = Tail(queue)
        /\ UNCHANGED <<server, stream, poll, screen>>
    BY DEF ReceiveEvent
  <1>2. queue \in Seq(Pointers) /\ client \in Clients /\ server \in Servers
    BY DEF IInv, TypeOK
  <1> DEFINE pointer == Head(queue)
  <1>3. /\ queue' \in Seq(Pointers) /\ pointer = queue[1] /\ pointer \in Pointers
        /\ 1 \in DOMAIN queue
        /\ \A i \in DOMAIN queue' : queue'[i] = queue[i + 1] /\ i + 1 \in DOMAIN queue
        /\ ScenesIn(queue') \subseteq ScenesIn(queue) /\ pointer.scene \in ScenesIn(queue)
    BY <1>1, <1>2, Tails
  <1>4. pointer.scene.instance = server.instance /\ client.instance <= pointer.scene.instance
    BY <1>3 DEF IInv, TransportFits
  <1>5. Accept(pointer)
    BY <1>1
  <1> HIDE DEF pointer
  <1>6. /\ client' \in Clients /\ client'.instance = pointer.scene.instance
        /\ chain' \in Seq(Renders)
        /\ ScenesIn(chain') \subseteq ScenesIn(chain) \cup {pointer.scene}
        /\ ClientHolds(client') /\ ChainHolds(client', chain')
    BY <1>3, <1>4, <1>5, AcceptHolds
  <1>7. ClientFits' /\ CommittedFits' /\ ActivatedIsShown' /\ ChainFits'
    BY <1>1, <1>6, HoldsAfter
  <1>8. TypeOK'
    BY <1>1, <1>3, <1>6 DEF IInv, TypeOK
  <1>9. TransportFits'
    <2>1. \A i \in DOMAIN queue' : queue'[i].scene.instance = server.instance
      BY <1>3 DEF IInv, TransportFits
    <2>2. client'.instance = server.instance /\ server.instance \in Nat
      BY <1>2, <1>4, <1>6 DEF Servers
    <2>3. QED
      BY <1>1, <2>1, <2>2 DEF IInv, TransportFits
  <1>10. ScenesFit'
    <2>1. Known' \subseteq Known
      BY <1>1, <1>3, <1>6 DEF Known, Waiting, Scene
    <2>2. QED
      BY <1>1, <2>1, ScenesStay DEF IInv
  <1>11. QED
    BY <1>7, <1>8, <1>9, <1>10 DEF IInv

LEMMA ReadPollKeepsIInv ==
  ASSUME IInv, ReadPoll
  PROVE  IInv'
  <1>1. /\ poll' = Idle /\ UNCHANGED <<server, queue, stream, screen>>
        /\ poll'.is # "answered"
    BY DEF ReadPoll, Idle
  <1>2. client \in Clients /\ server \in Servers /\ chain \in Seq(Renders)
    BY DEF IInv, TypeOK
  <1>3. /\ client' \in Clients /\ client'.instance <= server.instance
        /\ chain' \in Seq(Renders)
        /\ ScenesIn(chain') \subseteq ScenesIn(chain) \cup Waiting
        /\ ClientHolds(client') /\ ChainHolds(client', chain')
    <2>1. CASE UNCHANGED <<client, chain>>
      <3>1. ClientHolds(client) /\ ChainHolds(client, chain)
        BY HoldsBefore
      <3>2. QED
        BY <1>2, <2>1, <3>1 DEF IInv, TransportFits
    <2>2. CASE poll.is = "answered" /\ Accept(poll.pointer)
      <3> DEFINE pointer == poll.pointer
      <3>1. /\ pointer \in Pointers /\ client.instance <= pointer.scene.instance
            /\ Waiting = {pointer.scene} /\ Accept(pointer)
        BY <2>2 DEF IInv, TypeOK, TransportFits, Waiting
      <3>2. pointer.scene.instance <= server.instance
        BY <3>1 DEF IInv, ScenesFit, Known, Issued
      <3> HIDE DEF pointer
      <3>3. /\ client' \in Clients /\ client'.instance = pointer.scene.instance
            /\ chain' \in Seq(Renders)
            /\ ScenesIn(chain') \subseteq ScenesIn(chain) \cup {pointer.scene}
            /\ ClientHolds(client') /\ ChainHolds(client', chain')
        BY <3>1, AcceptHolds
      <3>4. QED
        BY <3>1, <3>2, <3>3
    <2>3. QED
      BY <2>1, <2>2 DEF ReadPoll
  <1>4. ClientFits' /\ CommittedFits' /\ ActivatedIsShown' /\ ChainFits'
    BY <1>1, <1>3, HoldsAfter
  <1>5. TypeOK' /\ TransportFits'
    BY <1>1, <1>3 DEF IInv, TypeOK, TransportFits
  <1>6. ScenesFit'
    <2>1. Known' \subseteq Known
      BY <1>1, <1>3 DEF Known, Waiting, Scene
    <2>2. QED
      BY <1>1, <2>1, ScenesStay DEF IInv
  <1>7. QED
    BY <1>4, <1>5, <1>6 DEF IInv

-----------------------------------------------------------------------------
(* The theorems.                                                           *)

LEMMA InitEstablishesIInv == Init => IInv
  <1> SUFFICES ASSUME Init PROVE IInv
    OBVIOUS
  <1>1. /\ server = [instance |-> 1, session |-> 0, revision |-> 0, media |-> 0,
                     planner |-> FALSE, issued |-> 0]
        /\ queue = <<>> /\ stream = "unopened" /\ poll = Asked
        /\ client = Fresh(0) /\ chain = <<>> /\ screen = NoScene
    BY DEF Init
  <1>2. /\ client.instance = 0 /\ client.session = 0 /\ client.accepted = -1
        /\ client.acceptedJob = 0 /\ client.committed = -1 /\ client.fingerprint = 0
        /\ client \in Clients
    BY <1>1 DEF Fresh, Clients
  <1>3. /\ screen.instance = 0 /\ screen.session = 0 /\ screen.revision = 0
        /\ screen.media = 0 /\ screen \in Scenes
    BY <1>1 DEF NoScene, Scenes
  <1>4. /\ server.instance = 1 /\ server.session = 0 /\ server.revision = 0
        /\ server.media = 0 /\ server.issued = 0 /\ server \in Servers
    BY <1>1 DEF Servers
  <1>5. poll.is # "answered"
    BY <1>1 DEF Asked
  <1>6. <<>> \in Seq(Pointers) /\ <<>> \in Seq(Renders)
    OBVIOUS
  <1>7. TypeOK
    BY <1>1, <1>2, <1>3, <1>4, <1>5, <1>6 DEF TypeOK
  <1>8. Known = {screen, Scene}
    BY <1>1, <1>5 DEF Known, Waiting, ScenesIn
  <1>9. /\ Scene.instance = 1 /\ Scene.session = 0 /\ Scene.revision = 0 /\ Scene.media = 0
    BY <1>4 DEF Scene
  <1>10. ScenesFit
    BY <1>3, <1>4, <1>8, <1>9 DEF ScenesFit, Issued, Agree, SameJob
  <1>11. TransportFits
    BY <1>1, <1>2, <1>4, <1>5 DEF TransportFits
  <1>12. ClientFits /\ CommittedFits /\ ActivatedIsShown
    BY <1>2, <1>3 DEF ClientFits, CommittedFits, ActivatedIsShown, SameJob
  <1>13. ChainFits
    BY <1>1 DEF ChainFits
  <1>14. QED
    BY <1>7, <1>10, <1>11, <1>12, <1>13 DEF IInv

LEMMA StepKeepsIInv == IInv /\ [Next]_vars => IInv'
  <1> SUFFICES ASSUME IInv, [Next]_vars PROVE IInv'
    OBVIOUS
  <1>1. CASE \E media \in {0, 1} : NewJob(media)
    BY <1>1, NewJobKeepsIInv
  <1>2. CASE \E media \in {server.media, server.media + 1} : NewRevision(media)
    BY <1>2, NewRevisionKeepsIInv
  <1>3. CASE Evicted
    BY <1>3, EvictedKeepsIInv
  <1>4. CASE PlannerTurns
    BY <1>4, PlannerTurnsKeepsIInv
  <1>5. CASE Restart
    BY <1>5, RestartKeepsIInv
  <1>6. CASE ConnectionLost
    BY <1>6, ConnectionLostKeepsIInv
  <1>7. CASE Connect
    BY <1>7, ConnectKeepsIInv
  <1>8. CASE ConnectFails
    BY <1>8, ConnectFailsKeepsIInv
  <1>9. CASE RenderStep
    BY <1>9, BeginRenderKeepsIInv, CommitKeepsIInv, RenderFailsKeepsIInv, EndRenderKeepsIInv
       DEF RenderStep
  <1>10. CASE TransportStep
    BY <1>10, ReceiveEventKeepsIInv, RendezvousKeepsIInv, AnswerPollKeepsIInv,
       ReadPollKeepsIInv DEF TransportStep
  <1>11. CASE UNCHANGED vars
    <2>1. UNCHANGED <<server, queue, stream, poll, client, chain, screen>>
      BY <1>11 DEF vars, transport
    <2>2. TypeOK' /\ TransportFits'
      BY <2>1 DEF IInv, TypeOK, TransportFits
    <2>3. Known' \subseteq Known
      BY <2>1 DEF Known, Waiting, Scene
    <2>4. QED
      BY <2>1, <2>2, <2>3, ScenesStay, WallStays DEF IInv
  <1>12. QED
    BY <1>1, <1>2, <1>3, <1>4, <1>5, <1>6, <1>7, <1>8, <1>9, <1>10, <1>11 DEF Next

\* The strengthening holds of every reachable state.
THEOREM Inductive == Spec => []IInv
  BY InitEstablishesIInv, StepKeepsIInv, PTL DEF Spec

\* What the projector reports as activated, and counts its next renders from, is on
\* the wall, whatever overtook the renders on the way (projector.js:1770-1793).
THEOREM ActivatedStaysShown == Spec => []ActivatedIsShown
  <1>1. IInv => ActivatedIsShown
    BY DEF IInv
  <1>2. QED
    BY <1>1, Inductive, PTL

\* Only a commit changes the wall, and what it shows was accepted no earlier than
\* what it replaces.
LEMMA StepKeepsTheWall == IInv /\ [Next]_vars => ~Earlier(screen', screen)
  <1> SUFFICES ASSUME IInv, [Next]_vars PROVE ~Earlier(screen', screen)
    OBVIOUS
  <1>1. screen \in Scenes
    BY DEF IInv, TypeOK
  <1>2. CASE UNCHANGED screen
    BY <1>1, <1>2 DEF Earlier, Scenes
  <1>3. ASSUME NEW mode \in {"shown", "fallback"}, Commit(mode)
        PROVE  ~Earlier(screen', screen)
    <2> DEFINE render == Head(chain)
    <2>1. CASE ~TokenIsCurrent(render)
      <3>1. UNCHANGED screen
        BY <1>3, <2>1 DEF Commit
      <3>2. QED
        BY <1>2, <3>1
    <2>2. CASE TokenIsCurrent(render)
      <3>1. screen' = render.scene /\ chain # <<>>
        BY <1>3, <2>2 DEF Commit, Loading
      <3>2. /\ render.scene \in Scenes /\ SameJob(render.scene, client)
            /\ render.scene.revision = client.accepted
            /\ SameJob(screen, client) => screen.revision <= client.accepted
        BY <2>2, <3>1, CurrentScene
      <3>3. /\ screen.instance <= client.instance
            /\ screen.instance = client.instance => screen.session <= client.session
        BY DEF IInv, ClientFits
      <3> HIDE DEF render
      <3>4. QED
        BY <1>1, <3>1, <3>2, <3>3 DEF Earlier, SameJob, Scenes
    <2>3. QED
      BY <2>1, <2>2
  <1>4. QED
    BY <1>2, <1>3
       DEF Next, vars, NewJob, NewRevision, Evicted, PlannerTurns, ServerStep, Restart,
           ConnectionLost, Connect, ConnectFails, RenderStep, BeginRender, RenderFails,
           EndRender, TransportStep, ReceiveEvent, Rendezvous, AnswerPoll, ReadPoll

\* Whatever loads slowly and whatever answer comes late, the wall never goes back to
\* an earlier scene or revision (projector.js:799).
THEOREM WallNeverGoesBack == Spec => ScreenNeverBack
  BY Inductive, StepKeepsTheWall, PTL DEF Spec, ScreenNeverBack

=============================================================================
