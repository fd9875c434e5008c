----------------------------- MODULE PaidScene -----------------------------
(***************************************************************************)
(* generate_fast and prewarm of the providers that pay for images, each    *)
(* with a session of its own that bounds what it spends:                   *)
(*   "modal"      FiniteModalSceneProvider   (finite_modal_provider.py)    *)
(*   "cloud_run"  GcpCloudRunSceneProvider   (gcp_scene_provider.py)       *)
(*   "vertex"     VertexGeminiImageSceneProvider (vertex_scene_provider.py)*)
(*   "klein"      KleinSceneProvider         (klein_scene_provider.py)     *)
(*   "prepared"   PreparedKleinProvider      (prepared_klein_provider.py)  *)
(* A behaviour is the life of one of them, with restarts of its process.   *)
(* They differ in when a request is booked, and in what is written to disk *)
(* before it is sent.  Money is counted in whole units.                    *)
(***************************************************************************)
EXTENDS Integers, FiniteSets

CONSTANTS Provider,     \* the providers of this instance
          Call,         \* calls of generate_fast and prewarm
          Scene,        \* the scenes asked for
          Cap,          \* session_cost_cap_usd, session_gpu_cap_usd, or ten requests
          Ceiling,      \* what one request may cost
          Overrun,      \* how far past its ceiling an answer of Cloud Run may come
          MaxSessions   \* processes, one after the other

Warmup == "prewarm"     \* the other operation that pays, with one prewarm_id
Session == "session"    \* the one ledger entry of a Klein session
Nobody == "nobody"
Request == Scene \cup {Warmup}
Entry == Request \cup {Session}

ASSUME PaidAssumption ==
    /\ Provider \subseteq {"modal", "cloud_run", "vertex", "klein", "prepared"}
    /\ Cap \in Nat /\ Ceiling \in Nat \ {0} /\ Overrun \in Nat /\ MaxSessions \in Nat
    /\ Warmup \notin Scene /\ Session \notin Scene /\ Nobody \notin Call
    /\ IsFiniteSet(Call)

VARIABLES provider,    \* which provider this is
          pc, wants,   \* where each call is and what it asks for
          owner,       \* who holds the operation lock
          booked,      \* _reserved_usd, _estimated_gpu_usd, reserved_usd, requests
          warm,        \* the prewarm report, or the lease: cold, warm or run out
          stopped,     \* _closed; failed or _close_task of the prepared provider
          authorized,  \* reservation_id of a Klein session
          attempted,   \* operations of a Klein session
          working,     \* calls whose thread is at the ledger
          onFile,      \* cost written to disk: ledger entries, claims
          session,     \* which process this is
          charged,     \* history: what this session may have been billed
          escaped,     \* history: the part of it that was not booked
          billed,      \* history: what each request may have cost in all
          sent         \* history: every sending

money == <<booked, charged, escaped, billed, sent>>
states == <<warm, stopped, authorized, attempted>>
vars == <<provider, pc, wants, owner, working, onFile, session, states, money>>

Pc == {"idle", "waiting", "preparing", "reserving", "posting", "packaging", "done"}
Inside == {"preparing", "reserving", "posting", "packaging"}
Is(p) == provider = p

Init == /\ provider \in Provider
        /\ pc = [c \in Call |-> "idle"] /\ wants = [c \in Call |-> Warmup]
        /\ owner = Nobody /\ booked = 0 /\ warm = "cold" /\ stopped = FALSE
        /\ authorized = FALSE /\ attempted = {} /\ working = {}
        /\ onFile = [e \in Entry |-> 0] /\ session = 1
        /\ charged = 0 /\ escaped = 0 /\ sent = {}
        /\ billed = [r \in Request |-> 0]

Goto(c, p) == pc' = [pc EXCEPT ![c] = p]
Leave(c) == /\ Goto(c, "done")
            /\ owner' = IF owner = c THEN Nobody ELSE owner

HasCapacity == booked + Ceiling <= Cap
\* What counts for the session: the prepared provider counts scenes only.
Counts(c) == ~(Is("prepared") /\ wants[c] = Warmup)
Price(c) == IF Counts(c) THEN Ceiling ELSE 0

\* The request goes out: from here on it may be billed, whole if nothing is heard of it.
Send(c) == /\ Goto(c, "posting")
           /\ sent' = sent \cup {<<session, c, wants[c]>>}
           /\ charged' = charged + Price(c)
           /\ billed' = [billed EXCEPT ![wants[c]] = @ + Price(c)]
\* It is known what it cost.
Costs(c, cost) == /\ charged' = charged - Ceiling + cost
                  /\ billed' = [billed EXCEPT ![wants[c]] = @ - Ceiling + cost]

----------------------------------------------------------------------------
(* Before the lock: the output directory, the profile, the readiness.      *)
Begin(c) == /\ pc[c] = "idle"
            /\ \E r \in Request :
                 /\ r = Warmup => provider \in {"cloud_run", "klein", "prepared"}
                 /\ wants' = [wants EXCEPT ![c] = r]
            /\ Goto(c, "waiting") \/ Goto(c, "done")
            /\ UNCHANGED <<provider, owner, working, onFile, session, states, money>>

\* Refused, or answered from what is there, without giving the lock away.
Refused(c) == /\ Goto(c, "done")
              /\ UNCHANGED <<owner, onFile, money>>

\* A prewarm is asked for while one is active.
StillWarm(c) == wants[c] = Warmup /\ warm = "warm"

\* Cloud Run and Vertex look at their capacity and book after the answer.
Enter(c) ==
    /\ provider \in {"cloud_run", "vertex"} /\ pc[c] = "waiting" /\ owner = Nobody
    /\ \/ /\ HasCapacity /\ ~StillWarm(c)
          /\ owner' = c /\ Goto(c, "preparing")
          /\ UNCHANGED <<onFile, money>>
       \/ (~HasCapacity \/ StillWarm(c)) /\ Refused(c)
    /\ UNCHANGED <<provider, wants, working, session, states>>

\* FiniteModalSceneProvider has no lock; it books before it asks the ledger.
EnterModal(c) ==
    /\ Is("modal") /\ pc[c] = "waiting"
    /\ \/ /\ HasCapacity
          /\ booked' = booked + Ceiling /\ Goto(c, "preparing")
          /\ UNCHANGED <<owner, onFile, charged, escaped, billed, sent>>
       \/ ~HasCapacity /\ Refused(c)
    /\ UNCHANGED <<provider, wants, working, session, states>>

\* fault: an operation is remembered when it has succeeded
SendKleinForgetting(c) == /\ booked' = booked + Ceiling
                          /\ Send(c)
                          /\ UNCHANGED <<attempted, escaped>>
\* KleinSceneProvider._call once the session is authorized: booked for good,
\* remembered, sent.
SendKlein(c) == /\ booked' = booked + Ceiling
                /\ attempted' = attempted \cup {wants[c]}
                /\ Send(c)
                /\ UNCHANGED escaped

\* A prewarm that is still warm is answered at once; any other forgets the last.
EnterKlein(c) ==
    /\ Is("klein") /\ pc[c] = "waiting" /\ owner = Nobody
    /\ \/ StillWarm(c) /\ Refused(c) /\ UNCHANGED <<warm, attempted>>
       \/ /\ ~StillWarm(c)
          /\ warm' = IF wants[c] = Warmup THEN "cold" ELSE warm
          /\ \/ /\ ~HasCapacity \/ wants[c] \in attempted
                /\ Refused(c) /\ UNCHANGED attempted
             \/ /\ HasCapacity /\ wants[c] \notin attempted /\ authorized
                /\ owner' = c /\ SendKlein(c) /\ UNCHANGED onFile
             \/ /\ HasCapacity /\ wants[c] \notin attempted /\ ~authorized
                /\ owner' = c /\ Goto(c, "preparing")
                /\ UNCHANGED <<attempted, onFile, money>>
    /\ UNCHANGED <<provider, wants, working, session, stopped, authorized>>

\* PreparedKleinProvider: a lease is prepared once, a scene asked for while it
\* lasts, and each is claimed on disk before anything is sent.
MayClaim(c) ==
    /\ ~stopped /\ onFile[wants[c]] = 0
    /\ IF wants[c] = Warmup THEN warm = "cold" ELSE warm = "warm" /\ HasCapacity

EnterPrepared(c) ==
    /\ Is("prepared") /\ pc[c] = "waiting" /\ owner = Nobody
    /\ \/ /\ MayClaim(c)
          /\ onFile' = [onFile EXCEPT ![wants[c]] = Ceiling]
          /\ booked' = booked + Price(c)
          /\ owner' = c /\ Send(c) /\ UNCHANGED escaped
       \/ Refused(c)    \* also when the output directory exists
    /\ UNCHANGED <<provider, wants, working, session, states>>

----------------------------------------------------------------------------
(* Between the lock and the request.                                       *)

\* What a call that sends nothing does to the session's account: Cloud Run
\* keeps the ceiling, whatever went wrong; the finite provider takes it back.
Unsent == /\ booked' = IF Is("cloud_run") THEN booked + Ceiling
                      ELSE IF Is("modal") THEN booked - Ceiling ELSE booked
          /\ UNCHANGED <<charged, escaped, billed, sent>>

\* The access token and the client are ready, or they cannot be had.
Token(c) ==
    /\ provider \in {"cloud_run", "vertex"} /\ pc[c] = "preparing"
    /\ \/ ~stopped /\ Send(c) /\ UNCHANGED <<owner, booked, escaped>>
       \/ Leave(c) /\ Unsent
    /\ UNCHANGED <<provider, wants, working, onFile, session, states>>

\* _reserve_against_current_billing: the billed total, then a thread.
ReadBilling(c) ==
    /\ provider \in {"modal", "klein"} /\ pc[c] = "preparing"
    /\ \/ /\ Goto(c, "reserving") /\ working' = working \cup {c}
          /\ UNCHANGED <<owner, money>>
       \/ Leave(c) /\ Unsent /\ UNCHANGED working
    /\ UNCHANGED <<provider, wants, onFile, session, states>>

EntryOf(c) == IF Is("klein") THEN Session ELSE wants[c]

\* The thread ends, also when its caller was cancelled; the ledger refuses an
\* entry it has, and any other when the money is short.
Authorized(c) ==
    /\ c \in working /\ working' = working \ {c}
    /\ onFile[EntryOf(c)] = 0
    /\ onFile' = [onFile EXCEPT ![EntryOf(c)] = IF Is("klein") THEN Cap ELSE Ceiling]
    /\ \/ /\ pc[c] = "reserving" /\ Is("klein")
          /\ authorized' = TRUE /\ SendKlein(c)
       \/ /\ pc[c] = "reserving" /\ Is("modal")
          /\ Send(c) /\ UNCHANGED <<booked, escaped, authorized, attempted>>
       \/ /\ pc[c] # "reserving"
          /\ UNCHANGED <<pc, authorized, attempted, money>>
    /\ UNCHANGED <<provider, wants, owner, session, warm, stopped>>

Unauthorized(c) ==
    /\ c \in working /\ working' = working \ {c}
    /\ IF pc[c] = "reserving" THEN Leave(c) /\ Unsent ELSE UNCHANGED <<pc, owner, money>>
    /\ UNCHANGED <<provider, wants, onFile, session, states>>

----------------------------------------------------------------------------
(* After the request.                                                      *)

VertexAnswers(c) ==
    /\ Is("vertex") /\ pc[c] = "posting"
    /\ booked' = booked + Ceiling /\ Goto(c, "packaging")
    /\ UNCHANGED <<provider, wants, owner, working, onFile, session, states,
                   charged, escaped, billed, sent>>

\* HTTP 200 without a usable image, and a transport that failed after the
\* request went out: billable, booked, and nothing to show for it.
VertexAnswersBadly(c) ==
    /\ Is("vertex") /\ pc[c] = "posting"
    /\ booked' = booked + Ceiling /\ Leave(c)
    /\ UNCHANGED <<provider, wants, working, onFile, session, states,
                   charged, escaped, billed, sent>>

\* An explicit HTTP error is not billed; the router may try another route.
VertexRejects(c) ==
    /\ Is("vertex") /\ pc[c] = "posting"
    /\ Costs(c, 0) /\ Leave(c)
    /\ UNCHANGED <<provider, wants, working, onFile, session, states,
                   booked, escaped, sent>>

\* Around Vertex's POST only httpx's errors are caught: a cancellation, like any
\* other exception, leaves while the request may be running, unbooked.
VertexInterrupted(c) ==
    /\ Is("vertex") /\ pc[c] = "posting"
    /\ escaped' = escaped + Ceiling /\ Leave(c)
    /\ UNCHANGED <<provider, wants, working, onFile, session, states,
                   booked, charged, billed, sent>>

\* Cloud Run books the time the request took.  httpx bounds each wait for data
\* and not the whole request; an answer that came so late that it does not fit
\* is refused, and not booked.
CloudRunAnswers(c) ==
    /\ Is("cloud_run") /\ pc[c] = "posting"
    /\ \E cost \in 0..(Ceiling + Overrun) :
         /\ Costs(c, cost)
         /\ \/ /\ booked + cost <= Cap
               /\ booked' = booked + cost /\ UNCHANGED escaped
               /\ IF wants[c] = Warmup
                  THEN Leave(c) /\ warm' \in {warm, "warm"}
                  ELSE /\ Leave(c) \/ (Goto(c, "packaging") /\ UNCHANGED owner)
                       /\ UNCHANGED warm
            \/ /\ booked + cost > Cap
               /\ escaped' = escaped + cost
               /\ Leave(c) /\ UNCHANGED <<booked, warm>>
    /\ UNCHANGED <<provider, wants, working, onFile, session, stopped,
                   authorized, attempted, sent>>

\* fault: only the errors that httpx raises are booked, no cancellation
CloudRunFailsAsVertex(c) ==
    /\ Is("cloud_run") /\ pc[c] = "posting"
    /\ booked' \in {booked, booked + Ceiling} /\ Leave(c)
    /\ UNCHANGED <<provider, wants, working, onFile, session, states,
                   charged, escaped, billed, sent>>
\* Any exception, a cancellation included: the ceiling is kept.
CloudRunFails(c) ==
    /\ Is("cloud_run") /\ pc[c] = "posting"
    /\ booked' = booked + Ceiling /\ Leave(c)
    /\ UNCHANGED <<provider, wants, working, onFile, session, states,
                   charged, escaped, billed, sent>>

\* The files are written in a worker thread; the money is gone either way.
Packaged(c) ==
    /\ pc[c] = "packaging" /\ Leave(c)
    /\ UNCHANGED <<provider, wants, working, onFile, session, states, money>>

\* Klein's call ends in any way; after a cold start, a bundle that does not
\* verify or a failure the renderer is not taken for warm.
KleinEnds(c) ==
    /\ Is("klein") /\ pc[c] = "posting" /\ Leave(c)
    /\ warm' \in {"cold", IF wants[c] = Warmup THEN "warm" ELSE warm}
    /\ UNCHANGED <<provider, wants, working, onFile, session, stopped,
                   authorized, attempted, money>>

\* The prepared provider verifies the lease with every answer; whatever fails
\* or is cancelled ends the session for good.
PreparedEnds(c) ==
    /\ Is("prepared") /\ pc[c] = "posting" /\ Leave(c)
    /\ \/ wants[c] = Warmup /\ warm' = "warm" /\ UNCHANGED stopped
       \/ wants[c] # Warmup /\ warm = "warm" /\ UNCHANGED <<warm, stopped>>
       \/ stopped' = TRUE /\ UNCHANGED warm
    /\ UNCHANGED <<provider, wants, working, onFile, session, authorized,
                   attempted, money>>

\* The command of the finite provider settles its own ledger entry.
ModalSettles(c) ==
    /\ Is("modal") /\ pc[c] = "posting" /\ Leave(c)
    /\ \E cost \in 1..Ceiling :
         /\ Costs(c, cost)
         /\ onFile' = [onFile EXCEPT ![wants[c]] = cost]
         /\ booked' \in {booked, booked - Ceiling + cost}
    /\ UNCHANGED <<provider, wants, working, session, states, escaped, sent>>

\* It fails, is killed after its time or with its caller: everything stays reserved.
ModalFails(c) ==
    /\ Is("modal") /\ pc[c] = "posting" /\ Leave(c)
    /\ UNCHANGED <<provider, wants, working, onFile, session, states, money>>

----------------------------------------------------------------------------
(* A newer page supersedes the scene: its call is cancelled, before the    *)
(* request, or while it is packaged.                                       *)
Cancel(c) ==
    /\ pc[c] \in {"waiting", "preparing", "reserving", "packaging"}
    /\ Leave(c)
    /\ IF pc[c] \in {"preparing", "reserving"} THEN Unsent ELSE UNCHANGED money
    /\ UNCHANGED <<provider, wants, working, onFile, session, states>>

Expire == /\ warm = "warm"
          /\ warm' = IF Is("prepared") THEN "expired" ELSE "cold"
          /\ UNCHANGED <<provider, pc, wants, owner, working, onFile, session,
                         stopped, authorized, attempted, money>>

\* aclose: the prepared provider starts its closing task and lets the request
\* under way end; the others do not refuse calls afterwards.
Close == /\ provider \in {"vertex", "prepared"} /\ ~stopped /\ stopped' = TRUE
         /\ UNCHANGED <<provider, pc, wants, owner, working, onFile, session,
                        warm, authorized, attempted, money>>

\* The process dies and another one begins a session; what is on disk stays,
\* under the new session's name there is nothing.
Restart ==
    /\ session < MaxSessions /\ session' = session + 1
    /\ pc' = [c \in Call |-> IF pc[c] = "idle" THEN "idle" ELSE "done"]
    /\ owner' = Nobody /\ working' = {}
    /\ booked' = 0 /\ charged' = 0 /\ escaped' = 0
    /\ warm' = "cold" /\ stopped' = FALSE /\ authorized' = FALSE /\ attempted' = {}
    /\ onFile' = [onFile EXCEPT ![Session] = 0]
    /\ UNCHANGED <<provider, wants, billed, sent>>

Next == \/ Expire \/ Close \/ Restart
        \/ \E c \in Call :
             \/ Begin(c) \/ Enter(c) \/ EnterModal(c) \/ EnterKlein(c)
             \/ EnterPrepared(c) \/ Token(c) \/ ReadBilling(c)
             \/ Authorized(c) \/ Unauthorized(c)
             \/ VertexAnswers(c) \/ VertexAnswersBadly(c) \/ VertexRejects(c)
             \/ VertexInterrupted(c) \/ CloudRunAnswers(c) \/ CloudRunFails(c)
             \/ Packaged(c) \/ KleinEnds(c) \/ PreparedEnds(c)
             \/ ModalSettles(c) \/ ModalFails(c) \/ Cancel(c)

Spec == Init /\ [][Next]_vars

----------------------------------------------------------------------------
\* Every variable keeps its type.
TypeOK ==
    /\ provider \in {"modal", "cloud_run", "vertex", "klein", "prepared"}
    /\ pc \in [Call -> Pc] /\ wants \in [Call -> Request]
    /\ owner \in Call \cup {Nobody} /\ warm \in {"cold", "warm", "expired"}
    /\ stopped \in BOOLEAN /\ authorized \in BOOLEAN
    /\ attempted \subseteq Request /\ working \subseteq Call
    /\ onFile \in [Entry -> Nat] /\ session \in Nat
    /\ booked \in Int /\ charged \in Int /\ escaped \in Nat
    /\ billed \in [Request -> Int]
    /\ sent \subseteq Nat \X Call \X Request

\* Whatever may have been billed, with the requests on their way, is covered:
\* by the session's cap, except for the requests that are known to escape it
\* (interrupted at Vertex, answered too late at Cloud Run), and where there is a
\* ledger by what is written in it, whoever was cancelled or died meanwhile.
BilledIsCovered ==
    /\ charged <= Cap + escaped
    /\ Is("klein") => charged <= onFile[Session]
    /\ Is("modal") => \A r \in Request : billed[r] <= onFile[r]

\* A request is not paid for twice: by the finite and the prepared provider in
\* no process, by a Klein session not in its lifetime, whatever failed, was
\* cancelled or died in between.
ScenePaidOnce ==
    \A a, b \in sent :
       /\ a[3] = b[3]
       /\ \/ provider \in {"modal", "prepared"}
          \/ Is("klein") /\ a[1] = b[1]
       => a = b

----------------------------------------------------------------------------
(* The strengthening that makes the two inductive.                         *)

\* Who is between the lock and its release holds it; only the finite provider
\* has none, and each provider knows only its own places to wait at.
LockHeldInside ==
    /\ ~Is("modal") => \A c \in Call : pc[c] \in Inside => owner = c
    /\ Is("modal") => owner = Nobody
    /\ \A c \in Call :
         /\ pc[c] = "preparing" => ~Is("prepared")
         /\ pc[c] = "reserving" => provider \in {"modal", "klein"}
         /\ pc[c] = "packaging" => provider \in {"vertex", "cloud_run"}
    /\ working # {} => provider \in {"modal", "klein"}

\* Booked after the answer: the one call under way still has the room it found.
BookedAfter ==
    provider \in {"vertex", "cloud_run"} =>
      /\ booked <= Cap
      /\ charged <= booked + escaped + Ceiling
      /\ (\A c \in Call : pc[c] # "posting") => charged <= booked + escaped
      /\ \A c \in Call : pc[c] \in {"preparing", "posting"} => HasCapacity

\* Booked before the request, and for a Klein session only once it is on file.
BookedBefore ==
    provider \in {"klein", "prepared"} =>
      /\ charged <= booked /\ booked <= Cap
      /\ Is("klein") =>
           /\ authorized => onFile[Session] = Cap
           /\ charged > 0 => authorized
           /\ \A c \in Call : pc[c] \in {"preparing", "reserving"} =>
                HasCapacity /\ wants[c] \notin attempted

\* The finite provider's calls overlap: what those hold that have sent nothing
\* is booked besides, and each request on its way has its entry on file.
Unposted == {c \in Call : pc[c] \in {"preparing", "reserving"}}
BookedMeanwhile ==
    Is("modal") =>
      /\ booked <= Cap
      /\ charged + Ceiling * Cardinality(Unposted) <= booked
      /\ \A r \in Request : /\ billed[r] <= onFile[r]
                            /\ onFile[r] = 0 => billed[r] = 0
      /\ \A c \in Call : pc[c] = "posting" =>
           onFile[wants[c]] = Ceiling /\ billed[wants[c]] = Ceiling
      /\ \A c, d \in Call : pc[c] = "posting" /\ pc[d] = "posting" /\ wants[c] = wants[d]
                               => c = d

\* Whatever was sent is remembered where the next call looks.
SentIsRemembered ==
    \A x \in sent :
      /\ x[1] <= session
      /\ provider \in {"modal", "prepared"} => onFile[x[3]] > 0
      /\ Is("klein") /\ x[1] = session => x[3] \in attempted

IInv == /\ TypeOK /\ LockHeldInside /\ BookedAfter /\ BookedBefore
        /\ BookedMeanwhile /\ SentIsRemembered /\ ScenePaidOnce

----------------------------------------------------------------------------
\* docs/benchmarks/vertex-artwork-latency.md:24: "a session-local cost
\* reservation blocks further calls before the configured cap is crossed".
SpendWithinCap == charged <= Cap

\* A Klein session that has its entry in the ledger can go on: its next call is
\* not refused for an entry that a cancelled call has left.
SessionGoesOn == Is("klein") /\ onFile[Session] # 0 => authorized
============================================================================
