---------------------------- MODULE SceneRouter ----------------------------
(***************************************************************************)
(* ResilientFastSceneProvider (provider_router.py): one ordered list of    *)
(* paid renderers behind readiness probes, short circuits and a cache of   *)
(* recent readiness.  Calls run concurrently on one event loop; a step is  *)
(* the code between two awaits (the provider's lock is held across no      *)
(* await, so it never adds one).  Worker threads search, copy and rewrite  *)
(* bundles on disk; one that goes on after its caller is cancelled is      *)
(* followed to its end before the call counts as cancelled.  Clocks are    *)
(* counted down in ticks.                                                  *)
(***************************************************************************)
EXTENDS Integers, FiniteSets

CONSTANTS Call,        \* callers of generate_fast and of probe / warm_status
          Scene,       \* what a request asks for (prompt hash, seed, size)
          Dir,         \* the scene directories of one output root
          Dest,        \* the output_dir a call may be given: Call -> SUBSET Dir
          Kept,        \* how many other manifests a search looks at: 128
          Foreign,     \* the scenes of bundles that others leave there
          Nothing,     \* marks a directory without a manifest
          Routes,      \* how many routes there are; 1 is the preferred one
          Named,       \* the routes whose manifests identify the request
          Unnamed,     \* what the manifests of the other routes identify
          Cooldown,    \* failure_cooldown_seconds, in ticks
          HealthyTtl,  \* healthy_probe_ttl_seconds, in ticks
          RetryAfter,  \* the delays a rate-limited provider may ask for
          MaxGenerating \* paid requests in progress: one (serializes_paid_jobs),
                        \* two while a cancelled one is still unwinding

\* What a manifest may say that it is a bundle of.
Manifests == Scene \cup Foreign \cup {Unnamed}

ASSUME RoutesAssumption == Routes \in Nat \ {0} /\ Scene # {}
ASSUME StoreAssumption ==
    /\ IsFiniteSet(Dir) /\ Kept \in Nat \ {0}
    /\ \A c \in Call : Dest[c] \subseteq Dir /\ Dest[c] # {}
    /\ Nothing \notin Manifests /\ Unnamed \notin Scene
ASSUME ClockAssumption ==
    /\ Cooldown \in Nat \ {0} /\ HealthyTtl \in Nat \ {0}
    /\ RetryAfter \subseteq Nat /\ IsFiniteSet(RetryAfter)
    /\ MaxGenerating \in Nat \ {0}

VARIABLES open,      \* _unavailable_until, as ticks to go
          warm,      \* _healthy_until, as ticks to go
          epoch,     \* _readiness_epoch
          conn,      \* _connection_task
          call,      \* where each call is
          made,      \* directories that exist
          holds,     \* what each directory's manifest says
          newer,     \* the manifests written after each directory's (st_mtime)
          closed,    \* _closed
          attempt,   \* history: how each call's use of each route went
          doubted    \* history: probes older than their route's last failure

readiness == <<open, warm, epoch>>
store == <<made, holds, newer>>
vars == <<readiness, conn, call, store, closed, attempt, doubted>>

Route == 1 .. Routes
Connection == "connection"
ASSUME ConnectionAssumption == Connection \notin Call
Searching == {"listing", "reading", "copying"}
Pc == Searching \cup {"idle", "gate", "joining", "probing", "generating",
                      "recording", "done"}
Result == {"none", "served", "unavailable", "failed"}
CallRecord == [kind : {"probe", "generate"}, scene : Scene, dest : Dir, pc : Pc,
               at : 1 .. Routes + 1, epoch : Nat, result : Result,
               listed : SUBSET Dir,  \* the candidates of its search
               before : SUBSET Call, \* history: paid for the scene already
               missed : SUBSET Dir]  \* history: theirs, and not looked into
Outcome == {"none", "running", "safe", "paid", "ambiguous"}
Billable == {"running", "paid", "ambiguous"}

NewCall(c) == [kind |-> "probe", scene |-> CHOOSE s \in Scene : TRUE,
               dest |-> CHOOSE d \in Dest[c] : TRUE, pc |-> "idle", at |-> 1,
               epoch |-> 0, result |-> "none", listed |-> {}, before |-> {},
               missed |-> {}]

NoConnection == [pc |-> "none", epoch |-> 0]

Init == /\ open = [r \in Route |-> 0]
        /\ warm = [r \in Route |-> 0]
        /\ epoch = [r \in Route |-> 0]
        /\ conn = NoConnection
        /\ call = [c \in Call |-> NewCall(c)]
        /\ made = {}
        /\ holds = [d \in Dir |-> Nothing]
        /\ newer = [d \in Dir |-> {}]
        /\ closed = FALSE
        /\ attempt = [c \in Call |-> [r \in Route |-> "none"]]
        /\ doubted = {}

Connecting == conn.pc # "none"
Observers(r) == {c \in Call : call[c].pc = "probing" /\ call[c].at = r}
                \cup (IF r = 1 /\ conn.pc = "heading" THEN {Connection} ELSE {})

----------------------------------------------------------------------------
(* The three ways a step changes what is known of a route. *)

\* fault: an observed success overrides whatever happened meanwhile
MayMarkAlways(r, seen) == TRUE
\* _mark_healthy with expected_epoch: only if nothing failed since the look.
MayMark(r, seen) == epoch[r] = seen

Mark(r) == /\ open' = [open EXCEPT ![r] = 0]
           /\ warm' = [warm EXCEPT ![r] = HealthyTtl]
           /\ UNCHANGED epoch

\* The route failed a call: everyone else who is looking at it looked too soon.
Failed(c, r) == /\ warm' = [warm EXCEPT ![r] = 0]
                /\ epoch' = [epoch EXCEPT ![r] = @ + 1]
                /\ doubted' = (doubted \cup Observers(r)) \ {c}

Invalidate(c) == Failed(c, call[c].at) /\ UNCHANGED open
MarkUnavailable(c, ticks) ==
    Failed(c, call[c].at) /\ open' = [open EXCEPT ![call[c].at] = ticks]

----------------------------------------------------------------------------
(* The walk of one call along the routes. *)

\* What a step looked at is forgotten with the function that looked.
Moved(c, pc) == [call[c] EXCEPT !.pc = pc, !.epoch = 0, !.listed = {}]
At(c, pc) == call' = [call EXCEPT ![c] = Moved(c, pc)]
Finish(c, result) == call' = [call EXCEPT ![c] = [Moved(c, "done") EXCEPT !.result = result]]

\* fault: keep cycling through the routes until one is ready
NextRouteCyclic(c) ==
    call' = [call EXCEPT ![c] = [Moved(c, "gate") EXCEPT !.at = IF @ = Routes THEN 1 ELSE @ + 1]]
NextRoute(c) == call' = [call EXCEPT ![c] = [Moved(c, "gate") EXCEPT !.at = @ + 1]]

\* A ready route is used in the same step: no await lies between the gate and
\* the start of the paid request.
Ready(c, r) ==
    IF call[c].kind = "generate"
    THEN /\ At(c, "generating")
         /\ attempt' = [attempt EXCEPT ![c][r] = "running"]
    ELSE Finish(c, "served") /\ UNCHANGED attempt

\* The cached answer of the gate: circuit first, then readiness, else look.
ReadCache(c, r) ==
    /\ \/ /\ open[r] > 0
          /\ NextRoute(c)
          /\ UNCHANGED <<attempt, doubted>>
       \/ /\ open[r] = 0 /\ warm[r] > 0
          /\ Ready(c, r)
          /\ UNCHANGED doubted
       \/ /\ open[r] = 0 /\ warm[r] = 0
          /\ call' = [call EXCEPT ![c].pc = "probing", ![c].epoch = epoch[r]]
          /\ doubted' = doubted \ {c}
          /\ UNCHANGED attempt
    /\ UNCHANGED <<readiness, conn, store, closed>>

Paying == {c \in Call : call[c].kind = "generate" /\ call[c].pc \notin {"idle", "done"}}
Payers(s) == {c \in Call : call[c].scene = s /\ \E r \in Route : attempt[c][r] = "paid"}
Unmarked(b) == \E r \in Route \ Named : attempt[b][r] = "paid"

\* probe and warm_status walk the routes and pay for nothing.
BeginProbe(c) ==
    /\ call[c].pc = "idle"
    /\ At(c, "gate")
    /\ UNCHANGED <<readiness, conn, store, closed, attempt, doubted>>

\* generate_fast looks for the scene on disk first, in a worker thread.
BeginGenerate(c) ==
    /\ call[c].pc = "idle" /\ Cardinality(Paying) < MaxGenerating
    /\ \E s \in Scene, d \in Dest[c] :
         call' = [call EXCEPT ![c] =
                    [@ EXCEPT !.kind = "generate", !.scene = s, !.dest = d,
                              !.pc = "listing", !.before = Payers(s)]]
    /\ UNCHANGED <<readiness, conn, store, closed, attempt, doubted>>

----------------------------------------------------------------------------
(* The worker threads of a call and the bundles on disk. *)

\* Vertex writes the hashes _request_identity_matches compares, Cloud Run and
\* Modal write the request itself, which matches no request.
Manifest(r, scene) == IF r \in Named THEN scene ELSE Unnamed

\* The manifest of a directory is replaced: it is the newest one now.
Write(d, manifest) ==
    /\ holds' = [holds EXCEPT ![d] = manifest]
    /\ newer' = [e \in Dir |-> IF e = d \/ holds[e] = Nothing THEN {}
                               ELSE newer[e] \cup {d}]
Make(d) == made' = made \cup {d}

\* The manifests beyond the newest Kept, the call's own not counted.
Saved == {d \in Dir : holds[d] # Nothing}
Hidden(dest) == {d \in Saved \ {dest} : Cardinality(newer[d] \ {dest}) >= Kept}

\* Where the requests lie that were paid for this call's scene before it began.
Paid(c) == {call[b].dest : b \in call[c].before}

\* _recover_exact_bundle chooses its candidates; a manifest that goes away
\* under stat() ends it with an error no clause takes.
List(c) ==
    /\ call[c].pc = "listing"
    /\ LET hidden == Hidden(call[c].dest) IN
         \/ call' = [call EXCEPT ![c].pc = "reading", ![c].listed = Saved \ hidden,
                                 ![c].missed = hidden \cap Paid(c)]
         \/ Finish(c, "failed")
    /\ UNCHANGED <<readiness, conn, store, closed, attempt, doubted>>

\* fault: only the request's own directory is looked at
UsableOwn(c, unread) ==
    {d \in (call[c].listed \ unread) \cap {call[c].dest} : holds[d] = call[c].scene}
\* The candidates that load and match; what does not load now is skipped.
Usable(c, unread) == {d \in call[c].listed \ unread : holds[d] = call[c].scene}

\* The candidates are read: the call's own bundle is returned as it is,
\* another is copied, and a directory left without a usable one is refused.
Read(c) ==
    /\ call[c].pc = "reading"
    /\ \E unread \in SUBSET call[c].listed :
         LET dest == call[c].dest
             usable == Usable(c, unread)
         IN \/ /\ dest \in usable
               /\ Finish(c, "served")
               /\ UNCHANGED made
            \/ /\ dest \notin usable /\ dest \in made
               /\ Finish(c, "failed")
               /\ UNCHANGED made
            \/ /\ dest \notin made /\ usable # {}
               /\ At(c, "copying")
               /\ Make(dest)
            \/ /\ dest \notin made /\ usable = {}
               /\ call' = [call EXCEPT ![c] = [Moved(c, "gate") EXCEPT
                                       !.missed = @ \cup (unread \cap Paid(c))]]
               /\ UNCHANGED made
    /\ UNCHANGED <<readiness, conn, holds, newer, closed, attempt, doubted>>

\* _copy_recovered_bundle writes its manifest last and loads the copy; when it
\* fails, the directory stays, with or without one.
Copy(c) ==
    /\ call[c].pc = "copying"
    /\ Write(call[c].dest, call[c].scene) \/ UNCHANGED <<holds, newer>>
    /\ \E result \in {"served", "failed"} :
         /\ result = "served" => holds'[call[c].dest] = call[c].scene
         /\ Finish(c, result)
    /\ UNCHANGED <<readiness, conn, made, closed, attempt, doubted>>

\* Another process, or an earlier run of this one, leaves a bundle behind.
OtherBundle(d) ==
    /\ d \notin made /\ \A c \in Call : d \notin Dest[c]
    /\ Make(d)
    /\ \E scene \in Foreign : Write(d, scene)
    /\ UNCHANGED <<readiness, conn, call, closed, attempt, doubted>>

----------------------------------------------------------------------------
(* The gate of a route and its probe. *)

Gate(c) ==
    /\ call[c].pc = "gate"
    /\ LET r == call[c].at IN
         \/ /\ r > Routes
            /\ Finish(c, "unavailable")
            /\ UNCHANGED <<readiness, conn, store, closed, attempt, doubted>>
         \/ /\ r = 1 /\ Connecting
            /\ At(c, "joining")
            /\ UNCHANGED <<readiness, conn, store, closed, attempt, doubted>>
         \/ /\ r <= Routes /\ ~(r = 1 /\ Connecting)
            /\ ReadCache(c, r)

\* The joined connection ended: the cache is read without a second look at it.
Joined(c) == /\ call[c].pc = "joining" /\ ~Connecting
             /\ ReadCache(c, 1)

\* The probe timeout covers the join as well as the route's own probe; so do
\* the clauses for a probe that fails or says no.
ProbeFails(c) ==
    /\ call[c].pc \in {"joining", "probing"}
    /\ MarkUnavailable(c, Cooldown)
    /\ NextRoute(c)
    /\ UNCHANGED <<conn, store, closed, attempt>>

ProbePasses(c) ==
    LET r == call[c].at IN
    /\ call[c].pc = "probing"
    /\ IF MayMark(r, call[c].epoch)
       THEN Mark(r) /\ Ready(c, r)
       ELSE NextRoute(c) /\ UNCHANGED <<readiness, attempt>>
    /\ doubted' = doubted \ {c}
    /\ UNCHANGED <<conn, store, closed>>

----------------------------------------------------------------------------
(* The paid request of a call on the route it stands at. *)

Bill(c, outcome) == attempt' = [attempt EXCEPT ![c][call[c].at] = outcome]

\* The provider has written the bundle; the success reopens the route with no
\* regard to its epoch, and the evidence is recorded in a worker thread.
GenerateSucceeds(c) ==
    /\ call[c].pc = "generating" /\ call[c].dest \notin made
    /\ Make(call[c].dest)
    /\ Write(call[c].dest, Manifest(call[c].at, call[c].scene))
    /\ Mark(call[c].at)
    /\ Bill(c, "paid")
    /\ At(c, "recording")
    /\ UNCHANGED <<conn, closed, doubted>>

\* SafeProviderFallbackError: nothing was billed, the next route may try.
GenerateRejected(c) ==
    /\ call[c].pc = "generating"
    /\ MarkUnavailable(c, Cooldown)
    /\ Bill(c, "safe")
    /\ NextRoute(c)
    /\ UNCHANGED <<conn, store, closed>>

\* SafeProviderRateLimitError: the provider names the delay itself.
GenerateLimited(c) ==
    /\ call[c].pc = "generating"
    /\ \E delay \in RetryAfter : MarkUnavailable(c, delay)
    /\ NextRoute(c) /\ Bill(c, "safe")
    /\ UNCHANGED <<conn, store, closed>>

\* fault: an unavailable provider is treated as one that billed nothing
GenerateAmbiguousFallsBack(c) ==
    /\ call[c].pc = "generating"
    /\ Invalidate(c) /\ Bill(c, "ambiguous") /\ NextRoute(c)
    /\ UNCHANGED <<conn, store, closed>>
\* What a paid request that failed leaves in its directory.
Leavings(c) ==
    \/ UNCHANGED store
    \/ /\ call[c].dest \notin made /\ Make(call[c].dest)
       /\ \/ UNCHANGED <<holds, newer>>
          \/ Write(call[c].dest, Manifest(call[c].at, call[c].scene))

\* Any other end, a cancellation included: the request may have been billed,
\* so no route is tried after it.
GenerateAmbiguous(c) ==
    /\ call[c].pc = "generating"
    /\ Invalidate(c)
    /\ Bill(c, "ambiguous")
    /\ Finish(c, "failed")
    /\ Leavings(c)
    /\ UNCHANGED <<conn, closed>>

\* _record_routing_evidence replaces the manifest by one that says which route
\* was taken, and so makes it the newest; or it fails and leaves the first.
Record(c) ==
    /\ call[c].pc = "recording"
    /\ \/ /\ Write(call[c].dest, Manifest(call[c].at, call[c].scene))
          /\ \E result \in {"served", "failed"} : Finish(c, result)
       \/ Finish(c, "failed") /\ UNCHANGED <<holds, newer>>
    /\ UNCHANGED <<readiness, conn, made, closed, attempt, doubted>>

\* A caller is cancelled where nothing is paid for or written: no route is
\* marked.  (Elsewhere its thread goes on: GenerateAmbiguous, Copy and Record.)
Cancel(c) ==
    /\ call[c].pc \in {"listing", "reading", "joining", "probing"}
    /\ Finish(c, "failed")
    /\ doubted' = doubted \ {c}
    /\ UNCHANGED <<readiness, conn, store, closed, attempt>>

----------------------------------------------------------------------------
(* prepare_connection: one optional probe of the preferred route, shared.   *)

Prepare ==
    /\ ~closed /\ ~Connecting
    /\ conn' = [conn EXCEPT !.pc = "started"]
    /\ UNCHANGED <<readiness, call, store, closed, attempt, doubted>>

ConnectionLooks ==
    /\ conn.pc = "started"
    /\ \/ /\ open[1] > 0 \/ warm[1] > 0
          /\ conn' = NoConnection
          /\ UNCHANGED doubted
       \/ /\ open[1] = 0 /\ warm[1] = 0
          /\ conn' = [pc |-> "heading", epoch |-> epoch[1]]
          /\ doubted' = doubted \ {Connection}
    /\ UNCHANGED <<readiness, call, store, closed, attempt>>

\* A failed or outdated preconnect marks nothing.
ConnectionEnds ==
    /\ conn.pc = "heading"
    /\ conn' = NoConnection
    /\ \/ MayMark(1, conn.epoch) /\ Mark(1)
       \/ UNCHANGED readiness
    /\ doubted' = doubted \ {Connection}
    /\ UNCHANGED <<call, store, closed, attempt>>

\* aclose cancels the shared connection and with it every call that joined it.
Close ==
    /\ ~closed
    /\ closed' = TRUE
    /\ conn' = NoConnection
    /\ call' = [c \in Call |-> IF call[c].pc = "joining"
                               THEN [call[c] EXCEPT !.pc = "done", !.result = "failed"]
                               ELSE call[c]]
    /\ doubted' = doubted \ {Connection}
    /\ UNCHANGED <<readiness, store, attempt>>

Down(clock) == [r \in Route |-> IF clock[r] = 0 THEN 0 ELSE clock[r] - 1]
Tick ==
    /\ \E r \in Route : open[r] + warm[r] > 0
    /\ open' = Down(open) /\ warm' = Down(warm)
    /\ UNCHANGED <<epoch, conn, call, store, closed, attempt, doubted>>

----------------------------------------------------------------------------
Walk(c) == \/ List(c) \/ Read(c) \/ Copy(c) \/ Record(c)
           \/ Gate(c) \/ Joined(c) \/ ProbeFails(c) \/ ProbePasses(c)
           \/ GenerateSucceeds(c) \/ GenerateRejected(c) \/ GenerateLimited(c)
           \/ GenerateAmbiguous(c)
Shared == ConnectionLooks \/ ConnectionEnds

Next == \/ \E c \in Call : BeginProbe(c) \/ BeginGenerate(c) \/ Walk(c) \/ Cancel(c)
        \/ \E d \in Dir : OtherBundle(d)
        \/ Prepare \/ Shared \/ Close \/ Tick

Spec == Init /\ [][Next]_vars

\* Probes, paid requests and file work all end: each has a timeout of its own
\* (probe_timeout_seconds, the providers' HTTP and subprocess timeouts).
FairSpec == Spec /\ \A c \in Call : WF_vars(Walk(c))
----------------------------------------------------------------------------
\* Clocks and epochs never run below zero, and only calls and the shared
\* preconnect are ever held to have looked before a failure.
TypeOK == /\ open \in [Route -> Nat] /\ warm \in [Route -> Nat]
          /\ epoch \in [Route -> Nat]
          /\ conn \in [pc : {"none", "started", "heading"}, epoch : Nat]
          /\ call \in [Call -> CallRecord]
          /\ made \subseteq Dir
          /\ holds \in [Dir -> Manifests \cup {Nothing}]
          /\ newer \in [Dir -> SUBSET Dir]
          /\ closed \in BOOLEAN
          /\ attempt \in [Call -> [Route -> Outcome]]
          /\ doubted \subseteq Call \cup {Connection}

\* "Fail over before billing, never after an ambiguous paid request": of all
\* the routes a call ever starts, at most one can have billed it, and when one
\* may have, the call stands there and goes no further. A call that is told
\* "unavailable", and so may be made again, was billed by nobody.
OnePossibleBill ==
    \A c \in Call :
      LET may == {r \in Route : attempt[c][r] \in Billable} IN
      /\ Cardinality(may) <= 1
      /\ \A r \in may : call[c].at = r /\ call[c].pc \in {"generating", "recording", "done"}
      /\ call[c].result = "unavailable" => may = {}

\* "Reuse a completed paid bundle": a request repeated after an earlier one was
\* paid is billed again only in another directory, and only if its search never
\* looked into the bundle, which lies behind Kept newer manifests or could not
\* be read, or if the route that was paid identified no request.  A directory
\* that was paid for once is never paid for again.
RetryFindsTheBundle ==
    \A c \in Call : \A b \in call[c].before :
      (\E r \in Route : attempt[c][r] # "none")
        => /\ call[b].dest # call[c].dest
           /\ call[b].dest \in call[c].missed \/ Unmarked(b)

\* What "reuse a completed paid bundle after local packaging failed" promises of
\* any repeated request; the code keeps it within the bounds named above only.
PaidSceneIsFound ==
    \A c \in Call : call[c].before # {} => \A r \in Route : attempt[c][r] = "none"

\* A route is held open or warm by the newest evidence: a probe that set out
\* before the route's last failure neither closes the circuit nor starts a
\* paid request, and a preconnect that did marks nothing.
StaleProbeChangesNothing ==
    [][/\ \A c \in Call \cap doubted :
            LET r == call[c].at IN
            call[c].pc = "probing" /\ call'[c] # call[c]
              => /\ warm'[r] <= warm[r] /\ (open[r] > 0 => open'[r] > 0)
                 /\ call'[c].pc # "generating"
       /\ Connection \in doubted /\ conn.pc = "heading" /\ conn'.pc = "none"
            => warm'[1] <= warm[1] /\ (open[1] > 0 => open'[1] > 0)]_vars

\* Every call comes to an end: each route is looked at once.
EveryCallEnds == \A c \in Call : call[c].pc # "idle" ~> call[c].pc = "done"

----------------------------------------------------------------------------
(* The strengthening that makes them inductive. *)

\* What a call may have done at the route it stands at, by where it is in the code.
Here(pc) == CASE pc = "generating" -> {"running"}
              [] pc = "recording" -> {"paid"}
              [] pc = "done" -> {"none", "paid", "ambiguous"}
              [] OTHER -> {"none"}

\* Every route behind a call billed nothing, every route before it is untouched.
WalkFits(c) ==
    /\ \A r \in Route :
         /\ r > call[c].at => attempt[c][r] = "none"
         /\ r < call[c].at => attempt[c][r] \in {"none", "safe"}
         /\ r = call[c].at => attempt[c][r] \in Here(call[c].pc)
    /\ call[c].pc \in {"probing", "generating", "recording"} => call[c].at \in Route
    /\ call[c].pc \in Searching \cup {"idle", "joining"} => call[c].at = 1
    /\ call[c].pc # "done" => call[c].result = "none"
    /\ call[c].result = "unavailable" => call[c].at > Routes

\* A paid bundle is on disk and stays there, so a search lists it or has missed it,
\* and a request that goes on to the routes has missed it or could not know it.
BillFits(c) ==
    LET k == call[c]
        spent == \E r \in Route : attempt[c][r] # "none"
    IN
    /\ \A r \in Route : attempt[c][r] = "paid" => holds[k.dest] = Manifest(r, k.scene)
    /\ k.before \subseteq Payers(k.scene)
    /\ k.pc = "idle" => k.before = {}
    /\ \A b \in k.before :
         /\ k.pc = "reading" => call[b].dest \in k.listed \cup k.missed
         /\ k.pc \notin Searching \cup {"done"} \/ spent
              => call[b].dest # k.dest /\ (call[b].dest \in k.missed \/ Unmarked(b))

\* A directory with a manifest exists, and one being copied into has none yet.
CopyFits(c) ==
    call[c].pc = "copying" =>
      /\ call[c].dest \in made \ Saved
      /\ \A b \in Call : b # c /\ call[b].pc = "copying" => call[b].dest # call[c].dest

\* A look is no newer than its route, and older if the route has failed since.
LookFits(o, r, seen) == seen <= epoch[r] /\ (o \in doubted => seen < epoch[r])
LooksFit ==
    /\ \A c \in Call : call[c].pc = "probing" => LookFits(c, call[c].at, call[c].epoch)
    /\ conn.pc = "heading" => LookFits(Connection, 1, conn.epoch)

IInv == /\ TypeOK /\ Saved \subseteq made
        /\ \A c \in Call : WalkFits(c) /\ BillFits(c) /\ CopyFits(c)
        /\ LooksFit
============================================================================
