# Storylight: specifications and proofs

Storylight turns what a child reads or says aloud into illustrated scenes. A
local server (`src/src/storylight`) plans each scene, buys its image from one of
several remote renderers, and shows it in a browser that follows a stream of
snapshots. What is hard in it is not the drawing but the coordination: a newer
page supersedes a scene that is still being paid for, browsers retry and
reconnect, renderers fail before or after they have billed, prepared pages
expire while they are criticised. This directory models that coordination in
TLA+, checks it with TLC on small instances, and proves most of its safety
properties with TLAPS for every instance.

Contents: [Inventory](#inventory) · [Modules](#modules) ·
the components ([registry](#the-live-scene-registry), [streams](#streams),
[router](#the-fast-scene-router), [paid providers](#the-paid-providers),
[warm session](#the-ledger-and-the-warm-session),
[orchestrator](#the-anticipatory-orchestrator), [store](#the-story-pack-store),
[prepared pages](#prepared-pages), [reader](#the-reader),
[projector](#the-projector), [workbench](#the-voice-workbench)) ·
[Runs](#runs-and-bounds) · [Fairness](#fairness) · [Proofs](#proofs) ·
[Disagreements](#where-code-and-documents-disagree) ·
[Not modelled](#what-is-not-modelled) · [Plan](#plan)

## Inventory

All paths are under `src/src/storylight`. The server is one process on one
asyncio event loop, except worker threads for file work and remote services. A
step between two awaits is therefore atomic; a lock makes a whole method atomic
only as far as the method does not await inside it. A browser page is one
thread in the same sense.

| Component | State | Operations | Hard behaviour | What makes it correct |
| --- | --- | --- | --- | --- |
| Live scene job registry (`live_scene.py`) | job records, session pointers and revisions, claims of submission IDs, one task per job, the registry lock | `submit`, `present`, `activate_prepared_pack`, `close`, the job task `_run` | supersession of a job suspended at any await; the lock kept across a save; saves by threads that cancellation does not stop; eviction | one current job per session, an outcome is final, a submission is paid for once, a refused request costs nothing, every job ends |
| Live scene streams (`live_scene.py`) | bounded queues of job and session subscribers, planner flag | `subscribe`, `receive`, `unsubscribe`, `subscribe_session`, `set_session_planner_active`, and every publishing step of the registry | a full queue, eviction and close with readers blocked or behind | a reader ends at the current snapshot, never goes back, and learns the outcome |
| Fast scene router (`provider_router.py`) | per route: circuit deadline, readiness deadline, epoch; one shared preconnect | `generate_fast`, `probe`/`warm_status`, `prepare_connection`, `aclose` | probes that answer after a failure; ambiguous ends of paid requests; retries of paid scenes | one request bills one route at most; old evidence decides nothing; calls end |
| Paid providers (`vertex_scene_provider.py`, `gcp_scene_provider.py`, `klein_scene_provider.py`, `prepared_klein_provider.py`, one-shot `finite_modal_provider.py`) | operation lock, booked amount, closed flag, claims and ledger entries | `generate_fast`, `prewarm`, `aclose` | check before and booking after the request, or the other way round; cancellation on the way; restarts | what may have been billed is covered; a scene is paid for once |
| Paid GPU ledger and warm session (`modal_budget.py`, `visual_lab.py`, `finite_modal_provider.py`) | ledger file shared by processes, in-memory session, prepared authorizations | reserve, settle, release, reconcile; `prewarm`, `generate_preview`, `generate_fast`, `upgrade_motion`, abandon | threads outlive cancelled callers; crash between call and settlement | every call that may be billed is covered on disk; sessions end with their jobs |
| Anticipatory orchestrator (`anticipatory.py`) | candidate records, their tasks and terminal events, result cache, render semaphore | `submit`, `commit`, `cancel`, `status`, `close`, the candidate task | requests end a record in the middle of its task; expiry; eviction | one branch of a sequence is committed, a settled candidate stays settled, the semaphore place comes back |
| Story pack store (`story_store.py`) | pack files, `latest`, in-memory index | `save`, `latest`, `find_live_scene` | crash between two atomic writes, index against files, threads without a caller | latest and index name complete packs |
| Prepared page playback (`anticipatory_playback.py`, `anticipatory_edge.py`, the service `anticipatory_api.py`) | prepared pages with a lock each, candidates at the service | prepare, `status`, `stage`, `activate`, `discard` | lost requests and answers; expiry against the remote commit | a shown page was committed and verified; a discarded one costs nothing more |
| Reader pipeline (`reader.py`, `reader_runtime.py`, `event_hub.py`) | alignment per session, generation, bounded event queues | configure, ingest, reset, publish, subscribe | slow subscribers; events of an old generation | progress is monotone; a gap is always noticed |
| Projector (`static/projector.js`) | accepted and committed scene, chain of renders, stream, poll and timer; the cursor in the page | events, polls, renders, page turns, resets | answers in any order; renders overtaken by newer scenes; restarts | the wall never goes back and arrives at the current scene |
| Voice workbench (`static/workbench.js`) | recording, checks, calls of `compileStory`, pending submission, presentation | record, transcribe, check, generate, reconcile, present | every handler awaits and finds the page changed | shows what was described, pays once, loses nothing it paid for |
| HTTP surface (`api.py`) | the reader pipeline lock | handlers | several awaits per handler | inside the modules of the components it serves |
| Speech recognition (`asr.py`, `asr_jetson.py`) | one lock around one worker | `transcribe` | cancellation while the thread runs | one transcription at a time (not modelled) |
| Asset cache (`asset_cache.py`) | content-addressed files | store, verify | torn writes | a checksum names its content (not modelled) |
| Planning and language, critics, gateways, privacy, offline asset and evaluation code, deployment | none that the parts above share | text to plan, judgement, proxies, measurements | data, not coordination | outside these specifications |

How they interact: a child describes a scene to the workbench, which submits it
through `api.py` to the registry; `submit` starts a task that asks the planner
and the router; the router walks Cloud Run, Vertex and Modal, each of which
keeps its own money; updates come back as an async generator that the job task
iterates; each update is published to subscribers (the projector follows the
session's pointer, the workbench its job) and complete ones are saved in the
story pack store, where a later identical request finds them. Independently,
prepared pages go to the orchestrator, come back through the playback component
and enter the registry by `activate_prepared_pack`; and the reader pipeline
aligns speech to the page on show and tells the projector the word reached.

`PROJECT.json` lists every component with its status, and the hazards, each at
the line where it bites, with the properties aimed at it.

## Modules

| Module | Models | Theorems in |
| --- | --- | --- |
| `LiveSceneRegistry` | the job registry and its job tasks | `LiveSceneProofs` |
| `SceneTimeline` | abstract: what the registry promises to a session's browsers; refined by `LiveSceneRegistry` through `SceneOf` (`ImplementsTimeline`) | `LiveSceneProofs` |
| `LiveSceneStreams` | subscriptions, queues, planner flag; extends `LiveSceneRegistry`: each registry step is conjoined with what it publishes | `LiveSceneProofs` |
| `SceneRouter` | the resilient provider; the providers behind it are its environment | `SceneRouterProofs` |
| `PaidScene` | the paid request of five providers, with their caps, claims and ledgers | `PaidSceneProofs` |
| `ModalLedger` | operations on the ledger file, as operators | used by `WarmBudget` |
| `WarmBudget` | the warm Modal session above the ledger | `WarmBudgetProofs` |
| `AnticipatoryScenes` | the orchestrator of prepared scenes; renderer and critic are its environment | `PreparedPagesProofs` |
| `StoryPackStore` | the pack files and each process's index | `StoreAndReaderProofs` |
| `PreparedPages` | the playback of prepared pages with the remote service | `PreparedPagesProofs` |
| `ReaderAlignment` | the alignment, with a reference definition | `StoreAndReaderProofs` |
| `ReaderSession` | reader pipeline, event hub, socket and the projector's cursor; extends `ReaderAlignment` | `StoreAndReaderProofs` |
| `Projector` | the projector's transport and renders over the registry's pointer | `ProjectorProofs` |
| `VoiceWorkbench` | the workbench over one session of the registry | `VoiceWorkbenchProofs` |
| `MC*` | instances for TLC | one `.cfg` per question |

Conventions. A definition that begins with the comment `fault:` is a plausible
bug of the definition below it (a dropped guard, a missing reset, a swapped
order). It is in no specification; `PROJECT.json` pairs it with the property
that finds it when it takes the place of the original. Variables marked
`history` record what happened and steer nothing. Calls that the code refuses
without changing anything are not actions; they would be stuttering steps. The
last section of a module with proofs, headed "the strengthening", holds the
inductive invariants, which TLC checks as invariants too.

## The live scene registry

State. `jobs` is `_jobs` with, per record, what steers the registry: stage,
`complete`, `revision`, the request, `presented`, the reason of an end (`note`)
and `born`, its place in the insertion order that eviction follows. `pointer`,
`sequence` and `claims` are `_session_jobs`, `_session_revision_sequence` and
`_submission_jobs`. `tasks[j].pc` says at which await `_run` of job `j` is
suspended. `lock` is different from `Free` only while `present` or
`activate_prepared_pack` awaits the pack sink with `_lock` held; all other
critical sections contain no await and are single actions guarded by
`Unlocked`. `saving` is the set of packs a worker thread is writing and
`latest` the store's latest pointer.

Actions.

- `Submit` is the whole of `submit`: the claim, the expected session revision,
  the supersession of the unfinished job (`WithSuperseded`, `Cancelled`), the
  capacity checks, eviction, the insertion, the pointer and the new task. The
  code checks capacity after it has failed the displaced job, and so does the
  action: its refusing branch keeps the supersession. That this branch never
  costs a session its job is a property (`SupersedeReplaces`), not an
  assumption.
- `PresentSave`/`PresentShow` and `ActivateSave`/`ActivateShow` are the two
  halves of the methods that save under the lock; `ActivateDeferred` has no
  save and is one step.
- `SaveLands` is the worker thread: it ends at any time, also after the task
  that started it was cancelled, and may have failed (the sink swallows
  errors), in which case `latest` stays.
- `RunStart`, `RestoreMiss`, `RestoreHit`, `ProviderUpdate`, `UpdateSaved`,
  `ProviderEnd`, `ProviderFails`, `MasterSaved` are `_run` between its awaits.
  `ProviderUpdate` takes any update the payload contract can construct;
  `valid = FALSE` stands for one whose progress or metrics go back. `Abort` is
  the except branch.
- `CleanupEnds` and `CleanupFails` are what a cancelled provider does when its
  generator is closed. The second follows Python: an error raised there
  replaces the cancellation and reaches the except branch of a job that has
  already been superseded.
- `CloseBegin`/`CloseEnd` are `close` before and after it gathers the tasks.

Left out: a cancelled HTTP request (the caller of `submit`, `present` or
`activate_prepared_pack` being cancelled at its await), `get`, `get_session`
and the display fields of requests and plans.

`SceneTimeline` is the abstract specification: per session one scene which is
worked on, ends once, may be shown, is replaced only by a scene of higher
revision, and is never dropped while it is worked on. `SceneOf` maps pointer
and record to it.

## Streams

`LiveSceneStreams` adds the subscriptions. `FanOut` computes from the step of
the registry what it publishes to each session watcher, in the order in which
the code does: the superseded snapshot (`SupersededItem`), the loss of an
evicted pointer (`LostItem`), the new current job (`CurrentItem`), put in
together when the step replaces the job (`Replaced`, `PutAny`); for one job its
new snapshot (`JobItems`), and for an evicted record the end of its
subscriptions (`FeedAfter`). `Put` drops the oldest item of a full queue, the
closing item included in the count. Clients subscribe with any revision they
may have seen, read at their own pace, hang up and come back.

## The fast scene router

One action per stretch of `generate_fast`, `probe` and `_probe_route` between
awaits. The circuit and the readiness cache are deadlines; the model keeps the
ticks to go, and `Tick` lets time pass. `epoch` is `_readiness_epoch`: a probe
remembers it when it sets out (`ReadCache`) and its success counts only when it
has not changed (`MayMark`). `GenerateSucceeds`, `GenerateRejected`,
`GenerateLimited` and `GenerateAmbiguous` are the four families of ends of a
paid request: success, the safe rejection, the rate limit with its own delay,
and anything else, a cancellation included, after which no other route may be
tried. `Prepare`, `ConnectionLooks`, `ConnectionEnds` are the shared preconnect and
`Close` cancels it with all who joined it. `MaxGenerating` says how many paid
requests overlap: the registry serializes them (`serializes_paid_jobs`), and a
second one can only start while a cancelled one is unwinding.

Before any route, `generate_fast` looks for the scene among the bundles on disk
(`_recover_exact_bundle`). `made` has the directories that exist, `holds` what
the manifest in each says it is a bundle of, `newer` which manifests were
written after it, and a call is given one of the directories in `Dest` (in the
application, one per job). `List` takes the call's own manifest and the `Kept`
newest of the others (128 in the code), or fails when one goes away under
`stat`. `Read` looks into what was listed. Any of it may not load (`unread`) and
is skipped; the call's own bundle is served as it is; another makes the call copy
it (`Copy`, which may fail and leave a directory with or without a manifest); a
directory that exists without a usable bundle is refused; and otherwise the call
goes on to the routes. A manifest identifies its request only if one of the
`Named` routes wrote it: `_request_identity_matches` compares hashes that Vertex
writes and Cloud Run and Modal do not, so theirs say `Unnamed`. In the run the
fallback is the named route. `GenerateSucceeds` writes the bundle into a
directory that did not exist; what a failed request leaves there is `Leavings`;
`Record` replaces the manifest by one with the routing evidence, or fails.
`OtherBundle` is a bundle that another process or an earlier run left, of a
scene in `Foreign`; it takes a place among the newest.

The history variable `attempt` records how each call's use of a route went;
`doubted` the probes that set out before their route's last failure; `before`,
in a call's record, who had paid for its scene when it began, and `missed` which
of their directories its search did not look into.

Abstractions: two manifests are never written at the same time, and the clock
does not go back; the candidates are listed in one step and read in one step
(once written, what a manifest says it is of does not change); a provider writes its
bundle in one step, what a failure leaves of one is in `Leavings`; a call whose
caller is cancelled while a thread writes counts as cancelled when the thread
has ended; every provider refuses a directory that exists (Modal only one that
has files of the bundle).

## The paid providers

`PaidScene` is one of five providers, chosen in `Init`: `modal` (the one-shot
commands of `FiniteModalSceneProvider`), `cloud_run`, `vertex`, `klein` and
`prepared`. A behaviour is its life with restarts of its process. The providers
share `Begin`, `Cancel` and `Restart`; each has its own entrance (the lock and
the checks under it: `Enter`, `EnterModal`, `EnterKlein`, `EnterPrepared`) and
its own ends of the request. They differ in when a request is booked and in
what is on disk before it is sent:

- Vertex and Cloud Run check the room before the request and book after the
  answer (`VertexAnswers`, `VertexAnswersBadly`, `CloudRunAnswers`); an
  interrupted Vertex request is booked by nobody (`VertexInterrupted`), a late
  Cloud Run answer may have cost more than was checked (`Overrun`).
- Klein reserves its whole session once in the ledger, by a worker thread
  (`Authorized`, `Unauthorized`), and books each request before it is sent.
- The prepared provider writes a claim per operation and counts requests; a
  request that fails closes it.
- The finite provider has no lock; it books first, then reserves each request
  in the ledger under its own name, so the file also prevents a repetition.

`booked` is the counter in memory, `onFile` what is on disk, `charged`,
`escaped`, `billed` and `sent` are history: what may have been billed, the part
of it that the code is known to lose, what each request may have cost, and the
requests that were sent. Money is counted in whole units. A request is charged
whole while it is on its way; Cloud Run's worst case is trusted as the bound of
a request whose answer is lost, and idle GPU time is left out. Klein and the
prepared provider have one prewarm ID. Left out: a `modal run` process that
survives its server and settles later, a partially written claim, and the
order in which waiting callers get the lock (any order is allowed).

## The ledger and the warm session

`ModalLedger` are the operations of the ledger file as operators on its value;
each runs under one `flock`, so each use of one is a step. `WarmBudget` is
`WarmModalSceneProvider` with the live-scene adapter above it. Callers are
jobs, which make several calls and then clean up (`DropSession`,
`DropPrepared`), and users who prewarm. `workers` are the threads of `asyncio.to_thread`: a cancelled
caller leaves, its thread goes on and changes the file later (`RunWorker`). A
caller's `op` says which operation it is in and its `pc` at which await:
`expiring` (an expired session is being settled), `entered`, `billing`
(reading the workspace's bill), `authorizing`, `sent`, `settling`, `releasing`.
`prepared` are the authorizations made while a scene is planned, `session` the
warm session with the scene and the preview it belongs to. `Tick` lets the
session expire, `Crash` forgets the memory and the threads but not the file,
`OtherReserves`, `OtherSettles` and `Reconcile` are other processes and the
operator. `owed` is history: reservations a call was sent under that nobody has
settled.

The registry runs one paid job at a time, so one job is busy at a time
(`BeginJob`). Left out: bundle files and prompts.

## The anticipatory orchestrator

A key is a sequence and a branch; the branch also stands for the content that
the cache digests (two branches may ask for the same). `Submit`, `Commit`,
`Cancel`, `Close` are requests under `_lock`; each begins with `_expire_locked`
where the code does (`Swept`, `Expirable`), and a refused request still does
that much (`Sweep`). A candidate task is `BeginRender` (it has a place in the
semaphore), `Rendered`, then `Accepted`, `Rejected` or `Repaired` for the
critic's answer; `CallFails` and `Unwind` are an exception and a cancellation
at any of its awaits, `Retire` the done callback, which drops whatever task
`_tasks` then names for the key. Tasks are numbered so that an old task of a
key and a new one can be alive together. That happens when a settled candidate
is evicted and submitted again before the callback of its task has run: it then
drops the new task, which works on unseen by cancellations and can take even a
settled candidate up again (`_begin_render` refuses cancelled ones only). `OneSelectionPending` and
`RecordTaskAndWaitersAgree` therefore except keys that were started again. `Close` contains the code's early end:
it raises at a task whose record was evicted.

## The story pack store

Every process that opens the directory has an asyncio lock and an index of its
own; the files are shared. An operation is a caller (`Enter` takes the lock,
`Cancel` gives it back without its thread) and a worker thread with one action
per file or index access: `save` replaces the pack's file, then the pointer,
then the index; `find` looks in the index, verifies the file, and drops the
entry of a file that is missing or damaged; `latest` reads the pointer and the file. `Start` is the
construction of a store, which rebuilds the index from the files, newest first;
`Crash` ends a process between any two steps of its threads; `Damage` makes a
file differ from the digest in its name. `clock` orders the writes as file times
do. Left out: a rebuild of the index inside a find that comes before
`initialize` has ended.

## Prepared pages

`PreparedPages` joins `AnticipatoryPlayback`, the edge client and the service.
`Prepare` (in its parts: the capacity check, the plan, the submission),
`Begin`/`Operation` for `status`, `stage`, `activate` and `discard`, which hold
their page's lock across their requests. `Serve` is the service's answer to a
request, `RequestFails` a request lost on the way there or back (in the second
case the service has acted), `ServiceRestarts` loses every candidate,
`CandidateMoves` is the orchestrator's work on one, `Expire` passes a page's
deadline on the device, `Replaced` is the wall taking up something else.
Left out: the prewarming call, proxied asset reads, the checks of contents,
cancelled HTTP handlers and the session fence of the activation, which the
registry's module has.

## The reader

`ReaderAlignment` is the alignment of `reader.py` as recursive functions:
`Lengths` is the table, `Matches` the walk over it (`MatchStep` is one round of
the loop, and a round after its end changes nothing), `NewlyReached` the words a
transcript adds. The reference definition beside it, `EarliestLongest`, says
what they compute: of the places where the words of a longest common subsequence
stand on the page, those that come first, compared word by word. TLC evaluates
the equality of the two on all texts of up to four words (the assumption
`WalkIsEarliest` of `MCReaderSession`); the theorem of that name proves it for
all pages and transcripts.

`ReaderSession` runs it inside the whole path of a word: the registry
(`session`), the hub with its bounded `queue` and counter (`sequence`; `Publish`
is the publication of all events of one request, of which the queue keeps the
last ones), the socket, and in the projector the shown cursor, pending events, the status
request with its repetition (`sync`, `again`), page turns and resets, whose
answers come by HTTP beside the events. `Connect` is subscribing, accepting and
opening at once; the wire of the socket counts as part of the queue. `strayed`
marks the projector left at a page or generation that events alone cannot take
it on from. Left out: the timestamps of words, further subscribers of a
session, and closing the hub.

## The projector

`Projector` follows the registry's session pointer: `server` is the current
scene (process, session revision, job revision, media; 0 while it cannot be
displayed). `NewJob`, `NewRevision`, `Evicted`, `PlannerTurns` and `Restart`
change it and publish to the projector's bounded `queue`. `ReceiveEvent`,
`AnswerPoll`, `ReadPoll`, `Rendezvous`, `Connect` and `ConnectFails` are the
transport: events while the stream is healthy, otherwise polls that schedule
each other. `Accept` decides by process, session and revision;
an accepted revision with other media is appended to `chain`
(`liveTransition`). `RenderStep` runs the chain's first render: loading, the
first paint, and the commit, which only a render with the current token makes;
a render may also fall back or fail. Abstractions: an overtaken render that has
not begun leaves the chain at once; offers that cannot be displayed are ignored
when repeated; the reader's synchronization during an activation is left out;
an answer of an ended process is read before the stream to the next opens.

## The voice workbench

The page is one thread: what a handler does up to its next await is one step.
`Pump`, `Compile` and `TryPresent`, which many handlers call, are functions of
the page. `page` has the recording (`Started`, `PartialBegins`, `Partials`,
`Stop`, `Finals`), the automatic queue (`latest`, `attempted`, checks), the
calls of `compileStory` under way (`compiles`, one record per call with the
phase it awaits at: the check of its description, the look at the prior job, the
submission and its answer, the wait for a reconciliation), the pending submission, the job followed, and the
presentation. `CompileStep`, `QueuedCheck`, `Reconciled` and `PresentStep`
resume them. `server` is the session's job, with `JobEnds`, `OtherJob` (another
client) and `Restart`. `Tell` and `Hear` are the event stream to the page, which
`Disconnect` breaks. While it is down and a job is followed, the page polls:
`AskPoll`, `AnswerPoll` and `HearPoll` are the request, the server's answer and
its handling, at any time after it and whatever the stream has brought
meanwhile, since `pollLiveScene` looks at neither an epoch nor the stream again
(`static/workbench.js:1443`). `paid`, the page's `overlapped`, `leftOver` and
`raced`, and the stream's `revived` (a late poll has made the page follow a job
again whose end it has heard) are history.

Abstractions: one visual style; a text stands for a description with its style,
and `Meaning` is the same whenever a text is checked, but any check may be
refused; the fetches before and after a conflict read the server when they are
delivered; what an ended process has said, by the stream or to a poll, is read
before the answers of the next; revisions of a snapshot are working, complete and
shown. Left out: the page's own first look at the session, events that cannot be
parsed, the cue, book and demo modes, readiness and prewarming, drawing.
`MaxTrouble` bounds scenes of others, failed jobs and requests, lost answers,
broken streams and restarts together; `Poll` the polls under way.

## Runs and bounds

| Run | Instance | Distinct states | Question |
| --- | --- | --- | --- |
| `voice` | 2 sessions, 2 submission IDs, expected revisions 0 and 1, 3 fresh IDs and 1 prepared ID, 1 active and 2 retained jobs; fresh IDs symmetric | 660,378 | does any interleaving of client calls, provider steps, saves and close break the claim (`OneRunPerSubmission`), the deferral (`DeferredSaveIsFenced`), finality (`FinishedIsFinal`), supersession (`SupersedeReplaces`) or the timeline (`ImplementsTimeline`) |
| `feeds` | 1 session, 2 fresh IDs, 1 retained job, 1 job subscriber with a queue of 1 | 246,851 | does a slow, reconnecting reader read in order up to the truth (`FeedsFollowTheirJob`) and learn the outcome (`FollowersLearnTheEnd`); does every job end and `close` return (`EveryJobEnds`, `CloseReturns`) |
| `watchers` | 1 session and requests outside it, 2 fresh IDs and 1 prepared, 1 retained job, 1 session watcher with a queue of 2, 1 change of the planner flag | 1,220,876 | does a watcher end at what `get_session` answers, in order (`WatchersFollowTheirSession`) |
| `router` | 2 calls for 1 scene, 3 directories of which one may be common to both calls and one is left to other processes, a search of 1 manifest besides the own, 2 routes of which the fallback's manifests identify the request, cooldown and readiness of 1 tick, Retry-After 0 or 2 | 614,316 | billing boundary, recovery, stale probes, termination (`OnePossibleBill`, `RetryFindsTheBundle`, `StaleProbeChangesNothing`, `EveryCallEnds`) |
| `paid` | five providers, 4 calls, 2 scenes, a cap of two requests, an overrun of half of one, 2 processes; calls and scenes symmetric | 103,835 | is everything that may have been billed covered, and nothing paid for twice (`BilledIsCovered`, `ScenePaidOnce`) |
| `anticipate` | 3 branches of one sequence, two of which ask for the same scene, 2 records, 1 semaphore place, 2 tasks in all | 267,402 | commits, cancellation, expiry, eviction and failure against the tasks (`OneSelectionPending`, `RecordTaskAndWaitersAgree`), settlement (`EveryCandidateSettles`) |
| `warm` | 1 job with preview and motion, 1 user, 1 prewarm ID, 1 experiment of another process, reports of 0 or 3 billed, 1 crash | 76,911 | reservations of sent calls (`PaidCallsReserved`), sessions of ended jobs (`SessionEndsWithItsJob`), termination (`OperationsEnd`, `StaleSessionForgotten`) |
| `reader` | 2 pages (sea moon sea; sea), 2 transcripts, a queue of 2, 3 inputs, 1 failure | 430,646 | is the word shown ever ahead, back, or lost (`NeverAhead`, `NeverBack`, `EventsSuffice`), is it reached in the end (`Converges`), is it the earliest of the longest alignments (`ReachesEarliest`) |
| `projector` | a queue of 1, 3 changes of the server, 2 faults | 275,639 | `ScreenNeverBack`, `ActivatedIsShown`, `Converges` |
| `store` | 2 processes, 3 calls, 3 packs of which two answer the same request, 2 faults; processes and calls symmetric | 3,301,976 | `LatestIsStored`, `SavedIsFound` |
| `pages` | 2 pages, 3 calls, a capacity of 1; symmetric | 459,392 | `PagesWithinCapacity`, `DiscardedIsReleased`, `OnlyCommittedPagesGoUp` |
| `workbench` | 1 recording, 3 texts of which two mean the same, 1 press or edit, 1 trouble, 1 poll under way | 4,753,143 | `OnlyWhatWasDescribedIsShown`, `PaidOncePerRecording`, `NoPaidJobForgotten`, `FinalDescriptionSettles` |

Why these bounds reach the interesting cases. In `voice` two retained records
for two sessions and a prepared page make every insertion an eviction, the
second submission ID lets a session supersede, retry and defer in one
behaviour, and expected revisions 0 and 1 are what a browser that saw nothing
or the first revision sends. In `router` a search of one manifest besides the own
lets one other bundle hide a paid one. Three fresh IDs suffice for a job, its successor
and a competitor. A queue of one item makes every second snapshot an overflow;
a queue of two in `watchers` is needed since one `submit` publishes up to three
events. Two routes are a preferred one and a fallback; a third adds no new kind
of step. In `paid` four calls against a cap of two requests give room for
refusals after bookings. Two records for three branches make an eviction of
every full batch. A stream of one event makes the projector miss scenes; two
packs of one request let a later save take the place of an earlier one.
`MaxStarts`, `MaxClaims`, `MaxAfter`, `MaxPlanners`, `MaxSessions`,
`MaxCrashes`, `MaxInputs`, `MaxFailures`, `MaxChanges`, `MaxFaults`,
`MaxRecordings`, `MaxClicks` and `MaxTrouble` are the artificial bounds;
`MaxClaims` is the code's own limit where it is reached, the others bound what
clients, the outside world and failures do. The theorems do not depend on any
of them. Symmetry is used only in runs without liveness properties. Deadlock is
checked in `voice`, `feeds` and `watchers`: a registry that is not closed always
has something to do (`Stopped` is the one allowed halt). In the other modules
the system rests when all calls have been served or a bound is used up; their
configurations say `CHECK_DEADLOCK FALSE`.

Larger instances, checked by hand to the end: `MCLive.cfg` (two jobs at once,
a session next to requests outside any session; `EveryJobEnds`, `CloseReturns`
and `TaskOwnsOpenJob`), the router with two scenes, one of which other processes leave
too (1,999,931 states; also `IInv`), the
projector with four changes (1,828,896), the orchestrator with three tasks
(2,528,794; `ScenesIInv` and the run's two invariants), the reader with a queue
of one event and two failures (733,878; `ReaderIInv` and the run's invariants),
the pages with three pages, two calls
and a capacity of two (5,532,237), the workbench with two recordings of two
texts (3,605,169), with two troubles of two texts (3,435,394) and with three texts
of different meanings (5,181,565), all three without presses and edits, with
`IInv`, `FollowInv` and `WakeInv`. Not to the end, without a violation: two jobs in `WarmBudget`
(4.8 million states). The invariants of the proofs (`IInv`, `FollowInv`,
`OwnerInv` and the like) were checked on the runs' instances in the same way.

## Fairness

Clients owe nothing: no client action, no tick and no expiry is fair.
What is weakly fair is what the event loop and the outside world owe once
started. A task whose await has returned is resumed by the loop. A provider
answers or fails, since each has its own timeouts
(`probe_timeout_seconds`, the HTTP and subprocess timeouts of the providers). A
file write in a worker thread returns. The holder of `_lock` goes on when its
save has landed. A reader of a job stream keeps reading. Weak fairness is
enough everywhere: no property needs a task to win a lock against others for
ever, because asyncio locks are handed over in order and the holders always
release. The assumption that a save returns is a real one: a sink that hangs
inside `present` stops the registry.

In `WarmBudget` the callers share one condition (some caller can take a step)
and so do the worker threads: every caller makes a bounded number of steps, so
that is enough for each. In `ReaderSession` the server answers, an answer is
taken, a closed socket is opened again and events are received. In `Projector`
each of the browser's tasks is fair (the chain of renders, events, the timer,
the poll's answer and its reading) and startup ends in one attempt to connect;
that the stream ever opens again is not assumed, so `Converges` shows that
polling alone is enough. `PaidScene`, `StoryPackStore`, `PreparedPages` and
`VoiceWorkbench` state no liveness: `FinalDescriptionSettles` is an invariant of
the states in which nothing is on its way.

## Proofs

Each theorem holds for any sets of sessions, jobs, calls, pages or packs and any
capacities and bounds that satisfy the module's assumption.

| Module | Theorem | Says |
| --- | --- | --- |
| `LiveSceneProofs` | `Inductive`, `TypeCorrect` | `Spec => []IInv`, and every variable keeps its type |
| | `PointersStayRetained`, `OnlyCurrentWorks`, `TasksOwnOpenJobs` | a pointer names a retained record of its session; unfinished work of a session is its current job; a task that was not cancelled works on an unfinished record |
| | `PaidOnce`, `DeferredSavesFenced`, `FinishedStaysFinal` | `OneRunPerSubmission`, `DeferredSaveIsFenced`, `FinishedIsFinal` |
| | `RevisionsAreNew` | a session revision is never handed out twice |
| | `TimelineImplemented` | `ImplementsTimeline`: the registry refines `SceneTimeline` |
| | `SupersededIsReplaced`, `WorkWithinCapacity` | `SupersedeReplaces`; no more jobs are unfinished than may be |
| | `StreamsInductive`, `FeedsFollow`, `WatchersFollow` | the same for the streams: `FeedsFollowTheirJob`, `WatchersFollowTheirSession` |
| `SceneRouterProofs` | `Inductive`, `OneBillAtMost`, `RetriesFindTheBundle`, `StaleProbesChangeNothing` | `OnePossibleBill`, `RetryFindsTheBundle`, `StaleProbeChangesNothing` |
| `PaidSceneProofs` | `Inductive`, `BillsAreCovered`, `PaidOnce` | `BilledIsCovered`, `ScenePaidOnce`, for all five providers |
| `WarmBudgetProofs` | `Inductive`, `PaidCallsStayReserved`, `SessionsEndWithTheirJobs` | `PaidCallsReserved`, `SessionEndsWithItsJob` |
| `StoreAndReaderProofs` | `Inductive`, `LatestStaysStored`, `SavedStaysFound` | of the store: `LatestIsStored`, `SavedIsFound` |
| | `ReaderInvariant`, `ProjectorNeverAhead`, `EventsAreEnough`, `ProjectorNeverBack` | of the reader, `ReaderSpec => []ReaderIInv`: `NeverAhead`, `EventsSuffice`, `NeverBack` |
| | `WalkIsEarliest`, `ReadingReachesEarliest` | the alignment is the earliest of the longest; `ReachesEarliest` |
| `PreparedPagesProofs` | `Inductive`, `PagesStayWithinCapacity`, `DiscardedStaysReleased`, `CommittedPagesGoUp` | `PagesWithinCapacity`, `DiscardedIsReleased`, `OnlyCommittedPagesGoUp` |
| | `ServiceInductive`, `OneBranchPending`, `RecordsAndTasksAgree` | of the orchestrator, `ScenesSpec => []ScenesIInv`: `OneSelectionPending`, `RecordTaskAndWaitersAgree` |
| `ProjectorProofs` | `Inductive`, `ActivatedStaysShown`, `WallNeverGoesBack` | `ActivatedIsShown`, `ScreenNeverBack` |
| `VoiceWorkbenchProofs` | `Inductive`, `OnlyTheDescribedIsShown`, `PaidOnce`, `PaidJobsStayInSight`, `FinalDescriptionsSettle` | `OnlyWhatWasDescribedIsShown`, `PaidOncePerRecording`, `NoPaidJobForgotten`, `FinalDescriptionSettles` |

**The registry.** None of its invariants is inductive alone; `IInv` adds what
they lean on. `LockKeepsChecks`: while a method awaits the sink, what it checked
still holds (the activation's session has no unfinished job, the presented job
is complete, current and unpresented); this is what the lock is for, and it
needs that neither a task step nor a landing save can move a pointer.
`TasksFit`: a finished record with a task left is a superseded or failed one, so
the except branch of a failing cleanup finds nothing to rewrite; without it
`FinishedIsFinal` breaks at `CleanupFails`. `ClaimsOutliveJobs`: every guarded
run has its claim, so eviction cannot make a paid submission look new.
`JobsFit` and `SavesFit` tie deferral, presentation and worker threads to the
session and the lock. `RunStepShape` says once what any step of `_run` can do:
it leaves the jobs alone or, with the lock free, advances its own unfinished
job, and it starts a save only for an unfinished, undeferred job; each
invariant is then shown against that shape instead of ten actions.
`SubmitKeepsIInv` is the longest: it goes through supersession, eviction and
insertion in the order of the code. `RevisionsAreNew` rests on
`SequenceIsHighest`: the registry-wide sequence bounds every revision any
session ever had, also after the session's pointer was forgotten.
`TimelineImplemented` shows step by step that each session's scene begins,
moves on, is forgotten or stands still. `SupersededIsReplaced` counts: the jobs
at work are at most `MaxActive` (`WorkFits`), and failing the displaced one
frees the place and the record the new one needs.

**The streams.** A step of the streams is a step of the registry or leaves it
alone, so the registry's invariant carries over. What a job's subscriber has
read and has in its queue rises up to the record's revision; what was ever sent
to a watcher is `Behind` what would be sent now, and the items between are
`Chained` in pairs, so that dropping the oldest keeps the order. The one state
in which a watcher may lag is named in `WatchersFollowTheirSession`: a session
whose activation is still saving its pack.

**The router.** `WalkFits` says what a call can have done at the routes before,
at and after the one it stands at; `LookFits` that a probe which set out before a
failure remembers an epoch below the route's. `BillFits` follows the bundles: one
that was paid for stays on disk as the route wrote it, so a search that began
later lists it or has missed it, and a call that goes on to the routes either
missed it or could not know it, and stands in another directory, since one that
exists without a usable bundle is refused. It rests on `CopyFits` (nobody else
writes into the directory that a call copies into): a copy is then the first
manifest of its directory, and no step changes what a manifest is of.

**The paid providers.** `LockHeldInside` gives mutual exclusion. `BookedAfter`:
the one request of Vertex or Cloud Run under way still has the room it found
before the lock was kept across its awaits. `BookedBefore`: Klein and the
prepared provider have booked what they send. `BookedMeanwhile`: the finite
provider's calls overlap, so its account is a sum: what was charged and a
ceiling for each call that has booked but not sent (`Unposted`, a cardinality)
is within what is booked. `SentIsRemembered`: whatever was sent is where the
next call looks, on file or in memory.

**The warm session.** `IInv`: one holder of the lock works with a reservation it
made or took, an authorization that is prepared is not one a call was sent
under, nobody counts on a reservation that a thread is about to release, and a
thread answers only the caller that still waits for it. `OwnerInv` adds who owns
a session: one job is busy at a time, users only prewarm, and from its preview
to its clean-up the busy job finds the session its own, nobody's or gone.

**The store.** A thread past its first step has written its pack; what an index
names has a file and answers the request; damaged files and their requests are
known; the clock is ahead of every file, so a rebuilt index finds the newest.

**The reader.** Whoever shows, queues, holds back or answers a place of the
reading does not know more than the registry: `NothingAhead` says so of all of
them, whatever page the place is on, because a generation belongs to one page.
`QueueInOrder` makes every event of the queue new to the projector, so that
`Receive` never drops one as old. `Resumes` is `EventsSuffice` while a status
request is under way: the answer awaited leads, with the pending events after
it, to the word reached, or another request follows. That an answer which is
older than what the events have brought does no harm is a monotonicity: `NotPast`
orders the views of a page, every event and status leaves two views in their
order and takes none back (`HandledInOrder`, `ReplayedInOrder`, `AppliedFits`),
and a view that is not past the word reached and led past it nowhere is there
(`ArrivedIsTarget`); `NeverBack` follows from the same lemmas. What a transcript
newly reaches is ascending and beyond the word reached (`MatchesAscend`,
`NewlyReachedAscends`), so its events lead there word by word (`WordsLead`).

**The alignment.** For two places `i` and `j` of page and transcript, an
alignment of what is left is a `Chain`: places on the page and spoken words that
meet them, both ascending. No chain is longer than the table's entry
(`ChainsBounded`), and `Best` is the one of that length that comes first. The
best of a place follows from the best of the place the walk goes on to: where
the words are equal the match is put before it (`BestMatch`), a word of the page
is skipped only when no longest chain begins with it (`BestSkipPage`), and a
spoken word is skipped although a longest chain may begin with it
(`BestSkipSpoken`). The last is why the walk decides ties as it does, and needs
an exchange (`NoLaterOne`): suppose a chain that takes the spoken word came
before the best one that does not. Where the two first differ, either the
spoken words of the one can go on with those of the other, so the earlier places
do not need the skipped word (`ChainSplice`), or the two can be joined to a
chain longer than the table allows (`ChainInsert`). So every place has a best
alignment (`BestExists`, by an induction over the table from its last row and
column), only one (`BestOnce`), and the walk is always on the way to that of the
whole (`OnTheWay`).

`Replayed`, `Matches`, `Beyond` and `Lengths` are recursive functions; that they
are defined as they say, and what they keep, is shown by an induction over a set
of naturals (`SetInduction`, from the well-foundedness of `<`), since the
induction theorems of the library take an operator.

**Prepared pages.** `RoomIsKept`: the counter of preparations is exact. Who uses
a page holds its lock, no two callers prepare one page (`PreparersApart`), and
an answer that came still holds of the candidate at the service (`CallFits`).

**The orchestrator.** `TasksNamedOnce`: the one task of a key that was started
once is the one `_tasks` names until its done callback has run. So a request
that ends a record cancels its task (`RequestEnds`), and a task that was not
cancelled finds its record as it left it. `OnePending` compares the selected
branches of a sequence: only a commit selects, and it ends every other branch
that is worked on. That a task was started at all shows that its number exists,
which is where the bound `MaxStarts` enters.

**The projector.** `ScenesFit`: any two known scenes are in the server's order,
and media only get better. `TransportFits`: nothing from an ended process is
accepted any more. `ClientFits`, `CommittedFits`, `ChainFits`: the wall shows no
more than was accepted, what was committed is on it, and only the last render of
the chain is current.

**The workbench.** Its handlers are compositions of functions of the page;
`Carried` is what each of them keeps, proved once per function and used in every
action. For `OnlyWhatWasDescribedIsShown`: artwork is kept for a text of the
meaning it was made for, and the scene a presentation asks for is one the
session had. For `PaidOncePerRecording`: an automatic call `Owns` its text,
which is attempted, not yet paid for, and no other call's. For
`NoPaidJobForgotten`, `FollowInv`: while the session works on a submission of
the page and no two calls have overlapped, every call either waits or is that
submission, accepted or lost; the page follows the job, has it pending, or the
call holds it; what the page hears never takes it back from the job it paid for;
and it gives a submission up only when what it follows and what is on show is a
later job than any of its own at work.

For `FinalDescriptionSettles`, `WakeInv`: the property speaks of a page at rest,
and what leads there is an account of who will look at the queue again. `Tended`
is that account: a final description that is not settled has a microphone to be
released, a call, a check or a presentation under way, a job being followed, or
a session that is ahead of what the page knows; whoever of these ends last pumps
the queue. It needs to know that nothing said is lost on the way: `ToldFits` and
`TellsAll` say that what the page was told last is what the session was, and
once no event is due the page has taken the end of the current job in, unless a
late answer to a poll has taken it back (`revived`): the answers that may still
come are as old as the session was when they were given, and one of an ended job
can make the page follow it again only where `revived` records it.
`WakeFits` is what the page keeps besides: the description is the text of the
field (`IntentFits`), no flag is left behind by a call that has ended
(`CallsWake`), what is being shown is the scene that is kept (`SceneFits`), and
an answer that comes after the end of its own job changes nothing
(`AnswerComesLate`). That a final description does not wait for a description of
the same meaning needs that no text has the meaning "none" (`WorkbenchAssumption`:
the key is a `JSON.stringify`, `static/workbench.js:1797`). Checking `WakeInv` on
a larger instance than the run's refuted an earlier form of the property, which
allowed for overlapped calls only across recordings: within one recording, too,
the late "accepted" answer of an overlapped call can make the page follow a job
whose end it has already heard.

Every safety property that a run checks is proved. Only model-checked is
liveness: `FollowersLearnTheEnd`, `EveryJobEnds`, `CloseReturns`,
`EveryCallEnds`, `EveryCandidateSettles`, `OperationsEnd`,
`StaleSessionForgotten` and both `Converges`. The prover reasons about neither
fairness nor `ENABLED`.

## Where code and documents disagree

Each of these was found by a configuration that is kept beside the runs and that
TLC violates (`tlc -config <cfg> <module>`). None is repaired in the models.

- `MCStaleBrowser.cfg`, `NoWriteThroughNewerRevision`: eviction forgets a
  session's pointer and with it its revision, so a browser that expects revision
  0 is admitted although it never saw the newer ones
  (`docs/architecture.md:117`).
- `MCStaleLatest.cfg`, `LatestNeverSuperseded`: the pack of a complete update is
  saved before the transition and outside the lock; a superseded job's save can
  land last (`docs/architecture.md:5`).
- `MCPaidSpend.cfg`, `SpendWithinCap`: an interruption of the Vertex request, or
  a Cloud Run answer that comes too late, leaves without booking, so more may be
  billed than the cap (`docs/benchmarks/vertex-artwork-latency.md:24`).
  `BilledIsCovered` shows that exactly these requests escape.
- `MCPaidKlein.cfg`, `SessionGoesOn`: the thread of a cancelled first call leaves
  the session's ledger entry behind, and every later call is refused for it. No
  document says otherwise.
- `MCAnticipateExpiry.cfg`, `ExpiredNeverCommitted`: `_promote` does not look at
  `not_after`, so a selected candidate is committed after it expired
  (`docs/architecture.md:248`).
- `MCAnticipateDropped.cfg`, `TasksStayNamed`: the done callback of an old task
  of a key drops the new one (`anticipatory.py:427`), which no cancellation and
  no `close` reaches then. No document says otherwise.
- `MCWarmUnused.cfg`, `UnusedAuthorizationReleased`: an authorization whose
  caller is cancelled while its thread reserves it is never released
  (`tests/test_finite_modal_provider.py:718` expects it to be).
- `MCReaderReset.cfg`, `GenerationNeverFalls`: the answer to the projector's own
  reset is applied whatever generation the events have brought meanwhile
  (`static/projector.js:1389`, `docs/architecture.md:199`).
- `MCProjectorPlanner.cfg`, `PlannerFollowed`: the answer to a poll
  (`live_scene.py:536`) has no `planner_active` and clears the flag that the
  stream has set (`static/projector.js:1823`, against `live_scene.py:1056`).
- `MCRouterSearch.cfg`, `PaidSceneIsFound`: `_recover_exact_bundle` says it will
  "reuse a completed paid bundle after local packaging failed"
  (`provider_router.py:420`), and its test uses a stub that writes request
  hashes. A request repeated in another directory, which is what each new job has,
  pays again if the paid bundle lies behind 128 newer manifests (`:443`), if it
  does not load just then (`:451`), or if Cloud Run or Modal wrote it: their
  manifests have the plain prompt and no `prompt_sha256` or `requested_width`
  (`gcp_scene_provider.py:511`, `finite_modal_provider.py:2842`), so
  `_request_identity_matches` never accepts them. In the same directory such a
  request fails instead. `RetryFindsTheBundle` names these cases.
- `MCWorkbenchOverlap.cfg`, `OneCallAtATime`: after a lost answer the `finally`
  of the call that waits for `reconcileGeneration` (`static/workbench.js:1954`)
  clears `generationSubmitting` of the call that `reconcileGeneration` has
  started (`:1617`), and two calls overlap. Consequences: the page may stop
  following a job it paid for until the job has ended, may follow a finished one
  after a late answer, and a call of an earlier recording can make a text be
  submitted again. No document says otherwise; the workbench's properties name
  this case (`overlapped`, `leftOver`).
- `MCWorkbenchPoll.cfg`, `NoEndedJobFollowed`: a poll is told that a job is at
  work, the stream comes back and tells its end, `compileStory` of the next
  description clears the snapshot and the revision on show
  (`static/workbench.js:1854`), and the poll's answer, handled without a second
  look (`:1443`), makes the page follow the ended job again. With the stream back
  no poll follows (`:1434`), and a final description waits for an end that has
  been told already. No document says otherwise; `FinalDescriptionSettles` names
  the case (`revived`).

More of the workbench, allowed for in `FinalDescriptionSettles`: a restart of
the service under the session's job, a job that completes or fails while the
scene of another is being shown (`tryPresent` pumps only if the text changed), a
refused press of the generate button, overlapped calls and the late answer to a
poll leave a final description lying. Outside its properties: a recording that fails to start
moves the recording's number on without clearing the description
(`workbench.js:614`); a lost submission the server never got, or whose job was
superseded, stays pending for ever; a failed manual generation is not submitted
again by itself.

Known hazards without a property:

- `provider_router.py:383`: a failed probe overwrites a longer Retry-After.
- `anticipatory.py`: a batch that is refused for lack of room has already
  evicted (`:377`); a cache entry may be gone after the await that validates it
  (`:393`);
  `wait_terminal` may find its record evicted or started anew (`:491`); `close`
  raises at a task whose record was evicted (`:504`); a second batch of a
  sequence can make its status impossible to build.
- `live_scene.py:977`: while an activation awaits the sink with the lock held,
  every other request of the registry waits.
- `asr.py:69`: a second cancellation gives the lock back while the thread runs.
- `finite_modal_provider.py:687`: a cancelled caller's thread reserves all the
  same; `modal_budget.py:184`: a reconciliation may put the ledger over its cap.
- `story_store.py:132`: a cancelled find may drop a newer entry of the index.
- Prepared pages: a discard after a restart of the service is answered 404, so
  the page keeps its place; an activation may go up after its page expired
  (`docs/architecture.md:248`); a submission whose answer is lost leaves paid
  remote work until it expires.

## What is not modelled

Text and image data, plans, prompts, metrics, checksums and HTTP framing, since
no property tells them apart. Most of the repository is such code: the planner
and the language rules, scene facts, evaluation, datasets, benchmarks, asset
generation and deployment turn one value into another or run offline, and share
no state with the parts above. The planner, the renderers and the critic appear
as environments that may answer anything their contracts allow. Cancellation of
the HTTP handler that awaits a registry or orchestrator method. Speech
recognition, the asset cache and the gateways. `PROJECT.json` gives the reason
for each component.

## Plan

1. What is true of a candidate whose key is started more than once: which task
   may still write its record, and how often it can be paid for.
2. `SceneRouter` over `PaidScene` instead of free outcomes; cancellation of HTTP
   handlers in the registry and the orchestrator.
