--------------------------- MODULE ReaderSession ---------------------------
(***************************************************************************)
(* One live reading session, end to end: the registry that aligns speech   *)
(* to the page (reader_runtime.py), the bounded event hub (event_hub.py),  *)
(* the socket that forwards its events (api.py), and the projector that    *)
(* shows the word reached (static/projector.js).  The projector repairs    *)
(* what the hub drops by reading the session's status; its own resets and  *)
(* page turns are answered by HTTP, beside the event stream.  A workbench  *)
(* may configure and reset the same session at any time.                   *)
(***************************************************************************)
EXTENDS ReaderAlignment

CONSTANTS
  Page,           \* pages of the Story Pack
  Text,           \* the words of each page
  Transcripts,    \* what a transcription may return
  Modes,          \* "cumulative", "partial"
  QueueSize,      \* events the hub keeps for a subscriber
  FirstPage,      \* the page on show when the projector starts
  MaxInputs, MaxFailures \* bounds; transcripts, page turns and resets are inputs

ASSUME ReaderAssumption ==
  /\ FirstPage \in Page /\ QueueSize \in Nat \ {0}
  /\ \A p \in Page : Text[p] \in Seq(STRING) /\ Text[p] # <<>>
  /\ Transcripts \subseteq Seq(STRING)

NoPage == "no page"
None == [is |-> "none"]
Sent == [is |-> "asked"]
Asked(p) == [is |-> "asked", page |-> p]
Answered(s) == [is |-> "answered", status |-> s]

VARIABLES
  session,     \* the aligner and its generation: [page, generation, reached]
  sequence,    \* the hub's counter for the session
  queue,       \* the projector's subscription
  socket,      \* "unopened", "closed", "open"
  shown,       \* what the projector shows: [page, generation, cursor]
  last,        \* lastReaderSequence, 0 when there is none
  pending,     \* pendingReaderEvents
  sync, again, \* the status request on its way, and resyncAfterCurrent
  turn, configured, \* a page turn's request; readerConfiguredPageId
  ownReset,    \* the reset button's request
  workbench,   \* "idle", or "configured" and about to reset
  strayed,     \* the projector was left where the events cannot take it on
  done         \* what is used of each bound

hub == <<sequence, queue>>
client == <<shown, last, pending, sync, again>>
readerVars == <<session, sequence, queue, socket, shown, last, pending, sync,
          again, turn, configured, ownReset, workbench, strayed, done>>

Spend(what) == done' = [done EXCEPT ![what] = @ + 1]

-----------------------------------------------------------------------------
(* The hub.  An event that finds the queue full is marked and takes the     *)
(* place of the oldest.                                                    *)
Subscribed == socket = "open"

Kept(q) == IF Len(q) > QueueSize THEN SubSeq(q, Len(q) - QueueSize + 1, Len(q)) ELSE q

Publish(events) ==
  LET numbered == [k \in DOMAIN events |->
                     [events[k] EXCEPT !.sequence = sequence + k,
                                       !.dropped = Len(queue) + k > QueueSize]]
  IN IF Subscribed
     THEN sequence' = sequence + Len(events) /\ queue' = Kept(queue \o numbered)
     ELSE UNCHANGED hub

Event(type, s, index) ==
  [type |-> type, page |-> s.page, generation |-> s.generation, index |-> index,
   sequence |-> 0, dropped |-> FALSE]

(* The registry: a transcript for the present page and generation, a reset, *)
(* and the configuration of a page, which starts a generation if it is new. *)
Ingest(spoken, mode) ==
  LET new == NewlyReached(Text[session.page], spoken, session.reached, mode)
  IN /\ session.page # NoPage
     /\ done.inputs < MaxInputs
     /\ session' = IF new = <<>> THEN session
                   ELSE [session EXCEPT !.reached = Last(new)]
     /\ Publish(<<Event("transcript.partial", session, 0)>> \o
                [k \in DOMAIN new |-> Event("word.reached", session, new[k])])
     /\ Spend("inputs")
     /\ UNCHANGED <<socket, client, turn, configured, ownReset,
                    workbench, strayed>>

Restarted == [session EXCEPT !.generation = @ + 1, !.reached = 0]

Configured(p) ==
  IF p = session.page THEN session
  ELSE [page |-> p, generation |-> session.generation + 1, reached |-> 0]

(* The workbench configures its page and, once that is answered, resets it. *)
WorkbenchConfigures(p) ==
  /\ workbench = "idle" /\ done.inputs < MaxInputs
  /\ session' = Configured(p)
  /\ workbench' = "configured"
  /\ Spend("inputs")
  /\ UNCHANGED <<hub, socket, client, turn, configured, ownReset, strayed>>

WorkbenchResets ==
  /\ workbench = "configured"
  /\ session' = Restarted
  /\ Publish(<<Event("session.reset", Restarted, 0)>>)
  /\ workbench' = "idle"
  /\ UNCHANGED <<socket, client, turn, configured, ownReset, strayed, done>>

-----------------------------------------------------------------------------
(* What the projector makes of an event, of a status, and of a row of      *)
(* events.                                                                 *)
(* Faults: a word of an earlier reading, or one already passed, is taken. *)
NewWordOfAnyReading(view, event) ==
  event.type = "word.reached" /\ event.page = view.page /\ event.index > view.cursor
NewWordAnywhere(view, event) ==
  /\ event.type = "word.reached" /\ event.page = view.page
  /\ event.generation = view.generation

NewWord(view, event) ==
  /\ event.type = "word.reached" /\ event.page = view.page
  /\ event.generation = view.generation /\ event.index > view.cursor

NewReading(view, event) ==
  /\ event.type = "session.reset" /\ event.page = view.page
  /\ event.generation > view.generation

Handled(view, event) ==
  IF NewWord(view, event) THEN [view EXCEPT !.cursor = event.index]
  ELSE IF NewReading(view, event)
  THEN [view EXCEPT !.generation = event.generation, !.cursor = 0]
  ELSE view

Outdated(status, view) ==
  \/ status.generation < view.generation
  \/ status.generation = view.generation /\ status.reached <= view.cursor

Applied(status, view) ==
  IF status.page # view.page \/ Outdated(status, view) THEN view
  ELSE [view EXCEPT !.generation = status.generation, !.cursor = status.reached]

Replayed(view, events) ==
  LET at[k \in 0 .. Len(events)] == IF k = 0 THEN view ELSE Handled(at[k - 1], events[k])
  IN at[Len(events)]

(* The events that can still reach the projector, and where they lead. *)
Undelivered == pending \o queue
Follows(view) ==
  Replayed(view, Undelivered) =
    [page |-> session.page, generation |-> session.generation,
     cursor |-> session.reached]

(* requestReaderSynchronization *)
Synchronize(force) ==
  IF sync = None THEN sync' = Sent /\ UNCHANGED again
  ELSE again' = (again \/ force) /\ UNCHANGED sync

(* Opening the socket subscribes to the hub and asks for the status.  The   *)
(* first connection waits for the first page.                              *)
Connect ==
  /\ socket = "closed" \/ (socket = "unopened" /\ turn = None)
  /\ socket' = "open"
  /\ Synchronize(TRUE)
  /\ UNCHANGED <<session, hub, shown, last, pending, turn, configured,
                 ownReset, workbench, strayed, done>>

(* The hub forgets the session's counter with its last subscriber; where    *)
(* the counter stands is nothing to a projector that starts without one.   *)
Unsubscribe ==
  /\ queue' = <<>>
  /\ sequence' = 0

Disconnect ==
  /\ Subscribed /\ done.failures < MaxFailures
  /\ socket' = "closed" /\ Unsubscribe
  /\ last' = 0 /\ pending' = <<>>
  /\ Spend("failures")
  /\ UNCHANGED <<session, shown, sync, again, turn, configured, ownReset,
                 workbench, strayed>>

Gap(event) == event.dropped \/ (last # 0 /\ event.sequence > last + 1)

(* Fault: a gap met during a synchronization asks for no further one. *)
ReceiveUnforced ==
  /\ socket = "open" /\ queue # <<>>
  /\ queue' = Tail(queue)
  /\ LET event == Head(queue)
     IN IF event.sequence <= last THEN UNCHANGED client
        ELSE /\ last' = event.sequence
             /\ IF sync # None \/ Gap(event)
                THEN pending' = Append(pending, event) /\ UNCHANGED shown
                ELSE shown' = Handled(shown, event) /\ UNCHANGED pending
             /\ IF Gap(event) THEN Synchronize(FALSE) ELSE UNCHANGED <<sync, again>>
  /\ UNCHANGED <<session, sequence, socket, turn, configured, ownReset,
                 workbench, strayed, done>>

Receive ==
  /\ socket = "open" /\ queue # <<>>
  /\ queue' = Tail(queue)
  /\ LET event == Head(queue)
     IN IF event.sequence <= last THEN UNCHANGED client
        ELSE /\ last' = event.sequence
             /\ IF sync # None \/ Gap(event)
                THEN pending' = Append(pending, event) /\ UNCHANGED shown
                ELSE shown' = Handled(shown, event) /\ UNCHANGED pending
             /\ IF Gap(event) THEN Synchronize(TRUE) ELSE UNCHANGED <<sync, again>>
  /\ UNCHANGED <<session, sequence, socket, turn, configured, ownReset,
                 workbench, strayed, done>>

AnswerStatus ==
  /\ sync.is = "asked"
  /\ sync' = Answered(session)
  /\ UNCHANGED <<session, hub, socket, shown, last, pending, again, turn,
                 configured, ownReset, workbench, strayed, done>>

(* Fault: the synchronization asked for meanwhile is not started. *)
SynchronizedOnce ==
  /\ sync.is = "answered"
  /\ LET view == Applied(sync.status, shown)
     IN IF again
        THEN shown' = view /\ sync' = None /\ UNCHANGED pending
        ELSE shown' = Replayed(view, pending) /\ sync' = None /\ pending' = <<>>
  /\ again' = FALSE
  /\ UNCHANGED <<session, hub, socket, last, turn, configured, ownReset,
                 workbench, done>>
  /\ strayed' = (strayed /\ ~Follows(shown)')

(* The end of a synchronization: another one starts at once if it was      *)
(* asked for meanwhile, and only the last one lets the pending events go.  *)
Synchronized ==
  /\ sync.is = "answered"
  /\ LET view == Applied(sync.status, shown)
     IN IF again
        THEN shown' = view /\ sync' = Sent /\ UNCHANGED pending
        ELSE shown' = Replayed(view, pending) /\ sync' = None /\ pending' = <<>>
  /\ again' = FALSE
  /\ UNCHANGED <<session, hub, socket, last, turn, configured, ownReset,
                 workbench, done>>
  /\ strayed' = (strayed /\ ~Follows(shown)')

(* A failed status request closes the socket, if there is one. *)
SynchronizationFails ==
  /\ sync # None /\ done.failures < MaxFailures
  /\ sync' = None /\ again' = FALSE /\ pending' = <<>>
  /\ IF Subscribed THEN socket' = "closed" /\ last' = 0 /\ Unsubscribe
     ELSE UNCHANGED <<socket, last, hub>>
  /\ Spend("failures")
  /\ UNCHANGED <<session, shown, turn, configured, ownReset, workbench, strayed>>

-----------------------------------------------------------------------------
(* The projector's own requests.  A turn to a page the session is already   *)
(* configured for asks nothing.                                            *)
Turn(p) ==
  /\ turn = None /\ p # shown.page /\ done.inputs < MaxInputs
  /\ IF shown.generation # 0 /\ configured = p
     THEN shown' = [shown EXCEPT !.page = p] /\ UNCHANGED <<pending, turn>>
     ELSE /\ shown' = [shown EXCEPT !.page = p, !.cursor = 0]
          /\ pending' = <<>> /\ turn' = Asked(p)
  /\ strayed' = (strayed \/ turn' = None)
  /\ Spend("inputs")
  /\ UNCHANGED <<session, hub, socket, last, sync, again, configured,
                 ownReset, workbench>>

AnswerTurn ==
  /\ turn.is = "asked"
  /\ session' = Configured(turn.page)
  /\ turn' = Answered(session')
  /\ UNCHANGED <<hub, socket, client, configured, ownReset, workbench,
                 strayed, done>>

Turned ==
  /\ turn.is = "answered"
  /\ shown' = [shown EXCEPT !.generation = turn.status.generation,
                            !.cursor = turn.status.reached]
  /\ configured' = shown.page
  /\ turn' = None
  /\ UNCHANGED <<session, hub, socket, last, pending, sync, again,
                 ownReset, workbench, done>>
  /\ strayed' = ~Follows(shown)'

TurnFails ==
  /\ turn # None /\ done.failures < MaxFailures
  /\ turn' = None /\ strayed' = TRUE
  /\ Spend("failures")
  /\ UNCHANGED <<session, hub, socket, client, configured, ownReset, workbench>>

PressReset ==
  /\ ownReset = None /\ done.inputs < MaxInputs
  /\ ownReset' = Sent
  /\ Spend("inputs")
  /\ UNCHANGED <<session, hub, socket, client, turn, configured,
                 workbench, strayed>>

AnswerReset ==
  /\ ownReset.is = "asked"
  /\ IF session.page = NoPage
     THEN ownReset' = None /\ UNCHANGED <<session, hub>>
     ELSE /\ session' = Restarted
          /\ Publish(<<Event("session.reset", Restarted, 0)>>)
          /\ ownReset' = Answered(Restarted)
  /\ UNCHANGED <<socket, client, turn, configured, workbench, strayed, done>>

ResetDone ==
  /\ ownReset.is = "answered"
  /\ shown' = [shown EXCEPT !.generation = ownReset.status.generation, !.cursor = 0]
  /\ ownReset' = None
  /\ UNCHANGED <<session, hub, socket, last, pending, sync, again, turn,
                 configured, workbench, done>>
  /\ strayed' = ~Follows(shown)'

ResetFails ==
  /\ ownReset # None /\ done.failures < MaxFailures
  /\ ownReset' = None
  /\ Spend("failures")
  /\ UNCHANGED <<session, hub, socket, client, turn, configured, workbench,
                 strayed>>

-----------------------------------------------------------------------------
(* The projector starts with its first page on show and its configuration  *)
(* asked for.                                                              *)
ReaderInit ==
  /\ session = [page |-> NoPage, generation |-> 0, reached |-> 0]
  /\ sequence = 0 /\ queue = <<>>
  /\ socket = "unopened" /\ last = 0 /\ pending = <<>> /\ sync = None /\ again = FALSE
  /\ turn = Asked(FirstPage) /\ shown = [page |-> FirstPage, generation |-> 0, cursor |-> 0]
  /\ configured = NoPage /\ ownReset = None /\ workbench = "idle" /\ strayed = FALSE
  /\ done = [inputs |-> 0, failures |-> 0]

Served == WorkbenchResets \/ AnswerStatus \/ AnswerTurn \/ AnswerReset
Shows == Synchronized \/ Turned \/ ResetDone

ReaderNext ==
  \/ \E spoken \in Transcripts, mode \in Modes : Ingest(spoken, mode)
  \/ \E p \in Page : WorkbenchConfigures(p) \/ Turn(p)
  \/ Served \/ Shows \/ Connect \/ Receive
  \/ PressReset
  \/ Disconnect \/ SynchronizationFails \/ TurnFails \/ ResetFails

ReaderSpec == ReaderInit /\ [][ReaderNext]_readerVars
FairSpec ==
  /\ ReaderSpec
  /\ WF_readerVars(Served) /\ WF_readerVars(Shows)
  /\ WF_readerVars(Connect) /\ WF_readerVars(Receive)

-----------------------------------------------------------------------------
(* While the page shown is the page read, the projector is never ahead of   *)
(* the aligner: no older event, status or pending event carries it past     *)
(* the word reached.                                                       *)
NeverAhead ==
  shown.page = session.page =>
    /\ shown.generation <= session.generation
    /\ shown.generation = session.generation => shown.cursor <= session.reached

(* With the socket open and no synchronization under way, the events still  *)
(* to be taken lead from what is shown to what is read, unless one of them  *)
(* announces a gap: nothing is lost without a trace, whatever the hub       *)
(* dropped and however often the socket was opened again.                  *)
EventsSuffice ==
  \/ socket # "open" \/ sync # None \/ turn # None \/ workbench # "idle" \/ strayed
  \/ shown.page # session.page
  \/ \E k \in DOMAIN Undelivered : Undelivered[k].dropped
  \/ Follows(shown)

(* Only the projector's own reset and page turn take the word shown back    *)
(* within a reading.                                                       *)
NeverBack ==
  [][shown'.page = shown.page /\ shown'.generation = shown.generation
       /\ shown'.cursor < shown.cursor => ownReset' # ownReset \/ turn' # turn]_readerVars

(* In the end the projector shows the word reached, or a page that is not   *)
(* being read.                                                             *)
Converges ==
  <>[](\/ strayed \/ shown.page # session.page
       \/ shown.generation = session.generation /\ shown.cursor = session.reached)

(* A transcript takes the reading to the last word of the earliest longest  *)
(* alignment with the page, or with what is left of it, and nowhere else.  *)
EarliestReached(page, spoken) ==
  LET met == EarliestLongest(page, spoken) IN IF met = <<>> THEN 0 ELSE Last(met)

ReachesEarliest ==
  [][session'.reached > session.reached =>
       \E spoken \in Transcripts, from \in {0, session.reached} :
         LET page == Text[session.page]
         IN session'.reached =
              from + EarliestReached(SubSeq(page, from + 1, Len(page)), spoken)]_readerVars

(* "A per-session generation number rejects events from a reset or prior    *)
(* page": the projector never returns to an earlier generation.            *)
GenerationNeverFalls == [][shown'.generation >= shown.generation]_readerVars

-----------------------------------------------------------------------------
(* What NeverAhead, NeverBack and EventsSuffice rest on.                   *)
Places == [page : Page \cup {NoPage}, generation : Nat, reached : Nat]
Views == [page : Page, generation : Nat, cursor : Nat]
Events ==
  [type : {"transcript.partial", "word.reached", "session.reset"},
   page : Page \cup {NoPage}, generation : Nat, index : Nat, sequence : Nat,
   dropped : BOOLEAN]

\* A request is not made, on its way, or answered with what the session was.
RequestFits(r, asked) ==
  \/ r = None \/ r \in asked
  \/ r = Answered(r.status) /\ r.status \in Places

ReaderTypeOK ==
  /\ session \in Places /\ shown \in Views
  /\ queue \in Seq(Events) /\ Len(queue) <= QueueSize /\ pending \in Seq(Events)
  /\ sequence \in Nat /\ last \in Nat
  /\ RequestFits(sync, {Sent}) /\ RequestFits(ownReset, {Sent})
  /\ RequestFits(turn, {Asked(p) : p \in Page})
  /\ socket \in {"unopened", "closed", "open"} /\ again \in BOOLEAN /\ strayed \in BOOLEAN

\* Whatever carries a place of the reading is of an earlier one, or not past the word
\* reached.
Within(generation, index) ==
  /\ generation <= session.generation
  /\ generation = session.generation => index <= session.reached
NothingAhead ==
  /\ Within(shown.generation, shown.cursor)
  /\ \A events \in {queue, pending} : \A k \in 1 .. Len(events) :
       Within(events[k].generation, events[k].index)
  /\ \A r \in {sync, turn, ownReset} :
       r.is = "answered" => Within(r.status.generation, r.status.reached)

\* The events of the queue are new to the projector, and in order.
QueueInOrder ==
  /\ last <= sequence
  /\ \A k \in DOMAIN queue : last < queue[k].sequence /\ queue[k].sequence <= sequence
  /\ \A j, k \in DOMAIN queue : j < k => queue[j].sequence < queue[k].sequence

\* The answer awaited, or the events not taken yet, lead to the word reached, unless a
\* gap in the queue is still to be noticed.
Excused ==
  \/ turn # None \/ workbench # "idle" \/ strayed \/ shown.page # session.page
  \/ \E k \in DOMAIN queue : queue[k].dropped
Resumes ==
  /\ sync = None => pending = <<>> /\ ~again
  /\ socket = "open" /\ ~Excused =>
       IF sync = None THEN Follows(shown)
       ELSE again \/ sync = Sent \/ Follows(Applied(sync.status, shown))

ReaderIInv == ReaderTypeOK /\ NothingAhead /\ QueueInOrder /\ Resumes
============================================================================
