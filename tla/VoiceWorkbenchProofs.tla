------------------------ MODULE VoiceWorkbenchProofs ------------------------
(***************************************************************************)
(* The workbench shows only what was described, pays once for each         *)
(* description of a recording, never loses sight of what it has paid for   *)
(* and leaves no final description lying (VoiceWorkbench), for any texts,  *)
(* meanings and bounds.                                                    *)
(***************************************************************************)
EXTENDS VoiceWorkbench, TLAPS

-----------------------------------------------------------------------------
(* What the handlers call.                                                 *)

IsPage(w) == Whole(w) /\ DOMAIN w = DOMAIN Loaded

LEMMA PageFields ==
  DOMAIN Loaded = {"mic", "epoch", "partial", "story", "latest", "timer", "attempted",
    "checking", "active", "completed", "submitting", "compiles", "pending", "reconciling",
    "present", "job", "seen", "known", "subs", "overlapped", "leftOver", "raced"}
BY DEF Loaded

\* What a function of the page leaves to its caller: the page fits, has made no
\* submission, is in the same recording, and neither asks the session for another scene
\* nor has it shown one.
Carried(w, v, bought) ==
  /\ PageFits(v, bought)
  /\ v.subs = w.subs /\ v.epoch = w.epoch
  /\ v.present = w.present \/ v.present.phase \notin {"post", "shown"}

LEMMA CarriedOn ==
  ASSUME NEW w, NEW v, NEW u, NEW bought, Carried(w, v, bought), Carried(v, u, bought)
  PROVE  Carried(w, u, bought)
BY DEF Carried

LEMMA CarriedAtRest ==
  ASSUME NEW w, NEW bought, PageFits(w, bought)
  PROVE  Carried(w, w, bought)
BY DEF Carried

\* Nothing is done to calls, payments, artwork and presentations.
Touches(w, v) ==
  /\ IsPage(v)
  /\ v.compiles = w.compiles /\ v.attempted = w.attempted /\ v.epoch = w.epoch
  /\ v.leftOver = w.leftOver /\ v.subs = w.subs /\ v.present = w.present
  /\ v.completed = w.completed

LEMMA Untouched ==
  ASSUME NEW w, NEW v, NEW bought, PageFits(w, bought), Touches(w, v)
  PROVE  Carried(w, v, bought)
<1>1. Describing(v) = Describing(w)
  BY DEF Describing, Touches
<1>2. \A c : Owns(w, c, bought) <=> Owns(v, c, bought)
  BY <1>1 DEF Owns, Touches
<1>3. AccountFits(v, bought)
  BY <1>1, <1>2 DEF AccountFits, PageFits, Touches
<1>4. CompletedFits(v) /\ PresentFits(v) /\ CallsFit(v)
  BY <1>1 DEF PageFits, CompletedFits, PresentFits, CallsFit, Publishing, Touches
<1> QED
  BY <1>3, <1>4 DEF Carried, PageFits, IsPage, Touches

\* A presentation moves on.
LEMMA PresentMoves ==
  ASSUME NEW w, NEW p, NEW bought, PageFits(w, bought),
         Whole(p), "phase" \in DOMAIN p, p # Idle => {"text", "job"} \subseteq DOMAIN p
  PROVE  LET v == [w EXCEPT !.present = p]
         IN PageFits(v, bought) /\ v.present = p /\ v.subs = w.subs /\ v.epoch = w.epoch
<1> DEFINE v == [w EXCEPT !.present = p]
<1>1. /\ IsPage(v) /\ v.compiles = w.compiles /\ v.attempted = w.attempted
      /\ v.epoch = w.epoch /\ v.leftOver = w.leftOver /\ v.subs = w.subs
      /\ v.completed = w.completed /\ v.present = p
  BY PageFields DEF PageFits, IsPage, Whole
<1> HIDE DEF v
<1>2. Describing(v) = Describing(w)
  BY <1>1 DEF Describing
<1>3. \A c : Owns(w, c, bought) <=> Owns(v, c, bought)
  BY <1>1, <1>2 DEF Owns
<1>4. AccountFits(v, bought)
  BY <1>1, <1>2, <1>3 DEF AccountFits, PageFits
<1>5. CompletedFits(v) /\ CallsFit(v) /\ PresentFits(v)
  BY <1>1, <1>2 DEF PageFits, CompletedFits, CallsFit, PresentFits, Publishing
<1>6. PageFits(v, bought)
  BY <1>1, <1>4, <1>5 DEF PageFits, IsPage
<1> QED
  BY <1>1, <1>6 DEF v

LEMMA TryPresentCarries ==
  ASSUME NEW w, NEW bought, PageFits(w, bought)
  PROVE  Carried(w, TryPresent(w), bought)
<1> DEFINE p == [phase |-> "pointer", text |-> w.latest.text, job |-> w.completed.job]
           v == [w EXCEPT !.present = p]
<1>1. Whole(p) /\ DOMAIN p = {"phase", "text", "job"} /\ p.phase = "pointer"
  BY DEF Whole
<1>2. TryPresent(w) \in {w, v}
  BY DEF TryPresent
<1> HIDE DEF p
<1>3. PageFits(v, bought) /\ v.present = p /\ v.subs = w.subs /\ v.epoch = w.epoch
  BY <1>1, PresentMoves
<1> HIDE DEF v
<1>4. Carried(w, v, bought)
  BY <1>1, <1>3 DEF Carried
<1> QED
  BY <1>2, <1>4, CarriedAtRest

\* A function that changes calls and what was attempted.
LEMMA Changed ==
  ASSUME NEW w, NEW v, NEW bought, PageFits(w, bought), IsPage(v),
         v.epoch = w.epoch, v.subs = w.subs, v.present = w.present,
         v.completed = w.completed, CallsFit(v), AccountFits(v, bought)
  PROVE  Carried(w, v, bought)
<1>1. CompletedFits(v) /\ PresentFits(v)
  BY DEF PageFits, CompletedFits, PresentFits, Publishing
<1> QED
  BY <1>1 DEF Carried, PageFits, IsPage

LEMMA EndsCarries ==
  ASSUME NEW w, NEW c, NEW bought, PageFits(w, bought)
  PROVE  Carried(w, Ends(w, c), bought)
<1> DEFINE v == Ends(w, c)
<1>1. /\ IsPage(v) /\ v.compiles = w.compiles \ {c} /\ v.attempted = w.attempted
      /\ v.epoch = w.epoch /\ v.leftOver = w.leftOver /\ v.subs = w.subs
      /\ v.present = w.present /\ v.completed = w.completed
  BY PageFields DEF PageFits, IsPage, Whole, Ends
<1> HIDE DEF v
<1>2. Describing(v) = Describing(w) \ {c}
  BY <1>1 DEF Describing
<1>3. CallsFit(v)
  BY <1>1, <1>2 DEF CallsFit, PageFits
<1>4. AccountFits(v, bought)
  BY <1>1, <1>2 DEF AccountFits, Owns, PageFits
<1>5. Carried(w, v, bought)
  BY <1>1, <1>3, <1>4, Changed
<1> QED
  BY <1>5 DEF v

Pairs(bought) == \A b \in bought : b = <<b[1], b[2]>>

LEMMA AgainCarries ==
  ASSUME NEW w, NEW c, NEW bought, PageFits(w, bought), Pairs(bought),
         c.automatic, AccountFits(w, bought), w.leftOver \/ Owns(w, c, bought)
  PROVE  Carried(w, Again(w, c), bought)
<1> DEFINE v == Again(w, c)
<1>1. /\ IsPage(v) /\ v.compiles = w.compiles \ {c} /\ v.attempted = w.attempted \ {c.text}
      /\ v.epoch = w.epoch /\ v.leftOver = w.leftOver /\ v.subs = w.subs
      /\ v.present = w.present /\ v.completed = w.completed
  BY PageFields DEF PageFits, IsPage, Whole, Again, Ends
<1> HIDE DEF v
<1>2. Describing(v) = Describing(w) \ {c}
  BY <1>1 DEF Describing
<1>3. CallsFit(v)
  BY <1>1, <1>2 DEF CallsFit, PageFits
<1>4. ASSUME ~w.leftOver
      PROVE  AccountFits(v, bought)
  <2>1. Owns(w, c, bought)
    BY <1>4
  <2>2. ASSUME NEW b \in bought, b[1] = v.epoch
        PROVE  b[2] \in v.attempted
    <3>1. b[2] \in w.attempted /\ b = <<b[1], b[2]>>
      BY <1>1, <1>4, <2>2 DEF AccountFits, Pairs
    <3>2. b[2] # c.text
      BY <1>1, <2>1, <2>2, <3>1 DEF Owns
    <3> QED
      BY <1>1, <3>1, <3>2
  <2>3. ASSUME NEW d \in Describing(v)
        PROVE  Owns(v, d, bought)
    <3>1. d \in Describing(w) /\ d # c /\ Owns(w, d, bought)
      BY <1>2, <1>4, <2>3 DEF AccountFits
    <3>2. d.automatic /\ d.epoch = w.epoch => d.text # c.text
      BY <2>1, <3>1 DEF Owns
    <3> QED
      BY <1>1, <1>2, <3>1, <3>2 DEF Owns
  <2> QED
    BY <2>2, <2>3 DEF AccountFits
<1>5. AccountFits(v, bought)
  BY <1>1, <1>4 DEF AccountFits
<1>6. Carried(w, v, bought)
  BY <1>1, <1>3, <1>5, Changed
<1> QED
  BY <1>6 DEF v

\* A call comes to its next await before its description is submitted.
LEMMA MovesCarries ==
  ASSUME NEW w, NEW c, NEW to, NEW bought, PageFits(w, bought),
         w.leftOver \/ Owns(w, c, bought),
         Whole(to), DOMAIN to = {"phase", "text", "automatic", "epoch"},
         to.phase \in {"check", "prior"}, to.automatic \in BOOLEAN, to.epoch \in 0..w.epoch,
         to.text = c.text, to.automatic = c.automatic, to.epoch = c.epoch
  PROVE  Carried(w, Moves(w, c, to), bought)
<1> DEFINE v == Moves(w, c, to)
<1>1. /\ IsPage(v) /\ v.compiles = (w.compiles \ {c}) \cup {to} /\ v.attempted = w.attempted
      /\ v.epoch = w.epoch /\ v.leftOver = w.leftOver /\ v.subs = w.subs
      /\ v.present = w.present /\ v.completed = w.completed
  BY PageFields DEF PageFits, IsPage, Whole, Moves
<1> HIDE DEF v
<1>2. Describing(v) = (Describing(w) \ {c}) \cup {to}
  BY <1>1 DEF Describing
<1>3. CallsFit(v)
  BY <1>1, <1>2 DEF CallsFit, PageFits
<1>4. ASSUME ~w.leftOver
      PROVE  AccountFits(v, bought)
  <2>1. Owns(w, c, bought)
    BY <1>4
  <2>2. Owns(v, to, bought)
    BY <1>1, <1>2, <2>1 DEF Owns
  <2>3. ASSUME NEW d \in Describing(w), d # c
        PROVE  Owns(v, d, bought)
    <3>1. Owns(w, d, bought)
      BY <1>4, <2>3 DEF AccountFits, PageFits
    <3>2. d.automatic /\ d.epoch = w.epoch /\ to.automatic => to.text # d.text
      BY <2>1, <2>3 DEF Owns
    <3>3. d.epoch = w.epoch <=> to.epoch = w.epoch
      BY <2>1, <2>3 DEF Owns
    <3> QED
      BY <1>1, <1>2, <3>1, <3>2, <3>3 DEF Owns
  <2> QED
    BY <1>1, <1>2, <1>4, <2>2, <2>3 DEF AccountFits, PageFits
<1>5. AccountFits(v, bought)
  BY <1>1, <1>4 DEF AccountFits
<1>6. Carried(w, v, bought)
  BY <1>1, <1>3, <1>5, Changed
<1> QED
  BY <1>6 DEF v

\* A call before its description is submitted, in a recording or an earlier one.
IsCall(c, epoch) ==
  /\ Whole(c) /\ DOMAIN c = {"phase", "text", "automatic", "epoch"}
  /\ c.phase \in {"check", "prior"} /\ c.automatic \in BOOLEAN /\ c.epoch \in 0..epoch

LEMMA OwnsUntouched ==
  ASSUME NEW w, NEW v, NEW c, NEW bought, Owns(w, c, bought),
         v.compiles = w.compiles, v.attempted = w.attempted, v.epoch = w.epoch
  PROVE  Owns(v, c, bought)
BY DEF Owns, Describing

\* Artwork that means the same is kept for another text.
LEMMA ReuseCarries ==
  ASSUME NEW w, NEW text, NEW bought, PageFits(w, bought),
         w.completed.job # NoJob, w.completed.meaning = Meaning[text]
  PROVE  Carried(w, [w EXCEPT !.completed.key = text], bought)
<1> DEFINE kept == [w.completed EXCEPT !.key = text]
           v == [w EXCEPT !.completed = kept]
<1>1. v = [w EXCEPT !.completed.key = text]
  OBVIOUS
<1>2. /\ IsPage(v) /\ v.compiles = w.compiles /\ v.attempted = w.attempted
      /\ v.epoch = w.epoch /\ v.leftOver = w.leftOver /\ v.subs = w.subs
      /\ v.present = w.present /\ v.completed = kept
  BY PageFields DEF PageFits, IsPage, Whole
<1> HIDE DEF v
<1>3. /\ Whole(kept) /\ DOMAIN kept = DOMAIN w.completed
      /\ kept.job = w.completed.job /\ kept.key = text
      /\ kept.source = w.completed.source /\ kept.meaning = w.completed.meaning
  BY DEF PageFits, CompletedFits, Whole
<1>4. CompletedFits(v)
  BY <1>2, <1>3 DEF PageFits, CompletedFits
<1>5. Describing(v) = Describing(w)
  BY <1>2 DEF Describing
<1>6. \A c : Owns(w, c, bought) <=> Owns(v, c, bought)
  BY <1>2, <1>5 DEF Owns
<1>7. AccountFits(v, bought) /\ PresentFits(v) /\ CallsFit(v)
  BY <1>2, <1>5, <1>6 DEF PageFits, AccountFits, PresentFits, CallsFit, Publishing
<1>8. PageFits(v, bought)
  BY <1>2, <1>4, <1>7 DEF PageFits, IsPage
<1> QED
  BY <1>1, <1>2, <1>8 DEF Carried

LEMMA AfterCheckCarries ==
  ASSUME NEW w, NEW c, NEW bought, PageFits(w, bought), Pairs(bought),
         IsCall(c, w.epoch), w.leftOver \/ Owns(w, c, bought)
  PROVE  Carried(w, AfterCheck(w, c), bought)
<1> DEFINE told == IF c.automatic THEN [w EXCEPT !.latest.checked = TRUE] ELSE w
           manual == [text |-> c.text, epoch |-> w.epoch, seen |-> 1, final |-> TRUE,
                      ready |-> FALSE, checked |-> FALSE, refused |-> FALSE]
           reused == [Ends(told, c) EXCEPT !.completed.key = c.text]
           moved == Moves(told, c, [c EXCEPT !.phase = "prior"])
           goes == [moved EXCEPT !.latest = IF c.automatic THEN @ ELSE manual,
                                 !.active = c.text, !.job = NoJob, !.seen = Empty(0)]
<1>1. Touches(w, told)
  BY PageFields DEF PageFits, IsPage, Whole, Touches
<1>2. \/ c.automatic /\ AfterCheck(w, c) = Again(told, c)
      \/ /\ AfterCheck(w, c) = TryPresent(reused)
         /\ w.completed.job # NoJob /\ w.completed.meaning = Meaning[c.text]
      \/ AfterCheck(w, c) = goes
  BY DEF AfterCheck
<1>3. Carried(w, told, bought)
  BY <1>1, Untouched
<1>4. PageFits(told, bought) /\ (told.leftOver \/ Owns(told, c, bought))
  BY <1>1, <1>3, OwnsUntouched DEF Carried, Touches
<1> HIDE DEF told
<1>5. CASE c.automatic /\ AfterCheck(w, c) = Again(told, c)
  <2>1. Carried(told, Again(told, c), bought)
    BY <1>4, <1>5, AgainCarries DEF PageFits
  <2> QED
    BY <1>3, <1>5, <2>1, CarriedOn
<1>6. CASE /\ AfterCheck(w, c) = TryPresent(reused)
           /\ w.completed.job # NoJob /\ w.completed.meaning = Meaning[c.text]
  <2>1. Carried(told, Ends(told, c), bought)
    BY <1>4, EndsCarries
  <2>2. Ends(told, c).completed = w.completed
    BY <1>1, PageFields DEF IsPage, Ends, Touches
  <2>3. Carried(Ends(told, c), reused, bought)
    <3> DEFINE ended == Ends(told, c)
    <3> HIDE DEF ended
    <3>1. PageFits(ended, bought) /\ ended.completed = w.completed
      BY <2>1, <2>2 DEF Carried, ended
    <3>2. Carried(ended, [ended EXCEPT !.completed.key = c.text], bought)
      BY <1>6, <3>1, ReuseCarries
    <3> QED
      BY <3>2 DEF ended
  <2>4. Carried(reused, TryPresent(reused), bought)
    BY <2>3, TryPresentCarries DEF Carried
  <2> QED
    BY <1>3, <1>6, <2>1, <2>3, <2>4, CarriedOn
<1>7. CASE AfterCheck(w, c) = goes
  <2>1. Carried(told, moved, bought)
    <3> DEFINE to == [c EXCEPT !.phase = "prior"]
    <3>1. /\ Whole(to) /\ DOMAIN to = {"phase", "text", "automatic", "epoch"}
          /\ to.phase = "prior" /\ to.text = c.text
          /\ to.automatic = c.automatic /\ to.epoch = c.epoch
      BY DEF IsCall, Whole
    <3> HIDE DEF to
    <3>2. to.phase \in {"check", "prior"} /\ to.automatic \in BOOLEAN /\ to.epoch \in 0..told.epoch
      BY <1>1, <3>1 DEF IsCall, Touches
    <3>3. Carried(told, Moves(told, c, to), bought)
      BY <1>4, <3>1, <3>2, MovesCarries
    <3> QED
      BY <3>3 DEF to
  <2>2. PageFits(moved, bought)
    BY <2>1 DEF Carried
  <2>3. Touches(moved, goes)
    <3> HIDE DEF moved
    <3> QED
      BY <2>2, PageFields DEF PageFits, IsPage, Whole, Touches
  <2>4. Carried(moved, goes, bought)
    <3> HIDE DEF moved, goes
    <3> QED
      BY <2>2, <2>3, Untouched
  <2> QED
    BY <1>3, <1>7, <2>1, <2>4, CarriedOn
<1> QED
  BY <1>2, <1>5, <1>6, <1>7

\* A call begins: by the button when there is no other, or for a description that was
\* just noted as attempted.
LEMMA CompileCarries ==
  ASSUME NEW w, NEW text, NEW automatic \in BOOLEAN, NEW bought,
         PageFits(w, bought), Pairs(bought), \A b \in bought : b[1] \in 0..w.epoch,
         automatic => /\ text \in w.attempted
                      /\ w.leftOver \/ /\ <<w.epoch, text>> \notin bought
                                       /\ \A d \in Describing(w) :
                                            d.automatic /\ d.epoch = w.epoch => d.text # text
  PROVE  Carried(w, Compile(w, text, automatic), bought)
<1> DEFINE c == [phase |-> "check", text |-> text, automatic |-> automatic, epoch |-> w.epoch]
           overlap == \E d \in w.compiles : d.phase # "waiting"
           left == \E d \in w.compiles : d.phase \in {"check", "prior"} /\ d.epoch # w.epoch
           begun == [w EXCEPT !.submitting = TRUE, !.overlapped = @ \/ overlap,
                              !.leftOver = @ \/ left]
<1>1. Compile(w, text, automatic) \in {w, AfterCheck(begun, c), Moves(begun, c, c)}
  BY DEF Compile
<1>2. IsCall(c, w.epoch)
  BY DEF IsCall, Whole, PageFits
<1>3. /\ IsPage(begun) /\ begun.compiles = w.compiles /\ begun.attempted = w.attempted
      /\ begun.epoch = w.epoch /\ begun.leftOver = (w.leftOver \/ left)
      /\ begun.subs = w.subs /\ begun.present = w.present /\ begun.completed = w.completed
  <2> HIDE DEF left, overlap
  <2> QED
    BY PageFields DEF PageFits, IsPage, Whole
<1>4. Describing(begun) = Describing(w)
  BY <1>3 DEF Describing
<1>5. begun.leftOver \/ Owns(begun, c, bought)
  <2>1. ~left => \A d \in Describing(w) : d.epoch = w.epoch
    BY DEF Describing
  <2> QED
    BY <1>3, <1>4, <2>1 DEF Owns
<1>6. Carried(w, begun, bought)
  <2>1. CallsFit(begun)
    BY <1>3, <1>4 DEF PageFits, CallsFit
  <2>2. AccountFits(begun, bought)
    <3> HIDE DEF begun, left
    <3>1. \A d : Owns(w, d, bought) <=> Owns(begun, d, bought)
      BY <1>3, <1>4 DEF Owns
    <3>2. CASE w.leftOver
      BY <1>3, <3>2 DEF AccountFits
    <3>3. CASE ~w.leftOver
      BY <1>3, <1>4, <3>1, <3>3 DEF PageFits, AccountFits
    <3> QED
      BY <3>2, <3>3
  <2> HIDE DEF begun
  <2> QED
    BY <1>3, <2>1, <2>2, Changed
<1>7. PageFits(begun, bought) /\ IsCall(c, begun.epoch)
  BY <1>2, <1>3, <1>6 DEF Carried
<1> HIDE DEF begun
<1>8. Carried(begun, AfterCheck(begun, c), bought)
  BY <1>5, <1>7, AfterCheckCarries
<1>9. Carried(begun, Moves(begun, c, c), bought)
  BY <1>5, <1>7, MovesCarries DEF IsCall
<1> QED
  BY <1>1, <1>6, <1>8, <1>9, CarriedOn, CarriedAtRest

LEMMA PumpCarries ==
  ASSUME NEW w, NEW bought,
         PageFits(w, bought), Pairs(bought), \A b \in bought : b[1] \in 0..w.epoch
  PROVE  Carried(w, Pump(w), bought)
<1> DEFINE checks == [w EXCEPT !.checking = [text |-> w.latest.text, epoch |-> w.epoch]]
           notes == [w EXCEPT !.attempted = @ \cup {w.latest.text}]
<1>1. \/ Pump(w) \in {w, checks, TryPresent(w)}
      \/ w.latest.text \notin w.attempted /\ Pump(w) = Compile(notes, w.latest.text, TRUE)
  BY DEF Pump
<1>2. Carried(w, w, bought) /\ Carried(w, TryPresent(w), bought)
  BY CarriedAtRest, TryPresentCarries
<1>3. Carried(w, checks, bought)
  <2>1. Touches(w, checks)
    BY PageFields DEF PageFits, IsPage, Whole, Touches
  <2> HIDE DEF checks
  <2> QED
    BY <2>1, Untouched
<1>4. ASSUME w.latest.text \notin w.attempted
      PROVE  Carried(w, Compile(notes, w.latest.text, TRUE), bought)
  <2>1. /\ IsPage(notes) /\ notes.compiles = w.compiles
        /\ notes.attempted = w.attempted \cup {w.latest.text}
        /\ notes.epoch = w.epoch /\ notes.leftOver = w.leftOver /\ notes.subs = w.subs
        /\ notes.present = w.present /\ notes.completed = w.completed
    BY PageFields DEF PageFits, IsPage, Whole
  <2> HIDE DEF notes
  <2>2. Describing(notes) = Describing(w)
    BY <2>1 DEF Describing
  <2>3. CallsFit(notes) /\ AccountFits(notes, bought)
    BY <2>1, <2>2 DEF PageFits, CallsFit, AccountFits, Owns
  <2>4. Carried(w, notes, bought)
    BY <2>1, <2>3, Changed
  <2>5. notes.leftOver \/ /\ <<notes.epoch, w.latest.text>> \notin bought
                          /\ \A d \in Describing(notes) :
                               d.automatic /\ d.epoch = notes.epoch => d.text # w.latest.text
    BY <1>4, <2>1, <2>2 DEF PageFits, AccountFits, Owns
  <2>6. Carried(notes, Compile(notes, w.latest.text, TRUE), bought)
    BY <2>1, <2>4, <2>5, CompileCarries DEF Carried
  <2> QED
    BY <2>4, <2>6, CarriedOn
<1> QED
  BY <1>1, <1>2, <1>3, <1>4

Known(w, bought) == Pairs(bought) /\ \A b \in bought : b[1] \in 0..w.epoch

LEMMA OfferCarries ==
  ASSUME NEW w, NEW text, NEW final, NEW bought, PageFits(w, bought), Known(w, bought)
  PROVE  Carried(w, Offer(w, text, final), bought)
<1> DEFINE same == w.latest.text = text /\ w.latest.epoch = w.epoch
           kept(flag) == same /\ w.latest[flag]
           latest == [text |-> text, epoch |-> w.epoch,
                      seen |-> IF same THEN 2 ELSE 1,
                      final |-> final \/ kept("final"), ready |-> final \/ kept("final"),
                      checked |-> kept("checked"), refused |-> kept("refused")]
           offered == [w EXCEPT !.latest = latest, !.story = text, !.timer = ~final]
<1>1. \/ Offer(w, text, final) = TryPresent(offered)
      \/ Offer(w, text, final) = TryPresent(Pump(offered))
  BY DEF Offer
<1> HIDE DEF latest
<1>2. Touches(w, offered)
  BY PageFields DEF PageFits, IsPage, Whole, Touches
<1> HIDE DEF offered
<1>3. Carried(w, offered, bought)
  BY <1>2, Untouched
<1>4. Carried(offered, Pump(offered), bought)
  BY <1>2, <1>3, PumpCarries DEF Carried, Known
<1>5. Carried(offered, TryPresent(offered), bought)
  BY <1>3, TryPresentCarries DEF Carried
<1>6. Carried(Pump(offered), TryPresent(Pump(offered)), bought)
  BY <1>4, TryPresentCarries DEF Carried
<1> QED
  BY <1>1, <1>3, <1>4, <1>5, <1>6, CarriedOn

LEMMA FinishCarries ==
  ASSUME NEW w, NEW p, NEW bought, PageFits(w, bought), Known(w, bought)
  PROVE  Carried(w, Finish(w, p), bought)
<1> DEFINE made == [job |-> JobOf(p), key |-> p.text, source |-> p.text,
                    meaning |-> IF w.active = p.text THEN Meaning[p.text] ELSE None,
                    shown |-> p.shown, tried |-> FALSE]
           kept == [w.completed EXCEPT !.shown = p.shown]
           completed == IF p.stage = "failed" THEN w.completed
                        ELSE IF w.completed.job = JobOf(p) THEN kept ELSE made
           race == Publishing(w) /\ w.completed.job # JobOf(p)
           ended == [w EXCEPT !.job = NoJob, !.active = None, !.completed = completed,
                              !.raced = @ \/ race]
<1>1. Finish(w, p) = Pump(ended)
  BY DEF Finish
<1>2. CompletedFits([completed |-> completed])
  <2>1. /\ Whole(kept) /\ DOMAIN kept = DOMAIN w.completed
        /\ kept.job = w.completed.job
        /\ "key" \in DOMAIN kept => kept.key = w.completed.key
        /\ "source" \in DOMAIN kept => kept.source = w.completed.source
        /\ "meaning" \in DOMAIN kept => kept.meaning = w.completed.meaning
    BY DEF PageFits, CompletedFits, Whole
  <2>2. CompletedFits([completed |-> kept])
    <3> HIDE DEF kept
    <3> QED
      BY <2>1 DEF PageFits, CompletedFits
  <2>3. CompletedFits([completed |-> made])
    BY DEF CompletedFits, Whole
  <2>4. CompletedFits([completed |-> w.completed])
    BY DEF CompletedFits, PageFits
  <2> QED
    BY <2>2, <2>3, <2>4
<1> HIDE DEF completed, race
<1>3. /\ IsPage(ended) /\ ended.compiles = w.compiles /\ ended.attempted = w.attempted
      /\ ended.epoch = w.epoch /\ ended.leftOver = w.leftOver /\ ended.subs = w.subs
      /\ ended.present = w.present /\ ended.completed = completed
  BY PageFields DEF PageFits, IsPage, Whole
<1> HIDE DEF ended
<1>4. Carried(w, ended, bought)
  <2>1. Describing(ended) = Describing(w)
    BY <1>3 DEF Describing
  <2>2. \A c : Owns(w, c, bought) <=> Owns(ended, c, bought)
    BY <1>3, <2>1 DEF Owns
  <2>3. AccountFits(ended, bought) /\ PresentFits(ended) /\ CallsFit(ended)
    BY <1>3, <2>1, <2>2 DEF PageFits, AccountFits, PresentFits, CallsFit, Publishing
  <2>4. CompletedFits(ended)
    BY <1>2, <1>3 DEF CompletedFits
  <2> QED
    BY <1>3, <2>3, <2>4 DEF Carried, PageFits, IsPage
<1>5. Carried(ended, Pump(ended), bought)
  BY <1>3, <1>4, PumpCarries DEF Carried, Known
<1> QED
  BY <1>1, <1>4, <1>5, CarriedOn

LEMMA RenderCarries ==
  ASSUME NEW w, NEW p, NEW bought, PageFits(w, bought), Known(w, bought)
  PROVE  Carried(w, Render(w, p), bought)
<1> DEFINE rendered == [w EXCEPT !.seen = p]
<1>1. Render(w, p) \in {w, rendered, Finish(rendered, p)}
  BY DEF Render
<1>2. Touches(w, rendered)
  BY PageFields DEF PageFits, IsPage, Whole, Touches
<1> HIDE DEF rendered
<1>3. Carried(w, rendered, bought)
  BY <1>2, Untouched
<1>4. Carried(rendered, Finish(rendered, p), bought)
  BY <1>2, <1>3, FinishCarries DEF Carried, Known
<1> QED
  BY <1>1, <1>3, <1>4, CarriedOn, CarriedAtRest

LEMMA HandleCarries ==
  ASSUME NEW w, NEW p, NEW bought, PageFits(w, bought), Known(w, bought)
  PROVE  Carried(w, Handle(w, p), bought)
<1> DEFINE here == IF w.known[1] \notin {0, p.instance} THEN Forgotten(w) ELSE w
           told == [here EXCEPT !.known[1] = p.instance]
           tracks == [here EXCEPT !.known = JobOf(p), !.job = JobOf(p), !.seen = Empty(0)]
<1>1. Handle(w, p) \in {told, Render(w, p), here, Render(tracks, p)}
  BY DEF Handle
<1>2. Touches(w, here)
  BY PageFields DEF PageFits, IsPage, Whole, Forgotten, Touches
<1> HIDE DEF here
<1>3. Carried(w, here, bought)
  BY <1>2, Untouched
<1>4. Carried(here, told, bought)
  <2>1. Touches(here, told)
    BY <1>2, PageFields DEF IsPage, Whole, Touches
  <2> HIDE DEF told
  <2> QED
    BY <1>3, <2>1, Untouched DEF Carried
<1>5. Carried(here, tracks, bought)
  <2>1. Touches(here, tracks)
    BY <1>2, PageFields DEF IsPage, Whole, Touches
  <2> HIDE DEF tracks
  <2> QED
    BY <1>3, <2>1, Untouched DEF Carried
<1> HIDE DEF tracks, told
<1>6. Carried(w, Render(w, p), bought)
  BY RenderCarries
<1>7. PageFits(tracks, bought) /\ Known(tracks, bought)
  BY <1>3, <1>5 DEF Carried, Known
<1>8. Carried(tracks, Render(tracks, p), bought)
  BY <1>7, RenderCarries
<1> QED
  BY <1>1, <1>3, <1>4, <1>5, <1>6, <1>8, CarriedOn

\* What is said of the completed artwork besides what it is and means.
LEMMA MarksCarries ==
  ASSUME NEW w, NEW f \in {"shown", "tried"}, NEW x, NEW bought, PageFits(w, bought)
  PROVE  Carried(w, [w EXCEPT !.completed[f] = x], bought)
<1> DEFINE marked == [w.completed EXCEPT ![f] = x]
           v == [w EXCEPT !.completed = marked]
<1>1. v = [w EXCEPT !.completed[f] = x]
  OBVIOUS
<1>2. /\ IsPage(v) /\ v.compiles = w.compiles /\ v.attempted = w.attempted
      /\ v.epoch = w.epoch /\ v.leftOver = w.leftOver /\ v.subs = w.subs
      /\ v.present = w.present /\ v.completed = marked
  BY PageFields DEF PageFits, IsPage, Whole
<1> HIDE DEF v
<1>3. /\ Whole(marked) /\ DOMAIN marked = DOMAIN w.completed
      /\ \A g \in DOMAIN marked \ {f} : marked[g] = w.completed[g]
  BY DEF PageFits, CompletedFits, Whole
<1>4. CompletedFits(v)
  <2> HIDE DEF marked
  <2>1. /\ marked.job = w.completed.job
        /\ w.completed.job # NoJob =>
             /\ marked.key = w.completed.key /\ marked.source = w.completed.source
             /\ marked.meaning = w.completed.meaning
    BY <1>3 DEF PageFits, CompletedFits
  <2> QED
    BY <1>2, <1>3, <2>1 DEF PageFits, CompletedFits
<1>5. Describing(v) = Describing(w)
  BY <1>2 DEF Describing
<1>6. \A c : Owns(w, c, bought) <=> Owns(v, c, bought)
  BY <1>2, <1>5 DEF Owns
<1>7. AccountFits(v, bought) /\ PresentFits(v) /\ CallsFit(v)
  BY <1>2, <1>5, <1>6 DEF PageFits, AccountFits, PresentFits, CallsFit, Publishing
<1>8. PageFits(v, bought)
  BY <1>2, <1>4, <1>7 DEF PageFits, IsPage
<1> QED
  BY <1>1, <1>2, <1>8 DEF Carried

\* A call is past its submission.
LEMMA LeavesCarries ==
  ASSUME NEW w, NEW c, NEW to, NEW bought, PageFits(w, bought),
         Whole(to), "phase" \in DOMAIN to, to.phase \notin {"check", "prior"}
  PROVE  Carried(w, Moves(w, c, to), bought)
<1> DEFINE v == Moves(w, c, to)
<1>1. /\ IsPage(v) /\ v.compiles = (w.compiles \ {c}) \cup {to} /\ v.attempted = w.attempted
      /\ v.epoch = w.epoch /\ v.leftOver = w.leftOver /\ v.subs = w.subs
      /\ v.present = w.present /\ v.completed = w.completed
  BY PageFields DEF PageFits, IsPage, Whole, Moves
<1> HIDE DEF v
<1>2. Describing(v) = Describing(w) \ {c}
  BY <1>1 DEF Describing
<1>3. CallsFit(v)
  BY <1>1, <1>2 DEF CallsFit, PageFits
<1>4. AccountFits(v, bought)
  BY <1>1, <1>2 DEF AccountFits, Owns, PageFits
<1>5. Carried(w, v, bought)
  BY <1>1, <1>3, <1>4, Changed
<1> QED
  BY <1>5 DEF v

LEMMA FailedCarries ==
  ASSUME NEW w, NEW c, NEW bought, PageFits(w, bought), Known(w, bought)
  PROVE  Carried(w, Failed(w, c), bought)
<1> DEFINE ended == Ends(w, c)
           idle == [ended EXCEPT !.job = NoJob]
<1>1. Failed(w, c) = Pump(idle)
  BY DEF Failed
<1>2. Carried(w, ended, bought)
  BY EndsCarries
<1> HIDE DEF ended
<1>3. Touches(ended, idle)
  BY <1>2, PageFields DEF Carried, PageFits, IsPage, Whole, Touches
<1> HIDE DEF idle
<1>4. Carried(ended, idle, bought)
  BY <1>2, <1>3, Untouched DEF Carried
<1>5. Carried(idle, Pump(idle), bought)
  BY <1>2, <1>4, PumpCarries DEF Carried, Known
<1> QED
  BY <1>1, <1>2, <1>4, <1>5, CarriedOn

LEMMA UncertainCarries ==
  ASSUME NEW w, NEW c, NEW bought, PageFits(w, bought)
  PROVE  Carried(w, Uncertain(w, c), bought)
<1> DEFINE unsure == [w EXCEPT !.pending = [sub |-> c.sub, text |-> c.text, prior |-> c.prior]]
           waits == Moves(unsure, c, [phase |-> "waiting"])
           looks == [waits EXCEPT !.reconciling = TRUE]
<1>1. Uncertain(w, c) \in {Ends(unsure, c), looks}
  BY DEF Uncertain
<1>2. Touches(w, unsure)
  BY PageFields DEF PageFits, IsPage, Whole, Touches
<1> HIDE DEF unsure
<1>3. Carried(w, unsure, bought)
  BY <1>2, Untouched
<1>4. Carried(unsure, Ends(unsure, c), bought)
  BY <1>3, EndsCarries DEF Carried
<1>5. Carried(unsure, waits, bought)
  BY <1>3, LeavesCarries DEF Carried, Whole
<1> HIDE DEF waits
<1>6. Touches(waits, looks)
  BY <1>5, PageFields DEF Carried, PageFits, IsPage, Whole, Touches
<1> HIDE DEF looks
<1>7. Carried(waits, looks, bought)
  BY <1>5, <1>6, Untouched DEF Carried
<1> QED
  BY <1>1, <1>3, <1>4, <1>5, <1>7, CarriedOn

LEMMA EndPresentCarries ==
  ASSUME NEW w, NEW bought, PageFits(w, bought), Known(w, bought)
  PROVE  Carried(w, EndPresent(w), bought)
<1> DEFINE over == [w EXCEPT !.present = Idle]
<1>1. EndPresent(w) \in {over, Pump(over)}
  BY DEF EndPresent
<1>2. Whole(Idle) /\ "phase" \in DOMAIN Idle /\ Idle.phase = "idle"
  BY DEF Idle, Whole
<1>3. PageFits(over, bought) /\ over.present = Idle /\ over.subs = w.subs /\ over.epoch = w.epoch
  BY <1>2, PresentMoves
<1> HIDE DEF over
<1>4. Carried(w, over, bought)
  BY <1>2, <1>3 DEF Carried
<1>5. Carried(over, Pump(over), bought)
  BY <1>3, PumpCarries DEF Known
<1> QED
  BY <1>1, <1>4, <1>5, CarriedOn

-----------------------------------------------------------------------------
(* Steps of the page alone.                                                *)

LEMMA PageStep ==
  ASSUME IInv, Carried(page, page', paid), UNCHANGED <<server, paid>>
  PROVE  IInv'
<1>1. PageFits(page', paid') /\ PaidFits' /\ ServerFits'
  BY DEF IInv, Carried, PaidFits, ServerFits
<1>2. AskedFits'
  <2>1. CASE page'.present = page.present
    BY <2>1 DEF IInv, AskedFits, Before, JobOf
  <2>2. CASE page'.present.phase # "post"
    BY <2>2 DEF AskedFits
  <2> QED
    BY <2>1, <2>2 DEF Carried
<1> QED
  BY <1>1, <1>2 DEF IInv

LEMMA PageKnows ==
  ASSUME IInv
  PROVE  PageFits(page, paid) /\ Known(page, paid) /\ Pairs(paid)
BY DEF IInv, PaidFits, Known, Pairs

\* Handlers that touch nothing that is spoken of here.
LEMMA Marks ==
  ASSUME IInv,
         \/ PressStart \/ PartialBegins \/ Stop \/ FinalFails \/ PressCheckStatus
         \/ \E text \in Text : Edit(text)
  PROVE  Carried(page, page', paid) /\ UNCHANGED <<server, paid>>
<1>1. PageFits(page, paid)
  BY DEF IInv
<1>2. Touches(page, page')
  <2> USE <1>1, PageFields DEF PageFits, IsPage, Whole, Touches
  <2>1. CASE PressStart
    BY <2>1 DEF PressStart
  <2>2. CASE PartialBegins
    BY <2>2 DEF PartialBegins
  <2>3. CASE Stop
    BY <2>3 DEF Stop
  <2>4. CASE FinalFails
    BY <2>4 DEF FinalFails
  <2>5. CASE PressCheckStatus
    BY <2>5 DEF PressCheckStatus
  <2>6. ASSUME NEW text \in Text, Edit(text)
        PROVE  Touches(page, page')
    <3>1. page' = [page EXCEPT !.story = text, !.latest = NoIntent, !.timer = FALSE]
      BY <2>6 DEF Edit
    <3> QED
      BY <3>1
  <2> QED
    BY <2>1, <2>2, <2>3, <2>4, <2>5, <2>6
<1> QED
  BY <1>1, <1>2, Untouched
     DEF PressStart, PartialBegins, Stop, FinalFails, PressCheckStatus, Edit

LEMMA PartialsCarry ==
  ASSUME IInv, Partials
  PROVE  Carried(page, page', paid) /\ UNCHANGED <<server, paid>>
<1>1. UNCHANGED <<server, paid>>
  BY DEF Partials, PartialHeard, PartialFails
<1>2. ASSUME NEW heard, Carried(page, heard, paid),
             page' = TryPresent([heard EXCEPT !.partial = FALSE])
      PROVE  Carried(page, page', paid)
  <2> DEFINE free == [heard EXCEPT !.partial = FALSE]
  <2>1. Touches(heard, free)
    BY <1>2, PageFields DEF Carried, PageFits, IsPage, Whole, Touches
  <2> HIDE DEF free
  <2>2. Carried(heard, free, paid)
    BY <1>2, <2>1, Untouched DEF Carried
  <2>3. Carried(free, TryPresent(free), paid)
    BY <2>2, TryPresentCarries DEF Carried
  <2>4. page' = TryPresent(free)
    BY <1>2 DEF free
  <2> QED
    BY <1>2, <2>2, <2>3, <2>4, CarriedOn
<1>3. CASE PartialFails
  BY <1>2, <1>3, PageKnows, CarriedAtRest DEF PartialFails
<1>4. ASSUME NEW text \in Text, PartialHeard(text)
      PROVE  Carried(page, page', paid)
  <2> DEFINE heard == IF page.mic = "on" THEN Offer(page, text, FALSE) ELSE page
  <2>1. Carried(page, heard, paid)
    BY PageKnows, OfferCarries, CarriedAtRest
  <2>2. page' = TryPresent([heard EXCEPT !.partial = FALSE])
    BY <1>4 DEF PartialHeard
  <2> HIDE DEF heard
  <2> QED
    BY <1>2, <2>1, <2>2
<1> QED
  BY <1>1, <1>3, <1>4 DEF Partials

LEMMA TimerCarries ==
  ASSUME IInv, TimerFires
  PROVE  Carried(page, page', paid) /\ UNCHANGED <<server, paid>>
<1> DEFINE ready == [page EXCEPT !.timer = FALSE, !.latest.ready = TRUE]
<1>1. Touches(page, ready)
  BY PageKnows, PageFields DEF PageFits, IsPage, Whole, Touches
<1>2. page' = Pump(ready) /\ UNCHANGED <<server, paid>>
  BY DEF TimerFires
<1> HIDE DEF ready
<1>3. Carried(page, ready, paid)
  BY <1>1, PageKnows, Untouched
<1>4. Carried(ready, Pump(ready), paid)
  BY <1>3, PageKnows, PumpCarries DEF Carried, Known
<1> QED
  BY <1>2, <1>3, <1>4, CarriedOn

LEMMA FinalHeardCarries ==
  ASSUME IInv, NEW text \in Text, FinalHeard(text)
  PROVE  Carried(page, page', paid) /\ UNCHANGED <<server, paid>>
<1> DEFINE heard == Offer(page, text, TRUE)
           over == [heard EXCEPT !.mic = "off"]
<1>1. Carried(page, heard, paid)
  BY PageKnows, OfferCarries
<1>2. page' = Pump(over) /\ UNCHANGED <<server, paid>>
  BY DEF FinalHeard
<1> HIDE DEF heard
<1>3. Touches(heard, over)
  BY <1>1, PageFields DEF Carried, PageFits, IsPage, Whole, Touches
<1> HIDE DEF over
<1>4. Carried(heard, over, paid)
  BY <1>1, <1>3, Untouched DEF Carried
<1>5. Carried(over, Pump(over), paid)
  BY <1>1, <1>4, PageKnows, PumpCarries DEF Carried, Known
<1> QED
  BY <1>1, <1>2, <1>4, <1>5, CarriedOn

LEMMA PressGenerateCarries ==
  ASSUME IInv, PressGenerate
  PROVE  Carried(page, page', paid) /\ UNCHANGED <<server, paid>>
<1> DEFINE latest == [text |-> page.story, epoch |-> page.epoch, seen |-> 1,
                      final |-> TRUE, ready |-> FALSE, checked |-> FALSE, refused |-> FALSE]
           typed == [page EXCEPT !.latest = latest]
           again == [typed EXCEPT !.completed["tried"] = FALSE]
<1>1. UNCHANGED <<server, paid>>
  BY DEF PressGenerate
<1>2. page' = TryPresent(again) \/ page' = Compile(page, page.story, FALSE)
  BY DEF PressGenerate
<1>3. Carried(page, Compile(page, page.story, FALSE), paid)
  BY PageKnows, CompileCarries DEF Known
<1> HIDE DEF latest
<1>4. Touches(page, typed)
  BY PageKnows, PageFields DEF PageFits, IsPage, Whole, Touches
<1> HIDE DEF typed
<1>5. Carried(page, typed, paid)
  BY <1>4, PageKnows, Untouched
<1>6. Carried(typed, again, paid)
  BY <1>5, MarksCarries DEF Carried
<1> HIDE DEF again
<1>7. Carried(again, TryPresent(again), paid)
  BY <1>6, TryPresentCarries DEF Carried
<1> QED
  BY <1>1, <1>2, <1>3, <1>5, <1>6, <1>7, CarriedOn

\* The check of a description ends.
LEMMA CheckedCarries ==
  ASSUME IInv, NEW c, NEW fine \in BOOLEAN, Checked(c, fine)
  PROVE  Carried(page, page', paid) /\ UNCHANGED <<server, paid>>
<1> DEFINE refused == [Ends(page, c) EXCEPT !.latest.refused = TRUE]
<1>1. UNCHANGED <<server, paid>>
  BY DEF Checked
<1>2. c \in Describing(page)
  BY DEF Checked, At, Describing
<1>3. IsCall(c, page.epoch) /\ (page.leftOver \/ Owns(page, c, paid))
  BY <1>2, PageKnows DEF PageFits, CallsFit, AccountFits, IsCall, Describing
<1>4. \/ page' = AfterCheck(page, c)
      \/ page' = Ends(page, c)
      \/ c.automatic /\ page' = Pump(Again(page, c))
      \/ page' = refused
  BY DEF Checked
<1>5. Carried(page, AfterCheck(page, c), paid)
  BY <1>3, PageKnows, AfterCheckCarries
<1>6. Carried(page, Ends(page, c), paid)
  BY PageKnows, EndsCarries
<1>7. ASSUME c.automatic
      PROVE  Carried(page, Pump(Again(page, c)), paid)
  <2>1. Carried(page, Again(page, c), paid)
    BY <1>3, <1>7, PageKnows, AgainCarries DEF PageFits
  <2>2. Carried(Again(page, c), Pump(Again(page, c)), paid)
    BY <2>1, PageKnows, PumpCarries DEF Carried, Known
  <2> QED
    BY <2>1, <2>2, CarriedOn
<1>8. Carried(page, refused, paid)
  <2> DEFINE ended == Ends(page, c)
  <2> HIDE DEF ended
  <2>1. Carried(page, ended, paid)
    BY <1>6 DEF ended
  <2>2. Touches(ended, [ended EXCEPT !.latest.refused = TRUE])
    BY <2>1, PageFields DEF Carried, PageFits, IsPage, Whole, Touches
  <2>3. Carried(ended, [ended EXCEPT !.latest.refused = TRUE], paid)
    BY <2>1, <2>2, Untouched DEF Carried
  <2>4. Carried(page, [ended EXCEPT !.latest.refused = TRUE], paid)
    BY <2>1, <2>3, CarriedOn
  <2> QED
    BY <2>4 DEF ended
<1> QED
  BY <1>1, <1>4, <1>5, <1>6, <1>7, <1>8

LEMMA QueuedCheckCarries ==
  ASSUME IInv, QueuedCheck
  PROVE  Carried(page, page', paid) /\ UNCHANGED <<server, paid>>
<1>1. UNCHANGED <<server, paid>>
  BY DEF QueuedCheck, QueuedChecked
<1>2. PICK fine \in BOOLEAN : QueuedChecked(fine)
  BY DEF QueuedCheck
<1> DEFINE latest == IF Stale(page, page.checking) THEN page.latest
                     ELSE IF fine THEN [page.latest EXCEPT !.checked = TRUE]
                     ELSE [page.latest EXCEPT !.refused = TRUE]
           noted == [page EXCEPT !.checking = NoIntent, !.latest = latest]
<1>3. page' = Pump(noted)
  BY <1>2, PageKnows, PageFields DEF QueuedChecked, PageFits
<1> HIDE DEF latest
<1>4. Touches(page, noted)
  BY PageKnows, PageFields DEF PageFits, IsPage, Whole, Touches
<1> HIDE DEF noted
<1>5. Carried(page, noted, paid)
  BY <1>4, PageKnows, Untouched
<1>6. Carried(noted, Pump(noted), paid)
  BY <1>5, PageKnows, PumpCarries DEF Carried, Known
<1> QED
  BY <1>1, <1>3, <1>5, <1>6, CarriedOn

\* What comes after the request.
LEMMA AnswersCarry ==
  ASSUME IInv, NEW c, PriorFails(c) \/ Refused(c) \/ Lost(c) \/ Accepted(c)
  PROVE  Carried(page, page', paid) /\ UNCHANGED <<server, paid>>
<1>1. UNCHANGED <<server, paid>>
  BY DEF PriorFails, Refused, Lost, Accepted
<1>2. CASE PriorFails(c) \/ Refused(c) \/ Lost(c)
  BY <1>1, <1>2, PageKnows, FailedCarries, UncertainCarries DEF PriorFails, Refused, Lost
<1>3. CASE Accepted(c)
  <2> DEFINE job == [instance |-> c.prior[1], rev |-> c.prior[2] + 1, text |-> c.text,
                     sub |-> c.sub, stage |-> "working", shown |-> FALSE]
             heard == Handle(page, job)
  <2>1. page' \in {Pump(Ends(heard, c)), Uncertain(heard, c)}
    BY <1>3 DEF Accepted
  <2> HIDE DEF job
  <2>2. Carried(page, heard, paid)
    BY PageKnows, HandleCarries
  <2> HIDE DEF heard
  <2>3. Carried(heard, Ends(heard, c), paid)
    BY <2>2, EndsCarries DEF Carried
  <2>4. Carried(Ends(heard, c), Pump(Ends(heard, c)), paid)
    BY <2>2, <2>3, PageKnows, PumpCarries DEF Carried, Known
  <2>5. Carried(heard, Uncertain(heard, c), paid)
    BY <2>2, UncertainCarries DEF Carried
  <2> QED
    BY <1>1, <2>1, <2>2, <2>3, <2>4, <2>5, CarriedOn
<1> QED
  BY <1>2, <1>3

LEMMA ConflictCarries ==
  ASSUME IInv, NEW c, Conflict(c)
  PROVE  Carried(page, page', paid) /\ UNCHANGED <<server, paid>>
<1> DEFINE noted == [page EXCEPT !.attempted = @ \cup {c.text}]
           heard == IF server.rev = 0 THEN noted ELSE Handle(noted, server)
<1>1. UNCHANGED <<server, paid>>
  BY DEF Conflict
<1>2. page' \in {Pump(Ends(heard, c)), Failed(noted, c)}
  BY DEF Conflict
<1>3. Carried(page, noted, paid)
  <2>1. /\ IsPage(noted) /\ noted.compiles = page.compiles
        /\ noted.attempted = page.attempted \cup {c.text}
        /\ noted.epoch = page.epoch /\ noted.leftOver = page.leftOver
        /\ noted.subs = page.subs /\ noted.present = page.present
        /\ noted.completed = page.completed
    BY PageKnows, PageFields DEF PageFits, IsPage, Whole
  <2> HIDE DEF noted
  <2>2. Describing(noted) = Describing(page)
    BY <2>1 DEF Describing
  <2>3. CallsFit(noted) /\ AccountFits(noted, paid)
    BY <2>1, <2>2, PageKnows DEF PageFits, CallsFit, AccountFits, Owns
  <2> QED
    BY <2>1, <2>3, PageKnows, Changed
<1> HIDE DEF noted
<1>4. PageFits(noted, paid) /\ Known(noted, paid)
  BY <1>3, PageKnows DEF Carried, Known
<1>5. Carried(noted, heard, paid)
  BY <1>4, HandleCarries, CarriedAtRest
<1> HIDE DEF heard
<1>6. Carried(heard, Ends(heard, c), paid)
  BY <1>5, EndsCarries DEF Carried
<1>7. Carried(Ends(heard, c), Pump(Ends(heard, c)), paid)
  BY <1>4, <1>5, <1>6, PumpCarries DEF Carried, Known
<1>8. Carried(noted, Failed(noted, c), paid)
  BY <1>4, FailedCarries
<1> QED
  BY <1>1, <1>2, <1>3, <1>5, <1>6, <1>7, <1>8, CarriedOn

LEMMA ReconciledCarries ==
  ASSUME IInv, Reconciled
  PROVE  Carried(page, page', paid) /\ UNCHANGED <<server, paid>>
<1> DEFINE heard == Handle(page, server)
           freed == [heard EXCEPT !.pending = [sub |-> 0], !.submitting = FALSE]
           settled == Pump(freed)
           Done(w) == [w EXCEPT !.reconciling = FALSE]
           Woken(w) == Ends(Done(w), [phase |-> "waiting"])
           Resumed(w) == IF [phase |-> "waiting"] \in w.compiles
                         THEN Pump(Woken(w)) ELSE Done(w)
<1>1. UNCHANGED <<server, paid>>
  BY DEF Reconciled
<1>2. page' \in {Resumed(page), Resumed(settled), Resumed(heard)}
  BY DEF Reconciled
<1>3. Carried(page, heard, paid)
  BY PageKnows, HandleCarries
<1>4. Carried(page, settled, paid)
  <2> HIDE DEF heard
  <2>1. Touches(heard, freed)
    BY <1>3, PageFields DEF Carried, PageFits, IsPage, Whole, Touches
  <2> HIDE DEF freed
  <2>2. Carried(heard, freed, paid)
    BY <1>3, <2>1, Untouched DEF Carried
  <2>3. Carried(freed, Pump(freed), paid)
    BY <1>3, <2>2, PageKnows, PumpCarries DEF Carried, Known
  <2> QED
    BY <1>3, <2>2, <2>3, CarriedOn
<1>5. ASSUME NEW w, Carried(page, w, paid)
      PROVE  Carried(page, Resumed(w), paid)
  <2>1. Touches(w, Done(w))
    BY <1>5, PageFields DEF Carried, PageFits, IsPage, Whole, Touches
  <2>2. Resumed(w) \in {Pump(Woken(w)), Done(w)}
    OBVIOUS
  <2> HIDE DEF Done
  <2>3. Carried(w, Done(w), paid)
    BY <1>5, <2>1, Untouched DEF Carried
  <2>4. Carried(Done(w), Woken(w), paid)
    BY <2>3, EndsCarries DEF Carried
  <2> HIDE DEF Woken
  <2>5. Carried(Woken(w), Pump(Woken(w)), paid)
    BY <1>5, <2>3, <2>4, PageKnows, PumpCarries DEF Carried, Known
  <2> HIDE DEF Resumed
  <2> QED
    BY <1>5, <2>2, <2>3, <2>4, <2>5, CarriedOn
<1> HIDE DEF Resumed, heard, settled
<1> QED
  BY <1>1, <1>2, <1>3, <1>4, <1>5, PageKnows, CarriedAtRest

\* The end of a presentation.
LEMMA TriedCarries ==
  ASSUME NEW w, NEW bought, PageFits(w, bought)
  PROVE  Carried(w, Tried(w), bought)
<1>1. Tried(w) \in {w, [w EXCEPT !.completed["tried"] = TRUE]}
  BY DEF Tried
<1>2. Carried(w, [w EXCEPT !.completed["tried"] = TRUE], bought)
  BY MarksCarries
<1> QED
  BY <1>1, <1>2, CarriedAtRest

LEMMA PresentEnds ==
  ASSUME IInv, Presented \/ PresentFails
  PROVE  Carried(page, page', paid) /\ UNCHANGED <<server, paid>>
<1>1. UNCHANGED <<server, paid>>
  BY DEF Presented, PresentFails
<1>2. \E w : Carried(page, w, paid) /\ page' = EndPresent(w)
  <2>1. CASE PresentFails
    BY <2>1, PageKnows, TriedCarries DEF PresentFails
  <2>2. CASE Presented
    <3> DEFINE w == IF StillCurrent(page) /\ Matches(page, page.present.answer, page.present.text)
                    THEN Render(page, page.present.answer) ELSE page
    <3>1. page' = EndPresent(w)
      BY <2>2 DEF Presented
    <3>2. Carried(page, w, paid)
      BY PageKnows, RenderCarries, CarriedAtRest
    <3> HIDE DEF w
    <3> QED
      BY <3>1, <3>2
  <2> QED
    BY <2>1, <2>2
<1>3. PICK w : Carried(page, w, paid) /\ page' = EndPresent(w)
  BY <1>2
<1>4. Carried(w, EndPresent(w), paid)
  BY <1>3, PageKnows, EndPresentCarries DEF Carried, Known
<1> QED
  BY <1>1, <1>3, <1>4, CarriedOn

LEMMA HearCarries ==
  ASSUME IInv, Hear
  PROVE  Carried(page, page', paid) /\ UNCHANGED <<server, paid>>
<1> DEFINE heard == Handle(page, stream.said)
           looks == [heard EXCEPT !.reconciling = @ \/ heard.pending.sub # 0]
<1>1. page' = looks /\ UNCHANGED <<server, paid>>
  BY DEF Hear
<1>2. Carried(page, heard, paid)
  BY PageKnows, HandleCarries
<1> HIDE DEF heard
<1>3. Touches(heard, looks)
  BY <1>2, PageFields DEF Carried, PageFits, IsPage, Whole, Touches
<1> HIDE DEF looks
<1>4. Carried(heard, looks, paid)
  BY <1>2, <1>3, Untouched DEF Carried
<1> QED
  BY <1>1, <1>2, <1>4, CarriedOn

HearsPoll == \E k \in Poll : HearPoll(k)

LEMMA HearPollCarries ==
  ASSUME IInv, HearsPoll
  PROVE  Carried(page, page', paid) /\ UNCHANGED <<server, paid>>
BY PageKnows, HandleCarries DEF HearsPoll, HearPoll

-----------------------------------------------------------------------------
(* A new recording: nothing of it is under way or paid for.                *)
LEMMA EpochStep ==
  ASSUME IInv, Started \/ StartFails
  PROVE  IInv' /\ page'.subs = page.subs
<1>1. /\ IsPage(page') /\ page'.compiles = page.compiles
      /\ page'.epoch = page.epoch + 1 /\ page'.leftOver = page.leftOver
      /\ page'.subs = page.subs /\ page'.present = page.present
      /\ page'.completed = page.completed
  <2> USE PageKnows, PageFields DEF PageFits, IsPage, Whole
  <2>1. CASE Started
    BY <2>1 DEF Started
  <2>2. CASE StartFails
    BY <2>2 DEF StartFails
  <2> QED
    BY <2>1, <2>2
<1>2. UNCHANGED <<server, paid>>
  BY DEF Started, StartFails
<1>3. Describing(page') = Describing(page)
  BY <1>1 DEF Describing
<1>4. page.epoch \in Nat /\ page'.epoch \in Nat
  BY <1>1, PageKnows DEF PageFits
<1>5. CallsFit(page')
  BY <1>1, <1>3, <1>4, PageKnows DEF PageFits, CallsFit
<1>6. \A b \in paid : b[1] # page'.epoch
  BY <1>1, <1>4, PageKnows DEF Known
<1>7. \A c \in Describing(page') : c.epoch # page'.epoch
  BY <1>1, <1>3, <1>4, PageKnows DEF PageFits, CallsFit
<1>8. AccountFits(page', paid)
  BY <1>6, <1>7 DEF AccountFits, Owns
<1>9. CompletedFits(page') /\ PresentFits(page')
  BY <1>1, PageKnows DEF PageFits, CompletedFits, PresentFits, Publishing
<1>10. PageFits(page', paid')
  BY <1>1, <1>2, <1>4, <1>5, <1>8, <1>9, PageKnows DEF PageFits, IsPage
<1>11. PaidFits'
  BY <1>1, <1>2, <1>4 DEF IInv, PaidFits
<1>12. ServerFits' /\ AskedFits'
  BY <1>1, <1>2 DEF IInv, ServerFits, AskedFits, Before, JobOf
<1> QED
  BY <1>1, <1>10, <1>11, <1>12 DEF IInv

-----------------------------------------------------------------------------
(* The session is read and the description is submitted.                   *)

\* What PriorRead does when it does not submit.
LEMMA PriorKeeps ==
  ASSUME IInv, NEW c, PriorRead(c), paid' = paid,
         \/ page' = Pump(Again(page, c)) /\ c.automatic
         \/ \E kept \in {Ends(page, c)} \cup (IF c.automatic THEN {Again(page, c)} ELSE {}) :
              page' = Pump(Handle(kept, server))
  PROVE  Carried(page, page', paid)
<1>1. c \in Describing(page)
  BY DEF PriorRead, At, Describing
<1>2. page.leftOver \/ Owns(page, c, paid)
  BY <1>1, PageKnows DEF PageFits, AccountFits
<1>3. Carried(page, Ends(page, c), paid)
  BY PageKnows, EndsCarries
<1>4. c.automatic => Carried(page, Again(page, c), paid)
  BY <1>2, PageKnows, AgainCarries DEF PageFits
<1>5. ASSUME NEW kept, Carried(page, kept, paid)
      PROVE  /\ Carried(page, Pump(kept), paid)
             /\ Carried(page, Pump(Handle(kept, server)), paid)
  <2>1. PageFits(kept, paid) /\ Known(kept, paid)
    BY <1>5, PageKnows DEF Carried, Known
  <2>2. Carried(kept, Pump(kept), paid)
    BY <2>1, PumpCarries DEF Known
  <2>3. Carried(kept, Handle(kept, server), paid)
    BY <2>1, HandleCarries
  <2>4. PageFits(Handle(kept, server), paid) /\ Known(Handle(kept, server), paid)
    BY <2>1, <2>3 DEF Carried, Known
  <2>5. Carried(Handle(kept, server), Pump(Handle(kept, server)), paid)
    BY <2>4, PumpCarries DEF Known
  <2> QED
    BY <1>5, <2>2, <2>3, <2>5, CarriedOn
<1> QED
  BY <1>3, <1>4, <1>5

\* What it submits by itself is of this recording, attempted, and not paid for.
Posted(c) == [phase |-> "post", text |-> c.text, sub |-> page.subs + 1, prior |-> JobOf(server)]

Submits(c) ==
  /\ c \in Describing(page)
  /\ c.automatic => c.epoch = page.epoch
  /\ page' = [Moves(page, c, Posted(c)) EXCEPT !.subs = @ + 1]
  /\ paid' = IF c.automatic THEN paid \cup {<<c.epoch, c.text>>} ELSE paid
  /\ UNCHANGED server

LEMMA PriorReadCases ==
  ASSUME IInv, NEW c, PriorRead(c)
  PROVE  Submits(c) \/ (Carried(page, page', paid) /\ UNCHANGED <<server, paid>>)
<1> DEFINE kept == IF c.automatic /\ server.text # c.text THEN Again(page, c)
                   ELSE Ends(page, c)
<1>1. c \in Describing(page) /\ UNCHANGED server
  BY DEF PriorRead, At, Describing
<1>2. CASE page' = Pump(Handle(kept, server)) /\ UNCHANGED paid
  BY <1>1, <1>2, PriorKeeps
<1>3. CASE c.automatic /\ page' = Pump(Again(page, c)) /\ UNCHANGED paid
  BY <1>1, <1>3, PriorKeeps
<1>4. CASE /\ ~(c.automatic /\ Stale(page, c))
           /\ page' = [Moves(page, c, Posted(c)) EXCEPT !.subs = @ + 1]
           /\ paid' = IF c.automatic THEN paid \cup {<<c.epoch, c.text>>} ELSE paid
  BY <1>1, <1>4 DEF Submits, Stale
<1> QED
  BY <1>2, <1>3, <1>4 DEF PriorRead, Posted

LEMMA SubmitStep ==
  ASSUME IInv, NEW c, Submits(c)
  PROVE  IInv' /\ page'.subs = page.subs + 1 /\ page'.compiles = (page.compiles \ {c}) \cup {Posted(c)}
<1> DEFINE moved == Moves(page, c, Posted(c))
<1>1. Whole(Posted(c)) /\ "phase" \in DOMAIN Posted(c) /\ Posted(c).phase = "post"
  BY DEF Posted, Whole
<1>2. /\ IsPage(page') /\ page'.compiles = (page.compiles \ {c}) \cup {Posted(c)}
      /\ page'.attempted = page.attempted /\ page'.epoch = page.epoch
      /\ page'.leftOver = page.leftOver /\ page'.subs = page.subs + 1
      /\ page'.present = page.present /\ page'.completed = page.completed
  BY PageKnows, PageFields DEF Submits, Moves, PageFits, IsPage, Whole
<1>3. Describing(page') = Describing(page) \ {c}
  BY <1>1, <1>2 DEF Describing
<1>4. page.subs \in Nat /\ page.epoch \in Nat /\ c.epoch \in 0..page.epoch
  BY PageKnows DEF Submits, PageFits, CallsFit
<1>5. CallsFit(page')
  BY <1>1, <1>2, <1>3, PageKnows DEF PageFits, CallsFit
<1>6. AccountFits(page', paid')
  <2>1. CASE page.leftOver
    BY <1>2, <2>1 DEF AccountFits
  <2>2. CASE ~page.leftOver
    <3>1. Owns(page, c, paid) /\ \A d \in Describing(page) : Owns(page, d, paid)
      BY <2>2, PageKnows DEF Submits, PageFits, AccountFits
    <3>2. ASSUME NEW b \in paid', b[1] = page'.epoch
          PROVE  b[2] \in page'.attempted
      <4>1. CASE b \in paid
        BY <1>2, <2>2, <3>2, <4>1, PageKnows DEF PageFits, AccountFits
      <4>2. CASE b \notin paid
        <5>1. c.automatic /\ b = <<c.epoch, c.text>>
          BY <3>2, <4>2 DEF Submits
        <5> QED
          BY <1>2, <3>1, <5>1 DEF Submits, Owns
      <4> QED
        BY <4>1, <4>2
    <3>3. ASSUME NEW d \in Describing(page')
          PROVE  Owns(page', d, paid')
      <4>1. d \in Describing(page) /\ d # c /\ Owns(page, d, paid)
        BY <1>3, <3>1
      <4>2. d.epoch # page.epoch => \A b \in paid' : b[1] # page.epoch
        BY <3>1, <4>1 DEF Owns, Submits
      <4>3. d.automatic /\ d.epoch = page.epoch => <<d.epoch, d.text>> \notin paid'
        BY <3>1, <4>1 DEF Owns, Submits
      <4> QED
        BY <1>2, <1>3, <4>1, <4>2, <4>3 DEF Owns
    <3> QED
      BY <3>2, <3>3 DEF AccountFits
  <2> QED
    BY <2>1, <2>2
<1>7. CompletedFits(page') /\ PresentFits(page')
  BY <1>2, PageKnows DEF PageFits, CompletedFits, PresentFits, Publishing
<1>8. PageFits(page', paid')
  BY <1>2, <1>4, <1>5, <1>6, <1>7 DEF PageFits, IsPage
<1>9. PaidFits'
  BY <1>2, <1>4 DEF IInv, PaidFits, Submits
<1>10. ServerFits' /\ AskedFits'
  BY <1>2 DEF Submits, IInv, ServerFits, AskedFits, Before, JobOf
<1> QED
  BY <1>2, <1>8, <1>9, <1>10 DEF IInv

-----------------------------------------------------------------------------
(* Steps of the session.                                                   *)

\* The session keeps its job, and what that draws, or has a newer one.
GoesOn ==
  \/ JobOf(server') = JobOf(server) /\ server'.text = server.text
  \/ server'.instance > server.instance
  \/ server'.instance = server.instance /\ server'.rev > server.rev

LEMMA ServerStep ==
  ASSUME IInv, PageFits(page', paid), page'.epoch = page.epoch, paid' = paid,
         ServerFits', GoesOn, page'.present = page.present \/ page'.present.phase # "post"
  PROVE  IInv'
<1>1. PaidFits'
  BY DEF IInv, PaidFits
<1>2. AskedFits'
  <2>1. CASE page'.present.phase # "post"
    BY <2>1 DEF AskedFits
  <2>2. CASE page'.present = page.present /\ page.present.phase = "post"
    <3>1. /\ page.present.job \in Nat \X Nat /\ Before(page.present.job, JobOf(server))
          /\ JobOf(server) = page.present.job => Meaning[server.text] = Meaning[page.present.text]
      BY <2>2 DEF IInv, AskedFits
    <3>2. /\ server.instance \in Nat /\ server.rev \in Nat
          /\ server'.instance \in Nat /\ server'.rev \in Nat
      BY DEF IInv, ServerFits
    <3>3. Before(page.present.job, JobOf(server'))
      BY <3>1, <3>2 DEF GoesOn, Before, JobOf
    <3>4. JobOf(server') = page.present.job =>
            JobOf(server') = JobOf(server) /\ server'.text = server.text
      BY <3>1, <3>2 DEF GoesOn, Before, JobOf
    <3> QED
      BY <2>2, <3>1, <3>3, <3>4 DEF AskedFits
  <2> QED
    BY <2>1, <2>2
<1> QED
  BY <1>1, <1>2 DEF IInv

LEMMA NewJob ==
  ASSUME NEW text, NEW sub, ServerFits,
         server' = [instance |-> server.instance, rev |-> server.rev + 1, text |-> text,
                    sub |-> sub, stage |-> "working", shown |-> FALSE]
  PROVE  ServerFits' /\ GoesOn
BY DEF ServerFits, GoesOn, Whole, Empty

LEMMA ServeStep ==
  ASSUME IInv, NEW c, Serve(c)
  PROVE  IInv' /\ page'.subs = page.subs
<1>1. c \in page.compiles /\ c.phase = "post" /\ UNCHANGED paid
  BY DEF Serve, At
<1>2. PICK a \in {"accepted", "lost", "conflict", "refused"} :
        page' = Moves(page, c, [c EXCEPT !.phase = a])
  BY DEF Serve
<1> DEFINE to == [c EXCEPT !.phase = a]
<1>3. Whole(to) /\ "phase" \in DOMAIN to /\ to.phase = a
  BY <1>1, PageKnows DEF PageFits, CallsFit, Whole
<1> HIDE DEF to
<1>4. Carried(page, Moves(page, c, to), paid)
  BY <1>3, PageKnows, LeavesCarries
<1>5. Carried(page, page', paid)
  BY <1>2, <1>4 DEF to
<1>6. ServerFits' /\ GoesOn
  <2>1. CASE UNCHANGED server
    BY <2>1 DEF IInv, ServerFits, GoesOn, JobOf
  <2>2. CASE server' = [instance |-> server.instance, rev |-> server.rev + 1, text |-> c.text,
                        sub |-> c.sub, stage |-> "working", shown |-> FALSE]
    BY <2>2, NewJob DEF IInv
  <2> QED
    BY <2>1, <2>2 DEF Serve
<1> QED
  BY <1>1, <1>5, <1>6, ServerStep DEF Carried

\* What is on its way to the page changes, and nothing else.
Transport == Tell \/ Disconnect \/ \E k \in Poll : AskPoll(k) \/ AnswerPoll(k)

LEMMA TransportKeeps ==
  ASSUME Transport
  PROVE  UNCHANGED <<server, page, paid>>
BY DEF Transport, Tell, Disconnect, AskPoll, AnswerPoll

LEMMA SessionStep ==
  ASSUME IInv, JobEnds \/ (\E text \in Elsewhere : OtherJob(text)) \/ Restart \/ Transport
  PROVE  IInv' /\ page' = page
<1>1. UNCHANGED <<page, paid>>
  BY TransportKeeps DEF JobEnds, OtherJob, Restart
<1>2. ServerFits' /\ GoesOn
  <2>1. CASE JobEnds
    <3>1. /\ Whole(server') /\ DOMAIN server' = DOMAIN server
          /\ server'.instance = server.instance /\ server'.rev = server.rev
          /\ server'.text = server.text
      BY <2>1 DEF JobEnds, IInv, ServerFits, Whole, Empty
    <3> QED
      BY <3>1 DEF IInv, ServerFits, GoesOn, JobOf
  <2>2. ASSUME NEW text \in Elsewhere, OtherJob(text)
        PROVE  ServerFits' /\ GoesOn
    BY <2>2, NewJob DEF OtherJob, IInv
  <2>3. CASE Restart
    BY <2>3 DEF Restart, IInv, ServerFits, GoesOn, Whole, Empty
  <2>4. CASE Transport
    BY <2>4, TransportKeeps DEF IInv, ServerFits, GoesOn, JobOf
  <2> QED
    BY <2>1, <2>2, <2>3, <2>4
<1> QED
  BY <1>1, <1>2, PageKnows, ServerStep

-----------------------------------------------------------------------------
(* A presentation reads the session, asks it and is answered.              *)

\* What is asked for is what the session has, drawn from a text of the same meaning.
LEMMA AskedMeans ==
  ASSUME IInv, MayPresent(page, server)
  PROVE  Meaning[server.text] = Meaning[page.present.text] /\ page.present.job = JobOf(server)
<1>1. page.present.job = JobOf(server) /\ Matches(page, server, page.present.text)
  BY DEF MayPresent
<1>2. CASE server.text = page.present.text
  BY <1>1, <1>2
<1>3. CASE /\ page.completed.job = JobOf(server) /\ page.completed.key = page.present.text
           /\ page.completed.meaning # None /\ page.completed.source = server.text
  <2>1. page.completed.job # NoJob
    BY <1>3 DEF IInv, ServerFits, JobOf, NoJob
  <2> QED
    BY <1>1, <1>3, <2>1 DEF IInv, PageFits, CompletedFits
<1> QED
  BY <1>1, <1>2, <1>3 DEF Matches

LEMMA PointerStep ==
  ASSUME IInv, PresentPointer
  PROVE  IInv' /\ page'.subs = page.subs
<1>1. UNCHANGED <<server, paid>> /\ page.present.phase = "pointer"
  BY DEF PresentPointer
<1>2. CASE page' = EndPresent(page)
  BY <1>1, <1>2, PageKnows, EndPresentCarries, PageStep DEF Carried
<1>3. CASE MayPresent(page, server) /\ page' = [Tried(page) EXCEPT !.present.phase = "post"]
  <2> DEFINE tried == Tried(page)
             asks == [tried.present EXCEPT !.phase = "post"]
  <2>1. Carried(page, tried, paid)
    BY PageKnows, TriedCarries
  <2>2. tried.present = page.present
    <3>1. page.present.phase # "post" /\ Tried(page) \in {page, [page EXCEPT !.completed.tried = TRUE]}
      BY <1>1 DEF Tried
    <3> QED
      BY <3>1, PageKnows, PageFields DEF PageFits
  <2>3. /\ Whole(asks) /\ DOMAIN asks = DOMAIN page.present
        /\ asks.phase = "post" /\ asks.text = page.present.text
        /\ asks.job = page.present.job /\ {"phase", "text", "job"} \subseteq DOMAIN asks
    BY <1>1, <2>2, PageKnows DEF PageFits, PresentFits, Publishing, Whole, Idle
  <2>4. page' = [tried EXCEPT !.present = asks]
    BY <1>3
  <2> HIDE DEF tried, asks
  <2>5. /\ PageFits(page', paid) /\ page'.present = asks
        /\ page'.subs = page.subs /\ page'.epoch = page.epoch
    BY <2>1, <2>3, <2>4, PresentMoves DEF Carried
  <2>6. AskedFits'
    <3>1. server.instance \in Nat /\ server.rev \in Nat
      BY DEF IInv, ServerFits
    <3> QED
      BY <1>1, <1>3, <2>3, <2>5, <3>1, AskedMeans DEF AskedFits, Before, JobOf
  <2>7. PaidFits' /\ ServerFits'
    BY <1>1, <2>5 DEF IInv, PaidFits, ServerFits
  <2> QED
    BY <1>1, <2>5, <2>6, <2>7 DEF IInv
<1> QED
  BY <1>2, <1>3 DEF PresentPointer

LEMMA ServePresentStep ==
  ASSUME IInv, ServePresent
  PROVE  IInv' /\ page'.subs = page.subs
<1>1. page.present.phase = "post" /\ UNCHANGED paid
  BY DEF ServePresent
<1>2. PICK p : /\ page' = [page EXCEPT !.present = p]
               /\ Whole(p) /\ {"phase", "text", "job"} \subseteq DOMAIN p
               /\ p.phase \in {"shown", "failed"}
  <2>1. CASE page' = [page EXCEPT !.present.phase = "failed"]
    <3> DEFINE p == [page.present EXCEPT !.phase = "failed"]
    <3>1. Whole(p) /\ {"phase", "text", "job"} \subseteq DOMAIN p /\ p.phase = "failed"
      BY <1>1, PageKnows DEF PageFits, PresentFits, Publishing, Whole, Idle
    <3>2. page' = [page EXCEPT !.present = p]
      BY <2>1
    <3> HIDE DEF p
    <3> QED
      BY <3>1, <3>2
  <2>2. CASE page' = [page EXCEPT !.present = [phase |-> "shown", text |-> @.text,
                                               job |-> @.job, answer |-> server']]
    <3> DEFINE p == [phase |-> "shown", text |-> page.present.text,
                     job |-> page.present.job, answer |-> server']
    <3>1. Whole(p) /\ {"phase", "text", "job"} \subseteq DOMAIN p /\ p.phase = "shown"
      BY DEF Whole
    <3>2. page' = [page EXCEPT !.present = p]
      BY <2>2
    <3> HIDE DEF p
    <3> QED
      BY <3>1, <3>2
  <2> QED
    BY <2>1, <2>2 DEF ServePresent
<1>3. /\ PageFits(page', paid) /\ page'.present = p
      /\ page'.subs = page.subs /\ page'.epoch = page.epoch
  BY <1>2, PageKnows, PresentMoves
<1>4. ServerFits' /\ GoesOn
  <2>1. CASE UNCHANGED server
    BY <2>1 DEF IInv, ServerFits, GoesOn, JobOf
  <2>2. CASE server' = [server EXCEPT !.shown = TRUE]
    <3>1. /\ Whole(server') /\ DOMAIN server' = DOMAIN server
          /\ server'.instance = server.instance /\ server'.rev = server.rev
          /\ server'.text = server.text
      BY <2>2 DEF IInv, ServerFits, Whole, Empty
    <3> QED
      BY <3>1 DEF IInv, ServerFits, GoesOn, JobOf
  <2> QED
    BY <2>1, <2>2 DEF ServePresent
<1> QED
  BY <1>1, <1>2, <1>3, <1>4, ServerStep

-----------------------------------------------------------------------------
LEMMA InitFits ==
  ASSUME Init
  PROVE  IInv
<1>1. page = Loaded /\ paid = {} /\ server = Empty(1)
  BY DEF Init
<1>2. /\ Whole(Loaded) /\ Loaded.epoch = 0 /\ Loaded.subs = 0 /\ Loaded.compiles = {}
      /\ Loaded.completed = [job |-> NoJob] /\ Loaded.present = Idle
  BY DEF Loaded, Whole
<1>3. CompletedFits(Loaded) /\ PresentFits(Loaded)
  BY <1>2 DEF CompletedFits, PresentFits, Publishing, Whole, Idle
<1>4. CallsFit(Loaded) /\ AccountFits(Loaded, {})
  BY <1>2 DEF CallsFit, AccountFits, Describing
<1>5. ServerFits
  BY <1>1 DEF ServerFits, Whole, Empty
<1>6. AskedFits /\ PaidFits
  BY <1>1, <1>2 DEF AskedFits, PaidFits, Idle
<1> QED
  BY <1>1, <1>2, <1>3, <1>4, <1>5, <1>6 DEF IInv, PageFits

\* Every step is of one of these kinds.
Kinds ==
  \/ Carried(page, page', paid) /\ UNCHANGED <<server, paid>>
  \/ Started \/ StartFails
  \/ \E c \in page.compiles : Submits(c) \/ Serve(c)
  \/ JobEnds \/ (\E text \in Elsewhere : OtherJob(text)) \/ Restart \/ Transport
  \/ PresentPointer \/ ServePresent

LEMMA StepKinds ==
  ASSUME IInv, [Next]_vars
  PROVE  Kinds
<1>1. CASE UNCHANGED vars
  BY <1>1, PageKnows, CarriedAtRest DEF vars, Kinds
<1>2. CASE \/ PressStart \/ PartialBegins \/ Stop \/ FinalFails \/ PressCheckStatus
           \/ \E text \in Text : Edit(text)
  BY <1>2, Marks DEF Kinds
<1>3. CASE Started \/ StartFails
  BY <1>3 DEF Kinds
<1>4. CASE Partials \/ TimerFires \/ (\E text \in Text : FinalHeard(text)) \/ PressGenerate
  BY <1>4, PartialsCarry, TimerCarries, FinalHeardCarries, PressGenerateCarries DEF Kinds
<1>5. ASSUME NEW c \in page.compiles, CompileStep(c)
      PROVE  Kinds
  <2>1. CASE \E fine \in BOOLEAN : Checked(c, fine)
    BY <2>1, CheckedCarries DEF Kinds
  <2>2. CASE PriorRead(c)
    BY <2>2, PriorReadCases DEF Kinds
  <2>3. CASE PriorFails(c) \/ Accepted(c) \/ Lost(c) \/ Refused(c)
    BY <2>3, AnswersCarry DEF Kinds
  <2>4. CASE Serve(c)
    BY <2>4 DEF Kinds
  <2>5. CASE Conflict(c)
    BY <2>5, ConflictCarries DEF Kinds
  <2> QED
    BY <1>5, <2>1, <2>2, <2>3, <2>4, <2>5 DEF CompileStep
<1>6. CASE QueuedCheck \/ Reconciled \/ Hear \/ HearsPoll
  BY <1>6, QueuedCheckCarries, ReconciledCarries, HearCarries, HearPollCarries DEF Kinds
<1>7. CASE PresentStep
  BY <1>7, PresentEnds DEF Kinds, PresentStep
<1>8. CASE JobEnds \/ (\E text \in Elsewhere : OtherJob(text)) \/ Restart \/ Transport
  BY <1>8 DEF Kinds
<1> QED
  BY <1>1, <1>2, <1>3, <1>4, <1>5, <1>6, <1>7, <1>8
     DEF Next, Finals, Transport, PollStep, HearsPoll

\* What the page keeps, and what it asks for, fits: artwork is kept for a text of the
\* meaning it was made for, the scene asked for is one the session had, and an automatic
\* call is the only one of its text, attempted and not paid for, unless a call of an
\* earlier recording is under way too.
THEOREM Inductive == Spec => []IInv
<1>1. Init => IInv
  BY InitFits
<1>2. IInv /\ [Next]_vars => IInv'
  <2> SUFFICES ASSUME IInv, [Next]_vars
               PROVE  IInv'
    OBVIOUS
  <2>1. Kinds
    BY StepKinds
  <2> QED
    BY <2>1, PageStep, EpochStep, SubmitStep, ServeStep, SessionStep, PointerStep,
       ServePresentStep
       DEF Kinds
<1> QED
  BY <1>1, <1>2, PTL DEF Spec

-----------------------------------------------------------------------------
\* A scene that the page has the session show means what the description says that it
\* is shown for, although artwork is reused between texts and other clients use the
\* session (tryPresentVoiceGeneration).
THEOREM OnlyTheDescribedIsShown == Spec => OnlyWhatWasDescribedIsShown
<1> DEFINE Shows == ~server.shown /\ server'.shown /\ page.present.phase = "post"
                    /\ page'.present # page.present
           Meant == Shows => Meaning[server.text] = Meaning[page.present.text]
<1>1. IInv /\ [Next]_vars => Meant
  <2> SUFFICES ASSUME IInv, [Next]_vars, Shows
               PROVE  Meaning[server.text] = Meaning[page.present.text]
    OBVIOUS
  <2>1. server' # server /\ page' # page
    OBVIOUS
  <2>2. CASE ServePresent
    BY <2>1, <2>2 DEF ServePresent, IInv, AskedFits
  <2>3. CASE \E c \in page.compiles : Serve(c)
    <3>1. server'.shown = FALSE
      BY <2>1, <2>3 DEF Serve
    <3> QED
      BY <3>1
  <2>4. CASE JobEnds \/ (\E text \in Elsewhere : OtherJob(text)) \/ Restart \/ Transport
    BY <2>1, <2>4, SessionStep
  <2>5. CASE \/ Carried(page, page', paid) /\ UNCHANGED <<server, paid>>
             \/ Started \/ StartFails \/ PresentPointer
             \/ \E c \in page.compiles : Submits(c)
    BY <2>1, <2>5 DEF Started, StartFails, PresentPointer, Submits
  <2> QED
    BY <2>2, <2>3, <2>4, <2>5, StepKinds DEF Kinds
<1>2. IInv /\ [Next]_vars => [Meant]_vars
  BY <1>1
<1> QED
  BY <1>2, Inductive, PTL DEF Spec, OnlyWhatWasDescribedIsShown

\* In one recording a description is submitted once by itself, unless a call of an
\* earlier recording has overlapped one of this (compileStory).
THEOREM PaidOnce == Spec => PaidOncePerRecording
<1> DEFINE Fresh ==
  \A c \in page.compiles :
       /\ c.phase = "prior" /\ c.automatic /\ page'.subs > page.subs /\ c \notin page'.compiles
       => <<c.epoch, c.text>> \notin paid \/ page.leftOver
<1>1. IInv /\ [Next]_vars => Fresh
  <2> SUFFICES ASSUME IInv, [Next]_vars, NEW c \in page.compiles, c.automatic,
                      page'.subs > page.subs, c \notin page'.compiles, ~page.leftOver
               PROVE  <<c.epoch, c.text>> \notin paid
    OBVIOUS
  <2>1. page'.subs # page.subs
    BY PageKnows DEF PageFits
  <2>2. PICK d \in page.compiles : Submits(d)
    BY <2>1, StepKinds, EpochStep, ServeStep, SessionStep, PointerStep, ServePresentStep
       DEF Kinds, Carried
  <2>3. c = d
    BY <2>2, SubmitStep
  <2> QED
    BY <2>2, <2>3, PageKnows DEF Submits, PageFits, AccountFits, Owns
<1>2. IInv /\ [Next]_vars => [Fresh]_vars
  BY <1>1
<1> QED
  BY <1>2, Inductive, PTL DEF Spec, PaidOncePerRecording

-----------------------------------------------------------------------------
(* The page follows what it has paid for.                                  *)

IsSession(s) == s.instance \in Nat \ {0} /\ s.rev \in Nat

\* No submission of the page is worked on that it could lose.
Free(w, s) == w.overlapped \/ ~OwnJobWorks(s)

\* What a function of the page leaves to its caller, while the session stays s.
Follows(w, v, s) ==
  /\ IsPage(v) /\ FollowFits(v, s)
  /\ w.overlapped => v.overlapped

LEMMA FollowsOn ==
  ASSUME NEW w, NEW v, NEW u, NEW s, Follows(w, v, s), Follows(v, u, s)
  PROVE  Follows(w, u, s)
BY DEF Follows

LEMMA FollowsAtRest ==
  ASSUME NEW w, NEW s, IsPage(w), FollowFits(w, s)
  PROVE  Follows(w, w, s)
BY DEF Follows

\* Nothing is done to calls, to submissions and to the job that is followed.
Aside(w, v) ==
  /\ IsPage(v)
  /\ v.compiles = w.compiles /\ v.pending = w.pending /\ v.overlapped = w.overlapped
  /\ v.job = w.job /\ v.known = w.known /\ v.seen = w.seen

LEMMA AsideFollows ==
  ASSUME NEW w, NEW v, NEW s, FollowFits(w, s), Aside(w, v)
  PROVE  Follows(w, v, s)
<1>1. \A c : RequestFits(w, c, s) => RequestFits(v, c, s)
  BY DEF RequestFits, Aside
<1>2. (OneCall(w) => OneCall(v)) /\ (Watched(w, s) => Watched(v, s))
  BY DEF OneCall, Watched, Aside
<1> QED
  BY <1>1, <1>2 DEF FollowFits, SeenFits, Follows, Aside

LEMMA TryPresentFollows ==
  ASSUME NEW w, NEW s, IsPage(w), FollowFits(w, s)
  PROVE  Follows(w, TryPresent(w), s)
<1>1. Aside(w, TryPresent(w))
  <2> DEFINE v == [w EXCEPT !.present = [phase |-> "pointer", text |-> w.latest.text,
                                         job |-> w.completed.job]]
  <2>1. TryPresent(w) \in {w, v}
    BY DEF TryPresent
  <2>2. Aside(w, v) /\ Aside(w, w)
    BY PageFields DEF IsPage, Whole, Aside
  <2> HIDE DEF v
  <2> QED
    BY <2>1, <2>2
<1> QED
  BY <1>1, AsideFollows

\* Calls, and nothing else that is spoken of here, are changed to others.
Recalls(w, v, calls) ==
  /\ IsPage(v) /\ v.compiles = calls /\ v.pending = w.pending
  /\ v.overlapped = w.overlapped
  /\ v.job = w.job /\ v.known = w.known /\ v.seen = w.seen

\* A call ends that was the only trace of no job of the page.
LEMMA EndsFollows ==
  ASSUME NEW w, NEW c, NEW s, IsPage(w), FollowFits(w, s),
         \/ Free(w, s) \/ c.phase = "waiting"
         \/ w.job = JobOf(s) \/ w.pending.sub = s.sub
  PROVE  Follows(w, Ends(w, c), s)
<1> DEFINE v == Ends(w, c)
<1>1. Recalls(w, v, w.compiles \ {c})
  BY PageFields DEF IsPage, Whole, Ends, Recalls
<1> HIDE DEF v
<1>2. \A d : RequestFits(w, d, s) => RequestFits(v, d, s)
  BY <1>1 DEF RequestFits, Recalls
<1>3. OneCall(w) => OneCall(v)
  BY <1>1 DEF OneCall, Recalls
<1>4. Free(w, s) \/ (Watched(w, s) => Watched(v, s))
  BY <1>1 DEF Watched, Recalls
<1>5. Follows(w, v, s)
  BY <1>1, <1>2, <1>3, <1>4 DEF FollowFits, SeenFits, Follows, Free, Recalls
<1> QED
  BY <1>5 DEF v

LEMMA AgainFollows ==
  ASSUME NEW w, NEW c, NEW s, IsPage(w), FollowFits(w, s), Free(w, s)
  PROVE  Follows(w, Again(w, c), s)
<1> DEFINE ended == Ends(w, c)
<1>1. Follows(w, ended, s)
  BY EndsFollows
<1>2. Again(w, c) = [ended EXCEPT !.attempted = @ \ {c.text}]
  BY DEF Again
<1> HIDE DEF ended
<1>3. Aside(ended, [ended EXCEPT !.attempted = @ \ {c.text}])
  BY <1>1, PageFields DEF Follows, IsPage, Whole, Aside
<1> QED
  BY <1>1, <1>2, <1>3, AsideFollows, FollowsOn DEF Follows

\* Every other call waits, or calls have overlapped.
Alone(w, c) == \A d \in w.compiles : w.overlapped \/ d.phase = "waiting" \/ d = c

\* A call comes to another await while nothing is at stake.
LEMMA MovesFollows ==
  ASSUME NEW w, NEW c, NEW to, NEW s, IsPage(w), FollowFits(w, s), Free(w, s),
         Alone(w, c), RequestFits(w, to, s)
  PROVE  Follows(w, Moves(w, c, to), s)
<1> DEFINE v == Moves(w, c, to)
<1>1. Recalls(w, v, (w.compiles \ {c}) \cup {to})
  BY PageFields DEF IsPage, Whole, Moves, Recalls
<1> HIDE DEF v
<1>2. \A d : RequestFits(w, d, s) => RequestFits(v, d, s)
  BY <1>1 DEF RequestFits, Recalls
<1>3. w.overlapped \/ OneCall(v)
  BY <1>1 DEF OneCall, Recalls, Alone
<1>4. Follows(w, v, s)
  BY <1>1, <1>2, <1>3 DEF FollowFits, SeenFits, Follows, Free, Recalls
<1> QED
  BY <1>4 DEF v

\* The page follows nothing and has shown nothing.
LEMMA LooksAway ==
  ASSUME NEW w, NEW v, NEW s, IsSession(s), FollowFits(w, s), Free(w, s), IsPage(v),
         v.compiles = w.compiles, v.overlapped = w.overlapped, v.known \in Nat \X Nat,
         v.job = NoJob, v.seen \in {w.seen, Empty(0)}
  PROVE  Follows(w, v, s)
<1>1. \A c : RequestFits(w, c, s) => RequestFits(v, c, s)
  BY DEF RequestFits
<1>2. OneCall(w) => OneCall(v)
  BY DEF OneCall
<1>3. SeenFits(v, s)
  BY DEF FollowFits, SeenFits, Before, JobOf, Empty, IsSession
<1> QED
  BY <1>1, <1>2, <1>3 DEF FollowFits, Follows, Free

LEMMA AfterCheckFollows ==
  ASSUME NEW w, NEW c, NEW s, IsPage(w), IsSession(s), FollowFits(w, s), Free(w, s),
         Alone(w, c), Whole(c), "phase" \in DOMAIN c
  PROVE  Follows(w, AfterCheck(w, c), s)
<1> DEFINE told == IF c.automatic THEN [w EXCEPT !.latest.checked = TRUE] ELSE w
           manual == [text |-> c.text, epoch |-> w.epoch, seen |-> 1, final |-> TRUE,
                      ready |-> FALSE, checked |-> FALSE, refused |-> FALSE]
           reused == [Ends(told, c) EXCEPT !.completed.key = c.text]
           to == [c EXCEPT !.phase = "prior"]
           moved == Moves(told, c, to)
           goes == [moved EXCEPT !.latest = IF c.automatic THEN @ ELSE manual,
                                 !.active = c.text, !.job = NoJob, !.seen = Empty(0)]
<1>1. Aside(w, told)
  BY PageFields DEF IsPage, Whole, Aside
<1>2. AfterCheck(w, c) \in {Again(told, c), TryPresent(reused), goes}
  BY DEF AfterCheck
<1> HIDE DEF told
<1>3. /\ Follows(w, told, s) /\ IsPage(told) /\ FollowFits(told, s)
      /\ Free(told, s) /\ Alone(told, c)
  BY <1>1, AsideFollows DEF Follows, Free, Alone, Aside
<1>4. Follows(w, Again(told, c), s)
  BY <1>3, AgainFollows, FollowsOn
<1>5. Follows(w, TryPresent(reused), s)
  <2> DEFINE ended == Ends(told, c)
  <2>1. Follows(told, ended, s)
    BY <1>3, EndsFollows
  <2>2. reused = [ended EXCEPT !.completed.key = c.text]
    OBVIOUS
  <2> HIDE DEF ended, reused
  <2>3. Aside(ended, reused)
    BY <2>1, <2>2, PageFields DEF Follows, IsPage, Whole, Aside
  <2>4. Follows(ended, reused, s)
    BY <2>1, <2>3, AsideFollows DEF Follows
  <2>5. Follows(reused, TryPresent(reused), s)
    BY <2>4, TryPresentFollows DEF Follows
  <2> QED
    BY <1>3, <2>1, <2>4, <2>5, FollowsOn
<1>6. Follows(w, goes, s)
  <2>1. to.phase = "prior"
    BY DEF Whole
  <2> HIDE DEF to
  <2>2. RequestFits(told, to, s)
    BY <2>1 DEF RequestFits
  <2>3. Follows(told, moved, s)
    BY <1>3, <2>2, MovesFollows
  <2> HIDE DEF moved
  <2>4. /\ IsPage(goes) /\ goes.compiles = moved.compiles
        /\ goes.overlapped = moved.overlapped /\ goes.known = moved.known
        /\ goes.job = NoJob /\ goes.seen = Empty(0)
    BY <2>3, PageFields DEF Follows, IsPage, Whole
  <2> HIDE DEF goes
  <2>5. Free(moved, s)
    BY <1>3, <2>3 DEF Free, Follows
  <2>6. Follows(moved, goes, s)
    BY <2>3, <2>4, <2>5, LooksAway DEF Follows, FollowFits
  <2> QED
    BY <1>3, <2>3, <2>6, FollowsOn
<1> QED
  BY <1>2, <1>4, <1>5, <1>6

\* A call begins when no job is followed and no submission is uncertain: if the session
\* works on one of the page, it is that of another call, which this one overlaps.
LEMMA CompileFollows ==
  ASSUME NEW w, NEW text, NEW automatic \in BOOLEAN, NEW s, IsPage(w), IsSession(s),
         FollowFits(w, s), w.job = NoJob, w.pending.sub = 0
  PROVE  Follows(w, Compile(w, text, automatic), s)
<1> DEFINE c == [phase |-> "check", text |-> text, automatic |-> automatic, epoch |-> w.epoch]
           overlap == \E d \in w.compiles : d.phase # "waiting"
           left == \E d \in w.compiles : d.phase \in {"check", "prior"} /\ d.epoch # w.epoch
           begun == [w EXCEPT !.submitting = TRUE, !.overlapped = @ \/ overlap,
                              !.leftOver = @ \/ left]
<1>1. Compile(w, text, automatic) \in {w, AfterCheck(begun, c), Moves(begun, c, c)}
  BY DEF Compile
<1>2. Whole(c) /\ "phase" \in DOMAIN c /\ c.phase = "check"
  BY DEF Whole
<1> HIDE DEF c
<1>3. /\ IsPage(begun) /\ begun.compiles = w.compiles /\ begun.pending = w.pending
      /\ begun.overlapped = (w.overlapped \/ overlap)
      /\ begun.job = w.job /\ begun.known = w.known /\ begun.seen = w.seen
  BY PageFields DEF IsPage, Whole
<1> HIDE DEF begun
<1>4. JobOf(s) # NoJob
  BY DEF IsSession, JobOf, NoJob
<1>5. Free(begun, s)
  BY <1>3, <1>4 DEF FollowFits, Watched, OwnJobWorks, Free
<1>6. Follows(w, begun, s)
  <2>1. \A d : RequestFits(w, d, s) => RequestFits(begun, d, s)
    BY <1>3 DEF RequestFits
  <2>2. OneCall(w) => OneCall(begun)
    BY <1>3 DEF OneCall
  <2> QED
    BY <1>3, <1>5, <2>1, <2>2 DEF FollowFits, SeenFits, Follows, Free
<1>7. Alone(begun, c)
  BY <1>3 DEF Alone
<1>8. Follows(begun, AfterCheck(begun, c), s)
  BY <1>2, <1>5, <1>6, <1>7, AfterCheckFollows DEF Follows
<1>9. Follows(begun, Moves(begun, c, c), s)
  BY <1>2, <1>5, <1>6, <1>7, MovesFollows DEF Follows, RequestFits
<1> QED
  BY <1>1, <1>6, <1>8, <1>9, FollowsOn, FollowsAtRest

LEMMA PumpFollows ==
  ASSUME NEW w, NEW s, IsPage(w), IsSession(s), FollowFits(w, s)
  PROVE  Follows(w, Pump(w), s)
<1> DEFINE checks == [w EXCEPT !.checking = [text |-> w.latest.text, epoch |-> w.epoch]]
           notes == [w EXCEPT !.attempted = @ \cup {w.latest.text}]
<1>1. \/ Pump(w) \in {w, checks, TryPresent(w)}
      \/ /\ Pump(w) = Compile(notes, w.latest.text, TRUE)
         /\ w.job = NoJob /\ w.pending.sub = 0
  BY DEF Pump, Submitting
<1>2. Aside(w, checks) /\ Aside(w, notes)
  BY PageFields DEF IsPage, Whole, Aside
<1> HIDE DEF checks, notes
<1>3. Follows(w, checks, s) /\ Follows(w, notes, s) /\ IsPage(notes) /\ FollowFits(notes, s)
  BY <1>2, AsideFollows DEF Follows
<1>4. w.job = NoJob /\ w.pending.sub = 0 =>
        Follows(notes, Compile(notes, w.latest.text, TRUE), s)
  BY <1>2, <1>3, CompileFollows DEF Aside
<1> QED
  BY <1>1, <1>3, <1>4, TryPresentFollows, FollowsAtRest, FollowsOn

LEMMA OfferFollows ==
  ASSUME NEW w, NEW text, NEW final, NEW s, IsPage(w), IsSession(s), FollowFits(w, s)
  PROVE  Follows(w, Offer(w, text, final), s)
<1> DEFINE same == w.latest.text = text /\ w.latest.epoch = w.epoch
           kept(flag) == same /\ w.latest[flag]
           latest == [text |-> text, epoch |-> w.epoch,
                      seen |-> IF same THEN 2 ELSE 1,
                      final |-> final \/ kept("final"), ready |-> final \/ kept("final"),
                      checked |-> kept("checked"), refused |-> kept("refused")]
           offered == [w EXCEPT !.latest = latest, !.story = text, !.timer = ~final]
<1>1. \/ Offer(w, text, final) = TryPresent(offered)
      \/ Offer(w, text, final) = TryPresent(Pump(offered))
  BY DEF Offer
<1> HIDE DEF latest
<1>2. Aside(w, offered)
  BY PageFields DEF IsPage, Whole, Aside
<1> HIDE DEF offered
<1>3. Follows(w, offered, s)
  BY <1>2, AsideFollows
<1>4. Follows(offered, Pump(offered), s)
  BY <1>3, PumpFollows DEF Follows
<1>5. Follows(offered, TryPresent(offered), s)
  BY <1>3, TryPresentFollows DEF Follows
<1>6. Follows(Pump(offered), TryPresent(Pump(offered)), s)
  BY <1>4, TryPresentFollows DEF Follows
<1> QED
  BY <1>1, <1>3, <1>4, <1>5, <1>6, FollowsOn

\* The page lets the job go that it follows: it is not one it has paid for that is
\* worked on.
LEMMA LetsGo ==
  ASSUME NEW w, NEW v, NEW s, IsSession(s), FollowFits(w, s), IsPage(v),
         v.compiles = w.compiles, v.overlapped = w.overlapped, v.known \in Nat \X Nat,
         v.pending = w.pending, v.job = NoJob, v.seen \in {w.seen, Empty(0)},
         w.job # JobOf(s) \/ Free(w, s)
  PROVE  Follows(w, v, s)
<1>1. CASE Free(w, s)
  BY <1>1, LooksAway
<1>2. CASE w.job # JobOf(s) /\ ~Free(w, s)
  <2>1. \A c : RequestFits(w, c, s) => RequestFits(v, c, s)
    BY DEF RequestFits
  <2>2. OneCall(w) => OneCall(v)
    BY DEF OneCall
  <2>3. SeenFits(v, s)
    BY DEF FollowFits, SeenFits, Before, JobOf, Empty, IsSession
  <2>4. JobOf(Empty(0)) # JobOf(s)
    BY DEF JobOf, Empty, IsSession
  <2>5. Watched(w, s) => Watched(v, s)
    BY <1>2, <2>4 DEF Watched
  <2> QED
    BY <2>1, <2>2, <2>3, <2>5 DEF FollowFits, Follows
<1> QED
  BY <1>1, <1>2

LEMMA FinishFollows ==
  ASSUME NEW w, NEW p, NEW s, IsPage(w), IsSession(s), FollowFits(w, s),
         w.job # JobOf(s) \/ Free(w, s)
  PROVE  Follows(w, Finish(w, p), s)
<1> DEFINE completed == IF p.stage = "failed" THEN w.completed
                        ELSE IF w.completed.job = JobOf(p)
                        THEN [w.completed EXCEPT !.shown = p.shown]
                        ELSE [job |-> JobOf(p), key |-> p.text, source |-> p.text,
                              meaning |-> IF w.active = p.text THEN Meaning[p.text] ELSE None,
                              shown |-> p.shown, tried |-> FALSE]
           race == Publishing(w) /\ w.completed.job # JobOf(p)
           ended == [w EXCEPT !.job = NoJob, !.active = None, !.completed = completed,
                              !.raced = @ \/ race]
<1>1. Finish(w, p) = Pump(ended)
  BY DEF Finish
<1> HIDE DEF completed, race
<1>2. /\ IsPage(ended) /\ ended.compiles = w.compiles
      /\ ended.overlapped = w.overlapped /\ ended.known = w.known
      /\ ended.pending = w.pending /\ ended.job = NoJob /\ ended.seen = w.seen
  BY PageFields DEF IsPage, Whole
<1> HIDE DEF ended
<1>3. Follows(w, ended, s)
  BY <1>2, LetsGo DEF FollowFits
<1>4. Follows(ended, Pump(ended), s)
  BY <1>3, PumpFollows DEF Follows
<1> QED
  BY <1>1, <1>3, <1>4, FollowsOn

\* A snapshot goes on show: of the job that is followed, if it is one the page has paid for.
LEMMA RenderFollows ==
  ASSUME NEW w, NEW p, NEW s, IsPage(w), IsSession(s), FollowFits(w, s), PointerFits(p, s),
         JobOf(p) = JobOf(s) => w.job = JobOf(s) \/ Free(w, s)
  PROVE  Follows(w, Render(w, p), s)
<1> DEFINE rendered == [w EXCEPT !.seen = p]
<1>1. \/ Render(w, p) = w
      \/ /\ w.job \in {NoJob, JobOf(p)}
         /\ \/ Render(w, p) = rendered
            \/ Over(p) /\ Render(w, p) = Finish(rendered, p)
  BY DEF Render
<1>2. /\ IsPage(rendered) /\ rendered.compiles = w.compiles
      /\ rendered.overlapped = w.overlapped /\ rendered.known = w.known
      /\ rendered.pending = w.pending /\ rendered.job = w.job /\ rendered.seen = p
  BY PageFields DEF IsPage, Whole
<1> HIDE DEF rendered
<1>3. Follows(w, rendered, s)
  <2>1. \A c : RequestFits(w, c, s) => RequestFits(rendered, c, s)
    BY <1>2 DEF RequestFits
  <2>2. OneCall(w) => OneCall(rendered)
    BY <1>2 DEF OneCall
  <2>3. SeenFits(rendered, s)
    BY <1>2 DEF SeenFits, Before, JobOf, PointerFits, IsSession
  <2>4. ~Free(w, s) => (Watched(w, s) => Watched(rendered, s))
    BY <1>2 DEF Watched
  <2> QED
    BY <1>2, <2>1, <2>2, <2>3, <2>4 DEF FollowFits, Follows, Free
<1>4. ASSUME Over(p), w.job \in {NoJob, JobOf(p)}
      PROVE  rendered.job # JobOf(s) \/ Free(rendered, s)
  <2>1. JobOf(p) = JobOf(s) => Over(s)
    BY <1>4 DEF JobOf, PointerFits, IsSession
  <2>2. JobOf(p) = JobOf(s) => Free(w, s)
    BY <2>1 DEF Free, OwnJobWorks, Over
  <2>3. NoJob # JobOf(s)
    BY DEF JobOf, NoJob, IsSession
  <2> QED
    BY <1>2, <1>4, <2>2, <2>3 DEF Free
<1>5. Over(p) /\ w.job \in {NoJob, JobOf(p)} => Follows(rendered, Finish(rendered, p), s)
  BY <1>3, <1>4, FinishFollows DEF Follows
<1> QED
  BY <1>1, <1>3, <1>5, FollowsOn, FollowsAtRest

\* A pointer arrives: the page goes on to a job that is new to it, never back from the
\* one it has paid for.
LEMMA HandleFollows ==
  ASSUME NEW w, NEW p, NEW s, IsPage(w), IsSession(s), FollowFits(w, s), PointerFits(p, s)
  PROVE  Follows(w, Handle(w, p), s)
<1> DEFINE moved == w.known[1] \notin {0, p.instance}
           here == IF moved THEN Forgotten(w) ELSE w
           heard == IF w.job # NoJob THEN w.job ELSE JobOf(w.seen)
           told == [here EXCEPT !.known[1] = p.instance]
           tracks == [here EXCEPT !.known = JobOf(p), !.job = JobOf(p), !.seen = Empty(0)]
<1>1. \/ p.rev = 0 /\ Handle(w, p) = told
      \/ JobOf(p) = heard /\ Handle(w, p) = Render(w, p)
      \/ Handle(w, p) = here
      \/ p.rev # 0 /\ ~(p.rev < here.known[2]) /\ Handle(w, p) = Render(tracks, p)
  BY DEF Handle
<1>2. /\ p.instance = s.instance /\ p.instance \in Nat \ {0}
      /\ s.rev \in Nat /\ p.rev \in Nat /\ p.rev <= s.rev
      /\ JobOf(s) # NoJob /\ JobOf(s)[1] = s.instance /\ JobOf(s)[2] = s.rev
      /\ JobOf(p) = <<p.instance, p.rev>> /\ JobOf(s) = <<s.instance, s.rev>>
  BY DEF PointerFits, IsSession, JobOf, NoJob
<1>3. w.known \in Nat \X Nat /\ (w.job # NoJob => w.known = w.job /\ w.known[1] # 0)
  BY DEF FollowFits
<1>4. w.job = JobOf(s) => ~moved
  BY <1>2, <1>3
<1>5. /\ IsPage(here) /\ here.compiles = w.compiles
      /\ here.overlapped = w.overlapped /\ here.pending = w.pending
      /\ moved => /\ here.job = NoJob /\ here.seen = Empty(0)
                  /\ here.known = [w.known EXCEPT ![2] = 0]
      /\ ~moved => here = w
  BY PageFields DEF IsPage, Whole, Forgotten
<1>6. moved => [w.known EXCEPT ![2] = 0] \in Nat \X Nat
  BY <1>3
<1> HIDE DEF here
<1>7. Follows(w, here, s)
  <2>1. CASE moved
    BY <1>4, <1>5, <1>6, <2>1, LetsGo
  <2>2. CASE ~moved
    BY <1>5, <2>2, FollowsAtRest
  <2> QED
    BY <2>1, <2>2
<1>8. Follows(here, told, s)
  <2>1. here.known \in Nat \X Nat /\ (here.job # NoJob => here.known[1] = p.instance)
    BY <1>2, <1>3, <1>5, <1>6
  <2>2. /\ IsPage(told) /\ told.compiles = here.compiles
        /\ told.overlapped = here.overlapped /\ told.pending = here.pending
        /\ told.job = here.job /\ told.seen = here.seen
        /\ told.known = [here.known EXCEPT ![1] = p.instance]
    BY <1>5, PageFields DEF IsPage, Whole
  <2>3. told.known \in Nat \X Nat /\ (here.job # NoJob => told.known = here.known)
    BY <1>2, <2>1, <2>2
  <2> HIDE DEF told
  <2>4. \A c : RequestFits(here, c, s) => RequestFits(told, c, s)
    BY <2>2 DEF RequestFits
  <2>5. (OneCall(here) => OneCall(told)) /\ (Watched(here, s) => Watched(told, s))
    BY <2>2 DEF OneCall, Watched
  <2> QED
    BY <1>7, <2>2, <2>3, <2>4, <2>5 DEF FollowFits, SeenFits, Follows
<1>9. JobOf(p) = heard => Follows(w, Render(w, p), s)
  <2>1. JobOf(p) = heard /\ JobOf(p) = JobOf(s) => w.job = JobOf(s) \/ Free(w, s)
    BY DEF FollowFits, Watched, Free
  <2> QED
    BY <2>1, RenderFollows
<1>10. ASSUME p.rev # 0, ~(p.rev < here.known[2])
       PROVE  Follows(here, Render(tracks, p), s)
  <2>1. /\ IsPage(tracks) /\ tracks.compiles = here.compiles
        /\ tracks.overlapped = here.overlapped /\ tracks.pending = here.pending
        /\ tracks.job = JobOf(p) /\ tracks.known = JobOf(p) /\ tracks.seen = Empty(0)
    BY <1>5, PageFields DEF IsPage, Whole
  <2> HIDE DEF tracks
  <2>2. here.job = JobOf(s) => JobOf(p) = JobOf(s)
    BY <1>2, <1>3, <1>5, <1>10
  <2>3. \A c : RequestFits(here, c, s) => RequestFits(tracks, c, s)
    BY <2>1 DEF RequestFits
  <2>4. OneCall(here) => OneCall(tracks)
    BY <2>1 DEF OneCall
  <2>5. SeenFits(tracks, s) /\ JobOf(tracks.seen) # JobOf(s)
    BY <1>2, <2>1 DEF SeenFits, Before, JobOf, Empty
  <2>6. Watched(here, s) => Watched(tracks, s)
    BY <2>1, <2>2, <2>5 DEF Watched
  <2>7. JobOf(p) \in Nat \X Nat /\ JobOf(p)[1] # 0
    BY <1>2
  <2>8. Follows(here, tracks, s)
    BY <1>7, <2>1, <2>3, <2>4, <2>5, <2>6, <2>7 DEF FollowFits, Follows
  <2>9. Follows(tracks, Render(tracks, p), s)
    BY <2>1, <2>8, RenderFollows DEF Follows
  <2> QED
    BY <2>8, <2>9, FollowsOn
<1> QED
  BY <1>1, <1>7, <1>8, <1>9, <1>10, FollowsOn

LEMMA FailedFollows ==
  ASSUME NEW w, NEW c, NEW s, IsPage(w), IsSession(s), FollowFits(w, s), Free(w, s)
  PROVE  Follows(w, Failed(w, c), s)
<1> DEFINE ended == Ends(w, c)
           idle == [ended EXCEPT !.job = NoJob]
<1>1. Failed(w, c) = Pump(idle)
  BY DEF Failed
<1>2. Follows(w, ended, s)
  BY EndsFollows
<1> HIDE DEF ended
<1>3. /\ IsPage(idle) /\ idle.compiles = ended.compiles
      /\ idle.overlapped = ended.overlapped /\ idle.known = ended.known
      /\ idle.job = NoJob /\ idle.seen = ended.seen
  BY <1>2, PageFields DEF Follows, IsPage, Whole
<1> HIDE DEF idle
<1>4. Follows(ended, idle, s)
  BY <1>2, <1>3, LooksAway DEF Follows, FollowFits, Free
<1>5. Follows(idle, Pump(idle), s)
  BY <1>4, PumpFollows DEF Follows
<1> QED
  BY <1>1, <1>2, <1>4, <1>5, FollowsOn

\* A call whose end is unknown leaves its submission to be looked for.
LEMMA UncertainFollows ==
  ASSUME NEW w, NEW c, NEW s, IsPage(w), IsSession(s), FollowFits(w, s),
         c.sub = s.sub \/ Free(w, s)
  PROVE  Follows(w, Uncertain(w, c), s)
<1> DEFINE pending == [sub |-> c.sub, text |-> c.text, prior |-> c.prior]
           unsure == [w EXCEPT !.pending = pending]
           waiting == [phase |-> "waiting"]
           waits == Moves(unsure, c, waiting)
           looks == [waits EXCEPT !.reconciling = TRUE]
<1>1. Uncertain(w, c) \in {Ends(unsure, c), looks}
  BY DEF Uncertain
<1>2. pending.sub = c.sub /\ waiting.phase = "waiting"
  OBVIOUS
<1> HIDE DEF pending, waiting
<1>3. /\ IsPage(unsure) /\ unsure.compiles = w.compiles
      /\ unsure.overlapped = w.overlapped /\ unsure.pending = pending
      /\ unsure.job = w.job /\ unsure.known = w.known /\ unsure.seen = w.seen
  BY PageFields DEF IsPage, Whole
<1> HIDE DEF unsure
<1>4. Follows(w, unsure, s)
  <2>1. \A d : RequestFits(w, d, s) => RequestFits(unsure, d, s)
    BY <1>3 DEF RequestFits
  <2>2. OneCall(w) => OneCall(unsure)
    BY <1>3 DEF OneCall
  <2>3. ~Free(w, s) => (Watched(w, s) => Watched(unsure, s))
    BY <1>2, <1>3 DEF Watched
  <2> QED
    BY <1>3, <2>1, <2>2, <2>3 DEF FollowFits, SeenFits, Follows, Free
<1>5. unsure.pending.sub = s.sub \/ Free(unsure, s)
  BY <1>2, <1>3 DEF Free
<1>6. Follows(unsure, Ends(unsure, c), s)
  BY <1>4, <1>5, EndsFollows DEF Follows
<1>7. Recalls(unsure, waits, (unsure.compiles \ {c}) \cup {waiting})
  BY <1>3, PageFields DEF IsPage, Whole, Moves, Recalls
<1> HIDE DEF waits
<1>8. Follows(unsure, waits, s)
  <2>1. \A d : RequestFits(unsure, d, s) => RequestFits(waits, d, s)
    BY <1>7 DEF RequestFits, Recalls
  <2>2. RequestFits(waits, waiting, s)
    BY <1>2 DEF RequestFits
  <2>3. OneCall(unsure) => OneCall(waits)
    BY <1>2, <1>7 DEF OneCall, Recalls
  <2>4. ~Free(unsure, s) => (Watched(unsure, s) => Watched(waits, s))
    BY <1>2, <1>5, <1>7 DEF Watched, Recalls
  <2> QED
    BY <1>4, <1>7, <2>1, <2>2, <2>3, <2>4 DEF FollowFits, SeenFits, Follows, Free, Recalls
<1>9. Aside(waits, looks)
  BY <1>8, PageFields DEF Follows, IsPage, Whole, Aside
<1> HIDE DEF looks
<1>10. Follows(waits, looks, s)
  BY <1>8, <1>9, AsideFollows DEF Follows
<1> QED
  BY <1>1, <1>4, <1>6, <1>8, <1>10, FollowsOn

LEMMA EndPresentFollows ==
  ASSUME NEW w, NEW s, IsPage(w), IsSession(s), FollowFits(w, s)
  PROVE  Follows(w, EndPresent(w), s)
<1> DEFINE over == [w EXCEPT !.present = Idle]
<1>1. EndPresent(w) \in {over, Pump(over)}
  BY DEF EndPresent
<1>2. Aside(w, over)
  BY PageFields DEF IsPage, Whole, Aside
<1> HIDE DEF over
<1>3. Follows(w, over, s)
  BY <1>2, AsideFollows
<1>4. Follows(over, Pump(over), s)
  BY <1>3, PumpFollows DEF Follows
<1> QED
  BY <1>1, <1>3, <1>4, FollowsOn

-----------------------------------------------------------------------------
(* Steps of the page, while the session stays as it is.                    *)
FollowKnown == IsPage(page) /\ IsSession(server) /\ FollowFits(page, server)

LEMMA PageHolds ==
  ASSUME IInv, FollowInv
  PROVE  FollowKnown
BY DEF IInv, FollowInv, PageFits, IsPage, ServerFits, IsSession, FollowKnown

\* A call that is not at its end works while no submission is worked on.
LEMMA Busy ==
  ASSUME FollowKnown, NEW c \in page.compiles,
         c.phase \in {"check", "prior", "post", "refused", "conflict"}
  PROVE  Free(page, server) /\ Alone(page, c)
BY DEF FollowKnown, FollowFits, Watched, OneCall, Free, Alone

LEMMA MarksFollow ==
  ASSUME FollowKnown,
         \/ PressStart \/ Started \/ StartFails \/ PartialBegins \/ Stop \/ FinalFails
         \/ PressCheckStatus
         \/ \E text \in Text : Edit(text)
  PROVE  Follows(page, page', server)
<1>1. Aside(page, page')
  <2> USE PageFields DEF FollowKnown, IsPage, Whole, Aside
  <2>1. CASE PressStart
    BY <2>1 DEF PressStart
  <2>2. CASE Started
    BY <2>2 DEF Started
  <2>3. CASE StartFails
    BY <2>3 DEF StartFails
  <2>4. CASE PartialBegins
    BY <2>4 DEF PartialBegins
  <2>5. CASE Stop
    BY <2>5 DEF Stop
  <2>6. CASE FinalFails
    BY <2>6 DEF FinalFails
  <2>7. CASE PressCheckStatus
    BY <2>7 DEF PressCheckStatus
  <2>8. ASSUME NEW text \in Text, Edit(text)
        PROVE  Aside(page, page')
    <3>1. page' = [page EXCEPT !.story = text, !.latest = NoIntent, !.timer = FALSE]
      BY <2>8 DEF Edit
    <3> QED
      BY <3>1
  <2> QED
    BY <2>1, <2>2, <2>3, <2>4, <2>5, <2>6, <2>7, <2>8
<1> QED
  BY <1>1, AsideFollows DEF FollowKnown

LEMMA PartialsFollow ==
  ASSUME FollowKnown, Partials
  PROVE  Follows(page, page', server)
<1>1. ASSUME NEW heard, Follows(page, heard, server),
             page' = TryPresent([heard EXCEPT !.partial = FALSE])
      PROVE  Follows(page, page', server)
  <2> DEFINE free == [heard EXCEPT !.partial = FALSE]
  <2>1. Aside(heard, free)
    BY <1>1, PageFields DEF Follows, IsPage, Whole, Aside
  <2>2. page' = TryPresent(free)
    BY <1>1
  <2> HIDE DEF free
  <2>3. Follows(heard, free, server)
    BY <1>1, <2>1, AsideFollows DEF Follows
  <2>4. Follows(free, TryPresent(free), server)
    BY <2>3, TryPresentFollows DEF Follows
  <2> QED
    BY <1>1, <2>2, <2>3, <2>4, FollowsOn
<1>2. CASE PartialFails
  BY <1>1, <1>2, FollowsAtRest DEF PartialFails, FollowKnown
<1>3. ASSUME NEW text \in Text, PartialHeard(text)
      PROVE  Follows(page, page', server)
  <2> DEFINE heard == IF page.mic = "on" THEN Offer(page, text, FALSE) ELSE page
  <2>1. Follows(page, heard, server)
    BY OfferFollows, FollowsAtRest DEF FollowKnown
  <2>2. page' = TryPresent([heard EXCEPT !.partial = FALSE])
    BY <1>3 DEF PartialHeard
  <2> HIDE DEF heard
  <2> QED
    BY <1>1, <2>1, <2>2
<1> QED
  BY <1>2, <1>3 DEF Partials

\* The handlers that note something and look at the queue.
LEMMA PumpsFollow ==
  ASSUME FollowKnown, NEW w, NEW v, Follows(page, w, server), Aside(w, v)
  PROVE  Follows(page, Pump(v), server)
<1>1. Follows(w, v, server)
  BY AsideFollows DEF Follows
<1>2. Follows(v, Pump(v), server)
  BY <1>1, PumpFollows DEF Follows, FollowKnown
<1> QED
  BY <1>1, <1>2, FollowsOn

LEMMA TimerFollows ==
  ASSUME FollowKnown, TimerFires
  PROVE  Follows(page, page', server)
<1> DEFINE ready == [page EXCEPT !.timer = FALSE, !.latest.ready = TRUE]
<1>1. Aside(page, ready)
  BY PageFields DEF FollowKnown, IsPage, Whole, Aside
<1>2. page' = Pump(ready)
  BY DEF TimerFires
<1> HIDE DEF ready
<1> QED
  BY <1>1, <1>2, FollowsAtRest, PumpsFollow DEF FollowKnown

LEMMA FinalHeardFollows ==
  ASSUME FollowKnown, NEW text \in Text, FinalHeard(text)
  PROVE  Follows(page, page', server)
<1> DEFINE heard == Offer(page, text, TRUE)
           over == [heard EXCEPT !.mic = "off"]
<1>1. Follows(page, heard, server)
  BY OfferFollows DEF FollowKnown
<1>2. page' = Pump(over)
  BY DEF FinalHeard
<1> HIDE DEF heard
<1>3. Aside(heard, over)
  BY <1>1, PageFields DEF Follows, IsPage, Whole, Aside
<1> HIDE DEF over
<1> QED
  BY <1>1, <1>2, <1>3, PumpsFollow

LEMMA QueuedCheckFollows ==
  ASSUME FollowKnown, QueuedCheck
  PROVE  Follows(page, page', server)
<1>1. PICK fine \in BOOLEAN : QueuedChecked(fine)
  BY DEF QueuedCheck
<1> DEFINE latest == IF Stale(page, page.checking) THEN page.latest
                     ELSE IF fine THEN [page.latest EXCEPT !.checked = TRUE]
                     ELSE [page.latest EXCEPT !.refused = TRUE]
           noted == [page EXCEPT !.checking = NoIntent, !.latest = latest]
<1>2. page' = Pump(noted)
  BY <1>1, PageFields DEF QueuedChecked, FollowKnown, IsPage
<1> HIDE DEF latest
<1>3. Aside(page, noted)
  BY PageFields DEF FollowKnown, IsPage, Whole, Aside
<1> HIDE DEF noted
<1> QED
  BY <1>2, <1>3, FollowsAtRest, PumpsFollow DEF FollowKnown

LEMMA PressGenerateFollows ==
  ASSUME FollowKnown, PressGenerate
  PROVE  Follows(page, page', server)
<1> DEFINE latest == [text |-> page.story, epoch |-> page.epoch, seen |-> 1,
                      final |-> TRUE, ready |-> FALSE, checked |-> FALSE, refused |-> FALSE]
           again == [page EXCEPT !.latest = latest, !.completed.tried = FALSE]
<1>1. page' \in {TryPresent(again), Compile(page, page.story, FALSE)}
  BY DEF PressGenerate
<1>2. Follows(page, Compile(page, page.story, FALSE), server)
  BY CompileFollows DEF PressGenerate, FollowKnown
<1> HIDE DEF latest
<1>3. Aside(page, again)
  BY PageFields DEF FollowKnown, IsPage, Whole, Aside
<1> HIDE DEF again
<1>4. Follows(page, again, server)
  BY <1>3, AsideFollows DEF FollowKnown
<1>5. Follows(again, TryPresent(again), server)
  BY <1>4, TryPresentFollows DEF Follows
<1> QED
  BY <1>1, <1>2, <1>4, <1>5, FollowsOn

LEMMA CheckedFollows ==
  ASSUME IInv, FollowKnown, NEW c, NEW fine \in BOOLEAN, Checked(c, fine)
  PROVE  Follows(page, page', server)
<1> DEFINE ended == Ends(page, c)
           refused == [ended EXCEPT !.latest.refused = TRUE]
<1>1. c \in page.compiles /\ c.phase = "check"
  BY DEF Checked, At
<1>2. Whole(c) /\ "phase" \in DOMAIN c
  BY <1>1, PageKnows DEF PageFits, CallsFit
<1>3. Free(page, server) /\ Alone(page, c)
  BY <1>1, Busy
<1>4. page' \in {AfterCheck(page, c), ended, Pump(Again(page, c)), refused}
  BY DEF Checked
<1>5. Follows(page, AfterCheck(page, c), server)
  BY <1>2, <1>3, AfterCheckFollows DEF FollowKnown
<1>6. Follows(page, ended, server)
  BY <1>3, EndsFollows DEF FollowKnown
<1>7. Follows(page, Pump(Again(page, c)), server)
  <2>1. Follows(page, Again(page, c), server)
    BY <1>3, AgainFollows DEF FollowKnown
  <2>2. Follows(Again(page, c), Pump(Again(page, c)), server)
    BY <2>1, PumpFollows DEF Follows, FollowKnown
  <2> QED
    BY <2>1, <2>2, FollowsOn
<1>8. Follows(page, refused, server)
  <2> HIDE DEF ended
  <2>1. Aside(ended, refused)
    BY <1>6, PageFields DEF Follows, IsPage, Whole, Aside
  <2> HIDE DEF refused
  <2> QED
    BY <1>6, <2>1, AsideFollows, FollowsOn DEF Follows
<1> QED
  BY <1>4, <1>5, <1>6, <1>7, <1>8

LEMMA PriorReadFollows ==
  ASSUME IInv, FollowKnown, NEW c, PriorRead(c)
  PROVE  Follows(page, page', server)
<1> DEFINE kept == IF c.automatic /\ server.text # c.text THEN Again(page, c)
                   ELSE Ends(page, c)
           moved == Moves(page, c, Posted(c))
           asks == [moved EXCEPT !.subs = @ + 1]
<1>1. c \in page.compiles /\ c.phase = "prior"
  BY DEF PriorRead, At
<1>2. Free(page, server) /\ Alone(page, c)
  BY <1>1, Busy
<1>3. page' \in {Pump(Handle(kept, server)), Pump(Again(page, c)), asks}
  BY DEF PriorRead, Posted
<1>4. Follows(page, Again(page, c), server) /\ Follows(page, Ends(page, c), server)
  BY <1>2, AgainFollows, EndsFollows DEF FollowKnown
<1>5. Follows(page, kept, server)
  BY <1>4
<1> HIDE DEF kept
<1>6. PointerFits(server, server)
  BY DEF FollowKnown, PointerFits, IsSession
<1>7. Follows(kept, Handle(kept, server), server)
  BY <1>5, <1>6, HandleFollows DEF Follows, FollowKnown
<1>8. Follows(Handle(kept, server), Pump(Handle(kept, server)), server)
  BY <1>7, PumpFollows DEF Follows, FollowKnown
<1>9. Follows(Again(page, c), Pump(Again(page, c)), server)
  BY <1>4, PumpFollows DEF Follows, FollowKnown
<1>10. Follows(page, asks, server)
  <2>1. RequestFits(page, Posted(c), server)
    <3>1. page.subs \in Nat /\ JobOf(server) \in Nat \X Nat
      BY PageKnows DEF PageFits, FollowKnown, IsSession, JobOf
    <3> QED
      BY <3>1 DEF RequestFits, Posted
  <2>2. Follows(page, moved, server)
    BY <1>2, <2>1, MovesFollows DEF FollowKnown
  <2> HIDE DEF moved
  <2>3. Aside(moved, asks)
    BY <2>2, PageFields DEF Follows, IsPage, Whole, Aside
  <2> HIDE DEF asks
  <2> QED
    BY <2>2, <2>3, AsideFollows, FollowsOn DEF Follows
<1> QED
  BY <1>3, <1>4, <1>5, <1>7, <1>8, <1>9, <1>10, FollowsOn

\* What comes after the request.
LEMMA AcceptedFollows ==
  ASSUME FollowKnown, NEW c, Accepted(c)
  PROVE  Follows(page, page', server)
<1> DEFINE job == [instance |-> c.prior[1], rev |-> c.prior[2] + 1, text |-> c.text,
                   sub |-> c.sub, stage |-> "working", shown |-> FALSE]
           heard == Handle(page, job)
<1>1. c \in page.compiles /\ c.phase = "accepted"
  BY DEF Accepted, At
<1>2. /\ c.prior \in Nat \X Nat /\ c.prior[1] = server.instance /\ c.prior[2] < server.rev
      /\ page.overlapped \/ (c.sub = server.sub => server.rev = c.prior[2] + 1)
  BY <1>1 DEF FollowKnown, FollowFits, RequestFits
<1>3. Free(page, server) \/ c.sub = server.sub
  BY <1>1 DEF FollowKnown, FollowFits, Watched, Free
<1>4. /\ PointerFits(job, server)
      /\ Free(page, server) \/ JobOf(job) = JobOf(server)
  BY <1>2, <1>3 DEF PointerFits, Over, FollowKnown, IsSession, JobOf, Free
<1>5. \/ Retained(heard) = JobOf(job) /\ page' = Pump(Ends(heard, c))
      \/ page' = Uncertain(heard, c)
  BY DEF Accepted
<1> HIDE DEF job
<1>6. Follows(page, heard, server)
  BY <1>4, HandleFollows DEF FollowKnown
<1> HIDE DEF heard
<1>7. /\ Free(heard, server) \/ c.sub = server.sub
      /\ Free(heard, server) \/ JobOf(job) = JobOf(server)
  BY <1>3, <1>4, <1>6 DEF Free, Follows
<1>8. Follows(heard, Uncertain(heard, c), server)
  BY <1>6, <1>7, UncertainFollows DEF Follows, FollowKnown
<1>9. Retained(heard) = JobOf(job) => Follows(page, Pump(Ends(heard, c)), server)
  <2> SUFFICES ASSUME Retained(heard) = JobOf(job)
               PROVE  Follows(page, Pump(Ends(heard, c)), server)
    OBVIOUS
  <2>1. heard.job = JobOf(server) \/ Free(heard, server)
    BY <1>6, <1>7 DEF Retained, Follows, FollowFits, Watched, Free
  <2>2. Follows(heard, Ends(heard, c), server)
    BY <1>6, <2>1, EndsFollows DEF Follows
  <2>3. Follows(Ends(heard, c), Pump(Ends(heard, c)), server)
    BY <2>2, PumpFollows DEF Follows, FollowKnown
  <2> QED
    BY <1>6, <2>2, <2>3, FollowsOn
<1> QED
  BY <1>5, <1>6, <1>8, <1>9, FollowsOn

LEMMA LostFollows ==
  ASSUME FollowKnown, NEW c, Lost(c)
  PROVE  Follows(page, page', server)
<1>1. c \in page.compiles /\ c.phase = "lost" /\ page' = Uncertain(page, c)
  BY DEF Lost, At
<1>2. Free(page, server) \/ c.sub = server.sub
  BY <1>1 DEF FollowKnown, FollowFits, Watched, Free
<1> QED
  BY <1>1, <1>2, UncertainFollows DEF FollowKnown

LEMMA RefusedFollows ==
  ASSUME FollowKnown, NEW c, PriorFails(c) \/ Refused(c)
  PROVE  Follows(page, page', server)
<1>1. /\ c \in page.compiles /\ c.phase \in {"prior", "refused"}
      /\ page' = Failed(page, c)
  BY DEF PriorFails, Refused, At
<1> QED
  BY <1>1, Busy, FailedFollows DEF FollowKnown

LEMMA ConflictFollows ==
  ASSUME FollowKnown, NEW c, Conflict(c)
  PROVE  Follows(page, page', server)
<1> DEFINE noted == [page EXCEPT !.attempted = @ \cup {c.text}]
           heard == IF server.rev = 0 THEN noted ELSE Handle(noted, server)
<1>1. c \in page.compiles /\ c.phase = "conflict"
  BY DEF Conflict, At
<1>2. Free(page, server)
  BY <1>1, Busy
<1>3. page' \in {Pump(Ends(heard, c)), Failed(noted, c)}
  BY DEF Conflict
<1>4. Aside(page, noted)
  BY PageFields DEF FollowKnown, IsPage, Whole, Aside
<1> HIDE DEF noted
<1>5. Follows(page, noted, server) /\ Free(noted, server)
  BY <1>2, <1>4, AsideFollows DEF FollowKnown, Free, Aside
<1>6. Follows(noted, Failed(noted, c), server)
  BY <1>5, FailedFollows DEF Follows, FollowKnown
<1>7. PointerFits(server, server)
  BY DEF FollowKnown, PointerFits, IsSession
<1>8. Follows(noted, heard, server)
  BY <1>5, <1>7, HandleFollows, FollowsAtRest DEF Follows, FollowKnown
<1> HIDE DEF heard
<1>9. Free(heard, server)
  BY <1>5, <1>8 DEF Free, Follows
<1>10. Follows(heard, Ends(heard, c), server)
  BY <1>8, <1>9, EndsFollows DEF Follows
<1>11. Follows(Ends(heard, c), Pump(Ends(heard, c)), server)
  BY <1>10, PumpFollows DEF Follows, FollowKnown
<1> QED
  BY <1>3, <1>5, <1>6, <1>8, <1>10, <1>11, FollowsOn

\* What the page knows of a submission is given up once it follows the job.
LEMMA ReconciledFollows ==
  ASSUME FollowKnown, Reconciled
  PROVE  Follows(page, page', server)
<1> DEFINE waiting == [phase |-> "waiting"]
           heard == Handle(page, server)
           freed == [heard EXCEPT !.pending = [sub |-> 0], !.submitting = FALSE]
           Done(w) == [w EXCEPT !.reconciling = FALSE]
           Woken(w) == Ends(Done(w), waiting)
           Resumed(w) == IF waiting \in w.compiles THEN Pump(Woken(w)) ELSE Done(w)
<1>1. \/ page' \in {Resumed(page), Resumed(heard)}
      \/ Retained(heard) = JobOf(server) /\ page' = Resumed(Pump(freed))
  BY DEF Reconciled
<1>2. waiting.phase = "waiting"
  OBVIOUS
<1>3. PointerFits(server, server)
  BY DEF FollowKnown, PointerFits, IsSession
<1>4. Follows(page, heard, server)
  BY <1>3, HandleFollows DEF FollowKnown
<1> HIDE DEF heard
<1>5. Retained(heard) = JobOf(server) => Follows(page, Pump(freed), server)
  <2> SUFFICES ASSUME Retained(heard) = JobOf(server)
               PROVE  Follows(page, Pump(freed), server)
    OBVIOUS
  <2>1. heard.job = JobOf(server) \/ Free(heard, server)
    BY <1>4 DEF Retained, Follows, FollowFits, Watched, Free
  <2>2. /\ IsPage(freed) /\ freed.compiles = heard.compiles
        /\ freed.overlapped = heard.overlapped /\ freed.job = heard.job
        /\ freed.known = heard.known /\ freed.seen = heard.seen
    BY <1>4, PageFields DEF Follows, IsPage, Whole
  <2> HIDE DEF freed
  <2>3. \A c : RequestFits(heard, c, server) => RequestFits(freed, c, server)
    BY <2>2 DEF RequestFits
  <2>4. OneCall(heard) => OneCall(freed)
    BY <2>2 DEF OneCall
  <2>5. ~Free(heard, server) => (Watched(heard, server) => Watched(freed, server))
    BY <2>1, <2>2 DEF Watched
  <2>6. Follows(heard, freed, server)
    BY <1>4, <2>2, <2>3, <2>4, <2>5 DEF FollowFits, SeenFits, Follows, Free
  <2>7. Follows(freed, Pump(freed), server)
    BY <2>6, PumpFollows DEF Follows, FollowKnown
  <2> QED
    BY <1>4, <2>6, <2>7, FollowsOn
<1>6. ASSUME NEW w, Follows(page, w, server)
      PROVE  Follows(page, Resumed(w), server)
  <2>1. Aside(w, Done(w))
    BY <1>6, PageFields DEF Follows, IsPage, Whole, Aside
  <2>2. Resumed(w) \in {Pump(Woken(w)), Done(w)}
    OBVIOUS
  <2> HIDE DEF Done, waiting
  <2>3. Follows(w, Done(w), server)
    BY <1>6, <2>1, AsideFollows DEF Follows
  <2>4. Follows(Done(w), Woken(w), server)
    BY <1>2, <2>3, EndsFollows DEF Follows
  <2> HIDE DEF Woken
  <2>5. Follows(Woken(w), Pump(Woken(w)), server)
    BY <2>4, PumpFollows DEF Follows, FollowKnown
  <2> HIDE DEF Resumed
  <2> QED
    BY <1>6, <2>2, <2>3, <2>4, <2>5, FollowsOn
<1>7. Follows(page, page, server)
  BY FollowsAtRest DEF FollowKnown
<1> HIDE DEF Resumed, freed
<1> QED
  BY <1>1, <1>4, <1>5, <1>6, <1>7

LEMMA TriedAside ==
  ASSUME NEW w, IsPage(w)
  PROVE  Aside(w, Tried(w))
<1> DEFINE tried == [w EXCEPT !.completed.tried = TRUE]
<1>1. Tried(w) \in {w, tried}
  BY DEF Tried
<1>2. Aside(w, tried) /\ Aside(w, w)
  BY PageFields DEF IsPage, Whole, Aside
<1> HIDE DEF tried
<1> QED
  BY <1>1, <1>2

LEMMA PresentsFollow ==
  ASSUME FollowKnown, PointersFit, PresentPointer \/ Presented \/ PresentFails
  PROVE  Follows(page, page', server)
<1>1. Follows(page, page, server)
  BY FollowsAtRest DEF FollowKnown
<1>2. Follows(page, Tried(page), server)
  BY TriedAside, AsideFollows DEF FollowKnown
<1>3. ASSUME NEW w, Follows(page, w, server), page' = EndPresent(w)
      PROVE  Follows(page, page', server)
  <2>1. Follows(w, EndPresent(w), server)
    BY <1>3, EndPresentFollows DEF Follows, FollowKnown
  <2> QED
    BY <1>3, <2>1, FollowsOn
<1>4. CASE PresentFails
  BY <1>2, <1>3, <1>4 DEF PresentFails
<1>5. CASE PresentPointer
  <2> DEFINE tried == Tried(page)
             asks == [tried EXCEPT !.present.phase = "post"]
  <2>1. page' \in {EndPresent(page), asks}
    BY <1>5 DEF PresentPointer
  <2> HIDE DEF tried
  <2>2. Aside(tried, asks)
    BY <1>2, PageFields DEF tried, Follows, IsPage, Whole, Aside
  <2>3. Follows(page, asks, server)
    <3> HIDE DEF asks
    <3> QED
      BY <1>2, <2>2, AsideFollows, FollowsOn DEF tried, Follows
  <2> QED
    BY <1>1, <1>3, <2>1, <2>3
<1>6. CASE Presented
  <2> DEFINE p == page.present.answer
             w == IF StillCurrent(page) /\ Matches(page, p, page.present.text)
                  THEN Render(page, p) ELSE page
  <2>1. page' = EndPresent(w) /\ page.present.phase = "shown"
    BY <1>6 DEF Presented
  <2>2. Over(p) /\ PointerFits(p, server)
    BY <2>1 DEF PointersFit
  <2>3. JobOf(p) = JobOf(server) => Free(page, server)
    BY <2>2 DEF PointerFits, Free, OwnJobWorks, Over, JobOf
  <2>4. Follows(page, Render(page, p), server)
    BY <2>2, <2>3, RenderFollows DEF FollowKnown
  <2>5. Follows(page, w, server)
    BY <1>1, <2>4
  <2> HIDE DEF w
  <2> QED
    BY <1>3, <2>1, <2>5
<1> QED
  BY <1>4, <1>5, <1>6

LEMMA HearFollows ==
  ASSUME FollowKnown, PointersFit, Hear
  PROVE  Follows(page, page', server)
<1> DEFINE heard == Handle(page, stream.said)
           looks == [heard EXCEPT !.reconciling = @ \/ heard.pending.sub # 0]
<1>1. page' = looks
  BY DEF Hear
<1>2. Follows(page, heard, server)
  BY HandleFollows DEF Hear, PointersFit, FollowKnown
<1> HIDE DEF heard
<1>3. Aside(heard, looks)
  BY <1>2, PageFields DEF Follows, IsPage, Whole, Aside
<1> HIDE DEF looks
<1> QED
  BY <1>1, <1>2, <1>3, AsideFollows, FollowsOn DEF Follows

LEMMA HearPollFollows ==
  ASSUME FollowKnown, PointersFit, HearsPoll
  PROVE  Follows(page, page', server)
BY HandleFollows DEF HearsPoll, HearPoll, PointersFit, FollowKnown

-----------------------------------------------------------------------------
(* Steps of the session.                                                   *)

\* Nothing new is on its way to the page.
NothingNew ==
  /\ Whole(stream') /\ DOMAIN stream' = DOMAIN Broken
  /\ stream'.due => stream'.said = stream.said /\ stream.due
  /\ poll' = [k \in Poll |-> poll'[k]]
  /\ \A k \in Poll : poll'[k].phase = "answered" => poll'[k] = poll[k]

LEMMA AtRestNothingNew ==
  ASSUME PointersFit, UNCHANGED <<stream, poll>>
  PROVE  NothingNew
BY DEF PointersFit, NothingNew, Whole

\* The page hears of the session later than it changes.
LEMMA PointersKept ==
  ASSUME PointersFit, IsSession(server), NothingNew,
         page'.present = page.present \/ page'.present.phase # "shown",
         server'.instance = server.instance,
         \/ server'.rev = server.rev /\ (Over(server) => Over(server'))
         \/ server'.rev = server.rev + 1
  PROVE  PointersFit'
<1>1. ASSUME NEW p, PointerFits(p, server)
      PROVE  PointerFits(p, server')
  BY <1>1 DEF PointerFits, IsSession
<1>2. stream'.due => PointerFits(stream'.said, server')
  BY <1>1 DEF PointersFit, NothingNew
<1>3. page'.present.phase = "shown" =>
        Over(page'.present.answer) /\ PointerFits(page'.present.answer, server')
  BY <1>1 DEF PointersFit
<1>4. \A k \in Poll : poll'[k].phase = "answered" => PointerFits(poll'[k].said, server')
  BY <1>1 DEF PointersFit, NothingNew
<1> QED
  BY <1>2, <1>3, <1>4 DEF PointersFit, NothingNew

\* The session goes on with its job, or to another that is none of the page's.
LEMMA SessionGoesOn ==
  ASSUME FollowKnown, NEW s, IsSession(s), ~OwnJobWorks(s),
         \/ s.instance = server.instance /\ s.rev = server.rev /\ s.sub = server.sub
         \/ s.instance = server.instance /\ s.rev = server.rev + 1 /\ s.sub = 0
         \/ s.instance = server.instance + 1 /\ \A c \in page.compiles : c.phase # "accepted"
  PROVE  FollowFits(page, s)
<1>1. \A c \in page.compiles : RequestFits(page, c, s)
  BY DEF FollowKnown, FollowFits, RequestFits, IsSession
<1>2. SeenFits(page, s)
  <2>1. SeenFits(page, server)
    BY DEF FollowKnown, FollowFits
  <2> QED
    BY <2>1 DEF FollowKnown, IsSession, SeenFits, Before, JobOf
<1> QED
  BY <1>1, <1>2 DEF FollowKnown, FollowFits

LEMMA ServeFollows ==
  ASSUME IInv, FollowInv, NEW c, Serve(c)
  PROVE  FollowInv'
<1>1. FollowKnown /\ PointersFit
  BY PageHolds DEF FollowInv
<1>2. /\ c \in page.compiles /\ c.phase = "post" /\ UNCHANGED <<stream, poll>>
      /\ Whole(c) /\ RequestFits(page, c, server) /\ Free(page, server) /\ Alone(page, c)
  BY <1>1, Busy, PageKnows DEF Serve, At, PageFits, CallsFit, FollowKnown, FollowFits
<1> DEFINE job == [instance |-> server.instance, rev |-> server.rev + 1, text |-> c.text,
                   sub |-> c.sub, stage |-> "working", shown |-> FALSE]
<1>3. PICK a \in {"accepted", "lost", "conflict", "refused"} :
        /\ page' = Moves(page, c, [c EXCEPT !.phase = a])
        /\ \/ c.prior = JobOf(server) /\ server' = job /\ a \in {"accepted", "lost"}
           \/ server' = server /\ a # "accepted"
  BY DEF Serve
<1> DEFINE to == [c EXCEPT !.phase = a]
<1>4. /\ to.phase = a /\ DOMAIN to = {"phase", "text", "sub", "prior"}
      /\ to.sub = c.sub /\ to.prior = c.prior
      /\ to.sub \in Nat \ {0} /\ to.prior \in Nat \X Nat
  BY <1>2 DEF RequestFits, Whole
<1>5. page' = Moves(page, c, to)
  BY <1>3
<1> HIDE DEF to
<1>6. Recalls(page, page', (page.compiles \ {c}) \cup {to}) /\ page'.present = page.present
  BY <1>1, <1>5, PageFields DEF FollowKnown, IsPage, Whole, Moves, Recalls
<1>7. CASE server' = server /\ a # "accepted"
  <2>1. RequestFits(page, to, server)
    BY <1>4, <1>7 DEF RequestFits
  <2>2. Follows(page, page', server)
    BY <1>1, <1>2, <1>5, <2>1, MovesFollows DEF FollowKnown
  <2>3. PointersFit'
    BY <1>1, <1>2, <1>6, <1>7, AtRestNothingNew, PointersKept DEF FollowKnown
  <2> QED
    BY <1>7, <2>2, <2>3 DEF FollowInv, Follows
<1>8. CASE c.prior = JobOf(server) /\ server' = job /\ a \in {"accepted", "lost"}
  <2>1. /\ server'.instance = server.instance /\ server'.rev = server.rev + 1
        /\ server'.sub = c.sub /\ server'.stage = "working"
        /\ server.instance \in Nat /\ server.rev \in Nat
    BY <1>1, <1>8 DEF FollowKnown, IsSession
  <2>2. c.prior[1] = server.instance /\ c.prior[2] = server.rev
    BY <1>8 DEF JobOf
  <2>3. RequestFits(page', to, server')
    BY <1>4, <2>1, <2>2 DEF RequestFits
  <2>4. ASSUME NEW d \in page.compiles \ {c}
        PROVE  RequestFits(page', d, server')
    <3>1. RequestFits(page, d, server) /\ (page.overlapped \/ d.phase = "waiting")
      BY <1>1, <1>2, <2>4 DEF Alone, FollowKnown, FollowFits
    <3> QED
      BY <1>6, <2>1, <3>1 DEF RequestFits, Recalls
  <2>5. SeenFits(page', server') /\ JobOf(page'.seen) # JobOf(server')
    <3>1. SeenFits(page, server)
      BY <1>1 DEF FollowKnown, FollowFits
    <3> QED
      BY <1>6, <2>1, <3>1 DEF SeenFits, Before, JobOf, Recalls
  <2>6. page.overlapped \/ (OneCall(page') /\ Watched(page', server'))
    BY <1>2, <1>4, <1>6, <1>8, <2>1, <2>5 DEF Alone, OneCall, Watched, Recalls
  <2>7. FollowFits(page', server')
    BY <1>1, <1>6, <2>3, <2>4, <2>5, <2>6 DEF FollowKnown, FollowFits, Recalls
  <2>8. PointersFit'
    BY <1>1, <1>2, <1>6, <2>1, AtRestNothingNew, PointersKept DEF FollowKnown
  <2> QED
    BY <2>7, <2>8 DEF FollowInv
<1> QED
  BY <1>3, <1>7, <1>8

LEMMA SessionFollows ==
  ASSUME IInv, FollowInv,
         JobEnds \/ (\E text \in Elsewhere : OtherJob(text)) \/ Restart \/ Transport
  PROVE  FollowInv'
<1>1. FollowKnown /\ PointersFit
  BY PageHolds DEF FollowInv
<1>2. /\ Whole(server) /\ DOMAIN server = DOMAIN Empty(1)
      /\ server.instance \in Nat \ {0} /\ server.rev \in Nat
  BY DEF IInv, ServerFits
<1>3. CASE JobEnds
  <2>1. PICK x \in {"complete", "failed"} : server'.stage = x
    BY <1>2, <1>3 DEF JobEnds, Empty
  <2>2. /\ server'.instance = server.instance /\ server'.rev = server.rev
        /\ server'.sub = server.sub
    BY <1>2, <1>3 DEF JobEnds, Empty, Whole
  <2>3. UNCHANGED <<stream, poll, page>> /\ NothingNew
    BY <1>1, <1>3, AtRestNothingNew DEF JobEnds
  <2>4. IsSession(server') /\ ~OwnJobWorks(server') /\ Over(server')
    BY <1>2, <2>1, <2>2 DEF IsSession, OwnJobWorks, Over
  <2>5. FollowFits(page, server')
    BY <1>1, <2>2, <2>4, SessionGoesOn
  <2>6. PointersFit'
    BY <1>1, <2>2, <2>3, <2>4, PointersKept DEF FollowKnown
  <2> QED
    BY <2>3, <2>5, <2>6 DEF FollowInv
<1>4. CASE \E text \in Elsewhere : OtherJob(text)
  <2>1. /\ server'.instance = server.instance /\ server'.rev = server.rev + 1
        /\ server'.sub = 0 /\ UNCHANGED <<stream, poll, page>>
    BY <1>4 DEF OtherJob
  <2>2. IsSession(server') /\ ~OwnJobWorks(server')
    BY <1>2, <2>1 DEF IsSession, OwnJobWorks
  <2>3. FollowFits(page, server')
    BY <1>1, <2>1, <2>2, SessionGoesOn
  <2>4. PointersFit'
    BY <1>1, <2>1, AtRestNothingNew, PointersKept DEF FollowKnown
  <2> QED
    BY <2>1, <2>3, <2>4 DEF FollowInv
<1>5. CASE Restart
  <2>1. /\ server'.instance = server.instance + 1 /\ server'.rev = 0 /\ server'.sub = 0
        /\ UNCHANGED <<poll, page>> /\ stream' = Broken /\ page.present.phase # "shown"
        /\ \A k \in Poll : poll[k].phase # "answered"
        /\ \A c \in page.compiles : c.phase # "accepted"
    BY <1>5 DEF Restart, Empty
  <2>2. IsSession(server') /\ ~OwnJobWorks(server')
    BY <1>2, <2>1 DEF IsSession, OwnJobWorks
  <2>3. FollowFits(page, server')
    BY <1>1, <2>1, <2>2, SessionGoesOn
  <2>4. PointersFit'
    BY <1>1, <2>1 DEF PointersFit, Broken, Whole
  <2> QED
    BY <2>1, <2>3, <2>4 DEF FollowInv
<1>6. CASE Transport
  <2>1. UNCHANGED <<server, page>>
    BY <1>6, TransportKeeps
  <2>2. PointerFits(server, server)
    BY <1>2 DEF PointerFits
  <2>3. /\ Whole(stream') /\ DOMAIN stream' = DOMAIN Broken
        /\ stream'.due => PointerFits(stream'.said, server)
    <3>1. CASE Tell
      BY <1>1, <2>2, <3>1 DEF Tell, PointersFit, Broken, Whole
    <3>2. CASE ~Tell
      BY <1>1, <1>6, <3>2 DEF Transport, Disconnect, AskPoll, AnswerPoll, PointersFit, Broken,
                              Whole
    <3> QED
      BY <3>1, <3>2
  <2>4. /\ poll' = [k \in Poll |-> poll'[k]]
        /\ \A k \in Poll : poll'[k].phase = "answered" => PointerFits(poll'[k].said, server)
    BY <1>1, <1>6, <2>2
       DEF Transport, Tell, Disconnect, AskPoll, AnswerPoll, PointersFit, NoPoll
  <2>5. PointersFit'
    BY <1>1, <2>1, <2>3, <2>4 DEF PointersFit
  <2> QED
    BY <1>1, <2>1, <2>5 DEF FollowInv, FollowKnown
<1> QED
  BY <1>3, <1>4, <1>5, <1>6

LEMMA ServePresentFollows ==
  ASSUME IInv, FollowInv, ServePresent
  PROVE  FollowInv'
<1>1. FollowKnown /\ PointersFit
  BY PageHolds DEF FollowInv
<1>2. /\ Whole(server) /\ DOMAIN server = DOMAIN Empty(1)
      /\ server.instance \in Nat \ {0} /\ server.rev \in Nat
  BY DEF IInv, ServerFits
<1>3. page.present.phase = "post" /\ UNCHANGED <<stream, poll>>
  BY DEF ServePresent
<1>4. PICK p : /\ page' = [page EXCEPT !.present = p]
               /\ \/ p.phase = "failed"
                  \/ p.phase = "shown" /\ p.answer = server' /\ server.stage = "complete"
  <2>1. CASE page' = [page EXCEPT !.present.phase = "failed"]
    <3> DEFINE p == [page.present EXCEPT !.phase = "failed"]
    <3>1. p.phase = "failed"
      BY PageKnows DEF PageFits, PresentFits
    <3>2. page' = [page EXCEPT !.present = p]
      BY <2>1
    <3> HIDE DEF p
    <3> QED
      BY <3>1, <3>2
  <2>2. CASE /\ page' = [page EXCEPT !.present = [phase |-> "shown", text |-> @.text,
                                                  job |-> @.job, answer |-> server']]
             /\ server.stage = "complete"
    <3> DEFINE p == [phase |-> "shown", text |-> page.present.text,
                     job |-> page.present.job, answer |-> server']
    <3>1. p.phase = "shown" /\ p.answer = server'
      OBVIOUS
    <3>2. page' = [page EXCEPT !.present = p]
      BY <2>2
    <3> HIDE DEF p
    <3> QED
      BY <2>2, <3>1, <3>2
  <2> QED
    BY <2>1, <2>2 DEF ServePresent
<1>5. Aside(page, page') /\ page'.present = p
  BY <1>1, <1>4, PageFields DEF FollowKnown, IsPage, Whole, Aside
<1>6. /\ server'.instance = server.instance /\ server'.rev = server.rev
      /\ server'.sub = server.sub /\ server'.stage = server.stage
      /\ server' # server => server.stage = "complete"
  <2>1. CASE UNCHANGED server
    BY <2>1
  <2>2. CASE server' = [server EXCEPT !.shown = TRUE] /\ server.stage = "complete"
    BY <1>2, <2>2 DEF Whole, Empty
  <2> QED
    BY <2>1, <2>2 DEF ServePresent
<1>7. FollowFits(page', server)
  BY <1>1, <1>5, AsideFollows DEF FollowKnown, Follows
<1>8. FollowFits(page', server')
  <2>1. CASE UNCHANGED server
    BY <1>7, <2>1
  <2>2. CASE server.stage = "complete"
    <3>1. JobOf(server') = JobOf(server) /\ ~OwnJobWorks(server')
      BY <1>6, <2>2 DEF JobOf, OwnJobWorks
    <3>2. \A c : RequestFits(page', c, server) => RequestFits(page', c, server')
      BY <1>6 DEF RequestFits
    <3> QED
      BY <1>7, <3>1, <3>2 DEF FollowFits, SeenFits
  <2> QED
    BY <1>6, <2>1, <2>2
<1>9. PointersFit'
  <2>1. \A q : PointerFits(q, server) => PointerFits(q, server')
    BY <1>6 DEF PointerFits, Over
  <2>2. stream'.due => PointerFits(stream'.said, server')
    BY <1>1, <1>3, <2>1 DEF PointersFit
  <2>3. p.phase = "shown" => Over(p.answer) /\ PointerFits(p.answer, server')
    BY <1>2, <1>4, <1>6 DEF Over, PointerFits
  <2>4. \A k \in Poll : poll'[k].phase = "answered" => PointerFits(poll'[k].said, server')
    BY <1>1, <1>3, <2>1 DEF PointersFit
  <2> QED
    BY <1>1, <1>3, <1>5, <2>2, <2>3, <2>4 DEF PointersFit, Whole
<1> QED
  BY <1>8, <1>9 DEF FollowInv

-----------------------------------------------------------------------------
\* Steps of the page alone: what it follows, and that it neither is shown another scene
\* nor hears anything new of the session.
PageGoesOn ==
  /\ Follows(page, page', server) /\ UNCHANGED server /\ NothingNew
  /\ page'.present = page.present \/ page'.present.phase # "shown"

LEMMA PageGoesOnFollows ==
  ASSUME FollowInv, FollowKnown, PageGoesOn
  PROVE  FollowInv'
<1>1. PointersFit'
  BY PointersKept DEF FollowInv, FollowKnown, PageGoesOn
<1> QED
  BY <1>1 DEF FollowInv, Follows, PageGoesOn

\* A handler that carries what IInv says, and follows, is such a step.
LEMMA CarriedGoesOn ==
  ASSUME FollowInv, Follows(page, page', server), UNCHANGED <<stream, poll>>,
         Carried(page, page', paid) /\ UNCHANGED <<server, paid>>
  PROVE  PageGoesOn
BY AtRestNothingNew DEF FollowInv, PageGoesOn, Carried

\* The session goes on.
SessionStirs ==
  \/ (\E c \in page.compiles : Serve(c)) \/ ServePresent
  \/ JobEnds \/ (\E text \in Elsewhere : OtherJob(text)) \/ Restart \/ Transport

LEMMA StepGoesOn ==
  ASSUME IInv, FollowInv, [Next]_vars
  PROVE  PageGoesOn \/ SessionStirs \/ UNCHANGED vars
<1>1. FollowKnown /\ PointersFit
  BY PageHolds DEF FollowInv
<1>2. CASE UNCHANGED vars \/ SessionStirs
  BY <1>2
<1>3. CASE \/ PressStart \/ PartialBegins \/ Stop \/ FinalFails \/ PressCheckStatus
           \/ \E text \in Text : Edit(text)
  <2>1. UNCHANGED <<stream, poll>>
    BY <1>3 DEF PressStart, PartialBegins, Stop, FinalFails, PressCheckStatus, Edit
  <2> QED
    BY <1>1, <1>3, <2>1, Marks, MarksFollow, CarriedGoesOn
<1>4. CASE Started \/ StartFails
  <2>1. UNCHANGED <<stream, poll, server>> /\ page'.present = page.present
    BY <1>1, <1>4, PageFields DEF Started, StartFails, FollowKnown, IsPage
  <2>2. PageGoesOn
    BY <1>1, <1>4, <2>1, MarksFollow, AtRestNothingNew DEF PageGoesOn
  <2> QED
    BY <2>2
<1>5. CASE Partials \/ TimerFires \/ (\E text \in Text : FinalHeard(text)) \/ PressGenerate
           \/ QueuedCheck \/ Reconciled
  <2>1. UNCHANGED <<stream, poll>>
    BY <1>5 DEF Partials, PartialHeard, PartialFails, TimerFires, FinalHeard,
                PressGenerate, QueuedCheck, QueuedChecked, Reconciled
  <2>2. Carried(page, page', paid) /\ UNCHANGED <<server, paid>>
    BY <1>5, PartialsCarry, TimerCarries, FinalHeardCarries, PressGenerateCarries,
       QueuedCheckCarries, ReconciledCarries
  <2>3. Follows(page, page', server)
    BY <1>1, <1>5, PartialsFollow, TimerFollows, FinalHeardFollows, PressGenerateFollows,
       QueuedCheckFollows, ReconciledFollows
  <2> QED
    BY <1>1, <2>1, <2>2, <2>3, CarriedGoesOn
<1>6. ASSUME NEW c \in page.compiles, CompileStep(c)
      PROVE  PageGoesOn \/ SessionStirs
  <2>1. CASE Serve(c)
    BY <2>1 DEF SessionStirs
  <2>2. CASE PriorRead(c)
    <3>1. Follows(page, page', server) /\ UNCHANGED <<stream, poll, server>>
      BY <1>1, <2>2, PriorReadFollows DEF PriorRead
    <3>2. page'.present = page.present \/ page'.present.phase # "shown"
      <4>1. CASE Submits(c)
        BY <1>1, <4>1, PageFields DEF Submits, Moves, FollowKnown, IsPage
      <4>2. CASE Carried(page, page', paid)
        BY <4>2 DEF Carried
      <4> QED
        BY <2>2, <4>1, <4>2, PriorReadCases
    <3>3. PageGoesOn
      BY <1>1, <3>1, <3>2, AtRestNothingNew DEF PageGoesOn
    <3> QED
      BY <1>1, <3>3
  <2>3. CASE \/ \E fine \in BOOLEAN : Checked(c, fine)
             \/ PriorFails(c) \/ Accepted(c) \/ Lost(c) \/ Conflict(c) \/ Refused(c)
    <3>1. UNCHANGED <<stream, poll>>
      BY <2>3 DEF Checked, PriorFails, Accepted, Lost, Conflict, Refused
    <3>2. Carried(page, page', paid) /\ UNCHANGED <<server, paid>>
      BY <2>3, CheckedCarries, AnswersCarry, ConflictCarries
    <3>3. Follows(page, page', server)
      BY <1>1, <2>3, CheckedFollows, AcceptedFollows, LostFollows, RefusedFollows,
         ConflictFollows
    <3> QED
      BY <1>1, <3>1, <3>2, <3>3, CarriedGoesOn
  <2> QED
    BY <1>6, <2>1, <2>2, <2>3 DEF CompileStep
<1>7. CASE PresentStep
  <2>1. CASE ServePresent
    BY <2>1 DEF SessionStirs
  <2>2. CASE PresentPointer \/ Presented \/ PresentFails
    <3>1. UNCHANGED <<stream, poll, server>> /\ Follows(page, page', server)
      BY <1>1, <2>2, PresentsFollow DEF PresentPointer, Presented, PresentFails
    <3>2. page'.present = page.present \/ page'.present.phase # "shown"
      <4>1. CASE Presented \/ PresentFails
        BY <4>1, PresentEnds DEF Carried
      <4>2. CASE PresentPointer /\ page' = EndPresent(page)
        BY <4>2, PageKnows, EndPresentCarries DEF Carried
      <4>3. CASE PresentPointer /\ page' = [Tried(page) EXCEPT !.present.phase = "post"]
        <5> DEFINE tried == Tried(page)
                   asks == [tried.present EXCEPT !.phase = "post"]
        <5>1. Carried(page, tried, paid)
          BY PageKnows, TriedCarries
        <5>2. page' = [tried EXCEPT !.present = asks]
          BY <4>3
        <5> HIDE DEF tried
        <5>3. asks.phase = "post"
          BY <5>1 DEF Carried, PageFits, PresentFits
        <5> HIDE DEF asks
        <5> QED
          BY <5>1, <5>2, <5>3, PageFields DEF Carried, PageFits
      <4> QED
        BY <2>2, <4>1, <4>2, <4>3 DEF PresentPointer
    <3>3. PageGoesOn
      BY <1>1, <3>1, <3>2, AtRestNothingNew DEF PageGoesOn
    <3> QED
      BY <1>1, <3>3
  <2> QED
    BY <1>7, <2>1, <2>2 DEF PresentStep
<1>8. CASE JobEnds \/ (\E text \in Elsewhere : OtherJob(text)) \/ Restart \/ Transport
  BY <1>8 DEF SessionStirs
<1>9. CASE Hear \/ HearsPoll
  <2>1. NothingNew
    <3>1. CASE Hear
      BY <1>1, <3>1 DEF Hear, NothingNew, PointersFit, Broken, Whole
    <3>2. ASSUME NEW k \in Poll, HearPoll(k)
          PROVE  NothingNew
      <4>1. /\ Whole(stream') /\ DOMAIN stream' = DOMAIN Broken
            /\ stream'.due = stream.due /\ stream'.said = stream.said
        BY <1>1, <3>2 DEF HearPoll, PointersFit, Broken, Whole
      <4>2. poll' = [poll EXCEPT ![k] = NoPoll] /\ NoPoll.phase = "none"
        BY <3>2 DEF HearPoll, NoPoll
      <4> QED
        BY <1>1, <4>1, <4>2 DEF NothingNew, PointersFit
    <3> QED
      BY <1>9, <3>1, <3>2 DEF HearsPoll
  <2>2. PageGoesOn
    BY <1>1, <1>9, <2>1, HearCarries, HearFollows, HearPollCarries, HearPollFollows
       DEF PageGoesOn, Carried
  <2> QED
    BY <1>1, <2>2
<1> QED
  BY <1>2, <1>3, <1>4, <1>5, <1>6, <1>7, <1>8, <1>9
     DEF Next, Finals, Transport, PollStep, HearsPoll

LEMMA FollowStep ==
  ASSUME IInv, FollowInv, [Next]_vars
  PROVE  FollowInv'
<1>1. FollowKnown /\ PointersFit
  BY PageHolds DEF FollowInv
<1>2. CASE PageGoesOn
  BY <1>1, <1>2, PageGoesOnFollows
<1>3. CASE SessionStirs
  BY <1>3, ServeFollows, ServePresentFollows, SessionFollows DEF SessionStirs
<1>4. CASE UNCHANGED vars
  BY <1>4 DEF vars, FollowInv, PointersFit
<1> QED
  BY <1>2, <1>3, <1>4, StepGoesOn

LEMMA InitFollows ==
  ASSUME Init
  PROVE  FollowInv
<1>1. page = Loaded /\ server = Empty(1)
  BY DEF Init
<1>2. /\ Loaded.compiles = {} /\ Loaded.known = <<0, 0>> /\ Loaded.job = NoJob
      /\ Loaded.seen = Empty(0) /\ Loaded.present.phase = "idle"
  BY DEF Loaded, NoJob, Idle
<1>3. SeenFits(Loaded, Empty(1)) /\ ~OwnJobWorks(Empty(1))
  BY <1>2 DEF SeenFits, Before, JobOf, Empty, OwnJobWorks
<1>4. FollowFits(Loaded, Empty(1))
  BY <1>2, <1>3 DEF FollowFits, OneCall
<1>5. PointersFit
  BY <1>1, <1>2 DEF Init, PointersFit, NoPoll, Broken, Whole
<1> QED
  BY <1>1, <1>4, <1>5 DEF FollowInv

\* Unless calls have overlapped, the page follows what it has paid for, or knows that it
\* may have been accepted (reconcileGeneration, acceptedLiveScenePointer).
THEOREM PaidJobsStayInSight == Spec => []NoPaidJobForgotten
<1>1. Init => FollowInv
  BY InitFollows
<1>2. IInv /\ FollowInv /\ [Next]_vars => FollowInv'
  BY FollowStep
<1>3. FollowInv => NoPaidJobForgotten
  BY DEF FollowInv, FollowFits, Watched, OwnJobWorks, NoPaidJobForgotten
<1> QED
  BY <1>1, <1>2, <1>3, Inductive, PTL DEF Spec

-----------------------------------------------------------------------------
(* Who looks at the queue again: what the handlers call.                   *)

\* What a function of the page leaves to its caller: what WakeInv says of the page, and
\* that it has taken in what it was told, if it had.
WakesOn(w, v, s) ==
  Undisturbed(v) =>
    /\ Undisturbed(w)
    /\ WakeFits(w, s) => WakeFits(v, s) /\ (TakenIn(w, s) => TakenIn(v, s))

LEMMA WakesThen ==
  ASSUME NEW w, NEW v, NEW u, NEW s, WakesOn(w, v, s), WakesOn(v, u, s)
  PROVE  WakesOn(w, u, s)
BY DEF WakesOn

LEMMA WakesAtRest ==
  ASSUME NEW w, NEW s
  PROVE  WakesOn(w, w, s)
BY DEF WakesOn

\* The description is the same, checked or refused as it may be.
SameIntent(w, v) ==
  /\ DOMAIN v.latest = DOMAIN w.latest /\ v.latest.text = w.latest.text
  /\ w.latest.text # None /\ DOMAIN w.latest # {"text"} =>
       /\ v.latest.epoch = w.latest.epoch /\ v.latest.final = w.latest.final
       /\ w.latest.ready => v.latest.ready

\* Nothing is done to the description, to the recording and to scenes.
Alike(w, v) ==
  /\ IsPage(v) /\ (IntentFits(w) => SameIntent(w, v)) /\ (Undisturbed(v) => Undisturbed(w))
  /\ v.epoch = w.epoch /\ v.story = w.story /\ v.mic = w.mic /\ v.partial = w.partial
  /\ v.completed = w.completed /\ v.present = w.present /\ v.known = w.known

\* Only calls and what they leave behind are changed.
Keeps(w, v) ==
  /\ IsPage(v) /\ v.latest = w.latest /\ v.overlapped = w.overlapped /\ v.raced = w.raced
  /\ v.epoch = w.epoch /\ v.story = w.story /\ v.mic = w.mic /\ v.partial = w.partial
  /\ v.completed = w.completed /\ v.present = w.present /\ v.known = w.known

LEMMA KeepsAlike ==
  ASSUME NEW u, NEW w, NEW v, Keeps(w, v), Alike(u, w) \/ (u = w /\ IsPage(w))
  PROVE  Alike(u, v)
BY DEF Keeps, Alike, SameIntent, Undisturbed

LEMMA AlikeFits ==
  ASSUME NEW w, NEW v, Alike(w, v), IntentFits(w), SceneFits(w)
  PROVE  IntentFits(v) /\ SceneFits(v) /\ (Described(v) <=> Described(w))
<1>1. w.latest.text # None => DOMAIN w.latest # {"text"}
  BY DEF IntentFits
<1>2. Described(v) <=> Described(w)
  BY <1>1 DEF Alike, SameIntent, Described
<1>3. IntentFits(v)
  BY <1>1, <1>2 DEF Alike, SameIntent, IntentFits, Described
<1>4. SceneFits(v)
  BY <1>2 DEF Alike, SameIntent, SceneFits, Publishing
<1> QED
  BY <1>2, <1>3, <1>4

\* Calls end or go on, none of them with an answer, and the page follows what it did.
NoAnswer(c) ==
  /\ c.phase # "accepted"
  /\ c.phase \in {"check", "prior"} =>
       /\ DOMAIN c = {"phase", "text", "automatic", "epoch"}
       /\ c.automatic = TRUE /\ c.text \in Text

LEMMA SteadyWakes ==
  ASSUME NEW w, NEW v, NEW s, Alike(w, v), v.job = w.job, v.seen = w.seen,
         v.submitting => v.compiles # {},
         \A c \in v.compiles : c \in w.compiles \/ (WakeFits(w, s) => NoAnswer(c))
  PROVE  WakesOn(w, v, s)
<1> SUFFICES ASSUME Undisturbed(v), WakeFits(w, s)
             PROVE  WakeFits(v, s) /\ (TakenIn(w, s) => TakenIn(v, s))
  BY DEF WakesOn, Alike
<1>1. IntentFits(v) /\ SceneFits(v)
  BY AlikeFits DEF WakeFits
<1>2. CallsWake(v)
  BY DEF WakeFits, CallsWake, Describing, NoAnswer
<1>3. AnswerComesLate(v)
  BY DEF WakeFits, AnswerComesLate, NoAnswer, Alike
<1>4. BehindFits(v, s) /\ (TakenIn(w, s) => TakenIn(v, s))
  BY DEF WakeFits, BehindFits, TakenIn, Alike
<1> QED
  BY <1>1, <1>2, <1>3, <1>4 DEF WakeFits

\* Nothing that is spoken of here is changed.
LEMMA AlikeWakes ==
  ASSUME NEW w, NEW v, NEW s, Alike(w, v), v.job = w.job, v.seen = w.seen,
         v.compiles = w.compiles, v.submitting = w.submitting
  PROVE  WakesOn(w, v, s)
<1> SUFFICES ASSUME Undisturbed(v), WakeFits(w, s)
             PROVE  WakesOn(w, v, s)
  BY DEF WakesOn, Alike
<1> QED
  BY SteadyWakes DEF WakeFits, CallsWake

\* A presentation begins.
LEMMA TryPresentWakes ==
  ASSUME NEW w, NEW s, IsPage(w)
  PROVE  WakesOn(w, TryPresent(w), s)
<1> DEFINE p == [phase |-> "pointer", text |-> w.latest.text, job |-> w.completed.job]
           v == [w EXCEPT !.present = p]
           begins == /\ w.completed.job # NoJob /\ w.latest.text # None
                     /\ w.completed.key = w.latest.text /\ Current(w, w.latest.text)
<1>1. TryPresent(w) = w \/ (begins /\ TryPresent(w) = v)
  BY DEF TryPresent
<1>2. /\ DOMAIN p = {"phase", "text", "job"} /\ p.phase = "pointer"
      /\ p.text = w.latest.text /\ p.job = w.completed.job
  OBVIOUS
<1> HIDE DEF p
<1>3. /\ IsPage(v) /\ v.present = p /\ v.latest = w.latest /\ v.epoch = w.epoch
      /\ v.story = w.story /\ v.mic = w.mic /\ v.partial = w.partial
      /\ v.completed = w.completed /\ v.known = w.known /\ v.job = w.job /\ v.seen = w.seen
      /\ v.compiles = w.compiles /\ v.submitting = w.submitting
      /\ v.overlapped = w.overlapped /\ v.raced = w.raced
  BY PageFields DEF IsPage, Whole
<1> HIDE DEF v
<1>4. ASSUME begins
      PROVE  WakesOn(w, v, s)
  <2> SUFFICES ASSUME WakeFits(w, s)
               PROVE  WakeFits(v, s) /\ (TakenIn(w, s) => TakenIn(v, s))
    BY <1>3 DEF WakesOn, Undisturbed
  <2>1. IntentFits(v) /\ CallsWake(v)
    BY <1>3 DEF WakeFits, IntentFits, Described, CallsWake, Describing
  <2>2. Described(v) /\ ~v.partial /\ v.mic # "starting"
    BY <1>3, <1>4 DEF Described, Current
  <2>3. SceneFits(v)
    BY <1>2, <1>3, <1>4, <2>2 DEF WakeFits, SceneFits
  <2>4. AnswerComesLate(v)
    BY <1>2, <1>3 DEF WakeFits, AnswerComesLate
  <2>5. BehindFits(v, s) /\ (TakenIn(w, s) => TakenIn(v, s))
    BY <1>3 DEF WakeFits, BehindFits, TakenIn
  <2> QED
    BY <2>1, <2>3, <2>4, <2>5 DEF WakeFits
<1> QED
  BY <1>1, <1>4, WakesAtRest

\* A scene of what is described is tried now, or will be when what keeps it ends.
LEMMA TryPresentTends ==
  ASSUME NEW w, NEW s, IsPage(w), WakeFits(w, s),
         w.completed.job # NoJob, w.completed.key = w.latest.text
  PROVE  Tended(TryPresent(w), s)
<1> DEFINE p == [phase |-> "pointer", text |-> w.latest.text, job |-> w.completed.job]
           v == [w EXCEPT !.present = p]
<1>1. CASE TryPresent(w) = v
  <2>1. p.phase = "pointer" /\ Idle.phase = "idle"
    BY DEF Idle
  <2> HIDE DEF p
  <2>2. v.present = p
    BY PageFields DEF IsPage
  <2> HIDE DEF v
  <2> QED
    BY <1>1, <2>1, <2>2 DEF Tended, Publishing
<1>2. CASE TryPresent(w) = w
  <2> HIDE DEF p, v
  <2> SUFFICES ASSUME Described(w), w.latest.final, w.mic = "off", ~Publishing(w),
                      w.compiles = {}, w.job = NoJob, ~w.completed.tried, w.pending.sub = 0
               PROVE  FALSE
    BY <1>2 DEF Tended, Settled
  <2>1. w.story = w.latest.text /\ ~w.partial /\ ~w.submitting
    BY DEF WakeFits, IntentFits, CallsWake
  <2>2. Current(w, w.latest.text)
    BY <2>1 DEF Current, Submitting, Described
  <2>3. TryPresent(w) = [w EXCEPT !.present = p]
    BY <2>2 DEF TryPresent, Described, p
  <2>4. p.phase = "pointer" /\ Idle.phase = "idle"
    BY DEF Idle, p
  <2>5. w.present = p
    BY <1>2, <2>3, PageFields DEF IsPage
  <2> QED
    BY <2>4, <2>5 DEF Publishing
<1> QED
  BY <1>1, <1>2 DEF TryPresent

\* A call of compileStory goes on past the check of what is described: w is the page u
\* whose call has begun.
LEMMA AfterCheckWakes ==
  ASSUME NEW u, NEW w, NEW c, NEW s, WorkbenchAssumption, IsPage(u),
         Alike(u, w), w.compiles = u.compiles, w.job = u.job, w.seen = u.seen,
         Alone(w, c), c.phase = "check", c.automatic = TRUE,
         DOMAIN c = {"phase", "text", "automatic", "epoch"}, Whole(c),
         Described(u), c.text = u.latest.text
  PROVE  LET v == AfterCheck(w, c)
         IN /\ WakesOn(u, v, s)
            /\ Undisturbed(v) /\ WakeFits(u, s) => Tended(v, s)
<1> DEFINE told == [w EXCEPT !.latest.checked = TRUE]
           ended == Ends(told, c)
           again == Again(told, c)
           reused == [ended EXCEPT !.completed.key = c.text]
           to == [c EXCEPT !.phase = "prior"]
           moved == Moves(told, c, to)
           goes == [moved EXCEPT !.latest = @, !.active = c.text, !.job = NoJob,
                                 !.seen = Empty(0)]
           meant == w.completed.job # NoJob /\ w.completed.meaning = Meaning[c.text]
           early == ~w.latest.final \/ ~w.latest.ready \/ w.mic \in {"stopping", "starting"}
<1>1. \/ AfterCheck(w, c) = again /\ early
      \/ AfterCheck(w, c) = TryPresent(reused) /\ meant
      \/ AfterCheck(w, c) = goes
  BY DEF AfterCheck
<1> DEFINE latest == [w.latest EXCEPT !.checked = TRUE]
<1>2. DOMAIN latest = DOMAIN w.latest
      /\ \A f \in DOMAIN latest : f # "checked" => latest[f] = w.latest[f]
  OBVIOUS
<1>3. WakeFits(u, s) => c.text \in Text
  BY DEF WakeFits, IntentFits, Described
<1>4. told = [w EXCEPT !.latest = latest]
  BY PageFields DEF Alike, IsPage
<1>5. /\ IsPage(told) /\ told.compiles = u.compiles /\ told.job = u.job /\ told.seen = u.seen
      /\ Alike(u, told) /\ told.overlapped = w.overlapped /\ told.raced = w.raced
  <2> HIDE DEF latest, told
  <2>1. /\ IsPage(told) /\ told.latest = latest /\ told.compiles = w.compiles
        /\ told.job = w.job /\ told.seen = w.seen /\ told.epoch = w.epoch
        /\ told.story = w.story /\ told.mic = w.mic /\ told.partial = w.partial
        /\ told.completed = w.completed /\ told.present = w.present /\ told.known = w.known
        /\ told.overlapped = w.overlapped /\ told.raced = w.raced
    BY <1>4, PageFields DEF Alike, IsPage, Whole
  <2>2. IntentFits(u) => SameIntent(u, told)
    BY <1>2, <2>1 DEF Alike, SameIntent, IntentFits
  <2> QED
    BY <2>1, <2>2 DEF Alike, Undisturbed
<1> HIDE DEF latest
<1> HIDE DEF told
<1>6. /\ IsPage(ended) /\ Alike(u, ended) /\ ended.compiles = u.compiles \ {c}
      /\ ended.job = u.job /\ ended.seen = u.seen /\ ended.submitting = FALSE
      /\ ended.overlapped = told.overlapped /\ ended.raced = told.raced
  <2>1. /\ Keeps(told, ended) /\ ended.compiles = told.compiles \ {c}
        /\ ended.job = told.job /\ ended.seen = told.seen /\ ended.submitting = FALSE
    BY <1>5, PageFields DEF IsPage, Whole, Keeps, Ends
  <2> HIDE DEF ended
  <2>2. Alike(u, ended)
    BY <1>5, <2>1, KeepsAlike
  <2> QED
    BY <1>5, <2>1, <2>2 DEF Keeps
<1>7. /\ IsPage(again) /\ Alike(u, again) /\ again.compiles = u.compiles \ {c}
      /\ again.job = u.job /\ again.seen = u.seen /\ again.submitting = FALSE
      /\ again.latest = told.latest /\ again.mic = told.mic
  <2>1. again = [ended EXCEPT !.attempted = @ \ {c.text}] /\ ended.latest = told.latest
        /\ ended.mic = told.mic
    BY <1>5, PageFields DEF IsPage, Again, Ends
  <2> HIDE DEF ended, again
  <2> QED
    BY <1>6, <2>1, PageFields DEF IsPage, Whole, Alike, SameIntent, Undisturbed
<1> HIDE DEF ended, again
<1>8. WakesOn(u, ended, s) /\ WakesOn(u, again, s)
  BY <1>6, <1>7, SteadyWakes
<1>9. ASSUME early
      PROVE  Undisturbed(again) /\ WakeFits(u, s) => Tended(again, s)
  <2> SUFFICES ASSUME Undisturbed(again), WakeFits(u, s)
               PROVE  Tended(again, s)
    OBVIOUS
  <2>1. u.latest.final <=> again.latest.final
    BY <1>7 DEF WakeFits, IntentFits, Described, Alike, SameIntent
  <2>2. (u.latest.final <=> w.latest.final) /\ (u.latest.ready => w.latest.ready) /\ w.mic = u.mic
    BY DEF WakeFits, IntentFits, Described, Alike, SameIntent
  <2>3. u.latest.final => u.latest.ready /\ u.mic \in {"off", "starting"}
    BY DEF WakeFits, IntentFits
  <2>4. again.mic = u.mic
    BY <1>7 DEF Alike
  <2> QED
    BY <1>9, <2>1, <2>2, <2>3, <2>4 DEF Tended
<1>10. ASSUME meant
       PROVE  /\ WakesOn(u, TryPresent(reused), s)
              /\ Undisturbed(TryPresent(reused)) /\ WakeFits(u, s) =>
                   Tended(TryPresent(reused), s)
  <2>1. /\ IsPage(reused) /\ reused.compiles = ended.compiles /\ reused.job = ended.job
        /\ reused.seen = ended.seen /\ reused.submitting = ended.submitting
        /\ reused.overlapped = ended.overlapped /\ reused.raced = ended.raced
        /\ reused.latest = ended.latest /\ reused.epoch = ended.epoch
        /\ reused.story = ended.story /\ reused.mic = ended.mic
        /\ reused.partial = ended.partial /\ reused.present = ended.present
        /\ reused.known = ended.known
        /\ reused.completed = [ended.completed EXCEPT !.key = c.text]
    BY <1>6, PageFields DEF IsPage, Whole
  <2> HIDE DEF reused
  <2>3. WakesOn(u, reused, s)
    <3> SUFFICES ASSUME Undisturbed(reused), WakeFits(u, s)
                 PROVE  WakeFits(reused, s) /\ (TakenIn(u, s) => TakenIn(reused, s))
      BY <1>8, <2>1 DEF WakesOn, Undisturbed
    <3>1. WakeFits(ended, s) /\ (TakenIn(u, s) => TakenIn(ended, s))
      BY <1>8, <2>1 DEF WakesOn, Undisturbed
    <3>2. ended.completed = u.completed /\ w.completed = u.completed
          /\ ended.completed.job # NoJob /\ c.text = ended.latest.text
      BY <1>6, <1>10 DEF Alike, SameIntent, WakeFits
    <3>3. /\ DOMAIN ended.completed = {"job", "key", "source", "meaning", "shown", "tried"}
          /\ ended.completed.meaning # None
      BY <1>10, <1>3, <3>1, <3>2 DEF WakeFits, SceneFits, WorkbenchAssumption
    <3>4. /\ DOMAIN reused.completed = DOMAIN ended.completed
          /\ reused.completed.job = ended.completed.job
          /\ reused.completed.source = ended.completed.source
          /\ reused.completed.meaning = ended.completed.meaning
          /\ reused.completed.tried = ended.completed.tried
          /\ reused.completed.key = c.text
      BY <2>1, <3>3
    <3>5. SceneFits(reused)
      BY <2>1, <3>1, <3>2, <3>3, <3>4 DEF WakeFits, SceneFits, Publishing, Described
    <3>6. IntentFits(reused) /\ CallsWake(reused) /\ AnswerComesLate(reused)
      BY <2>1, <3>1 DEF WakeFits, IntentFits, Described, CallsWake, Describing, AnswerComesLate
    <3>7. BehindFits(reused, s) /\ (TakenIn(ended, s) => TakenIn(reused, s))
      BY <2>1, <3>1, <3>4 DEF WakeFits, BehindFits, TakenIn
    <3> QED
      BY <3>1, <3>5, <3>6, <3>7 DEF WakeFits
  <2>4. WakesOn(reused, TryPresent(reused), s)
    BY <2>1, TryPresentWakes
  <2>5. ASSUME Undisturbed(TryPresent(reused)), WakeFits(u, s)
        PROVE  Tended(TryPresent(reused), s)
    <3>1. WakeFits(u, s) /\ WakeFits(reused, s)
      BY <2>3, <2>4, <2>5 DEF WakesOn
    <3>2. u.completed = ended.completed /\ u.completed = w.completed
          /\ u.latest.text = ended.latest.text
      BY <1>6, <2>5 DEF Alike, SameIntent, WakeFits
    <3>3. DOMAIN ended.completed = {"job", "key", "source", "meaning", "shown", "tried"}
      BY <1>10, <3>1, <3>2 DEF WakeFits, SceneFits
    <3>4. reused.completed.job # NoJob /\ reused.completed.key = reused.latest.text
      BY <1>10, <2>1, <3>2, <3>3
    <3> QED
      BY <2>1, <3>1, <3>4, TryPresentTends
  <2> QED
    BY <2>3, <2>4, <2>5, WakesThen
<1>11. /\ WakesOn(u, goes, s)
       /\ Undisturbed(goes) /\ WakeFits(u, s) => Tended(goes, s)
  <2>1. /\ to.phase = "prior" /\ DOMAIN to = DOMAIN c /\ to.automatic = TRUE
        /\ to.text = c.text
    OBVIOUS
  <2> HIDE DEF to
  <2>2. /\ IsPage(moved) /\ Alike(u, moved) /\ moved.compiles = (u.compiles \ {c}) \cup {to}
        /\ moved.overlapped = told.overlapped /\ moved.raced = told.raced
    BY <1>5, PageFields DEF IsPage, Whole, Alike, SameIntent, Undisturbed, Moves
  <2> HIDE DEF moved
  <2>3. /\ IsPage(goes) /\ Alike(u, goes) /\ goes.compiles = moved.compiles
        /\ goes.job = NoJob /\ goes.seen = Empty(0)
        /\ goes.overlapped = moved.overlapped /\ goes.raced = moved.raced
    <3>1. /\ Keeps(moved, goes) /\ goes.compiles = moved.compiles
          /\ goes.job = NoJob /\ goes.seen = Empty(0)
      BY <2>2, PageFields DEF IsPage, Whole, Keeps
    <3> HIDE DEF goes
    <3>2. Alike(u, goes)
      BY <2>2, <3>1, KeepsAlike
    <3> QED
      BY <2>2, <3>1, <3>2 DEF Keeps
  <2> HIDE DEF goes
  <2>4. ASSUME Undisturbed(goes), WakeFits(u, s)
        PROVE  WakeFits(goes, s) /\ (TakenIn(u, s) => TakenIn(goes, s))
    <3>1. IntentFits(goes) /\ SceneFits(goes)
      BY <2>3, <2>4, AlikeFits DEF WakeFits
    <3>2. \A d \in goes.compiles : d = to \/ d.phase = "waiting"
      BY <1>5, <2>2, <2>3, <2>4 DEF Alone, Undisturbed
    <3>3. CallsWake(goes) /\ AnswerComesLate(goes)
      BY <1>3, <2>1, <2>2, <2>3, <2>4, <3>2 DEF CallsWake, Describing, AnswerComesLate
    <3>4. BehindFits(goes, s) /\ (TakenIn(u, s) => TakenIn(goes, s))
      BY <2>3, <2>4 DEF WakeFits, BehindFits, TakenIn, Alike
    <3> QED
      BY <3>1, <3>3, <3>4 DEF WakeFits
  <2>5. Undisturbed(goes) => Undisturbed(u)
    BY <2>3 DEF Alike
  <2>6. Tended(goes, s)
    BY <2>2, <2>3 DEF Tended
  <2> QED
    BY <2>4, <2>5, <2>6 DEF WakesOn
<1> QED
  BY <1>1, <1>8, <1>9, <1>10, <1>11

\* A call begins with what is described.
LEMMA CompileWakes ==
  ASSUME NEW w, NEW s, WorkbenchAssumption, IsPage(w), Described(w)
  PROVE  LET v == Compile(w, w.latest.text, TRUE)
         IN /\ WakesOn(w, v, s)
            /\ Undisturbed(v) /\ WakeFits(w, s) => Tended(v, s)
<1> DEFINE text == w.latest.text
           c == [phase |-> "check", text |-> text, automatic |-> TRUE, epoch |-> w.epoch]
           overlap == \E d \in w.compiles : d.phase # "waiting"
           left == \E d \in w.compiles : d.phase \in {"check", "prior"} /\ d.epoch # w.epoch
           begun == [w EXCEPT !.submitting = TRUE, !.overlapped = @ \/ overlap,
                              !.leftOver = @ \/ left]
           checks == Moves(begun, c, c)
           v == Compile(w, w.latest.text, TRUE)
<1>1. \/ v = w /\ w.latest.refused
      \/ v = AfterCheck(begun, c)
      \/ v = checks
  BY DEF Compile
<1>2. /\ Whole(c) /\ c.phase = "check" /\ c.automatic = TRUE /\ c.text = w.latest.text
      /\ DOMAIN c = {"phase", "text", "automatic", "epoch"}
  BY DEF Whole
<1> HIDE DEF c
<1>3. /\ IsPage(begun) /\ begun.compiles = w.compiles /\ begun.job = w.job
      /\ begun.seen = w.seen /\ begun.overlapped = (w.overlapped \/ overlap)
      /\ begun.raced = w.raced /\ Alike(w, begun)
  BY PageFields DEF IsPage, Whole, Alike, SameIntent, Undisturbed
<1> HIDE DEF begun
<1>4. Alone(begun, c)
  BY <1>3 DEF Alone
<1>5. LET x == AfterCheck(begun, c)
      IN /\ WakesOn(w, x, s)
         /\ Undisturbed(x) /\ WakeFits(w, s) => Tended(x, s)
  BY <1>2, <1>3, <1>4, AfterCheckWakes
<1>6. /\ WakesOn(w, checks, s)
      /\ Tended(checks, s)
  <2>1. /\ IsPage(checks) /\ Alike(w, checks) /\ checks.job = w.job /\ checks.seen = w.seen
        /\ checks.compiles = (w.compiles \ {c}) \cup {c}
    BY <1>3, PageFields DEF IsPage, Whole, Alike, SameIntent, Undisturbed, Moves
  <2> HIDE DEF checks
  <2>2. WakeFits(w, s) => NoAnswer(c)
    BY <1>2 DEF NoAnswer, WakeFits, IntentFits, Described
  <2>3. WakesOn(w, checks, s)
    BY <2>1, <2>2, SteadyWakes
  <2> QED
    BY <2>1, <2>3 DEF Tended
<1>7. w.latest.refused => Tended(w, s)
  BY DEF Tended, Settled
<1> QED
  BY <1>1, <1>5, <1>6, <1>7, WakesAtRest

LEMMA PumpWakes ==
  ASSUME NEW w, NEW s, WorkbenchAssumption, IsPage(w)
  PROVE  /\ WakesOn(w, Pump(w), s)
         /\ Undisturbed(Pump(w)) /\ WakeFits(w, s) => Tended(Pump(w), s)
<1> DEFINE checks == [w EXCEPT !.checking = [text |-> w.latest.text, epoch |-> w.epoch]]
           notes == [w EXCEPT !.attempted = @ \cup {w.latest.text}]
           left == \/ w.mic \in {"stopping", "starting"} \/ Submitting(w) \/ Publishing(w)
                   \/ ~Described(w) \/ w.checking # NoIntent
           kept == w.completed.job # NoJob /\ w.completed.key = w.latest.text
<1>1. \/ Pump(w) = w /\ left
      \/ Pump(w) \in {w, checks} /\ w.job # NoJob
      \/ Pump(w) = TryPresent(w) /\ kept
      \/ Pump(w) = w /\ ~kept /\ w.latest.text \in w.attempted
      \/ Pump(w) = Compile(notes, w.latest.text, TRUE) /\ Described(w)
  BY DEF Pump, Described
<1>2. /\ Keeps(w, checks) /\ checks.compiles = w.compiles /\ checks.job = w.job
      /\ checks.seen = w.seen /\ checks.submitting = w.submitting
      /\ Keeps(w, notes) /\ notes.compiles = w.compiles /\ notes.job = w.job
      /\ notes.seen = w.seen /\ notes.submitting = w.submitting
  BY PageFields DEF IsPage, Whole, Keeps
<1> HIDE DEF checks, notes
<1>3. Alike(w, checks) /\ Alike(w, notes)
  BY <1>2, KeepsAlike
<1>4. WakesOn(w, checks, s) /\ WakesOn(w, notes, s)
  BY <1>2, <1>3, AlikeWakes
<1>5. left /\ WakeFits(w, s) => Tended(w, s)
  BY DEF Tended, Settled, Submitting, WakeFits, CallsWake
<1>6. w.job # NoJob => Tended(w, s) /\ Tended(checks, s)
  BY <1>2 DEF Tended
<1>7. ~kept /\ w.latest.text \in w.attempted => Tended(w, s)
  BY DEF Tended, Settled
<1>8. kept /\ WakeFits(w, s) => Tended(TryPresent(w), s)
  BY TryPresentTends
<1>9. WakesOn(w, TryPresent(w), s)
  BY TryPresentWakes
<1>10. ASSUME Described(w)
       PROVE  LET v == Compile(notes, w.latest.text, TRUE)
              IN /\ WakesOn(w, v, s)
                 /\ Undisturbed(v) /\ WakeFits(w, s) => Tended(v, s)
  <2>1. IsPage(notes) /\ Described(notes) /\ notes.latest = w.latest
    BY <1>2, <1>10 DEF Keeps, Described
  <2>2. LET v == Compile(notes, w.latest.text, TRUE)
        IN /\ WakesOn(notes, v, s)
           /\ Undisturbed(v) /\ WakeFits(notes, s) => Tended(v, s)
    BY <2>1, CompileWakes
  <2> DEFINE v == Compile(notes, w.latest.text, TRUE)
  <2>3. WakesOn(notes, v, s) /\ (Undisturbed(v) /\ WakeFits(notes, s) => Tended(v, s))
    BY <2>2
  <2> HIDE DEF v
  <2>4. WakesOn(w, v, s)
    BY <1>4, <2>3, WakesThen
  <2>5. Undisturbed(v) /\ WakeFits(w, s) => Tended(v, s)
    BY <1>4, <2>3 DEF WakesOn
  <2> QED
    BY <2>4, <2>5 DEF v
<1> QED
  BY <1>1, <1>4, <1>5, <1>6, <1>7, <1>8, <1>9, <1>10, WakesAtRest

\* The same without what it has taken in, which a pointer may undo that is not the last.
FitsOn(w, v, s) ==
  Undisturbed(v) => Undisturbed(w) /\ (WakeFits(w, s) => WakeFits(v, s))

\* What a pointer says of the session's current job is so.
Tells(p, s) ==
  /\ PointerFits(p, s) /\ StageFits(p) /\ p.rev # 0
  /\ JobOf(p) = JobOf(s) /\ Over(p) => p.stage = s.stage /\ p.text = s.text

\* The page is at the job of the pointer, or was showing its scene.
Meets(w, p) ==
  \/ w.known = JobOf(p)
  \/ w.job = NoJob /\ w.present.phase = "shown" /\ w.present.job = JobOf(p)

\* The job that ended is followed no more, and its scene is kept.
LEMMA EndedWakes ==
  ASSUME NEW u, NEW v, NEW p, NEW s, IsPage(u), IsPage(v), IsSession(s),
         Tells(p, s), Over(p), WakeFits(u, s) => Meets(u, p), u.job \in {NoJob, JobOf(p)},
         v.latest = u.latest, v.epoch = u.epoch, v.story = u.story, v.mic = u.mic,
         v.partial = u.partial, v.present = u.present, v.known = u.known,
         v.submitting = u.submitting, v.compiles = u.compiles,
         v.overlapped = u.overlapped, v.job = NoJob, v.seen = p,
         ~v.raced => ~u.raced /\ (~Publishing(u) \/ u.completed.job = JobOf(p)),
         v.completed =
            IF p.stage = "failed" THEN u.completed
            ELSE IF u.completed.job = JobOf(p) THEN [u.completed EXCEPT !.shown = p.shown]
            ELSE [job |-> JobOf(p), key |-> p.text, source |-> p.text,
                  meaning |-> IF u.active = p.text THEN Meaning[p.text] ELSE None,
                  shown |-> p.shown, tried |-> FALSE]
  PROVE  /\ FitsOn(u, v, s)
         /\ Undisturbed(v) /\ WakeFits(u, s) => WakeFits(v, s) /\ v.job = NoJob
<1> SUFFICES ASSUME Undisturbed(v), WakeFits(u, s)
             PROVE  WakeFits(v, s)
  BY DEF FitsOn, Undisturbed
<1>1. /\ JobOf(p) \in Nat \X Nat /\ JobOf(p) # NoJob /\ p.rev # 0
      /\ JobOf(s) = <<s.instance, s.rev>> /\ JobOf(p) = <<p.instance, p.rev>>
  BY DEF Tells, PointerFits, IsSession, JobOf, NoJob
<1>2. IntentFits(v) /\ CallsWake(v)
  BY DEF WakeFits, IntentFits, Described, CallsWake, Describing
<1>3. ~Publishing(u) \/ u.completed.job = JobOf(p)
  BY DEF Undisturbed
<1>4. u.known = JobOf(p) \/ u.completed.job = JobOf(p)
  BY <1>1 DEF Meets, WakeFits, SceneFits, Publishing, Idle
<1>5. Before(JobOf(p), u.known)
  <2>1. u.known = JobOf(p) => Before(JobOf(p), u.known)
    BY <1>1 DEF Before
  <2> QED
    BY <1>1, <1>4, <2>1 DEF WakeFits, SceneFits
<1> DEFINE kept == [u.completed EXCEPT !.shown = p.shown]
           made == [job |-> JobOf(p), key |-> p.text, source |-> p.text,
                    meaning |-> IF u.active = p.text THEN Meaning[p.text] ELSE None,
                    shown |-> p.shown, tried |-> FALSE]
<1>6. u.completed.job = JobOf(p) =>
        /\ DOMAIN u.completed = {"job", "key", "source", "meaning", "shown", "tried"}
        /\ DOMAIN kept = DOMAIN u.completed /\ kept.job = u.completed.job
        /\ kept.key = u.completed.key /\ kept.source = u.completed.source
        /\ kept.meaning = u.completed.meaning /\ kept.tried = u.completed.tried
  BY <1>1 DEF WakeFits, SceneFits
<1>7. /\ DOMAIN made = {"job", "key", "source", "meaning", "shown", "tried"}
      /\ made.job = JobOf(p) /\ made.key = made.source /\ made.source = p.text
  OBVIOUS
<1>8. v.completed = u.completed \/ (u.completed.job = JobOf(p) /\ v.completed = kept)
      \/ (u.completed.job # JobOf(p) /\ p.stage # "failed" /\ v.completed = made)
  OBVIOUS
<1> HIDE DEF kept, made
<1>9. SceneFits(v)
  <2>1. CASE v.completed = u.completed
    BY <2>1 DEF WakeFits, SceneFits, Publishing, Described
  <2>2. CASE u.completed.job = JobOf(p) /\ v.completed = kept
    BY <1>1, <1>6, <2>2 DEF WakeFits, SceneFits, Publishing, Described
  <2>3. CASE u.completed.job # JobOf(p) /\ v.completed = made
    BY <1>1, <1>3, <1>5, <1>7, <2>3 DEF SceneFits, Publishing
  <2> QED
    BY <1>8, <2>1, <2>2, <2>3
<1>10. AnswerComesLate(v)
  <2> SUFFICES ASSUME NEW c \in v.compiles, c.phase = "accepted", v.known = Submitted(c),
                      v.job # v.known
               PROVE  /\ JobOf(v.seen) = v.known /\ Over(v.seen)
                      /\ v.present.phase = "shown" => v.present.job = v.known
    BY DEF AnswerComesLate
  <2>1. JobOf(p) = v.known
    BY DEF Meets, WakeFits, AnswerComesLate
  <2>2. v.present.phase = "shown" => v.present.job = JobOf(p)
    BY <1>3 DEF WakeFits, SceneFits, Publishing, Idle
  <2> QED
    BY <2>1, <2>2
<1>11. BehindFits(v, s)
  <2>1. v.completed.job = JobOf(s) => s.stage = "complete" /\ v.completed.source = s.text
    <3>1. CASE v.completed = u.completed
      BY <3>1 DEF WakeFits, BehindFits
    <3>2. CASE u.completed.job = JobOf(p) /\ v.completed = kept
      BY <1>6, <3>2 DEF WakeFits, BehindFits
    <3>3. CASE p.stage # "failed" /\ v.completed = made
      BY <1>7, <3>3 DEF Tells, Over
    <3> QED
      BY <1>8, <3>1, <3>2, <3>3
  <2> QED
    BY <2>1 DEF WakeFits, BehindFits
<1> QED
  BY <1>2, <1>9, <1>10, <1>11 DEF WakeFits

\* Answers name what their requests expected.
AnswersFit(w) == \A c \in w.compiles : c.phase = "accepted" => c.prior \in Nat \X Nat
Followed(w) == (w.job # NoJob => w.known = w.job) /\ AnswersFit(w)

LEMMA RenderWakes ==
  ASSUME NEW w, NEW p, NEW s, WorkbenchAssumption, IsPage(w), IsSession(s), Followed(w),
         Tells(p, s), Over(p) /\ WakeFits(w, s) => Meets(w, p)
  PROVE  LET v == Render(w, p)
         IN /\ WakesOn(w, v, s)
            /\ Undisturbed(v) /\ WakeFits(w, s) =>
                 /\ Tended(w, s) => Tended(v, s)
                 /\ Over(p) /\ JobOf(p) = JobOf(s) /\ w.known = JobOf(s) => TakenIn(v, s)
<1> DEFINE v == Render(w, p)
           rendered == [w EXCEPT !.seen = p]
           completed == IF p.stage = "failed" THEN rendered.completed
                        ELSE IF rendered.completed.job = JobOf(p)
                        THEN [rendered.completed EXCEPT !.shown = p.shown]
                        ELSE [job |-> JobOf(p), key |-> p.text, source |-> p.text,
                              meaning |-> IF rendered.active = p.text THEN Meaning[p.text]
                                          ELSE None,
                              shown |-> p.shown, tried |-> FALSE]
           race == Publishing(rendered) /\ rendered.completed.job # JobOf(p)
           ended == [rendered EXCEPT !.job = NoJob, !.active = None, !.completed = completed,
                                     !.raced = @ \/ race]
           drops == \/ w.job # NoJob /\ JobOf(p) # w.job
                    \/ w.seen = p
                    \/ w.seen.rev # 0 /\ Revision(p) < Revision(w.seen)
<1>1. \/ v = w /\ drops
      \/ v = rendered /\ ~drops /\ ~Over(p)
      \/ v = Pump(ended) /\ ~drops /\ Over(p)
  BY DEF Render, Finish
<1>2. /\ JobOf(p) = <<p.instance, p.rev>> /\ p.rev # 0 /\ p.rev \in Nat
      /\ p.stage = "working" \/ Over(p)
      /\ p.stage = "working" => ~Over(p)
  BY DEF JobOf, Tells, PointerFits, StageFits, Over, IsSession
<1>3. /\ IsPage(rendered) /\ rendered.seen = p /\ rendered.latest = w.latest
      /\ rendered.epoch = w.epoch /\ rendered.story = w.story /\ rendered.mic = w.mic
      /\ rendered.partial = w.partial /\ rendered.present = w.present
      /\ rendered.known = w.known /\ rendered.submitting = w.submitting
      /\ rendered.compiles = w.compiles /\ rendered.overlapped = w.overlapped
      /\ rendered.raced = w.raced /\ rendered.completed = w.completed
      /\ rendered.active = w.active /\ rendered.job = w.job /\ rendered.pending = w.pending
      /\ rendered.attempted = w.attempted /\ rendered.checking = w.checking
  BY PageFields DEF IsPage, Whole
<1> HIDE DEF rendered, completed, race
<1>4. /\ IsPage(ended) /\ ended.seen = p /\ ended.latest = w.latest
      /\ ended.epoch = w.epoch /\ ended.story = w.story /\ ended.mic = w.mic
      /\ ended.partial = w.partial /\ ended.present = w.present
      /\ ended.known = w.known /\ ended.submitting = w.submitting
      /\ ended.compiles = w.compiles /\ ended.overlapped = w.overlapped
      /\ ended.raced = (w.raced \/ race) /\ ended.completed = completed
      /\ ended.job = NoJob
  BY <1>3, PageFields DEF IsPage, Whole
<1> HIDE DEF ended
<1>5. CASE drops /\ v = w
  <2>1. ASSUME Undisturbed(w), WakeFits(w, s), Over(p), JobOf(p) = JobOf(s), w.known = JobOf(s)
        PROVE  TakenIn(w, s)
    <3> SUFFICES ASSUME w.job # NoJob
                 PROVE  FALSE
      BY <2>1 DEF TakenIn
    <3>1. w.job = JobOf(p)
      BY <2>1 DEF Followed
    <3>2. w.seen.rev = 0 \/ w.seen.stage = "working"
      BY <2>1 DEF WakeFits, BehindFits
    <3>3. w.seen # p
      BY <1>2, <2>1, <3>2
    <3>4. Revision(p) \in {1, 2}
      BY <1>2, <2>1 DEF Revision
    <3>5. w.seen.rev # 0 => Revision(w.seen) = 0
      BY <3>2 DEF Revision
    <3> QED
      BY <1>5, <3>1, <3>3, <3>4, <3>5
  <2> QED
    BY <1>5, <2>1, WakesAtRest
<1>6. CASE v = rendered /\ ~drops /\ ~Over(p)
  <2>1. ASSUME Undisturbed(v), WakeFits(w, s)
        PROVE  /\ Undisturbed(w) /\ WakeFits(v, s) /\ (TakenIn(w, s) => TakenIn(v, s))
               /\ Tended(w, s) => Tended(v, s)
    <3>1. Undisturbed(w) /\ (TakenIn(w, s) => TakenIn(v, s))
      BY <1>3, <1>6, <2>1 DEF Undisturbed, TakenIn
    <3>2. IntentFits(v) /\ CallsWake(v) /\ SceneFits(v)
      BY <1>3, <1>6, <2>1 DEF WakeFits, IntentFits, Described, CallsWake, Describing,
         SceneFits, Publishing
    <3>3. AnswerComesLate(v)
      <4> SUFFICES ASSUME NEW c \in w.compiles, c.phase = "accepted",
                          w.known = Submitted(c), w.job # w.known
                   PROVE  FALSE
        BY <1>3, <1>6 DEF AnswerComesLate
      <4>1. JobOf(w.seen) = w.known /\ Over(w.seen)
        BY <2>1 DEF WakeFits, AnswerComesLate
      <4>2. w.seen.rev = c.prior[2] + 1 /\ c.prior[2] \in Nat
        BY <4>1 DEF Followed, AnswersFit, Submitted, JobOf
      <4>3. Revision(w.seen) \in {1, 2} /\ Revision(p) = 0
        BY <1>2, <1>6, <4>1 DEF Revision, Over
      <4> QED
        BY <1>6, <4>2, <4>3
    <3>4. BehindFits(v, s)
      BY <1>2, <1>3, <1>6, <2>1 DEF WakeFits, BehindFits
    <3>5. Tended(w, s) => Tended(v, s)
      BY <1>3, <1>6 DEF Tended, Settled, Described, Publishing
    <3> QED
      BY <3>1, <3>2, <3>3, <3>4, <3>5 DEF WakeFits
  <2>2. Undisturbed(v) => Undisturbed(w)
    BY <1>3, <1>6 DEF Undisturbed
  <2> QED
    BY <1>6, <2>1, <2>2 DEF WakesOn
<1>7. CASE v = Pump(ended) /\ ~drops /\ Over(p)
  <2>1. w.job \in {NoJob, JobOf(p)}
    BY <1>7
  <2>2. ~ended.raced => ~w.raced /\ (~Publishing(w) \/ w.completed.job = JobOf(p))
    BY <1>3, <1>4 DEF race, Publishing
  <2>3. ended.completed =
          IF p.stage = "failed" THEN w.completed
          ELSE IF w.completed.job = JobOf(p) THEN [w.completed EXCEPT !.shown = p.shown]
          ELSE [job |-> JobOf(p), key |-> p.text, source |-> p.text,
                meaning |-> IF w.active = p.text THEN Meaning[p.text] ELSE None,
                shown |-> p.shown, tried |-> FALSE]
    BY <1>3, <1>4 DEF completed
  <2>4. /\ FitsOn(w, ended, s)
        /\ Undisturbed(ended) /\ WakeFits(w, s) => WakeFits(ended, s)
    BY <1>4, <1>7, <2>1, <2>2, <2>3, EndedWakes
  <2>5. /\ WakesOn(ended, Pump(ended), s)
        /\ Undisturbed(Pump(ended)) /\ WakeFits(ended, s) => Tended(Pump(ended), s)
    BY <1>4, PumpWakes
  <2>6. WakesOn(w, ended, s)
    BY <1>4, <2>4 DEF WakesOn, FitsOn, TakenIn
  <2>7. w.known = JobOf(s) => TakenIn(ended, s)
    BY <1>4 DEF TakenIn
  <2>8. WakesOn(w, v, s)
    BY <1>7, <2>5, <2>6, WakesThen
  <2> QED
    BY <1>7, <2>4, <2>5, <2>7, <2>8 DEF WakesOn
<1> QED
  BY <1>1, <1>5, <1>6, <1>7

\* A pointer arrives.
LEMMA HandleWakes ==
  ASSUME NEW w, NEW p, NEW s, WorkbenchAssumption, IsPage(w), IsSession(s), Followed(w),
         w.known \in Nat \X Nat, PointerFits(p, s), StageFits(p),
         p.rev # 0 => Tells(p, s)
  PROVE  LET v == Handle(w, p)
         IN /\ FitsOn(w, v, s)
            /\ Undisturbed(v) /\ WakeFits(w, s) =>
                 /\ Tended(w, s) => Tended(v, s)
                 /\ p.rev # 0 /\ JobOf(p) = JobOf(s) /\ (Over(s) => Over(p)) => TakenIn(v, s)
                 /\ (\E c \in w.compiles : c.phase = "accepted" /\ Submitted(c) = JobOf(p))
                    /\ p.stage = "working" /\ p.rev # 0 /\ TakenIn(w, s) => TakenIn(v, s)
<1> DEFINE v == Handle(w, p)
           moved == w.known[1] \notin {0, p.instance}
           here == IF moved THEN Forgotten(w) ELSE w
           heard == IF w.job # NoJob THEN w.job ELSE JobOf(w.seen)
           told == [here EXCEPT !.known[1] = p.instance]
           tracks == [here EXCEPT !.known = JobOf(p), !.job = JobOf(p), !.seen = Empty(0)]
           Fine(u) == /\ FitsOn(w, u, s)
                      /\ Undisturbed(u) /\ WakeFits(w, s) /\ Tended(w, s) => Tended(u, s)
           Last == p.rev # 0 /\ JobOf(p) = JobOf(s) /\ (Over(s) => Over(p))
           Late == /\ \E c \in w.compiles : c.phase = "accepted" /\ Submitted(c) = JobOf(p)
                   /\ p.stage = "working" /\ p.rev # 0 /\ TakenIn(w, s)
<1>1. \/ p.rev = 0 /\ v = told
      \/ p.rev # 0 /\ JobOf(p) = heard /\ w.known = JobOf(p) /\ v = Render(w, p)
      \/ /\ p.rev # 0 /\ ~(JobOf(p) = heard /\ w.known = JobOf(p))
         /\ p.rev < here.known[2] /\ v = here
      \/ /\ p.rev # 0 /\ ~(JobOf(p) = heard /\ w.known = JobOf(p))
         /\ ~(p.rev < here.known[2]) /\ v = Render(tracks, p)
  BY DEF Handle
<1>2. /\ p.instance = s.instance /\ p.instance \in Nat \ {0}
      /\ s.rev \in Nat /\ p.rev \in Nat /\ p.rev <= s.rev
      /\ JobOf(p) = <<p.instance, p.rev>> /\ JobOf(s) = <<s.instance, s.rev>>
      /\ NoJob = <<0, 0>> /\ JobOf(p) # NoJob
  BY DEF PointerFits, IsSession, JobOf, NoJob
<1>3. /\ w.known = <<w.known[1], w.known[2]>> /\ w.known[1] \in Nat /\ w.known[2] \in Nat
  OBVIOUS
<1>4. /\ IsPage(here) /\ here.latest = w.latest /\ here.epoch = w.epoch /\ here.story = w.story
      /\ here.mic = w.mic /\ here.partial = w.partial /\ here.present = w.present
      /\ here.submitting = w.submitting /\ here.compiles = w.compiles
      /\ here.overlapped = w.overlapped /\ here.raced = w.raced
      /\ here.completed = w.completed /\ here.pending = w.pending
      /\ here.attempted = w.attempted /\ here.checking = w.checking
      /\ moved => here.job = NoJob /\ here.seen = Empty(0) /\ here.known = <<w.known[1], 0>>
      /\ ~moved => here = w
  <2>1. [w.known EXCEPT ![2] = 0] = <<w.known[1], 0>>
    BY <1>3
  <2> QED
    BY <2>1, PageFields DEF IsPage, Whole, Forgotten
<1> HIDE DEF here
<1>5. WakeFits(w, s) =>
        /\ moved => w.known[1] < p.instance
        /\ ~moved => w.known = NoJob \/ w.known[1] = p.instance
        /\ Before(w.known, JobOf(s))
  BY <1>2, <1>3 DEF WakeFits, BehindFits, Before
<1>6. ASSUME p.rev = 0
      PROVE  Fine(told)
  <2>1. /\ told.latest = w.latest /\ told.epoch = w.epoch /\ told.story = w.story
        /\ told.mic = w.mic /\ told.partial = w.partial /\ told.present = w.present
        /\ told.submitting = w.submitting /\ told.compiles = w.compiles
        /\ told.overlapped = w.overlapped /\ told.raced = w.raced
        /\ told.completed = w.completed /\ told.pending = w.pending
        /\ told.attempted = w.attempted /\ told.checking = w.checking
        /\ told.job = here.job /\ told.seen = here.seen
        /\ told.known = [here.known EXCEPT ![1] = p.instance]
    BY <1>4, PageFields DEF IsPage, Whole
  <2>2. here.known = <<here.known[1], here.known[2]>> /\ here.known[2] \in Nat
    BY <1>3, <1>4
  <2>3. told.known = <<p.instance, here.known[2]>>
    BY <2>1, <2>2
  <2> HIDE DEF told
  <2>4. ASSUME WakeFits(w, s)
        PROVE  \/ told.known = w.known /\ here = w
               \/ told.known = <<p.instance, 0>> /\ w.known[1] < p.instance
    <3>1. CASE moved
      <4>1. here.known = <<w.known[1], 0>>
        BY <1>4, <3>1
      <4>2. here.known[2] = 0
        BY <4>1
      <4> QED
        BY <1>5, <2>3, <2>4, <3>1, <4>2
    <3>2. CASE ~moved
      <4>1. here = w /\ told.known = <<p.instance, w.known[2]>>
        BY <1>4, <2>3, <3>2
      <4>2. w.known = NoJob => w.known[1] = 0 /\ w.known[2] = 0
        BY <1>2
      <4>5. w.known = NoJob => told.known = <<p.instance, 0>> /\ w.known[1] < p.instance
        BY <1>2, <4>1, <4>2
      <4>6. w.known = NoJob \/ w.known[1] = p.instance
        BY <1>5, <2>4, <3>2
      <4>3. w.known[1] = p.instance => told.known = w.known
        BY <1>3, <4>1
      <4> QED
        BY <4>1, <4>3, <4>5, <4>6
    <3> QED
      BY <3>1, <3>2
  <2>5. ASSUME WakeFits(w, s)
        PROVE  WakeFits(told, s)
    <3>1. IntentFits(told) /\ CallsWake(told)
      BY <2>1, <2>5 DEF WakeFits, IntentFits, Described, CallsWake, Describing
    <3>2. ASSUME w.completed.job # NoJob
          PROVE  Before(w.completed.job, told.known)
      <4>1. w.completed.job \in Nat \X Nat /\ Before(w.completed.job, w.known)
        BY <2>5, <3>2 DEF WakeFits, SceneFits
      <4> QED
        BY <1>2, <1>3, <2>4, <2>5, <4>1 DEF Before
    <3>3. SceneFits(told)
      BY <2>1, <2>5, <3>2 DEF WakeFits, SceneFits, Publishing, Described
    <3>4. AnswerComesLate(told)
      <4>1. \A c \in w.compiles : c.phase = "accepted" => Submitted(c) # <<p.instance, 0>>
        BY <1>2 DEF Followed, AnswersFit, Submitted
      <4>2. here = w => AnswerComesLate(w)
        BY <2>5 DEF WakeFits
      <4>3. CASE told.known = <<p.instance, 0>>
        BY <2>1, <4>1, <4>3 DEF AnswerComesLate
      <4>4. CASE told.known = w.known /\ here = w
        BY <2>1, <4>2, <4>4 DEF AnswerComesLate
      <4> QED
        BY <2>4, <2>5, <4>3, <4>4
    <3>5. BehindFits(told, s)
      <4>1. Before(told.known, JobOf(s)) /\ (told.known[1] # 0)
        BY <1>2, <1>3, <1>5, <2>3, <2>4, <2>5 DEF Before
      <4>2. told.job # NoJob => told.seen = w.seen /\ w.job # NoJob
        BY <1>4, <2>1
      <4> QED
        BY <2>1, <2>5, <4>1, <4>2 DEF WakeFits, BehindFits
    <3> QED
      BY <3>1, <3>3, <3>4, <3>5 DEF WakeFits
  <2>6. ASSUME WakeFits(w, s), Tended(w, s)
        PROVE  Tended(told, s)
    <3>1. CASE told.known = <<p.instance, 0>>
      BY <1>2, <3>1 DEF Tended
    <3>2. CASE told.known = w.known /\ here = w
      BY <2>1, <2>6, <3>2 DEF Tended, Settled, Described, Publishing
    <3> QED
      BY <2>4, <2>6, <3>1, <3>2
  <2> QED
    BY <2>1, <2>5, <2>6 DEF FitsOn, Undisturbed
<1>7. ASSUME p.rev # 0, w.known = JobOf(p)
      PROVE  LET x == Render(w, p)
             IN /\ Fine(x)
                /\ Undisturbed(x) /\ WakeFits(w, s) =>
                     (Last => TakenIn(x, s)) /\ (Late => TakenIn(x, s))
  <2> DEFINE x == Render(w, p)
  <2>1. Meets(w, p) /\ Tells(p, s)
    BY <1>7 DEF Meets
  <2>2. /\ WakesOn(w, x, s)
        /\ Undisturbed(x) /\ WakeFits(w, s) =>
             /\ Tended(w, s) => Tended(x, s)
             /\ Over(p) /\ JobOf(p) = JobOf(s) /\ w.known = JobOf(s) => TakenIn(x, s)
    BY <2>1, RenderWakes
  <2> HIDE DEF x
  <2>3. Last /\ ~Over(s) /\ Undisturbed(x) /\ WakeFits(w, s) => TakenIn(x, s)
    BY <1>7, <2>2 DEF WakesOn, TakenIn
  <2>4. Last /\ Over(s) /\ Undisturbed(x) /\ WakeFits(w, s) => TakenIn(x, s)
    BY <1>7, <2>2
  <2>5. Late /\ Undisturbed(x) /\ WakeFits(w, s) => TakenIn(x, s)
    BY <2>2 DEF WakesOn
  <2>6. Fine(x)
    BY <2>2 DEF WakesOn, FitsOn
  <2> QED
    BY <2>3, <2>4, <2>5, <2>6 DEF x
<1>8. ASSUME p.rev # 0, p.rev < here.known[2]
      PROVE  here = w /\ (WakeFits(w, s) => ~Last)
  <2>1. here = w
    BY <1>2, <1>4, <1>8
  <2>2. WakeFits(w, s) => JobOf(p) # JobOf(s)
    BY <1>2, <1>3, <1>4, <1>5, <1>8, <2>1 DEF Before
  <2> QED
    BY <2>1, <2>2
<1>9. ASSUME p.rev # 0, ~(p.rev < here.known[2])
      PROVE  LET x == Render(tracks, p)
             IN /\ Fine(x)
                /\ Undisturbed(x) /\ WakeFits(w, s) => (Last => TakenIn(x, s))
                /\ Undisturbed(x) /\ WakeFits(w, s) /\ Late /\ ~Over(s) => TakenIn(x, s)
  <2> DEFINE x == Render(tracks, p)
  <2>1. /\ IsPage(tracks) /\ tracks.latest = w.latest /\ tracks.epoch = w.epoch
        /\ tracks.story = w.story /\ tracks.mic = w.mic /\ tracks.partial = w.partial
        /\ tracks.present = w.present /\ tracks.submitting = w.submitting
        /\ tracks.compiles = w.compiles /\ tracks.overlapped = w.overlapped
        /\ tracks.raced = w.raced /\ tracks.completed = w.completed
        /\ tracks.known = JobOf(p) /\ tracks.job = JobOf(p) /\ tracks.seen = Empty(0)
    BY <1>4, PageFields DEF IsPage, Whole
  <2> HIDE DEF tracks
  <2>2. Meets(tracks, p) /\ Tells(p, s) /\ Followed(tracks)
    BY <1>9, <2>1 DEF Meets, Followed, AnswersFit
  <2>3. /\ WakesOn(tracks, x, s)
        /\ Undisturbed(x) /\ WakeFits(tracks, s) =>
             /\ Tended(tracks, s) => Tended(x, s)
             /\ Over(p) /\ JobOf(p) = JobOf(s) /\ tracks.known = JobOf(s) => TakenIn(x, s)
    BY <2>1, <2>2, RenderWakes
  <2> HIDE DEF x
  <2>4. ASSUME WakeFits(w, s)
        PROVE  WakeFits(tracks, s)
    <3>1. IntentFits(tracks) /\ CallsWake(tracks)
      BY <2>1, <2>4 DEF WakeFits, IntentFits, Described, CallsWake, Describing
    <3>2. ASSUME w.completed.job # NoJob
          PROVE  Before(w.completed.job, tracks.known)
      <4>1. w.completed.job \in Nat \X Nat /\ Before(w.completed.job, w.known)
        BY <2>4, <3>2 DEF WakeFits, SceneFits
      <4>2. w.known[1] < p.instance \/ (w.known[1] = p.instance /\ w.known[2] <= p.rev)
        BY <1>2, <1>3, <1>4, <1>5, <1>9, <2>4
      <4> QED
        BY <1>2, <1>3, <2>1, <4>1, <4>2 DEF Before
    <3>3. SceneFits(tracks)
      BY <2>1, <2>4, <3>2 DEF WakeFits, SceneFits, Publishing, Described
    <3>4. AnswerComesLate(tracks)
      BY <2>1 DEF AnswerComesLate
    <3>5. Empty(0).rev = 0
      BY DEF Empty
    <3>6. BehindFits(tracks, s)
      <4>1. Before(tracks.known, JobOf(s)) /\ tracks.known[1] # 0
        BY <1>2, <2>1 DEF Before
      <4> QED
        BY <2>1, <2>4, <3>5, <4>1 DEF WakeFits, BehindFits
    <3> QED
      BY <3>1, <3>3, <3>4, <3>6 DEF WakeFits
  <2>5. Tended(tracks, s)
    BY <1>2, <2>1 DEF Tended
  <2>6. Fine(x)
    BY <2>1, <2>3, <2>4, <2>5 DEF FitsOn, WakesOn, Undisturbed
  <2>7. Last /\ Over(s) /\ Undisturbed(x) /\ WakeFits(w, s) => TakenIn(x, s)
    BY <2>1, <2>3, <2>4
  <2>8. JobOf(p) = JobOf(s) /\ ~Over(s) /\ Undisturbed(x) /\ WakeFits(w, s) => TakenIn(x, s)
    BY <2>1, <2>3, <2>4 DEF TakenIn, WakesOn
  <2>9. ASSUME Late, WakeFits(w, s)
        PROVE  JobOf(p) = JobOf(s)
    <3>1. w.known = JobOf(s)
      BY <2>9 DEF TakenIn
    <3>2. here = w
      BY <1>2, <1>4, <3>1
    <3> QED
      BY <1>2, <1>9, <3>1, <3>2
  <2> QED
    BY <2>6, <2>7, <2>8, <2>9 DEF x
<1>10. ASSUME p.rev # 0, ~(JobOf(p) = heard /\ w.known = JobOf(p)), ~(p.rev < here.known[2]),
              WakeFits(w, s), Late
       PROVE  ~Over(s)
  <2> SUFFICES ASSUME Over(s)
               PROVE  FALSE
    OBVIOUS
  <2>1. w.known = JobOf(s) /\ w.job = NoJob
    BY <1>10 DEF TakenIn
  <2>2. here = w
    BY <1>2, <1>4, <2>1
  <2>3. JobOf(p) = JobOf(s)
    BY <1>2, <1>10, <2>1, <2>2
  <2>4. PICK c \in w.compiles : c.phase = "accepted" /\ Submitted(c) = JobOf(p)
    BY <1>10
  <2>5. JobOf(w.seen) = w.known
    BY <1>2, <1>10, <2>1, <2>3, <2>4 DEF WakeFits, AnswerComesLate
  <2> QED
    BY <1>10, <2>1, <2>3, <2>5
<1>11. Fine(w)
  BY DEF FitsOn
<1>12. CASE p.rev = 0 /\ v = told
  BY <1>6, <1>12
<1>13. CASE p.rev # 0 /\ JobOf(p) = heard /\ w.known = JobOf(p) /\ v = Render(w, p)
  BY <1>7, <1>13
<1>14. CASE /\ p.rev # 0 /\ ~(JobOf(p) = heard /\ w.known = JobOf(p))
            /\ p.rev < here.known[2] /\ v = here
  BY <1>8, <1>11, <1>14
<1>15. CASE /\ p.rev # 0 /\ ~(JobOf(p) = heard /\ w.known = JobOf(p))
            /\ ~(p.rev < here.known[2]) /\ v = Render(tracks, p)
  BY <1>9, <1>10, <1>15
<1> QED
  BY <1>1, <1>12, <1>13, <1>14, <1>15

\* The description, the recording or the text field is changed; a scene that is being
\* shown remains one of what is described.
LEMMA IntentWakes ==
  ASSUME NEW w, NEW v, NEW s, IsPage(v),
         v.compiles = w.compiles, v.submitting = w.submitting, v.job = w.job,
         v.seen = w.seen, v.known = w.known, v.completed = w.completed,
         v.present = w.present, v.overlapped = w.overlapped, v.raced = w.raced,
         Undisturbed(v) /\ WakeFits(w, s) =>
           /\ IntentFits(v)
           /\ Publishing(w) => /\ v.latest.text = w.latest.text
                               /\ Described(v) /\ ~v.partial /\ v.mic # "starting"
  PROVE  WakesOn(w, v, s)
<1> SUFFICES ASSUME Undisturbed(v), WakeFits(w, s)
             PROVE  WakeFits(v, s) /\ (TakenIn(w, s) => TakenIn(v, s))
  BY DEF WakesOn, Undisturbed
<1>1. CallsWake(v) /\ AnswerComesLate(v) /\ BehindFits(v, s)
  BY DEF WakeFits, CallsWake, Describing, AnswerComesLate, BehindFits
<1>2. SceneFits(v)
  BY DEF WakeFits, SceneFits, Publishing
<1> QED
  BY <1>1, <1>2 DEF WakeFits, TakenIn

\* Calls end or wait, and the page follows no job.
LEMMA LooksAwayWakes ==
  ASSUME NEW w, NEW v, NEW s, Alike(w, v), v.job = NoJob,
         v.submitting => v.compiles # {},
         Undisturbed(v) => \A d \in v.compiles : d.phase = "waiting"
  PROVE  WakesOn(w, v, s)
<1> SUFFICES ASSUME Undisturbed(v), WakeFits(w, s)
             PROVE  WakeFits(v, s) /\ (TakenIn(w, s) => TakenIn(v, s))
  BY DEF WakesOn, Alike
<1>1. IntentFits(v) /\ SceneFits(v)
  BY AlikeFits DEF WakeFits
<1>2. CallsWake(v) /\ AnswerComesLate(v)
  BY DEF CallsWake, Describing, AnswerComesLate
<1>3. BehindFits(v, s) /\ (TakenIn(w, s) => TakenIn(v, s))
  BY DEF WakeFits, BehindFits, TakenIn, Alike
<1> QED
  BY <1>1, <1>2, <1>3 DEF WakeFits

LEMMA EndsWakes ==
  ASSUME NEW w, NEW c, NEW s, IsPage(w)
  PROVE  WakesOn(w, Ends(w, c), s) /\ WakesOn(w, Again(w, c), s)
<1> DEFINE ended == Ends(w, c)
           again == Again(w, c)
<1>1. /\ Keeps(w, ended) /\ ended.compiles = w.compiles \ {c}
      /\ ended.job = w.job /\ ended.seen = w.seen /\ ended.submitting = FALSE
  BY PageFields DEF IsPage, Whole, Keeps, Ends
<1>2. again = [ended EXCEPT !.attempted = @ \ {c.text}]
  BY DEF Again
<1> HIDE DEF ended
<1>3. /\ Keeps(ended, again) /\ again.compiles = ended.compiles
      /\ again.job = ended.job /\ again.seen = ended.seen /\ again.submitting = FALSE
  BY <1>1, <1>2, PageFields DEF IsPage, Whole, Keeps
<1> HIDE DEF again
<1>4. Alike(w, ended) /\ Alike(w, again)
  BY <1>1, <1>3, KeepsAlike DEF Keeps
<1>5. WakesOn(w, ended, s) /\ WakesOn(w, again, s)
  BY <1>1, <1>3, <1>4, SteadyWakes
<1> QED
  BY <1>5 DEF ended, again

\* The page is left with nothing that a final description waits for.
Looks(w, v, s) ==
  /\ WakesOn(w, v, s)
  /\ Undisturbed(v) /\ WakeFits(w, s) => Tended(v, s)

LEMMA PumpLooks ==
  ASSUME NEW u, NEW w, NEW s, WorkbenchAssumption, IsPage(w), WakesOn(u, w, s)
  PROVE  Looks(u, Pump(w), s)
<1>1. /\ WakesOn(w, Pump(w), s)
      /\ Undisturbed(Pump(w)) /\ WakeFits(w, s) => Tended(Pump(w), s)
  BY PumpWakes
<1>2. WakesOn(u, Pump(w), s)
  BY <1>1, WakesThen
<1> QED
  BY <1>1, <1>2 DEF WakesOn, Looks

LEMMA FailedWakes ==
  ASSUME NEW u, NEW w, NEW c, NEW s, WorkbenchAssumption, IsPage(w), WakesOn(u, w, s),
         Alone(w, c)
  PROVE  Looks(u, Failed(w, c), s)
<1> DEFINE ended == Ends(w, c)
           idle == [ended EXCEPT !.job = NoJob]
<1>1. Failed(w, c) = Pump(idle)
  BY DEF Failed
<1>2. /\ Keeps(w, ended) /\ ended.compiles = w.compiles \ {c} /\ ended.submitting = FALSE
  BY PageFields DEF IsPage, Whole, Keeps, Ends
<1> HIDE DEF ended
<1>3. /\ Keeps(ended, idle) /\ idle.compiles = ended.compiles
      /\ idle.submitting = FALSE /\ idle.job = NoJob
  BY <1>2, PageFields DEF IsPage, Whole, Keeps
<1> HIDE DEF idle
<1>4. Alike(w, idle)
  BY <1>2, <1>3, KeepsAlike DEF Keeps
<1>5. WakesOn(w, idle, s)
  BY <1>2, <1>3, <1>4, LooksAwayWakes DEF Alone, Undisturbed, Keeps
<1> QED
  BY <1>1, <1>3, <1>5, PumpLooks, WakesThen DEF Keeps

LEMMA UncertainWakes ==
  ASSUME NEW w, NEW c, NEW s, IsPage(w), c.sub # 0
  PROVE  LET v == Uncertain(w, c)
         IN WakesOn(w, v, s) /\ Tended(v, s)
<1> DEFINE pending == [sub |-> c.sub, text |-> c.text, prior |-> c.prior]
           unsure == [w EXCEPT !.pending = pending]
           waiting == [phase |-> "waiting"]
           ended == Ends(unsure, c)
           waits == Moves(unsure, c, waiting)
           looks == [waits EXCEPT !.reconciling = TRUE]
<1>1. Uncertain(w, c) \in {ended, looks}
  BY DEF Uncertain
<1>2. pending.sub = c.sub /\ waiting.phase = "waiting"
  OBVIOUS
<1> HIDE DEF pending, waiting
<1>3. /\ Keeps(w, unsure) /\ unsure.compiles = w.compiles /\ unsure.pending = pending
      /\ unsure.job = w.job /\ unsure.seen = w.seen /\ unsure.submitting = w.submitting
  BY PageFields DEF IsPage, Whole, Keeps
<1> HIDE DEF unsure
<1>4. /\ Keeps(unsure, ended) /\ ended.compiles = w.compiles \ {c} /\ ended.pending = pending
      /\ ended.job = w.job /\ ended.seen = w.seen /\ ended.submitting = FALSE
  BY <1>3, PageFields DEF IsPage, Whole, Keeps, Ends
<1> HIDE DEF ended
<1>5. /\ Keeps(unsure, waits) /\ waits.compiles = (w.compiles \ {c}) \cup {waiting}
      /\ waits.pending = pending /\ waits.job = w.job /\ waits.seen = w.seen
  BY <1>3, PageFields DEF IsPage, Whole, Keeps, Moves
<1> HIDE DEF waits
<1>6. /\ Keeps(waits, looks) /\ looks.compiles = waits.compiles
      /\ looks.pending = pending /\ looks.job = w.job /\ looks.seen = w.seen
  BY <1>5, PageFields DEF IsPage, Whole, Keeps
<1> HIDE DEF looks
<1>7. Alike(w, ended) /\ Alike(w, looks)
  BY <1>3, <1>4, <1>5, <1>6, KeepsAlike DEF Keeps
<1>8. NoAnswer(waiting)
  BY <1>2 DEF NoAnswer
<1>9. WakesOn(w, ended, s)
  BY <1>4, <1>7, SteadyWakes
<1>10. WakesOn(w, looks, s)
  BY <1>5, <1>6, <1>7, <1>8, SteadyWakes
<1>11. Tended(ended, s) /\ Tended(looks, s)
  BY <1>2, <1>4, <1>6 DEF Tended, Settled
<1> QED
  BY <1>1, <1>9, <1>10, <1>11

\* What a final description waits for, but for the presentation that ends.
Awaits(w, s) ==
  Described(w) /\ w.latest.final =>
    \/ Settled(w, s)
    \/ w.mic # "off" \/ w.compiles # {} \/ w.checking # NoIntent
    \/ w.job # NoJob \/ w.known # JobOf(s) \/ s.rev = 0

LEMMA EndPresentWakes ==
  ASSUME NEW u, NEW w, NEW s, WorkbenchAssumption, IsPage(w), Publishing(w), WakesOn(u, w, s),
         Undisturbed(w) /\ WakeFits(u, s) => Awaits(w, s)
  PROVE  Looks(u, EndPresent(w), s)
<1> DEFINE v == EndPresent(w)
           over == [w EXCEPT !.present = Idle]
<1>1. \/ v = over /\ w.latest.text = w.present.text
      \/ v = Pump(over) /\ w.latest.text # w.present.text
  BY DEF EndPresent
<1>2. /\ IsPage(over) /\ over.present = Idle /\ over.latest = w.latest /\ over.epoch = w.epoch
      /\ over.story = w.story /\ over.mic = w.mic /\ over.partial = w.partial
      /\ over.completed = w.completed /\ over.known = w.known /\ over.job = w.job
      /\ over.seen = w.seen /\ over.compiles = w.compiles /\ over.submitting = w.submitting
      /\ over.overlapped = w.overlapped /\ over.raced = w.raced /\ over.pending = w.pending
      /\ over.attempted = w.attempted /\ over.checking = w.checking
  BY PageFields DEF IsPage, Whole
<1> HIDE DEF over
<1>3. WakesOn(w, over, s)
  <2> SUFFICES ASSUME WakeFits(w, s)
               PROVE  WakeFits(over, s) /\ (TakenIn(w, s) => TakenIn(over, s))
    BY <1>2 DEF WakesOn, Undisturbed
  <2>1. Idle.phase # "shown"
    BY DEF Idle
  <2> QED
    BY <1>2, <2>1 DEF WakeFits, IntentFits, Described, CallsWake, Describing, SceneFits,
       Publishing, AnswerComesLate, BehindFits, TakenIn
<1>4. WakesOn(u, over, s)
  BY <1>3, WakesThen
<1>5. Looks(u, Pump(over), s)
  BY <1>2, <1>4, PumpLooks
<1>6. ASSUME Undisturbed(over), WakeFits(u, s)
      PROVE  Tended(over, s)
  <2>1. Awaits(w, s)
    BY <1>2, <1>6 DEF Undisturbed
  <2> QED
    BY <1>2, <2>1 DEF Awaits, Tended, Settled, Described
<1> QED
  BY <1>1, <1>4, <1>5, <1>6 DEF Looks

\* The page may have something left to wait for, if it had.
Wakes(w, v, s) ==
  /\ WakesOn(w, v, s)
  /\ Undisturbed(v) /\ WakeFits(w, s) => (Tended(w, s) => Tended(v, s))

LEMMA LooksWakes ==
  ASSUME NEW w, NEW v, NEW s, Looks(w, v, s)
  PROVE  Wakes(w, v, s)
BY DEF Looks, Wakes

LEMMA WakesOver ==
  ASSUME NEW w, NEW v, NEW u, NEW s, Wakes(w, v, s), Wakes(v, u, s)
  PROVE  Wakes(w, u, s)
BY DEF Wakes, WakesOn

LEMMA TryPresentLooks ==
  ASSUME NEW w, NEW s, IsPage(w)
  PROVE  Wakes(w, TryPresent(w), s)
<1> DEFINE p == [phase |-> "pointer", text |-> w.latest.text, job |-> w.completed.job]
           v == [w EXCEPT !.present = p]
<1>1. TryPresent(w) = w \/ TryPresent(w) = v
  BY DEF TryPresent
<1>2. p.phase = "pointer" /\ Idle.phase = "idle"
  BY DEF Idle
<1> HIDE DEF p
<1>3. v.present = p
  BY PageFields DEF IsPage
<1> HIDE DEF v
<1>4. Tended(v, s)
  BY <1>2, <1>3 DEF Tended, Publishing
<1>5. WakesOn(w, TryPresent(w), s)
  BY TryPresentWakes
<1> QED
  BY <1>1, <1>4, <1>5 DEF Wakes

LEMMA FollowsFollowed ==
  ASSUME NEW w, NEW s, FollowFits(w, s)
  PROVE  Followed(w) /\ w.known \in Nat \X Nat
BY DEF FollowFits, Followed, AnswersFit, RequestFits

\* The session is read, and has a job.
LEMMA HandleSession ==
  ASSUME NEW w, NEW s, WorkbenchAssumption, IsPage(w), IsSession(s), FollowFits(w, s),
         s.rev # 0, StageFits(s)
  PROVE  Wakes(w, Handle(w, s), s)
<1>1. PointerFits(s, s) /\ Tells(s, s)
  BY DEF PointerFits, Tells, IsSession
<1>2. Followed(w) /\ w.known \in Nat \X Nat
  BY FollowsFollowed
<1>3. LET v == Handle(w, s)
      IN /\ FitsOn(w, v, s)
         /\ Undisturbed(v) /\ WakeFits(w, s) =>
              /\ Tended(w, s) => Tended(v, s)
              /\ s.rev # 0 /\ JobOf(s) = JobOf(s) /\ (Over(s) => Over(s)) => TakenIn(v, s)
  BY <1>1, <1>2, HandleWakes
<1> QED
  BY <1>3 DEF Wakes, WakesOn, FitsOn

\* A partial description is offered while the page listens.
LEMMA OfferWakes ==
  ASSUME NEW w, NEW text \in Text, NEW s, WorkbenchAssumption, IsPage(w), IsSession(s),
         FollowFits(w, s), w.epoch \in Nat, w.mic = "on", w.partial
  PROVE  Wakes(w, Offer(w, text, FALSE), s)
<1> DEFINE same == w.latest.text = text /\ w.latest.epoch = w.epoch
           kept(flag) == same /\ w.latest[flag]
           latest == [text |-> text, epoch |-> w.epoch,
                      seen |-> IF same THEN 2 ELSE 1,
                      final |-> FALSE \/ kept("final"), ready |-> FALSE \/ kept("final"),
                      checked |-> kept("checked"), refused |-> kept("refused")]
           offered == [w EXCEPT !.latest = latest, !.story = text, !.timer = ~FALSE]
<1>1. Offer(w, text, FALSE) = TryPresent(Pump(offered))
  BY DEF Offer
<1>2. /\ DOMAIN latest = {"text", "epoch", "seen", "final", "ready", "checked", "refused"}
      /\ latest.text = text /\ latest.epoch = w.epoch
      /\ latest.final => same /\ w.latest.final
  OBVIOUS
<1> HIDE DEF latest
<1>3. /\ IsPage(offered) /\ offered.latest = latest /\ offered.epoch = w.epoch
      /\ offered.story = text /\ offered.mic = w.mic /\ offered.partial = w.partial
      /\ offered.present = w.present /\ offered.known = w.known
      /\ offered.submitting = w.submitting /\ offered.compiles = w.compiles
      /\ offered.overlapped = w.overlapped /\ offered.raced = w.raced
      /\ offered.completed = w.completed /\ offered.job = w.job /\ offered.seen = w.seen
      /\ offered.pending = w.pending
  BY PageFields DEF IsPage, Whole
<1> HIDE DEF offered
<1>4. ASSUME WakeFits(w, s)
      PROVE  IntentFits(offered) /\ ~Publishing(w)
  <2>1. ~Publishing(w)
    BY <1>4 DEF WakeFits, SceneFits
  <2>2. text # None
    BY DEF WorkbenchAssumption
  <2>3. same => Described(w)
    BY <2>2 DEF Described
  <2>4. ~latest.final
    BY <1>2, <1>4, <2>3 DEF WakeFits, IntentFits
  <2>5. w.mic = "on" /\ "on" \notin {"off", "starting"} /\ w.epoch \in 0..w.epoch
    OBVIOUS
  <2> QED
    BY <1>2, <1>3, <2>1, <2>2, <2>4, <2>5 DEF IntentFits, Described
<1>5. WakesOn(w, offered, s)
  BY <1>3, <1>4, IntentWakes
<1>6. Looks(w, Pump(offered), s)
  BY <1>3, <1>5, PumpLooks
<1>7. Wakes(Pump(offered), TryPresent(Pump(offered)), s)
  <2>1. Aside(w, offered)
    BY <1>3 DEF Aside
  <2>2. Follows(w, offered, s)
    BY <2>1, AsideFollows
  <2>3. Follows(offered, Pump(offered), s)
    BY <2>2, PumpFollows DEF Follows
  <2> QED
    BY <2>3, TryPresentLooks DEF Follows
<1> QED
  BY <1>1, <1>6, <1>7, LooksWakes, WakesOver

-----------------------------------------------------------------------------
(* Steps of the page, while the session stays as it is.                    *)

\* What lemmas on steps of the page know.
WakeKnown == WorkbenchAssumption /\ IInv /\ FollowKnown /\ ToldFits

\* Only the recording and the description are changed.
Rephrases(w, v) ==
  /\ IsPage(v) /\ v.compiles = w.compiles /\ v.submitting = w.submitting
  /\ v.job = w.job /\ v.seen = w.seen /\ v.known = w.known /\ v.completed = w.completed
  /\ v.present = w.present /\ v.overlapped = w.overlapped /\ v.raced = w.raced
  /\ v.pending = w.pending

\* The microphone is started, listens or is stopped.
LEMMA MarksWake ==
  ASSUME WakeKnown, PressStart \/ Started \/ StartFails \/ PartialBegins \/ Stop \/ FinalFails
  PROVE  Wakes(page, page', server)
<1>1. IsPage(page) /\ page.epoch \in Nat
  BY PageKnows DEF WakeKnown, PageFits, IsPage
<1>2. NoIntent.text = None /\ DOMAIN NoIntent = {"text"}
  BY DEF NoIntent
<1>3. CASE PressStart
  <2>1. /\ Rephrases(page, page') /\ page'.latest = page.latest /\ page'.epoch = page.epoch
        /\ page'.story = page.story /\ page'.partial = page.partial
        /\ page.mic = "off" /\ page'.mic = "starting" /\ ~Publishing(page)
    BY <1>1, <1>3, PageFields DEF PressStart, IsPage, Whole, Rephrases
  <2>2. WakeFits(page, server) => IntentFits(page')
    BY <2>1 DEF WakeFits, IntentFits, Described
  <2>3. WakesOn(page, page', server)
    BY <2>1, <2>2, IntentWakes DEF Rephrases
  <2>4. Tended(page', server)
    BY <2>1 DEF Tended
  <2> QED
    BY <2>3, <2>4 DEF Wakes
<1>4. CASE Started
  <2>1. /\ Rephrases(page, page') /\ page'.latest = NoIntent
        /\ page.mic = "starting" /\ page'.mic = "on"
    BY <1>1, <1>4, PageFields DEF Started, IsPage, Whole, Rephrases
  <2>2. IntentFits(page') /\ ~Described(page')
    BY <1>2, <2>1 DEF IntentFits, Described
  <2>3. WakeFits(page, server) => ~Publishing(page)
    BY <2>1 DEF WakeFits, SceneFits
  <2>4. WakesOn(page, page', server)
    BY <2>1, <2>2, <2>3, IntentWakes DEF Rephrases
  <2>5. Tended(page', server)
    BY <2>1 DEF Tended
  <2> QED
    BY <2>4, <2>5 DEF Wakes
<1>5. CASE StartFails
  <2>1. /\ Rephrases(page, page') /\ page'.latest = page.latest /\ page'.epoch = page.epoch + 1
        /\ page'.story = page.story /\ page'.partial = page.partial
        /\ page.mic = "starting" /\ page'.mic = "off"
    BY <1>1, <1>5, PageFields DEF StartFails, IsPage, Whole, Rephrases
  <2>2. WakeFits(page, server) => IntentFits(page') /\ ~Described(page')
    BY <1>1, <2>1 DEF WakeFits, IntentFits, Described
  <2>3. WakeFits(page, server) => ~Publishing(page)
    BY <2>1 DEF WakeFits, SceneFits
  <2>4. WakesOn(page, page', server)
    BY <2>1, <2>2, <2>3, IntentWakes DEF Rephrases
  <2> QED
    BY <2>2, <2>4 DEF Wakes, Tended
<1>6. CASE PartialBegins
  <2>1. /\ Rephrases(page, page') /\ page'.latest = page.latest /\ page'.epoch = page.epoch
        /\ page'.story = page.story /\ page.mic = "on" /\ page'.mic = "on"
        /\ ~Publishing(page)
    BY <1>1, <1>6, PageFields DEF PartialBegins, IsPage, Whole, Rephrases
  <2>2. WakeFits(page, server) => IntentFits(page')
    BY <2>1 DEF WakeFits, IntentFits, Described
  <2>3. WakesOn(page, page', server)
    BY <2>1, <2>2, IntentWakes DEF Rephrases
  <2>4. Tended(page', server)
    BY <2>1 DEF Tended
  <2> QED
    BY <2>3, <2>4 DEF Wakes
<1>7. CASE Stop
  <2>1. /\ Rephrases(page, page') /\ page'.latest = page.latest /\ page'.epoch = page.epoch
        /\ page'.story = page.story /\ page'.partial = page.partial
        /\ page.mic = "on" /\ page'.mic = "stopping"
    BY <1>1, <1>7, PageFields DEF Stop, IsPage, Whole, Rephrases
  <2>2. WakeFits(page, server) => IntentFits(page')
    BY <2>1 DEF WakeFits, IntentFits, Described
  <2>3. WakeFits(page, server) /\ Publishing(page) => Described(page') /\ ~page'.partial
    BY <2>1 DEF WakeFits, SceneFits, Described
  <2>4. WakesOn(page, page', server)
    BY <2>1, <2>2, <2>3, IntentWakes DEF Rephrases
  <2>5. Tended(page', server)
    BY <2>1 DEF Tended
  <2> QED
    BY <2>4, <2>5 DEF Wakes
<1>8. CASE FinalFails
  <2>1. /\ Rephrases(page, page') /\ page'.latest = NoIntent /\ page'.partial = page.partial
        /\ ~page.partial /\ ~Publishing(page)
    BY <1>1, <1>8, PageFields DEF FinalFails, Final, IsPage, Whole, Rephrases
  <2>2. IntentFits(page') /\ ~Described(page')
    BY <1>2, <2>1 DEF IntentFits, Described
  <2>3. WakesOn(page, page', server)
    BY <2>1, <2>2, IntentWakes DEF Rephrases
  <2> QED
    BY <2>2, <2>3 DEF Wakes, Tended
<1> QED
  BY <1>3, <1>4, <1>5, <1>6, <1>7, <1>8

LEMMA PartialsWake ==
  ASSUME WakeKnown, Partials
  PROVE  Wakes(page, page', server)
<1>1. ASSUME NEW heard, IsPage(heard), Wakes(page, heard, server),
             page' = TryPresent([heard EXCEPT !.partial = FALSE])
      PROVE  Wakes(page, page', server)
  <2> DEFINE free == [heard EXCEPT !.partial = FALSE]
  <2>1. /\ Rephrases(heard, free) /\ free.latest = heard.latest /\ free.epoch = heard.epoch
        /\ free.story = heard.story /\ free.mic = heard.mic /\ free.partial = FALSE
        /\ free.attempted = heard.attempted /\ free.checking = heard.checking
    BY <1>1, PageFields DEF IsPage, Whole, Rephrases
  <2>2. page' = TryPresent(free)
    BY <1>1
  <2> HIDE DEF free
  <2>3. WakeFits(heard, server) => IntentFits(free)
    BY <2>1 DEF WakeFits, IntentFits, Described
  <2>4. WakeFits(heard, server) /\ Publishing(heard) => Described(free) /\ free.mic # "starting"
    BY <2>1 DEF WakeFits, SceneFits, Described
  <2>5. WakesOn(heard, free, server)
    BY <2>1, <2>3, <2>4, IntentWakes DEF Rephrases
  <2>6. Tended(heard, server) => Tended(free, server)
    BY <2>1 DEF Tended, Settled, Described, Publishing, Rephrases
  <2>7. Wakes(heard, free, server)
    BY <2>5, <2>6 DEF Wakes
  <2>8. Wakes(free, TryPresent(free), server)
    BY <2>1, TryPresentLooks DEF Rephrases
  <2> QED
    BY <1>1, <2>2, <2>7, <2>8, WakesOver
<1>2. Wakes(page, page, server) /\ IsPage(page)
  BY WakesAtRest DEF Wakes, WakeKnown, FollowKnown
<1>3. CASE PartialFails
  BY <1>1, <1>2, <1>3 DEF PartialFails
<1>4. ASSUME NEW text \in Text, PartialHeard(text)
      PROVE  Wakes(page, page', server)
  <2> DEFINE heard == IF page.mic = "on" THEN Offer(page, text, FALSE) ELSE page
  <2>1. page.partial /\ page' = TryPresent([heard EXCEPT !.partial = FALSE])
    BY <1>4 DEF PartialHeard
  <2>2. page.epoch \in Nat /\ IsSession(server) /\ FollowFits(page, server)
    BY PageKnows DEF WakeKnown, PageFits, FollowKnown
  <2>3. page.mic = "on" =>
          IsPage(Offer(page, text, FALSE)) /\ Wakes(page, Offer(page, text, FALSE), server)
    BY <1>2, <2>1, <2>2, OfferWakes, OfferFollows DEF Follows, WakeKnown
  <2>4. IsPage(heard) /\ Wakes(page, heard, server)
    BY <1>2, <2>3
  <2> HIDE DEF heard
  <2> QED
    BY <1>1, <2>1, <2>4
<1> QED
  BY <1>3, <1>4 DEF Partials

LEMMA TimerWakes ==
  ASSUME WakeKnown, TimerFires
  PROVE  Wakes(page, page', server)
<1> DEFINE latest == [page.latest EXCEPT !.ready = TRUE]
           ready == [page EXCEPT !.timer = FALSE, !.latest = latest]
<1>1. page' = Pump(ready)
  <2>1. [page EXCEPT !.timer = FALSE, !.latest.ready = TRUE] = ready
    BY PageFields DEF WakeKnown, FollowKnown, IsPage
  <2> QED
    BY <2>1 DEF TimerFires
<1>2. /\ DOMAIN latest = DOMAIN page.latest
      /\ \A f \in DOMAIN latest : f # "ready" => latest[f] = page.latest[f]
      /\ "ready" \in DOMAIN latest => latest.ready = TRUE
  OBVIOUS
<1> HIDE DEF latest
<1>3. /\ Rephrases(page, ready) /\ ready.latest = latest /\ ready.epoch = page.epoch
      /\ ready.story = page.story /\ ready.mic = page.mic /\ ready.partial = page.partial
  BY PageFields DEF WakeKnown, FollowKnown, IsPage, Whole, Rephrases
<1> HIDE DEF ready
<1>4. WakeFits(page, server) =>
        /\ IntentFits(ready) /\ ready.latest.text = page.latest.text
        /\ Described(page) => Described(ready)
  BY <1>2, <1>3 DEF WakeFits, IntentFits, Described
<1>5. WakeFits(page, server) /\ Publishing(page) =>
        Described(page) /\ ~page.partial /\ page.mic # "starting"
  BY DEF WakeFits, SceneFits
<1>6. WakesOn(page, ready, server)
  BY <1>3, <1>4, <1>5, IntentWakes DEF Rephrases
<1> QED
  BY <1>1, <1>3, <1>6, PumpLooks, LooksWakes DEF Rephrases, WakeKnown

LEMMA FinalHeardWakes ==
  ASSUME WakeKnown, NEW text \in Text, FinalHeard(text)
  PROVE  Wakes(page, page', server)
<1> DEFINE same == page.latest.text = text /\ page.latest.epoch = page.epoch
           kept(flag) == same /\ page.latest[flag]
           latest == [text |-> text, epoch |-> page.epoch,
                      seen |-> IF same THEN 2 ELSE 1,
                      final |-> TRUE \/ kept("final"), ready |-> TRUE \/ kept("final"),
                      checked |-> kept("checked"), refused |-> kept("refused")]
           offered == [page EXCEPT !.latest = latest, !.story = text, !.timer = ~TRUE]
           over == [offered EXCEPT !.mic = "off"]
<1>1. /\ page.mic = "stopping" /\ ~page.partial /\ ~Publishing(page)
      /\ page' = Pump([Offer(page, text, TRUE) EXCEPT !.mic = "off"])
  BY DEF FinalHeard, Final
<1>2. /\ DOMAIN latest = {"text", "epoch", "seen", "final", "ready", "checked", "refused"}
      /\ latest.text = text /\ latest.epoch = page.epoch /\ latest.ready = TRUE
  OBVIOUS
<1>3. Offer(page, text, TRUE) = TryPresent(offered)
  BY <1>1 DEF Offer
<1> HIDE DEF latest
<1>4. /\ Rephrases(page, offered) /\ offered.mic = page.mic /\ offered.latest = latest
      /\ offered.epoch = page.epoch /\ offered.story = text /\ offered.partial = page.partial
  BY PageFields DEF WakeKnown, FollowKnown, IsPage, Whole, Rephrases
<1> HIDE DEF offered
<1>5. TryPresent(offered) = offered
  BY <1>1, <1>4 DEF TryPresent, Current
<1>6. /\ Rephrases(page, over) /\ over.mic = "off" /\ over.latest = latest
      /\ over.epoch = page.epoch /\ over.story = text /\ over.partial = page.partial
  BY <1>4, PageFields DEF IsPage, Whole, Rephrases
<1>7. page' = Pump(over)
  BY <1>1, <1>3, <1>5
<1> HIDE DEF over
<1>8. page.epoch \in 0..page.epoch
  BY PageKnows DEF WakeKnown, PageFits
<1>9. IntentFits(over)
  BY <1>1, <1>2, <1>6, <1>8 DEF IntentFits, Described
<1>10. WakesOn(page, over, server)
  BY <1>1, <1>6, <1>9, IntentWakes DEF Rephrases
<1> QED
  BY <1>6, <1>7, <1>10, PumpLooks, LooksWakes DEF Rephrases, WakeKnown

LEMMA QueuedCheckWakes ==
  ASSUME WakeKnown, QueuedCheck
  PROVE  Wakes(page, page', server)
<1>1. PICK fine \in BOOLEAN : QueuedChecked(fine)
  BY DEF QueuedCheck
<1> DEFINE latest == IF Stale(page, page.checking) THEN page.latest
                     ELSE IF fine THEN [page.latest EXCEPT !.checked = TRUE]
                     ELSE [page.latest EXCEPT !.refused = TRUE]
           noted == [page EXCEPT !.checking = NoIntent, !.latest = latest]
<1>2. page' = Pump(noted)
  BY <1>1, PageFields DEF QueuedChecked, WakeKnown, FollowKnown, IsPage
<1>3. /\ DOMAIN latest = DOMAIN page.latest
      /\ \A f \in DOMAIN latest : f \notin {"checked", "refused"} => latest[f] = page.latest[f]
  OBVIOUS
<1> HIDE DEF latest
<1>4. /\ Rephrases(page, noted) /\ noted.latest = latest /\ noted.epoch = page.epoch
      /\ noted.story = page.story /\ noted.mic = page.mic /\ noted.partial = page.partial
  BY PageFields DEF WakeKnown, FollowKnown, IsPage, Whole, Rephrases
<1> HIDE DEF noted
<1>5. WakeFits(page, server) =>
        /\ IntentFits(noted) /\ noted.latest.text = page.latest.text
        /\ Described(page) => Described(noted)
  BY <1>3, <1>4 DEF WakeFits, IntentFits, Described
<1>6. WakeFits(page, server) /\ Publishing(page) =>
        Described(page) /\ ~page.partial /\ page.mic # "starting"
  BY DEF WakeFits, SceneFits
<1>7. WakesOn(page, noted, server)
  BY <1>4, <1>5, <1>6, IntentWakes DEF Rephrases
<1> QED
  BY <1>2, <1>4, <1>7, PumpLooks, LooksWakes DEF Rephrases, WakeKnown

\* What disturbs is not forgotten when a check ends.
LEMMA AfterCheckDisturbed ==
  ASSUME NEW w, NEW c, IsPage(w), Undisturbed(AfterCheck(w, c))
  PROVE  Undisturbed(w)
<1> DEFINE told == IF c.automatic THEN [w EXCEPT !.latest.checked = TRUE] ELSE w
           manual == [text |-> c.text, epoch |-> w.epoch, seen |-> 1, final |-> TRUE,
                      ready |-> FALSE, checked |-> FALSE, refused |-> FALSE]
           latest == IF c.automatic THEN told.latest ELSE manual
           ended == Ends(told, c)
           again == [ended EXCEPT !.attempted = @ \ {c.text}]
           completed == [ended.completed EXCEPT !.key = c.text]
           reused == [ended EXCEPT !.completed = completed]
           to == [c EXCEPT !.phase = "prior"]
           moved == Moves(told, c, to)
           goes == [moved EXCEPT !.latest = latest, !.active = c.text, !.job = NoJob,
                                 !.seen = Empty(0)]
           Same(v) == IsPage(v) /\ v.overlapped = w.overlapped /\ v.raced = w.raced
<1>1. Same(told)
  <2> DEFINE checked == [w.latest EXCEPT !.checked = TRUE]
  <2>1. [w EXCEPT !.latest.checked = TRUE] = [w EXCEPT !.latest = checked]
    BY PageFields DEF IsPage
  <2> HIDE DEF checked
  <2>2. Same([w EXCEPT !.latest = checked])
    BY PageFields DEF IsPage, Whole
  <2> QED
    BY <2>1, <2>2
<1> HIDE DEF told, latest, to
<1>2. Same(ended) /\ Same(moved)
  BY <1>1, PageFields DEF IsPage, Whole, Ends, Moves
<1>3. /\ Again(told, c) = again
      /\ [ended EXCEPT !.completed.key = c.text] = reused
  BY <1>2, PageFields DEF Again, IsPage
<1>4. [moved EXCEPT !.latest = IF c.automatic THEN @ ELSE manual,
                    !.active = c.text, !.job = NoJob, !.seen = Empty(0)] = goes
  <2>1. moved.latest = told.latest
    BY <1>1, PageFields DEF IsPage, Moves
  <2> HIDE DEF moved, manual
  <2> QED
    BY <1>2, <2>1, PageFields DEF latest, manual, IsPage
<1>5. AfterCheck(w, c) \in {again, TryPresent(reused), goes}
  BY <1>3, <1>4 DEF AfterCheck, told, to
<1> HIDE DEF completed, ended, moved
<1>6. Same(again) /\ Same(reused) /\ Same(goes)
  BY <1>2, PageFields DEF IsPage, Whole
<1> HIDE DEF again, reused, goes
<1>7. Undisturbed(TryPresent(reused)) => Undisturbed(reused)
  BY <1>6, TryPresentWakes DEF WakesOn
<1> QED
  BY <1>5, <1>6, <1>7 DEF Undisturbed

LEMMA CheckedWakes ==
  ASSUME WakeKnown, NEW c \in page.compiles, NEW fine \in BOOLEAN, Checked(c, fine)
  PROVE  Wakes(page, page', server)
<1> DEFINE ended == Ends(page, c)
           latest == [ended.latest EXCEPT !.refused = TRUE]
           refused == [ended EXCEPT !.latest = latest]
<1>1. IsPage(page) /\ FollowFits(page, server) /\ c.phase = "check" /\ Alone(page, c)
  BY Busy DEF WakeKnown, FollowKnown, Checked, At
<1>2. /\ IsPage(ended) /\ ended.latest = page.latest /\ ended.epoch = page.epoch
      /\ ended.story = page.story /\ ended.mic = page.mic /\ ended.partial = page.partial
      /\ ended.present = page.present
  BY <1>1, PageFields DEF IsPage, Whole, Ends
<1>3. [ended EXCEPT !.latest.refused = TRUE] = refused
  BY <1>2, PageFields DEF IsPage
<1>4. \/ page' = AfterCheck(page, c) /\ page.story = c.text /\ ~(c.automatic /\ Stale(page, c))
      \/ page' = ended /\ ~c.automatic
      \/ page' = Pump(Again(page, c))
      \/ page' = refused /\ ~Stale(page, c)
  BY <1>3 DEF Checked
<1>5. WakesOn(page, ended, server) /\ WakesOn(page, Again(page, c), server)
  BY <1>1, EndsWakes
<1>6. WakeFits(page, server) =>
        /\ c.automatic = TRUE /\ c.text \in Text /\ c.text # None
        /\ DOMAIN c = {"phase", "text", "automatic", "epoch"}
  BY <1>1 DEF WakeFits, CallsWake, Describing, WakeKnown, WorkbenchAssumption
<1>7. WakeFits(page, server) /\ ~Stale(page, c) => Described(page) /\ c.text = page.latest.text
  BY <1>6 DEF Stale, Described
<1>8. CASE page' = AfterCheck(page, c) /\ ~(c.automatic /\ Stale(page, c))
  <2>1. Undisturbed(page') => Undisturbed(page)
    BY <1>1, <1>8, AfterCheckDisturbed
  <2>2. ASSUME WakeFits(page, server)
        PROVE  LET v == AfterCheck(page, c)
               IN /\ WakesOn(page, v, server)
                  /\ Undisturbed(v) /\ WakeFits(page, server) => Tended(v, server)
    <3>1. Alike(page, page)
      BY <1>1 DEF Alike, SameIntent
    <3>2. Whole(c)
      BY PageKnows DEF WakeKnown, PageFits, CallsFit
    <3>3. Described(page) /\ c.text = page.latest.text
      BY <1>6, <1>7, <1>8, <2>2
    <3> QED
      BY <1>1, <1>6, <2>2, <3>1, <3>2, <3>3, AfterCheckWakes DEF WakeKnown
  <2> QED
    BY <1>8, <2>1, <2>2 DEF Wakes, WakesOn
<1>9. CASE page' = ended /\ ~c.automatic
  BY <1>5, <1>6, <1>9 DEF Wakes
<1>10. CASE page' = Pump(Again(page, c))
  <2>1. IsPage(Again(page, c))
    <3>1. Again(page, c) = [ended EXCEPT !.attempted = @ \ {c.text}]
      BY DEF Again
    <3> HIDE DEF ended
    <3> QED
      BY <1>2, <3>1, PageFields DEF IsPage, Whole
  <2> QED
    BY <1>5, <1>10, <2>1, PumpLooks, LooksWakes DEF WakeKnown
<1>11. CASE page' = refused /\ ~Stale(page, c)
  <2>1. /\ DOMAIN latest = DOMAIN page.latest
        /\ \A f \in DOMAIN latest : f # "refused" => latest[f] = page.latest[f]
        /\ "refused" \in DOMAIN latest => latest.refused = TRUE
    BY <1>2
  <2> HIDE DEF latest, ended
  <2>2. /\ Rephrases(ended, refused) /\ refused.latest = latest /\ refused.epoch = ended.epoch
        /\ refused.story = ended.story /\ refused.mic = ended.mic
        /\ refused.partial = ended.partial
    BY <1>2, PageFields DEF IsPage, Whole, Rephrases
  <2> HIDE DEF refused
  <2>3. WakeFits(ended, server) =>
          /\ IntentFits(refused) /\ refused.latest.text = ended.latest.text
          /\ Described(ended) => Described(refused)
    BY <1>2, <2>1, <2>2 DEF WakeFits, IntentFits, Described
  <2>4. WakeFits(ended, server) /\ Publishing(ended) =>
          Described(ended) /\ ~ended.partial /\ ended.mic # "starting"
    BY DEF WakeFits, SceneFits
  <2>5. WakesOn(ended, refused, server)
    BY <2>2, <2>3, <2>4, IntentWakes DEF Rephrases
  <2>6. WakeFits(page, server) => Tended(refused, server)
    <3> SUFFICES ASSUME WakeFits(page, server)
                 PROVE  refused.latest.refused = TRUE
      BY DEF Tended, Settled
    <3>1. "refused" \in DOMAIN page.latest
      BY <1>7, <1>11 DEF WakeFits, IntentFits, Described
    <3> QED
      BY <2>1, <2>2, <3>1
  <2> QED
    BY <1>5, <1>11, <2>5, <2>6, WakesThen DEF Wakes
<1> QED
  BY <1>4, <1>8, <1>9, <1>10, <1>11

\* A call ends and the queue is looked at.
LEMMA EndsLooks ==
  ASSUME NEW u, NEW w, NEW c, NEW s, WorkbenchAssumption, IsPage(w), WakesOn(u, w, s)
  PROVE  Looks(u, Pump(Ends(w, c)), s) /\ Looks(u, Pump(Again(w, c)), s)
<1>1. IsPage(Ends(w, c)) /\ IsPage(Again(w, c))
  BY PageFields DEF IsPage, Whole, Ends, Again
<1>2. WakesOn(w, Ends(w, c), s) /\ WakesOn(w, Again(w, c), s)
  BY EndsWakes
<1> QED
  BY <1>1, <1>2, WakesThen, PumpLooks

LEMMA PriorReadWakes ==
  ASSUME WakeKnown, NEW c \in page.compiles, PriorRead(c)
  PROVE  Wakes(page, page', server)
<1> DEFINE kept == IF c.automatic /\ server.text # c.text THEN Again(page, c)
                   ELSE Ends(page, c)
           moved == Moves(page, c, Posted(c))
           asks == [moved EXCEPT !.subs = @ + 1]
<1>1. /\ c.phase = "prior" /\ Alone(page, c) /\ Free(page, server)
      /\ IsPage(page) /\ IsSession(server) /\ FollowFits(page, server)
  BY Busy DEF PriorRead, At, WakeKnown, FollowKnown
<1>2. \/ page' = Pump(Handle(kept, server)) /\ server.rev # 0
      \/ page' = Pump(Again(page, c))
      \/ page' = asks
  BY DEF PriorRead, Posted
<1>3. CASE page' = Pump(Handle(kept, server)) /\ server.rev # 0
  <2>1. /\ Follows(page, Again(page, c), server) /\ Follows(page, Ends(page, c), server)
        /\ WakesOn(page, Again(page, c), server) /\ WakesOn(page, Ends(page, c), server)
    BY <1>1, AgainFollows, EndsFollows, EndsWakes
  <2>2. Follows(page, kept, server) /\ WakesOn(page, kept, server)
    BY <2>1
  <2> HIDE DEF kept
  <2>3. StageFits(server) /\ PointerFits(server, server)
    BY <1>1 DEF WakeKnown, ToldFits, PointerFits, IsSession
  <2>4. Wakes(kept, Handle(kept, server), server)
    BY <1>1, <1>3, <2>2, <2>3, HandleSession DEF Follows, WakeKnown
  <2>5. IsPage(Handle(kept, server))
    BY <1>1, <2>2, <2>3, HandleFollows DEF Follows
  <2> QED
    BY <1>3, <2>2, <2>4, <2>5, WakesThen, PumpLooks, LooksWakes DEF Wakes, WakeKnown
<1>4. CASE page' = Pump(Again(page, c))
  BY <1>1, <1>4, EndsLooks, LooksWakes, WakesAtRest DEF WakeKnown
<1>5. CASE page' = asks
  <2>1. Posted(c).phase = "post"
    BY DEF Posted
  <2>2. /\ Keeps(page, moved) /\ moved.job = page.job /\ moved.seen = page.seen
        /\ moved.compiles = (page.compiles \ {c}) \cup {Posted(c)}
    BY <1>1, PageFields DEF IsPage, Whole, Keeps, Moves
  <2> HIDE DEF moved
  <2>3. /\ Keeps(moved, asks) /\ asks.job = page.job /\ asks.seen = page.seen
        /\ asks.compiles = moved.compiles
    BY <2>2, PageFields DEF IsPage, Whole, Keeps
  <2> HIDE DEF asks
  <2>4. Alike(page, asks)
    BY <1>1, <2>2, <2>3, KeepsAlike DEF Keeps
  <2>5. NoAnswer(Posted(c))
    BY <2>1 DEF NoAnswer
  <2>6. WakesOn(page, asks, server)
    BY <2>2, <2>3, <2>4, <2>5, SteadyWakes
  <2>7. Tended(asks, server)
    BY <2>2, <2>3 DEF Tended
  <2> QED
    BY <1>5, <2>6, <2>7 DEF Wakes
<1> QED
  BY <1>2, <1>3, <1>4, <1>5

\* What comes after the request.
LEMMA AnswersWake ==
  ASSUME WakeKnown, NEW c \in page.compiles,
         PriorFails(c) \/ Refused(c) \/ Lost(c)
  PROVE  Wakes(page, page', server)
<1>1. IsPage(page) /\ FollowFits(page, server)
  BY DEF WakeKnown, FollowKnown
<1>2. CASE PriorFails(c) \/ Refused(c)
  <2>1. c.phase \in {"prior", "refused"} /\ page' = Failed(page, c)
    BY <1>2 DEF PriorFails, Refused, At
  <2>2. Alone(page, c)
    BY <2>1, Busy DEF WakeKnown
  <2> QED
    BY <1>1, <2>1, <2>2, FailedWakes, WakesAtRest, LooksWakes DEF WakeKnown
<1>3. CASE Lost(c)
  <2>1. c.phase = "lost" /\ page' = Uncertain(page, c)
    BY <1>3 DEF Lost, At
  <2>2. c.sub # 0
    BY <1>1, <2>1 DEF FollowFits, RequestFits
  <2> QED
    BY <1>1, <2>1, <2>2, UncertainWakes DEF Wakes
<1> QED
  BY <1>2, <1>3

LEMMA AcceptedWakes ==
  ASSUME WakeKnown, NEW c \in page.compiles, Accepted(c)
  PROVE  Wakes(page, page', server)
<1> DEFINE job == [instance |-> c.prior[1], rev |-> c.prior[2] + 1, text |-> c.text,
                   sub |-> c.sub, stage |-> "working", shown |-> FALSE]
           heard == Handle(page, job)
<1>1. /\ c.phase = "accepted" /\ IsPage(page) /\ IsSession(server)
      /\ FollowFits(page, server)
  BY DEF Accepted, At, WakeKnown, FollowKnown
<1>2. /\ c.prior \in Nat \X Nat /\ c.prior[1] = server.instance /\ c.prior[2] < server.rev
      /\ c.sub # 0
  BY <1>1 DEF FollowFits, RequestFits
<1>3. page' = Pump(Ends(heard, c)) \/ page' = Uncertain(heard, c)
  BY DEF Accepted
<1>4. /\ PointerFits(job, server) /\ Tells(job, server) /\ StageFits(job) /\ job.rev # 0
      /\ job.stage = "working" /\ Submitted(c) = JobOf(job)
  BY <1>1, <1>2 DEF PointerFits, Tells, StageFits, Over, IsSession, JobOf, Submitted
<1> HIDE DEF job
<1>5. Followed(page) /\ page.known \in Nat \X Nat
  BY <1>1, FollowsFollowed
<1>6. LET v == Handle(page, job)
      IN /\ FitsOn(page, v, server)
         /\ Undisturbed(v) /\ WakeFits(page, server) =>
              /\ Tended(page, server) => Tended(v, server)
              /\ (\E d \in page.compiles : d.phase = "accepted" /\ Submitted(d) = JobOf(job))
                 /\ job.stage = "working" /\ job.rev # 0 /\ TakenIn(page, server)
                 => TakenIn(v, server)
  BY <1>1, <1>4, <1>5, HandleWakes DEF WakeKnown
<1>7. IsPage(heard)
  BY <1>1, <1>4, HandleFollows DEF Follows
<1>8. WakesOn(page, heard, server)
  BY <1>1, <1>4, <1>6 DEF WakesOn, FitsOn
<1> HIDE DEF heard
<1>9. Looks(page, Pump(Ends(heard, c)), server)
  BY <1>7, <1>8, EndsLooks DEF WakeKnown
<1>10. WakesOn(page, Uncertain(heard, c), server) /\ Tended(Uncertain(heard, c), server)
  BY <1>2, <1>7, <1>8, UncertainWakes, WakesThen
<1> QED
  BY <1>3, <1>9, <1>10, LooksWakes DEF Wakes

LEMMA ConflictWakes ==
  ASSUME WakeKnown, NEW c \in page.compiles, Conflict(c)
  PROVE  Wakes(page, page', server)
<1> DEFINE noted == [page EXCEPT !.attempted = @ \cup {c.text}]
           heard == IF server.rev = 0 THEN noted ELSE Handle(noted, server)
<1>1. /\ c.phase = "conflict" /\ Alone(page, c) /\ IsPage(page) /\ IsSession(server)
      /\ FollowFits(page, server)
  BY Busy DEF Conflict, At, WakeKnown, FollowKnown
<1>2. page' \in {Pump(Ends(heard, c)), Failed(noted, c)}
  BY DEF Conflict
<1>3. /\ Keeps(page, noted) /\ noted.compiles = page.compiles /\ noted.job = page.job
      /\ noted.seen = page.seen /\ noted.submitting = page.submitting /\ Aside(page, noted)
  BY <1>1, PageFields DEF IsPage, Whole, Keeps, Aside
<1> HIDE DEF noted
<1>4. WakesOn(page, noted, server)
  BY <1>1, <1>3, KeepsAlike, AlikeWakes
<1>5. Follows(page, noted, server)
  BY <1>1, <1>3, AsideFollows
<1>6. Looks(page, Failed(noted, c), server)
  BY <1>1, <1>3, <1>4, FailedWakes DEF Alone, Keeps, WakeKnown
<1>7. StageFits(server) /\ PointerFits(server, server)
  BY <1>1 DEF WakeKnown, ToldFits, PointerFits, IsSession
<1>8. server.rev # 0 => /\ Wakes(noted, Handle(noted, server), server)
                        /\ IsPage(Handle(noted, server))
  BY <1>1, <1>5, <1>7, HandleSession, HandleFollows DEF Follows, WakeKnown
<1>9. IsPage(heard) /\ WakesOn(page, heard, server)
  BY <1>3, <1>4, <1>8, WakesThen DEF Wakes, Keeps
<1> HIDE DEF heard
<1>10. Looks(page, Pump(Ends(heard, c)), server)
  BY <1>9, EndsLooks DEF WakeKnown
<1> QED
  BY <1>2, <1>6, <1>10, LooksWakes

LEMMA ReconciledWakes ==
  ASSUME WakeKnown, Reconciled
  PROVE  Wakes(page, page', server)
<1> DEFINE waiting == [phase |-> "waiting"]
           heard == Handle(page, server)
           freed == [heard EXCEPT !.pending = [sub |-> 0], !.submitting = FALSE]
           Done(w) == [w EXCEPT !.reconciling = FALSE]
           Resumed(w) == IF waiting \in w.compiles THEN Pump(Ends(Done(w), waiting)) ELSE Done(w)
<1>1. \/ page' = Resumed(page)
      \/ server.rev # 0 /\ page' \in {Resumed(heard), Resumed(Pump(freed))}
  BY DEF Reconciled, Mine
<1>2. IsPage(page) /\ IsSession(server) /\ FollowFits(page, server)
  BY DEF WakeKnown, FollowKnown
<1>3. StageFits(server) /\ PointerFits(server, server)
  BY <1>2 DEF WakeKnown, ToldFits, PointerFits, IsSession
<1>4. Follows(page, heard, server) /\ (server.rev # 0 => Wakes(page, heard, server))
  BY <1>2, <1>3, HandleFollows, HandleSession DEF WakeKnown
<1> HIDE DEF heard
<1>5. server.rev # 0 => IsPage(Pump(freed)) /\ Wakes(page, Pump(freed), server)
  <2> SUFFICES ASSUME server.rev # 0
               PROVE  IsPage(Pump(freed)) /\ Wakes(page, Pump(freed), server)
    OBVIOUS
  <2>1. /\ Keeps(heard, freed) /\ freed.compiles = heard.compiles /\ freed.job = heard.job
        /\ freed.seen = heard.seen /\ freed.submitting = FALSE
    BY <1>4, PageFields DEF Follows, IsPage, Whole, Keeps
  <2>5. Touches(heard, freed)
    BY <1>4, PageFields DEF Follows, IsPage, Whole, Touches
  <2> HIDE DEF freed
  <2>2. WakesOn(heard, freed, server)
    BY <1>4, <2>1, KeepsAlike, SteadyWakes DEF Follows
  <2>3. Wakes(page, Pump(freed), server)
    BY <1>4, <2>1, <2>2, WakesThen, PumpLooks, LooksWakes DEF Wakes, Keeps, WakeKnown
  <2>4. IsPage(Pump(freed))
    <3>1. PageFits(page, paid) /\ Known(page, paid)
      BY PageKnows DEF WakeKnown
    <3>2. Carried(page, Handle(page, server), paid)
      BY <3>1, HandleCarries
    <3>3. Carried(heard, freed, paid)
      BY <2>1, <2>5, <3>2, Untouched DEF Carried, heard
    <3>4. Carried(freed, Pump(freed), paid)
      BY <3>1, <3>2, <3>3, PumpCarries DEF Carried, Known, heard
    <3> QED
      BY <3>4 DEF Carried, PageFits, IsPage
  <2> QED
    BY <2>3, <2>4
<1>6. ASSUME NEW w, IsPage(w), Wakes(page, w, server)
      PROVE  Wakes(page, Resumed(w), server)
  <2>1. /\ Keeps(w, Done(w)) /\ Done(w).compiles = w.compiles /\ Done(w).job = w.job
        /\ Done(w).seen = w.seen /\ Done(w).submitting = w.submitting
        /\ Done(w).pending = w.pending /\ Done(w).attempted = w.attempted
        /\ Done(w).checking = w.checking
    BY <1>6, PageFields DEF IsPage, Whole, Keeps
  <2>2. Resumed(w) \in {Pump(Ends(Done(w), waiting)), Done(w)}
    OBVIOUS
  <2> HIDE DEF Done, waiting, Resumed
  <2>3. WakesOn(w, Done(w), server)
    BY <1>6, <2>1, KeepsAlike, AlikeWakes
  <2>4. Tended(w, server) => Tended(Done(w), server)
    BY <2>1 DEF Tended, Settled, Described, Publishing, Keeps
  <2>5. Wakes(w, Done(w), server)
    BY <2>3, <2>4 DEF Wakes
  <2>6. Wakes(w, Pump(Ends(Done(w), waiting)), server)
    BY <2>1, <2>3, EndsLooks, LooksWakes DEF Keeps, WakeKnown
  <2> QED
    BY <1>6, <2>2, <2>5, <2>6, WakesOver
<1>7. Wakes(page, page, server)
  BY WakesAtRest DEF Wakes
<1> HIDE DEF Resumed, freed
<1> QED
  BY <1>1, <1>2, <1>4, <1>5, <1>6, <1>7 DEF Follows

\* What the page hears it has taken in.
LEMMA HearWakes ==
  ASSUME WakeKnown, PointersFit, Hear
  PROVE  /\ FitsOn(page, page', server)
         /\ Undisturbed(page') /\ WakeFits(page, server) =>
              /\ Tended(page, server) => Tended(page', server)
              /\ TellsAll(page', server, stream')
<1> DEFINE p == stream.said
           heard == Handle(page, p)
           looks == [heard EXCEPT !.reconciling = @ \/ heard.pending.sub # 0]
           Last == p.rev # 0 /\ JobOf(p) = JobOf(server) /\ (Over(server) => Over(p))
<1>1. /\ page' = looks /\ IsPage(page) /\ IsSession(server) /\ FollowFits(page, server)
      /\ stream' = [stream EXCEPT !.due = FALSE, !.up = TRUE, !.revived = FALSE]
  BY DEF Hear, WakeKnown, FollowKnown
<1>2. stream'.said = p
  BY <1>1 DEF PointersFit, Whole
<1>3. PointerFits(p, server) /\ StageFits(p)
  BY DEF Hear, PointersFit, WakeKnown, ToldFits, SaidFits
<1>4. p.rev # 0 => Tells(p, server)
  BY <1>3 DEF Tells, WakeKnown, ToldFits, SaidFits
<1>5. Followed(page) /\ page.known \in Nat \X Nat
  BY <1>1, FollowsFollowed
<1>6. /\ FitsOn(page, heard, server)
      /\ Undisturbed(heard) /\ WakeFits(page, server) =>
           /\ Tended(page, server) => Tended(heard, server)
           /\ Last => TakenIn(heard, server)
  <2>1. LET v == Handle(page, p)
        IN /\ FitsOn(page, v, server)
           /\ Undisturbed(v) /\ WakeFits(page, server) =>
                /\ Tended(page, server) => Tended(v, server)
                /\ p.rev # 0 /\ JobOf(p) = JobOf(server) /\ (Over(server) => Over(p))
                   => TakenIn(v, server)
    BY <1>1, <1>3, <1>4, <1>5, HandleWakes DEF WakeKnown
  <2> QED
    BY <2>1
<1>7. IsPage(heard)
  BY <1>1, <1>3, HandleFollows DEF Follows
<1> HIDE DEF heard
<1>8. /\ Keeps(heard, looks) /\ looks.compiles = heard.compiles /\ looks.job = heard.job
      /\ looks.seen = heard.seen /\ looks.submitting = heard.submitting
      /\ looks.pending = heard.pending /\ looks.attempted = heard.attempted
      /\ looks.checking = heard.checking
  BY <1>7, PageFields DEF IsPage, Whole, Keeps
<1> HIDE DEF looks
<1>9. WakesOn(heard, looks, server)
  BY <1>7, <1>8, KeepsAlike, AlikeWakes
<1>10. Tended(heard, server) => Tended(looks, server)
  BY <1>8 DEF Tended, Settled, Described, Publishing, Keeps
<1>11. server.rev # 0 /\ JobOf(p) = JobOf(server) => p.rev # 0
  BY DEF JobOf
<1> QED
  BY <1>1, <1>2, <1>6, <1>9, <1>10, <1>11 DEF FitsOn, WakesOn, TellsAll

\* A page that has taken in what the session is loses that for a pointer only when it
\* follows a job again whose end it had taken in.
LEMMA LatePointer ==
  ASSUME NEW w, NEW p, NEW s, IsPage(w), IsSession(s), PointerFits(p, s), TakenIn(w, s),
         s.rev # 0, ~(JobOf(p) = JobOf(s) /\ (Over(s) => Over(p)))
  PROVE  LET v == Handle(w, p)
         IN \/ TakenIn(v, s)
            \/ JobOf(p) = JobOf(s) /\ Over(s) /\ w.job # JobOf(p) /\ v.job = JobOf(p)
<1> DEFINE v == Handle(w, p)
           told == [w EXCEPT !.known[1] = p.instance]
           tracks == [w EXCEPT !.known = JobOf(p), !.job = JobOf(p), !.seen = Empty(0)]
<1>1. /\ p.instance = s.instance /\ p.instance \in Nat \ {0} /\ p.rev \in Nat
      /\ s.rev \in Nat /\ p.rev <= s.rev /\ w.known = <<p.instance, s.rev>>
      /\ w.known[1] = p.instance /\ w.known[2] = s.rev
  BY DEF PointerFits, IsSession, TakenIn, JobOf
<1>2. \/ p.rev = 0 /\ v = told
      \/ JobOf(p) = JobOf(s) /\ v = Render(w, p)
      \/ p.rev < s.rev /\ v = w
      \/ JobOf(p) = JobOf(s) /\ v = Render(tracks, p)
  BY <1>1 DEF Handle, JobOf
<1>3. told.known = w.known /\ told.job = w.job
  BY <1>1, PageFields DEF IsPage, Whole
<1>4. /\ IsPage(tracks) /\ tracks.known = JobOf(p) /\ tracks.job = JobOf(p)
  BY PageFields DEF IsPage, Whole
<1> HIDE DEF told, tracks
<1>5. ASSUME ~Over(p), NEW u, IsPage(u)
      PROVE  Render(u, p).known = u.known /\ Render(u, p).job = u.job
  BY <1>5, PageFields DEF Render, IsPage, Whole
<1>6. CASE JobOf(p) # JobOf(s)
  BY <1>2, <1>3, <1>6 DEF TakenIn
<1>7. CASE JobOf(p) = JobOf(s)
  <2>1. Over(s) /\ ~Over(p) /\ w.job = NoJob /\ JobOf(p) # NoJob
    BY <1>1, <1>7 DEF TakenIn, JobOf, NoJob
  <2>2. CASE v = told \/ v = w \/ v = Render(w, p)
    BY <1>3, <1>5, <2>1, <2>2 DEF TakenIn
  <2>3. CASE v = Render(tracks, p)
    BY <1>4, <1>5, <1>7, <2>1, <2>3
  <2> QED
    BY <1>2, <2>2, <2>3
<1> QED
  BY <1>6, <1>7

\* The answer to a poll takes the page's account of the session away only when it revives
\* a job.
LEMMA HearPollWakes ==
  ASSUME WakeKnown, PointersFit, NEW k \in Poll, HearPoll(k)
  PROVE  /\ FitsOn(page, page', server)
         /\ Undisturbed(page') /\ WakeFits(page, server) =>
              /\ Tended(page, server) => Tended(page', server)
              /\ TellsAll(page, server, stream) => TellsAll(page', server, stream')
<1> DEFINE p == poll[k].said
           again == JobOf(p) = JobOf(stream.said) /\ Over(p)
           Last == p.rev # 0 /\ JobOf(p) = JobOf(server) /\ (Over(server) => Over(p))
<1>1. /\ page' = Handle(page, p) /\ IsPage(page) /\ IsSession(server)
      /\ FollowFits(page, server)
      /\ stream' = [stream EXCEPT !.revived = (@ /\ ~again) \/ Revives(page, page', p)]
  BY DEF HearPoll, WakeKnown, FollowKnown
<1>2. /\ stream'.said = stream.said /\ stream'.due = stream.due
      /\ stream'.revived <=> (stream.revived /\ ~again) \/ Revives(page, page', p)
  BY <1>1 DEF PointersFit, Whole, Broken
<1>3. PointerFits(p, server) /\ StageFits(p)
  BY DEF HearPoll, PointersFit, WakeKnown, ToldFits, SaidFits
<1>4. p.rev # 0 => Tells(p, server)
  BY <1>3 DEF Tells, WakeKnown, ToldFits, SaidFits, HearPoll
<1>5. Followed(page) /\ page.known \in Nat \X Nat
  BY <1>1, FollowsFollowed
<1>6. /\ FitsOn(page, page', server)
      /\ Undisturbed(page') /\ WakeFits(page, server) =>
           /\ Tended(page, server) => Tended(page', server)
           /\ Last => TakenIn(page', server)
  <2>1. LET v == Handle(page, p)
        IN /\ FitsOn(page, v, server)
           /\ Undisturbed(v) /\ WakeFits(page, server) =>
                /\ Tended(page, server) => Tended(v, server)
                /\ p.rev # 0 /\ JobOf(p) = JobOf(server) /\ (Over(server) => Over(p))
                   => TakenIn(v, server)
    BY <1>1, <1>3, <1>4, <1>5, HandleWakes DEF WakeKnown
  <2> QED
    BY <1>1, <2>1
<1>7. ASSUME ~Last, server.rev # 0, TakenIn(page, server)
      PROVE  \/ TakenIn(page', server)
             \/ JobOf(p) = JobOf(server) /\ Over(server) /\ page.job # JobOf(p)
                /\ page'.job = JobOf(p)
  <2>1. ~(JobOf(p) = JobOf(server) /\ (Over(server) => Over(p)))
    BY <1>7 DEF JobOf
  <2> QED
    BY <1>1, <1>3, <1>7, <2>1, LatePointer
<1>8. ASSUME Undisturbed(page'), WakeFits(page, server), TellsAll(page, server, stream)
      PROVE  TellsAll(page', server, stream')
  <2> SUFFICES ASSUME ~stream'.due, ~stream'.revived, server.rev # 0,
                      JobOf(stream'.said) = JobOf(server), Over(server) => Over(stream'.said)
               PROVE  TakenIn(page', server)
    BY DEF TellsAll
  <2>1. CASE Last
    BY <1>6, <1>8, <2>1
  <2>2. CASE ~Last
    <3>1. ~again
      BY <1>2, <2>2 DEF JobOf
    <3>2. ~stream.revived /\ ~Revives(page, page', p)
      BY <1>2, <3>1
    <3>3. TakenIn(page, server)
      BY <1>2, <1>8, <3>2 DEF TellsAll
    <3> QED
      BY <1>2, <1>7, <2>2, <3>2, <3>3 DEF Revives
  <2> QED
    BY <2>1, <2>2
<1> QED
  BY <1>6, <1>8

LEMMA TriedWakes ==
  ASSUME NEW w, NEW s, IsPage(w), IsSession(s)
  PROVE  /\ WakesOn(w, Tried(w), s) /\ IsPage(Tried(w)) /\ Tried(w).present = w.present
         /\ WakeFits(w, s) /\ Publishing(w) => Tried(w).completed.tried = TRUE
<1> DEFINE completed == [w.completed EXCEPT !.tried = TRUE]
           v == [w EXCEPT !.completed = completed]
<1>1. v = [w EXCEPT !.completed.tried = TRUE]
  BY PageFields DEF IsPage
<1>2. \/ Tried(w) = v /\ w.completed.job = w.present.job
      \/ Tried(w) = w /\ w.completed.job # w.present.job
  BY <1>1 DEF Tried
<1>3. /\ DOMAIN completed = DOMAIN w.completed
      /\ \A f \in DOMAIN completed : f # "tried" => completed[f] = w.completed[f]
      /\ "tried" \in DOMAIN completed => completed.tried = TRUE
  OBVIOUS
<1> HIDE DEF completed
<1>4. /\ IsPage(v) /\ v.completed = completed /\ v.present = w.present /\ v.latest = w.latest
      /\ v.epoch = w.epoch /\ v.story = w.story /\ v.mic = w.mic /\ v.partial = w.partial
      /\ v.known = w.known /\ v.job = w.job /\ v.seen = w.seen /\ v.compiles = w.compiles
      /\ v.submitting = w.submitting /\ v.overlapped = w.overlapped /\ v.raced = w.raced
  BY PageFields DEF IsPage, Whole
<1> HIDE DEF v
<1>5. WakesOn(w, v, s)
  <2> SUFFICES ASSUME WakeFits(w, s)
               PROVE  WakeFits(v, s) /\ (TakenIn(w, s) => TakenIn(v, s))
    BY <1>4 DEF WakesOn, Undisturbed
  <2>1. IntentFits(v) /\ CallsWake(v) /\ AnswerComesLate(v)
    BY <1>4 DEF WakeFits, IntentFits, Described, CallsWake, Describing, AnswerComesLate
  <2>2. v.completed.job = w.completed.job
    BY <1>3, <1>4 DEF WakeFits, SceneFits
  <2>3. w.completed.job # NoJob =>
          /\ DOMAIN w.completed = {"job", "key", "source", "meaning", "shown", "tried"}
          /\ v.completed.key = w.completed.key /\ v.completed.source = w.completed.source
          /\ v.completed.meaning = w.completed.meaning /\ v.completed.tried = TRUE
    BY <1>3, <1>4 DEF WakeFits, SceneFits
  <2>4. SceneFits(v)
    BY <1>3, <1>4, <2>2, <2>3 DEF WakeFits, SceneFits, Publishing, Described
  <2>5. JobOf(s) # NoJob
    BY DEF JobOf, NoJob, IsSession
  <2>6. BehindFits(v, s)
    BY <1>4, <2>2, <2>3, <2>5 DEF WakeFits, BehindFits
  <2> QED
    BY <1>4, <2>1, <2>4, <2>6 DEF WakeFits, TakenIn
<1>6. WakeFits(w, s) /\ Publishing(w) => v.completed.tried = TRUE
  BY <1>3, <1>4 DEF WakeFits, SceneFits
<1>7. WakeFits(w, s) /\ Publishing(w) => w.completed.job = w.present.job
  BY DEF WakeFits, SceneFits
<1> QED
  BY <1>2, <1>4, <1>5, <1>6, <1>7, WakesAtRest

\* The session's scene is what is described, unless something else is waited for.
LEMMA MayPresentUnless ==
  ASSUME NEW w, NEW s, WakeFits(w, s), Publishing(w), ~Awaits(w, s)
  PROVE  MayPresent(w, s)
<1>1. /\ Described(w) /\ w.latest.final /\ ~Settled(w, s) /\ w.mic = "off"
      /\ w.compiles = {} /\ w.job = NoJob /\ w.pending.sub = 0
  BY DEF Awaits, Settled
<1>2. /\ w.completed.job = w.present.job /\ w.completed.job # NoJob
      /\ w.present.text = w.latest.text /\ w.completed.key = w.latest.text
  BY DEF WakeFits, SceneFits
<1>3. w.completed.job = JobOf(s)
  BY <1>1, <1>2 DEF Settled
<1>4. s.stage = "complete" /\ w.completed.source = s.text
  BY <1>3 DEF WakeFits, BehindFits
<1>5. w.story = w.latest.text /\ ~w.partial /\ ~w.submitting
  BY <1>1 DEF WakeFits, IntentFits, CallsWake
<1>6. Current(w, w.present.text)
  BY <1>1, <1>2, <1>5 DEF Current, Submitting, Described
<1>7. w.completed.key = w.completed.source \/ w.completed.meaning # None
  BY <1>2 DEF WakeFits, SceneFits
<1>8. Matches(w, s, w.present.text)
  BY <1>2, <1>3, <1>4, <1>7 DEF Matches
<1> QED
  BY <1>2, <1>3, <1>4, <1>6, <1>8 DEF MayPresent, StillCurrent

LEMMA PresentPointerWakes ==
  ASSUME WakeKnown, PresentPointer
  PROVE  Wakes(page, page', server)
<1> DEFINE tried == Tried(page)
           asked == [tried.present EXCEPT !.phase = "post"]
           asks == [tried EXCEPT !.present = asked]
<1>1. /\ IsPage(page) /\ IsSession(server) /\ page.present.phase = "pointer"
      /\ "phase" \in DOMAIN page.present
  BY PageKnows DEF PresentPointer, WakeKnown, FollowKnown, PageFits, PresentFits
<1>2. Publishing(page) /\ Idle.phase = "idle"
  BY <1>1 DEF Publishing, Idle
<1>3. /\ WakesOn(page, tried, server) /\ IsPage(tried) /\ tried.present = page.present
      /\ WakeFits(page, server) => tried.completed.tried = TRUE
  BY <1>1, <1>2, TriedWakes
<1>4. [tried EXCEPT !.present.phase = "post"] = asks
  BY <1>3, PageFields DEF IsPage
<1>5. \/ page' = EndPresent(page) /\ ~MayPresent(page, server)
      \/ page' = asks
  BY <1>4 DEF PresentPointer
<1>6. /\ DOMAIN asked = DOMAIN page.present /\ asked.phase = "post"
      /\ "text" \in DOMAIN page.present => asked.text = page.present.text
      /\ "job" \in DOMAIN page.present => asked.job = page.present.job
  BY <1>1, <1>3
<1> HIDE DEF tried, asked
<1>7. /\ IsPage(asks) /\ asks.present = asked /\ asks.latest = tried.latest
      /\ asks.epoch = tried.epoch /\ asks.story = tried.story /\ asks.mic = tried.mic
      /\ asks.partial = tried.partial /\ asks.completed = tried.completed
      /\ asks.known = tried.known /\ asks.job = tried.job /\ asks.seen = tried.seen
      /\ asks.compiles = tried.compiles /\ asks.submitting = tried.submitting
      /\ asks.overlapped = tried.overlapped /\ asks.raced = tried.raced
  BY <1>3, PageFields DEF IsPage, Whole
<1> HIDE DEF asks
<1>8. ASSUME WakeFits(page, server), WakeFits(tried, server)
      PROVE  WakeFits(asks, server)
  <2>1. IntentFits(asks) /\ CallsWake(asks)
    BY <1>7, <1>8 DEF WakeFits, IntentFits, Described, CallsWake, Describing
  <2>2. AnswerComesLate(asks)
    BY <1>6, <1>7, <1>8 DEF WakeFits, AnswerComesLate
  <2>3. Publishing(tried) /\ {"phase", "text", "job"} \subseteq DOMAIN page.present
    BY <1>2, <1>3, <1>8 DEF WakeFits, SceneFits, Publishing
  <2>4. SceneFits(asks)
    BY <1>3, <1>6, <1>7, <1>8, <2>3 DEF WakeFits, SceneFits, Described
  <2>5. BehindFits(asks, server)
    BY <1>7, <1>8 DEF WakeFits, BehindFits
  <2> QED
    BY <2>1, <2>2, <2>4, <2>5 DEF WakeFits
<1>9. WakesOn(page, asks, server)
  BY <1>3, <1>7, <1>8 DEF WakesOn, Undisturbed, TakenIn
<1>10. Tended(asks, server)
  BY <1>2, <1>6, <1>7 DEF Tended, Publishing
<1>11. Looks(page, EndPresent(page), server) \/ MayPresent(page, server)
  BY <1>1, <1>2, MayPresentUnless, EndPresentWakes, WakesAtRest DEF WakeKnown
<1> QED
  BY <1>5, <1>9, <1>10, <1>11, LooksWakes DEF Wakes

\* A presentation ends of which it is known that it was tried.
LEMMA TriedEnds ==
  ASSUME NEW u, NEW w, NEW s, WorkbenchAssumption, IsPage(w), Publishing(w),
         WakesOn(u, w, s),
         Undisturbed(w) /\ WakeFits(u, s) => w.completed.tried = TRUE
  PROVE  Looks(u, EndPresent(w), s)
<1>1. Undisturbed(w) /\ WakeFits(u, s) => Awaits(w, s)
  BY DEF WakesOn, WakeFits, SceneFits, Awaits, Settled
<1> QED
  BY <1>1, EndPresentWakes

LEMMA PresentFailsWakes ==
  ASSUME WakeKnown, PresentFails
  PROVE  Wakes(page, page', server)
<1>1. /\ IsPage(page) /\ IsSession(server) /\ Publishing(page)
      /\ page' = EndPresent(Tried(page))
  BY DEF PresentFails, WakeKnown, FollowKnown, Publishing, Idle
<1>2. /\ WakesOn(page, Tried(page), server) /\ IsPage(Tried(page))
      /\ Tried(page).present = page.present
      /\ WakeFits(page, server) => Tried(page).completed.tried = TRUE
  BY <1>1, TriedWakes
<1>3. Publishing(Tried(page))
  BY <1>1, <1>2 DEF Publishing
<1> QED
  BY <1>1, <1>2, <1>3, TriedEnds, LooksWakes DEF WakeKnown

\* While a scene is being shown, the end of a job wakes nothing.
LEMMA RenderPresents ==
  ASSUME NEW w, NEW p, IsPage(w), Publishing(w)
  PROVE  Render(w, p).present = w.present /\ IsPage(Render(w, p))
<1> DEFINE rendered == [w EXCEPT !.seen = p]
           completed == IF p.stage = "failed" THEN rendered.completed
                        ELSE IF rendered.completed.job = JobOf(p)
                        THEN [rendered.completed EXCEPT !.shown = p.shown]
                        ELSE [job |-> JobOf(p), key |-> p.text, source |-> p.text,
                              meaning |-> IF rendered.active = p.text THEN Meaning[p.text]
                                          ELSE None,
                              shown |-> p.shown, tried |-> FALSE]
           race == Publishing(rendered) /\ rendered.completed.job # JobOf(p)
           ended == [rendered EXCEPT !.job = NoJob, !.active = None, !.completed = completed,
                                     !.raced = @ \/ race]
<1>1. Render(w, p) \in {w, rendered, Pump(ended)}
  BY DEF Render, Finish
<1>2. IsPage(rendered) /\ rendered.present = w.present
  BY PageFields DEF IsPage, Whole
<1> HIDE DEF rendered, completed, race
<1>3. IsPage(ended) /\ ended.present = w.present
  BY <1>2, PageFields DEF IsPage, Whole
<1> HIDE DEF ended
<1>4. Pump(ended) = ended
  BY <1>3 DEF Pump, Publishing
<1> QED
  BY <1>1, <1>2, <1>3, <1>4

LEMMA PresentedWakes ==
  ASSUME WakeKnown, PointersFit, Presented
  PROVE  Wakes(page, page', server)
<1> DEFINE p == page.present.answer
           current == StillCurrent(page) /\ Matches(page, p, page.present.text)
           w == IF current THEN Render(page, p) ELSE page
<1>1. /\ IsPage(page) /\ IsSession(server) /\ FollowFits(page, server) /\ Publishing(page)
      /\ page' = EndPresent(w) /\ page.present.phase = "shown"
  BY DEF Presented, WakeKnown, FollowKnown, Publishing, Idle
<1>2. Over(p) /\ PointerFits(p, server) /\ SaidFits(p, server)
  BY <1>1 DEF PointersFit, WakeKnown, ToldFits
<1>3. IsPage(w) /\ w.present = page.present
  BY <1>1, RenderPresents
<1>4. ASSUME current
      PROVE  WakesOn(page, Render(page, p), server)
  <2>1. page.job = NoJob
    BY <1>4 DEF StillCurrent, Current
  <2>2. WakeFits(page, server) => JobOf(p) = page.present.job
    BY <1>1 DEF WakeFits, SceneFits
  <2>3. WakeFits(page, server) => Meets(page, p)
    BY <1>1, <2>1, <2>2 DEF Meets
  <2>4. CASE p.rev # 0
    <3>1. Tells(p, server)
      BY <1>2, <2>4 DEF Tells, SaidFits
    <3> QED
      BY <1>1, <2>3, <3>1, FollowsFollowed, RenderWakes DEF WakeKnown
  <2>5. p.rev # 0
    BY <1>2 DEF SaidFits, StageFits, Over
  <2> QED
    BY <2>4, <2>5
<1>5. WakesOn(page, w, server)
  BY <1>4, WakesAtRest
<1> HIDE DEF w
<1>6. Undisturbed(w) /\ WakeFits(page, server) => w.completed.tried = TRUE
  <2>1. Undisturbed(w) /\ WakeFits(page, server) => WakeFits(w, server)
    BY <1>5 DEF WakesOn
  <2> QED
    BY <1>1, <1>3, <2>1 DEF WakeFits, SceneFits, Publishing
<1>7. Publishing(w)
  BY <1>1, <1>3 DEF Publishing
<1> QED
  BY <1>1, <1>3, <1>5, <1>6, <1>7, TriedEnds, LooksWakes DEF WakeKnown

-----------------------------------------------------------------------------
(* Steps of the session.                                                   *)

\* Another job of the session, or the same one that may have ended.
LaterJob(s, t) ==
  /\ JobOf(s) \in Nat \X Nat /\ JobOf(t) \in Nat \X Nat
  /\ Before(JobOf(s), JobOf(t)) /\ JobOf(t) # JobOf(s)
SameJob(s, t) == JobOf(t) = JobOf(s) /\ t.text = s.text /\ (Over(s) => t.stage = s.stage)

LEMMA BeforeOn ==
  ASSUME NEW j \in Nat \X Nat, NEW k \in Nat \X Nat, NEW l \in Nat \X Nat,
         Before(j, k), Before(k, l)
  PROVE  Before(j, l) /\ (k # l => j # l) /\ (j = l => k = l)
<1>1. j = <<j[1], j[2]>> /\ k = <<k[1], k[2]>> /\ l = <<l[1], l[2]>>
  OBVIOUS
<1>2. j[1] \in Nat /\ j[2] \in Nat /\ k[1] \in Nat /\ k[2] \in Nat /\ l[1] \in Nat /\ l[2] \in Nat
  OBVIOUS
<1>3. Before(j, l)
  BY <1>2 DEF Before
<1>4. j = l => k[1] = l[1] /\ k[2] = l[2]
  BY <1>2 DEF Before
<1> QED
  BY <1>1, <1>3, <1>4

LEMMA SaidGoesOn ==
  ASSUME NEW p, NEW s, NEW t, SaidFits(p, s), LaterJob(s, t) \/ SameJob(s, t)
  PROVE  SaidFits(p, t) /\ (LaterJob(s, t) => JobOf(p) # JobOf(t))
<1>1. CASE LaterJob(s, t)
  <2>1. Before(JobOf(p), JobOf(t)) /\ JobOf(p) # JobOf(t)
    BY <1>1, BeforeOn DEF SaidFits, LaterJob
  <2> QED
    BY <2>1 DEF SaidFits
<1>2. CASE SameJob(s, t) /\ ~LaterJob(s, t)
  BY <1>2 DEF SaidFits, SameJob, Over
<1> QED
  BY <1>1, <1>2

LEMMA LaterJobWakes ==
  ASSUME NEW w, NEW s, NEW t, LaterJob(s, t), w.known \in Nat \X Nat, WakeFits(w, s)
  PROVE  WakeFits(w, t) /\ Tended(w, t) /\ w.known # JobOf(t)
<1>1. Before(w.known, JobOf(s)) /\ (w.known[1] = 0 => w.known = NoJob)
  BY DEF WakeFits, BehindFits
<1>2. Before(w.known, JobOf(t)) /\ w.known # JobOf(t)
  BY <1>1, BeforeOn DEF LaterJob
<1>3. w.completed.job # JobOf(t)
  <2>1. CASE w.completed.job = NoJob
    <3>1. JobOf(s) # NoJob => ~Before(JobOf(s), NoJob)
      <4>1. JobOf(s) = <<JobOf(s)[1], JobOf(s)[2]>> /\ JobOf(s)[1] \in Nat /\ JobOf(s)[2] \in Nat
        BY DEF LaterJob
      <4> QED
        BY <4>1 DEF Before, NoJob
    <3> QED
      BY <2>1, <3>1 DEF LaterJob
  <2>2. CASE w.completed.job # NoJob
    <3>1. w.completed.job \in Nat \X Nat /\ Before(w.completed.job, w.known)
      BY <2>2 DEF WakeFits, SceneFits
    <3> QED
      BY <1>2, <3>1, BeforeOn DEF LaterJob
  <2> QED
    BY <2>1, <2>2
<1>4. BehindFits(w, t)
  BY <1>1, <1>2, <1>3 DEF WakeFits, BehindFits
<1> QED
  BY <1>2, <1>4 DEF WakeFits, Tended

LEMMA SameJobWakes ==
  ASSUME NEW w, NEW s, NEW t, SameJob(s, t), WakeFits(w, s)
  PROVE  WakeFits(w, t) /\ (Tended(w, s) => Tended(w, t))
<1>1. BehindFits(w, t)
  BY DEF WakeFits, BehindFits, SameJob, Over
<1>2. t.rev = s.rev
  BY DEF SameJob, JobOf
<1> QED
  BY <1>1, <1>2 DEF WakeFits, Tended, Settled, SameJob

\* What a step of the session leaves of WakeInv.
Stirs ==
  /\ ToldFits'
  /\ Undisturbed(page') /\ (Undisturbed(page) =>
       WakeFits(page, server) /\ Tended(page, server) /\ TellsAll(page, server, stream)) =>
       WakeFits(page', server') /\ Tended(page', server') /\ TellsAll(page', server', stream')

\* What a poll was told fits a session that goes on.
LEMMA PollsGoOn ==
  ASSUME ToldFits, NEW t, LaterJob(server, t) \/ SameJob(server, t)
  PROVE  \A k \in Poll : poll[k].phase = "answered" => SaidFits(poll[k].said, t)
BY SaidGoesOn DEF ToldFits

\* A connection that has told nothing.
LEMMA BrokenTells ==
  ASSUME NEW s, s.instance \in Nat \ {0}, s.rev \in Nat, NEW w
  PROVE  SaidFits(Broken.said, s) /\ TellsAll(w, s, Broken)
<1>1. /\ Broken.said.instance = 0 /\ Broken.said.rev = 0 /\ Broken.said.stage = "none"
  BY DEF Broken, Empty
<1>2. JobOf(Broken.said) = <<0, 0>> /\ JobOf(s) = <<s.instance, s.rev>>
  BY <1>1 DEF JobOf
<1> QED
  BY <1>1, <1>2 DEF SaidFits, StageFits, Over, Before, TellsAll

\* The session gets another job, or its job ends.
LEMMA OthersStir ==
  ASSUME WakeKnown, JobEnds \/ (\E text \in Elsewhere : OtherJob(text)) \/ Restart
  PROVE  Stirs
<1>1. /\ Whole(server) /\ DOMAIN server = DOMAIN Empty(1)
      /\ server.instance \in Nat \ {0} /\ server.rev \in Nat
      /\ page.known \in Nat \X Nat /\ UNCHANGED <<poll, page>>
  BY FollowsFollowed DEF IInv, ServerFits, JobEnds, OtherJob, Restart, WakeKnown, FollowKnown
<1>2. JobOf(server) \in Nat \X Nat /\ SaidFits(stream.said, server) /\ ToldFits
  BY <1>1 DEF JobOf, WakeKnown, ToldFits
<1>3. CASE JobEnds
  <2>1. /\ server.stage = "working" /\ server'.stage \in {"complete", "failed"}
        /\ UNCHANGED stream
    BY <1>1, <1>3 DEF JobEnds, Empty
  <2>2. SameJob(server, server') /\ server'.rev = server.rev
    BY <1>1, <1>3, <2>1 DEF JobEnds, Empty, Whole, SameJob, JobOf, Over
  <2>3. SaidFits(stream.said, server') /\ StageFits(server')
    BY <1>2, <2>1, <2>2, SaidGoesOn DEF StageFits, Over, ToldFits
  <2>4. page.present.phase = "shown" => SaidFits(page.present.answer, server')
    BY <1>2, <2>2, SaidGoesOn DEF ToldFits
  <2>5. ToldFits'
    BY <1>1, <1>2, <2>1, <2>2, <2>3, <2>4, PollsGoOn DEF ToldFits
  <2>6. TellsAll(page, server', stream)
    BY <1>2, <2>1, <2>2 DEF TellsAll, SaidFits, SameJob, Over
  <2> QED
    BY <1>1, <2>1, <2>2, <2>5, <2>6, SameJobWakes DEF Stirs
<1>4. CASE (\E text \in Elsewhere : OtherJob(text)) \/ Restart
  <2>1. LaterJob(server, server')
    BY <1>1, <1>4 DEF OtherJob, Restart, Empty, LaterJob, JobOf, Before
  <2>2. StageFits(server') /\ server'.instance \in Nat \ {0} /\ server'.rev \in Nat
    BY <1>1, <1>4 DEF OtherJob, Restart, Empty, StageFits
  <2>3. stream' = stream \/ stream' = Broken
    BY <1>4 DEF OtherJob, Restart
  <2>4. SaidFits(stream'.said, server') /\ TellsAll(page, server', stream')
    <3>1. CASE stream' = stream
      BY <1>2, <2>1, <3>1, SaidGoesOn DEF TellsAll
    <3>2. CASE stream' = Broken
      BY <2>2, <3>2, BrokenTells
    <3> QED
      BY <2>3, <3>1, <3>2
  <2>5. page.present.phase = "shown" => SaidFits(page.present.answer, server')
    BY <1>2, <2>1, SaidGoesOn DEF ToldFits
  <2>6. ToldFits'
    BY <1>1, <1>2, <2>1, <2>2, <2>4, <2>5, PollsGoOn DEF ToldFits
  <2> QED
    BY <1>1, <2>1, <2>4, <2>6, LaterJobWakes DEF Stirs
<1> QED
  BY <1>3, <1>4

LEMMA TransportStirs ==
  ASSUME WakeKnown, PointersFit, Transport
  PROVE  Stirs
<1>1. /\ server.instance \in Nat \ {0} /\ server.rev \in Nat
      /\ UNCHANGED <<server, page>> /\ ToldFits
  BY TransportKeeps DEF IInv, ServerFits, WakeKnown
<1>2. SaidFits(server, server)
  BY <1>1 DEF SaidFits, JobOf, Before, ToldFits
<1>3. /\ SaidFits(stream'.said, server)
      /\ TellsAll(page, server, stream) => TellsAll(page, server, stream')
  <2>1. CASE Tell
    <3>1. stream'.said = server /\ stream'.due = TRUE
      BY <2>1 DEF Tell, PointersFit, Broken, Whole
    <3> QED
      BY <1>2, <3>1 DEF TellsAll
  <2>2. CASE Disconnect
    BY <1>1, <2>2, BrokenTells DEF Disconnect
  <2>3. CASE \E k \in Poll : AskPoll(k) \/ AnswerPoll(k)
    BY <1>1, <2>3 DEF AskPoll, AnswerPoll, ToldFits
  <2> QED
    BY <2>1, <2>2, <2>3 DEF Transport
<1>4. \A k \in Poll : poll'[k].phase = "answered" => SaidFits(poll'[k].said, server)
  BY <1>1, <1>2
     DEF Transport, Tell, Disconnect, AskPoll, AnswerPoll, PointersFit, ToldFits, NoPoll
<1>5. ToldFits'
  BY <1>1, <1>3, <1>4 DEF ToldFits
<1> QED
  BY <1>1, <1>3, <1>5 DEF Stirs

\* The registry answers a submission.
LEMMA ServeStirs ==
  ASSUME WakeKnown, NEW c \in page.compiles, Serve(c)
  PROVE  Stirs
<1>1. /\ IsPage(page) /\ server.instance \in Nat /\ server.rev \in Nat
      /\ page.known \in Nat \X Nat /\ c.phase = "post" /\ UNCHANGED <<stream, poll>>
      /\ Whole(c) /\ RequestFits(page, c, server)
  BY PageKnows, FollowsFollowed
     DEF IInv, ServerFits, Serve, At, WakeKnown, FollowKnown, FollowFits, PageFits, CallsFit
<1> DEFINE job == [instance |-> server.instance, rev |-> server.rev + 1, text |-> c.text,
                   sub |-> c.sub, stage |-> "working", shown |-> FALSE]
<1>2. PICK a \in {"accepted", "lost", "conflict", "refused"} :
        /\ page' = Moves(page, c, [c EXCEPT !.phase = a])
        /\ \/ c.prior = JobOf(server) /\ server' = job
           \/ server' = server /\ a # "accepted"
  BY DEF Serve
<1> DEFINE to == [c EXCEPT !.phase = a]
<1>3. to.phase = a /\ to.prior = c.prior
  BY <1>1 DEF RequestFits, Whole
<1>4. page' = Moves(page, c, to)
  BY <1>2
<1> HIDE DEF to
<1>5. /\ Alike(page, page') /\ page'.job = page.job /\ page'.seen = page.seen
      /\ page'.compiles = (page.compiles \ {c}) \cup {to}
      /\ page'.latest = page.latest
  BY <1>1, <1>4, PageFields DEF IsPage, Whole, Moves, Alike, SameIntent, Undisturbed
<1>6. \A s : page'.compiles # {} /\ Tended(page', s)
  BY <1>5 DEF Tended
<1>7. CASE server' = server /\ a # "accepted"
  <2>1. NoAnswer(to)
    BY <1>3, <1>7 DEF NoAnswer
  <2>2. WakesOn(page, page', server)
    BY <1>5, <1>6, <2>1, SteadyWakes
  <2>3. ToldFits'
    BY <1>1, <1>5, <1>7 DEF WakeKnown, ToldFits, Alike
  <2>4. TakenIn(page, server) => TakenIn(page', server)
    BY <1>5 DEF TakenIn, Alike
  <2> QED
    BY <1>1, <1>6, <1>7, <2>2, <2>3, <2>4 DEF Stirs, WakesOn, TellsAll
<1>8. CASE c.prior = JobOf(server) /\ server' = job
  <2>1. LaterJob(server, server') /\ JobOf(server') = Submitted(to)
    BY <1>1, <1>3, <1>8 DEF LaterJob, JobOf, Before, Submitted
  <2>2. StageFits(server')
    BY <1>1, <1>8 DEF StageFits
  <2>3. ToldFits'
    BY <1>1, <1>5, <2>1, <2>2, SaidGoesOn, PollsGoOn DEF WakeKnown, ToldFits, Alike
  <2>4. TellsAll(page', server', stream)
    BY <2>1, SaidGoesOn DEF TellsAll, WakeKnown, ToldFits
  <2>5. ASSUME WakeFits(page, server)
        PROVE  WakeFits(page', server')
    <3>1. WakeFits(page, server') /\ page.known # JobOf(server')
      BY <1>1, <2>1, <2>5, LaterJobWakes
    <3>2. IntentFits(page') /\ SceneFits(page')
      BY <1>5, <3>1, AlikeFits DEF WakeFits
    <3>3. CallsWake(page')
      BY <1>3, <1>5, <1>6, <3>1 DEF WakeFits, CallsWake, Describing
    <3>4. AnswerComesLate(page')
      BY <1>5, <2>1, <3>1 DEF WakeFits, AnswerComesLate, Alike
    <3>5. BehindFits(page', server')
      BY <1>5, <3>1 DEF WakeFits, BehindFits, Alike
    <3> QED
      BY <3>2, <3>3, <3>4, <3>5 DEF WakeFits
  <2> QED
    BY <1>1, <1>5, <1>6, <2>3, <2>4, <2>5 DEF Stirs, Alike
<1> QED
  BY <1>2, <1>7, <1>8

\* The registry shows the scene that the page asks it to, or does not have it any more.
LEMMA ServePresentStirs ==
  ASSUME WakeKnown, ServePresent
  PROVE  Stirs
<1>1. /\ IsPage(page) /\ Whole(server) /\ DOMAIN server = DOMAIN Empty(1)
      /\ server.instance \in Nat /\ server.rev \in Nat
      /\ page.known \in Nat \X Nat /\ page.present.phase = "post" /\ UNCHANGED <<stream, poll>>
      /\ Whole(page.present) /\ {"phase", "text", "job"} \subseteq DOMAIN page.present
  BY PageKnows, FollowsFollowed
     DEF IInv, ServerFits, ServePresent, WakeKnown, FollowKnown, PageFits, PresentFits,
         Publishing, Idle
<1>2. PICK p : /\ page' = [page EXCEPT !.present = p]
               /\ {"phase", "text", "job"} \subseteq DOMAIN p
               /\ p.job = page.present.job /\ p.text = page.present.text
               /\ \/ p.phase = "failed"
                  \/ p.phase = "shown" /\ p.answer = server' /\ p.job = JobOf(server)
  <2>1. CASE page' = [page EXCEPT !.present.phase = "failed"]
    <3> DEFINE p == [page.present EXCEPT !.phase = "failed"]
    <3>1. /\ {"phase", "text", "job"} \subseteq DOMAIN p /\ p.phase = "failed"
          /\ p.job = page.present.job /\ p.text = page.present.text
      BY <1>1 DEF Whole
    <3>2. page' = [page EXCEPT !.present = p]
      BY <2>1
    <3> HIDE DEF p
    <3> QED
      BY <3>1, <3>2
  <2>2. CASE /\ page' = [page EXCEPT !.present = [phase |-> "shown", text |-> @.text,
                                                  job |-> @.job, answer |-> server']]
             /\ JobOf(server) = page.present.job
    <3> DEFINE p == [phase |-> "shown", text |-> page.present.text,
                     job |-> page.present.job, answer |-> server']
    <3>1. /\ {"phase", "text", "job"} \subseteq DOMAIN p /\ p.phase = "shown"
          /\ p.job = page.present.job /\ p.text = page.present.text /\ p.answer = server'
      OBVIOUS
    <3>2. page' = [page EXCEPT !.present = p]
      BY <2>2
    <3> HIDE DEF p
    <3> QED
      BY <2>2, <3>1, <3>2
  <2> QED
    BY <2>1, <2>2 DEF ServePresent
<1>3. SameJob(server, server') /\ server'.stage = server.stage /\ server'.rev = server.rev
  <2>1. CASE server' = [server EXCEPT !.shown = TRUE]
    BY <1>1, <2>1 DEF SameJob, JobOf, Whole, Empty
  <2> QED
    BY <2>1 DEF ServePresent, SameJob
<1>4. /\ page'.present = p /\ Publishing(page') /\ Publishing(page)
      /\ p.phase \in {"shown", "failed"}
  BY <1>1, <1>2, PageFields DEF IsPage, Whole, Publishing, Idle
<1>5. /\ page'.latest = page.latest /\ page'.overlapped = page.overlapped
      /\ page'.raced = page.raced /\ page'.epoch = page.epoch /\ page'.story = page.story
      /\ page'.mic = page.mic /\ page'.partial = page.partial
      /\ page'.completed = page.completed /\ page'.known = page.known
      /\ page'.job = page.job /\ page'.seen = page.seen
      /\ page'.compiles = page.compiles /\ page'.submitting = page.submitting
  BY <1>1, <1>2, PageFields DEF IsPage, Whole
<1>6. JobOf(server') = JobOf(server) /\ JobOf(server) \in Nat \X Nat
  BY <1>1, <1>3 DEF SameJob, JobOf
<1>7. ToldFits'
  <2>1. StageFits(server') /\ SaidFits(stream.said, server')
    BY <1>3, SaidGoesOn DEF WakeKnown, ToldFits, StageFits, Over
  <2>2. SaidFits(server', server')
    BY <1>1, <1>6, <2>1 DEF SaidFits, Before, JobOf
  <2>3. \A k \in Poll : poll[k].phase = "answered" => SaidFits(poll[k].said, server')
    BY <1>3, PollsGoOn DEF WakeKnown
  <2> QED
    BY <1>1, <1>2, <1>4, <2>1, <2>2, <2>3 DEF ToldFits
<1>8. ASSUME WakeFits(page, server)
      PROVE  WakeFits(page', server')
  <2>1. IntentFits(page') /\ CallsWake(page')
    BY <1>5, <1>8 DEF WakeFits, IntentFits, Described, CallsWake, Describing
  <2>2. SceneFits(page')
    BY <1>1, <1>2, <1>4, <1>5, <1>6, <1>8 DEF WakeFits, SceneFits, Described
  <2>3. p.phase = "shown" => p.job = page.known
    <3>1. ASSUME p.phase = "shown"
          PROVE  p.job = page.known
      <4>1. /\ p.job = JobOf(server) /\ Before(p.job, page.known)
            /\ Before(page.known, JobOf(server))
        BY <1>2, <1>4, <3>1, <1>8 DEF WakeFits, SceneFits, BehindFits
      <4> QED
        BY <1>1, <1>6, <4>1, BeforeOn
    <3> QED
      BY <3>1
  <2>4. AnswerComesLate(page')
    BY <1>4, <1>5, <1>8, <2>3 DEF WakeFits, AnswerComesLate
  <2>5. BehindFits(page', server)
    BY <1>5, <1>8 DEF WakeFits, BehindFits
  <2>6. WakeFits(page', server)
    BY <2>1, <2>2, <2>4, <2>5 DEF WakeFits
  <2> QED
    BY <1>3, <2>6, SameJobWakes
<1>9. Tended(page', server')
  BY <1>4 DEF Tended
<1>10. TellsAll(page, server, stream) => TellsAll(page', server', stream)
  BY <1>3, <1>5, <1>6 DEF TellsAll, TakenIn, Over
<1> QED
  BY <1>1, <1>5, <1>7, <1>8, <1>9, <1>10 DEF Stirs, Undisturbed

\* What a step uses up, and what it tells the page.
LEMMA StepMarks ==
  ASSUME Next
  PROVE  /\ UNCHANGED done \/ Trouble \/ Click
         /\ UNCHANGED stream \/ Hear \/ HearsPoll \/ Restart \/ Transport
<1>1. CASE PressStart \/ Started \/ StartFails \/ PartialBegins \/ Stop \/ TimerFires
  BY <1>1 DEF PressStart, Started, StartFails, PartialBegins, Stop, TimerFires
<1>2. CASE Partials \/ Finals \/ QueuedCheck
  BY <1>2 DEF Partials, PartialHeard, PartialFails, Finals, FinalHeard, FinalFails,
              QueuedCheck, QueuedChecked
<1>3. CASE (\E text \in Text : Edit(text)) \/ PressGenerate \/ PressCheckStatus
  BY <1>3 DEF Edit, PressGenerate, PressCheckStatus
<1>4. ASSUME NEW c \in page.compiles, CompileStep(c)
      PROVE  (UNCHANGED done \/ Trouble) /\ UNCHANGED stream
  <2>1. CASE \/ \E fine \in BOOLEAN : Checked(c, fine)
             \/ PriorRead(c) \/ PriorFails(c) \/ Accepted(c) \/ Lost(c) \/ Refused(c)
    BY <2>1 DEF Checked, PriorRead, PriorFails, Accepted, Lost, Refused
  <2>2. CASE Serve(c) \/ Conflict(c)
    BY <2>2 DEF Serve, Conflict, NoTrouble
  <2> QED
    BY <1>4, <2>1, <2>2 DEF CompileStep
<1>5. CASE Reconciled
  BY <1>5 DEF Reconciled, NoTrouble
<1>6. CASE PresentStep
  BY <1>6 DEF PresentStep, PresentPointer, ServePresent, Presented, PresentFails, NoTrouble
<1>7. CASE JobEnds \/ (\E text \in Elsewhere : OtherJob(text)) \/ Restart \/ Hear \/ HearsPoll
  BY <1>7 DEF JobEnds, OtherJob, Restart, Hear, HearsPoll, HearPoll, NoTrouble
<1>8. CASE Transport
  BY <1>8 DEF Transport, Tell, Disconnect, AskPoll, AnswerPoll
<1> QED
  BY <1>1, <1>2, <1>3, <1>4, <1>5, <1>6, <1>7, <1>8 DEF Next, Transport, PollStep, HearsPoll

LEMMA DoneGoesOn ==
  ASSUME Next, done.clicks \in Nat, DOMAIN done = {"clicks", "trouble"}
  PROVE  /\ done'.clicks \in Nat /\ DOMAIN done' = {"clicks", "trouble"}
         /\ done'.clicks = 0 => done.clicks = 0 /\ ~Click
<1>1. CASE UNCHANGED done \/ Trouble
  BY <1>1 DEF Trouble, Click
<1>2. CASE Click
  BY <1>2 DEF Click
<1> QED
  BY <1>1, <1>2, StepMarks

\* Steps of the page alone that nobody clicked for.
LEMMA HandlersWake ==
  ASSUME WakeKnown, PointersFit, Next, ~Click, ~SessionStirs, ~Hear, ~HearsPoll
  PROVE  Wakes(page, page', server)
<1>1. CASE PressStart \/ Started \/ StartFails \/ PartialBegins \/ Stop \/ FinalFails
  BY <1>1, MarksWake
<1>2. CASE Partials \/ TimerFires \/ (\E text \in Text : FinalHeard(text)) \/ QueuedCheck
           \/ Reconciled
  BY <1>2, PartialsWake, TimerWakes, FinalHeardWakes, QueuedCheckWakes, ReconciledWakes
<1>3. ~\E text \in Text : Edit(text)
  BY DEF Edit
<1>4. ~PressGenerate /\ ~PressCheckStatus
  BY DEF PressGenerate, PressCheckStatus
<1>5. ASSUME NEW c \in page.compiles, CompileStep(c)
      PROVE  Wakes(page, page', server)
  BY <1>5, CheckedWakes, PriorReadWakes, AnswersWake, AcceptedWakes, ConflictWakes
     DEF CompileStep, SessionStirs
<1>6. CASE PresentStep
  BY <1>6, PresentPointerWakes, PresentedWakes, PresentFailsWakes DEF PresentStep, SessionStirs
<1> QED
  BY <1>1, <1>2, <1>3, <1>4, <1>5, <1>6
     DEF Next, Finals, SessionStirs, Transport, PollStep, HearsPoll

\* The page goes on, and what it was told last is told still.
LEMMA ToldGoesOn ==
  ASSUME ToldFits, PageGoesOn, stream'.said = stream.said
  PROVE  ToldFits'
BY DEF ToldFits, PageGoesOn, NothingNew

LEMMA WakeStep ==
  ASSUME WorkbenchAssumption, IInv, FollowInv, WakeInv, [Next]_vars
  PROVE  WakeInv'
<1>1. WakeKnown /\ PointersFit
  BY PageHolds DEF WakeKnown, WakeInv, FollowInv
<1>2. CASE UNCHANGED vars
  BY <1>2 DEF vars, WakeInv, ToldFits
<1> SUFFICES ASSUME Next, ~UNCHANGED vars
             PROVE  WakeInv'
  BY <1>2
<1>3. /\ done'.clicks \in Nat /\ DOMAIN done' = {"clicks", "trouble"}
      /\ done'.clicks = 0 => done.clicks = 0 /\ ~Click
  BY DoneGoesOn DEF WakeInv
<1>4. CASE SessionStirs
  <2>1. Stirs
    BY <1>1, <1>4, ServeStirs, ServePresentStirs, OthersStir, TransportStirs DEF SessionStirs
  <2> QED
    BY <1>3, <2>1 DEF Stirs, WakeInv
<1>5. CASE ~SessionStirs
  <2>1. PageGoesOn
    BY <1>5, StepGoesOn
  <2>2. UNCHANGED server
    BY <2>1 DEF PageGoesOn
  <2>3. CASE Hear
    <3>1. stream' = [stream EXCEPT !.due = FALSE, !.up = TRUE, !.revived = FALSE]
      BY <2>3 DEF Hear
    <3>2. stream'.said = stream.said
      BY <1>1, <3>1 DEF PointersFit, Whole
    <3>3. ToldFits'
      BY <1>1, <2>1, <3>2, ToldGoesOn DEF WakeKnown
    <3>4. /\ FitsOn(page, page', server)
          /\ Undisturbed(page') /\ WakeFits(page, server) =>
               /\ Tended(page, server) => Tended(page', server)
               /\ TellsAll(page', server, stream')
      BY <1>1, <2>3, HearWakes
    <3> QED
      BY <1>3, <2>2, <3>3, <3>4 DEF WakeInv, FitsOn
  <2>5. ASSUME NEW k \in Poll, HearPoll(k)
        PROVE  WakeInv'
    <3>1. stream'.said = stream.said
      BY <1>1, <2>5 DEF HearPoll, PointersFit, Whole
    <3>2. ToldFits'
      BY <1>1, <2>1, <3>1, ToldGoesOn DEF WakeKnown
    <3>3. /\ FitsOn(page, page', server)
          /\ Undisturbed(page') /\ WakeFits(page, server) =>
               /\ Tended(page, server) => Tended(page', server)
               /\ TellsAll(page, server, stream) => TellsAll(page', server, stream')
      BY <1>1, <2>5, HearPollWakes
    <3> QED
      BY <1>3, <2>2, <3>2, <3>3 DEF WakeInv, FitsOn
  <2>4. CASE ~Hear /\ ~HearsPoll
    <3>1. UNCHANGED stream
      BY <1>5, <2>4, StepMarks DEF SessionStirs
    <3>2. ToldFits'
      BY <1>1, <2>1, <3>1, ToldGoesOn DEF WakeKnown
    <3>3. ~Click => Wakes(page, page', server)
      BY <1>1, <1>5, <2>4, HandlersWake
    <3> QED
      BY <1>3, <2>2, <3>1, <3>2, <3>3 DEF WakeInv, Wakes, WakesOn, TellsAll
  <2> QED
    BY <2>3, <2>4, <2>5 DEF HearsPoll
<1> QED
  BY <1>4, <1>5

LEMMA InitWakes ==
  ASSUME Init
  PROVE  WakeInv
<1>1. page = Loaded /\ server = Empty(1) /\ stream = [Broken EXCEPT !.said = Empty(1), !.up = TRUE]
      /\ done = [clicks |-> 0, trouble |-> 0]
  BY DEF Init
<1>2. /\ Loaded.compiles = {} /\ Loaded.known = <<0, 0>> /\ Loaded.job = <<0, 0>>
      /\ Loaded.submitting = FALSE /\ Loaded.latest = [text |-> None] /\ Loaded.mic = "off"
      /\ Loaded.present = Idle /\ Loaded.completed = [job |-> <<0, 0>>] /\ Loaded.partial = FALSE
  BY DEF Loaded, NoJob, NoIntent
<1>3. Idle.phase = "idle"
  BY DEF Idle
<1>4. /\ Empty(1).rev = 0 /\ Empty(1).stage = "none" /\ JobOf(Empty(1)) = <<1, 0>>
  BY DEF Empty, JobOf
<1>9. stream.said = Empty(1) /\ \A k \in Poll : poll[k].phase = "none"
  BY <1>1 DEF Init, Broken, NoPoll
<1>5. ToldFits
  BY <1>1, <1>2, <1>3, <1>4, <1>9 DEF ToldFits, StageFits, SaidFits, Before, Over
<1>6. IntentFits(Loaded) /\ CallsWake(Loaded) /\ SceneFits(Loaded) /\ AnswerComesLate(Loaded)
  BY <1>2 DEF IntentFits, CallsWake, Describing, SceneFits, AnswerComesLate, Described,
              Publishing, NoJob
<1>7. BehindFits(Loaded, Empty(1))
  BY <1>2, <1>4 DEF BehindFits, Before, NoJob
<1>8. Tended(Loaded, Empty(1)) /\ TellsAll(Loaded, Empty(1), stream)
  BY <1>4 DEF Tended, TellsAll
<1> QED
  BY <1>1, <1>5, <1>6, <1>7, <1>8 DEF WakeInv, WakeFits

\* What the page was told last is what the session is: nobody is waited for.
LEMMA QuietSettles ==
  ASSUME WakeInv
  PROVE  FinalDescriptionSettles
<1> SUFFICES ASSUME Quiet, Described(page), page.latest.final, server.rev # 0,
                    Undisturbed(page), ~stream.revived, done.clicks = 0
             PROVE  Settled(page, server)
  BY DEF WakeInv, FinalDescriptionSettles, Undisturbed
<1>1. Tended(page, server) /\ TellsAll(page, server, stream) /\ StageFits(server)
  BY DEF WakeInv, ToldFits
<1>2. Over(server)
  BY <1>1 DEF StageFits, Quiet
<1>3. TakenIn(page, server)
  BY <1>1, <1>2 DEF TellsAll, Quiet
<1> QED
  BY <1>1, <1>2, <1>3 DEF Tended, TakenIn, Quiet, Publishing

\* No wake-up is lost: a final description that nobody will look at again is shown,
\* refused, attempted, replaced by another client or perhaps accepted already, unless the
\* service was restarted, a job ended during a presentation, the button was pressed,
\* calls have overlapped, or the late answer to a poll has made the page follow a job
\* again that it had seen the end of (pumpVoiceGeneration and its callers).
THEOREM FinalDescriptionsSettle == Spec => []FinalDescriptionSettles
<1>1. Init => WakeInv
  BY InitWakes
<1>2. IInv /\ FollowInv /\ WakeInv /\ [Next]_vars => WakeInv'
  BY WorkbenchAssumption, WakeStep
<1>3. Init => FollowInv
  BY InitFollows
<1>4. IInv /\ FollowInv /\ [Next]_vars => FollowInv'
  BY FollowStep
<1>5. WakeInv => FinalDescriptionSettles
  BY QuietSettles
<1> QED
  BY <1>1, <1>2, <1>3, <1>4, <1>5, Inductive, PTL DEF Spec
=============================================================================
