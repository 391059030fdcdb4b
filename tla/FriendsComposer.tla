--------------------------- MODULE FriendsComposer --------------------------
(***************************************************************************)
(* Writing on the friends page (static/friends.js): the text, the preview  *)
(* that follows it after a pause, and a message that is sent meanwhile.    *)
(***************************************************************************)
EXTENDS Integers, FiniteSets

CONSTANTS
  Writing,      \* texts that are not blank
  MaxEdits,     \* bound: changes of the text, the checkbox and the past receipts reused
  MaxSends      \* bound: messages sent

\* What the constants may be.
ComposerAssumption == Writing # {} /\ {MaxEdits, MaxSends} \subseteq Nat

Blank == "blank"

VARIABLES
  body, anon,   \* the text box and the checkbox
  timer,        \* previewTimer is set
  seq,          \* previewSeq
  previews,     \* /api/preview in flight: [seq, shows, done, ok]
  paper,        \* the receipt on view: the set of one [body, anon], or {}
  progress,     \* "idle", "typing", "rendering", "ready" or "failed"
  sending,      \* the submission in flight: the set of one [receipt, done, ok], or {}
  edits, sends

vars == <<body, anon, timer, seq, previews, paper, progress, sending, edits, sends>>

Init ==
  /\ body = Blank /\ anon = FALSE /\ timer = FALSE /\ seq = 0 /\ previews = {}
  /\ paper = {} /\ progress = "idle" /\ sending = {} /\ edits = 0 /\ sends = 0

Receipt == [body |-> body, anon |-> anon]

\* schedulePreview
Schedule == timer' = TRUE /\ progress' = "typing" /\ UNCHANGED <<seq, previews, paper>>

\* The text changes, by typing or by reusing a past receipt, or the checkbox.
Edit ==
  /\ edits < MaxEdits /\ edits' = edits + 1 /\ Schedule /\ UNCHANGED <<sending, sends>>
  /\ \/ body' \in (Writing \cup {Blank}) \ {body} /\ UNCHANGED anon
     \/ anon' = ~anon /\ UNCHANGED body

\* setPreviewPlaceholder
Placeholder == paper' = {} /\ progress' = "idle"

\* Mutant of Supersede: a text that was deleted leaves its preview under way.
SupersedeText == IF body = Blank THEN UNCHANGED <<seq, previews>> ELSE seq' = seq + 1 /\ previews' = {}

\* What is in flight is aborted, and would be out of sequence.
Supersede == seq' = seq + 1 /\ previews' = {}

\* updatePreview
UpdatePreview ==
  IF body = Blank THEN Supersede /\ Placeholder
  ELSE /\ seq' = seq + 1 /\ progress' = "rendering" /\ UNCHANGED paper
       /\ previews' = {[seq |-> seq + 1, shows |-> Receipt, done |-> FALSE, ok |-> FALSE]}

TimerFires ==
  timer /\ timer' = FALSE /\ UpdatePreview /\ UNCHANGED <<body, anon, sending, edits, sends>>

ServePreview ==
  \E r \in previews, ok \in BOOLEAN :
    /\ ~r.done /\ previews' = (previews \ {r}) \cup {[r EXCEPT !.done = TRUE, !.ok = ok]}
    /\ UNCHANGED <<body, anon, timer, seq, paper, progress, sending, edits, sends>>

AnswerPreview ==
  \E r \in previews :
    /\ r.done /\ previews' = previews \ {r}
    /\ IF r.seq # seq THEN UNCHANGED <<paper, progress>>
       ELSE IF r.ok THEN paper' = {r.shows} /\ progress' = "ready"
       ELSE paper' = {} /\ progress' = "failed"
    /\ UNCHANGED <<body, anon, timer, seq, sending, edits, sends>>

\* sendMessage: what the box holds is sent, and the box stays as it is.
ClickSend ==
  /\ sending = {} /\ body # Blank /\ sends < MaxSends /\ sends' = sends + 1
  /\ sending' = {[receipt |-> Receipt, done |-> FALSE, ok |-> FALSE]}
  /\ UNCHANGED <<body, anon, timer, seq, previews, paper, progress, edits>>

ServeSend ==
  \E r \in sending, ok \in BOOLEAN :
    /\ ~r.done /\ sending' = {[r EXCEPT !.done = TRUE, !.ok = ok]}
    /\ UNCHANGED <<body, anon, timer, seq, previews, paper, progress, edits, sends>>

\* A queued message empties the box, whatever is in it by now.
AnswerSend ==
  /\ \E r \in sending :
       /\ r.done /\ sending' = {}
       /\ IF r.ok THEN body' = Blank /\ anon' = FALSE /\ Placeholder ELSE UNCHANGED <<body, anon, paper, progress>>
  /\ UNCHANGED <<timer, seq, previews, edits, sends>>

Rest == UNCHANGED vars

Next ==
  \/ Edit \/ TimerFires \/ ServePreview \/ AnswerPreview \/ ClickSend \/ ServeSend \/ AnswerSend \/ Rest

Spec == Init /\ [][Next]_vars

\* Timers fire, and requests are served and answered.
FairSpec == Spec /\ WF_vars(TimerFires) /\ WF_vars(ServePreview) /\ WF_vars(AnswerPreview)

-----------------------------------------------------------------------------
(* Properties                                                              *)

\* "A sequence counter guards against slow responses overwriting fresh ones":
\* a preview that is ready, with no newer one due, is of what is written.  In
\* the pause before the next one an old answer still shows, as an old one did.
\* This is about writing: a message that is queued empties the box, and a
\* preview of it that is still under way then shows over an empty box.
ReadyIsCurrent == sends = 0 /\ progress = "ready" /\ ~timer => paper = {Receipt}

\* Once the friend pauses, the preview comes to an end: ready, failed or blank.
PreviewSettles == progress \in {"typing", "rendering"} ~> progress \in {"ready", "failed", "idle"}

\* And what it settles on, with no message sent, is about the text there is.
SettledIsCurrent ==
  sends = 0 /\ ~timer /\ previews = {} => IF body = Blank THEN paper = {} ELSE paper = {Receipt} \/ progress = "failed"
=============================================================================
