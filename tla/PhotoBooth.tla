----------------------------- MODULE PhotoBooth -----------------------------
(***************************************************************************)
(* The photo booth of the friends page (static/photo.js): frames and a     *)
(* saved strip being edited, files being opened, crops being encoded, and  *)
(* the preview that the print button waits for.                            *)
(***************************************************************************)
EXTENDS Integers, FiniteSets, Sequences

CONSTANTS
  Saved,        \* strips in the history
  Look,         \* treatments, captions and the checkbox, as one choice
  MaxFrames,    \* frames of a strip
  MaxFiles,     \* files chosen at once
  MaxEdits,     \* bound: what the friend changes
  MaxEncoding   \* bound: forms being encoded or previewed at once

\* What the constants may be.
BoothAssumption ==
  /\ MaxFrames \in Nat /\ {MaxFiles, MaxEdits, MaxEncoding} \subseteq Nat /\ Look # {}

Default == CHOOSE look \in Look : TRUE

VARIABLES
  frames,     \* photoFrames: the crop of each frame
  saved,      \* photoSavedId, in a set
  look,
  busy,       \* photoBusy
  opening,    \* files being decoded: [n, id]
  revision, ready,   \* photoRevision and photoReadyRevision
  timer,      \* photoTimer is set
  forms,      \* under way to the preview: [rev, strip, at]; at is a step
  paper,      \* the strip on view, in a set
  sending,    \* the submission, in a set: [strip, shown, at]
  sent,       \* strips the server took: [strip, shown when the button was pressed]
  edits

editor == <<frames, saved, look>>
vars   == <<editor, busy, opening, revision, ready, timer, forms, paper, sending, sent, edits>>

Init ==
  /\ frames = <<>> /\ saved = {} /\ look = Default /\ busy = FALSE /\ opening = {}
  /\ revision = 0 /\ ready = -1 /\ timer = FALSE /\ forms = {} /\ paper = {}
  /\ sending = {} /\ sent = {} /\ edits = 0

-----------------------------------------------------------------------------
(* Functions of photo.js                                                   *)

\* What photoFormData takes: a saved strip, or the frames as they are now.
Strip == [frames |-> IF saved = {} THEN frames ELSE <<>>, saved |-> saved, look |-> look]

HasPhotos == frames # <<>> \/ saved # {}

\* schedulePhotoPreview, when the editor is about to hold photos or not: posts
\* are aborted, what is being encoded is out of date, the old pixels are gone.
Schedule(has) ==
  /\ timer' = has /\ revision' = revision + 1 /\ ready' = -1 /\ paper' = {}
  /\ forms' = {f \in forms : f.at = "encoding"}

\* resetPhotos
Reset(strips) == frames' = <<>> /\ saved' = strips /\ Schedule(strips # {})

\* photoControls: the fieldset and the buttons are for one action at a time.
Free == ~busy /\ edits < MaxEdits /\ edits' = edits + 1

-----------------------------------------------------------------------------
(* The friend                                                              *)

\* A crop, the order, the number of frames, or the look.
EditFrames ==
  /\ Free /\ UNCHANGED <<saved, look, busy, opening, sending, sent>>
  /\ \E i \in DOMAIN frames :
       \/ frames' = [frames EXCEPT ![i] = edits']
       \/ i > 1 /\ frames' = [frames EXCEPT ![i] = frames[i - 1], ![i - 1] = frames[i]]
       \/ frames' = SubSeq(frames, 1, i - 1) \o SubSeq(frames, i + 1, Len(frames))
  /\ Schedule(frames' # <<>> \/ saved # {})
EditLook ==
  /\ Free /\ look' \in Look \ {look} /\ Schedule(HasPhotos)
  /\ UNCHANGED <<frames, saved, busy, opening, sending, sent>>

StartOver == Free /\ HasPhotos /\ Reset({}) /\ look' = Default /\ UNCHANGED <<busy, opening, sending, sent>>

MayRestore == ~busy

\* A strip of the history is put back; it is not among the booth's own
\* controls, and brings its own checkbox.
Restore ==
  /\ MayRestore /\ edits < MaxEdits /\ edits' = edits + 1
  /\ \E strip \in Saved : Reset({strip}) /\ look' \in Look
  /\ UNCHANGED <<busy, opening, sending, sent>>

\* The choice of a name style schedules a preview too, busy or not.
StyleSaved ==
  /\ edits < MaxEdits /\ edits' = edits + 1 /\ Schedule(HasPhotos)
  /\ UNCHANGED <<editor, busy, opening, sending, sent>>

OpeningBusy == TRUE

\* The files are counted before they are decoded, one after another.
OpenFiles ==
  /\ Free
  /\ \E n \in 1..MaxFiles :
       n + Len(frames) <= MaxFrames /\ opening' = opening \cup {[n |-> n, id |-> edits']}
  /\ busy' = OpeningBusy
  /\ UNCHANGED <<editor, revision, ready, timer, forms, paper, sending, sent>>
FilesOpened ==
  /\ \E files \in opening, ok \in BOOLEAN :
       /\ opening' = opening \ {files}
       /\ IF ok THEN saved' = {} /\ frames' = frames \o [i \in 1..files.n |-> 0]
          ELSE UNCHANGED <<saved, frames>>
  /\ busy' = FALSE /\ Schedule(frames' # <<>> \/ saved' # {})
  /\ UNCHANGED <<look, sending, sent, edits>>

-----------------------------------------------------------------------------
(* The preview                                                             *)

\* updatePhotoPreview: the canvases are read at once and encoded in their time.
TimerFires ==
  /\ timer /\ Cardinality(forms) < MaxEncoding /\ timer' = FALSE
  /\ forms' = forms \cup {[rev |-> revision, strip |-> Strip, at |-> "encoding"]}
  /\ UNCHANGED <<editor, busy, opening, revision, ready, paper, sending, sent, edits>>

Encoded ==
  /\ \E f \in forms :
       /\ f.at = "encoding"
       /\ forms' = (forms \ {f}) \cup (IF f.rev = revision THEN {[f EXCEPT !.at = "posted"]} ELSE {})
  /\ UNCHANGED <<editor, busy, opening, revision, ready, timer, paper, sending, sent, edits>>

Previewed ==
  /\ \E f \in forms :
       /\ f.at = "posted" /\ forms' = forms \ {f}
       /\ IF f.rev = revision THEN \/ paper' = {f.strip} /\ ready' = f.rev
                                   \/ paper' = {} /\ UNCHANGED ready
          ELSE UNCHANGED <<paper, ready>>
  /\ UNCHANGED <<editor, busy, opening, revision, timer, sending, sent, edits>>

-----------------------------------------------------------------------------
(* Sending                                                                 *)

\* Mutant of PrintEnabled: photos are all it takes.
PrintEnabledUnseen == ~busy /\ HasPhotos

\* The submit handler asks again what the disabled button says.
PrintEnabled == ~busy /\ HasPhotos /\ ready = revision

Submit ==
  /\ PrintEnabled /\ sending' = {[strip |-> Strip, shown |-> paper, at |-> "asked"]} /\ busy' = TRUE
  /\ UNCHANGED <<editor, opening, revision, ready, timer, forms, paper, sent, edits>>

ServeSend ==
  /\ \E s \in sending :
       \/ /\ s.at = "asked" /\ sending' = {[s EXCEPT !.at = "queued"]}
          /\ sent' = sent \cup {[strip |-> s.strip, shown |-> s.shown]}
       \/ s.at = "asked" /\ sending' = {[s EXCEPT !.at = "refused"]} /\ UNCHANGED sent
  /\ UNCHANGED <<editor, busy, opening, revision, ready, timer, forms, paper, edits>>

Released(at) == FALSE

AnswerSend ==
  /\ \E s \in sending :
       /\ s.at # "asked" /\ busy' = Released(s.at)
       /\ \/ s.at = "queued" /\ Reset({}) /\ look' = Default
          \/ s.at = "refused" /\ UNCHANGED <<editor, revision, ready, timer, forms, paper>>
  /\ sending' = {} /\ UNCHANGED <<opening, sent, edits>>

Rest == UNCHANGED vars

Next ==
  \/ EditFrames \/ EditLook \/ StartOver \/ Restore \/ StyleSaved \/ OpenFiles \/ FilesOpened
  \/ TimerFires \/ Encoded \/ Previewed \/ Submit \/ ServeSend \/ AnswerSend \/ Rest

Spec == Init /\ [][Next]_vars

\* Files open, canvases encode, timers fire, and requests are answered.
FairSpec ==
  /\ Spec /\ WF_vars(FilesOpened) /\ WF_vars(TimerFires) /\ WF_vars(Encoded) /\ WF_vars(Previewed)
  /\ WF_vars(ServeSend) /\ WF_vars(AnswerSend)

-----------------------------------------------------------------------------
(* Properties                                                              *)

\* "The print button waits for the current preview": what the server takes is
\* the strip that was on view when the button was pressed.
SentWasShown == \A s \in sent : s.shown = {s.strip}

\* "Stale output must never look like the receipt that an enabled print button
\* is about to send": pixels on view are those of the editor as it is.
PaperIsCurrent == paper # {} => paper = {Strip}

\* A strip never holds more frames than the server accepts, though the files
\* are counted before they are opened.
FramesFit == Len(frames) <= MaxFrames

\* A booth that holds photos comes to a preview, or to an error, and the
\* controls come back.
BoothSettles == (busy \/ timer \/ forms # {}) ~> (~busy /\ ~timer /\ forms = {})
=============================================================================
