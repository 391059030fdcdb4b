------------------------------- MODULE Doodle -------------------------------
(***************************************************************************)
(* The drawing canvas of static/friends.js: its pixels, the history that   *)
(* undo and redo replay, the stroke under the pointer, and the answers to  *)
(* a send or a saved drawing that arrive while the friend draws.           *)
(*                                                                         *)
(* A mark is one point's ink, <<stroke or image, number>>; marks do not    *)
(* cover each other, as white is never drawn over a part of the canvas.    *)
(***************************************************************************)
EXTENDS Integers, Sequences

CONSTANTS
  Saved,       \* drawings of the friend's history that may be restored
  MaxStrokes,  \* bound: strokes begun
  MaxPoints,   \* bound: points of a stroke
  MaxSends     \* bound: sends

\* What the constants may be.
DoodleAssumption ==
  {MaxStrokes, MaxPoints, MaxSends} \subseteq Nat /\ Saved \cap (0 .. MaxStrokes) = {}

VARIABLES
  actions,   \* doodleActions: [kind, id, points, broken]
  index,     \* doodleHistoryIndex
  canvas,    \* the marks on it
  active,    \* the set of the one activeStroke, or {}
  strokes, sends,
  sending,   \* the set of the one picture that is being sent, or {}
  opening    \* saved drawings whose answers are awaited

drawing == <<actions, index, canvas, active>>
vars    == <<drawing, strokes, sends, sending, opening>>

\* "broken" is an observation: something else drew on the canvas during the stroke.
Stroke(n, points, broken) == [kind |-> "stroke", id |-> n, points |-> points, broken |-> broken]
Clearing                  == [kind |-> "clear", id |-> 0, points |-> 0, broken |-> FALSE]
Image(i)                  == [kind |-> "image", id |-> i, points |-> 1, broken |-> FALSE]

Init ==
  /\ actions = <<>> /\ index = 0 /\ canvas = {} /\ active = {}
  /\ strokes = 0 /\ sends = 0 /\ sending = {} /\ opening = {}

-----------------------------------------------------------------------------
(* History                                                                 *)

Marks(a) == {a.id} \X (1 .. a.points)

\* renderDoodleHistory: what is drawn since the last clear.
Replay(history, n) ==
  UNION {Marks(history[i]) : i \in {j \in 1 .. n : \A k \in j .. n : history[k].kind # "clear"}}

\* "A fresh stroke after undo starts a new timeline."
Timeline == SubSeq(actions, 1, index)

\* commitDoodleAction
Commit(a) == actions' = Append(Timeline, a) /\ index' = Len(actions')

\* The stroke that is under way, if any, was drawn over.
Broken == {[s EXCEPT !.broken = TRUE] : s \in active}

\* undoDoodle and redoDoodle, by button or key, during a stroke as well.
MoveTo(n) == index' = n /\ canvas' = Replay(actions, n) /\ active' = Broken /\ UNCHANGED actions

Undo == index > 0 /\ MoveTo(index - 1) /\ UNCHANGED <<strokes, sends, sending, opening>>
Redo == index < Len(actions) /\ MoveTo(index + 1) /\ UNCHANGED <<strokes, sends, sending, opening>>

\* doodleHasInk: the last action before the index decides.
HasInk == index > 0 /\ actions[index].kind # "clear"

\* #doodle-clear
Clear ==
  /\ HasInk /\ canvas' = {} /\ Commit(Clearing) /\ active' = Broken
  /\ UNCHANGED <<strokes, sends, sending, opening>>

-----------------------------------------------------------------------------
(* Drawing                                                                 *)

\* pointerdown: a tap makes a dot; a second pointer is ignored.
PointerDown ==
  /\ active = {} /\ strokes < MaxStrokes /\ strokes' = strokes + 1
  /\ active' = {Stroke(strokes', 1, FALSE)} /\ canvas' = canvas \cup {<<strokes', 1>>}
  /\ UNCHANGED <<actions, index, sends, sending, opening>>

\* pointermove draws the segment from the last point to this one.
PointerMove ==
  \E s \in active :
    /\ s.points < MaxPoints
    /\ active' = {[s EXCEPT !.points = @ + 1]} /\ canvas' = canvas \cup {<<s.id, s.points + 1>>}
    /\ UNCHANGED <<actions, index, strokes, sends, sending, opening>>

\* Mutant of FinishStroke: a cancelled pointer's stroke is forgotten.
FinishStrokeUp(s, event) == IF event = "pointerup" THEN Commit(s) ELSE UNCHANGED <<actions, index>>

\* finishStroke, of pointerup and pointercancel alike.
FinishStroke(s, event) == Commit(s)

PointerUp ==
  \E s \in active, event \in {"pointerup", "pointercancel"} :
    /\ FinishStroke(s, event) /\ active' = {}
    /\ UNCHANGED <<canvas, strokes, sends, sending, opening>>

-----------------------------------------------------------------------------
(* Sending and restoring                                                   *)

\* sendDoodle reads the canvas at the click; its button waits for the answer.
ClickSend ==
  /\ sending = {} /\ sends < MaxSends /\ sends' = sends + 1 /\ sending' = {canvas}
  /\ UNCHANGED <<drawing, strokes, opening>>

\* The server takes a picture that is not blank; then resetDoodle empties
\* canvas and history, with whatever was drawn meanwhile.
AnswerSend ==
  /\ sending # {} /\ sending' = {}
  /\ \/ /\ {} \notin sending
        /\ actions' = <<>> /\ index' = 0 /\ canvas' = {} /\ active' = Broken
     \/ UNCHANGED drawing
  /\ UNCHANGED <<strokes, sends, opening>>

ClickRestore ==
  /\ \E i \in Saved \ opening : opening' = opening \cup {i}
  /\ UNCHANGED <<drawing, strokes, sends, sending>>

\* restoreDrawing: resetDoodle, the image, and its action; or a toast.
AnswerRestore ==
  \E i \in opening :
    /\ opening' = opening \ {i}
    /\ \/ /\ actions' = <<Image(i)>> /\ index' = 1 /\ canvas' = Marks(Image(i)) /\ active' = Broken
       \/ UNCHANGED drawing
    /\ UNCHANGED <<strokes, sends, sending>>

Next ==
  \/ Undo \/ Redo \/ Clear \/ PointerDown \/ PointerMove \/ PointerUp
  \/ ClickSend \/ AnswerSend \/ ClickRestore \/ AnswerRestore

Spec == Init /\ [][Next]_vars

-----------------------------------------------------------------------------
(* Properties                                                              *)

\* Nothing is on the canvas that undo could not take away: a mark is the
\* history's, or the stroke's under the pointer, whatever redraws the canvas
\* during a stroke.
EveryMarkCanBeUndone == canvas \subseteq Replay(actions, index) \cup UNION {Marks(s) : s \in active}

\* Undo and redo always show something: no action leaves the picture as it was,
\* so a clear is never recorded on a canvas that is empty, at any index.
UndoIsVisible == \A i \in 1 .. Len(actions) : Replay(actions, i) # Replay(actions, i - 1)

\* Between strokes the canvas, which is what is sent, is its history replayed;
\* only a stroke that something redrew the canvas under may be an exception.
CanvasIsHistory ==
  active = {} /\ (\A i \in 1 .. index : ~actions[i].broken) => canvas = Replay(actions, index)
=============================================================================
