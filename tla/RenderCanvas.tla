---------------------------- MODULE RenderCanvas ----------------------------
(***************************************************************************)
(* The canvas of features/render.py: a picture that grows as blocks are    *)
(* drawn down the page and is cropped at the end.  Rows are pixels; what a *)
(* block draws is a range of rows, and ink below the canvas is lost.       *)
(***************************************************************************)
EXTENDS Integers, FiniteSets

CONSTANTS
  InitialH,    \* _INITIAL_H
  GrowPad,     \* _GROW_PAD
  Heading,     \* sizes a heading may have been shrunk to
  Rows,        \* numbers of lines a paragraph may wrap into
  Block,       \* kinds of blocks in the body
  MaxY         \* bound: where the last block starts

BODY == 24
LineGap  == 4
BlockGap == 10

\* What the constants may be.
CanvasAssumption ==
  /\ InitialH \in Nat /\ InitialH >= 8 /\ GrowPad \in Nat /\ MaxY \in Nat
  /\ Heading \subseteq 14..54 /\ Rows \subseteq Nat \ {0}
  /\ Block \subseteq {"blank", "rule", "double", "heading", "styled", "text", "big",
                      "bullet", "checkbox", "pre", "scissors"}

VARIABLES
  y,         \* self.y
  height,    \* rows of the canvas
  floor,     \* the lowest row a block has drawn in, wherever it was
  clipped,   \* blocks that drew below the canvas
  rest,      \* lines of the paragraph still to draw
  result     \* rows of the finished picture, or 0

vars == <<y, height, floor, clipped, rest, result>>

Init == y = 8 /\ height = InitialH /\ floor = 0 /\ clipped = {} /\ rest = 0 /\ result = 0

Larger(a, b) == IF a > b THEN a ELSE b

\* Mutant of EnsureRoom: the block itself is forgotten.
EnsureRoomHere(needed) == IF y <= height THEN height ELSE Larger(height * 2, y + GrowPad)

\* _ensure_room: the height of the canvas after it.
EnsureRoom(needed) ==
  IF y + needed <= height THEN height ELSE Larger(height * 2, y + needed + GrowPad)

\* A block: room for needed rows, ink in rows y + from .. y + to - 1, then y moves.
Draw(kind, needed, from, to, moves) ==
  /\ result = 0
  /\ height' = EnsureRoom(needed)
  /\ floor' = Larger(floor, y + to)
  /\ clipped' = (IF y + to > height' THEN clipped \cup {kind} ELSE clipped)
  /\ y' = y + moves
  /\ UNCHANGED result

Whole(kind, needed, from, to, moves) ==
  kind \in Block /\ rest = 0 /\ y <= MaxY /\ Draw(kind, needed, from, to, moves) /\ UNCHANGED rest

Blank    == Whole("blank", BODY \div 2, 0, 0, BODY \div 2)
Rule     == Whole("rule", 24, 6, 8, 16)
Double   == Whole("double", 24, 6, 14, 22)
PreLine  == Whole("pre", BODY + LineGap, 0, BODY, BODY + LineGap)
Scissors == Whole("scissors", 20, 4, 5, 16)

\* _heading and _styled_heading: room for the size and the gap, though y moves
\* by half a gap more.
AnyHeading(kind, size) ==
  Whole(kind, size + BlockGap, BlockGap \div 2, BlockGap \div 2 + size,
        BlockGap \div 2 + size + BlockGap)
HeadingLine == \E size \in Heading : AnyHeading("heading", size)
StyledLine  == \E size \in Heading : AnyHeading("styled", size)

\* _spans: the wrapped lines of a paragraph, each with its own room.
Paragraph(kind) ==
  /\ kind \in Block /\ rest = 0 /\ result = 0 /\ y <= MaxY
  /\ rest' \in Rows /\ UNCHANGED <<y, height, floor, clipped, result>>
SpanLine(kind, size) ==
  kind \in Block /\ rest > 0 /\ rest' = rest - 1 /\ Draw(kind, size + LineGap, 0, size, size + LineGap)
Text == Paragraph("text") \/ SpanLine("text", BODY) \/ SpanLine("big", BODY * 2)

\* _bullet_line and _checkbox_line: the mark is drawn before any room is made
\* for the text beside it.
Mark(kind, from, to) ==
  /\ kind \in Block /\ rest = 0 /\ result = 0 /\ y <= MaxY /\ rest' \in Rows
  /\ floor' = Larger(floor, y + to)
  /\ clipped' = (IF y + to > height THEN clipped \cup {kind} ELSE clipped)
  /\ UNCHANGED <<y, height, result>>
BulletMark   == Mark("bullet", 0, BODY)
CheckboxMark == Mark("checkbox", 3, BODY - 2)

CropAt(at) == Larger(at + 8, 20)

\* finish: crop below the last block, whatever the canvas's height.
Finish ==
  /\ result = 0 /\ rest = 0 /\ result' = CropAt(y)
  /\ UNCHANGED <<y, height, floor, clipped, rest>>

Printed == result # 0 /\ UNCHANGED vars

Next ==
  \/ Blank \/ Rule \/ Double \/ PreLine \/ Scissors \/ HeadingLine \/ StyledLine \/ Text
  \/ BulletMark \/ CheckboxMark \/ Finish \/ Printed

Spec == Init /\ [][Next]_vars

-----------------------------------------------------------------------------
(* Properties                                                              *)

TypeOK ==
  /\ y \in Nat /\ height \in Nat /\ floor \in Nat /\ rest \in Nat /\ result \in Nat
  /\ clipped \subseteq Block

\* "Grow the canvas if the next block won't fit": no block that asks for room
\* before it draws loses ink below the canvas.  The marks of bullets and
\* checkboxes do not ask, and do.
NothingClipped == clipped \subseteq {"bullet", "checkbox"}

\* The finished picture ends below the ink of every block, and no text was left
\* out of it, however often the canvas grew on the way.
InkKept == result # 0 => floor <= result

\* "Start modest and grow on demand": the picture is cut out of the canvas but
\* for the margin of 8 rows below the last block and the half gap a heading may
\* leave y ahead of the canvas, which are never made room for.
CropInside == result <= height + 8 + BlockGap \div 2
=============================================================================
