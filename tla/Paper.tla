-------------------------------- MODULE Paper --------------------------------
(***************************************************************************)
(* The parts of the program that decide what comes out on paper: the       *)
(* canvas, wrapping, the readers of a body, pictures, and the generators   *)
(* of the arcade.  They share no state: a behaviour moves one of them, its *)
(* part, and the others stay where they began.                             *)
(***************************************************************************)
EXTENDS Integers, Sequences

CONSTANTS
  InitialH, GrowPad, Heading, Rows, Block, MaxY,                               \* RenderCanvas
  Avail, WordLen, MaxPieces,                                                   \* WordWrap
  Kind, Inline, Word, Width, MaxLines, LongKind, MaxLong, MaxWords,            \* Composer
  Paper, User, Upload, Drawing, OptWidth, Label, MaxRows, MaxRestarts,         \* Pictures
  Name, Template,                                                              \* Sudoku
  MazeSize,                                                                    \* Maze
  WordSize, Words, WordCount                                                   \* WordSearch

VARIABLES
  part,
  y, height, floor, clipped, rest, result,                    \* RenderCanvas
  text, pieces, lines, curW, done,                            \* WordWrap
  body, style, out, typed,                                    \* Composer
  width, pictureRows, sent, scaled, refused, restarts,        \* Pictures
  template, digits, rows, cols, grid, solution, sudokuPc,     \* Sudoku
  walls, seen, stack, parent, path, mazePc,                   \* Maze
  words, letters, placements, wordsPc                         \* WordSearch

Canvas     == INSTANCE RenderCanvas
Wrap       == INSTANCE WordWrap
Composer   == INSTANCE Composer
Pictures   == INSTANCE Pictures WITH rows <- pictureRows
Sudoku     == INSTANCE Sudoku WITH pc <- sudokuPc
Maze       == INSTANCE Maze WITH pc <- mazePc, Size <- MazeSize
WordSearch == INSTANCE WordSearch WITH
  pc <- wordsPc, grid <- letters, Size <- WordSize, Count <- WordCount

\* What the constants may be.
ASSUME PaperAssumption ==
  /\ Canvas!CanvasAssumption /\ Wrap!WrapAssumption /\ Composer!ComposerAssumption
  /\ Pictures!PicturesAssumption /\ Sudoku!SudokuAssumption /\ Maze!MazeAssumption
  /\ WordSearch!WordSearchAssumption

canvasVars   == <<y, height, floor, clipped, rest, result>>
wrapVars     == <<text, pieces, lines, curW, done>>
composerVars == <<body, style, out, typed>>
pictureVars  == <<width, pictureRows, sent, scaled, refused, restarts>>
sudokuVars   == <<template, digits, rows, cols, grid, solution, sudokuPc>>
mazeVars     == <<walls, seen, stack, parent, path, mazePc>>
wordsVars    == <<words, letters, placements, wordsPc>>
paperVars ==
  <<part, canvasVars, wrapVars, composerVars, pictureVars, sudokuVars, mazeVars, wordsVars>>

Parts == {"canvas", "wrap", "composer", "pictures", "sudoku", "maze", "words"}

PaperInit ==
  /\ part \in Parts
  /\ Canvas!Init /\ Wrap!Init /\ Composer!Init /\ Pictures!Init /\ Sudoku!Init /\ Maze!Init
  /\ WordSearch!Init

\* The parts that are not p stay.
OthersStay(p) ==
  /\ part = p /\ UNCHANGED part
  /\ IF p = "canvas" THEN TRUE ELSE UNCHANGED canvasVars
  /\ IF p = "wrap" THEN TRUE ELSE UNCHANGED wrapVars
  /\ IF p = "composer" THEN TRUE ELSE UNCHANGED composerVars
  /\ IF p = "pictures" THEN TRUE ELSE UNCHANGED pictureVars
  /\ IF p = "sudoku" THEN TRUE ELSE UNCHANGED sudokuVars
  /\ IF p = "maze" THEN TRUE ELSE UNCHANGED mazeVars
  /\ IF p = "words" THEN TRUE ELSE UNCHANGED wordsVars

PaperNext ==
  \/ OthersStay("canvas") /\ Canvas!Next
  \/ OthersStay("wrap") /\ Wrap!Next
  \/ OthersStay("composer") /\ Composer!Next
  \/ OthersStay("pictures") /\ Pictures!Next
  \/ OthersStay("sudoku") /\ Sudoku!Next
  \/ OthersStay("maze") /\ Maze!Next
  \/ OthersStay("words") /\ WordSearch!Next

PaperSpec == PaperInit /\ [][PaperNext]_paperVars

-----------------------------------------------------------------------------
(* The properties, each stated in its module                               *)

\* Renderer: no block that asks for room loses ink below the canvas; the picture
\* ends below the ink of every block and at most a margin below the canvas.
\* text.render, text.preview: no line's style leaks into the next line or the
\* next print, and both centre the same lines.
LayoutSound ==
  /\ part = "canvas" => Canvas!NothingClipped /\ Canvas!InkKept /\ Canvas!CropInside
  /\ part = "composer" => Composer!StyleDoesNotLeak /\ Composer!PrintsAsPreviewed

\* _spans: wrapping loses and reorders nothing but blanks, only a single
\* word or run of blanks is wider than the paper, lines break only where they
\* must, and start with blanks only after two runs of them.
\* split_cuts: cutting into segments loses, repeats and reorders no line but cuts
\* and blanks.
\* friend_message: a friend's words all reach the paper in their order, only a
\* "!!!" that wraps onto a line of its own cuts it, and the frame is drawn unless
\* the friend left a fence open.
PathsAgree ==
  /\ part = "wrap" =>
       Wrap!NothingLost /\ Wrap!LinesFit /\ Wrap!BreaksLate /\ Wrap!BlankStartNeedsTwo
  /\ part = "composer" =>
       /\ Composer!SegmentsKeepLines
       /\ Composer!WordsKept /\ Composer!FriendsCutByWrapping /\ Composer!FrameHolds

\* image.process, render_strip, _photo_from_form: no picture is taller than half a
\* meter, a scaled one has its upload's shape to within half a row, four frames
\* and the tallest caption fit either paper, no drawing without ink reaches the
\* queue, a saved strip's pixels are its sender's own, and what is sent fills the
\* paper it was made for.
PicturesFit ==
  part = "pictures" =>
    /\ Pictures!HeightBound /\ Pictures!ShapeKept /\ Pictures!StripsFit /\ Pictures!DrawingsHaveInk
    /\ Pictures!OwnPixels /\ Pictures!WidthOfPaper

\* _sudoku: a disguised puzzle has one solution, the disguised one.
\* _maze: both cells of a passage agree on it, there is one path between every
\* pair of cells, and the solution goes through passages from one opening to the
\* other.
\* _wordsearch: no hidden word is overwritten, and each is hidden once, in a
\* straight line.
PuzzlesSound ==
  /\ part = "sudoku" => Sudoku!SolutionSolves /\ Sudoku!OneSolution
  /\ part = "maze" => Maze!WallsAgree /\ Maze!OnePath /\ Maze!SolutionIsOpen
  /\ part = "words" => WordSearch!WordsReadable /\ WordSearch!EveryWordHidden
=============================================================================
