------------------------------ MODULE WordWrap ------------------------------
(***************************************************************************)
(* How Renderer._spans wraps a line of markup: each span is cut into words *)
(* and the blanks between them (CJK text into characters), and the pieces  *)
(* fill lines of a given width.  Widths are in characters of body text; a  *)
(* piece of a ~big~ span is twice as wide.                                 *)
(***************************************************************************)
EXTENDS Integers, Sequences, FiniteSets, SequencesExt, FiniteSetsExt

CONSTANTS
  Avail,      \* draw_w - indent
  WordLen,    \* lengths of words
  MaxPieces   \* bound: pieces of one line

\* What the constants may be.
WrapAssumption == Avail \in Nat /\ WordLen \subseteq Nat \ {0} /\ MaxPieces \in Nat

\* A span's text: words, blanks and CJK runs; _wrap_tokens keeps a word and a
\* run of blanks whole and takes a CJK run apart.
Chunk == [kind : {"word", "blank", "cjk"}, len : WordLen, big : BOOLEAN]

WrapTokens(chunk) ==
  IF chunk.kind = "cjk" THEN [i \in 1..chunk.len |-> [chunk EXCEPT !.len = 1]] ELSE <<chunk>>

\* _measure_text, at BODY or twice that.
Across(piece) == IF piece.big THEN 2 * piece.len ELSE piece.len
Total(line)  == FoldLeft(LAMBDA sum, p : sum + Across(p), 0, line)

VARIABLES
  text,     \* the chunks of the line, as they come
  pieces,   \* pieces not placed yet
  lines, curW, done

vars == <<text, pieces, lines, curW, done>>

Init == text = <<>> /\ pieces = <<>> /\ lines = << <<>> >> /\ curW = 0 /\ done = FALSE

\* A chunk of the next span, or of the same one: within a span words and
\* blanks alternate, across spans anything may follow anything.
Chunks ==
  /\ ~done /\ pieces = <<>> /\ Len(text) < MaxPieces
  /\ \E c \in Chunk : text' = Append(text, c) /\ pieces' = WrapTokens(c)
  /\ UNCHANGED <<lines, curW, done>>

\* A line that starts because of a piece: a blank does not start it.
NewLine(piece) == IF piece.kind = "blank" THEN <<>> ELSE <<piece>>

Fits(piece) == curW + Across(piece) <= Avail

\* One turn of the wrapping loop.
Place ==
  LET piece == Head(pieces) IN
  /\ pieces # <<>> /\ pieces' = Tail(pieces)
  /\ IF Fits(piece) \/ Last(lines) = <<>>
     THEN /\ lines' = Front(lines) \o <<Append(Last(lines), piece)>>
          /\ curW' = curW + Across(piece)
     ELSE lines' = Append(lines, NewLine(piece)) /\ curW' = Total(NewLine(piece))
  /\ UNCHANGED <<text, done>>

Finish == ~done /\ pieces = <<>> /\ text # <<>> /\ done' = TRUE /\ UNCHANGED <<text, pieces, lines, curW>>

Drawn == done /\ UNCHANGED vars

Next == Chunks \/ Place \/ Finish \/ Drawn

Spec == Init /\ [][Next]_vars

-----------------------------------------------------------------------------
(* Properties                                                              *)

\* The ink of a text, one character at a time: what is not a blank.
Ink(all) == FoldLeft(LAMBDA s, p : IF p.kind = "blank" THEN s
                                   ELSE s \o [i \in 1..p.len |-> <<p.kind, p.big>>], <<>>, all)

\* Wrapping loses and reorders nothing but blanks.
NothingLost == done => Ink(FoldLeft(LAMBDA a, l : a \o l, <<>>, lines)) = Ink(text)

\* A line is wider than the paper only when it is a single word or run of
\* blanks too long for any line: CJK text and ~big~ spans wrap like the rest.
LinesFit ==
  \A i \in DOMAIN lines :
    Total(lines[i]) <= Avail \/ (Len(lines[i]) = 1 /\ lines[i][1].kind # "cjk")

\* Lines break only where they must: what starts a line did not fit the one before.
BreaksLate ==
  \A i \in 2..Len(lines) :
    lines[i] # <<>> /\ lines[i][1].kind # "blank" /\ lines[i - 1] # <<>>
      => \/ Total(lines[i - 1]) + Across(lines[i][1]) > Avail
         \/ \E j \in DOMAIN text : text[j].kind = "blank" /\ Total(lines[i - 1]) + Across(text[j]) > Avail

\* "Don't start a line with pure whitespace": only two runs of blanks in a row,
\* the end of one span and the start of the next, make a wrapped line start so.
BlankStartNeedsTwo ==
  (\E i \in 2..Len(lines) : lines[i] # <<>> /\ lines[i][1].kind = "blank")
    => \E j \in 2..Len(text) : text[j - 1].kind = "blank" /\ text[j].kind = "blank"
=============================================================================
