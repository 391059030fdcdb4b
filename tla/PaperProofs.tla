---------------------------- MODULE PaperProofs ----------------------------
(***************************************************************************)
(* What comes out on paper, for every value of the constants: the canvas,  *)
(* the printer's style, wrapping, pictures and the puzzles.  Each part     *)
(* keeps an invariant of its own, which the other parts leave alone.       *)
(***************************************************************************)
EXTENDS Paper, FiniteSetTheorems, SequenceTheorems, TLAPS

-----------------------------------------------------------------------------
(* A part moves by its own steps; the others' steps leave it               *)

LEMMA PartsStep ==
  ASSUME [PaperNext]_paperVars
  PROVE  /\ Canvas!Next \/ UNCHANGED canvasVars
         /\ Wrap!Next \/ UNCHANGED wrapVars
         /\ Composer!Next \/ UNCHANGED composerVars
         /\ Pictures!Next \/ UNCHANGED pictureVars
         /\ Sudoku!Next \/ UNCHANGED sudokuVars
         /\ Maze!Next \/ UNCHANGED mazeVars
         /\ WordSearch!Next \/ UNCHANGED wordsVars
  BY DEF PaperNext, OthersStay, paperVars

-----------------------------------------------------------------------------
(* The canvas                                                              *)

\* Ink goes no lower than y, but for the mark of a line whose text is still to
\* come; and y is at most half a gap ahead of the canvas.
CanvasInv ==
  /\ y \in Nat /\ height \in Nat /\ floor \in Nat /\ rest \in Nat /\ result \in Nat
  /\ height >= 8 /\ y <= height + 5
  /\ floor <= y \/ (rest > 0 /\ floor <= y + 24)
  /\ result # 0 => rest = 0 /\ result = Canvas!CropAt(y)
  /\ Canvas!NothingClipped

LEMMA CanvasInits == Canvas!Init => CanvasInv
  BY PaperAssumption DEF Canvas!CanvasAssumption, Canvas!Init, CanvasInv, Canvas!NothingClipped

\* Where a block that asks for what it draws leaves the canvas.
LEMMA CanvasGrows ==
  ASSUME CanvasInv, NEW kind, NEW needed \in Nat, NEW from, NEW to \in Nat, NEW moves \in Nat,
         Canvas!Draw(kind, needed, from, to, moves), rest' \in Nat,
         to <= needed, moves <= needed + 5, to <= moves, rest = 0 \/ 24 <= moves
  PROVE  CanvasInv'
<1>1. /\ result = 0 /\ result' = 0 /\ height' = Canvas!EnsureRoom(needed) /\ y' = y + moves
      /\ floor' = Canvas!Larger(floor, y + to)
      /\ clipped' = (IF y + to > height' THEN clipped \cup {kind} ELSE clipped)
  BY DEF Canvas!Draw, CanvasInv
<1>2. height' \in Nat /\ y + needed <= height' /\ height <= height'
  BY <1>1, PaperAssumption DEF Canvas!CanvasAssumption, Canvas!EnsureRoom, Canvas!Larger, CanvasInv
<1>3. clipped' = clipped
  BY <1>1, <1>2 DEF CanvasInv
<1>4. floor' \in Nat /\ floor' <= y'
  BY <1>1 DEF CanvasInv, Canvas!Larger
<1>5. y' \in Nat /\ height' >= 8 /\ y' <= height' + 5
  BY <1>1, <1>2 DEF CanvasInv
<1> QED BY <1>1, <1>2, <1>3, <1>4, <1>5 DEF CanvasInv, Canvas!NothingClipped

\* The kinds that are drawn in one piece, and the lines of a paragraph.
LEMMA WholeSteps ==
  ASSUME CanvasInv, NEW kind, NEW needed \in Nat, NEW from, NEW to \in Nat, NEW moves \in Nat,
         Canvas!Whole(kind, needed, from, to, moves), to <= needed, moves <= needed + 5, to <= moves
  PROVE  CanvasInv'
<1>1. rest = 0 /\ rest' = 0 /\ Canvas!Draw(kind, needed, from, to, moves)
  BY DEF Canvas!Whole
<1> QED BY <1>1, CanvasGrows

LEMMA CanvasSteps == CanvasInv /\ (Canvas!Next \/ UNCHANGED canvasVars) => CanvasInv'
<1> SUFFICES ASSUME CanvasInv, Canvas!Next \/ UNCHANGED canvasVars PROVE CanvasInv'
  OBVIOUS
<1>1. CASE UNCHANGED canvasVars
  BY <1>1 DEF canvasVars, CanvasInv, Canvas!NothingClipped, Canvas!CropAt, Canvas!Larger
<1>2. CASE Canvas!Blank
  BY <1>2, WholeSteps DEF Canvas!Blank, Canvas!BODY
<1>3. CASE Canvas!Rule \/ Canvas!Double
  BY <1>3, WholeSteps DEF Canvas!Rule, Canvas!Double
<1>4. CASE Canvas!PreLine
  BY <1>4, WholeSteps DEF Canvas!PreLine, Canvas!BODY, Canvas!LineGap
<1>5. CASE Canvas!Scissors
  BY <1>5, WholeSteps DEF Canvas!Scissors
<1>6. ASSUME NEW kind, NEW size \in Heading, Canvas!AnyHeading(kind, size) PROVE CanvasInv'
  <2>1. size \in Nat
    BY PaperAssumption DEF Canvas!CanvasAssumption
  <2>2. Canvas!Whole(kind, size + 10, 5, 5 + size, 5 + size + 10)
    BY <1>6 DEF Canvas!AnyHeading, Canvas!BlockGap
  <2> QED BY <2>1, <2>2, WholeSteps
<1>7. CASE Canvas!HeadingLine \/ Canvas!StyledLine
  BY <1>6, <1>7 DEF Canvas!HeadingLine, Canvas!StyledLine
<1>8. ASSUME rest' \in Rows PROVE rest' \in Nat /\ rest' > 0
  BY <1>8, PaperAssumption DEF Canvas!CanvasAssumption
<1>9. CASE Canvas!Paragraph("text")
  BY <1>8, <1>9 DEF Canvas!Paragraph, CanvasInv, Canvas!NothingClipped
<1>10. ASSUME NEW kind, NEW size \in {24, 48}, Canvas!SpanLine(kind, size) PROVE CanvasInv'
  <2>1. rest' \in Nat /\ Canvas!Draw(kind, size + 4, 0, size, size + 4)
    BY <1>10 DEF Canvas!SpanLine, Canvas!LineGap, CanvasInv
  <2> QED BY <2>1, CanvasGrows
<1>11. CASE Canvas!Text
  BY <1>9, <1>10, <1>11 DEF Canvas!Text, Canvas!BODY
<1>12. ASSUME NEW kind \in {"bullet", "checkbox"}, NEW from,
              NEW to \in 0..24, Canvas!Mark(kind, from, to)
       PROVE  CanvasInv'
  <2>1. floor' \in Nat /\ floor' <= y + 24
    BY <1>12 DEF Canvas!Mark, Canvas!Larger, CanvasInv
  <2> QED BY <1>8, <1>12, <2>1 DEF Canvas!Mark, CanvasInv, Canvas!NothingClipped
<1>13. CASE Canvas!BulletMark \/ Canvas!CheckboxMark
  BY <1>12, <1>13 DEF Canvas!BulletMark, Canvas!CheckboxMark, Canvas!BODY
<1>14. CASE Canvas!Finish
  BY <1>14 DEF Canvas!Finish, CanvasInv, Canvas!NothingClipped, Canvas!CropAt, Canvas!Larger
<1>15. CASE Canvas!Printed
  BY <1>15, <1>1 DEF Canvas!Printed, Canvas!vars, canvasVars
<1> QED
  BY <1>1, <1>2, <1>3, <1>4, <1>5, <1>7, <1>11, <1>13, <1>14, <1>15 DEF Canvas!Next

LEMMA CanvasIsSound == CanvasInv => Canvas!NothingClipped /\ Canvas!InkKept /\ Canvas!CropInside
  BY DEF CanvasInv, Canvas!InkKept, Canvas!CropInside, Canvas!CropAt, Canvas!Larger, Canvas!BlockGap

-----------------------------------------------------------------------------
(* The printer's own font                                                  *)

Field == {"align", "bold", "underline", "big"}

\* p.set keeps the fields; setting them to what plain text has gives plain text.
LEMMA SetPlain ==
  ASSUME NEW s, DOMAIN s = Field, NEW change,
         \A f \in Field : IF f \in DOMAIN change THEN change[f] = Composer!Plain[f]
                                                 ELSE s[f] = Composer!Plain[f]
  PROVE  Composer!Set(s, change) = Composer!Plain
<1>1. Composer!Set(s, change) = [f \in Field |-> Composer!Plain[f]]
  BY DEF Composer!Set
<1>2. DOMAIN Composer!Plain = Field
  BY DEF Field, Composer!Plain
<1>3. Composer!Plain = [f \in DOMAIN Composer!Plain |-> Composer!Plain[f]]
  BY DEF Composer!Plain
<1> QED BY <1>1, <1>2, <1>3

LEMMA PlainFields == DOMAIN Composer!Plain = Field /\ Composer!Plain["align"] = "left"
  BY DEF Field, Composer!Plain

LEMMA SetFields ==
  ASSUME NEW s, DOMAIN s = Field, NEW change
  PROVE  DOMAIN Composer!Set(s, change) = Field
  BY DEF Composer!Set

\* _emit leaves plain text, and sets every span to the left.
LEMMA SpansEnd ==
  ASSUME NEW s, DOMAIN s = Field, NEW spans
  PROVE  Composer!AfterSpans(s, spans) = Composer!Plain
<1>1. DOMAIN Composer!Plain = Field
  BY PlainFields
<1> QED BY <1>1, SetPlain DEF Composer!AfterSpans

Left(o)   == \A i \in DOMAIN o : o[i].what = "text" => o[i].style["align"] = "left"
Center(o) == \A i \in DOMAIN o : o[i].what = "text" => o[i].style["align"] = "center"

LEMMA SpansLeft ==
  ASSUME NEW s, DOMAIN s = Field, NEW spans
  PROVE  Left(Composer!Spans(s, spans))
<1>1. ASSUME NEW span PROVE Composer!Set(s, Composer!SpanStyle(span))["align"] = "left"
  <2>1. /\ "align" \in DOMAIN Composer!SpanStyle(span) /\ "align" \in DOMAIN s
        /\ Composer!SpanStyle(span)["align"] = "left"
    BY DEF Composer!SpanStyle, Field
  <2> QED BY <2>1 DEF Composer!Set
<1> QED BY <1>1 DEF Left, Composer!Spans

InlineAny == {"plain", "bold", "underline", "big"}

\* Where a line of a body leaves the font, and where it puts its text.
LEMMA RenderEnds ==
  ASSUME style = Composer!Plain, NEW line,
         Composer!Directive(line) \in {"blank", "rule", "double", "cut", "h1", "h2", "centered",
                                       "bullet", "todo", "plain", "styled", "fence"},
         line.spans \in Seq(InlineAny)
  PROVE  /\ Composer!Render(line).style = Composer!Plain
         /\ Composer!Directive(line) \in {"h1", "h2"} => Center(Composer!Render(line).out)
         /\ Composer!Directive(line) \notin {"h1", "h2", "centered"} => Left(Composer!Render(line).out)
<1> DEFINE d == Composer!Directive(line)
           O == Composer!Render(line)
<1>1. DOMAIN style = Field /\ style["align"] = "left"
  BY PlainFields
<1>2. CASE d \in {"blank", "rule", "double"}
  <2>1. O = [out |-> Composer!Text(style), style |-> style]
    BY <1>2 DEF Composer!Render
  <2> QED BY <1>1, <1>2, <2>1 DEF Left, Composer!Text
<1>3. CASE d = "cut"
  <2>1. O = [out |-> <<[what |-> "cut", style |-> style]>>, style |-> style]
    BY <1>3 DEF Composer!Render
  <2> QED BY <1>3, <2>1 DEF Left
<1>4. CASE d = "h1"
  <2>1. O = [out |-> Composer!Text(Composer!Set(style, Composer!HeadingOn)),
             style |-> Composer!Set(style, Composer!HeadingOff)]
    BY <1>4 DEF Composer!Render
  <2>2. Composer!Set(style, Composer!HeadingOff) = Composer!Plain
    <3>1. /\ DOMAIN Composer!HeadingOff = {"align", "bold", "big"}
          /\ Composer!HeadingOff["align"] = Composer!Plain["align"]
          /\ Composer!HeadingOff["bold"] = Composer!Plain["bold"]
          /\ Composer!HeadingOff["big"] = Composer!Plain["big"]
      BY DEF Composer!HeadingOff, Composer!Plain
    <3> QED BY <1>1, <3>1, SetPlain
  <2>3. Composer!Set(style, Composer!HeadingOn)["align"] = "center"
    <3>1. "align" \in DOMAIN Composer!HeadingOn /\ Composer!HeadingOn["align"] = "center" /\ "align" \in Field
      BY DEF Composer!HeadingOn, Field
    <3> QED BY <1>1, <3>1 DEF Composer!Set
  <2> QED BY <1>4, <2>1, <2>2, <2>3 DEF Center, Composer!Text
<1>5. CASE d = "h2"
  <2> DEFINE s == Composer!Set(style, Composer!Subheading)
  <2>1. O = [out |-> Composer!Text(s), style |-> Composer!Set(s, [align |-> "left", bold |-> FALSE])]
    BY <1>5 DEF Composer!Render
  <2>2. DOMAIN Composer!Subheading = {"align", "bold"} /\ Composer!Subheading["align"] = "center"
    BY DEF Composer!Subheading
  <2>3. /\ DOMAIN s = Field /\ s["align"] = "center"
        /\ \A f \in Field \ {"align", "bold"} : s[f] = Composer!Plain[f]
    BY <1>1, <2>2 DEF Composer!Set, Field
  <2>4. /\ DOMAIN [align |-> "left", bold |-> FALSE] = {"align", "bold"}
        /\ [align |-> "left", bold |-> FALSE]["align"] = Composer!Plain["align"]
        /\ [align |-> "left", bold |-> FALSE]["bold"] = Composer!Plain["bold"]
    BY DEF Composer!Plain
  <2>5. Composer!Set(s, [align |-> "left", bold |-> FALSE]) = Composer!Plain
    <3> HIDE DEF s
    <3> QED BY <2>3, <2>4, SetPlain
  <2> QED BY <1>5, <2>1, <2>3, <2>5 DEF Center, Composer!Text
<1>6. ASSUME NEW s, DOMAIN s = Field
      PROVE  Composer!Set(Composer!AfterSpans(s, line.spans), [align |-> "left"]) = Composer!Plain
  <2>1. Composer!AfterSpans(s, line.spans) = Composer!Plain
    BY <1>6, SpansEnd
  <2>2. DOMAIN [align |-> "left"] = {"align"} /\ [align |-> "left"]["align"] = Composer!Plain["align"]
    BY DEF Composer!Plain
  <2> QED BY <2>1, <2>2, PlainFields, SetPlain
<1>7. CASE d = "centered"
  <2> DEFINE s == Composer!Set(style, [align |-> "center"])
  <2>1. O = [out |-> Composer!Spans(s, line.spans),
             style |-> Composer!Set(Composer!AfterSpans(s, line.spans), [align |-> "left"])]
    BY <1>7 DEF Composer!Render
  <2>2. DOMAIN s = Field
    BY <1>1, SetFields
  <2> QED BY <1>6, <1>7, <2>1, <2>2
<1>8. CASE d \in {"bullet", "todo"}
  <2>1. O = [out |-> Composer!Text(style) \o Composer!Spans(style, line.spans),
             style |-> Composer!AfterSpans(style, line.spans)]
    BY <1>8 DEF Composer!Render
  <2>2. Left(Composer!Spans(style, line.spans)) /\ Left(Composer!Text(style))
    BY <1>1, SpansLeft DEF Left, Composer!Text
  <2>3. /\ Composer!Text(style) = <<[what |-> "text", style |-> style]>>
        /\ Composer!Spans(style, line.spans) \in
             Seq({[what |-> "text", style |-> Composer!Set(style, Composer!SpanStyle(x))] : x \in InlineAny})
    BY DEF Composer!Text, Composer!Spans
  <2>4. Left(Composer!Text(style) \o Composer!Spans(style, line.spans))
    <3> DEFINE a == Composer!Text(style)
               b == Composer!Spans(style, line.spans)
    <3>1. a \in Seq({[what |-> "text", style |-> style]})
      BY <2>3
    <3> HIDE DEF a, b
    <3> QED BY <2>2, <2>3, <3>1, ConcatProperties DEF Left
  <2> QED BY <1>1, <1>8, <2>1, <2>4, SpansEnd
<1>9. CASE d \in {"plain", "styled", "fence"}
  <2> DEFINE s == Composer!Set(style, [align |-> "left"])
  <2>1. O = [out |-> Composer!Spans(s, line.spans),
             style |-> Composer!Set(Composer!AfterSpans(s, line.spans), [align |-> "left"])]
    BY <1>9 DEF Composer!Render
  <2>2. DOMAIN s = Field
    BY <1>1, SetFields
  <2> QED BY <1>6, <1>9, <2>1, <2>2, SpansLeft
<1> QED BY <1>2, <1>3, <1>4, <1>5, <1>7, <1>8, <1>9

-----------------------------------------------------------------------------

\* The lines that are tried.
AnyLine == Composer!Line \cup [kind : LongKind, lead : BOOLEAN, spans : {<<"plain", "plain">>}]

FontInv == Composer!StyleDoesNotLeak /\ body \in Seq(AnyLine) /\ Composer!PrintsAsPreviewed

LEMMA FontInits == Composer!Init => FontInv
  BY DEF Composer!Init, FontInv, Composer!StyleDoesNotLeak, Composer!PrintsAsPreviewed

LEMMA LinesAreAny ==
  ASSUME NEW line \in Composer!Tried
  PROVE  /\ line \in AnyLine /\ line.spans \in Seq(InlineAny)
         /\ Composer!Directive(line) \in {"blank", "rule", "double", "cut", "h1", "h2", "centered",
                                          "bullet", "todo", "plain", "styled", "fence"}
<1>1. /\ Kind \subseteq {"blank", "rule", "double", "cut", "h1", "h2", "centered", "bullet", "todo",
                         "styled", "fence", "plain"}
      /\ LongKind \subseteq Kind
  BY PaperAssumption DEF Composer!ComposerAssumption
<1>2. Inline \subseteq InlineAny /\ "plain" \in InlineAny
  BY PaperAssumption DEF Composer!ComposerAssumption, InlineAny
<1>3. line \in AnyLine
  BY DEF Composer!Tried, AnyLine
<1>4. CASE line \in Composer!Line
  <2>1. line.kind \in Kind /\ line.spans \in {<<a, b>> : a, b \in Inline}
    BY <1>4 DEF Composer!Line
  <2>2. PICK a, b \in Inline : line.spans = <<a, b>>
    BY <2>1
  <2>3. <<a, b>> \in Seq(InlineAny)
    BY <1>2
  <2>4. line.spans \in Seq(InlineAny)
    BY <2>2, <2>3
  <2>5. line.kind \in Kind
    BY <2>1
  <2> QED BY <1>1, <1>3, <2>4, <2>5 DEF Composer!Directive
<1>5. CASE line \in [kind : LongKind, lead : BOOLEAN, spans : {<<"plain", "plain">>}]
  <2>1. line.kind \in Kind /\ line.spans = <<"plain", "plain">>
    BY <1>1, <1>5
  <2>2. <<"plain", "plain">> \in Seq(InlineAny)
    BY <1>2
  <2> QED BY <1>1, <1>3, <2>1, <2>2 DEF Composer!Directive
<1> QED BY <1>3, <1>4, <1>5 DEF AnyLine

LEMMA FontSteps == FontInv /\ (Composer!Next \/ UNCHANGED composerVars) => FontInv'
<1> SUFFICES ASSUME FontInv, Composer!Next \/ UNCHANGED composerVars PROVE FontInv'
  OBVIOUS
<1>1. CASE UNCHANGED <<body, style, out>>
  BY <1>1
    DEF FontInv, Composer!StyleDoesNotLeak, Composer!PrintsAsPreviewed, Composer!Plain, Composer!Last
<1>2. CASE Composer!Compose
  <2>1. PICK line \in Composer!Tried : /\ body' = Append(body, line) /\ out' = Composer!Render(line).out
                                       /\ style' = Composer!Render(line).style
    BY <1>2 DEF Composer!Compose
  <2>2. /\ line \in AnyLine /\ line.spans \in Seq(InlineAny)
        /\ Composer!Directive(line) \in {"blank", "rule", "double", "cut", "h1", "h2", "centered",
                                         "bullet", "todo", "plain", "styled", "fence"}
    BY <2>1, LinesAreAny
  <2>5. style = Composer!Plain
    BY DEF FontInv, Composer!StyleDoesNotLeak
  <2>6. /\ style' = Composer!Plain
        /\ Composer!Directive(line) \in {"h1", "h2"} => Center(out')
        /\ Composer!Directive(line) \notin {"h1", "h2", "centered"} => Left(out')
    BY <2>1, <2>2, <2>5, RenderEnds
  <2>7. body' \in Seq(AnyLine) /\ Composer!Last(body') = line
    BY <2>1, <2>2, AppendProperties DEF FontInv, Composer!Last
  <2>8. Composer!PrintsAsPreviewed'
    BY <2>6, <2>7 DEF Composer!PrintsAsPreviewed, Left, Center, Composer!PreviewAlign
  <2>9. Composer!StyleDoesNotLeak'
    BY <2>6 DEF Composer!StyleDoesNotLeak, Composer!Plain
  <2> QED BY <2>7, <2>8, <2>9 DEF FontInv
<1> QED BY <1>1, <1>2
  DEF Composer!Next, Composer!Type, Composer!Quiesced, Composer!vars, composerVars

\* Renderer and text.render: bodies of any lines, over any growth of the canvas.
THEOREM LayoutStaysSound == PaperSpec => []LayoutSound
<1>1. PaperInit => CanvasInv /\ FontInv
  BY CanvasInits, FontInits DEF PaperInit
<1>2. CanvasInv /\ FontInv /\ [PaperNext]_paperVars => (CanvasInv /\ FontInv)'
  BY PartsStep, CanvasSteps, FontSteps
<1>3. CanvasInv /\ FontInv => LayoutSound
  BY CanvasIsSound DEF LayoutSound, FontInv
<1> QED BY <1>1, <1>2, <1>3, PTL DEF PaperSpec

-----------------------------------------------------------------------------
(* Wrapping                                                                *)

Piece == [kind : {"word", "blank", "cjk"}, len : Nat, big : BOOLEAN]

\* The pieces to place are of the last chunk, and a run of blanks is one piece; a
\* line that is empty but for the first was started by blanks.
WrapInv ==
  /\ text \in Seq(Piece) /\ pieces \in Seq(Piece) /\ lines \in Seq(Seq(Piece)) /\ Len(lines) >= 1
  /\ pieces # <<>> =>
       /\ Len(text) >= 1
       /\ \A i \in 1..Len(pieces) : pieces[i].kind = text[Len(text)].kind
       /\ text[Len(text)].kind = "blank" => Len(pieces) = 1
  /\ Len(lines) > 1 /\ lines[Len(lines)] = <<>> =>
       IF pieces = <<>> THEN Len(text) >= 1 /\ text[Len(text)].kind = "blank"
       ELSE Len(text) >= 2 /\ text[Len(text) - 1].kind = "blank"
  /\ Wrap!BlankStartNeedsTwo

LEMMA WrapInits == Wrap!Init => WrapInv
<1> SUFFICES ASSUME Wrap!Init PROVE WrapInv
  OBVIOUS
<1>1. text = <<>> /\ pieces = <<>> /\ lines = << <<>> >>
  BY DEF Wrap!Init
<1>2. text \in Seq(Piece) /\ pieces \in Seq(Piece) /\ lines \in Seq(Seq(Piece)) /\ Len(lines) = 1
  BY <1>1
<1>3. Wrap!BlankStartNeedsTwo
  BY <1>2 DEF Wrap!BlankStartNeedsTwo
<1> QED BY <1>1, <1>2, <1>3 DEF WrapInv

LEMMA ChunksStep == WrapInv /\ Wrap!Chunks => WrapInv'
<1> SUFFICES ASSUME WrapInv, Wrap!Chunks PROVE WrapInv'
  OBVIOUS
<1>1. pieces = <<>> /\ lines' = lines
  BY DEF Wrap!Chunks
<1>2. PICK c \in Wrap!Chunk : text' = Append(text, c) /\ pieces' = Wrap!WrapTokens(c)
  BY DEF Wrap!Chunks
<1>3. c \in Piece /\ c.len \in Nat \ {0}
  BY PaperAssumption DEF Wrap!WrapAssumption, Wrap!Chunk, Piece
<1>4. /\ pieces' \in Seq(Piece) /\ Len(pieces') >= 1
      /\ \A i \in 1..Len(pieces') : pieces'[i].kind = c.kind
      /\ c.kind = "blank" => Len(pieces') = 1
  <2>1. CASE c.kind = "cjk"
    <3>1. pieces' = [i \in 1..c.len |-> [c EXCEPT !.len = 1]]
      BY <1>2, <2>1 DEF Wrap!WrapTokens
    <3>2. [c EXCEPT !.len = 1] \in Piece /\ [c EXCEPT !.len = 1].kind = c.kind
      BY <1>3 DEF Piece
    <3>3. pieces' \in [1..c.len -> Piece] /\ \A i \in 1..c.len : pieces'[i].kind = c.kind
      BY <3>1, <3>2
    <3>4. pieces' \in Seq(Piece) /\ Len(pieces') = c.len
      BY <1>3, <3>3, LenProperties
    <3> QED BY <1>3, <2>1, <3>3, <3>4
  <2>2. CASE c.kind # "cjk"
    <3>1. pieces' = <<c>>
      BY <1>2, <2>2 DEF Wrap!WrapTokens
    <3> QED BY <1>3, <3>1
  <2> QED BY <2>1, <2>2
<1>5. /\ text' \in Seq(Piece) /\ Len(text') = Len(text) + 1 /\ text'[Len(text')] = c
      /\ \A i \in 1..Len(text) : text'[i] = text[i]
  BY <1>2, <1>3 DEF WrapInv
<1>6. pieces' # <<>> /\ Len(text) \in Nat
  BY <1>4 DEF WrapInv
<1>7. Len(lines) > 1 /\ lines[Len(lines)] = <<>> => Len(text') >= 2 /\ text'[Len(text') - 1].kind = "blank"
  <2> SUFFICES ASSUME Len(lines) > 1 /\ lines[Len(lines)] = <<>>
               PROVE  Len(text') >= 2 /\ text'[Len(text') - 1].kind = "blank"
    OBVIOUS
  <2>1. Len(text) >= 1 /\ text[Len(text)].kind = "blank"
    BY <1>1 DEF WrapInv
  <2>2. Len(text') - 1 = Len(text) /\ Len(text) \in 1..Len(text)
    BY <1>5, <1>6, <2>1
  <2>3. text'[Len(text)] = text[Len(text)]
    BY <1>5, <2>2
  <2> QED BY <1>5, <1>6, <2>1, <2>2, <2>3
<1>8. Wrap!BlankStartNeedsTwo'
  <2> SUFFICES ASSUME NEW i \in 2..Len(lines), lines[i] # <<>>, lines[i][1].kind = "blank"
               PROVE  \E j \in 2..Len(text') : text'[j - 1].kind = "blank" /\ text'[j].kind = "blank"
    BY <1>1 DEF Wrap!BlankStartNeedsTwo
  <2>1. PICK j \in 2..Len(text) : text[j - 1].kind = "blank" /\ text[j].kind = "blank"
    BY DEF WrapInv, Wrap!BlankStartNeedsTwo
  <2>2. j \in 2..Len(text') /\ j \in 1..Len(text) /\ j - 1 \in 1..Len(text)
    BY <1>5, <1>6
  <2> QED BY <1>5, <2>1, <2>2
<1> QED BY <1>1, <1>4, <1>5, <1>6, <1>7, <1>8 DEF WrapInv

LEMMA FrontOf ==
  ASSUME NEW S, NEW s \in Seq(S), Len(s) >= 1
  PROVE  /\ Wrap!Front(s) \in Seq(S) /\ Len(Wrap!Front(s)) = Len(s) - 1
         /\ \A i \in 1..(Len(s) - 1) : Wrap!Front(s)[i] = s[i]
<1> DEFINE k == Len(s) - 1
<1>1. k \in Int /\ k >= 0 /\ 1 \in Int /\ \A i \in 1..k : s[i] \in S
  OBVIOUS
<1>2. Wrap!Front(s) = SubSeq(s, 1, k)
  BY DEF Wrap!Front
<1> HIDE DEF k
<1>3. /\ SubSeq(s, 1, k) \in Seq(S) /\ Len(SubSeq(s, 1, k)) = IF 1 <= k THEN k - 1 + 1 ELSE 0
      /\ \A i \in 1..(k - 1 + 1) : SubSeq(s, 1, k)[i] = s[1 + i - 1]
  BY ONLY <1>1, SubSeqProperties
<1>4. Len(Wrap!Front(s)) = k
  BY <1>1, <1>2, <1>3
<1>5. \A i \in 1..k : Wrap!Front(s)[i] = s[i]
  BY <1>1, <1>2, <1>3
<1> QED BY <1>2, <1>3, <1>4, <1>5 DEF k

LEMMA PlaceStep == WrapInv /\ Wrap!Place => WrapInv'
<1> SUFFICES ASSUME WrapInv, Wrap!Place PROVE WrapInv'
  OBVIOUS
<1> DEFINE piece == Head(pieces)
           n == Len(lines)
           m == Len(text)
<1>1. pieces # <<>> /\ pieces' = Tail(pieces) /\ text' = text
  BY DEF Wrap!Place
<1>2. /\ text \in Seq(Piece) /\ pieces \in Seq(Piece) /\ lines \in Seq(Seq(Piece))
      /\ n \in Nat /\ n >= 1 /\ m \in Nat /\ m >= 1
  BY <1>1 DEF WrapInv
<1>3. piece \in Piece /\ pieces' \in Seq(Piece) /\ piece = pieces[1] /\ 1 \in 1..Len(pieces)
      /\ Len(pieces') = Len(pieces) - 1 /\ Len(pieces) \in Nat
      /\ \A i \in 1..Len(pieces') : pieces'[i] = pieces[i + 1] /\ i + 1 \in 1..Len(pieces)
  BY <1>1, <1>2
<1>4. /\ \A i \in 1..Len(pieces) : pieces[i].kind = text[m].kind
      /\ text[m].kind = "blank" => Len(pieces) = 1
  BY <1>1 DEF WrapInv
<1>5. /\ piece.kind = text[m].kind
      /\ piece.kind = "blank" => pieces' = <<>>
      /\ \A i \in 1..Len(pieces') : pieces'[i].kind = text[m].kind
      /\ pieces' # <<>> => text[m].kind # "blank"
  <2>1. piece.kind = text[m].kind
    BY <1>3, <1>4
  <2>2. \A i \in 1..Len(pieces') : pieces'[i].kind = text[m].kind
    BY <1>3, <1>4
  <2>3. text[m].kind = "blank" => pieces' = <<>>
    <3>1. pieces' \in Seq(Piece) /\ (Len(pieces') = 0 => pieces' = <<>>)
      BY <1>3
    <3>2. Len(pieces) = 1 => Len(pieces') = 0
      BY <1>3
    <3> QED BY <1>4, <3>1, <3>2
  <2> QED BY <2>1, <2>2, <2>3
<1>6. Wrap!Last(lines) = lines[n] /\ lines[n] \in Seq(Piece)
  BY <1>2 DEF Wrap!Last
<1>7. \/ /\ lines' = Wrap!Front(lines) \o <<Append(lines[n], piece)>>
      \/ /\ lines[n] # <<>>
         /\ lines' = Append(lines, Wrap!NewLine(piece))
  BY <1>6 DEF Wrap!Place
<1> DEFINE Two == \E j \in 2..m : text[j - 1].kind = "blank" /\ text[j].kind = "blank"
<1>8. ASSUME NEW i \in 2..n, lines[i] # <<>>, lines[i][1].kind = "blank" PROVE Two
  BY <1>8 DEF WrapInv, Wrap!BlankStartNeedsTwo
<1>9. SUFFICES /\ lines' \in Seq(Seq(Piece)) /\ Len(lines') >= 1
               /\ Len(lines') > 1 /\ lines'[Len(lines')] = <<>> => pieces' = <<>> /\ text[m].kind = "blank"
               /\ \A i \in 2..Len(lines') : lines'[i] # <<>> /\ lines'[i][1].kind = "blank" => Two
  BY <1>1, <1>2, <1>3, <1>5 DEF WrapInv, Wrap!BlankStartNeedsTwo
<1> HIDE DEF piece, n, m, Two
<1>10. CASE lines' = Wrap!Front(lines) \o <<Append(lines[n], piece)>>
  <2> DEFINE new == Append(lines[n], piece)
  <2>1. /\ new \in Seq(Piece) /\ new # <<>>
        /\ lines[n] # <<>> => new[1] = lines[n][1]
        /\ lines[n] = <<>> => new[1] = piece
    BY <1>3, <1>6
  <2> HIDE DEF new
  <2>2. lines' = Wrap!Front(lines) \o <<new>>
    BY <1>10 DEF new
  <2>3. lines \in Seq(Seq(Piece)) /\ Len(lines) >= 1
    BY <1>2 DEF n
  <2>4. /\ lines' \in Seq(Seq(Piece)) /\ Len(lines') = n /\ lines'[n] = new
        /\ \A i \in 1..(n - 1) : lines'[i] = lines[i]
    <3>1. PICK f \in Seq(Seq(Piece)) : f = Wrap!Front(lines)
      BY <2>3, FrontOf
    <3>2. Len(f) = n - 1 /\ \A i \in 1..(n - 1) : f[i] = lines[i]
      BY <2>3, <3>1, FrontOf DEF n
    <3>3. lines' = Append(f, new)
      BY <2>1, <2>2, <3>1
    <3> QED BY <1>2, <2>1, <3>2, <3>3
  <2>5. ASSUME NEW i \in 2..n, lines'[i] # <<>>, lines'[i][1].kind = "blank" PROVE Two
    <3>1. CASE i < n
      <4>1. i \in 1..(n - 1)
        BY <1>2, <3>1
      <4>2. lines'[i] = lines[i]
        BY <2>4, <4>1
      <4> QED BY <1>8, <2>5, <4>2
    <3>2. CASE i = n /\ lines[n] # <<>>
      <4>1. lines[i][1].kind = "blank"
        BY <2>1, <2>4, <2>5, <3>2
      <4> QED BY <1>8, <3>2, <4>1
    <3>3. CASE i = n /\ lines[n] = <<>>
      <4>1. piece.kind = "blank"
        BY <2>1, <2>4, <2>5, <3>3
      <4>2. m >= 2 /\ text[m - 1].kind = "blank"
        BY <1>1, <1>2, <3>3 DEF WrapInv, n, m
      <4>3. m \in 2..m /\ text[m].kind = "blank"
        BY <1>2, <1>5, <4>1, <4>2
      <4> QED BY <4>2, <4>3 DEF Two
    <3> QED BY <1>2, <3>1, <3>2, <3>3
  <2> QED BY <1>2, <2>1, <2>4, <2>5
<1>11. CASE lines[n] # <<>> /\ lines' = Append(lines, Wrap!NewLine(piece))
  <2> DEFINE new == Wrap!NewLine(piece)
  <2>1. /\ new \in Seq(Piece)
        /\ new = <<>> => piece.kind = "blank"
        /\ new # <<>> => new[1].kind # "blank"
    BY <1>3 DEF Wrap!NewLine
  <2> HIDE DEF new
  <2>2. lines' = Append(lines, new)
    BY <1>11 DEF new
  <2>3. /\ lines' \in Seq(Seq(Piece)) /\ Len(lines') = n + 1 /\ lines'[n + 1] = new
        /\ \A i \in 1..n : lines'[i] = lines[i]
    BY <1>2, <2>1, <2>2 DEF n
  <2>4. ASSUME NEW i \in 2..(n + 1), lines'[i] # <<>>, lines'[i][1].kind = "blank" PROVE Two
    <3>1. CASE i = n + 1
      BY <2>1, <2>3, <2>4, <3>1
    <3>2. CASE i <= n
      <4>1. lines'[i] = lines[i] /\ i \in 2..n
        BY <1>2, <2>3, <3>2
      <4> QED BY <1>8, <2>4, <4>1
    <3> QED BY <1>2, <3>1, <3>2
  <2> QED BY <1>2, <1>5, <2>1, <2>3, <2>4
<1> QED BY <1>7, <1>10, <1>11

\* "Don't start a line with pure whitespace": whatever is wrapped, a wrapped line
\* starts with blanks only where one span ends in blanks and the next begins with
\* them (Renderer._spans).
THEOREM BlanksStartLinesOnlyInTwos == PaperSpec => [](part = "wrap" => Wrap!BlankStartNeedsTwo)
<1>1. PaperInit => WrapInv
  BY WrapInits DEF PaperInit
<1>2. WrapInv /\ [PaperNext]_paperVars => WrapInv'
  <2> SUFFICES ASSUME WrapInv, [PaperNext]_paperVars PROVE WrapInv'
    OBVIOUS
  <2>1. Wrap!Next \/ UNCHANGED wrapVars
    BY PartsStep
  <2>2. CASE UNCHANGED <<text, pieces, lines>>
    BY <2>2 DEF WrapInv, Wrap!BlankStartNeedsTwo
  <2> QED
    BY <2>1, <2>2, ChunksStep, PlaceStep
    DEF Wrap!Next, Wrap!Finish, Wrap!Drawn, Wrap!vars, wrapVars
<1>3. WrapInv => (part = "wrap" => Wrap!BlankStartNeedsTwo)
  BY DEF WrapInv
<1> QED BY <1>1, <1>2, <1>3, PTL DEF PaperSpec

-----------------------------------------------------------------------------
(* Pictures                                                                *)

\* round() is off by half at most.
LEMMA RoundedNear ==
  ASSUME NEW n \in Nat, NEW d \in Nat \ {0}
  PROVE  /\ Pictures!Rounded(n, d) \in Nat
         /\ 2 * (Pictures!Rounded(n, d) * d - n) \in -d..d
<1> DEFINE q == n \div d
           m == n % d
<1>1. q \in Nat /\ m \in 0..(d - 1) /\ n = q * d + m
  OBVIOUS
<1>2. CASE Pictures!Rounded(n, d) = q
  <2>1. 2 * m <= d
    BY <1>1, <1>2 DEF Pictures!Rounded
  <2>2. q * d - n = -m
    BY <1>1
  <2> QED BY <1>1, <1>2, <2>1, <2>2
<1>3. CASE Pictures!Rounded(n, d) = q + 1 /\ Pictures!Rounded(n, d) # q
  <2>1. 2 * m >= d
    BY <1>1, <1>3 DEF Pictures!Rounded
  <2>2. (q + 1) * d - n = d - m
    BY <1>1
  <2> QED BY <1>1, <1>3, <2>1, <2>2
<1> QED BY <1>2, <1>3 DEF Pictures!Rounded

Fills(picture) == restarts = 0 => picture.w = width

PictureInv ==
  /\ width \in Paper /\ restarts \in Nat
  /\ \A picture \in sent : picture.h \in 1..Pictures!MAX_OUTPUT_HEIGHT /\ Fills(picture)
  /\ \A row \in pictureRows :
       LET picture == row.picture IN
       /\ picture.h \in 1..Pictures!MAX_OUTPUT_HEIGHT /\ Fills(picture)
       /\ picture.ink /\ picture.by = row.user
  /\ Pictures!ShapeKept /\ refused # "strip"

\* to has the shape of size but for half a row.
Shaped(to, size) == 2 * (to[2] * size[1] - size[2] * to[1]) \in (-size[1])..size[1] \/ to[2] = 1

\* A file that is not refused, scaled: it fits the paper, and has its shape.
LEMMA ScaledFits ==
  ASSUME width \in Paper, NEW size \in Nat \X Nat, NEW asked \in Int,
         Pictures!Refusal(size, asked) = "no", NEW to, to = Pictures!ScaledTo(size, asked)
  PROVE  /\ to[2] \in 1..Pictures!MAX_OUTPUT_HEIGHT /\ Pictures!Larger(to[1], width) = width
         /\ Shaped(to, size)
<1> DEFINE tw == Pictures!TargetWidth(asked)
           rd == Pictures!Rounded(size[2] * tw, size[1])
<1>1. width \in 16..576
  BY PaperAssumption DEF Pictures!PicturesAssumption
<1>2. tw \in 8..width
  BY <1>1 DEF Pictures!TargetWidth, Pictures!Larger, Pictures!Smaller
<1>3. size[1] \in Nat \ {0} /\ size[2] \in Nat \ {0}
  BY DEF Pictures!Refusal
<1>4. ~(to[2] > 4096)
  BY DEF Pictures!Refusal, Pictures!MAX_OUTPUT_HEIGHT
<1>5. size[2] * tw \in Nat
  BY <1>2, <1>3
<1>6. rd \in Nat /\ 2 * (rd * size[1] - size[2] * tw) \in (-size[1])..size[1]
  <2> HIDE DEF tw
  <2> QED BY <1>3, <1>5, RoundedNear
<1>7. to[1] = tw /\ to[2] = (IF size[1] = tw THEN size[2] ELSE Pictures!Larger(1, rd))
  BY DEF Pictures!ScaledTo
<1>8. to[2] \in 1..4096
  <2> HIDE DEF tw, rd
  <2>1. to[2] \in Nat /\ to[2] >= 1
    BY <1>3, <1>6, <1>7 DEF Pictures!Larger
  <2> DEFINE h == to[2]
  <2>2. h \in Nat /\ h >= 1 /\ ~(h > 4096)
    BY <1>4, <2>1
  <2>3. h \in 1..4096
    <3> HIDE DEF h
    <3> QED BY <2>2
  <2> QED BY <2>3
<1>9. Shaped(to, size)
  <2> HIDE DEF tw, rd
  <2>1. CASE size[1] = tw
    <3>1. to[2] * size[1] - size[2] * to[1] = 0
      BY <1>2, <1>3, <1>7, <2>1
    <3> QED BY <1>3, <3>1 DEF Shaped
  <2>2. CASE size[1] # tw /\ rd >= 1
    <3>1. to[2] = rd
      BY <1>6, <1>7, <2>2 DEF Pictures!Larger
    <3> QED BY <1>6, <1>7, <3>1 DEF Shaped
  <2>3. CASE size[1] # tw /\ ~(rd >= 1)
    BY <1>6, <1>7, <2>3 DEF Pictures!Larger, Shaped
  <2> QED BY <2>1, <2>2, <2>3
<1>10. Pictures!Larger(to[1], width) = width
  <2> HIDE DEF tw
  <2> QED BY <1>1, <1>2, <1>7 DEF Pictures!Larger
<1> HIDE DEF tw, rd
<1> QED BY <1>8, <1>9, <1>10 DEF Pictures!MAX_OUTPUT_HEIGHT

\* Padded, such a file fills it.
LEMMA PaddedFits ==
  ASSUME NEW to, Pictures!Larger(to[1], width) = width, NEW ink, NEW by
  PROVE  Pictures!Padded(Pictures!Picture(to, ink, by))
           = [w |-> width, h |-> to[2], ink |-> ink, by |-> by]
  BY DEF Pictures!Padded, Pictures!Picture

LEMMA RenderedFits ==
  ASSUME width \in Paper
  PROVE  Pictures!Rendered.h \in 1..Pictures!MAX_OUTPUT_HEIGHT /\ Pictures!Rendered.w = width
  BY DEF Pictures!Rendered, Pictures!Picture, Pictures!Title, Pictures!MAX_OUTPUT_HEIGHT

\* Four frames and the tallest caption: fewer than 44 + 16 + 4 * 576 + 1213 rows.
LEMMA StripFits ==
  ASSUME width \in Paper, NEW frames \in 1..Pictures!MAX_FRAMES, NEW label \in Label
  PROVE  /\ Pictures!StripSize(frames, label)[1] = width
         /\ Pictures!StripSize(frames, label)[2] \in 1..Pictures!MAX_OUTPUT_HEIGHT
<1>1. width \in 16..576 /\ label \in 0..1212 /\ frames \in 1..4
  BY PaperAssumption DEF Pictures!PicturesAssumption, Pictures!MAX_FRAMES
<1>2. Pictures!Margin \in 8..24 /\ Pictures!Gap \in 8..16 /\ Pictures!Margin <= width
  BY <1>1 DEF Pictures!Margin, Pictures!Gap, Pictures!Larger
<1>3. 2 * Pictures!Margin <= width /\ Pictures!Side + Pictures!Gap <= 576
  BY <1>1, <1>2 DEF Pictures!Side, Pictures!Margin, Pictures!Gap, Pictures!Larger
<1>4. Pictures!Side + Pictures!Gap \in 0..576
  BY <1>1, <1>2, <1>3 DEF Pictures!Side
<1>5. frames * (Pictures!Side + Pictures!Gap) \in 0..2304
  BY <1>1, <1>4
<1> DEFINE all == frames * (Pictures!Side + Pictures!Gap)
<1>6. Pictures!StripSize(frames, label) = <<width, 44 + Pictures!Gap + all + label>>
  BY DEF Pictures!StripSize, Pictures!Title
<1>7. all \in 0..2304
  BY <1>5
<1> HIDE DEF all
<1>8. 44 + Pictures!Gap + all + label \in 1..4096
  BY <1>1, <1>2, <1>7
<1> QED BY <1>6, <1>8 DEF Pictures!MAX_OUTPUT_HEIGHT

LEMMA PictureInits == Pictures!Init => PictureInv
  BY DEF Pictures!Init, PictureInv, Pictures!ShapeKept

\* What a row is kept with.
LEMMA KeepKeeps ==
  ASSUME PictureInv, NEW user, NEW kind, NEW picture, Pictures!Keep(user, kind, picture),
         picture.h \in 1..Pictures!MAX_OUTPUT_HEIGHT, Fills(picture), picture.ink, picture.by = user,
         UNCHANGED <<width, restarts>>, Pictures!ShapeKept'
  PROVE  PictureInv'
  BY DEF PictureInv, Fills, Pictures!Keep

LEMMA RefuseKeeps ==
  ASSUME PictureInv, NEW why, why # "strip", Pictures!Refuse(why), UNCHANGED <<width, restarts>>
  PROVE  PictureInv'
  BY DEF PictureInv, Fills, Pictures!Refuse, Pictures!ShapeKept

LEMMA PictureSteps == PictureInv /\ (Pictures!Next \/ UNCHANGED pictureVars) => PictureInv'
<1> SUFFICES ASSUME PictureInv, Pictures!Next \/ UNCHANGED pictureVars PROVE PictureInv'
  OBVIOUS
<1>1. width \in Paper /\ width \in Int /\ restarts \in Nat
  BY PaperAssumption DEF PictureInv, Pictures!PicturesAssumption
<1>2. \A size, asked : Pictures!Refusal(size, asked) \in {"empty", "pixels", "tall", "no"}
  BY DEF Pictures!Refusal
<1>3. CASE UNCHANGED pictureVars
  BY <1>3 DEF pictureVars, PictureInv, Fills, Pictures!ShapeKept
<1>4. CASE Pictures!PrintImage
  <2>1. PICK size \in Upload, asked \in OptWidth, captioned \in BOOLEAN :
          IF Pictures!Refusal(size, asked) # "no" THEN Pictures!Refuse(Pictures!Refusal(size, asked))
          ELSE /\ sent' = {Pictures!Padded(Pictures!Picture(Pictures!ScaledTo(size, asked), TRUE, "owner"))}
                            \cup (IF captioned THEN {Pictures!Rendered} ELSE {})
               /\ scaled' = {[from |-> size, to |-> Pictures!ScaledTo(size, asked)]}
               /\ refused' = "no" /\ UNCHANGED pictureRows
    BY <1>4 DEF Pictures!PrintImage
  <2>2. UNCHANGED <<width, restarts>>
    BY <1>4 DEF Pictures!PrintImage
  <2>3. CASE Pictures!Refusal(size, asked) # "no"
    <3>1. Pictures!Refuse(Pictures!Refusal(size, asked)) /\ Pictures!Refusal(size, asked) # "strip"
      BY <1>2, <2>1, <2>3
    <3> QED BY <2>2, <3>1, RefuseKeeps
  <2>4. CASE Pictures!Refusal(size, asked) = "no"
    <3>1. size \in Nat \X Nat /\ asked \in Int
      BY PaperAssumption DEF Pictures!PicturesAssumption
    <3> DEFINE to == Pictures!ScaledTo(size, asked)
               picture == Pictures!Padded(Pictures!Picture(to, TRUE, "owner"))
    <3>2. /\ to[2] \in 1..Pictures!MAX_OUTPUT_HEIGHT /\ Pictures!Larger(to[1], width) = width
          /\ Shaped(to, size)
      BY <1>1, <2>4, <3>1, ScaledFits
    <3>3. /\ \A p \in sent' : p = picture \/ p = Pictures!Rendered
          /\ scaled' = {[from |-> size, to |-> to]} /\ refused' = "no" /\ UNCHANGED pictureRows
      BY <2>1, <2>4
    <3>6. picture = [w |-> width, h |-> to[2], ink |-> TRUE, by |-> "owner"]
      BY <3>2, PaddedFits
    <3> HIDE DEF to, picture
    <3>7. picture.h \in 1..Pictures!MAX_OUTPUT_HEIGHT /\ picture.w = width
      BY <3>2, <3>6
    <3>4. \A p \in sent' : p.h \in 1..Pictures!MAX_OUTPUT_HEIGHT /\ Fills(p)'
      BY <1>1, <2>2, <3>3, <3>7, RenderedFits DEF Fills
    <3>5. Pictures!ShapeKept'
      BY <3>2, <3>3 DEF Pictures!ShapeKept, Shaped
    <3> QED BY <2>2, <3>3, <3>4, <3>5 DEF PictureInv, Fills
  <2> QED BY <2>3, <2>4
<1>5. CASE Pictures!SendDoodle
  <2>1. PICK user \in User, size \in Drawing, drawn \in BOOLEAN, left \in BOOLEAN :
          IF Pictures!Refusal(size, width) # "no" THEN Pictures!Refuse(Pictures!Refusal(size, width))
          ELSE IF Pictures!Blank(drawn, left) THEN Pictures!Refuse("blank")
          ELSE /\ Pictures!Keep(user, "doodle",
                    Pictures!Padded(Pictures!Picture(Pictures!ScaledTo(size, width), left, user)))
               /\ scaled' = {[from |-> size, to |-> Pictures!ScaledTo(size, width)]}
    BY <1>5 DEF Pictures!SendDoodle
  <2>2. UNCHANGED <<width, restarts>>
    BY <1>5 DEF Pictures!SendDoodle
  <2>3. CASE Pictures!Refusal(size, width) # "no"
    <3>1. Pictures!Refuse(Pictures!Refusal(size, width)) /\ Pictures!Refusal(size, width) # "strip"
      BY <1>2, <2>1, <2>3
    <3> QED BY <2>2, <3>1, RefuseKeeps
  <2>4. CASE Pictures!Refusal(size, width) = "no" /\ ~left
    BY <2>1, <2>2, <2>4, RefuseKeeps DEF Pictures!Blank
  <2>5. CASE Pictures!Refusal(size, width) = "no" /\ left
    <3>1. size \in Nat \X Nat
      BY PaperAssumption DEF Pictures!PicturesAssumption
    <3> DEFINE to == Pictures!ScaledTo(size, width)
               picture == Pictures!Padded(Pictures!Picture(to, left, user))
    <3>2. /\ to[2] \in 1..Pictures!MAX_OUTPUT_HEIGHT /\ Pictures!Larger(to[1], width) = width
          /\ Shaped(to, size)
      BY <1>1, <2>5, <3>1, ScaledFits
    <3>3. Pictures!Keep(user, "doodle", picture) /\ scaled' = {[from |-> size, to |-> to]}
      BY <2>1, <2>5 DEF Pictures!Blank
    <3>4. picture = [w |-> width, h |-> to[2], ink |-> left, by |-> user]
      BY <3>2, PaddedFits
    <3> HIDE DEF to, picture
    <3>5. Pictures!ShapeKept'
      BY <3>2, <3>3 DEF Pictures!ShapeKept, Shaped
    <3>6. picture.h \in 1..Pictures!MAX_OUTPUT_HEIGHT /\ picture.ink /\ picture.by = user
      BY <2>5, <3>2, <3>4
    <3>7. Fills(picture)
      BY <3>4 DEF Fills
    <3> QED BY <2>2, <3>3, <3>5, <3>6, <3>7, KeepKeeps
  <2> QED BY <2>3, <2>4, <2>5
<1>6. CASE Pictures!SendStrip
  <2>1. PICK user \in User, frames \in 1..Pictures!MAX_FRAMES, label \in Label :
          IF Pictures!StripSize(frames, label)[2] > Pictures!MAX_OUTPUT_HEIGHT THEN Pictures!Refuse("strip")
          ELSE /\ Pictures!Keep(user, "photo", Pictures!Picture(Pictures!StripSize(frames, label), TRUE, user))
               /\ scaled' = {}
    BY <1>6 DEF Pictures!SendStrip
  <2> DEFINE size == Pictures!StripSize(frames, label)
             picture == Pictures!Picture(size, TRUE, user)
  <2>2. size[1] = width /\ size[2] \in 1..Pictures!MAX_OUTPUT_HEIGHT
    BY <1>1, StripFits
  <2>3. ~(size[2] > Pictures!MAX_OUTPUT_HEIGHT)
    <3>1. \A n \in 1..Pictures!MAX_OUTPUT_HEIGHT : ~(n > Pictures!MAX_OUTPUT_HEIGHT)
      BY DEF Pictures!MAX_OUTPUT_HEIGHT
    <3> QED BY <2>2, <3>1
  <2>4. Pictures!Keep(user, "photo", picture) /\ scaled' = {}
    BY <2>1, <2>3
  <2>5. picture.h = size[2] /\ picture.w = size[1] /\ picture.ink /\ picture.by = user
    <3> HIDE DEF size
    <3> QED BY DEF Pictures!Picture
  <2>6. UNCHANGED <<width, restarts>>
    BY <1>6 DEF Pictures!SendStrip
  <2>7. Pictures!ShapeKept'
    BY <2>4 DEF Pictures!ShapeKept
  <2> HIDE DEF size, picture
  <2>8. picture.h \in 1..Pictures!MAX_OUTPUT_HEIGHT /\ Fills(picture)
    BY <2>2, <2>5 DEF Fills
  <2> QED BY <2>4, <2>5, <2>6, <2>7, <2>8, KeepKeeps
<1>7. CASE Pictures!Reprint
  <2>1. PICK user \in User, row \in pictureRows :
          IF Pictures!Reusable(row, user)
          THEN Pictures!Keep(user, "photo", row.picture) /\ scaled' = {}
          ELSE Pictures!Refuse("not found")
    BY <1>7 DEF Pictures!Reprint
  <2>2. UNCHANGED <<width, restarts>>
    BY <1>7 DEF Pictures!Reprint
  <2>3. CASE Pictures!Reusable(row, user)
    <3>1. Pictures!ShapeKept'
      BY <2>1, <2>3 DEF Pictures!ShapeKept
    <3>2. /\ row.picture.h \in 1..Pictures!MAX_OUTPUT_HEIGHT /\ Fills(row.picture)
          /\ row.picture.ink /\ row.picture.by = row.user
      BY DEF PictureInv
    <3>3. row.user = user
      BY <2>3 DEF Pictures!Reusable
    <3> QED BY <2>1, <2>2, <2>3, <3>1, <3>2, <3>3, KeepKeeps
  <2> QED BY <2>1, <2>2, <2>3, RefuseKeeps
<1>8. CASE Pictures!PrintRow
  <2>1. PICK row \in pictureRows : sent' = {Pictures!Rendered, row.picture}
    BY <1>8 DEF Pictures!PrintRow
  <2>2. /\ refused' = "no" /\ scaled' = {} /\ UNCHANGED <<width, pictureRows, restarts>>
    BY <1>8 DEF Pictures!PrintRow
  <2>3. row.picture.h \in 1..Pictures!MAX_OUTPUT_HEIGHT /\ Fills(row.picture)
    BY DEF PictureInv
  <2>4. \A p \in sent' : p.h \in 1..Pictures!MAX_OUTPUT_HEIGHT /\ Fills(p)'
    BY <1>1, <2>1, <2>2, <2>3, RenderedFits DEF Fills
  <2> QED BY <2>2, <2>4 DEF PictureInv, Fills, Pictures!ShapeKept
<1>9. CASE Pictures!Restart
  BY <1>1, <1>9 DEF Pictures!Restart, PictureInv, Fills, Pictures!ShapeKept
<1> QED BY <1>3, <1>4, <1>5, <1>6, <1>7, <1>8, <1>9 DEF Pictures!Next

\* image.process, render_strip, _photo_from_form: for any files, on any paper up to
\* 576 dots wide, and through any changes of it.
THEOREM PicturesStayFit == PaperSpec => []PicturesFit
<1>1. PaperInit => PictureInv
  BY PictureInits DEF PaperInit
<1>2. PictureInv /\ [PaperNext]_paperVars => PictureInv'
  BY PartsStep, PictureSteps
<1>3. PictureInv => PicturesFit
  BY DEF PictureInv, Fills, PicturesFit, Pictures!HeightBound, Pictures!StripsFit,
         Pictures!DrawingsHaveInk, Pictures!OwnPixels, Pictures!WidthOfPaper
<1> QED BY <1>1, <1>2, <1>3, PTL DEF PaperSpec

-----------------------------------------------------------------------------
(* The word search                                                         *)

LEMMA SeqWithout ==
  ASSUME NEW S, NEW b, NEW w \in Seq(S \ {b})
  PROVE  /\ w \in Seq(S) /\ Len(w) \in Nat /\ DOMAIN w = 1..Len(w)
         /\ \A k \in 1..Len(w) : w[k] # b
  OBVIOUS

LEMMA WordFacts ==
  ASSUME NEW w \in Words
  PROVE  /\ Len(w) \in 2..WordSize /\ DOMAIN w = 1..Len(w)
         /\ \A k \in 1..Len(w) : w[k] # WordSearch!Blank
<1>1. w \in Seq(STRING \ {WordSearch!Blank}) /\ Len(w) \in 2..WordSize
  BY PaperAssumption DEF WordSearch!WordSearchAssumption
<1> QED BY <1>1, SeqWithout

\* A line of cells whose ends are inside is inside, and has no cell twice.
LEMMA LinesOfCells ==
  ASSUME NEW w \in Words, NEW from \in WordSearch!Cell, NEW dir \in WordSearch!Directions,
         NEW cells, cells = WordSearch!Cells(w, from, dir), cells[Len(w)] \in WordSearch!Cell
  PROVE  /\ cells \in [1..Len(w) -> WordSearch!Cell]
         /\ \A i, j \in 1..Len(w) : cells[i] = cells[j] => i = j
         /\ \A k \in 2..Len(w) : cells[k] = <<cells[k - 1][1] + dir[1], cells[k - 1][2] + dir[2]>>
<1> DEFINE n == Len(w)
           a == from[1]
           b == from[2]
           d == dir[1]
           e == dir[2]
<1>1. n \in Nat /\ n >= 2 /\ WordSize \in Nat
  BY WordFacts, PaperAssumption DEF WordSearch!WordSearchAssumption
<1>2. a \in 0..(WordSize - 1) /\ b \in 0..(WordSize - 1)
  BY DEF WordSearch!Cell, WordSearch!Side
<1>3. d \in {-1, 0, 1} /\ e \in {-1, 0, 1} /\ (d # 0 \/ e # 0)
  <2>1. dir \in (-1..1) \X (-1..1) /\ dir # <<0, 0>>
    BY DEF WordSearch!Directions
  <2>2. dir = <<d, e>> /\ d \in -1..1 /\ e \in -1..1
    BY <2>1
  <2> QED BY <2>1, <2>2
<1>4. cells = [i \in 1..n |-> <<a + (i - 1) * d, b + (i - 1) * e>>]
  BY DEF WordSearch!Cells
<1>5. n \in 1..n /\ cells[n] \in (0..(WordSize - 1)) \X (0..(WordSize - 1))
  BY <1>1 DEF WordSearch!Cell, WordSearch!Side
<1> HIDE DEF n, a, b, d, e
<1>6. a + (n - 1) * d \in 0..(WordSize - 1) /\ b + (n - 1) * e \in 0..(WordSize - 1)
  BY <1>4, <1>5
<1>7. ASSUME NEW i \in 1..n
      PROVE  a + (i - 1) * d \in 0..(WordSize - 1) /\ b + (i - 1) * e \in 0..(WordSize - 1)
  BY <1>1, <1>2, <1>3, <1>6
<1>8. cells \in [1..n -> WordSearch!Cell]
  BY <1>4, <1>7 DEF WordSearch!Cell, WordSearch!Side
<1>9. ASSUME NEW i \in 1..n, NEW j \in 1..n, cells[i] = cells[j] PROVE i = j
  <2>1. a + (i - 1) * d = a + (j - 1) * d /\ b + (i - 1) * e = b + (j - 1) * e
    BY <1>4, <1>9
  <2> QED BY <1>1, <1>2, <1>3, <2>1
<1>10. ASSUME NEW k \in 2..n PROVE cells[k] = <<cells[k - 1][1] + d, cells[k - 1][2] + e>>
  <2>1. k \in 1..n /\ k - 1 \in 1..n
    BY <1>1
  <2>2. /\ cells[k] = <<a + (k - 1) * d, b + (k - 1) * e>>
        /\ cells[k - 1] = <<a + ((k - 1) - 1) * d, b + ((k - 1) - 1) * e>>
    BY <1>4, <2>1
  <2>3. /\ a + (k - 1) * d = (a + ((k - 1) - 1) * d) + d
        /\ b + (k - 1) * e = (b + ((k - 1) - 1) * e) + e
    BY <1>1, <1>2, <1>3
  <2> QED BY <2>2, <2>3
<1> QED BY <1>8, <1>9, <1>10 DEF n, d, e

\* Written puts the word there and leaves the rest.
LEMMA WrittenReads ==
  ASSUME NEW w, NEW cells \in [1..Len(w) -> WordSearch!Cell], NEW g,
         \A i, j \in 1..Len(w) : cells[i] = cells[j] => i = j
  PROVE  /\ \A k \in 1..Len(w) : WordSearch!Written(g, w, cells)[cells[k]] = w[k]
         /\ \A x \in WordSearch!Cell :
              (\A k \in 1..Len(w) : cells[k] # x) => WordSearch!Written(g, w, cells)[x] = g[x]
<1> DEFINE W == WordSearch!Written(g, w, cells)
<1>1. ASSUME NEW k \in 1..Len(w) PROVE W[cells[k]] = w[k]
  <2>1. (CHOOSE i \in 1..Len(w) : cells[i] = cells[k]) = k
    <3>1. /\ cells[CHOOSE i \in 1..Len(w) : cells[i] = cells[k]] = cells[k]
          /\ (CHOOSE i \in 1..Len(w) : cells[i] = cells[k]) \in 1..Len(w)
      OBVIOUS
    <3> QED BY <3>1
  <2>2. cells[k] \in WordSearch!Cell /\ \E i \in 1..Len(w) : cells[i] = cells[k]
    OBVIOUS
  <2>3. W[cells[k]] = w[CHOOSE i \in 1..Len(w) : cells[i] = cells[k]]
    BY <2>2 DEF WordSearch!Written
  <2> QED BY <2>1, <2>3
<1>2. ASSUME NEW x \in WordSearch!Cell, \A k \in 1..Len(w) : cells[k] # x PROVE W[x] = g[x]
  <2>1. ~ \E i \in 1..Len(w) : cells[i] = x
    BY <1>2
  <2> QED BY <2>1 DEF WordSearch!Written
<1> QED BY <1>1, <1>2

Placement == [word : Words, cells : Seq(WordSearch!Cell)]

Straight(p) ==
  /\ p.cells \in [1..Len(p.word) -> WordSearch!Cell]
  /\ \E d \in WordSearch!Directions : \A k \in 2..Len(p.word) :
       p.cells[k] = <<p.cells[k - 1][1] + d[1], p.cells[k - 1][2] + d[2]>>

\* p is readable in the letters g.
ReadableIn(p, g) == \A k \in 1..Len(p.word) : g[p.cells[k]] = p.word[k]

InOneRow(p) == \A k \in 1..Len(p.word) : p.cells[k][1] = p.cells[1][1]

WordsInv ==
  /\ words \in WordSearch!Selections /\ wordsPc \in {"hide", "rows", "done"}
  /\ placements \in Seq(Placement) /\ Len(placements) <= WordCount
  /\ \A i \in 1..Len(placements) :
       /\ placements[i].word = words[i] /\ Straight(placements[i])
       /\ ReadableIn(placements[i], letters)
       /\ wordsPc = "rows" => InOneRow(placements[i])
  /\ wordsPc = "done" => Len(placements) = WordCount

LEMMA WordsInits == WordSearch!Init => WordsInv
<1>1. <<>> \in Seq(Placement) /\ Len(<<>>) = 0 /\ WordCount \in Nat
  BY PaperAssumption DEF WordSearch!WordSearchAssumption
<1> QED BY <1>1 DEF WordSearch!Init, WordsInv

LEMMA NextWord ==
  ASSUME WordsInv, Len(placements) < WordCount
  PROVE  WordSearch!Placing \in Words /\ WordSearch!Placing = words[Len(placements) + 1]
<1>1. WordCount \in Nat /\ Len(placements) \in Nat /\ words \in [1..WordCount -> Words]
  BY PaperAssumption DEF WordSearch!WordSearchAssumption, WordsInv, WordSearch!Selections
<1>2. Len(placements) + 1 \in 1..WordCount
  BY <1>1
<1> QED BY <1>1, <1>2 DEF WordSearch!Placing

\* Another word, in cells that take nothing from those hidden before.
LEMMA HidesOne ==
  ASSUME WordsInv, Len(placements) < WordCount, NEW from \in WordSearch!Cell,
         NEW dir \in WordSearch!Directions, NEW cells,
         cells = WordSearch!Cells(WordSearch!Placing, from, dir),
         cells[Len(WordSearch!Placing)] \in WordSearch!Cell,
         \A i \in 1..Len(placements), k \in 1..Len(WordSearch!Placing) :
           \A j \in 1..Len(placements[i].word) :
             placements[i].cells[j] = cells[k] => placements[i].word[j] = WordSearch!Placing[k],
         letters' = WordSearch!Written(letters, WordSearch!Placing, cells),
         placements' = Append(placements, [word |-> WordSearch!Placing, cells |-> cells]),
         UNCHANGED <<words, wordsPc>>,
         wordsPc = "rows" => \A k \in 1..Len(WordSearch!Placing) : cells[k][1] = cells[1][1],
         wordsPc # "done"
  PROVE  WordsInv'
<1> DEFINE w == WordSearch!Placing
           new == [word |-> w, cells |-> cells]
<1>1. w \in Words /\ w = words[Len(placements) + 1]
  BY NextWord
<1>2. /\ cells \in [1..Len(w) -> WordSearch!Cell]
      /\ \A i, j \in 1..Len(w) : cells[i] = cells[j] => i = j
      /\ \A k \in 2..Len(w) : cells[k] = <<cells[k - 1][1] + dir[1], cells[k - 1][2] + dir[2]>>
  BY <1>1, LinesOfCells
<1>3. Len(w) \in Nat
  BY <1>1, WordFacts
<1>4. /\ \A k \in 1..Len(w) : letters'[cells[k]] = w[k]
      /\ \A x \in WordSearch!Cell : (\A k \in 1..Len(w) : cells[k] # x) => letters'[x] = letters[x]
  <2> HIDE DEF w
  <2>1. letters' = WordSearch!Written(letters, w, cells)
    BY DEF w
  <2>2. cells \in [1..Len(w) -> WordSearch!Cell] /\ \A i, j \in 1..Len(w) : cells[i] = cells[j] => i = j
    BY <1>2
  <2>3. /\ \A k \in 1..Len(w) : WordSearch!Written(letters, w, cells)[cells[k]] = w[k]
        /\ \A x \in WordSearch!Cell : (\A k \in 1..Len(w) : cells[k] # x)
                                      => WordSearch!Written(letters, w, cells)[x] = letters[x]
    BY ONLY <2>2, WrittenReads
  <2> QED BY <2>1, <2>3
<1> HIDE DEF w
<1>5. cells \in Seq(WordSearch!Cell) /\ new \in Placement
  <2>1. cells \in [1..Len(w) -> WordSearch!Cell]
    BY <1>2
  <2>2. cells \in Seq(WordSearch!Cell)
    BY <1>3, <2>1
  <2> QED BY <1>1, <2>2 DEF Placement
<1>6. new.word = w /\ new.cells = cells
  OBVIOUS
<1>7. Straight(new) /\ ReadableIn(new, letters')
  BY <1>2, <1>4, <1>6 DEF Straight, ReadableIn
<1>8. wordsPc = "rows" => InOneRow(new)
  BY <1>6 DEF w, InOneRow
<1> HIDE DEF new
<1>9. placements' = Append(placements, new) /\ placements \in Seq(Placement)
  BY DEF new, w, WordsInv
<1>10. /\ placements' \in Seq(Placement) /\ Len(placements') = Len(placements) + 1
       /\ placements'[Len(placements) + 1] = new
       /\ \A i \in 1..Len(placements) : placements'[i] = placements[i]
  BY <1>5, <1>9, AppendProperties
<1>11. ASSUME NEW i \in 1..Len(placements) PROVE ReadableIn(placements[i], letters')
  <2>1. Straight(placements[i]) /\ ReadableIn(placements[i], letters)
    BY DEF WordsInv
  <2>2. SUFFICES ASSUME NEW j \in 1..Len(placements[i].word)
                 PROVE  letters'[placements[i].cells[j]] = placements[i].word[j]
    BY DEF ReadableIn
  <2>3. placements[i].cells[j] \in WordSearch!Cell /\ letters[placements[i].cells[j]] = placements[i].word[j]
    BY <2>1, <2>2 DEF Straight, ReadableIn
  <2>4. CASE \E k \in 1..Len(w) : placements[i].cells[j] = cells[k]
    BY <1>4, <2>2, <2>4 DEF w
  <2>5. CASE ~ \E k \in 1..Len(w) : placements[i].cells[j] = cells[k]
    BY <1>4, <2>3, <2>5
  <2> QED BY <2>4, <2>5
<1>12. Len(placements) \in Nat /\ WordCount \in Nat
  BY <1>9, PaperAssumption DEF WordSearch!WordSearchAssumption
<1>13. ASSUME NEW i \in 1..Len(placements')
       PROVE  /\ placements'[i].word = words'[i] /\ Straight(placements'[i])
              /\ ReadableIn(placements'[i], letters')
              /\ wordsPc' = "rows" => InOneRow(placements'[i])
  <2>1. CASE i = Len(placements) + 1
    BY <1>1, <1>6, <1>7, <1>8, <1>10, <2>1 DEF new
  <2>2. CASE i # Len(placements) + 1
    <3>1. i \in 1..Len(placements)
      BY <1>10, <1>12, <2>2
    <3> QED BY <1>10, <1>11, <3>1 DEF WordsInv
  <2> QED BY <2>1, <2>2
<1>14. Len(placements') <= WordCount
  BY <1>10, <1>12
<1> QED BY <1>10, <1>13, <1>14 DEF WordsInv, Straight, ReadableIn, InOneRow

LEMMA WordsSteps == WordsInv /\ (WordSearch!Next \/ UNCHANGED wordsVars) => WordsInv'
<1> SUFFICES ASSUME WordsInv, WordSearch!Next \/ UNCHANGED wordsVars PROVE WordsInv'
  OBVIOUS
<1>1. CASE UNCHANGED wordsVars
  BY <1>1 DEF wordsVars, WordsInv, Straight, ReadableIn, InOneRow
<1>2. CASE WordSearch!Hide
  <2>1. PICK cells \in WordSearch!Candidates(WordSearch!Placing) :
          /\ WordSearch!Fits(WordSearch!Placing, cells)
          /\ letters' = WordSearch!Written(letters, WordSearch!Placing, cells)
          /\ placements' = Append(placements, [word |-> WordSearch!Placing, cells |-> cells])
    BY <1>2 DEF WordSearch!Hide
  <2>2. PICK from \in WordSearch!Cell, dir \in WordSearch!Directions :
          cells = WordSearch!Cells(WordSearch!Placing, from, dir)
    BY <2>1 DEF WordSearch!Candidates
  <2>3. cells[Len(WordSearch!Placing)] \in WordSearch!Cell
    BY <2>1 DEF WordSearch!Candidates
  <2>4. wordsPc = "hide" /\ Len(placements) < WordCount /\ UNCHANGED <<words, wordsPc>>
    BY <1>2 DEF WordSearch!Hide
  <2>5. ASSUME NEW i \in 1..Len(placements), NEW k \in 1..Len(WordSearch!Placing),
               NEW j \in 1..Len(placements[i].word), placements[i].cells[j] = cells[k]
        PROVE  placements[i].word[j] = WordSearch!Placing[k]
    <3>1. letters[cells[k]] \in {WordSearch!Blank, WordSearch!Placing[k]}
      BY <2>1 DEF WordSearch!Fits
    <3>2. letters[cells[k]] = placements[i].word[j]
      BY <2>5 DEF WordsInv, ReadableIn
    <3>3. placements[i] \in Placement
      BY DEF WordsInv
    <3>4. placements[i].word[j] # WordSearch!Blank
      BY <3>3, WordFacts DEF Placement
    <3> QED BY <3>1, <3>2, <3>4
  <2> QED BY <2>1, <2>2, <2>3, <2>4, <2>5, HidesOne
<1>3. CASE WordSearch!Fallback
  <2>1. <<>> \in Seq(Placement) /\ Len(<<>>) = 0 /\ WordCount \in Nat
    BY PaperAssumption DEF WordSearch!WordSearchAssumption
  <2> QED BY <1>3, <2>1 DEF WordSearch!Fallback, WordsInv
<1>4. CASE WordSearch!HideInRow
  <2>1. PICK row \in WordSearch!Side, col \in WordSearch!Side :
          LET cells == WordSearch!Cells(WordSearch!Placing, <<row, col>>, <<0, 1>>) IN
          /\ WordSearch!Fresh(row) /\ col + Len(WordSearch!Placing) <= WordSize
          /\ letters' = WordSearch!Written(letters, WordSearch!Placing, cells)
          /\ placements' = Append(placements, [word |-> WordSearch!Placing, cells |-> cells])
    BY <1>4 DEF WordSearch!HideInRow
  <2>2. wordsPc = "rows" /\ Len(placements) < WordCount /\ UNCHANGED <<words, wordsPc>>
    BY <1>4 DEF WordSearch!HideInRow
  <2> DEFINE from == <<row, col>>
             dir == <<0, 1>>
             cells == WordSearch!Cells(WordSearch!Placing, from, dir)
             n == Len(WordSearch!Placing)
  <2>3. n \in Nat /\ n >= 2 /\ WordSize \in Nat
    BY <2>2, NextWord, WordFacts, PaperAssumption DEF WordSearch!WordSearchAssumption
  <2>4. from \in WordSearch!Cell /\ dir \in WordSearch!Directions
    <3>1. dir \in (-1..1) \X (-1..1) /\ dir # <<0, 0>>
      OBVIOUS
    <3> QED BY <3>1 DEF WordSearch!Cell, WordSearch!Directions
  <2>5. cells = [i \in 1..n |-> <<row + (i - 1) * 0, col + (i - 1) * 1>>]
    BY DEF WordSearch!Cells
  <2>6. row \in Int /\ row >= 0 /\ row <= WordSize - 1 /\ col \in Int /\ col >= 0
    BY <2>3 DEF WordSearch!Side
  <2>9. WordSearch!Fresh(row) /\ col + n <= WordSize
    BY <2>1
  <2>10. /\ letters' = WordSearch!Written(letters, WordSearch!Placing, cells)
         /\ placements' = Append(placements, [word |-> WordSearch!Placing, cells |-> cells])
    BY <2>1
  <2>11. cells = WordSearch!Cells(WordSearch!Placing, from, dir)
    OBVIOUS
  <2>12. n = Len(WordSearch!Placing)
    OBVIOUS
  <2> HIDE DEF from, dir, cells, n
  <2>7. \A k \in 1..n : cells[k] = <<row, col + k - 1>>
    BY <2>3, <2>5, <2>6
  <2>8. cells[n] \in WordSearch!Cell /\ 1 \in 1..n
    BY <2>3, <2>6, <2>7, <2>9 DEF WordSearch!Cell, WordSearch!Side
  <2>13. \A k \in 1..n : cells[k][1] = row
    BY <2>7
  <2>14. ASSUME NEW i \in 1..Len(placements), NEW k \in 1..n,
                NEW j \in 1..Len(placements[i].word), placements[i].cells[j] = cells[k]
         PROVE  FALSE
    <3>1. placements[i].cells[j][1] = placements[i].cells[1][1]
      BY <2>2 DEF WordsInv, InOneRow
    <3>2. i \in DOMAIN placements
      BY DEF WordsInv
    <3> QED BY <2>9, <2>13, <2>14, <3>1, <3>2 DEF WordSearch!Fresh
  <2>15. \A k \in 1..n : cells[k][1] = cells[1][1]
    BY <2>8, <2>13
  <2> QED BY <2>2, <2>4, <2>8, <2>10, <2>11, <2>12, <2>14, <2>15, HidesOne
<1>5. CASE WordSearch!Fill
  <2>1. ASSUME NEW i \in 1..Len(placements) PROVE ReadableIn(placements[i], letters')
    <3>1. placements[i] \in Placement /\ Straight(placements[i]) /\ ReadableIn(placements[i], letters)
      BY DEF WordsInv
    <3>2. \A k \in 1..Len(placements[i].word) : placements[i].word[k] # WordSearch!Blank
      BY <3>1, WordFacts DEF Placement
    <3>3. \A x \in WordSearch!Cell : letters[x] # WordSearch!Blank => letters'[x] = letters[x]
      BY <1>5 DEF WordSearch!Fill
    <3> QED BY <3>1, <3>2, <3>3 DEF ReadableIn, Straight
  <2>2. UNCHANGED <<words, placements>> /\ wordsPc' = "done" /\ Len(placements) = WordCount
    BY <1>5 DEF WordSearch!Fill
  <2> QED BY <2>1, <2>2 DEF WordsInv, Straight, InOneRow
<1>6. CASE WordSearch!Done
  BY <1>1, <1>6 DEF WordSearch!Done, WordSearch!vars, wordsVars
<1> QED BY <1>1, <1>2, <1>3, <1>4, <1>5, <1>6 DEF WordSearch!Next

LEMMA WordsAreSound == WordsInv => WordSearch!WordsReadable /\ WordSearch!EveryWordHidden
<1> SUFFICES ASSUME WordsInv PROVE WordSearch!WordsReadable /\ WordSearch!EveryWordHidden
  OBVIOUS
<1>1. DOMAIN placements = 1..Len(placements) /\ \A i \in 1..Len(placements) : placements[i] \in Placement
  BY DEF WordsInv
<1>2. ASSUME NEW i \in 1..Len(placements)
      PROVE  DOMAIN placements[i].word = 1..Len(placements[i].word)
  BY <1>1, WordFacts DEF Placement
<1>3. WordSearch!WordsReadable
  BY <1>1, <1>2 DEF WordSearch!WordsReadable, WordsInv, ReadableIn
<1>4. ASSUME wordsPc = "done" PROVE Len(placements) = WordCount
  BY <1>4 DEF WordsInv
<1>5. ASSUME wordsPc = "done"
      PROVE  {placements[i].word : i \in DOMAIN placements} = {words[i] : i \in 1..WordCount}
  BY <1>1, <1>4, <1>5 DEF WordsInv
<1>6. ASSUME NEW i \in 1..Len(placements)
      PROVE  LET c == placements[i].cells IN
             \E d \in WordSearch!Directions :
               \A k \in 2..Len(c) : c[k] = <<c[k - 1][1] + d[1], c[k - 1][2] + d[2]>>
  <2>1. Straight(placements[i])
    BY DEF WordsInv
  <2>2. Len(placements[i].word) \in Nat
    BY <1>1, WordFacts DEF Placement
  <2>3. placements[i].cells \in [1..Len(placements[i].word) -> WordSearch!Cell]
    BY <2>1 DEF Straight
  <2>4. Len(placements[i].cells) = Len(placements[i].word)
    BY <2>2, <2>3
  <2> QED BY <2>1, <2>4 DEF Straight
<1> QED BY <1>1, <1>3, <1>4, <1>5, <1>6 DEF WordSearch!EveryWordHidden

-----------------------------------------------------------------------------
(* The maze                                                                *)

\* Every set of numbers has a smallest: the induction over the square.
LEMMA Smallest ==
  ASSUME NEW T \in SUBSET Nat, T # {}
  PROVE  \E m \in T : \A k \in T : m <= k
<1> DEFINE F == {0..k : k \in T}
<1>1. ASSUME NEW k \in T PROVE 0..k \in FiniteSubsetsOf(Nat)
  <2>1. k \in Int /\ 0 \in Int
    OBVIOUS
  <2>2. IsFiniteSet(0..k)
    BY <2>1, FS_Interval
  <2>3. 0..k \in SUBSET Nat
    OBVIOUS
  <2> QED BY <2>2, <2>3 DEF FiniteSubsetsOf
<1>2. F \subseteq FiniteSubsetsOf(Nat) /\ F # {}
  BY <1>1
<1>3. PICK s \in F : \A t \in F : <<t, s>> \notin StrictSubsetOrdering(Nat)
  <2> HIDE DEF F
  <2> QED BY <1>2, FS_StrictSubsetOrderingWellFounded, WFMin
<1>4. PICK m \in T : s = 0..m
  OBVIOUS
<1>5. ASSUME NEW k \in T, k < m PROVE FALSE
  <2>1. 0..k \in F /\ 0..k \in SUBSET Nat /\ 0..m \in SUBSET Nat
    OBVIOUS
  <2>2. 0..k \subseteq 0..m /\ 0..k # 0..m
    <3>1. m \in 0..m /\ m \notin 0..k
      BY <1>5
    <3> QED BY <3>1, <1>5
  <2>3. <<0..k, 0..m>> \in StrictSubsetOrdering(Nat)
    BY <2>1, <2>2 DEF StrictSubsetOrdering
  <2> QED BY <1>3, <1>4, <2>1, <2>3
<1>6. \A k \in T : m <= k
  BY <1>5
<1> QED BY <1>6

\* The four walls, and the way over each and back.
LEMMA Walls ==
  /\ \A w \in Maze!Wall : Maze!Opposite[w] \in Maze!Wall /\ Maze!Opposite[Maze!Opposite[w]] = w
  /\ \A c \in Int \X Int, w \in Maze!Wall :
       /\ Maze!Beyond(c, w) \in Int \X Int /\ Maze!Beyond(c, w) # c
       /\ Maze!Beyond(Maze!Beyond(c, w), Maze!Opposite[w]) = c
       /\ \A v \in Maze!Wall : Maze!Beyond(c, w) = Maze!Beyond(c, v) => w = v
<1>1. ASSUME NEW c \in Int \X Int
      PROVE  /\ Maze!Beyond(c, "N") = <<c[1] - 1, c[2]>> /\ Maze!Beyond(c, "S") = <<c[1] + 1, c[2]>>
             /\ Maze!Beyond(c, "E") = <<c[1], c[2] + 1>> /\ Maze!Beyond(c, "W") = <<c[1], c[2] - 1>>
  BY DEF Maze!Beyond, Maze!Step
<1>2. /\ Maze!Opposite["N"] = "S" /\ Maze!Opposite["S"] = "N"
      /\ Maze!Opposite["E"] = "W" /\ Maze!Opposite["W"] = "E"
  BY DEF Maze!Opposite
<1>3. ASSUME NEW c \in Int \X Int, NEW w \in Maze!Wall
      PROVE  /\ Maze!Beyond(c, w) \in Int \X Int /\ Maze!Beyond(c, w) # c
             /\ Maze!Beyond(Maze!Beyond(c, w), Maze!Opposite[w]) = c
             /\ \A v \in Maze!Wall : Maze!Beyond(c, w) = Maze!Beyond(c, v) => w = v
  <2>1. PICK a \in Int, b \in Int : c = <<a, b>>
    OBVIOUS
  <2>2. /\ Maze!Beyond(c, "N") = <<a - 1, b>> /\ Maze!Beyond(c, "S") = <<a + 1, b>>
        /\ Maze!Beyond(c, "E") = <<a, b + 1>> /\ Maze!Beyond(c, "W") = <<a, b - 1>>
    BY <1>1, <2>1
  <2>3. /\ Maze!Beyond(<<a - 1, b>>, "S") = <<a, b>> /\ Maze!Beyond(<<a + 1, b>>, "N") = <<a, b>>
        /\ Maze!Beyond(<<a, b + 1>>, "W") = <<a, b>> /\ Maze!Beyond(<<a, b - 1>>, "E") = <<a, b>>
    BY DEF Maze!Beyond, Maze!Step
  <2> QED BY <1>2, <2>1, <2>2, <2>3 DEF Maze!Wall
<1> QED BY <1>2, <1>3 DEF Maze!Wall

LEMMA Square ==
  /\ MazeSize \in Nat /\ MazeSize > 1
  /\ Maze!Cell \subseteq Int \X Int /\ Maze!Root \in Maze!Cell /\ Maze!Exit \in Maze!Cell
  /\ Maze!Beyond(Maze!Root, "N") \notin Maze!Cell /\ Maze!Beyond(Maze!Exit, "S") \notin Maze!Cell
<1>1. MazeSize \in Nat /\ MazeSize > 1
  BY PaperAssumption DEF Maze!MazeAssumption
<1>2. Maze!Cell = (0..(MazeSize - 1)) \X (0..(MazeSize - 1))
  BY DEF Maze!Cell, Maze!Side
<1>3. Maze!Beyond(Maze!Root, "N") = <<-1, 0>>
  BY DEF Maze!Beyond, Maze!Step, Maze!Root
<1>4. Maze!Beyond(Maze!Exit, "S") = <<MazeSize, MazeSize - 1>>
  BY <1>1 DEF Maze!Beyond, Maze!Step, Maze!Exit
<1> QED BY <1>1, <1>2, <1>3, <1>4 DEF Maze!Root, Maze!Exit

\* A set with the root and all neighbours of its cells is the square.
LEMMA SquareReached ==
  ASSUME NEW R, Maze!Root \in R,
         \A c \in R, w \in Maze!Wall : Maze!Beyond(c, w) \in Maze!Cell => Maze!Beyond(c, w) \in R
  PROVE  Maze!Cell \subseteq R
<1>1. /\ MazeSize \in Nat /\ MazeSize > 1
      /\ Maze!Cell = (0..(MazeSize - 1)) \X (0..(MazeSize - 1))
  BY Square DEF Maze!Cell, Maze!Side
<1>2. ASSUME NEW a \in Int, NEW b \in Int
      PROVE  Maze!Beyond(<<a, b>>, "S") = <<a + 1, b>> /\ Maze!Beyond(<<a, b>>, "E") = <<a, b + 1>>
  BY DEF Maze!Beyond, Maze!Step
<1>3. ASSUME NEW a \in 0..(MazeSize - 1) PROVE <<a, 0>> \in R
  <2> DEFINE T == {n \in 0..(MazeSize - 1) : <<n, 0>> \notin R}
  <2>1. SUFFICES ASSUME <<a, 0>> \notin R PROVE FALSE
    OBVIOUS
  <2>2. T \in SUBSET Nat /\ T # {}
    BY <1>1, <2>1
  <2>3. PICK m \in T : \A k \in T : m <= k
    <3> HIDE DEF T
    <3> QED BY <2>2, Smallest
  <2>4. m # 0
    BY DEF Maze!Root
  <2>5. m - 1 \in 0..(MazeSize - 1) /\ m - 1 \notin T
    BY <1>1, <2>3, <2>4
  <2>6. <<m - 1, 0>> \in R /\ Maze!Beyond(<<m - 1, 0>>, "S") = <<m, 0>>
    BY <1>2, <2>5
  <2>7. <<m, 0>> \in Maze!Cell
    BY <1>1
  <2> QED BY <2>6, <2>7 DEF Maze!Wall
<1>4. ASSUME NEW a \in 0..(MazeSize - 1), NEW b \in 0..(MazeSize - 1) PROVE <<a, b>> \in R
  <2> DEFINE T == {n \in 0..(MazeSize - 1) : <<a, n>> \notin R}
  <2>1. SUFFICES ASSUME <<a, b>> \notin R PROVE FALSE
    OBVIOUS
  <2>2. T \in SUBSET Nat /\ T # {}
    BY <1>1, <2>1
  <2>3. PICK m \in T : \A k \in T : m <= k
    <3> HIDE DEF T
    <3> QED BY <2>2, Smallest
  <2>4. m # 0
    BY <1>3
  <2>5. m - 1 \in 0..(MazeSize - 1) /\ m - 1 \notin T
    BY <1>1, <2>3, <2>4
  <2>6. <<a, m - 1>> \in R /\ Maze!Beyond(<<a, m - 1>>, "E") = <<a, m>>
    <3>1. <<a, m - 1>> \in R
      BY <2>5
    <3>2. a \in Int /\ m - 1 \in Int /\ (m - 1) + 1 = m
      BY <1>1
    <3> QED BY <1>2, <3>1, <3>2
  <2>7. <<a, m>> \in Maze!Cell
    BY <1>1
  <2> QED BY <2>6, <2>7 DEF Maze!Wall
<1> QED BY <1>1, <1>4

MazeTypes ==
  /\ walls \in [Maze!Cell -> SUBSET Maze!Wall] /\ seen \in SUBSET Maze!Cell /\ Maze!Root \in seen
  /\ stack \in Seq(Maze!Cell) /\ parent \in [Maze!Cell -> Maze!Cell] /\ mazePc \in {"carve", "done"}

\* No wall of a cell not seen is gone.
Solid == \A c \in Maze!Cell \ seen : walls[c] = Maze!Wall

\* What is carved is a tree.
Tree ==
  /\ Maze!Closed(seen)
  /\ \A cells \in SUBSET Maze!Cell : Maze!Root \in cells /\ Maze!Closed(cells) => seen \subseteq cells
  /\ IsFiniteSet(seen) /\ IsFiniteSet(Maze!Passages)
  /\ Cardinality(Maze!Passages) = Cardinality(seen) - 1

\* The cells of the stack are seen, and so are all around the seen cells not on it.
Explored ==
  /\ \A i \in 1..Len(stack) : stack[i] \in seen
  /\ \A c \in seen : (\A i \in 1..Len(stack) : stack[i] # c) =>
       \A w \in Maze!Wall : Maze!Beyond(c, w) \in Maze!Cell => Maze!Beyond(c, w) \in seen

\* The cells one passage away, when the walls are these.
JoinedBy(these, c) == {Maze!Beyond(c, w) : w \in Maze!Wall \ these[c]} \cap Maze!Cell

\* The way back goes through passages, and down a rank: it meets no cell twice.
WayBack ==
  \E rank \in [Maze!Cell -> Nat] :
    /\ \A c \in seen \ {Maze!Root} :
         parent[c] \in seen /\ c \in JoinedBy(walls, parent[c]) /\ rank[parent[c]] < rank[c]
    /\ \A i, j \in 1..Len(path) : i < j => rank[path[i]] < rank[path[j]]

Traced ==
  /\ path \in Seq(Maze!Cell) /\ Len(path) >= 1 /\ path[Len(path)] = Maze!Exit
  /\ \A i \in 1..(Len(path) - 1) : path[i + 1] \in JoinedBy(walls, path[i])
  /\ stack # <<>> => path = <<Maze!Exit>> /\ mazePc = "carve"
  /\ mazePc = "done" => path[1] = Maze!Root

LEMMA JoinedByWalls ==
  ASSUME NEW c
  PROVE  Maze!Joined(c) = JoinedBy(walls, c) /\ Maze!Joined(c)' = JoinedBy(walls', c)
  BY DEF Maze!Joined, JoinedBy

MazeInv == MazeTypes /\ Maze!WallsAgree /\ Solid /\ Tree /\ Explored /\ WayBack /\ Traced

\* A step of the loop opens one passage, to a cell that had none.
LEMMA Joins ==
  ASSUME MazeTypes, Solid, NEW top \in seen, NEW w \in Maze!Wall, NEW next,
         next = Maze!Beyond(top, w), next \in Maze!Cell \ seen, walls' = Maze!Opened(top, w)
  PROVE  /\ walls' \in [Maze!Cell -> SUBSET Maze!Wall]
         /\ walls'[top] = walls[top] \ {w} /\ walls'[next] = Maze!Wall \ {Maze!Opposite[w]}
         /\ \A c \in Maze!Cell \ {top, next} : walls'[c] = walls[c] /\ Maze!Joined(c)' = Maze!Joined(c)
         /\ Maze!Joined(top)' = Maze!Joined(top) \cup {next}
         /\ Maze!Joined(next)' = {top} /\ Maze!Joined(next) = {}
<1>1. /\ top \in Maze!Cell /\ top # next /\ top \in Int \X Int /\ next \in Int \X Int
      /\ walls[next] = Maze!Wall /\ walls \in [Maze!Cell -> SUBSET Maze!Wall]
  BY Square DEF MazeTypes, Solid
<1>2. /\ Maze!Opposite[w] \in Maze!Wall /\ Maze!Beyond(next, Maze!Opposite[w]) = top
      /\ \A v \in Maze!Wall : Maze!Beyond(next, v) = top => v = Maze!Opposite[w]
  BY <1>1, Walls
<1>3. walls' = [walls EXCEPT ![top] = @ \ {w}, ![next] = @ \ {Maze!Opposite[w]}]
  BY DEF Maze!Opened
<1>4. /\ walls' \in [Maze!Cell -> SUBSET Maze!Wall]
      /\ walls'[top] = walls[top] \ {w} /\ walls'[next] = Maze!Wall \ {Maze!Opposite[w]}
      /\ \A c \in Maze!Cell \ {top, next} : walls'[c] = walls[c]
  BY <1>1, <1>3
<1>5. \A c \in Maze!Cell \ {top, next} : Maze!Joined(c)' = Maze!Joined(c)
  BY <1>4 DEF Maze!Joined
<1>6. Maze!Joined(top)' = Maze!Joined(top) \cup {next}
  <2>1. ASSUME NEW x PROVE x \in Maze!Joined(top)' <=> x \in Maze!Joined(top) \/ x = next
    BY <1>4 DEF Maze!Joined
  <2> QED BY <2>1
<1>7. Maze!Joined(next)' = {top}
  <2>1. ASSUME NEW x PROVE x \in Maze!Joined(next)' <=> x = top
    <3>1. x \in Maze!Joined(next)' <=>
            x \in Maze!Cell /\ \E v \in Maze!Wall \ walls'[next] : x = Maze!Beyond(next, v)
      BY DEF Maze!Joined
    <3>2. Maze!Wall \ walls'[next] = {Maze!Opposite[w]}
      BY <1>2, <1>4
    <3> QED BY <1>1, <1>2, <3>1, <3>2
  <2> QED BY <2>1
<1>8. Maze!Joined(next) = {}
  BY <1>1 DEF Maze!Joined
<1> QED BY <1>4, <1>5, <1>6, <1>7, <1>8

LEMMA JoinedSeen ==
  ASSUME MazeTypes, Solid, Tree
  PROVE  \A c \in Maze!Cell : Maze!Joined(c) \subseteq seen
<1>1. \A c \in Maze!Cell \ seen : Maze!Joined(c) = {}
  BY DEF Solid, Maze!Joined
<1>2. \A c \in seen : Maze!Joined(c) \subseteq seen
  BY DEF Tree, Maze!Closed
<1> QED BY <1>1, <1>2

LEMMA TreeGrows ==
  ASSUME MazeTypes, Solid, Tree, NEW top \in seen, NEW w \in Maze!Wall, NEW next,
         next = Maze!Beyond(top, w), next \in Maze!Cell \ seen, walls' = Maze!Opened(top, w),
         seen' = seen \cup {next}
  PROVE  Tree'
<1>1. /\ \A c \in Maze!Cell \ {top, next} : Maze!Joined(c)' = Maze!Joined(c)
      /\ Maze!Joined(top)' = Maze!Joined(top) \cup {next}
      /\ Maze!Joined(next)' = {top} /\ Maze!Joined(next) = {}
  BY Joins
<1>2. top \in Maze!Cell /\ top # next /\ seen \subseteq Maze!Cell /\ Maze!Root \in seen
  BY DEF MazeTypes
<1>3. \A c \in Maze!Cell : Maze!Joined(c) \subseteq seen
  BY JoinedSeen
<1>4. Maze!Closed(seen)'
  BY <1>1, <1>2, <1>3 DEF Maze!Closed
<1>5. ASSUME NEW cells \in SUBSET Maze!Cell, Maze!Root \in cells, Maze!Closed(cells)'
      PROVE  seen' \subseteq cells
  <2>1. \A c \in Maze!Cell : Maze!Joined(c) \subseteq Maze!Joined(c)'
    BY <1>1, <1>2
  <2>2. Maze!Closed(cells)
    BY <1>5, <2>1 DEF Maze!Closed
  <2>3. seen \subseteq cells
    BY <1>5, <2>2 DEF Tree
  <2>4. next \in cells
    BY <1>1, <1>2, <1>5, <2>3 DEF Maze!Closed
  <2> QED BY <2>3, <2>4
<1>6. Maze!Passages' = Maze!Passages \cup {{top, next}}
  <2>1. ASSUME NEW p \in Maze!Passages' PROVE p \in Maze!Passages \cup {{top, next}}
    <3>1. PICK x \in Maze!Cell \X Maze!Cell : x[2] \in Maze!Joined(x[1])' /\ p = {x[1], x[2]}
      BY <2>1 DEF Maze!Passages
    <3>2. CASE x[2] \in Maze!Joined(x[1])
      BY <3>1, <3>2 DEF Maze!Passages
    <3>3. CASE x[1] = top /\ x[2] = next
      BY <3>1, <3>3
    <3>4. CASE x[1] = next /\ x[2] = top
      BY <3>1, <3>4
    <3>5. x[1] \in Maze!Cell
      BY <3>1
    <3> QED BY <1>1, <3>1, <3>2, <3>3, <3>4, <3>5
  <2>2. ASSUME NEW p \in Maze!Passages PROVE p \in Maze!Passages'
    <3>1. PICK x \in Maze!Cell \X Maze!Cell : x[2] \in Maze!Joined(x[1]) /\ p = {x[1], x[2]}
      BY <2>2 DEF Maze!Passages
    <3>2. x[1] \in Maze!Cell
      BY <3>1
    <3>3. x[2] \in Maze!Joined(x[1])'
      BY <1>1, <1>2, <3>1, <3>2
    <3> QED BY <3>1, <3>3 DEF Maze!Passages
  <2>3. {top, next} \in Maze!Passages'
    <3>1. next \in Maze!Joined(top)' /\ <<top, next>> \in Maze!Cell \X Maze!Cell
      BY <1>1, <1>2
    <3> QED BY <3>1 DEF Maze!Passages
  <2> QED BY <2>1, <2>2, <2>3
<1>7. {top, next} \notin Maze!Passages
  <2>1. SUFFICES ASSUME NEW x \in Maze!Cell \X Maze!Cell, x[2] \in Maze!Joined(x[1]), {top, next} = {x[1], x[2]}
                 PROVE  FALSE
    BY DEF Maze!Passages
  <2>2. x[1] = next \/ x[2] = next
    BY <2>1
  <2>3. x[1] \in Maze!Cell /\ x[2] \in seen
    BY <1>3, <2>1
  <2> QED BY <1>1, <2>1, <2>2, <2>3
<1>8. /\ IsFiniteSet(seen') /\ Cardinality(seen') = Cardinality(seen) + 1
      /\ IsFiniteSet(Maze!Passages') /\ Cardinality(Maze!Passages') = Cardinality(Maze!Passages) + 1
  BY <1>6, <1>7, FS_AddElement DEF Tree
<1>9. Cardinality(seen) \in Nat /\ Cardinality(Maze!Passages) \in Nat
  BY FS_CardinalityType DEF Tree
<1>10. Cardinality(Maze!Passages') = Cardinality(seen') - 1
  BY <1>8, <1>9 DEF Tree
<1> QED BY <1>4, <1>5, <1>8, <1>10 DEF Tree

LEMMA MazeInits == Maze!Init => MazeInv
<1> SUFFICES ASSUME Maze!Init PROVE MazeInv
  OBVIOUS
<1>1. /\ walls = [c \in Maze!Cell |-> Maze!Wall] /\ seen = {Maze!Root} /\ stack = <<Maze!Root>>
      /\ parent = [c \in Maze!Cell |-> c] /\ path = <<Maze!Exit>> /\ mazePc = "carve"
  BY DEF Maze!Init
<1>2. MazeTypes
  BY <1>1, Square DEF MazeTypes
<1>3. Solid
  BY <1>1 DEF Solid
<1>4. \A c \in Maze!Cell : Maze!Joined(c) = {}
  BY <1>1 DEF Maze!Joined
<1>5. Maze!Passages = {}
  <2>1. ASSUME NEW x \in Maze!Cell \X Maze!Cell, x[2] \in Maze!Joined(x[1]) PROVE FALSE
    <3>1. x[1] \in Maze!Cell
      OBVIOUS
    <3> QED BY <1>4, <2>1, <3>1
  <2> QED BY <2>1 DEF Maze!Passages
<1>6. Tree
  <2>1. Cardinality(seen) = 1 /\ IsFiniteSet(seen)
    BY <1>1, FS_Singleton
  <2>2. Cardinality(Maze!Passages) = 0 /\ IsFiniteSet(Maze!Passages)
    BY <1>5, FS_EmptySet
  <2>3. Maze!Closed(seen)
    BY <1>1, <1>4, Square DEF Maze!Closed
  <2> QED BY <1>1, <2>1, <2>2, <2>3 DEF Tree
<1>7. Explored
  BY <1>1 DEF Explored
<1>8. WayBack
  <2> DEFINE rank == [c \in Maze!Cell |-> 0]
  <2>1. rank \in [Maze!Cell -> Nat]
    OBVIOUS
  <2>2. \A i, j \in 1..Len(path) : ~(i < j)
    BY <1>1
  <2>3. seen \ {Maze!Root} = {}
    BY <1>1
  <2> HIDE DEF rank
  <2> QED BY <2>1, <2>2, <2>3 DEF WayBack
<1>9. Traced
  BY <1>1, Square DEF Traced
<1>10. Maze!WallsAgree
  <2>1. ASSUME NEW c \in Maze!Cell, NEW w \in Maze!Wall
        PROVE  w \in walls[c] /\ (Maze!Beyond(c, w) \in Maze!Cell => Maze!Opposite[w] \in walls[Maze!Beyond(c, w)])
    BY <1>1, Walls
  <2> QED BY <2>1 DEF Maze!WallsAgree
<1> QED BY <1>2, <1>3, <1>6, <1>7, <1>8, <1>9, <1>10 DEF MazeInv

LEMMA CarveSteps == MazeInv /\ Maze!Carve => MazeInv'
<1> SUFFICES ASSUME MazeInv, Maze!Carve PROVE MazeInv'
  OBVIOUS
<1> USE DEF MazeInv
<1>17. PICK top : top = Maze!Last(stack)
  OBVIOUS
<1>1. PICK w \in Maze!Options(top) :
        /\ walls' = Maze!Opened(top, w) /\ seen' = seen \cup {Maze!Beyond(top, w)}
        /\ parent' = [parent EXCEPT ![Maze!Beyond(top, w)] = top]
        /\ stack' = Append(stack, Maze!Beyond(top, w))
  BY <1>17 DEF Maze!Carve
<1> DEFINE next == Maze!Beyond(top, w)
<1>2. mazePc = "carve" /\ stack # <<>> /\ UNCHANGED <<path, mazePc>>
  BY DEF Maze!Carve
<1>3. Len(stack) \in 1..Len(stack) /\ top = stack[Len(stack)] /\ stack \in Seq(Maze!Cell)
  BY <1>2, <1>17 DEF MazeTypes, Maze!Last
<1>4. w \in Maze!Wall /\ next \in Maze!Cell \ seen /\ next = Maze!Beyond(top, w)
  BY DEF Maze!Options
<1>5. top \in seen /\ top \in Maze!Cell /\ top # next
  BY <1>3, <1>4 DEF Explored, MazeTypes
<1>6. /\ walls' = Maze!Opened(top, w) /\ seen' = seen \cup {next}
      /\ parent' = [parent EXCEPT ![next] = top] /\ stack' = Append(stack, next)
  BY <1>1
<1> HIDE DEF next
<1>7. /\ walls' \in [Maze!Cell -> SUBSET Maze!Wall]
      /\ walls'[top] = walls[top] \ {w} /\ walls'[next] = Maze!Wall \ {Maze!Opposite[w]}
      /\ \A c \in Maze!Cell \ {top, next} : walls'[c] = walls[c] /\ Maze!Joined(c)' = Maze!Joined(c)
      /\ Maze!Joined(top)' = Maze!Joined(top) \cup {next}
      /\ Maze!Joined(next)' = {top} /\ Maze!Joined(next) = {}
  BY <1>4, <1>5, <1>6, Joins
<1>8. /\ stack' \in Seq(Maze!Cell) /\ Len(stack') = Len(stack) + 1 /\ stack'[Len(stack) + 1] = next
      /\ \A i \in 1..Len(stack) : stack'[i] = stack[i]
      /\ Len(stack) \in Nat
  BY <1>3, <1>4, <1>6, AppendProperties
<1>9. MazeTypes'
  BY <1>2, <1>4, <1>5, <1>6, <1>7, <1>8 DEF MazeTypes
<1>10. Solid'
  BY <1>4, <1>5, <1>6, <1>7 DEF Solid
<1>11. Tree'
  BY <1>4, <1>5, <1>6, TreeGrows
<1>12. Explored'
  <2>1. ASSUME NEW i \in 1..Len(stack') PROVE stack'[i] \in seen'
    <3>1. i \in 1..Len(stack) \/ i = Len(stack) + 1
      BY <1>8
    <3> QED BY <1>6, <1>8, <3>1 DEF Explored
  <2>2. ASSUME NEW c \in seen', \A i \in 1..Len(stack') : stack'[i] # c, NEW v \in Maze!Wall,
               Maze!Beyond(c, v) \in Maze!Cell
        PROVE  Maze!Beyond(c, v) \in seen'
    <3>1. Len(stack) + 1 \in 1..Len(stack')
      BY <1>8
    <3>2. c # next /\ c \in seen
      BY <1>6, <1>8, <2>2, <3>1
    <3>3. \A i \in 1..Len(stack) : i \in 1..Len(stack')
      BY <1>8
    <3>4. \A i \in 1..Len(stack) : stack[i] # c
      BY <1>8, <2>2, <3>3
    <3> QED BY <1>6, <2>2, <3>2, <3>4 DEF Explored
  <2> QED BY <2>1, <2>2 DEF Explored
<1>13. path = <<Maze!Exit>> /\ Len(path) = 1
  BY <1>2 DEF Traced
<1>14. WayBack'
  <2>1. PICK rank \in [Maze!Cell -> Nat] :
          \A c \in seen \ {Maze!Root} :
            parent[c] \in seen /\ c \in JoinedBy(walls, parent[c]) /\ rank[parent[c]] < rank[c]
    BY DEF WayBack
  <2> DEFINE above == [rank EXCEPT ![next] = rank[top] + 1]
  <2>2. above \in [Maze!Cell -> Nat] /\ above[next] = rank[top] + 1
        /\ \A c \in Maze!Cell : c # next => above[c] = rank[c]
    BY <1>4, <1>5
  <2> HIDE DEF above
  <2>6. ASSUME NEW d \in Maze!Cell, d # next PROVE JoinedBy(walls, d) \subseteq JoinedBy(walls', d)
    BY <1>7, <2>6, JoinedByWalls
  <2>7. next \in JoinedBy(walls', top)
    BY <1>7, JoinedByWalls
  <2>3. ASSUME NEW c \in seen' \ {Maze!Root}
        PROVE  parent'[c] \in seen' /\ c \in JoinedBy(walls', parent'[c]) /\ above[parent'[c]] < above[c]
    <3>1. CASE c = next
      <4>1. parent'[c] = top
        BY <1>4, <1>6, <3>1 DEF MazeTypes
      <4>2. rank[top] < rank[top] + 1
        BY <1>5
      <4> QED BY <1>5, <1>6, <2>2, <2>7, <3>1, <4>1, <4>2
    <3>2. CASE c # next
      <4>1. c \in seen \ {Maze!Root} /\ parent'[c] = parent[c]
        BY <1>6, <3>2 DEF MazeTypes
      <4>2. parent[c] \in seen /\ c \in JoinedBy(walls, parent[c]) /\ rank[parent[c]] < rank[c]
        BY <2>1, <4>1
      <4>3. parent[c] \in Maze!Cell /\ parent[c] # next /\ c \in Maze!Cell
        BY <1>4, <4>1, <4>2 DEF MazeTypes
      <4>4. JoinedBy(walls, parent[c]) \subseteq JoinedBy(walls', parent[c])
        BY <2>6, <4>3
      <4>5. above[parent[c]] = rank[parent[c]] /\ above[c] = rank[c]
        BY <2>2, <3>2, <4>3
      <4> QED BY <1>6, <4>1, <4>2, <4>4, <4>5
    <3> QED BY <3>1, <3>2
  <2>4. \A i, j \in 1..Len(path') : i < j => above[path'[i]] < above[path'[j]]
    BY <1>2, <1>13
  <2>5. Maze!Root \in Maze!Cell
    BY Square
  <2> QED BY <2>2, <2>3, <2>4 DEF WayBack
<1>15. Traced'
  <2>1. path' = <<Maze!Exit>> /\ Len(path') = 1 /\ path' \in Seq(Maze!Cell) /\ mazePc' = "carve"
    BY <1>2, <1>13, Square
  <2> QED BY <2>1 DEF Traced
<1>16. Maze!WallsAgree'
  <2> SUFFICES ASSUME NEW c \in Maze!Cell, NEW v \in Maze!Wall
               PROVE  IF Maze!Beyond(c, v) \in Maze!Cell
                      THEN (v \in walls'[c]) <=> (Maze!Opposite[v] \in walls'[Maze!Beyond(c, v)])
                      ELSE v \in walls'[c]
    BY <1>2 DEF Maze!WallsAgree
  <2>1. IF Maze!Beyond(c, v) \in Maze!Cell
        THEN (v \in walls[c]) <=> (Maze!Opposite[v] \in walls[Maze!Beyond(c, v)])
        ELSE v \in walls[c]
    BY <1>2 DEF Maze!WallsAgree
  <2> DEFINE d == Maze!Beyond(c, v)
             o == Maze!Opposite[v]
  <2>2. /\ c \in Int \X Int /\ next \in Int \X Int /\ top \in Int \X Int
    BY <1>4, <1>5, Square
  <2>3. /\ o \in Maze!Wall /\ Maze!Beyond(d, o) = c /\ Maze!Opposite[o] = v /\ d \in Int \X Int
        /\ Maze!Opposite[w] \in Maze!Wall /\ Maze!Opposite[Maze!Opposite[w]] = w
        /\ Maze!Beyond(next, Maze!Opposite[w]) = top
    BY <1>4, <2>2, Walls
  <2>4. \A e \in Maze!Cell, u \in Maze!Wall :
          u \in walls'[e] <=> u \in walls[e] /\ <<e, u>> \notin {<<top, w>>, <<next, Maze!Opposite[w]>>}
    BY <1>4, <1>5, <1>7, <2>3 DEF Solid
  <2>5. d = Maze!Beyond(c, v) /\ o = Maze!Opposite[v]
    OBVIOUS
  <2> HIDE DEF d, o
  <2>6. <<c, v>> = <<top, w>> <=> <<d, o>> = <<next, Maze!Opposite[w]>>
    <3>1. c = top /\ v = w => d = next /\ o = Maze!Opposite[w]
      BY <1>4, <2>5
    <3>2. d = next /\ o = Maze!Opposite[w] => c = top /\ v = w
      BY <2>3
    <3> QED BY <3>1, <3>2
  <2>7. <<c, v>> = <<next, Maze!Opposite[w]>> <=> <<d, o>> = <<top, w>>
    <3>1. c = next /\ v = Maze!Opposite[w] => d = top /\ o = w
      BY <2>3, <2>5
    <3>2. d = top /\ o = w => c = next /\ v = Maze!Opposite[w]
      BY <1>4, <2>3
    <3> QED BY <3>1, <3>2
  <2>8. CASE d \in Maze!Cell
    BY <2>1, <2>3, <2>4, <2>5, <2>6, <2>7, <2>8
  <2>9. CASE d \notin Maze!Cell
    <3>1. <<c, v>> # <<top, w>> /\ <<c, v>> # <<next, Maze!Opposite[w]>>
      BY <1>4, <1>5, <2>6, <2>7, <2>9
    <3> QED BY <2>1, <2>4, <2>5, <2>9, <3>1
  <2> QED BY <2>5, <2>8, <2>9
<1> QED BY <1>9, <1>10, <1>11, <1>12, <1>14, <1>15, <1>16

LEMMA AllSeen == MazeInv /\ stack = <<>> => seen = Maze!Cell
<1> SUFFICES ASSUME MazeInv, stack = <<>> PROVE seen = Maze!Cell
  OBVIOUS
<1>1. \A c \in seen, w \in Maze!Wall : Maze!Beyond(c, w) \in Maze!Cell => Maze!Beyond(c, w) \in seen
  BY DEF MazeInv, Explored
<1>2. seen \subseteq Maze!Cell /\ Maze!Root \in seen
  BY DEF MazeInv, MazeTypes
<1>3. Maze!Cell \subseteq seen
  BY <1>1, <1>2, SquareReached
<1> QED BY <1>2, <1>3

LEMMA BackSteps == MazeInv /\ Maze!Back => MazeInv'
<1> SUFFICES ASSUME MazeInv, Maze!Back PROVE MazeInv'
  OBVIOUS
<1> USE DEF MazeInv
<1>1. /\ stack # <<>> /\ Maze!Options(Maze!Last(stack)) = {} /\ stack' = Maze!Front(stack)
      /\ UNCHANGED <<walls, seen, parent, path, mazePc>>
  BY DEF Maze!Back, Maze!Backed
<1>2. stack \in Seq(Maze!Cell) /\ Len(stack) \in Nat /\ Len(stack) >= 1 /\ stack[Len(stack)] = Maze!Last(stack)
  BY <1>1 DEF MazeTypes, Maze!Last
<1>3. /\ stack' \in Seq(Maze!Cell) /\ Len(stack') = Len(stack) - 1
      /\ \A i \in 1..(Len(stack) - 1) : stack'[i] = stack[i]
  <2>1. stack' = SubSeq(stack, 1, Len(stack) - 1)
    BY <1>1 DEF Maze!Front
  <2> DEFINE n == Len(stack)
             m == n - 1
  <2>2. n \in Nat /\ n >= 1 /\ stack \in Seq(Maze!Cell) /\ stack' = SubSeq(stack, 1, m)
    BY <1>2, <2>1
  <2>3. \A i \in 1..n : stack[i] \in Maze!Cell
    BY <2>2
  <2> HIDE DEF n
  <2>4. 1 \in Int /\ m \in Int /\ m >= 0 /\ (\A i \in 1..m : i \in 1..n) /\ m - 1 + 1 = m
    BY <2>2
  <2> HIDE DEF m
  <2>5. /\ stack' \in Seq(Maze!Cell) /\ Len(stack') = IF 1 <= m THEN m - 1 + 1 ELSE 0
        /\ \A i \in 1..(m - 1 + 1) : stack'[i] = stack[1 + i - 1]
    BY <2>2, <2>3, <2>4, SubSeqProperties
  <2>6. Len(stack') = m /\ \A i \in 1..m : stack'[i] = stack[i]
    BY <2>4, <2>5
  <2> QED BY <2>5, <2>6 DEF m, n
<1>4. Explored'
  <2>1. \A i \in 1..Len(stack') : stack'[i] \in seen'
    BY <1>1, <1>2, <1>3 DEF Explored
  <2>2. ASSUME NEW c \in seen, \A i \in 1..Len(stack') : stack'[i] # c, NEW w \in Maze!Wall,
               Maze!Beyond(c, w) \in Maze!Cell
        PROVE  Maze!Beyond(c, w) \in seen
    <3>1. CASE c = Maze!Last(stack)
      BY <1>1, <2>2, <3>1 DEF Maze!Options
    <3>2. CASE c # Maze!Last(stack)
      <4>1. \A i \in 1..Len(stack) : stack[i] # c
        BY <1>2, <1>3, <2>2, <3>2
      <4> QED BY <2>2, <4>1 DEF Explored
    <3> QED BY <3>1, <3>2
  <2> QED BY <1>1, <2>1, <2>2 DEF Explored
<1>5. MazeTypes' /\ Solid'
  BY <1>1, <1>3 DEF MazeTypes, Solid
<1>6. Tree'
  BY <1>1 DEF Tree, Maze!Closed, Maze!Joined, Maze!Passages
<1>7. WayBack' /\ Traced' /\ Maze!WallsAgree'
  BY <1>1 DEF WayBack, JoinedBy, Traced, Maze!WallsAgree
<1> QED BY <1>4, <1>5, <1>6, <1>7

LEMMA TraceSteps == MazeInv /\ Maze!Trace => MazeInv'
<1> SUFFICES ASSUME MazeInv, Maze!Trace PROVE MazeInv'
  OBVIOUS
<1> USE DEF MazeInv
<1>1. PICK p : p = parent[path[1]]
  OBVIOUS
<1>2. /\ stack = <<>> /\ path[1] # Maze!Root /\ path' = <<p>> \o path /\ mazePc = "carve"
      /\ UNCHANGED <<walls, seen, stack, parent, mazePc>>
  BY <1>1 DEF Maze!Trace
<1>3. seen = Maze!Cell
  BY <1>2, AllSeen
<1>4. path \in Seq(Maze!Cell) /\ Len(path) \in Nat /\ Len(path) >= 1 /\ path[1] \in Maze!Cell
  BY DEF Traced
<1>5. p \in Maze!Cell
  BY <1>1, <1>4 DEF MazeTypes
<1>6. /\ path' \in Seq(Maze!Cell) /\ Len(path') = Len(path) + 1 /\ path'[1] = p
      /\ \A i \in 1..Len(path) : path'[i + 1] = path[i]
  BY <1>2, <1>4, <1>5
<1>7. WayBack'
  <2>1. PICK rank \in [Maze!Cell -> Nat] :
          /\ \A c \in seen \ {Maze!Root} :
               parent[c] \in seen /\ c \in JoinedBy(walls, parent[c]) /\ rank[parent[c]] < rank[c]
          /\ \A i, j \in 1..Len(path) : i < j => rank[path[i]] < rank[path[j]]
    BY DEF WayBack
  <2>2. rank[p] < rank[path[1]]
    BY <1>1, <1>2, <1>3, <1>4, <2>1
  <2>3. ASSUME NEW i \in 1..Len(path'), NEW j \in 1..Len(path'), i < j
        PROVE  rank[path'[i]] < rank[path'[j]]
    <3>1. j \in 2..(Len(path) + 1) /\ j - 1 \in 1..Len(path) /\ path'[j] = path[j - 1]
      <4>1. j - 1 \in 1..Len(path) /\ (j - 1) + 1 = j
        BY <1>4, <1>6, <2>3
      <4> QED BY <1>4, <1>6, <4>1
    <3>2. path[j - 1] \in Maze!Cell /\ rank[path[j - 1]] \in Nat /\ rank[path[1]] \in Nat /\ rank[p] \in Nat
      BY <1>4, <1>5, <3>1
    <3>3. CASE i = 1
      <4>1. CASE j = 2
        BY <1>6, <2>2, <3>1, <3>3, <4>1
      <4>2. CASE j # 2
        <5>1. 1 \in 1..Len(path) /\ 1 < j - 1
          BY <1>4, <3>1, <4>2
        <5>2. rank[path[1]] < rank[path[j - 1]]
          BY <2>1, <3>1, <5>1
        <5> QED BY <1>6, <2>2, <3>1, <3>2, <3>3, <5>2
      <4> QED BY <4>1, <4>2
    <3>4. CASE i # 1
      <4>1. i - 1 \in 1..Len(path) /\ (i - 1) + 1 = i /\ i - 1 < j - 1
        BY <1>4, <1>6, <2>3, <3>4
      <4>2. path'[i] = path[i - 1]
        BY <1>6, <4>1
      <4> QED BY <2>1, <3>1, <4>1, <4>2
    <3> QED BY <3>3, <3>4
  <2>4. \A c \in seen' \ {Maze!Root} :
          parent'[c] \in seen' /\ c \in JoinedBy(walls', parent'[c]) /\ rank[parent'[c]] < rank[c]
    BY <1>2, <2>1
  <2> QED BY <2>3, <2>4 DEF WayBack
<1>8. Traced'
  <2>1. ASSUME NEW i \in 1..(Len(path') - 1) PROVE path'[i + 1] \in JoinedBy(walls', path'[i])
    <3>1. path'[i + 1] = path[i]
      <4>1. i \in 1..Len(path)
        BY <1>4, <1>6
      <4> QED BY <1>6, <4>1
    <3>2. CASE i = 1
      <4>1. path[1] \in JoinedBy(walls, p)
        BY <1>1, <1>2, <1>3, <1>4 DEF WayBack
      <4> QED BY <1>2, <1>6, <3>1, <3>2, <4>1
    <3>3. CASE i # 1
      <4>1. i - 1 \in 1..(Len(path) - 1) /\ i - 1 \in 1..Len(path) /\ (i - 1) + 1 = i
        BY <1>4, <1>6, <3>3
      <4>3. path'[i] = path[i - 1]
        BY <1>6, <4>1
      <4>2. path[(i - 1) + 1] \in JoinedBy(walls, path[i - 1])
        BY <4>1 DEF Traced
      <4> QED BY <1>2, <3>1, <4>1, <4>2, <4>3
    <3> QED BY <3>2, <3>3
  <2>2. path'[Len(path')] = Maze!Exit
    BY <1>4, <1>6 DEF Traced
  <2> QED BY <1>2, <1>4, <1>6, <2>1, <2>2 DEF Traced
<1>9. MazeTypes' /\ Solid' /\ Explored'
  BY <1>2 DEF MazeTypes, Solid, Explored
<1>10. Tree'
  BY <1>2 DEF Tree, Maze!Closed, Maze!Joined, Maze!Passages
<1>11. Maze!WallsAgree'
  BY <1>2 DEF Maze!WallsAgree
<1> QED BY <1>7, <1>8, <1>9, <1>10, <1>11

LEMMA OpenSteps == MazeInv /\ Maze!OpenEnds => MazeInv'
<1> SUFFICES ASSUME MazeInv, Maze!OpenEnds PROVE MazeInv'
  OBVIOUS
<1> USE DEF MazeInv
<1>1. /\ stack = <<>> /\ path[1] = Maze!Root /\ mazePc = "carve" /\ mazePc' = "done"
      /\ walls' = [walls EXCEPT ![Maze!Root] = @ \ {"N"}, ![Maze!Exit] = @ \ {"S"}]
      /\ UNCHANGED <<seen, stack, parent, path>>
  BY DEF Maze!OpenEnds
<1>2. seen = Maze!Cell
  BY <1>1, AllSeen
<1>3. walls' \in [Maze!Cell -> SUBSET Maze!Wall]
      /\ \A c \in Maze!Cell, v \in Maze!Wall :
           v \in walls'[c] <=> v \in walls[c] /\ <<c, v>> \notin {<<Maze!Root, "N">>, <<Maze!Exit, "S">>}
  <2>1. walls \in [Maze!Cell -> SUBSET Maze!Wall]
    BY DEF MazeTypes
  <2>6. Maze!Root # Maze!Exit /\ Maze!Root \in Maze!Cell /\ Maze!Exit \in Maze!Cell
    BY Square DEF Maze!Root, Maze!Exit
  <2>2. /\ walls'[Maze!Root] = walls[Maze!Root] \ {"N"} /\ walls'[Maze!Exit] = walls[Maze!Exit] \ {"S"}
        /\ \A c \in Maze!Cell \ {Maze!Root, Maze!Exit} : walls'[c] = walls[c]
    BY <1>1, <2>1, <2>6
  <2>3. walls' = [c \in Maze!Cell |-> walls'[c]]
    BY <1>1, <2>1
  <2>4. \A c \in Maze!Cell : walls'[c] \in SUBSET Maze!Wall
    BY <2>1, <2>2, <2>6
  <2>5. walls' \in [Maze!Cell -> SUBSET Maze!Wall]
    BY <2>3, <2>4
  <2> QED BY <2>1, <2>2, <2>5, <2>6
<1>4. ASSUME NEW c \in Maze!Cell, NEW v \in Maze!Wall, Maze!Beyond(c, v) \in Maze!Cell
      PROVE  v \in walls'[c] <=> v \in walls[c]
  BY <1>3, <1>4, Square
<1>5. ASSUME NEW c \in Maze!Cell PROVE JoinedBy(walls', c) = JoinedBy(walls, c)
  BY <1>4 DEF JoinedBy
<1>6. ASSUME NEW c \in Maze!Cell PROVE Maze!Joined(c)' = Maze!Joined(c)
  BY <1>5, JoinedByWalls
<1>7. MazeTypes' /\ Solid' /\ Explored'
  BY <1>1, <1>2, <1>3 DEF MazeTypes, Solid, Explored
<1>8. Tree'
  <2>1. \A cells \in SUBSET Maze!Cell : Maze!Closed(cells)' <=> Maze!Closed(cells)
    BY <1>6 DEF Maze!Closed
  <2>2. Maze!Passages' = Maze!Passages
    <3>1. \A x \in Maze!Cell \X Maze!Cell : x[2] \in Maze!Joined(x[1])' <=> x[2] \in Maze!Joined(x[1])
      BY <1>6
    <3> QED BY <3>1 DEF Maze!Passages
  <2>3. Maze!Closed(seen)'
    BY <1>1, <1>2, <1>6 DEF Maze!Closed, Tree
  <2> QED BY <1>1, <2>1, <2>2, <2>3 DEF Tree
<1>9. WayBack'
  <2>1. PICK rank \in [Maze!Cell -> Nat] :
          /\ \A c \in seen \ {Maze!Root} :
               parent[c] \in seen /\ c \in JoinedBy(walls, parent[c]) /\ rank[parent[c]] < rank[c]
          /\ \A i, j \in 1..Len(path) : i < j => rank[path[i]] < rank[path[j]]
    BY DEF WayBack
  <2>2. \A c \in seen' \ {Maze!Root} :
          parent'[c] \in seen' /\ c \in JoinedBy(walls', parent'[c]) /\ rank[parent'[c]] < rank[c]
    BY <1>1, <1>2, <1>5, <2>1
  <2>3. \A i, j \in 1..Len(path') : i < j => rank[path'[i]] < rank[path'[j]]
    BY <1>1, <2>1
  <2> QED BY <2>2, <2>3 DEF WayBack
<1>10. Traced'
  <2>1. path \in Seq(Maze!Cell)
    BY DEF Traced
  <2>2. \A i \in 1..(Len(path) - 1) : path[i] \in Maze!Cell
    BY <2>1
  <2> QED BY <1>1, <1>5, <2>2 DEF Traced
<1>11. Maze!WallsAgree'
  <2>1. ASSUME NEW c \in Maze!Cell, NEW v \in Maze!Wall, Maze!Beyond(c, v) \in Maze!Cell
        PROVE  (v \in walls'[c]) <=> (Maze!Opposite[v] \in walls'[Maze!Beyond(c, v)])
    <3>1. Maze!Opposite[v] \in Maze!Wall /\ Maze!Beyond(Maze!Beyond(c, v), Maze!Opposite[v]) = c
      BY Square, Walls
    <3>2. /\ v \in walls'[c] <=> v \in walls[c]
          /\ Maze!Opposite[v] \in walls'[Maze!Beyond(c, v)] <=> Maze!Opposite[v] \in walls[Maze!Beyond(c, v)]
      BY <1>4, <2>1, <3>1
    <3> QED BY <2>1, <3>2 DEF Maze!WallsAgree
  <2>2. ASSUME NEW c \in Maze!Cell,
               NEW v \in Maze!Wall, Maze!Beyond(c, v) \notin Maze!Cell, v \notin walls'[c]
        PROVE  <<c, v>> \in {<<Maze!Root, "N">>, <<Maze!Exit, "S">>}
    <3>1. v \in walls[c]
      BY <1>1, <2>2 DEF Maze!WallsAgree
    <3> QED BY <1>3, <2>2, <3>1
  <2> QED BY <1>1, <2>1, <2>2 DEF Maze!WallsAgree
<1> QED BY <1>7, <1>8, <1>9, <1>10, <1>11

LEMMA MazeSteps == MazeInv /\ (Maze!Next \/ UNCHANGED mazeVars) => MazeInv'
<1>1. MazeInv /\ UNCHANGED mazeVars => MazeInv'
  <2> SUFFICES ASSUME MazeInv, UNCHANGED mazeVars PROVE MazeInv'
    OBVIOUS
  <2>1. MazeTypes' /\ Solid' /\ Explored' /\ Maze!WallsAgree'
    BY DEF MazeInv, mazeVars, MazeTypes, Solid, Explored, Maze!WallsAgree
  <2>2. Tree'
    BY DEF MazeInv, mazeVars, Tree, Maze!Closed, Maze!Joined, Maze!Passages
  <2>3. WayBack' /\ Traced'
    <3>1. UNCHANGED <<walls, seen, stack, parent, path, mazePc>>
      BY DEF mazeVars
    <3>2. WayBack'
      <4>1. WayBack
        BY DEF MazeInv
      <4> QED BY <3>1, <4>1 DEF WayBack
    <3>3. Traced'
      <4>1. Traced
        BY DEF MazeInv
      <4> QED BY <3>1, <4>1 DEF Traced
    <3> QED BY <3>2, <3>3
  <2> QED BY <2>1, <2>2, <2>3 DEF MazeInv
<1>2. Maze!Done => UNCHANGED mazeVars
  BY DEF Maze!Done, Maze!vars, mazeVars
<1> QED BY <1>1, <1>2, CarveSteps, BackSteps, TraceSteps, OpenSteps DEF Maze!Next

LEMMA MazeIsSound == MazeInv => Maze!WallsAgree /\ Maze!OnePath /\ Maze!SolutionIsOpen
<1> SUFFICES ASSUME MazeInv PROVE Maze!WallsAgree /\ Maze!OnePath /\ Maze!SolutionIsOpen
  OBVIOUS
<1>1. \A S : Maze!Cardinality(S) = Cardinality(S)
  BY DEF Maze!Cardinality, Cardinality
<1>2. mazePc = "done" => stack = <<>>
  BY DEF MazeInv, Traced
<1>3. mazePc = "done" => seen = Maze!Cell
  BY <1>2, AllSeen
<1>4. Maze!OnePath
  BY <1>1, <1>3 DEF Maze!OnePath, MazeInv, Tree
<1>5. path \in Seq(Maze!Cell) /\ Len(path) \in Nat
  BY DEF MazeInv, Traced
<1>6. \A i, j \in 1..Len(path) : path[i] = path[j] => i = j
  <2>1. PICK rank \in [Maze!Cell -> Nat] :
          \A i, j \in 1..Len(path) : i < j => rank[path[i]] < rank[path[j]]
    BY DEF MazeInv, WayBack
  <2>2. \A i \in 1..Len(path) : path[i] \in Maze!Cell /\ rank[path[i]] \in Nat
    BY <1>5
  <2> QED BY <1>5, <2>1, <2>2
<1>7. Cardinality({path[i] : i \in 1..Len(path)}) = Len(path)
  <2> DEFINE S == {path[i] : i \in 1..Len(path)}
             f == [i \in 1..Len(path) |-> path[i]]
  <2>1. f \in Bijection(1..Len(path), S)
    <3>1. f \in [1..Len(path) -> S] /\ DOMAIN f = 1..Len(path)
      OBVIOUS
    <3>2. \A i, j \in 1..Len(path) : f[i] = f[j] => i = j
      BY <1>6
    <3>3. \A t \in S : \E i \in 1..Len(path) : f[i] = t
      OBVIOUS
    <3> HIDE DEF S, f
    <3> QED BY <3>1, <3>2, <3>3 DEF Bijection, Injection, Surjection, IsInjective
  <2>2. IsFiniteSet(1..Len(path)) /\ Cardinality(1..Len(path)) = Len(path)
    <3>1. 1 \in Int /\ Len(path) \in Int
      BY <1>5
    <3>2. (IF 1 > Len(path) THEN 0 ELSE Len(path) - 1 + 1) = Len(path)
      BY <1>5
    <3> QED BY <3>1, <3>2, FS_Interval
  <2>3. ExistsBijection(1..Len(path), S)
    <3> HIDE DEF S, f
    <3> QED BY <2>1 DEF ExistsBijection
  <2> HIDE DEF S
  <2>4. Cardinality(S) = Cardinality(1..Len(path))
    BY <2>2, <2>3, FS_Bijection
  <2> QED BY <2>2, <2>4 DEF S
<1>8. Maze!ToSet(path) = {path[i] : i \in 1..Len(path)}
  BY <1>5 DEF Maze!ToSet
<1>9. ASSUME NEW i \in 1..(Len(path) - 1) PROVE path[i + 1] \in Maze!Joined(path[i])
  BY JoinedByWalls DEF MazeInv, Traced
<1>10. Maze!Last(path) = Maze!Exit /\ (mazePc = "done" => path[1] = Maze!Root)
  BY DEF MazeInv, Traced, Maze!Last
<1>11. Maze!SolutionIsOpen
  BY <1>1, <1>7, <1>8, <1>9, <1>10 DEF Maze!SolutionIsOpen
<1> QED BY <1>4, <1>11 DEF MazeInv

-----------------------------------------------------------------------------
(* The sudoku                                                              *)

LEMMA DivMod ==
  ASSUME NEW b \in Nat \ {0}, NEW x \in Int, NEW z \in 0..(b - 1)
  PROVE  (b * x + z) \div b = x /\ (b * x + z) % b = z
<1> DEFINE n == b * x + z
           q == n \div b
           m == n % b
<1>2. n = b * x + z /\ n \in Int
  OBVIOUS
<1> HIDE DEF n
<1>1. n \in Int /\ q \in Int /\ m \in 0..(b - 1) /\ n = b * q + m
  BY <1>2
<1> HIDE DEF n, q, m
<1>3. q = x
  <2>1. b * (x - q) = m - z
    BY <1>1, <1>2
  <2>2. CASE x - q >= 1
    <3>1. b * (x - q) >= b
      BY <1>1, <2>2
    <3> QED BY <1>1, <2>1, <3>1
  <2>3. CASE x - q <= -1
    <3>1. b * (x - q) <= -b
      BY <1>1, <2>3
    <3> QED BY <1>1, <2>1, <3>1
  <2> QED BY <1>1, <2>2, <2>3
<1>4. m = z
  BY <1>1, <1>2, <1>3
<1> QED BY <1>3, <1>4 DEF n, q, m

\* A line is its band, and its place within it.
LEMMA LineParts ==
  ASSUME NEW b \in Nat \ {0}
  PROVE  /\ \A i \in Sudoku!Line(b) :
              /\ i \in Int /\ i \div b \in 0..(b - 1) /\ i % b \in 0..(b - 1)
              /\ i = b * (i \div b) + (i % b)
         /\ \A x, z \in 0..(b - 1) :
              b * x + z \in Sudoku!Line(b) /\ (b * x + z) \div b = x /\ (b * x + z) % b = z
<1>1. ASSUME NEW i \in Sudoku!Line(b)
      PROVE  /\ i \in Int /\ i \div b \in 0..(b - 1) /\ i % b \in 0..(b - 1)
             /\ i = b * (i \div b) + (i % b)
  <2>1. i \in Int /\ 0 <= i /\ i <= b * b - 1
    BY DEF Sudoku!Line
  <2> DEFINE q == i \div b
             m == i % b
  <2>2. q \in Int /\ m \in 0..(b - 1) /\ i = b * q + m
    BY <2>1
  <2> HIDE DEF q, m
  <2>3. q >= 0
    <3>1. CASE q <= -1
      <4>1. b * q <= -b
        BY <2>2, <3>1
      <4> QED BY <2>1, <2>2, <4>1
    <3> QED BY <2>2, <3>1
  <2>4. q <= b - 1
    <3>1. CASE q >= b
      <4>1. b * q >= b * b
        BY <2>2, <3>1
      <4> QED BY <2>1, <2>2, <4>1
    <3> QED BY <2>2, <3>1
  <2> QED BY <2>1, <2>2, <2>3, <2>4 DEF q, m
<1>2. ASSUME NEW x \in 0..(b - 1), NEW z \in 0..(b - 1)
      PROVE  b * x + z \in Sudoku!Line(b) /\ (b * x + z) \div b = x /\ (b * x + z) % b = z
  <2>1. b * x \in Int /\ b * x >= 0 /\ b * x <= b * (b - 1)
    OBVIOUS
  <2>2. b * (b - 1) = b * b - b /\ b * b \in Int
    OBVIOUS
  <2>3. b * x + z \in 0..(b * b - 1)
    BY <2>1, <2>2
  <2>4. x \in Int
    OBVIOUS
  <2> QED BY <2>3, <2>4, DivMod DEF Sudoku!Line
<1> QED BY <1>1, <1>2

\* A permutation of the lines that keeps bands together.
OrderOK(b, p) ==
  /\ p \in [Sudoku!Line(b) -> Sudoku!Line(b)]
  /\ \A i, j \in Sudoku!Line(b) : p[i] = p[j] => i = j
  /\ \A u \in Sudoku!Line(b) : \E i \in Sudoku!Line(b) : p[i] = u
  /\ \A i, j \in Sudoku!Line(b) : i \div b = j \div b <=> p[i] \div b = p[j] \div b

LEMMA OrdersAre ==
  ASSUME NEW b \in Nat \ {0}, NEW o \in Sudoku!Orders(b)
  PROVE  /\ o \in [0..(b - 1) -> 0..(b - 1)]
         /\ \A x, z \in 0..(b - 1) : o[x] = o[z] => x = z
         /\ \A u \in 0..(b - 1) : \E x \in 0..(b - 1) : o[x] = u
  BY DEF Sudoku!Orders, Sudoku!Bijection, Sudoku!Injection, Sudoku!Surjection, Sudoku!IsInjective

\* What Lines makes is one.
LEMMA LinesAreOK ==
  ASSUME NEW b \in Nat \ {0}, NEW bands \in Sudoku!Orders(b),
         NEW within \in [0..(b - 1) -> Sudoku!Orders(b)],
         NEW p, p = [i \in Sudoku!Line(b) |-> b * bands[i \div b] + within[i \div b][i % b]]
  PROVE  OrderOK(b, p)
<1> DEFINE L == Sudoku!Line(b)
           S == 0..(b - 1)
           D(i) == i \div b
           M(i) == i % b
           P(x, z) == b * x + z
<1>1. /\ \A i \in L : D(i) \in S /\ M(i) \in S /\ i = P(D(i), M(i))
      /\ \A x, z \in S : P(x, z) \in L /\ D(P(x, z)) = x /\ M(P(x, z)) = z
  BY LineParts
<1>2. /\ bands \in [S -> S] /\ \A x, z \in S : bands[x] = bands[z] => x = z
      /\ \A u \in S : \E x \in S : bands[x] = u
  BY OrdersAre
<1>3. ASSUME NEW k \in S
      PROVE  /\ within[k] \in [S -> S] /\ \A x, z \in S : within[k][x] = within[k][z] => x = z
             /\ \A u \in S : \E x \in S : within[k][x] = u
  <2>1. within[k] \in Sudoku!Orders(b)
    OBVIOUS
  <2> QED BY <2>1, OrdersAre
<1>4. p = [i \in L |-> P(bands[D(i)], within[D(i)][M(i)])]
  OBVIOUS
<1>10. SUFFICES /\ p \in [L -> L]
                /\ \A i, j \in L : p[i] = p[j] => i = j
                /\ \A u \in L : \E i \in L : p[i] = u
                /\ \A i, j \in L : D(i) = D(j) <=> D(p[i]) = D(p[j])
  BY DEF OrderOK
<1> HIDE DEF L, S, D, M, P
<1>11. ASSUME NEW x \in S, NEW z \in S PROVE bands[x] \in S /\ within[x][z] \in S
  <2>1. bands[x] \in S
    BY <1>2
  <2>2. within[x] \in [S -> S]
    BY <1>3
  <2> QED BY <2>1, <2>2
<1>5. ASSUME NEW i \in L
      PROVE  p[i] \in L /\ D(p[i]) = bands[D(i)] /\ M(p[i]) = within[D(i)][M(i)]
  <2>1. D(i) \in S /\ M(i) \in S
    BY <1>1
  <2>2. bands[D(i)] \in S /\ within[D(i)][M(i)] \in S
    BY <1>11, <2>1
  <2>3. p[i] = P(bands[D(i)], within[D(i)][M(i)])
    BY <1>4
  <2> QED BY <1>1, <2>2, <2>3
<1>6. p \in [L -> L]
  BY <1>4, <1>5
<1>7. ASSUME NEW i \in L, NEW j \in L PROVE D(i) = D(j) <=> D(p[i]) = D(p[j])
  <2>1. D(i) \in S /\ D(j) \in S
    BY <1>1
  <2>2. D(p[i]) = bands[D(i)] /\ D(p[j]) = bands[D(j)]
    BY <1>5
  <2>3. bands[D(i)] = bands[D(j)] => D(i) = D(j)
    BY <1>2, <2>1
  <2> QED BY <2>2, <2>3
<1>8. ASSUME NEW i \in L, NEW j \in L, p[i] = p[j] PROVE i = j
  <2>1. D(i) = D(j)
    BY <1>7, <1>8
  <2>2. within[D(i)][M(i)] = within[D(i)][M(j)]
    <3>1. M(p[i]) = within[D(i)][M(i)] /\ M(p[j]) = within[D(j)][M(j)]
      BY <1>5
    <3> QED BY <1>8, <2>1, <3>1
  <2>3. M(i) = M(j)
    BY <1>1, <1>3, <2>2
  <2> QED BY <1>1, <2>1, <2>3
<1>9. ASSUME NEW u \in L PROVE \E i \in L : p[i] = u
  <2>1. D(u) \in S /\ M(u) \in S /\ u = P(D(u), M(u))
    BY <1>1
  <2>2. PICK x \in S : bands[x] = D(u)
    BY <1>2, <2>1
  <2>3. PICK z \in S : within[x][z] = M(u)
    BY <1>3, <2>1
  <2>4. P(x, z) \in L /\ D(P(x, z)) = x /\ M(P(x, z)) = z
    BY <1>1
  <2>5. p[P(x, z)] = P(bands[x], within[x][z])
    BY <1>4, <2>4
  <2> QED BY <2>1, <2>2, <2>3, <2>4, <2>5
<1> QED BY <1>6, <1>7, <1>8, <1>9

\* The disguise in three steps: the grid transposed, its lines moved, its digits
\* named anew.
Flip(b, g)        == [r \in Sudoku!Line(b) |-> [c \in Sudoku!Line(b) |-> g[c][r]]]
Moved(b, p, q, g) == [r \in Sudoku!Line(b) |-> [c \in Sudoku!Line(b) |-> g[p[r]][q[c]]]]
Named(b, d, g)    == [r \in Sudoku!Line(b) |-> [c \in Sudoku!Line(b) |-> d[g[r][c]]]]

\* Solves, digit by digit.
Full(b, g) ==
  /\ \A r, c \in Sudoku!Line(b) : g[r][c] \in Sudoku!Digit(b)
  /\ \A n \in Sudoku!Digit(b) :
       /\ \A i \in Sudoku!Line(b) : /\ \E c \in Sudoku!Line(b) : g[i][c] = n
                                    /\ \E r \in Sudoku!Line(b) : g[r][i] = n
       /\ \A k, m \in 0..(b - 1) :
            \E r, c \in Sudoku!Line(b) : r \div b = k /\ c \div b = m /\ g[r][c] = n

LEMMA SolvesIsFull ==
  ASSUME NEW b \in Nat \ {0}, NEW g
  PROVE  Sudoku!Solves(b, g) <=> Full(b, g)
<1> DEFINE L == Sudoku!Line(b)
           N == Sudoku!Digit(b)
<1>1. ASSUME NEW i \in L
      PROVE  /\ i \div b \in 0..(b - 1) /\ i % b \in 0..(b - 1)
  BY LineParts
<1>2. ASSUME NEW k \in 0..(b - 1), NEW m \in 0..(b - 1)
      PROVE  \E i \in L : i \div b = k /\ i % b = m
  BY LineParts
<1>3. ASSUME NEW i \in L, NEW x
      PROVE  x \in Sudoku!Box(b, i) <=>
               \E r, c \in L : x = <<r, c>> /\ r \div b = i \div b /\ c \div b = i % b
  BY DEF Sudoku!Box
<1> HIDE DEF L, N
<1>4. ASSUME Sudoku!Solves(b, g) PROVE Full(b, g)
  <2>1. ASSUME NEW i \in L
        PROVE  /\ {g[i][c] : c \in L} = N /\ {g[r][i] : r \in L} = N
               /\ {g[x[1]][x[2]] : x \in Sudoku!Box(b, i)} = N
    BY <1>4 DEF Sudoku!Solves, L, N
  <2>2. \A r, c \in L : g[r][c] \in N
    BY <2>1
  <2>3. \A n \in N, i \in L : (\E c \in L : g[i][c] = n) /\ (\E r \in L : g[r][i] = n)
    BY <2>1
  <2>4. ASSUME NEW n \in N, NEW k \in 0..(b - 1), NEW m \in 0..(b - 1)
        PROVE  \E r, c \in L : r \div b = k /\ c \div b = m /\ g[r][c] = n
    <3>1. PICK i \in L : i \div b = k /\ i % b = m
      BY <1>2
    <3>2. PICK x \in Sudoku!Box(b, i) : g[x[1]][x[2]] = n
      BY <2>1
    <3>3. PICK r \in L, c \in L : x = <<r, c>> /\ r \div b = i \div b /\ c \div b = i % b
      BY <1>3
    <3> QED BY <3>1, <3>2, <3>3
  <2> QED BY <2>2, <2>3, <2>4 DEF Full, L, N
<1>5. ASSUME Full(b, g) PROVE Sudoku!Solves(b, g)
  <2>1. \A r, c \in L : g[r][c] \in N
    BY <1>5 DEF Full, L, N
  <2>2. \A n \in N, i \in L : (\E c \in L : g[i][c] = n) /\ (\E r \in L : g[r][i] = n)
    BY <1>5 DEF Full, L, N
  <2>3. \A n \in N : \A k, m \in 0..(b - 1) : \E r, c \in L : r \div b = k /\ c \div b = m /\ g[r][c] = n
    BY <1>5 DEF Full, L, N
  <2>4. ASSUME NEW i \in L
        PROVE  /\ {g[i][c] : c \in L} = N /\ {g[r][i] : r \in L} = N
               /\ {g[x[1]][x[2]] : x \in Sudoku!Box(b, i)} = N
    <3>1. {g[i][c] : c \in L} = N /\ {g[r][i] : r \in L} = N
      <4>1. (\A c \in L : g[i][c] \in N) /\ \A n \in N : \E c \in L : g[i][c] = n
        BY <2>1, <2>2
      <4>2. (\A r \in L : g[r][i] \in N) /\ \A n \in N : \E r \in L : g[r][i] = n
        BY <2>1, <2>2
      <4>3. {g[i][c] : c \in L} = N
        BY <4>1
      <4>4. {g[r][i] : r \in L} = N
        BY <4>2
      <4> QED BY <4>3, <4>4
    <3>2. ASSUME NEW x \in Sudoku!Box(b, i) PROVE g[x[1]][x[2]] \in N
      <4>1. PICK r \in L, c \in L : x = <<r, c>>
        BY <1>3
      <4> QED BY <2>1, <4>1
    <3>3. ASSUME NEW n \in N PROVE \E x \in Sudoku!Box(b, i) : g[x[1]][x[2]] = n
      <4>1. PICK r \in L, c \in L : r \div b = i \div b /\ c \div b = i % b /\ g[r][c] = n
        BY <1>1, <2>3
      <4>2. <<r, c>> \in Sudoku!Box(b, i)
        BY <1>3, <4>1
      <4> QED BY <4>1, <4>2
    <3> QED BY <3>1, <3>2, <3>3
  <2> QED BY <2>4 DEF Sudoku!Solves, L, N
<1> QED BY <1>4, <1>5

\* New names of the digits: one each, and a blank stays one.
DigitsOK(b, d) ==
  /\ d \in [0..(b * b) -> 0..(b * b)] /\ d[0] = 0
  /\ \A n \in Sudoku!Digit(b) : d[n] \in Sudoku!Digit(b)
  /\ \A n, m \in Sudoku!Digit(b) : d[n] = d[m] => n = m
  /\ \A m \in Sudoku!Digit(b) : \E n \in Sudoku!Digit(b) : d[n] = m

LEMMA FlipFull ==
  ASSUME NEW b \in Nat \ {0}, NEW g, Full(b, g)
  PROVE  Full(b, Flip(b, g))
<1> DEFINE L == Sudoku!Line(b)
           f == Flip(b, g)
<1>1. \A r, c \in L : f[r][c] = g[c][r]
  BY DEF Flip
<1>2. \A r, c \in L : f[r][c] \in Sudoku!Digit(b)
  BY <1>1 DEF Full
<1>3. ASSUME NEW n \in Sudoku!Digit(b), NEW i \in L
      PROVE  (\E c \in L : f[i][c] = n) /\ (\E r \in L : f[r][i] = n)
  <2>1. PICK c \in L : g[i][c] = n
    BY DEF Full
  <2>2. PICK r \in L : g[r][i] = n
    BY DEF Full
  <2>3. f[c][i] = n /\ f[i][r] = n
    BY <1>1, <2>1, <2>2
  <2> QED BY <2>3
<1>4. ASSUME NEW n \in Sudoku!Digit(b), NEW k \in 0..(b - 1), NEW m \in 0..(b - 1)
      PROVE  \E r, c \in L : r \div b = k /\ c \div b = m /\ f[r][c] = n
  <2>1. PICK r \in L, c \in L : r \div b = m /\ c \div b = k /\ g[r][c] = n
    BY DEF Full
  <2> QED BY <1>1, <2>1
<1> HIDE DEF f
<1> QED BY <1>2, <1>3, <1>4 DEF Full, f

LEMMA MovedFull ==
  ASSUME NEW b \in Nat \ {0}, NEW g, Full(b, g), NEW p, NEW q, OrderOK(b, p), OrderOK(b, q)
  PROVE  Full(b, Moved(b, p, q, g))
<1> DEFINE L == Sudoku!Line(b)
           f == Moved(b, p, q, g)
<1>1. \A r, c \in L : f[r][c] = g[p[r]][q[c]] /\ p[r] \in L /\ q[c] \in L
  BY DEF Moved, OrderOK
<1>2. ASSUME NEW r \in L, NEW c \in L PROVE f[r][c] \in Sudoku!Digit(b)
  <2>1. p[r] \in L /\ q[c] \in L /\ f[r][c] = g[p[r]][q[c]]
    BY <1>1
  <2>2. g[p[r]][q[c]] \in Sudoku!Digit(b)
    BY <2>1 DEF Full
  <2> QED BY <2>1, <2>2
<1>3. ASSUME NEW n \in Sudoku!Digit(b), NEW i \in L
      PROVE  (\E c \in L : f[i][c] = n) /\ (\E r \in L : f[r][i] = n)
  <2>1. PICK c \in L : g[p[i]][c] = n
    BY <1>1 DEF Full
  <2>2. PICK r \in L : g[r][q[i]] = n
    BY <1>1 DEF Full
  <2>3. (\E x \in L : q[x] = c) /\ (\E x \in L : p[x] = r)
    BY DEF OrderOK
  <2> QED BY <1>1, <2>1, <2>2, <2>3
<1>4. ASSUME NEW n \in Sudoku!Digit(b), NEW k \in 0..(b - 1), NEW m \in 0..(b - 1)
      PROVE  \E r, c \in L : r \div b = k /\ c \div b = m /\ f[r][c] = n
  <2>0. 0 \in 0..(b - 1)
    OBVIOUS
  <2>1. PICK i \in L : i \div b = k
    BY <2>0, LineParts
  <2>2. PICK j \in L : j \div b = m
    BY <2>0, LineParts
  <2>3. p[i] \div b \in 0..(b - 1) /\ q[j] \div b \in 0..(b - 1)
    BY <1>1, LineParts
  <2>4. PICK u \in L, v \in L : u \div b = p[i] \div b /\ v \div b = q[j] \div b /\ g[u][v] = n
    BY <2>3 DEF Full
  <2>5. PICK r \in L : p[r] = u
    BY DEF OrderOK
  <2>6. PICK c \in L : q[c] = v
    BY DEF OrderOK
  <2>7. r \div b = k
    <3>1. r \div b = i \div b <=> p[r] \div b = p[i] \div b
      BY DEF OrderOK
    <3> QED BY <2>1, <2>4, <2>5, <3>1
  <2>8. c \div b = m
    <3>1. c \div b = j \div b <=> q[c] \div b = q[j] \div b
      BY DEF OrderOK
    <3> QED BY <2>2, <2>4, <2>6, <3>1
  <2> QED BY <1>1, <2>4, <2>5, <2>6, <2>7, <2>8
<1> HIDE DEF f
<1> QED BY <1>2, <1>3, <1>4 DEF Full, f

LEMMA NamedFull ==
  ASSUME NEW b \in Nat \ {0}, NEW g, Full(b, g), NEW d, DigitsOK(b, d)
  PROVE  Full(b, Named(b, d, g))
<1> DEFINE L == Sudoku!Line(b)
           N == Sudoku!Digit(b)
           f == Named(b, d, g)
<1>1. \A r, c \in L : f[r][c] = d[g[r][c]]
  BY DEF Named
<1>2. ASSUME NEW r \in L, NEW c \in L PROVE f[r][c] \in N
  <2>1. g[r][c] \in N
    BY DEF Full
  <2>2. d[g[r][c]] \in N
    BY <2>1 DEF DigitsOK
  <2> QED BY <1>1, <2>2
<1>5. ASSUME NEW n \in N PROVE \E m \in N : d[m] = n
  BY DEF DigitsOK
<1>3. ASSUME NEW n \in N, NEW i \in L
      PROVE  (\E c \in L : f[i][c] = n) /\ (\E r \in L : f[r][i] = n)
  <2>1. PICK m \in N : d[m] = n
    BY <1>5
  <2>2. PICK c \in L : g[i][c] = m
    BY DEF Full
  <2>3. PICK r \in L : g[r][i] = m
    BY DEF Full
  <2> QED BY <1>1, <2>1, <2>2, <2>3
<1>4. ASSUME NEW n \in N, NEW k \in 0..(b - 1), NEW m \in 0..(b - 1)
      PROVE  \E r, c \in L : r \div b = k /\ c \div b = m /\ f[r][c] = n
  <2>1. PICK o \in N : d[o] = n
    BY <1>5
  <2>2. PICK r \in L, c \in L : r \div b = k /\ c \div b = m /\ g[r][c] = o
    BY DEF Full
  <2> QED BY <1>1, <2>1, <2>2
<1> HIDE DEF f
<1> QED BY <1>2, <1>3, <1>4 DEF Full, f

\* A puzzle and its solution, and that it has no other.
Held(b, clues, sol) ==
  /\ clues \in Sudoku!Grids(b) /\ sol \in Sudoku!Grids(b)
  /\ Full(b, sol) /\ Sudoku!Completes(b, sol, clues)
Only(b, clues, sol) ==
  \A g \in Sudoku!Grids(b) : Full(b, g) /\ Sudoku!Completes(b, g, clues) => g = sol

Given(b, g) == {x \in Sudoku!Line(b) \X Sudoku!Line(b) : g[x[1]][x[2]] # 0}

LEMMA GridEqual ==
  ASSUME NEW b, NEW g \in Sudoku!Grids(b), NEW h \in Sudoku!Grids(b),
         \A r, c \in Sudoku!Line(b) : g[r][c] = h[r][c]
  PROVE  g = h
<1>1. ASSUME NEW r \in Sudoku!Line(b) PROVE g[r] = h[r]
  <2>1. g[r] \in [Sudoku!Line(b) -> 0..(b * b)] /\ h[r] \in [Sudoku!Line(b) -> 0..(b * b)]
    BY DEF Sudoku!Grids
  <2> QED BY <2>1
<1> QED BY <1>1 DEF Sudoku!Grids

LEMMA GridCells ==
  ASSUME NEW b, NEW g \in Sudoku!Grids(b), NEW r \in Sudoku!Line(b), NEW c \in Sudoku!Line(b)
  PROVE  g[r][c] \in 0..(b * b)
<1>1. g[r] \in [Sudoku!Line(b) -> 0..(b * b)]
  BY DEF Sudoku!Grids
<1> QED BY <1>1

LEMMA GridOf ==
  ASSUME NEW b, NEW g, g = [r \in Sudoku!Line(b) |-> [c \in Sudoku!Line(b) |-> g[r][c]]],
         \A r, c \in Sudoku!Line(b) : g[r][c] \in 0..(b * b)
  PROVE  g \in Sudoku!Grids(b)
  BY DEF Sudoku!Grids

LEMMA GivenCount ==
  ASSUME NEW b \in Nat \ {0}, NEW g
  PROVE  Sudoku!ClueCount(b, g) = Cardinality(Given(b, g)) /\ IsFiniteSet(Given(b, g))
<1>1. 0 \in Int /\ b * b - 1 \in Int
  OBVIOUS
<1>2. IsFiniteSet(Sudoku!Line(b))
  BY <1>1, FS_Interval DEF Sudoku!Line
<1>3. IsFiniteSet(Sudoku!Line(b) \X Sudoku!Line(b))
  BY <1>2, FS_Product
<1>4. IsFiniteSet(Given(b, g))
  BY <1>3, FS_Subset DEF Given
<1>5. Sudoku!ClueCount(b, g) = Cardinality(Given(b, g))
  BY DEF Sudoku!ClueCount, Given, Sudoku!Cardinality, Cardinality
<1> QED BY <1>4, <1>5

\* Cells given in one grid and in the other, one for one.
LEMMA SameCount ==
  ASSUME NEW b \in Nat \ {0}, NEW g, NEW h, NEW f \in [Given(b, g) -> Given(b, h)],
         \A x, z \in Given(b, g) : f[x] = f[z] => x = z,
         \A w \in Given(b, h) : \E x \in Given(b, g) : f[x] = w
  PROVE  Sudoku!ClueCount(b, h) = Sudoku!ClueCount(b, g)
<1>1. f \in Bijection(Given(b, g), Given(b, h))
  BY DEF Bijection, Injection, Surjection, IsInjective
<1>2. Cardinality(Given(b, h)) = Cardinality(Given(b, g))
  BY <1>1, GivenCount, FS_Bijection DEF ExistsBijection
<1> QED BY <1>2, GivenCount

LEMMA FlipCells ==
  ASSUME NEW b, NEW g \in Sudoku!Grids(b)
  PROVE  /\ Flip(b, g) \in Sudoku!Grids(b) /\ Flip(b, Flip(b, g)) = g
         /\ \A r, c \in Sudoku!Line(b) : Flip(b, g)[r][c] = g[c][r]
<1> DEFINE L == Sudoku!Line(b)
           f == Flip(b, g)
           e == Flip(b, f)
<1>1. \A r, c \in L : f[r][c] = g[c][r]
  BY DEF Flip
<1>2. \A r, c \in L : e[r][c] = g[r][c]
  BY DEF Flip
<1>3. f \in Sudoku!Grids(b)
  <2>1. f = [r \in L |-> [c \in L |-> f[r][c]]]
    BY DEF Flip
  <2>2. \A r, c \in L : f[r][c] \in 0..(b * b)
    BY <1>1, GridCells
  <2> HIDE DEF f
  <2> QED BY <2>1, <2>2, GridOf
<1>4. e \in Sudoku!Grids(b)
  <2>1. e = [r \in L |-> [c \in L |-> e[r][c]]]
    BY DEF Flip
  <2>2. \A r, c \in L : e[r][c] \in 0..(b * b)
    BY <1>2, GridCells
  <2> HIDE DEF e
  <2> QED BY <2>1, <2>2, GridOf
<1>5. e = g
  <2> HIDE DEF e
  <2> QED BY <1>2, <1>4, GridEqual
<1> QED BY <1>1, <1>3, <1>5

LEMMA FlipHolds ==
  ASSUME NEW b \in Nat \ {0}, NEW clues, NEW sol, Held(b, clues, sol)
  PROVE  /\ Held(b, Flip(b, clues), Flip(b, sol))
         /\ Sudoku!ClueCount(b, Flip(b, clues)) = Sudoku!ClueCount(b, clues)
         /\ Only(b, clues, sol) => Only(b, Flip(b, clues), Flip(b, sol))
<1> DEFINE L == Sudoku!Line(b)
           C == Flip(b, clues)
           S == Flip(b, sol)
<1>1. /\ C \in Sudoku!Grids(b) /\ S \in Sudoku!Grids(b)
      /\ \A r, c \in L : C[r][c] = clues[c][r] /\ S[r][c] = sol[c][r]
  BY FlipCells DEF Held
<1>2. Full(b, S)
  BY FlipFull DEF Held
<1>3. Sudoku!Completes(b, S, C)
  <2>1. \A r, c \in L : clues[c][r] \in {0, sol[c][r]}
    BY DEF Held, Sudoku!Completes
  <2> HIDE DEF C, S
  <2> QED BY <1>1, <2>1 DEF Sudoku!Completes
<1>4. ASSUME Only(b, clues, sol), NEW g \in Sudoku!Grids(b), Full(b, g), Sudoku!Completes(b, g, C)
      PROVE  g = S
  <2>1. /\ Flip(b, g) \in Sudoku!Grids(b) /\ Flip(b, Flip(b, g)) = g
        /\ \A r, c \in L : Flip(b, g)[r][c] = g[c][r]
    BY FlipCells
  <2>2. Full(b, Flip(b, g))
    BY <1>4, FlipFull
  <2>3. Sudoku!Completes(b, Flip(b, g), clues)
    <3>1. \A r, c \in L : C[c][r] \in {0, g[c][r]}
      BY <1>4 DEF Sudoku!Completes
    <3>2. \A r, c \in L : C[c][r] = clues[r][c]
      BY <1>1
    <3> HIDE DEF C
    <3> QED BY <2>1, <3>1, <3>2 DEF Sudoku!Completes
  <2>4. Flip(b, g) = sol
    BY <1>4, <2>1, <2>2, <2>3 DEF Only
  <2> QED BY <2>1, <2>4
<1>5. Sudoku!ClueCount(b, C) = Sudoku!ClueCount(b, clues)
  <2> DEFINE f == [x \in Given(b, clues) |-> <<x[2], x[1]>>]
  <2>1. ASSUME NEW x \in Given(b, clues)
        PROVE  x \in L \X L /\ clues[x[1]][x[2]] # 0 /\ x = <<x[1], x[2]>>
    BY DEF Given
  <2>2. ASSUME NEW w \in Given(b, C)
        PROVE  w \in L \X L /\ C[w[1]][w[2]] # 0 /\ w = <<w[1], w[2]>>
    BY DEF Given
  <2> HIDE DEF C
  <2>3. ASSUME NEW x \in Given(b, clues) PROVE f[x] \in Given(b, C)
    BY <1>1, <2>1 DEF Given
  <2>4. f \in [Given(b, clues) -> Given(b, C)]
    BY <2>3
  <2>5. ASSUME NEW x \in Given(b, clues), NEW z \in Given(b, clues), f[x] = f[z] PROVE x = z
    BY <2>1, <2>5
  <2>6. ASSUME NEW w \in Given(b, C) PROVE \E x \in Given(b, clues) : f[x] = w
    <3>1. <<w[2], w[1]>> \in Given(b, clues)
      BY <1>1, <2>2 DEF Given
    <3>2. f[<<w[2], w[1]>>] = w
      BY <2>2, <3>1
    <3> QED BY <3>1, <3>2
  <2> HIDE DEF f
  <2> QED BY <2>4, <2>5, <2>6, SameCount
<1> QED BY <1>1, <1>2, <1>3, <1>4, <1>5 DEF Held, Only

LEMMA OrderBack ==
  ASSUME NEW b \in Nat \ {0}, NEW p, OrderOK(b, p)
  PROVE  \E q : /\ OrderOK(b, q)
                /\ \A i \in Sudoku!Line(b) : q[p[i]] = i /\ p[q[i]] = i
<1> DEFINE L == Sudoku!Line(b)
           q == [u \in L |-> CHOOSE i \in L : p[i] = u]
<1>1. /\ p \in [L -> L] /\ \A i, j \in L : p[i] = p[j] => i = j
      /\ \A u \in L : \E i \in L : p[i] = u
      /\ \A i, j \in L : i \div b = j \div b <=> p[i] \div b = p[j] \div b
  BY DEF OrderOK
<1>2. ASSUME NEW u \in L PROVE q[u] \in L /\ p[q[u]] = u
  BY <1>1
<1>3. q \in [L -> L]
  BY <1>2
<1> HIDE DEF q
<1>4. \A i \in L : p[i] \in L /\ q[p[i]] = i
  BY <1>1, <1>2
<1>5. \A i, j \in L : q[i] = q[j] => i = j
  BY <1>2
<1>6. \A u \in L : \E i \in L : q[i] = u
  BY <1>4
<1>7. ASSUME NEW i \in L, NEW j \in L PROVE i \div b = j \div b <=> q[i] \div b = q[j] \div b
  <2>1. q[i] \in L /\ q[j] \in L /\ p[q[i]] = i /\ p[q[j]] = j
    BY <1>2
  <2>2. q[i] \div b = q[j] \div b <=> p[q[i]] \div b = p[q[j]] \div b
    BY <1>1, <2>1
  <2> QED BY <2>1, <2>2
<1>8. OrderOK(b, q)
  BY <1>3, <1>5, <1>6, <1>7 DEF OrderOK
<1> QED BY <1>2, <1>4, <1>8

LEMMA DigitsBack ==
  ASSUME NEW b \in Nat \ {0}, NEW d, DigitsOK(b, d)
  PROVE  \E e : /\ DigitsOK(b, e)
                /\ \A n \in 0..(b * b) : e[d[n]] = n /\ d[e[n]] = n
<1> DEFINE N == Sudoku!Digit(b)
           Z == 0..(b * b)
           e == [m \in Z |-> IF m = 0 THEN 0 ELSE CHOOSE n \in N : d[n] = m]
<1>1. /\ d \in [Z -> Z] /\ d[0] = 0 /\ \A n \in N : d[n] \in N
      /\ \A n, m \in N : d[n] = d[m] => n = m
      /\ \A m \in N : \E n \in N : d[n] = m
  BY DEF DigitsOK
<1>2. 0 \in Z /\ 0 \notin N /\ \A n : n \in Z <=> n = 0 \/ n \in N
  <2>1. b * b \in Nat
    OBVIOUS
  <2>2. \A n : n \in 0..(b * b) <=> n = 0 \/ n \in 1..(b * b)
    BY <2>1
  <2> QED BY <2>1, <2>2 DEF Sudoku!Digit
<1> HIDE DEF N, Z
<1>3. e[0] = 0
  BY <1>2
<1>4. ASSUME NEW m \in N PROVE e[m] \in N /\ d[e[m]] = m
  <2>1. e[m] = CHOOSE n \in N : d[n] = m
    BY <1>2
  <2>2. \E n \in N : d[n] = m
    BY <1>1
  <2> QED BY <2>1, <2>2
<1>5. e = [m \in Z |-> e[m]]
  OBVIOUS
<1> HIDE DEF e
<1>6. e \in [Z -> Z]
  BY <1>2, <1>3, <1>4, <1>5
<1>7. ASSUME NEW n \in N PROVE d[n] \in N /\ e[d[n]] = n
  <2>1. d[n] \in N
    BY <1>1
  <2>2. e[d[n]] \in N /\ d[e[d[n]]] = d[n]
    BY <1>4, <2>1
  <2> QED BY <1>1, <2>1, <2>2
<1>8. \A n \in Z : e[d[n]] = n /\ d[e[n]] = n
  BY <1>1, <1>2, <1>3, <1>4, <1>7
<1>9. /\ \A n, m \in N : e[n] = e[m] => n = m
      /\ \A m \in N : \E n \in N : e[n] = m
  BY <1>4, <1>7
<1>10. DigitsOK(b, e)
  BY <1>3, <1>4, <1>6, <1>9 DEF DigitsOK, N, Z
<1> QED BY <1>8, <1>10 DEF Z

LEMMA MovedCells ==
  ASSUME NEW b, NEW g \in Sudoku!Grids(b), NEW p, NEW q, OrderOK(b, p), OrderOK(b, q)
  PROVE  /\ Moved(b, p, q, g) \in Sudoku!Grids(b)
         /\ \A r, c \in Sudoku!Line(b) :
              Moved(b, p, q, g)[r][c] = g[p[r]][q[c]] /\ p[r] \in Sudoku!Line(b) /\ q[c] \in Sudoku!Line(b)
<1> DEFINE L == Sudoku!Line(b)
           f == Moved(b, p, q, g)
<1>1. \A r, c \in L : f[r][c] = g[p[r]][q[c]] /\ p[r] \in L /\ q[c] \in L
  BY DEF Moved, OrderOK
<1>2. f = [r \in L |-> [c \in L |-> f[r][c]]]
  BY DEF Moved
<1> HIDE DEF f
<1>3. ASSUME NEW r \in L, NEW c \in L PROVE f[r][c] \in 0..(b * b)
  <2>1. p[r] \in L /\ q[c] \in L /\ f[r][c] = g[p[r]][q[c]]
    BY <1>1
  <2>2. g[p[r]][q[c]] \in 0..(b * b)
    BY <2>1, GridCells
  <2> QED BY <2>1, <2>2
<1>4. f \in Sudoku!Grids(b)
  BY <1>2, <1>3, GridOf
<1> QED BY <1>1, <1>4 DEF f

LEMMA MovedHolds ==
  ASSUME NEW b \in Nat \ {0}, NEW clues, NEW sol, Held(b, clues, sol),
         NEW p, NEW q, OrderOK(b, p), OrderOK(b, q)
  PROVE  /\ Held(b, Moved(b, p, q, clues), Moved(b, p, q, sol))
         /\ Sudoku!ClueCount(b, Moved(b, p, q, clues)) = Sudoku!ClueCount(b, clues)
         /\ Only(b, clues, sol) => Only(b, Moved(b, p, q, clues), Moved(b, p, q, sol))
<1> DEFINE L == Sudoku!Line(b)
           C == Moved(b, p, q, clues)
           S == Moved(b, p, q, sol)
<1>1. /\ C \in Sudoku!Grids(b) /\ S \in Sudoku!Grids(b)
      /\ \A r, c \in L : /\ C[r][c] = clues[p[r]][q[c]] /\ S[r][c] = sol[p[r]][q[c]]
                         /\ p[r] \in L /\ q[c] \in L
  BY MovedCells DEF Held
<1>2. Full(b, S)
  BY MovedFull DEF Held
<1>3. Sudoku!Completes(b, S, C)
  <2>1. \A r, c \in L : clues[r][c] \in {0, sol[r][c]}
    BY DEF Held, Sudoku!Completes
  <2> HIDE DEF C, S
  <2> QED BY <1>1, <2>1 DEF Sudoku!Completes
<1>4. ASSUME Only(b, clues, sol), NEW g \in Sudoku!Grids(b), Full(b, g), Sudoku!Completes(b, g, C)
      PROVE  g = S
  <2>1. PICK u : OrderOK(b, u) /\ \A i \in L : u[p[i]] = i /\ p[u[i]] = i
    BY OrderBack
  <2>2. PICK v : OrderOK(b, v) /\ \A i \in L : v[q[i]] = i /\ q[v[i]] = i
    BY OrderBack
  <2> DEFINE h == Moved(b, u, v, g)
  <2>3. /\ h \in Sudoku!Grids(b)
        /\ \A r, c \in L : h[r][c] = g[u[r]][v[c]] /\ u[r] \in L /\ v[c] \in L
    BY <2>1, <2>2, MovedCells
  <2>4. Full(b, h)
    BY <1>4, <2>1, <2>2, MovedFull
  <2> HIDE DEF h, C, S
  <2>5. ASSUME NEW r \in L, NEW c \in L PROVE clues[r][c] \in {0, h[r][c]}
    <3>1. u[r] \in L /\ v[c] \in L /\ p[u[r]] = r /\ q[v[c]] = c /\ h[r][c] = g[u[r]][v[c]]
      BY <2>1, <2>2, <2>3
    <3>2. C[u[r]][v[c]] \in {0, g[u[r]][v[c]]}
      BY <1>4, <3>1 DEF Sudoku!Completes
    <3>3. C[u[r]][v[c]] = clues[p[u[r]]][q[v[c]]]
      BY <1>1, <3>1
    <3> QED BY <3>1, <3>2, <3>3
  <2>6. h = sol
    BY <1>4, <2>3, <2>4, <2>5 DEF Only, Sudoku!Completes
  <2>7. ASSUME NEW r \in L, NEW c \in L PROVE g[r][c] = S[r][c]
    <3>1. p[r] \in L /\ q[c] \in L /\ u[p[r]] = r /\ v[q[c]] = c
      BY <1>1, <2>1, <2>2
    <3>2. h[p[r]][q[c]] = g[u[p[r]]][v[q[c]]]
      BY <2>3, <3>1
    <3>3. S[r][c] = sol[p[r]][q[c]]
      BY <1>1
    <3> QED BY <2>6, <3>1, <3>2, <3>3
  <2> QED BY <1>1, <2>7, GridEqual
<1>5. Sudoku!ClueCount(b, C) = Sudoku!ClueCount(b, clues)
  <2> DEFINE f == [x \in Given(b, C) |-> <<p[x[1]], q[x[2]]>>]
  <2>1. ASSUME NEW w \in Given(b, clues)
        PROVE  w \in L \X L /\ clues[w[1]][w[2]] # 0 /\ w = <<w[1], w[2]>>
    BY DEF Given
  <2>2. ASSUME NEW x \in Given(b, C) PROVE x \in L \X L /\ C[x[1]][x[2]] # 0 /\ x = <<x[1], x[2]>>
    BY DEF Given
  <2> HIDE DEF C
  <2>3. ASSUME NEW x \in Given(b, C)
        PROVE  /\ f[x] = <<p[x[1]], q[x[2]]>> /\ x[1] \in L /\ x[2] \in L
               /\ p[x[1]] \in L /\ q[x[2]] \in L /\ clues[p[x[1]]][q[x[2]]] # 0
    BY <1>1, <2>2
  <2>4. ASSUME NEW x \in Given(b, C) PROVE f[x] \in Given(b, clues)
    BY <2>3 DEF Given
  <2>5. f \in [Given(b, C) -> Given(b, clues)]
    BY <2>4
  <2>6. ASSUME NEW x \in Given(b, C), NEW z \in Given(b, C), f[x] = f[z] PROVE x = z
    <3>1. p[x[1]] = p[z[1]] /\ q[x[2]] = q[z[2]]
      BY <2>3, <2>6
    <3>2. x[1] \in L /\ x[2] \in L /\ z[1] \in L /\ z[2] \in L
      BY <2>3
    <3>3. /\ \A i, j \in L : p[i] = p[j] => i = j
          /\ \A i, j \in L : q[i] = q[j] => i = j
      BY DEF OrderOK
    <3>4. x[1] = z[1]
      BY <3>1, <3>2, <3>3
    <3>5. x[2] = z[2]
      BY <3>1, <3>2, <3>3
    <3> QED BY <2>2, <3>4, <3>5
  <2>7. ASSUME NEW w \in Given(b, clues) PROVE \E x \in Given(b, C) : f[x] = w
    <3>1. w[1] \in L /\ w[2] \in L
      BY <2>1
    <3>2. PICK r \in L : p[r] = w[1]
      BY <3>1 DEF OrderOK
    <3>3. PICK c \in L : q[c] = w[2]
      BY <3>1 DEF OrderOK
    <3>4. C[r][c] = clues[w[1]][w[2]]
      BY <1>1, <3>2, <3>3
    <3>5. <<r, c>> \in Given(b, C)
      BY <2>1, <3>4 DEF Given
    <3>6. f[<<r, c>>] = w
      BY <2>1, <3>2, <3>3, <3>5
    <3> QED BY <3>5, <3>6
  <2> HIDE DEF f
  <2> QED BY <2>5, <2>6, <2>7, SameCount
<1> QED BY <1>1, <1>2, <1>3, <1>4, <1>5 DEF Held, Only

LEMMA NamedCells ==
  ASSUME NEW b \in Nat \ {0}, NEW g \in Sudoku!Grids(b), NEW d, DigitsOK(b, d)
  PROVE  /\ Named(b, d, g) \in Sudoku!Grids(b)
         /\ \A r, c \in Sudoku!Line(b) : Named(b, d, g)[r][c] = d[g[r][c]]
<1> DEFINE L == Sudoku!Line(b)
           f == Named(b, d, g)
<1>1. \A r, c \in L : f[r][c] = d[g[r][c]]
  BY DEF Named
<1>2. f = [r \in L |-> [c \in L |-> f[r][c]]]
  BY DEF Named
<1>3. ASSUME NEW r \in L, NEW c \in L PROVE f[r][c] \in 0..(b * b)
  <2>1. g[r][c] \in 0..(b * b)
    BY GridCells
  <2>2. d \in [0..(b * b) -> 0..(b * b)]
    BY DEF DigitsOK
  <2>3. d[g[r][c]] \in 0..(b * b)
    BY <2>1, <2>2
  <2> QED BY <1>1, <2>3
<1> HIDE DEF f
<1>4. f \in Sudoku!Grids(b)
  BY <1>2, <1>3, GridOf
<1> QED BY <1>1, <1>4 DEF f

LEMMA NamedHolds ==
  ASSUME NEW b \in Nat \ {0}, NEW clues, NEW sol, Held(b, clues, sol), NEW d, DigitsOK(b, d)
  PROVE  /\ Held(b, Named(b, d, clues), Named(b, d, sol))
         /\ Sudoku!ClueCount(b, Named(b, d, clues)) = Sudoku!ClueCount(b, clues)
         /\ Only(b, clues, sol) => Only(b, Named(b, d, clues), Named(b, d, sol))
<1> DEFINE L == Sudoku!Line(b)
           Z == 0..(b * b)
           C == Named(b, d, clues)
           S == Named(b, d, sol)
<1>1. /\ C \in Sudoku!Grids(b) /\ S \in Sudoku!Grids(b)
      /\ \A r, c \in L : C[r][c] = d[clues[r][c]] /\ S[r][c] = d[sol[r][c]]
      /\ \A r, c \in L : clues[r][c] \in Z /\ sol[r][c] \in Z
  BY NamedCells, GridCells DEF Held
<1>2. Full(b, S)
  BY NamedFull DEF Held
<1>3. d \in [Z -> Z] /\ d[0] = 0
  BY DEF DigitsOK
<1>4. PICK e : DigitsOK(b, e) /\ \A n \in Z : e[d[n]] = n /\ d[e[n]] = n
  BY DigitsBack
<1>5. e \in [Z -> Z] /\ e[0] = 0
  BY <1>4 DEF DigitsOK
<1> HIDE DEF C, S
<1>6. Sudoku!Completes(b, S, C)
  <2>1. ASSUME NEW r \in L, NEW c \in L PROVE C[r][c] \in {0, S[r][c]}
    <3>1. clues[r][c] \in {0, sol[r][c]}
      BY DEF Held, Sudoku!Completes
    <3>2. C[r][c] = d[clues[r][c]] /\ S[r][c] = d[sol[r][c]]
      BY <1>1
    <3>3. CASE clues[r][c] = 0
      BY <1>3, <3>2, <3>3
    <3>4. CASE clues[r][c] = sol[r][c]
      BY <3>2, <3>4
    <3> QED BY <3>1, <3>3, <3>4
  <2> QED BY <2>1 DEF Sudoku!Completes
<1>7. ASSUME Only(b, clues, sol), NEW g \in Sudoku!Grids(b), Full(b, g), Sudoku!Completes(b, g, C)
      PROVE  g = S
  <2> DEFINE h == Named(b, e, g)
  <2>1. h \in Sudoku!Grids(b) /\ \A r, c \in L : h[r][c] = e[g[r][c]] /\ g[r][c] \in Z
    BY <1>4, NamedCells, GridCells
  <2>2. Full(b, h)
    BY <1>4, <1>7, NamedFull
  <2> HIDE DEF h
  <2>3. ASSUME NEW r \in L, NEW c \in L PROVE clues[r][c] \in {0, h[r][c]}
    <3>1. C[r][c] \in {0, g[r][c]} /\ C[r][c] = d[clues[r][c]]
      BY <1>1, <1>7 DEF Sudoku!Completes
    <3>2. e[d[clues[r][c]]] = clues[r][c]
      BY <1>1, <1>4
    <3>3. h[r][c] = e[g[r][c]]
      BY <2>1
    <3> QED BY <1>5, <3>1, <3>2, <3>3
  <2>4. h = sol
    BY <1>7, <2>1, <2>2, <2>3 DEF Only, Sudoku!Completes
  <2>5. ASSUME NEW r \in L, NEW c \in L PROVE g[r][c] = S[r][c]
    <3>1. S[r][c] = d[h[r][c]] /\ h[r][c] = e[g[r][c]] /\ g[r][c] \in Z
      BY <1>1, <2>1, <2>4
    <3> QED BY <1>4, <3>1
  <2> QED BY <1>1, <2>5, GridEqual
<1>8. Sudoku!ClueCount(b, C) = Sudoku!ClueCount(b, clues)
  <2> DEFINE f == [x \in Given(b, clues) |-> x]
  <2>1. ASSUME NEW r \in L, NEW c \in L PROVE C[r][c] = 0 <=> clues[r][c] = 0
    <3>1. C[r][c] = d[clues[r][c]] /\ e[d[clues[r][c]]] = clues[r][c]
      BY <1>1, <1>4
    <3> QED BY <1>3, <1>5, <3>1
  <2>2. Given(b, C) = Given(b, clues)
    BY <2>1 DEF Given
  <2>3. f \in [Given(b, clues) -> Given(b, C)] /\ \A x \in Given(b, clues) : f[x] = x
    BY <2>2
  <2> HIDE DEF f
  <2> QED BY <2>2, <2>3, SameCount
<1> QED BY <1>1, <1>2, <1>6, <1>7, <1>8 DEF Held, Only, C, S

\* Every template has one solution, its own.
OneEach ==
  \A name \in Name : Only(Template[name].box, Template[name].clues, Template[name].solution)

\* Whatever is drawn is a permutation that keeps blanks blank, or bands together;
\* the puzzle made from them is held by its solution, and has no other.
SudokuInv ==
  /\ template \in Name /\ sudokuPc \in {"digits", "rows", "cols", "make", "done"}
  /\ sudokuPc # "digits" => DigitsOK(Sudoku!B, digits)
  /\ sudokuPc \in {"cols", "make", "done"} => OrderOK(Sudoku!B, rows)
  /\ sudokuPc \in {"make", "done"} => OrderOK(Sudoku!B, cols)
  /\ sudokuPc # "done" => grid = Sudoku!T.clues /\ solution = Sudoku!T.solution
  /\ Held(Sudoku!B, grid, solution)
  /\ Sudoku!ClueCount(Sudoku!B, grid) = Sudoku!ClueCount(Sudoku!B, Sudoku!T.clues)
  /\ Only(Sudoku!B, Sudoku!T.clues, Sudoku!T.solution) => Only(Sudoku!B, grid, solution)

LEMMA TemplateFacts ==
  ASSUME NEW name \in Name, NEW t, t = Template[name]
  PROVE  /\ t.box \in Nat \ {0} /\ Held(t.box, t.clues, t.solution)
         /\ t.orders \subseteq Sudoku!Orders(t.box)
         /\ t.digitOrders \subseteq Sudoku!Bijection(Sudoku!Digit(t.box), Sudoku!Digit(t.box))
         /\ \A g \in t.rivals : g \in Sudoku!Grids(t.box) /\ Full(t.box, g)
<1>1. /\ t.box \in Nat \ {0} /\ t.clues \in Sudoku!Grids(t.box) /\ t.solution \in Sudoku!Grids(t.box)
      /\ Sudoku!Solves(t.box, t.solution) /\ Sudoku!Completes(t.box, t.solution, t.clues)
      /\ t.orders \subseteq Sudoku!Orders(t.box)
      /\ t.digitOrders \subseteq Sudoku!Bijection(Sudoku!Digit(t.box), Sudoku!Digit(t.box))
      /\ \A g \in t.rivals : g \in Sudoku!Grids(t.box) /\ Sudoku!Solves(t.box, g)
  BY PaperAssumption DEF Sudoku!SudokuAssumption
<1>2. Full(t.box, t.solution) /\ \A g \in t.rivals : Full(t.box, g)
  BY <1>1, SolvesIsFull
<1> QED BY <1>1, <1>2 DEF Held

LEMMA SudokuInits == Sudoku!Init => SudokuInv
<1> SUFFICES ASSUME Sudoku!Init PROVE SudokuInv
  OBVIOUS
<1>1. template \in Name /\ sudokuPc = "digits" /\ grid = Sudoku!T.clues /\ solution = Sudoku!T.solution
  BY DEF Sudoku!Init
<1>2. Held(Sudoku!B, Sudoku!T.clues, Sudoku!T.solution)
  BY <1>1, TemplateFacts DEF Sudoku!T, Sudoku!B
<1> QED BY <1>1, <1>2 DEF SudokuInv

\* [0] + shuffled.
LEMMA DrawnDigits ==
  ASSUME NEW b \in Nat \ {0}, NEW o \in Sudoku!Bijection(Sudoku!Digit(b), Sudoku!Digit(b)),
         NEW d, d = [n \in 0..(b * b) |-> IF n = 0 THEN 0 ELSE o[n]]
  PROVE  DigitsOK(b, d)
<1> DEFINE N == Sudoku!Digit(b)
           Z == 0..(b * b)
<1>1. /\ o \in [N -> N] /\ \A n, m \in N : o[n] = o[m] => n = m
      /\ \A m \in N : \E n \in N : o[n] = m
  BY DEF Sudoku!Bijection, Sudoku!Injection, Sudoku!Surjection, Sudoku!IsInjective
<1>2. 0 \in Z /\ 0 \notin N /\ \A n : n \in Z <=> n = 0 \/ n \in N
  <2>1. b * b \in Nat
    OBVIOUS
  <2>2. \A n : n \in 0..(b * b) <=> n = 0 \/ n \in 1..(b * b)
    BY <2>1
  <2> QED BY <2>1, <2>2 DEF Sudoku!Digit
<1>3. d = [n \in Z |-> IF n = 0 THEN 0 ELSE o[n]]
  OBVIOUS
<1> HIDE DEF N, Z
<1>4. d[0] = 0 /\ \A n \in N : d[n] = o[n] /\ d[n] \in N
  BY <1>1, <1>2, <1>3
<1>5. d \in [Z -> Z]
  BY <1>2, <1>3, <1>4
<1>6. \A n, m \in N : d[n] = d[m] => n = m
  BY <1>1, <1>4
<1>7. ASSUME NEW m \in N PROVE \E n \in N : d[n] = m
  <2>1. PICK n \in N : o[n] = m
    BY <1>1
  <2> QED BY <1>4, <2>1
<1> QED BY <1>4, <1>5, <1>6, <1>7 DEF DigitsOK, N, Z

LEMMA DrawnLines ==
  ASSUME template \in Name, NEW p \in Sudoku!LineOrders
  PROVE  OrderOK(Sudoku!B, p)
<1> DEFINE b == Sudoku!B
<1>1. b \in Nat \ {0} /\ Sudoku!T.orders \subseteq Sudoku!Orders(b)
  BY TemplateFacts DEF Sudoku!T, Sudoku!B
<1>2. PICK bands \in Sudoku!T.orders, within \in [0..(b - 1) -> Sudoku!T.orders] :
        p = Sudoku!Lines(bands, within)
  BY DEF Sudoku!LineOrders
<1>3. p = [i \in Sudoku!Line(b) |-> b * bands[i \div b] + within[i \div b][i % b]]
  BY <1>2 DEF Sudoku!Lines
<1>4. bands \in Sudoku!Orders(b) /\ within \in [0..(b - 1) -> Sudoku!Orders(b)]
  BY <1>1
<1> HIDE DEF b
<1>5. OrderOK(b, p)
  BY <1>1, <1>3, <1>4, LinesAreOK
<1> QED BY <1>5 DEF b

\* The disguise is its three steps.
LEMMA TransformIs ==
  ASSUME NEW s, NEW t \in BOOLEAN, Sudoku!B \in Nat \ {0}, OrderOK(Sudoku!B, rows),
         OrderOK(Sudoku!B, cols)
  PROVE  Sudoku!Transform(s, t) =
           Named(Sudoku!B, digits,
                 IF t THEN Flip(Sudoku!B, Moved(Sudoku!B, rows, cols, s))
                 ELSE Moved(Sudoku!B, rows, cols, s))
<1>1. CASE t
  BY <1>1 DEF Sudoku!Transform, Named, Flip, Moved
<1>2. CASE ~t
  BY <1>2 DEF Sudoku!Transform, Named, Flip, Moved
<1> QED BY <1>1, <1>2

LEMMA DisguiseHolds ==
  ASSUME NEW b \in Nat \ {0}, NEW clues, NEW sol, Held(b, clues, sol), NEW d, DigitsOK(b, d),
         NEW p, OrderOK(b, p), NEW q, OrderOK(b, q), NEW t \in BOOLEAN, NEW C, NEW S,
         C = Named(b, d, IF t THEN Flip(b, Moved(b, p, q, clues)) ELSE Moved(b, p, q, clues)),
         S = Named(b, d, IF t THEN Flip(b, Moved(b, p, q, sol)) ELSE Moved(b, p, q, sol))
  PROVE  /\ Held(b, C, S) /\ Sudoku!ClueCount(b, C) = Sudoku!ClueCount(b, clues)
         /\ Only(b, clues, sol) => Only(b, C, S)
<1> DEFINE mc == Moved(b, p, q, clues)
           ms == Moved(b, p, q, sol)
           fc == IF t THEN Flip(b, mc) ELSE mc
           fs == IF t THEN Flip(b, ms) ELSE ms
<1>1. /\ Held(b, mc, ms) /\ Sudoku!ClueCount(b, mc) = Sudoku!ClueCount(b, clues)
      /\ Only(b, clues, sol) => Only(b, mc, ms)
  BY MovedHolds
<1>0. C = Named(b, d, fc) /\ S = Named(b, d, fs)
  OBVIOUS
<1> HIDE DEF mc, ms
<1>2. /\ Held(b, fc, fs) /\ Sudoku!ClueCount(b, fc) = Sudoku!ClueCount(b, mc)
      /\ Only(b, mc, ms) => Only(b, fc, fs)
  BY <1>1, FlipHolds
<1> HIDE DEF fc, fs
<1>3. /\ Held(b, C, S) /\ Sudoku!ClueCount(b, C) = Sudoku!ClueCount(b, fc)
      /\ Only(b, fc, fs) => Only(b, C, S)
  BY <1>0, <1>2, NamedHolds
<1> QED BY <1>1, <1>2, <1>3

LEMMA SudokuSteps == SudokuInv /\ (Sudoku!Next \/ UNCHANGED sudokuVars) => SudokuInv'
<1> SUFFICES ASSUME SudokuInv, Sudoku!Next \/ UNCHANGED sudokuVars PROVE SudokuInv'
  OBVIOUS
<1> DEFINE b == Sudoku!B
           t == Sudoku!T
<1>1. b \in Nat \ {0} /\ b = t.box /\ t = Template[template] /\ template \in Name
  BY TemplateFacts DEF SudokuInv, Sudoku!T, Sudoku!B
<1>2. t.digitOrders \subseteq Sudoku!Bijection(Sudoku!Digit(b), Sudoku!Digit(b))
  BY <1>1, TemplateFacts
<1>3. CASE UNCHANGED sudokuVars
  BY <1>3 DEF SudokuInv, sudokuVars, Sudoku!T, Sudoku!B, Held, Only
<1>4. ASSUME template' = template PROVE Sudoku!T' = Sudoku!T /\ Sudoku!B' = Sudoku!B
  BY <1>4 DEF Sudoku!T, Sudoku!B
<1> HIDE DEF b, t
<1>5. CASE Sudoku!DrawDigits
  <2>1. /\ sudokuPc = "digits" /\ sudokuPc' = "rows"
        /\ template' = template /\ grid' = grid /\ solution' = solution
    BY <1>5 DEF Sudoku!DrawDigits
  <2>2. PICK o \in t.digitOrders : digits' = [n \in 0..(b * b) |-> IF n = 0 THEN 0 ELSE o[n]]
    BY <1>5 DEF Sudoku!DrawDigits, b, t
  <2>3. DigitsOK(b, digits')
    BY <1>1, <1>2, <2>2, DrawnDigits
  <2> QED BY <1>4, <2>1, <2>3 DEF SudokuInv, b
<1>6. CASE Sudoku!DrawRows
  <2>1. /\ sudokuPc = "rows" /\ sudokuPc' = "cols" /\ rows' \in Sudoku!LineOrders
        /\ template' = template /\ digits' = digits /\ grid' = grid /\ solution' = solution
    BY <1>6 DEF Sudoku!DrawRows
  <2>2. OrderOK(b, rows')
    BY <1>1, <2>1, DrawnLines DEF b
  <2> QED BY <1>4, <2>1, <2>2 DEF SudokuInv, b
<1>7. CASE Sudoku!DrawCols
  <2>1. /\ sudokuPc = "cols" /\ sudokuPc' = "make" /\ cols' \in Sudoku!LineOrders
        /\ template' = template /\ digits' = digits /\ rows' = rows
        /\ grid' = grid /\ solution' = solution
    BY <1>7 DEF Sudoku!DrawCols
  <2>2. OrderOK(b, cols')
    BY <1>1, <2>1, DrawnLines DEF b
  <2> QED BY <1>4, <2>1, <2>2 DEF SudokuInv, b
<1>8. CASE Sudoku!Make
  <2>1. /\ sudokuPc = "make" /\ sudokuPc' = "done"
        /\ template' = template /\ digits' = digits /\ rows' = rows /\ cols' = cols
    BY <1>8 DEF Sudoku!Make
  <2>2. PICK transpose \in BOOLEAN : /\ grid' = Sudoku!Transform(t.clues, transpose)
                                     /\ solution' = Sudoku!Transform(t.solution, transpose)
    BY <1>8 DEF Sudoku!Make, t
  <2>3. /\ DigitsOK(b, digits) /\ OrderOK(b, rows) /\ OrderOK(b, cols)
        /\ Held(b, t.clues, t.solution)
    BY <2>1 DEF SudokuInv, b, t
  <2> DEFINE Dressed(g) == Named(b, digits, IF transpose THEN Flip(b, Moved(b, rows, cols, g))
                                            ELSE Moved(b, rows, cols, g))
  <2>4. grid' = Dressed(t.clues) /\ solution' = Dressed(t.solution)
    BY <1>1, <2>2, <2>3, TransformIs DEF b
  <2>5. /\ Held(b, grid', solution') /\ Sudoku!ClueCount(b, grid') = Sudoku!ClueCount(b, t.clues)
        /\ Only(b, t.clues, t.solution) => Only(b, grid', solution')
    BY <1>1, <2>3, <2>4, DisguiseHolds
  <2> HIDE DEF Dressed
  <2> QED BY <1>1, <1>4, <2>1, <2>3, <2>5 DEF SudokuInv, b, t
<1>9. CASE Sudoku!Made
  BY <1>3, <1>9 DEF Sudoku!Made, Sudoku!vars, sudokuVars
<1> QED BY <1>3, <1>5, <1>6, <1>7, <1>8, <1>9 DEF Sudoku!Next

LEMMA SudokuIsSound ==
  ASSUME OneEach, SudokuInv
  PROVE  Sudoku!SolutionSolves /\ Sudoku!OneSolution
<1> DEFINE b == Sudoku!B
           t == Sudoku!T
<1>1. b \in Nat \ {0} /\ b = t.box /\ t = Template[template] /\ template \in Name
  BY TemplateFacts DEF SudokuInv, Sudoku!T, Sudoku!B
<1>2. \A g \in t.rivals : g \in Sudoku!Grids(b) /\ Full(b, g)
  BY <1>1, TemplateFacts
<1>3. Only(b, t.clues, t.solution)
  BY <1>1 DEF OneEach
<1>4. /\ Held(b, grid, solution) /\ Only(b, grid, solution)
      /\ Sudoku!ClueCount(b, grid) = Sudoku!ClueCount(b, t.clues)
  BY <1>3 DEF SudokuInv
<1> HIDE DEF b, t
<1>5. Sudoku!Solves(b, solution)
  BY <1>1, <1>4, SolvesIsFull DEF Held
<1>6. Sudoku!SolutionSolves
  BY <1>4, <1>5 DEF Held, Sudoku!SolutionSolves, b, t
<1>7. ASSUME NEW g \in t.rivals, Sudoku!Completes(b, g, grid) PROVE g = solution
  BY <1>2, <1>4, <1>7 DEF Only
<1>8. Sudoku!OneSolution
  BY <1>7 DEF Sudoku!OneSolution, b, t
<1> QED BY <1>6, <1>8

-----------------------------------------------------------------------------
(* The three generators of the arcade                                      *)

\* If each template has no solution but its own, then so has every puzzle made of
\* it, and a printed maze has one way between any two cells and its solution is
\* open, and the words of a word search are all in the square, in straight lines
\* that take no letter from one another (arcade._sudoku, _maze, _wordsearch).
THEOREM PuzzlesStaySound ==
  ASSUME OneEach
  PROVE  PaperSpec => []PuzzlesSound
<1> DEFINE Inv == SudokuInv /\ MazeInv /\ WordsInv
<1>1. PaperInit => Inv
  BY SudokuInits, MazeInits, WordsInits DEF PaperInit
<1>2. Inv /\ [PaperNext]_paperVars => Inv'
  <2> SUFFICES ASSUME Inv, [PaperNext]_paperVars PROVE Inv'
    OBVIOUS
  <2>1. /\ Sudoku!Next \/ UNCHANGED sudokuVars
        /\ Maze!Next \/ UNCHANGED mazeVars
        /\ WordSearch!Next \/ UNCHANGED wordsVars
    BY PartsStep
  <2> QED BY <2>1, SudokuSteps, MazeSteps, WordsSteps
<1>3. Inv => PuzzlesSound
  BY OneEach, SudokuIsSound, MazeIsSound, WordsAreSound DEF PuzzlesSound
<1> QED BY <1>1, <1>2, <1>3, PTL DEF PaperSpec
=============================================================================
