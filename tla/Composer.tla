------------------------------ MODULE Composer ------------------------------
(***************************************************************************)
(* One body of markup on its ways to paper: features/text.py prints it     *)
(* line by line in the printer's own font, whose style is state of the     *)
(* printer; features/render.py cuts it into segments and draws each; and   *)
(* widgets.friend_message builds such a body from what a friend typed.     *)
(*                                                                         *)
(* A line is its directive and whether blanks precede it, a word its       *)
(* length and whether it is "!!!" or "```".                                *)
(***************************************************************************)
EXTENDS Integers, Sequences, FiniteSets, SequencesExt

CONSTANTS
  Kind,       \* directives of the body's lines
  Inline,     \* styles of spans, of "plain", "bold", "underline", "big"
  Word,       \* words of friends: [len, is], is in {"word", "cut", "fence"}
  Width,      \* RECEIPT_WIDTH
  MaxLines,   \* bound: lines of a body of any kind, paragraphs of a friend
  LongKind,   \* directives of the lines of longer bodies, whose spans are plain
  MaxLong,    \* bound: lines of those
  MaxWords    \* bound: words of a paragraph

\* What the constants may be.
ComposerAssumption ==
  /\ Kind \subseteq {"blank", "rule", "double", "cut", "h1", "h2", "centered", "bullet",
                     "todo", "styled", "fence", "plain"}
  /\ LongKind \subseteq Kind /\ Inline \subseteq {"plain", "bold", "underline", "big"}
  /\ Width \in Nat \ {0} /\ \A w \in Word : w.len <= Width
  /\ MaxLines \in Nat /\ MaxLong \in Nat /\ MaxWords \in Nat

Line == [kind : Kind, lead : BOOLEAN, spans : {<<a, b>> : a, b \in Inline}]

VARIABLES
  body,      \* lines printed so far
  style,     \* the printer's style
  out,       \* what the last line put on paper: [what, style]
  typed      \* paragraphs a friend typed, each a sequence of words

vars == <<body, style, out, typed>>

\* rstrip leaves leading blanks, which turn every directive into text (but a
\* line of nothing else is blank).
Directive(line) == IF line.lead /\ line.kind # "blank" THEN "plain" ELSE line.kind

-----------------------------------------------------------------------------
(* The printer's own font                                                  *)

Plain == [align |-> "left", bold |-> FALSE, underline |-> FALSE, big |-> FALSE]

\* p.set: what is not named stays.
Set(s, change) == [f \in DOMAIN s |-> IF f \in DOMAIN change THEN change[f] ELSE s[f]]
SpanStyle(span) ==
  [align |-> "left", bold |-> span = "bold", underline |-> span = "underline", big |-> span = "big"]

\* _emit: a style for each span, and back to plain.
Spans(s, spans) == [i \in DOMAIN spans |-> [what |-> "text", style |-> Set(s, SpanStyle(spans[i]))]]
AfterSpans(s, spans) == Set(s, Plain)

Subheading == [align |-> "center", bold |-> TRUE]
HeadingOn  == [align |-> "center", bold |-> TRUE, big |-> TRUE]
HeadingOff == [align |-> "left", bold |-> FALSE, big |-> FALSE]

Text(s) == <<[what |-> "text", style |-> s]>>

\* text.render, one branch per directive: what comes out, and the style after.
Render(line) ==
  LET d == Directive(line) IN
  CASE d \in {"blank", "rule", "double"} -> [out |-> Text(style), style |-> style]
    [] d = "cut" -> [out |-> <<[what |-> "cut", style |-> style]>>, style |-> style]
    [] d = "h1" -> [out |-> Text(Set(style, HeadingOn)), style |-> Set(style, HeadingOff)]
    [] d = "h2" -> [out |-> Text(Set(style, Subheading)),
                    style |-> Set(Set(style, Subheading), [align |-> "left", bold |-> FALSE])]
    [] d = "centered" ->
         LET s == Set(style, [align |-> "center"]) IN
         [out |-> Spans(s, line.spans), style |-> Set(AfterSpans(s, line.spans), [align |-> "left"])]
    [] d \in {"bullet", "todo"} ->
         [out |-> Text(style) \o Spans(style, line.spans), style |-> AfterSpans(style, line.spans)]
    [] d \in {"plain", "styled", "fence"} ->
         LET s == Set(style, [align |-> "left"]) IN
         [out |-> Spans(s, line.spans), style |-> Set(AfterSpans(s, line.spans), [align |-> "left"])]

\* text.preview: which lines it centres.
PreviewAlign(line) == IF Directive(line) \in {"h1", "h2", "centered"} THEN "center" ELSE "left"

-----------------------------------------------------------------------------
(* Segments                                                                *)

\* A line that is "!!!" but for blanks around it.
Cuts(line)   == line.kind = "cut"
Fences(line) == line.kind = "fence"
Blank(seg)   == \A i \in DOMAIN seg : seg[i].kind = "blank"

\* Mutant of LastSegment: what follows the last cut is dropped.
LastSegmentCut(segs) == Front(segs)

LastSegment(segs) == segs

\* split_cuts: the lines between the cuts, less segments of blanks.
SplitCuts(lines) ==
  LET segs == FoldLeft(LAMBDA s, l : IF Cuts(l) THEN Append(s, <<>>)
                                     ELSE Front(s) \o <<Append(Last(s), l)>>, << <<>> >>, lines)
  IN SelectSeq(LastSegment(segs), LAMBDA s : ~Blank(s))

\* _render_rich_segments: a body of blanks is one segment all the same.
Segments(lines) == IF SplitCuts(lines) = <<>> THEN <<lines>> ELSE SplitCuts(lines)

\* Renderer.render: the lines of a segment as they are drawn, verbatim between fences.
Draw(seg) ==
  FoldLeft(LAMBDA s, l : IF Fences(l) THEN [s EXCEPT !.pre = ~@]
                         ELSE [s EXCEPT !.drawn = Append(@, [line |-> l, pre |-> s.pre])],
           [pre |-> FALSE, drawn |-> <<>>], seg).drawn

-----------------------------------------------------------------------------
(* A friend's message                                                      *)

\* textwrap.fill: words fill lines of Width, a space between two.
Len2(words) == FoldLeft(LAMBDA n, w : n + w.len + 1, 0, words) - 1
Fill(words) ==
  FoldLeft(LAMBDA s, w : IF Last(s) = <<>> \/ Len2(Append(Last(s), w)) <= Width
                         THEN Front(s) \o <<Append(Last(s), w)>>
                         ELSE Append(s, <<w>>), << <<>> >>, words)

\* A line of words as the renderer reads it: a directive when it is alone.
AsLine(words) ==
  [kind |-> IF Len(words) = 1 /\ words[1].is # "word" THEN words[1].is ELSE "plain",
   lead |-> FALSE, spans |-> <<>>]
Frame(kind) == [kind |-> kind, lead |-> FALSE, spans |-> <<>>]
Header == <<Frame("h2"), Frame("double"), Frame("blank")>>
Footer == <<Frame("blank"), Frame("rule"), Frame("centered"), Frame("rule")>>

\* friend_message: header, paragraphs wrapped (one that is "!!!" is dropped),
\* footer.  The blank paragraphs that body.strip() takes off the ends are left
\* in: they only make blank lines.
Paragraph(words) ==
  IF Len(words) = 1 /\ words[1].is = "cut" THEN <<>>
  ELSE IF words = <<>> THEN <<Frame("blank")>>
  ELSE [i \in DOMAIN Fill(words) |-> AsLine(Fill(words)[i])]
FriendMessage(paragraphs) ==
  Header \o FoldLeft(LAMBDA all, p : all \o Paragraph(p), <<>>, paragraphs) \o Footer

-----------------------------------------------------------------------------

Init == body = <<>> /\ style = Plain /\ out = <<>> /\ typed = <<>>

\* The lines that are tried next: any, or in a longer body only plainer ones.
Tried ==
  LET plainer == [kind : LongKind, lead : BOOLEAN, spans : {<<"plain", "plain">>}] IN
  IF Len(body) < MaxLines THEN Line
  ELSE IF Len(body) < MaxLong /\ \A i \in DOMAIN body : body[i] \in plainer THEN plainer
  ELSE {}

\* The next line of the owner's body.
Compose ==
  /\ typed = <<>>
  /\ \E line \in Tried : /\ body' = Append(body, line)
                         /\ out' = Render(line).out /\ style' = Render(line).style
  /\ UNCHANGED typed

\* The next paragraph of a friend.
Type ==
  /\ Len(typed) < MaxLines /\ body = <<>>
  /\ \E n \in 0..MaxWords : \E p \in [1..n -> Word] : typed' = Append(typed, p)
  /\ UNCHANGED <<body, style, out>>

Quiesced == (Len(body) >= MaxLines \/ Len(typed) = MaxLines) /\ UNCHANGED vars

Next == Compose \/ Type \/ Quiesced

Spec == Init /\ [][Next]_vars

-----------------------------------------------------------------------------
(* Properties                                                              *)

\* No line's style leaks into the next line or the next print.
StyleDoesNotLeak == style = Plain

\* What the preview centres is centred on paper, what it does not is not: true
\* of every line but "> " ones, whose spans are set to the left.
PrintsAsPreviewed ==
  body # <<>> /\ Directive(Last(body)) # "centered" => \A i \in DOMAIN out : out[i].what = "text" =>
                   out[i].style.align = PreviewAlign(Last(body))

\* Cutting into segments loses, repeats and reorders no line of the body but
\* cuts and blanks.
SegmentsKeepLines ==
  LET Solid(lines) == SelectSeq(lines, LAMBDA l : ~Cuts(l) /\ l.kind # "blank") IN
  Solid(FoldLeft(LAMBDA all, s : all \o s, <<>>, Segments(body))) = Solid(body)

\* A friend's words all reach the paper, in their order.
WordsKept ==
  \A i \in DOMAIN typed : typed[i] # <<>> =>
    FoldLeft(LAMBDA all, l : all \o l, <<>>, Fill(typed[i])) = typed[i]

\* "Friends don't get the cut directive": only a "!!!" that wraps onto a line of
\* its own cuts a friend's message.
FriendsCutByWrapping ==
  Len(Segments(FriendMessage(typed))) > 1 =>
    \E i \in DOMAIN typed : Len(typed[i]) > 1 /\ \E l \in ToSet(Fill(typed[i])) : Cuts(AsLine(l))

\* "... so the rich renderer in features/render.py picks up the heading +
\* dividers": the frame is drawn as a frame, unless the friend left a fence open
\* in the same segment.
FrameHolds ==
  \A seg \in ToSet(Segments(FriendMessage(typed))) :
    Cardinality({k \in DOMAIN seg : Fences(seg[k])}) % 2 = 0 =>
      \A d \in ToSet(Draw(seg)) : d.line.kind \in {"h2", "double", "rule", "centered"} => ~d.pre
=============================================================================
