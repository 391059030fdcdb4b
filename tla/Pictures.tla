------------------------------ MODULE Pictures ------------------------------
(***************************************************************************)
(* The pictures that are printed: the owner's uploads, friends' drawings   *)
(* and photo strips, from upload to paper, with the rows that keep them    *)
(* and a server that may come back with another paper width.               *)
(*                                                                         *)
(* A picture is its size, whether it has ink, and whose it was; the pixels *)
(* are Pillow's.                                                           *)
(***************************************************************************)
EXTENDS Integers, FiniteSets

CONSTANTS
  Paper,         \* widths PRINTER_PIXEL_WIDTH may have
  User,
  Upload,        \* sizes <<w, h>> of uploaded files that Pillow can open
  Drawing,       \* those a friend sends as a drawing
  OptWidth,      \* widths an owner may ask for
  Label,         \* heights of rendered captions, 0 for none
  MaxRows,       \* bound: drawings and strips kept
  MaxRestarts    \* bound: restarts of the server

\* What the constants may be.
PicturesAssumption ==
  /\ Paper \subseteq 16..576 /\ OptWidth \subseteq Int /\ Label \subseteq 0..1212
  /\ Upload \subseteq Nat \X Nat /\ Drawing \subseteq Nat \X Nat
  /\ MaxRows \in Nat /\ MaxRestarts \in Nat

MAX_OUTPUT_HEIGHT == 4096
MAX_INPUT_PIXELS  == 30000000
MAX_FRAMES        == 4
Title             == 44     \* rows of the rendered "> PHOTO BOOTH"

VARIABLES
  width,      \* config.PRINTER_PIXEL_WIDTH
  rows,       \* history rows that hold a picture: [id, user, kind, picture]
  sent,       \* what the last request printed: a set of pictures
  scaled,     \* what it scaled: the set of one [from, to], or {}
  refused,    \* why it was refused, or "no"
  restarts

vars == <<width, rows, sent, scaled, refused, restarts>>

Init ==
  /\ width \in Paper /\ rows = {} /\ sent = {} /\ scaled = {} /\ refused = "no" /\ restarts = 0

Larger(a, b)  == IF a > b THEN a ELSE b
Smaller(a, b) == IF a < b THEN a ELSE b

-----------------------------------------------------------------------------
(* image.py                                                                *)

\* round() of n / d: to the nearest, and a half to the even neighbour.  (The
\* code's quotient is a float; its last bit is left out.)
Rounded(n, d) ==
  LET q == n \div d
      twice == 2 * (n % d)
  IN IF twice > d \/ (twice = d /\ q % 2 = 1) THEN q + 1 ELSE q

TargetWidth(asked) == Larger(8, Smaller(asked, width))

\* The size a file is scaled to.
ScaledTo(size, asked) ==
  LET w == TargetWidth(asked)
  IN <<w, IF size[1] = w THEN size[2] ELSE Larger(1, Rounded(size[2] * w, size[1]))>>

\* Mutant of Refusal: the height is checked before the scaling.
RefusalBefore(size, asked) ==
  IF size[1] < 1 \/ size[2] < 1 THEN "empty"
  ELSE IF size[1] * size[2] > MAX_INPUT_PIXELS THEN "pixels"
  ELSE IF size[2] > MAX_OUTPUT_HEIGHT THEN "tall" ELSE "no"

\* process: why it raises ValueError, or "no".
Refusal(size, asked) ==
  IF size[1] < 1 \/ size[2] < 1 THEN "empty"
  ELSE IF size[1] * size[2] > MAX_INPUT_PIXELS THEN "pixels"
  ELSE IF ScaledTo(size, asked)[2] > MAX_OUTPUT_HEIGHT THEN "tall" ELSE "no"

\* pad_to_printer_width: wider pictures are left alone.
Padded(picture) == [picture EXCEPT !.w = Larger(@, width)]

Picture(size, ink, by) == [w |-> size[1], h |-> size[2], ink |-> ink, by |-> by]

\* A line of text, rendered over the whole width.
Rendered == Picture(<<width, Title>>, TRUE, "text")

Refuse(why) == refused' = why /\ sent' = {} /\ scaled' = {} /\ UNCHANGED rows

-----------------------------------------------------------------------------
(* The owner's image tab                                                   *)

\* print_image: scale, pad, then the caption below.
PrintImage ==
  \E size \in Upload, asked \in OptWidth, captioned \in BOOLEAN :
    /\ IF Refusal(size, asked) # "no" THEN Refuse(Refusal(size, asked))
       ELSE /\ sent' = {Padded(Picture(ScaledTo(size, asked), TRUE, "owner"))}
                         \cup (IF captioned THEN {Rendered} ELSE {})
            /\ scaled' = {[from |-> size, to |-> ScaledTo(size, asked)]}
            /\ refused' = "no" /\ UNCHANGED rows
    /\ UNCHANGED <<width, restarts>>

-----------------------------------------------------------------------------
(* Friends' drawings and photo strips                                      *)

Keep(user, kind, picture) ==
  /\ rows' = rows \cup {[id |-> Cardinality(rows) + 1, user |-> user, kind |-> kind, picture |-> picture]}
  /\ sent' = {} /\ refused' = "no"

\* Nothing darker than white is left after scaling and thresholding.
Blank(drawn, left) == ~left

\* friend_print_doodle: a drawing may lose its ink to the scaling.
SendDoodle ==
  /\ Cardinality(rows) < MaxRows
  /\ \E user \in User, size \in Drawing, drawn \in BOOLEAN, left \in BOOLEAN :
       /\ left => drawn
       /\ IF Refusal(size, width) # "no" THEN Refuse(Refusal(size, width))
          ELSE IF Blank(drawn, left) THEN Refuse("blank")
          ELSE /\ Keep(user, "doodle", Padded(Picture(ScaledTo(size, width), left, user)))
               /\ scaled' = {[from |-> size, to |-> ScaledTo(size, width)]}
  /\ UNCHANGED <<width, restarts>>

Margin == Larger(8, width \div 24)
Gap    == Larger(8, width \div 36)

Side == width - 2 * Margin

\* render_strip: the title, the frames with a gap after each, the caption.
StripSize(frames, label) == <<width, Title + Gap + frames * (Side + Gap) + label>>

\* friend_print_photo with new photos.  A frame is cropped to a square first,
\* so its own processing refuses nothing; what Pillow refuses is left out.
SendStrip ==
  /\ Cardinality(rows) < MaxRows
  /\ \E user \in User, frames \in 1..MAX_FRAMES, label \in Label :
       IF StripSize(frames, label)[2] > MAX_OUTPUT_HEIGHT THEN Refuse("strip")
       ELSE Keep(user, "photo", Picture(StripSize(frames, label), TRUE, user)) /\ scaled' = {}
  /\ UNCHANGED <<width, restarts>>

\* A saved strip is reused by the friend it belongs to.
Reusable(row, user) == row.user = user /\ row.kind = "photo"

\* friend_print_photo with a saved strip: the very same pixels, under a new row.
Reprint ==
  /\ Cardinality(rows) < MaxRows
  /\ \E user \in User, row \in rows :
       IF Reusable(row, user)
       THEN Keep(user, "photo", row.picture) /\ scaled' = {}
       ELSE Refuse("not found")
  /\ UNCHANGED <<width, restarts>>

\* The worker, a replay or the owner's retry: the frame is rendered now, the
\* picture is the row's.
PrintRow ==
  /\ \E row \in rows : sent' = {Rendered, row.picture}
  /\ refused' = "no" /\ scaled' = {} /\ UNCHANGED <<width, rows, restarts>>

\* The configuration is read at start.
Restart ==
  /\ restarts < MaxRestarts /\ restarts' = restarts + 1 /\ width' \in Paper
  /\ sent' = {} /\ scaled' = {} /\ refused' = "no" /\ UNCHANGED rows

Next == PrintImage \/ SendDoodle \/ SendStrip \/ Reprint \/ PrintRow \/ Restart

Spec == Init /\ [][Next]_vars

-----------------------------------------------------------------------------
(* Properties                                                              *)

\* "About half a meter of receipt": no picture that is kept or sent is taller,
\* however small the upload was before it was scaled up.
HeightBound ==
  \A picture \in sent \cup {row.picture : row \in rows} : picture.h \in 1..MAX_OUTPUT_HEIGHT

\* "Resize proportionally": a scaled picture has its upload's shape to within
\* half a row, except that it never loses its last row.
ShapeKept ==
  \A s \in scaled :
    LET w == s.from[1]
        off == 2 * (s.to[2] * w - s.from[2] * s.to[1])
    IN off \in -w..w \/ s.to[2] = 1

\* An untouched or vanished drawing never reaches the queue.
DrawingsHaveInk == \A row \in rows : row.picture.ink

\* "Four frames plus a maximum caption fit the image budget on either paper
\* width": the strip's own height check never fires.
StripsFit == refused # "strip"

\* However often a strip is sent again, its pixels are the sender's own photos.
OwnPixels == \A row \in rows : row.picture.by = row.user

\* "Width is clamped to the printer": what is sent fills the paper and no more,
\* as long as the server's configuration is the one a kept picture was made for.
WidthOfPaper == restarts = 0 => \A picture \in sent : picture.w = width
=============================================================================
