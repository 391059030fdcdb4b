------------------------------ MODULE Hardware ------------------------------
(***************************************************************************)
(* The raw ESC/POS bytes of features/hardware.py and features/led.py, with *)
(* the printer that reads them one by one: a command interpreter, and the  *)
(* status bytes it answers on an input queue that outlives a request.      *)
(*                                                                         *)
(* Bytes that are sent are numbers; a status byte is the set of its bits.  *)
(***************************************************************************)
EXTENDS Integers, Sequences

CONSTANTS
  Number,    \* integers a form may hold
  Line,      \* lines typed into the raw console: [escapes, bytes, text]
  Late,      \* may the printer answer after the program has given up?
  MaxOps     \* bound: commands and status queries

\* What the constants may be.
HardwareAssumption ==
  /\ Number \subseteq Int /\ Late \in BOOLEAN /\ MaxOps \in Nat
  /\ \A l \in Line : l.escapes \in BOOLEAN /\ l.bytes \in Seq(0..255) /\ l.text \in Seq(0..255)

Mode == 1..4      \* STATUS_MODES

VARIABLES
  interp,    \* the printer's interpreter
  stream,    \* bytes sent, and not yet read by the printer
  sender,    \* who sent them, "control" or "raw"
  clean,     \* was the printer outside a command when they were sent?
  spoiled,   \* commands that left it in the middle of something
  wide,      \* has a number been sent that is no byte?
  console,   \* the raw console's last input and what it was sent as
  asking,    \* the status query's mode, or 0
  waiting,   \* queries the printer has yet to answer
  inbox,     \* its answers, not yet read
  results,   \* answers by mode: what came, and the flags made of it
  ops

vars == <<interp, stream, sender, clean, spoiled, wide, console, asking, waiting, inbox, results, ops>>

-----------------------------------------------------------------------------
(* The printer: what the commands used here consist of                     *)

Ready == [at |-> "text", need |-> 0]

\* How many arguments a command takes, by its letter after ESC or GS.
EscArgs(b) == CASE b \in {112, 67} -> 3 [] b = 66 -> 2 [] b \in {100, 116, 76} -> 1 [] OTHER -> 0
GsArgs(b)  == CASE b = 78 -> 4 [] b = 140 -> 3 [] b = 86 -> 1 [] OTHER -> 0
DleArgs(b) == IF b = 4 THEN 1 ELSE 0
Lead(b)    == CASE b = 27 -> "esc" [] b = 29 -> "gs" [] b = 16 -> "dle" [] OTHER -> "text"

Arguments(n) == [at |-> "text", need |-> n]

\* One byte: an argument, a command's lead or letter, or part of GS ( x pL pH,
\* whose length is in need while pH is awaited.
Interpret(s, b) ==
  CASE s.at = "text" /\ s.need > 0 -> [s EXCEPT !.need = @ - 1]
    [] s.at = "text" /\ s.need = 0 -> [s EXCEPT !.at = Lead(b)]
    [] s.at = "esc" -> Arguments(EscArgs(b))
    [] s.at = "gs"  -> IF b = 40 THEN [s EXCEPT !.at = "letter"] ELSE Arguments(GsArgs(b))
    [] s.at = "dle" -> Arguments(DleArgs(b))
    [] s.at = "letter" -> [s EXCEPT !.at = "low"]
    [] s.at = "low"  -> [at |-> "high", need |-> b]
    [] s.at = "high" -> [at |-> "text", need |-> s.need + 256 * b]

\* The conditions a status byte reports, and the bits that stand for each.
Bits(mode) ==
  CASE mode = 1 -> [drawer_open |-> {2}, offline |-> {3}, cover_open |-> {5}, feed_button_pressed |-> {6}]
    [] mode = 2 -> [cover_open |-> {2}, paper_feed_button |-> {3}, paper_ended |-> {5}, error_occurred |-> {6}]
    [] mode = 3 -> [cutter_error |-> {3}, unrecoverable_error |-> {5}, autorecoverable_error |-> {6}]
    [] mode = 4 -> [near_end_paper_sensor |-> {2, 3}, paper_end_sensor |-> {5, 6}]

StatusByte(mode, conditions) == {1, 4} \cup UNION {Bits(mode)[c] : c \in conditions}

-----------------------------------------------------------------------------
(* Commands                                                                *)

\* max(low, min(high, n)).
Clamp(low, high, n) == IF n < low THEN low ELSE IF n > high THEN high ELSE n

CashDrawer(pin, on, off) == <<27, 112, IF pin = 2 THEN 0 ELSE 1, Clamp(1, 255, on), Clamp(1, 255, off)>>
Beep(count, duration)    == <<27, 66, Clamp(1, 9, count), Clamp(1, 9, duration)>>
FeedLines(n)             == <<27, 100, Clamp(0, 255, n)>>
Cut(partial)             == <<29, 86, IF partial THEN 1 ELSE 0>>
CutAfterFeed(n, partial) == FeedLines(n) \o Cut(partial)
Reset                    == <<27, 64>>

\* Mutant of SetDensity: a length that counts the letter as well.
SetDensityLong(level) == <<29, 40, 75, 3, 0, 49, Clamp(0, 15, level)>>

SetDensity(level)        == <<29, 40, 75, 2, 0, 49, Clamp(0, 15, level)>>
SetCodePage(n)           == <<27, 116, Clamp(0, 255, n)>>
SelfTest                 == <<29, 40, 65, 2, 0, 0, 2>>

\* led.PROTOCOLS: the candidate ways to set a colour.
Slot(r, g, b) == (IF r > 96 THEN 1 ELSE 0) + (IF g > 96 THEN 2 ELSE 0) + (IF b > 96 THEN 4 ELSE 0)
Protocols(r, g, b) ==
  { <<27, 67, r, g, b>>, <<29, 78, 1, r, g, b>>, <<29, 40, 67, 4, 0, 1, r, g, b>>,
    <<29, 140, r, g, b>>, <<27, 76, Slot(r, g, b)>> }

\* build_bytes: every component is clamped to a byte.
BuildBytes(r, g, b) == Protocols(Clamp(0, 255, r), Clamp(0, 255, g), Clamp(0, 255, b))

Commands ==
  {CashDrawer(pin, n, 255) : pin \in {2, 5}, n \in Number}
    \cup {Beep(n, n) : n \in Number} \cup {CutAfterFeed(n, p) : n \in Number, p \in BOOLEAN}
    \cup {FeedLines(n) : n \in Number} \cup {SetDensity(n) : n \in Number}
    \cup {SetCodePage(n) : n \in Number} \cup {Reset, SelfTest}
    \cup UNION {BuildBytes(r, g, 255) : r, g \in Number}

\* parse_raw_input, of a text of two lines: one backslash escape anywhere and the
\* whole text is read as escapes, in which hex digits stand for themselves.
ParseRawInput(a, b) ==
  LET escapes == a.escapes \/ b.escapes
      Parse(l) == IF escapes /\ ~l.escapes THEN l.text ELSE l.bytes
  IN Parse(a) \o Parse(b)

Init ==
  /\ interp = Ready /\ stream = <<>> /\ sender = "control" /\ clean = TRUE /\ spoiled = {} /\ wide = FALSE /\ console = [lines |-> <<>>, sent |-> <<>>]
  /\ asking = 0 /\ waiting = <<>> /\ inbox = <<>> /\ results = [m \in Mode |-> [kind |-> "unasked"]]
  /\ ops = 0

\* No status query has the printer, and it has read what was sent.
Free == asking = 0 /\ stream = <<>> /\ ops < MaxOps

\* send_bytes: a whole command goes out under the printer lock.
Send(name, bytes) ==
  /\ ops' = ops + 1 /\ stream' = bytes /\ sender' = name /\ clean' = (interp = Ready)
  /\ wide' = (wide \/ \E i \in DOMAIN bytes : bytes[i] \notin 0..255)
  /\ UNCHANGED <<interp, spoiled, asking, waiting, inbox, results>>

Control == Free /\ \E bytes \in Commands : Send("control", bytes) /\ UNCHANGED console

\* hw_raw: an empty parse is refused.
Raw(a, b) ==
  /\ Free /\ ParseRawInput(a, b) # <<>>
  /\ Send("raw", ParseRawInput(a, b))
  /\ console' = [lines |-> <<a, b>>, sent |-> ParseRawInput(a, b)]

\* The printer reads a byte.  Whoever found it outside a command and leaves it
\* inside one has spoiled the next print.
Take ==
  /\ stream # <<>> /\ stream' = Tail(stream)
  /\ interp' = Interpret(interp, Head(stream))
  /\ spoiled' = IF stream' = <<>> /\ clean /\ interp' # Ready THEN spoiled \cup {sender} ELSE spoiled
  /\ UNCHANGED <<sender, clean, wide, console, asking, waiting, inbox, results, ops>>

-----------------------------------------------------------------------------
(* Status                                                                  *)

\* The bits parse_status_byte tests for each flag, up to mode 3.
Mask(mode) ==
  CASE mode = 1 -> [drawer_open |-> {2}, offline |-> {3}, cover_open |-> {5}, feed_button_pressed |-> {6}]
    [] mode = 2 -> [cover_open |-> {2}, paper_feed_button |-> {3}, paper_ended |-> {5}, error_occurred |-> {6}]
    [] mode = 3 -> [cutter_error |-> {3}, unrecoverable_error |-> {5}, autorecoverable_error |-> {6}]

\* parse_status_byte; "offline" is its online, negated.  In mode 4 a truth
\* value is compared with the mask, which it never equals.
ParseStatusByte(mode, byte) ==
  IF mode = 4 THEN {} ELSE {f \in DOMAIN Mask(mode) : byte \cap Mask(mode)[f] # {}}

\* hw_status asks for one mode after the other; query_status sends DLE EOT n.
\* (Of a printer that is not in the middle of a command.)
Ask ==
  /\ Free /\ interp = Ready /\ ops' = ops + 1
  /\ asking' = 1 /\ waiting' = Append(waiting, 1)
  /\ results' = [m \in Mode |-> [kind |-> "unasked"]]
  /\ UNCHANGED <<interp, stream, sender, clean, spoiled, wide, console, inbox>>

\* The next mode, or the end of the request.
Onward ==
  IF asking = 4 THEN asking' = 0 /\ UNCHANGED waiting
  ELSE asking' = asking + 1 /\ waiting' = Append(waiting, asking + 1)

\* The printer answers the oldest query, truly.
Answer ==
  /\ waiting # <<>>
  /\ \E c \in SUBSET DOMAIN Bits(Head(waiting)) :
       inbox' = Append(inbox, [mode |-> Head(waiting), conditions |-> c,
                               byte |-> StatusByte(Head(waiting), c)])
  /\ waiting' = Tail(waiting)
  /\ UNCHANGED <<interp, stream, sender, clean, spoiled, wide, console, asking, results, ops>>

\* read takes up to 64 bytes, of which the first is the answer.
Read ==
  /\ asking # 0 /\ inbox # <<>> /\ inbox' = <<>>
  /\ results' = [results EXCEPT ![asking] =
       [kind |-> "answer", of |-> Head(inbox),
        flags |-> ParseStatusByte(asking, Head(inbox).byte)]]
  /\ Onward /\ UNCHANGED <<interp, stream, sender, clean, spoiled, wide, console, ops>>

\* Nothing came within timeout_ms.  If the printer is not late, the query is lost.
Timeout ==
  /\ asking # 0 /\ inbox = <<>> /\ waiting # <<>>
  /\ results' = [results EXCEPT ![asking] = [kind |-> "none"]]
  /\ LET unanswered == IF Late THEN waiting ELSE <<>> IN
     IF asking = 4 THEN asking' = 0 /\ waiting' = unanswered
     ELSE asking' = asking + 1 /\ waiting' = Append(unanswered, asking + 1)
  /\ UNCHANGED <<interp, stream, sender, clean, spoiled, wide, console, inbox, ops>>

Quiesced == ops = MaxOps /\ stream = <<>> /\ asking = 0 /\ waiting = <<>> /\ UNCHANGED vars

Next ==
  \/ Control \/ Take \/ Ask \/ Answer \/ Read \/ Timeout \/ Quiesced
  \/ \E a, b \in Line : Raw(a, b)

Spec == Init /\ [][Next]_vars

-----------------------------------------------------------------------------
(* Properties                                                              *)

\* No control leaves the printer in the middle of a command, where it would
\* swallow the start of the next print; only the raw console can.
WholeCommands == spoiled \subseteq {"raw"}

\* Whatever number a form holds, only bytes are sent.
BytesFit == ~wide

\* Unless an earlier query's late answer was read for it, the flags of modes 1
\* to 3 are what the printer reported when it was asked.
FlagsTrue ==
  \A m \in 1..3 : results[m].kind = "answer" /\ results[m].of.mode = m
                  => results[m].flags = results[m].of.conditions

\* Lines of one style are sent as what they stand for in that style.
LinesPickStyle ==
  console.lines # <<>> /\ console.lines[1].escapes = console.lines[2].escapes =>
    console.sent = console.lines[1].bytes \o console.lines[2].bytes
=============================================================================
