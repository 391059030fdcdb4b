---------------------------- MODULE PaperArcade ----------------------------
(***************************************************************************)
(* A puzzle from the owner's console to the drawer: the arcade tab of      *)
(* static/app.js, the routes that make, print and solve puzzles, and a     *)
(* server that may come back with another paper width, address or key.     *)
(* A puzzle exists only as its signed token; what a token generates is     *)
(* Sudoku's, Maze's and WordSearch's.                                      *)
(***************************************************************************)
EXTENDS Integers, FiniteSets

CONSTANTS
  Width,         \* WIDTHS
  Base,          \* origins PUBLIC_BASE_URL may name
  Key,           \* values of SECRET_KEY
  MaxPuzzles,    \* bound: puzzles made
  MaxRestarts,   \* bound: restarts of the server
  MaxSwitches    \* bound: switches of the console's tab

\* What the constants may be.
ArcadeAssumption ==
  Width # {} /\ Base # {} /\ Key # {} /\ {MaxPuzzles, MaxRestarts, MaxSwitches} \subseteq Nat

None    == "none"
Nothing == [shows |-> "placeholder", puzzle |-> {}]
Text    == [shows |-> "text", puzzle |-> {}]

VARIABLES
  width, base, key,    \* the server's settings
  made, restarts, switches,
  arcade,              \* state.arcade: the set of the one puzzle [token, picture], or {}
  busy,                \* the arcade action that is in flight, or None
  pane,                \* state.activePane: "arcade" or "compose"
  seq, owner,          \* state.previewSeq and previewOwner
  frame, status,       \* what the paper frame shows, and the preview's state
  requests,            \* in flight: [what, puzzle, seq, answer, gives]
  printed              \* receipts: [picture, shown when the button was pressed]

server  == <<width, base, key>>
preview == <<seq, owner, frame, status>>
vars    == <<server, made, restarts, switches, arcade, busy, pane, preview, requests, printed>>

Init ==
  /\ width \in Width /\ base \in Base /\ key \in Key
  /\ made = 0 /\ restarts = 0 /\ switches = 0 /\ arcade = {} /\ busy = None
  /\ pane = "arcade" /\ seq = 0 /\ owner = None /\ frame = Nothing /\ status = "waiting"
  /\ requests = {} /\ printed = {}

-----------------------------------------------------------------------------
(* The server                                                              *)

\* new_token signs version, kind, seed, width and a tag of the address.
Token == [key |-> key, seed |-> made, width |-> width, tag |-> base]

\* generate and render: the puzzle of a seed, with the address in its QR code.
Picture(token) == [seed |-> token.seed, width |-> token.width, qr |-> <<base, token>>]

\* Mutant of Printable: a token is printed whatever the settings are by now.
PrintableAnyhow(token) == token.key = key

\* read_token and require_current_settings.
Printable(token) == token.key = key /\ token.width = width /\ token.tag = base

\* arcade_solution reads the token, and nothing else: the seed solved, or a 404.
Solution(token) == IF token.key = key THEN {token.seed} ELSE {}

Answer(r, answer, gives) ==
  requests' = (requests \ {r}) \cup {[r EXCEPT !.answer = answer, !.gives = gives]}
Waiting(what)     == {r \in requests : r.what = what /\ r.answer = None}
Answered(what)    == {r \in requests : r.what = what /\ r.answer # None}

ServeNew ==
  /\ \E r \in Waiting("new") : Answer(r, "ok", {[token |-> Token, picture |-> Picture(Token)]})
  /\ made' = made + 1
  /\ UNCHANGED <<server, restarts, switches, arcade, busy, pane, preview, printed>>

\* arcade_print: refused, printed, or the printer fails (UsbPrinter's job).
ServePrint ==
  /\ \E r \in Waiting("print") :
       \/ Answer(r, "error", {}) /\ UNCHANGED printed
       \/ \E puzzle \in r.puzzle :
            /\ Printable(puzzle.token) /\ Answer(r, "ok", {})
            /\ printed' = printed \cup {[picture |-> Picture(puzzle.token), shown |-> puzzle.picture]}
  /\ UNCHANGED <<server, made, restarts, switches, arcade, busy, pane, preview>>

ServeCompose ==
  /\ \E r \in Waiting("compose") : Answer(r, "ok", {})
  /\ UNCHANGED <<server, made, restarts, switches, arcade, busy, pane, preview, printed>>

\* The settings are read at start; requests the old process has not answered fail.
Restart ==
  /\ restarts < MaxRestarts /\ restarts' = restarts + 1
  /\ width' \in Width /\ base' \in Base /\ key' \in Key
  /\ requests' = {IF r.answer = None THEN [r EXCEPT !.answer = "error"] ELSE r : r \in requests}
  /\ UNCHANGED <<made, switches, arcade, busy, pane, preview, printed>>

-----------------------------------------------------------------------------
(* The console                                                             *)

Send(r) == requests' = requests \cup {r}

\* showArcadePreview, with what state.arcade and arcadeBusy are about to be.
ShowArcade(value, action, at) ==
  IF at # "arcade" THEN UNCHANGED preview
  ELSE IF value = {}
  THEN frame' = Nothing /\ status' = (IF action = None THEN "waiting" ELSE "loading") /\ UNCHANGED <<seq, owner>>
  ELSE seq' = seq + 1 /\ owner' = "arcade" /\ frame' = [shows |-> "arcade", puzzle |-> value] /\ status' = "ready"

\* Another kind is chosen: the old puzzle is dropped.
ChooseKind ==
  /\ pane = "arcade" /\ busy = None /\ arcade # {} /\ arcade' = {} /\ ShowArcade({}, None, pane)
  /\ UNCHANGED <<server, made, restarts, switches, busy, pane, requests, printed>>

ClickNew ==
  /\ pane = "arcade" /\ busy = None /\ made < MaxPuzzles
  /\ arcade' = {} /\ busy' = "new" /\ ShowArcade({}, "new", pane)
  /\ Send([what |-> "new", puzzle |-> {}, seq |-> 0, answer |-> None, gives |-> {}])
  /\ UNCHANGED <<server, made, restarts, switches, pane, printed>>

AnswerNew ==
  \E r \in Answered("new") :
    /\ requests' = requests \ {r} /\ busy' = None
    /\ arcade' = r.gives
    /\ ShowArcade(arcade', None, pane)
    /\ UNCHANGED <<server, made, restarts, switches, pane, printed>>

ClickPrint ==
  /\ pane = "arcade" /\ busy = None /\ arcade # {} /\ busy' = "print"
  /\ Send([what |-> "print", puzzle |-> arcade, seq |-> 0, answer |-> None, gives |-> {}])
  /\ UNCHANGED <<server, made, restarts, switches, arcade, pane, preview, printed>>

Released(answer) == None

AnswerPrint ==
  \E r \in Answered("print") :
    /\ requests' = requests \ {r} /\ busy' = Released(r.answer)
    /\ UNCHANGED <<server, made, restarts, switches, arcade, pane, preview, printed>>

\* configurePreviewForPane: what is in flight is stale now.  The compose pane
\* asks for its preview over what the frame still shows.
Switch ==
  /\ switches < MaxSwitches /\ switches' = switches + 1
  /\ \/ /\ pane = "arcade" /\ pane' = "compose" /\ seq' = seq + 2 /\ owner' = "compose"
        /\ status' = "loading" /\ UNCHANGED frame
        /\ Send([what |-> "compose", puzzle |-> {}, seq |-> seq + 2, answer |-> None, gives |-> {}])
     \/ /\ pane = "compose" /\ pane' = "arcade" /\ UNCHANGED requests
        /\ IF arcade = {}
           THEN seq' = seq + 1 /\ owner' = None /\ frame' = Nothing
                /\ status' = IF busy = None THEN "waiting" ELSE "loading"
           ELSE seq' = seq + 2 /\ owner' = "arcade" /\ frame' = [shows |-> "arcade", puzzle |-> arcade]
                /\ status' = "ready"
  /\ UNCHANGED <<server, made, restarts, arcade, busy, printed>>

\* previewIsCurrent
IsCurrent(r) == pane = "compose" /\ owner = "compose" /\ seq = r.seq

AnswerCompose ==
  \E r \in Answered("compose") :
    /\ requests' = requests \ {r}
    /\ IF IsCurrent(r)
       THEN frame' = Text /\ status' = (IF r.answer = "error" THEN "failed" ELSE "ready") /\ UNCHANGED <<seq, owner>>
       ELSE UNCHANGED preview
    /\ UNCHANGED <<server, made, restarts, switches, arcade, busy, pane, printed>>

Serve   == ServeNew \/ ServePrint \/ ServeCompose
Deliver == AnswerNew \/ AnswerPrint \/ AnswerCompose

Idle == requests = {} /\ UNCHANGED vars

Next ==
  \/ ServeNew \/ ServePrint \/ ServeCompose \/ AnswerNew \/ AnswerPrint \/ AnswerCompose
  \/ Restart \/ ChooseKind \/ ClickNew \/ ClickPrint \/ Switch \/ Idle

Spec == Init /\ [][Next]_vars

\* The server answers what reaches it, and the browser takes what is answered.
FairSpec == Spec /\ WF_vars(Serve) /\ WF_vars(Deliver)

-----------------------------------------------------------------------------
(* Properties                                                              *)

\* "Printing and retrying never choose a different puzzle": the receipt is the
\* picture the console showed, whatever the server's settings became since.
PrintsWhatWasShown == \A p \in printed : p.picture = p.shown

\* "Solution links survive app restarts with the same key": a receipt's QR code
\* leads to its own puzzle, even after the width or the address has changed.
ReceiptsKeepSolutions ==
  \A p \in printed : p.picture.qr[2].key = key => Solution(p.picture.qr[2]) = {p.picture.seed}

\* A preview that says it is ready is its pane's, and in the arcade the puzzle
\* the print button prints.
ReadyIsCurrent ==
  status = "ready" =>
    IF pane = "arcade" THEN arcade # {} /\ frame = [shows |-> "arcade", puzzle |-> arcade] ELSE frame = Text

\* Whatever fails, the arcade's buttons come back.
ButtonsComeBack == busy # None ~> busy = None
=============================================================================
