--------------------------- MODULE ConsolePreview ---------------------------
(***************************************************************************)
(* The owner console's one preview panel, static/app.js, shared by its     *)
(* tabs: compose and image refresh by themselves, codes after typing, a    *)
(* widget or a lab once its preview button was pressed.  Timers outlive    *)
(* the tab that set them and answers overtake each other.  The arcade's    *)
(* use of the panel is PaperArcade's.                                      *)
(*                                                                         *)
(* A card is something with fields and a preview.  What it shows is its    *)
(* fields' version and, where the receipt carries the time, the minute it  *)
(* was rendered in; cards that carry the day are taken within one day.     *)
(***************************************************************************)
EXTENDS Integers, FiniteSets

CONSTANTS
  Card,        \* the cards of this instance
  MaxInputs,   \* bound: what the owner does
  MaxInFlight, \* bound: previews asked for at once, for the owner's own clicks
  MaxMinute    \* bound: minutes that pass

PaneOf == [body |-> "compose", file |-> "image", qr |-> "codes", barcode |-> "codes",
           calendar |-> "widgets", now |-> "widgets", weather |-> "widgets",
           label |-> "labs", receipt |-> "labs"]

\* What the constants may be.
PreviewAssumption ==
  "body" \in Card /\ Card \subseteq DOMAIN PaneOf /\ {MaxInputs, MaxInFlight, MaxMinute} \subseteq Nat

Previewed == {"compose", "image", "codes", "widgets", "labs"}   \* PREVIEW_TITLES
Pane      == {PaneOf[c] : c \in Card} \cup {"hardware"}
Tools     == {c \in Card : PaneOf[c] \in {"widgets", "labs"}}
Auto      == {"calendar"}            \* AUTO_PREVIEW_WIDGETS
Network   == {"weather"}
Stamped   == {"now", "receipt"}      \* the receipt says what time it is
None      == "none"

VARIABLES
  pane, seq, owner,    \* state.activePane, previewSeq, previewOwner
  trigger,             \* the card of state.previewTrigger, or None
  timers,              \* cards whose own timer runs: composeT, imgT, qrT, bcT
  toolTimer,           \* the pane toolPreviewT was set for, or None
  busy,                \* tools whose preview button is disabled
  version, empty,      \* of each card's fields; the codes without data
  frame, status,       \* the set of the one [card, version, minute] shown, or {}
  requests,            \* in flight: [card, seq, version, answer, minute]
  minute, inputs

asking == <<seq, owner, trigger, busy, requests>>
clock  == <<minute, inputs>>
vars   == <<pane, timers, toolTimer, version, empty, frame, status, asking, clock>>

\* The page asks for the compose preview as it loads.
Init ==
  /\ pane = "compose" /\ owner = "compose" /\ seq = 1 /\ trigger = None
  /\ timers = {} /\ toolTimer = None /\ busy = {} /\ empty = {}
  /\ version = [c \in Card |-> 0] /\ frame = {} /\ status = "loading" /\ minute = 0 /\ inputs = 0
  /\ requests = {[card |-> "body", seq |-> 1, version |-> 0, answer |-> None, minute |-> 0]}

-----------------------------------------------------------------------------
(* Asking for a preview                                                    *)

\* Without a file the image pane asks for nothing.
CanAsk(c, versions) == c = "file" => versions["file"] > 0

\* beginPreview and the request after it, for a card of the pane at hand: the
\* number n is taken, the fields are read.
Ask(c, n, versions) ==
  /\ seq' = n /\ owner' = PaneOf[c]
  /\ trigger' = (IF c \in Tools THEN c ELSE trigger)
  /\ busy' = busy \cup ({c} \cap Tools)
  /\ IF c \in empty'
     THEN frame' = {} /\ status' = "waiting" /\ UNCHANGED requests
     ELSE /\ status' = "loading" /\ UNCHANGED frame
          /\ requests' = requests \cup {[card |-> c, seq |-> n, version |-> versions[c],
                                         answer |-> None, minute |-> 0]}

AskNothing == UNCHANGED <<asking, frame, status>>

Input == /\ inputs < MaxInputs /\ Cardinality(requests) < MaxInFlight
         /\ inputs' = inputs + 1 /\ UNCHANGED minute

\* A preview button; a tool's is disabled while its request is out.
Click ==
  /\ Input
  /\ \E c \in Card \ busy :
       /\ PaneOf[c] = pane /\ UNCHANGED <<pane, timers, toolTimer, version, empty>>
       /\ IF CanAsk(c, version) THEN Ask(c, seq + 1, version) ELSE AskNothing

\* Mutant of KeepsInSync: the list of offline widgets is asked about labs, too.
KeepsInSyncListed(c) == owner = pane /\ trigger = c /\ c \in Auto

\* scheduleToolPreview: the previewed card was edited, and may be asked for again.
KeepsInSync(c) == owner = pane /\ trigger = c /\ (pane = "widgets" => c \in Auto)

Empties(c) == IF c \in {"qr", "barcode"} THEN {empty \cup {c}, empty \ {c}} ELSE {empty}

\* Fields are typed in: each pane has its way to wait a moment.
Type ==
  /\ Input
  /\ \E c \in Card :
       /\ PaneOf[c] = pane /\ (c = "file" => version["file"] > 0)
       /\ version' = [version EXCEPT ![c] = @ + 1] /\ empty' \in Empties(c)
       /\ IF c \in Tools
          THEN toolTimer' = (IF KeepsInSync(c) THEN pane ELSE toolTimer) /\ UNCHANGED timers
          ELSE timers' = timers \cup {c} /\ UNCHANGED toolTimer
  /\ UNCHANGED pane /\ AskNothing

\* The rich switch, a choice of the image's, or its file: asked for at once.
Change ==
  /\ Input
  /\ \E c \in Card \cap {"body", "file"} :
       /\ PaneOf[c] = pane /\ version' = [version EXCEPT ![c] = @ + 1] /\ UNCHANGED empty
       /\ Ask(c, seq + 1, version')
  /\ UNCHANGED <<pane, timers, toolTimer>>

\* composeT, imgT, qrT or bcT: beginPreview refuses a pane that was left.
TimerFires ==
  \E c \in timers :
    /\ timers' = timers \ {c}
    /\ UNCHANGED <<pane, toolTimer, version, empty, clock>>
    /\ IF PaneOf[c] = pane /\ CanAsk(c, version) THEN Ask(c, seq + 1, version) ELSE AskNothing

\* toolPreviewT renders whatever card is previewed by now; with none left it
\* fails on a null button, and with another pane's it is refused.
ToolTimerFires ==
  /\ toolTimer # None /\ toolTimer' = None
  /\ UNCHANGED <<pane, timers, version, empty, clock>>
  /\ IF pane = toolTimer /\ trigger # None THEN Ask(trigger, seq + 1, version) ELSE AskNothing

-----------------------------------------------------------------------------
(* Tabs and answers                                                        *)

Waits == "waiting"

\* configurePreviewForPane: answers under way are stale, and the new pane asks
\* for its preview, shows a placeholder, or hides the panel.
Switch ==
  /\ Input
  /\ \E to \in Pane \ {pane} :
       /\ pane' = to /\ UNCHANGED <<timers, toolTimer, version, empty, busy>> /\ trigger' = None
       /\ IF \E c \in Card \cap {"body", "file"} : PaneOf[c] = to /\ CanAsk(c, version)
          THEN \E c \in Card \cap {"body", "file"} :
                 /\ PaneOf[c] = to /\ seq' = seq + 2 /\ owner' = to /\ status' = "loading"
                 /\ requests' = requests \cup {[card |-> c, seq |-> seq + 2, version |-> version[c],
                                                answer |-> None, minute |-> 0]}
                 /\ UNCHANGED frame
          ELSE /\ seq' = seq + 1 /\ owner' = None /\ UNCHANGED requests
               /\ IF to \in Previewed THEN frame' = {} /\ status' = Waits
                  ELSE UNCHANGED <<frame, status>>

Serve ==
  \E r \in requests :
    /\ r.answer = None
    /\ \E answer \in {"ok", "error"} :
         requests' = (requests \ {r}) \cup {[r EXCEPT !.answer = answer, !.minute = minute]}
    /\ UNCHANGED <<pane, timers, toolTimer, version, empty, frame, status, seq, owner, trigger, busy, clock>>

\* What a card prints if its fields are at v and it is rendered at a minute.
Prints(c, v, at) == [card |-> c, version |-> v, minute |-> IF c \in Stamped THEN at ELSE 0]

\* PREVIEW_FRESHNESS, of widgets only.
Freshness(c) == CASE c \in Network -> "sample" [] c = "now" -> "snapshot" [] OTHER -> "ready"

\* previewIsCurrent
IsCurrent(r) == pane = PaneOf[r.card] /\ owner = pane /\ seq = r.seq

\* The finally clause.
Frees(r) == {r.card}

Deliver ==
  \E r \in requests :
    /\ r.answer # None /\ requests' = requests \ {r} /\ busy' = busy \ Frees(r)
    /\ IF ~IsCurrent(r) THEN UNCHANGED <<frame, status>>
       ELSE IF r.answer = "ok"
       THEN frame' = {Prints(r.card, r.version, r.minute)} /\ status' = Freshness(r.card)
       ELSE frame' = {} /\ status' = "failed"
    /\ UNCHANGED <<pane, timers, toolTimer, version, empty, seq, owner, trigger, clock>>

Tick == /\ minute < MaxMinute /\ minute' = minute + 1
        /\ UNCHANGED <<pane, timers, toolTimer, version, empty, frame, status, asking, inputs>>

Idle == requests = {} /\ timers = {} /\ toolTimer = None /\ UNCHANGED vars

Next ==
  \/ Click \/ Type \/ Change \/ Switch \/ TimerFires \/ ToolTimerFires
  \/ Serve \/ Deliver \/ Tick \/ Idle

Spec == Init /\ [][Next]_vars

FairSpec == Spec /\ WF_vars(TimerFires) /\ WF_vars(ToolTimerFires) /\ WF_vars(Serve) /\ WF_vars(Deliver)

-----------------------------------------------------------------------------
(* Properties                                                              *)

Finished == pane \in Previewed /\ status \in {"ready", "sample", "snapshot"}

\* A refresh of the card is on its way: its timer runs.
Due(c) == c \in timers \/ (toolTimer = pane /\ trigger = c)

\* A finished preview is of the pane the owner looks at and of its card's fields
\* as they are, unless a timer is about to ask again; only the widgets that
\* "stay manual" may lag behind.  Across tabs, timers and answers out of order
\* it is previewSeq, previewOwner and activePane together that keep this.
ReadyIsCurrent ==
  Finished =>
    \E f \in frame : /\ PaneOf[f.card] = pane
                     /\ f.version = version[f.card] \/ Due(f.card) \/ (pane = "widgets" /\ f.card \notin Auto)

\* "only the deterministic cards print exactly what the preview shows (ready)":
\* pressing print under a preview that says so prints what it shows.  The labs'
\* receipt is no such card: it says ready, too, and carries the minute.
ReadyPrintsIt ==
  Finished /\ status = "ready" =>
    \A f \in frame : f.card = "receipt" \/ Due(f.card) \/ f = Prints(f.card, version[f.card], minute)

\* The panel does not render for ever under the owner's eyes (a tab without
\* previews hides it as it is): an answer, a newer one or a tab ends it.
PreviewSettles ==
  (status = "loading" /\ pane \in Previewed) ~> ~(status = "loading" /\ pane \in Previewed)

\* A preview button that was disabled comes back, whatever became of its answer.
ButtonsComeBack == \A c \in Tools : c \in busy ~> c \notin busy
=============================================================================
