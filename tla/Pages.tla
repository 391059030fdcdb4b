------------------------------- MODULE Pages -------------------------------
(***************************************************************************)
(* What runs in a browser: the friends page with its composer, history,    *)
(* photo booth and drawing canvas, and the owner's console with its        *)
(* preview panel, print log and arcade tab.  They share no state but the   *)
(* server's, which each module has its own part of: a behaviour moves one  *)
(* of them, its part, and the others stay where they began.                *)
(***************************************************************************)
EXTENDS Integers

CONSTANTS
  PageClicks, PageChanges, PageFails,                              \* bounds of the page
  Writing, WritingEdits, WritingSends,                             \* composer
  Limit, Cap, MaySend, MayCapsule, MayFail, MaxRows, MaxLoads,     \* history
  SavedStrips, Look, MaxFrames, MaxFiles, PhotoEdits, MaxEncoding, \* photos
  SavedDrawings, MaxStrokes, MaxPoints, DrawingSends,              \* canvas
  AutoCard,      \* cards of the panes that preview by themselves, and the codes
  ToolCard,      \* cards of the panes that share one trigger and one timer
  PanelInputs, PanelInFlight, PanelMinutes,                        \* preview panel
  Message, Failing, LogClicks, LogInFlight,                        \* log
  Width, Base, Key, MaxPuzzles, MaxRestarts, MaxSwitches           \* arcade

VARIABLES
  part,
  account, token, cookie, page, me, polling, pageRequests, pageClicks, changes, fails,   \* page
  body, anon, typed, textSeq, previews, receipt, progress, mail, edits, mails,           \* composer
  rows, capsule, submitting, cancelling, rowList, loads, pollTimer, orphans, focus,      \* history
  frames, saved, look, boothBusy, openingFiles, photoRevision, photoReady, photoTimer,
  forms, strip, posting, sent, photoEdits,                                               \* photos
  actions, index, canvas, active, strokes, sends, drawing, openingImage,                 \* canvas
  pane, seq, owner, trigger, timers, toolTimer, buttons, version, empty, frame, shows,
  requests, minute, inputs,                                                              \* console
  status, logClicks, onAdmin, hidden, open, toggled, logRevision, include, confirm, logList,
  failedRev, retrying, banner, logRequests,                                              \* log
  width, base, key, made, restarts, switches, arcade, arcadeBusy, arcadePane, arcadeSeq,
  arcadeOwner, arcadeFrame, arcadeShows, arcadeRequests, printed                         \* arcade

Page == INSTANCE FriendsPage WITH
  requests <- pageRequests, clicks <- pageClicks,
  MaxClicks <- PageClicks, MaxChanges <- PageChanges, MaxFails <- PageFails

Composer == INSTANCE FriendsComposer WITH
  timer <- typed, seq <- textSeq, paper <- receipt, sending <- mail, sends <- mails,
  MaxEdits <- WritingEdits, MaxSends <- WritingSends

History == INSTANCE FriendsHistory WITH
  sending <- submitting, list <- rowList, timer <- pollTimer

Booth == INSTANCE PhotoBooth WITH
  busy <- boothBusy, opening <- openingFiles, revision <- photoRevision, ready <- photoReady,
  timer <- photoTimer, paper <- strip, sending <- posting, edits <- photoEdits,
  Saved <- SavedStrips, MaxEdits <- PhotoEdits

Canvas == INSTANCE Doodle WITH
  sending <- drawing, opening <- openingImage, Saved <- SavedDrawings, MaxSends <- DrawingSends

Panel(Cards) == INSTANCE ConsolePreview WITH
  busy <- buttons, status <- shows, Card <- Cards,
  MaxInputs <- PanelInputs, MaxInFlight <- PanelInFlight, MaxMinute <- PanelMinutes

Log == INSTANCE PrintLog WITH
  clicks <- logClicks, revision <- logRevision, list <- logList, requests <- logRequests,
  MaxClicks <- LogClicks, MaxInFlight <- LogInFlight

Arcade == INSTANCE PaperArcade WITH
  busy <- arcadeBusy, pane <- arcadePane, seq <- arcadeSeq, owner <- arcadeOwner,
  frame <- arcadeFrame, status <- arcadeShows, requests <- arcadeRequests

\* What the constants may be.
ASSUME PagesAssumption ==
  /\ Page!PageAssumption /\ Composer!ComposerAssumption /\ History!HistoryAssumption
  /\ Booth!BoothAssumption /\ Canvas!DoodleAssumption
  /\ Panel(AutoCard)!PreviewAssumption /\ Panel(ToolCard)!PreviewAssumption
  /\ Log!PrintLogAssumption /\ Arcade!ArcadeAssumption

pageVars    == <<account, token, cookie, page, me, polling, pageRequests, pageClicks, changes, fails>>
writingVars == <<body, anon, typed, textSeq, previews, receipt, progress, mail, edits, mails>>
historyVars == <<rows, capsule, submitting, cancelling, rowList, loads, pollTimer, orphans, focus>>
photoVars   == <<frames, saved, look, boothBusy, openingFiles, photoRevision, photoReady, photoTimer,
                 forms, strip, posting, sent, photoEdits>>
canvasVars  == <<actions, index, canvas, active, strokes, sends, drawing, openingImage>>
consoleVars == <<pane, seq, owner, trigger, timers, toolTimer, buttons, version, empty, frame, shows,
                 requests, minute, inputs>>
logVars     == <<status, logClicks, onAdmin, hidden, open, toggled, logRevision, include, confirm,
                 logList, failedRev, retrying, banner, logRequests>>
arcadeVars  == <<width, base, key, made, restarts, switches, arcade, arcadeBusy, arcadePane, arcadeSeq,
                 arcadeOwner, arcadeFrame, arcadeShows, arcadeRequests, printed>>

Parts == {"page", "composer", "history", "photos", "canvas", "auto", "tools", "log", "arcade"}

PagesInit ==
  /\ part \in Parts
  /\ Page!Init /\ Composer!Init /\ History!Init /\ Booth!Init /\ Canvas!Init
  /\ (IF part = "tools" THEN Panel(ToolCard)!Init ELSE Panel(AutoCard)!Init)
  /\ Log!Init /\ Arcade!Init

\* The parts that are not p stay.
OthersStay(p) ==
  /\ part = p /\ UNCHANGED part
  /\ IF p = "page" THEN TRUE ELSE UNCHANGED pageVars
  /\ IF p = "composer" THEN TRUE ELSE UNCHANGED writingVars
  /\ IF p = "history" THEN TRUE ELSE UNCHANGED historyVars
  /\ IF p = "photos" THEN TRUE ELSE UNCHANGED photoVars
  /\ IF p = "canvas" THEN TRUE ELSE UNCHANGED canvasVars
  /\ IF p \in {"auto", "tools"} THEN TRUE ELSE UNCHANGED consoleVars
  /\ IF p = "log" THEN TRUE ELSE UNCHANGED logVars
  /\ IF p = "arcade" THEN TRUE ELSE UNCHANGED arcadeVars

PagesNext ==
  \/ OthersStay("page") /\ Page!Next
  \/ OthersStay("composer") /\ Composer!Next
  \/ OthersStay("history") /\ History!Next
  \/ OthersStay("photos") /\ Booth!Next
  \/ OthersStay("canvas") /\ Canvas!Next
  \/ OthersStay("auto") /\ Panel(AutoCard)!Next
  \/ OthersStay("tools") /\ Panel(ToolCard)!Next
  \/ OthersStay("log") /\ Log!Next
  \/ OthersStay("arcade") /\ Arcade!Next

pagesVars ==
  <<part, pageVars, writingVars, historyVars, photoVars, canvasVars, consoleVars, logVars, arcadeVars>>

PagesSpec == PagesInit /\ [][PagesNext]_pagesVars

-----------------------------------------------------------------------------
(* The properties, each stated in its module                                *)

\* setPendingPolling: the poll runs under the pending card and no other.
PollsWhilePending == Page!PollsWhilePending

\* updatePreview of friends.js: a ready preview is of what is written, and at rest
\* the paper shows the text there is.
WritingIsCurrent == Composer!ReadyIsCurrent /\ Composer!SettledIsCurrent

\* list_messages_for_user: no number of prints hides a waiting capsule.
CapsulesListed == part = "history" => History!CapsulesListed

\* photo.js: what the server takes was on view when the button was pressed, pixels
\* on view are those of the editor as it is, and files that are counted before
\* they open do not overfill a strip.
StripWasShown == Booth!SentWasShown /\ Booth!PaperIsCurrent /\ Booth!FramesFit

\* commitDoodleAction and renderDoodleHistory: a mark is the history's or the
\* stroke's under the pointer, each step of undo and redo changes the picture,
\* and between strokes the canvas is its history replayed.
UndoSound ==
  part = "canvas" => Canvas!EveryMarkCanBeUndone /\ Canvas!UndoIsVisible /\ Canvas!CanvasIsHistory

\* previewIsCurrent and PREVIEW_FRESHNESS of app.js: a finished preview is of the
\* card as it is, and one that says ready is what print prints.
PanelIsCurrent ==
  /\ part = "auto" => Panel(AutoCard)!ReadyIsCurrent
  /\ part = "tools" => Panel(ToolCard)!ReadyIsCurrent /\ Panel(ToolCard)!ReadyPrintsIt

\* The print log of app.js: nothing revealed is left in a log out of view, and what
\* has not been delivered is on view only if opted in; one retry moves paper at a
\* time, and at rest the banner offers only failed prints.
LogHonest == Log!NothingBehind /\ Log!NoSurprise /\ Log!OneRetry /\ Log!BannerHonest

\* arcade_print, arcade_solution, showArcadePreview: the receipt is the puzzle the
\* console showed, its code leads to its own solution, and a ready panel in the
\* arcade shows the puzzle at hand.
PrintsWhatWasShown ==
  Arcade!PrintsWhatWasShown /\ Arcade!ReceiptsKeepSolutions /\ Arcade!ReadyIsCurrent
=============================================================================
