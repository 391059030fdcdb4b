----------------------------- MODULE MCSettles -----------------------------
(***************************************************************************)
(* Instances for TLC of what must happen at last: that a print is answered *)
(* (this module extends UsbPrinter), that there is a briefing every        *)
(* morning, that a maze is carved, and that the pages in a browser come to *)
(* rest.  The parts share no state: a behaviour moves one of them and the  *)
(* others stay where they began, so the run checks each of them by itself. *)
(* A part is given the fairness of its own module.                         *)
(***************************************************************************)
EXTENDS UsbPrinter, TLC

VARIABLES
  part,
  config, briefingPc, left, then, wall, sections, paper, cause, slow, starts, due, missed, steady,
  early, back, forward,                                                                  \* briefing
  walls, seen, stack, parent, path, mazePc,                                              \* maze
  account, token, cookie, page, me, polling, pageRequests, pageClicks, changes, fails,   \* page
  body, anon, typed, textSeq, previews, receipt, progress, mail, edits, mails,           \* composer
  rows, capsule, submitting, cancelling, rowList, loads, pollTimer, orphans, focus,      \* history
  frames, saved, look, boothBusy, openingFiles, photoRevision, photoReady, photoTimer,
  forms, strip, posting, taken, photoEdits,                                              \* photos
  pane, seq, owner, trigger, timers, toolTimer, buttons, version, empty, frame, shows,
  requests, minute, inputs,                                                              \* console
  width, base, key, made, restarts, switches, arcade, arcadeBusy, arcadePane, arcadeSeq,
  arcadeOwner, arcadeFrame, arcadeShows, arcadeRequests, printed                         \* arcade

\* Every target of a short day, a steady clock, a day that may be slow.
Briefing == INSTANCE Briefing WITH
  pc <- briefingPc, Hours <- 3, Minutes <- 3, Poll <- 2, MaxBack <- 0, MaxForward <- 0, MaxSlow <- 2,
  Configs <- (0..2) \X (0..2)

Maze == INSTANCE Maze WITH pc <- mazePc, Size <- 3

Page == INSTANCE FriendsPage WITH
  requests <- pageRequests, clicks <- pageClicks, MaxClicks <- 1, MaxChanges <- 1, MaxFails <- 1

\* Edits around a message that is sent.
Composer == INSTANCE FriendsComposer WITH
  timer <- typed, seq <- textSeq, paper <- receipt, sending <- mail, sends <- mails,
  Writing <- {"text1", "text2"}, MaxEdits <- 3, MaxSends <- 1

\* One message, and two loads that may fail or overtake each other.
History == INSTANCE FriendsHistory WITH
  sending <- submitting, list <- rowList, timer <- pollTimer,
  Limit <- 2, Cap <- 1, MaySend <- TRUE, MayCapsule <- FALSE, MayFail <- TRUE, MaxRows <- 1, MaxLoads <- 2

Booth == INSTANCE PhotoBooth WITH
  busy <- boothBusy, opening <- openingFiles, revision <- photoRevision, ready <- photoReady,
  timer <- photoTimer, paper <- strip, sending <- posting, sent <- taken, edits <- photoEdits,
  Saved <- {"s1"}, Look <- {"soft", "ink"}, MaxFrames <- 2, MaxFiles <- 2, MaxEdits <- 3, MaxEncoding <- 2

Console == INSTANCE ConsolePreview WITH
  busy <- buttons, status <- shows,
  Card <- {"body", "qr", "calendar"}, MaxInputs <- 3, MaxInFlight <- 2, MaxMinute <- 0

Arcade == INSTANCE PaperArcade WITH
  busy <- arcadeBusy, pane <- arcadePane, seq <- arcadeSeq, owner <- arcadeOwner,
  frame <- arcadeFrame, status <- arcadeShows, requests <- arcadeRequests,
  Width <- {384, 576}, Base <- {"b1"}, Key <- {"k1"}, MaxPuzzles <- 2, MaxRestarts <- 1, MaxSwitches <- 1

ASSUME Briefing!ClockAssumption /\ Maze!MazeAssumption /\ Page!PageAssumption
ASSUME Composer!ComposerAssumption /\ History!HistoryAssumption /\ Booth!BoothAssumption
ASSUME Console!PreviewAssumption /\ Arcade!ArcadeAssumption

printerVars  == <<lock, pc, job, handle, dev, epoch, ok, kind, sect, sent, answer, log, roll, lamp,
                  struck, begun, faults, resets>>
briefingVars == <<config, briefingPc, left, then, wall, sections, paper, cause, slow, starts, due,
                  missed, steady, early, back, forward>>
mazeVars     == <<walls, seen, stack, parent, path, mazePc>>
pageVars     == <<account, token, cookie, page, me, polling, pageRequests, pageClicks, changes, fails>>
writingVars  == <<body, anon, typed, textSeq, previews, receipt, progress, mail, edits, mails>>
historyVars  == <<rows, capsule, submitting, cancelling, rowList, loads, pollTimer, orphans, focus>>
photoVars    == <<frames, saved, look, boothBusy, openingFiles, photoRevision, photoReady, photoTimer,
                  forms, strip, posting, taken, photoEdits>>
consoleVars  == <<pane, seq, owner, trigger, timers, toolTimer, buttons, version, empty, frame, shows,
                  requests, minute, inputs>>
arcadeVars   == <<width, base, key, made, restarts, switches, arcade, arcadeBusy, arcadePane, arcadeSeq,
                  arcadeOwner, arcadeFrame, arcadeShows, arcadeRequests, printed>>
allVars      == <<part, printerVars, briefingVars, mazeVars, pageVars, writingVars, historyVars, photoVars,
                  consoleVars, arcadeVars>>

Parts == {"printer", "briefing", "maze", "page", "composer", "history", "photos", "console", "arcade"}

SettlesInit ==
  /\ part \in Parts
  /\ Init /\ Maze!Init /\ Composer!Init /\ History!Init /\ Booth!Init /\ Console!Init
  /\ Briefing!Init /\ (part = "briefing" \/ (config = <<0, 0>> /\ wall = 0))
  /\ Page!Init /\ (part = "page" \/ (account = "none" /\ page = "loading"))
  /\ Arcade!Init /\ (part = "arcade" \/ width = 384)

\* The parts that are not p stay.
OthersStay(p) ==
  /\ part = p /\ UNCHANGED part
  /\ IF p = "printer" THEN TRUE ELSE UNCHANGED printerVars
  /\ IF p = "briefing" THEN TRUE ELSE UNCHANGED briefingVars
  /\ IF p = "maze" THEN TRUE ELSE UNCHANGED mazeVars
  /\ IF p = "page" THEN TRUE ELSE UNCHANGED pageVars
  /\ IF p = "composer" THEN TRUE ELSE UNCHANGED writingVars
  /\ IF p = "history" THEN TRUE ELSE UNCHANGED historyVars
  /\ IF p = "photos" THEN TRUE ELSE UNCHANGED photoVars
  /\ IF p = "console" THEN TRUE ELSE UNCHANGED consoleVars
  /\ IF p = "arcade" THEN TRUE ELSE UNCHANGED arcadeVars

SettlesNext ==
  \/ OthersStay("printer") /\ Next
  \/ OthersStay("briefing") /\ Briefing!Next
  \/ OthersStay("maze") /\ Maze!Next
  \/ OthersStay("page") /\ Page!Next
  \/ OthersStay("composer") /\ Composer!Next
  \/ OthersStay("history") /\ History!Next
  \/ OthersStay("photos") /\ Booth!Next
  \/ OthersStay("console") /\ Console!Next
  \/ OthersStay("arcade") /\ Arcade!Next

\* The fairness of each module's FairSpec (LiveSpec of UsbPrinter).  A part does
\* not change, so it is weak fairness of each part's actions to ask it of the
\* disjunction of one action from every part; TLC has fewer formulas to check.
Fair1 ==
  \/ OthersStay("printer") /\ Step("t1")
  \/ OthersStay("briefing") /\ Briefing!Loop
  \/ OthersStay("maze") /\ Maze!Next
  \/ OthersStay("page") /\ Page!PollFires
  \/ OthersStay("composer") /\ Composer!TimerFires
  \/ OthersStay("history") /\ History!Dispatch
  \/ OthersStay("photos") /\ Booth!FilesOpened
  \/ OthersStay("console") /\ Console!TimerFires
  \/ OthersStay("arcade") /\ Arcade!Serve
Fair2 ==
  \/ OthersStay("printer") /\ Step("t2")
  \/ OthersStay("briefing") /\ Briefing!Tick
  \/ OthersStay("page") /\ Page!Serve("me")
  \/ OthersStay("composer") /\ Composer!ServePreview
  \/ OthersStay("history") /\ History!Work
  \/ OthersStay("photos") /\ Booth!TimerFires
  \/ OthersStay("console") /\ Console!ToolTimerFires
  \/ OthersStay("arcade") /\ Arcade!Deliver
Fair3 ==
  \/ OthersStay("page") /\ Page!Deliver("me")
  \/ OthersStay("composer") /\ Composer!AnswerPreview
  \/ OthersStay("history") /\ History!ServeSend
  \/ OthersStay("photos") /\ Booth!Encoded
  \/ OthersStay("console") /\ Console!Serve
Fair4 ==
  \/ OthersStay("page") /\ Page!ServeClick
  \/ OthersStay("history") /\ History!AnswerSend
  \/ OthersStay("photos") /\ Booth!Previewed
  \/ OthersStay("console") /\ Console!Deliver
Fair5 ==
  \/ OthersStay("page") /\ Page!DeliverClick
  \/ OthersStay("history") /\ History!ServeLoad
  \/ OthersStay("photos") /\ Booth!ServeSend
Fair6 ==
  \/ OthersStay("history") /\ History!AnswerLoad
  \/ OthersStay("photos") /\ Booth!AnswerSend
Fair7 == OthersStay("history") /\ History!Blur

Fairness ==
  /\ WF_allVars(Fair1) /\ WF_allVars(Fair2) /\ WF_allVars(Fair3) /\ WF_allVars(Fair4)
  /\ WF_allVars(Fair5) /\ WF_allVars(Fair6) /\ WF_allVars(Fair7)
  /\ SF_allVars(OthersStay("history") /\ History!TimerFires /\ ~focus)
  /\ SF_allVars(OthersStay("history") /\ History!OrphanFires /\ ~focus)

SettlesSpec == SettlesInit /\ [][SettlesNext]_allVars /\ Fairness

-----------------------------------------------------------------------------
(* The properties, each stated in its module (EveryJobAnswered and          *)
(* ServiceSpec in UsbPrinter)                                               *)

\* open_printer, _briefing_loop, arcade._maze: every job is answered; no date on
\* which the thread was up in time has no briefing, and whatever fails there is
\* another morning; carving a maze ends.
ServerSettles ==
  /\ part = "printer" => EveryJobAnswered
  /\ part = "briefing" => []Briefing!NoneMissed /\ Briefing!AnotherMorning
  /\ part = "maze" => Maze!CarvingEnds
\* friends.js and photo.js: a first card is reached with or without the server, the
\* pending card is left after the owner's decision, a preview comes to an end, a
\* message shown as queued is shown otherwise at last, and the booth comes to rest
\* and its controls come back.  app.js: the preview panel does not render for ever,
\* and disabled buttons come back, whatever fails.
PagesSettle ==
  /\ part = "page" => Page!LoadingEnds /\ Page!PendingEnds
  /\ part = "composer" => Composer!PreviewSettles
  /\ part = "history" => History!OutcomeShown
  /\ part = "photos" => Booth!BoothSettles
  /\ part = "console" => Console!PreviewSettles /\ Console!ButtonsComeBack
  /\ part = "arcade" => Arcade!ButtonsComeBack
=============================================================================
