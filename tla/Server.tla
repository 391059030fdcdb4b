------------------------------- MODULE Server -------------------------------
(***************************************************************************)
(* The server's parts beside the queue: quiet hours (this module extends   *)
(* QuietHours), the USB printer, accounts, the owner's login, the briefing,*)
(* hardware commands and the font caches.  They share no state: a behaviour*)
(* moves one of them, its part, and the others stay where they began.      *)
(*                                                                         *)
(* Accounts and the owner's login are here several times, for other        *)
(* browsers, threads and limits: Users and Logins hold the constants of    *)
(* each.  Where a module has proofs, it is their module that is            *)
(* instantiated: its theorems are then about the definitions used here.    *)
(***************************************************************************)
EXTENDS QuietHours, FiniteSets

CONSTANTS
  UsbThread, UsbNobody, JobKinds, MaxJobs, MaxFaults, MaxResets,          \* USB printer
  Users,                \* constants of Accounts, for each part that is about it
  NoName, NoPw,
  Logins, Wrong,        \* constants of AdminLogin, likewise
  Hours, Minutes, Poll, Configs, MaxBack, MaxForward, MaxSlow,            \* briefing
  Number, Line, Late, MaxOps,                                             \* hardware
  FontThread, Script, Candidates, Base, Installed, Usable, MaxRuns        \* fonts

VARIABLES
  part,
  lock, usbPc, job, handle, dev, epoch, ok, kind, sect, sent, answer, log, roll, lamp, struck,
  begun, faults, resets,                                                           \* USB printer
  row, nextId, nextToken, userFails, ipFails, regs, cookie, accountReq, accountNow,
  accountServed, tokenOf, redeemed, born, mine, codeAt, out, adminOut, guesses,    \* accounts
  bucket, lastUsed, adminReq, adminNow, adminServed, failures, steps, refused,     \* owner's login
  config, briefingPc, left, then, wall, sections, paper, cause, slow, starts, due,
  missed, steady, early, back, forward,                                            \* briefing
  interp, stream, sender, clean, spoiled, wide, console, asking, waiting, inbox,
  results, ops,                                                                    \* hardware
  cache, loaded, functions, fontPc, run, try, shaped, drawn, count                 \* fonts

Usb == INSTANCE UsbPrinterProofs WITH
  pc <- usbPc, Thread <- UsbThread, NoThread <- UsbNobody, Kinds <- JobKinds

Races == INSTANCE AccountsProofs WITH
  req <- accountReq, now <- accountNow, served <- accountServed,
  Client <- Users.races.Client, Thread <- Users.races.Thread, Name <- Users.races.Name, Pw <- Users.races.Pw,
  Style <- Users.races.Style, Ops <- Users.races.Ops, Overlap <- Users.races.Overlap,
  MaxId <- Users.races.MaxId, MaxToken <- Users.races.MaxToken, MaxTime <- Users.races.MaxTime,
  MaxReq <- Users.races.MaxReq, MaxFails <- Users.races.MaxFails, MaxIpFails <- Users.races.MaxIpFails,
  MaxRegs <- Users.races.MaxRegs, AdminLife <- Users.races.AdminLife

Guesses == INSTANCE AccountsProofs WITH
  req <- accountReq, now <- accountNow, served <- accountServed,
  Client <- Users.guesses.Client, Thread <- Users.guesses.Thread, Name <- Users.guesses.Name, Pw <- Users.guesses.Pw,
  Style <- Users.guesses.Style, Ops <- Users.guesses.Ops, Overlap <- Users.guesses.Overlap,
  MaxId <- Users.guesses.MaxId, MaxToken <- Users.guesses.MaxToken, MaxTime <- Users.guesses.MaxTime,
  MaxReq <- Users.guesses.MaxReq, MaxFails <- Users.guesses.MaxFails, MaxIpFails <- Users.guesses.MaxIpFails,
  MaxRegs <- Users.guesses.MaxRegs, AdminLife <- Users.guesses.AdminLife

Owners == INSTANCE AccountsProofs WITH
  req <- accountReq, now <- accountNow, served <- accountServed,
  Client <- Users.owner.Client, Thread <- Users.owner.Thread, Name <- Users.owner.Name, Pw <- Users.owner.Pw,
  Style <- Users.owner.Style, Ops <- Users.owner.Ops, Overlap <- Users.owner.Overlap,
  MaxId <- Users.owner.MaxId, MaxToken <- Users.owner.MaxToken, MaxTime <- Users.owner.MaxTime,
  MaxReq <- Users.owner.MaxReq, MaxFails <- Users.owner.MaxFails, MaxIpFails <- Users.owner.MaxIpFails,
  MaxRegs <- Users.owner.MaxRegs, AdminLife <- Users.owner.AdminLife

Serial == INSTANCE AccountsProofs WITH
  req <- accountReq, now <- accountNow, served <- accountServed,
  Client <- Users.serial.Client, Thread <- Users.serial.Thread, Name <- Users.serial.Name, Pw <- Users.serial.Pw,
  Style <- Users.serial.Style, Ops <- Users.serial.Ops, Overlap <- Users.serial.Overlap,
  MaxId <- Users.serial.MaxId, MaxToken <- Users.serial.MaxToken, MaxTime <- Users.serial.MaxTime,
  MaxReq <- Users.serial.MaxReq, MaxFails <- Users.serial.MaxFails, MaxIpFails <- Users.serial.MaxIpFails,
  MaxRegs <- Users.serial.MaxRegs, AdminLife <- Users.serial.AdminLife

OneLogin == INSTANCE AdminLoginProofs WITH
  req <- adminReq, now <- adminNow, served <- adminServed, redeemed <- steps,
  Thread <- Logins.one.Thread, Address <- Logins.one.Address, CodeOf <- Logins.one.CodeOf,
  MaxTime <- Logins.one.MaxTime, MaxReq <- Logins.one.MaxReq, Window <- Logins.one.Window,
  MaxIp <- Logins.one.MaxIp, MaxGlobal <- Logins.one.MaxGlobal

TwoLogins == INSTANCE AdminLoginProofs WITH
  req <- adminReq, now <- adminNow, served <- adminServed, redeemed <- steps,
  Thread <- Logins.two.Thread, Address <- Logins.two.Address, CodeOf <- Logins.two.CodeOf,
  MaxTime <- Logins.two.MaxTime, MaxReq <- Logins.two.MaxReq, Window <- Logins.two.Window,
  MaxIp <- Logins.two.MaxIp, MaxGlobal <- Logins.two.MaxGlobal

Briefing == INSTANCE BriefingProofs WITH pc <- briefingPc
Hardware == INSTANCE Hardware
Fonts    == INSTANCE ScriptFonts WITH pc <- fontPc, Thread <- FontThread

\* What the constants may be.  One friend at a time is served in the part "serial",
\* and one owner's login in the part "one login".
ASSUME ServerAssumption ==
  /\ Usb!ThreadAssumption /\ Usb!BoundAssumption /\ Usb!KindAssumption
  /\ Races!BoundAssumption /\ IsFiniteSet(Users.races.Thread)
  /\ Guesses!BoundAssumption /\ IsFiniteSet(Users.guesses.Thread)
  /\ Owners!BoundAssumption
  /\ Serial!BoundAssumption /\ Users.serial.Overlap = FALSE
  /\ OneLogin!BoundAssumption /\ \A t, u \in Logins.one.Thread : t = u
  /\ TwoLogins!BoundAssumption
  /\ Briefing!ClockAssumption /\ Hardware!HardwareAssumption /\ Fonts!FontAssumption

quietVars    == <<first, last, zone, pc, now, asked, from, candidate, tries, effective>>
usbVars      == <<lock, usbPc, job, handle, dev, epoch, ok, kind, sect, sent, answer, log, roll, lamp,
                  struck, begun, faults, resets>>
accountVars  == <<row, nextId, nextToken, userFails, ipFails, regs, cookie, accountReq, accountNow,
                  accountServed, tokenOf, redeemed, born, mine, codeAt, out, adminOut, guesses>>
loginVars    == <<bucket, lastUsed, adminReq, adminNow, adminServed, failures, steps, refused>>
briefingVars == <<config, briefingPc, left, then, wall, sections, paper, cause, slow, starts, due,
                  missed, steady, early, back, forward>>
hardwareVars == <<interp, stream, sender, clean, spoiled, wide, console, asking, waiting, inbox, results, ops>>
fontVars     == <<cache, loaded, functions, fontPc, run, try, shaped, drawn, count>>

AccountParts == {"races", "guesses", "owner", "serial"}
LoginParts   == {"one login", "two logins"}
Parts == {"quiet hours", "usb", "briefing", "hardware", "fonts"} \cup AccountParts \cup LoginParts

ServerInit ==
  /\ part \in Parts
  /\ Init /\ Usb!Init /\ Briefing!Init /\ Hardware!Init /\ Fonts!Init
  /\ IF part = "races" THEN Races!Init
     ELSE IF part = "guesses" THEN Guesses!Init
     ELSE IF part = "owner" THEN Owners!Init
     ELSE Serial!Init
  /\ IF part = "two logins" THEN TwoLogins!Init ELSE OneLogin!Init

\* The parts that are not p stay.
OthersStay(p) ==
  /\ part = p /\ UNCHANGED part
  /\ IF p = "quiet hours" THEN TRUE ELSE UNCHANGED quietVars
  /\ IF p = "usb" THEN TRUE ELSE UNCHANGED usbVars
  /\ IF p \in AccountParts THEN TRUE ELSE UNCHANGED accountVars
  /\ IF p \in LoginParts THEN TRUE ELSE UNCHANGED loginVars
  /\ IF p = "briefing" THEN TRUE ELSE UNCHANGED briefingVars
  /\ IF p = "hardware" THEN TRUE ELSE UNCHANGED hardwareVars
  /\ IF p = "fonts" THEN TRUE ELSE UNCHANGED fontVars

ServerNext ==
  \/ OthersStay("quiet hours") /\ Next
  \/ OthersStay("usb") /\ Usb!Next
  \/ OthersStay("races") /\ Races!Next
  \/ OthersStay("guesses") /\ Guesses!Next
  \/ OthersStay("owner") /\ Owners!Next
  \/ OthersStay("serial") /\ Serial!Next
  \/ OthersStay("one login") /\ OneLogin!Next
  \/ OthersStay("two logins") /\ TwoLogins!Next
  \/ OthersStay("briefing") /\ Briefing!Next
  \/ OthersStay("hardware") /\ Hardware!Next
  \/ OthersStay("fonts") /\ Fonts!Next

serverVars ==
  <<part, quietVars, usbVars, accountVars, loginVars, briefingVars, hardwareVars, fontVars>>

ServerSpec == ServerInit /\ [][ServerNext]_serverVars

-----------------------------------------------------------------------------
(* The properties, each stated in its module (those of quiet hours in       *)
(* QuietHours)                                                              *)

\* release and parse_requested: 48 hours are enough to find an opening, which is
\* not before the request, nor much more than a year on.
OpensInTime == AlwaysOpens /\ WithinAYear

\* open_printer and _safe: a job's output is in one piece on the roll; a caller
\* told "ok" has its whole print; two jobs share a tear-off only for a reason;
\* a wedge from before a job costs that job nothing; a blink that ends dark was
\* reported as failed.
\* printer_ok: the banner is what the last print to decide it showed.
AnswersJustified ==
  part = "usb" =>
    /\ Usb!OnePrintAtATime /\ Usb!OkMeansWhole /\ Usb!MixedReceiptExplained
    /\ Usb!WedgeIsHealed /\ Usb!LedNotLeftDark /\ Usb!BannerIsCurrent

\* current_user, create_pending_user, consume_reset_token: a session resolves
\* only to an account its browser has proven, signups of one name at once leave
\* one account, and a link is redeemed once for each request that found it.
\* session.py: an owner session needs a code typed within its lifetime; without
\* overlapping requests a browser is signed out until the next sign-in, and what
\* friends' sessions do leaves the owner's stamp alone.
AccessEarned ==
  /\ part = "races" => Races!SessionProven /\ Races!NameUnique /\ Races!LinkBurns
  /\ part = "owner" => Owners!AdminNeedsCode
  /\ part = "serial" => Serial!LogoutHolds /\ Serial!StampKept

\* _login_locked: an address's judged guesses are bounded in each window.
\* admin.login with one thread: no TOTP step opens two sessions, the guard is the
\* highest step redeemed, and the limit holds as failures age.  With any number
\* of threads nobody is refused for failures that did not happen.
GuessesBounded ==
  /\ part = "guesses" => Guesses!GuessesBounded
  /\ part = "one login" =>
       OneLogin!StepOnce /\ OneLogin!LastUsedIsHighest /\ OneLogin!LimitHolds /\ OneLogin!NoPhantomLock
  /\ part = "two logins" => TwoLogins!NoPhantomLock

\* _briefing_loop and morning_briefing_sections: no date sees two briefings for a
\* clock set back by a minute, with a steady clock a briefing starts at its
\* target, and a service that is down does not cost the briefing.
BriefingKept == Briefing!OncePerDay /\ Briefing!Punctual /\ Briefing!OfflineStillPrints

\* hardware.py and led.py: whatever a form or a line holds, what is sent is bytes,
\* they leave the printer outside a command, lines of one style are sent as what
\* they stand for, and an answer's flags are what the printer reported.
PrinterInStep ==
  Hardware!WholeCommands /\ Hardware!BytesFit /\ Hardware!LinesPickStyle /\ Hardware!FlagsTrue

\* _font_try and _load_bidi: every run is drawn in the first font this machine has
\* for it, and when no thread is loading, the functions are those installed.
FontsAgree == Fonts!FontsAgree /\ Fonts!LoadingSettles
=============================================================================
