---------------------------- MODULE ServerProofs ----------------------------
(***************************************************************************)
(* Theorems about the server's parts beside the queue.  What is proved of  *)
(* the USB printer, accounts, the owner's login and the briefing in their  *)
(* modules holds of the server, since a behaviour of the server is one of  *)
(* each of them; quiet hours, font caches and the commands of hardware.py  *)
(* are proved here.                                                        *)
(***************************************************************************)
EXTENDS Server, FiniteSetTheorems, SequenceTheorems, TLAPS

-----------------------------------------------------------------------------
(* A behaviour of the server is a behaviour of each part                   *)

\* A part moves by its own steps; the others' steps leave it.
LEMMA PartsStep ==
  ASSUME [ServerNext]_serverVars
  PROVE  /\ UNCHANGED part
         /\ [Next]_vars /\ [Usb!Next]_(Usb!vars) /\ [Briefing!Next]_(Briefing!vars)
         /\ [Hardware!Next]_(Hardware!vars) /\ [Fonts!Next]_(Fonts!vars)
<1> USE DEF quietVars, usbVars, briefingVars, hardwareVars, fontVars
<1>1. CASE UNCHANGED serverVars
  BY <1>1 DEF serverVars, vars, Usb!vars, Briefing!vars, Hardware!vars, Fonts!vars
<1>2. CASE ServerNext
  <2>1. UNCHANGED part BY <1>2 DEF ServerNext, OthersStay
  <2>2. Next \/ UNCHANGED quietVars BY <1>2 DEF ServerNext, OthersStay
  <2>3. Usb!Next \/ UNCHANGED usbVars BY <1>2 DEF ServerNext, OthersStay
  <2>4. Briefing!Next \/ UNCHANGED briefingVars BY <1>2 DEF ServerNext, OthersStay
  <2>5. Hardware!Next \/ UNCHANGED hardwareVars BY <1>2 DEF ServerNext, OthersStay
  <2>6. Fonts!Next \/ UNCHANGED fontVars BY <1>2 DEF ServerNext, OthersStay
  <2> QED BY <2>1, <2>2, <2>3, <2>4, <2>5, <2>6 DEF vars, Usb!vars, Briefing!vars, Hardware!vars, Fonts!vars
<1> QED BY <1>1, <1>2

LEMMA PartsRun ==
  ServerSpec => /\ Spec /\ Usb!Spec /\ Briefing!Spec /\ Hardware!Spec /\ Fonts!Spec
<1>1. ServerInit => /\ Init /\ Usb!Init /\ Briefing!Init /\ Hardware!Init /\ Fonts!Init
  BY DEF ServerInit
<1>2. [ServerNext]_serverVars =>
        /\ [Next]_vars /\ [Usb!Next]_(Usb!vars) /\ [Briefing!Next]_(Briefing!vars)
        /\ [Hardware!Next]_(Hardware!vars) /\ [Fonts!Next]_(Fonts!vars)
  BY PartsStep
<1> QED BY <1>1, <1>2, PTL DEF ServerSpec, Spec, Usb!Spec, Briefing!Spec, Hardware!Spec, Fonts!Spec

\* In the parts about friends and about the owner's login, the instance of that
\* part runs, and in all others it has no part.
LEMMA RacesRun == ServerSpec => ([](part = "races") /\ Races!Spec) \/ []~(part = "races")
<1>1. ServerInit /\ part = "races" => Races!Init BY DEF ServerInit
<1>2. part = "races" /\ [ServerNext]_serverVars => [Races!Next]_(Races!vars)
  BY DEF ServerNext, OthersStay, serverVars, accountVars, Races!vars, Races!tables, Races!buckets, Races!history
<1>3. [ServerNext]_serverVars => ((part = "races")' <=> (part = "races")) BY PartsStep
<1> QED BY <1>1, <1>2, <1>3, PTL DEF ServerSpec, Races!Spec

LEMMA GuessesRun == ServerSpec => ([](part = "guesses") /\ Guesses!Spec) \/ []~(part = "guesses")
<1>1. ServerInit /\ part = "guesses" => Guesses!Init BY DEF ServerInit
<1>2. part = "guesses" /\ [ServerNext]_serverVars => [Guesses!Next]_(Guesses!vars)
  BY DEF ServerNext, OthersStay, serverVars, accountVars, Guesses!vars, Guesses!tables, Guesses!buckets, Guesses!history
<1>3. [ServerNext]_serverVars => ((part = "guesses")' <=> (part = "guesses")) BY PartsStep
<1> QED BY <1>1, <1>2, <1>3, PTL DEF ServerSpec, Guesses!Spec

LEMMA OwnersRun == ServerSpec => ([](part = "owner") /\ Owners!Spec) \/ []~(part = "owner")
<1>1. ServerInit /\ part = "owner" => Owners!Init BY DEF ServerInit
<1>2. part = "owner" /\ [ServerNext]_serverVars => [Owners!Next]_(Owners!vars)
  BY DEF ServerNext, OthersStay, serverVars, accountVars, Owners!vars, Owners!tables, Owners!buckets, Owners!history
<1>3. [ServerNext]_serverVars => ((part = "owner")' <=> (part = "owner")) BY PartsStep
<1> QED BY <1>1, <1>2, <1>3, PTL DEF ServerSpec, Owners!Spec

LEMMA SerialRun == ServerSpec => ([](part = "serial") /\ Serial!Spec) \/ []~(part = "serial")
<1>1. ServerInit /\ part = "serial" => Serial!Init BY DEF ServerInit
<1>2. part = "serial" /\ [ServerNext]_serverVars => [Serial!Next]_(Serial!vars)
  BY DEF ServerNext, OthersStay, serverVars, accountVars, Serial!vars, Serial!tables, Serial!buckets, Serial!history
<1>3. [ServerNext]_serverVars => ((part = "serial")' <=> (part = "serial")) BY PartsStep
<1> QED BY <1>1, <1>2, <1>3, PTL DEF ServerSpec, Serial!Spec

LEMMA OneLoginRun == ServerSpec => ([](part = "one login") /\ OneLogin!Spec) \/ []~(part = "one login")
<1>1. ServerInit /\ part = "one login" => OneLogin!Init BY DEF ServerInit
<1>2. part = "one login" /\ [ServerNext]_serverVars => [OneLogin!Next]_(OneLogin!vars)
  BY DEF ServerNext, OthersStay, serverVars, loginVars, OneLogin!vars
<1>3. [ServerNext]_serverVars => ((part = "one login")' <=> (part = "one login")) BY PartsStep
<1> QED BY <1>1, <1>2, <1>3, PTL DEF ServerSpec, OneLogin!Spec

LEMMA TwoLoginsRun == ServerSpec => ([](part = "two logins") /\ TwoLogins!Spec) \/ []~(part = "two logins")
<1>1. ServerInit /\ part = "two logins" => TwoLogins!Init BY DEF ServerInit
<1>2. part = "two logins" /\ [ServerNext]_serverVars => [TwoLogins!Next]_(TwoLogins!vars)
  BY DEF ServerNext, OthersStay, serverVars, loginVars, TwoLogins!vars
<1>3. [ServerNext]_serverVars => ((part = "two logins")' <=> (part = "two logins")) BY PartsStep
<1> QED BY <1>1, <1>2, <1>3, PTL DEF ServerSpec, TwoLogins!Spec

-----------------------------------------------------------------------------
(* What is proved of the parts                                             *)

\* An instance's finite sets are finite.
LEMMA FiniteThreads ==
  /\ \A S : Races!IsFiniteSet(S) = IsFiniteSet(S)
  /\ \A S : Guesses!IsFiniteSet(S) = IsFiniteSet(S)
BY DEF Races!IsFiniteSet, Guesses!IsFiniteSet, IsFiniteSet

\* open_printer, _safe, write_led_bytes: with any number of threads, jobs, faults and
\* resets, no other job prints into a print, a caller told "ok" has its whole print,
\* and every mixed receipt, wedge and dark lamp has the excuse the properties name.
THEOREM AnswersAreJustified == ServerSpec => []AnswersJustified
<1>1. Usb!Spec => /\ []Usb!OnePrintAtATime /\ []Usb!OkMeansWhole /\ []Usb!MixedReceiptExplained
                  /\ []Usb!WedgeIsHealed /\ []Usb!LedNotLeftDark /\ []Usb!BannerIsCurrent
  BY ServerAssumption, Usb!PrintsInOnePiece, Usb!OkIsWhole, Usb!ReceiptsAreCut,
     Usb!WedgesAreHealed, Usb!LedIsLit, Usb!BannerCurrent
<1>2. /\ Usb!OnePrintAtATime /\ Usb!OkMeansWhole /\ Usb!MixedReceiptExplained
      /\ Usb!WedgeIsHealed /\ Usb!LedNotLeftDark /\ Usb!BannerIsCurrent
      => AnswersJustified
  BY DEF AnswersJustified
<1> QED BY <1>1, <1>2, PartsRun, PTL

\* current_user, create_pending_user, consume_reset_token, admin_required, logout:
\* what a session is good for was earned in the browser that holds it, whatever
\* requests overlap; without overlap, logging out lasts.
THEOREM AccessIsEarned == ServerSpec => []AccessEarned
<1>1. Races!Spec => []Races!SessionProven /\ []Races!NameUnique /\ []Races!LinkBurns
  BY ServerAssumption, FiniteThreads, Races!SessionsAreProven, Races!NamesAreUnique, Races!LinksBurn
<1>2. Owners!Spec => []Owners!AdminNeedsCode BY ServerAssumption, Owners!AdminNeedsTheCode
<1>3. Serial!Spec => []Serial!LogoutHolds /\ []Serial!StampKept
  BY ServerAssumption, Serial!LogoutLasts, Serial!StampsAreKept
<1>4. /\ (part = "races" => Races!SessionProven /\ Races!NameUnique /\ Races!LinkBurns)
      /\ (part = "owner" => Owners!AdminNeedsCode)
      /\ (part = "serial" => Serial!LogoutHolds /\ Serial!StampKept)
      => AccessEarned
  BY DEF AccessEarned
<1> QED BY <1>1, <1>2, <1>3, <1>4, RacesRun, OwnersRun, SerialRun, PTL

\* _login_locked, admin.login: the friends' limit binds whatever requests overlap; with
\* one thread no TOTP step opens two sessions and the owner's limit binds; nobody is
\* refused for failures that did not happen.
THEOREM GuessesAreBounded == ServerSpec => []GuessesBounded
<1>1. Guesses!Spec => []Guesses!GuessesBounded
  BY ServerAssumption, FiniteThreads, Guesses!GuessesAreBounded
<1>2. OneLogin!OneThread BY ServerAssumption DEF OneLogin!OneThread
<1>3. OneLogin!Spec => /\ [](OneLogin!StepOnce /\ OneLogin!LastUsedIsHighest)
                       /\ []OneLogin!LimitHolds /\ []OneLogin!NoPhantomLock
  BY ServerAssumption, <1>2, OneLogin!CodesAreSpent, OneLogin!LimitIsKept, OneLogin!RefusalsAreEarned
<1>4. TwoLogins!Spec => []TwoLogins!NoPhantomLock BY ServerAssumption, TwoLogins!RefusalsAreEarned
<1>5. /\ (part = "guesses" => Guesses!GuessesBounded)
      /\ (part = "one login" => (OneLogin!StepOnce /\ OneLogin!LastUsedIsHighest)
                                /\ OneLogin!LimitHolds /\ OneLogin!NoPhantomLock)
      /\ (part = "two logins" => TwoLogins!NoPhantomLock)
      => GuessesBounded
  BY DEF GuessesBounded
<1> QED BY <1>1, <1>3, <1>4, <1>5, GuessesRun, OneLoginRun, TwoLoginsRun, PTL

\* _briefing_loop, morning_briefing_sections: for every clock and day, targets away
\* from midnight, and a clock set back by no more than a poll, no date sees two
\* briefings; a briefing starts at its target; a service that is down costs no print.
THEOREM BriefingIsKept ==
  ASSUME MaxBack <= Poll, Briefing!ClearOfMidnight PROVE ServerSpec => []BriefingKept
<1>1. Briefing!Spec => []Briefing!OncePerDay BY ServerAssumption, Briefing!OneBriefingADate
<1>2. Briefing!Spec => []Briefing!Punctual BY ServerAssumption, Briefing!StartsOnTarget
<1>3. Briefing!Spec => []Briefing!OfflineStillPrints BY ServerAssumption, Briefing!OfflineIsNoFailure
<1>4. Briefing!OncePerDay /\ Briefing!Punctual /\ Briefing!OfflineStillPrints => BriefingKept
  BY DEF BriefingKept
<1> QED BY <1>1, <1>2, <1>3, <1>4, PartsRun, PTL

-----------------------------------------------------------------------------
(* Quiet hours: every zone, window and horizon.  That release finds the     *)
(* first opening does not depend on how Contains reads the wall clock, only *)
(* on the order in which minutes are tried; that it finds one does.         *)

\* While the search runs, every minute it has passed is quiet.
Passed ==
  pc = "search" =>
    /\ from.minute < candidate
    /\ \A m \in from.minute..(candidate - 1) : Contains(m)

QInv == TypeOK /\ Passed /\ FirstOpening

\* Contains depends on the configuration alone.
LEMMA ContainsKept ==
  ASSUME UNCHANGED conf, NEW m
  PROVE  Contains(m)' = Contains(m)
BY DEF conf, Contains

LEMMA InitInv == Init => QInv
BY QuietAssumption DEF Init, QInv, TypeOK, Passed, FirstOpening, Start, Instant

\* A request asks for an instant, and is answered at once when that is not quiet.
LEMMA RequestInv ==
  ASSUME QInv, NEW at \in [minute : Asked, rest : Rest],
         NEW value \in [minute : Asked, rest : Rest] \cup {Nothing, Garbled},
         Request(at, value)
  PROVE  QInv'
<1> DEFINE when == IF value = Nothing THEN at ELSE value
<1>0. UNCHANGED conf BY DEF Request
<1>1. at \in Instant BY QuietAssumption DEF Instant
<1>2. CASE ~Requested(value, at)
  <2>1. value \in Instant \cup {Nothing, Garbled} BY QuietAssumption DEF Instant
  <2> QED BY <1>1, <1>2, <2>1 DEF QInv, TypeOK, Passed, FirstOpening, Request, conf
<1>3. CASE Requested(value, at)
  <2>1. value \in Instant \cup {Nothing}
    BY <1>3, QuietAssumption DEF Requested, Instant
  <2>2. when \in Instant /\ when.minute \in Nat BY <1>1, <2>1 DEF Instant
  <2>3. /\ from' = when /\ tries' = 0 /\ candidate' = when.minute + 1 /\ effective' = when
        /\ pc' = IF Contains(when.minute) THEN "search" ELSE "done"
    BY <1>3 DEF Request
  <2>4. TypeOK'
    BY <1>1, <2>1, <2>2, <2>3 DEF QInv, TypeOK, Request, conf
  <2>5. Passed'
    <3>1. SUFFICES ASSUME pc' = "search" PROVE Passed' BY DEF Passed
    <3>2. Contains(when.minute) BY <2>3, <3>1
    <3>3. Contains(when.minute)' BY <3>2, <1>0, ContainsKept
    <3>4. \A m \in from'.minute..(candidate' - 1) : m = when.minute BY <2>2, <2>3
    <3> QED BY <2>2, <2>3, <3>3, <3>4 DEF Passed
  <2>6. FirstOpening'
    <3>1. SUFFICES ASSUME pc' = "done" PROVE FirstOpening' BY DEF FirstOpening
    <3>2. ~Contains(when.minute) BY <2>3, <3>1
    <3>3. ~Contains(when.minute)' BY <3>2, <1>0, ContainsKept
    <3> QED BY <2>2, <2>3, <3>3 DEF FirstOpening, NotBefore
  <2> QED BY <2>4, <2>5, <2>6 DEF QInv
<1> QED BY <1>2, <1>3

\* A turn of the loop either stops at an open minute or adds a quiet one.
LEMMA SearchInv ==
  ASSUME QInv, Search
  PROVE  QInv'
<1>0. UNCHANGED conf BY DEF Search
<1>1. /\ pc = "search" /\ candidate \in Nat /\ tries \in Nat
      /\ from \in Instant /\ from.minute \in Nat /\ from.rest \in Nat
  BY QuietAssumption DEF QInv, TypeOK, Search, Instant
<1>2. /\ from.minute < candidate
      /\ \A m \in from.minute..(candidate - 1) : Contains(m)
  BY <1>1 DEF QInv, Passed
<1>3. CASE Spent(tries)
  BY <1>1, <1>3 DEF QInv, TypeOK, Passed, FirstOpening, Search, conf
<1>4. CASE ~Spent(tries) /\ ~Contains(candidate)
  <2>1. /\ pc' = "done" /\ effective' = [minute |-> candidate, rest |-> 0]
        /\ UNCHANGED <<candidate, tries, from>>
    BY <1>4 DEF Search
  <2>2. TypeOK'
    BY <1>1, <1>4, <2>1, QuietAssumption DEF QInv, TypeOK, Search, conf, Instant
  <2>3. ~Contains(candidate)' BY <1>0, <1>4, ContainsKept, <2>1
  <2>4. \A m \in from.minute..(candidate - 1) : Contains(m)'
    BY <1>0, <1>2, ContainsKept
  <2>5. FirstOpening'
    BY <1>1, <1>2, <2>1, <2>3, <2>4 DEF FirstOpening, NotBefore, Later
  <2> QED BY <2>1, <2>2, <2>5 DEF QInv, Passed
<1>5. CASE ~Spent(tries) /\ Contains(candidate)
  <2>1. /\ pc' = "search" /\ candidate' = candidate + 1 /\ tries' = tries + 1
        /\ UNCHANGED <<from, effective>>
    BY <1>1, <1>5 DEF Search, Following
  <2>2. TypeOK' BY <1>1, <1>5, <2>1 DEF QInv, TypeOK, Search, conf
  <2>3. \A m \in from.minute..candidate : Contains(m) BY <1>1, <1>2, <1>5
  <2>4. \A m \in from.minute..candidate : Contains(m)' BY <1>0, <2>3, ContainsKept
  <2>5. Passed' BY <1>1, <1>2, <2>1, <2>4 DEF Passed
  <2> QED BY <2>1, <2>2, <2>5 DEF QInv, FirstOpening
<1> QED BY <1>3, <1>4, <1>5

LEMMA NextInv == QInv /\ [Next]_vars => QInv'
<1> SUFFICES ASSUME QInv, [Next]_vars PROVE QInv' OBVIOUS
<1>1. CASE Configure
  BY <1>1 DEF QInv, TypeOK, Passed, FirstOpening, Configure, conf
<1>2. CASE Search BY <1>2, SearchInv
<1>3. CASE \E at \in [minute : Asked, rest : Rest] :
             \E value \in [minute : Asked, rest : Rest] \cup {Nothing, Garbled} : Request(at, value)
  BY <1>3, RequestInv
<1>4. CASE UNCHANGED vars
  BY <1>4 DEF QInv, TypeOK, Passed, FirstOpening, Contains, vars
<1> QED BY <1>1, <1>2, <1>3, <1>4 DEF Next, Over

\* Every reachable state of the quiet hours is well typed.
THEOREM TypeCorrect == ServerSpec => []TypeOK
<1>1. QInv => TypeOK BY DEF QInv
<1> QED BY <1>1, InitInv, NextInv, PartsRun, PTL DEF Spec

\* release returns the first allowed instant, for every window, zone and request.
THEOREM ReleaseIsFirst == ServerSpec => []FirstOpening
<1>1. QInv => FirstOpening BY DEF QInv
<1> QED BY <1>1, InitInv, NextInv, PartsRun, PTL DEF Spec

\* What is served has a window of two different minutes, asks for a minute that can
\* be asked for, and a search has tried as many minutes as it has counted.
Asking ==
  pc \in {"ready", "search", "done", "rejected", "failed"} =>
    first \in Clock /\ last \in Clock /\ first # last
Counted ==
  pc \in {"search", "done", "failed"} =>
    /\ NotBefore(from, now) /\ from.minute <= now.minute + MaxAge /\ from.minute \in Asked
    /\ pc = "search" => candidate = from.minute + 1 + tries /\ tries <= Horizon
    /\ pc = "done" => from = effective \/ from.minute < effective.minute
    /\ pc = "done" => effective.minute <= from.minute + Horizon

OpenInv == QInv /\ Asking /\ Counted /\ AlwaysOpens

\* Counting on from a, every number below n comes up among the next n.
LEMMA ComesRound ==
  ASSUME NEW n \in Nat \ {0}, NEW a \in Int, NEW l \in 0..(n - 1)
  PROVE  \E r \in 0..(n - 1) : (a + r) % n = l
<1> DEFINE b == a % n
           q == a \div n
<1>1. b \in 0..(n - 1) /\ q \in Int /\ a = n * q + b OBVIOUS
<1> HIDE DEF b, q
<1>2. CASE b <= l
  <2>1. l - b \in 0..(n - 1) /\ a + (l - b) = n * q + l BY <1>1, <1>2
  <2>2. (n * q + l) % n = l BY <1>1
  <2> QED BY <2>1, <2>2
<1>3. CASE b > l
  <2>1. n + l - b \in 0..(n - 1) BY <1>1, <1>3
  <2>2. a + (n + l - b) = n * (q + 1) + l BY <1>1, <2>1
  <2>3. (n * (q + 1) + l) % n = l BY <1>1
  <2> QED BY <2>1, <2>2, <2>3
<1> QED BY <1>1, <1>2, <1>3

\* Among the minutes a search tries, one is open.
LEMMA SomeMinuteOpens ==
  ASSUME first \in Clock, last \in Clock, first # last, zone \in Zone, NEW m \in Asked
  PROVE  \E i \in m..(m + Horizon) : ~Contains(i)
<1>1. DayLen \in Nat \ {0} /\ Horizon \in Nat /\ m \in Nat BY QuietAssumption
<1>2. PICK k \in m..(m + Horizon + 1 - DayLen) :
        \A i \in k..(k + DayLen - 1) : Offset(zone, i) = Offset(zone, k)
  BY ZonesSettle
<1>3. k \in Int /\ k \in m..(m + Horizon) BY <1>1, <1>2
<1>4. Offset(zone, k) \in Int BY <1>3, ZonesSettle
<1>5. PICK r \in 0..(DayLen - 1) : (k + Offset(zone, k) + r) % DayLen = last
  <2>1. last \in 0..(DayLen - 1) /\ k + Offset(zone, k) \in Int BY <1>3, <1>4 DEF Clock
  <2> QED BY <1>1, <2>1, ComesRound
<1>6. k + r \in m..(m + Horizon) /\ k + r \in k..(k + DayLen - 1) BY <1>1, <1>2, <1>3
<1>7. Offset(zone, k + r) = Offset(zone, k) BY <1>2, <1>6
<1>8. (k + r + Offset(zone, k + r)) % DayLen = last
  <2>1. k + r + Offset(zone, k) = k + Offset(zone, k) + r BY <1>3, <1>4
  <2> QED BY <1>5, <1>7, <2>1
<1>9. first \in Int /\ last \in Int BY <1>1 DEF Clock
<1>10. ~Contains(k + r) BY <1>8, <1>9 DEF Contains
<1> QED BY <1>6, <1>10

LEMMA RequestOpens ==
  ASSUME OpenInv, NEW at \in [minute : Asked, rest : Rest],
         NEW value \in [minute : Asked, rest : Rest] \cup {Nothing, Garbled}, Request(at, value)
  PROVE  (Asking /\ Counted /\ AlwaysOpens)'
<1> DEFINE when == IF value = Nothing THEN at ELSE value
<1>1. /\ pc = "ready" /\ now' = at /\ UNCHANGED conf BY DEF Request
<1>2. Asking' BY <1>1 DEF OpenInv, Asking, conf
<1>3. CASE ~Requested(value, at)
  <2>1. pc' = "rejected" BY <1>3 DEF Request
  <2> QED BY <1>2, <2>1 DEF Counted, AlwaysOpens
<1>4. CASE Requested(value, at)
  <2>1. /\ from' = when /\ tries' = 0 /\ candidate' = when.minute + 1 /\ effective' = when
        /\ pc' \in {"search", "done"}
    BY <1>4 DEF Request
  <2>2. at.minute \in Nat /\ at.rest \in Nat /\ MaxAge \in Nat /\ Horizon \in Nat BY QuietAssumption
  <2>3. CASE value = Nothing
    <3>1. when = at BY <2>3
    <3>2. NotBefore(when, at) /\ when.minute <= at.minute + MaxAge /\ when.minute \in Asked
      BY <2>2, <3>1 DEF NotBefore
    <3> HIDE DEF when
    <3>3. when.minute \in Nat /\ when.minute <= when.minute + Horizon BY <2>2, <3>1
    <3> QED BY <1>1, <1>2, <2>1, <2>2, <3>2, <3>3 DEF Counted, AlwaysOpens
  <2>4. CASE value # Nothing
    <3>1. /\ when = value /\ value \in Instant /\ Later(value, at)
          /\ NotBefore([minute |-> at.minute + MaxAge, rest |-> at.rest], value)
      BY <1>4, <2>4 DEF Requested
    <3>2. value \in [minute : Asked, rest : Rest] BY <2>4, <3>1, QuietAssumption
    <3>3. value.minute \in Nat /\ value.minute \in Asked BY <3>2, QuietAssumption
    <3>4. value.minute <= at.minute + MaxAge BY <2>2, <3>1, <3>3 DEF NotBefore, Later
    <3>5. NotBefore(when, at) /\ when.minute <= at.minute + MaxAge /\ when.minute \in Asked
      BY <3>1, <3>3, <3>4 DEF NotBefore
    <3>6. when.minute \in Nat /\ when.minute <= when.minute + Horizon BY <2>2, <3>1, <3>3
    <3> HIDE DEF when
    <3> QED BY <1>1, <1>2, <2>1, <2>2, <3>5, <3>6 DEF Counted, AlwaysOpens
  <2> QED BY <2>3, <2>4
<1> QED BY <1>3, <1>4

LEMMA SearchOpens ==
  ASSUME OpenInv, Search PROVE (Asking /\ Counted /\ AlwaysOpens)'
<1>1. /\ pc = "search" /\ UNCHANGED conf /\ UNCHANGED <<now, from>> BY DEF Search
<1>2. Asking' BY <1>1 DEF OpenInv, Asking, conf
<1>3. /\ candidate = from.minute + 1 + tries /\ tries \in Nat /\ tries <= Horizon /\ Horizon \in Nat
      /\ NotBefore(from, now) /\ from.minute <= now.minute + MaxAge /\ from.minute \in Asked
      /\ from.minute \in Nat
  BY <1>1, QuietAssumption DEF OpenInv, Counted, QInv, TypeOK
<1>4. CASE Spent(tries)
  <2>1. candidate - 1 = from.minute + Horizon BY <1>3, <1>4 DEF Spent
  <2>2. \A m \in from.minute..(from.minute + Horizon) : Contains(m)
    BY <1>1, <2>1 DEF OpenInv, QInv, Passed
  <2>3. first \in Clock /\ last \in Clock /\ first # last /\ zone \in Zone
    BY <1>1 DEF OpenInv, Asking, QInv, TypeOK
  <2> QED BY <1>3, <2>2, <2>3, SomeMinuteOpens
<1>5. CASE ~Spent(tries) /\ ~Contains(candidate)
  <2>1. pc' = "done" /\ effective' = [minute |-> candidate, rest |-> 0] BY <1>5 DEF Search
  <2>2. tries < Horizon BY <1>3, <1>5 DEF Spent
  <2>3. effective'.minute = from.minute + 1 + tries BY <1>3, <2>1
  <2>4. from.minute < effective'.minute /\ effective'.minute <= from.minute + Horizon
    BY <1>3, <2>2, <2>3
  <2> QED BY <1>1, <1>2, <1>3, <2>1, <2>4 DEF Counted, AlwaysOpens
<1>6. CASE ~Spent(tries) /\ Contains(candidate)
  <2>1. pc' = "search" /\ candidate' = candidate + 1 /\ tries' = tries + 1
    BY <1>1, <1>6 DEF Search, Following
  <2>2. tries < Horizon BY <1>3, <1>6 DEF Spent
  <2>3. candidate' = from.minute + 1 + tries' /\ tries' <= Horizon BY <1>3, <2>1, <2>2
  <2> QED BY <1>1, <1>2, <1>3, <2>1, <2>3 DEF Counted, AlwaysOpens
<1> QED BY <1>4, <1>5, <1>6

LEMMA NextOpens == OpenInv /\ [Next]_vars => OpenInv'
<1> SUFFICES ASSUME OpenInv, [Next]_vars PROVE (Asking /\ Counted /\ AlwaysOpens)'
  BY NextInv DEF OpenInv
<1>1. CASE Configure
  <2>1. pc' \in {"off", "crashed"} \/ (pc' = "ready" /\ first # Nothing /\ last # Nothing /\ first # last)
    BY <1>1 DEF Configure
  <2>2. first \in Clock \cup {Nothing} /\ last \in Clock \cup {Nothing} BY DEF OpenInv, QInv, TypeOK
  <2>3. UNCHANGED conf BY <1>1 DEF Configure
  <2> QED BY <2>1, <2>2, <2>3 DEF Asking, Counted, AlwaysOpens, conf
<1>2. CASE Search BY <1>2, SearchOpens
<1>3. CASE \E at \in [minute : Asked, rest : Rest] :
             \E value \in [minute : Asked, rest : Rest] \cup {Nothing, Garbled} : Request(at, value)
  BY <1>3, RequestOpens
<1>4. CASE UNCHANGED vars
  BY <1>4 DEF OpenInv, Asking, Counted, AlwaysOpens, NotBefore, Later, vars
<1> QED BY <1>1, <1>2, <1>3, <1>4 DEF Next, Over

\* release, parse_requested: for every window and for zones whose offset rests for a
\* day in any 48 hours, the search finds an opening, which is not before the request
\* and at most MaxAge and the horizon after it.
THEOREM RequestsOpenInTime == ServerSpec => []OpensInTime
<1>1. Init => OpenInv BY InitInv DEF Init, OpenInv, Asking, Counted, AlwaysOpens
<1>2. OpenInv => OpensInTime
  <2> SUFFICES ASSUME OpenInv PROVE AlwaysOpens /\ WithinAYear BY DEF OpensInTime
  <2>1. SUFFICES ASSUME pc = "done"
                 PROVE  /\ NotBefore(effective, now)
                        /\ effective.minute <= now.minute + MaxAge + Horizon
    BY DEF OpenInv, WithinAYear
  <2>2. /\ NotBefore(from, now) /\ from.minute <= now.minute + MaxAge
        /\ from = effective \/ from.minute < effective.minute
        /\ effective.minute <= from.minute + Horizon
    BY <2>1 DEF OpenInv, Counted
  <2>3. /\ from.minute \in Nat /\ now.minute \in Nat /\ effective.minute \in Nat
        /\ MaxAge \in Nat /\ Horizon \in Nat
    BY QuietAssumption DEF OpenInv, QInv, TypeOK, Instant
  <2>4. NotBefore(effective, now) BY <2>2, <2>3 DEF NotBefore, Later
  <2>5. effective.minute <= now.minute + MaxAge + Horizon BY <2>2, <2>3
  <2> QED BY <2>4, <2>5
<1> QED BY <1>1, <1>2, NextOpens, PartsRun, PTL DEF Spec

-----------------------------------------------------------------------------
(* Font caches: any number of rendering threads, scripts and candidates    *)

FontPlace == {"idle", "loaded?", "claim", "reshaper", "bidi", "shape", "reorder", "cached?", "try"}

FontTyped ==
  /\ fontPc \in [FontThread -> FontPlace] /\ run \in [FontThread -> Script \cup {Fonts!None}]
  /\ try \in [FontThread -> Nat \ {0}] /\ cache = [s \in Script |-> cache[s]]
  /\ loaded \in BOOLEAN /\ functions \subseteq Installed
  /\ \A t \in FontThread : fontPc[t] # "idle" => run[t] \in Script

LEMMA InitFonts == Fonts!Init => FontTyped
<1> SUFFICES ASSUME Fonts!Init PROVE FontTyped OBVIOUS
<1>1. cache = [s \in Script |-> cache[s]] BY DEF Fonts!Init
<1>2. fontPc \in [FontThread -> FontPlace] /\ \A t \in FontThread : fontPc[t] = "idle"
  BY DEF Fonts!Init, FontPlace
<1>3. run \in [FontThread -> Script \cup {Fonts!None}] /\ try \in [FontThread -> Nat \ {0}]
  BY DEF Fonts!Init
<1> QED BY <1>1, <1>2, <1>3 DEF Fonts!Init, FontTyped

LEMMA StepFontTypes == ASSUME FontTyped, [Fonts!Next]_(Fonts!vars) PROVE FontTyped'
<1> USE DEF FontTyped, FontPlace, Fonts!Goto
<1>1. ASSUME NEW t \in FontThread, Fonts!Begin(t) PROVE FontTyped' BY <1>1 DEF Fonts!Begin
<1>2. ASSUME NEW t \in FontThread, Fonts!AskLoaded(t) PROVE FontTyped' BY <1>2 DEF Fonts!AskLoaded
<1>3. ASSUME NEW t \in FontThread, Fonts!Claim(t) PROVE FontTyped' BY <1>3 DEF Fonts!Claim
<1>4. ASSUME NEW t \in FontThread, NEW lib \in Fonts!Libraries, Fonts!Import(t, lib) PROVE FontTyped'
  BY <1>4 DEF Fonts!Import, Fonts!AfterImport, Fonts!Libraries
<1>5. ASSUME NEW t \in FontThread, Fonts!Shape(t) \/ Fonts!Reorder(t)
      PROVE  FontTyped' BY <1>5 DEF Fonts!Shape, Fonts!Reorder
<1>6. ASSUME NEW t \in FontThread, Fonts!AskCache(t)
      PROVE  FontTyped' BY <1>6 DEF Fonts!AskCache, Fonts!Draw
<1>7. ASSUME NEW t \in FontThread, Fonts!Try(t)
      PROVE  FontTyped' BY <1>7 DEF Fonts!Try, Fonts!Draw, Fonts!Stored
<1>8. CASE UNCHANGED Fonts!vars BY <1>8 DEF Fonts!vars
<1> QED BY <1>1, <1>2, <1>3, <1>4, <1>5, <1>6, <1>7, <1>8 DEF Fonts!Next, Fonts!Render, Fonts!Quiesced

-----------------------------------------------------------------------------
(* The fonts: however many scripts, candidates and rendering threads       *)

UsableAt(s) == {i \in DOMAIN Candidates[s] : Candidates[s][i] \in Usable}

\* What a search through the candidates of s must come to.
RightFont(s, font) ==
  \/ UsableAt(s) = {} /\ font = Fonts!None
  \/ \E i \in UsableAt(s) : (\A j \in UsableAt(s) : i <= j) /\ font = Candidates[s][i]

LEMMA RightIsExpected ==
  ASSUME Fonts!FontAssumption, NEW s \in Script, NEW font, RightFont(s, font)
  PROVE  Fonts!Expected(s) = IF font = Fonts!None THEN Base ELSE font
<1>1. CASE UsableAt(s) = {} BY <1>1 DEF RightFont, Fonts!Expected, UsableAt
<1>2. ASSUME NEW i \in UsableAt(s), \A j \in UsableAt(s) : i <= j, font = Candidates[s][i]
      PROVE  Fonts!Expected(s) = IF font = Fonts!None THEN Base ELSE font
  <2> DEFINE k == CHOOSE k \in UsableAt(s) : \A j \in UsableAt(s) : k <= j
  <2>1. k \in UsableAt(s) /\ \A j \in UsableAt(s) : k <= j BY <1>2
  <2>2. i \in Nat /\ k \in Nat BY <2>1 DEF Fonts!FontAssumption, UsableAt
  <2>3. k = i BY <1>2, <2>1, <2>2
  <2>4. font # Fonts!None BY <1>2 DEF Fonts!FontAssumption, UsableAt
  <2>5. Fonts!Expected(s) = Candidates[s][k] BY <1>2 DEF Fonts!Expected, UsableAt
  <2> QED BY <1>2, <2>3, <2>4, <2>5
<1> QED BY <1>1, <1>2 DEF RightFont

\* A search has passed only candidates that are not usable; whatever is in the cache
\* is where a search ends.
Searched ==
  /\ \A s \in Script : cache[s] = Fonts!Unknown \/ RightFont(s, cache[s])
  /\ \A t \in FontThread : fontPc[t] # "idle" => \A i \in UsableAt(run[t]) : try[t] <= i

FontInv == Searched /\ Fonts!FontsAgree

\* A thread that draws what a search ends with.
LEMMA DrawsRight ==
  ASSUME Fonts!FontAssumption, FontTyped, Fonts!FontsAgree, NEW t \in FontThread, NEW font,
         run[t] \in Script,
         RightFont(run[t], font), Fonts!Draw(t, font)
  PROVE  Fonts!FontsAgree'
<1>1. Fonts!Expected(run[t]) = IF font = Fonts!None THEN Base ELSE font BY RightIsExpected
<1> DEFINE new == [script |-> run[t], shaped |-> shaped[t],
                   font |-> IF font = Fonts!None THEN Base ELSE font]
<1>2. drawn' = drawn \cup {new} BY DEF Fonts!Draw
<1>3. new.font = Fonts!Expected(new.script) BY <1>1
<1> QED BY <1>2, <1>3 DEF Fonts!FontsAgree

\* Steps that neither draw nor fill the cache, and start a search at its first candidate.
LEMMA KeepsFonts ==
  ASSUME Fonts!FontAssumption, FontTyped, FontInv, UNCHANGED <<cache, drawn>>,
         \A t \in FontThread : \/ fontPc'[t] = "idle"
                               \/ fontPc[t] # "idle" /\ run'[t] = run[t] /\ try'[t] = try[t]
                               \/ try'[t] = 1 /\ run'[t] \in Script
  PROVE  FontInv'
<1>1. ASSUME NEW t \in FontThread, fontPc'[t] # "idle", NEW i \in UsableAt(run'[t])
      PROVE  try'[t] <= i
  <2>1. CASE try'[t] = 1 /\ run'[t] \in Script
    BY <2>1, <1>1 DEF UsableAt, Fonts!FontAssumption
  <2>2. CASE fontPc[t] # "idle" /\ run'[t] = run[t] /\ try'[t] = try[t]
    BY <2>2, <1>1 DEF FontInv, Searched, FontTyped, FontPlace
  <2> QED BY <1>1, <2>1, <2>2
<1> QED BY <1>1 DEF FontInv, Searched, Fonts!FontsAgree, Fonts!Expected, RightFont, UsableAt

LEMMA StepFonts ==
  ASSUME Fonts!FontAssumption, FontTyped, FontInv, [Fonts!Next]_(Fonts!vars) PROVE FontInv'
<1>2. ASSUME NEW t \in FontThread, Fonts!Begin(t) PROVE FontInv'
  <2>1. PICK s \in Script : run' = [run EXCEPT ![t] = s]
    BY <1>2 DEF Fonts!Begin
  <2>2. /\ try' = [try EXCEPT ![t] = 1] /\ UNCHANGED <<cache, drawn>>
        /\ \A o \in FontThread \ {t} : fontPc'[o] = fontPc[o]
    BY <1>2 DEF Fonts!Begin, Fonts!Goto, FontTyped
  <2>3. \A o \in FontThread \ {t} :
          \/ fontPc'[o] = "idle"
          \/ fontPc[o] # "idle" /\ run'[o] = run[o] /\ try'[o] = try[o]
    BY <2>1, <2>2 DEF FontTyped
  <2>4. run'[t] \in Script /\ try'[t] = 1 BY <2>1, <2>2 DEF FontTyped
  <2> QED BY <2>2, <2>3, <2>4, KeepsFonts
<1>3. ASSUME NEW t \in FontThread,
             Fonts!AskLoaded(t) \/ Fonts!Claim(t) \/ Fonts!Shape(t) \/ Fonts!Reorder(t)
             \/ \E lib \in Fonts!Libraries : Fonts!Import(t, lib)
      PROVE  FontInv'
  <2>1. UNCHANGED <<cache, drawn, run, try>> /\ fontPc[t] # "idle"
    BY <1>3 DEF Fonts!AskLoaded, Fonts!Claim, Fonts!Shape, Fonts!Reorder, Fonts!Import, Fonts!Libraries
  <2>2. \E p : fontPc' = [fontPc EXCEPT ![t] = p]
    BY <1>3 DEF Fonts!AskLoaded, Fonts!Claim, Fonts!Shape, Fonts!Reorder, Fonts!Import, Fonts!Goto
  <2>3. \A o \in FontThread : fontPc'[o] = "idle" \/ fontPc[o] # "idle"
    BY <2>1, <2>2 DEF FontTyped
  <2> QED BY <2>1, <2>3, KeepsFonts
<1>4. ASSUME NEW t \in FontThread, Fonts!AskCache(t) PROVE FontInv'
  <2>1. CASE cache[run[t]] = Fonts!Unknown
    <3>1. UNCHANGED <<cache, drawn, run, try>> /\ fontPc' = [fontPc EXCEPT ![t] = "try"]
      BY <1>4, <2>1 DEF Fonts!AskCache, Fonts!Goto
    <3>2. \A o \in FontThread : fontPc'[o] = "idle" \/ fontPc[o] # "idle"
      BY <1>4, <3>1 DEF FontTyped, Fonts!AskCache
    <3> QED BY <3>1, <3>2, KeepsFonts
  <2> USE DEF FontInv
  <2>2. CASE cache[run[t]] # Fonts!Unknown
    <3>1. run[t] \in Script /\ RightFont(run[t], cache[run[t]])
      BY <1>4, <2>2 DEF Fonts!AskCache, FontTyped, Searched
    <3>2. Fonts!Draw(t, cache[run[t]]) /\ UNCHANGED <<cache, run, try>> BY <1>4, <2>2 DEF Fonts!AskCache
    <3>3. Fonts!FontsAgree' BY <3>1, <3>2, DrawsRight
    <3>4. Searched' BY <3>2 DEF Fonts!Draw, Fonts!Goto, Searched, FontTyped, RightFont, UsableAt
    <3> QED BY <3>3, <3>4
  <2> QED BY <2>1, <2>2
<1>5. ASSUME NEW t \in FontThread, Fonts!Try(t) PROVE FontInv'
  <2> USE DEF FontInv
  <2> DEFINE s == run[t]
  <2>1. /\ s \in Script /\ try[t] \in Nat \ {0} /\ \A i \in UsableAt(s) : try[t] <= i
        /\ Len(Candidates[s]) \in Nat /\ DOMAIN Candidates[s] = 1..Len(Candidates[s])
    BY <1>5 DEF Fonts!Try, FontTyped, Searched, Fonts!FontAssumption
  <2>2. ASSUME NEW font, RightFont(s, font), Fonts!Draw(t, font), cache' = [cache EXCEPT ![s] = font],
               UNCHANGED <<run, try>>
        PROVE  FontInv'
    <3>1. Fonts!FontsAgree' BY <2>1, <2>2, DrawsRight
    <3>2. \A q \in Script : cache'[q] = Fonts!Unknown \/ RightFont(q, cache'[q])
      BY <2>1, <2>2 DEF FontTyped, Searched
    <3>3. Searched' BY <2>2, <3>2 DEF Fonts!Draw, Fonts!Goto, Searched, FontTyped, RightFont, UsableAt
    <3> QED BY <3>1, <3>3
  <2>3. CASE try[t] > Len(Candidates[s])
    <3>1. RightFont(s, Fonts!None) BY <2>1, <2>3 DEF RightFont, UsableAt
    <3> QED BY <1>5, <2>2, <2>3, <3>1 DEF Fonts!Try
  <2>4. CASE try[t] <= Len(Candidates[s]) /\ Candidates[s][try[t]] \in Usable
    <3>1. RightFont(s, Candidates[s][try[t]]) BY <2>1, <2>4 DEF RightFont, UsableAt
    <3> QED BY <1>5, <2>1, <2>2, <2>4, <3>1 DEF Fonts!Try
  <2>5. CASE try[t] <= Len(Candidates[s]) /\ Candidates[s][try[t]] \notin Usable
    <3>1. try' = [try EXCEPT ![t] = @ + 1] /\ UNCHANGED <<cache, fontPc, run, drawn>>
      BY <1>5, <2>1, <2>5 DEF Fonts!Try, Fonts!Stored
    <3>2. \A i \in UsableAt(s) : try[t] + 1 <= i BY <2>1, <2>5 DEF UsableAt
    <3>3. ASSUME NEW o \in FontThread, fontPc'[o] # "idle", NEW i \in UsableAt(run'[o])
          PROVE  try'[o] <= i
      <4>1. CASE o = t BY <2>1, <3>1, <3>2, <3>3, <4>1 DEF FontTyped
      <4>2. CASE o # t BY <3>1, <3>3, <4>2 DEF FontTyped, Searched, FontPlace
      <4> QED BY <4>1, <4>2
    <3>4. Searched' BY <3>1, <3>3 DEF Searched, RightFont, UsableAt
    <3> QED BY <3>1, <3>4 DEF Fonts!FontsAgree, Fonts!Expected
  <2> QED BY <2>1, <2>3, <2>4, <2>5
<1>6. CASE UNCHANGED Fonts!vars
  BY <1>6 DEF FontInv, Fonts!vars, Searched, Fonts!FontsAgree, RightFont, UsableAt, Fonts!Expected
<1> QED BY <1>2, <1>3, <1>4, <1>5, <1>6 DEF Fonts!Next, Fonts!Render, Fonts!Quiesced

\* However many threads read, search and fill the font cache at once, without a lock,
\* every run is drawn in the first font of its script that this machine has (_font_try).
THEOREM FontsAreAgreed == ASSUME Fonts!FontAssumption PROVE Fonts!Spec => []Fonts!FontsAgree
<1>1. Fonts!Init => FontTyped /\ FontInv
  BY InitFonts DEF Fonts!Init, FontInv, Searched, Fonts!FontsAgree
<1>2. FontTyped /\ FontInv /\ [Fonts!Next]_(Fonts!vars) => (FontTyped /\ FontInv)'
  BY StepFontTypes, StepFonts
<1>3. FontInv => Fonts!FontsAgree BY DEF FontInv
<1> QED BY <1>1, <1>2, <1>3, PTL DEF Fonts!Spec

-----------------------------------------------------------------------------
(* The right-to-left libraries                                             *)

\* From where a thread will still import lib.
Importing(lib) == IF lib = "reshaper" THEN {"claim", "reshaper"} ELSE {"claim", "reshaper", "bidi"}

\* Once somebody has said that the libraries are loaded, each that is installed has
\* been set or is somebody's to set.
Loads ==
  loaded => \A lib \in Installed : 
    lib \in functions \/ \E t \in FontThread : fontPc[t] \in Importing(lib)

LEMMA StepLoads == ASSUME Fonts!FontAssumption, FontTyped, Loads, [Fonts!Next]_(Fonts!vars) PROVE Loads'
<1> USE DEF Loads, Importing, Fonts!Goto, FontTyped, Fonts!FontAssumption, Fonts!Libraries
<1>1. ASSUME functions \subseteq functions', loaded' = loaded,
             \A t \in FontThread : fontPc[t] \in {"claim", "reshaper", "bidi"} => fontPc'[t] = fontPc[t]
      PROVE  Loads'
  BY <1>1
<1>2. ASSUME NEW t \in FontThread, Fonts!Begin(t) PROVE Loads' BY <1>1, <1>2 DEF Fonts!Begin
<1>3. ASSUME NEW t \in FontThread, Fonts!AskLoaded(t) \/ Fonts!Shape(t) \/ Fonts!Reorder(t) PROVE Loads'
  BY <1>1, <1>3 DEF Fonts!AskLoaded, Fonts!Shape, Fonts!Reorder
<1>4. ASSUME NEW t \in FontThread, Fonts!Claim(t) PROVE Loads'
  <2>1. fontPc'[t] = "reshaper" BY <1>4 DEF Fonts!Claim
  <2> QED BY <2>1
<1>5. ASSUME NEW t \in FontThread, NEW lib \in Fonts!Libraries, Fonts!Import(t, lib) PROVE Loads'
  <2>1. /\ functions' = functions \cup ({lib} \cap Installed) /\ loaded' = loaded /\ fontPc[t] = lib
        /\ fontPc' = [fontPc EXCEPT ![t] = Fonts!AfterImport(lib)]
    BY <1>5 DEF Fonts!Import
  <2> SUFFICES ASSUME loaded', NEW l \in Installed, l \notin functions'
               PROVE  \E o \in FontThread : fontPc'[o] \in Importing(l)
    BY DEF Loads
  <2>2. PICK o \in FontThread : fontPc[o] \in Importing(l) BY <2>1
  <2>3. CASE o # t BY <2>1, <2>2, <2>3
  <2>4. CASE o = t
    <3>1. lib = "reshaper" /\ l = "bidi" BY <2>1, <2>2, <2>4
    <3>2. fontPc'[t] = "bidi" BY <2>1, <3>1 DEF Fonts!AfterImport
    <3> QED BY <3>1, <3>2
  <2> QED BY <2>3, <2>4
<1>6. ASSUME NEW t \in FontThread, Fonts!AskCache(t)
      PROVE  Loads' BY <1>1, <1>6 DEF Fonts!AskCache, Fonts!Draw
<1>7. ASSUME NEW t \in FontThread, Fonts!Try(t) PROVE Loads' BY <1>1, <1>7 DEF Fonts!Try, Fonts!Draw
<1>8. CASE UNCHANGED Fonts!vars BY <1>8 DEF Fonts!vars
<1> QED BY <1>2, <1>3, <1>4, <1>5, <1>6, <1>7, <1>8 DEF Fonts!Next, Fonts!Render, Fonts!Quiesced

\* _load_bidi says "loaded" before it imports, and several threads may be at it at
\* once; when none is, what is set is what this machine has installed, for good.
THEOREM LibrariesSettle == ASSUME Fonts!FontAssumption PROVE Fonts!Spec => []Fonts!LoadingSettles
<1>1. Fonts!Init => FontTyped /\ Loads BY InitFonts DEF Fonts!Init, Loads
<1>2. FontTyped /\ Loads /\ [Fonts!Next]_(Fonts!vars) => (FontTyped /\ Loads)'
  BY StepFontTypes, StepLoads
<1>3. FontTyped /\ Loads => Fonts!LoadingSettles
  BY DEF FontTyped, Loads, Fonts!LoadingSettles, Importing, Fonts!Libraries
<1> QED BY <1>1, <1>2, <1>3, PTL DEF Fonts!Spec

\* Both, of the server: rendering threads share the caches without a lock, and the
\* outcome is the one a single thread would have had.
THEOREM FontCachesAgree == ServerSpec => []FontsAgree
<1>1. Fonts!Spec => []Fonts!FontsAgree BY ServerAssumption, FontsAreAgreed
<1>2. Fonts!Spec => []Fonts!LoadingSettles BY ServerAssumption, LibrariesSettle
<1>3. Fonts!FontsAgree /\ Fonts!LoadingSettles => FontsAgree BY DEF FontsAgree
<1> QED BY <1>1, <1>2, <1>3, PartsRun, PTL

-----------------------------------------------------------------------------
(* Hardware: whatever a form holds, the printer is left outside a command.  *)
(* What is sent, and not yet read, is the rest of one command (or of a feed *)
(* and a cut), seen from where the interpreter stands.                      *)

Byte == 0..255
State == [at : {"text", "esc", "gs", "dle", "letter", "low", "high"}, need : Nat]

\* The bytes b, of which the i-th is a letter after ESC or after GS, end a command.
EscEnds(b, i) == Len(b) = i + Hardware!EscArgs(b[i])
GsEnds(b, i) ==
  IF b[i] = 40 THEN Len(b) >= i + 3 /\ Len(b) = i + 3 + b[i + 2] + 256 * b[i + 3]
  ELSE Len(b) = i + Hardware!GsArgs(b[i])

\* In state s the bytes b are the rest of one command.
Finishes(s, b) ==
  \/ s.at = "text" /\ s.need = Len(b)
  \/ s.at = "text" /\ s.need = 0 /\ Len(b) >= 2 /\ b[1] = 27 /\ EscEnds(b, 2)
  \/ s.at = "text" /\ s.need = 0 /\ Len(b) >= 2 /\ b[1] = 29 /\ GsEnds(b, 2)
  \/ s.at = "esc" /\ Len(b) >= 1 /\ EscEnds(b, 1)
  \/ s.at = "gs" /\ Len(b) >= 1 /\ GsEnds(b, 1)
  \/ s.at = "letter" /\ Len(b) >= 3 /\ Len(b) = 3 + b[2] + 256 * b[3]
  \/ s.at = "low" /\ Len(b) >= 2 /\ Len(b) = 2 + b[1] + 256 * b[2]
  \/ s.at = "high" /\ Len(b) >= 1 /\ Len(b) = 1 + s.need + 256 * b[1]

\* ... or of feeding lines, and then a cut.
FeedsAndCuts(s, b) ==
  \/ s.at = "text" /\ s.need = 0 /\ Len(b) = 6 /\ b[1] = 27 /\ b[2] = 100 /\ b[4] = 29
       /\ b[5] = 86
  \/ s.at = "esc" /\ Len(b) = 5 /\ b[1] = 100 /\ b[3] = 29 /\ b[4] = 86
  \/ s.at = "text" /\ s.need = 1 /\ Len(b) = 4 /\ b[2] = 29 /\ b[3] = 86

Ends(s, b) == Finishes(s, b) \/ FeedsAndCuts(s, b)

LEMMA RestOfBytes ==
  ASSUME NEW b \in Seq(Byte), b # <<>>
  PROVE  /\ Tail(b) \in Seq(Byte) /\ Len(b) \in Nat /\ Len(b) >= 1 /\ Len(Tail(b)) = Len(b) - 1
         /\ Head(b) = b[1] /\ \A i \in 1..(Len(b) - 1) : Tail(b)[i] = b[i + 1]
         /\ \A i \in 1..Len(b) : b[i] \in Byte
<1>1. /\ Tail(b) \in Seq(Byte) /\ Len(Tail(b)) = Len(b) - 1
      /\ \A i \in 1..Len(Tail(b)) : Tail(b)[i] = b[i + 1]
  BY HeadTailProperties
<1>2. Len(b) \in Nat /\ (\A i \in 1..Len(b) : b[i] \in Byte) BY LenProperties, ElementOfSeq
<1>3. Len(b) >= 1 BY <1>2, EmptySeq
<1>4. Head(b) = b[1] OBVIOUS
<1> QED BY <1>1, <1>2, <1>3, <1>4

LEMMA InterpretTyped ==
  ASSUME NEW s \in State, NEW c \in Byte PROVE Hardware!Interpret(s, c) \in State
BY DEF Byte, State, Hardware!Interpret, Hardware!Lead, Hardware!Arguments, Hardware!EscArgs,
     Hardware!GsArgs, Hardware!DleArgs

LEMMA CutEnds ==
  ASSUME NEW s, NEW b, s.at = "text" /\ s.need = 0, Len(b) = 3 /\ b[1] = 29 /\ b[2] = 86
  PROVE  Ends(s, b)
<1>1. GsEnds(b, 2) BY DEF GsEnds, Hardware!GsArgs
<1>2. Len(b) >= 2 OBVIOUS
<1> QED BY <1>1, <1>2 DEF Ends, Finishes

\* The printer reads on towards the end of the command.  (r is what follows
\* the first byte of b.)
LEMMA ReadsOnOver ==
  ASSUME NEW s \in State, NEW b, NEW r,
         Len(b) \in Nat, Len(b) >= 1, Len(r) = Len(b) - 1,
         \A i \in 1..Len(b) : b[i] \in Byte,
         \A i \in 1..(Len(b) - 1) : r[i] = b[i + 1],
         Ends(s, b)
  PROVE  Ends(Hardware!Interpret(s, b[1]), r)
<1> DEFINE n == Hardware!Interpret(s, b[1])
<1> SUFFICES Ends(n, r) OBVIOUS
<1>0. Byte \subseteq Nat BY DEF Byte
<1>1. \A i \in 1..Len(b) : b[i] \in Nat BY <1>0
<1>2. s.need \in Nat BY DEF State
<1>3. CASE s.at = "text" /\ s.need = Len(b)
  <2>1. n = [s EXCEPT !.need = @ - 1] BY <1>3 DEF Hardware!Interpret
  <2>2. n.at = "text" /\ n.need = s.need - 1 BY <1>3, <2>1 DEF State
  <2> HIDE DEF n
  <2> QED BY <1>3, <2>2 DEF Ends, Finishes
<1>4. CASE s.at = "text" /\ s.need = 0 /\ Len(b) >= 2 /\ b[1] = 27 /\ EscEnds(b, 2)
  <2>1. n = [s EXCEPT !.at = "esc"] BY <1>4 DEF Hardware!Interpret, Hardware!Lead
  <2>2. n.at = "esc" BY <2>1 DEF State
  <2> HIDE DEF n
  <2>3. r[1] = b[2] /\ Len(r) >= 1 BY <1>4
  <2>4. EscEnds(r, 1) BY <1>4, <2>3 DEF EscEnds, Hardware!EscArgs
  <2> QED BY <2>2, <2>3, <2>4 DEF Ends, Finishes
<1>5. CASE s.at = "text" /\ s.need = 0 /\ Len(b) >= 2 /\ b[1] = 29 /\ GsEnds(b, 2)
  <2>1. n = [s EXCEPT !.at = "gs"] BY <1>5 DEF Hardware!Interpret, Hardware!Lead
  <2>2. n.at = "gs" BY <2>1 DEF State
  <2> HIDE DEF n
  <2>3. r[1] = b[2] /\ Len(r) >= 1 BY <1>5
  <2>4. CASE b[2] = 40
    <3>1. Len(b) >= 5 /\ Len(b) = 5 + b[4] + 256 * b[5] BY <1>5, <2>4 DEF GsEnds
    <3>2. 3 \in 1..(Len(b) - 1) /\ 4 \in 1..(Len(b) - 1) /\ {4, 5} \subseteq 1..Len(b) BY <3>1
    <3> HIDE <3>1
    <3>4. r[3] = b[4] /\ r[4] = b[5] /\ b[4] \in Nat /\ b[5] \in Nat BY <1>1, <3>2
    <3>3. GsEnds(r, 1) BY <2>3, <2>4, <3>1, <3>4 DEF GsEnds
    <3> QED BY <2>2, <2>3, <3>3 DEF Ends, Finishes
  <2>5. CASE b[2] # 40
    <3>1. GsEnds(r, 1) BY <1>5, <2>3, <2>5 DEF GsEnds, Hardware!GsArgs
    <3> QED BY <2>2, <2>3, <3>1 DEF Ends, Finishes
  <2> QED BY <2>4, <2>5
<1>6. CASE s.at = "esc" /\ EscEnds(b, 1)
  <2>1. n = [at |-> "text", need |-> Hardware!EscArgs(b[1])]
    BY <1>6 DEF Hardware!Interpret, Hardware!Arguments
  <2>2. n.at = "text" /\ n.need = Hardware!EscArgs(b[1]) BY <2>1
  <2> HIDE DEF n
  <2>3. n.need = Len(r) BY <1>6, <2>2 DEF EscEnds, Hardware!EscArgs
  <2> QED BY <2>2, <2>3 DEF Ends, Finishes
<1>7. CASE s.at = "gs" /\ GsEnds(b, 1)
  <2>1. CASE b[1] = 40
    <3>1. n = [s EXCEPT !.at = "letter"] BY <1>7, <2>1 DEF Hardware!Interpret
    <3>2. n.at = "letter" BY <3>1 DEF State
    <3> HIDE DEF n
    <3>3. Len(b) >= 4 /\ Len(b) = 4 + b[3] + 256 * b[4] BY <1>7, <2>1 DEF GsEnds
    <3>6. 2 \in 1..(Len(b) - 1) /\ 3 \in 1..(Len(b) - 1) /\ {3, 4} \subseteq 1..Len(b) BY <3>3
    <3>4. r[2] = b[3] /\ r[3] = b[4] /\ b[3] \in Nat /\ b[4] \in Nat BY <1>1, <3>6
    <3>5. Len(r) >= 3 /\ Len(r) = 3 + r[2] + 256 * r[3] BY <3>3, <3>4
    <3> QED BY <3>2, <3>5 DEF Ends, Finishes
  <2>2. CASE b[1] # 40
    <3>1. n = [at |-> "text", need |-> Hardware!GsArgs(b[1])]
      BY <1>7, <2>2 DEF Hardware!Interpret, Hardware!Arguments
    <3>2. n.at = "text" /\ n.need = Hardware!GsArgs(b[1]) BY <3>1
    <3> HIDE DEF n
    <3>3. n.need = Len(r) BY <1>7, <2>2, <3>2 DEF GsEnds, Hardware!GsArgs
    <3> QED BY <3>2, <3>3 DEF Ends, Finishes
  <2> QED BY <2>1, <2>2
<1>8. CASE s.at = "letter" /\ Len(b) >= 3 /\ Len(b) = 3 + b[2] + 256 * b[3]
  <2>1. n = [s EXCEPT !.at = "low"] BY <1>8 DEF Hardware!Interpret
  <2>2. n.at = "low" BY <2>1 DEF State
  <2> HIDE DEF n
  <2>4. 1 \in 1..(Len(b) - 1) /\ 2 \in 1..(Len(b) - 1) /\ {2, 3} \subseteq 1..Len(b) BY <1>8
  <2>3. r[1] = b[2] /\ r[2] = b[3] /\ b[2] \in Nat /\ b[3] \in Nat BY <1>1, <2>4
  <2> QED BY <1>8, <2>2, <2>3 DEF Ends, Finishes
<1>9. CASE s.at = "low" /\ Len(b) >= 2 /\ Len(b) = 2 + b[1] + 256 * b[2]
  <2>1. n = [at |-> "high", need |-> b[1]] BY <1>9 DEF Hardware!Interpret
  <2>2. n.at = "high" /\ n.need = b[1] BY <2>1
  <2> HIDE DEF n
  <2>4. 1 \in 1..(Len(b) - 1) /\ {1, 2} \subseteq 1..Len(b) BY <1>9
  <2>3. r[1] = b[2] /\ b[1] \in Nat /\ b[2] \in Nat BY <1>1, <2>4
  <2> QED BY <1>9, <2>2, <2>3 DEF Ends, Finishes
<1>10. CASE s.at = "high" /\ Len(b) = 1 + s.need + 256 * b[1]
  <2>1. n = [at |-> "text", need |-> s.need + 256 * b[1]] BY <1>10 DEF Hardware!Interpret
  <2>2. n.at = "text" /\ n.need = s.need + 256 * b[1] BY <2>1
  <2> HIDE DEF n
  <2>4. b[1] \in Nat BY <1>1
  <2>3. n.need = Len(r) BY <1>2, <1>10, <2>2, <2>4
  <2> QED BY <2>2, <2>3 DEF Ends, Finishes
<1>11. CASE s.at = "text" /\ s.need = 0 /\ Len(b) = 6 /\ b[1] = 27 /\ b[2] = 100
    /\ b[4] = 29 /\ b[5] = 86
  <2>1. n = [s EXCEPT !.at = "esc"] BY <1>11 DEF Hardware!Interpret, Hardware!Lead
  <2>2. n.at = "esc" BY <2>1 DEF State
  <2> HIDE DEF n
  <2>3. r[1] = 100 /\ r[3] = 29 /\ r[4] = 86 BY <1>11
  <2> QED BY <1>11, <2>2, <2>3 DEF Ends, FeedsAndCuts
<1>12. CASE s.at = "esc" /\ Len(b) = 5 /\ b[1] = 100 /\ b[3] = 29 /\ b[4] = 86
  <2>1. n = [at |-> "text", need |-> 1]
    BY <1>12 DEF Hardware!Interpret, Hardware!Arguments, Hardware!EscArgs
  <2>2. n.at = "text" /\ n.need = 1 BY <2>1
  <2> HIDE DEF n
  <2>3. r[2] = 29 /\ r[3] = 86 BY <1>12
  <2> QED BY <1>12, <2>2, <2>3 DEF Ends, FeedsAndCuts
<1>13. CASE s.at = "text" /\ s.need = 1 /\ Len(b) = 4 /\ b[2] = 29 /\ b[3] = 86
  <2>1. n = [s EXCEPT !.need = @ - 1] BY <1>13 DEF Hardware!Interpret
  <2>2. n.at = "text" /\ n.need = 0 BY <1>13, <2>1 DEF State
  <2> HIDE DEF n
  <2>3. Len(r) = 3 /\ r[1] = 29 /\ r[2] = 86 BY <1>13
  <2> QED BY <2>2, <2>3, CutEnds
<1> HIDE DEF n
<1> QED BY <1>3, <1>4, <1>5, <1>6, <1>7, <1>8, <1>9, <1>10, <1>11, <1>12, <1>13
        DEF Ends, Finishes, FeedsAndCuts

LEMMA ReadsOn ==
  ASSUME NEW s \in State, NEW b \in Seq(Byte), b # <<>>, Ends(s, b)
  PROVE  Ends(Hardware!Interpret(s, Head(b)), Tail(b))
BY RestOfBytes, ReadsOnOver

LEMMA ClampFits ==
  ASSUME NEW low \in Byte, NEW high \in Byte, low <= high, NEW n \in Int
  PROVE  Hardware!Clamp(low, high, n) \in Byte
BY DEF Hardware!Clamp, Byte

\* The shapes a command here has.
LEMMA EscWhole0 == <<27, 64>> \in Seq(Byte) /\ Ends(Hardware!Ready, <<27, 64>>)
BY DEF Byte, Ends, Finishes, EscEnds, Hardware!EscArgs, Hardware!Ready

LEMMA EscWhole1 ==
  \A k \in {100, 116, 76}, x \in Byte : <<27, k, x>> \in Seq(Byte)
       /\ Ends(Hardware!Ready, <<27, k, x>>)
<1> TAKE k \in {100, 116, 76}, x \in Byte
<1>1. Ends(Hardware!Ready, <<27, k, x>>)
  BY DEF Ends, Finishes, EscEnds, Hardware!EscArgs, Hardware!Ready
<1>2. 27 \in Byte /\ k \in Byte BY DEF Byte
<1>3. <<27, k, x>> \in Seq(Byte) BY <1>2
<1> QED BY <1>1, <1>3

LEMMA EscWhole2 ==
  \A x, y \in Byte : <<27, 66, x, y>> \in Seq(Byte) /\ Ends(Hardware!Ready, <<27, 66, x, y>>)
<1> TAKE x, y \in Byte
<1>1. Ends(Hardware!Ready, <<27, 66, x, y>>)
  BY DEF Ends, Finishes, EscEnds, Hardware!EscArgs, Hardware!Ready
<1>2. 27 \in Byte /\ 66 \in Byte BY DEF Byte
<1>3. <<27, 66, x, y>> \in Seq(Byte) BY <1>2
<1> QED BY <1>1, <1>3

LEMMA EscWhole3 ==
  \A k \in {112, 67}, x, y, z \in Byte :
    <<27, k, x, y, z>> \in Seq(Byte) /\ Ends(Hardware!Ready, <<27, k, x, y, z>>)
<1> TAKE k \in {112, 67}, x, y, z \in Byte
<1>1. Ends(Hardware!Ready, <<27, k, x, y, z>>)
  BY DEF Ends, Finishes, EscEnds, Hardware!EscArgs, Hardware!Ready
<1>2. 27 \in Byte /\ k \in Byte BY DEF Byte
<1>3. <<27, k, x, y, z>> \in Seq(Byte) BY <1>2
<1> QED BY <1>1, <1>3

LEMMA GsWhole3 ==
  \A x, y, z \in Byte : <<29, 140, x, y, z>> \in Seq(Byte)
       /\ Ends(Hardware!Ready, <<29, 140, x, y, z>>)
<1> TAKE x, y, z \in Byte
<1>1. Ends(Hardware!Ready, <<29, 140, x, y, z>>)
  BY DEF Ends, Finishes, GsEnds, Hardware!GsArgs, Hardware!Ready
<1>2. 29 \in Byte /\ 140 \in Byte BY DEF Byte
<1>3. <<29, 140, x, y, z>> \in Seq(Byte) BY <1>2
<1> QED BY <1>1, <1>3

LEMMA GsWhole4 ==
  \A w, x, y, z \in Byte :
    <<29, 78, w, x, y, z>> \in Seq(Byte) /\ Ends(Hardware!Ready, <<29, 78, w, x, y, z>>)
<1> TAKE w, x, y, z \in Byte
<1>1. Ends(Hardware!Ready, <<29, 78, w, x, y, z>>)
  BY DEF Ends, Finishes, GsEnds, Hardware!GsArgs, Hardware!Ready
<1>2. 29 \in Byte /\ 78 \in Byte BY DEF Byte
<1>3. <<29, 78, w, x, y, z>> \in Seq(Byte) BY <1>2
<1> QED BY <1>1, <1>3

LEMMA GsLong2 ==
  \A k, x, y \in Byte :
    <<29, 40, k, 2, 0, x, y>> \in Seq(Byte) /\ Ends(Hardware!Ready, <<29, 40, k, 2, 0, x, y>>)
<1> TAKE k, x, y \in Byte
<1>1. Ends(Hardware!Ready, <<29, 40, k, 2, 0, x, y>>)
  BY DEF Ends, Finishes, GsEnds, Hardware!Ready
<1>2. 29 \in Byte /\ 40 \in Byte /\ 2 \in Byte /\ 0 \in Byte BY DEF Byte
<1>3. <<29, 40, k, 2, 0, x, y>> \in Seq(Byte) BY <1>2
<1> QED BY <1>1, <1>3

LEMMA GsLong4 ==
  \A k, w, x, y, z \in Byte :
    <<29, 40, k, 4, 0, w, x, y, z>> \in Seq(Byte)
        /\ Ends(Hardware!Ready, <<29, 40, k, 4, 0, w, x, y, z>>)
<1> TAKE k, w, x, y, z \in Byte
<1>1. Ends(Hardware!Ready, <<29, 40, k, 4, 0, w, x, y, z>>)
  BY DEF Ends, Finishes, GsEnds, Hardware!Ready
<1>2. 29 \in Byte /\ 40 \in Byte /\ 4 \in Byte /\ 0 \in Byte BY DEF Byte
<1>3. <<29, 40, k, 4, 0, w, x, y, z>> \in Seq(Byte) BY <1>2
<1> QED BY <1>1, <1>3

LEMMA CutWhole ==
  \A x, y \in Byte :
    <<27, 100, x>> \o <<29, 86, y>> \in Seq(Byte)
        /\ Ends(Hardware!Ready, <<27, 100, x>> \o <<29, 86, y>>)
<1> TAKE x, y \in Byte
<1> DEFINE u == <<27, 100, x>>
           v == <<29, 86, y>>
<1>1. 27 \in Byte /\ 100 \in Byte /\ 29 \in Byte /\ 86 \in Byte BY DEF Byte
<1>2. u \in Seq(Byte) /\ v \in Seq(Byte) BY <1>1
<1>3. Len(u) = 3 /\ Len(v) = 3 /\ u[1] = 27 /\ u[2] = 100 /\ v[1] = 29 /\ v[2] = 86 OBVIOUS
<1> HIDE DEF u, v
<1>4. /\ u \o v \in Seq(Byte) /\ Len(u \o v) = 6
      /\ \A i \in 1..6 : (u \o v)[i] = IF i <= 3 THEN u[i] ELSE v[i - 3]
  <2>1. /\ u \o v \in Seq(Byte) /\ Len(u \o v) = Len(u) + Len(v)
        /\ \A i \in 1..(Len(u) + Len(v)) : (u \o v)[i] = IF i <= Len(u) THEN u[i] ELSE v[i - Len(u)]
    BY <1>2, ConcatProperties
  <2> QED BY <1>3, <2>1
<1>5. (u \o v)[1] = 27 /\ (u \o v)[2] = 100 /\ (u \o v)[4] = 29 /\ (u \o v)[5] = 86
  BY <1>3, <1>4
<1>6. Ends(Hardware!Ready, u \o v) BY <1>4, <1>5 DEF Ends, FeedsAndCuts, Hardware!Ready
<1> QED BY <1>4, <1>6 DEF u, v

\* Whatever numbers a form holds, a control is bytes, and all of a command.
LEMMA CommandsAreWhole ==
  ASSUME Hardware!HardwareAssumption, NEW c \in Hardware!Commands
  PROVE  c \in Seq(Byte) /\ Ends(Hardware!Ready, c)
<1>1. \A n \in Number :
        /\ Hardware!Clamp(1, 255, n) \in Byte /\ Hardware!Clamp(0, 255, n) \in Byte
        /\ Hardware!Clamp(1, 9, n) \in Byte /\ Hardware!Clamp(0, 15, n) \in Byte
  BY DEF Hardware!HardwareAssumption, Hardware!Clamp, Byte
<1>2. Hardware!Clamp(1, 255, 255) \in Byte /\ Hardware!Clamp(0, 255, 255) \in Byte
  BY DEF Hardware!Clamp, Byte
<1>3. ASSUME NEW pin \in {2, 5}, NEW n \in Number, c = Hardware!CashDrawer(pin, n, 255)
      PROVE  c \in Seq(Byte) /\ Ends(Hardware!Ready, c)
  <2> DEFINE x == IF pin = 2 THEN 0 ELSE 1
  <2>1. c = <<27, 112, x, Hardware!Clamp(1, 255, n), Hardware!Clamp(1, 255, 255)>>
    BY <1>3 DEF Hardware!CashDrawer
  <2>2. x \in Byte BY DEF Byte
  <2> HIDE DEF x
  <2> QED BY <1>1, <1>2, <2>1, <2>2, EscWhole3
<1>4. ASSUME NEW n \in Number, c = Hardware!Beep(n, n)
  PROVE c \in Seq(Byte) /\ Ends(Hardware!Ready, c)
  BY <1>1, <1>4, EscWhole2 DEF Hardware!Beep
<1>5. ASSUME NEW n \in Number, NEW p \in BOOLEAN, c = Hardware!CutAfterFeed(n, p)
      PROVE  c \in Seq(Byte) /\ Ends(Hardware!Ready, c)
  <2> DEFINE y == IF p THEN 1 ELSE 0
  <2>1. c = <<27, 100, Hardware!Clamp(0, 255, n)>> \o <<29, 86, y>>
    BY <1>5 DEF Hardware!CutAfterFeed, Hardware!FeedLines, Hardware!Cut
  <2>2. y \in Byte BY DEF Byte
  <2> HIDE DEF y
  <2> QED BY <1>1, <2>1, <2>2, CutWhole
<1>6. ASSUME NEW n \in Number, c = Hardware!FeedLines(n)
  PROVE c \in Seq(Byte) /\ Ends(Hardware!Ready, c)
  <2>1. c = <<27, 100, Hardware!Clamp(0, 255, n)>> BY <1>6 DEF Hardware!FeedLines
  <2> QED BY <1>1, <2>1, EscWhole1
<1>7. ASSUME NEW n \in Number, c = Hardware!SetDensity(n)
  PROVE c \in Seq(Byte) /\ Ends(Hardware!Ready, c)
  <2>1. c = <<29, 40, 75, 2, 0, 49, Hardware!Clamp(0, 15, n)>> BY <1>7 DEF Hardware!SetDensity
  <2>2. 75 \in Byte /\ 49 \in Byte BY DEF Byte
  <2> QED BY <1>1, <2>1, <2>2, GsLong2
<1>8. ASSUME NEW n \in Number, c = Hardware!SetCodePage(n)
  PROVE c \in Seq(Byte) /\ Ends(Hardware!Ready, c)
  <2>1. c = <<27, 116, Hardware!Clamp(0, 255, n)>> BY <1>8 DEF Hardware!SetCodePage
  <2> QED BY <1>1, <2>1, EscWhole1
<1>9. CASE c = Hardware!Reset BY <1>9, EscWhole0 DEF Hardware!Reset
<1>11. CASE c = Hardware!SelfTest
  <2>1. c = <<29, 40, 65, 2, 0, 0, 2>> BY <1>11 DEF Hardware!SelfTest
  <2>2. 65 \in Byte /\ 0 \in Byte /\ 2 \in Byte BY DEF Byte
  <2> QED BY <2>1, <2>2, GsLong2
<1>10. ASSUME NEW x \in Number, NEW y \in Number, c \in Hardware!BuildBytes(x, y, 255)
       PROVE  c \in Seq(Byte) /\ Ends(Hardware!Ready, c)
  <2>1. PICK r \in Byte, g \in Byte, b \in Byte : c \in Hardware!Protocols(r, g, b)
    BY <1>1, <1>2, <1>10 DEF Hardware!BuildBytes
  <2>2. Hardware!Slot(r, g, b) \in Byte BY DEF Hardware!Slot, Byte
  <2>8. 1 \in Byte /\ 0 \in Byte /\ 67 \in Byte BY DEF Byte
  <2>3. CASE c = <<27, 67, r, g, b>> BY <2>3, EscWhole3
  <2>4. CASE c = <<29, 78, 1, r, g, b>> BY <2>4, <2>8, GsWhole4
  <2>5. CASE c = <<29, 40, 67, 4, 0, 1, r, g, b>> BY <2>5, <2>8, GsLong4
  <2>6. CASE c = <<29, 140, r, g, b>> BY <2>6, GsWhole3
  <2>7. CASE c = <<27, 76, Hardware!Slot(r, g, b)>> BY <2>2, <2>7, EscWhole1
  <2> QED BY <2>1, <2>3, <2>4, <2>5, <2>6, <2>7 DEF Hardware!Protocols
<1>12. \/ \E pin \in {2, 5}, n \in Number : c = Hardware!CashDrawer(pin, n, 255)
       \/ \E n \in Number : c \in {Hardware!Beep(n, n), Hardware!FeedLines(n), Hardware!SetDensity(n), Hardware!SetCodePage(n)}
       \/ \E n \in Number, p \in BOOLEAN : c = Hardware!CutAfterFeed(n, p)
       \/ c \in {Hardware!Reset, Hardware!SelfTest}
       \/ \E x, y \in Number : c \in Hardware!BuildBytes(x, y, 255)
  BY DEF Hardware!Commands
<1> QED BY <1>3, <1>4, <1>5, <1>6, <1>7, <1>8, <1>9, <1>10, <1>11, <1>12

-----------------------------------------------------------------------------
\* What the bits of a mode mean can be read back from them.
LEMMA BitsAreReadBack ==
  ASSUME NEW D, NEW B, NEW c \in SUBSET D,
         \A f \in D : B[f] # {} /\ B[f] \cap {1, 4} = {},
         \A f, g \in D : f # g => B[f] \cap B[g] = {}
  PROVE  {f \in D : ({1, 4} \cup UNION {B[g] : g \in c}) \cap B[f] # {}} = c
OBVIOUS

LEMMA BitsApart ==
  ASSUME NEW m \in 1..3
  PROVE  /\ Hardware!Mask(m) = Hardware!Bits(m)
         /\ \A f \in DOMAIN Hardware!Bits(m) :
              /\ Hardware!Bits(m)[f] # {} /\ Hardware!Bits(m)[f] \cap {1, 4} = {}
              /\ \A g \in DOMAIN Hardware!Bits(m) :
                   f # g => Hardware!Bits(m)[f] \cap Hardware!Bits(m)[g] = {}
<1>1. CASE m = 1 BY <1>1 DEF Hardware!Mask, Hardware!Bits
<1>2. CASE m = 2 BY <1>2 DEF Hardware!Mask, Hardware!Bits
<1>3. CASE m = 3 BY <1>3 DEF Hardware!Mask, Hardware!Bits
<1> QED BY <1>1, <1>2, <1>3

LEMMA StatusIsReadBack ==
  ASSUME NEW m \in 1..3, NEW c \in SUBSET DOMAIN Hardware!Bits(m)
  PROVE  Hardware!ParseStatusByte(m, Hardware!StatusByte(m, c)) = c
<1>1. Hardware!ParseStatusByte(m, Hardware!StatusByte(m, c))
        = {f \in DOMAIN Hardware!Bits(m) :
             ({1, 4} \cup UNION {Hardware!Bits(m)[g] : g \in c}) \cap Hardware!Bits(m)[f] # {}}
  BY BitsApart DEF Hardware!ParseStatusByte, Hardware!StatusByte
<1> QED BY <1>1, BitsApart, BitsAreReadBack

\* Answers the printer gives.
Reply ==
  UNION {{[mode |-> m, conditions |-> c, byte |-> Hardware!StatusByte(m, c)] :
            c \in SUBSET DOMAIN Hardware!Bits(m)} : m \in Hardware!Mode}

StreamInv ==
  /\ interp \in State /\ stream \in Seq(Byte)
  /\ sender \in {"control", "raw"} /\ clean \in BOOLEAN
  /\ spoiled \subseteq {"raw"} /\ wide = FALSE
  /\ sender = "control" /\ clean => Ends(interp, stream)

StatusInv ==
  /\ asking \in 0..4 /\ waiting \in Seq(Hardware!Mode) /\ inbox \in Seq(Reply)
  /\ DOMAIN results = Hardware!Mode /\ Hardware!FlagsTrue

LEMMA OnlyReadyIsOver == ASSUME NEW s \in State, Ends(s, <<>>) PROVE s = Hardware!Ready
<1>1. Len(<<>>) = 0 OBVIOUS
<1>2. s.need \in Nat BY DEF State
<1>3. s.at = "text" /\ s.need = 0 BY <1>1, <1>2 DEF Ends, Finishes, FeedsAndCuts
<1> QED BY <1>3 DEF State, Hardware!Ready

LEMMA StreamInit == Hardware!Init => StreamInv
<1> SUFFICES ASSUME Hardware!Init PROVE StreamInv OBVIOUS
<1>1. interp = Hardware!Ready /\ stream = <<>> /\ spoiled = {} /\ wide = FALSE
  BY DEF Hardware!Init
<1>2. Hardware!Ready \in State BY DEF Hardware!Ready, State
<1>4. sender = "control" /\ clean = TRUE BY DEF Hardware!Init
<1>3. Ends(Hardware!Ready, <<>>) BY DEF Ends, Finishes, Hardware!Ready
<1> QED BY <1>1, <1>2, <1>3, <1>4 DEF StreamInv

LEMMA BytesAreNotWide ==
  ASSUME NEW b \in Seq(Byte) PROVE ~\E i \in DOMAIN b : b[i] \notin 0..255
BY LenProperties DEF Byte

LEMMA RawBytes ==
  ASSUME Hardware!HardwareAssumption, NEW a \in Line, NEW b \in Line
    PROVE Hardware!ParseRawInput(a, b) \in Seq(Byte)
<1> DEFINE escapes == a.escapes \/ b.escapes
           Parse(l) == IF escapes /\ ~l.escapes THEN l.text ELSE l.bytes
<1>1. \A l \in Line : l.bytes \in Seq(Byte) /\ l.text \in Seq(Byte)
  BY DEF Hardware!HardwareAssumption, Byte
<1>2. Parse(a) \in Seq(Byte) /\ Parse(b) \in Seq(Byte) BY <1>1
<1>3. Hardware!ParseRawInput(a, b) = Parse(a) \o Parse(b) BY DEF Hardware!ParseRawInput
<1> HIDE DEF Parse
<1> QED BY <1>2, <1>3, ConcatProperties

LEMMA StreamStep == Hardware!HardwareAssumption /\ StreamInv
     /\ [Hardware!Next]_(Hardware!vars) => StreamInv'
<1> SUFFICES ASSUME Hardware!HardwareAssumption, StreamInv, [Hardware!Next]_(Hardware!vars)
  PROVE StreamInv' OBVIOUS
<1>1. CASE Hardware!Control
  <2>1. PICK c \in Hardware!Commands : Hardware!Send("control", c) BY <1>1 DEF Hardware!Control
  <2>2. c \in Seq(Byte) /\ Ends(Hardware!Ready, c) BY CommandsAreWhole
  <2>3. /\ stream' = c /\ clean' = (interp = Hardware!Ready) /\ sender' = "control"
        /\ interp' = interp /\ spoiled' = spoiled
        /\ wide' = (wide \/ \E i \in DOMAIN c : c[i] \notin 0..255)
    BY <2>1 DEF Hardware!Send
  <2>4. wide' = FALSE BY <2>2, <2>3, BytesAreNotWide DEF StreamInv
  <2> QED BY <2>2, <2>3, <2>4 DEF StreamInv
<1>2. CASE \E a, b \in Line : Hardware!Raw(a, b)
  <2>1. PICK a \in Line, b \in Line : Hardware!Raw(a, b) BY <1>2
  <2> DEFINE c == Hardware!ParseRawInput(a, b)
  <2>2. c \in Seq(Byte) BY RawBytes
  <2>3. /\ stream' = c /\ sender' = "raw" /\ clean' = (interp = Hardware!Ready)
        /\ interp' = interp /\ spoiled' = spoiled
        /\ wide' = (wide \/ \E i \in DOMAIN c : c[i] \notin 0..255)
    BY <2>1 DEF Hardware!Raw, Hardware!Send
  <2> HIDE DEF c
  <2>4. wide' = FALSE BY <2>2, <2>3, BytesAreNotWide DEF StreamInv
  <2> QED BY <2>2, <2>3, <2>4 DEF StreamInv
<1>3. CASE Hardware!Take
  <2>1. /\ stream # <<>> /\ stream' = Tail(stream)
        /\ interp' = Hardware!Interpret(interp, Head(stream))
        /\ spoiled' = IF stream' = <<>> /\ clean /\ interp' # Hardware!Ready
                      THEN spoiled \cup {sender} ELSE spoiled
        /\ sender' = sender /\ clean' = clean /\ wide' = wide
    BY <1>3 DEF Hardware!Take
  <2>2. interp \in State /\ stream \in Seq(Byte) BY DEF StreamInv
  <2>3. stream' \in Seq(Byte) /\ Head(stream) \in Byte BY <2>1, <2>2, HeadTailProperties
  <2>4. interp' \in State BY <2>1, <2>2, <2>3, InterpretTyped
  <2>5. sender = "control" /\ clean => Ends(interp', stream')
    BY <2>1, <2>2, ReadsOn DEF StreamInv
  <2>6. sender = "control" /\ clean /\ stream' = <<>> => interp' = Hardware!Ready
    BY <2>4, <2>5, OnlyReadyIsOver
  <2>7. clean \in BOOLEAN /\ sender \in {"control", "raw"} BY DEF StreamInv
  <2>8. spoiled' \subseteq {"raw"} BY <2>1, <2>6, <2>7 DEF StreamInv
  <2> QED BY <2>1, <2>3, <2>4, <2>5, <2>8 DEF StreamInv
<1>4. CASE UNCHANGED <<interp, stream, sender, clean, spoiled, wide>> BY <1>4 DEF StreamInv
<1> QED
  BY <1>1, <1>2, <1>3, <1>4 DEF Hardware!Next, Hardware!Ask, Hardware!Answer, Hardware!Read,
       Hardware!Timeout, Hardware!Quiesced, Hardware!vars

LEMMA StatusInit == Hardware!Init => StatusInv
<1> SUFFICES ASSUME Hardware!Init PROVE StatusInv OBVIOUS
<1>1. /\ asking = 0 /\ waiting = <<>> /\ inbox = <<>>
      /\ results = [m \in Hardware!Mode |-> [kind |-> "unasked"]]
  BY DEF Hardware!Init
<1>2. waiting \in Seq(Hardware!Mode) /\ inbox \in Seq(Reply) BY <1>1
<1>3. Hardware!FlagsTrue
  <2> SUFFICES ASSUME NEW m \in 1..3 PROVE results[m].kind # "answer" BY DEF Hardware!FlagsTrue
  <2> QED BY <1>1 DEF Hardware!Mode
<1> QED BY <1>1, <1>2, <1>3 DEF StatusInv

LEMMA StatusStep == StatusInv /\ [Hardware!Next]_(Hardware!vars) => StatusInv'
<1> SUFFICES ASSUME StatusInv, [Hardware!Next]_(Hardware!vars) PROVE StatusInv' OBVIOUS
<1>0. asking \in 0..4 /\ waiting \in Seq(Hardware!Mode) /\ inbox \in Seq(Reply)
    /\ DOMAIN results = Hardware!Mode /\ Hardware!FlagsTrue
  BY DEF StatusInv
<1>1. CASE Hardware!Ask
  <2>1. asking' = 1 /\ waiting' = Append(waiting, 1) /\ inbox' = inbox BY <1>1 DEF Hardware!Ask
  <2>2. results' = [m \in Hardware!Mode |-> [kind |-> "unasked"]] BY <1>1 DEF Hardware!Ask
  <2>3. waiting' \in Seq(Hardware!Mode) BY <1>0, <2>1, AppendProperties DEF Hardware!Mode
  <2>4. Hardware!FlagsTrue'
    <3> SUFFICES ASSUME NEW m \in 1..3
      PROVE results'[m].kind # "answer" BY DEF Hardware!FlagsTrue
    <3> QED BY <2>2 DEF Hardware!Mode
  <2> QED BY <1>0, <2>1, <2>2, <2>3, <2>4 DEF StatusInv
<1>2. CASE Hardware!Answer
  <2>1. /\ waiting # <<>> /\ waiting' = Tail(waiting) /\ asking' = asking /\ results' = results
    BY <1>2 DEF Hardware!Answer
  <2>2. Head(waiting) \in Hardware!Mode /\ waiting' \in Seq(Hardware!Mode)
    BY <1>0, <2>1, HeadTailProperties
  <2>3. PICK r \in Reply : inbox' = Append(inbox, r)
    <3>1. PICK c \in SUBSET DOMAIN Hardware!Bits(Head(waiting)) :
            inbox' = Append(inbox, [mode |-> Head(waiting), conditions |-> c,
                                    byte |-> Hardware!StatusByte(Head(waiting), c)])
      BY <1>2 DEF Hardware!Answer
    <3> QED BY <2>2, <3>1 DEF Reply
  <2>4. inbox' \in Seq(Reply) BY <1>0, <2>3, AppendProperties
  <2>5. Hardware!FlagsTrue' BY <1>0, <2>1 DEF Hardware!FlagsTrue
  <2> QED BY <1>0, <2>1, <2>2, <2>4, <2>5 DEF StatusInv
<1>3. CASE Hardware!Read
  <2> DEFINE h == Head(inbox)
             new == [kind |-> "answer", of |-> h, flags |-> Hardware!ParseStatusByte(asking, h.byte)]
  <2>1. asking # 0 /\ inbox # <<>> /\ inbox' = <<>>
      /\ results' = [results EXCEPT ![asking] = new] /\ Hardware!Onward
    BY <1>3 DEF Hardware!Read
  <2>2. h \in Reply BY <1>0, <2>1, HeadTailProperties
  <2>3. PICK m \in Hardware!Mode : \E c \in SUBSET DOMAIN Hardware!Bits(m) :
          h = [mode |-> m, conditions |-> c, byte |-> Hardware!StatusByte(m, c)]
    BY <2>2 DEF Reply
  <2>11. PICK c \in SUBSET DOMAIN Hardware!Bits(m) : h = [mode |-> m, conditions |-> c, byte |-> Hardware!StatusByte(m, c)]
    BY <2>3
  <2>4. asking \in Hardware!Mode BY <1>0, <2>1 DEF Hardware!Mode
  <2>5. new.of.mode = m /\ new.of.conditions = c
      /\ new.flags = Hardware!ParseStatusByte(asking, Hardware!StatusByte(m, c))
    BY <2>11
  <2>6. asking \in 1..3 /\ new.of.mode = asking => new.flags = new.of.conditions
    BY <2>5, StatusIsReadBack
  <2> HIDE DEF new, h
  <2>7. \A k \in Hardware!Mode : results'[k] = IF k = asking THEN new ELSE results[k]
    BY <1>0, <2>1, <2>4
  <2>8. Hardware!FlagsTrue'
    <3> SUFFICES ASSUME NEW k \in 1..3, results'[k].kind = "answer", results'[k].of.mode = k
                 PROVE  results'[k].flags = results'[k].of.conditions
      BY DEF Hardware!FlagsTrue
    <3>1. k \in Hardware!Mode BY DEF Hardware!Mode
    <3>2. CASE k = asking BY <2>6, <2>7, <3>1, <3>2
    <3>3. CASE k # asking BY <1>0, <2>7, <3>1, <3>3 DEF Hardware!FlagsTrue
    <3> QED BY <3>2, <3>3
  <2>9. DOMAIN results' = Hardware!Mode /\ inbox' \in Seq(Reply) BY <1>0, <2>1
  <2>10. asking' \in 0..4 /\ waiting' \in Seq(Hardware!Mode)
    <3>1. CASE asking = 4 BY <1>0, <2>1, <3>1 DEF Hardware!Onward
    <3>2. CASE asking # 4
      <4>1. asking' = asking + 1 /\ waiting' = Append(waiting, asking + 1)
        BY <2>1, <3>2 DEF Hardware!Onward
      <4>2. asking + 1 \in Hardware!Mode BY <2>4, <3>2 DEF Hardware!Mode
      <4>3. waiting' \in Seq(Hardware!Mode) BY <1>0, <4>1, <4>2, AppendProperties
      <4> QED BY <4>1, <4>2, <4>3 DEF Hardware!Mode
    <3> QED BY <3>1, <3>2
  <2> QED BY <2>8, <2>9, <2>10 DEF StatusInv
<1>4. CASE Hardware!Timeout
  <2> DEFINE unanswered == IF Late THEN waiting ELSE <<>>
  <2>1. /\ asking # 0 /\ inbox' = inbox
        /\ results' = [results EXCEPT ![asking] = [kind |-> "none"]]
        /\ IF asking = 4 THEN asking' = 0 /\ waiting' = unanswered
           ELSE asking' = asking + 1 /\ waiting' = Append(unanswered, asking + 1)
    BY <1>4 DEF Hardware!Timeout
  <2>2. unanswered \in Seq(Hardware!Mode)
    <3>1. <<>> \in Seq(Hardware!Mode) OBVIOUS
    <3> QED BY <1>0, <3>1
  <2> HIDE DEF unanswered
  <2>3. asking \in Hardware!Mode BY <1>0, <2>1 DEF Hardware!Mode
  <2>4. \A k \in Hardware!Mode : results'[k] = IF k = asking THEN [kind |-> "none"] ELSE results[k]
    BY <1>0, <2>1, <2>3
  <2>5. Hardware!FlagsTrue'
    <3> SUFFICES ASSUME NEW k \in 1..3, results'[k].kind = "answer", results'[k].of.mode = k
                 PROVE  results'[k].flags = results'[k].of.conditions
      BY DEF Hardware!FlagsTrue
    <3>1. k \in Hardware!Mode BY DEF Hardware!Mode
    <3>2. CASE k = asking BY <2>4, <3>1, <3>2
    <3>3. CASE k # asking BY <1>0, <2>4, <3>1, <3>3 DEF Hardware!FlagsTrue
    <3> QED BY <3>2, <3>3
  <2>6. asking' \in 0..4 /\ waiting' \in Seq(Hardware!Mode)
    <3>1. CASE asking = 4 BY <1>0, <2>1, <2>2, <3>1
    <3>2. CASE asking # 4
      <4>1. asking' = asking + 1 /\ waiting' = Append(unanswered, asking + 1) BY <2>1, <3>2
      <4>2. asking + 1 \in Hardware!Mode BY <2>3, <3>2 DEF Hardware!Mode
      <4>3. waiting' \in Seq(Hardware!Mode) BY <2>2, <4>1, <4>2, AppendProperties
      <4> QED BY <4>1, <4>2, <4>3 DEF Hardware!Mode
    <3> QED BY <3>1, <3>2
  <2>7. DOMAIN results' = Hardware!Mode BY <1>0, <2>1
  <2> QED BY <1>0, <2>1, <2>5, <2>6, <2>7 DEF StatusInv
<1>5. CASE UNCHANGED <<asking, waiting, inbox, results>>
  BY <1>5 DEF StatusInv, Hardware!FlagsTrue
<1> QED
  BY <1>1, <1>2, <1>3, <1>4, <1>5 DEF Hardware!Next, Hardware!Control, Hardware!Raw,
       Hardware!Send, Hardware!Take, Hardware!Quiesced, Hardware!vars

LEMMA StyleInit == Hardware!Init => Hardware!LinesPickStyle
BY DEF Hardware!Init, Hardware!LinesPickStyle

LEMMA StyleStep == Hardware!LinesPickStyle
     /\ [Hardware!Next]_(Hardware!vars) => Hardware!LinesPickStyle'
<1> SUFFICES ASSUME Hardware!LinesPickStyle, [Hardware!Next]_(Hardware!vars)
  PROVE Hardware!LinesPickStyle' OBVIOUS
<1>1. CASE \E a, b \in Line : Hardware!Raw(a, b)
  <2>1. PICK a \in Line, b \in Line : Hardware!Raw(a, b) BY <1>1
  <2>2. console' = [lines |-> <<a, b>>, sent |-> Hardware!ParseRawInput(a, b)]
    BY <2>1 DEF Hardware!Raw
  <2>3. console'.lines[1] = a /\ console'.lines[2] = b
      /\ console'.sent = Hardware!ParseRawInput(a, b)
    BY <2>2
  <2>4. ASSUME a.escapes = b.escapes PROVE Hardware!ParseRawInput(a, b) = a.bytes \o b.bytes
    BY <2>4 DEF Hardware!ParseRawInput
  <2> QED BY <2>3, <2>4 DEF Hardware!LinesPickStyle
<1>2. CASE UNCHANGED console BY <1>2 DEF Hardware!LinesPickStyle
<1> QED
  BY <1>1, <1>2 DEF Hardware!Next, Hardware!Control, Hardware!Take, Hardware!Ask,
       Hardware!Answer, Hardware!Read, Hardware!Timeout, Hardware!Quiesced, Hardware!vars

\* hardware.py and led.py: a form may hold any number and the console any line;
\* a control is a whole command of bytes, whatever came before it, and a status
\* answer read for its own query says what the printer reported.
THEOREM PrinterStaysInStep == ServerSpec => []PrinterInStep
<1>1. StreamInv /\ [Hardware!Next]_(Hardware!vars) => StreamInv' BY ServerAssumption, StreamStep
<1>2. StreamInv /\ StatusInv /\ Hardware!LinesPickStyle => PrinterInStep
  BY DEF StreamInv, StatusInv, PrinterInStep, Hardware!WholeCommands, Hardware!BytesFit
<1> QED
  BY <1>1, <1>2, StreamInit, StatusInit, StatusStep, StyleInit, StyleStep, PartsRun, PTL
       DEF Hardware!Spec
=============================================================================
