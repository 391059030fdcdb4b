------------------------------ MODULE Briefing ------------------------------
(***************************************************************************)
(* The scheduled briefing of app.py: the thread that polls the wall clock, *)
(* gathers the sections of widgets.morning_briefing_sections from three    *)
(* services and prints them one by one.                                    *)
(*                                                                         *)
(* Time is counted in ticks of which Poll make up the 60 s between looks   *)
(* at the clock; a date has Hours * Minutes ticks and starts over, so that *)
(* runs are endless.  Sleeping follows the monotonic clock, the target the *)
(* wall clock, which may step in either direction (NTP, daylight saving,   *)
(* a suspended Pi).                                                        *)
(***************************************************************************)
EXTENDS Integers, Sequences, FiniteSets

CONSTANTS
  Hours, Minutes,  \* ticks of a date: Hours * Minutes
  Poll,            \* 60 s
  Configs,         \* values of BRIEFING_SCHEDULE: the numbers between its colons
  MaxBack,         \* bound: ticks the wall clock may be set back in all
  MaxForward,      \* bound: ticks it may be set forward in all
  MaxSlow          \* bound: ticks one briefing may take

\* What the constants may be.
ClockAssumption ==
  /\ Hours \in Nat \ {0} /\ Minutes \in Nat \ {0} /\ Poll \in Nat \ {0}
  /\ MaxBack \in Nat /\ MaxForward \in Nat /\ MaxSlow \in Nat
  /\ Poll + 1 + MaxSlow < Hours * Minutes

Day  == Hours * Minutes
Skip == Poll + 1      \* the 61 s after a briefing

\* What a service may answer: nothing usable, an empty value, what it
\* documents, or JSON of another shape.
Answer == {"down", "empty", "good", "odd"}
Gathering == <<"intro", "weather", "hacker_news", "on_this_day">>

VARIABLES
  config,    \* BRIEFING_SCHEDULE
  pc,        \* boot, off, crashed, check, sleep, section, print
  left,      \* ticks still to sleep
  then,      \* what follows the sleep
  wall,      \* the wall clock's time of day
  sections,  \* what has been gathered: "card" or "stub" for each section
  paper,     \* sections of this briefing that came out
  cause,     \* why the last briefing was cut short, or "none"
  slow,      \* ticks the briefing has taken
  starts,    \* briefings started on the clock's date
  due,       \* is a briefing owed on this date?
  missed,    \* has a date passed without the briefing it owed?
  steady,    \* ticks since the clock was last set, up to Skip
  early,     \* did a briefing start off its target with a steady clock?
  back, forward

vars == <<config, pc, left, then, wall, sections, paper, cause, slow, starts, due,
          missed, steady, early, back, forward>>
clock == <<wall, starts, due, missed, steady, back, forward>>
duty  == <<sections, paper, cause, slow>>

-----------------------------------------------------------------------------
(* The schedule                                                            *)

Off == Day
Bad == Day + 1

\* _parse_schedule: unset, or exactly two numbers in range; else ValueError.
Schedule(v) ==
  IF v = <<>> THEN Off
  ELSE IF Len(v) = 2 /\ v[1] \in 0..(Hours - 1) /\ v[2] \in 0..(Minutes - 1)
       THEN v[1] * Minutes + v[2] ELSE Bad

Target == Schedule(config)

\* _seconds_until: today if still ahead, else tomorrow.
Until(t) == IF Target <= t THEN Target + Day - t ELSE Target - t

Init ==
  /\ config \in Configs /\ pc = "boot" /\ left = 0 /\ then = "check"
  /\ wall \in 0..(Day - 1) /\ sections = <<>> /\ paper = 0 /\ cause = "none" /\ slow = 0
  /\ starts = 0 /\ due = FALSE /\ missed = FALSE /\ steady = Skip /\ early = FALSE
  /\ back = 0 /\ forward = 0

\* The module is loaded: a bad value stops the program, an unset one means no
\* thread.  A briefing is owed from then on if the target is still ahead.
Boot ==
  /\ pc = "boot"
  /\ pc' = CASE Target = Off -> "off" [] Target = Bad -> "crashed" [] OTHER -> "check"
  /\ due' = (Target < Day /\ wall < Target)
  /\ UNCHANGED <<config, left, then, wall, duty, starts, missed, steady, early, back, forward>>

Sleep(ticks, next) == pc' = "sleep" /\ left' = ticks /\ then' = next

Near(remaining) == remaining <= Poll

Check ==
  /\ pc = "check"
  /\ LET remaining == Until(wall) IN
     IF Near(remaining) THEN Sleep(remaining, "section") ELSE Sleep(Poll, "check")
  /\ UNCHANGED <<config, clock, duty, early>>

\* The sleep is over: back to the clock, or a briefing begins.
Wake ==
  /\ pc = "sleep" /\ left = 0 /\ pc' = then
  /\ IF then = "section"
     THEN /\ starts' = starts + 1 /\ early' = (early \/ (steady = Skip /\ wall # Target))
          /\ sections' = <<>> /\ paper' = 0 /\ cause' = "none" /\ slow' = 0
     ELSE UNCHANGED <<starts, early, duty>>
  /\ UNCHANGED <<config, left, then, wall, due, missed, steady, back, forward>>

-----------------------------------------------------------------------------
(* The sections                                                            *)

\* Mutant of Wttr: the request is made outside the try.
WttrRaises(a) == IF a = "down" THEN "raises" ELSE a

\* _fetch_wttr: any failure is an empty answer.
Wttr(a) == IF a = "down" THEN "empty" ELSE a

\* weather: an empty answer is a stub, and so is one the layout trips over.
Weather(a) == CASE Wttr(a) = "good" -> "card" [] Wttr(a) = "raises" -> "raises" [] OTHER -> "stub"

\* hacker_news: the ids are fetched and sliced inside a try; an item that is
\* not found is dropped; the items' layout is outside.
HackerNews(ids, items) ==
  IF ids \in {"down", "odd"} THEN "stub"
  ELSE IF ids = "good" /\ "odd" \in items THEN "raises" ELSE "card"

\* on_this_day: only the request is inside a try.
OnThisDay(a) ==
  CASE a \in {"down", "empty"} -> "stub" [] a = "good" -> "card" [] a = "odd" -> "raises"

\* What the next section comes to, for any answers.
Outcomes ==
  CASE Len(sections) = 0 -> {[text |-> "card", odd |-> FALSE]}
    [] Len(sections) = 1 -> {[text |-> Weather(a), odd |-> a = "odd"] : a \in Answer}
    [] Len(sections) = 2 -> {[text |-> HackerNews(a, i), odd |-> "odd" \in i \cup {a}] :
                               a \in Answer, i \in SUBSET Answer}
    [] Len(sections) = 3 -> {[text |-> OnThisDay(a), odd |-> a = "odd"] : a \in Answer}

\* The scheduler prints the traceback and sleeps on.
Survived == Sleep(Skip, "check")

\* Why a call raised: an answer of another shape, or anything else.
Section ==
  /\ pc = "section"
  /\ \E o \in Outcomes :
       IF o.text = "raises"
       THEN /\ cause' = (IF o.odd THEN "shape" ELSE "service")
            /\ Survived /\ UNCHANGED sections
       ELSE /\ sections' = Append(sections, o.text)
            /\ pc' = (IF Len(sections') = Len(Gathering) THEN "print" ELSE "section")
            /\ UNCHANGED <<cause, left, then>>
  /\ UNCHANGED <<config, clock, paper, slow, early>>

\* _print_sections: one image after the other; the printer may fail at any.
PrintOne ==
  /\ pc = "print" /\ paper' = paper + 1
  /\ IF paper' = Len(sections) THEN Survived ELSE UNCHANGED <<pc, left, then>>
  /\ UNCHANGED <<config, clock, sections, cause, slow, early>>

PrintFails ==
  /\ pc = "print" /\ cause' = "printer" /\ Survived
  /\ UNCHANGED <<config, clock, sections, paper, slow, early>>

-----------------------------------------------------------------------------
(* The clocks                                                              *)

Busy == pc \in {"section", "print"}

\* The wall clock moves to tick t >= wall, perhaps of the next date.
MoveTo(t) ==
  /\ wall' = t % Day
  /\ IF t < Day THEN UNCHANGED <<starts, due, missed>>
     ELSE /\ starts' = 0 /\ due' = (Target < Day /\ pc \notin {"boot", "off", "crashed"})
          /\ missed' = (missed \/ (due /\ starts = 0))

\* A tick of both clocks, while the thread sleeps or is at work.
Tick ==
  /\ (pc = "sleep" /\ left > 0) \/ (Busy /\ slow < MaxSlow)
  /\ left' = (IF pc = "sleep" THEN left - 1 ELSE left)
  /\ slow' = (IF Busy THEN slow + 1 ELSE slow)
  /\ steady' = (IF steady < Skip THEN steady + 1 ELSE Skip)
  /\ MoveTo(wall + 1)
  /\ UNCHANGED <<config, pc, then, sections, paper, cause, early, back, forward>>

\* The clock is set forward, or the Pi wakes from being suspended.
SetForward(d) ==
  /\ pc # "boot" /\ forward + d <= MaxForward /\ forward' = forward + d
  /\ steady' = 0 /\ MoveTo(wall + d)
  /\ UNCHANGED <<config, pc, left, then, duty, early, back>>

\* The clock is set back, within its date.
SetBack(d) ==
  /\ pc # "boot" /\ back + d <= MaxBack /\ back' = back + d /\ wall >= d
  /\ wall' = wall - d /\ steady' = 0
  /\ UNCHANGED <<config, pc, left, then, duty, starts, due, missed, early, forward>>

Idle == pc \in {"off", "crashed"} /\ UNCHANGED vars

Loop == Boot \/ Check \/ Wake \/ Section \/ PrintOne \/ PrintFails

Next ==
  \/ Loop \/ Tick
  \/ \E d \in 1..MaxForward : SetForward(d)
  \/ \E d \in 1..MaxBack : SetBack(d)
  \/ Idle

Spec == Init /\ [][Next]_vars

\* The thread is scheduled and time passes.
FairSpec == Spec /\ WF_vars(Loop) /\ WF_vars(Tick)

-----------------------------------------------------------------------------
(* Properties                                                              *)

TypeOK ==
  /\ pc \in {"boot", "off", "crashed", "check", "sleep", "section", "print"}
  /\ left \in 0..Day /\ then \in {"check", "section"} /\ wall \in 0..(Day - 1)
  /\ sections \in UNION {[1..n -> {"card", "stub"}] : n \in 0..Len(Gathering)}
  /\ paper \in 0..Len(Gathering) /\ cause \in {"none", "shape", "service", "printer"}
  /\ slow \in 0..MaxSlow /\ starts \in Nat /\ steady \in 0..Skip
  /\ {due, missed, early} \subseteq BOOLEAN

\* "Skip past the target minute so we fire once per day": no date sees two
\* briefings, even when the clock is set back by up to a minute in all.  (For
\* targets away from midnight: a late briefing counts for the date it starts on.)
OncePerDay == starts <= 1

\* No date on which the thread was up before the target ends without a briefing.
NoneMissed == ~missed

\* Unless the clock was set within the last minute, a briefing starts at its
\* target: whatever happened to the clock before that is noticed.
Punctual == ~early

\* A service that is down never costs the briefing: only an answer of
\* another shape or the printer cuts it short, and else all of it comes out.
OfflineStillPrints ==
  /\ cause # "service"
  /\ (pc = "sleep" /\ starts > 0 /\ then = "check" /\ cause = "none" /\ sections # <<>>)
       => paper = Len(Gathering)

\* "Tomorrow is another morning": whatever fails, a thread that was started
\* begins one briefing after the other for ever.
AnotherMorning == Target < Day => []<>(pc = "section")
=============================================================================
