--------------------------- MODULE BriefingProofs ---------------------------
(***************************************************************************)
(* Theorems about Briefing for any length of a date, any schedule, any     *)
(* answers of the services and any setting of the clock within its bounds. *)
(***************************************************************************)
EXTENDS Briefing, SequenceTheorems, TLAPS

-----------------------------------------------------------------------------
(* The numbers of a schedule                                               *)

\* A date has room for a poll and the sleep after a briefing.
LEMMA DateIsLong ==
  ASSUME ClockAssumption
  PROVE  /\ Day \in Nat \ {0} /\ Poll \in Nat \ {0} /\ Skip \in Nat /\ Skip = Poll + 1 /\ Skip < Day
         /\ MaxBack \in Nat /\ MaxForward \in Nat /\ MaxSlow \in Nat
<1>1. Hours * Minutes \in Nat /\ Hours * Minutes # 0
  BY DEF ClockAssumption
<1> QED BY <1>1 DEF ClockAssumption, Day, Skip

\* An hour and a minute of the clock name a tick of the date.
LEMMA HourFits ==
  ASSUME NEW a \in Nat, NEW b \in Nat, NEW h \in 0..(a - 1), NEW m \in 0..(b - 1)
  PROVE  h * b + m \in 0..(a * b - 1)
<1>1. \E k \in Nat : a = h + 1 + k
  <2>1. a - h - 1 \in Nat OBVIOUS
  <2> QED BY <2>1
<1>2. PICK k \in Nat : a = h + 1 + k BY <1>1
<1>3. a * b = h * b + b + k * b BY <1>2
<1>4. h * b \in Nat /\ k * b \in Nat OBVIOUS
<1> QED BY <1>3, <1>4

\* _parse_schedule: a tick of the date, no schedule, or no time at all.
LEMMA ScheduleFits ==
  ASSUME ClockAssumption, NEW v
  PROVE  Schedule(v) \in 0..(Day - 1) \/ Schedule(v) = Off \/ Schedule(v) = Bad
<1>1. CASE v # <<>> /\ Len(v) = 2 /\ v[1] \in 0..(Hours - 1) /\ v[2] \in 0..(Minutes - 1)
  <2>1. Hours \in Nat /\ Minutes \in Nat BY DEF ClockAssumption
  <2>2. v[1] * Minutes + v[2] \in 0..(Hours * Minutes - 1) BY <1>1, <2>1, HourFits
  <2> QED BY <1>1, <2>2 DEF Schedule, Day
<1> QED BY <1>1 DEF Schedule

\* A tick of the date for the target, and one for the clock, are 1 to Day apart.
LEMMA UntilFits ==
  ASSUME ClockAssumption, NEW t \in 0..(Day - 1), Target \in 0..(Day - 1)
  PROVE  /\ Until(t) \in 1..Day
         /\ t < Target => t + Until(t) = Target
         /\ t >= Target => t + Until(t) = Target + Day
BY DateIsLong DEF Until

\* The date starts over.
LEMMA ClockWraps ==
  ASSUME ClockAssumption, NEW t \in Nat
  PROVE  /\ t % Day \in 0..(Day - 1)
         /\ t < Day => t % Day = t
         /\ t >= Day /\ t < Day + Day => t % Day = t - Day
<1>1. Day \in Nat /\ Day > 0 BY DateIsLong
<1>2. \A d \in Nat : d > 0 => /\ t % d \in 0..(d - 1)
                              /\ t < d => t % d = t
                              /\ t >= d /\ t < d + d => t % d = t - d
  OBVIOUS
<1> QED BY <1>1, <1>2

-----------------------------------------------------------------------------
(* Types                                                                   *)

\* The thread runs only when the schedule names a time.
OnSchedule == pc \in {"check", "sleep", "section", "print"} => Target \in 0..(Day - 1)

\* What has been gathered and printed at each point: nothing is printed before
\* all four sections are there, and between briefings all of the last one is out
\* or the reason is known.
Gathered ==
  /\ sections \in Seq({"card", "stub"}) /\ Len(sections) \in 0..Len(Gathering)
  /\ pc = "section" => Len(sections) < Len(Gathering) /\ paper = 0 /\ cause = "none"
  /\ pc = "print" => Len(sections) = Len(Gathering) /\ paper < Len(Gathering) /\ cause = "none"
  /\ pc \in {"boot", "check", "sleep"} /\ cause = "none"
       => paper = Len(Gathering) \/ (sections = <<>> /\ paper = 0)

Typed ==
  /\ pc \in {"boot", "off", "crashed", "check", "sleep", "section", "print"}
  /\ left \in 0..Day /\ then \in {"check", "section"} /\ wall \in 0..(Day - 1)
  /\ paper \in 0..Len(Gathering) /\ cause \in {"none", "shape", "printer"}
  /\ slow \in 0..MaxSlow /\ starts \in Nat /\ steady \in 0..Skip
  /\ back \in 0..MaxBack /\ forward \in 0..MaxForward
  /\ due \in BOOLEAN /\ missed \in BOOLEAN /\ early \in BOOLEAN

IInv == Typed /\ OnSchedule /\ Gathered

LEMMA FourSections ==
  /\ Len(Gathering) = 4
  /\ \A n : n \in 0..Len(Gathering) /\ n < Len(Gathering) => n \in 0..3
<1>1. Len(Gathering) = 4 BY DEF Gathering
<1>2. \A n : n \in 0..4 /\ n < 4 => n \in 0..3 OBVIOUS
<1> QED BY <1>1, <1>2

\* Whatever the services answer, the next section is a card, a stub, or an
\* exception for an answer of another shape.
LEMMA OutcomesKnown ==
  ASSUME Len(sections) \in 0..3, NEW o \in Outcomes
  PROVE  o.text \in {"card", "stub"} \/ (o.text = "raises" /\ o.odd)
<1>1. CASE Len(sections) = 0 BY <1>1 DEF Outcomes
<1>2. CASE Len(sections) = 1
  <2>1. PICK a \in Answer : o = [text |-> Weather(a), odd |-> a = "odd"]
    BY <1>2 DEF Outcomes
  <2> QED BY <2>1 DEF Answer, Weather, Wttr
<1>3. CASE Len(sections) = 2
  <2>1. PICK a \in Answer, i \in SUBSET Answer :
          o = [text |-> HackerNews(a, i), odd |-> "odd" \in i \cup {a}]
    BY <1>3 DEF Outcomes
  <2>2. HackerNews(a, i) \in {"card", "stub"} \/ (HackerNews(a, i) = "raises" /\ "odd" \in i)
    BY DEF HackerNews
  <2> QED BY <2>1, <2>2
<1>4. CASE Len(sections) = 3
  <2>1. PICK a \in Answer : o = [text |-> OnThisDay(a), odd |-> a = "odd"]
    BY <1>4 DEF Outcomes
  <2>2. a = "odd" => OnThisDay(a) = "raises" BY DEF OnThisDay
  <2>3. a # "odd" => OnThisDay(a) \in {"card", "stub"} BY DEF OnThisDay, Answer
  <2> QED BY <2>1, <2>2, <2>3
<1> QED BY <1>1, <1>2, <1>3, <1>4

\* Moving the clock on keeps its types.
LEMMA MoveTyped ==
  ASSUME ClockAssumption, IInv, NEW t \in Nat, MoveTo(t)
  PROVE  /\ wall' \in 0..(Day - 1) /\ starts' \in Nat
         /\ due' \in BOOLEAN /\ missed' \in BOOLEAN
<1>1. wall' \in 0..(Day - 1) BY ClockWraps DEF MoveTo
<1>2. starts' \in Nat BY DEF MoveTo, IInv, Typed
<1>3. due' \in BOOLEAN BY DEF MoveTo, IInv, Typed
<1>4. missed' \in BOOLEAN BY DEF MoveTo, IInv, Typed
<1> QED BY <1>1, <1>2, <1>3, <1>4

LEMMA InitTyped == ASSUME ClockAssumption, Init PROVE IInv
<1>1. Typed
  <2>1. due \in BOOLEAN /\ missed \in BOOLEAN /\ early \in BOOLEAN BY DEF Init
  <2>2. left \in 0..Day /\ slow \in 0..MaxSlow /\ starts \in Nat /\ steady \in 0..Skip
    BY DateIsLong DEF Init
  <2>3. back \in 0..MaxBack /\ forward \in 0..MaxForward /\ paper \in 0..Len(Gathering)
    BY DateIsLong, FourSections DEF Init
  <2> QED BY <2>1, <2>2, <2>3 DEF Init, Typed
<1>2. OnSchedule BY DEF Init, OnSchedule
<1>3. Gathered BY FourSections DEF Init, Gathered
<1> QED BY <1>1, <1>2, <1>3 DEF IInv

LEMMA StepTyped == ASSUME ClockAssumption, IInv, [Next]_vars PROVE IInv'
<1> USE DateIsLong, FourSections DEF IInv, Typed, clock, duty
<1>1. CASE Boot
  <2>1. Target \in 0..(Day - 1) \/ Target = Off \/ Target = Bad BY ScheduleFits DEF Target
  <2>2. pc' = "check" => Target \in 0..(Day - 1) BY <1>1, <2>1 DEF Boot, Off, Bad
  <2>3. pc' \in {"off", "crashed", "check"} BY <1>1 DEF Boot
  <2>4. Target' = Target BY <1>1 DEF Boot, Target
  <2>5. due' \in BOOLEAN BY <1>1 DEF Boot
  <2>6. Typed' BY <1>1, <2>3, <2>5 DEF Boot
  <2>7. OnSchedule' BY <2>2, <2>3, <2>4 DEF OnSchedule
  <2>8. Gathered' BY <1>1, <2>3 DEF Boot, Gathered
  <2> QED BY <2>6, <2>7, <2>8
<1>2. CASE Check
  <2>1. Until(wall) \in 1..Day BY <1>2, UntilFits DEF Check, OnSchedule
  <2>2. pc' = "sleep" /\ left' \in 0..Day /\ then' \in {"check", "section"}
    BY <1>2, <2>1 DEF Check, Sleep
  <2>3. Typed' BY <1>2, <2>2 DEF Check
  <2>4. OnSchedule' BY <1>2, <2>2 DEF Check, OnSchedule, Target
  <2>5. Gathered' BY <1>2, <2>2 DEF Check, Gathered
  <2> QED BY <2>3, <2>4, <2>5
<1>3. CASE Wake
  <2>1. early' \in BOOLEAN BY <1>3 DEF Wake
  <2>2. CASE then = "section"
    <3>1. Typed' BY <1>3, <2>1, <2>2 DEF Wake
    <3>2. OnSchedule' BY <1>3, <2>2 DEF Wake, OnSchedule, Target
    <3>3. Gathered' BY <1>3, <2>2 DEF Wake, Gathered
    <3> QED BY <3>1, <3>2, <3>3
  <2>3. CASE then = "check"
    <3>1. Typed' BY <1>3, <2>1, <2>3 DEF Wake
    <3>2. OnSchedule' BY <1>3, <2>3 DEF Wake, OnSchedule, Target
    <3>3. Gathered' BY <1>3, <2>3 DEF Wake, Gathered
    <3> QED BY <3>1, <3>2, <3>3
  <2> QED BY <2>2, <2>3
<1>4. CASE Section
  <2>1. PICK o \in Outcomes :
          IF o.text = "raises"
          THEN /\ cause' = (IF o.odd THEN "shape" ELSE "service")
               /\ Survived /\ UNCHANGED sections
          ELSE /\ sections' = Append(sections, o.text)
               /\ pc' = (IF Len(sections') = Len(Gathering) THEN "print" ELSE "section")
               /\ UNCHANGED <<cause, left, then>>
    BY <1>4 DEF Section
  <2>2. o.text \in {"card", "stub"} \/ (o.text = "raises" /\ o.odd)
    <3>1. Len(sections) \in 0..3
      <4>1. pc = "section" BY <1>4 DEF Section
      <4>2. Len(sections) < Len(Gathering) /\ Len(sections) \in 0..Len(Gathering)
        BY <4>1 DEF Gathered
      <4> QED BY <4>2, FourSections
    <3> QED BY <3>1, OutcomesKnown
  <2>3. OnSchedule' BY <1>4 DEF Section, OnSchedule, Target
  <2>4. CASE o.text = "raises"
    <3>1. cause' = "shape" /\ pc' = "sleep" /\ left' = Skip /\ then' = "check"
      BY <2>1, <2>2, <2>4 DEF Survived, Sleep
    <3>2. Typed' BY <1>4, <3>1 DEF Section
    <3>3. Gathered' BY <1>4, <2>1, <2>4, <3>1 DEF Section, Gathered
    <3> QED BY <2>3, <3>2, <3>3
  <2>5. CASE o.text # "raises"
    <3>1. /\ sections' \in Seq({"card", "stub"}) /\ Len(sections') = Len(sections) + 1
          /\ Len(sections') # 0
      <4>1. sections' = Append(sections, o.text) /\ o.text \in {"card", "stub"}
        BY <2>1, <2>2, <2>5
      <4> QED BY <4>1, AppendProperties DEF Gathered
    <3>2. Typed' BY <1>4, <2>1, <2>5 DEF Section
    <3>3. Gathered' BY <1>4, <2>1, <2>5, <3>1 DEF Section, Gathered
    <3> QED BY <2>3, <3>2, <3>3
  <2> QED BY <2>4, <2>5
<1>5. CASE PrintOne
  <2>1. OnSchedule' BY <1>5 DEF PrintOne, OnSchedule, Target
  <2>2. Typed' BY <1>5 DEF PrintOne, Survived, Sleep, Gathered
  <2>3. Gathered'
    <3>1. CASE paper' = Len(sections) BY <1>5, <3>1 DEF PrintOne, Survived, Sleep, Gathered
    <3>2. CASE paper' # Len(sections)
      <4>1. pc' = "print" /\ sections' = sections /\ cause' = cause /\ paper' = paper + 1
        BY <1>5, <3>2 DEF PrintOne
      <4>2. Len(sections) = 4 /\ paper < 4 /\ cause = "none" BY <1>5 DEF PrintOne, Gathered
      <4>3. paper' \in 0..4 /\ paper' < 4 BY <3>2, <4>1, <4>2
      <4> QED BY <4>1, <4>2, <4>3 DEF Gathered
    <3> QED BY <3>1, <3>2
  <2> QED BY <2>1, <2>2, <2>3
<1>6. CASE PrintFails
  <2>1. OnSchedule' BY <1>6 DEF PrintFails, OnSchedule, Target
  <2>2. Typed' BY <1>6 DEF PrintFails, Survived, Sleep
  <2>3. Gathered' BY <1>6 DEF PrintFails, Survived, Sleep, Gathered
  <2> QED BY <2>1, <2>2, <2>3
<1>7. CASE Tick
  <2>1. /\ wall' \in 0..(Day - 1) /\ starts' \in Nat
        /\ due' \in BOOLEAN /\ missed' \in BOOLEAN
    BY <1>7, MoveTyped DEF Tick
  <2>2. OnSchedule' BY <1>7 DEF Tick, OnSchedule, Target
  <2>3. left' \in 0..Day /\ slow' \in 0..MaxSlow /\ steady' \in 0..Skip
    BY <1>7 DEF Tick, Busy
  <2>4. Typed' BY <1>7, <2>1, <2>3 DEF Tick
  <2>5. Gathered' BY <1>7 DEF Tick, Gathered
  <2> QED BY <2>2, <2>4, <2>5
<1>8. ASSUME NEW d \in 1..MaxForward, SetForward(d) PROVE IInv'
  <2>1. /\ wall' \in 0..(Day - 1) /\ starts' \in Nat
        /\ due' \in BOOLEAN /\ missed' \in BOOLEAN
    BY <1>8, MoveTyped DEF SetForward
  <2>2. OnSchedule' BY <1>8 DEF SetForward, OnSchedule, Target
  <2>3. Typed' BY <1>8, <2>1 DEF SetForward
  <2>4. Gathered' BY <1>8 DEF SetForward, Gathered
  <2> QED BY <2>2, <2>3, <2>4
<1>9. ASSUME NEW d \in 1..MaxBack, SetBack(d) PROVE IInv'
  <2>1. OnSchedule' BY <1>9 DEF SetBack, OnSchedule, Target
  <2>2. Typed' BY <1>9 DEF SetBack
  <2>3. Gathered' BY <1>9 DEF SetBack, Gathered
  <2> QED BY <2>1, <2>2, <2>3
<1>10. CASE UNCHANGED vars
  <2>1. OnSchedule' BY <1>10 DEF vars, OnSchedule, Target
  <2>2. Typed' BY <1>10 DEF vars
  <2>3. Gathered' BY <1>10 DEF vars, Gathered
  <2> QED BY <2>1, <2>2, <2>3
<1> QED BY <1>1, <1>2, <1>3, <1>4, <1>5, <1>6, <1>7, <1>8, <1>9, <1>10
        DEF Next, Loop, Idle

\* The invariant says more than the types the runs check.
LEMMA TypedMeansTypeOK == ASSUME IInv PROVE TypeOK
<1>1. sections \in [1..Len(sections) -> {"card", "stub"}]
  BY LenProperties DEF IInv, Gathered
<1>2. Len(sections) \in 0..Len(Gathering)
  BY FourSections, LenProperties DEF IInv, Gathered
<1>3. sections \in UNION {[1..n -> {"card", "stub"}] : n \in 0..Len(Gathering)}
  BY <1>1, <1>2
<1> QED BY <1>3 DEF IInv, Typed, TypeOK

\* The thread, its clock and its briefing stay in the states _briefing_loop knows.
THEOREM TypeCorrect == ASSUME ClockAssumption PROVE Spec => []TypeOK
<1>1. Init => IInv BY InitTyped
<1>2. IInv /\ [Next]_vars => IInv' BY StepTyped
<1>3. IInv => TypeOK BY TypedMeansTypeOK
<1> QED BY <1>1, <1>2, <1>3, PTL DEF Spec

\* A service that is down never costs the briefing: it is cut short by an answer
\* of another shape or by the printer, and otherwise all four sections come out
\* (morning_briefing_sections, _print_sections).
THEOREM OfflineIsNoFailure == ASSUME ClockAssumption PROVE Spec => []OfflineStillPrints
<1>1. Init => IInv BY InitTyped
<1>2. IInv /\ [Next]_vars => IInv' BY StepTyped
<1>3. IInv => OfflineStillPrints
  BY FourSections DEF IInv, Typed, Gathered, OfflineStillPrints
<1> QED BY <1>1, <1>2, <1>3, PTL DEF Spec

-----------------------------------------------------------------------------
(* The target and the clock                                                *)

\* A sleep for the target ends on it, unless the clock has been set meanwhile:
\* then it ends before the clock counts as steady again.
OnTarget ==
  pc = "sleep" /\ then = "section" =>
    /\ left <= Poll
    /\ steady + left <= Poll \/ wall + left = Target \/ wall + left = Target + Day

OnTime == OnTarget /\ ~early

LEMMA InitOnTime == ASSUME Init PROVE OnTime
BY DEF Init, OnTime, OnTarget

LEMMA StepOnTime == ASSUME ClockAssumption, IInv, OnTime, [Next]_vars PROVE OnTime'
<1> USE DateIsLong DEF OnTime, clock, duty
<1>1. Target' = Target BY DEF Next, Loop, Boot, Check, Wake, Section, PrintOne, PrintFails, Tick,
                              SetForward, SetBack, Idle, vars, Target
<1>2. ASSUME pc' # "sleep" \/ then' = "check", UNCHANGED early PROVE OnTime'
  BY <1>2 DEF OnTarget
<1>3. CASE Boot BY <1>2, <1>3 DEF Boot
<1>4. CASE Check
  <2>1. Target \in 0..(Day - 1) /\ wall \in 0..(Day - 1)
    BY <1>4 DEF Check, IInv, Typed, OnSchedule
  <2>2. /\ Until(wall) \in 1..Day
        /\ wall + Until(wall) = Target \/ wall + Until(wall) = Target + Day
    BY <2>1, UntilFits
  <2>3. CASE Near(Until(wall))
    <3>1. left' = Until(wall) /\ wall' = wall /\ Until(wall) <= Poll
      BY <1>4, <2>3 DEF Check, Sleep, Near
    <3>2. UNCHANGED early BY <1>4 DEF Check
    <3> QED BY <1>1, <2>2, <3>1, <3>2 DEF OnTarget
  <2>4. CASE ~Near(Until(wall)) BY <1>2, <1>4, <2>4 DEF Check, Sleep
  <2> QED BY <2>3, <2>4
<1>5. CASE Wake
  <2>1. pc' # "sleep" BY <1>5 DEF Wake, IInv, Typed
  <2>2. early' = early
    <3>1. CASE then = "section"
      <4>1. pc = "sleep" /\ left = 0 BY <1>5 DEF Wake
      <4>2. wall \in 0..(Day - 1) /\ steady \in 0..Skip /\ Target \in 0..(Day - 1)
        BY <4>1 DEF IInv, Typed, OnSchedule
      <4>3. steady + left <= Poll \/ wall + left = Target \/ wall + left = Target + Day
        BY <3>1, <4>1 DEF OnTarget
      <4>4. steady # Skip \/ wall = Target BY <4>1, <4>2, <4>3
      <4>5. early' = (early \/ (steady = Skip /\ wall # Target)) BY <1>5, <3>1 DEF Wake
      <4>6. early \in BOOLEAN BY DEF IInv, Typed
      <4> QED BY <4>4, <4>5, <4>6
    <3>2. CASE then # "section" BY <1>5, <3>2 DEF Wake
    <3> QED BY <3>1, <3>2
  <2> QED BY <2>1, <2>2 DEF OnTarget
<1>6. CASE Section
  <2>1. pc' # "sleep" \/ then' = "check"
    BY <1>6 DEF Section, Survived, Sleep
  <2> QED BY <1>2, <1>6, <2>1 DEF Section
<1>7. CASE PrintOne
  <2>1. pc' # "sleep" \/ then' = "check" BY <1>7 DEF PrintOne, Survived, Sleep
  <2> QED BY <1>2, <1>7, <2>1 DEF PrintOne
<1>8. CASE PrintFails BY <1>2, <1>8 DEF PrintFails, Survived, Sleep
<1>9. CASE Tick
  <2>1. CASE pc = "sleep" /\ then = "section"
    <3>1. /\ left \in 0..Day /\ left > 0 /\ wall \in 0..(Day - 1) /\ steady \in 0..Skip
          /\ Target \in 0..(Day - 1)
      BY <1>9, <2>1 DEF Tick, Busy, IInv, Typed, OnSchedule
    <3>2. left' = left - 1 /\ wall' = (wall + 1) % Day
          /\ steady' = (IF steady < Skip THEN steady + 1 ELSE Skip)
      BY <1>9, <2>1 DEF Tick, MoveTo
    <3>3. wall' = wall + 1 \/ (wall + 1 = Day /\ wall' = 0)
      BY <3>1, <3>2, ClockWraps
    <3>4. left <= Poll /\ (steady + left <= Poll \/ wall + left = Target \/ wall + left = Target + Day)
      BY <2>1 DEF OnTarget
    <3>5. left' <= Poll BY <3>1, <3>2, <3>4
    <3>6. steady' + left' <= Poll \/ wall' + left' = Target \/ wall' + left' = Target + Day
      <4>1. CASE steady + left <= Poll BY <3>1, <3>2, <4>1
      <4>2. CASE wall + left = Target \/ wall + left = Target + Day
        BY <3>1, <3>2, <3>3, <4>2
      <4> QED BY <3>4, <4>1, <4>2
    <3>7. UNCHANGED early BY <1>9 DEF Tick
    <3> QED BY <1>1, <3>5, <3>6, <3>7 DEF OnTarget
  <2>2. CASE pc # "sleep" \/ then # "section"
    <3>1. pc' # "sleep" \/ then' = "check" BY <1>9, <2>2 DEF Tick, IInv, Typed
    <3> QED BY <1>2, <1>9, <3>1 DEF Tick
  <2> QED BY <2>1, <2>2
<1>10. ASSUME steady' = 0, UNCHANGED <<pc, left, then, early>> PROVE OnTime'
  BY <1>10 DEF OnTarget, IInv, Typed
<1>11. ASSUME NEW d \in 1..MaxForward, SetForward(d) PROVE OnTime'
  BY <1>10, <1>11 DEF SetForward
<1>12. ASSUME NEW d \in 1..MaxBack, SetBack(d) PROVE OnTime'
  BY <1>10, <1>12 DEF SetBack
<1>13. CASE UNCHANGED vars BY <1>1, <1>13 DEF vars, OnTarget
<1> QED BY <1>3, <1>4, <1>5, <1>6, <1>7, <1>8, <1>9, <1>11, <1>12, <1>13 DEF Next, Loop, Idle

\* Unless the clock was set within the last minute, a briefing starts at its target
\* and at no other time, for any schedule and any settings of the clock
\* (_seconds_until, _briefing_loop).
THEOREM StartsOnTarget == ASSUME ClockAssumption PROVE Spec => []Punctual
<1>1. Init => IInv /\ OnTime BY InitTyped, InitOnTime
<1>2. IInv /\ OnTime /\ [Next]_vars => (IInv /\ OnTime)' BY StepTyped, StepOnTime
<1>3. OnTime => Punctual BY DEF OnTime, Punctual
<1> QED BY <1>1, <1>2, <1>3, PTL DEF Spec

-----------------------------------------------------------------------------
(* One briefing a date                                                     *)

\* The schedules keep clear of midnight: neither setting the clock back nor setting
\* it forward moves a briefing to another date than its target's.
ClearOfMidnight ==
  \A v \in Configs : Schedule(v) < Day => MaxBack <= Schedule(v) /\ Schedule(v) + MaxForward < Day

\* Where the clock is when a briefing has started on its date: past the target, by
\* so much that what the clock may still be set back does not undo it.
Past ==
  starts = 1 =>
    /\ Busy => wall >= Target - back
    /\ pc = "sleep" /\ then = "check" => wall + left >= Target + 1 + MaxBack - back
    /\ pc = "check" => wall >= Target + 1 + MaxBack - back

\* A sleep for the target ends on a date without a briefing: on this one, or on the
\* next.
Ahead ==
  pc = "sleep" /\ then = "section" =>
    \/ starts = 0 /\ Target - back <= wall + left /\ wall + left <= Target + forward
    \/ Target + Day - back <= wall + left /\ wall + left <= Target + Day + forward

Once ==
  /\ config \in Configs /\ starts \in {0, 1}
  /\ pc \in {"boot", "off", "crashed"} => starts = 0
  /\ Past /\ Ahead

LEMMA InitOnce == ASSUME Init PROVE Once
BY DEF Init, Once, Past, Ahead

LEMMA StepOnce ==
  ASSUME ClockAssumption, MaxBack <= Poll, ClearOfMidnight, IInv, Once, [Next]_vars
  PROVE  Once'
<1> USE DateIsLong DEF clock, duty
<1>1. UNCHANGED <<config, Target>>
  BY DEF Next, Loop, Boot, Check, Wake, Section, PrintOne, PrintFails, Tick, SetForward, SetBack,
         Idle, vars, Target
<1>2. Target \in 0..(Day - 1) => MaxBack <= Target /\ Target + MaxForward < Day
  BY DEF Once, ClearOfMidnight, Target
<1>3. /\ wall \in 0..(Day - 1) /\ left \in 0..Day /\ starts \in {0, 1} /\ then \in {"check", "section"}
      /\ back \in 0..MaxBack /\ forward \in 0..MaxForward /\ MaxBack <= Poll
      /\ pc \in {"check", "sleep", "section", "print"}
           => Target \in 0..(Day - 1) /\ MaxBack <= Target /\ Target + MaxForward < Day
  BY <1>2 DEF IInv, Typed, OnSchedule, Once
<1>4. CASE Boot
  <2>1. starts = 0 /\ starts' = 0 /\ pc' \in {"off", "crashed", "check"}
    BY <1>4 DEF Boot, Once
  <2> QED BY <1>1, <2>1 DEF Once, Past, Ahead
<1>5. CASE Check
  <2>1. /\ UNCHANGED <<wall, starts, back, forward>> /\ pc = "check" /\ pc' = "sleep"
        /\ Target \in 0..(Day - 1)
    BY <1>3, <1>5 DEF Check, Sleep
  <2>2. /\ Until(wall) \in 1..Day
        /\ wall < Target => wall + Until(wall) = Target
        /\ wall >= Target => wall + Until(wall) = Target + Day
    BY <1>3, <2>1, UntilFits
  <2>3. starts = 1 => wall >= Target + 1 + MaxBack - back BY <2>1 DEF Once, Past
  <2>4. CASE then' = "section" /\ left' = Until(wall)
    <3>1. starts = 1 => wall >= Target BY <1>3, <2>1, <2>3
    <3>2. Ahead' BY <1>1, <1>3, <2>1, <2>2, <2>4, <3>1 DEF Ahead
    <3> QED BY <1>1, <1>3, <2>1, <2>4, <3>2 DEF Once, Past, Busy
  <2>5. CASE then' = "check" /\ left' = Poll
    <3>1. Past' BY <1>1, <1>3, <2>1, <2>3, <2>5 DEF Past, Busy
    <3> QED BY <1>1, <1>3, <2>1, <2>5, <3>1 DEF Once, Ahead
  <2> QED BY <1>5, <2>4, <2>5 DEF Check, Sleep
<1>6. CASE Wake
  <2>1. pc = "sleep" /\ left = 0 /\ pc' = then /\ UNCHANGED <<wall, back, forward>>
    BY <1>6 DEF Wake
  <2>2. CASE then = "section"
    <3>1. ~(Target + Day - back <= wall + left) BY <1>3, <2>1
    <3>2. starts = 0 /\ Target - back <= wall + left
      BY <2>1, <2>2, <3>1 DEF Once, Ahead
    <3>3. starts' = 1 BY <1>6, <2>2, <3>2 DEF Wake
    <3>4. wall' >= Target' - back' BY <1>1, <1>3, <2>1, <3>2
    <3> QED BY <1>1, <2>1, <2>2, <3>3, <3>4 DEF Once, Past, Ahead, Busy
  <2>3. CASE then = "check"
    <3>1. starts' = starts BY <1>6, <2>3 DEF Wake
    <3>2. starts = 1 => wall + left >= Target + 1 + MaxBack - back
      BY <2>1, <2>3 DEF Once, Past
    <3>3. Past' BY <1>1, <1>3, <2>1, <2>3, <3>1, <3>2 DEF Past, Busy
    <3> QED BY <1>1, <1>3, <2>1, <2>3, <3>1, <3>3 DEF Once, Ahead
  <2> QED BY <1>3, <2>2, <2>3
<1>7. ASSUME pc \in {"section", "print"}, UNCHANGED <<wall, starts, back, forward>>,
             pc' \in {"section", "print"} \/ (pc' = "sleep" /\ left' = Skip /\ then' = "check")
      PROVE  Once'
  <2>1. starts = 1 => wall >= Target - back BY <1>7 DEF Once, Past, Busy
  <2>2. CASE pc' \in {"section", "print"}
    <3>1. Past' BY <1>1, <1>3, <1>7, <2>1, <2>2 DEF Past, Busy
    <3> QED BY <1>1, <1>3, <1>7, <2>2, <3>1 DEF Once, Ahead
  <2>3. CASE pc' = "sleep" /\ left' = Skip /\ then' = "check"
    <3>1. starts = 1 => wall + Skip >= Target + 1 + MaxBack - back BY <1>3, <1>7, <2>1
    <3>2. Past' BY <1>1, <1>3, <1>7, <2>3, <3>1 DEF Past, Busy
    <3> QED BY <1>1, <1>3, <1>7, <2>3, <3>2 DEF Once, Ahead
  <2> QED BY <1>7, <2>2, <2>3
<1>8. CASE Section
  <2>1. UNCHANGED <<wall, starts, back, forward>> /\ pc = "section" BY <1>8 DEF Section
  <2>2. pc' \in {"section", "print"} \/ (pc' = "sleep" /\ left' = Skip /\ then' = "check")
    BY <1>8 DEF Section, Survived, Sleep
  <2> QED BY <1>7, <2>1, <2>2
<1>9. CASE PrintOne
  <2>1. UNCHANGED <<wall, starts, back, forward>> /\ pc = "print" BY <1>9 DEF PrintOne
  <2>2. pc' \in {"section", "print"} \/ (pc' = "sleep" /\ left' = Skip /\ then' = "check")
    BY <1>9 DEF PrintOne, Survived, Sleep
  <2> QED BY <1>7, <2>1, <2>2
<1>10. CASE PrintFails
  <2>1. UNCHANGED <<wall, starts, back, forward>> /\ pc = "print" BY <1>10 DEF PrintFails
  <2>2. pc' = "sleep" /\ left' = Skip /\ then' = "check" BY <1>10 DEF PrintFails, Survived, Sleep
  <2> QED BY <1>7, <2>1, <2>2
\* The clock moves by d: on this date, or over midnight to a date without a briefing.
<1>11. ASSUME NEW d \in Nat, NEW e \in Nat, d < Day, e <= left, MoveTo(wall + d), UNCHANGED <<pc, then, back>>,
              left' = left - e, d >= e, forward' <= MaxForward,
              pc = "sleep" => forward' = forward + d - e,
              pc = "sleep" \/ e = 0
       PROVE  Once'
  <2>1. /\ wall + d < Day  => wall' = wall + d /\ starts' = starts
        /\ wall + d >= Day => wall' = wall + d - Day /\ starts' = 0
    BY <1>3, <1>11, ClockWraps DEF MoveTo
  <2>2. starts' \in {0, 1} /\ (starts' = 1 => wall' = wall + d /\ starts = 1) BY <1>3, <1>11, <2>1
  <2>3. pc' \in {"boot", "off", "crashed"} => starts' = 0 BY <1>11, <2>2 DEF Once
  <2>4. Past'
    <3>1. SUFFICES ASSUME starts' = 1
                   PROVE  /\ Busy' => wall' >= Target' - back'
                          /\ pc' = "sleep" /\ then' = "check"
                               => wall' + left' >= Target' + 1 + MaxBack - back'
                          /\ pc' = "check" => wall' >= Target' + 1 + MaxBack - back'
      BY DEF Past
    <3>2. wall' = wall + d /\ starts = 1 BY <2>2, <3>1
    <3>3. CASE pc = "sleep" /\ then = "check"
      <4>1. wall + left >= Target + 1 + MaxBack - back BY <3>2, <3>3 DEF Once, Past
      <4> QED BY <1>1, <1>3, <1>11, <3>2, <3>3, <4>1 DEF Busy
    <3>4. CASE pc = "check"
      <4>1. wall >= Target + 1 + MaxBack - back BY <3>2, <3>4 DEF Once, Past
      <4> QED BY <1>1, <1>3, <1>11, <3>2, <3>4, <4>1 DEF Busy
    <3>5. CASE Busy
      <4>1. wall >= Target - back BY <3>2, <3>5 DEF Once, Past
      <4> QED BY <1>1, <1>3, <1>11, <3>2, <3>5, <4>1 DEF Busy
    <3> QED BY <1>3, <1>11, <3>3, <3>4, <3>5 DEF Busy
  <2>5. Ahead'
    <3>1. SUFFICES ASSUME pc = "sleep", then = "section" PROVE Ahead' BY <1>11 DEF Ahead
    <3>2. CASE starts = 0 /\ Target - back <= wall + left /\ wall + left <= Target + forward
      <4>1. wall + d < Day BY <1>3, <1>11, <3>1, <3>2
      <4> QED BY <1>1, <1>3, <1>11, <2>1, <3>1, <3>2, <4>1 DEF Ahead
    <3>3. CASE Target + Day - back <= wall + left /\ wall + left <= Target + Day + forward
      <4>1. CASE wall + d < Day BY <1>1, <1>3, <1>11, <2>1, <3>1, <3>3, <4>1 DEF Ahead
      <4>2. CASE wall + d >= Day BY <1>1, <1>3, <1>11, <2>1, <3>1, <3>3, <4>2 DEF Ahead
      <4> QED BY <1>3, <1>11, <4>1, <4>2
    <3> QED BY <3>1, <3>2, <3>3 DEF Once, Ahead
  <2> QED BY <1>1, <1>3, <2>2, <2>3, <2>4, <2>5 DEF Once

<1>12. CASE Tick
  <2>1. MoveTo(wall + 1) /\ UNCHANGED <<pc, then, back, forward>> BY <1>12 DEF Tick
  <2>2. CASE pc = "sleep"
    <3>1. left > 0 /\ left' = left - 1 BY <1>12, <2>2 DEF Tick, Busy
    <3> QED BY <1>3, <1>11, <2>1, <2>2, <3>1
  <2>3. CASE pc # "sleep"
    <3>1. left' = left - 0 BY <1>3, <1>12, <2>3 DEF Tick
    <3> QED BY <1>3, <1>11, <2>1, <2>3, <3>1
  <2> QED BY <2>2, <2>3
<1>13. ASSUME NEW d \in 1..MaxForward, SetForward(d) PROVE Once'
  <2>1. /\ MoveTo(wall + d) /\ UNCHANGED <<pc, left, then, back>> /\ pc # "boot"
        /\ forward' = forward + d /\ forward' <= MaxForward
    BY <1>13 DEF SetForward
  <2>2. CASE pc \in {"off", "crashed"}
    <3>1. starts' = 0 BY <2>1, <2>2 DEF MoveTo, Once
    <3> QED BY <1>1, <1>3, <2>1, <2>2, <3>1 DEF Once, Past, Ahead
  <2>3. CASE pc \in {"check", "sleep", "section", "print"}
    <3>1. d < Day /\ left' = left - 0 /\ forward' = forward + d - 0 BY <1>3, <2>1, <2>3
    <3> QED BY <1>3, <1>11, <2>1, <3>1
  <2> QED BY <2>1, <2>2, <2>3 DEF IInv, Typed
<1>14. ASSUME NEW d \in 1..MaxBack, SetBack(d) PROVE Once'
  <2>1. /\ UNCHANGED <<pc, left, then, starts, forward>> /\ back' = back + d
        /\ wall' = wall - d
    BY <1>14 DEF SetBack
  <2>2. Past' BY <1>1, <1>3, <2>1 DEF Once, Past, Busy
  <2>3. Ahead' BY <1>1, <1>3, <2>1 DEF Once, Ahead
  <2> QED BY <1>1, <2>1, <2>2, <2>3 DEF Once
<1>15. CASE UNCHANGED vars
  <2>1. Past' BY <1>1, <1>15 DEF vars, Once, Past, Busy
  <2>2. Ahead' BY <1>1, <1>15 DEF vars, Once, Ahead
  <2> QED BY <1>1, <1>15, <2>1, <2>2 DEF vars, Once
<1> QED BY <1>4, <1>5, <1>6, <1>8, <1>9, <1>10, <1>12, <1>13, <1>14, <1>15 DEF Next, Loop, Idle

\* "Skip past the target minute so we fire once per day" (_briefing_loop): with
\* schedules clear of midnight and a clock that is set back by no more than a poll in
\* all, no date sees two briefings, whatever the services and the printer do.
THEOREM OneBriefingADate ==
  ASSUME ClockAssumption, MaxBack <= Poll, ClearOfMidnight
  PROVE  Spec => []OncePerDay
<1>1. Init => IInv /\ Once BY InitTyped, InitOnce
<1>2. IInv /\ Once /\ [Next]_vars => (IInv /\ Once)' BY StepTyped, StepOnce
<1>3. Once => OncePerDay BY DEF Once, OncePerDay
<1> QED BY <1>1, <1>2, <1>3, PTL DEF Spec

-----------------------------------------------------------------------------
(* No date without a briefing                                              *)

\* A briefing is owed on this date and has not begun.
Owed == due /\ starts = 0

\* While one is owed, its target is still ahead; and a briefing that runs over
\* midnight ends before the next target.
Reachable ==
  /\ pc \in {"boot", "off", "crashed"} => ~due
  /\ pc = "check" /\ Owed => wall < Target
  /\ pc = "sleep" /\ then = "check" =>
       wall + left < Target + Day /\ (Owed => wall + left < Target)
  /\ pc = "sleep" /\ then = "section" =>
       \/ Target - back <= wall + left /\ wall + left <= Target
       \/ Target + Day - back <= wall + left /\ wall + left <= Target + Day /\ ~Owed
  /\ Busy => (starts > 0 /\ wall <= Target + slow) \/ wall + Day <= Target + slow

LEMMA InitReachable == ASSUME Init PROVE Reachable /\ ~missed
BY DEF Init, Reachable, Busy

LEMMA StepReachable ==
  ASSUME ClockAssumption, MaxForward = 0, ClearOfMidnight, config \in Configs,
         IInv, Reachable, ~missed, [Next]_vars
  PROVE  Reachable' /\ ~missed'
<1> USE DateIsLong DEF clock, duty
<1>1. UNCHANGED <<config, Target>>
  BY DEF Next, Loop, Boot, Check, Wake, Section, PrintOne, PrintFails, Tick, SetForward, SetBack,
         Idle, vars, Target
<1>2. Target \in 0..(Day - 1) => MaxBack <= Target
  BY DEF ClearOfMidnight, Target
<1>3. /\ wall \in 0..(Day - 1) /\ left \in 0..Day /\ starts \in Nat /\ then \in {"check", "section"}
      /\ back \in 0..MaxBack /\ slow \in 0..MaxSlow /\ due \in BOOLEAN
      /\ pc \in {"boot", "off", "crashed", "check", "sleep", "section", "print"}
      /\ pc \in {"check", "sleep", "section", "print"} => Target \in 0..(Day - 1) /\ MaxBack <= Target
  BY <1>2 DEF IInv, Typed, OnSchedule
<1>4. Skip + MaxSlow < Day BY DEF ClockAssumption, Day, Skip
<1>5. CASE Boot
  <2>1. /\ UNCHANGED <<wall, starts, missed>> /\ pc' \in {"off", "crashed", "check"}
        /\ due' = (Target < Day /\ wall < Target)
        /\ pc' \in {"off", "crashed"} => Target = Off \/ Target = Bad
    BY <1>5 DEF Boot
  <2>2. pc' \in {"off", "crashed"} => ~due'
    <3>1. Target = Off \/ Target = Bad => ~(Target < Day) BY DateIsLong DEF Off, Bad
    <3> QED BY <2>1, <3>1, Zenon
  <2>3. pc' = "check" /\ Owed' => wall' < Target' BY <1>1, <2>1 DEF Owed
  <2> QED BY <2>1, <2>2, <2>3 DEF Reachable, Busy
<1>6. CASE Check
  <2>1. /\ UNCHANGED <<wall, starts, due, missed, back>> /\ pc = "check" /\ pc' = "sleep"
        /\ Target \in 0..(Day - 1)
    BY <1>3, <1>6 DEF Check, Sleep
  <2>2. /\ Until(wall) \in 1..Day
        /\ wall < Target => wall + Until(wall) = Target
        /\ wall >= Target => wall + Until(wall) = Target + Day
    BY <1>3, <2>1, UntilFits
  <2>3. Owed => wall < Target BY <2>1 DEF Reachable
  <2>4. Owed' = Owed BY <2>1 DEF Owed
  <2>5. CASE Near(Until(wall))
    <3>1. then' = "section" /\ left' = Until(wall) BY <1>6, <2>5 DEF Check, Sleep
    <3> QED BY <1>1, <1>3, <2>1, <2>2, <2>3, <2>4, <3>1 DEF Reachable, Busy
  <2>6. CASE ~Near(Until(wall))
    <3>1. then' = "check" /\ left' = Poll /\ Until(wall) > Poll
      BY <1>6, <2>2, <2>6 DEF Check, Sleep, Near
    <3> QED BY <1>1, <1>3, <2>1, <2>2, <2>3, <2>4, <3>1 DEF Reachable, Busy
  <2> QED BY <2>5, <2>6
<1>7. CASE Wake
  <2>1. pc = "sleep" /\ left = 0 /\ pc' = then /\ UNCHANGED <<wall, due, missed, back>>
    BY <1>7 DEF Wake
  <2>2. CASE then = "section"
    <3>1. wall <= Target BY <1>3, <2>1, <2>2 DEF Reachable
    <3>2. starts' > 0 /\ slow' = 0 BY <1>3, <1>7, <2>2 DEF Wake
    <3> QED BY <1>1, <1>3, <2>1, <2>2, <3>1, <3>2 DEF Reachable, Busy
  <2>3. CASE then = "check"
    <3>1. starts' = starts BY <1>7, <2>3 DEF Wake
    <3>2. Owed => wall < Target BY <1>3, <2>1, <2>3 DEF Reachable
    <3> QED BY <1>1, <2>1, <2>3, <3>1, <3>2 DEF Reachable, Busy, Owed
  <2> QED BY <1>3, <2>2, <2>3
<1>8. ASSUME Busy, UNCHANGED <<wall, starts, due, missed, back, slow>>,
             Busy' \/ (pc' = "sleep" /\ left' = Skip /\ then' = "check")
      PROVE  Reachable' /\ ~missed'
  <2>1. (starts > 0 /\ wall <= Target + slow) \/ wall + Day <= Target + slow BY <1>8 DEF Reachable
  <2>2. CASE Busy' BY <1>1, <1>8, <2>1, <2>2 DEF Reachable, Busy
  <2>3. CASE pc' = "sleep" /\ left' = Skip /\ then' = "check"
    <3>1. Target \in 0..(Day - 1) BY <1>3, <1>8 DEF Busy
    <3>2. wall + Skip < Target + Day /\ (starts = 0 => wall + Skip < Target)
      BY <1>3, <1>4, <2>1, <3>1
    <3> QED BY <1>1, <1>8, <2>3, <3>2 DEF Reachable, Busy, Owed
  <2> QED BY <1>8, <2>2, <2>3
<1>9. CASE Section
  <2>1. UNCHANGED <<wall, starts, due, missed, back, slow>> /\ Busy BY <1>9 DEF Section, Busy
  <2>2. Busy' \/ (pc' = "sleep" /\ left' = Skip /\ then' = "check")
    BY <1>9 DEF Section, Survived, Sleep, Busy
  <2> QED BY <1>8, <2>1, <2>2
<1>10. CASE PrintOne
  <2>1. UNCHANGED <<wall, starts, due, missed, back, slow>> /\ Busy BY <1>10 DEF PrintOne, Busy
  <2>2. Busy' \/ (pc' = "sleep" /\ left' = Skip /\ then' = "check")
    BY <1>10 DEF PrintOne, Survived, Sleep, Busy
  <2> QED BY <1>8, <2>1, <2>2
<1>11. CASE PrintFails
  <2>1. UNCHANGED <<wall, starts, due, missed, back, slow>> /\ Busy BY <1>11 DEF PrintFails, Busy
  <2>2. pc' = "sleep" /\ left' = Skip /\ then' = "check" BY <1>11 DEF PrintFails, Survived, Sleep
  <2> QED BY <1>8, <2>1, <2>2
<1>12. CASE Tick
  <2>1. /\ MoveTo(wall + 1) /\ UNCHANGED <<pc, then, back>>
        /\ left' = (IF pc = "sleep" THEN left - 1 ELSE left)
        /\ slow' = (IF Busy THEN slow + 1 ELSE slow)
    BY <1>12 DEF Tick, Busy
  <2>2. /\ Target \in 0..(Day - 1) /\ MaxBack <= Target /\ pc \in {"sleep", "section", "print"}
        /\ pc = "sleep" => left > 0
    BY <1>3, <1>12 DEF Tick, Busy
  <2>3. Owed => wall + 1 < Day
    <3>1. SUFFICES ASSUME Owed PROVE wall + 1 < Day OBVIOUS
    <3>2. CASE pc = "sleep" /\ then = "check" BY <1>3, <2>2, <3>1, <3>2 DEF Reachable
    <3>3. CASE pc = "sleep" /\ then = "section" BY <1>3, <2>2, <3>1, <3>3 DEF Reachable
    <3>4. CASE Busy
      <4>1. ~(starts > 0) BY <3>1 DEF Owed
      <4>2. wall + Day <= Target + slow BY <3>4, <4>1 DEF Reachable
      <4> QED BY <1>3, <1>4, <2>2, <4>2
    <3> QED BY <1>3, <2>2, <3>2, <3>3, <3>4 DEF Busy
  <2>4. CASE wall + 1 < Day
    <3>1. wall' = wall + 1 /\ UNCHANGED <<starts, due, missed>>
      BY <1>3, <2>1, <2>4, ClockWraps DEF MoveTo
    <3>2. CASE pc = "sleep"
      <4>1. wall' + left' = wall + left BY <1>3, <2>1, <3>1, <3>2
      <4> QED BY <1>1, <2>1, <3>1, <3>2, <4>1 DEF Reachable, Busy, Owed
    <3>3. CASE Busy
      <4>1. slow' = slow + 1 BY <2>1, <3>3
      <4> QED BY <1>1, <1>3, <2>1, <2>2, <3>1, <3>3, <4>1 DEF Reachable, Busy, Owed
    <3> QED BY <2>2, <3>2, <3>3 DEF Busy
  <2>5. CASE wall + 1 = Day
    <3>1. wall' = 0 /\ starts' = 0 /\ missed' = FALSE
      <4>1. ~(wall + 1 < Day) BY <1>3, <2>5
      <4>2. wall' = (wall + 1) % Day /\ starts' = 0 /\ missed' = (missed \/ Owed)
        BY <2>1, <4>1 DEF MoveTo, Owed
      <4>3. (wall + 1) % Day = 0
        <5>1. wall + 1 \in Nat /\ wall + 1 >= Day /\ wall + 1 < Day + Day BY <1>3, <2>5
        <5>2. PICK t \in Nat : t = wall + 1 BY <5>1
        <5>3. t >= Day /\ t < Day + Day BY <5>1, <5>2
        <5>4. t % Day = t - Day BY <5>3, ClockWraps
        <5> QED BY <1>3, <2>5, <5>2, <5>4
      <4>4. ~Owed BY <2>3, <4>1
      <4>5. missed' = FALSE BY <4>2, <4>4
      <4> QED BY <4>2, <4>3, <4>5
    <3>2. CASE pc = "sleep"
      <4>1. wall' + left' + Day = wall + left BY <1>3, <2>1, <2>5, <3>1, <3>2
      <4>2. CASE then = "check"
        <5>1. wall + left < Target + Day BY <3>2, <4>2 DEF Reachable
        <5>2. wall' + left' < Target BY <1>3, <2>1, <2>2, <3>1, <4>1, <5>1
        <5> QED BY <1>1, <1>3, <2>1, <2>2, <3>1, <3>2, <4>2, <5>2 DEF Reachable, Busy
      <4>3. CASE then = "section"
        <5>1. Target - back <= wall' + left' /\ wall' + left' <= Target
          BY <1>3, <2>1, <2>2, <3>1, <3>2, <4>1, <4>3 DEF Reachable
        <5> QED BY <1>1, <1>3, <2>1, <2>2, <3>1, <3>2, <4>3, <5>1 DEF Reachable, Busy
      <4> QED BY <1>3, <4>2, <4>3
    <3>3. CASE Busy
      <4>1. slow' = slow + 1 /\ pc' = pc BY <2>1, <3>3
      <4>2. wall' + Day <= Target' + slow' BY <1>1, <1>3, <2>2, <2>5, <3>1, <3>3, <4>1 DEF Reachable
      <4> QED BY <2>1, <3>1, <3>3, <4>2 DEF Reachable, Busy
    <3> QED BY <2>2, <3>2, <3>3 DEF Busy
  <2> QED BY <1>3, <2>4, <2>5
<1>13. ASSUME NEW d \in 1..MaxForward, SetForward(d) PROVE Reachable' /\ ~missed'
  BY <1>13
<1>14. ASSUME NEW d \in 1..MaxBack, SetBack(d) PROVE Reachable' /\ ~missed'
  <2>1. /\ UNCHANGED <<pc, left, then, slow, starts, due, missed>> /\ back' = back + d
        /\ wall' = wall - d
    BY <1>14 DEF SetBack, duty
  <2> QED BY <1>1, <1>3, <2>1 DEF Reachable, Busy, Owed
<1>15. CASE UNCHANGED vars BY <1>1, <1>15 DEF vars, Reachable, Busy, Owed
<1> QED BY <1>5, <1>6, <1>7, <1>9, <1>10, <1>11, <1>12, <1>13, <1>14, <1>15 DEF Next, Loop, Idle

\* A date on which the thread was up before its target does not end without a
\* briefing, however slow the services are and however often one fails, as long as
\* the clock is not set forward over the target (_briefing_loop).
THEOREM NoDateIsMissed ==
  ASSUME ClockAssumption, MaxForward = 0, ClearOfMidnight
  PROVE  Spec => []NoneMissed
<1> DEFINE Inv == IInv /\ config \in Configs /\ Reachable /\ ~missed
<1>1. Init => Inv BY InitTyped, InitReachable DEF Init
<1>2. Inv /\ [Next]_vars => Inv'
  <2>1. [Next]_vars => UNCHANGED config
    BY DEF Next, Loop, Boot, Check, Wake, Section, PrintOne, PrintFails, Tick, SetForward, SetBack,
           Idle, vars
  <2> QED BY <2>1, StepTyped, StepReachable
<1>3. Inv => NoneMissed BY DEF NoneMissed
<1> QED BY <1>1, <1>2, <1>3, PTL DEF Spec
=============================================================================
