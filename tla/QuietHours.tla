----------------------------- MODULE QuietHours -----------------------------
(***************************************************************************)
(* Quiet hours of features/delivery.py: a window on the owner's wall clock *)
(* whose offset from UTC changes with daylight saving, and the search for  *)
(* the first UTC minute at which a friend's print may come out.            *)
(*                                                                         *)
(* An instant is a UTC minute and the rest of it; a wall clock shows       *)
(* minutes 0 .. DayLen - 1.                                                *)
(***************************************************************************)
EXTENDS Integers

CONSTANTS
  DayLen,        \* minutes of a day
  Horizon,       \* 48 * 60: minutes the search tries
  Zone,          \* time zones
  Offset(_, _),  \* minutes a zone's wall clock is ahead of UTC at a UTC minute
  Rest,          \* parts of a minute, from 0
  MaxAge,        \* MAX_DAYS, in minutes
  Nothing,       \* None: no date given, no time configured
  Garbled,       \* text that is no date with a time zone
  Asked          \* bound: UTC minutes that are now, or asked for

Clock   == 0..(DayLen - 1)
Instant == [minute : Nat, rest : Rest]

ASSUME QuietAssumption ==
  /\ DayLen \in Nat \ {0} /\ Horizon \in Nat /\ MaxAge \in Nat
  /\ Rest \subseteq Nat /\ 0 \in Rest /\ Asked \subseteq Nat
  /\ Nothing \notin Nat \cup Instant /\ Garbled \notin Instant

\* A zone changes its offset seldom: among the minutes a search may try there is a
\* whole day of one offset.
ASSUME ZonesSettle ==
  \A z \in Zone, m \in Asked :
    /\ \A i \in m..(m + Horizon) : Offset(z, i) \in Int
    /\ \E k \in m..(m + Horizon + 1 - DayLen) :
         \A i \in k..(k + DayLen - 1) : Offset(z, i) = Offset(z, k)

Later(a, b)   == a.minute > b.minute \/ (a.minute = b.minute /\ a.rest > b.rest)
NotBefore(a, b) == a = b \/ Later(a, b)

VARIABLES
  first, last,   \* FRIEND_QUIET_START and _END
  zone,          \* FRIEND_QUIET_TIMEZONE
  pc,            \* config, off, ready, search, done, rejected, failed, crashed
  now, asked,    \* the request: its time and the date it asks for
  from,          \* where the search started
  candidate, tries,
  effective      \* what release returned

vars == <<first, last, zone, pc, now, asked, from, candidate, tries, effective>>
conf == <<first, last, zone>>

\* contains, on the wall clock of the minute; an instant's rest plays no part.
Contains(m) ==
  LET local == (m + Offset(zone, m)) % DayLen IN
  IF first < last THEN first <= local /\ local < last
  ELSE local >= first \/ local < last

Start == [minute |-> 0, rest |-> 0]

Init ==
  /\ first \in Clock \cup {Nothing} /\ last \in Clock \cup {Nothing} /\ zone \in Zone
  /\ pc = "config" /\ now = Start /\ asked = Nothing /\ from = Start
  /\ candidate = 0 /\ tries = 0 /\ effective = Start

\* parse_quiet at start-up: both empty is off, both given must differ.
Configure ==
  /\ pc = "config"
  /\ pc' = IF first = Nothing /\ last = Nothing THEN "off"
           ELSE IF first = Nothing \/ last = Nothing \/ first = last THEN "crashed" ELSE "ready"
  /\ UNCHANGED <<conf, now, asked, from, candidate, tries, effective>>

\* parse_requested: in the future, and at most a year away.
Requested(value, at) ==
  \/ value = Nothing
  \/ value \in Instant /\ Later(value, at)
     /\ NotBefore([minute |-> at.minute + MaxAge, rest |-> at.rest], value)

\* _enqueue_friend_print: parse the date, release it or the present.
Request(at, value) ==
  /\ pc = "ready" /\ now' = at /\ asked' = value
  /\ IF ~Requested(value, at)
     THEN pc' = "rejected" /\ UNCHANGED <<from, candidate, tries, effective>>
     ELSE LET when == IF value = Nothing THEN at ELSE value IN
          /\ from' = when /\ tries' = 0 /\ candidate' = when.minute + 1
          /\ effective' = when
          /\ pc' = IF Contains(when.minute) THEN "search" ELSE "done"
  /\ UNCHANGED conf

\* Mutant of Following: the search goes back in time.
FollowingBack(m) == m - 1

\* Mutant of Following: the search advances by whole days.
FollowingDay(m) == m + DayLen

Following(m) == m + 1

\* Mutant of Spent: the search ends after a day.
SpentDay(n) == n = DayLen

Spent(n) == n = Horizon

\* One turn of release's loop.
Search ==
  /\ pc = "search"
  /\ IF Spent(tries) THEN pc' = "failed" /\ UNCHANGED <<candidate, tries, effective>>
     ELSE IF ~Contains(candidate)
     THEN /\ pc' = "done" /\ effective' = [minute |-> candidate, rest |-> 0]
          /\ UNCHANGED <<candidate, tries>>
     ELSE /\ candidate' = Following(candidate) /\ tries' = tries + 1
          /\ UNCHANGED <<pc, effective>>
  /\ UNCHANGED <<conf, now, asked, from>>

Over == pc \in {"off", "crashed", "rejected", "failed", "done"} /\ UNCHANGED vars

Next ==
  \/ Configure \/ Search \/ Over
  \/ \E at \in [minute : Asked, rest : Rest] :
       \E value \in [minute : Asked, rest : Rest] \cup {Nothing, Garbled} : Request(at, value)

Spec == Init /\ [][Next]_vars

-----------------------------------------------------------------------------
(* Properties                                                              *)

TypeOK ==
  /\ first \in Clock \cup {Nothing} /\ last \in Clock \cup {Nothing} /\ zone \in Zone
  /\ pc \in {"config", "off", "ready", "search", "done", "rejected", "failed", "crashed"}
  /\ now \in Instant /\ from \in Instant /\ effective \in Instant
  /\ asked \in Instant \cup {Nothing, Garbled}
  /\ candidate \in Nat /\ tries \in Nat

\* "Return the first allowed instant": what release returns is not quiet, is
\* not before what it was asked for, and every minute from there on up to it
\* is quiet, whatever the zone's offset does in between.
FirstOpening ==
  pc = "done" =>
    /\ NotBefore(effective, from) /\ ~Contains(effective.minute)
    /\ effective # from =>
         /\ effective.rest = 0
         /\ \A m \in from.minute..(effective.minute - 1) : Contains(m)

\* 48 hours are enough: for every window that leaves a minute open, and across
\* a change of the offset, the search finds an opening.
AlwaysOpens == pc # "failed"

\* A request is never released before it is made, nor much more than a year on.
WithinAYear ==
  pc = "done" => /\ NotBefore(effective, now)
                 /\ effective.minute <= now.minute + MaxAge + Horizon
=============================================================================
