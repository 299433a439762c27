----------------------------- MODULE LocalClock -------------------------------
(***************************************************************************)
(* The clock in the page header.  The Pico computes the local time of a    *)
(* fetch (clock_local_components, firmware/src/main.c), the cartridge      *)
(* advances it by half seconds (_platform_advance_clock, src/platform.asm) *)
(* until the next fetch.  Unix time is a day and a second of the day.      *)
(***************************************************************************)
EXTENDS Integers

CONSTANTS
  Fetches,  \* times of fetches, <<day, second>>
  Halves    \* half seconds the cartridge counts after a fetch

MonthDays == <<31, 28, 31, 30, 31, 30, 31, 31, 30, 31, 30, 31>>
DaySeconds == 86400

VARIABLES
  day, second,  \* Unix time
  offset,       \* history: offset of local time at the fetch
  clock,        \* the clock fields of viewer_state_t
  halves        \* half seconds since the fetch

clockVars == <<day, second, offset, clock, halves>>

-----------------------------------------------------------------------------
(***************************************************************************)
(* clock_local_components.                                                 *)
(***************************************************************************)
Leap(year) == (year % 4 = 0 /\ year % 100 # 0) \/ year % 400 = 0

YearDays(year) == IF Leap(year) THEN 366 ELSE 365

\* The first day of each year, counted up from 1970.
Years == 1970..2107

FirstDay[year \in Years] ==
  IF year = 1970 THEN 0 ELSE FirstDay[year - 1] + YearDays(year - 1)

YearOf(d) == CHOOSE y \in (1970 + d \div 366)..(1970 + d \div 365) :
               FirstDay[y] <= d /\ d < FirstDay[y] + YearDays(y)

\* The last Sunday up to a day.
LastSunday(d) == d - ((d + 4) % 7)

Before(d1, s1, d2, s2) == d1 < d2 \/ (d1 = d2 /\ s1 < s2)

Offset(d, s) ==
  LET first  == FirstDay[YearOf(d)]
      start  == LastSunday(first + 31 + 28 + (IF Leap(YearOf(d)) THEN 1 ELSE 0) + 30)
      end    == LastSunday(first + 304)
      summer == ~Before(d, s, start, 3600) /\ Before(d, s, end, 3600)
  IN 3600 + IF summer THEN 3600 ELSE 0

DaysInMonth(month, year) == MonthDays[month] + IF month = 2 /\ Leap(year) THEN 1 ELSE 0

DaysBefore(month, year) ==
  LET upTo[m \in 1..12] == IF m = 1 THEN 0 ELSE upTo[m - 1] + DaysInMonth(m - 1, year)
  IN upTo[month]

MonthOf(rest, year) ==
  CHOOSE m \in 1..12 : /\ DaysBefore(m, year) <= rest
                       /\ rest < DaysBefore(m, year) + DaysInMonth(m, year)

Components(d, s) ==
  LET local == s + Offset(d, s)
      ld    == d + local \div DaySeconds
      ls    == local % DaySeconds
      year  == YearOf(ld)
      rest  == ld - FirstDay[year]
      month == MonthOf(rest, year)
  IN [hour |-> ls \div 3600, minute |-> (ls \div 60) % 60, second |-> ls % 60,
      day |-> rest - DaysBefore(month, year) + 1, month |-> month,
      year |-> year - 2000, weekday |-> (ld + 4) % 7]

-----------------------------------------------------------------------------
(***************************************************************************)
(* _platform_advance_clock, when its deadline has come: each field is      *)
(* counted up when the one before it has come round.                       *)
(***************************************************************************)
\* (mutant) Every February has 28 days.
AdvanceDateWithoutLeap(c) ==
  LET wrapped == c.day + 1 > MonthDays[c.month]
  IN [c EXCEPT !.weekday = (@ + 1) % 7,
               !.day   = IF wrapped THEN 1 ELSE @ + 1,
               !.month = IF ~wrapped THEN @ ELSE (@ % 12) + 1,
               !.year  = IF wrapped /\ c.month = 12 THEN @ + 1 ELSE @]

AdvanceDate(c) ==
  LET days    == MonthDays[c.month] + IF c.month = 2 /\ c.year % 4 = 0 THEN 1 ELSE 0
      wrapped == c.day + 1 > days
  IN [c EXCEPT !.weekday = (@ + 1) % 7,
               !.day   = IF wrapped THEN 1 ELSE @ + 1,
               !.month = IF ~wrapped THEN @ ELSE (@ % 12) + 1,
               !.year  = IF wrapped /\ c.month = 12 THEN @ + 1 ELSE @]

AdvanceSecond(c) ==
  CASE c.second < 59 -> [c EXCEPT !.second = @ + 1]
    [] c.second = 59 /\ c.minute < 59 -> [c EXCEPT !.second = 0, !.minute = @ + 1]
    [] c.second = 59 /\ c.minute = 59 /\ c.hour < 23 ->
         [c EXCEPT !.second = 0, !.minute = 0, !.hour = @ + 1]
    [] OTHER -> AdvanceDate([c EXCEPT !.second = 0, !.minute = 0, !.hour = 0])

\* The colon blinks every half second; seconds are counted when it returns.
HalfSecond ==
  /\ halves < Halves
  /\ halves' = halves + 1
  /\ IF halves % 2 = 1
       THEN /\ clock' = AdvanceSecond(clock)
            /\ second' = (second + 1) % DaySeconds
            /\ day' = day + (second + 1) \div DaySeconds
       ELSE UNCHANGED <<clock, second, day>>
  /\ UNCHANGED offset

ClockStart(t) ==
  /\ day = t[1] /\ second = t[2]
  /\ offset = Offset(day, second)
  /\ clock = Components(day, second)
  /\ halves = 0

ClockInit == \E t \in Fetches : ClockStart(t)

-----------------------------------------------------------------------------
(***************************************************************************)
(* The calendar, the other way round: the Unix day of a date.              *)
(***************************************************************************)
DaysUpTo == <<0, 31, 59, 90, 120, 151, 181, 212, 243, 273, 304, 334>>

DayNumber(y, m, d) ==
  365 * (y - 1970) + (y - 1969) \div 4 - (y - 1901) \div 100 + (y - 1601) \div 400
  + DaysUpTo[m] + d - (IF m > 2 /\ Leap(y) THEN 0 ELSE 1)

Weekday(y, m, d) == (DayNumber(y, m, d) - DayNumber(2024, 1, 7)) % 7  \* a Sunday

LastSundayOf(y, m) == CHOOSE d \in 25..31 : Weekday(y, m, d) = 0

\* Central European Summer Time: from the last Sunday of March, 01:00 UTC, to
\* that of October.
InSummer(d, s, y) ==
  /\ ~Before(d, s, DayNumber(y, 3, LastSundayOf(y, 3)), 3600)
  /\ Before(d, s, DayNumber(y, 10, LastSundayOf(y, 10)), 3600)

\* firmware/src/main.c:279 "Convert a Unix timestamp to Dutch local date and
\* time (CET/CEST)": the offset at a fetch is the one the law gives.
OffsetIsLegal ==
  halves = 0 => offset = IF InSummer(day, second, 2000 + clock.year) THEN 7200 ELSE 3600

\* The week of summer time too many: in a year that is no leap year and has a
\* Sunday on the first of November, the code ends summer time on that Sunday.
MissedOctober(d, s, y) ==
  /\ ~Leap(y)
  /\ Weekday(y, 11, 1) = 0
  /\ ~Before(d, s, DayNumber(y, 10, 25), 3600)
  /\ Before(d, s, DayNumber(y, 11, 1), 3600)

\* The years the cartridge counts correctly: in its calendar 2100 is a leap year.
Century == DayNumber(2000, 1, 1) .. DayNumber(2099, 12, 30)

ASSUME ClockAssumption ==
  Fetches \subseteq Century \X (0 .. DaySeconds - 1) /\ Halves \in Nat

ClockSpec == ClockInit /\ [][HalfSecond /\ day' \in Century]_clockVars

\* The clock shows a date there is, the time it is there, and its weekday.  It
\* is the local time of the Netherlands at a fetch, and through midnights, ends
\* of months and leap days until the next, but for a change to or from summer
\* time, of which the cartridge learns at the next fetch only.
ClockTellsLocalTime ==
  LET year  == 2000 + clock.year
      shown == DayNumber(year, clock.month, clock.day)
  IN /\ OffsetIsLegal
     /\ clock.month \in 1..12
     /\ clock.day \in 1..DaysInMonth(clock.month, year)
     /\ clock.weekday = Weekday(year, clock.month, clock.day)
     /\ (shown - day) * DaySeconds + clock.hour * 3600 + clock.minute * 60
          + clock.second - second = offset
=============================================================================
