---------------------------------- MODULE Clock ----------------------------------
(***************************************************************************)
(* Dates as the library computes them from the time since the epoch, day   *)
(* after day.  That time is given as days and milliseconds of the day, the *)
(* quotient and the rest of a division the code makes; 64 bits hold it.    *)
(***************************************************************************)
EXTENDS Integers, Sequences

CONSTANTS
  FirstDays,      \* the days looked at are those from one of these on,
  LastDays,       \* up to the next of these
  TimesOfDay      \* milliseconds

ASSUME ClockAssumption == FirstDays \subseteq Nat

VARIABLES day, rest

clockVars == <<day, rest>>

ClockTypeOK == day \in Nat /\ rest \in TimesOfDay

-----------------------------------------------------------------------------
MAX(a, b) == IF a > b THEN a ELSE b

TimeIsLeapYear(year) == (year % 400 = 0 \/ year % 100 # 0) /\ year % 4 = 0

TimeGetDaysInYearMonth(year) ==
  <<31, IF TimeIsLeapYear(year) THEN 29 ELSE 28, 31, 30, 31, 30, 31, 31, 30, 31, 30, 31>>

LengthOf(year) == IF TimeIsLeapYear(year) THEN 366 ELSE 365

(* The year, and the days before it; from a year on that is not too late.  *)
YearFrom[left \in Nat, passed \in Nat, year \in Nat] ==
  IF left - LengthOf(year) < 0 THEN [year |-> year, passed |-> passed]
  ELSE YearFrom[left - LengthOf(year), passed + LengthOf(year), year + 1]

TimeGetYear(d) == YearFrom[d, 0, 1970]

(* The month of a day of the year, and the days before it.                 *)
MonthFrom[year \in Nat, d \in Nat, month \in 1..12, passed \in Nat] ==
  LET days == TimeGetDaysInYearMonth(year)[month] IN
  IF passed + days > d THEN [month |-> month, passed |-> passed]
  ELSE MonthFrom[year, d, month + 1, passed + days]

TimeMonthCalcLate(year, d) ==        \* mutant: the first of a month belongs to the one before
  MonthFrom[year, MAX(0, d - 1), 1, 0]

TimeMonthCalc(year, d) == MonthFrom[year, d, 1, 0]

(* ParseTime.  The first day counts as the second.                         *)
ParseDate(d) ==
  LET y == TimeGetYear(d)
      of_year == MAX(1, d) - y.passed
      m == TimeMonthCalc(y.year, of_year) IN
  [year |-> y.year, month |-> m.month, day_of_month |-> of_year - m.passed + 1]

ParseTimeOfDay(ms) ==
  [hours |-> MAX(1, ms % 86400000) \div 3600000,
   minutes |-> MAX(1, ms % 3600000) \div 60000,
   seconds |-> MAX(1, ms % 60000) \div 1000,
   milliseconds |-> ms % 1000]

(* Where the name of the day is looked up.                                 *)
DayIndex(d) == (d % 7) - 3 - 1

-----------------------------------------------------------------------------
ClockInit == day \in FirstDays /\ rest \in TimesOfDay

ClockStep ==
  /\ day \notin LastDays
  /\ day' = day + 1
  /\ rest' \in TimesOfDay

ClockSpec == ClockInit /\ [][ClockStep]_clockVars

-----------------------------------------------------------------------------
(* The calendar: what day comes after another.                             *)
Divides(k, year) == year % k = 0

LastOfFebruary(year) ==
  IF Divides(400, year) THEN 29 ELSE IF Divides(100, year) THEN 28 ELSE IF Divides(4, year) THEN 29 ELSE 28

LastOfMonth(date) ==
  CASE date.month = 2 -> LastOfFebruary(date.year)
    [] date.month \in {4, 6, 9, 11} -> 30
    [] OTHER -> 31

Tomorrow(date) ==
  IF date.day_of_month < LastOfMonth(date)
    THEN [date EXCEPT !.day_of_month = @ + 1]
    ELSE IF date.month < 12 THEN [date EXCEPT !.month = @ + 1, !.day_of_month = 1]
    ELSE [year |-> date.year + 1, month |-> 1, day_of_month |-> 1]

(* From the second day on the date of each day is the one that comes after *)
(* the date of the day before, over ends of months, leap years and         *)
(* centuries, and the time of the day is taken apart without loss          *)
(* (DateHelper.cpp:64, 181, 199).                                          *)
TimeOfDayRight ==
  LET t == ParseTimeOfDay(rest) IN
  /\ t.minutes < 60 /\ t.seconds < 60 /\ t.milliseconds < 1000
  /\ t.hours * 3600000 + t.minutes * 60000 + t.seconds * 1000 + t.milliseconds = rest

DatesFollow ==
  [][day' # day =>
     /\ day >= 1 => ParseDate(day') = Tomorrow(ParseDate(day))
     /\ day' = 1 => ParseDate(day') = [year |-> 1970, month |-> 1, day_of_month |-> 2]
     /\ TimeOfDayRight']_clockVars

(* The first of January 1970 was a Thursday, so says the comment at        *)
(* DateHelper.cpp:75: with Monday at 0, day d has the name (d + 3) % 7.    *)
DayNamed == DayIndex(day) = (day + 3) % 7
=============================================================================
