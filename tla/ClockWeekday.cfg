SPECIFICATION ClockSpec
CONSTANTS
  FirstDays = {4}
  LastDays = {60}
  TimesOfDay = {0}
INVARIANT DayNamed
CHECK_DEADLOCK FALSE
