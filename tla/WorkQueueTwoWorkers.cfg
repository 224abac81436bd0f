\* Two workers for the single task of a round.
CONSTANTS
  Threads = {o1, w1, w2}
  Owners = {o1}
  Workers = {w1, w2}
  WorkItems = 1
  Timeouts = {"forever"}
  UsesWakeup = FALSE
  MaxEntries = 2
  MaxOverrun = 2

SPECIFICATION Spec

INVARIANT
  WithinTaskCount

CHECK_DEADLOCK FALSE
