\* Three waiting threads, timed and untimed waits, Trigger(1) and Trigger(2).
CONSTANTS
  Threads = {t1, t2, t3}
  StartCount = 1
  TriggerCounts = {1, 2}
  Timeouts = {"forever", "finite"}
  MaxTriggered = 3
  MaxTimeouts = 1

SPECIFICATION FairSpec

INVARIANTS
  TypeOK
  LedgerBounds
  NoStrandedPermit
  DestroyAssertion

PROPERTIES
  TimedWaitReturns
  ImplementsPool

CHECK_DEADLOCK FALSE
