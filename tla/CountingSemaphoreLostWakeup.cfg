\* One thread that waits without a limit, and Trigger(1).
CONSTANTS
  Threads = {t1}
  StartCount = 0
  TriggerCounts = {1}
  Timeouts = {"forever"}
  MaxTriggered = 2
  MaxTimeouts = 0

SPECIFICATION FairSpec

PROPERTY
  SignalledReturns

CHECK_DEADLOCK FALSE
