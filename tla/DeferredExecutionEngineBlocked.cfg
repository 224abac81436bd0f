\* A job that nobody waits for is scheduled again: its completion sleeps
\* under the mutex of the whole engine.
CONSTANTS
  Jobs <- MCJobs
  Callers <- MCCallers
  Targets <- MCTargets
  Leader <- MCLeader
  Heirs = {}
  PidOf <- MCPidOf
  MadeFor <- MCMadeFor
  MaxHandlers = 2

SPECIFICATION FairSpec

PROPERTY EngineAlwaysFreed

CHECK_DEADLOCK FALSE
