\* A job is added while its thread is about to resume what it ran before.
CONSTANTS
  Jobs <- MCJobs
  Callers <- MCCallers
  Targets <- MCTargets
  Leader <- MCLeader
  Heirs = {}
  PidOf <- MCPidOf
  MadeFor <- MCMadeFor
  MaxHandlers = 2

SPECIFICATION Spec

INVARIANT AppContextKept

CHECK_DEADLOCK FALSE
