\* Two jobs for one thread of a process whose leader may exit, two callers.
CONSTANTS
  Jobs <- MCJobs
  Callers <- MCCallers
  Targets <- MCThree
  Leader <- MCLeader
  Heirs <- MCHeirs
  PidOf <- MCPidOfThree
  MadeFor <- MCMadeForTwo
  MaxHandlers = 2

SPECIFICATION FairSpec

INVARIANTS
  TypeOK
  LinksSound
  RunsHead
  WaitExecuteMeansExecuted

PROPERTIES
  EngineFreed
  UsesRound

CONSTRAINT MCOneCallback

CHECK_DEADLOCK FALSE
