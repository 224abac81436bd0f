\* One worker, as the deferred execution engine has, two tasks a round and
\* two owners that wait with and without a limit.
CONSTANTS
  Threads = {o1, o2, w1}
  Owners = {o1, o2}
  Workers = {w1}
  WorkItems = 2
  Timeouts = {"forever", "finite"}
  UsesWakeup = FALSE
  MaxEntries = 3
  MaxOverrun = 2

SPECIFICATION Spec

INVARIANTS
  TypeOK
  OwnersAccounting
  OwnerSeesFinishedRound
  NoThreadLeftBehind
  DestroyAssertion

PROPERTIES
  ImplementsRound

CHECK_DEADLOCK FALSE
