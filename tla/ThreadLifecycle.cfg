\* Two threads, spawned, murdered and given up by two clients.
CONSTANTS
  Pids = {t1, t2}
  Clients = {c1, c2}
  ReturnCodes = {ok}
  MurderCodes = {killed}

SPECIFICATION FairSpec

INVARIANTS
  TypeOK
  TouchesOnlyLive
  HandleTellsDeath
  PendingDeathSeen
  SpawnGetsOwnThread

PROPERTIES
  ExitTold

CHECK_DEADLOCK FALSE
