SPECIFICATION Spec
CONSTANTS
  l1 = l1
  t1 = t1
  l2 = l2
  s1 = s1
  s2 = s2
  Files = {f0, f1, f2}
  RegistrationFile = f0
  Threads <- MCThreads
  Tasks <- MCThreads
  Callers <- MCThreads
  Leader <- MCLeader
  Pid <- MCPid
  Hooks = {h1}
  Symbols = {s1, s2}
  NameSize <- MCNameSize
  MaxPull = 13
  MaxAdded = 2
  Opens = 2
SYMMETRY MCSymmetry
CONSTRAINT MCOneAffair
INVARIANTS
  TypeOK
  FilesSound
  TrackingSound
  OpenRegisters
  CallsSound
CHECK_DEADLOCK FALSE
