SPECIFICATION Spec
CONSTANTS
  top = top
  dir = dir
  file = file
  init = init
  l1 = l1
  t1 = t1
  l2 = l2
  Objects = {o1, o2}
  Pointers = {p1, p2, p3}
  Handles = {h1, h2, h3}
  Entries = {top, dir, file}
  Root = top
  Parent <- MCParent
  Tasks = {init, l1, t1, l2}
  InitTask = init
  Leader <- MCLeader
  ObjectSlots = {s1, buffer}
  Buffer = buffer
  Accesses = 2
  Frames = 5
  Arrays = {a1, a2}
  Counts = {1, 2, 3}
  LengthLimit = 4
  Printers = {w1, w2}
  Prints = 2
  MaxOldLogs = 4
  KeptLogs = 5
  FirstDays = {0, 10950, 47475}
  LastDays = {800, 11025, 47545}
  TimesOfDay = {0, 1, 999, 59999, 86399999}
  Frequencies <- MCFrequencies
  Waits <- MCWaits
  WordSize = 16
  Stack <- MCStack
  Paths <- MCPaths
  ZoneMinutes <- MCZoneMinutes
SYMMETRY MCSymmetry
CONSTRAINT MCFew
INVARIANTS
  TypeOK
  OwnersCounted
  ReferencesBalanced
  LinesWhole
  NumbersRight
PROPERTY
  DatesFollow
CHECK_DEADLOCK FALSE
