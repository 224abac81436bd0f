SPECIFICATION Spec
CONSTANTS
  Top = 4
  UserDescs = {u1, u2}
  KernDescs = {k1}
  SizeInPages = 2
  UserEntries <- MCUserEntries
  KernEntries <- MCKernEntries
  Starts = {0, 2}
  AppProts <- MCAppProts
  AppCalls = 1
  Inserts = 2
SYMMETRY MCSymmetry
CONSTRAINTS MCOneKind MCOneOdd
INVARIANTS
  TypeOK
  MmCounted
  PanicNeedsMeddling
  TablesSound
PROPERTY
  AppAreasKept
CHECK_DEADLOCK FALSE
