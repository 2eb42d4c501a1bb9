\* A client that keeps every rule, with two thread local buffers alive at once.
CONSTANTS
  m = m
  w = w
  p = p
  b1 = b1
  b2 = b2
  NoBuf = NoBuf
  NoProc = NoProc
  Threads <- MCThreads
  Producers <- MCThreads
  Pumps <- MCPumps
  Owners <- MCOwners
  Bufs <- MCBufs
  OwnModes = {TRUE, FALSE}
  MaxInits = 1
  MaxEntries = 2
  Failures = {"alloc", "thread"}
  Rules = {"join_tls", "no_late_log", "join_before_destroy"}
SPECIFICATION Spec
INVARIANTS
  DeregisterFindsBuffer
  TerminateIsLast
  NoLeak
  NoUseAfterDestroy
SYMMETRY BufSymmetry
CHECK_DEADLOCK FALSE
