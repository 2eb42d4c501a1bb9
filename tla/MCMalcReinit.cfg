\* The logger is initialised again after a termination.
CONSTANTS
  m = m
  w = w
  p = p
  b1 = b1
  b2 = b2
  NoBuf = NoBuf
  NoProc = NoProc
  Threads <- MCThreads
  Producers <- MCOwners
  Pumps = {}
  Owners <- MCOwners
  Bufs <- MCBuf
  OwnModes = {TRUE}
  MaxInits = 2
  MaxEntries = 1
  Failures = {}
  Rules = {"join_tls", "no_late_log", "join_before_destroy"}
SPECIFICATION Spec
INVARIANT NoUseAfterDestroy
CHECK_DEADLOCK FALSE
