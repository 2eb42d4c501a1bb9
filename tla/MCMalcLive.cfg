\* Liveness: two producers, one of which owns the logger, a third thread that
\* pumps it, and the logger's own thread.
CONSTANTS
  m = m
  w = w
  p = p
  b1 = b1
  b2 = b2
  NoBuf = NoBuf
  NoProc = NoProc
  Threads <- MCThreads3
  Producers <- MCThreads
  Pumps <- MCPumps3
  Owners <- MCOwners
  Bufs <- MCBuf
  OwnModes = {TRUE, FALSE}
  MaxInits = 1
  MaxEntries = 1
  Failures = {}
  Rules = {"join_tls", "no_late_log", "join_before_destroy"}
SPECIFICATION FairSpec
PROPERTIES
  FlushReturns
  TerminationCompletes
  EntriesHandled
CHECK_DEADLOCK FALSE
