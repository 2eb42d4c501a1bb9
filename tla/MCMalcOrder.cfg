\* Safety with late logging, re-initialisation and both kinds of consumer.
CONSTANTS
  m = m
  w = w
  p = p
  b1 = b1
  b2 = b2
  NoBuf = NoBuf
  NoProc = NoProc
  Threads <- MCThreads
  Producers <- MCThreads
  Pumps <- MCPumps
  Owners <- MCOwners
  Bufs <- MCBuf
  OwnModes = {TRUE, FALSE}
  MaxInits = 2
  MaxEntries = 2
  Failures = {"grow"}
  Rules = {"join_tls", "join_before_destroy"}
SPECIFICATION Spec
INVARIANTS
  TypeOK
  TlsMemorySafe
PROPERTY ImplementsAsyncLog
CHECK_DEADLOCK FALSE
