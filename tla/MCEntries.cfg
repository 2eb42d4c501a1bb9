\* Every type of argument, with each allocator, build option and setting.
CONSTANTS
  ByteValues = 4
  PtrBytes = 2
  ObjSizeof <- MCObjSizeof
  ObjPushes <- MCObjPushes
  Sites <- MCSites
  Calls <- MCCalls
  Configs <- MCConfigs
  NodeSize = 2
  MinSeverity = 4
  StderrSeverities = {3, 9}
  MaxSlots = 4
  TlsSlots = 3
  Cpus = 2
  MaxCalls = 2
  MaxAppends = 2
SPECIFICATION Spec
INVARIANTS
  TypeOK
  EntryFits
  RoundTrip
  ReleasedOnce
  ObjectsDestroyed
  SlotsReturned
  TextAsMeant
PROPERTY OnlyMovedStaysBuffered
CHECK_DEADLOCK FALSE
