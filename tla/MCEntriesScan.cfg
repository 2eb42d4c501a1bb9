\* Modifiers of a float in any order.
CONSTANTS
  ByteValues = 4
  PtrBytes = 2
  ObjSizeof <- MCObjSizeof
  ObjPushes <- MCObjPushes
  Sites <- MCScanSites
  Calls <- MCScanCalls
  Configs <- MCScanConfigs
  NodeSize = 2
  MinSeverity = 4
  StderrSeverities = {}
  MaxSlots = 4
  TlsSlots = 4
  Cpus = 2
  MaxCalls = 1
  MaxAppends = 0
SPECIFICATION Spec
INVARIANT FormatScanEnds
CHECK_DEADLOCK FALSE
