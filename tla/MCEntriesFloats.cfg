\* An object that pushes an array of floats.
CONSTANTS
  ByteValues = 4
  PtrBytes = 2
  ObjSizeof <- MCObjSizeof
  ObjPushes <- MCObjPushes
  Sites <- MCSites
  Calls <- MCObjectCalls
  Configs <- MCConfigs
  NodeSize = 2
  MinSeverity = 4
  StderrSeverities = {}
  MaxSlots = 4
  TlsSlots = 4
  Cpus = 2
  MaxCalls = 2
  MaxAppends = 0
SPECIFICATION Spec
INVARIANT ElementsReadAsPushed
CHECK_DEADLOCK FALSE
