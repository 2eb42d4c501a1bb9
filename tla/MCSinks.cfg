\* Every opening and every write may fail. The allocator does not (TypeOK would
\* not hold) and a file that is removed is gone.
CONSTANTS
  Cfgs <- MCCfgs
  Lengths <- MCLengths
  MarkLength = 1
  Failures = {"open", "full", "io"}
  NoFile = NoFile
  MaxFiles = 5
  MemEntries = 4
  WordSize = 16
  Empty = Empty
  MaxEntries = 5
SPECIFICATION Spec
INVARIANTS
  TypeOK
  FileInUseIsNewest
  NewestFilesKept
  SizeRespected
  ReadsBack
CHECK_DEADLOCK FALSE
