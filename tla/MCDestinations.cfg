\* Two destinations, three entries of which the ring watches one or two, and
\* two initialisations. Entries may be one unit of time old.
CONSTANTS
  i1 = i1
  i2 = i2
  i3 = i3
  Ids <- MCIds
  Severities = {5, 6}
  FilterSeverities = {6}
  Cfgs <- MCCfgs
  WatchCounts = {0, 2, 3}
  PeBufferSize = 2
  None = None
  MaxAdds = 2
  MaxInits = 2
  MaxTime = 2
  Skew = 1
SPECIFICATION Spec
INVARIANTS
  TypeOK
  WalkReachesReady
  FlushedWhenTerminated
  RateLimited
  OnlyRepeatsDiscarded
SYMMETRY Symmetry
CHECK_DEADLOCK FALSE
