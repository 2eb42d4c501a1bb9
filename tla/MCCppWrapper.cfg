\* Two variables, two instances, two destinations and every kind of malcpp.
CONSTANTS
  v1 = v1
  v2 = v2
  b1 = b1
  b2 = b2
  d1 = d1
  d2 = d2
  Variables <- MCVariables
  Scopes = {1, 2}
  Variants <- MCVariants
  Blocks <- MCBlocks
  Dsts <- MCDsts
  Allocators = {"custom"}
  Default = "default"
  Null = Null
  Failures = {"alloc", "terminate", "dst", "time", "mutex", "deserializer", "parser"}
SPECIFICATION Spec
INVARIANTS
  TypeOK
  SoleOwner
  DestroyedAsCreated
  AccessLeadsToOwn
SYMMETRY MCSymmetry
CHECK_DEADLOCK FALSE
