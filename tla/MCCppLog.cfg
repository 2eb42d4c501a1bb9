\* Literals of any braces and modifiers, references, and smart pointers of each
\* kind, with calls that are filtered or refused.
CONSTANTS
  FmtHalf = 32
  NumberedUpTo = 1
  IntegerLike <- MCIntegerLike
  FloatLike <- MCFloatLike
  ObjPushes <- MCObjPushes
  Programs <- MCPrograms
  Pointees = {"p", "u"}
  Shared = {"p"}
  Null = "null"
  MinSeverity = 2
  MaxCalls = 3
  MaxAppends = 2
SPECIFICATION Spec
INVARIANTS
  AcceptedIsShown
  RejectedIsReported
  OwnersAccounted
  ReadAlive
  ReferencesReleasedOnce
CHECK_DEADLOCK FALSE
