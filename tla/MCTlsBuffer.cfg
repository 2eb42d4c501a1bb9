\* Words of a payload may have the value of the free mark.
CONSTANTS
  SlotCount = 5
  Free = 1
  Hook = 0
  PayloadWords = {1, 2}
SPECIFICATION Spec
INVARIANTS
  TypeOK
  FreedSlotsFound
PROPERTIES
  EntriesDisjoint
CHECK_DEADLOCK FALSE
