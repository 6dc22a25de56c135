SPECIFICATION Spec
CONSTANTS
  MaxTime = 7
  Zones = {6, 9}
  MaxEvents = 3
  NumSlots = 2
  Day = 6
  SlotTimes = {1, 4}
INVARIANTS
  TypeOK
  ClockIsRight
  NoneMissed
PROPERTIES
  StartsAreDue
CHECK_DEADLOCK FALSE
