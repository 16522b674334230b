CONSTANTS
  Messages = {m1, m2, m3}
  DailyCap = 2
  HourlyCap = 2
  MaxMidnights = 1
  MaxSweeps = 1
  MaxFaults = 1
SYMMETRY MessageSymmetry
SPECIFICATION Spec
CHECK_DEADLOCK FALSE
INVARIANTS
  TypeOK
  CounterCoversSlots
  HourlyCapUntilBounce
