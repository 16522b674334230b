CONSTANTS
  Messages = {m1}
  Workers = {w1}
  NoRow = NoRow
  MaxRedrives = 2
  MaxFaults = 3
SPECIFICATION FairSpec
CHECK_DEADLOCK FALSE
PROPERTIES
  OpenIsPickedUp
  AmbiguityEnds
