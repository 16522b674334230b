CONSTANTS
  MaxEnrollments = 1
  NumSteps = 2
  Executors = {x1}
  Mailers = {v1}
  Sweepers = {s1}
  Clerks = {c1}
  MaxOps = 1
  MaxSweeps = 2
  MaxFaults = 1
SPECIFICATION Spec
CHECK_DEADLOCK FALSE
INVARIANTS
  TypeOK
  AdvanceIsEarned
PROPERTIES
  SentInOrder
