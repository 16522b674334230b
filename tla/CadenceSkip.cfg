CONSTANTS
  MaxEnrollments = 1
  NumSteps = 1
  Executors = {x1}
  Mailers = {v1}
  Sweepers = {s1}
  Clerks = {c1}
  MaxOps = 1
  MaxSweeps = 1
  MaxFaults = 0
SPECIFICATION Spec
CHECK_DEADLOCK FALSE
PROPERTY SkipIsFinal
