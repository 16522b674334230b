SPECIFICATION Spec
CONSTANTS
  o1 = o1
  o2 = o2
  Orders = {o1, o2}
  Workers = {w1, w2}
  Clerks = {c1}
  w1 = w1
  w2 = w2
  c1 = c1
  NoOrder = NoOrder
  Modes = {0, 1, 3}
  Budget = 2
  MaxAttempts = 2
  MaxEvents = 3
  MaxFaults = 0
SYMMETRY Symmetric
INVARIANTS
  AskedOnce
CHECK_DEADLOCK FALSE
