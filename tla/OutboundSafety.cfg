CONSTANTS
  Messages = {m1}
  Workers = {w1, w2, w3}
  NoRow = NoRow
  MaxRedrives = 2
  MaxFaults = 1
SYMMETRY WorkerSymmetry
SPECIFICATION Spec
CHECK_DEADLOCK FALSE
INVARIANTS
  TypeOK
  AtMostOneDelivery
  OneSender
  ReopenedIsUnsent
  AdvanceNeedsDelivery
PROPERTIES
  NeverSentEarly
  SendsOnce
