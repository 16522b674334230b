------------------------------ MODULE MCWorkOrder ------------------------------
(* Two orders on one lead, two executions of the worker, one request at a      *)
(* time.  The properties are invariants and the orders and the workers are     *)
(* interchangeable.                                                            *)
EXTENDS WorkOrder, TLC
CONSTANTS o1, o2, w1, w2, c1
Symmetric == Permutations(Orders) \cup Permutations(Workers)
===============================================================================
