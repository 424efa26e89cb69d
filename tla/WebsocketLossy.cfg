SPECIFICATION Spec
CHECK_DEADLOCK FALSE
CONSTANTS
  Swaps = {s1, s2}
  Buffer = 1
  MaxConns = 3
  MaxLosses = 1
  Final = 1
  Faults = {"refuse", "stop"}
SYMMETRY Symmetry
INVARIANTS
  TypeOK
  LossIsRepaired
  NothingIsMissed
  AckIsAwaited
