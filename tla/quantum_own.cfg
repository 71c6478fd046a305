SPECIFICATION Spec
CONSTANTS
  Algorithm = "RR"
  MaxDispatches = 3
  MaxInstructions = 2
INVARIANT OwnQuantum
CHECK_DEADLOCK FALSE
