SPECIFICATION Spec
CONSTANTS
  w1 = w1
  w2 = w2
SYMMETRY Symmetry
INVARIANT
  DeletionsAreExclusive
CHECK_DEADLOCK FALSE
