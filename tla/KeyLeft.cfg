SPECIFICATION Spec
CONSTANTS
  w1 = w1
  w2 = w2
SYMMETRY Symmetry
INVARIANT
  KeysEndWithBinding
CHECK_DEADLOCK FALSE
