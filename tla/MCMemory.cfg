SPECIFICATION Spec
CONSTANTS
  w1 = w1
  w2 = w2
  n1 = n1
  n2 = n2
  t1 = t1
  t2 = t2
  k = k
  Writer <- MCWriter
  Name <- MCName
  Topic <- MCTopic
  Attribute <- MCAttribute
  Tiers = 2
  MaxRows = 3
  MaxEdited = 1
  Asks <- MCAsks
SYMMETRY Symmetry
INVARIANTS DuplicatesDeclared KeysKept RecallMostSpecific
PROPERTIES ImplementsNameTable
CHECK_DEADLOCK FALSE
