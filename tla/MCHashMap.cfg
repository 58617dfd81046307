CONSTANTS
  k1 = k1
  k2 = k2
  k3 = k3
  k4 = k4
  Key <- MCKey
  Data = {d1, d2}
  NULL = NULL
  NumBuckets = 2
  HashOf <- MCHashOf
SPECIFICATION Spec
INVARIANTS TypeOK MapSound
PROPERTY ImplementsStore
