CONSTANTS
  Addresses = {x, y, z}
  Limit = 2
  Window = 2
  Buckets = 2
  MaxNow = 4
SYMMETRY Symmetry
SPECIFICATION Spec
INVARIANTS TypeOK RateBounded
PROPERTY RefusalDeserved
