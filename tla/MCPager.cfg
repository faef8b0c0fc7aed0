CONSTANTS
  Kinds = {users, groups}
  IDs <- MCIDs
  Values = {v, w}
  DefaultLimit = 2
  MaxLimit = 3
SPECIFICATION Spec
INVARIANTS TypeOK WalkAdvances
PROPERTY WalkExact
