SPECIFICATION Spec
CONSTANTS
  Client = {c1, c2}
  X = X
  Key = {k1, k2}
  Value = {v1}
  Variable = {X}
  Chain <- RemoteFirst
  EnvKey <- OneVariable
  NoValue = NoValue
  Latest = Latest
  MaxCalls = 2
SYMMETRY Symmetry
CHECK_DEADLOCK FALSE
INVARIANT NeverMasked
INVARIANT InventoryComplete
