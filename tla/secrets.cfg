SPECIFICATION Spec
CONSTANTS
  refresh = refresh  reload = reload
  w1 = w1  w2 = w2  w3 = w3
  l1 = l1  l2 = l2
  db = db  api = api  vault = vault
  NoRef = NoRef  NoWorker = NoWorker  NoLeaf = NoLeaf
  Worker = {w1, w2, w3}
  Closer = {"config", "owner"}
  Ref = {db, api}
  CacheEnabled = TRUE
  Expiring = FALSE
  Rotating = {db}
  Op = {refresh, reload}
  OpOf <- Workforce
  Leaf = {l1, l2}
  LeafOrder <- Sorted
  RefsOf <- References
  Provider = {vault}
  ProviderOf <- Routes
  Pools <- Pairs
  Cancelable = {refresh}
  MaxStores = 2
INVARIANTS
  ClosedHoldsNothing
  NothingOlderThanCleared
  ErrorIsRootCause
  EveryStoreClosedOnce
  NobodyWaitsForever
PROPERTIES
  PublishedConsistent
CHECK_DEADLOCK FALSE
