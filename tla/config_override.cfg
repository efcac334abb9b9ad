SPECIFICATION FairSpec
CONSTANTS
  a = a  b = b  x = x  y = y
  Absent = Absent  SecretRef = SecretRef  SelfRef = SelfRef
  Key = {a, b}
  SelfKey = a
  Literal = {x, y}
  SecretVal = {s1}
  Source = {f}
  Declared = {}
  Proc = {p, q}
  Kind = {"set", "override", "reload"}
  Payload <- ScopePayload
  Content <- ScopeContent
  ValidEnv <- Valid
  Freezes = {TRUE, FALSE}
  MaxOps = 2
  MaxWorld = 0
INVARIANTS
  OverrideScopeExact
  SnapshotCoherent
PROPERTIES
  EveryCallReturns
CHECK_DEADLOCK FALSE
