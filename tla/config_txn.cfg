SPECIFICATION Spec
CONSTANTS
  a = a  b = b  x = x  y = y
  Absent = Absent  SecretRef = SecretRef  SelfRef = SelfRef
  Key = {a, b}
  SelfKey = a
  Literal = {x, y}
  SecretVal = {s1, s2}
  Source = {f}
  Declared = {}
  Proc = {p, q}
  Kind = {"set", "insert", "reload", "extend", "refresh", "rollback", "save", "freeze", "close"}
  Payload <- TxnPayload
  Content <- TxnContent
  ValidEnv <- Valid
  Freezes = {FALSE}
  MaxOps = 2
  MaxWorld = 1
SYMMETRY Goroutines
INVARIANTS
  TypeOK
  EveryCommitDelivered
PROPERTIES
  ImplementsAtomicConfig
  ChangeDescribesCommit
  InsertOnlyWhenAbsent
CHECK_DEADLOCK FALSE
