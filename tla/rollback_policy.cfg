SPECIFICATION Spec
CONSTANTS
  a = a  b = b  x = x  y = y
  Absent = Absent  SecretRef = SecretRef  SelfRef = SelfRef
  Key = {a, b}
  SelfKey = a
  Literal = {x, y}
  SecretVal = {s1}
  Source = {f}
  Declared = {}
  ValidEnv <- Complete
  Freezes = {FALSE}
  MaxWorld = 0
CHECK_DEADLOCK FALSE
CONSTANTS
  Proc = {p}
  Kind = {"set", "save", "rollback"}
  Payload <- TxnPayload
  Content <- SecretContent
  MaxOps = 3
PROPERTIES
  SensitivePolicyRetained
