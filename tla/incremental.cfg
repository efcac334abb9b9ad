SPECIFICATION Spec
CONSTANTS
  app = app  extra = extra  common = common
  plain = plain  other = other  including = including  broken = broken
  Text = {plain, other, including, broken}
  Malformed = {broken}
  Missing = Missing
  None = None
  Order <- LoaderOrder
  IncludeOf <- Inclusion
  Source = {app, extra}
  Include = {common}
  Optional = {extra}
  Holds <- Contents
  Policies = {TRUE, FALSE}
  Proc = {p, q}
  MaxCalls = 1
  MaxEdits = 2
SYMMETRY Goroutines
INVARIANTS
  ReloadIsComplete
  RequiredLayersStay
PROPERTY LayersNeverRegress
CHECK_DEADLOCK FALSE
