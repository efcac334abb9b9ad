SPECIFICATION Spec
CONSTANTS
  app = app  extra = extra  common = common
  plain = plain  other = other  including = including  broken = broken
  Text = {plain, other}
  Malformed = {}
  Missing = Missing
  None = None
  Order <- LoaderOrder
  IncludeOf <- Inclusion
  Source = {app}
  Include = {}
  Optional = {}
  Holds <- OneFile
  Policies = {FALSE}
  Proc = {p}
  MaxCalls = 2
  MaxEdits = 2
INVARIANT EarlierEditsSeen
CHECK_DEADLOCK FALSE
