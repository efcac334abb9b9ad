SPECIFICATION WatchSpec
CONSTANTS
  app = app  common = common
  plain = plain  other = other  including = including  broken = broken
  near = near  far = far
  Text = {plain, other, including, broken}
  Malformed = {broken}
  Missing = Missing
  None = None
  Order <- OneLoader
  IncludeOf <- Inclusion
  Source = {app}
  Include = {common}
  Optional = {}
  Holds <- Contents
  Policies = {FALSE}
  Loop = loop
  Proc = {loop, user}
  Dir = {near, far}
  DirOf <- Directories
  Setups <- DebounceAndRefusal
  MaxCalls = 3
  UserCalls = 1
  MaxEdits = 2
  MaxQueue = 2
INVARIANT TriggersMatchPublished
PROPERTIES
  NothingPublishedAfterStop
  EditsEventuallyLoaded
CHECK_DEADLOCK FALSE
