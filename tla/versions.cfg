SPECIFICATION Spec
CONSTANTS
  dirA = dirA
  dirB = dirB
  NoDir = NoDir
  Dir <- DirSet
  Caps <- CapSet
  MaxSaves = 3
  MaxClock = 2
  MaxRestarts = 1
  MaxUndeletable = 1
SYMMETRY SameDirs
INVARIANTS
  RetentionExact
  ReadsFindRetained
CHECK_DEADLOCK FALSE
