SPECIFICATION Spec
CONSTANTS
  MaxDepth = 3
  InlineDefaults <- MCInlineDefaults
  MaxSets = 2
  MaxChurn = 3
  Readers = {"new", "tool"}
  Contents <- MCContents
  Placeholders <- MCPlaceholders
  Malformed <- MCMalformed
  Numbers <- MCNumbers
  Numerals <- MCNumerals
  EnvReferences <- MCEnvReferences
  Editions <- MCEditions
  Values <- MCValues
  Scenes <- MCScenes
INVARIANTS
  MergeExact
  ComposedExactly
  ProvenanceExact
  NoSecretShown
  DiffExplains
  PublishedSound
  SecretsLast
  SettingsCurrent
  PlanFollowsPrecedence
  LoadersInOrder
  FailedNewLeaksNothing
  InventoryLoads
