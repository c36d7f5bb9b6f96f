SPECIFICATION ResolveSpec
CONSTANTS
  byPath <- MCByPath
  Layers <- SecretLayers
  MaxLayers = 3
  Described <- MCDescribed
  Shadows <- MCShadows
  Violated <- MCViolated
  AllowNull = TRUE
  DisallowUnknown = TRUE
  Garbage = Garbage
INVARIANT SecretsReported
CHECK_DEADLOCK FALSE
