SPECIFICATION ResolveSpec
CONSTANTS
  byPath <- MCByPath
  Layers <- MCLayers
  MaxLayers = 3
  Described <- MCDescribed
  Shadows <- MCShadows
  Violated <- MCViolated
  AllowNull = TRUE
  DisallowUnknown = TRUE
  Garbage = Garbage
INVARIANTS
  AllOrNothing
  OriginsAreLastWords
  TopSecretsReported
  WritersNamed
  SchemaCatches
  SchemaAdmits
  SharedReadsAlike
PROPERTIES
  ResolvesAsLayered
  Returns
CHECK_DEADLOCK FALSE
