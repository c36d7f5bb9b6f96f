SPECIFICATION ResolveSpec
CONSTANTS
  byPath <- MCByPath
  Layers <- MovedLayers
  MaxLayers = 3
  Described <- MCDescribed
  Shadows <- MCShadows
  Violated <- MCViolated
  AllowNull = TRUE
  DisallowUnknown = TRUE
  Garbage = Garbage
INVARIANT FormerSpellingResolves
CHECK_DEADLOCK FALSE
