SPECIFICATION ResolveSpec
CONSTANTS
  byPath <- MCByPath
  Layers <- ListLayers
  MaxLayers = 1
  Described <- MCDescribed
  Shadows <- MCShadows
  Violated <- MCViolated
  AllowNull = TRUE
  DisallowUnknown = TRUE
  Garbage = Garbage
INVARIANT FormerListsResolve
CHECK_DEADLOCK FALSE
