SPECIFICATION Spec
CONSTANTS
  byPath <- MCByPath
  Layers <- NestedLayers
  MaxLayers = 3
  AllowNull = TRUE
  DisallowUnknown = FALSE
  Garbage = Garbage
INVARIANT ReplacedListIsOneLayer
CHECK_DEADLOCK FALSE
