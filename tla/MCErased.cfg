SPECIFICATION Spec
CONSTANTS
  byPath <- MCByPath
  Layers <- ErasedLayers
  MaxLayers = 3
  AllowNull = TRUE
  DisallowUnknown = FALSE
  Garbage = Garbage
INVARIANT ErasedElementsAreAbsent
CHECK_DEADLOCK FALSE
