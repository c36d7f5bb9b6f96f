SPECIFICATION Spec
CONSTANTS
  byPath <- MCByPath
  Layers <- SpellingLayers
  MaxLayers = 3
  AllowNull = TRUE
  DisallowUnknown = FALSE
  Garbage = Garbage
INVARIANT SpellingsNeverMix
CHECK_DEADLOCK FALSE
