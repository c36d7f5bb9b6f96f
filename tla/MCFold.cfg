SPECIFICATION Spec
CONSTANTS
  byPath <- MCByPath
  Layers <- MCLayers
  MaxLayers = 3
  AllowNull = TRUE
  DisallowUnknown = FALSE
  Garbage = Garbage
INVARIANTS
  TypeOK
  SlotsDense
  SlotsNotShared
  Provenance
  ValuesReachable
  LayersOverlay
PROPERTY ElementsKeepOrder
CHECK_DEADLOCK FALSE
