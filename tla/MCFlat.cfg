SPECIFICATION Spec
CONSTANTS
  Half = 8
  Sources <- MCSources
  Planned <- MCPlanned
  Stores <- MCStores
  InvalidNames <- MCInvalidNames
  MaxRotations = 1
INVARIANTS
  TypeOK
  LoadsWhatNamesSay
  NothingInvented
  OneNameOneValue
  RangesBoundNumbers
  FormatsAgree
PROPERTY LoadReturns
CHECK_DEADLOCK FALSE
