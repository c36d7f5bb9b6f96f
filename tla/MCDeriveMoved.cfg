SPECIFICATION Spec
CONSTANTS
  Programs <- MovedRing
  Body <- MCBody
  GoLeaves <- MCGoLeaves
  Published <- MCpublish
INVARIANT WalksEnd
CHECK_DEADLOCK FALSE
