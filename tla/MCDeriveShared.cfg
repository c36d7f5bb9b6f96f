SPECIFICATION Spec
CONSTANTS
  Programs <- SharedOne
  Body <- MCBody
  GoLeaves <- MCGoLeaves
  Published <- MCpublish
INVARIANT DescriptorsImmutable
CHECK_DEADLOCK FALSE
