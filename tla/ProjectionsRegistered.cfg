\* A process migrates the schema while others append; no rebuild, no operator.
CONSTANTS
  Truncating = {FALSE}
  MaxAppends = 2
  MaxRebuilds = 0
  MaxRegistrations = 1
  MaxChanges = 0
CHECK_DEADLOCK FALSE
SPECIFICATION Spec
INVARIANT
  ReadModelIsConsistent
