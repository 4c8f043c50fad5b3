\* Three appends, two rebuilds, a process that migrates and an operator.
CONSTANTS
  Truncating = {TRUE, FALSE}
  MaxAppends = 3
  MaxRebuilds = 2
  MaxRegistrations = 2
  MaxChanges = 2
CHECK_DEADLOCK FALSE
SPECIFICATION Spec
INVARIANTS
  InlineOnlyWhileActive
  RebuildHandlesEverything
  NothingIsProjectedTwice
