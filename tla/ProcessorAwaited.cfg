\* Awaiters of projectors that restart; one waits in its transaction for the lock.
CONSTANTS
  Instances = {i1, i2}
  Unknown = Unknown
  BEGINNING = BEGINNING
  END = END
  StartFrom = END
  AcquisitionPolicy = "retry"
  TruncateOnStart = TRUE
  Disturbances = {"crash", "restart"}
  AwaitedWhile = {"consuming", "stopping", "stopped"}
  BatchSize = 1
  MaxMessages = 2
CHECK_DEADLOCK FALSE
SYMMETRY Symmetry
SPECIFICATION Spec
INVARIANTS
  AwaiterIsNotForgotten
  ProjectionIsHeldWhileProcessing
