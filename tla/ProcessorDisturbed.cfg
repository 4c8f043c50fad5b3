\* All that may go wrong, with instances that go on without the lock.
CONSTANTS
  Instances = {i1, i2}
  Unknown = Unknown
  BEGINNING = BEGINNING
  END = END
  StartFrom = BEGINNING
  AcquisitionPolicy = "skip"
  TruncateOnStart = FALSE
  Disturbances = {"crash", "rollback", "expiry", "restart", "shutdown"}
  AwaitedWhile = {}
  BatchSize = 2
  MaxMessages = 2
CHECK_DEADLOCK FALSE
SYMMETRY Symmetry
SPECIFICATION Spec
INVARIANTS
  CheckpointCoversHandled
PROPERTY
  CheckpointNeverMovesBack
