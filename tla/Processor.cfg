\* Two instances of which one keeps trying to get the lock of the other;
\* processes die, transactions fail.
CONSTANTS
  Instances = {i1, i2}
  Unknown = Unknown
  BEGINNING = BEGINNING
  END = END
  StartFrom = BEGINNING
  AcquisitionPolicy = "retry"
  TruncateOnStart = FALSE
  Disturbances = {"crash", "rollback"}
  AwaitedWhile = {}
  BatchSize = 2
  MaxMessages = 3
CHECK_DEADLOCK FALSE
SPECIFICATION FairSpec
INVARIANT
  OneInstanceAtWork
PROPERTIES
  ImplementsExactlyOnce
  EveryMessageIsHandled
