\* Two processors, three messages, two runs; every append is one message.
CONSTANTS
  early = early
  late = late
  END = END
  NotStarted = NotStarted
  Processors = {early, late}
  StartFrom <- FromBoth
  Setups <- AnySetup
  Faults = {"stop", "error", "reject", "start", "source", "break", "crash"}
  BatchSize = 2
  MaxChange = 1
  MaxMessages = 3
  MaxStarts = 2
CHECK_DEADLOCK FALSE
SPECIFICATION FairSpec
INVARIANTS
  TypeOK
  NothingIsPassedOver
PROPERTIES
  DrainsWhatWasThere
  ResumableSourcesGiveEverything
  StopReturns
