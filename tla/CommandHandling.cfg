\* Two clients with three commands between them on one stream of any of the five stores.
CONSTANTS
  NoCheck = NoCheck
  NoStream = NoStream
  SomeStream = SomeStream
  Nothing = Nothing
  Clients = {c1, c2}
  Stores = {"memory", "postgres", "sqlite", "mongo", "esdb"}
  NO_CONCURRENCY_CHECK = NoCheck
  STREAM_DOES_NOT_EXIST = NoStream
  STREAM_EXISTS = SomeStream
  NotGiven = Nothing
  ExpectedVersions <- AnyExpectation
  MaxRetries = 1
  MaxAppendSize = 2
  MaxCommands = 3
CHECK_DEADLOCK FALSE
SPECIFICATION FairSpec
INVARIANTS
  CallersAreToldTheTruth
  ReadModelFollowsStream
PROPERTIES
  ImplementsCompareAndAppend
  ConflictsAreReal
  EveryCommandIsAnswered
