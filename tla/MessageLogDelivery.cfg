\* Every append carries a version that its client has read; batches of one.
CONSTANTS
  Clients = {c1, c2}
  Streams = {s1, s2}
  Readers = {r1}
  NO_CONCURRENCY_CHECK = NO_CONCURRENCY_CHECK
  STREAM_DOES_NOT_EXIST = STREAM_DOES_NOT_EXIST
  STREAM_EXISTS = STREAM_EXISTS
  Null = Null
  ExpectedVersions <- ReadVersion
  ClientsReadVersionFirst = TRUE
  StartPositions = {"BEGINNING", "END"}
  BatchSize = 1
  MaxAppendSize = 2
  MaxTransactionId = 3
CHECK_DEADLOCK FALSE
SPECIFICATION FairSpec
INVARIANT
  DeliveredInStreamOrder
PROPERTY
  EveryMessageDelivered
