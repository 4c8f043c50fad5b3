\* Three appends by two clients to two streams, and a reader in batches of one.
CONSTANTS
  Clients = {c1, c2}
  Streams = {s1, s2}
  Readers = {r1}
  NO_CONCURRENCY_CHECK = NO_CONCURRENCY_CHECK
  STREAM_DOES_NOT_EXIST = STREAM_DOES_NOT_EXIST
  STREAM_EXISTS = STREAM_EXISTS
  Null = Null
  ExpectedVersions <- AnyVersion
  ClientsReadVersionFirst = FALSE
  StartPositions = {"BEGINNING"}
  BatchSize = 2
  MaxAppendSize = 2
  MaxTransactionId = 3
SYMMETRY Symmetry
CHECK_DEADLOCK FALSE
SPECIFICATION Spec
INVARIANTS
  StreamsAreGapless
  NoMessageSkipped
PROPERTIES
  ImplementsOrderedLog
