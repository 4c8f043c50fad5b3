\* Three instances share SQLite and EventStoreDB, the others have one at a time.
CONSTANTS
  p1 = p1
  p2 = p2
  p3 = p3
  Instances = {p1, p2, p3}
  Stores = {"sqlite", "eventstoredb", "mongodb", "inmemory"}
  SharedStores = {"sqlite", "eventstoredb"}
  BatchSize = 2
  MaxMessages = 3
  MaxResets = 1
SYMMETRY Symmetry
CHECK_DEADLOCK FALSE
SPECIFICATION Spec
INVARIANTS
  CheckpointCoversHandled
  WhatWasToldIsRead
  RevisionIsOfTheCheckpoint
PROPERTIES
  ImplementsRegister
