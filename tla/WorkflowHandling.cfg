\* Two instances, two inputs, one that the output handler makes.
CONSTANTS
  p1 = p1
  p2 = p2
  Instances = {p1, p2}
  Modes = {TRUE, FALSE}
  MaxRetries = 1
  MaxOutputs = 1
  MaxInputs <- InputsByMode
  MaxFed <- FedByMode
  MaxStarts = 3
CHECK_DEADLOCK FALSE
SPECIFICATION FairSpec
INVARIANTS
  InputsAreDecidedOnce
  DecisionsSeeTheWholeStream
  CheckpointCoversInputs
PROPERTIES
  InputsAreRecorded
