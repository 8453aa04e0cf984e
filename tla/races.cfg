SPECIFICATION Spec
CONSTANTS
  d1 = d1
  d2 = d2
  d3 = d3
  Workers = {w1, w2, w3}
  Destinations = {d1, d2, d3}
  OutcomeOf <- TwoAndOne
  Required = {d1, d3}
  Primary = {d2}
  Policy <- AnyOrPrimary
  AckEnabled = {"SUCCESS", "FAILED"}
  RetryAck = TRUE
  MaxAckRetry = 2
  Faults = {"refused", "no_target"}
  AdminActions = {"retry"}
  MaxCrashes = 0
  CopyCap = 2
SYMMETRY WorkerSymmetry
INVARIANTS TypeOK
PROPERTIES Implements
