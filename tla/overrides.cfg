SPECIFICATION Spec
CONSTANTS
  d1 = d1
  d2 = d2
  d3 = d3
  Workers = {w1, w2}
  Destinations = {d1, d3}
  OutcomeOf <- OneAndOne
  Required = {d1, d3}
  Primary = {d1}
  Policy <- AllRequired
  AckEnabled = {"SUCCESS"}
  RetryAck = TRUE
  MaxAckRetry = 2
  Faults = {"refused"}
  AdminActions = {"retry", "override", "reopen"}
  MaxCrashes = 0
  CopyCap = 2
SYMMETRY WorkerSymmetry
INVARIANTS NeverDeliveredTwice
PROPERTIES SentIsForGood
