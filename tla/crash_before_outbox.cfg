SPECIFICATION FairSpec
CONSTANTS
  d1 = d1
  d2 = d2
  d3 = d3
  Workers = {w1}
  Destinations = {d1, d3}
  OutcomeOf <- OneAndOne
  Required = {d1, d3}
  Primary = {d1}
  Policy <- AllRequired
  AckEnabled = {"SUCCESS", "FAILED"}
  RetryAck = TRUE
  MaxAckRetry = 2
  Faults = {}
  AdminActions = {}
  MaxCrashes = 1
  CopyCap = 2
PROPERTIES FinalIsSettled
CHECK_DEADLOCK FALSE
