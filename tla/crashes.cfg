SPECIFICATION Spec
CONSTANTS
  d1 = d1
  d2 = d2
  d3 = d3
  Workers = {w1, w2}
  Destinations = {d1, d2, d3}
  OutcomeOf <- TwoAndOne
  Required = {d1, d3}
  Primary = {d2}
  Policy <- AllRequired
  AckEnabled = {"SUCCESS", "FAILED"}
  RetryAck = TRUE
  MaxAckRetry = 2
  Faults = {"refused", "lost_reply", "attachment", "no_target", "quick_restart"}
  AdminActions = {"retry"}
  MaxCrashes = 2
  CopyCap = 2
SYMMETRY WorkerSymmetry
INVARIANTS OneOwnerPerRow SentMeansDelivered NothingStuck OutstandingIsRecoverable
PROPERTIES ReactionOnlyAfterDelivery
