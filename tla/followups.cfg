SPECIFICATION FairSpec
CONSTANTS
  Workers = {w1, w2}
  StoreOn = {"SUCCESS", "FAILED"}
  NoteOn = {"SUCCESS"}
  Reacts = {"RECEIVED", "IN_PROGRESS", "SUCCESS"}
  FaultSets <- AnyFault
  NoteCap = 2
  MaxOverrides = 1
  MaxCrashes = 1
  MaxEdits = 1
INVARIANTS TypeOK OneStoreCaller NotedOnce SentWasTold OnlyDecisionsGoOut UpdateIsInHand
PROPERTIES CallSettles
CHECK_DEADLOCK FALSE
