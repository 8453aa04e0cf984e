SPECIFICATION Spec
CONSTANTS
  Workers = {w1, w2}
  StoreOn = {}
  NoteOn = {}
  Reacts = {"RECEIVED", "SUCCESS"}
  FaultSets <- NoFault
  NoteCap = 2
  MaxOverrides = 0
  MaxCrashes = 0
  MaxEdits = 0
PROPERTIES LaterStageStays
CHECK_DEADLOCK FALSE
