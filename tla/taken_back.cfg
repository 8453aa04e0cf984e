SPECIFICATION Spec
CONSTANTS
  tick = tick
  cross = cross
  Workers = {w1, w2}
  Members = {op1, guest}
  Operators = {op1}
  ReplyKeys = {"REPLY_TEXT", "REPLY_PHOTO"}
  Replies <- TextOrPhoto
  Emojis = {tick, cross}
  Accepted <- TickOrCross
  Enabled <- BothRules
  Mode <- AllThenAny
  MaxOverrides = 1
  MaxCrashes = 1
SYMMETRY WorkerSymmetry
INVARIANTS TakenBackIsInactive
CHECK_DEADLOCK FALSE
