

CONSTANTS
  Caller = {w1, w2}
  Manual = {}
  Operator = {o1}
  NoOne = NoOne
  MaxSize = 1
  Timeout = 1
  MaxTime = 1
  Other = other
SPECIFICATION WSpec
PROPERTIES
  OverwriteNeedsApproval
CHECK_DEADLOCK FALSE
