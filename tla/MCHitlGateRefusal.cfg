CONSTANTS
  Caller = {c1}
  Manual = {}
  Operator = {o1}
  NoOne = NoOne
  MaxSize = 1
  Timeout = 2
  MaxTime = 3
SPECIFICATION Spec
INVARIANTS
  RefusalIsRejectionOrTimeout
CHECK_DEADLOCK FALSE
