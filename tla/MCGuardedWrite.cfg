\* Two writers of one path; a store of one, so that the second request evicts
\* the first.
CONSTANTS
  Caller = {w1, w2}
  Manual = {}
  Operator = {o1}
  NoOne = NoOne
  MaxSize = 1
  Timeout = 1
  MaxTime = 2
  Other = other
SPECIFICATION WSpec
INVARIANTS
  SeenOverwriteApproved
  RefusedTextNeverLands
CHECK_DEADLOCK FALSE
