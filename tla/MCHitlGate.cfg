\* A waiting caller and two manual requests share a store of two, so that
\* a third request evicts the oldest, whether or not somebody waits for it.
CONSTANTS
  Caller = {c1}
  Manual = {m1, m2}
  Operator = {o1}
  NoOne = NoOne
  MaxSize = 2
  Timeout = 2
  MaxTime = 3
SPECIFICATION FairSpec
INVARIANTS
  TypeOK
  GrantedByAnOperator
  IndexMirrorsQueue
  ApprovalHonoured
PROPERTIES
  DecisionIsFinal
  ImplementsApprovalGate
  EveryCallerAnswered
\* Every request is decided and time is over.
CHECK_DEADLOCK FALSE
