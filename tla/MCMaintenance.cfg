\* Two pods, one of which requires the lock; two attempts to heal two files.
CONSTANTS
  Pod = {p1, p2}
  Required = {p1}
  MaxRuns = 2
  Heal = {h1, h2}
  Path = {f1, f2}
  First = h1
  MaxOps = 2
  MaxAttempts = 2
SPECIFICATION Spec
INVARIANTS
  TypeOK
  LeaseExcludes
  RollbackRestores
  AttemptsBounded
PROPERTIES
  HealEnds
\* Attempts are used up for good, as in the code (circuit_open), and so are runs.
CHECK_DEADLOCK FALSE
