\* Two tasks of one supervisor, a swarm task with a retry, two dispatchers.
CONSTANTS
  Task = {t1, t2}
  Specialist = {}
  MaxTurns = 4
  MaxHops = 2
  MaxQARetries = 1
  MaxFailures = 2
  Fallback = t1
  Goal = {g1, g2}
  MaxHandoffs = 2
  MaxTaskRetries = 1
  RepeatLimit = 2
  Caller = {c1, c2}
  Key = {k1, k2, k3}
  NoKey = NoKey
  CacheMax = 2
SPECIFICATION Spec
INVARIANTS
  TypeOK
  FailuresBounded
  SharedBudget
  RecentKeysKept
PROPERTIES
  ImplementsTaskBudget
  DelegationEnds
  SwarmEnds
