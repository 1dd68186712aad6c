\* The dead letters alone, none of whose writers is cancelled.
CONSTANTS
  Publisher = {p1}
  Bootstrap = {b1, b2}
  Listener = {l1, l2}
  None = None
  Subscriber = {s1, s2}
  QueueMax = 2
  ReadMax = 2
  MaxEvents = 3
  MaxEntries = 3
  Writer = {w1, w2}
  Timer = timer
  BufferMax = 2
  BatchMax = 2
  MaxLetters = 4
  MaxCancels = 0
  Asker = {a1, a2, a3}
  Slots = 1
  MaxRetries = 1
  DailyBudget = 1
  MaxFallbacks = 1
  Parts = {"letters"}
SPECIFICATION MCFairSpec
PROPERTIES
  LettersPersisted
