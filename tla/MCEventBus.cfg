\* Two bootstrap and two listener task objects, reused once nothing refers to
\* them; two subscribers with queues of two; two writers of dead letters;
\* three coroutines and one slot of the GPU, so that two may wait.
CONSTANTS
  Publisher = {p1}
  Bootstrap = {b1, b2}
  Listener = {l1, l2}
  None = None
  Subscriber = {s1, s2}
  QueueMax = 2
  ReadMax = 2
  MaxEvents = 4
  MaxEntries = 3
  Writer = {w1, w2}
  Timer = timer
  BufferMax = 2
  BatchMax = 2
  MaxLetters = 5
  MaxCancels = 1
  Asker = {a1, a2, a3}
  Slots = 1
  MaxRetries = 1
  DailyBudget = 1
  MaxFallbacks = 1
  Parts = {"connection", "delivery", "letters", "model"}
SPECIFICATION MCSpec
SYMMETRY Symmetry
INVARIANTS
  MCTypeOK
  ConnectionSettled
  NoEndlessWait
  NoGap
  ReadIsSettled
  JournalComplete
  LockServed
  SlotsKept
  BudgetKept
