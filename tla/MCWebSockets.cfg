\* Two clients of one name; two objects, so that the name can be dropped and
\* joined again while timers, replies and handlers hold the dropped object;
\* three utterances in a voice session; two coroutines with the memory of two
\* users, in five calls on three sessions, so that a summary's turns can meet a
\* third session; two clients of the database, with three attempts as in the
\* code.  The parts have no state in common, so that they may share model values,
\* and with them the few permutations of Symmetry; the ids of sessions are
\* used in a fixed order and need none.
CONSTANTS
  Socket = {c1, c2}
  Room = {r1, r2}
  Reply = {g1, g2}
  None = None
  Turn = {g1, g2}
  NoTurn = NoTurn
  MaxCommits = 3
  MaxSegments = 2
  Coroutine = {c1, c2}
  User = {g1, g2}
  Session = {s1, s2, s3}
  Unset = Unset
  Gone = Gone
  TurnLimit = 3
  KeepLast = 1
  MinMessages = 2
  MaxAdds = 3
  MaxErrands = 5
  Client = {c1, c2}
  Nobody = Nobody
  MaxTries = 3
  MaxWrites = 3
SPECIFICATION MCSpec
SYMMETRY Symmetry
INVARIANTS
  MCTypeOK
  NoSplitRoom
  OutputInOrder
  ClosedSessionIsOver
  TurnsOfSession
  TurnsInOrder
  WritesWhole
PROPERTIES
  DeparturesSpareTheRoom
