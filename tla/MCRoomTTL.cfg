CONSTANTS
  Socket = {s1}
  Room = {r1, r2}
  Reply = {g1, g2}
  None = None
SPECIFICATION Spec
PROPERTIES
  KeptForTTL
