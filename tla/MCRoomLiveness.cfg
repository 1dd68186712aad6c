CONSTANTS
  Socket = {s1, s2}
  Room = {r1}
  Reply = {g1, g2}
  None = None
SPECIFICATION FairSpec
PROPERTIES
  AbandonedRoomDropped
  HandlersGoOn
