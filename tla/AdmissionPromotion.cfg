SPECIFICATION AdmissionLeaveSpec
CONSTANTS
  Players = {a, b, c}
  MaxPlayers = 1
  ReservedSlots = 0
  MaxQueueLen = 1
  StaleAfter = 0
  Times = {0}
  Peers = {x, y}
  Blank = Blank
  Uuids = {a}
  Requires = {}
  MaxSessions = 4
PROPERTY
  PromotedGetsIn
