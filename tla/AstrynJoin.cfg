CHECK_DEADLOCK FALSE
SPECIFICATION JoinFairSpec
CONSTANTS
  Players = {x, y}
  MaxPlayers = 1
  ReservedSlots = 0
  MaxQueueLen = 1
  StaleAfter = 0
  Times = {0}
  Peers = {x}
  Blank = Blank
  Uuids = {x}
  Requires = {"device"}
  MaxSessions = 3
  HelloTries = 2
  AuthRecvs = 2
  IdentityRecvs = 2
  EntitlementRecvs = 2
  MaxDups = 1
INVARIANTS
  RunningHoldsSlot
PROPERTY
  JoinEnds
