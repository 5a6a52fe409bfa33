SPECIFICATION ShutdownSpec
CONSTANTS
    Players = {a, b, c}
    MaxPlayers = 1
    ReservedSlots = 0
    MaxQueueLen = 1
    StaleAfter = 0
    Times = {0}
    Peers = {x, y}
    Blank = Blank
    Uuids = {a}
    Requires = {"device"}
    MaxSessions = 4
    spawn = spawn
    chat = chat
    Resources = {spawn, chat}
    Scripts <- MCScriptCount
    ReleaseLimit = 2
    MaxQueue = 2
    Nodes = {n1, n2}
    None = None
    HeartbeatTimeout = 1
    MaxEpoch = 1
    MaxRestarts = 0
    Threshold = 2
    Cooldown = 2
    MaxCalls = 3
    MaxFailures = 5
    MaxRequests = 1
PROPERTY ShutdownStopsAll
CHECK_DEADLOCK FALSE
