SPECIFICATION OperationsSpec
CONSTANTS
    Players = {a, b, c}
    MaxPlayers = 1
    ReservedSlots = 0
    MaxQueueLen = 1
    StaleAfter = 0
    Times = {0}
    Peers = {x, y}
    Blank = Blank
    Uuids = {a}
    Requires = {"device"}
    MaxSessions = 4
    spawn = spawn
    chat = chat
    Resources = {spawn, chat}
    Scripts <- MCScriptCount
    ReleaseLimit = 2
    MaxQueue = 1
    Nodes = {n1, n2}
    None = None
    HeartbeatTimeout = 1
    MaxEpoch = 2
    MaxRestarts = 1
    Threshold = 2
    Cooldown = 2
    MaxCalls = 3
    MaxFailures = 5
    MaxRequests = 3
INVARIANTS
    AdmissionSound
    HandlesAccounted
    OneHolderPerEpoch
    PendingIsWatched
PROPERTIES
    NoShortcut
    DeposedOnlyByTimeout
    NeverUnresolved
    OperationsRecover
CHECK_DEADLOCK FALSE
