SPECIFICATION WorldSpec
CONSTANTS
    MaxEntities = 2
    MaxGen = 1
    Owners = {p1, r1}
    Buckets = {0, 1}
    Bodies = {e1, e2}
    Coords <- MCCoords
    Cell = 2
    NearRadius = 1
    MediumRadius = 2
    FarRadius = 3
    MaxAmbient = 1
    Spellings <- MCSpellings
    Grants <- MCGrants
    Writers = {w1, w2}
    NoOwner = NoOwner
    Keys = {k1, k2}
    BadKeys = {longkey}
    Data = {x}
    BadData = {huge}
    MaxSeq = 4
    People = {alice, bob}
    Names = {n1, n2, n3}
    MaxCharacters = 2
    MaxGrade = 1
    Theta = 3
    MaxDelay = 3
    MaxLead = 4
    SampleCap = 2
    HistoryCap = 2
    MaxStamp = 3
    MaxPos = 1
    MaxEvents = 3
    MaxEventTick = 1
    SnapKeys = {kk, NoKey}
    NoKey = NoKey
    SnapValues = {s1, s2}
    Talkers = {t1, t2, t3}
    Channels = {radio}
    MaxMembers = 2
    SeqSpace = 8
    MaxProduced = 10
    Pages = {shop, phone}
    NoPage = NoPage
    Callbacks = {buy}
    MaxRequests = 3
    QueueCap = 2
    MaxMessages = 4
    MaxDim = 2
    PlainKeys = {keyE}
    MaxBindings = 3
    StallBudget = 1
    MaxBytes = 2
    Gates = 3
    MaxPolls = 3
    MaxProtocol = 3
    Features = {dui}
    MaxVersion = 2
    Clients = 4
    QueueDepth = 2
    Resources = 2
    RetryTicks = 5
    MaxCost = 1
    MaxTasks = 3
    MaxAccounts = 2
    LaneCap = 2
    MaxWork = 3
    Scripts = {core, addon}
    CoreScripts = {core}
    MaxHandlers = 3
    car = car
    map = map
    meta = meta
    Assets = {car, map}
    Datafiles = {meta}
    Deps <- MCDeps
    Timeout = 1
    MaxRetries = 0
    IdleLimit = 1
    Accounts = {cash1, bank1, cash2}
    MoneySpace = 4
    Amounts = {0, 1, 2, 3}
    MintLimit = 5
    MaxLedger = 2
    Items = {bandage}
    Storages = {player, trunk, pouch}
    Nested = {pouch}
    Weights = {1, 2}
    Stacks = {2}
    Limits = {3}
    Counts = {0, 1, 2}
    WeightSpace = 16
    MaxEdits = 1
    MaxGranted = 3
    MaxSlots = 2
INVARIANTS
    WorldSound
    FrameworkSound
    TimelineSound
    PresenceSound
    ArrivalSound
    SchedulingSound
    GoodsAccounted
PROPERTIES
    GatesSound
CHECK_DEADLOCK FALSE
