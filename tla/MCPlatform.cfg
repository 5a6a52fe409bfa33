SPECIFICATION PlatformSpec
CONSTANTS
    Accounts = {acc1, acc2}
    Amounts = {0, 1}
    MaxStatements = 5
    MaxUnits = 2
    Versions = {1, 2, 3}
    MaxEdits = 1
    MaxCrashes = 2
    Nobody = Nobody
    Plain = {bob}
    Enrolled = {ann}
    max_attempts = 2
    lockout_window = 3
    absolute_ttl = 5
    idle_ttl = 2
    STEP = 2
    SKEW_WINDOWS = 1
    MaxTokens = 1
    MaxAuthTime = 7
    NoToken = NoToken
    Conditions = {disk, cpu}
    MaxReports = 5
    TimelineCapacity = 2
    Admins = {adm}
    Players = {p1, p2}
    AuditCapacity = 2
    MaxActions = 5
    Durations = {0, 1, 2}
    SlowThreshold = 1
    SAMPLE_WINDOW = 5
    MaxSamples = 7
    Unit = 2
    Burst = 2
    RefillPerTick = 1
    MaxBucketTime = 6
    MaxPayload = 6
    MaxSpeed = 2
    Slack = 1
    WorldEdge = 4
    MaxReported = 4
    Servers = {s1, s2}
    MaxGrantTime = 3
    HistoryMax = 4
    HistoryDrop = 2
    MaxTimings = 6
    CrashThreshold = 3
    CrashWindow = 2
    Builds = {b1}
    Suspects = {r1, r2}
    MaxCrashTime = 4
    east = east
    west = west
    car = car
    dog = dog
    ShardIds = {east, west}
    Tickets = {t1, t2}
    Objects = {car, dog}
    Handoffs <- MCHandoffs
    LeaseTtl = 1
    MaxShardTime = 1
    MaxEpoch = 3
    Sources = {ip1, ip2, ip3}
    DeniedNet = {ip3}
    ShieldNet = {ip2}
    per_ip_connection_limit = 2
    origin_connection_limit = 3
    failure_threshold = 2
    fail_closed = FALSE
    max_per_window = 2
    query_window = 2
    MaxQueryTime = 4
    PartSize = {1, 3}
    MAX_RESPONSE = 4
    max_crash_retries = 2
    watchdog_timeout = 1
    MaxAgentTime = 3
    MaxStarts = 4
    MaxReportedCrashes = 3
    MaxBuild = 3
    ArtifactIds = {a1, a2}
    MaxVersion = 3
    MaxInstalls = 4
    NoArtifact = NoArtifact
    Paths = {f1, f2}
    Contents = {x, y}
    SemVers <- MCSemVers
    PackageNames = {chat}
    NoVersion = NoVersion
    ScriptFiles = {lua1, lua2}
    MaxUses = 1
    Keys = {k1, k2}
    Values = {v1}
    Absent = Absent
    MaxOps = 3
    MaxFaults = 2
    MaxDamage = 1
INVARIANTS
    DatabaseSound
    AegisSound
    DefenceSound
    FleetSound
    ReleasesSound
PROPERTIES
    Durable
CHECK_DEADLOCK FALSE
