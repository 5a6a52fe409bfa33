SPECIFICATION ContentSpec
CONSTANTS
    Hashes = {h1, h2, h3}
    Big = {h3}
    Quota = 2
    MaxDamage = 1
    Absent = Absent
    a = a
    b = b
    c = c
    l = l
    v2 = v2
    FileLen = 3
    Versions = {v0, v1, v2}
    StallAfter = 1
    MaxTick = 3
    NoFile = NoFile
    Negotiated = v0
    Files = {a, b, c, l}
    FileSize <- MCSize
    ChunkCap = 2
    Mtu = 1
    StallPerChunk = 1
    StallSlack = 1
    MaxEdits = 1
    NLanes = 3
    Weight <- MCWeight
    MaxPending = 4
    Assets = {car, map}
    Timeout = 2
    MaxRetries = 2
INVARIANTS
    DownloadSound
    TransferSound
PROPERTIES
    CacheSound
    DeliveryEnds
CHECK_DEADLOCK FALSE
