SPECIFICATION ScriptsSpec
CONSTANTS
    Delays = {0, 1}
    Elapsed = {1, 2}
    MaxTimers = 3
    MaxHandlers = 3
    MaxNesting = 2
    MaxClock = 2
    Levels = {1, 2, 3}
    MaxFrames = 5
    NodePackages = {lodash, ws}
    MaxExtSteps = 5
    RowCounts = {0, 1, 3, 4, 15, 16}
    ShortIndexes = 16
    Assemblies = {root, core, util}
    CfgFiles = {"root", "a", "b"}
    RootCfg = "root"
    CfgContents <- MCCfgContents
    MaxIncludeDepth = 3
    CfgResources = {"chat"}
    MaxCfgLines = 2
    MaxTokens = 5
    WireInts <- MCWireInts
    WireLens = {0, 1, 2, 3, 8, 16, 31, 32, 255, 256}
    LuaInts <- MCLuaInts
    MaxSource = 5
    Significand = 6
    TickInterval = 3
    MaxTickTime = 13
    Resources = {"a", "b"}
    Relatives <- MCRelatives
    DirLinks <- MCDirLinks
    FileLinks <- MCFileLinks
    MaxVfsSteps = 5
    Keys = {key1, key2}
    Bytes = {"plain", "binary", "breakout", "encoded"}
    MaxPackageSteps = 3
    MaxRegistered = 3
    SeqBits = 4
    MaskBits = 3
    Window = 5
    Lifetime = 7
    MaxSent = 18
    SessionIds = {i1, i2, i3}
    Addrs = {a1, a2}
    NoId = NoId
    Components = {pos, vel}
    Cap = 1
    MaxWrites = 3
    MaxWire = 2
INVARIANTS
    
    ConfigSound
    WireSound
    
    WindowExact
    NoDangling
    NothingForgotten
CHECK_DEADLOCK FALSE
