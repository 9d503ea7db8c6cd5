SPECIFICATION ServicesSpec
CONSTANTS
    Coinbase = {"a1"}
    DefaultCoinbase = "a1"
    NoBlock = NoBlock
    MaxTip = 1
    MinerTimes = {1}
    MaxCalls = 2
    MaxWorks = 2
    ResultQueueSize = 1
    StaleThreshold = 1
    SlaveList <- TwoSlaves
    FullShardIds = {1, 2, 3}
    FullShardList <- ShardsOfSlave
    RootHeight <- ShardHeights
    StakeShard = 1
    Ops <- EveryOp
    MaxTries = 1
    MaxRootHeight = 1
    MaxCrashes = 1
    MaxStarts = 1
    NoCall = NoCall
    Workers = {"w1"}
    WorkIds = {"h1", "h2", "h3"}
    HeightOfWork <- WorkHeights
    Node = {"m", "s"}
    MasterNodes = {"m"}
    Configured = {"grpc", "http", "priv", "ws"}
    DirChoices = {TRUE, FALSE}
    SvcKinds = {"kA", "kB"}
    CallsOf <- NodeCalls
    MaxNodeStarts <- NodeStarts
    MaxServices <- NodeServices
    Conn = {"c1", "c2"}
    PeerId = {"i1", "i2"}
    ConnIds <- ProtoIds
    NoConn = "none"
    NoHead = NoHead
    MaxPeerConns = 2
    MaxQueuedTips = 1
    TipSet <- ProtoTips
    AskedConns = {"c1"}
    MaxRpc = 2
    MaxMsg = 1
    PoswMiner = {"p", "q"}
    WindowSize = 3
    EnableTimestamp = 2
    DiffDivider = 2
    BoostTimestamp = 3
    BoostStepInterval = 2
    BoostSteps = 2
    BoostMultiplier = 2
    StakePerBlock = 4
    DecayTimestamp = 3
    EpochInterval = 2
    DecayNum = 1
    DecayDen = 2
    Stakes = {4, 12}
    AddrCacheSize = 2
    AdjustmentCutoff = 2
    AdjustmentFactor = 2
    MinimumDifficulty = 8
    Delays = {1}
    Efforts = {7, 27}
    PoswMaxBlocks = 4
    TreeValues = {1, 2, 3, 4, 5, 6, 7, 8}
    CacheAheadRound = 2
    MaxEpoch = 6
    Hashers = {"h1", "h2"}
    Engine = {"e1", "e2"}
    EthUsers <- EthGoroutines
    EthEpochs = {0, 1}
    CachesInMem = 1
    CachesOnDisk = 1
    MaxObjects = 4
    MaxEthCrashes = 1
CHECK_DEADLOCK FALSE
INVARIANT OnlyKnownJams
INVARIANT ApiSound
INVARIANT SolutionIsForWork
INVARIANT NodeSound
INVARIANT ProtocolSound
INVARIANT StopHeldOnlyByTask
INVARIANT PoswSound
INVARIANT HashSound
INVARIANT HashesWithWholeCache
