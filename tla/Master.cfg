SPECIFICATION MasterSpec
CONSTANTS
    RBlock <- Blocks
    RNumber <- Numbers
    RAnc <- Ancs
    Genesis = "r0"
    TD <- Difficulties
    HeaderOK <- Blocks
    Headers <- Contents
    MHeader <- Minors
    Shard <- Shards
    Miner = {"m", "n"}
    ShardOf <- MinorShard
    MinerOf <- MinorMiner
    MNumber <- MinorNumber
    ParentHeader <- MinorParent
    MPrevRoot <- MinorPrevRoot
    GenesisRootHeight <- Created
    MaxBlocksPerShard = 2
    MaxStale = 1
    CountMinorBlocks = TRUE
    None = "none"
    InitiallyValidated <- AllButTwo
    MaxCrashes = 1
    SyncPeer = {"p1", "p2"}
    SyncNil = SyncNil
    SyncGenesis = "g"
    SyncBlock <- SyncBlocks
    SyncNumber <- SyncNumbers
    SyncAnc <- SyncAncs
    SyncTotal <- SyncTotals
    SyncHave = {"g", "a1", "a2", "a3"}
    HeaderListLimit = 2
    SyncTips = {"a4", "c4"}
    MaxSyncStaleness = 2
    MaxAnnounce = 2
    MaxDisturb = 1
CHECK_DEADLOCK FALSE
INVARIANT HeadSound
INVARIANT IndexesSound
INVARIANT BlocksLinked
PROPERTY SearchNarrows
PROPERTY TaskEnds
PROPERTY RootBlockArrives
