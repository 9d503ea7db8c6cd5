SPECIFICATION Spec
CONSTANTS
    RBlock <- Blocks
    RNumber <- Numbers
    RAnc <- Ancs
    Genesis = "r0"
    TD <- Difficulties
    HeaderOK <- Blocks
    Headers <- Contents
    MHeader <- Minors
    Shard <- Shards
    Miner = {"m", "n"}
    ShardOf <- MinorShard
    MinerOf <- MinorMiner
    MNumber <- MinorNumber
    ParentHeader <- MinorParent
    MPrevRoot <- MinorPrevRoot
    GenesisRootHeight <- Created
    MaxBlocksPerShard = 2
    MaxStale = 1
    CountMinorBlocks = FALSE
    None = "none"
    InitiallyValidated <- Minors
    MaxCrashes = 0
CHECK_DEADLOCK FALSE
INVARIANT LookupOnChain
