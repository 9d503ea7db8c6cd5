SPECIFICATION ShardSpec
CONSTANTS
    MBlock <- LateMBlock
    MNumber <- LateMNumber
    MAnc <- LateMAnc
    RBlock <- LateRBlock
    RNumber <- LateRNumber
    RAnc <- LateRAnc
    PrevRoot <- LatePrevRoot
    Headers <- LateHeaders
    TD <- LateTD
    LastConf <- LateLastConf
    GenesisHeight = 1
    GenesisOf <- LateGenesisOf
    None = "none"
    NoPruning = TRUE
    TriesInMemory = 1
    TriesInRootBlock = 1
    TornWrites = FALSE
    Running = {"chain"}
INVARIANT CanonicalIsHeadChain
