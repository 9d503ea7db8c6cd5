SPECIFICATION ShardSpec
CONSTANTS
    MBlock <- TornMBlock
    MNumber <- TornMNumber
    MAnc <- TornMAnc
    RBlock <- TornRBlock
    RNumber <- TornRNumber
    RAnc <- TornRAnc
    PrevRoot <- TornPrevRoot
    Headers <- TornHeaders
    TD <- TornTD
    LastConf <- TornLastConf
    GenesisHeight = 0
    GenesisOf <- ForksGenesisOf
    None = "none"
    NoPruning = TRUE
    TriesInMemory = 1
    TriesInRootBlock = 1
    TornWrites = TRUE
    Running = {"chain"}
INVARIANT ConfirmedIsCanonical
