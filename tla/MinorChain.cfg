SPECIFICATION ShardSpec
CONSTANTS
    MBlock <- ForksMBlock
    MNumber <- ForksMNumber
    MAnc <- ForksMAnc
    RBlock <- ForksRBlock
    RNumber <- ForksRNumber
    RAnc <- ForksRAnc
    PrevRoot <- ForksPrevRoot
    Headers <- ForksHeaders
    TD <- ForksTD
    LastConf <- ForksLastConf
    GenesisHeight = 0
    GenesisOf <- ForksGenesisOf
    None = "none"
    NoPruning = TRUE
    TriesInMemory = 1
    TriesInRootBlock = 1
    TornWrites = FALSE
    Running = {"chain", "pruned", "late"}
INVARIANT FollowsRootChain
INVARIANT ServesHeadChain
PROPERTY ConfirmedIsFinal
INVARIANT RestartFollowsRootChain
PROPERTY HeaviestWins
PROPERTY ResetFollowsHeaviest
