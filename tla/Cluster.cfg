SPECIFICATION Spec
CONSTANTS
    Shard <- ThreeShards
    Slave = {"v", "w"}
    SlaveOf <- Hosts
    Neighbor <- Neighbors
    MBlock <- Minors
    ShardOf <- MinorShard
    MParent <- MinorParent
    PrevRoot <- MinorPrevRoot
    RBlock <- Line
    RParent <- RootParent
    RNumber <- RootNumber
    TD <- Difficulties
    Headers <- Contents
    Genesis = "r0"
    MGenesis <- MinorGenesis
    Caller = {"sync", "miner"}
    None = None
    MaxAborts = 1
    MaxStops = 1
CHECK_DEADLOCK FALSE
INVARIANT ListsAccounted
INVARIANT HeadersNeverRefused
