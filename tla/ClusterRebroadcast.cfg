SPECIFICATION Spec
CONSTANTS
    Shard <- TwoShards
    Slave = {"v", "w"}
    SlaveOf <- Hosts
    Neighbor <- Neighbors
    MBlock <- Minors
    ShardOf <- MinorShard
    MParent <- MinorParent
    PrevRoot <- MinorPrevRoot
    RBlock <- Fork
    RParent <- RootParent
    RNumber <- RootNumber
    TD <- Difficulties
    Headers <- Contents
    Genesis = "r0"
    MGenesis <- MinorGenesis
    Caller = {"sync"}
    None = None
    MaxAborts = 0
    MaxStops = 1
CHECK_DEADLOCK FALSE
INVARIANT CommittingResent
