SPECIFICATION ExecSpec
CONSTANTS
    Account = {"a", "b"}
    PoolToken = {"q"}
    TxSet <- PoolTxs
    Fund <- PoolFund
    PriceBump = 10
    GlobalSlots = 2
    AccountSlots = 1
    GlobalQueue = 1
    AccountQueue = 1
    NoReset = NoReset
    MaxAdds = 3
    MaxHeads = 1
    MaxTrims = 1
    Addr = {"x", "y"}
    Token = {"q", "r"}
    GenesisBalance <- SdbBalances
    TrieThreshold = 2
    Ripemd = "y"
    NoVal = NoVal
    NoObj = NoObj
    NoTrie = NoTrie
    MaxOps = 4
    EvmAddr = {"o", "c", "n"}
    EvmToken = {"q", "r"}
    DefaultToken = "q"
    EvmOrigin = "o"
    SystemMinter = "c"
    SystemTarget = "n"
    FreshAddr = "n"
    StartWorld <- EvmWorld
    Locked <- EvmLocked
    GasWord = 1024
    StartGas = {90}
    CallValues = {0, 1}
    GasRequests = {2000}
    MntInputs <- EvmMntInputs
    GasTable <- EvmGas
    CallCreateDepth = 2
    MaxCodeSize = 1
    NoFrame = NoFrame
    MaxInstr = 3
    ByteBits = 2
    WordBytes = 2
    ByteVal <- VmBytes
    VmStarts <- VmPrograms
    VmInput <- VmCallData
    StackLimit = 7
    MemBound = 10
    EnvWord = 3
    CallOutcomes <- VmOutcomes
    StShard = {"s1", "s2"}
    StAcct = {"a", "b", "m", "g", "z"}
    StToken = {"q", "r"}
    QKC = "q"
    StMiner = "m"
    Manager = "g"
    Zero = "z"
    StBalance <- StBalances
    StStake <- StStakes
    StInbox <- StDeposits
    PoolViews <- StPools
    Outcomes <- StOutcomes
    GasOf <- StGasOf
    FeeNum = 1
    FeeDen = 2
    NativeQuote <- StQuote
    XShardGasFix = TRUE
    StReward = 3
    StGasLimit = 11
    StXGasLimit = 5
    MinMiningPrice = 1
    StMaxBlocks = 3
    IdxBlock <- IdxBlocks
    IdxNumber <- IdxNumbers
    IdxAnc <- IdxPaths
    IdxGenesis = "g"
    TxsOf <- IdxTxs
    DepositsOf <- IdxDeposits
    From <- IdxFrom
    To <- IdxTo
    OwnBranch = {"t1", "t3", "d1", "r0", "r1"}
    FromRoot = {"r0", "r1"}
    ZeroValue = {"r0"}
    Address = {"u", "v"}
    Pruned = {"b1"}
    Asked = {"t3"}
    History = TRUE
    CacheLimit = 1
    LimitMod = 256
    ByteBase = 4
    SerCases <- SerAllCases
    SerTails <- SerAfter
CHECK_DEADLOCK FALSE
INVARIANT PoolSound
 
INVARIANT EvmSound
INVARIANT BlockSound
INVARIANT IndexSound
INVARIANT EncodingSound
PROPERTY WordOpsRight
