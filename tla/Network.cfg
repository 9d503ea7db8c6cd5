SPECIFICATION NetworkSpec
CONSTANTS
    P2PNode <- SrvNodes
    SelfNode = "self"
    IpOf <- SrvIps
    WhiteIp = {}
    StaticNodes = {"self"}
    BootNodes <- SrvBoots
    TableNode = {"n1"}
    MaxPeers = 2
    DialRatio = 2
    MaxPendingPeers = 2
    MaxActiveDialTasks = 1
    AdminNode = {"n1"}
    MaxAdmin = 1
    MaxConnects = 2
    Protocols <- PeerProtocols
    RemoteCaps <- PeerCaps
    PingQueue = 1
    NodeRec <- TabRecords
    SelfId = "me"
    BucketOf <- TabBuckets
    Distance <- TabDistances
    LanIp = {}
    Nursery <- TabNursery
    BucketSize = 1
    MaxReplacements = 1
    BucketIpLimit = 2
    TableIpLimit = 2
    Alpha = 2
    MaxFindnodeFailures = 1
    UserLookup = {"l1"}
    MaxAnswers = 1
    MaxTicks = 1
    Remote = {"d1"}
    PingCaller = {"u1"}
    FindCaller = {"u2"}
    TargetOf <- UdpTargets
    NeighborsWanted = 2
    MaxPackets = 3
    Request = {"b1", "s1"}
    KindOf <- ClientKinds
    Timed = {"s1"}
    MaxClientBuffer = 1
    MaxConns = 2
    MaxNotes = 1
    RpcConn = {"h1", "w1"}
    StreamConn = {"w1"}
    Apis <- RpcApis
    Incoming <- RpcMessages
    MaxMessages = 2
    MaxNotify = 1
    Subscriber = {"f1", "f2"}
    TopicOf <- FilterTopics
    ServedShard = {1}
    BackedShard = {1}
    SubChanSize = 1
    FeedChanSize = 1
    MaxPosts = 3
CHECK_DEADLOCK FALSE
INVARIANT ConnectionsSound
INVARIANT BucketsSound
INVARIANT AddedAnswered
INVARIANT NoClosedRegistered
INVARIANT EndedIsAnswered
INVARIANT NoSendAfterUnsubscribe
PROPERTY BegunEnds
