------------------------------ MODULE ClusterApi ------------------------------
(***************************************************************************)
(* The calls between the master and its slaves: how the master starts the  *)
(* slaves and they connect to each other, how a slave creates its shards   *)
(* as the root chain grows, how a request of an API or of a peer finds the *)
(* slaves of its branch, and how a slave hands the cross-shard lists of a  *)
(* minor block to the slaves of the other shards.                          *)
(*                                                                         *)
(* A request is what it is about (its branch) and the types its bytes are  *)
(* written and read with; Cluster models what the chains do with the root  *)
(* blocks and the lists, this module which of them arrive where.           *)
(***************************************************************************)
EXTENDS Naturals, FiniteSets, Sequences

CONSTANTS
    SlaveList,        \* the slaves of ClusterConfig, in its order
    FullShardIds,     \* GetGenesisShardIds
    FullShardList,    \* per slave, the full shard ids of its SlaveConfig
    RootHeight,       \* per shard, Genesis.RootHeight
    StakeShard,       \* chain 0 shard 0, which GetRootChainStakes asks for
    Ops,              \* the operations asked for
    MaxTries,         \* tries of AddRootBlock; 3 in the code
    MaxRootHeight, MaxCrashes, MaxStarts, \* bounds
    NoCall            \* no request, no root block under way

ApiSlaves == {SlaveList[i] : i \in DOMAIN SlaveList}

ASSUME ApiAssumption ==
    /\ FullShardList \in [ApiSlaves -> SUBSET FullShardIds]
    /\ RootHeight \in [FullShardIds -> Nat]
    /\ StakeShard \in FullShardIds /\ IsFiniteSet(FullShardIds)
    /\ SlaveList \in Seq(ApiSlaves)

VARIABLES
    master,       \* what the master does, and the slaves it still waits for
    slaveUp,      \* per slave, its process runs
    shards,       \* per slave, the keys of SlaveBackend.shards
    target,       \* per slave, ConnManager knows the master's endpoint
    slavesConn,   \* per slave, the slaves it has a connection to
    pinging,      \* per slave, the slaves the MasterInfo handler has yet to ping
    seen,         \* per slave, the height of the last root block it has answered for
    rootTip,      \* the height of the master's root chain
    spread,       \* the root block broadcastRootBlockToSlaves is sending
    ask,          \* the request under way
    apiJob,          \* the minor block a shard is sending the lists of
    xshardLists,        \* per slave, the lists its shards have stored: <<block, receiver>>
    reported,     \* the minor blocks reported to the master: shard, root height
    crashes, starts   \* slaves that stopped, starts of the master

apiVars == <<master, slaveUp, shards, target, slavesConn, pinging, seen, rootTip, spread, ask,
             apiJob, xshardLists, reported, crashes, starts>>
bootVars == <<master, slaveUp, shards, target, slavesConn, pinging, seen, crashes, starts>>
listVars == <<apiJob, xshardLists, reported>>

ApiInit ==
    /\ master = [at |-> "down", left |-> {}]
    /\ slaveUp = [v \in ApiSlaves |-> TRUE]
    /\ shards = [v \in ApiSlaves |-> {}]
    /\ target = [v \in ApiSlaves |-> FALSE]
    /\ slavesConn = [v \in ApiSlaves |-> {}]
    /\ pinging = [v \in ApiSlaves |-> {}]
    /\ seen = [v \in ApiSlaves |-> 0]
    /\ rootTip = 0 /\ spread = NoCall /\ ask = NoCall /\ apiJob = NoCall
    /\ xshardLists = [v \in ApiSlaves |-> {}] /\ reported = {}
    /\ crashes = 0 /\ starts = 0

-----------------------------------------------------------------------------
(* The shards of a slave.                                                  *)

\* HasShard: the slaves that are configured to run shard s.
HasShard(s) == {v \in ApiSlaves : s \in FullShardList[v]}

\* GetInitializedShardIdsBeforeRootHeight.
InitializedBefore(h) == {s \in FullShardIds : RootHeight[s] < h}

\* GetConnectionsByFullShardId of slave v.
Connections(v, s) == slavesConn[v] \cap HasShard(s)

\* AddXshardTxList of the connections to shard t: every slave called must run and
\* have created t.  Without a connection nothing is called and nothing fails.
ListTaken(v, t) == \A w \in Connections(v, t) : slaveUp[w] /\ t \in shards[w]

\* The slaves that have the list of a block of v for t afterwards: v itself, when it
\* runs t, and those the call reached.
ListHolders(v, t) ==
    {w \in Connections(v, t) : slaveUp[w] /\ t \in shards[w]}
        \cup {w \in {v} : t \in shards[w]}

WithLists(sent) ==
    [w \in ApiSlaves |-> xshardLists[w] \cup {<<e[1], e[2]>> : e \in {x \in sent : x[3] = w}}]

\* initGenesisState of the shards in ss, which root block h creates on slave v: the
\* empty list goes to the shards that are older, the header to the master.
GenesisLists(v, ss, h) ==
    UNION {{<<<<s, h>>, t, w>> : w \in ListHolders(v, t)} : s \in ss, t \in InitializedBefore(h)}

GenesisTaken(v, ss, h, endpoint) ==
    ss # {} => /\ \A t \in InitializedBefore(h) : ListTaken(v, t)
               /\ endpoint /\ master.at # "down"

\* CreateShards of slave v for the root block of height h: every shard that is due
\* and not in the map yet is made and initialised.  When one of them fails all
\* shards of the slave are stopped and the map is emptied.
Due(v, h) == {s \in FullShardList[v] : RootHeight[s] <= h}

\* The shards of again are in the map already and run their initialisation too (forceInit,
\* or AddRootBlock of a shard whose genesis height this is); an error of theirs leaves
\* the map as it is.
CreateShards(v, h, again, endpoint, ok) ==
    LET fresh == Due(v, h) \ shards[v]
        made == {s \in fresh \cup again : RootHeight[s] = h}
    IN  \/ /\ ok /\ GenesisTaken(v, made, h, endpoint)
           /\ shards' = [shards EXCEPT ![v] = @ \cup fresh]
           /\ seen' = [seen EXCEPT ![v] = h]
           /\ xshardLists' = WithLists(GenesisLists(v, made, h))
           /\ reported' = reported \cup {<<s, h>> : s \in made}
        \/ /\ ~ok /\ fresh # {}
           /\ shards' = [shards EXCEPT ![v] = {}]
           /\ UNCHANGED <<seen, xshardLists, reported>>
        \/ /\ ~ok /\ again # {}
           /\ UNCHANGED <<shards, seen, xshardLists, reported>>

-----------------------------------------------------------------------------
(* Starting the cluster.                                                   *)

\* Init of QKCMasterBackend: InitConnManager pings the slaves one after the other.  A
\* handler that a failed start has left at a slave answers for this start too: the root
\* tip is still the same.
StartMaster ==
    /\ master.at = "down"
    /\ starts < MaxStarts /\ starts' = starts + 1
    /\ master' = [at |-> "pinging", left |-> ApiSlaves]
    /\ UNCHANGED <<slaveUp, shards, target, slavesConn, pinging, seen, crashes, rootTip, spread,
                   ask, listVars>>

MasterGone == [at |-> "down", left |-> {}]

\* The first slave of the list that is in vs.
NextSlave(vs) == SlaveList[CHOOSE i \in DOMAIN SlaveList :
                             /\ SlaveList[i] \in vs
                             /\ \A j \in DOMAIN SlaveList : j < i => SlaveList[j] \notin vs]

\* SendPing and checkPing: a slave that does not answer ends the start.
InitConnManager ==
    /\ master.at = "pinging"
    /\ LET v == NextSlave(master.left)
       IN  master' = IF ~slaveUp[v] THEN MasterGone
                     ELSE IF master.left = {v} THEN [at |-> "sharding", left |-> ApiSlaves]
                     ELSE [master EXCEPT !.left = @ \ {v}]
    /\ UNCHANGED <<slaveUp, shards, target, slavesConn, pinging, seen, crashes, starts, rootTip,
                   spread, ask, listVars>>

\* initShards calls MasterInfo of all slaves at once.  Slave v takes the endpoint,
\* creates its shards up to the root tip and begins to connect to the other slaves.
MasterInfo(v) ==
    /\ master.at = "sharding" /\ v \in master.left /\ slaveUp[v] /\ pinging[v] = {}
    /\ target' = [target EXCEPT ![v] = TRUE]
    /\ \/ /\ CreateShards(v, rootTip, shards[v], target'[v], TRUE)
          /\ pinging' = [pinging EXCEPT ![v] = ApiSlaves]
          /\ slavesConn' = [slavesConn EXCEPT ![v] = {}]
          /\ UNCHANGED master
       \/ /\ CreateShards(v, rootTip, shards[v], target'[v], FALSE)
          /\ master' = MasterGone
          /\ UNCHANGED <<pinging, slavesConn>>
    /\ UNCHANGED <<slaveUp, crashes, starts, rootTip, spread, ask, apiJob>>

\* A connection only to slaves that are not connecting themselves.
MutSetConnect(v) ==
    /\ pinging[v] # {} /\ slaveUp[v]
    /\ LET w == NextSlave(pinging[v])
       IN
        /\ slavesConn' = [slavesConn EXCEPT ![v] = IF pinging[w] = {} THEN @ \cup {w} ELSE @]
        /\ pinging' = [pinging EXCEPT ![v] = @ \ {w}]
        /\ LET ends == pinging[v] = {w} /\ master.at = "sharding"
               left == master.left \ {v}
           IN  master' = IF ~ends THEN master
                         ELSE [at |-> IF left = {} THEN "running" ELSE "sharding", left |-> left]
    /\ UNCHANGED <<slaveUp, shards, target, seen, crashes, starts, rootTip, spread, ask, listVars>>

\* SetConnectToMasterAndSlaves: a slave that does not answer the ping gets no
\* connection, and the handler goes on.  With the last one MasterInfo returns.
SetConnect(v) ==
    /\ pinging[v] # {} /\ slaveUp[v]
    /\ LET w == NextSlave(pinging[v])
       IN
        /\ slavesConn' = [slavesConn EXCEPT ![v] = IF slaveUp[w] THEN @ \cup {w} ELSE @]
        /\ pinging' = [pinging EXCEPT ![v] = @ \ {w}]
        /\ LET ends == pinging[v] = {w} /\ master.at = "sharding"
               left == master.left \ {v}
           IN  master' = IF ~ends THEN master
                         ELSE [at |-> IF left = {} THEN "running" ELSE "sharding", left |-> left]
    /\ UNCHANGED <<slaveUp, shards, target, seen, crashes, starts, rootTip, spread, ask, listVars>>

\* A slave stops: its shards, its endpoint and its connections are gone.  What its
\* shards have stored stays, and so do the calls the master waits for.
SlaveCrash(v) ==
    /\ slaveUp[v] /\ crashes < MaxCrashes
    /\ slaveUp' = [slaveUp EXCEPT ![v] = FALSE]
    /\ shards' = [shards EXCEPT ![v] = {}]
    /\ target' = [target EXCEPT ![v] = FALSE]
    /\ slavesConn' = [slavesConn EXCEPT ![v] = {}]
    /\ pinging' = [pinging EXCEPT ![v] = {}]
    /\ master' = IF pinging[v] # {} /\ master.at = "sharding"
                 THEN MasterGone ELSE master
    /\ apiJob' = IF apiJob # NoCall /\ apiJob.by = v THEN NoCall ELSE apiJob
    /\ crashes' = crashes + 1
    /\ UNCHANGED <<seen, starts, rootTip, spread, ask, xshardLists, reported>>

SlaveRestart(v) ==
    /\ ~slaveUp[v]
    /\ slaveUp' = [slaveUp EXCEPT ![v] = TRUE]
    /\ seen' = [seen EXCEPT ![v] = 0]
    /\ UNCHANGED <<master, shards, target, slavesConn, pinging, crashes, starts, rootTip, spread,
                   ask, listVars>>

\* HeartBeat: a slave that does not answer, or has no shard, shuts the master down.
Heartbeat(v) ==
    /\ master.at = "running" /\ (~slaveUp[v] \/ shards[v] = {})
    /\ master' = MasterGone /\ spread' = NoCall /\ ask' = NoCall
    /\ UNCHANGED <<slaveUp, shards, target, slavesConn, pinging, seen, crashes, starts, rootTip,
                   listVars>>

-----------------------------------------------------------------------------
(* Root blocks.                                                            *)

\* AddRootBlock of QKCMasterBackend: the block is stored, as the new tip or on a
\* branch, and goes to all slaves at once; each call is tried MaxTries times.
ApiAddRootBlock(h) ==
    /\ master.at = "running" /\ spread = NoCall
    /\ h \in {rootTip, rootTip + 1} /\ 1 <= h /\ h <= MaxRootHeight
    /\ rootTip' = IF h > rootTip THEN h ELSE rootTip
    /\ spread' = [height |-> h, left |-> ApiSlaves, tries |-> [v \in ApiSlaves |-> MaxTries],
                  failed |-> FALSE]
    /\ UNCHANGED <<bootVars, ask, listVars>>

TryFails(v) ==
    spread' = IF spread.tries[v] > 1 THEN [spread EXCEPT !.tries[v] = @ - 1]
              ELSE [spread EXCEPT !.tries[v] = 0, !.left = @ \ {v}, !.failed = TRUE]

\* One try of SlaveConnection.AddRootBlock: the handler of the slave adds the block
\* to the shards it has and creates the ones that are due.  An error of a shard ends
\* it before CreateShards.
SlaveAddRootBlock(v) ==
    /\ spread # NoCall /\ v \in spread.left
    /\ UNCHANGED target
    /\ \/ /\ slaveUp[v]
          /\ CreateShards(v, spread.height, shards[v], target'[v], TRUE)
          /\ spread' = [spread EXCEPT !.left = @ \ {v}]
       \/ /\ slaveUp[v]
          /\ CreateShards(v, spread.height, shards[v], target'[v], FALSE)
          /\ TryFails(v)
       \/ /\ ~slaveUp[v]
          /\ TryFails(v)
          /\ UNCHANGED <<shards, seen, xshardLists, reported>>
    /\ UNCHANGED <<master, slaveUp, slavesConn, pinging, crashes, starts, rootTip, ask, apiJob>>

\* broadcastRootBlockToSlaves returns; an error is a panic of the master.
SpreadEnds ==
    /\ spread # NoCall /\ spread.left = {}
    /\ spread' = NoCall
    /\ IF spread.failed THEN master' = MasterGone /\ ask' = NoCall ELSE UNCHANGED <<master, ask>>
    /\ UNCHANGED <<slaveUp, shards, target, slavesConn, pinging, seen, crashes, starts, rootTip,
                   listVars>>

-----------------------------------------------------------------------------
(* Minor blocks and their lists.                                           *)

\* AddMinorBlock of a shard of v, up to BroadcastXshardTxList: a block on the last root
\* block the slave has.  A request and a minor block under way share nothing, so the
\* model has one of them at a time.
MineBlock(v, s) ==
    /\ slaveUp[v] /\ s \in shards[v] /\ apiJob = NoCall /\ ask = NoCall /\ seen[v] > RootHeight[s]
    /\ <<s, seen[v]>> \notin reported
    /\ apiJob' = [by |-> v, shard |-> s, on |-> seen[v], to |-> InitializedBefore(seen[v]) \ {s}]
    /\ UNCHANGED <<bootVars, rootTip, spread, ask, xshardLists, reported>>

\* BroadcastXshardTxList, one receiving shard: stored if the slave runs it, and sent to
\* the slaves connected for it.  One error ends the broadcast.
BroadcastXshardTxList ==
    /\ apiJob # NoCall /\ apiJob.to # {}
    /\ \E t \in apiJob.to :
        /\ xshardLists' = WithLists({<<<<apiJob.shard, apiJob.on>>, t, w>> : w \in ListHolders(apiJob.by, t)})
        /\ apiJob' = IF ListTaken(apiJob.by, t) THEN [apiJob EXCEPT !.to = @ \ {t}] ELSE NoCall
    /\ UNCHANGED <<bootVars, rootTip, spread, ask, reported>>

\* SendMinorBlockHeaderToMaster, which fails without an endpoint or without a master.
SendMinorBlockHeaderToMaster ==
    /\ apiJob # NoCall /\ apiJob.to = {}
    /\ apiJob' = NoCall
    /\ reported' = IF target[apiJob.by] /\ master.at # "down"
                   THEN reported \cup {<<apiJob.shard, apiJob.on>>} ELSE reported
    /\ UNCHANGED <<bootVars, rootTip, spread, ask, xshardLists>>

-----------------------------------------------------------------------------
(* Requests.  A stub of SlaveConnection writes a request of one type and    *)
(* reads an answer of another; a handler of SlaveServerSideOp reads and     *)
(* writes.  No type stands for an answer without data, Bytes for data that  *)
(* is handed on as it is.                                                   *)

Stub(writes, reads) == [writes |-> writes, reads |-> reads]
Handler(reads, writes) == [writes |-> writes, reads |-> reads]
NoData == "no data"
Bytes == "bytes"

TxStubs ==
    [AddTransaction |-> Stub("AddTransactionRequest", NoData),
     ExecuteTransaction |-> Stub("ExecuteTransactionRequest", "ExecuteTransactionResponse"),
     GetTransaction |-> Stub("GetTransactionRequest", "GetTransactionResponse"),
     GetTransactionReceipt |-> Stub("GetTransactionReceiptRequest", "GetTransactionReceiptResponse"),
     GetTransactionListByAddress |-> Stub("GetTransactionListByAddressRequest", "GetTxDetailResponse"),
     GetAllTx |-> Stub("GetAllTxRequest", "GetTxDetailResponse")]

StateStubs ==
    [GetLogs |-> Stub("FilterQuery", "GetLogResponse"),
     EstimateGas |-> Stub("EstimateGasRequest", "EstimateGasResponse"),
     GetStorageAt |-> Stub("GetStorageRequest", "GetStorageResponse"),
     GetCode |-> Stub("GetCodeRequest", "GetCodeResponse"),
     GasPrice |-> Stub("GasPriceRequest", "GasPriceResponse"),
     GetWork |-> Stub("GetWorkRequest", "MiningWork"),
     SubmitWork |-> Stub("SubmitWorkRequest", "SubmitWorkResponse")]

ClusterStubs ==
    [GetUnconfirmedHeaderList |-> Stub(NoData, "GetUnconfirmedHeadersResponse"),
     GetAccountData |-> Stub("GetAccountDataRequest", "GetAccountDataResponse"),
     GenTx |-> Stub("GenTxRequest", NoData)]

PeerStubs ==
    [AddTransactions |-> Stub("P2PRedirectRequest", NoData),
     GetMinorBlockList |-> Stub("P2PRedirectRequest", Bytes),
     GetMinorBlockHeaderListWithSkip |-> Stub("P2PRedirectRequest", Bytes),
     GetMinorBlockHeaderList |-> Stub("P2PRedirectRequest", Bytes),
     HandleNewTip |-> Stub("HandleNewTipRequest", NoData),
     HandleNewMinorBlock |-> Stub("P2PRedirectRequest", NoData),
     AddMinorBlockListForSync |-> Stub("AddBlockListForSyncRequest", "ShardStatus"),
     SetMining |-> Stub("bool", NoData),
     CheckMinorBlocksInRoot |-> Stub("RootBlock", NoData),
     GetMinorBlock |-> Stub("GetMinorBlockRequest", "GetMinorBlockResponse"),
     GetRootChainStakes |-> Stub("GetRootChainStakesRequest", "GetRootChainStakesResponse")]

\* Two tables as one.
Joined(f, g) == [op \in DOMAIN f \cup DOMAIN g |-> IF op \in DOMAIN f THEN f[op] ELSE g[op]]

Stubs == Joined(Joined(TxStubs, StateStubs), Joined(ClusterStubs, PeerStubs))

ClusterHandlers ==
    [GenTx |-> Handler("GenTxRequest", NoData),
     GetUnconfirmedHeaderList |-> Handler(NoData, "GetUnconfirmedHeadersResponse"),
     GetAccountData |-> Handler("GetAccountDataRequest", "GetAccountDataResponse"),
     AddTransaction |-> Handler("AddTransactionRequest", NoData),
     GetMinorBlock |-> Handler("GetMinorBlockRequest", "GetMinorBlockResponse")]

\* GetAllTx answers with its request.
TxHandlers ==
    [GetTransaction |-> Handler("GetTransactionRequest", "GetTransactionResponse"),
     ExecuteTransaction |-> Handler("ExecuteTransactionRequest", "ExecuteTransactionResponse"),
     GetTransactionReceipt |-> Handler("GetTransactionReceiptRequest", "GetTransactionReceiptResponse"),
     GetTransactionListByAddress |-> Handler("GetTransactionListByAddressRequest", "GetTxDetailResponse"),
     GetAllTx |-> Handler("GetAllTxRequest", "GetAllTxRequest"),
     GetLogs |-> Handler("FilterQuery", "GetLogResponse")]

StateHandlers ==
    [EstimateGas |-> Handler("EstimateGasRequest", "EstimateGasResponse"),
     GetStorageAt |-> Handler("GetStorageRequest", "GetStorageResponse"),
     GetCode |-> Handler("GetCodeRequest", "GetCodeResponse"),
     GasPrice |-> Handler("GasPriceRequest", "GasPriceResponse"),
     GetWork |-> Handler("GetWorkRequest", "MiningWork"),
     SubmitWork |-> Handler("SubmitWorkRequest", "SubmitWorkResponse")]

\* A struct of one pointer is written as what it points to.
SyncHandlers ==
    [GetRootChainStakes |-> Handler("GetRootChainStakesRequest", "GetRootChainStakesResponse"),
     AddMinorBlockListForSync |-> Handler("AddBlockListForSyncRequest", "ShardStatus"),
     GetMinorBlockList |-> Handler("P2PRedirectRequest", "GetMinorBlockListResponse"),
     GetMinorBlockHeaderListWithSkip |-> Handler("P2PRedirectRequest", "GetMinorBlockHeaderListResponse"),
     GetMinorBlockHeaderList |-> Handler("P2PRedirectRequest", "GetMinorBlockHeaderListResponse")]

PeerHandlers ==
    [HandleNewTip |-> Handler("HandleNewTipRequest", NoData),
     AddTransactions |-> Handler("P2PRedirectRequest", NoData),
     HandleNewMinorBlock |-> Handler("P2PRedirectRequest", NoData),
     SetMining |-> Handler("bool", NoData),
     CheckMinorBlocksInRoot |-> Handler("RootBlock", NoData)]

Handlers ==
    Joined(Joined(ClusterHandlers, TxHandlers), Joined(StateHandlers, Joined(SyncHandlers, PeerHandlers)))

ASSUME OpsAssumption == Ops \subseteq DOMAIN Stubs

Understood(op) == Handlers[op].reads = Stubs[op].writes
Readable(op) == Stubs[op].reads \in {NoData, Bytes, Handlers[op].writes}

\* branchToSlaveConns: the slaves of a branch in the order of the configuration, and
\* GetOneSlaveConnById, the first of them.
FirstSlave(b) ==
    {SlaveList[i] : i \in {j \in DOMAIN SlaveList :
        /\ b \in FullShardList[SlaveList[j]]
        /\ \A k \in DOMAIN SlaveList : k < j => b \notin FullShardList[SlaveList[k]]}}

\* The operations of the backend that go to all slaves of the branch of a transaction
\* or block, and those of the protocol manager; then the ones that go to every slave.
ToBranch == {"AddTransaction", "ExecuteTransaction", "HandleNewMinorBlock"}
PeersToBranch == {"HandleNewTip", "AddTransactions"}
ToEvery == {"GetUnconfirmedHeaderList", "GetAccountData", "SetMining", "GenTx",
            "CheckMinorBlocksInRoot"}

\* The operations that go to the first slave of a branch: what the branch has stored,
\* what an account has there, and the questions of peers and of the synchronizer.
Lookups == {"GetMinorBlock", "GetTransaction", "GetTransactionReceipt",
            "GetTransactionListByAddress", "GetAllTx", "GetLogs"}
AccountQueries == {"EstimateGas", "GetStorageAt", "GetCode", "GasPrice", "GetWork", "SubmitWork"}
PeerQueries == {"GetMinorBlockHeaderList", "GetMinorBlockList", "GetMinorBlockHeaderListWithSkip"}
ToFirst == Lookups \cup AccountQueries \cup PeerQueries \cup {"AddMinorBlockListForSync"}

\* Every request to the first slave of its branch.
MutRoute(op, b) ==
    CASE op \in ToEvery -> ApiSlaves
      [] op = "GetRootChainStakes" -> FirstSlave(StakeShard)
      [] OTHER -> FirstSlave(b)

Route(op, b) ==
    CASE op \in ToBranch \cup PeersToBranch -> HasShard(b)
      [] op \in ToEvery -> ApiSlaves
      [] op = "GetRootChainStakes" -> FirstSlave(StakeShard)
      [] op \in ToFirst -> FirstSlave(b)

\* The methods of SlaveBackend: the shards a request is handed to.  One for a branch wants
\* the shard of the branch in the map and fails without it; the operations for every
\* slave go through the map, whatever it holds.
ServesBranch(v, b) == shards[v] \cap {b}
ServesAll(v) == shards[v]

Serves(v, op, b) ==
    CASE op \in ToEvery -> ServesAll(v)
      [] op = "GetRootChainStakes" -> shards[v] \cap {StakeShard}
      [] OTHER -> ServesBranch(v, b)

\* The caller sends the request to the slaves of its route; without any it is refused.
CanAsk == master.at = "running" /\ ask = NoCall /\ apiJob = NoCall

Ask(op, b) ==
    /\ CanAsk
    /\ ask' = [op |-> op, branch |-> b, left |-> Route(op, b), ok |-> Route(op, b) # {},
               by |-> {}, data |-> {}]
    /\ UNCHANGED <<bootVars, rootTip, spread, listVars>>

\* One call of the request: answered, or refused by the slave or by what it asks its
\* shard for, or lost; the answer is read with the type the stub expects.
Serve(v) ==
    /\ ask # NoCall /\ v \in ask.left
    /\ \/ /\ slaveUp[v] /\ Understood(ask.op)
          /\ ask.op \in ToEvery \/ Serves(v, ask.op, ask.branch) # {}
          /\ \E arrives \in BOOLEAN :
              ask' = [ask EXCEPT !.left = @ \ {v}, !.by = @ \cup {v},
                                 !.data = @ \cup Serves(v, ask.op, ask.branch),
                                 !.ok = @ /\ arrives]
       \/ ask' = [ask EXCEPT !.left = @ \ {v}, !.ok = FALSE]
    /\ UNCHANGED <<bootVars, rootTip, spread, listVars>>

\* What the caller gets: GetAccountData wants the data of every shard.
Complete(q) == q.op = "GetAccountData" => Cardinality(q.data) = Cardinality(FullShardIds)

Answered(q) == q.left = {} /\ q.ok /\ Complete(q)

AskEnds ==
    /\ ask # NoCall /\ ask.left = {}
    /\ ask' = NoCall
    /\ UNCHANGED <<bootVars, rootTip, spread, listVars>>

-----------------------------------------------------------------------------
ApiNext ==
    \/ StartMaster \/ InitConnManager \/ SpreadEnds
    \/ BroadcastXshardTxList \/ SendMinorBlockHeaderToMaster \/ AskEnds
    \/ \E v \in ApiSlaves :
        \/ MasterInfo(v) \/ SetConnect(v) \/ SlaveCrash(v) \/ SlaveRestart(v) \/ Heartbeat(v)
        \/ SlaveAddRootBlock(v) \/ Serve(v)
        \/ \E s \in FullShardIds : MineBlock(v, s)
    \/ \E h \in 1 .. MaxRootHeight : ApiAddRootBlock(h)
    \/ CanAsk /\ \/ \E op \in Ops \ ToEvery, b \in FullShardIds : Ask(op, b)
                 \/ \E op \in Ops \cap ToEvery : Ask(op, StakeShard)

ApiSpec == ApiInit /\ [][ApiNext]_apiVars

-----------------------------------------------------------------------------
\* As long as no slave has stopped and the master has started once, a minor block that a slave
\* has reported has its list at every slave of every other shard that existed: the
\* connections that MasterInfo set up leave no slave out (conn_manager.go, AddXshardTxList
\* returns no error for a shard it has no connection for).
ReportedDelivered ==
    (crashes = 0 /\ starts <= 1) => \A b \in reported : b[2] > RootHeight[b[1]] =>
        \A t \in InitializedBefore(b[2]) \ {b[1]} : \A w \in HasShard(t) : <<b, t>> \in xshardLists[w]

\* A request that succeeds was served: by every slave of the branch when it changes a
\* shard, by every slave when it is for all, by a slave that runs the shard otherwise,
\* and the caller could read the answer (GetAllTx apart, which cannot be read).  The
\* protocol handler does not wait for AddTransactions.
OkMeansServed ==
    (ask # NoCall /\ Answered(ask) /\ ask.op # "AddTransactions") =>
        /\ ask.op \in ToBranch => ask.by = HasShard(ask.branch)
        /\ ask.op \in ToEvery => ask.by = ApiSlaves
        /\ ask.op = "GetAccountData" => ask.data = FullShardIds
        /\ ask.op \notin ToEvery \cup {"GetRootChainStakes"} => ask.data = {ask.branch}
        /\ ask.op # "GetAllTx" => Readable(ask.op)

\* A reported minor block has its lists at every slave that needs them, and a call that
\* succeeds was served by the slaves it is for (conn_manager.go, master and slave api).
ApiSound == ReportedDelivered /\ OkMeansServed

=============================================================================
