------------------------------- MODULE MCMaster -------------------------------
(***************************************************************************)
(* What the master has to bring about in the end: the root chain of        *)
(* MCRootChain, the synchronizer that brings blocks to such a chain, and   *)
(* the cluster to which the master sends them.  They share no variable;    *)
(* running names the one that a behaviour is about.                        *)
(*                                                                         *)
(* Synchronizer: the node has g .. a3 and is offered a4 and c4, by two     *)
(* peers of which one may move on to another tip while it is asked.        *)
(*                                                                         *)
(*   g [2] -- a1 [4] -- a2 [6] -- a3 [8] -- a4 [10]                        *)
(*                 \--- c2 [6] -- c3 [9] -- c4 [11] -- c5 [13]             *)
(*                                                                         *)
(* Cluster: the chain r0 -- r1 -- r2 and the shards 1 and 2 of MCCluster,  *)
(* until the master stops for the first time.                              *)
(***************************************************************************)
EXTENDS MCRootChain, Synchronizer

VARIABLE running

SyncLinks == [g |-> "", a1 |-> "g", a2 |-> "a1", a3 |-> "a2", a4 |-> "a3",
               c2 |-> "a1", c3 |-> "c2", c4 |-> "c3", c5 |-> "c4"]
SyncBlocks == DOMAIN SyncLinks
SyncNumbers == HeightsOf(SyncLinks)
SyncAncs == PathsOf(SyncLinks)
SyncTotals == [g |-> 2, a1 |-> 4, a2 |-> 6, a3 |-> 8, a4 |-> 10, c2 |-> 6, c3 |-> 9, c4 |-> 11, c5 |-> 13]

VARIABLES clMdb, clXlists, clRstore, clJob, clValidated, clRdb, clHead, clCommitting, clCall, clUp,
          clAborts, clStops, clLost, clConns, clInfo, clAsked
clusterVars == <<clMdb, clXlists, clRstore, clJob, clValidated, clRdb, clHead, clCommitting, clCall,
                 clUp, clAborts, clStops, clLost, clConns, clInfo, clAsked>>

ClShard == {1, 2}
ClCaller == {"sync", "miner"}
ClSlave == {"v", "w"}
ClSlaveOf == <<"v", "w">>
ClNeighbor == {<<1, 2>>, <<2, 1>>}
ClMinorShard == [g1 |-> 1, g2 |-> 2, a |-> 1, b |-> 2]
ClMBlock == DOMAIN ClMinorShard
ClMGenesis == {"g1", "g2"}
ClMParent == [a |-> "g1", b |-> "g2"]
ClPrevRoot == [g1 |-> "r0", g2 |-> "r0", a |-> "r1", b |-> "r1"]
ClRBlock == {"r0", "r1", "r2"}
ClRParent == [r1 |-> "r0", r2 |-> "r1"]
ClRNumber == [r0 |-> 0, r1 |-> 1, r2 |-> 2]
ClTD == [r0 |-> 0, r1 |-> 2, r2 |-> 4]
ClHeaders == [r0 |-> {}, r1 |-> {"g1", "g2"}, r2 |-> {"a", "b"}]

Net ==
    INSTANCE Cluster WITH
        Shard <- ClShard, Slave <- ClSlave, SlaveOf <- ClSlaveOf, Neighbor <- ClNeighbor,
        MBlock <- ClMBlock, ShardOf <- ClMinorShard, MParent <- ClMParent, PrevRoot <- ClPrevRoot,
        RBlock <- ClRBlock, RParent <- ClRParent, RNumber <- ClRNumber, TD <- ClTD,
        Headers <- ClHeaders, Genesis <- "r0", MGenesis <- ClMGenesis, Caller <- ClCaller,
        None <- SyncNil,
        MaxAborts <- 1, MaxStops <- 0,
        mdb <- clMdb, xlists <- clXlists, rstore <- clRstore, job <- clJob, validated <- clValidated,
        rdb <- clRdb, head <- clHead, committing <- clCommitting, call <- clCall, up <- clUp,
        aborts <- clAborts, stops <- clStops,
        lost <- clLost, conns <- clConns, info <- clInfo, asked <- clAsked

-----------------------------------------------------------------------------
masterVars == <<running, vars, syncVars, clusterVars>>

MasterInit ==
    /\ running \in {"chain", "sync", "cluster"}
    /\ Init
    /\ Net!Init /\ (running # "cluster" => \A v \in ClSlave : clConns[v] = {})
    /\ IF running = "sync" THEN SyncInit(BOOLEAN, SyncTips) ELSE SyncInit({TRUE}, {"a4"})

MasterNext ==
    /\ UNCHANGED running
    /\ running # "chain" => UNCHANGED vars
    /\ running # "sync" => UNCHANGED syncVars
    /\ running # "cluster" => UNCHANGED clusterVars
    /\ \/ running = "chain" /\ Next
       \/ running = "sync" /\ SyncNext
       \/ running = "cluster" /\ Net!Next

\* The fairness of Synchronizer and of Cluster, each where it runs.
MasterSpec ==
    /\ MasterInit /\ [][MasterNext]_masterVars
    /\ WF_syncVars(running = "sync" /\ RunnerStep)
    /\ \A s \in ClShard :
          /\ WF_clusterVars(running = "cluster" /\ \E t \in ClShard : Net!SendList(s, t))
          /\ WF_clusterVars(running = "cluster" /\ Net!ReportHeaders(s))
    /\ \A c \in ClCaller :
          /\ \A s \in ClShard :
                SF_clusterVars(/\ running = "cluster"
                               /\ Net!ShardAddsRootBlock(c, s) \/ Net!ShardRefusesRootBlock(c, s))
          /\ WF_clusterVars(running = "cluster" /\ (Net!RootBlockSent(c) \/ Net!Panic(c)))

\* A root block that the master has stored reaches every shard, or the master stops:
\* the mutexes of the shards, held over calls to other shards and to the master, do
\* not block each other.
RootBlockArrives == Net!RootBlockArrives

==============================================================================
