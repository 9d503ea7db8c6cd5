------------------------------ MODULE MCServices ------------------------------
(***************************************************************************)
(* Instances of the processes around the chains: the miner of a shard or   *)
(* of the master, the stand-alone miner of cmd/miner, what both ask of the *)
(* consensus engines (the difficulty of staked work, the tree and the      *)
(* caches of the hashes), the calls between the master and its slaves, the *)
(* protocol with the peers, and the start and stop of a node.  They share  *)
(* no variable; running names the one that a behaviour is about.           *)
(***************************************************************************)
EXTENDS Miner, ClusterApi, MinerClient, NodeService, PeerProtocol, PoSW, QkcHash, EthashCache

VARIABLE running

(* Cluster calls: shard 1 runs on both slaves, shard 3 is created by the   *)
(* root block at height 1.                                                 *)
TwoSlaves == <<"v1", "v2">>
ShardsOfSlave == [v1 |-> {1}, v2 |-> {1, 2, 3}]
ShardHeights == <<0, 0, 1>>
EveryOp == DOMAIN Stubs

(* Stand-alone miner: h2 and h3 are works of the same height.              *)
WorkHeights == [h1 |-> 1, h2 |-> 2, h3 |-> 2]

(* Nodes: a master with two goroutines that start and stop it, and a slave *)
(* on the same machine.                                                    *)
NodeCalls == [m |-> {"main", "sig"}, s |-> {"slave"}]
NodeStarts == [m |-> 2, s |-> 1]
NodeServices == [m |-> 2, s |-> 1]

(* Protocol: both connections come from one peer, or from two.             *)
OnePeer == [c \in Conn |-> "i1"]
ProtoIds == {OnePeer, [c1 |-> "i1", c2 |-> "i2"]}
ProtoTips == {[td |-> 1, num |-> 2], [td |-> 2, num |-> 1]}

(* Hash caches: one goroutine in each of two processes on one directory.   *)
EthGoroutines == [x \in Engine |-> IF x = "e1" THEN {"u1"} ELSE {"u2"}]

-----------------------------------------------------------------------------
ServicesInit ==
    /\ running \in {"miner", "api", "client", "node", "protocol", "posw", "tree", "seed", "ethash"}
    /\ ApiInit /\ TreeInit /\ SeedInit /\ EthInit
    /\ PoswInit(IF running = "posw" THEN BOOLEAN ELSE {TRUE}, {"p"})
    /\ MinerInit(IF running = "miner" THEN BOOLEAN ELSE {TRUE})
    /\ MinerClientInit(IF running = "client" THEN WorkIds ELSE {"h1"})
    /\ SvcInit(IF running = "node" THEN DirChoices ELSE {TRUE})
    /\ ProtoInit(IF running = "protocol" THEN ConnIds ELSE {OnePeer})

ServicesNext ==
    /\ UNCHANGED running
    /\ running # "miner" => UNCHANGED minerVars
    /\ running # "api" => UNCHANGED apiVars
    /\ running # "client" => UNCHANGED mcVars
    /\ running # "node" => UNCHANGED svcVars
    /\ running # "protocol" => UNCHANGED protoVars
    /\ running # "posw" => UNCHANGED poswVars
    /\ running # "tree" => UNCHANGED treeVars
    /\ running # "seed" => UNCHANGED seedVars
    /\ running # "ethash" => UNCHANGED ethVars
    /\ \/ running = "miner" /\ MinerNext
       \/ running = "api" /\ ApiNext
       \/ running = "client" /\ MinerClientNext
       \/ running = "node" /\ SvcNext
       \/ running = "protocol" /\ ProtoNext
       \/ running = "posw" /\ PoswNext
       \/ running = "tree" /\ TreeNext
       \/ running = "seed" /\ SeedNext
       \/ running = "ethash" /\ EthNext

ServicesSpec ==
    ServicesInit /\ [][ServicesNext]_<<running, minerVars, apiVars, mcVars, svcVars, protoVars,
                                       poswVars, treeVars, seedVars, ethVars>>

-----------------------------------------------------------------------------
\* A difficulty is divided exactly when the rule of the window says so (posw.go).
PoswSound == running = "posw" => AnsweredByRule

\* The tree of qkchash is a sorted set of the values inserted and not deleted, and a cache
\* that a hash uses is not taken away under it (llrb.go, qkchash.go).
HashSound ==
    /\ running = "tree" => TreeIsSortedSet
    /\ running = "seed" => HashCacheStays

=============================================================================
