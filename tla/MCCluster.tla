------------------------------- MODULE MCCluster -------------------------------
(***************************************************************************)
(* Instances of Cluster.  g1, g2, g3 are the minor genesis blocks of the   *)
(* shards 1, 2 and 3.  Total difficulties are in brackets.                 *)
(*                                                                         *)
(*   r0 [0] --- r1 [2] (g1 g2 g3) --- r2 [4] (a b)                         *)
(*     \------- s1 [1] (g1 g2 g3) --- s2 [5] ()                            *)
(*                                                                         *)
(* a of shard 1 and b of shard 2 are mined on r1.  Shards 1 and 2 are      *)
(* neighbours, 3 has none.  Slave v runs the shards 1 and 3, w runs 2.     *)
(* The configurations leave out different parts of it.                     *)
(***************************************************************************)
EXTENDS Cluster

TwoShards == {1, 2}
ThreeShards == {1, 2, 3}
Line == {"r0", "r1", "r2"}
Fork == Line \cup {"s1", "s2"}

GenesisOf == [g1 |-> 1, g2 |-> 2, g3 |-> 3]
MinorGenesis == {g \in DOMAIN GenesisOf : GenesisOf[g] \in Shard}
Minors == MinorGenesis \cup {"a", "b"}
Hosts == [s \in Shard |-> IF s = 2 THEN "w" ELSE "v"]
Neighbors == {<<1, 2>>, <<2, 1>>}
MinorShard ==
    [m \in Minors |-> IF m \in MinorGenesis THEN GenesisOf[m] ELSE IF m = "a" THEN 1 ELSE 2]
MinorParent == [a |-> "g1", b |-> "g2"]
MinorPrevRoot == [m \in Minors |-> IF m \in MinorGenesis THEN "r0" ELSE "r1"]

Parents == [r1 |-> "r0", r2 |-> "r1", s1 |-> "r0", s2 |-> "s1"]
Heights == [r0 |-> 0, r1 |-> 1, s1 |-> 1, r2 |-> 2, s2 |-> 2]
Weights == [r0 |-> 0, r1 |-> 2, s1 |-> 1, r2 |-> 4, s2 |-> 5]
RootParent == [r \in RBlock \ {"r0"} |-> Parents[r]]
RootNumber == [r \in RBlock |-> Heights[r]]
Difficulties == [r \in RBlock |-> Weights[r]]
Contents ==
    [r \in RBlock |-> CASE r \in {"r1", "s1"} -> MinorGenesis
                        [] r = "r2" -> {"a", "b"}
                        [] OTHER -> {}]
==============================================================================
