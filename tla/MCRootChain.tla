----------------------------- MODULE MCRootChain -----------------------------
(***************************************************************************)
(* Instances of RootChain.                                                 *)
(*                                                                         *)
(* Shard 1 exists from the root genesis on, shard 2 is created at root     *)
(* height 1, so that root blocks from height 2 on may confirm its blocks.  *)
(* Total difficulties are in brackets: t1 is heavier than longer chains,   *)
(* u1 ties with r2.  x2 holds headers that do not link, x3 confirms g a    *)
(* second time.                                                            *)
(*                                                                         *)
(*   r0 [0] -- r1 [1] (g) -- r2 [3] (h) --- r3 [7] (a)                     *)
(*    |                             \------ x3 [6] (g)                     *)
(*    |\------ s1 [2] () --- s2 [4] (g b k)                                *)
(*    |              \------ x2 [5] (g c)                                  *)
(*    |\------ t1 [5] (g)                                                  *)
(*     \------ u1 [3] ()                                                   *)
(***************************************************************************)
EXTENDS RootChain

Parent == [r0 |-> "", r1 |-> "r0", r2 |-> "r1", r3 |-> "r2", x3 |-> "r2",
           s1 |-> "r0", s2 |-> "s1", x2 |-> "s1", t1 |-> "r0", u1 |-> "r0"]
Blocks == DOMAIN Parent
Numbers == HeightsOf(Parent)
Ancs == PathsOf(Parent)
Difficulties == [r0 |-> 0, r1 |-> 1, r2 |-> 3, r3 |-> 7, x3 |-> 6,
                 s1 |-> 2, s2 |-> 4, x2 |-> 5, t1 |-> 5, u1 |-> 3]
Contents == [r0 |-> <<>>, r1 |-> <<"g">>, r2 |-> <<"h">>, r3 |-> <<"a">>, x3 |-> <<"g">>,
             s1 |-> <<>>, s2 |-> <<"g", "b", "k">>, x2 |-> <<"g", "c">>,
             t1 |-> <<"g">>, u1 |-> <<>>]

Minors == {"g", "a", "b", "c", "h", "k"}
Shards == {1, 2}
MinorShard == [g |-> 1, a |-> 1, b |-> 1, c |-> 1, h |-> 2, k |-> 2]
MinorMiner == [g |-> "m", a |-> "n", b |-> "m", c |-> "n", h |-> "m", k |-> "n"]
MinorNumber == [g |-> 0, a |-> 1, b |-> 1, c |-> 1, h |-> 0, k |-> 0]
MinorParent == [g |-> None, a |-> "g", b |-> "g", c |-> "k", h |-> None, k |-> None]
MinorPrevRoot == [g |-> "r0", a |-> "r1", b |-> "s1", c |-> "r0", h |-> "r1", k |-> "s1"]
Created == [s \in Shards |-> IF s = 1 THEN 0 ELSE 1]
AllButTwo == Minors \ {"g", "b"}
==============================================================================
