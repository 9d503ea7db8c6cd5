----------------------------- MODULE MCMinorChain -----------------------------
(***************************************************************************)
(* Instances of MinorChain.  Forks, Torn and Late give the constants their *)
(* values in a configuration; Pruned and Late also run beside Forks, on    *)
(* variables of their own.  running names the shard that a behaviour is    *)
(* about.                                                                  *)
(*                                                                         *)
(* Forks: an archive node, created at the root genesis r0.  Two root       *)
(* chains overtake each other: s1, r1, s2, r2, s3, r3 have growing         *)
(* total difficulty.  y3 breaks a rule of the validator.                   *)
(*                                                                         *)
(*   r0 -- r1 (g a1) -- r2 () ---- r3 (a2)                                 *)
(*    \--- s1 (g) ----- s2 (b1) -- s3 (b2)                                 *)
(*                                                                         *)
(*   g -- a1 -- a2 -- a3                                                   *)
(*   |     \--- d2  \-- y3                                                 *)
(*    \-- b1 -- b2 -- b3                                                   *)
(*                                                                         *)
(* Pruned: tries are collected and lost, and a crash falls between any two *)
(* writes.  At r2 the tries up to a1 may go; at s2 the collection meets a  *)
(* root block that confirms nothing.                                       *)
(*                                                                         *)
(*   r0 -- r1 (g a1) -- r2 (a2)          g -- a1 -- a2                     *)
(*    \--- s1 () ------ s2 (g b1 b2)      \-- b1 -- b2                     *)
(*                                                                         *)
(* Late: the shard is created at root height 1, which two root blocks      *)
(* reach, each with its own minor genesis.                                 *)
(*                                                                         *)
(*   q0 -- r1 () -- r2 () -- r3 (ga a1)  ga -- a1 -- a2                    *)
(*    \--- s1 () -- s2 (gb b1)           gb -- b1                          *)
(*                                                                         *)
(* Torn: a root block confirms two blocks of a minor chain from which the  *)
(* shard may be on its way to a longer one.                                *)
(***************************************************************************)
EXTENDS MinorChain

CONSTANT Running   \* the shards that the behaviours are about
VARIABLE running
VARIABLES xMdb, xState, xRdb, xLastConfirmed, xCanonical, xHead, xCurrent, xRootTip, xConfirmedTip,
          xUp, xValidated
xVars == <<xMdb, xState, xRdb, xLastConfirmed, xCanonical, xHead, xCurrent, xRootTip, xConfirmedTip,
           xUp, xValidated>>

ForksRParent == [r0 |-> "", r1 |-> "r0", r2 |-> "r1", r3 |-> "r2",
                 s1 |-> "r0", s2 |-> "s1", s3 |-> "s2"]
ForksTD == [r0 |-> 0, s1 |-> 1, r1 |-> 2, s2 |-> 3, r2 |-> 4, s3 |-> 5, r3 |-> 6]
ForksHeaders == [r0 |-> <<>>, r1 |-> <<"g", "a1">>, r2 |-> <<>>, r3 |-> <<"a2">>,
                 s1 |-> <<"g">>, s2 |-> <<"b1">>, s3 |-> <<"b2">>]
ForksLastConf == [r0 |-> "none", r1 |-> "a1", r2 |-> "a1", r3 |-> "a2",
                  s1 |-> "g", s2 |-> "b1", s3 |-> "b2"]
ForksMParent == [g |-> "", a1 |-> "g", a2 |-> "a1", a3 |-> "a2", d2 |-> "a1", y3 |-> "a2",
                 b1 |-> "g", b2 |-> "b1", b3 |-> "b2"]
ForksPrevRoot == [g |-> "r0", a1 |-> "r0", a2 |-> "r1", a3 |-> "r1", d2 |-> "r0", y3 |-> "s2",
                  b1 |-> "r0", b2 |-> "s1", b3 |-> "s2"]
ForksMBlock == DOMAIN ForksMParent
ForksMNumber == HeightsOf(ForksMParent)
ForksMAnc == PathsOf(ForksMParent)
ForksRBlock == DOMAIN ForksRParent
ForksRNumber == HeightsOf(ForksRParent)
ForksRAnc == PathsOf(ForksRParent)
ForksGenesisOf == [r \in {"r0"} |-> "g"]

PrunedRParent == [r0 |-> "", r1 |-> "r0", r2 |-> "r1", s1 |-> "r0", s2 |-> "s1"]
PrunedTD == [r0 |-> 0, s1 |-> 1, r1 |-> 2, s2 |-> 3, r2 |-> 4]
PrunedHeaders == [r0 |-> <<>>, r1 |-> <<"g", "a1">>, r2 |-> <<"a2">>,
                  s1 |-> <<>>, s2 |-> <<"g", "b1", "b2">>]
PrunedLastConf == [r0 |-> "none", r1 |-> "a1", r2 |-> "a2", s1 |-> "none", s2 |-> "b2"]
PrunedMParent == [g |-> "", a1 |-> "g", a2 |-> "a1", b1 |-> "g", b2 |-> "b1"]
PrunedPrevRoot == [g |-> "r0", a1 |-> "r0", a2 |-> "r1", b1 |-> "r0", b2 |-> "s1"]
PrunedMBlock == DOMAIN PrunedMParent
PrunedMNumber == HeightsOf(PrunedMParent)
PrunedMAnc == PathsOf(PrunedMParent)
PrunedRBlock == DOMAIN PrunedRParent
PrunedRNumber == HeightsOf(PrunedRParent)
PrunedRAnc == PathsOf(PrunedRParent)
PrunedGenesisOf == [r \in {"r0"} |-> "g"]

LateRParent == [q0 |-> "", r1 |-> "q0", r2 |-> "r1", r3 |-> "r2", s1 |-> "q0", s2 |-> "s1"]
LateTD == [q0 |-> 0, s1 |-> 1, r1 |-> 2, r2 |-> 3, s2 |-> 4, r3 |-> 5]
LateHeaders == [q0 |-> <<>>, r1 |-> <<>>, r2 |-> <<>>, r3 |-> <<"ga", "a1">>,
                s1 |-> <<>>, s2 |-> <<"gb", "b1">>]
LateLastConf == [q0 |-> "none", r1 |-> "none", r2 |-> "none", r3 |-> "a1", s1 |-> "none", s2 |-> "b1"]
LateMParent == [ga |-> "", a1 |-> "ga", a2 |-> "a1", gb |-> "", b1 |-> "gb"]
LatePrevRoot == [ga |-> "r1", a1 |-> "r1", a2 |-> "r2", gb |-> "s1", b1 |-> "s1"]
LateMBlock == DOMAIN LateMParent
LateMNumber == HeightsOf(LateMParent)
LateMAnc == PathsOf(LateMParent)
LateRBlock == DOMAIN LateRParent
LateRNumber == HeightsOf(LateRParent)
LateRAnc == PathsOf(LateRParent)
LateGenesisOf == [r1 |-> "ga", s1 |-> "gb"]

TornRParent == [r0 |-> "", r1 |-> "r0"]
TornTD == [r0 |-> 0, r1 |-> 1]
TornHeaders == [r0 |-> <<>>, r1 |-> <<"g", "a1", "a2">>]
TornLastConf == [r0 |-> "none", r1 |-> "a2"]
TornMParent == [g |-> "", a1 |-> "g", a2 |-> "a1", b1 |-> "g", b2 |-> "b1", b3 |-> "b2"]
TornMBlock == DOMAIN TornMParent
TornPrevRoot == [b \in TornMBlock |-> "r0"]
TornMNumber == HeightsOf(TornMParent)
TornMAnc == PathsOf(TornMParent)
TornRBlock == DOMAIN TornRParent
TornRNumber == HeightsOf(TornRParent)
TornRAnc == PathsOf(TornRParent)

-----------------------------------------------------------------------------
Pruned ==
    INSTANCE MinorChain WITH
        MBlock <- PrunedMBlock, MNumber <- PrunedMNumber, MAnc <- PrunedMAnc,
        RBlock <- PrunedRBlock, RNumber <- PrunedRNumber, RAnc <- PrunedRAnc,
        PrevRoot <- PrunedPrevRoot, Headers <- PrunedHeaders, TD <- PrunedTD,
        LastConf <- PrunedLastConf, GenesisHeight <- 0, GenesisOf <- PrunedGenesisOf,
        NoPruning <- FALSE, TriesInMemory <- 1, TriesInRootBlock <- 1, TornWrites <- TRUE,
        mdb <- xMdb, state <- xState, rdb <- xRdb, lastConfirmed <- xLastConfirmed,
        canonical <- xCanonical, head <- xHead, current <- xCurrent, rootTip <- xRootTip,
        confirmedTip <- xConfirmedTip, up <- xUp, validated <- xValidated

LateShard ==
    INSTANCE MinorChain WITH
        MBlock <- LateMBlock, MNumber <- LateMNumber, MAnc <- LateMAnc,
        RBlock <- LateRBlock, RNumber <- LateRNumber, RAnc <- LateRAnc,
        PrevRoot <- LatePrevRoot, Headers <- LateHeaders, TD <- LateTD,
        LastConf <- LateLastConf, GenesisHeight <- 1, GenesisOf <- LateGenesisOf,
        NoPruning <- TRUE, TriesInMemory <- 1, TriesInRootBlock <- 1, TornWrites <- FALSE,
        mdb <- xMdb, state <- xState, rdb <- xRdb, lastConfirmed <- xLastConfirmed,
        canonical <- xCanonical, head <- xHead, current <- xCurrent, rootTip <- xRootTip,
        confirmedTip <- xConfirmedTip, up <- xUp, validated <- xValidated

ShardInit ==
    /\ running \in Running
    /\ Init
    /\ IF running = "late" THEN LateShard!Init ELSE Pruned!Init

ShardNext ==
    /\ UNCHANGED running
    /\ \/ running = "chain" /\ Next /\ UNCHANGED xVars
       \/ running = "pruned" /\ Pruned!Next /\ UNCHANGED vars
       \/ running = "late" /\ LateShard!Next /\ UNCHANGED vars

ShardSpec == ShardInit /\ [][ShardNext]_<<running, vars, xVars>>

\* The shard of a pruning node follows the root chain, whichever write of AddMinorBlock or
\* AddRootBlock a crash cuts off and whichever tries are lost: InitFromRootBlock finds its
\* way back to a head on the root chain it is given.
RestartFollowsRootChain == running = "pruned" => Pruned!FollowsRootChain

\* A shard with two genesis blocks is reset with the root chain (AddRootBlock,
\* setHeadToGenesisBlock) and follows the heavier one of those it is sent.
ResetFollowsHeaviest ==
    [][running = "late" => LateShard!TypeOK /\ LateShard!FollowsHeavier]_<<running, xVars>>

=============================================================================
