--------------------------- MODULE MinorChainProofs ---------------------------
(***************************************************************************)
(* Proofs about MinorChain for every tree of minor and root blocks.        *)
(*                                                                         *)
(* Two groups of results, for a shard whose genesis height is reached by   *)
(* one root block (SingleGenesis):                                         *)
(*  - with crashes inside handlers and with pruned tries: the types, the   *)
(*    head on the root chain, root-tip selection (Safe);                   *)
(*  - on an archive node whose handlers are not torn: the canonical index, *)
(*    the head above the confirmed block, and finality (Exact).            *)
(***************************************************************************)
EXTENDS MinorChain, TLAPS, WellFoundedInduction

\* A leaf is tried with Zenon, then with the SMT solver; the limits are in seconds.
USE ZenonT(8), SMTT(30)

\* The root chains fork above the genesis height only, so that there is one minor genesis.
SingleGenesis ==
    \A r \in DOMAIN GenesisOf :
        /\ \A q \in DOMAIN GenesisOf : q = r
        /\ \A p \in RBlock : IsSameChain(RNumber, RAnc, p, r) \/ IsSameChain(RNumber, RAnc, r, p)

-----------------------------------------------------------------------------
\* Every nonempty set of naturals has a least element: what replaces induction in
\* the argument about the blocks that insertSidechain runs one after the other.
LEMMA LeastNatural ==
    ASSUME NEW T, T \subseteq Nat, T # {}
    PROVE  \E x \in T : \A y \in T : x <= y
<1> DEFINE R == {p \in Nat \X Nat : p[1] < p[2]}
<1>1. IsWellFoundedOn(R, Nat)
  BY NatLessThanWellFounded, Zenon DEF OpToRel
<1>2. PICK x \in T : \A y \in T : ~ (<<y, x>> \in R)
  <2> HIDE DEF R
  <2> QED BY <1>1, WFMin
<1>3. \A y \in T : ~ (y < x)
  BY <1>2
<1> QED BY <1>3

\* The path of a minor block (ParentHash followed down to height 0).
LEMMA MinorPath ==
    ASSUME NEW b \in MBlock
    PROVE  /\ MNumber[b] \in Nat
           /\ MAnc[b][MNumber[b]] = b
           /\ \A h \in 0 .. MNumber[b] :
                 /\ MAnc[b][h] \in MBlock
                 /\ MNumber[MAnc[b][h]] = h
                 /\ \A k \in 0 .. h : MAnc[MAnc[b][h]][k] = MAnc[b][k]
BY TreeAssumption DEF IsBlockTree

\* The path of a root block.
LEMMA RootPath ==
    ASSUME NEW r \in RBlock
    PROVE  /\ RNumber[r] \in Nat
           /\ RAnc[r][RNumber[r]] = r
           /\ \A h \in 0 .. RNumber[r] :
                 /\ RAnc[r][h] \in RBlock
                 /\ RNumber[RAnc[r][h]] = h
                 /\ \A k \in 0 .. h : RAnc[RAnc[r][h]][k] = RAnc[r][k]
BY TreeAssumption DEF IsBlockTree

\* The parent of a minor block above the genesis is one lower on the same path.
LEMMA MinorParent ==
    ASSUME NEW b \in MBlock, MNumber[b] > 0
    PROVE  /\ MParent(b) \in MBlock
           /\ MNumber[MParent(b)] = MNumber[b] - 1
           /\ MParent(b) = MAnc[b][MNumber[b] - 1]
           /\ \A h \in 0 .. MNumber[b] - 1 : MAnc[MParent(b)][h] = MAnc[b][h]
BY MinorPath DEF MParent, ParentOf

\* The same for a root block.
LEMMA RootParent ==
    ASSUME NEW r \in RBlock, RNumber[r] > 0
    PROVE  /\ RParent(r) \in RBlock
           /\ RNumber[RParent(r)] = RNumber[r] - 1
           /\ RParent(r) = RAnc[r][RNumber[r] - 1]
           /\ \A h \in 0 .. RNumber[r] - 1 : RAnc[RParent(r)][h] = RAnc[r][h]
BY RootPath DEF RParent, ParentOf

\* Heights of blocks are the heights the canonical index has entries for.
LEMMA HeightsOfBlocks ==
    /\ Heights \subseteq Nat
    /\ \A b \in MBlock : \A h \in 0 .. MNumber[b] : h \in Heights
<1>1. Heights \subseteq Nat
  BY MinorPath DEF Heights
<1>2. ASSUME NEW b \in MBlock, NEW h \in 0 .. MNumber[b]
      PROVE  h \in Heights
  BY MinorPath DEF Heights
<1> QED BY <1>1, <1>2

\* reorg from old to new turns the index of the path to old into that of new.
LEMMA ReorgPath ==
    ASSUME NEW old \in MBlock, NEW new \in MBlock
    PROVE  Reorg(PathIndex(old), old, new) = PathIndex(new)
<1>1. ASSUME NEW n \in Heights
      PROVE  Reorg(PathIndex(old), old, new)[n] = PathIndex(new)[n]
  <2>1. n \in Nat /\ MNumber[old] \in Nat /\ MNumber[new] \in Nat
    BY HeightsOfBlocks, MinorPath
  <2> QED BY <2>1 DEF Reorg, PathIndex
<1> QED BY <1>1 DEF Reorg, PathIndex

\* reorg keeps the type of the index.
LEMMA ReorgType ==
    ASSUME NEW old \in MBlock, NEW new \in MBlock,
           NEW index \in [Heights -> MBlock \cup {None}]
    PROVE  /\ Reorg(index, old, new) \in [Heights -> MBlock \cup {None}]
           /\ Reorg(index, old, new)[0] \in {index[0], MAnc[new][0]}
<1>1. ASSUME NEW n \in Heights
      PROVE  Reorg(index, old, new)[n] \in MBlock \cup {None}
  <2>1. n \in Nat /\ MNumber[old] \in Nat /\ MNumber[new] \in Nat
    BY HeightsOfBlocks, MinorPath
  <2>2. n <= MNumber[new] => MAnc[new][n] \in MBlock
    BY <2>1, MinorPath
  <2> QED BY <2>1, <2>2 DEF Reorg
<1>2. 0 \in Heights /\ MNumber[new] \in Nat
  BY HeightsOfBlocks, MinorPath
<1>3. Reorg(index, old, new)[0] \in {index[0], MAnc[new][0]}
  BY <1>2 DEF Reorg
<1>4. Reorg(index, old, new) = [n \in Heights |-> Reorg(index, old, new)[n]]
  BY DEF Reorg
<1> QED BY <1>1, <1>3, <1>4

\* The root block of the genesis height, and the minor genesis built on it.
GRoot == CHOOSE r \in DOMAIN GenesisOf : TRUE
Gen == GenesisOf[GRoot]

\* With a single genesis, every minor path begins in it.
LEMMA GenesisBelow ==
    ASSUME SingleGenesis, NEW b \in MBlock
    PROVE  /\ MAnc[b][0] = Gen
           /\ Gen \in MBlock /\ MNumber[Gen] = 0 /\ PrevRoot[Gen] = GRoot
<1>1. 0 \in 0 .. MNumber[b]
  BY MinorPath
<1>2. MAnc[b][0] \in MBlock /\ MNumber[MAnc[b][0]] = 0
  BY <1>1, MinorPath
<1>3. PICK r \in DOMAIN GenesisOf : MAnc[b][0] = GenesisOf[r]
  BY <1>2, GenesisAssumption
<1>4. r = GRoot
  BY <1>3 DEF GRoot, SingleGenesis
<1> QED BY <1>2, <1>3, <1>4, GenesisAssumption DEF Gen

\* With a single genesis, every root chain that reaches the genesis height has its
\* root block.
LEMMA GenesisRootBelow ==
    ASSUME SingleGenesis, NEW r \in RBlock, RNumber[r] >= GenesisHeight
    PROVE  /\ GRoot \in RBlock /\ RNumber[GRoot] = GenesisHeight
           /\ GRoot \in DOMAIN GenesisOf
           /\ RAnc[r][GenesisHeight] = GRoot
           /\ IsSameChain(RNumber, RAnc, r, GRoot)
<1>1. GenesisHeight \in 0 .. RNumber[r]
  BY ContentAssumption, RootPath
<1>2. RAnc[r][GenesisHeight] \in RBlock /\ RNumber[RAnc[r][GenesisHeight]] = GenesisHeight
  BY <1>1, RootPath
<1>3. RAnc[r][GenesisHeight] \in DOMAIN GenesisOf
  BY <1>2, GenesisAssumption
<1>4. RAnc[r][GenesisHeight] = GRoot
  BY <1>3 DEF GRoot, SingleGenesis
<1> QED BY <1>1, <1>2, <1>3, <1>4, RootPath DEF IsSameChain

\* What a root block says about the shard, one fact at a time.
LEMMA RootBlockContent ==
    ASSUME NEW r \in RBlock
    PROVE  /\ RNumber[r] <= GenesisHeight => Headers[r] = <<>> /\ LastConf[r] = None
           /\ RNumber[r] > GenesisHeight /\ Headers[r] = <<>> => LastConf[r] = LastConf[RParent(r)]
           /\ RNumber[r] > GenesisHeight /\ Headers[r] # <<>> =>
                 LastConf[r] = Headers[r][Len(Headers[r])]
           /\ Headers[r] # <<>> /\ MNumber[Headers[r][1]] = 0 => LastConf[RParent(r)] = None
           /\ Headers[r] # <<>> /\ MNumber[Headers[r][1]] > 0 =>
                 LastConf[RParent(r)] = MParent(Headers[r][1])
BY RootBlockAssumption

\* A root block of the genesis height and the minor genesis on it.
LEMMA GenesisRoot ==
    ASSUME NEW r \in DOMAIN GenesisOf
    PROVE  /\ r \in RBlock /\ RNumber[r] = GenesisHeight /\ GenesisHeight \in Nat
           /\ GenesisOf[r] \in MBlock /\ MNumber[GenesisOf[r]] = 0 /\ PrevRoot[GenesisOf[r]] = r
           /\ LastConf[r] = None
<1>1. /\ r \in RBlock /\ RNumber[r] = GenesisHeight
      /\ GenesisOf[r] \in MBlock /\ MNumber[GenesisOf[r]] = 0 /\ PrevRoot[GenesisOf[r]] = r
  BY GenesisAssumption
<1>2. GenesisHeight \in Nat
  BY ContentAssumption
<1> QED BY <1>1, <1>2, RootBlockContent

\* A root block is on its own path.
LEMMA RootChainReflexive ==
    ASSUME NEW r \in RBlock
    PROVE  IsSameChain(RNumber, RAnc, r, r)
<1>1. RNumber[r] \in Nat /\ RAnc[r][RNumber[r]] = r
  BY RootPath
<1> QED BY <1>1 DEF IsSameChain

\* With a single genesis, reorg keeps it at the bottom of the index.
LEMMA ReorgGenesis ==
    ASSUME SingleGenesis, NEW old \in MBlock, NEW new \in MBlock,
           NEW index \in [Heights -> MBlock \cup {None}], index[0] = Gen
    PROVE  /\ Reorg(index, old, new) \in [Heights -> MBlock \cup {None}]
           /\ Reorg(index, old, new)[0] = Gen
BY ReorgType, GenesisBelow, ZenonT(40)

-----------------------------------------------------------------------------
\* The database holds whole minor paths and root blocks from the genesis on.
StoreClosed ==
    /\ \A b \in mdb : \A h \in 0 .. MNumber[b] : MAnc[b][h] \in mdb
    /\ \A r \in rdb : RNumber[r] >= GenesisHeight

\* What is recorded as confirmed by a stored root block is what its chain confirms:
\* a block the shard has run and reported, mined on that chain.
ConfirmedRecorded ==
    \A r \in rdb :
        /\ lastConfirmed[r] = LastConf[r]
        /\ LastConf[r] # None => /\ LastConf[r] \in validated
                                 /\ IsSameChain(RNumber, RAnc, r, PrevRoot[LastConf[r]])

\* Every block on the path to b was mined on a root block the shard stores.
Rooted(b) == \A h \in 0 .. MNumber[b] : PrevRoot[MAnc[b][h]] \in rdb

\* Blocks that were run, reported or made the head are rooted; a block that was only
\* written by insertSidechain need not be.
RunOnRoot ==
    /\ \A b \in state \cup validated \cup {head} : Rooted(b)
    /\ up => Rooted(current)

\* The genesis blocks and the genesis state stay, and the index begins with the genesis.
GenesisKept == Gen \in state /\ GRoot \in rdb /\ canonical[0] = Gen

\* The confirmed tip is what the root tip confirms.
ConfirmedTipRecorded == up => confirmedTip = LastConf[rootTip]

\* The inductive invariant that crashes and pruning keep.
Safe ==
    /\ TypeOK /\ StoreClosed /\ ConfirmedRecorded /\ RunOnRoot
    /\ GenesisKept /\ ConfirmedTipRecorded
    /\ TipOnRootChain

-----------------------------------------------------------------------------
\* A rooted block was itself mined on a stored root block.
LEMMA RootedBlock ==
    ASSUME NEW b \in MBlock, Rooted(b)
    PROVE  PrevRoot[b] \in rdb
BY MinorPath DEF Rooted

\* The blocks on the path to a rooted block are rooted.
LEMMA RootedPath ==
    ASSUME NEW b \in MBlock, Rooted(b), NEW h \in 0 .. MNumber[b]
    PROVE  Rooted(MAnc[b][h])
BY MinorPath DEF Rooted

\* A block whose parent is rooted and that was mined on a stored root block is rooted.
LEMMA RootedChild ==
    ASSUME NEW b \in MBlock, MNumber[b] > 0, Rooted(MParent(b)), PrevRoot[b] \in rdb
    PROVE  Rooted(b)
<1>1. ASSUME NEW h \in 0 .. MNumber[b]
      PROVE  PrevRoot[MAnc[b][h]] \in rdb
  <2>1. MNumber[b] \in Nat /\ MAnc[b][MNumber[b]] = b
    BY MinorPath
  <2>2. CASE h = MNumber[b]
    BY <2>1, <2>2
  <2>3. CASE h # MNumber[b]
    <3>1. h \in 0 .. MNumber[b] - 1
      BY <2>1, <2>3
    <3>2. MAnc[MParent(b)][h] = MAnc[b][h] /\ h \in 0 .. MNumber[MParent(b)]
      BY <3>1, MinorParent
    <3> QED BY <3>2 DEF Rooted
  <2> QED BY <2>2, <2>3
<1> QED BY <1>1 DEF Rooted

\* AddRootBlock records what the root chain confirms, and the shard knows the block.
LEMMA AcceptedRootBlock ==
    ASSUME Safe, NEW r \in RBlock, AcceptsRootBlock(r)
    PROVE  /\ RNumber[r] > GenesisHeight /\ RNumber[r] > 0
           /\ ConfirmedAt(r) = LastConf[r]
           /\ LastConf[r] \in MBlock \cup {None}
           /\ LastConf[r] # None => /\ LastConf[r] \in validated /\ LastConf[r] \in mdb
                                    /\ PrevRoot[LastConf[r]] \in rdb
                                    /\ IsSameChain(RNumber, RAnc, r, PrevRoot[LastConf[r]])
<1> DEFINE p == RParent(r)
           hs == Headers[r]
<1>1. GenesisHeight \in Nat /\ hs \in Seq(MBlock) /\ RNumber[r] \in Nat
  BY ContentAssumption, RootPath
<1>2. RNumber[r] > GenesisHeight /\ RNumber[r] > 0 /\ p \in rdb
  BY <1>1 DEF AcceptsRootBlock
<1>3. /\ p \in RBlock /\ RNumber[p] = RNumber[r] - 1
      /\ \A h \in 0 .. RNumber[r] - 1 : RAnc[p][h] = RAnc[r][h]
  BY <1>2, RootParent
<1>4. LastConf[r] \in MBlock \cup {None}
  BY ContentAssumption
<1>5. ASSUME NEW q \in RBlock, IsSameChain(RNumber, RAnc, p, q)
      PROVE  IsSameChain(RNumber, RAnc, r, q)
  BY <1>1, <1>2, <1>3, <1>5, RootPath DEF IsSameChain
<1>6. CASE hs = <<>>
  <2>1. ConfirmedAt(r) = lastConfirmed[p] /\ LastConf[r] = LastConf[p]
    BY <1>6, <1>2, RootBlockAssumption DEF ConfirmedAt
  <2>2. /\ lastConfirmed[p] = LastConf[p]
        /\ LastConf[p] # None => /\ LastConf[p] \in validated
                                 /\ IsSameChain(RNumber, RAnc, p, PrevRoot[LastConf[p]])
    BY <1>2 DEF Safe, ConfirmedRecorded
  <2>3. LastConf[p] # None => LastConf[p] \in mdb /\ PrevRoot[LastConf[p]] \in rdb
    BY <2>2, RootedBlock DEF Safe, TypeOK, RunOnRoot
  <2>4. LastConf[r] # None => PrevRoot[LastConf[r]] \in RBlock
    BY <1>4, ContentAssumption
  <2> QED BY <1>2, <1>4, <1>5, <2>1, <2>2, <2>3, <2>4
<1>7. CASE hs # <<>>
  <2> DEFINE last == hs[Len(hs)]
  <2>1. Len(hs) \in 1 .. Len(hs) /\ last \in MBlock
    BY <1>1, <1>7
  <2>2. ConfirmedAt(r) = last
    BY <1>7 DEF ConfirmedAt
  <2>3. LastConf[r] = last
    BY <1>7, <1>2, RootBlockAssumption
  <2>4. IsSameChain(RNumber, RAnc, p, PrevRoot[last])
    BY <2>1, RootBlockAssumption
  <2>5. last \in validated
    BY <2>1 DEF AcceptsRootBlock, MasterAccepts
  <2>6. last \in mdb /\ PrevRoot[last] \in rdb /\ PrevRoot[last] \in RBlock
    BY <2>5, RootedBlock DEF Safe, TypeOK, RunOnRoot
  <2> QED BY <1>2, <1>4, <1>5, <2>2, <2>3, <2>4, <2>5, <2>6
<1> QED BY <1>6, <1>7

\* Storing an accepted root block, in one write or in two, keeps what the database
\* records about root blocks.
LEMMA RootBlockStored ==
    ASSUME Safe, NEW r \in RBlock, AcceptsRootBlock(r),
           lastConfirmed' = [lastConfirmed EXCEPT ![r] = ConfirmedAt(r)],
           rdb' \in {rdb, rdb \cup {r}}, validated' = validated
    PROVE  /\ rdb' \subseteq RBlock
           /\ lastConfirmed' \in [RBlock -> MBlock \cup {None}]
           /\ \A q \in rdb' : RNumber[q] >= GenesisHeight
           /\ ConfirmedRecorded' /\ rdb \subseteq rdb'
<1>1. r \notin rdb /\ rdb \subseteq RBlock /\ lastConfirmed \in [RBlock -> MBlock \cup {None}]
  BY DEF Safe, TypeOK, AcceptsRootBlock
<1>2. /\ RNumber[r] > GenesisHeight
      /\ ConfirmedAt(r) = LastConf[r] /\ LastConf[r] \in MBlock \cup {None}
      /\ LastConf[r] # None => /\ LastConf[r] \in validated
                               /\ IsSameChain(RNumber, RAnc, r, PrevRoot[LastConf[r]])
  BY AcceptedRootBlock
<1>3. lastConfirmed' \in [RBlock -> MBlock \cup {None}]
  BY <1>1, <1>2
<1>4. \A q \in rdb' : RNumber[q] >= GenesisHeight
  BY <1>2, ContentAssumption, RootPath DEF Safe, StoreClosed
<1>5. ConfirmedRecorded'
  BY <1>1, <1>2 DEF Safe, ConfirmedRecorded
<1> QED BY <1>1, <1>3, <1>4, <1>5

\* Storing a block above a stored parent keeps the paths whole.
LEMMA MinorBlockStored ==
    ASSUME Safe, NEW b \in MBlock, MNumber[b] > 0, MParent(b) \in mdb, mdb' = mdb \cup {b}
    PROVE  /\ mdb' \subseteq MBlock
           /\ \A x \in mdb' : \A h \in 0 .. MNumber[x] : MAnc[x][h] \in mdb'
<1>1. mdb \subseteq MBlock /\ \A x \in mdb : \A h \in 0 .. MNumber[x] : MAnc[x][h] \in mdb
  BY DEF Safe, TypeOK, StoreClosed
<1>2. ASSUME NEW h \in 0 .. MNumber[b]
      PROVE  MAnc[b][h] \in mdb'
  <2>1. MNumber[b] \in Nat /\ MAnc[b][MNumber[b]] = b
    BY MinorPath
  <2>2. CASE h = MNumber[b]
    BY <2>1, <2>2
  <2>3. CASE h # MNumber[b]
    <3>1. h \in 0 .. MNumber[b] - 1
      BY <2>1, <2>3
    <3>2. MAnc[MParent(b)][h] = MAnc[b][h] /\ h \in 0 .. MNumber[MParent(b)]
      BY <3>1, MinorParent
    <3> QED BY <1>1, <3>2
  <2> QED BY <2>2, <2>3
<1> QED BY <1>1, <1>2

\* A head on the root chain, set by updateTip or left alone, keeps what the
\* invariant says about the head and the index.
LEMMA TipMoved ==
    ASSUME Safe, SingleGenesis, up, mdb \subseteq mdb',
           NEW t \in mdb', t \in MBlock, Rooted(t), SameRootChain(rootTip, PrevRoot[t]),
           SetTip(t) \/ UNCHANGED <<canonical, head, current>>
    PROVE  /\ canonical' \in [Heights -> MBlock \cup {None}] /\ canonical'[0] = Gen
           /\ head' \in mdb' /\ current' \in mdb' /\ Rooted(head') /\ Rooted(current')
           /\ SameRootChain(rootTip, PrevRoot[current'])
<1>1. /\ canonical \in [Heights -> MBlock \cup {None}] /\ canonical[0] = Gen
      /\ head \in mdb /\ current \in mdb /\ current \in MBlock
      /\ SameRootChain(rootTip, PrevRoot[current])
      /\ Rooted(head) /\ Rooted(current)
  BY DEF Safe, TypeOK, GenesisKept, TipOnRootChain, RunOnRoot
<1>2. CASE SetTip(t)
  <2>1. canonical' = Reorg(canonical, current, t) /\ current' = t /\ head' = t
    BY <1>2 DEF SetTip
  <2>2. MAnc[t][0] = Gen
    BY GenesisBelow
  <2> QED BY <1>1, <2>1, <2>2, ReorgType
<1>3. CASE UNCHANGED <<canonical, head, current>>
  BY <1>1, <1>3
<1> QED BY <1>2, <1>3

\* The blocks that insertSidechain runs again are stored and rooted: each is valid,
\* and its parent has a state or was run just before.
LEMMA RerunRooted ==
    ASSUME Safe, SingleGenesis, NEW b \in MBlock
    PROVE  \A h \in RerunHeights(b) : h \in 0 .. MNumber[b] /\ Rooted(MAnc[b][h])
<1> DEFINE lost == {h \in 0 .. MNumber[b] : \A k \in h .. MNumber[b] : MAnc[b][k] \notin state}
           hs == RerunHeights(b)
           T == {h \in hs : ~ Rooted(MAnc[b][h])}
<1>1. hs = {h \in lost : \A k \in lost : k <= h => Valid(MAnc[b][k])}
  BY DEF RerunHeights
<1>2. MNumber[b] \in Nat /\ hs \subseteq 0 .. MNumber[b] /\ hs \subseteq Nat
  BY <1>1, MinorPath
<1>3. MAnc[b][0] \in state
  BY GenesisBelow DEF Safe, GenesisKept
<1>4. ASSUME T # {} PROVE FALSE
  <2>1. T \subseteq Nat
    BY <1>2
  <2>2. PICK m \in T : \A y \in T : m <= y
    <3> HIDE DEF T
    <3> QED BY <1>4, <2>1, LeastNatural
  <2>3. m \in hs /\ ~ Rooted(MAnc[b][m]) /\ m \in 0 .. MNumber[b] /\ m \in lost
    BY <1>1, <1>2, <2>2
  <2>4. m > 0 /\ m - 1 \in 0 .. MNumber[b]
    BY <1>2, <1>3, <2>3
  <2> DEFINE x == MAnc[b][m]
  <2>5. /\ x \in MBlock /\ MNumber[x] = m /\ MParent(x) = MAnc[b][m - 1]
        /\ MAnc[b][m - 1] \in MBlock
    BY <2>3, <2>4, MinorPath DEF MParent, ParentOf
  <2>6. PrevRoot[x] \in rdb
    <3>1. m <= m
      BY <1>2, <2>3
    <3>2. Valid(x)
      BY <1>1, <2>3, <3>1
    <3> QED BY <3>2 DEF Valid
  <2>7. Rooted(MAnc[b][m - 1])
    <3>1. CASE m - 1 \in hs
      BY <1>2, <2>2, <2>3, <3>1
    <3>2. CASE m - 1 \notin hs
      <4>1. m - 1 \notin lost
        BY <1>1, <1>2, <2>3, <2>4, <3>2
      <4>2. MAnc[b][m - 1] \in state
        BY <1>2, <2>3, <2>4, <4>1
      <4> QED BY <4>2 DEF Safe, RunOnRoot
    <3> QED BY <3>1, <3>2
  <2> QED BY <2>3, <2>4, <2>5, <2>6, <2>7, RootedChild
<1> QED BY <1>2, <1>4

\* The blocks that insertSidechain runs again leave the head on the root chain.
LEMMA RerunOnRootChain ==
    ASSUME Safe, up, NEW b \in MBlock, NEW tips, RerunTips(b, tips)
    PROVE  \A h \in RerunHeights(b) :
              /\ SameRootChain(rootTip, PrevRoot[tips[h]])
              /\ tips[h] \in {MAnc[b][k] : k \in RerunHeights(b)} \cup {current}
<1> DEFINE hs == RerunHeights(b)
           P(h) == /\ SameRootChain(rootTip, PrevRoot[tips[h]])
                   /\ tips[h] \in {MAnc[b][k] : k \in hs} \cup {current}
           T == {h \in hs : ~ P(h)}
<1>1. hs \subseteq Nat
  BY MinorPath, ZenonT(40) DEF RerunHeights
<1>2. SameRootChain(rootTip, PrevRoot[current])
  BY DEF Safe, TipOnRootChain
<1>3. ASSUME T # {} PROVE FALSE
  <2>1. T \subseteq Nat
    BY <1>1
  <2>2. PICK m \in T : \A y \in T : m <= y
    <3> HIDE DEF T
    <3> QED BY <1>3, <2>1, LeastNatural
  <2>3. m \in hs /\ ~ P(m) /\ m \in Nat
    BY <2>1, <2>2
  <2> DEFINE before == IF m - 1 \in hs THEN tips[m - 1] ELSE current
  <2>4. tips[m] = IF UpdateTip(before, MAnc[b][m]) THEN MAnc[b][m] ELSE before
    BY <2>3 DEF RerunTips
  <2>5. /\ SameRootChain(rootTip, PrevRoot[before])
        /\ before \in {MAnc[b][k] : k \in hs} \cup {current}
    <3>1. CASE m - 1 \in hs
      <4>1. m - 1 \notin T
        BY <2>2, <2>3
      <4>2. P(m - 1)
        BY <3>1, <4>1
      <4> QED BY <3>1, <4>2
    <3>2. CASE m - 1 \notin hs
      BY <1>2, <3>2
    <3> QED BY <3>1, <3>2
  <2>6. UpdateTip(before, MAnc[b][m]) => SameRootChain(rootTip, PrevRoot[MAnc[b][m]])
    BY DEF UpdateTip
  <2>7. P(m)
    <3> HIDE DEF before
    <3> QED BY <2>3, <2>4, <2>5, <2>6
  <2> QED BY <2>3, <2>7
<1> QED BY <1>3

-----------------------------------------------------------------------------
\* A step keeps the invariant when it keeps what the database records and leaves a
\* head of the kind the invariant wants, or no head when the process has ended.
LEMMA SafeAfterStep ==
    ASSUME Safe, SingleGenesis,
           mdb' \subseteq MBlock, mdb \subseteq mdb', state' \subseteq mdb', Gen \in state',
           \A x \in mdb' : \A h \in 0 .. MNumber[x] : MAnc[x][h] \in mdb',
           rdb' \subseteq RBlock, rdb \subseteq rdb',
           \A q \in rdb' : RNumber[q] >= GenesisHeight,
           lastConfirmed' \in [RBlock -> MBlock \cup {None}],
           ConfirmedRecorded', validated' \subseteq mdb',
           canonical' \in [Heights -> MBlock \cup {None}], canonical'[0] = Gen,
           head' \in mdb', RunOnRoot', up' \in BOOLEAN,
           ~ up' => current' = None /\ rootTip' = None /\ confirmedTip' = None,
           up' => /\ rootTip' \in rdb' /\ current' \in mdb' /\ confirmedTip' = LastConf[rootTip']
                  /\ IsSameChain(RNumber, RAnc, rootTip', PrevRoot[current'])
    PROVE  Safe'
<1>1. up' => confirmedTip' \in mdb' \cup {None}
  BY DEF ConfirmedRecorded
<1>2. TypeOK'
  BY <1>1 DEF TypeOK
<1>3. StoreClosed' /\ GenesisKept'
  BY DEF Safe, StoreClosed, GenesisKept
<1>4. ConfirmedTipRecorded'
  BY DEF ConfirmedTipRecorded
<1>5. up' => PrevRoot[current'] \in rdb'
  <2>1. up' => current' \in MBlock /\ MNumber[current'] \in Nat /\ MAnc[current'][MNumber[current']] = current'
    BY MinorPath
  <2>2. up' => \A h \in 0 .. MNumber[current'] : PrevRoot[MAnc[current'][h]] \in rdb'
    BY DEF RunOnRoot, Rooted
  <2> QED BY <2>1, <2>2
<1>6. TipOnRootChain'
  BY <1>5 DEF TipOnRootChain, SameRootChain
<1> QED BY <1>2, <1>3, <1>4, <1>6 DEF Safe

\* The same for a handler of a minor block, whose head is set by updateTip.
LEMMA SafeAfterMinorBlock ==
    ASSUME Safe, SingleGenesis, up, up', NEW b \in MBlock, MNumber[b] > 0, MParent(b) \in mdb,
           mdb' = mdb \cup {b}, state' \subseteq mdb', Gen \in state',
           \A x \in state' : Rooted(x),
           validated' = validated \/ (validated' = validated \cup {b} /\ Rooted(b)),
           UNCHANGED <<rdb, lastConfirmed, rootTip, confirmedTip>>,
           NEW t \in mdb', Rooted(t), SameRootChain(rootTip, PrevRoot[t]),
           SetTip(t) \/ UNCHANGED <<canonical, head, current>>
    PROVE  Safe'
<1>1. /\ mdb' \subseteq MBlock
      /\ \A x \in mdb' : \A h \in 0 .. MNumber[x] : MAnc[x][h] \in mdb'
  BY MinorBlockStored
<1>2. /\ canonical' \in [Heights -> MBlock \cup {None}] /\ canonical'[0] = Gen
      /\ head' \in mdb' /\ current' \in mdb' /\ Rooted(head') /\ Rooted(current')
      /\ SameRootChain(rootTip, PrevRoot[current'])
  BY <1>1, TipMoved
<1>3. /\ rdb \subseteq RBlock /\ \A q \in rdb : RNumber[q] >= GenesisHeight
      /\ lastConfirmed \in [RBlock -> MBlock \cup {None}] /\ validated \subseteq mdb
      /\ rootTip \in rdb /\ confirmedTip = LastConf[rootTip]
  BY DEF Safe, TypeOK, StoreClosed, ConfirmedTipRecorded
<1>4. ConfirmedRecorded'
  BY DEF Safe, ConfirmedRecorded
<1>5. RunOnRoot'
  <2>1. \A x \in state' \cup validated' \cup {head'} : Rooted(x)
    BY <1>2 DEF Safe, RunOnRoot
  <2>2. \A x \in state' \cup validated' \cup {head'} : Rooted(x)'
    BY <2>1 DEF Rooted
  <2>3. Rooted(current)'
    BY <1>2 DEF Rooted
  <2> QED BY <2>2, <2>3 DEF RunOnRoot
<1>6. IsSameChain(RNumber, RAnc, rootTip', PrevRoot[current'])
  BY <1>2 DEF SameRootChain
<1> HIDE DEF RunOnRoot, ConfirmedRecorded
<1> QED BY <1>1, <1>2, <1>3, <1>4, <1>5, <1>6, SafeAfterStep

\* A state the pruning may not release is kept.
LEMMA GenesisStateKept ==
    ASSUME NEW tries, Gen \in tries, MNumber[Gen] = 0, NEW must, KeepTries(tries, must)
    PROVE  state' \subseteq tries /\ Gen \in state'
BY DEF KeepTries

\* WriteBlockWithState never releases the genesis trie.
LEMMA GenesisNotCollectable ==
    ASSUME MNumber[Gen] = 0, NEW r, NEW b, NEW gone \in SUBSET Collectable(r, b)
    PROVE  Gen \notin gone
BY DEF Collectable

\* AddMinorBlock keeps the invariant.
LEMMA SafeAddMinorBlock ==
    ASSUME Safe, SingleGenesis, NEW b \in MBlock, AddMinorBlock(b)
    PROVE  Safe'
<1>1. /\ up /\ up' /\ MNumber[b] > 0
      /\ UNCHANGED <<rdb, lastConfirmed, rootTip, confirmedTip>>
  BY DEF AddMinorBlock, Safe, TypeOK
<1>2. /\ state \subseteq mdb /\ mdb \subseteq MBlock /\ Gen \in state
      /\ current \in mdb /\ SameRootChain(rootTip, PrevRoot[current])
      /\ Rooted(current) /\ \A x \in state : Rooted(x)
  BY <1>1 DEF Safe, TypeOK, TipOnRootChain, GenesisKept, RunOnRoot
<1>3. MNumber[Gen] = 0
  BY GenesisBelow
<1>4. CASE InsertBlock(b) /\ validated' \in {validated, validated \cup {b}}
  <2>1. MParent(b) \in mdb /\ PrevRoot[b] \in rdb /\ mdb' = mdb \cup {b} /\ Rooted(MParent(b))
    BY <1>2, <1>4 DEF InsertBlock, HasBlockAndState, Valid
  <2>2. Rooted(b)
    BY <1>1, <2>1, RootedChild
  <2>3. PICK gone \in SUBSET Collectable(rootTip, b) : state' = (state \cup {b}) \ gone
    BY <1>4 DEF InsertBlock
  <2>4. state' \subseteq mdb' /\ Gen \in state' /\ \A x \in state' : Rooted(x)
    BY <1>2, <1>3, <2>1, <2>2, <2>3, GenesisNotCollectable
  <2>5. CASE UpdateTip(current, b)
    <3>1. SetTip(b) /\ SameRootChain(rootTip, PrevRoot[b])
      BY <1>4, <2>5 DEF InsertBlock, UpdateTip
    <3> QED BY <1>1, <1>4, <2>1, <2>2, <2>4, <3>1, SafeAfterMinorBlock
  <2>6. CASE ~ UpdateTip(current, b)
    <3>1. UNCHANGED <<canonical, head, current>> /\ current \in mdb'
      BY <1>2, <1>4, <2>1, <2>6 DEF InsertBlock
    <3> QED BY <1>1, <1>2, <1>4, <2>1, <2>2, <2>4, <3>1, SafeAfterMinorBlock
  <2> QED BY <2>5, <2>6
<1>5. CASE InsertSidechain(b) /\ UNCHANGED validated
  <2> DEFINE hs == RerunHeights(b)
             path == {MAnc[b][h] : h \in hs}
  <2>1. MParent(b) \in mdb /\ mdb' = mdb \cup {b} /\ current \in mdb'
    BY <1>2, <1>5 DEF InsertSidechain
  <2>2. CASE ~ (MNumber[b] >= MNumber[current] /\ hs # {})
    <3>1. UNCHANGED <<state, canonical, head, current>>
      BY <1>5, <2>2 DEF InsertSidechain
    <3>2. state' \subseteq mdb' /\ Gen \in state' /\ \A x \in state' : Rooted(x)
      BY <1>2, <2>1, <3>1
    <3> QED BY <1>1, <1>2, <1>5, <2>1, <3>1, <3>2, SafeAfterMinorBlock
  <2>3. CASE MNumber[b] >= MNumber[current] /\ hs # {}
    <3>1. RerunSidechain(b)
      BY <1>5, <2>3 DEF InsertSidechain
    <3>2. \A x \in path : x \in mdb' /\ Rooted(x)
      BY <1>1, <2>1, MinorBlockStored, RerunRooted
    <3>3. PICK gone \in SUBSET Collectable(rootTip, b) : state' = (state \cup path) \ gone
      BY <3>1 DEF RerunSidechain
    <3>4. state' \subseteq mdb' /\ Gen \in state' /\ \A x \in state' : Rooted(x)
      BY <1>2, <1>3, <2>1, <3>2, <3>3, GenesisNotCollectable
    <3>5. PICK tips \in [hs -> path \cup {current}], h \in hs :
             /\ RerunTips(b, tips)
             /\ IF tips[h] # current THEN SetTip(tips[h])
                                     ELSE UNCHANGED <<canonical, head, current>>
      BY <3>1 DEF RerunSidechain
    <3>6. SameRootChain(rootTip, PrevRoot[tips[h]]) /\ tips[h] \in mdb' /\ Rooted(tips[h])
      <4>1. tips[h] \in path \cup {current}
        BY <3>5
      <4> QED BY <1>1, <1>2, <2>1, <3>2, <3>5, <4>1, RerunOnRootChain
    <3>7. SetTip(tips[h]) \/ UNCHANGED <<canonical, head, current>>
      BY <3>5
    <3> QED BY <1>1, <1>5, <2>1, <3>4, <3>6, <3>7, SafeAfterMinorBlock
  <2> QED BY <2>2, <2>3
<1> QED BY <1>4, <1>5 DEF AddMinorBlock

-----------------------------------------------------------------------------
\* The search for the new head ends in a stored, rooted block of the root chain; it
\* cannot pass the genesis, which every root chain shares.
LEMMA RewindEnds ==
    ASSUME Safe, SingleGenesis, NEW r \in RBlock, AcceptsRootBlock(r),
           NEW cur \in mdb, Rooted(cur)
    PROVE  /\ \A tip : RewindsTo(r, cur, tip) =>
                 tip \in mdb /\ Rooted(tip) /\ SameRootChain(r, PrevRoot[tip])
           /\ ~ RewindsPastGenesis(r, cur)
<1> DEFINE c == ConfirmedAt(r)
           start == RewindStart(r, cur)
<1>1. /\ mdb \subseteq MBlock /\ GRoot \in rdb
      /\ \A x \in mdb : \A h \in 0 .. MNumber[x] : MAnc[x][h] \in mdb
  BY DEF Safe, TypeOK, StoreClosed, GenesisKept
<1>2. RNumber[r] > GenesisHeight /\ (c # None => c \in mdb /\ c \in validated)
  BY AcceptedRootBlock
<1>3. start \in mdb /\ Rooted(start)
  BY <1>2 DEF RewindStart, Safe, RunOnRoot
<1>4. ASSUME NEW tip, RewindsTo(r, cur, tip)
      PROVE  tip \in mdb /\ Rooted(tip) /\ SameRootChain(r, PrevRoot[tip])
  BY <1>1, <1>3, <1>4, RootedPath DEF RewindsTo
<1>5. ASSUME RewindsPastGenesis(r, cur) PROVE FALSE
  <2>1. 0 \in 0 .. MNumber[start]
    BY <1>1, <1>3, MinorPath
  <2>2. MAnc[start][0] = Gen /\ PrevRoot[Gen] = GRoot
    BY <1>1, <1>3, GenesisBelow
  <2>3. IsSameChain(RNumber, RAnc, r, GRoot)
    <3>1. RNumber[r] \in Nat /\ GenesisHeight \in Nat
      BY ContentAssumption, RootPath
    <3>2. RNumber[r] >= GenesisHeight
      BY <1>2, <3>1
    <3> QED BY <3>2, GenesisRootBelow
  <2>4. SameRootChain(r, PrevRoot[MAnc[start][0]])
    BY <1>1, <2>2, <2>3 DEF SameRootChain
  <2> QED BY <1>5, <2>1, <2>4 DEF RewindsPastGenesis
<1> QED BY <1>4, <1>5

\* AddRootBlock keeps the invariant.
LEMMA SafeAddRootBlock ==
    ASSUME Safe, SingleGenesis, NEW r \in RBlock, AddRootBlock(r)
    PROVE  Safe'
<1> DEFINE c == ConfirmedAt(r)
           OnRoot(x) == \A h \in 0 .. MNumber[x] : PrevRoot[MAnc[x][h]] \in rdb'
<1>1. /\ up /\ up' /\ AcceptsRootBlock(r) /\ validated' = validated
      /\ rdb' = rdb \cup {r} /\ lastConfirmed' = [lastConfirmed EXCEPT ![r] = c]
      /\ SelectRootTip(r, current, rootTip)
  BY DEF AddRootBlock, PutRootBlock
<1>2. /\ rdb' \subseteq RBlock /\ rdb \subseteq rdb'
      /\ lastConfirmed' \in [RBlock -> MBlock \cup {None}]
      /\ \A q \in rdb' : RNumber[q] >= GenesisHeight
      /\ ConfirmedRecorded'
  BY <1>1, RootBlockStored
<1>3. /\ mdb \subseteq MBlock /\ state \subseteq mdb /\ Gen \in state /\ validated \subseteq mdb
      /\ \A x \in mdb : \A h \in 0 .. MNumber[x] : MAnc[x][h] \in mdb
      /\ canonical \in [Heights -> MBlock \cup {None}] /\ canonical[0] = Gen
      /\ head \in mdb /\ current \in mdb /\ rootTip \in rdb /\ rootTip \in RBlock
      /\ confirmedTip = LastConf[rootTip] /\ SameRootChain(rootTip, PrevRoot[current])
      /\ Rooted(current) /\ Rooted(head) /\ \A x \in state \cup validated : Rooted(x)
  BY <1>1 DEF Safe, TypeOK, StoreClosed, GenesisKept, ConfirmedTipRecorded, TipOnRootChain,
              RunOnRoot
<1>4. /\ c = LastConf[r]
      /\ c # None => SameRootChain(r, PrevRoot[c])
  BY <1>1, AcceptedRootBlock DEF SameRootChain
<1>5. /\ \A tip : RewindsTo(r, current, tip) =>
            tip \in mdb /\ Rooted(tip) /\ SameRootChain(r, PrevRoot[tip])
      /\ ~ RewindsPastGenesis(r, current)
  BY <1>1, <1>3, RewindEnds
<1>7. ASSUME NEW x, Rooted(x) PROVE OnRoot(x)
  BY <1>2, <1>7 DEF Rooted
<1>8. CASE TD[r] > TD[rootTip]
  <2>1. /\ rootTip' = r /\ confirmedTip' = c
        /\ \E tip \in MBlock : RewindsTo(r, current, tip) /\ MoveHead(current, tip)
    BY <1>1, <1>4, <1>5, <1>8 DEF SelectRootTip
  <2>2. PICK tip \in MBlock : RewindsTo(r, current, tip) /\ MoveHead(current, tip)
    BY <2>1
  <2>3. tip \in mdb /\ Rooted(tip) /\ SameRootChain(r, PrevRoot[tip])
    BY <1>5, <2>2
  <2>4. /\ mdb' = mdb /\ state' = state /\ current' = tip /\ head' \in {head, tip}
        /\ canonical' \in {canonical, Reorg(canonical, current, tip)}
    BY <2>2 DEF MoveHead
  <2>5. canonical' \in [Heights -> MBlock \cup {None}] /\ canonical'[0] = Gen
    BY <1>3, <2>4, ReorgType, GenesisBelow
  <2>7. RunOnRoot'
    <3>1. \A x \in state' \cup validated' \cup {head'} : OnRoot(x)
      <4> SUFFICES ASSUME NEW x \in state \cup validated \cup {head, tip} PROVE OnRoot(x)
        BY <1>1, <2>4
      <4>1. Rooted(x)
        BY <1>3, <2>3
      <4> QED BY <1>7, <4>1
    <3>2. OnRoot(current')
      BY <1>7, <2>3, <2>4
    <3> QED BY <3>1, <3>2 DEF RunOnRoot, Rooted
  <2>8. /\ rootTip' \in rdb' /\ confirmedTip' = LastConf[rootTip']
        /\ IsSameChain(RNumber, RAnc, rootTip', PrevRoot[current'])
    BY <1>1, <1>4, <2>1, <2>3, <2>4 DEF SameRootChain
  <2> HIDE DEF c, RunOnRoot, ConfirmedRecorded
  <2> QED BY <1>1, <1>2, <1>3, <2>3, <2>4, <2>5, <2>7, <2>8, SafeAfterStep
<1>9. CASE ~ (TD[r] > TD[rootTip])
  <2>1. UNCHANGED <<mdb, state, canonical, head, current, rootTip, confirmedTip>>
    BY <1>1, <1>9 DEF SelectRootTip
  <2>3. RunOnRoot'
    <3>1. \A x \in state' \cup validated' \cup {head'} : OnRoot(x)
      BY <1>1, <1>3, <1>7, <2>1
    <3>2. OnRoot(current')
      BY <1>3, <1>7, <2>1
    <3> QED BY <3>1, <3>2 DEF RunOnRoot, Rooted
  <2>4. /\ rootTip' \in rdb' /\ confirmedTip' = LastConf[rootTip']
        /\ IsSameChain(RNumber, RAnc, rootTip', PrevRoot[current'])
    BY <1>1, <1>3, <2>1 DEF SameRootChain
  <2> HIDE DEF c, RunOnRoot, ConfirmedRecorded
  <2> QED BY <1>1, <1>2, <1>3, <2>1, <2>3, <2>4, SafeAfterStep
<1> QED BY <1>8, <1>9

-----------------------------------------------------------------------------
\* What the invariant says of the database alone.
LEMMA SafeStore ==
    ASSUME Safe
    PROVE  /\ mdb \subseteq MBlock /\ state \subseteq mdb /\ Gen \in state /\ validated \subseteq mdb
           /\ \A x \in mdb : \A h \in 0 .. MNumber[x] : MAnc[x][h] \in mdb
           /\ rdb \subseteq RBlock /\ GRoot \in rdb
           /\ \A q \in rdb : RNumber[q] >= GenesisHeight
           /\ lastConfirmed \in [RBlock -> MBlock \cup {None}]
           /\ canonical \in [Heights -> MBlock \cup {None}] /\ canonical[0] = Gen
           /\ head \in mdb
           /\ \A x \in state \cup validated \cup {head} : Rooted(x)
BY DEF Safe, TypeOK, StoreClosed, GenesisKept, RunOnRoot

\* InitGenesisState finds the one genesis already there.
LEMMA SafeInitGenesisState ==
    ASSUME Safe, SingleGenesis, NEW r \in DOMAIN GenesisOf, InitGenesisState(r)
    PROVE  Safe'
<1>1. /\ up /\ up' /\ mdb' = mdb \cup {GenesisOf[r]} /\ state' = state \cup {GenesisOf[r]}
      /\ rdb' = rdb \cup {r} /\ lastConfirmed' = [lastConfirmed EXCEPT ![r] = None]
      /\ validated' \in {validated, validated \cup {GenesisOf[r]}}
      /\ UNCHANGED <<canonical, head, current, rootTip, confirmedTip>>
  BY DEF InitGenesisState, PutRootBlock
<1>2. r = GRoot /\ GenesisOf[r] = Gen
  BY DEF SingleGenesis, GRoot, Gen
<1>3. /\ mdb' = mdb /\ state' = state /\ rdb' = rdb
      /\ validated' \in {validated, validated \cup {Gen}}
  BY <1>1, <1>2, SafeStore
<1>4. r \in RBlock /\ RNumber[r] = GenesisHeight /\ LastConf[r] = None
  BY GenesisRoot
<1>5. lastConfirmed' = lastConfirmed
  BY <1>1, <1>2, <1>4, SafeStore DEF Safe, ConfirmedRecorded
<1>6. TypeOK'
  BY <1>1, <1>3, <1>5, SafeStore DEF Safe, TypeOK
<1>7. ConfirmedRecorded'
  BY <1>3, <1>5 DEF Safe, ConfirmedRecorded
<1>8. RunOnRoot'
  BY <1>1, <1>3, SafeStore DEF Safe, RunOnRoot, Rooted
<1>9. StoreClosed' /\ GenesisKept' /\ ConfirmedTipRecorded' /\ TipOnRootChain'
  BY <1>1, <1>3 DEF Safe, StoreClosed, GenesisKept, ConfirmedTipRecorded, TipOnRootChain,
                    SameRootChain
<1> QED BY <1>6, <1>7, <1>8, <1>9 DEF Safe

\* A process that ends with its database in order.
LEMMA SafeDown ==
    ASSUME Safe, SingleGenesis, GoDown,
           mdb' \subseteq MBlock, mdb \subseteq mdb', state' \subseteq mdb', Gen \in state',
           \A x \in mdb' : \A h \in 0 .. MNumber[x] : MAnc[x][h] \in mdb',
           rdb' \subseteq RBlock, rdb \subseteq rdb',
           \A q \in rdb' : RNumber[q] >= GenesisHeight,
           lastConfirmed' \in [RBlock -> MBlock \cup {None}],
           ConfirmedRecorded', validated' = validated,
           canonical' \in [Heights -> MBlock \cup {None}], canonical'[0] = Gen,
           head' \in mdb', Rooted(head'), \A x \in state' : Rooted(x)
    PROVE  Safe'
<1>1. up' = FALSE /\ current' = None /\ rootTip' = None /\ confirmedTip' = None
  BY DEF GoDown
<1>2. \A x \in state' \cup validated' \cup {head'} :
         \A h \in 0 .. MNumber[x] : PrevRoot[MAnc[x][h]] \in rdb'
  BY SafeStore DEF Rooted
<1>3. RunOnRoot'
  BY <1>1, <1>2 DEF RunOnRoot, Rooted
<1>4. validated' \subseteq mdb'
  BY SafeStore
<1> HIDE DEF RunOnRoot, ConfirmedRecorded
<1> QED BY <1>1, <1>3, <1>4, SafeAfterStep

\* Stop and Crash keep the invariant: what is lost are tries, never the genesis.
LEMMA SafeStopOrCrash ==
    ASSUME Safe, SingleGenesis, Stop \/ Crash
    PROVE  Safe'
<1>1. /\ GoDown /\ \E must : KeepTries(state, must)
      /\ UNCHANGED <<mdb, rdb, lastConfirmed, canonical, head, validated>>
  BY DEF Stop, Crash
<1>2. Gen \in state /\ MNumber[Gen] = 0
  BY SafeStore, GenesisBelow
<1>3. state' \subseteq state /\ Gen \in state'
  BY <1>1, <1>2, GenesisStateKept
<1>4. ConfirmedRecorded'
  BY <1>1 DEF Safe, ConfirmedRecorded
<1> HIDE DEF ConfirmedRecorded
<1> QED BY <1>1, <1>3, <1>4, SafeStore, SafeDown

\* A crash inside reorg leaves a head on the path to the old or the new block and an
\* index that still begins with the genesis.
LEMMA TornIndex ==
    ASSUME Safe, SingleGenesis, NEW old \in MBlock, NEW new \in MBlock, Rooted(new),
           \A h \in 0 .. MNumber[new] : MAnc[new][h] \in mdb', mdb \subseteq mdb',
           TornReorg(old, new)
    PROVE  /\ canonical' \in [Heights -> MBlock \cup {None}] /\ canonical'[0] = Gen
           /\ head' \in mdb' /\ Rooted(head')
<1>1. MNumber[old] \in Nat /\ MNumber[new] \in Nat /\ 0 \in Heights /\ Heights \subseteq Nat
  BY MinorPath, HeightsOfBlocks
<1>2. PICK fork \in -1 .. MNumber[new] :
        /\ ForkHeight(old, new, fork)
        /\ \E done, entry \in fork .. MNumber[new] :
              /\ entry \in done .. done + 1
              /\ head' = IF done = fork THEN head ELSE MAnc[new][done]
              /\ canonical' = [n \in Heights |->
                     IF n <= fork THEN canonical[n]
                     ELSE IF n <= entry THEN MAnc[new][n]
                     ELSE IF n <= MNumber[old] THEN None ELSE canonical[n]]
  BY DEF TornReorg
<1>3. PICK done \in fork .. MNumber[new], entry \in fork .. MNumber[new] :
        /\ head' = IF done = fork THEN head ELSE MAnc[new][done]
        /\ canonical' = [n \in Heights |->
               IF n <= fork THEN canonical[n]
               ELSE IF n <= entry THEN MAnc[new][n]
               ELSE IF n <= MNumber[old] THEN None ELSE canonical[n]]
  BY <1>2
<1>4. fork >= 0
  <2>1. MAnc[old][0] = Gen /\ MAnc[new][0] = Gen
    BY GenesisBelow
  <2>2. fork = -1 => 0 \in fork + 1 .. MNumber[new]
    BY <1>1
  <2>3. \A h \in fork + 1 .. MNumber[new] : ~ (h <= MNumber[old] /\ MAnc[old][h] = MAnc[new][h])
    BY <1>2 DEF ForkHeight
  <2>4. fork # -1
    BY <1>1, <2>1, <2>2, <2>3
  <2> QED BY <1>1, <2>4
<1>5. canonical \in [Heights -> MBlock \cup {None}] /\ canonical[0] = Gen /\ head \in mdb /\ Rooted(head)
  BY SafeStore
<1>6. canonical'[0] = Gen
  BY <1>1, <1>3, <1>4, <1>5
<1>7. \A n \in Heights : n <= entry => MAnc[new][n] \in MBlock
  BY <1>1, <1>3, MinorPath
<1>8. canonical' \in [Heights -> MBlock \cup {None}]
  BY <1>3, <1>5, <1>7
<1>9. head' \in mdb' /\ Rooted(head')
  <2>1. CASE done = fork
    BY <1>3, <1>5, <2>1
  <2>2. CASE done # fork
    <3>1. done \in 0 .. MNumber[new] /\ head' = MAnc[new][done]
      <4>1. done \in 0 .. MNumber[new]
        BY <1>1, <2>2
      <4> QED BY <1>3, <2>2, <4>1
    <3> QED BY <3>1, RootedPath
  <2> QED BY <2>1, <2>2
<1> QED BY <1>6, <1>8, <1>9

\* A crash inside AddMinorBlock keeps the invariant.
LEMMA SafeCrashInAddMinorBlock ==
    ASSUME Safe, SingleGenesis, NEW b \in MBlock, CrashInAddMinorBlock(b)
    PROVE  Safe'
<1>1. /\ up /\ MNumber[b] > 0 /\ MParent(b) \in mdb
      /\ GoDown /\ mdb' = mdb \cup {b} /\ UNCHANGED <<rdb, lastConfirmed, validated>>
      /\ \/ KeepTries(state, {}) /\ UNCHANGED <<canonical, head>>
         \/ /\ MParent(b) \in state /\ PrevRoot[b] \in rdb
            /\ KeepTries(state \cup {b}, {}) /\ TornReorg(current, b)
  BY DEF CrashInAddMinorBlock, Valid
<1>2. current \in MBlock
  BY <1>1, SafeStore DEF Safe, TypeOK
<1>3. MParent(b) \in state /\ PrevRoot[b] \in rdb => Rooted(b)
  BY <1>1, SafeStore, RootedChild
<1>4. /\ mdb' \subseteq MBlock
      /\ \A x \in mdb' : \A h \in 0 .. MNumber[x] : MAnc[x][h] \in mdb'
  BY <1>1, MinorBlockStored
<1>5. Gen \in state /\ MNumber[Gen] = 0
  BY SafeStore, GenesisBelow
<1>6. /\ state' \subseteq mdb' /\ Gen \in state' /\ \A x \in state' : Rooted(x)
      /\ canonical' \in [Heights -> MBlock \cup {None}] /\ canonical'[0] = Gen
      /\ head' \in mdb' /\ Rooted(head')
  <2>1. CASE KeepTries(state, {}) /\ UNCHANGED <<canonical, head>>
    <3>1. state' \subseteq state /\ Gen \in state'
      BY <1>5, <2>1, GenesisStateKept
    <3> QED BY <1>1, <2>1, <3>1, SafeStore
  <2>2. CASE /\ MParent(b) \in state /\ PrevRoot[b] \in rdb
             /\ KeepTries(state \cup {b}, {}) /\ TornReorg(current, b)
    <3>1. state' \subseteq state \cup {b} /\ Gen \in state'
      BY <1>5, <2>2, GenesisStateKept
    <3>2. \A h \in 0 .. MNumber[b] : MAnc[b][h] \in mdb'
      BY <1>1, <1>4
    <3>3. /\ canonical' \in [Heights -> MBlock \cup {None}] /\ canonical'[0] = Gen
          /\ head' \in mdb' /\ Rooted(head')
      BY <1>1, <1>2, <1>3, <2>2, <3>2, TornIndex
    <3>4. state' \subseteq mdb' /\ \A x \in state' : Rooted(x)
      BY <1>1, <1>3, <2>2, <3>1, SafeStore
    <3> QED BY <3>1, <3>3, <3>4
  <2> QED BY <1>1, <2>1, <2>2
<1>9. ConfirmedRecorded'
  BY <1>1 DEF Safe, ConfirmedRecorded
<1> HIDE DEF ConfirmedRecorded
<1> QED BY <1>1, <1>4, <1>6, <1>9, SafeStore, SafeDown

\* A crash inside AddRootBlock keeps the invariant.
LEMMA SafeCrashInAddRootBlock ==
    ASSUME Safe, SingleGenesis, NEW r \in RBlock, CrashInAddRootBlock(r)
    PROVE  Safe'
<1>1. /\ up /\ AcceptsRootBlock(r) /\ GoDown /\ KeepTries(state, {})
      /\ UNCHANGED <<mdb, validated>>
      /\ lastConfirmed' = [lastConfirmed EXCEPT ![r] = ConfirmedAt(r)]
      /\ rdb' \in {rdb, rdb \cup {r}}
      /\ \/ UNCHANGED <<canonical, head>>
         \/ \E tip \in MBlock : RewindsTo(r, current, tip) /\ TornReorg(current, tip)
  BY DEF CrashInAddRootBlock
<1>2. /\ rdb' \subseteq RBlock /\ rdb \subseteq rdb'
      /\ lastConfirmed' \in [RBlock -> MBlock \cup {None}]
      /\ \A q \in rdb' : RNumber[q] >= GenesisHeight
      /\ ConfirmedRecorded'
  BY <1>1, RootBlockStored
<1>3. current \in mdb /\ current \in MBlock /\ Rooted(current)
  BY <1>1 DEF Safe, TypeOK, RunOnRoot
<1>4. Gen \in state /\ MNumber[Gen] = 0
  BY SafeStore, GenesisBelow
<1>5. state' \subseteq state /\ Gen \in state'
  BY <1>1, <1>4, GenesisStateKept
<1>6. /\ canonical' \in [Heights -> MBlock \cup {None}] /\ canonical'[0] = Gen
      /\ head' \in mdb' /\ Rooted(head')
  <2>1. CASE UNCHANGED <<canonical, head>>
    BY <1>1, <2>1, SafeStore
  <2>2. CASE \E tip \in MBlock : RewindsTo(r, current, tip) /\ TornReorg(current, tip)
    <3>1. PICK tip \in MBlock : RewindsTo(r, current, tip) /\ TornReorg(current, tip)
      BY <2>2
    <3>2. tip \in mdb /\ Rooted(tip)
      BY <1>1, <1>3, <3>1, RewindEnds
    <3>3. \A h \in 0 .. MNumber[tip] : MAnc[tip][h] \in mdb'
      BY <1>1, <3>2, SafeStore
    <3> QED BY <1>1, <1>3, <3>1, <3>2, <3>3, TornIndex
  <2> QED BY <1>1, <2>1, <2>2
<1> HIDE DEF ConfirmedRecorded
<1> QED BY <1>1, <1>2, <1>5, <1>6, SafeStore, SafeDown

-----------------------------------------------------------------------------
\* The blocks that reRunBlockWithState runs are on the path it is given.
LEMMA RerunStored ==
    ASSUME Safe, NEW b \in mdb, Rooted(b), NEW have
    PROVE  Rerun(b, have) \subseteq mdb /\ \A x \in Rerun(b, have) : Rooted(x)
BY SafeStore, RootedPath DEF Rerun

\* The end of InitFromRootBlock establishes the invariant.
LEMMA SafeRewind ==
    ASSUME Safe, SingleGenesis, NEW r \in RBlock, NEW cur \in mdb, Rooted(cur),
           NEW index \in [Heights -> MBlock \cup {None}], index[0] = Gen,
           RewindToConfirmed(r, LastConf[r], cur, index),
           LastConf[r] # None => /\ LastConf[r] \in validated
                                 /\ IsSameChain(RNumber, RAnc, r, PrevRoot[LastConf[r]]),
           UNCHANGED <<mdb, validated>>,
           rdb' \subseteq RBlock, rdb \subseteq rdb', r \in rdb',
           \A q \in rdb' : RNumber[q] >= GenesisHeight,
           lastConfirmed' \in [RBlock -> MBlock \cup {None}],
           ConfirmedRecorded'
    PROVE  Safe'
<1> DEFINE c == LastConf[r]
           target == IF c # None THEN c ELSE index[0]
           OnRoot(x) == \A h \in 0 .. MNumber[x] : PrevRoot[MAnc[x][h]] \in rdb'
<1>1. /\ rootTip' = r /\ confirmedTip' = c /\ current' = target /\ head' = target
      /\ canonical' = Reorg(index, cur, target) /\ up' = TRUE
      /\ \/ state' = state
         \/ \E gone \in SUBSET (Collectable(r, cur) \cup Collectable(r, target)) :
               state' = (state \cup Rerun(cur, state) \cup Rerun(target, state)) \ (gone \ {target})
  BY DEF RewindToConfirmed
<1>2. /\ Gen \in mdb /\ PrevRoot[Gen] = GRoot /\ cur \in MBlock
      /\ IsSameChain(RNumber, RAnc, r, GRoot)
  BY SafeStore, GenesisBelow, GenesisRootBelow
<1>3. /\ target \in mdb /\ Rooted(target) /\ target \in MBlock
      /\ IsSameChain(RNumber, RAnc, r, PrevRoot[target])
  <2>1. CASE c # None
    BY <2>1, SafeStore
  <2>2. CASE c = None
    BY <1>2, <2>2, SafeStore
  <2> QED BY <2>1, <2>2
<1>4. canonical' \in [Heights -> MBlock \cup {None}] /\ canonical'[0] = Gen
  <2> HIDE DEF target
  <2> QED BY <1>1, <1>2, <1>3, ReorgGenesis
<1>5. state' \subseteq mdb /\ Gen \in state' /\ \A x \in state' : Rooted(x)
  <2> HIDE DEF target
  <2>1. CASE state' = state
    BY <2>1, SafeStore
  <2>2. CASE state' # state
    <3>1. PICK gone \in SUBSET (Collectable(r, cur) \cup Collectable(r, target)) :
             state' = (state \cup Rerun(cur, state) \cup Rerun(target, state)) \ (gone \ {target})
      BY <1>1, <2>2
    <3>2. Gen \notin gone
      BY GenesisBelow DEF Collectable
    <3> QED BY <1>3, <3>1, <3>2, SafeStore, RerunStored
  <2> QED BY <2>1, <2>2
<1>6. RunOnRoot'
  <2>1. \A x \in state' \cup validated' \cup {head'} : OnRoot(x)
    <3>1. ASSUME NEW x, Rooted(x) PROVE OnRoot(x)
      BY <3>1 DEF Rooted
    <3> HIDE DEF OnRoot, target
    <3> QED BY <1>1, <1>3, <1>5, <3>1, SafeStore
  <2>2. OnRoot(current')
    BY <1>1, <2>1
  <2> QED BY <2>1, <2>2 DEF RunOnRoot, Rooted
<1>7. validated' \subseteq mdb' /\ mdb' \subseteq MBlock /\ state' \subseteq mdb'
      /\ \A x \in mdb' : \A h \in 0 .. MNumber[x] : MAnc[x][h] \in mdb'
  BY <1>5, SafeStore
<1>8. /\ rootTip' \in rdb' /\ current' \in mdb' /\ head' \in mdb'
      /\ confirmedTip' = LastConf[rootTip']
      /\ IsSameChain(RNumber, RAnc, rootTip', PrevRoot[current'])
  BY <1>1, <1>3
<1> HIDE DEF RunOnRoot, ConfirmedRecorded, target, c
<1> QED BY <1>1, <1>4, <1>5, <1>6, <1>7, <1>8, SafeAfterStep

\* The head that InitFromRootBlock finds is stored and rooted.
LEMMA LoadedHeadStored ==
    ASSUME Safe
    PROVE  LoadedHead \in mdb /\ Rooted(LoadedHead)
BY DEF LoadedHead, Safe, TypeOK, RunOnRoot

\* InitFromRootBlock at a root block the database has.
LEMMA SafeInitAtStored ==
    ASSUME Safe, SingleGenesis, NEW r \in RBlock, InitAtKnown(r) \/ InitAtUnconfirmed(r)
    PROVE  Safe'
<1>1. /\ r \in rdb
      /\ RewindToConfirmed(r, lastConfirmed[r], LoadedHead, canonical)
      /\ UNCHANGED <<mdb, rdb, lastConfirmed, validated>>
  BY DEF InitAtKnown, InitAtUnconfirmed
<1>2. /\ lastConfirmed[r] = LastConf[r]
      /\ LastConf[r] # None => /\ LastConf[r] \in validated
                               /\ IsSameChain(RNumber, RAnc, r, PrevRoot[LastConf[r]])
  BY <1>1 DEF Safe, ConfirmedRecorded
<1>3. ConfirmedRecorded'
  BY <1>1 DEF Safe, ConfirmedRecorded
<1> HIDE DEF ConfirmedRecorded
<1> QED BY <1>1, <1>2, <1>3, SafeStore, LoadedHeadStored, SafeRewind

\* With a single genesis there is no other genesis to switch to.
LEMMA OneGenesis ==
    ASSUME Safe, SingleGenesis, NEW r \in RBlock, AcceptsRootBlock(r)
    PROVE  ~ ResetAtNew(r)
<1> SUFFICES ASSUME RewindsPastGenesis(r, LoadedHead) PROVE FALSE
  BY DEF ResetAtNew
<1> QED BY LoadedHeadStored, RewindEnds

\* InitFromRootBlock at a root block the database misses.
LEMMA SafeInitAtNew ==
    ASSUME Safe, SingleGenesis, NEW r \in RBlock, InitAtNew(r)
    PROVE  Safe'
<1> DEFINE c == ConfirmedAt(r)
<1>0. RewindAtNew(r)
  BY OneGenesis DEF InitAtNew
<1>1. /\ AcceptsRootBlock(r) /\ UNCHANGED <<mdb, validated>>
      /\ rdb' = rdb \cup {r} /\ lastConfirmed' = [lastConfirmed EXCEPT ![r] = c]
  BY <1>0 DEF InitAtNew, RewindAtNew, PutRootBlock
<1>2. PICK tip \in MBlock :
        /\ RewindsTo(r, LoadedHead, tip)
        /\ IF tip # LoadedHead /\ tip \notin state
           THEN /\ current' = None /\ rootTip' = None /\ confirmedTip' = None /\ up' = FALSE
                /\ UNCHANGED <<canonical, head, state>>
           ELSE RewindToConfirmed(r, c, tip,
                   IF tip = LoadedHead THEN canonical ELSE Reorg(canonical, LoadedHead, tip))
  BY <1>0 DEF RewindAtNew
<1>3. /\ rdb' \subseteq RBlock /\ rdb \subseteq rdb' /\ r \in rdb'
      /\ lastConfirmed' \in [RBlock -> MBlock \cup {None}]
      /\ \A q \in rdb' : RNumber[q] >= GenesisHeight
      /\ ConfirmedRecorded'
  BY <1>1, RootBlockStored
<1>4. /\ c = LastConf[r]
      /\ LastConf[r] # None => /\ LastConf[r] \in validated
                               /\ IsSameChain(RNumber, RAnc, r, PrevRoot[LastConf[r]])
  BY <1>1, AcceptedRootBlock
<1>5. LoadedHead \in mdb /\ Rooted(LoadedHead) /\ LoadedHead \in MBlock
  BY LoadedHeadStored, SafeStore
<1>6. tip \in mdb /\ Rooted(tip)
  BY <1>1, <1>2, <1>5, RewindEnds
<1>7. CASE tip # LoadedHead /\ tip \notin state
  <2>1. /\ current' = None /\ rootTip' = None /\ confirmedTip' = None /\ up' = FALSE
        /\ UNCHANGED <<canonical, head, state>>
    BY <1>2, <1>7
  <2>2. RunOnRoot'
    BY <1>1, <1>3, <2>1, SafeStore DEF RunOnRoot, Rooted
  <2> HIDE DEF RunOnRoot, ConfirmedRecorded, c
  <2> QED BY <1>1, <1>3, <2>1, <2>2, SafeStore, SafeAfterStep
<1>8. CASE ~ (tip # LoadedHead /\ tip \notin state)
  <2> DEFINE index == IF tip = LoadedHead THEN canonical ELSE Reorg(canonical, LoadedHead, tip)
  <2>1. RewindToConfirmed(r, LastConf[r], tip, index)
    BY <1>2, <1>4, <1>8
  <2>2. index \in [Heights -> MBlock \cup {None}] /\ index[0] = Gen
    <3>1. CASE tip = LoadedHead
      BY <3>1, SafeStore
    <3>2. CASE tip # LoadedHead
      BY <1>5, <3>2, SafeStore, ReorgGenesis
    <3> QED BY <3>1, <3>2
  <2> HIDE DEF ConfirmedRecorded, c, index
  <2> QED BY <1>1, <1>3, <1>4, <1>6, <2>1, <2>2, SafeRewind
<1> QED BY <1>7, <1>8

\* A start at the genesis root block: the shard has no other root block then.
LEMMA SafeInitAtGenesis ==
    ASSUME Safe, SingleGenesis, NEW r \in RBlock, InitAtGenesis(r)
    PROVE  Safe'
<1>1. /\ MasterHolds(r) /\ RNumber[r] = GenesisHeight
      /\ mdb' = mdb \cup {GenesisOf[r]} /\ state' = state \cup {GenesisOf[r]}
      /\ rdb' = rdb \cup {r} /\ lastConfirmed' = [lastConfirmed EXCEPT ![r] = None]
      /\ UNCHANGED <<canonical, head>> /\ ~ up
      /\ \/ /\ up' = TRUE
            /\ rootTip' = r /\ confirmedTip' = None /\ current' = head
            /\ validated' = validated \cup {GenesisOf[r]}
         \/ UNCHANGED <<up, rootTip, confirmedTip, current, validated>>
  BY Zenon DEF InitAtGenesis, PutRootBlock
<1>2. r \in DOMAIN GenesisOf /\ GenesisHeight \in Nat
  BY <1>1, GenesisAssumption, ContentAssumption
<1>3. r = GRoot /\ GenesisOf[r] = Gen
  BY <1>2 DEF SingleGenesis, GRoot, Gen
<1>4. LastConf[r] = None
  BY <1>2, GenesisRoot
<1>5. /\ mdb' = mdb /\ state' = state /\ rdb' = rdb
      /\ validated' \in {validated, validated \cup {Gen}}
  BY <1>1, <1>3, SafeStore
<1>6. lastConfirmed' = lastConfirmed
  BY <1>1, <1>3, <1>4, SafeStore DEF Safe, ConfirmedRecorded
<1>7. ASSUME NEW q \in rdb PROVE q = r
  <2>0. \A x \in rdb : TD[x] <= TD[r]
    BY <1>1, <1>2 DEF MasterHolds, SingleGenesis
  <2>1. q \in RBlock /\ RNumber[q] \in Nat /\ RNumber[q] >= GenesisHeight /\ TD[q] <= TD[r]
    BY <2>0, SafeStore, RootPath
  <2>2. RAnc[q][GenesisHeight] = r /\ RAnc[q][RNumber[q]] = q
    BY <1>3, <2>1, GenesisRootBelow, RootPath
  <2>3. RNumber[q] > GenesisHeight => TD[r] < TD[q]
    <3>1. \A h \in 0 .. RNumber[q] - 1 : TD[RAnc[q][h]] < TD[q]
      BY <2>1, ContentAssumption
    <3>2. RNumber[q] > GenesisHeight => GenesisHeight \in 0 .. RNumber[q] - 1
      BY <1>2, <2>1
    <3> QED BY <2>2, <3>1, <3>2
  <2>4. TD[q] \in Nat /\ TD[r] \in Nat
    BY <2>1, ContentAssumption
  <2> QED BY <1>2, <2>1, <2>2, <2>3, <2>4
<1>8. PrevRoot[head] = r
  BY <1>7, SafeStore, RootedBlock
<1>9. IsSameChain(RNumber, RAnc, r, r)
  BY RootChainReflexive
<1>10. ConfirmedRecorded'
  BY <1>5, <1>6 DEF Safe, ConfirmedRecorded
<1>11. RunOnRoot'
  <2>1. \A x \in state' \cup validated' \cup {head'} : Rooted(x)
    BY <1>1, <1>5, SafeStore
  <2>2. up' => Rooted(current')
    BY <1>1, <2>1
  <2> QED BY <1>5, <2>1, <2>2 DEF RunOnRoot, Rooted
<1>12. up' => /\ rootTip' \in rdb' /\ current' \in mdb' /\ confirmedTip' = LastConf[rootTip']
              /\ IsSameChain(RNumber, RAnc, rootTip', PrevRoot[current'])
  BY <1>1, <1>4, <1>5, <1>8, <1>9, SafeStore
<1>13. /\ up' \in BOOLEAN
       /\ ~ up' => current' = None /\ rootTip' = None /\ confirmedTip' = None
  BY <1>1 DEF Safe, TypeOK
<1> HIDE DEF RunOnRoot, ConfirmedRecorded
<1> QED BY <1>1, <1>5, <1>6, <1>10, <1>11, <1>12, <1>13, SafeStore, SafeAfterStep

-----------------------------------------------------------------------------
\* The created shard satisfies the invariant.
LEMMA SafeInit ==
    ASSUME Init, SingleGenesis
    PROVE  Safe
<1>1. PICK r \in DOMAIN GenesisOf :
        LET g == GenesisOf[r]
        IN  /\ mdb = {g} /\ state = {g}
            /\ rdb = {r}
            /\ lastConfirmed = [x \in RBlock |-> None]
            /\ canonical = PathIndex(g)
            /\ head = g /\ current = g
            /\ rootTip = r /\ confirmedTip = None
            /\ up = TRUE
            /\ validated = {g}
  BY DEF Init
<1>2. r = GRoot /\ GenesisOf[r] = Gen
  BY DEF SingleGenesis, GRoot, Gen
<1>3. /\ r \in RBlock /\ RNumber[r] = GenesisHeight /\ GenesisHeight \in Nat
      /\ Gen \in MBlock /\ MNumber[Gen] = 0 /\ PrevRoot[Gen] = r /\ LastConf[r] = None
  BY <1>2, GenesisRoot
<1>4. 0 .. MNumber[Gen] = {0} /\ MAnc[Gen][0] = Gen
  <2>1. MAnc[Gen][MNumber[Gen]] = Gen
    BY <1>3, MinorPath
  <2> QED BY <1>3, <2>1
<1>5. canonical \in [Heights -> MBlock \cup {None}] /\ canonical[0] = Gen
  <2>1. 0 \in Heights /\ Heights \subseteq Nat
    BY <1>3, <1>4, HeightsOfBlocks
  <2>2. canonical = [n \in Heights |-> IF n <= MNumber[Gen] THEN MAnc[Gen][n] ELSE None]
    BY <1>1, <1>2 DEF PathIndex
  <2>3. ASSUME NEW n \in Heights, n <= MNumber[Gen] PROVE n = 0
    <3>1. n \in Nat /\ MNumber[Gen] = 0
      BY <1>3, <2>1
    <3> QED BY <2>3, <3>1
  <2> QED BY <1>3, <1>4, <2>1, <2>2, <2>3
<1>6. TypeOK
  BY <1>1, <1>2, <1>3, <1>5 DEF TypeOK
<1>7. StoreClosed /\ ConfirmedRecorded /\ GenesisKept /\ ConfirmedTipRecorded
  <2>1. mdb = {Gen} /\ rdb = {r} /\ rootTip = r /\ confirmedTip = None /\ state = {Gen}
        /\ lastConfirmed[r] = None
    BY <1>1, <1>2, <1>3
  <2>2. \A b \in mdb : \A h \in 0 .. MNumber[b] : MAnc[b][h] \in mdb
    BY <1>4, <2>1
  <2>3. \A q \in rdb : RNumber[q] >= GenesisHeight
    BY <1>3, <2>1
  <2>4. ConfirmedRecorded
    BY <1>3, <2>1 DEF ConfirmedRecorded
  <2>5. GenesisKept /\ ConfirmedTipRecorded
    BY <1>2, <1>3, <1>5, <2>1 DEF GenesisKept, ConfirmedTipRecorded
  <2> QED BY <2>2, <2>3, <2>4, <2>5 DEF StoreClosed
<1>8. RunOnRoot
  BY <1>1, <1>2, <1>3, <1>4 DEF RunOnRoot, Rooted
<1>9. TipOnRootChain
  <2>1. rdb = {r} /\ rootTip = r /\ PrevRoot[current] = r
    BY <1>1, <1>2, <1>3
  <2>2. IsSameChain(RNumber, RAnc, r, r)
    BY <1>3, RootChainReflexive
  <2> QED BY <2>1, <2>2 DEF TipOnRootChain, SameRootChain
<1> QED BY <1>6, <1>7, <1>8, <1>9 DEF Safe

\* Every handler, crash and restart keeps it.
LEMMA SafeStep ==
    ASSUME Safe, SingleGenesis, [Next]_vars
    PROVE  Safe'
<1>1. ASSUME NEW b \in MBlock, AddMinorBlock(b) PROVE Safe'
  BY <1>1, SafeAddMinorBlock
<1>2. ASSUME NEW b \in MBlock, CrashInAddMinorBlock(b) PROVE Safe'
  BY <1>2, SafeCrashInAddMinorBlock
<1>3. ASSUME NEW r \in RBlock, AddRootBlock(r) PROVE Safe'
  BY <1>3, SafeAddRootBlock
<1>4. ASSUME NEW r \in RBlock, CrashInAddRootBlock(r) PROVE Safe'
  BY <1>4, SafeCrashInAddRootBlock
<1>5. ASSUME NEW r \in DOMAIN GenesisOf, InitGenesisState(r) PROVE Safe'
  BY <1>5, SafeInitGenesisState
<1>6. ASSUME NEW r \in RBlock, InitFromRootBlock(r) PROVE Safe'
  <2>1. CASE InitAtKnown(r) \/ InitAtUnconfirmed(r)
    BY <2>1, SafeInitAtStored
  <2>2. CASE InitAtNew(r)
    BY <2>2, SafeInitAtNew
  <2>3. CASE InitAtGenesis(r)
    BY <2>3, SafeInitAtGenesis
  <2> QED BY <1>6, <2>1, <2>2, <2>3 DEF InitFromRootBlock
<1>7. CASE Stop \/ Crash
  BY <1>7, SafeStopOrCrash
<1>8. CASE UNCHANGED vars
  BY <1>8 DEF vars, Safe, TypeOK, StoreClosed, ConfirmedRecorded, RunOnRoot, Rooted, GenesisKept,
              ConfirmedTipRecorded, TipOnRootChain, SameRootChain
<1> QED BY <1>1, <1>2, <1>3, <1>4, <1>5, <1>6, <1>7, <1>8 DEF Next

\* Whatever blocks arrive, however the shard crashes, inside a handler or between two,
\* and whatever tries it prunes: its variables keep their types and its head was mined on
\* the root chain it follows.
THEOREM SafeAlways ==
    ASSUME SingleGenesis
    PROVE  Spec => []FollowsRootChain
<1>1. Init => Safe
  BY SafeInit
<1>2. Safe /\ [Next]_vars => Safe'
  BY SafeStep
<1>3. Safe => FollowsRootChain
  BY DEF Safe, FollowsRootChain
<1> QED BY <1>1, <1>2, <1>3, PTL DEF Spec

-----------------------------------------------------------------------------
\* The end of InitFromRootBlock takes the head to the block that the root tip confirms,
\* or to the genesis.
LEMMA RewindHead ==
    ASSUME Safe, Safe', NEW r, NEW c, NEW cur, NEW index, index[0] = Gen,
           RewindToConfirmed(r, c, cur, index)
    PROVE  /\ rootTip' = r
           /\ current' = IF confirmedTip' # None THEN confirmedTip' ELSE canonical'[0]
<1>1. canonical'[0] = Gen
  BY DEF Safe, GenesisKept
<1> QED BY <1>1 DEF RewindToConfirmed

\* InitFromRootBlock of a running shard.
LEMMA HeavierAfterInit ==
    ASSUME Safe, Safe', SingleGenesis, NEW r \in RBlock, InitFromRootBlock(r), up, up'
    PROVE  FollowsHeavier
<1>1. TipOnRootChain' /\ TD[r] \in Nat /\ canonical[0] = Gen
  BY ContentAssumption DEF Safe, GenesisKept
<1>2. CASE InitAtKnown(r) \/ InitAtUnconfirmed(r)
  <2>1. rdb' = rdb /\ RewindToConfirmed(r, lastConfirmed[r], LoadedHead, canonical)
    BY <1>2 DEF InitAtKnown, InitAtUnconfirmed
  <2> QED BY <1>1, <2>1, RewindHead DEF FollowsHeavier
<1>3. CASE InitAtNew(r)
  <2>1. RewindAtNew(r) /\ AcceptsRootBlock(r) /\ rdb' = rdb \cup {r}
    BY <1>3, OneGenesis DEF InitAtNew, PutRootBlock
  <2>2. PICK tip \in MBlock :
          /\ RewindsTo(r, LoadedHead, tip)
          /\ RewindToConfirmed(r, ConfirmedAt(r), tip,
                IF tip = LoadedHead THEN canonical ELSE Reorg(canonical, LoadedHead, tip))
    BY <2>1 DEF RewindAtNew
  <2> DEFINE index == IF tip = LoadedHead THEN canonical ELSE Reorg(canonical, LoadedHead, tip)
  <2>3. index[0] = Gen
    <3>1. LoadedHead \in MBlock
      BY LoadedHeadStored, SafeStore
    <3>2. tip # LoadedHead => Reorg(canonical, LoadedHead, tip)[0] = Gen
      BY <1>1, <3>1, SafeStore, ReorgGenesis
    <3> QED BY <1>1, <3>2
  <2>4. /\ rootTip' = r
        /\ current' = IF confirmedTip' # None THEN confirmedTip' ELSE canonical'[0]
    <3>1. RewindToConfirmed(r, ConfirmedAt(r), tip, index)
      BY <2>2
    <3> HIDE DEF index
    <3> QED BY <2>3, <3>1, RewindHead
  <2> HIDE DEF index
  <2> QED BY <1>1, <2>1, <2>4 DEF FollowsHeavier
<1>4. ~ InitAtGenesis(r)
  BY DEF InitAtGenesis
<1> QED BY <1>2, <1>3, <1>4 DEF InitFromRootBlock

\* AddRootBlock follows the root block it stores exactly when it is heavier.
LEMMA HeavierAfterRootBlock ==
    ASSUME Safe, Safe', NEW r \in RBlock, AddRootBlock(r)
    PROVE  FollowsHeavier
<1>1. /\ up /\ AcceptsRootBlock(r) /\ rdb' = rdb \cup {r} /\ SelectRootTip(r, current, rootTip)
      /\ TipOnRootChain' /\ rootTip \in RBlock
  BY DEF AddRootBlock, PutRootBlock, Safe, TypeOK
<1>2. TD[r] \in Nat /\ TD[rootTip] \in Nat
  BY <1>1, ContentAssumption
<1>3. ConfirmedAt(r) # None => SameRootChain(r, PrevRoot[ConfirmedAt(r)])
  BY <1>1, AcceptedRootBlock DEF SameRootChain
<1>4. CASE TD[r] > TD[rootTip]
  <2>1. rootTip' = r
    BY <1>1, <1>3, <1>4 DEF SelectRootTip
  <2> QED BY <1>1, <1>2, <1>4, <2>1 DEF FollowsHeavier
<1>5. CASE ~ (TD[r] > TD[rootTip])
  <2>1. rootTip' = rootTip
    BY <1>1, <1>5 DEF SelectRootTip
  <2> QED BY <1>1, <1>2, <1>5, <2>1 DEF FollowsHeavier
<1> QED BY <1>4, <1>5

\* With crashes inside handlers and pruned tries, a running shard stores no root block
\* heavier than the one it then follows, its head is on the chain of the root block it turns
\* to, and a master that connects again with a lighter one gets the head that this confirms.
THEOREM HeaviestWinsAlways ==
    ASSUME SingleGenesis
    PROVE  Spec => HeaviestWins
<1>1. Init => Safe
  BY SafeInit
<1>2. Safe /\ [Next]_vars => Safe'
  BY SafeStep
<1>3. Safe /\ Safe' /\ [Next]_vars => [FollowsHeavier]_vars
  <2> SUFFICES ASSUME Safe, Safe', Next, up, up' PROVE FollowsHeavier
    BY DEF FollowsHeavier
  <2>0. TD[rootTip] \in Nat
    BY ContentAssumption DEF Safe, TypeOK
  <2>1. ASSUME NEW b \in MBlock, AddMinorBlock(b) PROVE FollowsHeavier
    BY <2>0, <2>1 DEF AddMinorBlock, FollowsHeavier
  <2>2. ASSUME NEW r \in RBlock, AddRootBlock(r) PROVE FollowsHeavier
    BY <2>2, HeavierAfterRootBlock
  <2>3. ASSUME NEW r \in DOMAIN GenesisOf, InitGenesisState(r) PROVE FollowsHeavier
    <3>1. rdb' = rdb \cup {r} /\ rootTip' = rootTip /\ RNumber[r] = GenesisHeight
      BY <2>3 DEF InitGenesisState, PutRootBlock
    <3>2. GenesisHeight \in Nat
      BY ContentAssumption
    <3> QED BY <2>0, <3>1, <3>2 DEF FollowsHeavier
  <2>4. ASSUME NEW r \in RBlock, InitFromRootBlock(r) PROVE FollowsHeavier
    BY <2>4, HeavierAfterInit
  <2> QED BY <2>1, <2>2, <2>3, <2>4
          DEF Next, Stop, Crash, CrashInAddMinorBlock, CrashInAddRootBlock, GoDown
<1> QED BY <1>1, <1>2, <1>3, PTL DEF Spec, HeaviestWins

-----------------------------------------------------------------------------
(* An archive node whose handlers run to their end: the canonical index is *)
(* exactly the path to the head, the head extends the confirmed block, and *)
(* what the root chain confirms is never rewritten while that chain grows. *)

\* One genesis, every trie on disk, and no crash between two writes of a handler.
ArchiveNode == SingleGenesis /\ NoPruning /\ ~ TornWrites

\* The inductive invariant: every stored block has its state, so that no handler
\* fails half way, and the index in the database belongs to the head.
Exact ==
    /\ Safe
    /\ state = mdb
    /\ canonical = PathIndex(head)
    /\ up => head = current
    /\ TipExtendsConfirmed

\* A block on the path of a block on a path is on that path.
LEMMA SameMinorChainTransitive ==
    ASSUME NEW a \in MBlock, NEW b \in MBlock, NEW c \in MBlock,
           SameMinorChain(a, b), SameMinorChain(b, c)
    PROVE  SameMinorChain(a, c)
BY MinorPath DEF SameMinorChain, IsSameChain

\* A block is on its own path.
LEMMA SameMinorChainReflexive ==
    ASSUME NEW a \in MBlock
    PROVE  SameMinorChain(a, a)
BY MinorPath DEF SameMinorChain, IsSameChain

\* The parent is on the path.
LEMMA ParentOnPath ==
    ASSUME NEW b \in MBlock, MNumber[b] > 0
    PROVE  SameMinorChain(b, MParent(b)) /\ MParent(b) \in MBlock
BY MinorPath, MinorParent DEF SameMinorChain, IsSameChain

\* The block n heights below b on the path to b.
LEMMA BelowOnPath ==
    ASSUME NEW b \in MBlock, NEW n \in Nat, n <= MNumber[b]
    PROVE  SameMinorChain(b, MAnc[b][MNumber[b] - n])
<1>1. MNumber[b] \in Nat /\ MNumber[b] - n \in 0 .. MNumber[b]
  BY MinorPath
<1>2. MNumber[MAnc[b][MNumber[b] - n]] = MNumber[b] - n
  BY <1>1, MinorPath, ZenonT(40)
<1> QED BY <1>1, <1>2 DEF SameMinorChain, IsSameChain

\* What Exact adds to Safe.
LEMMA ExactFacts ==
    ASSUME Exact
    PROVE  /\ Safe /\ mdb \subseteq MBlock /\ state = mdb /\ head \in MBlock
           /\ canonical = PathIndex(head)
           /\ up => /\ current = head /\ current \in MBlock
                    /\ confirmedTip \in MBlock \cup {None}
                    /\ confirmedTip # None => SameMinorChain(current, confirmedTip)
           /\ LoadedHead = head
BY DEF Exact, Safe, TypeOK, TipExtendsConfirmed, LoadedHead

\* updateTip only takes a head that extends the confirmed block: a child of the head,
\* or a block that isMinorBlockLinkedToRootTip accepts.
LEMMA ExactAddMinorBlock ==
    ASSUME Exact, ArchiveNode, NEW b \in MBlock, AddMinorBlock(b)
    PROVE  Exact'
<1>1. Safe'
  BY ExactFacts, SafeAddMinorBlock DEF ArchiveNode
<1>2. InsertBlock(b) /\ up /\ MNumber[b] > 0 /\ UNCHANGED <<rootTip, confirmedTip, up>>
  BY ExactFacts DEF AddMinorBlock, InsertSidechain
<1>3. state' = mdb'
  BY <1>2, ExactFacts DEF InsertBlock, Collectable, Collects, ArchiveNode
<1>4. CASE UpdateTip(current, b)
  <2>1. current' = b /\ head' = b /\ canonical' = Reorg(canonical, current, b)
    BY <1>2, <1>4 DEF InsertBlock, SetTip
  <2>2. canonical' = PathIndex(b)
    BY <1>2, <2>1, ExactFacts, ReorgPath
  <2>3. confirmedTip # None => SameMinorChain(b, confirmedTip)
    <3>1. CASE MParent(b) = current
      BY <1>2, <3>1, ExactFacts, ParentOnPath, SameMinorChainTransitive
    <3>2. CASE LinkedToRootTip(b)
      BY <3>2 DEF LinkedToRootTip
    <3> QED BY <1>4, <3>1, <3>2 DEF UpdateTip
  <2>4. PathIndex(b)' = PathIndex(b)
    BY DEF PathIndex
  <2>5. (canonical = PathIndex(head))'
    BY <2>1, <2>2 DEF PathIndex
  <2>6. TipExtendsConfirmed'
    BY <1>2, <2>1, <2>3 DEF TipExtendsConfirmed, SameMinorChain
  <2> QED BY <1>1, <1>2, <1>3, <2>1, <2>5, <2>6 DEF Exact
<1>5. CASE ~ UpdateTip(current, b)
  <2>1. UNCHANGED <<canonical, head, current>>
    BY <1>2, <1>5 DEF InsertBlock
  <2> QED BY <1>1, <1>2, <1>3, <2>1 DEF Exact, TipExtendsConfirmed, SameMinorChain, PathIndex
<1> QED BY <1>4, <1>5

\* The head search of AddRootBlock ends in a block that extends what r confirms: it
\* starts there, or above it on the canonical chain, and cannot pass below it.
LEMMA RewindAboveConfirmed ==
    ASSUME Exact, ArchiveNode, NEW r \in RBlock, AcceptsRootBlock(r),
           NEW tip, RewindsTo(r, head, tip)
    PROVE  /\ tip \in mdb /\ tip \in MBlock
           /\ LastConf[r] # None => SameMinorChain(tip, LastConf[r])
<1> DEFINE c == LastConf[r]
           start == RewindStart(r, head)
<1>1. /\ ConfirmedAt(r) = c /\ c \in MBlock \cup {None}
      /\ c # None => SameRootChain(r, PrevRoot[c])
  BY ExactFacts, AcceptedRootBlock DEF SameRootChain
<1>2. head \in mdb /\ Rooted(head) /\ head \in MBlock
  BY ExactFacts, SafeStore
<1>3. tip \in mdb /\ tip \in MBlock
  BY <1>2, ExactFacts, RewindEnds DEF ArchiveNode
<1>4. ASSUME c # None PROVE SameMinorChain(tip, c)
  <2>1. c \in MBlock /\ MNumber[c] \in Nat /\ MNumber[c] \in Heights
    BY <1>1, <1>4, MinorPath, HeightsOfBlocks
  <2>2. start \in MBlock /\ MNumber[c] <= MNumber[start] /\ MAnc[start][MNumber[c]] = c
    <3>1. CASE canonical[MNumber[c]] # c
      BY <1>1, <1>4, <2>1, <3>1, MinorPath DEF RewindStart
    <3>2. CASE canonical[MNumber[c]] = c
      <4>1. start = head
        BY <1>1, <3>2 DEF RewindStart
      <4>2. PathIndex(head)[MNumber[c]] = c
        BY <3>2, ExactFacts
      <4>3. MNumber[c] <= MNumber[head] /\ MAnc[head][MNumber[c]] = c
        BY <1>4, <2>1, <4>2 DEF PathIndex
      <4> QED BY <1>2, <4>1, <4>3
    <3> QED BY <3>1, <3>2
  <2>3. PICK h \in 0 .. MNumber[start] :
           /\ tip = MAnc[start][h]
           /\ \A k \in h + 1 .. MNumber[start] : ~ SameRootChain(r, PrevRoot[MAnc[start][k]])
    BY DEF RewindsTo
  <2>4. MNumber[start] \in Nat
    BY <2>2, MinorPath
  <2>5. MNumber[c] <= h
    <3> SUFFICES ASSUME h < MNumber[c] PROVE FALSE
      BY <2>1
    <3>1. MNumber[c] \in h + 1 .. MNumber[start]
      BY <2>1, <2>2, <2>4
    <3> QED BY <1>1, <1>4, <2>2, <2>3, <3>1
  <2>6. /\ MNumber[MAnc[start][h]] = h
        /\ MAnc[MAnc[start][h]][MNumber[c]] = MAnc[start][MNumber[c]]
    BY <2>1, <2>2, <2>4, <2>5, MinorPath
  <2> QED BY <2>2, <2>3, <2>5, <2>6 DEF SameMinorChain, IsSameChain
<1> QED BY <1>3, <1>4

\* AddRootBlock moves head and index together, above what the root block confirms.
LEMMA ExactAddRootBlock ==
    ASSUME Exact, ArchiveNode, NEW r \in RBlock, AddRootBlock(r)
    PROVE  Exact'
<1>1. Safe'
  BY ExactFacts, SafeAddRootBlock DEF ArchiveNode
<1>2. up /\ up' /\ AcceptsRootBlock(r) /\ SelectRootTip(r, current, rootTip) /\ current = head
  BY ExactFacts DEF AddRootBlock
<1>3. CASE UNCHANGED <<mdb, state, canonical, head, current, rootTip, confirmedTip>>
  BY <1>1, <1>2, <1>3 DEF Exact, TipExtendsConfirmed, SameMinorChain, PathIndex
<1>4. CASE /\ rootTip' = r /\ confirmedTip' = ConfirmedAt(r)
           /\ \E tip \in MBlock : RewindsTo(r, current, tip) /\ MoveHead(current, tip)
  <2>1. PICK tip \in MBlock : RewindsTo(r, head, tip) /\ MoveHead(head, tip)
    BY <1>2, <1>4
  <2>2. tip \in mdb /\ tip \in state /\ (LastConf[r] # None => SameMinorChain(tip, LastConf[r]))
    BY <1>2, <2>1, RewindAboveConfirmed, ExactFacts
  <2>3. confirmedTip' = LastConf[r]
    BY <1>2, <1>4, ExactFacts, AcceptedRootBlock
  <2>4. current' = tip /\ head' = tip /\ mdb' = mdb /\ state' = state
        /\ canonical' = IF tip = head THEN canonical ELSE Reorg(canonical, head, tip)
    BY <2>1, <2>2 DEF MoveHead
  <2>5. canonical' = PathIndex(tip)
    BY <2>4, ExactFacts, ReorgPath
  <2>6. (canonical = PathIndex(head))'
    BY <2>4, <2>5 DEF PathIndex
  <2>7. TipExtendsConfirmed'
    BY <2>2, <2>3, <2>4 DEF TipExtendsConfirmed, SameMinorChain
  <2> QED BY <1>1, <2>4, <2>6, <2>7, ExactFacts DEF Exact
<1>5. ~ RewindsPastGenesis(r, current)
  BY <1>2, ExactFacts, SafeStore, RewindEnds DEF ArchiveNode
<1> QED BY <1>2, <1>3, <1>4, <1>5 DEF SelectRootTip

\* The end of InitFromRootBlock makes head, index and confirmed block agree.
LEMMA ExactRewind ==
    ASSUME Exact, ArchiveNode, Safe', NEW r \in RBlock, NEW cur \in MBlock,
           LastConf[r] # None => LastConf[r] \in mdb,
           RewindToConfirmed(r, LastConf[r], cur, PathIndex(cur)), mdb' = mdb
    PROVE  Exact'
<1> DEFINE c == LastConf[r]
           index == PathIndex(cur)
           target == IF c # None THEN c ELSE index[0]
<1>1. index[0] = Gen
  <2>1. 0 \in Heights /\ 0 <= MNumber[cur] /\ MAnc[cur][0] = Gen
    BY MinorPath, HeightsOfBlocks, GenesisBelow DEF ArchiveNode
  <2> QED BY <2>1 DEF PathIndex
<1>2. target \in mdb /\ target \in MBlock
  BY <1>1, ExactFacts, SafeStore
<1>3. /\ rootTip' = r /\ confirmedTip' = c /\ current' = target /\ head' = target
      /\ canonical' = Reorg(index, cur, target)
      /\ target \in state => state' = state
      /\ up' = TRUE
  BY DEF RewindToConfirmed
<1>4. state' = mdb'
  BY <1>2, <1>3, ExactFacts
<1>5. canonical' = PathIndex(target)
  <2> HIDE DEF target
  <2> QED BY <1>2, <1>3, ReorgPath
<1>6. (canonical = PathIndex(head))'
  BY <1>3, <1>5 DEF PathIndex
<1>7. c # None => SameMinorChain(target, c)
  BY <1>2, SameMinorChainReflexive
<1>8. TipExtendsConfirmed'
  BY <1>3, <1>7 DEF TipExtendsConfirmed, SameMinorChain
<1> QED BY <1>3, <1>4, <1>6, <1>8 DEF Exact

\* InitFromRootBlock, whichever way it takes.
LEMMA ExactInitFromRootBlock ==
    ASSUME Exact, ArchiveNode, NEW r \in RBlock, InitFromRootBlock(r)
    PROVE  Exact'
<1>1. CASE InitAtKnown(r) \/ InitAtUnconfirmed(r)
  <2>1. Safe'
    BY <1>1, ExactFacts, SafeInitAtStored DEF ArchiveNode
  <2>2. r \in rdb /\ RewindToConfirmed(r, lastConfirmed[r], head, canonical) /\ mdb' = mdb
    BY <1>1, ExactFacts DEF InitAtKnown, InitAtUnconfirmed
  <2>3. lastConfirmed[r] = LastConf[r] /\ (LastConf[r] # None => LastConf[r] \in mdb)
    BY <2>2, ExactFacts DEF Safe, ConfirmedRecorded, TypeOK
  <2> QED BY <2>1, <2>2, <2>3, ExactFacts, ExactRewind
<1>2. CASE InitAtNew(r)
  <2>1. Safe'
    BY <1>2, ExactFacts, SafeInitAtNew DEF ArchiveNode
  <2>2. AcceptsRootBlock(r) /\ RewindAtNew(r) /\ mdb' = mdb
    BY <1>2, ExactFacts, OneGenesis DEF InitAtNew, RewindAtNew, ArchiveNode
  <2>3. ConfirmedAt(r) = LastConf[r] /\ (LastConf[r] # None => LastConf[r] \in mdb)
    BY <2>2, ExactFacts, AcceptedRootBlock
  <2>4. PICK tip \in MBlock :
          /\ RewindsTo(r, head, tip)
          /\ ~ (tip # head /\ tip \notin state) =>
                RewindToConfirmed(r, LastConf[r], tip,
                   IF tip = head THEN canonical ELSE Reorg(canonical, head, tip))
    BY <2>2, <2>3, ExactFacts DEF RewindAtNew
  <2>5. tip \in state
    BY <2>2, <2>4, RewindAboveConfirmed, ExactFacts
  <2>6. (IF tip = head THEN canonical ELSE Reorg(canonical, head, tip)) = PathIndex(tip)
    BY ExactFacts, ReorgPath
  <2> QED BY <2>1, <2>2, <2>3, <2>4, <2>5, <2>6, ExactRewind
<1>3. CASE InitAtGenesis(r)
  <2>1. Safe'
    BY <1>3, ExactFacts, SafeInitAtGenesis DEF ArchiveNode
  <2>2. /\ mdb' = mdb \cup {GenesisOf[r]} /\ state' = state \cup {GenesisOf[r]}
        /\ up' => confirmedTip' = None /\ current' = head
        /\ UNCHANGED <<canonical, head>>
    BY <1>3 DEF InitAtGenesis
  <2>3. state' = mdb' /\ (up => head = current)' /\ TipExtendsConfirmed'
    BY <2>2, ExactFacts DEF TipExtendsConfirmed
  <2>4. (canonical = PathIndex(head))'
    BY <2>2, ExactFacts DEF PathIndex
  <2> QED BY <2>1, <2>3, <2>4 DEF Exact
<1> QED BY <1>1, <1>2, <1>3 DEF InitFromRootBlock

\* The created shard.
LEMMA ExactInit ==
    ASSUME Init, ArchiveNode
    PROVE  Exact
<1>1. Safe
  BY SafeInit DEF ArchiveNode
<1>2. state = mdb /\ canonical = PathIndex(head) /\ head = current /\ confirmedTip = None
  BY DEF Init
<1> QED BY <1>1, <1>2 DEF Exact, TipExtendsConfirmed

\* Every handler, stop, crash between handlers and restart keeps Exact.
LEMMA ExactStep ==
    ASSUME Exact, ArchiveNode, [Next]_vars
    PROVE  Exact'
<1>0. Safe'
  BY ExactFacts, SafeStep DEF ArchiveNode
<1>1. ASSUME NEW b \in MBlock, AddMinorBlock(b) PROVE Exact'
  BY <1>1, ExactAddMinorBlock
<1>2. ASSUME NEW r \in RBlock, AddRootBlock(r) PROVE Exact'
  BY <1>2, ExactAddRootBlock
<1>3. ASSUME NEW r \in RBlock, InitFromRootBlock(r) PROVE Exact'
  BY <1>3, ExactInitFromRootBlock
<1>4. ASSUME NEW r \in DOMAIN GenesisOf, InitGenesisState(r) PROVE Exact'
  <2>1. /\ mdb' = mdb \cup {GenesisOf[r]} /\ state' = state \cup {GenesisOf[r]}
        /\ UNCHANGED <<canonical, head, current, rootTip, confirmedTip, up>>
    BY <1>4 DEF InitGenesisState
  <2> QED BY <1>0, <2>1 DEF Exact, TipExtendsConfirmed, SameMinorChain, PathIndex
<1>5. CASE Stop \/ Crash
  <2>1. up' = FALSE /\ state' = state /\ UNCHANGED <<mdb, canonical, head>>
    BY <1>5 DEF Stop, Crash, GoDown, KeepTries, ArchiveNode
  <2> QED BY <1>0, <2>1 DEF Exact, TipExtendsConfirmed, PathIndex
<1>6. CASE UNCHANGED vars
  BY <1>0, <1>6 DEF vars, Exact, TipExtendsConfirmed, SameMinorChain, PathIndex
<1> QED BY <1>1, <1>2, <1>3, <1>4, <1>5, <1>6
        DEF Next, ArchiveNode, CrashInAddMinorBlock, CrashInAddRootBlock, CollectPanics, Collects

\* On an archive node GetBlockByNumber is the canonical chain at every moment and the
\* head extends the last confirmed block, whatever blocks and restarts come.
THEOREM CanonicalAlways ==
    ASSUME ArchiveNode
    PROVE  Spec => []ServesHeadChain
<1>1. Init => Exact
  BY ExactInit
<1>2. Exact /\ [Next]_vars => Exact'
  BY ExactStep
<1>3. Exact => ServesHeadChain
  BY DEF Exact, CanonicalIsHeadChain, ServesHeadChain
<1> QED BY <1>1, <1>2, <1>3, PTL DEF Spec

-----------------------------------------------------------------------------
\* Along a root chain the confirmed block only moves up one minor path.
LEMMA ConfirmedGrows ==
    ASSUME NEW r \in RBlock, NEW q \in RBlock, IsSameChain(RNumber, RAnc, r, q),
           LastConf[q] # None
    PROVE  LastConf[r] # None /\ SameMinorChain(LastConf[r], LastConf[q])
<1> DEFINE P(h) == LET x == LastConf[RAnc[r][h]] IN x # None /\ SameMinorChain(x, LastConf[q])
           T == {h \in RNumber[q] .. RNumber[r] : ~ P(h)}
<1>1. /\ RNumber[r] \in Nat /\ RNumber[q] \in Nat /\ RNumber[q] <= RNumber[r]
      /\ RAnc[r][RNumber[q]] = q /\ RAnc[r][RNumber[r]] = r
  BY RootPath DEF IsSameChain
<1>2. LastConf[q] \in MBlock /\ RNumber[q] > GenesisHeight /\ GenesisHeight \in Nat
  BY ContentAssumption, RootBlockAssumption, <1>1
<1>3. ASSUME T # {} PROVE FALSE
  <2>1. T \subseteq Nat
    BY <1>1
  <2>2. PICK m \in T : \A y \in T : m <= y
    <3> HIDE DEF T
    <3> QED BY <1>3, <2>1, LeastNatural
  <2>3. m \in RNumber[q] .. RNumber[r] /\ ~ P(m)
    BY <2>2
  <2>4. P(RNumber[q])
    BY <1>1, <1>2, SameMinorChainReflexive
  <2>5. m - 1 \in RNumber[q] .. RNumber[r] /\ m \in Nat
    <3>1. m # RNumber[q]
      BY <2>3, <2>4
    <3> HIDE DEF P
    <3> QED BY <1>1, <2>3, <3>1
  <2>6. P(m - 1)
    <3>1. m - 1 \notin T
      BY <2>2, <2>5
    <3> QED BY <2>5, <3>1
  <2> DEFINE x == RAnc[r][m]
             p == RAnc[r][m - 1]
             hs == Headers[x]
             last == hs[Len(hs)]
  <2>7. x \in RBlock /\ RNumber[x] = m /\ RParent(x) = p /\ p \in RBlock
    <3>1. m \in 0 .. RNumber[r] /\ m - 1 \in 0 .. m /\ m - 1 \in 0 .. RNumber[r]
      <4> HIDE DEF P
      <4> QED BY <1>1, <2>3, <2>5
    <3>2. x \in RBlock /\ RNumber[x] = m /\ p \in RBlock /\ RAnc[x][m - 1] = p
      BY <3>1, RootPath
    <3> QED BY <3>2 DEF RParent, ParentOf
  <2>8. /\ RNumber[x] > GenesisHeight /\ LastConf[p] # None /\ LastConf[p] \in MBlock
        /\ SameMinorChain(LastConf[p], LastConf[q])
    <3>1. RNumber[x] > GenesisHeight
      <4> HIDE DEF P, x
      <4> QED BY <1>1, <1>2, <2>5, <2>7
    <3>2. LastConf[p] # None /\ SameMinorChain(LastConf[p], LastConf[q])
      BY <2>6
    <3>3. LastConf[p] \in MBlock \cup {None}
      BY <2>7, ContentAssumption
    <3> QED BY <3>1, <3>2, <3>3
  <2>9. CASE hs = <<>>
    <3>1. LastConf[x] = LastConf[p]
      BY <2>7, <2>8, <2>9, RootBlockContent
    <3> QED BY <2>3, <2>8, <3>1
  <2>10. CASE hs # <<>>
    <3>1. hs \in Seq(MBlock) /\ Len(hs) \in Nat /\ Len(hs) >= 1
      <4>1. hs \in Seq(MBlock)
        BY <2>7, ContentAssumption
      <4> HIDE DEF hs
      <4> QED BY <2>10, <4>1
    <3>2. hs[1] \in MBlock /\ last \in MBlock /\ MNumber[last] \in Nat /\ MNumber[hs[1]] \in Nat
      <4>1. hs[1] \in MBlock /\ last \in MBlock
        <5> HIDE DEF hs
        <5> QED BY <3>1
      <4> HIDE DEF hs, last
      <4> QED BY <4>1, MinorPath
    <3>3. LastConf[x] = last
      BY <2>7, <2>8, <2>10, RootBlockContent
    <3>4. MNumber[hs[1]] > 0 /\ LastConf[p] = MParent(hs[1])
      <4>1. /\ MNumber[hs[1]] = 0 => LastConf[p] = None
            /\ MNumber[hs[1]] > 0 => LastConf[p] = MParent(hs[1])
        BY <2>7, <2>10, RootBlockContent
      <4>2. MNumber[hs[1]] = 0 \/ MNumber[hs[1]] > 0
        <5> HIDE DEF hs
        <5> QED BY <3>2
      <4> HIDE DEF hs, p
      <4> QED BY <2>8, <4>1, <4>2
    <3>5. /\ Len(hs) - 1 <= MNumber[last]
          /\ hs[1] = MAnc[last][MNumber[last] - (Len(hs) - 1)]
      <4>1. 1 \in 1 .. Len(hs)
        BY <3>1
      <4>2. \A i \in 1 .. Len(hs) : /\ Len(hs) - i <= MNumber[last]
                                    /\ hs[i] = MAnc[last][MNumber[last] - (Len(hs) - i)]
        BY <2>7, RootBlockAssumption, Zenon
      <4> HIDE DEF hs, last
      <4> QED BY <4>1, <4>2
    <3>6. SameMinorChain(last, hs[1])
      <4> HIDE DEF hs
      <4>1. Len(hs) - 1 \in Nat
        BY <3>1
      <4> QED BY <3>2, <3>5, <4>1, BelowOnPath
    <3>7. SameMinorChain(last, LastConf[p])
      <4>1. SameMinorChain(hs[1], LastConf[p])
        BY <3>2, <3>4, ParentOnPath
      <4> HIDE DEF hs, last, p
      <4> QED BY <2>8, <3>2, <3>6, <4>1, SameMinorChainTransitive
    <3>8. SameMinorChain(last, LastConf[q])
      BY <1>2, <2>8, <3>2, <3>7, SameMinorChainTransitive
    <3>9. last # None
      BY <3>2, TreeAssumption
    <3> QED BY <2>3, <3>3, <3>8, <3>9
  <2> QED BY <2>9, <2>10
<1>4. P(RNumber[r])
  BY <1>1, <1>3
<1> QED BY <1>1, <1>4

\* Two indexes of paths through c agree up to the height of c.
LEMMA PathIndexAgrees ==
    ASSUME NEW a \in MBlock, NEW b \in MBlock, NEW c \in MBlock,
           SameMinorChain(a, c), SameMinorChain(b, c), NEW n \in Heights, n <= MNumber[c]
    PROVE  PathIndex(a)[n] = PathIndex(b)[n]
<1>1. n \in Nat /\ MNumber[c] \in Nat /\ MNumber[a] \in Nat /\ MNumber[b] \in Nat
  BY HeightsOfBlocks, MinorPath
<1>2. /\ MNumber[c] <= MNumber[a] /\ MAnc[a][MNumber[c]] = c
      /\ MNumber[c] <= MNumber[b] /\ MAnc[b][MNumber[c]] = c
  BY DEF SameMinorChain, IsSameChain
<1>3. MAnc[c][n] = MAnc[a][n] /\ MAnc[c][n] = MAnc[b][n]
  BY <1>1, <1>2, MinorPath
<1>4. n <= MNumber[a] /\ n <= MNumber[b]
  BY <1>1, <1>2
<1>5. PathIndex(a)[n] = MAnc[a][n] /\ PathIndex(b)[n] = MAnc[b][n]
  BY <1>4 DEF PathIndex
<1> QED BY <1>3, <1>5

\* The blocks a root chain confirms stay canonical while this chain only grows: no minor
\* fork, no root block on top and no repeated InitFromRootBlock rewrites them.
THEOREM ConfirmedFinalAlways ==
    ASSUME ArchiveNode
    PROVE  Spec => ConfirmedIsFinal
<1> DEFINE A == up /\ up' /\ confirmedTip # None /\ IsSameChain(RNumber, RAnc, rootTip', rootTip)
                  => \A n \in Heights : n <= MNumber[confirmedTip] => canonical'[n] = canonical[n]
<1>1. Init => Exact
  BY ExactInit
<1>2. Exact /\ [Next]_vars => Exact'
  BY ExactStep
<1>3. Exact /\ Exact' => A
  <2> SUFFICES ASSUME Exact, Exact', up, up', confirmedTip # None,
                      IsSameChain(RNumber, RAnc, rootTip', rootTip),
                      NEW n \in Heights, n <= MNumber[confirmedTip]
               PROVE  canonical'[n] = canonical[n]
    BY DEF A
  <2>1. /\ rootTip \in RBlock /\ confirmedTip = LastConf[rootTip] /\ confirmedTip \in MBlock
        /\ current \in MBlock /\ SameMinorChain(current, confirmedTip)
        /\ canonical = PathIndex(current)
    BY DEF Exact, Safe, TypeOK, ConfirmedTipRecorded, TipExtendsConfirmed
  <2>2. /\ rootTip' \in RBlock /\ confirmedTip' = LastConf[rootTip']
        /\ confirmedTip' \in MBlock \cup {None} /\ current' \in MBlock
        /\ confirmedTip' # None => SameMinorChain(current', confirmedTip')
    BY DEF Exact, Safe, TypeOK, ConfirmedTipRecorded, TipExtendsConfirmed, SameMinorChain
  <2>3. canonical' = PathIndex(current')
    BY DEF Exact, PathIndex
  <2>4. confirmedTip' # None /\ SameMinorChain(confirmedTip', confirmedTip)
    BY <2>1, <2>2, ConfirmedGrows
  <2>5. SameMinorChain(current', confirmedTip)
    BY <2>1, <2>2, <2>4, SameMinorChainTransitive
  <2> QED BY <2>1, <2>2, <2>3, <2>5, PathIndexAgrees
<1>4. Exact /\ Exact' => [A]_vars
  BY <1>3
<1>5. Spec => []Exact
  BY <1>1, <1>2, PTL DEF Spec
<1>6. Spec => [][A]_vars
  BY <1>1, <1>2, <1>4, PTL DEF Spec
<1> QED BY <1>6 DEF ConfirmedIsFinal

=============================================================================
