--------------------------- MODULE RootChainProofs ---------------------------
(***************************************************************************)
(* What every stored root block confirms, for every tree of root blocks,   *)
(* every content of them and any number of crashes.                        *)
(*                                                                         *)
(* The inductive invariant BaseInv has two parts besides the types.  JobOK *)
(* is about the insertion in progress: which block it is about and which   *)
(* height of the new head's path it has reached.  StoredOK says of every   *)
(* stored block what the validation of the next one rests on: the latest   *)
(* headers that were written with the block are the last ones of the       *)
(* chains it confirms.                                                     *)
(***************************************************************************)
EXTENDS RootChain, TLAPS, FiniteSetTheorems, WellFoundedInduction

\* A leaf is tried with Zenon, then with the SMT solver; the limits are in seconds.
USE ZenonT(8), SMTT(30)

-----------------------------------------------------------------------------
\* The insertion has decided that its block becomes the head.
Inserting == job.st \in {"index", "stats", "head", "lookup", "clean"}

\* In a reorg the head is written before the lookup entries, else after them.
HeadWritten == job.st = "clean" \/ (job.st = "lookup" /\ ~Extends)

\* Stored blocks have their paths stored, the database has a head, and the block of an
\* insertion has its parent and the former head in the database.
JobOK ==
    /\ Genesis \in rdb /\ head \in rdb /\ (Up => current \in rdb)
    /\ \A r \in rdb : \A h \in 0 .. RNumber[r] : RAnc[r][h] \in rdb
    /\ job.st = "idle" => job = NoJob
    /\ job.st # "idle" =>
          /\ Up /\ job.block \in RBlock /\ RNumber[job.block] >= 1
          /\ job.old \in rdb /\ ParentBlock(job.block) \in rdb
    /\ job.st = "write" => job.old = current /\ job.block \notin rdb
    /\ Inserting =>
          /\ job.block \in rdb /\ job.next \in 1 .. RNumber[job.block]
          /\ Extends => job.next = RNumber[job.block] /\ job.st # "clean"
          /\ job.st = "clean" => job.next = RNumber[job.block]
    /\ HeadWritten => current = Inserted

\* The headers of a shard that the chain up to r confirms are one chain from height 0 on,
\* and none is there twice.
ChainConfirmed(r) ==
    /\ \A s \in Shard : \A m \in Confirmed(r, s) :
          /\ MNumber[m] = 0 \/ (ParentHeader[m] \in Confirmed(r, s) /\
                                MNumber[ParentHeader[m]] + 1 = MNumber[m])
          /\ \A n \in Confirmed(r, s) : MNumber[n] = MNumber[m] => n = m
    /\ \A h, k \in 0 .. RNumber[r] :
          \A i \in 1 .. Len(Headers[RAnc[r][h]]), j \in 1 .. Len(Headers[RAnc[r][k]]) :
             Headers[RAnc[r][h]][i] = Headers[RAnc[r][k]][j] => h = k /\ i = j

\* lm holds the last header of each shard that the chain up to r confirms.
LatestOf(r, lm) ==
    \A s \in Shard :
        IF lm[s] = None THEN Confirmed(r, s) = {}
        ELSE /\ lm[s] \in Confirmed(r, s)
             /\ \A m \in Confirmed(r, s) : MNumber[m] <= MNumber[lm[s]]

\* Only shards that are created below r have headers confirmed up to r.
ShardsCreated(r) == \A s \in Shard : Confirmed(r, s) # {} => s \in Initialized(RNumber[r])

BlockOK(r, lm) == ChainConfirmed(r) /\ LatestOf(r, lm) /\ ShardsCreated(r)

StoredOK ==
    /\ \A r \in rdb : BlockOK(r, latest[r])
    /\ job.st = "write" => BlockOK(job.block, latest[job.block])

BaseInv == TypeOK /\ JobOK /\ StoredOK

-----------------------------------------------------------------------------
(* Lemmas about paths and contents. *)

\* Every nonempty set of naturals has a least element: what replaces induction in the
\* argument about the headers of a shard in one root block.
LEMMA LeastNatural ==
    ASSUME NEW T, T \subseteq Nat, T # {}
    PROVE  \E x \in T : \A y \in T : x <= y
<1> DEFINE R == {p \in Nat \X Nat : p[1] < p[2]}
<1>1. IsWellFoundedOn(R, Nat)
  BY NatLessThanWellFounded, Zenon DEF OpToRel
<1>2. PICK x \in T : \A y \in T : ~ (<<y, x>> \in R)
  <2> HIDE DEF R
  <2> QED BY <1>1, WFMin
<1>3. \A y \in T : ~ (y < x)
  BY <1>2
<1> QED BY <1>3

\* A nonempty set of naturals below a bound has a greatest element.
LEMMA GreatestNatural ==
    ASSUME NEW n \in Nat, NEW T, T \subseteq 1 .. n, T # {}
    PROVE  \E x \in T : \A y \in T : y <= x
<1> DEFINE D == {n - y : y \in T}
<1>0. PICK z : z \in T
  OBVIOUS
<1>1. D \subseteq Nat /\ n - z \in D
  BY <1>0
<1>2. PICK d \in D : \A e \in D : d <= e
  <2> HIDE DEF D
  <2> QED BY <1>1, LeastNatural, Zenon
<1>3. PICK x \in T : d = n - x
  OBVIOUS
<1>4. \A y \in T : n - x <= n - y
  BY <1>2, <1>3
<1> QED BY <1>4

\* The path of a root block (ParentHash followed down to the genesis).
LEMMA RootPath ==
    ASSUME NEW r \in RBlock
    PROVE  /\ RNumber[r] \in Nat
           /\ RAnc[r][RNumber[r]] = r /\ RAnc[r][0] = Genesis
           /\ \A h \in 0 .. RNumber[r] :
                 /\ RAnc[r][h] \in RBlock
                 /\ RNumber[RAnc[r][h]] = h
                 /\ \A k \in 0 .. h : RAnc[RAnc[r][h]][k] = RAnc[r][k]
BY TreeAssumption DEF IsBlockTree

\* The path of a block is that of its parent and the block.
LEMMA ParentPath ==
    ASSUME NEW r \in RBlock, RNumber[r] >= 1
    PROVE  /\ ParentBlock(r) \in RBlock
           /\ RNumber[ParentBlock(r)] = RNumber[r] - 1
           /\ \A h \in 0 .. RNumber[r] - 1 : RAnc[r][h] = RAnc[ParentBlock(r)][h]
<1>1. RNumber[r] \in Nat /\ RNumber[r] - 1 \in 0 .. RNumber[r]
  BY RootPath
<1>2. ParentBlock(r) = RAnc[r][RNumber[r] - 1]
  BY DEF ParentBlock, ParentOf
<1> QED BY <1>1, <1>2, RootPath

\* The contents of root blocks.
LEMMA ContentType ==
    ASSUME NEW r \in RBlock
    PROVE  /\ Headers[r] \in Seq(MHeader) /\ Len(Headers[r]) \in Nat
           /\ \A i \in 1 .. Len(Headers[r]) : Headers[r][i] \in MHeader
           /\ Content(r) \subseteq MHeader
BY ContentAssumption DEF Content

\* What the chain up to a block confirms is what the chain up to its parent confirms and
\* what the block holds.
LEMMA ConfirmedStep ==
    ASSUME NEW r \in RBlock, RNumber[r] >= 1, NEW s \in Shard
    PROVE  Confirmed(r, s) = Confirmed(ParentBlock(r), s) \cup {m \in Content(r) : ShardOf[m] = s}
<1> DEFINE p == ParentBlock(r)
<1>1. /\ p \in RBlock /\ RNumber[p] = RNumber[r] - 1 /\ RNumber[r] \in Nat
      /\ \A h \in 0 .. RNumber[p] : RAnc[r][h] = RAnc[p][h]
      /\ RAnc[r][RNumber[r]] = r
  BY ParentPath, RootPath
<1>2. ASSUME NEW m \in MHeader
      PROVE  (\E h \in 0 .. RNumber[r] : m \in Content(RAnc[r][h]))
             <=> (\E h \in 0 .. RNumber[p] : m \in Content(RAnc[p][h])) \/ m \in Content(r)
  <2> HIDE DEF p
  <2>1. \A h \in 0 .. RNumber[r] : h = RNumber[r] \/ h \in 0 .. RNumber[p]
    BY <1>1
  <2>2. RNumber[r] \in 0 .. RNumber[r] /\ \A h \in 0 .. RNumber[p] : h \in 0 .. RNumber[r]
    BY <1>1
  <2> QED BY <1>1, <2>1, <2>2
<1>3. Content(r) \subseteq MHeader
  BY ContentType
<1> QED BY <1>2, <1>3 DEF Confirmed

\* The genesis confirms nothing.
LEMMA ConfirmedGenesis ==
    ASSUME NEW s \in Shard
    PROVE  Confirmed(Genesis, s) = {}
<1>1. RNumber[Genesis] = 0 /\ RAnc[Genesis][0] = Genesis /\ Genesis \in RBlock
  BY TreeAssumption
<1>2. Content(Genesis) = {}
  BY ContentAssumption DEF Content
<1> QED BY <1>1, <1>2 DEF Confirmed

-----------------------------------------------------------------------------
(* What validation gives: Valid(r) carries BlockOK from the parent to r. *)

\* The headers of a shard in a valid block stand next to each other, in the order of
\* their heights, each on top of the one before it; the first one continues what the
\* chain up to the parent confirms.
LEMMA ShardRun ==
    ASSUME NEW r \in RBlock, Valid(r), NEW s \in Shard, NEW f \in PlacesOf(r, s),
           \A i \in PlacesOf(r, s) : f <= i
    PROVE  /\ Continues(r, Headers[r][f])
           /\ \A j \in PlacesOf(r, s) :
                 /\ MNumber[Headers[r][j]] = MNumber[Headers[r][f]] + (j - f)
                 /\ j > f => /\ j - 1 \in PlacesOf(r, s)
                            /\ ParentHeader[Headers[r][j]] = Headers[r][j - 1]
                            /\ MNumber[Headers[r][j]] = MNumber[Headers[r][j - 1]] + 1
<1> DEFINE hs == Headers[r]
           n == Len(Headers[r])
<1>1. n \in Nat /\ \A i \in 1 .. n : hs[i] \in MHeader /\ ShardOf[hs[i]] \in Nat /\ MNumber[hs[i]] \in Nat
  BY ContentType, ContentAssumption
<1>2. \A i, j \in 1 .. n : i < j => ShardOf[hs[i]] <= ShardOf[hs[j]]
  BY DEF Valid
<1>3. \A i \in 1 .. n : IF i > 1 /\ ShardOf[hs[i]] = ShardOf[hs[i - 1]]
                        THEN Follows(hs[i], hs[i - 1]) ELSE Continues(r, hs[i])
  BY DEF Valid
<1>4. \A i : i \in PlacesOf(r, s) <=> i \in 1 .. n /\ ShardOf[hs[i]] = s
  BY DEF PlacesOf
<1> HIDE DEF hs, n
<1>5. Continues(r, hs[f])
  <2>1. f \in 1 .. n /\ ShardOf[hs[f]] = s
    BY <1>4
  <2>2. ~ (f > 1 /\ ShardOf[hs[f]] = ShardOf[hs[f - 1]])
    <3> SUFFICES ASSUME f > 1, ShardOf[hs[f]] = ShardOf[hs[f - 1]] PROVE FALSE
      OBVIOUS
    <3>0. f - 1 \in 1 .. n /\ ShardOf[hs[f - 1]] = s
      BY <1>1, <2>1
    <3>1. f - 1 \in PlacesOf(r, s)
      BY <1>4, <3>0
    <3> QED BY <3>1, <2>1, <1>1
  <2> QED BY <1>3, <2>1, <2>2
<1>6. ASSUME NEW j \in PlacesOf(r, s), j > f
      PROVE  j - 1 \in PlacesOf(r, s) /\ Follows(hs[j], hs[j - 1])
  <2>1. /\ f \in 1 .. n /\ ShardOf[hs[f]] = s /\ j \in 1 .. n /\ ShardOf[hs[j]] = s
        /\ j - 1 \in 1 .. n /\ j > 1
    BY <1>1, <1>4, <1>6
  <2>2. ShardOf[hs[j - 1]] <= s
    BY <1>1, <1>2, <2>1
  <2>3. s <= ShardOf[hs[j - 1]]
    <3>1. CASE f = j - 1
      BY <2>1, <3>1, <1>1
    <3>2. CASE f < j - 1
      BY <1>2, <2>1, <3>2
    <3> QED BY <3>1, <3>2, <1>6, <2>1, <1>1
  <2>4. ShardOf[hs[j - 1]] = s
    BY <2>1, <2>2, <2>3, <1>1
  <2> QED BY <2>1, <2>4, <1>3, <1>4
<1>7. ASSUME NEW j \in PlacesOf(r, s) PROVE MNumber[hs[j]] = MNumber[hs[f]] + (j - f)
  <2> DEFINE Bad == {k \in PlacesOf(r, s) : MNumber[hs[k]] # MNumber[hs[f]] + (k - f)}
  <2>1. SUFFICES Bad = {}
    OBVIOUS
  <2>2. SUFFICES ASSUME Bad # {} PROVE FALSE
    OBVIOUS
  <2>3. Bad \subseteq Nat
    BY <1>4, <1>1
  <2>4. PICK k \in Bad : \A l \in Bad : k <= l
    <3> HIDE DEF Bad
    <3> QED BY <2>2, <2>3, LeastNatural
  <2>5. k \in 1 .. n /\ f \in 1 .. n /\ k # f
    BY <1>4, <1>1
  <2>6. k > f
    BY <2>5, <1>1
  <2>7. k - 1 \in PlacesOf(r, s) /\ MNumber[hs[k]] = MNumber[hs[k - 1]] + 1
    BY <2>6, <1>6 DEF Follows
  <2>8. k - 1 \notin Bad
    BY <2>4, <2>5, <1>1
  <2>9. MNumber[hs[k - 1]] = MNumber[hs[f]] + (k - 1 - f)
    BY <2>7, <2>8
  <2>10. MNumber[hs[f]] \in Nat
    BY <2>5, <1>1
  <2> QED BY <2>5, <2>7, <2>9, <2>10, <1>1
<1> QED BY <1>5, <1>6, <1>7 DEF Follows, hs

\* ValidateBlock: if the chain up to the parent is as it should be, so is the chain up to
\* the block, with the latest headers that the validation writes.
LEMMA ValidExtends ==
    ASSUME NEW r \in RBlock, Valid(r), latest \in [RBlock -> [Shard -> MHeader \cup {None}]],
           BlockOK(ParentBlock(r), latest[ParentBlock(r)])
    PROVE  BlockOK(r, LatestAfter(r)) /\ LatestAfter(r) \in [Shard -> MHeader \cup {None}]
<1> DEFINE p == ParentBlock(r)
           hs == Headers[r]
           n == Len(Headers[r])
<1>1. RNumber[r] \in Nat /\ RNumber[r] >= 1
  BY RootPath DEF Valid
<1>2. /\ p \in RBlock /\ RNumber[p] = RNumber[r] - 1 /\ RAnc[r][RNumber[r]] = r
      /\ \A h \in 0 .. RNumber[p] : RAnc[r][h] = RAnc[p][h] /\ RAnc[r][h] \in RBlock
  BY <1>1, ParentPath, RootPath
<1>3. /\ n \in Nat /\ \A i \in 1 .. n : hs[i] \in MHeader
      /\ \A m \in MHeader : ShardOf[m] \in Shard /\ MNumber[m] \in Nat /\ m # None
  BY ContentType, ContentAssumption, TreeAssumption
<1>4. ASSUME NEW s \in Shard
      PROVE  /\ \A m : m \in Confirmed(r, s) <=>
                    m \in Confirmed(p, s) \/ \E i \in PlacesOf(r, s) : m = hs[i]
             /\ Confirmed(p, s) \subseteq MHeader
  <2>1. Confirmed(r, s) = Confirmed(p, s) \cup {m \in Content(r) : ShardOf[m] = s}
    BY <1>1, ConfirmedStep
  <2>2. \A m : m \in {q \in Content(r) : ShardOf[q] = s} <=> \E i \in PlacesOf(r, s) : m = hs[i]
    BY DEF Content, PlacesOf
  <2>3. Confirmed(p, s) \subseteq MHeader
    BY DEF Confirmed
  <2> QED BY <2>1, <2>2, <2>3
<1>6. \A s \in Shard : PlacesOf(r, s) \subseteq 1 .. n /\ \A i \in PlacesOf(r, s) : ShardOf[hs[i]] = s
  BY DEF PlacesOf
<1>7. \A s \in Shard : latest[p][s] \in MHeader \cup {None}
  BY <1>2
\* The headers of a shard in r, where there are any, are above what p confirms.
<1>8. ASSUME NEW s \in Shard, PlacesOf(r, s) # {}
      PROVE  \E f \in PlacesOf(r, s) :
                /\ \A i \in PlacesOf(r, s) : f <= i
                /\ \A m \in Confirmed(p, s) : MNumber[m] < MNumber[hs[f]]
                /\ \/ MNumber[hs[f]] = 0
                   \/ /\ ParentHeader[hs[f]] \in Confirmed(p, s)
                      /\ MNumber[ParentHeader[hs[f]]] + 1 = MNumber[hs[f]]
                /\ \A j \in PlacesOf(r, s) :
                      /\ MNumber[hs[j]] = MNumber[hs[f]] + (j - f)
                      /\ j > f => /\ j - 1 \in PlacesOf(r, s)
                                 /\ ParentHeader[hs[j]] = hs[j - 1]
                                 /\ MNumber[hs[j]] = MNumber[hs[j - 1]] + 1
  <2>1. PlacesOf(r, s) \subseteq Nat
    BY <1>3, <1>6
  <2>2. PICK f \in PlacesOf(r, s) : \A i \in PlacesOf(r, s) : f <= i
    BY <2>1, <1>8, LeastNatural
  <2>3. /\ Continues(r, hs[f])
        /\ \A j \in PlacesOf(r, s) :
              /\ MNumber[hs[j]] = MNumber[hs[f]] + (j - f)
              /\ j > f => /\ j - 1 \in PlacesOf(r, s)
                         /\ ParentHeader[hs[j]] = hs[j - 1]
                         /\ MNumber[hs[j]] = MNumber[hs[j - 1]] + 1
    BY <2>2, ShardRun
  <2>4. /\ \A m \in Confirmed(p, s) : MNumber[m] < MNumber[hs[f]]
        /\ \/ MNumber[hs[f]] = 0
           \/ /\ ParentHeader[hs[f]] \in Confirmed(p, s)
              /\ MNumber[ParentHeader[hs[f]]] + 1 = MNumber[hs[f]]
    <3>1. ShardOf[hs[f]] = s
      BY <1>6
    <3>2. CASE latest[p][s] = None
      <4>1. Confirmed(p, s) = {}
        BY <3>2 DEF BlockOK, LatestOf
      <4>2. MNumber[hs[f]] = 0
        BY <2>3, <3>1, <3>2 DEF Continues
      <4> QED BY <4>1, <4>2
    <3>3. CASE latest[p][s] # None
      <4>1. /\ latest[p][s] \in Confirmed(p, s)
            /\ \A m \in Confirmed(p, s) : MNumber[m] <= MNumber[latest[p][s]]
        BY <3>3 DEF BlockOK, LatestOf
      <4>2. MNumber[hs[f]] = MNumber[latest[p][s]] + 1 /\ ParentHeader[hs[f]] = latest[p][s]
        BY <2>3, <3>1, <3>3 DEF Continues
      <4>3. \A m \in Confirmed(p, s) : MNumber[m] \in Nat
        BY <1>3, <1>4
      <4> QED BY <4>1, <4>2, <4>3
    <3> QED BY <3>2, <3>3
  <2> QED BY <2>2, <2>3, <2>4
<1> HIDE DEF p, hs, n
<1>9. ASSUME NEW s \in Shard, NEW i \in PlacesOf(r, s), NEW j \in PlacesOf(r, s)
      PROVE  /\ MNumber[hs[i]] = MNumber[hs[j]] <=> i = j
             /\ MNumber[hs[i]] <= MNumber[hs[j]] <=> i <= j
             /\ \A m \in Confirmed(p, s) : MNumber[m] < MNumber[hs[i]]
  <2>1. PICK f \in PlacesOf(r, s) :
          /\ \A k \in PlacesOf(r, s) : f <= k
          /\ \A m \in Confirmed(p, s) : MNumber[m] < MNumber[hs[f]]
          /\ \A k \in PlacesOf(r, s) : MNumber[hs[k]] = MNumber[hs[f]] + (k - f)
    BY <1>8
  <2>2. f \in 1 .. n /\ i \in 1 .. n /\ j \in 1 .. n /\ hs[f] \in MHeader
    BY <1>3, <1>6
  <2>3. MNumber[hs[f]] \in Nat /\ \A m \in Confirmed(p, s) : MNumber[m] \in Nat
    BY <2>2, <1>3, <1>4
  <2>4. /\ MNumber[hs[i]] = MNumber[hs[f]] + (i - f) /\ f <= i
        /\ MNumber[hs[j]] = MNumber[hs[f]] + (j - f)
    BY <2>1
  <2> QED BY <2>1, <2>2, <2>3, <2>4, <1>3
<1>10. ASSUME NEW s \in Shard, NEW m \in Confirmed(r, s)
       PROVE  /\ MNumber[m] = 0 \/ (ParentHeader[m] \in Confirmed(r, s) /\
                                     MNumber[ParentHeader[m]] + 1 = MNumber[m])
              /\ \A q \in Confirmed(r, s) : MNumber[q] = MNumber[m] => q = m
  <2>1. ChainConfirmed(p)
    BY DEF BlockOK, p
  <2>2. CASE m \in Confirmed(p, s)
    <3>1. MNumber[m] = 0 \/ (ParentHeader[m] \in Confirmed(r, s) /\ MNumber[ParentHeader[m]] + 1 = MNumber[m])
      BY <2>1, <2>2, <1>4 DEF ChainConfirmed
    <3>2. ASSUME NEW q \in Confirmed(r, s), MNumber[q] = MNumber[m] PROVE q = m
      <4>1. CASE q \in Confirmed(p, s)
        BY <2>1, <2>2, <4>1, <3>2 DEF ChainConfirmed
      <4>2. CASE \E i \in PlacesOf(r, s) : q = hs[i]
        <5>1. PICK i \in PlacesOf(r, s) : q = hs[i]
          BY <4>2
        <5>2. MNumber[m] < MNumber[q]
          BY <5>1, <1>9, <2>2
        <5>3. MNumber[m] \in Nat
          BY <2>2, <1>3, <1>4
        <5> QED BY <5>2, <5>3, <3>2
      <4> QED BY <4>1, <4>2, <1>4
    <3> QED BY <3>1, <3>2
  <2>3. CASE \E i \in PlacesOf(r, s) : m = hs[i]
    <3>1. PICK i \in PlacesOf(r, s) : m = hs[i]
      BY <2>3
    <3>2. MNumber[m] = 0 \/ (ParentHeader[m] \in Confirmed(r, s) /\ MNumber[ParentHeader[m]] + 1 = MNumber[m])
      <4>1. PICK f \in PlacesOf(r, s) :
              /\ \A k \in PlacesOf(r, s) : f <= k
              /\ \/ MNumber[hs[f]] = 0
                 \/ /\ ParentHeader[hs[f]] \in Confirmed(p, s)
                    /\ MNumber[ParentHeader[hs[f]]] + 1 = MNumber[hs[f]]
              /\ \A j \in PlacesOf(r, s) :
                    j > f => /\ j - 1 \in PlacesOf(r, s)
                             /\ ParentHeader[hs[j]] = hs[j - 1]
                             /\ MNumber[hs[j]] = MNumber[hs[j - 1]] + 1
        BY <1>8
      <4>2. CASE i = f
        BY <3>1, <4>1, <4>2, <1>4
      <4>3. CASE i # f
        <5>0. f \in Int /\ i \in Int /\ f <= i
          BY <4>1, <1>6
        <5>1. i > f
          BY <5>0, <4>3
        <5>2. /\ i - 1 \in PlacesOf(r, s) /\ ParentHeader[m] = hs[i - 1]
              /\ MNumber[m] = MNumber[hs[i - 1]] + 1
          BY <4>1, <5>1, <3>1
        <5> QED BY <5>2, <1>4
      <4> QED BY <4>2, <4>3
    <3>3. ASSUME NEW q \in Confirmed(r, s), MNumber[q] = MNumber[m] PROVE q = m
      <4>1. CASE q \in Confirmed(p, s)
        <5>1. MNumber[q] < MNumber[m] /\ MNumber[q] \in Nat
          BY <4>1, <3>1, <1>9, <1>3, <1>4
        <5> QED BY <5>1, <3>3
      <4>2. CASE \E j \in PlacesOf(r, s) : q = hs[j]
        BY <4>2, <3>1, <3>3, <1>9
      <4> QED BY <4>1, <4>2, <1>4
    <3> QED BY <3>2, <3>3
  <2> QED BY <2>2, <2>3, <1>4
<1>11. ASSUME NEW h \in 0 .. RNumber[r], NEW k \in 0 .. RNumber[r],
              NEW i \in 1 .. Len(Headers[RAnc[r][h]]), NEW j \in 1 .. Len(Headers[RAnc[r][k]]),
              Headers[RAnc[r][h]][i] = Headers[RAnc[r][k]][j]
       PROVE  h = k /\ i = j
  <2>1. ASSUME NEW g \in 0 .. RNumber[p], NEW l \in 1 .. Len(Headers[RAnc[r][g]]),
               NEW t \in 1 .. n, Headers[RAnc[r][g]][l] = hs[t]
        PROVE  FALSE
    <3>1. hs[t] \in MHeader /\ ShardOf[hs[t]] \in Shard
      BY <1>3
    <3>2. t \in PlacesOf(r, ShardOf[hs[t]])
      BY DEF PlacesOf, hs, n
    <3>3. hs[t] \in Confirmed(p, ShardOf[hs[t]])
      BY <2>1, <1>2, <3>1, ZenonT(40) DEF Confirmed, Content
    <3>4. MNumber[hs[t]] < MNumber[hs[t]] /\ MNumber[hs[t]] \in Nat
      BY <3>1, <3>2, <3>3, <1>9, <1>3
    <3> QED BY <3>4
  <2>2. ASSUME NEW g \in 0 .. RNumber[r], g # RNumber[r] PROVE g \in 0 .. RNumber[p]
    BY <1>1, <1>2, <2>2
  <2>3. \A l : l \in 1 .. Len(Headers[RAnc[r][RNumber[r]]]) <=> l \in 1 .. n
    BY <1>2 DEF n
  <2>4. Headers[RAnc[r][RNumber[r]]] = hs
    BY <1>2 DEF hs
  <2>5. CASE h = RNumber[r] /\ k = RNumber[r]
    <3>1. i \in 1 .. n /\ j \in 1 .. n /\ hs[i] = hs[j]
      BY <2>3, <2>4, <2>5, <1>11
    <3>2. i \in PlacesOf(r, ShardOf[hs[i]]) /\ j \in PlacesOf(r, ShardOf[hs[i]])
      BY <3>1 DEF PlacesOf, hs, n
    <3> QED BY <2>5, <3>1, <3>2, <1>3, <1>9
  <2>6. CASE h = RNumber[r] /\ k # RNumber[r]
    <3>1. i \in 1 .. n /\ hs[i] = Headers[RAnc[r][k]][j] /\ k \in 0 .. RNumber[p]
      BY <2>2, <2>3, <2>4, <2>6, <1>11
    <3> QED BY <3>1, <2>1
  <2>7. CASE h # RNumber[r] /\ k = RNumber[r]
    <3>1. j \in 1 .. n /\ hs[j] = Headers[RAnc[r][h]][i] /\ h \in 0 .. RNumber[p]
      BY <2>2, <2>3, <2>4, <2>7, <1>11
    <3> QED BY <3>1, <2>1
  <2>8. CASE h # RNumber[r] /\ k # RNumber[r]
    <3>1. h \in 0 .. RNumber[p] /\ k \in 0 .. RNumber[p]
      BY <2>2, <2>8
    <3>2. RAnc[r][h] = RAnc[p][h] /\ RAnc[r][k] = RAnc[p][k]
      BY <3>1, <1>2
    <3>3. ChainConfirmed(p)
      BY DEF BlockOK, p
    <3>4. /\ i \in 1 .. Len(Headers[RAnc[p][h]]) /\ j \in 1 .. Len(Headers[RAnc[p][k]])
          /\ Headers[RAnc[p][h]][i] = Headers[RAnc[p][k]][j]
      BY <3>2, <1>11
    <3>5. \A g, l \in 0 .. RNumber[p] :
             \A c \in 1 .. Len(Headers[RAnc[p][g]]), d \in 1 .. Len(Headers[RAnc[p][l]]) :
                Headers[RAnc[p][g]][c] = Headers[RAnc[p][l]][d] => g = l /\ c = d
      BY <3>3, Zenon DEF ChainConfirmed
    <3> QED BY <3>1, <3>4, <3>5
  <2> QED BY <2>5, <2>6, <2>7, <2>8
<1>12. ChainConfirmed(r)
  BY <1>10, <1>11 DEF ChainConfirmed
<1>13. ASSUME NEW s \in Shard
       PROVE  /\ LatestAfter(r)[s] \in MHeader \cup {None}
              /\ IF LatestAfter(r)[s] = None THEN Confirmed(r, s) = {}
                 ELSE /\ LatestAfter(r)[s] \in Confirmed(r, s)
                      /\ \A m \in Confirmed(r, s) : MNumber[m] <= MNumber[LatestAfter(r)[s]]
  <2>1. CASE PlacesOf(r, s) = {}
    <3>1. LatestAfter(r)[s] = latest[p][s]
      BY <2>1 DEF LatestAfter, p
    <3>2. Confirmed(r, s) = Confirmed(p, s)
      BY <2>1, <1>4
    <3>3. LatestOf(p, latest[p])
      BY DEF BlockOK, p
    <3> QED BY <3>1, <3>2, <3>3, <1>7 DEF LatestOf
  <2>2. CASE PlacesOf(r, s) # {}
    <3> DEFINE g == CHOOSE i \in PlacesOf(r, s) : \A j \in PlacesOf(r, s) : j <= i
    <3>1. \E i \in PlacesOf(r, s) : \A j \in PlacesOf(r, s) : j <= i
      BY <2>2, <1>3, <1>6, GreatestNatural
    <3>2. g \in PlacesOf(r, s) /\ \A j \in PlacesOf(r, s) : j <= g
      BY <3>1
    <3>3. LatestAfter(r)[s] = hs[g]
      BY <2>2 DEF LatestAfter, hs
    <3> HIDE DEF g
    <3>4. hs[g] \in MHeader /\ hs[g] # None /\ hs[g] \in Confirmed(r, s)
      BY <3>2, <1>3, <1>4, <1>6
    <3>5. ASSUME NEW m \in Confirmed(r, s) PROVE MNumber[m] <= MNumber[hs[g]]
      <4>1. CASE m \in Confirmed(p, s)
        <5>1. MNumber[m] < MNumber[hs[g]] /\ MNumber[m] \in Nat /\ MNumber[hs[g]] \in Nat
          BY <4>1, <3>2, <3>4, <1>3, <1>4, <1>9
        <5> QED BY <5>1
      <4>2. CASE \E j \in PlacesOf(r, s) : m = hs[j]
        BY <4>2, <3>2, <1>9
      <4> QED BY <4>1, <4>2, <1>4
    <3> QED BY <3>3, <3>4, <3>5
  <2> QED BY <2>1, <2>2
<1>14. LatestAfter(r) \in [Shard -> MHeader \cup {None}]
  <2>1. LatestAfter(r) = [s \in Shard |-> LatestAfter(r)[s]]
    BY DEF LatestAfter
  <2> QED BY <2>1, <1>13
<1>15. ShardsCreated(r)
  <2> SUFFICES ASSUME NEW s \in Shard, NEW m \in Confirmed(r, s) PROVE s \in Initialized(RNumber[r])
    BY DEF ShardsCreated
  <2>1. CASE m \in Confirmed(p, s)
    <3>1. s \in Initialized(RNumber[p])
      BY <2>1 DEF BlockOK, ShardsCreated, p
    <3>2. GenesisRootHeight[s] \in Nat
      BY ContentAssumption
    <3> QED BY <3>1, <3>2, <1>1, <1>2 DEF Initialized
  <2>2. CASE \E i \in PlacesOf(r, s) : m = hs[i]
    <3>1. PICK i \in PlacesOf(r, s) : m = hs[i]
      BY <2>2
    <3>2. m \in Content(r) /\ ShardOf[m] = s
      BY <3>1, <1>6 DEF Content, hs, n
    <3> QED BY <3>2 DEF Valid
  <2> QED BY <2>1, <2>2, <1>4
<1>16. LatestOf(r, LatestAfter(r))
  BY <1>13 DEF LatestOf
<1> QED BY <1>12, <1>14, <1>15, <1>16 DEF BlockOK

-----------------------------------------------------------------------------
(* The initial state. *)

\* The database of a new master holds the genesis.
LEMMA InitBase == Init => BaseInv
<1> SUFFICES ASSUME Init PROVE BaseInv
  OBVIOUS
<1> USE DEF Init
<1>1. /\ Genesis \in RBlock /\ RNumber[Genesis] = 0 /\ 0 \in Heights
      /\ RAnc[Genesis][0] = Genesis /\ Genesis # None
  BY TreeAssumption DEF Heights
<1>2. TypeOK
  BY <1>1, ContentAssumption DEF TypeOK, NoJob
<1>3. job.st = "idle" /\ ~Inserting /\ Up
  BY <1>1 DEF NoJob, Inserting, Up
<1>4. JobOK
  BY <1>1, <1>3 DEF JobOK, HeadWritten, Extends, Up
<1>5. \A h \in 0 .. RNumber[Genesis] : h = 0
  BY <1>1
<1>6. Content(Genesis) = {} /\ Headers[Genesis] = <<>>
  BY ContentAssumption DEF Content
<1>7. BlockOK(Genesis, latest[Genesis])
  <2>1. \A s \in Shard : Confirmed(Genesis, s) = {}
    BY ConfirmedGenesis
  <2>2. \A s \in Shard : latest[Genesis][s] = None
    BY <1>1
  <2>3. ChainConfirmed(Genesis)
    <3>1. \A h \in 0 .. RNumber[Genesis] : 1 .. Len(Headers[RAnc[Genesis][h]]) = {}
      BY <1>1, <1>5, <1>6
    <3> QED BY <2>1, <3>1 DEF ChainConfirmed
  <2> QED BY <2>1, <2>2, <2>3 DEF BlockOK, LatestOf, ShardsCreated
<1>8. StoredOK
  BY <1>3, <1>7 DEF StoredOK
<1> QED BY <1>2, <1>4, <1>8 DEF BaseInv

-----------------------------------------------------------------------------
(* Steps. *)

\* The block that insert works on lies on the path to the new head.
LEMMA InsertedFacts ==
    ASSUME TypeOK, JobOK, Inserting
    PROVE  /\ job.block \in RBlock /\ job.block \in rdb /\ job.next \in 1 .. RNumber[job.block]
           /\ RNumber[job.block] \in Nat /\ job.old \in RBlock /\ job.old \in rdb
           /\ Inserted \in RBlock /\ Inserted \in rdb /\ RNumber[Inserted] = job.next
           /\ job.next \in Heights /\ Up
           /\ \A k \in 0 .. job.next : RAnc[Inserted][k] = RAnc[job.block][k]
<1>1. /\ job.st # "idle" /\ job.block \in rdb /\ rdb \subseteq RBlock /\ job.old \in rdb /\ Up
      /\ job.next \in 1 .. RNumber[job.block]
      /\ \A r \in rdb : \A h \in 0 .. RNumber[r] : RAnc[r][h] \in rdb
  BY DEF TypeOK, JobOK, Inserting
<1>2. RNumber[job.block] \in Nat /\ job.next \in 0 .. RNumber[job.block]
  BY <1>1, RootPath
<1>3. /\ Inserted \in RBlock /\ RNumber[Inserted] = job.next
      /\ \A k \in 0 .. job.next : RAnc[Inserted][k] = RAnc[job.block][k]
  BY <1>1, <1>2, RootPath DEF Inserted
<1> QED BY <1>1, <1>2, <1>3 DEF Heights, Inserted

\* The fields of an insertion after a change of two of them.
LEMMA JobExcept ==
    ASSUME TypeOK, NEW st \in {"idle", "write", "index", "stats", "head", "lookup", "clean"}, NEW k \in Nat
    PROVE  [job EXCEPT !.st = st, !.next = k] =
              [st |-> st, block |-> job.block, next |-> k, old |-> job.old]
<1>1. job = [st |-> job.st, block |-> job.block, next |-> job.next, old |-> job.old]
  BY DEF TypeOK
<1>2. [job EXCEPT !.st = st] = [st |-> st, block |-> job.block, next |-> job.next, old |-> job.old]
  BY <1>1
<1> DEFINE j == [job EXCEPT !.st = st]
<1>3. [job EXCEPT !.st = st, !.next = k] = [j EXCEPT !.next = k]
  OBVIOUS
<1>4. j = [st |-> st, block |-> job.block, next |-> job.next, old |-> job.old]
  BY <1>2
<1> HIDE DEF j
<1>5. [j EXCEPT !.next = k] = [st |-> st, block |-> job.block, next |-> k, old |-> job.old]
  BY <1>4
<1> QED BY <1>3, <1>5

-----------------------------------------------------------------------------
(* The steps, part of the invariant by part. *)

\* Every step keeps the types.
LEMMA TypeStep ==
    ASSUME TypeOK, JobOK, StoredOK, [Next]_vars
    PROVE  TypeOK'
<1> USE DEF TypeOK
<1>0. None \notin RBlock /\ None \notin MHeader
  BY TreeAssumption
<1>1. CASE \E m \in MHeader : AddMinorBlockHeader(m)
  BY <1>1 DEF AddMinorBlockHeader
<1>2. ASSUME NEW r \in RBlock, InsertChain(r) PROVE TypeOK'
  <2>1. ParentBlock(r) \in rdb /\ Valid(r)
    BY <1>2 DEF InsertChain, Valid
  <2>2. BlockOK(ParentBlock(r), latest[ParentBlock(r)])
    BY <2>1 DEF StoredOK
  <2>3. LatestAfter(r) \in [Shard -> MHeader \cup {None}]
    BY <2>1, <2>2, ValidExtends
  <2>4. latest' \in [RBlock -> [Shard -> MHeader \cup {None}]]
    BY <1>2, <2>3 DEF InsertChain
  <2>5. job' \in [st : {"idle", "write", "index", "stats", "head", "lookup", "clean"},
                block : RBlock \cup {None}, next : Nat, old : RBlock \cup {None}]
    BY <1>2 DEF InsertChain, NoJob
  <2> QED BY <1>2, <2>4, <2>5 DEF InsertChain
<1>3. CASE WriteBlock
  <2>1. job.block \in RBlock /\ RNumber[job.block] \in Nat
    BY <1>3, RootPath DEF WriteBlock, JobOK
  <2>2. job' \in [st : {"idle", "write", "index", "stats", "head", "lookup", "clean"},
                block : RBlock \cup {None}, next : Nat, old : RBlock \cup {None}]
    <3>1. CASE job' = NoJob
      BY <3>1 DEF NoJob
    <3>2. ASSUME NEW fork \in 0 .. RNumber[job.block] - 1,
                 job' = [job EXCEPT !.st = IF Extends THEN "lookup" ELSE "index", !.next = fork + 1]
          PROVE  job' = [st |-> IF Extends THEN "lookup" ELSE "index", block |-> job.block,
                         next |-> fork + 1, old |-> job.old]
      BY <3>2, <2>1, JobExcept
    <3>3. ASSUME NEW fork \in 0 .. RNumber[job.block] - 1,
                 job' = [job EXCEPT !.st = IF Extends THEN "lookup" ELSE "index", !.next = fork + 1]
          PROVE  job' \in [st : {"idle", "write", "index", "stats", "head", "lookup", "clean"},
                block : RBlock \cup {None}, next : Nat, old : RBlock \cup {None}]
      <4>1. job' = [st |-> IF Extends THEN "lookup" ELSE "index", block |-> job.block,
                    next |-> fork + 1, old |-> job.old]
        BY <3>2, <3>3
      <4>2. fork + 1 \in Nat /\ (IF Extends THEN "lookup" ELSE "index") \in {"lookup", "index"}
        BY <2>1
      <4>3. job.block \in RBlock /\ job.old \in RBlock \cup {None}
        BY <2>1
      <4> QED BY <4>1, <4>2, <4>3
    <3> QED BY <1>3, <3>1, <3>3 DEF WriteBlock
  <2> QED BY <1>3, <2>1, <2>2 DEF WriteBlock
<1>4. CASE PutRootBlockIndex
  <2>1. Inserted \in RBlock
    BY <1>4, InsertedFacts DEF PutRootBlockIndex, Inserting
  <2> QED BY <1>4, <2>1 DEF PutRootBlockIndex
<1>5. CASE PutStats
  <2>1. Inserted \in RBlock /\ RNumber[Inserted] = job.next /\ job.next \in Heights /\ job.next \in Nat /\ job.next >= 1
    BY <1>5, InsertedFacts DEF PutStats, Inserting
  <2>2. confirming' \in [MHeader -> RBlock \cup {None}]
    BY <1>5, <2>1 DEF PutStats
  <2>3. PutCounts(Inserted) \in [Shard -> [Miner -> Nat]]
    <3>1. ASSUME NEW s \in Shard, NEW a \in Miner
          PROVE  BlockCount(job.next - 1, s, a) \in Nat /\ Mined(Inserted, s, a) \in Nat
      <4>1. job.next - 1 \in Heights
        <5>1. /\ RAnc[Inserted][job.next - 1] \in RBlock
              /\ RNumber[RAnc[Inserted][job.next - 1]] = job.next - 1
          BY <2>1, RootPath
        <5> QED BY <5>1 DEF Heights
      <4>2. IsFiniteSet({i \in PlacesOf(Inserted, s) : MinerOf[Headers[Inserted][i]] = a})
        <5>1. 1 \in Int /\ Len(Headers[Inserted]) \in Int
          BY <2>1, ContentType
        <5>2. IsFiniteSet(1 .. Len(Headers[Inserted]))
          BY <5>1, FS_Interval
        <5> QED BY <5>2, FS_Subset DEF PlacesOf
      <4> QED BY <4>1, <4>2, FS_CardinalityType DEF BlockCount, Mined
    <3> QED BY <2>1, <3>1 DEF PutCounts
  <2> QED BY <1>5, <2>1, <2>2, <2>3 DEF PutStats
<1>6. CASE WriteHead
  <2>1. Inserted \in RBlock
    BY <1>6, InsertedFacts DEF WriteHead, Inserting
  <2>2. job' \in [st : {"idle", "write", "index", "stats", "head", "lookup", "clean"},
                block : RBlock \cup {None}, next : Nat, old : RBlock \cup {None}]
    BY <1>6 DEF WriteHead, NoJob
  <2> QED BY <1>6, <2>1, <2>2 DEF WriteHead
<1>7. CASE WriteLookups
  <2>1. Inserted \in RBlock /\ job.next \in Nat /\ RNumber[job.block] \in Nat
    BY <1>7, InsertedFacts DEF WriteLookups, Inserting
  <2>2. job' \in [st : {"idle", "write", "index", "stats", "head", "lookup", "clean"},
                block : RBlock \cup {None}, next : Nat, old : RBlock \cup {None}]
    <3>1. CASE Extends
      BY <1>7, <3>1 DEF WriteLookups
    <3>2. CASE ~Extends /\ job.next < RNumber[job.block]
      <4>1. job' = [job EXCEPT !.st = "index", !.next = job.next + 1]
        BY <1>7, <2>1, <3>2 DEF WriteLookups
      <4>2. job' = [st |-> "index", block |-> job.block, next |-> job.next + 1, old |-> job.old]
        BY <4>1, <2>1, JobExcept
      <4> QED BY <4>2, <2>1
    <3>3. CASE ~Extends /\ job.next >= RNumber[job.block]
      <4>1. job' = [job EXCEPT !.st = "clean"]
        BY <1>7, <2>1, <3>3 DEF WriteLookups
      <4> QED BY <4>1
    <3> QED BY <2>1, <3>1, <3>2, <3>3
  <2> QED BY <1>7, <2>1, <2>2 DEF WriteLookups
<1>8. CASE DeleteLookups
  BY <1>8 DEF DeleteLookups, NoJob
<1>9. CASE Crash
  BY <1>9, ContentAssumption DEF Crash, NoJob
<1>10. CASE Restart
  BY <1>10 DEF Restart
<1>11. CASE UNCHANGED vars
  BY <1>11 DEF vars
<1> QED BY <1>1, <1>2, <1>3, <1>4, <1>5, <1>6, <1>7, <1>8, <1>9, <1>10, <1>11 DEF Next, Step

\* Where WriteBlockWithState leaves the insertion.
LEMMA WriteBlockJob ==
    ASSUME TypeOK, JobOK, WriteBlock
    PROVE  \/ ~Heavier(job.block, current) /\ job' = NoJob
           \/ /\ Heavier(job.block, current)
              /\ \E fork \in 0 .. RNumber[job.block] - 1 :
                    /\ ForkHeight(current, job.block, fork)
                    /\ Extends => fork = RNumber[job.block] - 1
                    /\ job' = [st |-> IF Extends THEN "lookup" ELSE "index", block |-> job.block,
                               next |-> fork + 1, old |-> job.old]
<1>1. /\ job.block \in RBlock /\ RNumber[job.block] \in Nat /\ RNumber[job.block] >= 1
      /\ current = job.old /\ current \in RBlock /\ RNumber[current] \in Nat
  BY RootPath DEF WriteBlock, JobOK, TypeOK
<1>2. CASE ~Heavier(job.block, current)
  BY <1>2 DEF WriteBlock
<1>3. CASE Heavier(job.block, current)
  <2>1. PICK fork \in 0 .. RNumber[job.block] - 1 :
           /\ ForkHeight(current, job.block, fork)
           /\ job' = [job EXCEPT !.st = IF Extends THEN "lookup" ELSE "index", !.next = fork + 1]
    BY <1>3 DEF WriteBlock
  <2>2. fork + 1 \in Nat /\ fork \in Nat
    BY <1>1
  <2>3. job' = [st |-> IF Extends THEN "lookup" ELSE "index", block |-> job.block,
                next |-> fork + 1, old |-> job.old]
    BY <2>1, <2>2, JobExcept
  <2>4. ASSUME Extends PROVE fork = RNumber[job.block] - 1
    <3>1. ParentBlock(job.block) = current
      BY <1>1, <2>4 DEF Extends
    <3> DEFINE k == RNumber[job.block] - 1
    <3>2. /\ RNumber[current] = k /\ k \in Nat
          /\ RAnc[current][k] = current /\ RAnc[job.block][k] = current
      BY <1>1, <3>1, RootPath DEF ParentBlock, ParentOf
    <3>3. \A h \in fork + 1 .. RNumber[job.block] :
             h <= RNumber[current] => RAnc[current][h] # RAnc[job.block][h]
      BY <2>1 DEF ForkHeight
    <3>4. ~ (fork < k)
      <4> SUFFICES ASSUME fork < k PROVE FALSE
        OBVIOUS
      <4>1. k \in fork + 1 .. RNumber[job.block]
        BY <1>1, <2>2, <3>2
      <4> QED BY <4>1, <3>2, <3>3
    <3> QED BY <3>2, <3>4, <2>2, <1>1
  <2> QED BY <1>3, <2>1, <2>3, <2>4
<1> QED BY <1>2, <1>3

\* Where the loop of reorg goes after the lookup entries.
LEMMA WriteLookupsJob ==
    ASSUME TypeOK, JobOK, WriteLookups
    PROVE  \/ /\ Extends
              /\ job' = [st |-> "index", block |-> job.block, next |-> job.next, old |-> job.old]
           \/ /\ ~Extends /\ job.next < RNumber[job.block]
              /\ job' = [st |-> "index", block |-> job.block, next |-> job.next + 1, old |-> job.old]
           \/ /\ ~Extends /\ job.next = RNumber[job.block]
              /\ job' = [st |-> "clean", block |-> job.block, next |-> job.next, old |-> job.old]
<1>1. job.next \in 1 .. RNumber[job.block] /\ RNumber[job.block] \in Nat
  BY InsertedFacts DEF WriteLookups, Inserting
<1>2. job = [st |-> job.st, block |-> job.block, next |-> job.next, old |-> job.old]
  BY DEF TypeOK
<1>3. CASE Extends
  <2>1. job' = [job EXCEPT !.st = "index"]
    BY <1>3 DEF WriteLookups
  <2> QED BY <1>2, <1>3, <2>1
<1>4. CASE ~Extends /\ job.next < RNumber[job.block]
  <2>1. job' = [job EXCEPT !.st = "index", !.next = job.next + 1]
    BY <1>1, <1>4 DEF WriteLookups
  <2>2. job.next + 1 \in Nat
    BY <1>1
  <2>3. job' = [st |-> "index", block |-> job.block, next |-> job.next + 1, old |-> job.old]
    BY <2>1, <2>2, JobExcept
  <2> QED BY <1>4, <2>3
<1>5. CASE ~Extends /\ job.next >= RNumber[job.block]
  <2>1. job' = [job EXCEPT !.st = "clean"]
    BY <1>1, <1>5 DEF WriteLookups
  <2>2. job.next = RNumber[job.block]
    BY <1>1, <1>5
  <2> QED BY <1>2, <1>5, <2>1, <2>2
<1> QED BY <1>1, <1>3, <1>4, <1>5

\* Every step keeps what an insertion relies on: its block is stored once WriteBlock has
\* written it, and insert and reorg work on a height between the fork and the block.
LEMMA JobStep ==
    ASSUME TypeOK, JobOK, [Next]_vars
    PROVE  JobOK'
<1>0. None \notin RBlock /\ rdb \subseteq RBlock
  BY TreeAssumption DEF TypeOK
<1>1. CASE \E m \in MHeader : AddMinorBlockHeader(m)
  BY <1>1 DEF AddMinorBlockHeader, JobOK, Inserting, HeadWritten, Extends, Inserted, Up
<1>2. ASSUME NEW r \in RBlock, InsertChain(r) PROVE JobOK'
  <2>1. /\ ParentBlock(r) \in rdb /\ RNumber[r] >= 1 /\ r \notin rdb /\ Up
        /\ rdb' = rdb /\ head' = head /\ current' = current
    BY <1>2 DEF InsertChain, Valid
  <2>2. CASE job' = NoJob
    BY <2>1, <2>2 DEF JobOK, NoJob, Inserting, HeadWritten, Up
  <2>3. CASE job' = [st |-> "write", block |-> r, next |-> 0, old |-> current]
    BY <2>1, <2>3 DEF JobOK, Inserting, HeadWritten, Up
  <2> QED BY <1>2, <2>2, <2>3 DEF InsertChain
<1>3. CASE WriteBlock
  <2> DEFINE b == job.block
  <2>1. /\ b \in RBlock /\ RNumber[b] >= 1 /\ job.old \in rdb /\ ParentBlock(b) \in rdb
        /\ current = job.old /\ Up /\ RNumber[b] \in Nat
    BY <1>3, RootPath DEF WriteBlock, JobOK
  <2>2. rdb' = rdb \cup {b} /\ head' = head /\ current' = current
    BY <1>3 DEF WriteBlock
  <2>3. \A h \in 0 .. RNumber[b] : RAnc[b][h] \in rdb'
    <3>1. /\ RNumber[ParentBlock(b)] = RNumber[b] - 1 /\ RAnc[b][RNumber[b]] = b
          /\ \A h \in 0 .. RNumber[b] - 1 : RAnc[b][h] = RAnc[ParentBlock(b)][h]
      BY <2>1, ParentPath, RootPath
    <3>2. \A h \in 0 .. RNumber[b] - 1 : RAnc[ParentBlock(b)][h] \in rdb
      BY <2>1, <3>1 DEF JobOK
    <3>3. \A h \in 0 .. RNumber[b] : h = RNumber[b] \/ h \in 0 .. RNumber[b] - 1
      BY <2>1
    <3> QED BY <2>2, <3>1, <3>2, <3>3
  <2>4. /\ Genesis \in rdb' /\ head' \in rdb' /\ Up' /\ current' \in rdb'
        /\ \A r \in rdb' : \A h \in 0 .. RNumber[r] : RAnc[r][h] \in rdb'
    <3>1. \A r \in rdb : \A h \in 0 .. RNumber[r] : RAnc[r][h] \in rdb
      BY DEF JobOK
    <3>2. Genesis \in rdb /\ head \in rdb /\ current \in rdb
      BY <2>1 DEF JobOK
    <3> QED BY <2>1, <2>2, <2>3, <3>1, <3>2 DEF Up
  <2> HIDE DEF b
  <2>5. CASE job' = NoJob
    BY <2>4, <2>5 DEF JobOK, NoJob, Inserting, HeadWritten
  <2>6. ASSUME NEW fork \in 0 .. RNumber[b] - 1, Extends => fork = RNumber[b] - 1,
               job' = [st |-> IF Extends THEN "lookup" ELSE "index", block |-> b,
                       next |-> fork + 1, old |-> job.old]
        PROVE  JobOK'
    <3>1. /\ job'.st = IF Extends THEN "lookup" ELSE "index"
          /\ job'.block = b /\ job'.next = fork + 1 /\ job'.old = job.old
      BY <2>6
    <3>2. Extends' <=> Extends
      BY <3>1 DEF Extends, b
    <3>3. fork + 1 \in 1 .. RNumber[b] /\ (Extends => fork + 1 = RNumber[b])
      BY <2>1, <2>6
    <3>4. job'.st \in {"lookup", "index"} /\ (job'.st = "lookup" => Extends)
      BY <3>1
    <3>5. b \in rdb' /\ job.old \in rdb' /\ ParentBlock(b) \in rdb'
      BY <2>1, <2>2
    <3>6. ~HeadWritten'
      BY <3>2, <3>4 DEF HeadWritten
    <3> QED BY <2>1, <2>4, <3>1, <3>2, <3>3, <3>4, <3>5, <3>6 DEF JobOK
  <2> QED BY <1>3, <2>5, <2>6, WriteBlockJob DEF b
<1>4. CASE PutRootBlockIndex
  BY <1>4 DEF PutRootBlockIndex, JobOK, TypeOK, Inserting, HeadWritten, Extends, Inserted, Up
<1>5. CASE PutStats
  BY <1>5 DEF PutStats, JobOK, TypeOK, Inserting, HeadWritten, Extends, Inserted, Up
<1>6. CASE WriteHead
  <2>1. Inserted \in rdb /\ Inserted # None
    BY <1>6, <1>0, InsertedFacts DEF WriteHead, Inserting
  <2>2. CASE Extends
    <3>1. job' = NoJob /\ head' = Inserted /\ current' = Inserted /\ rdb' = rdb
      BY <1>6, <2>2 DEF WriteHead
    <3> QED BY <2>1, <3>1 DEF JobOK, NoJob, Inserting, HeadWritten, Up
  <2>3. CASE ~Extends
    <3>1. /\ job' = [job EXCEPT !.st = "lookup"] /\ head' = Inserted /\ current' = Inserted
          /\ rdb' = rdb /\ job.st = "head"
      BY <1>6, <2>3 DEF WriteHead
    <3>2. /\ job'.st = "lookup" /\ job'.block = job.block /\ job'.next = job.next
          /\ job'.old = job.old
      BY <3>1 DEF TypeOK
    <3>3. Inserted' = Inserted /\ ~Extends'
      BY <2>3, <3>2 DEF Inserted, Extends
    <3>4. Up'
      BY <2>1, <3>1 DEF Up
    <3> QED BY <2>1, <3>1, <3>2, <3>3, <3>4 DEF JobOK, Inserting, HeadWritten
  <2> QED BY <2>2, <2>3
<1>7. CASE WriteLookups
  <2>1. /\ Inserted \in rdb /\ job.next \in 1 .. RNumber[job.block] /\ RNumber[job.block] \in Nat
        /\ rdb' = rdb /\ head' = head /\ current' = current /\ job.st = "lookup" /\ Up
    BY <1>7, InsertedFacts DEF WriteLookups, Inserting
  <2>2. ASSUME Extends,
               job' = [st |-> "index", block |-> job.block, next |-> job.next, old |-> job.old]
        PROVE  JobOK'
    <3>1. Extends'
      BY <2>2 DEF Extends
    <3> QED BY <2>1, <2>2, <3>1 DEF JobOK, Inserting, HeadWritten, Up
  <2>3. ASSUME ~Extends, job.next < RNumber[job.block],
               job' = [st |-> "index", block |-> job.block, next |-> job.next + 1, old |-> job.old]
        PROVE  JobOK'
    <3>1. ~Extends'
      BY <2>3 DEF Extends
    <3>2. job.next + 1 \in 1 .. RNumber[job.block]
      BY <2>1, <2>3
    <3> QED BY <2>1, <2>3, <3>1, <3>2 DEF JobOK, Inserting, HeadWritten, Up
  <2>4. ASSUME ~Extends, job.next = RNumber[job.block],
               job' = [st |-> "clean", block |-> job.block, next |-> job.next, old |-> job.old]
        PROVE  JobOK'
    <3>1. ~Extends' /\ Inserted' = Inserted
      BY <2>4 DEF Extends, Inserted
    <3> QED BY <2>1, <2>4, <3>1 DEF JobOK, Inserting, HeadWritten, Up
  <2> QED BY <1>7, <2>2, <2>3, <2>4, WriteLookupsJob
<1>8. CASE DeleteLookups
  BY <1>8 DEF DeleteLookups, JobOK, NoJob, Inserting, HeadWritten, Up
<1>9. CASE Crash
  BY <1>9 DEF Crash, JobOK, NoJob, Inserting, HeadWritten, Up
<1>10. CASE Restart
  BY <1>10, <1>0 DEF Restart, JobOK, Inserting, HeadWritten, Up, TypeOK, Extends, Inserted
<1>11. CASE UNCHANGED vars
  BY <1>11 DEF vars, JobOK, Inserting, HeadWritten, Extends, Inserted, Up
<1> QED BY <1>1, <1>2, <1>3, <1>4, <1>5, <1>6, <1>7, <1>8, <1>9, <1>10, <1>11 DEF Next, Step

\* Only WriteBlock stores a block, with the latest headers that ValidateBlock has found.
LEMMA StoredStep ==
    ASSUME TypeOK, JobOK, StoredOK, [Next]_vars
    PROVE  StoredOK'
<1>1. CASE \E m \in MHeader : AddMinorBlockHeader(m)
  BY <1>1 DEF AddMinorBlockHeader, StoredOK
<1>2. ASSUME NEW r \in RBlock, InsertChain(r) PROVE StoredOK'
  <2>1. /\ Valid(r) /\ ParentBlock(r) \in rdb /\ r \notin rdb /\ rdb' = rdb
        /\ latest' = [latest EXCEPT ![r] = LatestAfter(r)] /\ rdb \subseteq RBlock
        /\ job' = NoJob \/ job'.block = r
        /\ latest \in [RBlock -> [Shard -> MHeader \cup {None}]]
    BY <1>2 DEF InsertChain, Valid, TypeOK
  <2>2. BlockOK(ParentBlock(r), latest[ParentBlock(r)])
    BY <2>1 DEF StoredOK
  <2>3. BlockOK(r, LatestAfter(r))
    BY <2>1, <2>2, ValidExtends
  <2>4. latest'[r] = LatestAfter(r) /\ \A q \in rdb : latest'[q] = latest[q]
    BY <2>1
  <2>5. \A q \in rdb' : BlockOK(q, latest'[q])
    BY <2>1, <2>4 DEF StoredOK
  <2>6. BlockOK(r, latest'[r])
    BY <2>3, <2>4
  <2>7. (job.st = "write" => BlockOK(job.block, latest[job.block]))'
    BY <2>1, <2>6 DEF NoJob
  <2> QED BY <2>5, <2>7 DEF StoredOK
<1>3. CASE WriteBlock
  <2>1. rdb' = rdb \cup {job.block} /\ latest' = latest /\ job.st = "write"
    BY <1>3 DEF WriteBlock
  <2>2. job'.st # "write"
    <3>1. CASE job' = NoJob
      BY <3>1 DEF NoJob
    <3>2. ASSUME NEW k, job' = [st |-> IF Extends THEN "lookup" ELSE "index", block |-> job.block,
                                next |-> k, old |-> job.old]
          PROVE  job'.st # "write"
      BY <3>2
    <3> QED BY <1>3, <3>1, <3>2, WriteBlockJob
  <2> QED BY <2>1, <2>2 DEF StoredOK
<1>4. CASE PutRootBlockIndex
  BY <1>4 DEF PutRootBlockIndex, StoredOK, TypeOK
<1>5. CASE PutStats
  BY <1>5 DEF PutStats, StoredOK, TypeOK
<1>6. CASE WriteHead
  <2>1. rdb' = rdb /\ latest' = latest /\ job'.st # "write"
    BY <1>6 DEF WriteHead, TypeOK, NoJob
  <2> QED BY <2>1 DEF StoredOK
<1>7. CASE WriteLookups
  <2>1. rdb' = rdb /\ latest' = latest
    BY <1>7 DEF WriteLookups
  <2>2. ASSUME NEW st \in {"index", "clean"}, NEW k,
               job' = [st |-> st, block |-> job.block, next |-> k, old |-> job.old]
        PROVE  job'.st # "write"
    BY <2>2
  <2>3. job'.st # "write"
    BY <1>7, <2>2, WriteLookupsJob
  <2> QED BY <2>1, <2>3 DEF StoredOK
<1>8. CASE DeleteLookups
  BY <1>8 DEF DeleteLookups, StoredOK, NoJob
<1>9. CASE Crash
  BY <1>9 DEF Crash, StoredOK, NoJob
<1>10. CASE Restart
  BY <1>10 DEF Restart, StoredOK
<1>11. CASE UNCHANGED vars
  BY <1>11 DEF vars, StoredOK
<1> QED BY <1>1, <1>2, <1>3, <1>4, <1>5, <1>6, <1>7, <1>8, <1>9, <1>10, <1>11 DEF Next, Step

-----------------------------------------------------------------------------
\* The inductive invariant holds in every state.
THEOREM BaseAlways == Spec => []BaseInv
<1>1. Init => BaseInv
  BY InitBase
<1>2. BaseInv /\ [Next]_vars => BaseInv'
  BY TypeStep, JobStep, StoredStep DEF BaseInv
<1> QED BY <1>1, <1>2, PTL DEF Spec

\* Whatever root blocks of whatever forks arrive, and wherever the master dies: the headers
\* that a stored chain confirms of a shard are one chain from height 0 on, without a gap, a
\* fork or a repetition (ValidateBlock against the latest headers of the parent).
THEOREM ConfirmedAlways == Spec => []ConfirmedIsChain
<1>1. BaseInv => ConfirmedIsChain
  <2> SUFFICES ASSUME BaseInv PROVE ConfirmedIsChain
    OBVIOUS
  <2>1. \A r \in rdb : ChainConfirmed(r)
    BY DEF BaseInv, StoredOK, BlockOK
  <2> QED BY <2>1 DEF ConfirmedIsChain, ChainConfirmed
<1> QED BY <1>1, BaseAlways, PTL

=============================================================================
