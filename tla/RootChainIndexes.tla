--------------------------- MODULE RootChainIndexes --------------------------
(***************************************************************************)
(* The head of the root chain and the indexes that follow it, for every    *)
(* tree of root blocks and every content of them.                          *)
(*                                                                         *)
(* FollowedOK, added to the invariant of RootChainProofs, says how far     *)
(* each index agrees with the path to the block that is, or is about to    *)
(* be, the head; a death inside an insertion ends it, so it is about a     *)
(* master that has not died.                                               *)
(***************************************************************************)
EXTENDS RootChainProofs

\* A leaf is tried with Zenon, then with the SMT solver; the limits are in seconds.
USE ZenonT(8), SMTT(30)

\* The block that the indexes are to follow, and the heights up to which they do.
Followed == IF Inserting THEN job.block ELSE current
CanonicalTop ==
    IF ~Inserting THEN RNumber[current]
    ELSE IF job.st \in {"stats", "head"} \/ HeadWritten THEN job.next ELSE job.next - 1
StatsTop ==
    IF ~Inserting THEN RNumber[current]
    ELSE IF job.st = "head" \/ HeadWritten THEN job.next ELSE job.next - 1
LookupTop ==
    IF ~Inserting THEN RNumber[current]
    ELSE IF job.st = "clean" \/ (Extends /\ job.st # "lookup") THEN job.next ELSE job.next - 1

\* No stored block is to be preferred to b.
Best(b) == \A r \in rdb : TD[r] < TD[b] \/ (TD[r] = TD[b] /\ RNumber[r] >= RNumber[b])

\* The blocks of miner a in shard s are counted up to root block r, at its height.
Counted(r, s, a) == BlockCount(RNumber[r], s, a) >= MinedUpto(r, s, a)

\* The miners whose blocks are counted.
Counter == IF CountMinorBlocks THEN Miner ELSE {}

\* The canonical hashes agree with the path to b up to height c, the confirming root blocks
\* and the counts up to height t, the lookup entries up to height l.
IndexedUpto(b, c, t, l) ==
    /\ \A n \in 0 .. c : canonical[n] = RAnc[b][n]
    /\ \A n \in 0 .. t : \A m \in Recorded(RAnc[b][n]) : confirming[m] = RAnc[b][n]
    /\ \A n \in 0 .. t : \A s \in Shard, a \in Counter : Counted(RAnc[b][n], s, a)
    /\ \A n \in 0 .. l : \A m \in Content(RAnc[b][n]) : lookup[m] = RAnc[b][n]

\* While the master has not died, its indexes follow the block that no stored block is
\* preferred to, as far as the running insertion has come.
FollowedOK ==
    crashes = 0 =>
        Up /\ Best(Followed) /\ IndexedUpto(Followed, CanonicalTop, StatsTop, LookupTop)

Inv == BaseInv /\ FollowedOK

-----------------------------------------------------------------------------
(* Lemmas about the indexes. *)

\* A header stands at one height of a chain only.
LEMMA OneHeight ==
    ASSUME NEW r \in RBlock, ChainConfirmed(r), NEW h \in 0 .. RNumber[r], NEW k \in 0 .. RNumber[r],
           NEW m \in Content(RAnc[r][h]), m \in Content(RAnc[r][k])
    PROVE  h = k
<1>1. PICK i \in 1 .. Len(Headers[RAnc[r][h]]) : m = Headers[RAnc[r][h]][i]
  BY DEF Content
<1>2. PICK j \in 1 .. Len(Headers[RAnc[r][k]]) : m = Headers[RAnc[r][k]][j]
  BY DEF Content
<1>3. \A g, l \in 0 .. RNumber[r] :
         \A c \in 1 .. Len(Headers[RAnc[r][g]]), d \in 1 .. Len(Headers[RAnc[r][l]]) :
            Headers[RAnc[r][g]][c] = Headers[RAnc[r][l]][d] => g = l /\ c = d
  BY Zenon DEF ChainConfirmed
<1>4. Headers[RAnc[r][h]][i] = Headers[RAnc[r][k]][j]
  BY <1>1, <1>2
<1> QED BY <1>3, <1>4

\* The image of a finite set under a function.
LEMMA FiniteImage ==
    ASSUME NEW S, IsFiniteSet(S), NEW f
    PROVE  /\ IsFiniteSet({f[x] : x \in S})
           /\ Cardinality({f[x] : x \in S}) <= Cardinality(S)
<1> DEFINE T == {f[x] : x \in S}
           g == [x \in S |-> f[x]]
<1>1. g \in Surjection(S, T)
  BY DEF Surjection
<1> HIDE DEF g, T
<1>2. IsFiniteSet(T) /\ Cardinality(T) <= Cardinality(S)
  BY <1>1, FS_Surjection
<1> QED BY <1>2 DEF T

\* A root block adds to a miner's blocks at most those it holds.
LEMMA MinedStep ==
    ASSUME NEW r \in RBlock, RNumber[r] >= 1, NEW s \in Shard, NEW a \in Miner
    PROVE  /\ MinedUpto(r, s, a) \in Nat /\ MinedUpto(ParentBlock(r), s, a) \in Nat
           /\ Mined(r, s, a) \in Nat
           /\ MinedUpto(r, s, a) <= MinedUpto(ParentBlock(r), s, a) + Mined(r, s, a)
<1> DEFINE p == ParentBlock(r)
           Old == {m \in Confirmed(p, s) : MinerOf[m] = a}
           Places == {i \in PlacesOf(r, s) : MinerOf[Headers[r][i]] = a}
           f == [i \in Places |-> Headers[r][i]]
           New == {f[i] : i \in Places}
<1>1. ASSUME NEW q \in RBlock PROVE IsFiniteSet(Content(q))
  <2> DEFINE g == [i \in 1 .. Len(Headers[q]) |-> Headers[q][i]]
  <2>1. 1 \in Int /\ Len(Headers[q]) \in Int
    BY ContentType
  <2>2. IsFiniteSet(1 .. Len(Headers[q]))
    BY <2>1, FS_Interval
  <2>3. IsFiniteSet({g[i] : i \in 1 .. Len(Headers[q])})
    BY <2>2, FiniteImage
  <2>4. {g[i] : i \in 1 .. Len(Headers[q])} = Content(q)
    BY DEF Content
  <2> QED BY <2>3, <2>4
<1>2. ASSUME NEW q \in RBlock PROVE IsFiniteSet(Confirmed(q, s))
  <2> DEFINE g == [h \in 0 .. RNumber[q] |-> Content(RAnc[q][h])]
             All == {g[h] : h \in 0 .. RNumber[q]}
  <2>1. /\ 0 \in Int /\ RNumber[q] \in Int
        /\ \A h \in 0 .. RNumber[q] : RAnc[q][h] \in RBlock
    BY RootPath
  <2>2. IsFiniteSet(0 .. RNumber[q])
    BY <2>1, FS_Interval
  <2>3. IsFiniteSet(All)
    BY <2>2, FiniteImage
  <2>4. \A T \in All : IsFiniteSet(T)
    BY <1>1, <2>1
  <2>5. Confirmed(q, s) \subseteq UNION All
    BY DEF Confirmed
  <2> HIDE DEF All
  <2>6. IsFiniteSet(UNION All)
    BY <2>3, <2>4, FS_UNION
  <2> QED BY <2>5, <2>6, FS_Subset
<1>3. p \in RBlock
  BY ParentPath
<1>4. IsFiniteSet(Old)
  BY <1>2, <1>3, FS_Subset
<1>5. IsFiniteSet(Places)
  <2>1. 1 \in Int /\ Len(Headers[r]) \in Int
    BY ContentType
  <2>2. IsFiniteSet(1 .. Len(Headers[r])) /\ Places \subseteq 1 .. Len(Headers[r])
    BY <2>1, FS_Interval DEF PlacesOf
  <2> QED BY <2>2, FS_Subset
<1>6. {m \in Confirmed(r, s) : MinerOf[m] = a} = Old \cup New
  <2>1. Confirmed(r, s) = Confirmed(p, s) \cup {m \in Content(r) : ShardOf[m] = s}
    BY ConfirmedStep
  <2>2. \A m : m \in New <=> m \in Content(r) /\ ShardOf[m] = s /\ MinerOf[m] = a
    BY DEF Content, PlacesOf
  <2> QED BY <2>1, <2>2
<1> HIDE DEF f
<1>7. IsFiniteSet(New) /\ Cardinality(New) <= Cardinality(Places)
  BY <1>5, FiniteImage
<1> HIDE DEF Old, Places, New
<1>8. /\ IsFiniteSet(Old \cup New)
      /\ Cardinality(Old \cup New) = Cardinality(Old) + Cardinality(New) - Cardinality(Old \cap New)
  BY <1>4, <1>7, FS_Union
<1>9. IsFiniteSet(Old \cap New)
  BY <1>4, FS_Subset
<1>10. /\ Cardinality(Old) \in Nat /\ Cardinality(New) \in Nat /\ Cardinality(Places) \in Nat
       /\ Cardinality(Old \cup New) \in Nat /\ Cardinality(Old \cap New) \in Nat
  BY <1>4, <1>5, <1>7, <1>8, <1>9, FS_CardinalityType
<1>11. /\ MinedUpto(r, s, a) = Cardinality(Old \cup New) /\ MinedUpto(p, s, a) = Cardinality(Old)
       /\ Mined(r, s, a) = Cardinality(Places)
  BY <1>6 DEF MinedUpto, Mined, Old, Places
<1> HIDE DEF p
<1> QED BY <1>7, <1>8, <1>10, <1>11 DEF p

\* A change that leaves the indexes alone leaves them where they were.
LEMMA IndexedSame ==
    ASSUME NEW b, NEW c, NEW t, NEW l, IndexedUpto(b, c, t, l),
           UNCHANGED <<canonical, confirming, lookup, counts>>
    PROVE  IndexedUpto(b, c, t, l)'
BY DEF IndexedUpto, Counted, BlockCount

\* WriteBlockWithState: a block that is preferred to the head is preferred to all.
LEMMA BestStep ==
    ASSUME TypeOK, JobOK, Best(current), WriteBlock,
           NEW b, b = job.block, NEW cur, cur = current
    PROVE  IF Heavier(b, cur) THEN Best(b)' ELSE Best(cur)'
<1>1. /\ b \in RBlock /\ cur \in RBlock /\ rdb \subseteq RBlock /\ rdb' = rdb \cup {b}
  BY DEF WriteBlock, JobOK, TypeOK
<1>2. \A r \in RBlock : RNumber[r] \in Nat /\ TD[r] \in Nat
  BY RootPath, DifficultyAssumption
<1>3. \A r \in rdb : TD[r] < TD[cur] \/ (TD[r] = TD[cur] /\ RNumber[r] >= RNumber[cur])
  BY DEF Best
<1>4. CASE Heavier(b, cur)
  <2>1. TD[b] > TD[cur] \/ (TD[b] = TD[cur] /\ RNumber[b] < RNumber[cur])
    BY <1>4 DEF Heavier
  <2>2. \A r \in rdb' : TD[r] < TD[b] \/ (TD[r] = TD[b] /\ RNumber[r] >= RNumber[b])
    BY <1>1, <1>2, <1>3, <2>1
  <2> QED BY <1>4, <2>2 DEF Best
<1>5. CASE ~Heavier(b, cur)
  <2>1. ~(TD[b] > TD[cur]) /\ ~(TD[b] = TD[cur] /\ RNumber[b] < RNumber[cur])
    BY <1>5 DEF Heavier
  <2>2. \A r \in rdb' : TD[r] < TD[cur] \/ (TD[r] = TD[cur] /\ RNumber[r] >= RNumber[cur])
    BY <1>1, <1>2, <1>3, <2>1
  <2> QED BY <1>5, <2>2 DEF Best
<1> QED BY <1>4, <1>5

\* PutRootBlockIndex after the canonical hash: the headers of lower root blocks keep their
\* confirming block, and the counts at the new height cover what the chain confirms.
LEMMA StatsStep ==
    ASSUME TypeOK, JobOK, StoredOK, PutStats, NEW c, NEW l,
           NEW b, b = job.block, NEW k, k = job.next, IndexedUpto(b, c, k - 1, l)
    PROVE  IndexedUpto(b, c, k, l)'
<1>1. /\ b \in RBlock /\ b \in rdb /\ k \in 1 .. RNumber[b] /\ RNumber[b] \in Nat
      /\ Inserted \in RBlock /\ Inserted \in rdb /\ RNumber[Inserted] = k /\ k \in Heights
      /\ Inserted = RAnc[b][k]
      /\ \A n \in 0 .. k : RAnc[Inserted][n] = RAnc[b][n]
  BY InsertedFacts DEF PutStats, Inserting, Inserted
<1>2. BlockOK(b, latest[b]) /\ BlockOK(Inserted, latest[Inserted])
  BY <1>1 DEF StoredOK
<1>3. /\ canonical' = canonical /\ lookup' = lookup
      /\ confirming' = [m \in MHeader |-> IF m \in Recorded(Inserted) THEN Inserted ELSE confirming[m]]
      /\ CountMinorBlocks => counts' = [counts EXCEPT ![k] = PutCounts(Inserted)]
      /\ counts \in [Heights -> [Shard -> [Miner -> Nat]]]
  BY DEF PutStats, TypeOK
<1>4. /\ \A n \in 0 .. c : canonical[n] = RAnc[b][n]
      /\ \A n \in 0 .. k - 1 : \A m \in Recorded(RAnc[b][n]) : confirming[m] = RAnc[b][n]
      /\ \A n \in 0 .. k - 1 : \A s \in Shard, a \in Counter : Counted(RAnc[b][n], s, a)
      /\ \A n \in 0 .. l : \A m \in Content(RAnc[b][n]) : lookup[m] = RAnc[b][n]
  BY Zenon DEF IndexedUpto
<1>5. \A n \in 0 .. k : n = k \/ n \in 0 .. k - 1
  BY <1>1
<1>6. ASSUME NEW n \in 0 .. k, NEW m \in Recorded(RAnc[b][n]) PROVE confirming'[m] = RAnc[b][n]
  <2>0. n \in 0 .. RNumber[b] /\ k \in 0 .. RNumber[b]
    BY <1>1
  <2>1. m \in Content(RAnc[b][n]) /\ m \in MHeader
    <3>1. m \in Content(RAnc[b][n])
      BY DEF Recorded
    <3> QED BY <2>0, <3>1, <1>1, RootPath, ContentType
  <2>2. CASE n = k
    BY <1>1, <1>3, <2>1, <2>2
  <2>3. CASE n \in 0 .. k - 1
    <3>1. m \notin Recorded(Inserted)
      <4> SUFFICES ASSUME m \in Content(RAnc[b][k]) PROVE FALSE
        BY <1>1 DEF Recorded
      <4>1. ChainConfirmed(b)
        BY <1>2 DEF BlockOK
      <4>2. n = k
        BY <4>1, <2>0, <2>1, <1>1, OneHeight
      <4> QED BY <4>2, <2>3, <1>1
    <3> QED BY <1>3, <1>4, <2>1, <2>3, <3>1
  <2> QED BY <1>5, <2>2, <2>3
<1>7. ASSUME NEW n \in 0 .. k, NEW s \in Shard, NEW a \in Counter PROVE Counted(RAnc[b][n], s, a)'
  <2>c. a \in Miner /\ counts' = [counts EXCEPT ![k] = PutCounts(Inserted)]
    BY <1>3 DEF Counter
  <2>0. n \in 0 .. RNumber[b] /\ RAnc[b][n] \in RBlock /\ RNumber[RAnc[b][n]] = n /\ n \in Heights
    <3>1. n \in 0 .. RNumber[b]
      BY <1>1
    <3> QED BY <3>1, <1>1, RootPath DEF Heights
  <2>1. CASE n \in 0 .. k - 1
    <3>1. counts'[n] = counts[n]
      <4>1. n # k
        BY <1>1, <2>1
      <4> QED BY <1>3, <2>0, <2>c, <4>1
    <3>2. Counted(RAnc[b][n], s, a)
      BY <1>4, <2>1
    <3> QED BY <2>0, <3>1, <3>2 DEF Counted, BlockCount
  <2>2. CASE n = k
    <3> DEFINE q == Inserted
               p == ParentBlock(q)
    <3>1. /\ RNumber[q] >= 1 /\ p = RAnc[b][k - 1] /\ RNumber[p] = k - 1 /\ k - 1 \in Heights
          /\ k - 1 \in 0 .. k - 1
      <4>1. k \in Nat /\ k >= 1 /\ k - 1 \in 0 .. k /\ k - 1 \in 0 .. RNumber[b]
        BY <1>1
      <4>2. p = RAnc[q][k - 1]
        BY <1>1 DEF ParentBlock, ParentOf
      <4>3. RAnc[b][k - 1] \in RBlock /\ RNumber[RAnc[b][k - 1]] = k - 1
        BY <1>1, <4>1, RootPath, ZenonT(40)
      <4>4. k - 1 \in Heights
        BY <4>3 DEF Heights
      <4>5. RAnc[q][k - 1] = RAnc[b][k - 1] /\ RNumber[q] = k
        BY <1>1, <4>1
      <4>6. k - 1 \in 0 .. k - 1
        BY <4>1
      <4> QED BY <4>1, <4>2, <4>3, <4>4, <4>5, <4>6
    <3>2. BlockCount(k - 1, s, a) >= MinedUpto(p, s, a)
      BY <1>4, <3>1, ZenonT(40) DEF Counted
    <3>3. /\ MinedUpto(q, s, a) \in Nat /\ MinedUpto(p, s, a) \in Nat /\ Mined(q, s, a) \in Nat
          /\ MinedUpto(q, s, a) <= MinedUpto(p, s, a) + Mined(q, s, a)
      BY <1>1, <2>c, <3>1, MinedStep
    <3>4. BlockCount(k - 1, s, a) \in Nat
      <4>1. counts[k - 1][s][a] \in Nat
        BY <1>3, <2>c, <3>1
      <4> QED BY <4>1 DEF BlockCount
    <3>5. MinedUpto(q, s, a) <= BlockCount(k - 1, s, a) + Mined(q, s, a)
      BY <3>2, <3>3, <3>4
    <3>6. counts'[k][s][a] >= MinedUpto(q, s, a)
      <4> DEFINE new == [x \in Miner |-> BlockCount(RNumber[q] - 1, s, x) + Mined(q, s, x)]
      <4>1. counts'[k][s] = IF \A x \in Miner : new[x] = 0 THEN counts[k][s] ELSE new
        BY <1>1, <1>3, <2>c DEF PutCounts
      <4>2. new[a] = BlockCount(k - 1, s, a) + Mined(q, s, a)
        BY <1>1, <2>c
      <4>3. counts[k][s][a] \in Nat
        BY <1>1, <1>3, <2>c
      <4> HIDE DEF new
      <4>4. CASE \A x \in Miner : new[x] = 0
        <5>1. MinedUpto(q, s, a) = 0
          BY <2>c, <3>3, <3>5, <4>2, <4>4
        <5> QED BY <4>1, <4>3, <4>4, <5>1
      <4>5. CASE ~(\A x \in Miner : new[x] = 0)
        <5>1. counts'[k][s][a] = BlockCount(k - 1, s, a) + Mined(q, s, a)
          BY <4>1, <4>2, <4>5
        <5> QED BY <3>3, <3>4, <3>5, <5>1
      <4> QED BY <4>4, <4>5
    <3>7. CASE s \in Initialized(k)
      BY <1>1, <2>2, <3>6, <3>7 DEF Counted, BlockCount, Counter
    <3>8. CASE s \notin Initialized(k)
      <4>1. Confirmed(q, s) = {}
        BY <1>1, <1>2, <3>8 DEF BlockOK, ShardsCreated
      <4>2. MinedUpto(q, s, a) = 0
        <5>1. {m \in Confirmed(q, s) : MinerOf[m] = a} = {}
          BY <4>1
        <5> QED BY <5>1, FS_EmptySet DEF MinedUpto
      <4>3. BlockCount(k, s, a)' = 0
        BY <3>8 DEF BlockCount
      <4>4. RAnc[b][n] = q /\ RNumber[q] = k
        BY <1>1, <2>2
      <4> QED BY <4>2, <4>3, <4>4 DEF Counted
    <3> QED BY <3>7, <3>8
  <2> QED BY <1>5, <2>1, <2>2
<1>8. \A n \in 0 .. c : canonical'[n] = RAnc[b][n]
  BY <1>3, <1>4
<1>9. \A n \in 0 .. l : \A m \in Content(RAnc[b][n]) : lookup'[m] = RAnc[b][n]
  BY <1>3, <1>4
<1> QED BY <1>6, <1>7, <1>8, <1>9 DEF IndexedUpto

\* WriteLookups: the headers of lower root blocks keep their lookup entries.
LEMMA LookupStep ==
    ASSUME TypeOK, JobOK, StoredOK, WriteLookups, NEW c, NEW t,
           NEW b, b = job.block, NEW k, k = job.next, IndexedUpto(b, c, t, k - 1)
    PROVE  IndexedUpto(b, c, t, k)'
<1>1. /\ b \in RBlock /\ b \in rdb /\ k \in 1 .. RNumber[b] /\ RNumber[b] \in Nat
      /\ Inserted = RAnc[b][k]
  BY InsertedFacts DEF WriteLookups, Inserting, Inserted
<1>2. ChainConfirmed(b)
  BY <1>1 DEF StoredOK, BlockOK
<1>3. /\ canonical' = canonical /\ confirming' = confirming /\ counts' = counts
      /\ lookup' = [m \in MHeader |-> IF m \in Content(Inserted) THEN Inserted ELSE lookup[m]]
  BY DEF WriteLookups
<1>4. /\ \A n \in 0 .. c : canonical[n] = RAnc[b][n]
      /\ \A n \in 0 .. t : \A m \in Recorded(RAnc[b][n]) : confirming[m] = RAnc[b][n]
      /\ \A n \in 0 .. t : \A s \in Shard, a \in Counter : Counted(RAnc[b][n], s, a)
      /\ \A n \in 0 .. k - 1 : \A m \in Content(RAnc[b][n]) : lookup[m] = RAnc[b][n]
  BY Zenon DEF IndexedUpto
<1>5. ASSUME NEW n \in 0 .. k, NEW m \in Content(RAnc[b][n]) PROVE lookup'[m] = RAnc[b][n]
  <2>0. n \in 0 .. RNumber[b] /\ k \in 0 .. RNumber[b] /\ (n = k \/ n \in 0 .. k - 1)
    BY <1>1
  <2>1. m \in MHeader
    BY <2>0, <1>1, RootPath, ContentType
  <2>2. CASE n = k
    BY <1>1, <1>3, <2>1, <2>2
  <2>3. CASE n \in 0 .. k - 1
    <3>1. m \notin Content(Inserted)
      <4> SUFFICES ASSUME m \in Content(RAnc[b][k]) PROVE FALSE
        BY <1>1
      <4>1. n = k
        BY <1>2, <2>0, <1>1, OneHeight
      <4> QED BY <4>1, <2>3, <1>1
    <3> QED BY <1>3, <1>4, <2>1, <2>3, <3>1
  <2> QED BY <2>0, <2>2, <2>3
<1>6. \A n \in 0 .. c : canonical'[n] = RAnc[b][n]
  BY <1>3, <1>4
<1>7. \A n \in 0 .. t : \A m \in Recorded(RAnc[b][n]) : confirming'[m] = RAnc[b][n]
  BY <1>3, <1>4
<1>8. \A n \in 0 .. t : \A s \in Shard, a \in Counter : Counted(RAnc[b][n], s, a)'
  BY <1>3, <1>4 DEF Counted, BlockCount
<1> QED BY <1>5, <1>6, <1>7, <1>8 DEF IndexedUpto

\* The end of reorg deletes no lookup entry of a header that the new chain confirms: such a
\* header is among the added ones, or it lies below the fork and so not above it.
LEMMA CleanStep ==
    ASSUME TypeOK, JobOK, StoredOK, DeleteLookups, NEW b, b = job.block,
           IndexedUpto(b, RNumber[b], RNumber[b], RNumber[b])
    PROVE  IndexedUpto(b, RNumber[b], RNumber[b], RNumber[b])'
<1>1. /\ b \in RBlock /\ b \in rdb /\ RNumber[b] \in Nat
      /\ job.old \in RBlock /\ job.old \in rdb /\ RNumber[job.old] \in Nat
  BY InsertedFacts, RootPath DEF DeleteLookups, Inserting
<1>2. ChainConfirmed(job.old)
  BY <1>1 DEF StoredOK, BlockOK
<1>3. /\ canonical' = canonical /\ confirming' = confirming /\ counts' = counts
      /\ lookup' = [m \in MHeader |-> IF m \in DeletedHeaders \ AddedHeaders THEN None ELSE lookup[m]]
  BY DEF DeleteLookups
<1>4. ASSUME NEW n \in 0 .. RNumber[b], NEW m \in Content(RAnc[b][n])
      PROVE  lookup'[m] = RAnc[b][n]
  <2>1. m \in MHeader /\ lookup[m] = RAnc[b][n]
    <3>1. m \in MHeader
      BY <1>1, RootPath, ContentType
    <3>2. lookup[m] = RAnc[b][n]
      BY Zenon DEF IndexedUpto
    <3> QED BY <3>1, <3>2
  <2>2. n # 0
    <3> SUFFICES ASSUME n = 0 PROVE FALSE
      OBVIOUS
    <3>1. RAnc[b][n] = Genesis
      BY <1>1, RootPath
    <3> QED BY <3>1, ContentAssumption DEF Content
  <2>3. n \in 1 .. RNumber[b]
    BY <2>2, <1>1
  <2>4. m \notin DeletedHeaders \ AddedHeaders
    <3>1. CASE n <= RNumber[job.old] => RAnc[job.old][n] # RAnc[b][n]
      BY <2>3, <3>1 DEF AddedHeaders
    <3>2. CASE n <= RNumber[job.old] /\ RAnc[job.old][n] = RAnc[b][n]
      <4> SUFFICES ASSUME m \in DeletedHeaders PROVE FALSE
        OBVIOUS
      <4>1. PICK h \in RNumber[b] + 1 .. RNumber[job.old] : m \in Content(RAnc[job.old][h])
        BY DEF DeletedHeaders
      <4>2. n \in 0 .. RNumber[job.old] /\ h \in 0 .. RNumber[job.old] /\ n < h
        BY <1>1, <2>3, <3>2, <4>1
      <4>3. m \in Content(RAnc[job.old][n])
        BY <3>2
      <4>4. n = h
        BY <1>1, <1>2, <4>1, <4>2, <4>3, OneHeight
      <4> QED BY <4>2, <4>4
    <3> QED BY <3>1, <3>2
  <2> QED BY <1>3, <2>1, <2>4
<1>5. \A n \in 0 .. RNumber[b] : canonical'[n] = RAnc[b][n]
  BY <1>3 DEF IndexedUpto
<1>6. \A n \in 0 .. RNumber[b] : \A m \in Recorded(RAnc[b][n]) : confirming'[m] = RAnc[b][n]
  BY <1>3 DEF IndexedUpto
<1>7. \A n \in 0 .. RNumber[b] : \A s \in Shard, a \in Counter : Counted(RAnc[b][n], s, a)'
  <2>1. \A n \in 0 .. RNumber[b] : \A s \in Shard, a \in Counter : Counted(RAnc[b][n], s, a)
    BY Zenon DEF IndexedUpto
  <2> QED BY <1>3, <2>1 DEF Counted, BlockCount
<1> QED BY <1>4, <1>5, <1>6, <1>7 DEF IndexedUpto

\* The indexes that follow one block up to a fork follow any other block above the fork.
LEMMA ForkIndexed ==
    ASSUME NEW old \in RBlock, NEW new \in RBlock, NEW fork \in 0 .. RNumber[new],
           ForkHeight(old, new, fork),
           IndexedUpto(old, RNumber[old], RNumber[old], RNumber[old])
    PROVE  IndexedUpto(new, fork, fork, fork)
<1>1. RNumber[old] \in Nat /\ RNumber[new] \in Nat
  BY RootPath
<1>2. fork \in 0 .. RNumber[old] /\ RAnc[old][fork] = RAnc[new][fork]
  BY <1>1 DEF ForkHeight
<1>3. /\ \A k \in 0 .. fork : RAnc[RAnc[old][fork]][k] = RAnc[old][k]
      /\ \A k \in 0 .. fork : RAnc[RAnc[new][fork]][k] = RAnc[new][k]
  BY <1>1, <1>2, RootPath
<1>4. \A n \in 0 .. fork : RAnc[new][n] = RAnc[old][n] /\ n \in 0 .. RNumber[old]
  BY <1>1, <1>2, <1>3
<1> DEFINE N == RNumber[old]
<1>5. /\ \A n \in 0 .. N : canonical[n] = RAnc[old][n]
      /\ \A n \in 0 .. N : \A m \in Recorded(RAnc[old][n]) : confirming[m] = RAnc[old][n]
      /\ \A n \in 0 .. N : \A s \in Shard, a \in Counter : Counted(RAnc[old][n], s, a)
      /\ \A n \in 0 .. N : \A m \in Content(RAnc[old][n]) : lookup[m] = RAnc[old][n]
  BY Zenon DEF IndexedUpto
<1>6. /\ \A n \in 0 .. fork : canonical[n] = RAnc[new][n]
      /\ \A n \in 0 .. fork : \A m \in Recorded(RAnc[new][n]) : confirming[m] = RAnc[new][n]
      /\ \A n \in 0 .. fork : \A s \in Shard, a \in Counter : Counted(RAnc[new][n], s, a)
      /\ \A n \in 0 .. fork : \A m \in Content(RAnc[new][n]) : lookup[m] = RAnc[new][n]
  BY <1>4, <1>5
<1> QED BY <1>6, Zenon DEF IndexedUpto

\* How FollowedOK of the next state is shown: the block that is followed there, and the
\* heights up to which the indexes agree with it.
LEMMA FollowedNext ==
    ASSUME NEW b, NEW c, NEW t, NEW l, Up', Best(b)', IndexedUpto(b, c, t, l)',
           Followed' = b, CanonicalTop' = c, StatsTop' = t, LookupTop' = l
    PROVE  FollowedOK'
BY DEF FollowedOK, IndexedUpto, Best, Counted

\* Every step keeps the indexes at the heights that the insertion has reached: each write
\* of insert and reorg takes one of the indexes one height further.
LEMMA FollowedStep ==
    ASSUME TypeOK, JobOK, StoredOK, FollowedOK, [Next]_vars
    PROVE  FollowedOK'
<1> SUFFICES ASSUME crashes' = 0 PROVE FollowedOK'
  BY DEF FollowedOK
<1>0. ~Crash /\ crashes = 0
  <2>1. crashes \in Nat
    BY ContentAssumption DEF TypeOK
  <2>2. ~Crash
    BY <2>1 DEF Crash
  <2>3. crashes' = crashes
    BY <2>2 DEF Next, Step, AddMinorBlockHeader, InsertChain, WriteBlock, PutRootBlockIndex, PutStats,
                WriteHead, WriteLookups, DeleteLookups, Restart, vars
  <2> QED BY <2>2, <2>3
<1>a. /\ Up /\ Best(Followed)
      /\ IndexedUpto(Followed, CanonicalTop, StatsTop, LookupTop)
  BY <1>0 DEF FollowedOK
<1>b. job = [st |-> job.st, block |-> job.block, next |-> job.next, old |-> job.old]
  BY DEF TypeOK
<1>c. current \in RBlock /\ current \in rdb /\ RNumber[current] \in Nat
  BY <1>a, RootPath DEF TypeOK, JobOK
\* A step that neither begins nor ends an insertion, nor takes it further.
<1>d. ASSUME UNCHANGED <<canonical, confirming, lookup, counts, current, rdb>>,
             job' = job \/ (~Inserting /\ ~Inserting')
      PROVE  FollowedOK'
  <2>1. /\ Followed' = Followed /\ CanonicalTop' = CanonicalTop
        /\ StatsTop' = StatsTop /\ LookupTop' = LookupTop /\ Up' 
    BY <1>a, <1>d DEF Followed, CanonicalTop, StatsTop, LookupTop, Inserting, HeadWritten, Extends, Up
  <2>2. ASSUME NEW b, b = Followed PROVE Best(b)'
    BY <1>a, <1>d, <2>2 DEF Best
  <2>3. ASSUME NEW b, NEW c, NEW t, NEW l, IndexedUpto(b, c, t, l) PROVE IndexedUpto(b, c, t, l)'
    BY <1>d, <2>3, IndexedSame
  <2>4. ASSUME NEW b, NEW c, NEW t, NEW l,
               b = Followed, c = CanonicalTop, t = StatsTop, l = LookupTop
        PROVE  FollowedOK'
    <3>1. Best(b)' /\ IndexedUpto(b, c, t, l)'
      BY <1>a, <2>2, <2>3, <2>4
    <3>2. Followed' = b /\ CanonicalTop' = c /\ StatsTop' = t /\ LookupTop' = l
      BY <2>1, <2>4
    <3> QED BY <2>1, <3>1, <3>2, FollowedNext
  <2> QED BY <2>4
<1>1. CASE \E m \in MHeader : AddMinorBlockHeader(m)
  BY <1>1, <1>d DEF AddMinorBlockHeader
<1>2. ASSUME NEW r \in RBlock, InsertChain(r) PROVE FollowedOK'
  <2>1. ~Inserting /\ ~Inserting'
    BY <1>2 DEF InsertChain, NoJob, Inserting
  <2> QED BY <1>2, <1>d, <2>1 DEF InsertChain
<1>3. CASE WriteBlock
  <2>1. /\ job.block \in RBlock /\ RNumber[job.block] \in Nat /\ RNumber[job.block] >= 1
        /\ ~Inserting /\ job.old = current
    BY <1>3, RootPath DEF WriteBlock, JobOK, Inserting
  <2>2. /\ Followed = current /\ CanonicalTop = RNumber[current]
        /\ StatsTop = RNumber[current] /\ LookupTop = RNumber[current]
    BY <2>1 DEF Followed, CanonicalTop, StatsTop, LookupTop
  <2>3. /\ UNCHANGED <<canonical, confirming, lookup, counts, current>> /\ Up'
    BY <1>3, <1>a DEF WriteBlock, Up
  <2>4. ASSUME NEW b, b = job.block, NEW cur, cur = current PROVE FollowedOK'
    <3>1. IF Heavier(b, cur) THEN Best(b)' ELSE Best(cur)'
      BY <1>3, <1>a, <2>2, <2>4, BestStep
    <3>2. IndexedUpto(cur, RNumber[cur], RNumber[cur], RNumber[cur])
      BY <1>a, <2>2, <2>4
    <3>3. CASE ~Heavier(b, cur)
      <4>1. job' = NoJob
        BY <1>3, <2>4, <3>3, WriteBlockJob
      <4>2. ~Inserting'
        BY <4>1 DEF NoJob, Inserting
      <4>3. /\ Followed' = cur /\ CanonicalTop' = RNumber[cur]
            /\ StatsTop' = RNumber[cur] /\ LookupTop' = RNumber[cur]
        BY <2>3, <2>4, <4>2 DEF Followed, CanonicalTop, StatsTop, LookupTop
      <4>4. IndexedUpto(cur, RNumber[cur], RNumber[cur], RNumber[cur])'
        BY <2>3, <3>2, IndexedSame
      <4> QED BY <2>3, <3>1, <3>3, <4>3, <4>4, FollowedNext
    <3>4. CASE Heavier(b, cur)
      <4>1. PICK fork \in 0 .. RNumber[b] - 1 :
               /\ ForkHeight(cur, b, fork)
               /\ job' = [st |-> IF Extends THEN "lookup" ELSE "index", block |-> b,
                          next |-> fork + 1, old |-> job.old]
        BY <1>3, <2>4, <3>4, WriteBlockJob
      <4>2. fork \in 0 .. RNumber[b] /\ fork \in Nat /\ (fork + 1) - 1 = fork
        BY <2>1, <2>4
      <4>3. IndexedUpto(b, fork, fork, fork)
        BY <1>c, <2>1, <2>4, <3>2, <4>1, <4>2, ForkIndexed
      <4>4. IndexedUpto(b, fork, fork, fork)'
        BY <2>3, <4>3, IndexedSame
      <4>5. /\ job'.st = IF Extends THEN "lookup" ELSE "index"
            /\ job'.block = b /\ job'.next = fork + 1 /\ job'.old = job.old
        BY <4>1
      <4>6. Extends' <=> Extends
        BY <2>4, <4>5 DEF Extends
      <4>7. Inserting' /\ ~HeadWritten' /\ Followed' = b
        BY <4>5, <4>6 DEF Inserting, HeadWritten, Followed
      <4>8. CanonicalTop' = fork /\ StatsTop' = fork /\ LookupTop' = fork
        BY <4>2, <4>5, <4>6, <4>7 DEF CanonicalTop, StatsTop, LookupTop
      <4> QED BY <2>3, <3>1, <3>4, <4>4, <4>7, <4>8, FollowedNext
    <3> QED BY <3>3, <3>4
  <2> QED BY <2>4
\* The remaining steps of an insertion follow its block.
<1>e. ASSUME Inserting
      PROVE  /\ Followed = job.block /\ job.block \in RBlock /\ RNumber[job.block] \in Nat
             /\ job.next \in 1 .. RNumber[job.block] /\ job.next \in Nat
  BY <1>e, InsertedFacts DEF Followed
<1>f. ASSUME Inserting, UNCHANGED rdb, NEW b, b = job.block PROVE Best(b)'
  BY <1>a, <1>e, <1>f DEF Best
<1>4. CASE PutRootBlockIndex
  <2>1. /\ job.st = "index" /\ Inserting /\ job' = [job EXCEPT !.st = "stats"]
        /\ canonical' = [canonical EXCEPT ![job.next] = Inserted]
        /\ UNCHANGED <<confirming, lookup, counts, current, rdb>>
    BY <1>4 DEF PutRootBlockIndex, Inserting
  <2>2. /\ job'.st = "stats" /\ job'.block = job.block /\ job'.next = job.next /\ job'.old = job.old
    BY <1>b, <2>1
  <2>3. ASSUME NEW b, b = job.block, NEW k, k = job.next, NEW l, l = LookupTop PROVE FollowedOK'
    <3>1. k \in 1 .. RNumber[b] /\ k \in Nat /\ RNumber[b] \in Nat /\ b \in RBlock
      BY <1>e, <2>1, <2>3
    <3>2. CanonicalTop = k - 1 /\ StatsTop = k - 1
      BY <2>1, <2>3 DEF CanonicalTop, StatsTop, HeadWritten
    <3>3. IndexedUpto(b, k - 1, k - 1, l)
      BY <1>a, <1>e, <2>1, <2>3, <3>2
    <3>4. Inserted = RAnc[b][k] /\ k \in Heights /\ canonical \in [Heights -> RBlock \cup {None}]
      BY <2>1, <2>3, InsertedFacts DEF Inserted, TypeOK
    <3>5. \A n \in 0 .. k : canonical'[n] = RAnc[b][n]
      <4>1. \A n \in 0 .. k - 1 : canonical[n] = RAnc[b][n]
        BY <3>3, Zenon DEF IndexedUpto
      <4>2. \A n \in 0 .. k : n = k \/ n \in 0 .. k - 1
        BY <3>1
      <4>3. \A n \in 0 .. k - 1 : n # k /\ n \in Heights
        <5>1. \A n \in 0 .. k - 1 : n # k /\ n \in 0 .. RNumber[b]
          BY <3>1
        <5> QED BY <5>1, <3>1, RootPath DEF Heights
      <4> QED BY <2>1, <2>3, <3>4, <4>1, <4>2, <4>3
    <3>6. IndexedUpto(b, k, k - 1, l)'
      <4>1. \A n \in 0 .. k - 1 : \A s \in Shard, a \in Counter : Counted(RAnc[b][n], s, a)'
        BY <2>1, <3>3 DEF IndexedUpto, Counted, BlockCount
      <4>2. /\ \A n \in 0 .. k - 1 : \A m \in Recorded(RAnc[b][n]) : confirming'[m] = RAnc[b][n]
            /\ \A n \in 0 .. l : \A m \in Content(RAnc[b][n]) : lookup'[m] = RAnc[b][n]
        BY <2>1, <3>3 DEF IndexedUpto
      <4> QED BY <3>5, <4>1, <4>2 DEF IndexedUpto
    <3>7. Inserting' /\ ~HeadWritten' /\ (Extends' <=> Extends) /\ Followed' = b
      BY <2>2, <2>3 DEF Inserting, HeadWritten, Extends, Followed
    <3>8. CanonicalTop' = k /\ StatsTop' = k - 1 /\ LookupTop' = l
      BY <2>1, <2>2, <2>3, <3>7 DEF CanonicalTop, StatsTop, LookupTop
    <3>9. Up' /\ Best(b)'
      BY <1>a, <1>f, <2>1, <2>3 DEF Up
    <3> QED BY <3>6, <3>7, <3>8, <3>9, FollowedNext
  <2> QED BY <2>3
<1>5. CASE PutStats
  <2>1. /\ job.st = "stats" /\ Inserting /\ job' = [job EXCEPT !.st = "head"]
        /\ UNCHANGED <<current, rdb>>
    BY <1>5 DEF PutStats, Inserting
  <2>2. /\ job'.st = "head" /\ job'.block = job.block /\ job'.next = job.next /\ job'.old = job.old
    BY <1>b, <2>1
  <2>3. ASSUME NEW b, b = job.block, NEW k, k = job.next, NEW l, l = LookupTop PROVE FollowedOK'
    <3>1. CanonicalTop = k /\ StatsTop = k - 1
      BY <2>1, <2>3 DEF CanonicalTop, StatsTop, HeadWritten
    <3>2. IndexedUpto(b, k, k - 1, l)
      BY <1>a, <1>e, <2>1, <2>3, <3>1
    <3>3. IndexedUpto(b, k, k, l)'
      BY <1>5, <2>3, <3>2, StatsStep
    <3>4. Inserting' /\ ~HeadWritten' /\ (Extends' <=> Extends) /\ Followed' = b
      BY <2>2, <2>3 DEF Inserting, HeadWritten, Extends, Followed
    <3>5. CanonicalTop' = k /\ StatsTop' = k /\ LookupTop' = l
      BY <2>1, <2>2, <2>3, <3>4 DEF CanonicalTop, StatsTop, LookupTop
    <3>6. Up' /\ Best(b)'
      BY <1>a, <1>f, <2>1, <2>3 DEF Up
    <3> QED BY <3>3, <3>4, <3>5, <3>6, FollowedNext
  <2> QED BY <2>3
<1>6. CASE WriteHead
  <2>1. /\ job.st = "head" /\ Inserting /\ current' = Inserted
        /\ UNCHANGED <<canonical, confirming, lookup, counts, rdb>>
    BY <1>6 DEF WriteHead, Inserting
  <2>2. Inserted # None /\ Inserted = RAnc[job.block][job.next]
    BY <2>1, InsertedFacts, TreeAssumption DEF Inserted
  <2>3. Up'
    BY <2>1, <2>2 DEF Up
  <2>4. ASSUME NEW b, b = job.block, NEW k, k = job.next, NEW l, l = LookupTop PROVE FollowedOK'
    <3>1. CanonicalTop = k /\ StatsTop = k /\ l = IF Extends THEN k ELSE k - 1
      BY <2>1, <2>4 DEF CanonicalTop, StatsTop, LookupTop, HeadWritten
    <3>2. IndexedUpto(b, k, k, l)
      BY <1>a, <1>e, <2>1, <2>4, <3>1
    <3>3. IndexedUpto(b, k, k, l)'
      BY <2>1, <3>2, IndexedSame
    <3>4. Best(b)'
      BY <1>f, <2>1, <2>4
    <3>5. CASE Extends
      <4>1. job' = NoJob /\ k = RNumber[b] /\ b \in RBlock
        BY <1>6, <1>e, <2>1, <2>4, <3>5 DEF WriteHead, JobOK
      <4>2. current' = b
        BY <2>1, <2>2, <2>4, <4>1, RootPath
      <4>3. ~Inserting'
        BY <4>1 DEF NoJob, Inserting
      <4>4. Followed' = b /\ CanonicalTop' = k /\ StatsTop' = k /\ LookupTop' = k
        BY <4>1, <4>2, <4>3 DEF Followed, CanonicalTop, StatsTop, LookupTop
      <4>5. l = k
        BY <3>1, <3>5
      <4> QED BY <2>3, <3>3, <3>4, <4>4, <4>5, FollowedNext
    <3>6. CASE ~Extends
      <4>1. job' = [job EXCEPT !.st = "lookup"]
        BY <1>6, <3>6 DEF WriteHead
      <4>2. /\ job'.st = "lookup" /\ job'.block = b /\ job'.next = k /\ job'.old = job.old
        BY <1>b, <2>4, <4>1
      <4>3. ~Extends'
        BY <2>4, <3>6, <4>2 DEF Extends
      <4>4. Inserting' /\ HeadWritten' /\ Followed' = b
        BY <4>2, <4>3 DEF Inserting, HeadWritten, Followed
      <4>5. CanonicalTop' = k /\ StatsTop' = k /\ LookupTop' = l
        BY <3>1, <3>6, <4>2, <4>3, <4>4 DEF CanonicalTop, StatsTop, LookupTop
      <4> QED BY <2>3, <3>3, <3>4, <4>4, <4>5, FollowedNext
    <3> QED BY <3>5, <3>6
  <2> QED BY <2>4
<1>7. CASE WriteLookups
  <2>1. job.st = "lookup" /\ Inserting /\ UNCHANGED <<current, rdb>> /\ Up'
    BY <1>7, <1>a DEF WriteLookups, Inserting, Up
  <2>2. ASSUME NEW b, b = job.block, NEW k, k = job.next, NEW c, c = CanonicalTop PROVE FollowedOK'
    <3>1. StatsTop = c /\ c = (IF Extends THEN k - 1 ELSE k) /\ LookupTop = k - 1
      BY <2>1, <2>2 DEF CanonicalTop, StatsTop, LookupTop, HeadWritten
    <3>2. IndexedUpto(b, c, c, k - 1)
      BY <1>a, <1>e, <2>1, <2>2, <3>1
    <3>3. IndexedUpto(b, c, c, k)'
      BY <1>7, <2>2, <3>2, LookupStep
    <3>4. Best(b)' /\ k \in Nat
      BY <1>e, <1>f, <2>1, <2>2
    <3>5. ASSUME Extends, job' = [st |-> "index", block |-> b, next |-> k, old |-> job.old]
          PROVE  FollowedOK'
      <4>1. Extends'
        BY <2>2, <3>5 DEF Extends
      <4>2. Inserting' /\ ~HeadWritten' /\ Followed' = b
        BY <3>5 DEF Inserting, HeadWritten, Followed
      <4>3. CanonicalTop' = c /\ StatsTop' = c /\ LookupTop' = k
        BY <3>1, <3>5, <4>1, <4>2 DEF CanonicalTop, StatsTop, LookupTop
      <4> QED BY <2>1, <3>3, <3>4, <4>2, <4>3, FollowedNext
    <3>6. ASSUME ~Extends, job' = [st |-> "index", block |-> b, next |-> k + 1, old |-> job.old]
          PROVE  FollowedOK'
      <4>1. ~Extends' /\ (k + 1) - 1 = k
        BY <2>2, <3>4, <3>6 DEF Extends
      <4>2. Inserting' /\ ~HeadWritten' /\ Followed' = b
        BY <3>6 DEF Inserting, HeadWritten, Followed
      <4>3. CanonicalTop' = c /\ StatsTop' = c /\ LookupTop' = k
        BY <3>1, <3>6, <4>1, <4>2 DEF CanonicalTop, StatsTop, LookupTop
      <4> QED BY <2>1, <3>3, <3>4, <4>2, <4>3, FollowedNext
    <3>7. ASSUME ~Extends, job' = [st |-> "clean", block |-> b, next |-> k, old |-> job.old]
          PROVE  FollowedOK'
      <4>2. Inserting' /\ HeadWritten' /\ Followed' = b
        BY <3>7 DEF Inserting, HeadWritten, Followed
      <4>3. CanonicalTop' = c /\ StatsTop' = c /\ LookupTop' = k
        BY <3>1, <3>7, <4>2 DEF CanonicalTop, StatsTop, LookupTop
      <4> QED BY <2>1, <3>3, <3>4, <4>2, <4>3, FollowedNext
    <3> QED BY <1>7, <2>2, <3>5, <3>6, <3>7, WriteLookupsJob
  <2> QED BY <2>2
<1>8. CASE DeleteLookups
  <2>1. /\ job.st = "clean" /\ Inserting /\ job' = NoJob /\ UNCHANGED <<current, rdb>> /\ HeadWritten /\ Up'
    BY <1>8, <1>a DEF DeleteLookups, Inserting, HeadWritten, Up
  <2>2. ASSUME NEW b, b = job.block PROVE FollowedOK'
    <3>1. job.next = RNumber[b] /\ current = Inserted /\ b \in RBlock
      BY <1>e, <2>1, <2>2 DEF JobOK
    <3>2. current = b
      BY <2>2, <3>1, RootPath DEF Inserted
    <3>3. CanonicalTop = RNumber[b] /\ StatsTop = RNumber[b] /\ LookupTop = RNumber[b]
      BY <2>1, <3>1 DEF CanonicalTop, StatsTop, LookupTop
    <3>4. IndexedUpto(b, RNumber[b], RNumber[b], RNumber[b])
      BY <1>a, <1>e, <2>1, <2>2, <3>3
    <3>5. IndexedUpto(b, RNumber[b], RNumber[b], RNumber[b])'
      BY <1>8, <2>2, <3>4, CleanStep
    <3>6. Best(b)'
      BY <1>f, <2>1, <2>2
    <3>7. ~Inserting'
      BY <2>1 DEF NoJob, Inserting
    <3>8. /\ Followed' = b /\ CanonicalTop' = RNumber[b]
          /\ StatsTop' = RNumber[b] /\ LookupTop' = RNumber[b]
      BY <2>1, <3>2, <3>7 DEF Followed, CanonicalTop, StatsTop, LookupTop
    <3> QED BY <2>1, <3>5, <3>6, <3>8, FollowedNext
  <2> QED BY <2>2
<1>10. CASE Restart
  BY <1>10, <1>a DEF Restart
<1>11. CASE UNCHANGED vars
  BY <1>11, <1>d DEF vars
<1> QED BY <1>0, <1>1, <1>2, <1>3, <1>4, <1>5, <1>6, <1>7, <1>8, <1>10, <1>11 DEF Next, Step

\* A new master follows the genesis.
LEMMA InitFollowed == Init => FollowedOK
<1> SUFFICES ASSUME Init PROVE FollowedOK
  OBVIOUS
<1> USE DEF Init
<1>1. /\ Genesis \in RBlock /\ RNumber[Genesis] = 0 /\ 0 \in Heights
      /\ RAnc[Genesis][0] = Genesis /\ Genesis # None
  BY TreeAssumption DEF Heights
<1>2. ~Inserting /\ Followed = Genesis /\ Up
  BY <1>1 DEF NoJob, Inserting, Followed, Up
<1>3. Content(Genesis) = {} /\ Recorded(Genesis) = {}
  BY ContentAssumption DEF Content, Recorded
<1>4. Best(Genesis)
  <2>1. rdb = {Genesis} /\ RNumber[Genesis] >= RNumber[Genesis]
    BY <1>1
  <2> QED BY <2>1 DEF Best
<1>5. ASSUME NEW s \in Shard, NEW a \in Counter PROVE Counted(Genesis, s, a)
  <2>1. MinedUpto(Genesis, s, a) = 0
    <3>1. {m \in Confirmed(Genesis, s) : MinerOf[m] = a} = {}
      BY ConfirmedGenesis
    <3> QED BY <3>1, FS_EmptySet DEF MinedUpto
  <2>2. BlockCount(0, s, a) = 0
    BY <1>1 DEF BlockCount, Counter
  <2> QED BY <1>1, <2>1, <2>2 DEF Counted
<1>6. CanonicalTop = 0 /\ StatsTop = 0 /\ LookupTop = 0
  BY <1>1, <1>2 DEF CanonicalTop, StatsTop, LookupTop
<1>7. \A n \in 0 .. 0 : RAnc[Genesis][n] = Genesis /\ canonical[n] = Genesis
  BY <1>1
<1> QED BY <1>2, <1>3, <1>4, <1>5, <1>6, <1>7 DEF FollowedOK, IndexedUpto

-----------------------------------------------------------------------------
\* The inductive invariant holds in every state.
THEOREM InvAlways == Spec => []Inv
<1>1. Init => FollowedOK
  BY InitFollowed
<1>2. BaseInv /\ FollowedOK /\ [Next]_vars => FollowedOK'
  BY FollowedStep DEF BaseInv
<1> QED BY <1>1, <1>2, BaseAlways, PTL DEF Spec, Inv

\* Whatever root blocks of whatever forks arrive, and wherever the master dies: the headers
\* that any stored chain confirms of a shard are one chain from height 0 on, without a gap
\* or a repetition; and between the insertions of a master that has not died the head is
\* the block that WriteBlockWithState prefers to all stored ones, with its path in the
\* canonical index.
THEOREM HeadAlways == Spec => []HeadSound
<1>1. Inv => HeadSound
  <2> SUFFICES ASSUME Inv PROVE HeadSound
    OBVIOUS
  <2>1. TypeOK /\ JobOK /\ StoredOK /\ FollowedOK
    BY DEF Inv, BaseInv
  <2>2. ASSUME Settled PROVE Best(current) /\ \A n \in 0 .. RNumber[current] : canonical[n] = RAnc[current][n]
    <3>1. ~Inserting /\ crashes = 0
      BY <2>2 DEF Settled, NoJob, Inserting
    <3>2. Followed = current /\ CanonicalTop = RNumber[current]
      BY <3>1 DEF Followed, CanonicalTop
    <3> QED BY <2>1, <3>1, <3>2 DEF FollowedOK, IndexedUpto
  <2>3. HeadHeaviest /\ CanonicalBelowHead
    BY <2>2 DEF HeadHeaviest, CanonicalBelowHead, Best
  <2>4. ConfirmedIsChain
    <3>1. \A r \in rdb : ChainConfirmed(r)
      BY <2>1 DEF StoredOK, BlockOK
    <3> QED BY <3>1 DEF ConfirmedIsChain, ChainConfirmed
  <2> QED BY <2>1, <2>3, <2>4 DEF HeadSound
<1> QED BY <1>1, InvAlways, PTL

\* Between the insertions of a master that has not died, a header that the chain of the
\* head confirms is found in the root block that confirms it, and, if the master counts
\* minor blocks, no miner's count is lower than the number of its blocks, whatever was
\* reorganised before.
THEOREM IndexesAlways == Spec => []IndexesSound
<1>1. Inv => IndexesSound
  <2> SUFFICES ASSUME Inv, Settled
               PROVE  /\ \A h \in 0 .. RNumber[current] : \A m \in Content(RAnc[current][h]) :
                            /\ lookup[m] = RAnc[current][h]
                            /\ CountMinorBlocks => confirming[m] = RAnc[current][h]
                      /\ CountMinorBlocks => \A s \in Shard, a \in Miner :
                            BlockCount(RNumber[current], s, a) >= MinedUpto(current, s, a)
    BY DEF IndexesSound, IndexesFollowHead, CountsCover
  <2>1. TypeOK /\ JobOK /\ FollowedOK
    BY DEF Inv, BaseInv
  <2>2. ~Inserting /\ crashes = 0 /\ Up
    BY DEF Settled, NoJob, Inserting
  <2>3. Followed = current /\ StatsTop = RNumber[current] /\ LookupTop = RNumber[current]
    BY <2>2 DEF Followed, StatsTop, LookupTop
  <2>4. current \in RBlock /\ RNumber[current] \in Nat /\ RAnc[current][RNumber[current]] = current
    BY <2>1, <2>2, RootPath DEF TypeOK, Up
  <2>5. IndexedUpto(current, CanonicalTop, RNumber[current], RNumber[current])
    BY <2>1, <2>2, <2>3 DEF FollowedOK
  <2>6. \A s \in Shard, a \in Counter : Counted(current, s, a)
    <3>1. RNumber[current] \in 0 .. RNumber[current]
      BY <2>4
    <3> QED BY <2>4, <2>5, <3>1 DEF IndexedUpto
  <2> QED BY <2>5, <2>6 DEF IndexedUpto, Counted, Counter, Recorded
<1> QED BY <1>1, InvAlways, PTL

=============================================================================
