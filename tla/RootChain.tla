------------------------------ MODULE RootChain ------------------------------
(***************************************************************************)
(* RootBlockChain: the root chain as the master keeps it.                  *)
(*                                                                         *)
(* The master stores every root block that RootBlockValidator accepts,     *)
(* follows the heaviest one and keeps four indexes for it: the canonical   *)
(* hash per height, the root block that confirms a minor block, the lookup *)
(* entries of minor headers and the number of minor blocks per miner.      *)
(* chainmu lets one insertion run at a time, but readers take no lock and  *)
(* the process may die, so an insertion is a job of one step per database  *)
(* write that others can see.                                              *)
(***************************************************************************)
EXTENDS BlockTree, Sequences, FiniteSets

CONSTANTS
    RBlock, RNumber, RAnc,  \* root blocks, their heights and paths
    Genesis,
    TD,                     \* TotalDifficulty
    HeaderOK,               \* root blocks that pass the checks that read no chain
    Headers,                \* MinorBlockHeaders of a root block
    MHeader,                \* minor block headers
    Shard,                  \* full shard ids
    Miner,                  \* coinbase recipients of minor blocks
    ShardOf, MinerOf, MNumber, ParentHeader, MPrevRoot,  \* fields of a minor header
    GenesisRootHeight,      \* root height at which a shard is created
    MaxBlocksPerShard,      \* MaxBlocksPerShardInOneRootBlock
    MaxStale,               \* MaxStaleRootBlockHeightDiff
    CountMinorBlocks,       \* countMinorBlocks: EnableTransactionHistory of the master
    None,                   \* an empty hash
    InitiallyValidated,     \* minor headers reported before the model starts
    MaxCrashes              \* bound on the crashes of the process

ASSUME TreeAssumption ==
    /\ IsBlockTree(RBlock, RNumber, RAnc)
    /\ Genesis \in RBlock /\ RNumber[Genesis] = 0
    /\ \A r \in RBlock : RAnc[r][0] = Genesis
    /\ None \notin RBlock /\ None \notin MHeader

\* The validator checks header.total = header.difficulty + parent.total.
ASSUME DifficultyAssumption ==
    /\ TD \in [RBlock -> Nat]
    /\ \A r \in RBlock : \A h \in 0 .. RNumber[r] - 1 : TD[RAnc[r][h]] < TD[r]

ASSUME ContentAssumption ==
    /\ HeaderOK \subseteq RBlock
    /\ Headers \in [RBlock -> Seq(MHeader)] /\ Headers[Genesis] = <<>>
    /\ Shard \subseteq Nat /\ IsFiniteSet(Shard)
    /\ ShardOf \in [MHeader -> Shard] /\ MinerOf \in [MHeader -> Miner]
    /\ MNumber \in [MHeader -> Nat] /\ ParentHeader \in [MHeader -> MHeader \cup {None}]
    /\ MPrevRoot \in [MHeader -> RBlock]
    /\ GenesisRootHeight \in [Shard -> Nat]
    /\ MaxBlocksPerShard \in Nat /\ MaxStale \in Nat /\ MaxCrashes \in Nat
    /\ CountMinorBlocks \in BOOLEAN
    /\ InitiallyValidated \subseteq MHeader

VARIABLES
    rdb,         \* root blocks in the database
    latest,      \* LatestMinorBlockHeaders: per root block, the last header of each shard
    canonical,   \* canonical hash per height
    head,        \* the head block hash in the database
    current,     \* currentBlock
    confirming,  \* RootBlockConfirmingMinorBlock
    lookup,      \* the root block in the lookup entry of a minor header
    counts,      \* MinorBlockCnt per height, shard and miner; none reads as 0
    validated,   \* minor headers the slaves have reported
    job,         \* the insertion in progress
    crashes

vars == <<rdb, latest, canonical, head, current, confirming, lookup, counts, validated, job,
          crashes>>

ParentBlock(r) == ParentOf(RNumber, RAnc, r)
Heights == {RNumber[r] : r \in RBlock}
Content(r) == {Headers[r][i] : i \in 1 .. Len(Headers[r])}
NoJob == [st |-> "idle", block |-> None, next |-> 0, old |-> None]
Up == current # None

\* GetInitializedShardIdsBeforeRootHeight
Initialized(height) == {s \in Shard : GenesisRootHeight[s] < height}

-----------------------------------------------------------------------------
\* The places of r that hold headers of shard s.
PlacesOf(r, s) == {i \in 1 .. Len(Headers[r]) : ShardOf[Headers[r][i]] = s}

\* The first header of a shard in r continues what the chain up to its parent has
\* confirmed: the latest header of the shard, or nothing.
Continues(r, m) ==
    LET prev == latest[ParentBlock(r)][ShardOf[m]]
    IN  IF prev = None THEN MNumber[m] = 0
                       ELSE MNumber[m] = MNumber[prev] + 1 /\ ParentHeader[m] = prev

\* Mutant: consecutive headers of a shard are compared by height only.
MutFollows(m, prev) == MNumber[m] = MNumber[prev] + 1

\* A later header of a shard follows the one before it.
Follows(m, prev) == MNumber[m] = MNumber[prev] + 1 /\ ParentHeader[m] = prev

\* ValidateBlock of a root block that is not stored: the checks that read the chain
\* or compare headers.
Valid(r) ==
    LET hs == Headers[r]
    IN  /\ r \in HeaderOK
        /\ RNumber[r] >= 1 /\ r \notin rdb /\ ParentBlock(r) \in rdb
        /\ Content(r) \subseteq validated
        /\ \A i, j \in 1 .. Len(hs) : i < j => ShardOf[hs[i]] <= ShardOf[hs[j]]
        /\ \A i \in 1 .. Len(hs) :
              IF i > 1 /\ ShardOf[hs[i]] = ShardOf[hs[i - 1]]
              THEN Follows(hs[i], hs[i - 1])
              ELSE Continues(r, hs[i])
        /\ \A m \in Content(r) :
              /\ MPrevRoot[m] \in rdb
              /\ IsSameChain(RNumber, RAnc, r, MPrevRoot[m])
              /\ ShardOf[m] \in Initialized(RNumber[r])
              /\ Cardinality(PlacesOf(r, ShardOf[m])) <= MaxBlocksPerShard

\* SetLatestMinorBlockHeaders at the end of the validation.
LatestAfter(r) ==
    [s \in Shard |->
        IF PlacesOf(r, s) = {} THEN latest[ParentBlock(r)][s]
        ELSE Headers[r][CHOOSE i \in PlacesOf(r, s) : \A j \in PlacesOf(r, s) : j <= i]]

\* The distance test of insertChain.
TooOld(r) ==
    \/ RNumber[r] > RNumber[current] + MaxStale
    \/ RNumber[current] > RNumber[r] + MaxStale

\* Mutant: the longer chain wins.
MutHeavier(r, cur) == RNumber[r] > RNumber[cur]

\* WriteBlockWithState: does r become the head.
Heavier(r, cur) ==
    \/ TD[r] > TD[cur]
    \/ TD[r] = TD[cur] /\ RNumber[r] < RNumber[cur]

\* Mutant: a reorg inserts the new head alone.
MutForkHeight(old, new, fork) == fork = RNumber[new] - 1

\* fork is the height of the last block on the paths to old and to new.
ForkHeight(old, new, fork) ==
    /\ fork <= RNumber[old] /\ RAnc[old][fork] = RAnc[new][fork]
    /\ \A h \in fork + 1 .. RNumber[new] : h <= RNumber[old] => RAnc[old][h] # RAnc[new][h]

-----------------------------------------------------------------------------
\* SetupGenesisRootBlock
Init ==
    /\ rdb = {Genesis}
    /\ latest = [r \in RBlock |-> [s \in Shard |-> None]]
    /\ canonical = [n \in Heights |-> IF n = 0 THEN Genesis ELSE None]
    /\ head = Genesis /\ current = Genesis
    /\ confirming = [m \in MHeader |-> None]
    /\ lookup = [m \in MHeader |-> None]
    /\ counts = [n \in Heights |-> [s \in Shard |-> [a \in Miner |-> 0]]]
    /\ validated = InitiallyValidated
    /\ job = NoJob
    /\ crashes = 0

\* A slave reports a minor block it has added.
AddMinorBlockHeader(m) ==
    /\ Up /\ m \notin validated
    /\ validated' = validated \cup {m}
    /\ UNCHANGED <<rdb, latest, canonical, head, current, confirming, lookup, counts, job, crashes>>

\* insertChain of one block, up to the write.  A block that is known changes nothing.
InsertChain(r) ==
    /\ Up /\ job = NoJob
    /\ Valid(r)
    /\ latest' = [latest EXCEPT ![r] = LatestAfter(r)]
    /\ job' = IF TooOld(r) THEN NoJob
              ELSE [st |-> "write", block |-> r, next |-> 0, old |-> current]
    /\ UNCHANGED <<rdb, canonical, head, current, confirming, lookup, counts, validated, crashes>>

\* A block on top of the head; any other new head takes a reorg.
Extends == ParentBlock(job.block) = job.old

\* WriteBlockWithState: the block is stored, and when it is heavier than the head the
\* blocks above the fork are inserted from the lowest on.
WriteBlock ==
    /\ job.st = "write"
    /\ rdb' = rdb \cup {job.block}
    /\ \/ /\ ~ Heavier(job.block, current)
          /\ job' = NoJob
       \/ /\ Heavier(job.block, current)
          /\ \E fork \in 0 .. RNumber[job.block] - 1 :
                /\ ForkHeight(current, job.block, fork)
                /\ job' = [job EXCEPT !.st = IF Extends THEN "lookup" ELSE "index",
                                      !.next = fork + 1]
    /\ UNCHANGED <<latest, canonical, head, current, confirming, lookup, counts, validated, crashes>>

\* The block that insert is called with.
Inserted == RAnc[job.block][job.next]

\* PutRootBlockIndex, the canonical hash.
PutRootBlockIndex ==
    /\ job.st = "index"
    /\ canonical' = [canonical EXCEPT ![job.next] = Inserted]
    /\ job' = [job EXCEPT !.st = "stats"]
    /\ UNCHANGED <<rdb, latest, head, current, confirming, lookup, counts, validated, crashes>>

\* GetBlockCount
BlockCount(height, s, a) ==
    IF CountMinorBlocks /\ s \in Initialized(height) THEN counts[height][s][a] ELSE 0

\* How many headers of shard s in r miner a has mined.
Mined(r, s, a) == Cardinality({i \in PlacesOf(r, s) : MinerOf[Headers[r][i]] = a})

\* Mutant: the counts of the parent are not carried over.
MutPutCounts(r) ==
    [s \in Shard |->
        LET new == [a \in Miner |-> Mined(r, s, a)]
        IN  IF \A a \in Miner : new[a] = 0 THEN counts[RNumber[r]][s] ELSE new]

\* The counts that PutRootBlockIndex writes for r.  A shard without any is not written,
\* and what an earlier block of that height wrote for it stays.
PutCounts(r) ==
    [s \in Shard |->
        LET new == [a \in Miner |-> BlockCount(RNumber[r] - 1, s, a) + Mined(r, s, a)]
        IN  IF \A a \in Miner : new[a] = 0 THEN counts[RNumber[r]][s] ELSE new]

\* The minor headers that PutRootBlockIndex records with r: none without the flag.
Recorded(r) == IF CountMinorBlocks THEN Content(r) ELSE {}

\* PutRootBlockIndex, the rest: the confirming root block and the block counts, which are
\* written only with the flag.
PutStats ==
    /\ job.st = "stats"
    /\ confirming' = [m \in MHeader |-> IF m \in Recorded(Inserted) THEN Inserted ELSE confirming[m]]
    /\ counts' = IF CountMinorBlocks THEN [counts EXCEPT ![job.next] = PutCounts(Inserted)]
                 ELSE counts
    /\ job' = [job EXCEPT !.st = "head"]
    /\ UNCHANGED <<rdb, latest, canonical, head, current, lookup, validated, crashes>>

\* The end of insert: the head.
WriteHead ==
    /\ job.st = "head"
    /\ head' = Inserted /\ current' = Inserted
    /\ job' = IF Extends THEN NoJob ELSE [job EXCEPT !.st = "lookup"]
    /\ UNCHANGED <<rdb, latest, canonical, confirming, lookup, counts, validated, crashes>>

\* The lookup entries: before insert for a block on top of the head, after it in a
\* reorg, which then goes on with the next block.
WriteLookups ==
    /\ job.st = "lookup"
    /\ lookup' = [m \in MHeader |-> IF m \in Content(Inserted) THEN Inserted ELSE lookup[m]]
    /\ job' = CASE Extends -> [job EXCEPT !.st = "index"]
                [] ~ Extends /\ job.next < RNumber[job.block] ->
                      [job EXCEPT !.st = "index", !.next = job.next + 1]
                [] ~ Extends /\ job.next >= RNumber[job.block] -> [job EXCEPT !.st = "clean"]
    /\ UNCHANGED <<rdb, latest, canonical, head, current, confirming, counts, validated, crashes>>

\* The headers reorg collects: those of the old chain above the height of the new
\* head, and those of the new chain above the fork.
DeletedHeaders ==
    UNION {Content(RAnc[job.old][h]) : h \in RNumber[job.block] + 1 .. RNumber[job.old]}

\* Mutant: headers that the new chain confirms again are forgotten.
MutAddedHeaders == {}

AddedHeaders ==
    UNION {Content(RAnc[job.block][h]) : h \in {k \in 1 .. RNumber[job.block] :
              k <= RNumber[job.old] => RAnc[job.old][k] # RAnc[job.block][k]}}

\* The end of reorg: lookup entries of headers that are gone.
DeleteLookups ==
    /\ job.st = "clean"
    /\ lookup' = [m \in MHeader |-> IF m \in DeletedHeaders \ AddedHeaders THEN None ELSE lookup[m]]
    /\ job' = NoJob
    /\ UNCHANGED <<rdb, latest, canonical, head, current, confirming, counts, validated, crashes>>

\* The process dies.
Crash ==
    /\ Up /\ crashes < MaxCrashes
    /\ current' = None /\ job' = NoJob
    /\ crashes' = crashes + 1
    /\ UNCHANGED <<rdb, latest, canonical, head, confirming, lookup, counts, validated>>

\* loadLastState
Restart ==
    /\ ~ Up
    /\ current' = head
    /\ UNCHANGED <<rdb, latest, canonical, head, confirming, lookup, counts, validated, job, crashes>>

Step ==
    WriteBlock \/ PutRootBlockIndex \/ PutStats \/ WriteHead \/ WriteLookups \/ DeleteLookups

Next ==
    \/ \E m \in MHeader : AddMinorBlockHeader(m)
    \/ \E r \in RBlock : InsertChain(r)
    \/ Step
    \/ Crash
    \/ Restart

Spec == Init /\ [][Next]_vars

-----------------------------------------------------------------------------
\* Type invariant.
TypeOK ==
    /\ rdb \subseteq RBlock
    /\ latest \in [RBlock -> [Shard -> MHeader \cup {None}]]
    /\ canonical \in [Heights -> RBlock \cup {None}]
    /\ head \in RBlock /\ current \in RBlock \cup {None}
    /\ confirming \in [MHeader -> RBlock \cup {None}]
    /\ lookup \in [MHeader -> RBlock \cup {None}]
    /\ counts \in [Heights -> [Shard -> [Miner -> Nat]]]
    /\ validated \subseteq MHeader
    /\ job \in [st : {"idle", "write", "index", "stats", "head", "lookup", "clean"},
                block : RBlock \cup {None}, next : Nat, old : RBlock \cup {None}]
    /\ crashes \in 0 .. MaxCrashes

\* Between insertions of a master that has not died.  A death inside an insertion leaves
\* the indexes torn, and a stored block that did not become the head stays behind: it is
\* known from then on.
Settled == Up /\ job = NoJob /\ crashes = 0

\* Fork choice (WriteBlockWithState): between insertions the head has the largest total
\* difficulty of the stored root blocks, and of equal ones the lowest height.
HeadHeaviest ==
    Settled => \A r \in rdb :
        TD[r] < TD[current] \/ (TD[r] = TD[current] /\ RNumber[r] >= RNumber[current])

\* insert and reorg: between insertions the canonical hashes up to the height of the
\* head are the path to the head.
CanonicalBelowHead ==
    Settled => \A n \in 0 .. RNumber[current] : canonical[n] = RAnc[current][n]

\* The headers of shard s that the chain up to r confirms.
Confirmed(r, s) == {m \in MHeader : ShardOf[m] = s /\
                      \E h \in 0 .. RNumber[r] : m \in Content(RAnc[r][h])}

\* What the slaves rely on (ValidateBlock): on the path to any stored root block the
\* confirmed headers of a shard are one chain from height 0 on, without a gap, a fork or
\* a repetition.
ConfirmedIsChain ==
    \A r \in rdb :
        /\ \A s \in Shard : \A m \in Confirmed(r, s) :
              /\ MNumber[m] = 0 \/ (ParentHeader[m] \in Confirmed(r, s) /\
                                    MNumber[ParentHeader[m]] + 1 = MNumber[m])
              /\ \A n \in Confirmed(r, s) : MNumber[n] = MNumber[m] => n = m
        /\ \A h, k \in 0 .. RNumber[r] :
              \A i \in 1 .. Len(Headers[RAnc[r][h]]), j \in 1 .. Len(Headers[RAnc[r][k]]) :
                 Headers[RAnc[r][h]][i] = Headers[RAnc[r][k]][j] => h = k /\ i = j

\* PutRootBlockIndex and the lookup entries: between insertions a header that the chain
\* of the head confirms is found in the root block of that chain that confirms it, however
\* many reorganisations came before; by its confirming root block, only with the flag.
IndexesFollowHead ==
    Settled => \A h \in 0 .. RNumber[current] : \A m \in Content(RAnc[current][h]) :
        /\ lookup[m] = RAnc[current][h]
        /\ CountMinorBlocks => confirming[m] = RAnc[current][h]

\* The number of headers of shard s by miner a that the chain up to r confirms.
MinedUpto(r, s, a) == Cardinality({m \in Confirmed(r, s) : MinerOf[m] = a})

\* GetBlockCount: between insertions no miner's count at the head is lower than the
\* number of its blocks that the chain confirms.  It may be higher: a shard that a new
\* chain does not confirm at a height keeps the entry of the old chain.
CountsCover ==
    Settled /\ CountMinorBlocks => \A s \in Shard, a \in Miner :
        BlockCount(RNumber[current], s, a) >= MinedUpto(current, s, a)

\* The head of the master's root chain is the heaviest stored block, with its path in the
\* canonical index, and the headers that a stored chain confirms of a shard are one chain
\* (WriteBlockWithState, reorg, ValidateBlock).
HeadSound == TypeOK /\ HeadHeaviest /\ CanonicalBelowHead /\ ConfirmedIsChain

\* PutRootBlockIndex, the lookup entries and the block counts agree, between insertions,
\* with the chain of the head, whatever was reorganised.
IndexesSound == IndexesFollowHead /\ CountsCover

\* reorg: "When transactions get deleted from the database that means the receipts that
\* were created in the fork must also be deleted": no lookup entry leads off the chain.
LookupOnChain ==
    Settled => \A m \in MHeader : lookup[m] # None =>
        RNumber[lookup[m]] <= RNumber[current] /\ RAnc[current][RNumber[lookup[m]]] = lookup[m]

=============================================================================
