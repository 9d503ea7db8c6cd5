------------------------------- MODULE TxIndex -------------------------------
(***************************************************************************)
(* The transaction index of a shard: what MinorBlockChain writes beside a  *)
(* block so that transactions, receipts and histories can be looked up,    *)
(* and how the queries read it.  WriteBlockWithState and reorg hold the    *)
(* chain's locks; a query holds none, and the database sees one write at a *)
(* time.  So an operation first computes its writes (todo), and Step       *)
(* performs them one after the other; queries and a crash come in between. *)
(* Which block becomes the tip is MinorChain's subject: here any choice    *)
(* that updateTip can make is possible.                                    *)
(***************************************************************************)
EXTENDS ChainDb, BlockTree, SequencesExt

CONSTANTS
    IdxBlock,      \* blocks of the shard
    IdxNumber,     \* their heights
    IdxAnc,        \* their ancestors, see BlockTree
    IdxGenesis,    \* the genesis block
    TxsOf,         \* block -> the hashes of its transactions
    DepositsOf,    \* block -> the hashes of the deposits it executes
    From, To,      \* sender and receiver of a transaction, receiver of a deposit
    OwnBranch,     \* transactions whose receiver is in this shard
    FromRoot,      \* deposits that are rewards of the root chain
    ZeroValue,     \* deposits with no value
    Address,       \* the addresses
    Pruned,        \* blocks of side chains that come without a state
    Asked,         \* hashes that clients ask the receipt of
    History,       \* EnableTransactionHistory
    CacheLimit,    \* receiptsCacheLimit
    LimitMod       \* the number of values of the query's limit, 2^32 in the code

ASSUME IdxAssumption ==
    /\ IsBlockTree(IdxBlock, IdxNumber, IdxAnc)
    /\ IdxGenesis \in IdxBlock /\ IdxNumber[IdxGenesis] = 0
    /\ History \in BOOLEAN /\ CacheLimit \in Nat \ {0} /\ LimitMod \in Nat \ {0}

VARIABLES
    db,            \* the database
    tip,           \* m.currentBlock
    todo,          \* what the running operation still does, in order
    receiptsCache, \* the cached receipts, the most recent first
    crashed        \* the process has been killed in the middle of an operation

idxVars == <<db, tip, todo, receiptsCache, crashed>>

-----------------------------------------------------------------------------
\* The keys of the history index.  A cross-shard entry sorts before the others.
getCrossShardBytesIndb(crossShard) == IF crossShard THEN 0 ELSE 1
encodeAddressTxKey(a, height, index, crossShard) ==
    <<"iaddr", a, height, getCrossShardBytesIndb(crossShard), index>>
encodeAllTxKey(height, index, crossShard) ==
    <<"iall", height, getCrossShardBytesIndb(crossShard), index>>
decodeTxKey(k) ==
    LET n == Len(k)
    IN  [height |-> k[n - 2], crossShard |-> k[n - 1] = 0, index |-> k[n]]

\* updateTxHistoryIndex: the keys of the transaction at one position.
TxHistoryKeys(b, i) ==
    LET x == TxsOf[b][i]
    IN  {encodeAllTxKey(IdxNumber[b], i - 1, FALSE),
         encodeAddressTxKey(From[x], IdxNumber[b], i - 1, FALSE)}
        \cup {encodeAddressTxKey(To[x], IdxNumber[b], i - 1, FALSE) : y \in {x} \cap OwnBranch}

\* updateTxHistoryIndexFromBlock: the keys of the deposits, by the stored list.
DepositHistoryKeys(d, b) ==
    LET list == ReadConfirmedCrossShardTxList(d, b)[1]
        Shown == {i \in DOMAIN list : ~(list[i] \in FromRoot /\ list[i] \in ZeroValue)}
    IN  {encodeAddressTxKey(To[list[i]], IdxNumber[b], i - 1, TRUE) : i \in Shown}
        \cup {encodeAllTxKey(IdxNumber[b], i - 1, TRUE) : i \in {j \in Shown : list[j] \notin FromRoot}}

HistoryKeys(d, b) ==
    IF History THEN UNION {TxHistoryKeys(b, i) : i \in DOMAIN TxsOf[b]} \cup DepositHistoryKeys(d, b)
    ELSE {}

\* putTxIndexFromBlock: the lookup entries, which go into db or a batch, and the
\* history keys, which always go into the database at once.
PutLookups(d, b) ==
    WriteBlockContentLookupEntriesWithCrossShardHashList(b, TxsOf[b], GetXShardDepositHashList(d, b)[1])
PutHistory(d, b) == [k \in HistoryKeys(d, b) |-> <<"1">>]

\* Mutant: the deposits of a dropped block stay listed.
MutRemoveLookups(d, b) == [k \in {lookupKey(x) : x \in Range(TxsOf[b])} |-> Gone]

\* removeTxIndexFromBlock, likewise.
RemoveLookups(d, b) ==
    [k \in {lookupKey(x) : x \in Range(TxsOf[b]) \cup Range(GetXShardDepositHashList(d, b)[1])} |-> Gone]
RemoveHistory(d, b) == [k \in HistoryKeys(d, b) |-> Gone]

-----------------------------------------------------------------------------
\* The steps an operation is made of: a write, storing the tip, collecting the
\* logs of a block for the feed.
Writes(w) == <<"db", w>>
StoreTip(b) == <<"tip", b>>
Logs(b) == <<"logs", b>>

\* insert: the canonical hash, the head, then the tip in memory.
insertHead(b) ==
    <<Writes(WriteCanonicalHash(b, IdxNumber[b])), Writes(WriteHeadBlockHash(b)), StoreTip(b)>>

\* putMinorBlock.  Without the count of the parent it fails after the block.
putTotalTxCount(d, b) ==
    LET before == IF IdxNumber[b] > 1
                  THEN ReadTotalTx(d, ParentOf(IdxNumber, IdxAnc, b)) ELSE <<0>>
    IN  IF before = Gone THEN Gone ELSE <<before[1] + Len(TxsOf[b])>>
putMinorBlock(d, b) ==
    (IF HasBlock(d, b) THEN <<>> ELSE <<Writes(WriteMinorBlock(b))>>)
    \o (IF putTotalTxCount(d, b) = Gone THEN <<>>
        ELSE <<Writes(WriteTotalTx(b, putTotalTxCount(d, b)[1]))>>
             \o (IF History THEN <<Writes(WriteConfirmedCrossShardTxList(b, DepositsOf[b]))>> ELSE <<>>)
             \o <<Writes(PutXShardDepositHashList(b, DepositsOf[b]))>>)

\* What the database holds after a list of steps.
RECURSIVE After(_, _)
After(d, steps) ==
    IF steps = <<>> THEN d
    ELSE After(IF Head(steps)[1] = "db" THEN Written(d, Head(steps)[2]) ELSE d, Tail(steps))

\* reorg: the blocks of a chain above the common ancestor, from the lowest.
Branching(a, b) ==
    {h \in 0 .. IdxNumber[a] : h > IdxNumber[b] \/ IdxAnc[a][h] # IdxAnc[b][h]}
Leaving(a, b) ==
    LET n == Cardinality(Branching(a, b))
    IN  [i \in 1 .. n |-> IdxAnc[a][IdxNumber[a] - n + i]]
reorg(d, old, new) ==
    LET oldChain == Leaving(old, new)
        newChain == Leaving(new, old)
        Dropped(b) == Then(RemoveLookups(d, b), DeleteCanonicalHash(IdxNumber[b]))
        Added(b) == insertHead(b) \o <<Writes(PutLookups(d, b)), Writes(PutHistory(d, b))>>
    IN  [i \in DOMAIN oldChain |-> Writes(RemoveHistory(d, oldChain[i]))]
        \o <<Writes(FoldLeft(LAMBDA w, b : Then(w, Dropped(b)), Nothing, oldChain))>>
        \o (IF newChain = <<>> THEN insertHead(new)
            ELSE FlattenSeq([i \in DOMAIN newChain |-> Added(newChain[i])]))
        \o [i \in DOMAIN oldChain |-> Logs(Reverse(oldChain)[i])]
        \o [i \in DOMAIN newChain |-> Logs(Reverse(newChain)[i])]

\* The receipts of a block, its transactions' first: runBlock.
ReceiptsOf(b) == TxsOf[b] \o DepositsOf[b]

\* WriteBlockWithState, after putMinorBlock and the commit of the state.
Indexed(d, b, updateTip) ==
    LET receipts == WriteReceipts(b, ReceiptsOf(b))
        canonical == (IF ParentOf(IdxNumber, IdxAnc, b) # tip THEN reorg(d, tip, b) ELSE <<>>)
                     \o <<Writes(PutHistory(d, b)), Writes(Then(receipts, PutLookups(d, b)))>>
                     \o insertHead(b)
    IN  IF updateTip THEN canonical ELSE <<Writes(receipts)>>

\* The state of an executed block is in the database: state.Commit.
stateKey(b) == <<"state", b>>
ExecutedBlock(b) == DbHas(db, stateKey(b))

\* The outcomes of updateTip: a block that extends the tip, or one of another
\* branch that is not lower.
updateTip(b) ==
    IF ParentOf(IdxNumber, IdxAnc, b) = tip \/ (IdxNumber[b] >= IdxNumber[tip] /\ b # tip)
    THEN BOOLEAN ELSE {FALSE}

-----------------------------------------------------------------------------
\* The queries.

\* GetReceiptsByHash: the cache first; what the database returns is cached, also
\* when it is nothing.
CachedReceipts(b) == {i \in DOMAIN receiptsCache : receiptsCache[i][1] = b}
GetReceiptsByHash(b) ==
    IF CachedReceipts(b) # {} THEN receiptsCache[CHOOSE i \in CachedReceipts(b) : TRUE][2] ELSE ReadReceipts(db, b)
ReceiptsRead(b) ==
    LET others == SelectSeq(receiptsCache, LAMBDA e : e[1] # b)
        all == <<<<b, GetReceiptsByHash(b)>>>> \o others
    IN  IF HasBlock(db, b) THEN SubSeq(all, 1, IF Len(all) < CacheLimit THEN Len(all) ELSE CacheLimit)
        ELSE receiptsCache

\* GetTransactionByHash, for a transaction that is not in the pool.
GetTransactionByHash(x) == ReadTransaction(db, x)

\* One entry of getTransactionDetails: what is shown, or a fault where the code
\* would stop: a block that is missing, an index out of range, no receipt.
Fault == <<"fault">>
Entry(k) ==
    LET e == decodeTxKey(k)
        block == ReadCanonicalHash(db, e.height)
        deposits == ReadConfirmedCrossShardTxList(db, block[1])
    IN  CASE block = Gone \/ ~HasBlock(db, block[1]) -> Fault
          [] block # Gone /\ e.crossShard ->
                IF e.index < Len(deposits[1]) THEN <<deposits[1][e.index + 1]>> ELSE Fault
          [] OTHER ->
                IF e.index < Len(TxsOf[block[1]]) /\ ReadReceipt(db, TxsOf[block[1]][e.index + 1]) # Gone
                THEN <<TxsOf[block[1]][e.index + 1]>> \o ReadReceipt(db, TxsOf[block[1]][e.index + 1])
                ELSE Fault

\* Keys in the order of the database: height, cross-shard first, index.
Before(k, l) ==
    LET n == Len(k)
    IN  \E i \in n - 2 .. n : k[i] < l[i] /\ \A j \in n - 2 .. i - 1 : k[j] = l[j]
InBlockOrder(ks) ==
    [i \in 1 .. Cardinality(ks) |-> CHOOSE k \in ks : Cardinality({l \in ks : Before(l, k)}) = i - 1]

\* getTransactionDetails: walks up from the first key of the range.  Rewards of the
\* root chain are left out on request and when they have no value; limit goes down
\* with every entry shown, and wraps around when it was 0.
Details(ks, limit, skipCoinbaseRewards) ==
    LET Skip(x) == x \in FromRoot /\ (skipCoinbaseRewards \/ x \in ZeroValue)
        Walk(r, k) ==
            IF r.done THEN r
            ELSE LET e == Entry(k)
                     shown == e # Fault /\ ~Skip(e[1]) /\ \A i \in DOMAIN r.list : r.list[i][1] # e[1]
                     left == IF shown THEN (r.left + LimitMod - 1) % LimitMod ELSE r.left
                 IN  [list |-> IF shown THEN Append(r.list, e) ELSE r.list, left |-> left,
                      fault |-> e = Fault, done |-> e = Fault \/ left = 0]
    IN  FoldLeft(Walk, [list |-> <<>>, left |-> limit, fault |-> FALSE, done |-> FALSE], InBlockOrder(ks))

GetTransactionByAddress(a, limit) ==
    Details({k \in DOMAIN db : k[1] = "iaddr" /\ k[2] = a}, limit, FALSE)
GetAllTx(limit) == Details({k \in DOMAIN db : k[1] = "iall"}, limit, TRUE)

-----------------------------------------------------------------------------
IdxInit ==
    /\ db = Written(Nothing, blockKey(IdxGenesis) :> <<IdxGenesis>> @@ headerHashKey(0) :> <<IdxGenesis>>
                 @@ headBlockKey :> <<IdxGenesis>> @@ stateKey(IdxGenesis) :> <<TRUE>>
                 @@ totalTxCountKey(IdxGenesis) :> <<0>> @@ makeConfirmedXShardKey(IdxGenesis) :> <<<<>>>>
                 @@ makeXShardDepositHashList(IdxGenesis) :> <<<<>>>>)
    /\ tip = IdxGenesis
    /\ todo = <<>> /\ receiptsCache = <<>> /\ crashed = FALSE

\* WriteBlockWithState, for a block whose parent is executed; a known block is
\* executed again when it is forced.
WriteBlockWithState(b) ==
    /\ todo = <<>>
    /\ IdxNumber[b] > 0 /\ ExecutedBlock(ParentOf(IdxNumber, IdxAnc, b))
    /\ \E put \in {putMinorBlock(db, b)}, u \in updateTip(b) :
          \E d \in {After(db, put)} :
             todo' = put \o (IF putTotalTxCount(db, b) = Gone THEN <<>>
                             ELSE <<Writes(DbPut(stateKey(b), <<TRUE>>))>> \o Indexed(d, b, u))
    /\ UNCHANGED <<db, tip, receiptsCache, crashed>>

\* WriteBlockWithoutState: a side chain whose states are pruned.
WriteBlockWithoutState(b) ==
    /\ todo = <<>>
    /\ IdxNumber[b] > 0 /\ ~HasBlock(db, b) /\ HasBlock(db, ParentOf(IdxNumber, IdxAnc, b))
    /\ todo' = <<Writes(WriteMinorBlock(b))>>
    /\ UNCHANGED <<db, tip, receiptsCache, crashed>>

\* reWriteBlockIndexTo: a root block or a restart moves the tip.
reWriteBlockIndexTo(b) ==
    /\ todo = <<>>
    /\ b # tip /\ ExecutedBlock(b)
    /\ todo' = reorg(db, tip, b)
    /\ UNCHANGED <<db, tip, receiptsCache, crashed>>

\* The next step of the running operation.
IdxStep ==
    /\ todo # <<>>
    /\ todo' = Tail(todo)
    /\ \E s \in {Head(todo)} :
          /\ db' = IF s[1] = "db" THEN Written(db, s[2]) ELSE db
          /\ tip' = IF s[1] = "tip" THEN s[2] ELSE tip
          /\ receiptsCache' = IF s[1] = "logs" THEN ReceiptsRead(s[2]) ELSE receiptsCache
    /\ UNCHANGED crashed

\* GetTransactionReceipt of a hash that is listed: reads, and caches, the receipts.
GetTransactionReceipt(x) ==
    /\ GetTransactionByHash(x) # Gone
    /\ receiptsCache' = ReceiptsRead(GetTransactionByHash(x)[1])
    /\ UNCHANGED <<db, tip, todo, crashed>>

\* The process is killed, once, and loadLastState runs.
IdxCrash ==
    /\ todo # <<>> /\ ~crashed
    /\ tip' = ReadHeadBlockHash(db)[1]
    /\ todo' = <<>> /\ receiptsCache' = <<>> /\ crashed' = TRUE
    /\ UNCHANGED db

IdxHash == UNION {Range(TxsOf[b]) \cup Range(DepositsOf[b]) : b \in IdxBlock}

IdxNext ==
    \/ \E b \in IdxBlock : WriteBlockWithState(b) \/ reWriteBlockIndexTo(b)
    \/ \E b \in Pruned : WriteBlockWithoutState(b)
    \/ \E x \in Asked : GetTransactionReceipt(x)
    \/ IdxStep
    \/ IdxCrash

IdxSpec == IdxInit /\ [][IdxNext]_idxVars

-----------------------------------------------------------------------------
\* Whatever the database refers to is there, after every write and in every
\* database a restart can find: the head and the canonical blocks have their
\* bodies, an executed block has the lists that its index is made from, and a
\* lookup entry names a block that holds the hash at that very place.
RefsStored ==
    /\ HasBlock(db, ReadHeadBlockHash(db)[1])
    /\ \A k \in DOMAIN db :
          /\ k[1] = "mn" => HasBlock(db, db[k][1])
          /\ k[1] = "state" => /\ DbHas(db, makeXShardDepositHashList(k[2]))
                               /\ History => DbHas(db, makeConfirmedXShardKey(k[2]))
          /\ k[1] = "l" => /\ HasBlock(db, db[k][1])
                           /\ db[k][2] < Len(ReceiptsOf(db[k][1]))
                           /\ ReceiptsOf(db[k][1])[db[k][2] + 1] = k[2]

\* The canonical chain, from the genesis block.
Canon == [i \in 1 .. IdxNumber[tip] + 1 |-> IdxAnc[tip][i - 1]]
HistoryOf(Mine(_)) ==
    FlattenSeq([i \in DOMAIN Canon |->
        LET b == Canon[i]
        IN  [j \in DOMAIN SelectSeq(DepositsOf[b], Mine) |-> <<SelectSeq(DepositsOf[b], Mine)[j]>>]
            \o [j \in DOMAIN SelectSeq(TxsOf[b], Mine) |->
                  <<SelectSeq(TxsOf[b], Mine)[j], SelectSeq(TxsOf[b], Mine)[j]>>]])

\* Between operations, and if no operation was cut short, the index follows the
\* canonical chain through every extension, rewind and fork: a hash is listed if and
\* only if a canonical block holds it, and the history of an address, and of the
\* shard, is exactly what the canonical blocks hold, in their order, each
\* transaction with its own receipt and without a fault.
IndexFollowsTip ==
    todo = <<>> /\ ~crashed =>
      /\ \A x \in IdxHash :
            LET places == {<<b, i>> \in Range(Canon) \X (0 .. 9) :
                              i < Len(ReceiptsOf(b)) /\ ReceiptsOf(b)[i + 1] = x}
            IN  IF places = {} THEN GetTransactionByHash(x) = Gone
                ELSE GetTransactionByHash(x) \in places
      /\ History =>
            /\ \A a \in Address :
                  GetTransactionByAddress(a, 0) =
                    [list |-> HistoryOf(LAMBDA x : x \notin ZeroValue
                                 /\ ((To[x] = a /\ x \in OwnBranch) \/ (x \in DOMAIN From /\ From[x] = a))),
                     left |-> GetTransactionByAddress(a, 0).left, fault |-> FALSE, done |-> FALSE]
            /\ GetAllTx(0).list = HistoryOf(LAMBDA x : x \notin FromRoot)

=============================================================================
