------------------------------- MODULE ChainDb -------------------------------
(***************************************************************************)
(* The key-value database of a shard, as core/rawdb reads and writes it.   *)
(* The database is a function from keys to values; a value is a tuple, and *)
(* the empty tuple is the empty byte string that Get returns for a key     *)
(* that is not there.  A key is its prefix followed by what it is about.   *)
(* A write is a function from keys to new values, with the empty tuple for *)
(* a key that is deleted: one Put, one Delete, or the content of a batch.  *)
(***************************************************************************)
EXTENDS Naturals, Sequences, FiniteSets, TLC

Gone == <<>>

\* db.Get, db.Has: an error and a missing key are both the empty value.
DbGet(d, k) == IF k \in DOMAIN d THEN d[k] ELSE Gone
DbHas(d, k) == DbGet(d, k) # Gone

\* db.Put, db.Delete, and one batch made of two: the later write wins.
DbPut(k, v) == k :> v
DbDelete(k) == k :> Gone
Nothing == [k \in {} |-> Gone]
Then(w1, w2) == w2 @@ w1

\* batch.Write: all of it or nothing.
Written(d, w) ==
    [k \in (DOMAIN d \ DOMAIN w) \cup {k \in DOMAIN w : w[k] # Gone} |->
        IF k \in DOMAIN w THEN w[k] ELSE d[k]]

-----------------------------------------------------------------------------
\* schema.go: the keys.
headBlockKey == <<"LastBlock">>
headerHashKey(n) == <<"mn", n>>
blockKey(h) == <<"b", h>>
blockReceiptsKey(h) == <<"r", h>>
lookupKey(h) == <<"l", h>>
totalTxCountKey(h) == <<"txC", h>>
makeConfirmedXShardKey(h) == <<"xr", h>>
makeXShardDepositHashList(h) == <<"xd", h>>

-----------------------------------------------------------------------------
\* accessors_chain.go.  A hash that is read is a tuple of at most one element:
\* the empty one is common.Hash{}.
ReadCanonicalHash(d, n) == DbGet(d, headerHashKey(n))
WriteCanonicalHash(h, n) == DbPut(headerHashKey(n), <<h>>)
DeleteCanonicalHash(n) == DbDelete(headerHashKey(n))

ReadHeadBlockHash(d) == DbGet(d, headBlockKey)
WriteHeadBlockHash(h) == DbPut(headBlockKey, <<h>>)

\* A block is written under its own hash, so the body that is read is the one
\* its name stands for.
HasBlock(d, h) == DbHas(d, blockKey(h))
WriteMinorBlock(h) == DbPut(blockKey(h), <<h>>)

\* The receipts of a block: the hashes of what they are the receipts of.
ReadReceipts(d, h) ==
    LET data == DbGet(d, blockReceiptsKey(h)) IN IF data = Gone THEN <<>> ELSE data[1]
WriteReceipts(h, receipts) == DbPut(blockReceiptsKey(h), <<receipts>>)

ReadTotalTx(d, h) == DbGet(d, totalTxCountKey(h))
WriteTotalTx(h, n) == DbPut(totalTxCountKey(h), <<n>>)

ReadConfirmedCrossShardTxList(d, h) == DbGet(d, makeConfirmedXShardKey(h))
WriteConfirmedCrossShardTxList(h, list) == DbPut(makeConfirmedXShardKey(h), <<list>>)

GetXShardDepositHashList(d, h) == DbGet(d, makeXShardDepositHashList(h))
PutXShardDepositHashList(h, hashes) == DbPut(makeXShardDepositHashList(h), <<hashes>>)

-----------------------------------------------------------------------------
\* accessors_indexes.go.  Indexes count from 0, as in the code.

\* Mutant: the deposits are counted from 0 again.
MutLookupEntries(h, content, hashes) ==
    LET Listed(xs) == [k \in {lookupKey(xs[i]) : i \in DOMAIN xs} |->
                          <<h, (CHOOSE i \in DOMAIN xs : xs[i] = k[2]) - 1>>]
    IN  Then(Listed(content), Listed(hashes))

\* The entries of one block: its content, and after it the cross-shard deposits.
WriteBlockContentLookupEntriesWithCrossShardHashList(h, content, hashes) ==
    LET all == content \o hashes
        Places(x) == {i \in DOMAIN all : all[i] = x}
    IN  [k \in {lookupKey(all[i]) : i \in DOMAIN all} |->
            <<h, (CHOOSE i \in Places(k[2]) : \A j \in Places(k[2]) : j <= i) - 1>>]
ReadBlockContentLookupEntry(d, x) == DbGet(d, lookupKey(x))

\* ReadTransaction: the block and the position a hash is listed at, or nothing when
\* there is no entry or the block it names is missing.
ReadTransaction(d, x) ==
    LET entry == ReadBlockContentLookupEntry(d, x)
    IN  IF entry # Gone /\ HasBlock(d, entry[1]) THEN entry ELSE Gone

\* ReadReceipt: the receipt at the position the lookup entry gives, or nothing.
ReadReceipt(d, x) ==
    LET entry == ReadBlockContentLookupEntry(d, x)
        receipts == ReadReceipts(d, entry[1])
    IN  IF entry # Gone /\ entry[2] < Len(receipts) THEN <<receipts[entry[2] + 1]>> ELSE Gone

=============================================================================
