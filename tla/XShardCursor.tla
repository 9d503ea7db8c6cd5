----------------------------- MODULE XShardCursor -----------------------------
(***************************************************************************)
(* Cross-shard deposits of one shard: how the lists of other shards reach  *)
(* it, how root blocks order them, and how XShardTxCursor walks through    *)
(* them while a minor block executes.                                      *)
(*                                                                         *)
(* A minor block starts at the cursor its parent recorded and credits      *)
(* deposits until the cursor meets the end or the gas of the block for     *)
(* deposits is used up.  Lists and root blocks arrive while it executes.   *)
(***************************************************************************)
EXTENDS BlockTree, Sequences, FiniteSets

CONSTANTS
    RBlock, RNumber, RAnc,   \* root blocks, their heights and paths
    Header,                  \* minor block headers that root blocks contain
    Own,                     \* those of the shard itself
    HeadersOf,               \* MinorBlockHeaders of a root block
    PrevRootOf,              \* PrevRootBlockHash of a header
    NTx,                     \* number of deposits for the shard in a header's block
    Neighbor,                \* root heights at which a header's shard is a neighbor
    GenesisRoot,             \* the root block the shard was created on
    None,                    \* a nil block
    MaxBlocks                \* bound: minor blocks on a path

GenesisHeight == RNumber[GenesisRoot]
RParent(r) == ParentOf(RNumber, RAnc, r)

ASSUME TreeAssumption ==
    /\ IsBlockTree(RBlock, RNumber, RAnc)
    /\ None \notin RBlock /\ GenesisRoot \in RBlock

ASSUME ContentAssumption ==
    /\ Own \subseteq Header
    /\ HeadersOf \in [RBlock -> Seq(Header)]
    /\ PrevRootOf \in [Header -> RBlock]
    /\ NTx \in [Header -> Nat]
    /\ Neighbor \in [Header -> SUBSET Nat]
    /\ MaxBlocks \in Nat \ {0}

\* RootBlockValidator: the genesis block has no headers, and a header was mined on
\* the chain below the root block that contains it.
ASSUME RootBlockAssumption ==
    \A r \in RBlock : \A i \in 1 .. Len(HeadersOf[r]) :
        RNumber[r] > 0 /\ IsSameChain(RNumber, RAnc, RParent(r), PrevRootOf[HeadersOf[r][i]])

VARIABLES
    known,   \* root blocks in the database
    lists,   \* headers whose deposit list is in the database
    path,    \* minor blocks from genesis to head: root block, cursor, deposits so far
    run      \* the execution of a minor block, or Idle

vars == <<known, lists, path, run>>

\* No execution in progress.
Idle == [st |-> "idle"]

-----------------------------------------------------------------------------
\* The list of a header's block is for this shard: the broadcast skips shards that
\* did not exist, or were no neighbor, at the root block the sender mined on.
Sent(h) ==
    /\ h \notin Own
    /\ RNumber[PrevRootOf[h]] > GenesisHeight
    /\ RNumber[PrevRootOf[h]] \in Neighbor[h]

\* AddRootBlock: the list of a header must be there before the root block is.
Expected(h) ==
    /\ PrevRootOf[h] \in known
    /\ RNumber[PrevRootOf[h]] # GenesisHeight
    /\ RNumber[PrevRootOf[h]] \in Neighbor[h]

\* getNextTx: the loop looks at header h of root block r at all.
Visited(r, h) == h \notin Own /\ RNumber[r] \in Neighbor[h]

\* getNextTx: the header's shard may not send to this shard yet.
Denied(h) == RNumber[PrevRootOf[h]] <= GenesisHeight

\* getNextTx: the loop moves on to the next header.
Skips(r, h) ==
    Visited(r, h) =>
        /\ PrevRootOf[h] \in known
        /\ IF Denied(h) THEN h \notin lists ELSE h \in lists /\ NTx[h] = 0

\* getNextTx: the loop returns the first deposit of the header.  A header that
\* neither is skipped nor yields a deposit ends the walk with an error or, when the
\* header's root block or list is nil, with a panic.
Yields(r, h) ==
    /\ Visited(r, h) /\ ~Denied(h)
    /\ PrevRootOf[h] \in known
    /\ h \in lists /\ NTx[h] > 0

\* Indices of the headers of r above m at which the loop ends.
Stops(r, m) == {j \in m + 1 .. Len(HeadersOf[r]) : ~Skips(r, HeadersOf[r][j])}

\* Mutant: the walk resumes after the header it stopped in.
MutHasMore(r, m, d) == IF m = 0 THEN d = 0 ELSE FALSE

\* getCurrentTx at the next index returns a deposit: the coinbase of r, or the next
\* entry of the list of header m.
HasMore(r, m, d) ==
    IF m = 0 THEN d = 0 ELSE HeadersOf[r][m] \in lists /\ d + 1 < NTx[HeadersOf[r][m]]

\* getCurrentTx reads a list that is nil.
NilList(r, m) == m # 0 /\ HeadersOf[r][m] \notin lists

\* Mutant: the end is recorded at the last root block instead of above it.
MutCursorInfo(x) == <<IF x.rb = None THEN RNumber[x.max] ELSE RNumber[x.rb], x.m, x.d>>

\* getCursorInfo
CursorInfo(x) == <<IF x.rb = None THEN RNumber[x.max] + 1 ELSE RNumber[x.rb], x.m, x.d>>

-----------------------------------------------------------------------------
Init ==
    /\ known = {GenesisRoot}
    /\ lists = {}
    /\ path = <<[root |-> GenesisRoot, cursor |-> <<GenesisHeight, 0, 0>>, done |-> {}]>>
    /\ run = Idle

\* AddCrossShardTxListByMinorBlockHash, called for the broadcast of the sender.
\* A repeated broadcast writes the same list again.
AddCrossShardTxList(h) ==
    /\ Sent(h)
    /\ lists' = lists \cup {h}
    /\ UNCHANGED <<known, path, run>>

\* Mutant: lists that are missing do not stop the root block.
MutAddRootBlock(r) ==
    /\ r \notin known /\ RNumber[r] > GenesisHeight /\ RParent(r) \in known
    /\ known' = known \cup {r}
    /\ UNCHANGED <<lists, path, run>>

\* AddRootBlock, as far as deposits go: it stores the root block once its parent and
\* the lists of its headers are stored.  The shard's own headers are MinorChain's.
AddRootBlock(r) ==
    /\ r \notin known /\ RNumber[r] > GenesisHeight /\ RParent(r) \in known
    /\ \A i \in 1 .. Len(HeadersOf[r]) :
          HeadersOf[r][i] \notin Own => (HeadersOf[r][i] \in lists <=> Expected(HeadersOf[r][i]))
    /\ known' = known \cup {r}
    /\ UNCHANGED <<lists, path, run>>

\* Mutant: the new block's root block need not follow the parent's.
MutNewXShardTxCursor(p, r) ==
    /\ run = Idle /\ p < MaxBlocks
    /\ r \in known /\ RNumber[r] >= RNumber[path[p].root]
    /\ LET c == path[p].cursor
       IN  run' = [st |-> "run", on |-> p, max |-> r, got |-> {}, m |-> c[2], d |-> c[3],
                   rb |-> IF c[1] <= RNumber[r] THEN RAnc[r][c[1]] ELSE None]
    /\ UNCHANGED <<known, lists, path>>

\* RunCrossShardTxWithCursor starts a block on top of path[p], mined on root block r:
\* NewXShardTxCursor recovers the cursor of the parent.  ValidateBlock has checked
\* that r follows the parent's root block.
NewXShardTxCursor(p, r) ==
    /\ run = Idle /\ p < MaxBlocks
    /\ r \in known /\ IsSameChain(RNumber, RAnc, r, path[p].root)
    /\ LET c == path[p].cursor
       IN  run' = [st |-> "run", on |-> p, max |-> r, got |-> {}, m |-> c[2], d |-> c[3],
                   rb |-> IF c[1] <= RNumber[r] THEN RAnc[r][c[1]] ELSE None]
    /\ UNCHANGED <<known, lists, path>>

\* getNextTx returned the deposit at index d of header m of rb.  The loop credits it
\* and goes on unless the gas for deposits is used up.
Take(rb, m, d) ==
    \E st \in {"run", "done"} :
        run' = [run EXCEPT !.st = st, !.rb = rb, !.m = m, !.d = d,
                           !.got = @ \cup {<<RNumber[rb], m, d>>}]

\* getNextTx: the next deposit of the same list, or the coinbase of the root block.
NextInList ==
    /\ run.st = "run" /\ run.rb # None
    /\ HasMore(run.rb, run.m, run.d)
    /\ Take(run.rb, run.m, run.d + 1)
    /\ UNCHANGED <<known, lists, path>>

\* The walk leaves the list it is in.
AtEndOfList == run.st = "run" /\ run.rb # None /\ ~HasMore(run.rb, run.m, run.d)

FirstOf(S) == CHOOSE i \in S : \A j \in S : i <= j

\* getNextTx: the first deposit of the next header that has one.
NextHeader ==
    /\ AtEndOfList /\ ~NilList(run.rb, run.m)
    /\ LET stops == Stops(run.rb, run.m)
       IN  /\ stops # {}
           /\ Yields(run.rb, HeadersOf[run.rb][FirstOf(stops)])
           /\ Take(run.rb, FirstOf(stops), 0)
    /\ UNCHANGED <<known, lists, path>>

\* getNextTx: the coinbase of the next root block.
NextRootBlock ==
    /\ AtEndOfList /\ ~NilList(run.rb, run.m)
    /\ Stops(run.rb, run.m) = {}
    /\ RNumber[run.rb] < RNumber[run.max]
    /\ Take(RAnc[run.max][RNumber[run.rb] + 1], 0, 1)
    /\ UNCHANGED <<known, lists, path>>

\* getNextTx: there is no deposit left.
ReachEOF ==
    /\ run.st = "run"
    /\ \/ run.rb = None
       \/ /\ AtEndOfList /\ ~NilList(run.rb, run.m)
          /\ Stops(run.rb, run.m) = {}
          /\ RNumber[run.rb] = RNumber[run.max]
    /\ run' = [run EXCEPT !.st = "done", !.rb = None,
                          !.m = IF run.rb = None THEN @ ELSE 0,
                          !.d = IF run.rb = None THEN @ ELSE 0]
    /\ UNCHANGED <<known, lists, path>>

\* getNextTx fails: it reads a list or a root block that is nil and panics, or it
\* returns an error for a list that should not be there.  Abort follows.
WalkFails ==
    /\ AtEndOfList
    /\ \/ NilList(run.rb, run.m)
       \/ LET stops == Stops(run.rb, run.m)
          IN  stops # {} /\ ~Yields(run.rb, HeadersOf[run.rb][FirstOf(stops)])

\* The block is complete and records its cursor.  The path ends in it.
Finish ==
    /\ run.st = "done"
    /\ path' = Append(SubSeq(path, 1, run.on),
                      [root |-> run.max, cursor |-> CursorInfo(run),
                       done |-> path[run.on].done \cup run.got])
    /\ run' = Idle
    /\ UNCHANGED <<known, lists>>

\* The execution ends without a block: a crash, a walk that fails, or a block that is
\* invalid for another reason.
Abort ==
    /\ run # Idle
    /\ run' = Idle
    /\ UNCHANGED <<known, lists, path>>

GetNextTx == NextInList \/ NextHeader \/ NextRootBlock \/ ReachEOF

Next ==
    \/ \E h \in Header : AddCrossShardTxList(h)
    \/ \E r \in RBlock : AddRootBlock(r)
    \/ \E p \in 1 .. Len(path), r \in RBlock : NewXShardTxCursor(p, r)
    \/ GetNextTx
    \/ Finish
    \/ Abort

Spec == Init /\ [][Next]_vars

-----------------------------------------------------------------------------
\* The neighbor relation of a header is the same where it was mined and where it is
\* confirmed: no shard is created in between that takes the cluster above 32 shards.
StableNeighbors ==
    \A r \in RBlock : \A i \in 1 .. Len(HeadersOf[r]) :
        LET h == HeadersOf[r][i]
        IN  RNumber[r] \in Neighbor[h] <=> RNumber[PrevRootOf[h]] \in Neighbor[h]

\* Headers the shard reads were mined on root blocks it has: always so when the
\* shard is created at root height 0.
PrevRootsKnown ==
    \A r \in RBlock : RNumber[r] >= GenesisHeight =>
        \A i \in 1 .. Len(HeadersOf[r]) :
            HeadersOf[r][i] \notin Own => RNumber[PrevRootOf[HeadersOf[r][i]]] >= GenesisHeight

\* The order of deposits: root height, header, index in the list.
Upto(p, q) ==
    \/ p[1] < q[1]
    \/ p[1] = q[1] /\ p[2] < q[2]
    \/ p[1] = q[1] /\ p[2] = q[2] /\ p[3] <= q[3]

\* The deposits in the lists of the headers of root block r, which has height h.
DepositsAt(h, r) ==
    UNION {{<<h, i, d>> : d \in 0 .. NTx[HeadersOf[r][i]] - 1} :
             i \in {j \in 1 .. Len(HeadersOf[r]) : Sent(HeadersOf[r][j])}}

\* The deposits that senders addressed to the shard on the root chain that ends in r,
\* with the coinbase of every root block.
Inbox ==
    [r \in RBlock |->
        {<<h, 0, 1>> : h \in GenesisHeight .. RNumber[r]}
        \cup UNION {DepositsAt(h, RAnc[r][h]) : h \in GenesisHeight .. RNumber[r]}]

\* A minor block of the path.
MinorBlock == [root : RBlock, cursor : Nat \X Nat \X Nat, done : SUBSET (Nat \X Nat \X Nat)]

TypeOK ==
    /\ known \subseteq RBlock
    /\ lists \subseteq Header
    /\ path \in Seq(MinorBlock) /\ Len(path) \in 1 .. MaxBlocks
    /\ \/ run = Idle
       \/ /\ run \in [st : {"run", "done"}, on : 1 .. Len(path), max : RBlock,
                      rb : RBlock \cup {None}, m : Nat, d : Nat, got : SUBSET (Nat \X Nat \X Nat)]
          /\ run.rb # None => run.m \in 0 .. Len(HeadersOf[run.rb])

\* getNextTx never meets a nil list, a nil root block or a list it does not expect:
\* AddRootBlock and the broadcast of the senders keep the database complete, whatever
\* order lists, root blocks and executions come in.
NoFault == ~WalkFails

\* "The cursor must be EOF or a valid x-shard transaction deposit": so it is in every
\* minor block above genesis, on the root chain that block follows.
CursorValid ==
    \A i \in 2 .. Len(path) :
        \/ path[i].cursor = <<RNumber[path[i].root] + 1, 0, 0>>
        \/ path[i].cursor \in Inbox[path[i].root]

\* A minor chain has credited exactly the deposits up to its cursor: none that a
\* sender broadcast is lost between two blocks, between two root blocks or over a
\* change of root chain.
CreditedUptoCursor ==
    \A i \in 1 .. Len(path) :
        path[i].done = {p \in Inbox[path[i].root] : Upto(p, path[i].cursor)}

\* No deposit is credited to a block that a block below it has credited.
CreditedOnce == run.st # "idle" => run.got \cap path[run.on].done = {}

\* The walk of getNextTx never meets a missing list or root block, and the cursor that a
\* block leaves is one from which the next block can start.
WalkSound == TypeOK /\ NoFault /\ CursorValid

\* What a block credits is what was deposited up to its cursor, each deposit once.
CreditSound == CreditedUptoCursor /\ CreditedOnce

\* The walk implements the abstract inbox: every new block takes the next deposits.
ViewOf(p) == [i \in 1 .. Len(p) |-> [root |-> p[i].root, done |-> p[i].done]]
Follows(r, s) == IsSameChain(RNumber, RAnc, r, s)

Promise == INSTANCE XShardInbox WITH Root <- RBlock, Genesis <- GenesisRoot, view <- ViewOf(path)

\* The specification of XShardInbox, with the path as the view.
InboxPromise == Promise!Spec

=============================================================================
