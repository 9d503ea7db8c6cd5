------------------------------ MODULE MinorChain ------------------------------
(***************************************************************************)
(* MinorBlockChain: the chain of one shard as a slave keeps it.            *)
(*                                                                         *)
(* The shard stores every minor block it accepts and every root block the  *)
(* master sends, follows the heaviest root chain, and keeps a canonical    *)
(* minor chain that builds on the minor blocks this root chain confirms.   *)
(* ShardBackend.mu serializes the handlers, so each is one action here; a  *)
(* crash may fall between two handlers or, with TornWrites, between two    *)
(* database writes of one handler.                                         *)
(***************************************************************************)
EXTENDS BlockTree, Sequences, FiniteSets

CONSTANTS
    MBlock, MNumber, MAnc,   \* minor blocks of the shard, their heights and paths
    RBlock, RNumber, RAnc,   \* root blocks, their heights and paths
    PrevRoot,                \* PrevRootBlockHash of a minor block
    Headers,                 \* the shard's own headers in a root block, in order
    TD,                      \* TotalDifficulty of a root block
    LastConf,                \* the shard's last header on the root chain up to a block
    GenesisHeight,           \* root height at which the shard is created
    GenesisOf,               \* the minor genesis built on a root block of that height
    None,                    \* a nil block or an empty hash
    NoPruning,               \* gcmode archive: every state trie goes to disk
    TriesInMemory,           \* blocks whose trie a pruning node keeps
    TriesInRootBlock,        \* root blocks between two garbage collections
    TornWrites               \* may a crash split the writes of one handler

ASSUME TreeAssumption ==
    /\ IsBlockTree(MBlock, MNumber, MAnc)
    /\ IsBlockTree(RBlock, RNumber, RAnc)
    /\ None \notin MBlock /\ None \notin RBlock

RParent(r) == ParentOf(RNumber, RAnc, r)
MParent(b) == ParentOf(MNumber, MAnc, b)

ASSUME ContentAssumption ==
    /\ PrevRoot \in [MBlock -> RBlock]
    /\ Headers \in [RBlock -> Seq(MBlock)]
    /\ TD \in [RBlock -> Nat]
    /\ \A r \in RBlock : \A h \in 0 .. RNumber[r] - 1 : TD[RAnc[r][h]] < TD[r]
    /\ LastConf \in [RBlock -> MBlock \cup {None}]
    /\ GenesisHeight \in Nat
    /\ NoPruning \in BOOLEAN /\ TornWrites \in BOOLEAN
    /\ TriesInMemory \in Nat \ {0} /\ TriesInRootBlock \in Nat \ {0}

\* Minor genesis blocks: one for each root block at the shard's genesis height.
ASSUME GenesisAssumption ==
    /\ GenesisOf \in [{r \in RBlock : RNumber[r] = GenesisHeight} -> MBlock]
    /\ \A r \in DOMAIN GenesisOf : MNumber[GenesisOf[r]] = 0 /\ PrevRoot[GenesisOf[r]] = r
    /\ \A b \in MBlock : MNumber[b] = 0 => \E r \in DOMAIN GenesisOf : b = GenesisOf[r]

\* What RootBlockValidator has checked before the master broadcasts a root block:
\* the shard's headers are a stretch of one path that begins right above the last
\* one confirmed so far, and were mined on the chain of the root block.
ASSUME RootBlockAssumption ==
    \A r \in RBlock :
        LET hs == Headers[r]
            last == hs[Len(hs)]
        IN  /\ RNumber[r] <= GenesisHeight => hs = <<>> /\ LastConf[r] = None
            /\ RNumber[r] > GenesisHeight =>
                  LastConf[r] = IF hs = <<>> THEN LastConf[RParent(r)] ELSE last
            /\ hs # <<>> /\ MNumber[hs[1]] = 0 => LastConf[RParent(r)] = None
            /\ hs # <<>> /\ MNumber[hs[1]] > 0 => LastConf[RParent(r)] = MParent(hs[1])
            /\ \A i \in 1 .. Len(hs) :
                  /\ Len(hs) - i <= MNumber[last]
                  /\ hs[i] = MAnc[last][MNumber[last] - (Len(hs) - i)]
                  /\ IsSameChain(RNumber, RAnc, RParent(r), PrevRoot[hs[i]])

VARIABLES
    mdb,            \* minor block bodies in the database
    state,          \* blocks whose state trie can be opened
    rdb,            \* root blocks in the database
    lastConfirmed,  \* LastConfirmedMinorBlockHeaderAtRootBlock, per root block
    canonical,      \* canonical hash per height
    head,           \* the head block hash in the database
    current,        \* currentBlock
    rootTip,
    confirmedTip,   \* confirmedHeaderTip
    up,             \* the slave process runs
    validated       \* minor blocks whose header the master has from this shard

vars == <<mdb, state, rdb, lastConfirmed, canonical, head, current, rootTip, confirmedTip, up,
          validated>>

Heights == {MNumber[b] : b \in MBlock}

-----------------------------------------------------------------------------
SameMinorChain(longer, shorter) == IsSameChain(MNumber, MAnc, longer, shorter)

\* isSameRootChain: false when the shorter end is not stored.
SameRootChain(longer, shorter) ==
    shorter \in rdb /\ IsSameChain(RNumber, RAnc, longer, shorter)

HasBlockAndState(b) == b \in mdb /\ b \in state

\* Mutant: only the height is compared with the confirmed tip.
MutLinkedToRootTip(b) == confirmedTip # None => MNumber[b] > MNumber[confirmedTip]

\* isMinorBlockLinkedToRootTip
LinkedToRootTip(b) ==
    confirmedTip # None => MNumber[b] > MNumber[confirmedTip] /\ SameMinorChain(b, confirmedTip)

\* Mutant: the root chain the block was mined on is not looked at.
MutUpdateTip(cur, b) ==
    \/ MParent(b) = cur
    \/ /\ LinkedToRootTip(b)
       /\ \/ MNumber[b] > MNumber[cur]
          \/ MNumber[b] = MNumber[cur] /\ RNumber[PrevRoot[b]] > RNumber[PrevRoot[cur]]

\* updateTip: does b become the head when the head is cur.
UpdateTip(cur, b) ==
    /\ SameRootChain(rootTip, PrevRoot[b])
    /\ \/ MParent(b) = cur
       \/ /\ LinkedToRootTip(b)
          /\ \/ MNumber[b] > MNumber[cur]
             \/ MNumber[b] = MNumber[cur] /\ RNumber[PrevRoot[b]] > RNumber[PrevRoot[cur]]

\* ValidateBlock: the checks that read the chain.  On a block whose parent is lower than
\* what its root block confirms, isSameChain ends the process: nothing of the block has
\* been written by then, and what is left is what Crash leaves.
Valid(b) ==
    LET p == MParent(b)
        c == lastConfirmed[PrevRoot[b]]
    IN  /\ PrevRoot[b] \in rdb /\ PrevRoot[p] \in rdb
        /\ RNumber[PrevRoot[b]] >= RNumber[PrevRoot[p]]
        /\ c # None => SameMinorChain(p, c)
        /\ SameRootChain(PrevRoot[b], PrevRoot[p])

\* Mutant: the entries of the old chain above the new head are not deleted.
MutReorg(index, old, new) ==
    [n \in Heights |-> IF n <= MNumber[new] THEN MAnc[new][n] ELSE index[n]]

\* reorg: the canonical index after the head moves from old to new.  Heights where
\* the two paths agree are left as they are, except that a rewind writes the
\* entry of the new head again.  A child of the head adds its own entry.
Reorg(index, old, new) ==
    [n \in Heights |->
        IF n <= MNumber[new]
        THEN IF n = MNumber[new] \/ n > MNumber[old] \/ MAnc[old][n] # MAnc[new][n]
             THEN MAnc[new][n]
             ELSE index[n]
        ELSE IF n <= MNumber[old] THEN None ELSE index[n]]

-----------------------------------------------------------------------------
\* The index that holds the path to b and nothing above it.
PathIndex(b) == [n \in Heights |-> IF n <= MNumber[b] THEN MAnc[b][n] ELSE None]

\* The shard is created when its genesis root block arrives.
Init ==
    \E r \in DOMAIN GenesisOf :
        LET g == GenesisOf[r]
        IN  /\ mdb = {g} /\ state = {g}
            /\ rdb = {r}
            /\ lastConfirmed = [x \in RBlock |-> None]
            /\ canonical = PathIndex(g)
            /\ head = g /\ current = g
            /\ rootTip = r /\ confirmedTip = None
            /\ up = TRUE
            /\ validated = {g}

\* Does WriteBlockWithState collect tries when it stores b while r is the root tip of a
\* pruning node, and what the root block TriesInRootBlock below r confirms.
Collects(r, b) ==
    /\ ~ NoPruning
    /\ RNumber[r] > TriesInRootBlock /\ RNumber[r] % TriesInRootBlock = 0
    /\ MNumber[b] > TriesInMemory
Retained(r) == lastConfirmed[RAnc[r][RNumber[r] - TriesInRootBlock]]

\* The tries it may release then: those no higher than the block Retained.
Collectable(r, b) ==
    IF Collects(r, b) /\ Retained(r) # None
    THEN {x \in MBlock : /\ MNumber[x] \in 1 .. MNumber[Retained(r)]
                         /\ MNumber[x] <= MNumber[b] - TriesInMemory}
    ELSE {}

\* When that root block confirms nothing, the height of a nil block is read and the
\* process dies.
CollectPanics(r, b) == Collects(r, b) /\ Retained(r) = None

\* The head becomes b, in memory and in the database.
SetTip(b) ==
    /\ current' = b /\ head' = b
    /\ canonical' = Reorg(canonical, current, b)

\* insertChain of one block on top of a parent whose state is there.
InsertBlock(b) ==
    /\ HasBlockAndState(MParent(b)) /\ Valid(b)
    /\ ~ CollectPanics(rootTip, b)
    /\ IF UpdateTip(current, b) THEN SetTip(b) ELSE UNCHANGED <<canonical, head, current>>
    /\ mdb' = mdb \cup {b}
    /\ \E gone \in SUBSET Collectable(rootTip, b) : state' = (state \cup {b}) \ gone

\* The heights of the path to b that insertSidechain runs again: from above the
\* last block with a state, up to the first one that is not valid.
RerunHeights(b) ==
    LET lost == {h \in 0 .. MNumber[b] :
                    \A k \in h .. MNumber[b] : MAnc[b][k] \notin state}
    IN  {h \in lost : \A k \in lost : k <= h => Valid(MAnc[b][k])}

\* tips[h] is the head once the block of height h has been run again.
RerunTips(b, tips) ==
    \A h \in RerunHeights(b) :
        LET before == IF h - 1 \in RerunHeights(b) THEN tips[h - 1] ELSE current
        IN  tips[h] = IF UpdateTip(before, MAnc[b][h]) THEN MAnc[b][h] ELSE before

\* The missing states on the path to b are computed again, and the head follows.
RerunSidechain(b) ==
    LET hs == RerunHeights(b)
        path == {MAnc[b][h] : h \in hs}
    IN  /\ \E tips \in [hs -> path \cup {current}] :
              /\ RerunTips(b, tips)
              /\ \E h \in hs :
                    /\ \A k \in hs : k <= h
                    /\ ~ CollectPanics(rootTip, MAnc[b][h])
                    /\ IF tips[h] # current THEN SetTip(tips[h])
                                           ELSE UNCHANGED <<canonical, head, current>>
        /\ \E gone \in SUBSET Collectable(rootTip, b) : state' = (state \cup path) \ gone

\* insertSidechain: the parent is stored without its state.  The block is written,
\* and when it is as high as the head its path is run again.  A block the canonical
\* index already holds is refused.
InsertSidechain(b) ==
    /\ MParent(b) \in mdb /\ MParent(b) \notin state
    /\ ~ (MNumber[b] <= MNumber[current] /\ canonical[MNumber[b]] = b)
    /\ mdb' = mdb \cup {b}
    /\ IF MNumber[b] >= MNumber[current] /\ RerunHeights(b) # {}
       THEN RerunSidechain(b)
       ELSE UNCHANGED <<state, canonical, head, current>>

\* AddMinorBlock and AddBlockListForSync insert one block at a time, known or not.  The
\* cross-shard lists then go to the other shards and the header to the master, if the
\* calls get through; after insertSidechain, which does not return the lists of
\* exactly one block, they are not even made.
AddMinorBlock(b) ==
    /\ up
    /\ MNumber[b] > 0
    /\ \/ InsertBlock(b) /\ validated' \in {validated, validated \cup {b}}
       \/ InsertSidechain(b) /\ UNCHANGED validated
    /\ UNCHANGED <<rdb, lastConfirmed, rootTip, confirmedTip, up>>

-----------------------------------------------------------------------------
\* The header that AddRootBlock records as the last one confirmed by r.
ConfirmedAt(r) ==
    IF Headers[r] = <<>> THEN lastConfirmed[RParent(r)] ELSE Headers[r][Len(Headers[r])]

\* RootBlockValidator on the master: every header of the block was reported to it.
MasterAccepts(r) == \A i \in 1 .. Len(Headers[r]) : Headers[r][i] \in validated

\* AddRootBlock up to putRootBlock: r is new, its parent and the minor blocks it
\* confirms are stored, and the first of these continues the confirmed chain.
AcceptsRootBlock(r) ==
    /\ MasterAccepts(r)
    /\ RNumber[r] > GenesisHeight
    /\ r \notin rdb /\ RParent(r) \in rdb
    /\ \A i \in 1 .. Len(Headers[r]) : Headers[r][i] \in mdb
    /\ Headers[r] # <<>> /\ MNumber[Headers[r][1]] # 0 =>
          MParent(Headers[r][1]) = lastConfirmed[RParent(r)]

\* putRootBlock
PutRootBlock(r, c) ==
    /\ rdb' = rdb \cup {r}
    /\ lastConfirmed' = [lastConfirmed EXCEPT ![r] = c]

\* Where the search for the new head starts once r is the root tip: the block r
\* confirms, unless the canonical index already holds it.
RewindStart(r, cur) ==
    LET c == ConfirmedAt(r)
    IN  IF c # None /\ canonical[MNumber[c]] # c THEN c ELSE cur

\* tip is the first block below the start that was mined on the root chain of r.
RewindsTo(r, cur, tip) ==
    LET start == RewindStart(r, cur)
    IN  \E h \in 0 .. MNumber[start] :
           /\ tip = MAnc[start][h]
           /\ SameRootChain(r, PrevRoot[tip])
           /\ \A k \in h + 1 .. MNumber[start] : ~ SameRootChain(r, PrevRoot[MAnc[start][k]])

\* No block below the start, the genesis included, was mined on that root chain.
RewindsPastGenesis(r, cur) ==
    LET start == RewindStart(r, cur)
    IN  \A h \in 0 .. MNumber[start] : ~ SameRootChain(r, PrevRoot[MAnc[start][h]])

\* The rest of AddRootBlock when the head search ended in tip.  Without the state of
\* tip the index is left alone, though the head in memory has already moved.
MoveHead(cur, tip) ==
    /\ current' = tip
    /\ IF tip # cur /\ tip \in state
       THEN canonical' = Reorg(canonical, cur, tip) /\ head' = tip
       ELSE UNCHANGED <<canonical, head>>
    /\ UNCHANGED <<mdb, state>>

\* Mutant: the genesis is looked up on the root chain that was followed so far.
MutResetGenesis(r) ==
    LET g == GenesisOf[RAnc[rootTip][GenesisHeight]]
    IN  /\ mdb' = mdb \cup {g}
        /\ state' = state \cup {g}
        /\ canonical' = [canonical EXCEPT ![0] = g]
        /\ head' = g /\ current' = g

\* setHeadToGenesisBlock for the genesis on the root chain of r; the head is at
\* height 0 by then, so that no index entry above is deleted.
ResetGenesis(r) ==
    LET g == GenesisOf[RAnc[r][GenesisHeight]]
    IN  /\ mdb' = mdb \cup {g}
        /\ state' = state \cup {g}
        /\ canonical' = [canonical EXCEPT ![0] = g]
        /\ head' = g /\ current' = g

\* Mutant: the longer root chain wins, not the heavier one.
MutSelectRootTip(r, cur, tipNow) ==
    LET c == ConfirmedAt(r)
    IN  IF RNumber[r] > RNumber[tipNow] /\ (c # None => SameRootChain(r, PrevRoot[c]))
        THEN /\ rootTip' = r /\ confirmedTip' = c
             /\ \/ \E tip \in MBlock : RewindsTo(r, cur, tip) /\ MoveHead(cur, tip)
                \/ RewindsPastGenesis(r, cur) /\ ResetGenesis(r)
        ELSE UNCHANGED <<mdb, state, canonical, head, current, rootTip, confirmedTip>>

\* Root-tip selection on a root block that has just been stored.
SelectRootTip(r, cur, tipNow) ==
    LET c == ConfirmedAt(r)
    IN  IF TD[r] > TD[tipNow] /\ (c # None => SameRootChain(r, PrevRoot[c]))
        THEN /\ rootTip' = r /\ confirmedTip' = c
             /\ \/ \E tip \in MBlock : RewindsTo(r, cur, tip) /\ MoveHead(cur, tip)
                \/ RewindsPastGenesis(r, cur) /\ ResetGenesis(r)
        ELSE UNCHANGED <<mdb, state, canonical, head, current, rootTip, confirmedTip>>

AddRootBlock(r) ==
    /\ up
    /\ AcceptsRootBlock(r)
    /\ PutRootBlock(r, ConfirmedAt(r))
    /\ SelectRootTip(r, current, rootTip)
    /\ UNCHANGED <<up, validated>>

\* InitGenesisState of a running shard: another root block of the genesis height.  The
\* genesis is written before the calls to the other shards and to the master, which
\* may fail.
InitGenesisState(r) ==
    /\ up
    /\ RNumber[r] = GenesisHeight
    /\ mdb' = mdb \cup {GenesisOf[r]}
    /\ state' = state \cup {GenesisOf[r]}
    /\ PutRootBlock(r, None)
    /\ validated' \in {validated, validated \cup {GenesisOf[r]}}
    /\ UNCHANGED <<canonical, head, current, rootTip, confirmedTip, up>>

-----------------------------------------------------------------------------
\* What is left of tries when the process ends: all of them on an archive node,
\* otherwise any selection that has the genesis tries and the ones in must.
KeepTries(tries, must) ==
    IF NoPruning THEN state' = tries
    ELSE \E kept \in SUBSET tries :
            /\ {x \in tries : MNumber[x] = 0} \cup (must \cap tries) \subseteq kept
            /\ state' = kept

GoDown ==
    /\ up /\ up' = FALSE
    /\ current' = None /\ rootTip' = None /\ confirmedTip' = None

\* Stop writes the tries of the head and of its parent before the process ends.
\* InitFromRootBlock calls it too, when AddRootBlock refuses the root block it is given.
Stop ==
    /\ GoDown
    /\ KeepTries(state, {canonical[n] : n \in Heights \cap (MNumber[current] - 1 .. MNumber[current])})
    /\ UNCHANGED <<mdb, rdb, lastConfirmed, canonical, head, validated>>

\* The process dies between two handlers.
Crash ==
    /\ GoDown
    /\ KeepTries(state, {})
    /\ UNCHANGED <<mdb, rdb, lastConfirmed, canonical, head, validated>>

\* fork is the height of the last block on both paths, -1 if they have different
\* genesis blocks.
ForkHeight(old, new, fork) ==
    LET common(h) == h <= MNumber[old] /\ MAnc[old][h] = MAnc[new][h]
    IN  /\ fork # -1 => common(fork)
        /\ \A h \in fork + 1 .. MNumber[new] : ~ common(h)

\* What a crash inside reorg leaves in the database.  The entries of the old chain are
\* deleted in one batch; then insert writes, block by block, the index entry and the
\* head.  done is the last height inserted, entry the last one with an index entry.
TornReorg(old, new) ==
    \E fork \in -1 .. MNumber[new] :
        /\ ForkHeight(old, new, fork)
        /\ \E done, entry \in fork .. MNumber[new] :
              /\ entry \in done .. done + 1
              /\ head' = IF done = fork THEN head ELSE MAnc[new][done]
              /\ canonical' = [n \in Heights |->
                     IF n <= fork THEN canonical[n]
                     ELSE IF n <= entry THEN MAnc[new][n]
                     ELSE IF n <= MNumber[old] THEN None ELSE canonical[n]]

\* The process dies while AddMinorBlock stores b: once b is written, or after its state
\* is committed too, while the head moves to b.  The collection of tries lies between
\* the two.
CrashInAddMinorBlock(b) ==
    /\ up /\ (TornWrites \/ CollectPanics(rootTip, b))
    /\ MNumber[b] > 0
    /\ MParent(b) \in mdb /\ (MParent(b) \in state => Valid(b))
    /\ GoDown
    /\ mdb' = mdb \cup {b}
    /\ \/ KeepTries(state, {}) /\ UNCHANGED <<canonical, head>>
       \/ /\ MParent(b) \in state /\ ~ CollectPanics(rootTip, b)
          /\ KeepTries(state \cup {b}, {}) /\ UpdateTip(current, b) /\ TornReorg(current, b)
    /\ UNCHANGED <<rdb, lastConfirmed, validated>>

\* The process dies between the two writes of putRootBlock, after them, or while the
\* head moves.
CrashInAddRootBlock(r) ==
    /\ TornWrites /\ up
    /\ AcceptsRootBlock(r)
    /\ GoDown
    /\ lastConfirmed' = [lastConfirmed EXCEPT ![r] = ConfirmedAt(r)]
    /\ \/ UNCHANGED <<rdb, canonical, head>>
       \/ rdb' = rdb \cup {r} /\ UNCHANGED <<canonical, head>>
       \/ /\ rdb' = rdb \cup {r}
          /\ TD[r] > TD[rootTip]
          /\ \E tip \in MBlock :
                RewindsTo(r, current, tip) /\ tip # current /\ tip \in state /\ TornReorg(current, tip)
    /\ KeepTries(state, {})
    /\ UNCHANGED <<mdb, validated>>

\* The current block of the master, which it hands to a slave that connects.  It is the
\* heaviest of all it has broadcast, unless the master died inside a reorganisation of
\* its own, which moves its head up the new chain block by block: r may then be any block
\* above a fork.
MasterHolds(r) ==
    (\A p \in RBlock : IsSameChain(RNumber, RAnc, p, r) \/ IsSameChain(RNumber, RAnc, r, p))
        => \A q \in rdb : TD[q] <= TD[r]

\* reRunBlockWithState: the path to b regains its states.
Rerun(b, have) ==
    {MAnc[b][h] : h \in {k \in 0 .. MNumber[b] : \A j \in k .. MNumber[b] : MAnc[b][j] \notin have}}

\* Mutant: a head above the confirmed block stays where the database has it.
MutRewindToConfirmed(r, c, cur, index) ==
    LET target == IF c # None /\ MNumber[c] > MNumber[cur] THEN c ELSE cur
    IN  /\ rootTip' = r /\ confirmedTip' = c
        /\ current' = target /\ head' = target
        /\ canonical' = Reorg(index, cur, target)
        /\ state' = state \cup Rerun(cur, state) \cup Rerun(target, state)
        /\ up' = TRUE

\* The end of InitFromRootBlock: the head goes back to the last confirmed block, or
\* to the genesis when the root chain confirms none.  Its missing state is computed again,
\* with the collection of tries that storing a block brings along; a panic there is the
\* death of a process that was not up.
RewindToConfirmed(r, c, cur, index) ==
    LET target == IF c # None THEN c ELSE index[0]
    IN  /\ rootTip' = r /\ confirmedTip' = c
        /\ current' = target /\ head' = target
        /\ canonical' = Reorg(index, cur, target)
        /\ IF target \in state
           THEN state' = state
           ELSE /\ ~ CollectPanics(r, cur) /\ ~ CollectPanics(r, target)
                /\ \E gone \in SUBSET (Collectable(r, cur) \cup Collectable(r, target)) :
                      state' = (state \cup Rerun(cur, state) \cup Rerun(target, state))
                               \ (gone \ {target})
        /\ up' = TRUE

\* CurrentBlock as InitFromRootBlock finds it: loadLastState has read it from the
\* database, unless a master connects again to a slave that kept running.
LoadedHead == IF up THEN current ELSE head

\* InitFromRootBlock when the database has r and a block it confirms.
InitAtKnown(r) ==
    /\ MasterHolds(r)
    /\ r \in rdb /\ RNumber[r] > GenesisHeight /\ lastConfirmed[r] # None
    /\ RewindToConfirmed(r, lastConfirmed[r], LoadedHead, canonical)
    /\ UNCHANGED <<mdb, rdb, lastConfirmed, validated>>

\* The same when r is stored but confirms nothing: AddRootBlock is called and finds r
\* known, so that only the rewind remains.
InitAtUnconfirmed(r) ==
    /\ MasterHolds(r)
    /\ r \in rdb /\ RNumber[r] > GenesisHeight /\ lastConfirmed[r] = None
    /\ RewindToConfirmed(r, None, LoadedHead, canonical)
    /\ UNCHANGED <<mdb, rdb, lastConfirmed, validated>>

\* AddRootBlock from InitFromRootBlock finds a block of the root chain of r at or below
\* the head, and the rewind follows.  When it fails for want of the state of that block,
\* the shard stops.
RewindAtNew(r) ==
    /\ \E tip \in MBlock :
          /\ RewindsTo(r, LoadedHead, tip)
          /\ IF tip # LoadedHead /\ tip \notin state
             THEN /\ current' = None /\ rootTip' = None /\ confirmedTip' = None /\ up' = FALSE
                  /\ UNCHANGED <<canonical, head, state>>
             ELSE RewindToConfirmed(r, ConfirmedAt(r), tip,
                     IF tip = LoadedHead THEN canonical ELSE Reorg(canonical, LoadedHead, tip))
    /\ UNCHANGED mdb

\* The same when the root chain of r has another minor genesis than the head.
ResetAtNew(r) ==
    LET g == GenesisOf[RAnc[r][GenesisHeight]]
    IN  /\ RewindsPastGenesis(r, LoadedHead)
        /\ RewindToConfirmed(r, ConfirmedAt(r), g, [canonical EXCEPT ![0] = g])
        /\ mdb' = mdb \cup {g}

\* InitFromRootBlock when r is the one root block the shard misses: AddRootBlock runs with
\* the parent of r as root tip.  r has been stored when it fails.
InitAtNew(r) ==
    /\ MasterHolds(r)
    /\ AcceptsRootBlock(r)
    /\ PutRootBlock(r, ConfirmedAt(r))
    /\ RewindAtNew(r) \/ ResetAtNew(r)
    /\ UNCHANGED validated

\* A slave starts while the master is still at the shard's genesis root block.  When the
\* genesis cannot be reported the shard is dropped again.
InitAtGenesis(r) ==
    /\ ~ up /\ MasterHolds(r)
    /\ RNumber[r] = GenesisHeight
    /\ PutRootBlock(r, None)
    /\ mdb' = mdb \cup {GenesisOf[r]} /\ state' = state \cup {GenesisOf[r]}
    /\ \/ /\ up' = TRUE
          /\ rootTip' = r /\ confirmedTip' = None /\ current' = head
          /\ validated' = validated \cup {GenesisOf[r]}
       \/ UNCHANGED <<up, rootTip, confirmedTip, current, validated>>
    /\ UNCHANGED <<canonical, head>>

InitFromRootBlock(r) ==
    \/ InitAtKnown(r)
    \/ InitAtUnconfirmed(r)
    \/ InitAtNew(r)
    \/ InitAtGenesis(r)

Next ==
    \/ \E b \in MBlock : AddMinorBlock(b) \/ CrashInAddMinorBlock(b)
    \/ \E r \in RBlock : AddRootBlock(r) \/ CrashInAddRootBlock(r)
    \/ \E r \in DOMAIN GenesisOf : InitGenesisState(r)
    \/ \E r \in RBlock : InitFromRootBlock(r)
    \/ Stop
    \/ Crash

Spec == Init /\ [][Next]_vars

-----------------------------------------------------------------------------
\* Every variable holds blocks of its kind.
TypeOK ==
    /\ mdb \subseteq MBlock /\ state \subseteq mdb /\ rdb \subseteq RBlock
    /\ lastConfirmed \in [RBlock -> MBlock \cup {None}]
    /\ canonical \in [Heights -> MBlock \cup {None}]
    /\ head \in mdb
    /\ up \in BOOLEAN
    /\ validated \subseteq mdb
    /\ IF up THEN current \in mdb /\ rootTip \in rdb /\ confirmedTip \in mdb \cup {None}
             ELSE current = None /\ rootTip = None /\ confirmedTip = None

\* The head was mined on the root chain the shard follows: whatever root blocks and
\* minor blocks arrive, AddRootBlock leaves no head of an abandoned root chain and
\* updateTip takes none.
TipOnRootChain == up => SameRootChain(rootTip, PrevRoot[current])

\* The head descends from the last block the root chain confirms, so that
\* getAllUnconfirmedHeaderList finds its way from the head to the confirmed tip.
TipExtendsConfirmed == up /\ confirmedTip # None => SameMinorChain(current, confirmedTip)

\* GetBlockByNumber is the canonical chain: the index holds the path to the head and
\* nothing above it, and the head in the database is the head in memory.
CanonicalIsHeadChain == up => head = current /\ canonical = PathIndex(current)

\* The two halves of the shard's promise to the master: its head was mined on the root
\* chain it follows, and the chain it serves is the path to that head, above what the
\* root chain confirms.
FollowsRootChain == TypeOK /\ TipOnRootChain
ServesHeadChain == CanonicalIsHeadChain /\ TipExtendsConfirmed

\* A step of a running shard: no root block stored above the genesis height is heavier
\* than the one followed afterwards, the head is on the chain of a root block that is
\* followed as soon as it is stored, and a lighter root tip takes the head back to what it
\* confirms.
FollowsHeavier ==
    up /\ up' =>
        /\ \A r \in rdb' \ rdb : RNumber[r] > GenesisHeight =>
              TD[r] <= TD[rootTip'] /\ (r = rootTip' => TipOnRootChain')
        /\ TD[rootTip'] < TD[rootTip] =>
              current' = IF confirmedTip' # None THEN confirmedTip' ELSE canonical'[0]

\* Root-tip selection: a running shard leaves a root chain for a heavier one only, except
\* that a master that connects again (InitFromRootBlock) may lead it back.  A second root
\* block of the genesis height is stored without a comparison.
HeaviestWins == [][FollowsHeavier]_vars

\* What the root chain confirmed stays canonical while the root chain only grows:
\* no minor fork, new root block or repeated InitFromRootBlock of the running slave on the
\* same chain rewrites it.
ConfirmedIsFinal ==
    [][up /\ up' /\ confirmedTip # None /\ IsSameChain(RNumber, RAnc, rootTip', rootTip)
         => \A n \in Heights : n <= MNumber[confirmedTip] => canonical'[n] = canonical[n]]_vars

\* GetBlockByNumber of what the root chain confirms, also after crashes: MinorBlockChain
\* says that it "always represents the canonical chain".
ConfirmedIsCanonical ==
    up /\ confirmedTip # None => \A n \in 0 .. MNumber[confirmedTip] : canonical[n] = MAnc[confirmedTip][n]

=============================================================================
