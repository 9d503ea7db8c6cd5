--------------------------- MODULE Synchronizer ---------------------------
(***************************************************************************)
(* cluster/sync: the queue of sync tasks, one per peer, the goroutine that *)
(* runs them one at a time, and a task itself: skip or search the common   *)
(* ancestor, then download headers and blocks until the peer's header is   *)
(* reached.  The same code serves the root chain (rootChainTask) and a     *)
(* shard's chain (minorChainTask); syncRoot tells which one is modelled.   *)
(*                                                                         *)
(* Every request to the peer is a step of its own: between two requests    *)
(* the peer may switch to another chain, the node may add blocks from      *)
(* elsewhere, and the request may time out.                                *)
(***************************************************************************)
EXTENDS Integers, Sequences, FiniteSets, BlockTree

CONSTANTS
    SyncPeer,          \* peers, each running the same protocol
    SyncBlock,         \* blocks of the chain
    SyncNumber,        \* block -> height
    SyncAnc,           \* block -> path from the genesis block (BlockTree)
    SyncTotal,         \* block -> total difficulty
    SyncGenesis,
    SyncHave,          \* blocks the node starts with
    SyncTips,          \* blocks the peers start with
    SyncNil,           \* a nil pointer
    HeaderListLimit,   \* RootBlockHeaderListLimit, MinorBlockHeaderListLimit
    MaxSyncStaleness,
    MaxAnnounce,       \* bound: tips the peers announce
    MaxDisturb         \* bound: changes of the peers' chains and blocks that reach the
                       \* node by another way

ASSUME SyncAssumption ==
    /\ IsBlockTree(SyncBlock, SyncNumber, SyncAnc)
    /\ \A b \in SyncBlock : SyncNumber[b] = 0 <=> b = SyncGenesis
    /\ SyncHave \subseteq SyncBlock /\ SyncTips \subseteq SyncBlock
    /\ SyncGenesis \in SyncHave
    /\ \A b \in SyncHave : \A h \in 0 .. SyncNumber[b] : SyncAnc[b][h] \in SyncHave
    /\ SyncTotal \in [SyncBlock -> Nat]
    /\ SyncNil \notin SyncBlock
    /\ HeaderListLimit \in Nat \ {0}
    /\ MaxSyncStaleness \in Nat

VARIABLES
    syncRoot,      \* TRUE: root chain tasks; FALSE: minor chain tasks
    peerTip,       \* the peers' current blocks
    stored,        \* HasBlock
    syncCurrent,       \* CurrentHeader
    taskMap,       \* the loop's map from a peer to its waiting task
    loopOn,        \* the loop has not seen abortCh
    syncing,       \* synchronizer.running
    task,          \* the task the runner executes
    orphaned,      \* AddBlock was called with a block whose parent is unknown
    blockedSender, \* an AddTask or Close call waits for a loop that is gone
    syncSteps      \* counters for the bounds

syncVars == <<syncRoot, peerTip, stored, syncCurrent, taskMap, loopOn, syncing,
              task, orphaned, blockedSender, syncSteps>>

SyncParent(b) == ParentOf(SyncNumber, SyncAnc, b)

\* GetTotalDifficulty for a root header, NumberU64 for a minor header: what
\* Priority, needSkip and the choice of the current block compare.
Weight(b) == IF syncRoot THEN SyncTotal[b] ELSE SyncNumber[b]

NoTask == [pc |-> "idle", peer |-> SyncNil, header |-> SyncNil, start |-> 0,
           end |-> 0, best |-> SyncNil, hashes |-> << >>]

SyncInit(kinds, tips) ==
    /\ syncRoot \in kinds
    /\ peerTip \in [SyncPeer -> tips]
    /\ stored = SyncHave
    /\ syncCurrent \in SyncHave /\ \A b \in SyncHave : Weight(b) <= Weight(syncCurrent)
    /\ taskMap = [p \in SyncPeer |-> SyncNil]
    /\ loopOn = TRUE
    /\ syncing = FALSE
    /\ task = NoTask
    /\ orphaned = FALSE
    /\ blockedSender = FALSE
    /\ syncSteps = [announce |-> 0, disturb |-> 0]

Count(what) == syncSteps' = [syncSteps EXCEPT ![what] = @ + 1]

----------------------------------------------------------------------------
(* The queue. *)

\* A peer announces its tip and the handler calls AddTask.  taskRecvCh has no
\* buffer: the call returns when the loop has put the task into the map, in
\* place of an older one of the same peer, and never returns when the loop
\* has ended.
AddTask(p) ==
    /\ syncSteps.announce < MaxAnnounce
    /\ Count("announce")
    /\ IF loopOn
       THEN /\ taskMap' = [taskMap EXCEPT ![p] = peerTip[p]]
            /\ UNCHANGED blockedSender
       ELSE /\ blockedSender' = TRUE
            /\ UNCHANGED taskMap
    /\ UNCHANGED <<syncRoot, peerTip, stored, syncCurrent, loopOn, syncing, task, orphaned>>

\* getNextTask: any of the waiting tasks of highest priority (the map is
\* iterated in random order).
getNextTask(p) ==
    /\ taskMap[p] # SyncNil
    /\ \A q \in SyncPeer : taskMap[q] # SyncNil => Weight(taskMap[q]) <= Weight(taskMap[p])

\* taskAssignCh has no buffer either: the send succeeds when the runner is
\* back at its range statement.
Assign(p) ==
    /\ loopOn
    /\ task.pc = "idle"
    /\ getNextTask(p)
    /\ taskMap' = [taskMap EXCEPT ![p] = SyncNil]
    /\ syncing' = TRUE
    /\ task' = [NoTask EXCEPT !.pc = "run", !.peer = p, !.header = taskMap[p]]
    /\ UNCHANGED <<syncRoot, peerTip, stored, syncCurrent, loopOn, orphaned, blockedSender, syncSteps>>

\* Close: the loop closes taskAssignCh and returns; waiting tasks are lost and
\* the runner ends after its current task.
SyncClose ==
    /\ loopOn
    /\ loopOn' = FALSE
    /\ UNCHANGED <<syncRoot, peerTip, stored, syncCurrent, taskMap, syncing, task, orphaned,
                   blockedSender, syncSteps>>

----------------------------------------------------------------------------
(* A task.  Steps of the runner leave the queue and the peers alone. *)

RunnerOnly == UNCHANGED <<syncRoot, peerTip, taskMap, loopOn, blockedSender, syncSteps>>

\* Run returns, with or without an error, and the runner calls setSyncing(false).
TaskDone == task' = NoTask /\ syncing' = FALSE

\* A nil *Header is dereferenced: the process ends.
SyncPanic == task' = [task EXCEPT !.pc = "panic"] /\ UNCHANGED syncing

\* needSkip.  A minor task is also skipped when its root block is unknown or
\* lower than the one the tip refers to, which depends on the root chain.
NeedSkip ==
    \/ Weight(task.header) <= Weight(syncCurrent)
    \/ ~syncRoot /\ task.header \in stored

MaySkip == ~syncRoot

LowestHeight == IF SyncNumber[syncCurrent] < MaxSyncStaleness THEN 0
                ELSE SyncNumber[syncCurrent] - MaxSyncStaleness

\* An ancestor was found: findAncestor's wrapper and the staleness check of Run.
Found(a) ==
    IF \/ syncRoot /\ SyncTotal[task.header] < SyncTotal[a]
       \/ SyncNumber[syncCurrent] - SyncNumber[a] > MaxSyncStaleness
    THEN TaskDone
    ELSE task' = [task EXCEPT !.pc = "headers", !.best = a] /\ UNCHANGED syncing

\* Run up to the first request of the search.  The root task compares the
\* parent of its header with the tip, the minor task the header itself.
RunTask ==
    /\ task.pc = "run"
    /\ \/ NeedSkip /\ TaskDone
       \/ MaySkip /\ TaskDone
       \/ /\ ~NeedSkip
          /\ IF task.header \in stored
             THEN TaskDone
             ELSE IF syncRoot /\ SyncParent(task.header) = syncCurrent
             THEN Found(syncCurrent)
             ELSE LET end == IF SyncNumber[task.header] < SyncNumber[syncCurrent]
                             THEN SyncNumber[task.header] ELSE SyncNumber[syncCurrent]
                  IN  IF end < LowestHeight
                      THEN SyncPanic
                      ELSE /\ task' = [task EXCEPT !.pc = "find", !.start = LowestHeight, !.end = end]
                           /\ UNCHANGED syncing
    /\ UNCHANGED <<stored, syncCurrent, orphaned>>
    /\ RunnerOnly

\* The peer's answer to a request for limit headers from height start towards
\* the tip, skip heights left out between two of them.
HeaderList(tip, start, skip, limit) ==
    LET last == SyncNumber[tip]
        fit  == IF start > last THEN 0 ELSE (last - start) \div (skip + 1) + 1
    IN  [i \in 1 .. (IF fit < limit THEN fit ELSE limit) |->
            SyncAnc[tip][start + (i - 1) * (skip + 1)]]

\* GetDifficulty of a header.
DifficultyOf(b) ==
    IF b = SyncGenesis THEN SyncTotal[b] ELSE SyncTotal[b] - SyncTotal[SyncParent(b)]

\* downloadBlockHeaderListAndCheck returns no error: the tip that came with the
\* headers outweighs the header's own difficulty (root), the list is not empty
\* and as long as the tip (root) or the header (minor) promises.
ListAccepted(tip, list, start, skip, limit) ==
    LET top  == IF syncRoot THEN SyncNumber[tip] ELSE SyncNumber[task.header]
        want == (top + 1 - start + skip) \div (skip + 1)
    IN  /\ syncRoot => SyncTotal[tip] > DifficultyOf(task.header)
        /\ list # << >>
        /\ Len(list) = IF want > limit THEN limit ELSE want

\* A root task follows the peer: its header becomes the tip of the answer.
HeaderAfter(tip) == IF syncRoot THEN tip ELSE task.header

MutSearchRound(list) ==
    LET known == {i \in DOMAIN list : list[i] \in stored}
        top   == CHOOSE i \in known : \A j \in known : j <= i
    IN  IF known = {}
        THEN TaskDone
        ELSE /\ task' = [task EXCEPT !.start = SyncNumber[list[top]], !.best = list[top]]
             /\ UNCHANGED syncing

\* One round of the search for the common ancestor: ask for headers spread over
\* start .. end, go down from the last one to the first that is stored.  The
\* headers above it lower end, it raises start.
SearchRound(list) ==
    LET known == {i \in DOMAIN list : list[i] \in stored}
        top   == CHOOSE i \in known : \A j \in known : j <= i
        below == SyncNumber[list[IF known = {} THEN 1 ELSE top + 1]] - 1
        end   == IF known # {} /\ top = Len(list) THEN task.end ELSE below
        t     == [task EXCEPT !.end = end, !.header = HeaderAfter(peerTip[task.peer])]
    IN  IF known = {}
        THEN IF end >= task.start
             THEN task' = t /\ UNCHANGED syncing
             ELSE IF task.best = SyncNil THEN SyncPanic
             ELSE Found(task.best)
        ELSE IF SyncNumber[list[top]] = end
        THEN Found(list[top])
        ELSE /\ task' = [t EXCEPT !.start = SyncNumber[list[top]] + 1, !.best = list[top]]
             /\ UNCHANGED syncing

findAncestor ==
    /\ task.pc = "find"
    /\ LET width == task.end - task.start
           span  == width \div HeaderListLimit + 1
           limit == IF syncRoot THEN (width + 1) \div span ELSE (width + span) \div span
           list  == HeaderList(peerTip[task.peer], task.start, span - 1, limit)
       IN  IF ListAccepted(peerTip[task.peer], list, task.start, span - 1, limit)
           THEN SearchRound(list)
           ELSE TaskDone
    /\ UNCHANGED <<stored, syncCurrent, orphaned>>
    /\ RunnerOnly

MutSyncContinues(list, ancestor) == TRUE

\* The first of the new headers must continue the ancestor.
SyncContinues(list, ancestor) == SyncParent(list[1]) = ancestor

\* getHeaders and validateHeaderList: the headers after the last block added,
\* until its height is the header's.
getHeaders ==
    /\ task.pc = "headers"
    /\ LET from  == SyncNumber[task.best]
           diff  == SyncNumber[task.header] - from
           limit == IF HeaderListLimit > diff THEN diff ELSE HeaderListLimit
           tip   == peerTip[task.peer]
           list  == HeaderList(tip, from + 1, 0, limit)
       IN  IF /\ diff > 0
              /\ ListAccepted(tip, list, from + 1, 0, limit)
              /\ SyncContinues(list, task.best)
           THEN /\ task' = [task EXCEPT !.pc = "blocks", !.hashes = list,
                                        !.header = HeaderAfter(tip)]
                /\ UNCHANGED syncing
           ELSE TaskDone
    /\ UNCHANGED <<stored, syncCurrent, orphaned>>
    /\ RunnerOnly

\* AddBlock of one block of the node's chain.
ChainAdd(b) ==
    /\ stored' = stored \cup {b}
    /\ syncCurrent' = IF Weight(b) > Weight(syncCurrent) THEN b ELSE syncCurrent

\* The first block of a batch is added, with the minor blocks it confirms
\* (syncBlock); the next batch is a request to the peer, which keeps the blocks
\* of the chains it left.  A failure of syncBlock or of AddBlock ends the task.
AddOne ==
    /\ task.pc = "blocks"
    /\ LET b == Head(task.hashes)
       IN  IF b # SyncGenesis /\ SyncParent(b) \notin stored
           THEN /\ orphaned' = TRUE
                /\ TaskDone
                /\ UNCHANGED <<stored, syncCurrent>>
           ELSE /\ ChainAdd(b)
                /\ task' = [task EXCEPT
                       !.best = b, !.hashes = Tail(@),
                       !.pc = IF Len(task.hashes) = 1 THEN "headers" ELSE "blocks"]
                /\ UNCHANGED <<syncing, orphaned>>
    /\ RunnerOnly

\* A request times out, the blocks of an answer are fewer than asked for, a
\* slave fails to add the minor blocks, a seal is wrong.
TaskFails ==
    /\ task.pc \in {"find", "headers", "blocks"}
    /\ TaskDone
    /\ UNCHANGED <<stored, syncCurrent, orphaned>>
    /\ RunnerOnly

----------------------------------------------------------------------------
(* The environment. *)

\* A peer adopts a chain that is heavier than its own.
PeerSwitches(p, b) ==
    /\ syncSteps.disturb < MaxDisturb
    /\ Weight(b) > Weight(peerTip[p])
    /\ Count("disturb")
    /\ peerTip' = [peerTip EXCEPT ![p] = b]
    /\ UNCHANGED <<syncRoot, stored, syncCurrent, taskMap, loopOn, syncing, task, orphaned, blockedSender>>

\* A mined block, or one received from another peer, is added.
LocalBlock(b) ==
    /\ syncSteps.disturb < MaxDisturb
    /\ b \notin stored
    /\ SyncParent(b) \in stored
    /\ task.pc # "panic"
    /\ Count("disturb")
    /\ ChainAdd(b)
    /\ UNCHANGED <<syncRoot, peerTip, taskMap, loopOn, syncing, task, orphaned, blockedSender>>

RunnerStep == RunTask \/ findAncestor \/ getHeaders \/ AddOne

SyncNext ==
    \/ \E p \in SyncPeer : AddTask(p) \/ Assign(p)
    \/ SyncClose
    \/ RunnerStep \/ TaskFails
    \/ \E p \in SyncPeer, b \in SyncBlock : PeerSwitches(p, b)
    \/ \E b \in SyncBlock \ {SyncGenesis} : LocalBlock(b)

\* The runner is a goroutine that does nothing but run its task, and every
\* request has a timeout.
SyncSpec(roots, tips) == SyncInit(roots, tips) /\ [][SyncNext]_syncVars /\ WF_syncVars(RunnerStep)

----------------------------------------------------------------------------
\* Every AddBlock of a task meets the parent: the blocks of a task are added
\* in order on top of one another although the peer may have changed its chain
\* between the search, the headers and the blocks, so that the node has the whole
\* path below every block it has (root_task.go:97, minor_task.go:85, task.go Run).
BlocksLinked ==
    /\ ~orphaned
    /\ \A b \in stored : \A h \in 0 .. SyncNumber[b] : SyncAnc[b][h] \in stored

\* A round of the search for the ancestor that does not end it leaves fewer heights to
\* search, within those of the round before, whatever the spans between the headers
\* asked for and wherever the peer's chain has gone (root_task.go:196-232).
SearchNarrows ==
    [][task.pc = "find" /\ task'.pc = "find" /\ task' # task
         => /\ task.start < task'.start /\ task'.start <= task'.end
            /\ task'.end <= task.end]_syncVars

\* Every task ends, so IsSyncing is reset, the next task is taken and mining
\* resumes: the search narrows start .. end in each round for every span
\* (root_task.go:196-232) and the download ends although the header of a root
\* task moves with its peer (root_task.go:173).
TaskEnds == syncing ~> (~syncing \/ task.pc = "panic")

=============================================================================
