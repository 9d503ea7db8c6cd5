------------------------------- MODULE Miner -------------------------------
(***************************************************************************)
(* The miner of a chain (cluster/miner/miner.go) with the common part of   *)
(* the consensus engines (consensus/consensus.go, consensus/remote.go).    *)
(*                                                                         *)
(* A thread is a goroutine: the three loops of the miner, a caller of      *)
(* SetMining, and the goroutine that GetWork starts.  Every point where a  *)
(* goroutine can wait, for the mutex or for a channel, is a pc of its own; *)
(* what it does up to the next such point is one step.                     *)
(***************************************************************************)
EXTENDS Naturals, Sequences, FiniteSets

CONSTANTS Coinbase,         \* addresses blocks are mined for
          DefaultCoinbase,  \* the one the node mines for by itself
          NoBlock,
          MaxTip,           \* bound: height of the chain
          MinerTimes,            \* block timestamps
          MaxCalls,         \* bound: calls of SetMining
          MaxWorks,         \* size of the LRU cache of works (128)
          ResultQueueSize,
          StaleThreshold

Block == [number : 1..MaxTip, coinbase : Coinbase, time : MinerTimes]

Thread == {"commitLoop", "sealLoop", "resultLoop", "setMining", "getWork"}

VARIABLES isRemote,             \* the engine seals remotely (fixed)
          isMining, minerMu, minerExit, calls,
          pc, held,             \* control point and block of every thread
          startCh, workCh, resultCh,
          searches,             \* local nonce searches that no interrupt has stopped
          tip, isSyncing,         \* of the chain
          newTips, tipSends,    \* goroutines of HandleNewTip: started, sending
          remote,               \* the remote loop: "up", "closed", or "stuck" in its exit case
          works, currentWorks, workHeight

muVars     == <<isMining, minerMu, minerExit, calls>>
chanVars   == <<startCh, workCh, resultCh>>
chainVars  == <<tip, isSyncing, newTips, tipSends>>
remoteVars == <<remote, works, currentWorks, workHeight>>
minerVars  == <<isRemote, muVars, pc, held, chanVars, searches, chainVars, remoteVars>>

MinerInit(engines) ==
  /\ isRemote \in engines
  /\ isMining = FALSE /\ minerMu = "free" /\ minerExit = FALSE /\ calls = 0
  /\ pc = [t \in Thread |-> "idle"] /\ held = [t \in Thread |-> NoBlock]
  /\ startCh = 0 /\ workCh = <<>> /\ resultCh = <<>>
  /\ searches = {}
  /\ tip = 0 /\ isSyncing = FALSE /\ newTips = 0 /\ tipSends = 0
  /\ remote = "up"
  /\ works = <<>> /\ currentWorks = [a \in Coinbase |-> NoBlock] /\ workHeight = 0

\* Thread t, with block b, is at control point p.
At(t, p, b) == pc' = [pc EXCEPT ![t] = p] /\ held' = [held EXCEPT ![t] = b]

Unlock(t) == minerMu' = IF minerMu = t THEN "free" ELSE minerMu

----------------------------------------------------------------------------
\* commit.  A retry puts a signal into startCh, also when commit runs in the loop that reads
\* startCh; sealLoop calls commit between Lock and Unlock.

CommitStarts(t, b) == At(t, IF isSyncing THEN "sendStart" ELSE "allowMining", b)

\* IsMining takes the mutex; mining may be off, or the heartbeat of the master too old.
allowMining(t) ==
  /\ pc[t] = "allowMining" /\ minerMu = "free"
  /\ \/ isMining /\ At(t, "interrupt", held[t])
     \/ At(t, "idle", NoBlock)
  /\ UNCHANGED <<isRemote, muVars, chanVars, searches, chainVars, remoteVars>>

CoinbaseOf(t) == IF t = "commitLoop" THEN DefaultCoinbase ELSE held[t].coinbase

\* CreateBlockToMine fails or its block is no longer above the tip, or there is a new block.
CreateBlock(t) ==
  \/ At(t, "sendStart", NoBlock)
  \/ /\ tip < MaxTip
     /\ \E s \in MinerTimes : At(t, "sendWork", [number |-> tip + 1, coinbase |-> CoinbaseOf(t), time |-> s])

\* Mutant: the mutex is kept after interrupt.
MutInterrupt(t) ==
  /\ pc[t] = "interrupt" /\ minerMu = "free"
  /\ searches' = {}
  /\ CreateBlock(t) /\ minerMu' = t
  /\ UNCHANGED <<isRemote, isMining, minerExit, calls, chanVars, chainVars, remoteVars>>

interrupt(t) ==
  /\ pc[t] = "interrupt" /\ minerMu = "free"
  /\ searches' = {}
  /\ CreateBlock(t)
  /\ UNCHANGED <<isRemote, muVars, chanVars, chainVars, remoteVars>>

SendStart(t) ==
  /\ pc[t] = "sendStart" /\ startCh = 0
  /\ startCh' = 1 /\ At(t, "idle", NoBlock) /\ Unlock(t)
  /\ UNCHANGED <<isRemote, isMining, minerExit, calls, workCh, resultCh, searches, chainVars, remoteVars>>

SendWork(t) ==
  /\ pc[t] = "sendWork" /\ workCh = <<>>
  /\ workCh' = <<held[t]>> /\ At(t, "idle", NoBlock) /\ Unlock(t)
  /\ UNCHANGED <<isRemote, isMining, minerExit, calls, startCh, resultCh, searches, chainVars, remoteVars>>

----------------------------------------------------------------------------
\* The loops.

commitLoop ==
  /\ pc["commitLoop"] = "idle" /\ startCh = 1
  /\ startCh' = 0 /\ CommitStarts("commitLoop", NoBlock)
  /\ UNCHANGED <<isRemote, muVars, workCh, resultCh, searches, chainVars, remoteVars>>

sealLoop ==
  /\ pc["sealLoop"] = "idle" /\ workCh # <<>>
  /\ workCh' = <<>> /\ At("sealLoop", "lock", Head(workCh))
  /\ UNCHANGED <<isRemote, muVars, startCh, resultCh, searches, chainVars, remoteVars>>

KeptWorks == {works[i] : i \in DOMAIN works}

\* A seal hash that the remote loop has seen is not made current again.
makeWork(b) ==
  IF b \in KeptWorks
  THEN UNCHANGED <<works, currentWorks, workHeight>>
  ELSE /\ works' = (IF Len(works) = MaxWorks THEN Tail(works) ELSE works) \o <<b>>
       /\ currentWorks' = [currentWorks EXCEPT ![b.coinbase] = b]
       /\ workHeight' = b.number

\* Seal on a remote engine: the remote loop takes the work, unless it is stuck.
SealRemote ==
  /\ pc["sealLoop"] = "lock" /\ isRemote /\ minerMu = "free"
  /\ \/ /\ remote # "stuck" /\ makeWork(held["sealLoop"])
        /\ At("sealLoop", "idle", NoBlock) /\ UNCHANGED minerMu
     \/ /\ remote = "stuck" /\ minerMu' = "sealLoop"
        /\ At("sealLoop", "setWork", held["sealLoop"]) /\ UNCHANGED <<works, currentWorks, workHeight>>
  /\ UNCHANGED <<isRemote, isMining, minerExit, calls, chanVars, searches, chainVars, remote>>

\* A local search starts; without randomness it does not, and commit is called under the lock.
localSeal ==
  /\ pc["sealLoop"] = "lock" /\ ~isRemote /\ minerMu = "free"
  /\ \/ /\ searches' = searches \cup {held["sealLoop"]}
        /\ At("sealLoop", "idle", NoBlock) /\ UNCHANGED minerMu
     \/ /\ CommitStarts("sealLoop", held["sealLoop"])
        /\ minerMu' = "sealLoop" /\ UNCHANGED searches
  /\ UNCHANGED <<isRemote, isMining, minerExit, calls, chanVars, chainVars, remoteVars>>

\* A search ends with a nonce; the block is dropped when the queue is full.
FindNonce(b) ==
  /\ b \in searches
  /\ searches' = searches \ {b}
  /\ resultCh' = IF Len(resultCh) < ResultQueueSize THEN Append(resultCh, b) ELSE resultCh
  /\ UNCHANGED <<isRemote, muVars, pc, held, startCh, workCh, chainVars, remoteVars>>

\* InsertMinedBlock fails and the loop commits, or the block may become the tip.
resultLoop ==
  /\ pc["resultLoop"] = "idle" /\ resultCh # <<>>
  /\ resultCh' = Tail(resultCh)
  /\ \/ CommitStarts("resultLoop", Head(resultCh)) /\ UNCHANGED <<tip, newTips>>
     \/ /\ UNCHANGED <<pc, held>>
        /\ IF Head(resultCh).number > tip
           THEN tip' = Head(resultCh).number /\ newTips' = newTips + 1
           ELSE UNCHANGED <<tip, newTips>>
  /\ UNCHANGED <<isRemote, muVars, startCh, workCh, searches, isSyncing, tipSends, remoteVars>>

LoopExits(t) ==
  /\ minerExit /\ t \in {"commitLoop", "sealLoop", "resultLoop"} /\ pc[t] = "idle"
  /\ At(t, "exited", NoBlock)
  /\ UNCHANGED <<isRemote, muVars, chanVars, searches, chainVars, remoteVars>>

----------------------------------------------------------------------------
\* Calls from the backend, from clients and from the operator.

\* A block of a peer becomes the tip; the backend starts HandleNewTip as a goroutine.
PeerBlock ==
  /\ tip < MaxTip /\ tip' = tip + 1 /\ newTips' = newTips + 1
  /\ UNCHANGED <<isRemote, muVars, pc, held, chanVars, searches, isSyncing, tipSends, remoteVars>>

SyncChanges ==
  /\ isSyncing' = ~isSyncing
  /\ UNCHANGED <<isRemote, muVars, pc, held, chanVars, searches, tip, newTips, tipSends, remoteVars>>

HandleNewTip ==
  /\ newTips > 0 /\ newTips' = newTips - 1
  /\ currentWorks' = [a \in Coinbase |-> NoBlock]
  /\ tipSends' = IF isSyncing THEN tipSends ELSE tipSends + 1
  /\ UNCHANGED <<isRemote, muVars, pc, held, chanVars, searches, tip, isSyncing, remote, works, workHeight>>

NewTipSends ==
  /\ tipSends > 0 /\ startCh = 0
  /\ tipSends' = tipSends - 1 /\ startCh' = 1
  /\ UNCHANGED <<isRemote, muVars, pc, held, workCh, resultCh, searches, tip, isSyncing, newTips, remoteVars>>

\* SetMining keeps the mutex while it sends, or while it calls interrupt.
SetMining(mining) ==
  /\ pc["setMining"] = "idle" /\ calls < MaxCalls /\ minerMu = "free"
  /\ minerMu' = "setMining" /\ isMining' = mining /\ calls' = calls + 1
  /\ At("setMining", IF mining THEN "sendStart" ELSE "interrupt", NoBlock)
  /\ UNCHANGED <<isRemote, minerExit, chanVars, searches, chainVars, remoteVars>>

MinerStop ==
  /\ ~minerExit /\ minerMu = "free"
  /\ minerExit' = TRUE /\ isMining' = FALSE
  /\ UNCHANGED <<isRemote, minerMu, calls, pc, held, chanVars, searches, chainVars, remoteVars>>

\* Close closes exitCh.  The remote loop reads a nil channel from it and waits on that for good.
EngineClose ==
  /\ minerExit /\ isRemote /\ remote # "stuck"
  /\ remote' = IF remote = "up" THEN "closed" ELSE "stuck"
  /\ UNCHANGED <<isRemote, muVars, pc, held, chanVars, searches, chainVars, works, currentWorks, workHeight>>

\* A client asks for work; without current work a block is made and sealed in a goroutine.
GetWork(a) ==
  /\ isRemote /\ remote # "stuck" /\ pc["getWork"] = "idle"
  /\ currentWorks[a] = NoBlock /\ tip < MaxTip
  /\ \E s \in MinerTimes : At("getWork", "setWork", [number |-> tip + 1, coinbase |-> a, time |-> s])
  /\ UNCHANGED <<isRemote, muVars, chanVars, searches, chainVars, remoteVars>>

GetWorkSeals ==
  /\ pc["getWork"] = "setWork" /\ remote # "stuck"
  /\ makeWork(held["getWork"]) /\ At("getWork", "idle", NoBlock)
  /\ UNCHANGED <<isRemote, muVars, chanVars, searches, chainVars, remote>>

\* A client submits a solution of some work; the remote loop accepts it or not and never waits.
SubmitWork(b) ==
  /\ isRemote /\ remote # "stuck"
  /\ minerMu = "free" /\ isMining /\ ~isSyncing
  /\ \E a \in Coinbase : currentWorks[a] # NoBlock
  /\ works' = SelectSeq(works, LAMBDA w : w # b) \o <<b>>
  /\ \/ /\ currentWorks[b.coinbase] = b
        /\ b.number + StaleThreshold > workHeight
        /\ Len(resultCh) < ResultQueueSize
        /\ resultCh' = Append(resultCh, b)
     \/ UNCHANGED resultCh
  /\ UNCHANGED <<isRemote, muVars, pc, held, startCh, workCh, searches, chainVars,
                 remote, currentWorks, workHeight>>

MinerNext ==
  \/ \E t \in Thread : allowMining(t) \/ interrupt(t) \/ SendStart(t) \/ SendWork(t) \/ LoopExits(t)
  \/ commitLoop \/ sealLoop \/ SealRemote \/ localSeal \/ resultLoop \/ GetWorkSeals
  \/ \E b \in searches : FindNonce(b)
  \/ PeerBlock \/ SyncChanges \/ HandleNewTip \/ NewTipSends \/ MinerStop \/ EngineClose
  \/ \E mining \in BOOLEAN : SetMining(mining)
  \/ \E a \in Coinbase : GetWork(a)
  \/ \E b \in KeptWorks : SubmitWork(b)

MinerSpec == MinerInit(BOOLEAN) /\ [][MinerNext]_minerVars

----------------------------------------------------------------------------
\* The thread is inside a call and cannot take its next step.
Waiting(t) ==
  \/ pc[t] \in {"allowMining", "interrupt", "lock"} /\ minerMu # "free"
  \/ pc[t] = "sendStart" /\ startCh = 1
  \/ pc[t] = "sendWork" /\ workCh # <<>>
  \/ pc[t] = "setWork" /\ remote = "stuck"

\* Somebody is inside a call of the miner, and nobody in the miner can go on.
Jammed ==
  /\ \E t \in Thread : pc[t] \notin {"idle", "exited"}
  /\ \A t \in Thread : pc[t] \notin {"idle", "exited"} => Waiting(t)
  /\ pc["commitLoop"] = "idle" => startCh = 0
  /\ pc["sealLoop"] = "idle" => workCh = <<>>

\* The waits between the mutex and the three channels close to a circle in two ways only:
\* SetMining(false), or commit under sealLoop's lock, asks for the mutex its own goroutine
\* holds; or a signal is in startCh while its only reader is inside commit.  After Stop the
\* loops no longer read.
OnlyKnownJams ==
  Jammed => \/ minerMu # "free" /\ pc[minerMu] \in {"allowMining", "interrupt"}
            \/ startCh = 1 /\ pc["commitLoop"] # "idle"
            \/ minerExit
=============================================================================
