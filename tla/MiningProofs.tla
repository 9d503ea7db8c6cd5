---------------------------- MODULE MiningProofs ----------------------------
(***************************************************************************)
(* Proofs about mining, for any number of sealers, workers, engines and    *)
(* goroutines: setMining is only ever stopped where the code is known to   *)
(* stop it, the stand-alone miner submits solutions of its current work,   *)
(* and nobody hashes with a cache that is not whole.  The components share *)
(* no variable; each has an inductive invariant of its own and a section   *)
(* of this module.                                                         *)
(***************************************************************************)
EXTENDS Miner, MinerClient, EthashCache, SequenceTheorems, TLAPS

\* A leaf is tried with Zenon, then with the SMT solver; the limits are in seconds.
USE ZenonT(8), SMTT(30)

-----------------------------------------------------------------------------
(* The miner of a chain (Miner).                                           *)

MinerPlace == {"idle", "lock", "allowMining", "interrupt", "sendStart", "sendWork", "setWork", "exited"}

\* The mutex: who has it is inside a call, commit runs in sealLoop only with it, and then
\* gets no further than to the first use of it.
MutexOK(at, mu) ==
    /\ at \in [Thread -> MinerPlace] /\ mu \in {"free", "sealLoop", "setMining"}
    /\ mu # "free" => at[mu] \in {"allowMining", "interrupt", "sendStart", "setWork"}
    /\ at["sealLoop"] \in {"allowMining", "sendStart", "setWork"} => mu = "sealLoop"
    /\ at["sealLoop"] \notin {"interrupt", "sendWork"}

\* A loop ends, and the remote loop is stuck, only after Stop.
StopOK(at, rem, exits) ==
    /\ rem = "stuck" => exits
    /\ \A t \in Thread : at[t] = "exited" => exits

MinerInv == MutexOK(pc, minerMu) /\ StopOK(pc, remote, minerExit) /\ startCh \in {0, 1}

LEMMA MinerStart == MinerInit(BOOLEAN) => MinerInv
  BY DEF MinerInit, MinerInv, MutexOK, StopOK, MinerPlace, Thread

\* A step of the miner keeps who has the mutex and where the loops are.
LEMMA MinerStep ==
  ASSUME MinerInv, [MinerNext]_minerVars
  PROVE  MinerInv'
<1> USE DEF MinerInv, MutexOK, StopOK, MinerPlace, Thread
<1>1. ASSUME NEW t \in Thread, allowMining(t)
      PROVE  MinerInv'
  BY <1>1 DEF allowMining, At, muVars, chanVars, remoteVars
<1>2. ASSUME NEW t \in Thread, interrupt(t)
      PROVE  MinerInv'
  BY <1>2 DEF interrupt, CreateBlock, At, muVars, chanVars, remoteVars
<1>3. ASSUME NEW t \in Thread, SendStart(t)
      PROVE  MinerInv'
  BY <1>3 DEF SendStart, At, Unlock, remoteVars
<1>4. ASSUME NEW t \in Thread, SendWork(t)
      PROVE  MinerInv'
  BY <1>4 DEF SendWork, At, Unlock, remoteVars
<1>5. ASSUME NEW t \in Thread, LoopExits(t)
      PROVE  MinerInv'
  BY <1>5 DEF LoopExits, At, muVars, chanVars, remoteVars
<1>6. CASE commitLoop
  BY <1>6 DEF commitLoop, CommitStarts, At, muVars, remoteVars
<1>7. CASE sealLoop
  BY <1>7 DEF sealLoop, At, muVars, remoteVars
<1>8. CASE SealRemote
  BY <1>8 DEF SealRemote, At, chanVars
<1>9. CASE localSeal
  BY <1>9 DEF localSeal, CommitStarts, At, chanVars, remoteVars
<1>10. CASE resultLoop
  BY <1>10 DEF resultLoop, CommitStarts, At, muVars, remoteVars
<1>11. CASE GetWorkSeals
  BY <1>11 DEF GetWorkSeals, At, muVars, chanVars
<1>12. CASE EngineClose \/ MinerStop
  BY <1>12 DEF EngineClose, MinerStop, muVars, chanVars, remoteVars
<1>13. CASE PeerBlock \/ SyncChanges \/ HandleNewTip \/ NewTipSends
  BY <1>13 DEF PeerBlock, SyncChanges, HandleNewTip, NewTipSends, muVars, chanVars, remoteVars
<1>14. ASSUME NEW mining \in BOOLEAN, SetMining(mining)
       PROVE  MinerInv'
  BY <1>14 DEF SetMining, At, chanVars, remoteVars
<1>15. ASSUME NEW a \in Coinbase, GetWork(a)
       PROVE  MinerInv'
  BY <1>15 DEF GetWork, At, muVars, chanVars, remoteVars
<1>16. ASSUME NEW b, FindNonce(b) \/ SubmitWork(b)
       PROVE  MinerInv'
  BY <1>16, Zenon DEF FindNonce, SubmitWork, muVars, remoteVars
<1>17. CASE UNCHANGED minerVars
  BY <1>17 DEF minerVars, muVars, chanVars, remoteVars
<1> QED
  BY <1>1, <1>2, <1>3, <1>4, <1>5, <1>6, <1>7, <1>8, <1>9, <1>10, <1>11, <1>12, <1>13, <1>14,
     <1>15, <1>16, <1>17, Zenon DEF MinerNext

\* The goroutines of the miner and of the remote sealer wait for each other for good only
\* in the ways OnlyKnownJams names (miner.go commit, sealLoop, SetMining), whatever the
\* coinbases, the sizes of the queues and the number of calls.
THEOREM JamsAlways == MinerSpec => []OnlyKnownJams
<1>1. MinerInv => OnlyKnownJams
  <2> SUFFICES ASSUME MinerInv, Jammed, ~minerExit
               PROVE  \/ minerMu # "free" /\ pc[minerMu] \in {"allowMining", "interrupt"}
                      \/ startCh = 1 /\ pc["commitLoop"] # "idle"
    BY DEF OnlyKnownJams
  <2>1. ASSUME NEW t \in Thread, pc[t] = "sendStart"
        PROVE  startCh = 1 /\ pc["commitLoop"] # "idle"
    BY <2>1 DEF MinerInv, Jammed, Waiting
  <2>2. ASSUME NEW t \in Thread
        PROVE  pc[t] \notin {"setWork", "exited"}
    BY <2>2 DEF MinerInv, StopOK, Jammed, Waiting
  <2>3. CASE minerMu # "free"
    BY <2>1, <2>2, <2>3 DEF MinerInv, MutexOK, Thread
  <2>4. CASE minerMu = "free"
    <3>1. PICK t \in Thread : pc[t] \notin {"idle", "exited"}
      BY DEF Jammed
    <3>2. Waiting(t)
      BY <3>1 DEF Jammed
    <3>3. CASE pc[t] = "sendWork" /\ workCh # <<>>
      <4>1. pc["sealLoop"] \notin {"idle", "exited"}
        BY <3>3, <2>2 DEF Jammed, Thread
      <4>2. Waiting("sealLoop")
        BY <4>1 DEF Jammed, Thread
      <4>3. pc["sealLoop"] = "sendStart"
        BY <4>2, <2>2, <2>4 DEF Waiting, MinerInv, MutexOK, Thread
      <4> QED
        BY <4>3, <2>1 DEF Thread
    <3> QED
      BY <3>2, <3>3, <2>1, <2>2, <2>4 DEF Waiting
  <2> QED
    BY <2>3, <2>4
<1> QED
  BY MinerStart, MinerStep, <1>1, PTL DEF MinerSpec

-----------------------------------------------------------------------------
(* The stand-alone miner (MinerClient).                                    *)

\* Work a is not above work b; "nil" is no work.
NotAbove(a, b) == a # "nil" => b # "nil" /\ HeightOfWork[a] <= HeightOfWork[b]

LEMMA AtMostTransitive ==
  ASSUME NEW a \in Nat, NEW b \in Nat, NEW c \in Nat, a <= b, b <= c PROVE a <= c
  OBVIOUS

ClientTypes ==
    /\ offered \in [Workers -> WorkIds \cup {"nil"}] /\ lastFetched \in [Workers -> WorkIds \cup {"nil"}]
    /\ fetchAt \in [Workers -> WorkIds \cup {"nil"}] /\ currWork \in [Workers -> WorkIds \cup {"nil"}]
    /\ takenWork \in [Workers -> WorkIds \cup {"nil"}]
    /\ workAt \in [Workers -> {"select", "aborts", "starts", "submits"}]
    /\ nonceSearches \in [Workers -> SUBSET [work : WorkIds, at : {"select", "delivers"}]]
    /\ DOMAIN solution = Workers

\* One worker: the heights of the works it holds do not fall from the search to the last
\* one fetched, it has one search at most, for its current work, and none when it starts
\* the next or submits.
WorkerOK(last, fetching, curr, taken, at, running, sol) ==
    /\ fetching # "nil" => fetching = last
    /\ NotAbove(curr, last) /\ NotAbove(taken, last)
    /\ at \in {"aborts", "starts"} => taken # "nil"
    /\ \A s \in running : s.work = curr
    /\ \A s, t \in running : s = t
    /\ at \in {"starts", "submits"} => running = {}
    /\ sol # <<>> => sol[1] = sol[2]

ClientInv ==
    /\ ClientTypes
    /\ \A w \in Workers : WorkerOK(lastFetched[w], fetchAt[w], currWork[w], takenWork[w], workAt[w],
                                   nonceSearches[w], solution[w])

LEMMA ClientStart == MinerClientInit(WorkIds) => ClientInv
<1> SUFFICES ASSUME MinerClientInit(WorkIds) PROVE ClientInv
  OBVIOUS
<1>1. ClientTypes
  BY DEF MinerClientInit, ClientTypes
<1>2. ASSUME NEW w \in Workers
      PROVE  WorkerOK(lastFetched[w], fetchAt[w], currWork[w], takenWork[w], workAt[w], nonceSearches[w],
                      solution[w])
  <2>1. /\ lastFetched[w] = "nil" /\ fetchAt[w] = "nil" /\ currWork[w] = "nil" /\ takenWork[w] = "nil"
        /\ workAt[w] = "select" /\ nonceSearches[w] = {} /\ solution[w] = <<>>
    BY DEF MinerClientInit
  <2> QED
    BY <2>1 DEF WorkerOK, NotAbove
<1> QED
  BY <1>1, <1>2 DEF ClientInv

\* A step of worker w keeps the invariant when it keeps the types, leaves the other
\* workers alone and keeps WorkerOK of w.
LEMMA ClientLocal ==
  ASSUME ClientInv, ClientTypes', NEW w \in Workers,
         \A v \in Workers \ {w} :
             /\ lastFetched'[v] = lastFetched[v] /\ fetchAt'[v] = fetchAt[v]
             /\ currWork'[v] = currWork[v] /\ takenWork'[v] = takenWork[v]
             /\ workAt'[v] = workAt[v] /\ nonceSearches'[v] = nonceSearches[v]
             /\ solution'[v] = solution[v],
         WorkerOK(lastFetched'[w], fetchAt'[w], currWork'[w], takenWork'[w], workAt'[w],
                  nonceSearches'[w], solution'[w])
  PROVE  ClientInv'
  BY DEF ClientInv

LEMMA ClientStep == ClientInv /\ [MinerClientNext]_mcVars => ClientInv'
<1> SUFFICES ASSUME ClientInv, [MinerClientNext]_mcVars PROVE ClientInv'
  OBVIOUS
<1>t. ClientTypes
  BY DEF ClientInv
<1>u. CASE UNCHANGED mcVars
  BY <1>u DEF mcVars, ClientInv, ClientTypes
<1>n. CASE MinerClientNext
  <2>1. PICK w \in Workers :
           \/ NewTip(w) \/ handleWork(w) \/ ReceiveWork(w) \/ StartSearch(w) \/ SubmitSolution(w)
           \/ \E s \in nonceSearches[w] : AbortSearch(w, s) \/ NonceFound(w, s) \/ ReceiveResult(w, s)
    BY <1>n DEF MinerClientNext
  <2>w. WorkerOK(lastFetched[w], fetchAt[w], currWork[w], takenWork[w], workAt[w], nonceSearches[w], solution[w])
    BY DEF ClientInv
  <2>a. CASE NewTip(w)
    <3>1. ClientTypes'
      <4>1. PICK x \in WorkIds \cup {"nil"} : offered' = [offered EXCEPT ![w] = x]
        BY <2>a DEF NewTip
      <4>2. offered' \in [Workers -> WorkIds \cup {"nil"}]
        BY <4>1, <1>t DEF ClientTypes
      <4> QED
        BY <4>2, <2>a, <1>t DEF NewTip, ClientTypes
    <3> QED
      BY <2>a, <3>1 DEF NewTip, ClientInv
  <2>b. CASE handleWork(w)
    <3>1. ClientTypes'
      BY <2>b, <1>t DEF handleWork, ClientTypes
    <3>2. WorkerOK(lastFetched'[w], fetchAt'[w], currWork'[w], takenWork'[w], workAt'[w], nonceSearches'[w], solution'[w])
      <4>1. /\ lastFetched'[w] = offered[w] /\ fetchAt'[w] = offered[w] /\ offered[w] \in WorkIds
            /\ lastFetched[w] # "nil" => HeightOfWork[lastFetched[w]] <= HeightOfWork[offered[w]]
            /\ currWork' = currWork /\ takenWork' = takenWork /\ workAt' = workAt
            /\ nonceSearches' = nonceSearches /\ solution' = solution
        BY <2>b, <1>t DEF handleWork, ClientTypes
      <4>2. ASSUME NEW a \in WorkIds \cup {"nil"}, NotAbove(a, lastFetched[w])
            PROVE  NotAbove(a, offered[w])
        <5>1. lastFetched[w] \in WorkIds \cup {"nil"} /\ offered[w] # "nil"
          BY <4>1, <1>t, ClientAssumption DEF ClientTypes
        <5>2. CASE a = "nil"
          BY <5>2 DEF NotAbove
        <5>3. CASE a # "nil"
          <6>1. lastFetched[w] # "nil" /\ HeightOfWork[a] <= HeightOfWork[lastFetched[w]]
            BY <5>3, <4>2 DEF NotAbove
          <6>2. /\ HeightOfWork[a] \in Nat /\ HeightOfWork[lastFetched[w]] \in Nat
                /\ HeightOfWork[offered[w]] \in Nat
            BY <5>1, <5>3, <6>1, <4>1, ClientAssumption
          <6>3. HeightOfWork[a] <= HeightOfWork[offered[w]]
            <7>1. HeightOfWork[lastFetched[w]] <= HeightOfWork[offered[w]]
              BY <6>1, <4>1, Zenon
            <7> QED
              BY <6>1, <6>2, <7>1, AtMostTransitive
          <6> QED
            BY <6>3, <5>1 DEF NotAbove
        <5> QED
          BY <5>2, <5>3
      <4>3. currWork[w] \in WorkIds \cup {"nil"} /\ takenWork[w] \in WorkIds \cup {"nil"}
        BY <1>t DEF ClientTypes
      <4>4. NotAbove(currWork[w], offered[w]) /\ NotAbove(takenWork[w], offered[w])
        BY <4>2, <4>3, <2>w DEF WorkerOK
      <4> QED
        BY <4>1, <4>4, <2>w DEF WorkerOK
    <3> QED
      BY <3>1, <3>2, <1>t, <2>b, ClientLocal DEF handleWork, ClientTypes
  <2>c. CASE ReceiveWork(w)
    <3>1. ClientTypes'
      BY <2>c, <1>t DEF ReceiveWork, ClientTypes
    <3>2. WorkerOK(lastFetched'[w], fetchAt'[w], currWork'[w], takenWork'[w], workAt'[w], nonceSearches'[w], solution'[w])
      <4>1. /\ fetchAt'[w] = "nil" /\ takenWork'[w] = fetchAt[w] /\ fetchAt[w] # "nil"
            /\ workAt'[w] = IF currWork[w] # "nil" /\ HeightOfWork[fetchAt[w]] >= HeightOfWork[currWork[w]]
                            THEN "aborts" ELSE "starts"
            /\ currWork' = currWork /\ lastFetched' = lastFetched
            /\ nonceSearches' = nonceSearches /\ solution' = solution
        BY <2>c, <1>t DEF ReceiveWork, ClientTypes
      <4>2. fetchAt[w] = lastFetched[w] /\ fetchAt[w] \in WorkIds
        BY <4>1, <2>w, <1>t DEF WorkerOK, ClientTypes
      <4>3. HeightOfWork[fetchAt[w]] \in Nat
        BY <4>2, ClientAssumption
      <4>4. currWork[w] \in WorkIds \cup {"nil"} /\ NotAbove(currWork[w], lastFetched[w])
        BY <2>w, <1>t DEF WorkerOK, ClientTypes
      <4>5. currWork[w] # "nil" => HeightOfWork[fetchAt[w]] >= HeightOfWork[currWork[w]]
        BY <4>2, <4>3, <4>4, ClientAssumption DEF NotAbove
      <4>6. workAt'[w] = IF currWork[w] # "nil" THEN "aborts" ELSE "starts"
        BY <4>1, <4>5
      <4>7. currWork[w] = "nil" => nonceSearches[w] = {}
        <5>1. \A s \in nonceSearches[w] : s.work = currWork[w] /\ s.work \in WorkIds
          <6>1. nonceSearches[w] \subseteq [work : WorkIds, at : {"select", "delivers"}]
            BY <1>t DEF ClientTypes
          <6> QED
            BY <6>1, <2>w DEF WorkerOK
        <5> QED
          BY <5>1, ClientAssumption
      <4>8. NotAbove(takenWork'[w], lastFetched'[w])
        <5>1. takenWork'[w] = fetchAt[w] /\ lastFetched'[w] = fetchAt[w] /\ fetchAt[w] # "nil"
          BY <4>1, <4>2
        <5>2. HeightOfWork[fetchAt[w]] <= HeightOfWork[fetchAt[w]]
          BY <4>3
        <5> QED
          BY <5>1, <5>2 DEF NotAbove
      <4> QED
        BY <4>1, <4>6, <4>7, <4>8, <2>w DEF WorkerOK
    <3> QED
      BY <3>1, <3>2, <1>t, <2>c, ClientLocal DEF ReceiveWork, ClientTypes
  <2>d. CASE StartSearch(w)
    <3>0. takenWork[w] \in WorkIds /\ nonceSearches[w] = {}
      BY <2>d, <1>t, <2>w DEF StartSearch, ClientTypes, WorkerOK
    <3> DEFINE new == [work |-> takenWork[w], at |-> "select"]
    <3>1. /\ \/ /\ nonceSearches' = [nonceSearches EXCEPT ![w] = {new}]
                /\ currWork' = [currWork EXCEPT ![w] = takenWork[w]]
             \/ nonceSearches' = nonceSearches /\ currWork' = currWork
          /\ workAt' = [workAt EXCEPT ![w] = "select"] /\ takenWork' = [takenWork EXCEPT ![w] = "nil"]
          /\ lastFetched' = lastFetched /\ fetchAt' = fetchAt /\ offered' = offered
          /\ solution' = solution
      <4>1. {} \cup {new} = {new}
        OBVIOUS
      <4>2. \/ /\ nonceSearches' = [nonceSearches EXCEPT ![w] = nonceSearches[w] \cup {new}]
               /\ currWork' = [currWork EXCEPT ![w] = takenWork[w]]
            \/ nonceSearches' = nonceSearches /\ currWork' = currWork
        BY <2>d DEF StartSearch
      <4> HIDE DEF new
      <4>3. \/ /\ nonceSearches' = [nonceSearches EXCEPT ![w] = {new}]
               /\ currWork' = [currWork EXCEPT ![w] = takenWork[w]]
            \/ nonceSearches' = nonceSearches /\ currWork' = currWork
        BY <4>1, <4>2, <3>0
      <4> QED
        <5>1. /\ workAt' = [workAt EXCEPT ![w] = "select"] /\ takenWork' = [takenWork EXCEPT ![w] = "nil"]
              /\ UNCHANGED <<ClientRest, solution>>
          BY <2>d DEF StartSearch
        <5>2. lastFetched' = lastFetched /\ fetchAt' = fetchAt /\ offered' = offered /\ solution' = solution
          BY <5>1 DEF ClientRest
        <5> QED
          BY <5>1, <5>2, <4>3
    <3>2. new \in [work : WorkIds, at : {"select", "delivers"}] /\ new.work = takenWork[w]
      BY <3>0
    <3> HIDE DEF new
    <3>3. ClientTypes'
      <4>1. {new} \in SUBSET [work : WorkIds, at : {"select", "delivers"}]
        BY <3>2
      <4>2. nonceSearches' \in [Workers -> SUBSET [work : WorkIds, at : {"select", "delivers"}]]
        <5>1. CASE nonceSearches' = nonceSearches
          BY <5>1, <1>t DEF ClientTypes
        <5>2. CASE nonceSearches' = [nonceSearches EXCEPT ![w] = {new}]
          BY <5>2, <4>1, <1>t DEF ClientTypes
        <5> QED
          BY <5>1, <5>2, <3>1, Zenon
      <4>3. /\ currWork' \in [Workers -> WorkIds \cup {"nil"}] /\ takenWork' \in [Workers -> WorkIds \cup {"nil"}]
            /\ workAt' \in [Workers -> {"select", "aborts", "starts", "submits"}]
        BY <3>0, <3>1, <1>t DEF ClientTypes
      <4> QED
        BY <4>2, <4>3, <3>1, <1>t DEF ClientTypes
    <3>4. /\ \/ nonceSearches'[w] = {new} /\ currWork'[w] = takenWork[w]
             \/ nonceSearches'[w] = {} /\ currWork'[w] = currWork[w]
          /\ workAt'[w] = "select" /\ takenWork'[w] = "nil"
          /\ lastFetched'[w] = lastFetched[w] /\ fetchAt'[w] = fetchAt[w] /\ solution'[w] = solution[w]
      BY <3>0, <3>1, <1>t DEF ClientTypes
    <3>5. NotAbove("nil", lastFetched[w])
      BY DEF NotAbove
    <3>6. WorkerOK(lastFetched'[w], fetchAt'[w], currWork'[w], takenWork'[w], workAt'[w], nonceSearches'[w], solution'[w])
      BY <3>2, <3>4, <3>5, <2>w DEF WorkerOK
    <3> QED
      <4>1. \A v \in Workers \ {w} : nonceSearches'[v] = nonceSearches[v] /\ currWork'[v] = currWork[v]
        BY <3>1, <1>t DEF ClientTypes
      <4>2. \A v \in Workers \ {w} : workAt'[v] = workAt[v] /\ takenWork'[v] = takenWork[v]
        BY <3>1, <1>t DEF ClientTypes
      <4> QED
        BY <3>1, <3>3, <3>6, <4>1, <4>2, ClientLocal
  <2>e. CASE SubmitSolution(w)
    <3>1. ClientTypes'
      BY <2>e, <1>t DEF SubmitSolution, ClientRest, ClientTypes
    <3>2. WorkerOK(lastFetched'[w], fetchAt'[w], currWork'[w], takenWork'[w], workAt'[w], nonceSearches'[w], solution'[w])
      BY <2>e, <2>w, <1>t, ClientAssumption DEF SubmitSolution, ClientRest, ClientTypes, WorkerOK, NotAbove
    <3> QED
      BY <3>1, <3>2, <1>t, <2>e, ClientLocal DEF SubmitSolution, ClientRest, ClientTypes
  <2>f. CASE \E s \in nonceSearches[w] : AbortSearch(w, s) \/ NonceFound(w, s) \/ ReceiveResult(w, s)
    <3>1. PICK s \in nonceSearches[w] : AbortSearch(w, s) \/ NonceFound(w, s) \/ ReceiveResult(w, s)
      BY <2>f
    <3>s. /\ s \in [work : WorkIds, at : {"select", "delivers"}]
          /\ nonceSearches[w] = {s} /\ s.work = currWork[w]
      BY <1>t, <2>w DEF ClientTypes, WorkerOK
    <3>a. CASE AbortSearch(w, s)
      <4>1. ClientTypes'
        BY <3>a, <1>t DEF AbortSearch, ClientRest, ClientTypes
      <4>2. WorkerOK(lastFetched'[w], fetchAt'[w], currWork'[w], takenWork'[w], workAt'[w], nonceSearches'[w], solution'[w])
        BY <3>a, <3>s, <2>w, <1>t, ZenonT(40) DEF AbortSearch, ClientRest, ClientTypes, WorkerOK
      <4> QED
        BY <4>1, <4>2, <1>t, <3>a, ClientLocal DEF AbortSearch, ClientRest, ClientTypes
    <3>b. CASE NonceFound(w, s)
      <4>0. [s EXCEPT !.at = "delivers"] = [work |-> s.work, at |-> "delivers"]
        BY <3>s
      <4>1. ClientTypes'
        BY <4>0, <3>b, <3>s, <1>t DEF NonceFound, ClientRest, ClientTypes
      <4>2. PICK d : d = [work |-> s.work, at |-> "delivers"]
        OBVIOUS
      <4>d. d.work = s.work /\ nonceSearches'[w] = {d}
        BY <4>0, <4>2, <3>b, <3>s, <1>t DEF NonceFound, ClientTypes
      <4>u. /\ lastFetched' = lastFetched /\ fetchAt' = fetchAt /\ currWork' = currWork
            /\ takenWork' = takenWork /\ workAt' = workAt /\ solution' = solution
        BY <3>b DEF NonceFound, ClientRest
      <4>3. WorkerOK(lastFetched'[w], fetchAt'[w], currWork'[w], takenWork'[w], workAt'[w], nonceSearches'[w], solution'[w])
        BY <4>d, <4>u, <3>s, <2>w, Zenon DEF WorkerOK
      <4> QED
        BY <4>1, <4>3, <1>t, <3>b, ClientLocal DEF NonceFound, ClientRest, ClientTypes
    <3>c. CASE ReceiveResult(w, s)
      <4>1. ClientTypes'
        BY <3>c, <1>t DEF ReceiveResult, ClientRest, ClientTypes
      <4>2. WorkerOK(lastFetched'[w], fetchAt'[w], currWork'[w], takenWork'[w], workAt'[w], nonceSearches'[w], solution'[w])
        BY <3>c, <3>s, <2>w, <1>t, ZenonT(40) DEF ReceiveResult, ClientRest, ClientTypes, WorkerOK
      <4> QED
        BY <4>1, <4>2, <1>t, <3>c, ClientLocal DEF ReceiveResult, ClientRest, ClientTypes
    <3> QED
      BY <3>1, <3>a, <3>b, <3>c
  <2> QED
    BY <2>1, <2>a, <2>b, <2>c, <2>d, <2>e, <2>f
<1> QED
  BY <1>u, <1>n

\* A solution is submitted for the work whose nonce was searched (cmd/miner/main.go), for
\* any number of workers and of works of any height: new work, the abort of a search and
\* the finding of a nonce may fall together in any way.
THEOREM SolutionsAlways == MinerClientSpec => []SolutionIsForWork
<1>1. ClientInv => SolutionIsForWork
  BY DEF ClientInv, WorkerOK, SolutionIsForWork
<1> QED
  BY <1>1, ClientStart, ClientStep, PTL DEF MinerClientSpec

-----------------------------------------------------------------------------
(* The caches of ethash (EthashCache).                                     *)

Object == [epoch : EthEpochs, once : {"new", "running", "filling", "done"},
           content : {"none", "partial", "full"}]
EthGoroutine == UNION {EthUsers[x] : x \in Engine}

\* The caches of an engine: what is generated to its end is whole, and the LRU and the
\* future item name objects that exist.
WholeIfDone(objs) == \A o \in 1 .. Len(objs) : objs[o].once = "done" => objs[o].content = "full"
CachesOK(objs, lru, fut) ==
    /\ objs \in Seq(Object) /\ lru \in Seq(1 .. Len(objs)) /\ WholeIfDone(objs)
    /\ fut \in Nat \X Nat
    /\ fut[1] > 0 => fut[2] \in 1 .. Len(objs) /\ objs[fut[2]].epoch = fut[1]

\* A goroutine that waits or hashes has the object of its epoch.
UserOK(u, objs) ==
    u[1] \in {"waits", "hashes"} =>
        /\ u[3] \in 1 .. Len(objs) /\ objs[u[3]].epoch = u[2]
        /\ u[1] = "hashes" => objs[u[3]].once = "done"

\* No file at the path of a cache is ever part of one.
EthOK(files, objects, lrus, futures, users) ==
    /\ files \in [EthEpochs -> {"none", "full"}]
    /\ DOMAIN objects = Engine /\ DOMAIN lrus = Engine /\ futures \in [Engine -> Nat \X Nat]
    /\ DOMAIN users = EthGoroutine
    /\ \A x \in Engine : CachesOK(objects[x], lrus[x], futures[x])
    /\ \A x \in Engine : \A g \in EthUsers[x] : UserOK(users[g], objects[x])

EthInv == EthOK(ethFiles, ethObjects, ethLru, ethFuture, ethUser)

\* The objects of an engine only become more, and what is done stays so.
Grows(objs, more) ==
    /\ objs \in Seq(Object) /\ more \in Seq(Object) /\ Len(objs) <= Len(more)
    /\ \A o \in 1 .. Len(objs) : /\ more[o].epoch = objs[o].epoch
                                 /\ objs[o].once = "done" => more[o].once = "done"

LEMMA EmptyEngines ==
  ASSUME NEW files \in [EthEpochs -> {"none", "full"}]
  PROVE  EthOK(files, NoObjects, NoLru, NoFuture, NoUser)
<1>1. CachesOK(<<>>, <<>>, <<0, 0>>)
  <2>1. <<>> \in Seq(Object) /\ Len(<<>>) = 0
    OBVIOUS
  <2>2. <<>> \in Seq(1 .. 0)
    OBVIOUS
  <2> QED
    BY <2>1, <2>2 DEF CachesOK, WholeIfDone
<1>2. \A x \in Engine : CachesOK(NoObjects[x], NoLru[x], NoFuture[x])
  BY <1>1 DEF NoLru, NoFuture, NoObjects
<1>3. ASSUME NEW x \in Engine, NEW g \in EthUsers[x] PROVE UserOK(NoUser[g], NoObjects[x])
  <2>1. NoUser[g] = <<"idle">>
    BY DEF NoUser
  <2> QED
    BY <2>1 DEF UserOK
<1> QED
  BY <1>2, <1>3 DEF EthOK, EthGoroutine, NoLru, NoFuture, NoObjects, NoUser

LEMMA UserKeeps ==
  ASSUME NEW u, NEW objs, NEW more, UserOK(u, objs), Grows(objs, more)
  PROVE  UserOK(u, more)
  BY DEF UserOK, Grows

LEMMA LruKeeps ==
  ASSUME NEW k \in Nat, NEW m \in Nat, k <= m, NEW s \in Seq(1 .. k)
  PROVE  s \in Seq(1 .. m)
  OBVIOUS

\* The LRU with an object in front, taken from its place or new, cut to its size.
LEMMA FrontIn ==
  ASSUME NEW S, NEW s \in Seq(S), NEW item \in S
  PROVE  /\ Newest(<<item>> \o s) \in Seq(S)
         /\ \A i \in 1 .. Len(s) : Newest(<<item>> \o Without(s, i)) \in Seq(S)
<1>1. ASSUME NEW t \in Seq(S) PROVE Newest(t) \in Seq(S)
  <2> DEFINE n == IF Len(t) < CachesInMem THEN Len(t) ELSE CachesInMem
  <2>1. Len(t) \in Nat /\ CachesInMem \in Nat
    BY EthAssumption
  <2>2. 1 \in 1 .. Len(t) + 1 /\ n \in 1 - 1 .. Len(t)
    BY <2>1
  <2>3. SubSeq(t, 1, n) \in Seq(S)
    BY <2>2, SubSeqProperties
  <2> QED
    BY <2>3 DEF Newest
<1>2. ASSUME NEW t \in Seq(S) PROVE <<item>> \o t \in Seq(S)
  BY <1>2, ConcatProperties
<1>3. ASSUME NEW i \in 1 .. Len(s) PROVE Without(s, i) \in Seq(S)
  <2>1. Len(s) \in Nat
    OBVIOUS
  <2>2. 1 \in 1 .. Len(s) + 1 /\ i - 1 \in 1 - 1 .. Len(s) /\ i + 1 \in 1 .. Len(s) + 1 /\ Len(s) \in (i + 1) - 1 .. Len(s)
    BY <2>1
  <2>3. SubSeq(s, 1, i - 1) \in Seq(S)
    BY <2>2, SubSeqProperties
  <2>4. SubSeq(s, i + 1, Len(s)) \in Seq(S)
    <3> DEFINE j == i + 1
    <3>1. j \in 1 .. Len(s) + 1 /\ Len(s) \in j - 1 .. Len(s)
      BY <2>2
    <3> HIDE DEF j
    <3>2. SubSeq(s, j, Len(s)) \in Seq(S)
      BY <3>1, SubSeqProperties
    <3> QED
      BY <3>2 DEF j
  <2> QED
    BY <2>3, <2>4, ConcatProperties DEF Without
<1> QED
  BY <1>1, <1>2, <1>3

\* Engine x gets other objects, among them all it had, and perhaps another LRU and future
\* item; one of its goroutines may get another object.
LEMMA EngineKeeps ==
  ASSUME EthInv, NEW x \in Engine, NEW objs, NEW lru, NEW fut, NEW g \in EthUsers[x], NEW u,
         Grows(ethObjects[x], objs), CachesOK(objs, lru, fut), UserOK(u, objs),
         ethFiles' \in [EthEpochs -> {"none", "full"}],
         ethObjects' = [ethObjects EXCEPT ![x] = objs], ethLru' = [ethLru EXCEPT ![x] = lru],
         ethFuture' = [ethFuture EXCEPT ![x] = fut], ethUser' = [ethUser EXCEPT ![g] = u]
  PROVE  EthInv'
<1>1. EthOK(ethFiles, ethObjects, ethLru, ethFuture, ethUser)
  BY DEF EthInv
<1>2. /\ DOMAIN ethObjects' = Engine /\ DOMAIN ethLru' = Engine /\ ethFuture' \in [Engine -> Nat \X Nat]
      /\ DOMAIN ethUser' = EthGoroutine /\ g \in EthGoroutine
      /\ ethObjects'[x] = objs /\ ethLru'[x] = lru /\ ethFuture'[x] = fut /\ ethUser'[g] = u
  <2>1. fut \in Nat \X Nat
    BY DEF CachesOK
  <2> QED
    BY <1>1, <2>1 DEF EthOK, EthGoroutine
<1>3. \A y \in Engine : y # x => ethObjects'[y] = ethObjects[y] /\ ethLru'[y] = ethLru[y] /\ ethFuture'[y] = ethFuture[y]
  BY <1>1 DEF EthOK
<1>4. \A y \in Engine : CachesOK(ethObjects'[y], ethLru'[y], ethFuture'[y])
  BY <1>1, <1>2, <1>3 DEF EthOK
<1>5. ASSUME NEW y \in Engine, NEW h \in EthUsers[y] PROVE UserOK(ethUser'[h], ethObjects'[y])
  <2>0. h \in EthGoroutine /\ UserOK(ethUser[h], ethObjects[y])
    BY <1>1 DEF EthOK, EthGoroutine
  <2>1. CASE h = g
    <3>1. y = x
      BY <2>1, EthAssumption
    <3> QED
      BY <2>1, <3>1, <1>2
  <2>2. CASE h # g
    <3>1. ethUser'[h] = ethUser[h]
      BY <2>0, <2>2, <1>1 DEF EthOK
    <3>2. CASE y = x
      BY <3>1, <3>2, <2>0, <1>2, UserKeeps
    <3>3. CASE y # x
      BY <3>1, <3>3, <2>0, <1>3
    <3> QED
      BY <3>2, <3>3
  <2> QED
    BY <2>1, <2>2
<1> QED
  BY <1>2, <1>4, <1>5 DEF EthInv, EthOK

\* The same when no goroutine gets another object.
LEMMA ObjectsKeep ==
  ASSUME EthInv, NEW x \in Engine, NEW objs, Grows(ethObjects[x], objs),
         CachesOK(objs, ethLru[x], ethFuture[x]),
         ethFiles' \in [EthEpochs -> {"none", "full"}],
         ethObjects' = [ethObjects EXCEPT ![x] = objs], UNCHANGED <<ethLru, ethFuture, ethUser>>
  PROVE  EthInv'
<1>1. EthOK(ethFiles, ethObjects, ethLru, ethFuture, ethUser)
  BY DEF EthInv
<1>2. /\ DOMAIN ethObjects' = Engine /\ ethObjects'[x] = objs
      /\ \A y \in Engine : y # x => ethObjects'[y] = ethObjects[y]
  BY <1>1 DEF EthOK
<1>3. ASSUME NEW y \in Engine
      PROVE  /\ CachesOK(ethObjects'[y], ethLru'[y], ethFuture'[y])
             /\ \A h \in EthUsers[y] : UserOK(ethUser'[h], ethObjects'[y])
  <2>1. CachesOK(ethObjects[y], ethLru[y], ethFuture[y]) /\ \A h \in EthUsers[y] : UserOK(ethUser[h], ethObjects[y])
    BY <1>1 DEF EthOK
  <2>2. CASE y = x
    BY <2>1, <2>2, <1>2, UserKeeps
  <2>3. CASE y # x
    BY <2>1, <2>3, <1>2
  <2> QED
    BY <2>2, <2>3
<1> QED
  BY <1>1, <1>2, <1>3 DEF EthInv, EthOK

\* SetObject on an object that is not done yet, to the end only with whole content.
LEMMA SetKeeps ==
  ASSUME EthInv, NEW x \in Engine, NEW o \in DOMAIN ethObjects[x],
         NEW once \in {"running", "filling", "done"}, NEW content \in {"partial", "full"},
         ObjectOf(x, o).once # "done", once = "done" => content = "full",
         SetObject(x, o, once, content), ethFiles' \in [EthEpochs -> {"none", "full"}],
         UNCHANGED <<ethLru, ethFuture, ethUser>>
  PROVE  EthInv'
<1> DEFINE old == ethObjects[x]
           new == [epoch |-> old[o].epoch, once |-> once, content |-> content]
           objs == [old EXCEPT ![o] = new]
<1>1. old \in Seq(Object) /\ CachesOK(old, ethLru[x], ethFuture[x]) /\ DOMAIN ethObjects = Engine
  BY DEF EthInv, EthOK, CachesOK
<1>2. o \in 1 .. Len(old) /\ old[o] \in Object
  BY <1>1
<1>3. new \in Object /\ new.epoch = old[o].epoch /\ new.once = once /\ new.content = content
  BY <1>2 DEF Object
<1>4. ethObjects' = [ethObjects EXCEPT ![x] = objs]
  BY <1>1 DEF SetObject, ObjectOf
<1>o. old[o].once # "done"
  BY DEF ObjectOf
<1> HIDE DEF new, old
<1>5. /\ objs \in Seq(Object) /\ Len(objs) = Len(old)
      /\ \A p \in 1 .. Len(old) : objs[p] = IF p = o THEN new ELSE old[p]
  BY <1>1, <1>2, <1>3, ExceptSeq
<1> HIDE DEF objs
<1>6. Grows(old, objs)
  BY <1>1, <1>2, <1>3, <1>5, <1>o DEF Grows
<1>7. CachesOK(objs, ethLru[x], ethFuture[x])
  <2>1. ethLru[x] \in Seq(1 .. Len(objs)) /\ ethFuture[x] \in Nat \X Nat
    BY <1>1, <1>5 DEF CachesOK
  <2>2. WholeIfDone(objs)
    <3>1. WholeIfDone(old)
      BY <1>1 DEF CachesOK
    <3> QED
      BY <3>1, <1>3, <1>5 DEF WholeIfDone
  <2>3. ethFuture[x][1] > 0 => ethFuture[x][2] \in 1 .. Len(objs) /\ objs[ethFuture[x][2]].epoch = ethFuture[x][1]
    BY <1>1, <1>3, <1>5 DEF CachesOK
  <2> QED
    BY <1>5, <2>1, <2>2, <2>3 DEF CachesOK
<1>8. Grows(ethObjects[x], objs)
  BY <1>6 DEF old
<1> QED
  BY <1>4, <1>7, <1>8, ObjectsKeep

\* More objects behind those there are.
Continues(objs, more) ==
    /\ more \in Seq(Object) /\ Len(objs) <= Len(more) /\ WholeIfDone(more)
    /\ \A o \in 1 .. Len(objs) : more[o] = objs[o]

LEMMA AppendContinues ==
  ASSUME NEW objs \in Seq(Object), WholeIfDone(objs), NEW c \in Object, c.once = "new"
  PROVE  /\ Continues(objs, Append(objs, c)) /\ Len(objs) + 1 \in 1 .. Len(Append(objs, c))
         /\ Append(objs, c)[Len(objs) + 1] = c
<1>1. PICK more : more = Append(objs, c)
  OBVIOUS
<1>2. /\ more \in Seq(Object) /\ Len(more) = Len(objs) + 1 /\ more[Len(objs) + 1] = c
      /\ \A o \in 1 .. Len(objs) : more[o] = objs[o]
  BY <1>1, AppendProperties
<1>3. PICK k \in Nat : k = Len(objs)
  OBVIOUS
<1>4. \A o \in 1 .. k + 1 : o \in 1 .. k \/ o = k + 1
  OBVIOUS
<1>5. WholeIfDone(more)
  BY <1>2, <1>3, <1>4 DEF WholeIfDone
<1>6. k <= k + 1 /\ k + 1 \in 1 .. k + 1
  OBVIOUS
<1> QED
  BY <1>1, <1>2, <1>3, <1>5, <1>6, Zenon DEF Continues

LEMMA ContinuesOn ==
  ASSUME NEW a \in Seq(Object), NEW b, NEW c, Continues(a, b), Continues(b, c)
  PROVE  Continues(a, c)
<1>1. b \in Seq(Object) /\ c \in Seq(Object)
  BY DEF Continues
<1>2. PICK k \in Nat, l \in Nat, m \in Nat : k = Len(a) /\ l = Len(b) /\ m = Len(c)
  BY <1>1
<1>3. k <= l /\ l <= m
  BY <1>2 DEF Continues
<1>4. k <= m /\ \A o \in 1 .. k : o \in 1 .. l
  BY <1>3
<1> QED
  BY <1>2, <1>4, Zenon DEF Continues

LEMMA ContinuesGrows ==
  ASSUME NEW a \in Seq(Object), NEW b, Continues(a, b)
  PROVE  Grows(a, b)
  BY Zenon DEF Continues, Grows

\* lru.get.
LEMMA GetKeeps ==
  ASSUME EthInv, NEW x \in Engine, NEW g \in EthUsers[x], NEW epoch \in EthEpochs, lruGet(x, g, epoch)
  PROVE  EthInv'
<1>1. PICK old, lru, fut : old = ethObjects[x] /\ lru = ethLru[x] /\ fut = ethFuture[x]
  OBVIOUS
<1>2. /\ CachesOK(old, lru, fut) /\ ethFuture \in [Engine -> Nat \X Nat]
      /\ ethFiles \in [EthEpochs -> {"none", "full"}]
  BY <1>1 DEF EthInv, EthOK
<1>3. /\ old \in Seq(Object) /\ lru \in Seq(1 .. Len(old)) /\ WholeIfDone(old) /\ fut \in Nat \X Nat
      /\ fut[1] > 0 => fut[2] \in 1 .. Len(old) /\ old[fut[2]].epoch = fut[1]
  BY <1>2, Zenon DEF CachesOK
<1>4. \A e \in EthEpochs : newCache(e) \in Object /\ newCache(e).epoch = e /\ newCache(e).once = "new"
  BY DEF newCache, Object
<1>5. PICK kept \in BOOLEAN, made \in BOOLEAN :
         kept = (InLru(x, epoch) # {}) /\ made = (~kept /\ ~IsFuture(x, epoch))
  OBVIOUS
<1>a. PICK at : at = HeldAt(x, epoch)
  OBVIOUS
<1>6. kept => at \in 1 .. Len(lru) /\ lru[at] \in 1 .. Len(old) /\ old[lru[at]].epoch = epoch
  <2>1. kept => at \in InLru(x, epoch)
    BY <1>5, <1>a DEF HeldAt
  <2>2. \A i \in InLru(x, epoch) : i \in DOMAIN lru /\ old[lru[i]].epoch = epoch
    BY <1>1 DEF InLru, ObjectOf
  <2>3. \A i \in DOMAIN lru : i \in 1 .. Len(lru) /\ lru[i] \in 1 .. Len(old)
    BY <1>3
  <2> QED
    BY <2>1, <2>2, <2>3
\* The object that is wanted, and the objects with it.
<1>7. PICK item, with :
         /\ item = IF kept THEN lru[at] ELSE IF made THEN Len(old) + 1 ELSE fut[2]
         /\ with = IF made THEN Append(old, newCache(epoch)) ELSE old
  OBVIOUS
<1>8. Continues(old, with) /\ item \in 1 .. Len(with) /\ with[item].epoch = epoch
  <2>0. Continues(old, old)
    BY <1>3 DEF Continues
  <2>1. CASE kept
    BY <2>0, <2>1, <1>5, <1>6, <1>7, Zenon
  <2>2. CASE made
    <3>1. item = Len(old) + 1 /\ with = Append(old, newCache(epoch))
      BY <2>2, <1>5, <1>7, Zenon
    <3> QED
      BY <3>1, <1>3, <1>4, AppendContinues, Zenon
  <2>3. CASE ~kept /\ ~made
    <3>1. fut[1] > 0 /\ fut[1] = epoch
      BY <2>3, <1>1, <1>5, Zenon DEF IsFuture
    <3>2. item = fut[2] /\ with = old
      BY <2>3, <1>7, Zenon
    <3> QED
      BY <3>1, <3>2, <2>0, <1>3, Zenon
  <2> QED
    BY <2>1, <2>2, <2>3
\* And those with the one for the next epoch.
<1>9. PICK ahead \in BOOLEAN : ahead = (epoch + 1 \in EthEpochs /\ fut[1] < epoch + 1)
  OBVIOUS
<1>10. PICK next, objs, fut1 :
         /\ next = IF ahead THEN Len(with) + 1 ELSE 0
         /\ objs = IF ahead THEN Append(with, newCache(epoch + 1)) ELSE with
         /\ fut1 = IF ahead THEN <<epoch + 1, next>> ELSE fut
  OBVIOUS
<1>w. with \in Seq(Object) /\ WholeIfDone(with) /\ Len(with) \in Nat
  BY <1>8 DEF Continues
<1>11. /\ Continues(with, objs) /\ fut1 \in Nat \X Nat
       /\ fut1[1] > 0 => fut1[2] \in 1 .. Len(objs) /\ objs[fut1[2]].epoch = fut1[1]
  <2>1. CASE ahead
    <3>1. PICK c : c = newCache(epoch + 1)
      OBVIOUS
    <3>2. epoch + 1 \in EthEpochs /\ c \in Object /\ c.epoch = epoch + 1 /\ c.once = "new"
      BY <3>1, <2>1, <1>4, <1>9, Zenon
    <3>3. objs = Append(with, c) /\ fut1 = <<epoch + 1, Len(with) + 1>>
      BY <3>1, <2>1, <1>10, Zenon
    <3>4. Continues(with, objs) /\ Len(with) + 1 \in 1 .. Len(objs) /\ objs[Len(with) + 1] = c
      BY <3>2, <3>3, <1>w, AppendContinues, Zenon
    <3>5. epoch + 1 \in Nat /\ Len(with) + 1 \in Nat
      BY <3>2, <1>w, EthAssumption
    <3>6. fut1 \in Nat \X Nat /\ fut1[1] = epoch + 1 /\ fut1[2] = Len(with) + 1
      BY <3>3, <3>5
    <3> QED
      BY <3>2, <3>4, <3>6, Zenon
  <2>2. CASE ~ahead
    <3>1. objs = with /\ fut1 = fut
      BY <2>2, <1>10, Zenon
    <3>2. Continues(with, with)
      BY <1>w DEF Continues
    <3>3. \A o \in 1 .. Len(old) : o \in 1 .. Len(with) /\ with[o] = old[o]
      BY <1>3, <1>8, <1>w DEF Continues
    <3> QED
      BY <3>1, <3>2, <3>3, <1>3, Zenon
  <2> QED
    BY <2>1, <2>2
<1>12. Continues(old, objs)
  BY <1>3, <1>8, <1>11, ContinuesOn, Zenon
<1>13. item \in 1 .. Len(objs) /\ objs[item].epoch = epoch
  <2>1. objs \in Seq(Object) /\ Len(with) <= Len(objs) /\ objs[item] = with[item]
    BY <1>8, <1>11, Zenon DEF Continues
  <2>2. Len(objs) \in Nat
    BY <2>1
  <2>3. item \in 1 .. Len(objs)
    BY <2>1, <2>2, <1>8, <1>w
  <2> QED
    BY <2>1, <2>3, <1>8, Zenon
<1>14. PICK lru1 : lru1 = Newest(<<item>> \o IF kept THEN Without(lru, at) ELSE lru)
  OBVIOUS
<1>15. lru1 \in Seq(1 .. Len(objs))
  <2>1. Len(old) <= Len(objs) /\ Len(old) \in Nat /\ Len(objs) \in Nat
    BY <1>3, <1>12 DEF Continues
  <2>2. lru \in Seq(1 .. Len(objs))
    BY <2>1, <1>3, LruKeeps
  <2>3. /\ Newest(<<item>> \o lru) \in Seq(1 .. Len(objs))
        /\ \A i \in 1 .. Len(lru) : Newest(<<item>> \o Without(lru, i)) \in Seq(1 .. Len(objs))
    BY <2>2, <1>13, FrontIn, Zenon
  <2> QED
    BY <2>3, <1>6, <1>14, Zenon
<1>16. CachesOK(objs, lru1, fut1)
  BY <1>11, <1>12, <1>15, Zenon DEF CachesOK, Continues
<1>17. Grows(ethObjects[x], objs)
  BY <1>1, <1>3, <1>12, ContinuesGrows, Zenon
<1>18. PICK user : user = <<"waits", epoch, item, next>>
  OBVIOUS
<1>19. UserOK(user, objs)
  <2>1. user[1] = "waits" /\ user[2] = epoch /\ user[3] = item
    BY <1>18
  <2>2. user[1] # "hashes"
    BY <2>1
  <2> QED
    BY <2>1, <2>2, <1>13, Zenon DEF UserOK
<1>20. /\ ethLru' = [ethLru EXCEPT ![x] = lru1] /\ ethObjects' = [ethObjects EXCEPT ![x] = objs]
       /\ ethFuture' = IF ahead THEN [ethFuture EXCEPT ![x] = <<epoch + 1, next>>] ELSE ethFuture
       /\ ethUser' = [ethUser EXCEPT ![g] = user] /\ ethFiles' = ethFiles
  BY <1>1, <1>5, <1>a, <1>7, <1>9, <1>10, <1>14, <1>18 DEF lruGet
<1>21. ethFuture' = [ethFuture EXCEPT ![x] = fut1]
  <2>1. ethFuture = [ethFuture EXCEPT ![x] = fut]
    BY <1>1, <1>2
  <2> QED
    BY <1>10, <1>20, <2>1, Zenon
<1> QED
  BY <1>2, <1>16, <1>17, <1>19, <1>20, <1>21, EngineKeeps, Zenon

LEMMA EthStep == EthInv /\ [EthNext]_ethVars => EthInv'
<1> SUFFICES ASSUME EthInv, [EthNext]_ethVars PROVE EthInv'
  OBVIOUS
<1>i. EthOK(ethFiles, ethObjects, ethLru, ethFuture, ethUser)
  BY DEF EthInv
<1>f. ethFiles \in [EthEpochs -> {"none", "full"}] /\ DOMAIN ethUser = EthGoroutine
  BY <1>i DEF EthOK
<1>u. CASE UNCHANGED ethVars
  BY <1>u, <1>i DEF ethVars, EthInv
<1>c. CASE EthCrash
  BY <1>c, <1>f, EmptyEngines DEF EthCrash, EthInv
<1>n. ASSUME NEW x \in Engine,
             \/ \E g \in EthUsers[x] : \/ \E epoch \in EthEpochs : lruGet(x, g, epoch)
                                       \/ CacheReturns(x, g) \/ HashEnds(x, g)
             \/ \E o \in DOMAIN ethObjects[x] : GenerateStarts(x, o) \/ Filling(x, o) \/ GenerateEnds(x, o)
      PROVE  EthInv'
  <2>1. ASSUME NEW g \in EthUsers[x], NEW epoch \in EthEpochs, lruGet(x, g, epoch) PROVE EthInv'
    BY <2>1, GetKeeps
  <2>2. ASSUME NEW g \in EthUsers[x], NEW u, ethUser' = [ethUser EXCEPT ![g] = u],
               UNCHANGED <<ethLru, ethFuture, ethObjects, ethFiles>>, UserOK(u, ethObjects[x])
        PROVE  EthInv'
    <3>1. g \in EthGoroutine /\ DOMAIN ethUser' = EthGoroutine /\ ethUser'[g] = u
      BY <2>2, <1>f DEF EthGoroutine
    <3>2. ASSUME NEW y \in Engine, NEW h \in EthUsers[y] PROVE UserOK(ethUser'[h], ethObjects[y])
      <4>1. CASE h = g
        <5>1. y = x
          BY <4>1, EthAssumption
        <5> QED
          BY <4>1, <5>1, <3>1, <2>2
      <4>2. CASE h # g
        <5>1. h \in EthGoroutine /\ UserOK(ethUser[h], ethObjects[y])
          BY <1>i DEF EthOK, EthGoroutine
        <5>2. ethUser'[h] = ethUser[h]
          BY <4>2, <5>1, <2>2, <1>f
        <5> QED
          BY <5>1, <5>2
      <4> QED
        BY <4>1, <4>2
    <3>3. EthOK(ethFiles, ethObjects, ethLru, ethFuture, ethUser')
      BY <3>1, <3>2, <1>i DEF EthOK
    <3> QED
      BY <3>3, <2>2 DEF EthInv
  <2>3. ASSUME NEW g \in EthUsers[x], CacheReturns(x, g) PROVE EthInv'
    <3> DEFINE u == <<"hashes", ethUser[g][2], ethUser[g][3], ethUser[g][4]>>
    <3>1. /\ ethUser' = [ethUser EXCEPT ![g] = u] /\ UNCHANGED <<ethLru, ethFuture, ethObjects, ethFiles>>
          /\ ethUser[g][1] = "waits" /\ ethObjects[x][ethUser[g][3]].once = "done"
      BY <2>3 DEF CacheReturns, ObjectOf
    <3>2. UserOK(ethUser[g], ethObjects[x])
      BY <1>i DEF EthOK
    <3>3. u[1] = "hashes" /\ u[2] = ethUser[g][2] /\ u[3] = ethUser[g][3]
      OBVIOUS
    <3> HIDE DEF u
    <3>4. UserOK(u, ethObjects[x])
      BY <3>1, <3>2, <3>3 DEF UserOK
    <3> QED
      BY <3>1, <3>4, <2>2
  <2>4. ASSUME NEW g \in EthUsers[x], HashEnds(x, g) PROVE EthInv'
    <3>1. UserOK(<<"idle">>, ethObjects[x])
      BY DEF UserOK
    <3> QED
      BY <3>1, <2>2, <2>4 DEF HashEnds
  <2>o. ASSUME NEW o \in DOMAIN ethObjects[x]
        PROVE  ObjectOf(x, o) \in Object
    BY <1>i DEF EthOK, CachesOK, ObjectOf
  <2>5. ASSUME NEW o \in DOMAIN ethObjects[x], GenerateStarts(x, o) PROVE EthInv'
    <3>1. /\ UNCHANGED <<ethLru, ethFuture, ethUser, ethFiles>> /\ ObjectOf(x, o).once # "done"
          /\ \/ /\ ethFiles[ObjectOf(x, o).epoch] # "none"
                /\ SetObject(x, o, "done", ethFiles[ObjectOf(x, o).epoch])
             \/ SetObject(x, o, "running", "partial")
      BY <2>5 DEF GenerateStarts
    <3>2. ethFiles[ObjectOf(x, o).epoch] \in {"none", "full"}
      BY <1>f, <2>o DEF Object
    <3>3. SetObject(x, o, "done", "full") \/ SetObject(x, o, "running", "partial")
      BY <3>1, <3>2
    <3> QED
      BY <3>1, <3>3, <1>f, SetKeeps
  <2>6. ASSUME NEW o \in DOMAIN ethObjects[x], Filling(x, o) PROVE EthInv'
    BY <2>6, <1>f, SetKeeps DEF Filling
  <2>7. ASSUME NEW o \in DOMAIN ethObjects[x], GenerateEnds(x, o) PROVE EthInv'
    <3>1. /\ UNCHANGED <<ethLru, ethFuture, ethUser>> /\ ObjectOf(x, o).once # "done"
          /\ SetObject(x, o, "done", "full")
      BY <2>7 DEF GenerateEnds
    <3>2. PICK renamed \in BOOLEAN :
            ethFiles' = [e \in EthEpochs |->
                IF OnDisk /\ e <= ObjectOf(x, o).epoch - CachesOnDisk THEN "none"
                ELSE IF renamed /\ e = ObjectOf(x, o).epoch THEN "full" ELSE ethFiles[e]]
      BY <2>7 DEF GenerateEnds
    <3>3. ethFiles' \in [EthEpochs -> {"none", "full"}]
      BY <3>2, <1>f
    <3> QED
      BY <3>1, <3>3, SetKeeps
  <2> QED
    BY <1>n, <2>1, <2>3, <2>4, <2>5, <2>6, <2>7
<1> QED
  BY <1>u, <1>c, <1>n DEF EthNext

\* For any number of engines and goroutines, any sizes of the LRU and of the directory, and
\* crashes at any step: nobody hashes with the cache of another epoch or with one that is
\* not generated to its end (ethash.go).
THEOREM CachesAlways == EthSpec => []HashesWithWholeCache
<1>1. EthInit => EthInv
  <2>1. EthInit => ethFiles \in [EthEpochs -> {"none", "full"}]
    BY DEF EthInit
  <2> QED
    BY <2>1, EmptyEngines DEF EthInit, EthInv
<1>2. EthInv => HashesWithWholeCache
  BY DEF EthInv, EthOK, CachesOK, WholeIfDone, UserOK, HashesWithWholeCache, ObjectOf
<1> QED
  BY <1>1, <1>2, EthStep, PTL DEF EthSpec

=============================================================================
