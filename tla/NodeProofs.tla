----------------------------- MODULE NodeProofs -----------------------------
(***************************************************************************)
(* Proofs about a node and what it serves, for any number of nodes,        *)
(* services, subscribers, connections and calls: a node that does not run  *)
(* has left nothing behind, the event loop sends to nobody who has         *)
(* unsubscribed, a connection ends with its messages answered, and the     *)
(* client never uses a channel it has closed.  The components share no     *)
(* variable; each has an inductive invariant of its own and a section of   *)
(* this module.                                                            *)
(***************************************************************************)
EXTENDS NodeService, Filters, RpcServer, RpcClient, TLAPS

\* A leaf is tried with Zenon, then with the SMT solver; the limits are in seconds.
USE ZenonT(8), SMTT(30)

-----------------------------------------------------------------------------
(* The service stack of a node (NodeService).                              *)

SvcTypes ==
    /\ serviceFuncs \in [Node -> Seq(SvcKinds)]
    /\ svcRun \in [Node -> Nat] /\ startCount \in [Node -> Nat] /\ holdsLock \in [Node -> BOOLEAN]
    /\ svcListens \in [Node -> SUBSET SvcEndpoint] /\ addrOwner \in [SvcEndpoint -> Node \cup {"nobody"}]
    /\ dirOwner \in Node \cup {"nobody"}
    /\ DOMAIN svcLive = Node /\ DOMAIN stopClosed = Node

\* The addresses that node n has: behind a listener it can close again, all of them when
\* it runs, and only the gRPC address of a slave when it does not.
AddrOK(n, start, listens, owner) ==
    /\ \A e \in SvcEndpoint : owner[e] = n => e \in listens /\ e \in RpcReaches(n)
    /\ start = 0 => \A e \in SvcEndpoint : owner[e] = n => ~IsMaster(n) /\ e = "grpc"
    /\ start # 0 => \A e \in RpcEndpoints(n) : owner[e] = n

\* A lock is the directory's, and a node that runs has it.
DirOK(n, start, holds, owner) ==
    /\ holds => owner = n
    /\ start # 0 /\ dirInUse => holds

LiveOK(n) == svcLive[n] = IF svcRun[n] = 0 THEN {} ELSE KindsOf(n)

NodeOK ==
    \A n \in Node : /\ AddrOK(n, svcRun[n], svcListens[n], addrOwner)
                    /\ DirOK(n, svcRun[n], holdsLock[n], dirOwner)
                    /\ LiveOK(n)

Calls == {<<"idle">>, <<"restarts">>, <<"panicked">>} \cup ({"waits", "p2p"} \X Nat)

\* The call at of a goroutine of a node: when it waits, then for a start that there was,
\* the running one or one whose channel is closed.
WaitOK(at, start, closed) ==
    at[1] = "waits" => at[2] # 0 /\ (at[2] = start \/ at[2] \in closed)

CallsOK ==
    /\ callAt \in [Goroutine -> Calls]
    /\ \A n \in Node : \A g \in CallsOf[n] : WaitOK(callAt[g], svcRun[n], stopClosed[n])

NodeInv == SvcTypes /\ NodeOK /\ CallsOK

LEMMA EndpointFacts ==
  ASSUME NEW n \in Node
  PROVE  /\ RpcEndpoints(n) \subseteq RpcReaches(n) /\ RpcReaches(n) \subseteq SvcEndpoint
         /\ \A i \in DOMAIN RpcOrder(n) :
               /\ OpenedBy(n, i - 1) \subseteq RpcReaches(n)
               /\ RpcOrder(n)[i] = "ws" => ~IsMaster(n) /\ OpenedBy(n, i - 1) \subseteq {"grpc"}
<1>1. CASE IsMaster(n)
  <2>1. RpcOrder(n) = <<"grpc", "ipc", "http", "priv">>
    BY <1>1 DEF RpcOrder
  <2>2. DOMAIN RpcOrder(n) = {1, 2, 3, 4} /\ Len(RpcOrder(n)) = 4
    BY <2>1
  <2>3. \A i \in {1, 2, 3, 4} : RpcOrder(n)[i] \in {"grpc", "ipc", "http", "priv"}
    BY <2>1
  <2>4. RpcReaches(n) = SvcEndpoint
    BY <1>1 DEF RpcReaches, SvcEndpoint
  <2>5. \A i \in DOMAIN RpcOrder(n) : OpenedBy(n, i - 1) \subseteq RpcReaches(n)
    BY <2>2, <2>3, <2>4 DEF OpenedBy, SvcEndpoint
  <2>6. RpcEndpoints(n) \subseteq RpcReaches(n)
    BY <2>2, <2>3, <2>4 DEF RpcEndpoints, OpenedBy, SvcEndpoint
  <2> QED
    BY <2>2, <2>3, <2>4, <2>5, <2>6
<1>2. CASE ~IsMaster(n)
  <2>1. RpcOrder(n) = <<"grpc", "ws">>
    BY <1>2 DEF RpcOrder
  <2>2. DOMAIN RpcOrder(n) = {1, 2} /\ Len(RpcOrder(n)) = 2 /\ RpcOrder(n)[1] = "grpc" /\ RpcOrder(n)[2] = "ws"
    BY <2>1
  <2>3. RpcReaches(n) = {"grpc", "ws"} /\ RpcReaches(n) \subseteq SvcEndpoint
    BY <1>2 DEF RpcReaches, SvcEndpoint
  <2>4. \A i \in DOMAIN RpcOrder(n) : OpenedBy(n, i - 1) \subseteq {"grpc"}
    BY <2>2 DEF OpenedBy
  <2>5. RpcEndpoints(n) \subseteq RpcReaches(n)
    BY <2>2, <2>3 DEF RpcEndpoints, OpenedBy
  <2> QED
    BY <1>2, <2>3, <2>4, <2>5
<1> QED
  BY <1>1, <1>2

LEMMA NodeStart == SvcInit(DirChoices) => NodeInv
<1> SUFFICES ASSUME SvcInit(DirChoices) PROVE NodeInv
  OBVIOUS
<1>1. SvcTypes
  <2>1. <<>> \in Seq(SvcKinds)
    OBVIOUS
  <2>2. serviceFuncs = [n \in Node |-> <<>>]
    BY DEF SvcInit
  <2>3. serviceFuncs \in [Node -> Seq(SvcKinds)]
    BY <2>1, <2>2
  <2> QED
    BY <2>3 DEF SvcInit, SvcTypes
<1>2. NodeOK
  BY NodeAssumption DEF SvcInit, NodeOK, AddrOK, DirOK, LiveOK
<1>3. CallsOK
  <2>1. callAt = [g \in Goroutine |-> <<"idle">>] /\ <<"idle">> \in Calls
    BY DEF SvcInit, Calls
  <2>2. ASSUME NEW n \in Node, NEW g \in CallsOf[n] PROVE callAt[g][1] = "idle"
    BY <2>1 DEF Goroutine
  <2> QED
    BY <2>1, <2>2 DEF CallsOK, WaitOK
<1> QED
  BY <1>1, <1>2, <1>3 DEF NodeInv

\* Node n closes all its listeners: the addresses it had, and those of opened it has just
\* taken, are free again, and no other changes.
LEMMA AddrFrees ==
  ASSUME SvcTypes, NodeOK, NEW n \in Node, NEW opened \in SUBSET RpcReaches(n),
         \A e \in opened : CanOpen(e),
         stopRPC(n, svcListens[n] \cup opened, [e \in SvcEndpoint |-> IF e \in opened THEN n ELSE addrOwner[e]])
  PROVE  /\ addrOwner' \in [SvcEndpoint -> Node \cup {"nobody"}] /\ svcListens' \in [Node -> SUBSET SvcEndpoint]
         /\ \A e \in SvcEndpoint : addrOwner'[e] # n
         /\ \A m \in Node \ {n} : \A e \in SvcEndpoint : addrOwner'[e] = m <=> addrOwner[e] = m
         /\ \A m \in Node \ {n} : svcListens'[m] = svcListens[m]
<1> DEFINE used == [e \in SvcEndpoint |-> IF e \in opened THEN n ELSE addrOwner[e]]
           fields == svcListens[n] \cup opened
<1>1. addrOwner' = [e \in SvcEndpoint |-> IF e \in fields \cap RpcReaches(n) /\ used[e] = n THEN "nobody" ELSE used[e]]
  BY DEF stopRPC, stopListeners
<1>2. svcListens' = [svcListens EXCEPT ![n] = fields \ RpcReaches(n)]
  BY DEF stopRPC
<1>3. opened \subseteq SvcEndpoint /\ n # "nobody"
  BY EndpointFacts, NodeAssumption
<1>4. ASSUME NEW e \in SvcEndpoint
      PROVE  addrOwner'[e] = IF addrOwner[e] = n THEN "nobody" ELSE addrOwner[e]
  <2>1. CASE e \in opened
    BY <2>1, <1>1, <1>3 DEF CanOpen
  <2>2. CASE e \notin opened
    <3>1. addrOwner[e] = n => e \in svcListens[n] /\ e \in RpcReaches(n)
      BY DEF NodeOK, AddrOK
    <3> QED
      BY <2>2, <3>1, <1>1
  <2> QED
    BY <2>1, <2>2
<1>5. addrOwner' \in [SvcEndpoint -> Node \cup {"nobody"}]
  <2>1. addrOwner' = [e \in SvcEndpoint |-> addrOwner'[e]]
    BY <1>1
  <2> QED
    BY <2>1, <1>4 DEF SvcTypes
<1>6. svcListens' \in [Node -> SUBSET SvcEndpoint] /\ \A m \in Node \ {n} : svcListens'[m] = svcListens[m]
  BY <1>2, <1>3 DEF SvcTypes
<1> QED
  BY <1>3, <1>4, <1>5, <1>6, NodeAssumption

\* Node n takes the free addresses of opened and keeps them.
LEMMA AddrTakes ==
  ASSUME SvcTypes, NEW n \in Node, NEW opened \in SUBSET RpcReaches(n),
         \A e \in opened : CanOpen(e),
         svcListens' = [svcListens EXCEPT ![n] = @ \cup opened],
         addrOwner' = [e \in SvcEndpoint |-> IF e \in opened THEN n ELSE addrOwner[e]]
  PROVE  /\ addrOwner' \in [SvcEndpoint -> Node \cup {"nobody"}] /\ svcListens' \in [Node -> SUBSET SvcEndpoint]
         /\ svcListens'[n] = svcListens[n] \cup opened
         /\ \A m \in Node \ {n} : \A e \in SvcEndpoint : addrOwner'[e] = m <=> addrOwner[e] = m
         /\ \A m \in Node \ {n} : svcListens'[m] = svcListens[m]
<1>1. opened \subseteq SvcEndpoint
  BY EndpointFacts
<1> QED
  BY <1>1, NodeAssumption DEF SvcTypes, CanOpen

\* What the other nodes have does not change with the addresses and the lock of node n.
LEMMA OthersKeep ==
  ASSUME NodeOK, NEW n \in Node, NEW m \in Node \ {n},
         svcRun'[m] = svcRun[m], svcListens'[m] = svcListens[m], holdsLock'[m] = holdsLock[m],
         svcLive'[m] = svcLive[m], serviceFuncs'[m] = serviceFuncs[m], dirInUse' = dirInUse,
         \A e \in SvcEndpoint : addrOwner'[e] = m <=> addrOwner[e] = m,
         holdsLock[m] => dirOwner' = dirOwner
  PROVE  AddrOK(m, svcRun'[m], svcListens'[m], addrOwner') /\ DirOK(m, svcRun[m], holdsLock[m], dirOwner)'
         /\ LiveOK(m)'
<1>1. AddrOK(m, svcRun[m], svcListens[m], addrOwner) /\ DirOK(m, svcRun[m], holdsLock[m], dirOwner) /\ LiveOK(m)
  BY DEF NodeOK
<1>2. RpcEndpoints(m) \subseteq SvcEndpoint
  BY EndpointFacts
<1>3. AddrOK(m, svcRun'[m], svcListens'[m], addrOwner')
  BY <1>1, <1>2 DEF AddrOK
<1>4. DirOK(m, svcRun[m], holdsLock[m], dirOwner)'
  BY <1>1 DEF DirOK
<1>5. LiveOK(m)'
  BY <1>1 DEF LiveOK, KindsOf
<1> QED
  BY <1>3, <1>4, <1>5

\* Start, whatever it ends with.
LEMMA StartKeeps ==
  ASSUME SvcTypes, NodeOK, NEW n \in Node, StartNode(n)
  PROVE  /\ SvcTypes' /\ NodeOK'
         /\ svcRun[n] = 0 /\ stopClosed' = stopClosed
         /\ \A m \in Node \ {n} : svcRun'[m] = svcRun[m]
<1>0. /\ svcRun[n] = 0 /\ stopClosed' = stopClosed /\ serviceFuncs' = serviceFuncs /\ dirInUse' = dirInUse
      /\ dirInUse => dirOwner = "nobody"
  BY DEF StartNode, openDataDir
<1>e. RpcEndpoints(n) \in SUBSET RpcReaches(n)
  BY EndpointFacts
<1>d. /\ dirOwner' \in Node \cup {"nobody"} /\ holdsLock' \in [Node -> BOOLEAN]
      /\ \A m \in Node \ {n} : holdsLock'[m] = holdsLock[m]
      /\ \A m \in Node : holdsLock[m] => dirOwner' = dirOwner
      /\ holdsLock'[n] => dirOwner' = n
      /\ dirInUse => holdsLock'[n]
  <2>1. \A m \in Node : holdsLock[m] => dirOwner = m
    BY DEF NodeOK, DirOK
  <2>2. CASE dirInUse
    <3>1. dirOwner' = n /\ holdsLock' = [holdsLock EXCEPT ![n] = TRUE]
      BY <2>2 DEF StartNode, LocksDir
    <3> QED
      BY <2>1, <2>2, <3>1, <1>0, NodeAssumption DEF SvcTypes
  <2>3. CASE ~dirInUse
    <3>1. dirOwner' = dirOwner /\ holdsLock' = holdsLock
      BY <2>3 DEF StartNode, LocksDir
    <3> QED
      BY <2>1, <2>3, <3>1 DEF SvcTypes
  <2> QED
    BY <2>2, <2>3
<1>l. svcLive[n] = {}
  BY <1>0 DEF NodeOK, LiveOK
\* An end that leaves the node stopped.
<1>s. ASSUME svcRun' = svcRun, startCount' = startCount, DOMAIN svcLive' = Node, svcLive'[n] = {},
             \A m \in Node \ {n} : svcLive'[m] = svcLive[m],
             addrOwner' \in [SvcEndpoint -> Node \cup {"nobody"}], svcListens' \in [Node -> SUBSET SvcEndpoint],
             \A m \in Node \ {n} : \A e \in SvcEndpoint : addrOwner'[e] = m <=> addrOwner[e] = m,
             \A m \in Node \ {n} : svcListens'[m] = svcListens[m],
             \A e \in SvcEndpoint : addrOwner'[e] = n => /\ ~IsMaster(n) /\ e = "grpc"
                                                        /\ e \in svcListens'[n]
      PROVE  SvcTypes' /\ NodeOK'
  <2>1. SvcTypes'
    BY <1>s, <1>0, <1>d DEF SvcTypes
  <2>2. AddrOK(n, svcRun'[n], svcListens'[n], addrOwner')
    BY <1>s, <1>0 DEF AddrOK, RpcReaches
  <2>3. DirOK(n, svcRun[n], holdsLock[n], dirOwner)'
    BY <1>d, <1>0 DEF DirOK
  <2>4. LiveOK(n)'
    BY <1>s, <1>0 DEF LiveOK
  <2>5. ASSUME NEW m \in Node \ {n}
        PROVE  AddrOK(m, svcRun'[m], svcListens'[m], addrOwner') /\ DirOK(m, svcRun[m], holdsLock[m], dirOwner)'
               /\ LiveOK(m)'
    BY <1>s, <1>0, <1>d, OthersKeep
  <2> QED
    BY <2>1, <2>2, <2>3, <2>4, <2>5 DEF NodeOK
<1>1. CASE StartConstructFails(n)
  BY <1>1, <1>s, <1>l, <1>0 DEF StartConstructFails, NodeOK, AddrOK, SvcTypes
<1>2. CASE \E i \in DOMAIN RpcOrder(n) : StartRPCFails(n, i)
  <2>1. PICK i \in DOMAIN RpcOrder(n) : StartRPCFails(n, i)
    BY <1>2
  <2> DEFINE opened == OpenedBy(n, i - 1)
             used == [e \in SvcEndpoint |-> IF e \in opened THEN n ELSE addrOwner[e]]
  <2>2. opened \in SUBSET RpcReaches(n) /\ (\A e \in opened : CanOpen(e))
    BY <2>1, EndpointFacts DEF StartRPCFails
  <2>3. svcLive' = svcLive /\ svcRun' = svcRun /\ startCount' = startCount
    BY <2>1 DEF StartRPCFails
  <2>4. CASE RpcOrder(n)[i] = "ws"
    <3>1. ~IsMaster(n) /\ opened \subseteq {"grpc"}
      BY <2>4, EndpointFacts
    <3>2. /\ svcListens' = [svcListens EXCEPT ![n] = @ \cup opened]
          /\ addrOwner' = stopListeners(n, {"ws"}, used)
      BY <2>1, <2>4 DEF StartRPCFails
    <3>3. \A e \in SvcEndpoint : addrOwner[e] = n => e = "grpc" /\ e \in svcListens[n]
      BY <1>0 DEF NodeOK, AddrOK
    <3>4. "ws" \in SvcEndpoint => used["ws"] # n
      BY <3>1, <3>3
    <3>5. addrOwner' = used
      BY <3>2, <3>4 DEF stopListeners
    <3>6. /\ addrOwner' \in [SvcEndpoint -> Node \cup {"nobody"}] /\ svcListens' \in [Node -> SUBSET SvcEndpoint]
          /\ svcListens'[n] = svcListens[n] \cup opened
          /\ \A m \in Node \ {n} : \A e \in SvcEndpoint : addrOwner'[e] = m <=> addrOwner[e] = m
          /\ \A m \in Node \ {n} : svcListens'[m] = svcListens[m]
      BY <2>2, <3>2, <3>5, AddrTakes
    <3>7. \A e \in SvcEndpoint : addrOwner'[e] = n => ~IsMaster(n) /\ e = "grpc" /\ e \in svcListens'[n]
      BY <3>1, <3>3, <3>5, <3>6
    <3> QED
      BY <2>3, <3>6, <3>7, <1>s, <1>l, <1>0 DEF SvcTypes
  <2>5. CASE RpcOrder(n)[i] # "ws"
    <3>1. stopRPC(n, svcListens[n] \cup opened, used)
      BY <2>1, <2>5 DEF StartRPCFails
    <3> HIDE DEF opened
    <3> QED
      BY <3>1, <2>2, <2>3, <1>s, <1>l, <1>0, AddrFrees DEF SvcTypes
  <2> QED
    BY <2>4, <2>5, <2>3, <1>0
<1>3. CASE \E up \in SUBSET KindsOf(n) : StartInitFails(n, up)
  <2>1. PICK up \in SUBSET KindsOf(n) : StartInitFails(n, up)
    BY <1>3
  <2>2. /\ \A e \in RpcEndpoints(n) : CanOpen(e)
        /\ stopRPC(n, svcListens[n] \cup RpcEndpoints(n),
                   [e \in SvcEndpoint |-> IF e \in RpcEndpoints(n) THEN n ELSE addrOwner[e]])
        /\ svcLive' = [svcLive EXCEPT ![n] = (@ \cup up) \ up]
        /\ svcRun' = svcRun /\ startCount' = startCount
    BY <2>1 DEF StartInitFails
  <2>3. /\ DOMAIN svcLive' = Node /\ svcLive'[n] = {} /\ \A m \in Node \ {n} : svcLive'[m] = svcLive[m]
    BY <2>2, <1>l DEF SvcTypes
  <2> QED
    <3>1. /\ addrOwner' \in [SvcEndpoint -> Node \cup {"nobody"}] /\ svcListens' \in [Node -> SUBSET SvcEndpoint]
          /\ \A e \in SvcEndpoint : addrOwner'[e] # n
          /\ \A m \in Node \ {n} : \A e \in SvcEndpoint : addrOwner'[e] = m <=> addrOwner[e] = m
          /\ \A m \in Node \ {n} : svcListens'[m] = svcListens[m]
      BY <2>2, <1>e, AddrFrees
    <3>2. SvcTypes' /\ NodeOK'
      BY <3>1, <2>2, <2>3, <1>s
    <3> QED
      BY <3>2, <2>2, <1>0
<1>4. CASE StartSucceeds(n)
  <2>1. /\ \A e \in RpcEndpoints(n) : CanOpen(e)
        /\ svcListens' = [svcListens EXCEPT ![n] = @ \cup RpcEndpoints(n)]
        /\ addrOwner' = [e \in SvcEndpoint |-> IF e \in RpcEndpoints(n) THEN n ELSE addrOwner[e]]
        /\ svcLive' = [svcLive EXCEPT ![n] = KindsOf(n)]
        /\ startCount' = [startCount EXCEPT ![n] = @ + 1]
        /\ svcRun' = [svcRun EXCEPT ![n] = startCount'[n]]
    BY <1>4 DEF StartSucceeds
  <2>2. /\ addrOwner' \in [SvcEndpoint -> Node \cup {"nobody"}] /\ svcListens' \in [Node -> SUBSET SvcEndpoint]
        /\ svcListens'[n] = svcListens[n] \cup RpcEndpoints(n)
        /\ \A m \in Node \ {n} : \A e \in SvcEndpoint : addrOwner'[e] = m <=> addrOwner[e] = m
        /\ \A m \in Node \ {n} : svcListens'[m] = svcListens[m]
    BY <2>1, <1>e, AddrTakes
  <2>3. /\ startCount' \in [Node -> Nat] /\ svcRun' \in [Node -> Nat] /\ svcRun'[n] # 0
        /\ \A m \in Node \ {n} : svcRun'[m] = svcRun[m]
    <3>1. startCount \in [Node -> Nat] /\ svcRun \in [Node -> Nat] /\ startCount[n] \in Nat
      BY DEF SvcTypes
    <3>2. startCount'[n] = startCount[n] + 1 /\ startCount'[n] \in Nat /\ startCount'[n] # 0
      BY <3>1, <2>1
    <3> QED
      BY <3>1, <3>2, <2>1
  <2>4. /\ DOMAIN svcLive' = Node /\ svcLive'[n] = KindsOf(n) /\ \A m \in Node \ {n} : svcLive'[m] = svcLive[m]
    BY <2>1 DEF SvcTypes
  <2>5. SvcTypes'
    BY <2>2, <2>3, <2>4, <1>0, <1>d DEF SvcTypes
  <2>6. AddrOK(n, svcRun'[n], svcListens'[n], addrOwner')
    <3>1. \A e \in SvcEndpoint : addrOwner[e] = n => e \in svcListens[n] /\ e \in RpcReaches(n)
      BY DEF NodeOK, AddrOK
    <3>2. RpcEndpoints(n) \subseteq SvcEndpoint
      BY EndpointFacts
    <3> QED
      BY <3>1, <3>2, <2>1, <2>2, <2>3, <1>e DEF AddrOK
  <2>7. DirOK(n, svcRun[n], holdsLock[n], dirOwner)'
    BY <1>d, <1>0 DEF DirOK
  <2>8. LiveOK(n)'
    BY <2>3, <2>4, <1>0 DEF LiveOK, KindsOf
  <2>9. ASSUME NEW m \in Node \ {n}
        PROVE  AddrOK(m, svcRun'[m], svcListens'[m], addrOwner') /\ DirOK(m, svcRun[m], holdsLock[m], dirOwner)'
               /\ LiveOK(m)'
    BY <2>2, <2>3, <2>4, <1>0, <1>d, OthersKeep
  <2>10. NodeOK'
    BY <2>6, <2>7, <2>8, <2>9 DEF NodeOK
  <2> QED
    BY <2>3, <2>5, <2>10, <1>0
<1>5. StartConstructFails(n) \/ (\E i \in DOMAIN RpcOrder(n) : StartRPCFails(n, i))
      \/ (\E up \in SUBSET KindsOf(n) : StartInitFails(n, up)) \/ StartSucceeds(n)
  BY DEF StartNode
<1> QED
  BY <1>1, <1>2, <1>3, <1>4, <1>5

\* Stop, whatever the services report.
LEMMA StopNodeKeeps ==
  ASSUME SvcTypes, NodeOK, NEW n \in Node, NEW failed, StopNode(n, failed)
  PROVE  /\ SvcTypes' /\ NodeOK'
         /\ \A m \in Node \ {n} : svcRun'[m] = svcRun[m] /\ stopClosed'[m] = stopClosed[m]
         /\ stopClosed'[n] = stopClosed[n] \cup {svcRun[n]}
<1>1. /\ stopRPC(n, svcListens[n], addrOwner)
      /\ svcLive' = [svcLive EXCEPT ![n] = {}] /\ svcRun' = [svcRun EXCEPT ![n] = 0]
      /\ dirOwner' = IF holdsLock[n] THEN "nobody" ELSE dirOwner
      /\ holdsLock' = [holdsLock EXCEPT ![n] = FALSE]
      /\ stopClosed' = [stopClosed EXCEPT ![n] = @ \cup {svcRun[n]}]
      /\ serviceFuncs' = serviceFuncs /\ startCount' = startCount /\ dirInUse' = dirInUse
  BY DEF StopNode
<1>2. /\ addrOwner' \in [SvcEndpoint -> Node \cup {"nobody"}] /\ svcListens' \in [Node -> SUBSET SvcEndpoint]
      /\ \A e \in SvcEndpoint : addrOwner'[e] # n
      /\ \A m \in Node \ {n} : \A e \in SvcEndpoint : addrOwner'[e] = m <=> addrOwner[e] = m
      /\ \A m \in Node \ {n} : svcListens'[m] = svcListens[m]
  <2> DEFINE opened == {}
  <2>1. addrOwner = [e \in SvcEndpoint |-> IF e \in opened THEN n ELSE addrOwner[e]]
    BY DEF SvcTypes
  <2>2. svcListens[n] = svcListens[n] \cup opened
    OBVIOUS
  <2>3. opened \in SUBSET RpcReaches(n) /\ \A e \in opened : CanOpen(e)
    OBVIOUS
  <2> HIDE DEF opened
  <2>4. stopRPC(n, svcListens[n] \cup opened, [e \in SvcEndpoint |-> IF e \in opened THEN n ELSE addrOwner[e]])
    BY <1>1, <2>1, <2>2
  <2> QED
    BY <2>3, <2>4, AddrFrees
<1>3. /\ \A m \in Node \ {n} : /\ svcRun'[m] = svcRun[m] /\ svcLive'[m] = svcLive[m]
                               /\ holdsLock'[m] = holdsLock[m] /\ stopClosed'[m] = stopClosed[m]
      /\ svcRun'[n] = 0 /\ svcLive'[n] = {} /\ ~holdsLock'[n] /\ stopClosed'[n] = stopClosed[n] \cup {svcRun[n]}
      /\ DOMAIN svcLive' = Node /\ DOMAIN stopClosed' = Node
      /\ svcRun' \in [Node -> Nat] /\ holdsLock' \in [Node -> BOOLEAN]
  BY <1>1 DEF SvcTypes
<1>4. SvcTypes'
  BY <1>1, <1>2, <1>3 DEF SvcTypes
<1>5. AddrOK(n, svcRun'[n], svcListens'[n], addrOwner') /\ DirOK(n, svcRun[n], holdsLock[n], dirOwner)' /\ LiveOK(n)'
  BY <1>2, <1>3 DEF AddrOK, DirOK, LiveOK
<1>6. ASSUME NEW m \in Node \ {n}
      PROVE  AddrOK(m, svcRun'[m], svcListens'[m], addrOwner') /\ DirOK(m, svcRun[m], holdsLock[m], dirOwner)'
             /\ LiveOK(m)'
  <2>1. holdsLock[m] => dirOwner' = dirOwner
    BY <1>1 DEF NodeOK, DirOK
  <2> QED
    BY <2>1, <1>1, <1>2, <1>3, OthersKeep
<1>7. NodeOK'
  BY <1>5, <1>6 DEF NodeOK
<1> QED
  BY <1>3, <1>4, <1>7

\* A goroutine g of node n turns to what, and the other nodes keep their starts.
LEMMA CallKeeps ==
  ASSUME CallsOK, NEW n \in Node, NEW g \in CallsOf[n], NEW what \in Calls,
         \A m \in Node \ {n} : svcRun'[m] = svcRun[m] /\ stopClosed'[m] = stopClosed[m],
         svcRun'[n] = svcRun[n] \/ svcRun[n] = 0 \/ svcRun[n] \in stopClosed'[n],
         stopClosed[n] \subseteq stopClosed'[n],
         callAt' = [callAt EXCEPT ![g] = what],
         WaitOK(what, svcRun'[n], stopClosed'[n])
  PROVE  CallsOK'
<1>1. g \in Goroutine /\ callAt \in [Goroutine -> Calls]
  BY DEF Goroutine, CallsOK
<1>2. callAt' \in [Goroutine -> Calls]
  BY <1>1
<1>3. ASSUME NEW m \in Node, NEW f \in CallsOf[m]
      PROVE  WaitOK(callAt'[f], svcRun'[m], stopClosed'[m])
  <2>0. f \in Goroutine /\ WaitOK(callAt[f], svcRun[m], stopClosed[m])
    BY DEF Goroutine, CallsOK
  <2>1. CASE f = g
    <3>1. m = n
      BY <2>1, NodeAssumption
    <3> QED
      BY <2>1, <3>1, <1>1
  <2>2. CASE f # g
    <3>1. callAt'[f] = callAt[f]
      BY <2>0, <2>2, <1>1
    <3> QED
      BY <3>1, <2>0 DEF WaitOK
  <2> QED
    BY <2>1, <2>2
<1> QED
  BY <1>2, <1>3 DEF CallsOK

\* The same when no goroutine turns to anything else.
LEMMA CallStays ==
  ASSUME CallsOK, NEW n \in Node, UNCHANGED callAt,
         \A m \in Node \ {n} : svcRun'[m] = svcRun[m] /\ stopClosed'[m] = stopClosed[m],
         svcRun'[n] = svcRun[n] \/ svcRun[n] = 0 \/ svcRun[n] \in stopClosed'[n],
         stopClosed[n] \subseteq stopClosed'[n]
  PROVE  CallsOK'
<1>1. ASSUME NEW m \in Node, NEW f \in CallsOf[m]
      PROVE  WaitOK(callAt'[f], svcRun'[m], stopClosed'[m])
  BY DEF CallsOK, WaitOK
<1> QED
  BY <1>1 DEF CallsOK

\* Nothing but the calls and the P2P servers change.
LEMMA RestKeeps ==
  ASSUME SvcTypes, NodeOK, UNCHANGED SvcRest
  PROVE  SvcTypes' /\ NodeOK'
<1>1. SvcTypes'
  BY DEF SvcRest, osVars, SvcTypes
<1>2. NodeOK'
  BY DEF SvcRest, osVars, NodeOK, DirOK, LiveOK, KindsOf
<1> QED
  BY <1>1, <1>2

LEMMA NodeStep == NodeInv /\ [SvcNext]_svcVars => NodeInv'
<1> SUFFICES ASSUME NodeInv, [SvcNext]_svcVars PROVE NodeInv'
  OBVIOUS
<1>i. SvcTypes /\ NodeOK /\ CallsOK
  BY DEF NodeInv
<1>u. CASE UNCHANGED svcVars
  <2>1. UNCHANGED SvcRest /\ UNCHANGED callAt
    BY <1>u DEF svcVars, SvcRest
  <2>2. CallsOK'
    BY <1>i, <1>u DEF svcVars, CallsOK
  <2> QED
    BY <2>1, <2>2, <1>i, RestKeeps DEF NodeInv
<1>n. CASE SvcNext
  <2>1. PICK n \in Node :
           \/ \E kind \in SvcKinds : RegisterService(n, kind)
           \/ \E g \in CallsOf[n] :
                 \/ callAt[g] = <<"idle">> /\ StartNode(n) /\ UNCHANGED callAt
                 \/ \E failed \in SUBSET svcLive[n] :
                       \/ callAt[g] = <<"idle">> /\ StopNode(n, failed) /\ UNCHANGED callAt
                       \/ RestartStops(n, g, failed)
                 \/ WaitNode(n, g) \/ Woken(n, g) \/ RestartStarts(n, g)
                 \/ StartP2P(n, g) \/ P2PStarts(n, g)
    BY <1>n DEF SvcNext
  <2>r. ASSUME NEW kind \in SvcKinds, RegisterService(n, kind) PROVE NodeInv'
    <3>1. /\ svcRun[n] = 0 /\ serviceFuncs' = [serviceFuncs EXCEPT ![n] = Append(@, kind)]
          /\ UNCHANGED <<svcRun, startCount, holdsLock, svcListens, svcLive, stopClosed, callAt, osVars>>
      BY <2>r DEF RegisterService
    <3>2. /\ serviceFuncs' \in [Node -> Seq(SvcKinds)]
          /\ \A m \in Node \ {n} : serviceFuncs'[m] = serviceFuncs[m]
      <4>1. serviceFuncs \in [Node -> Seq(SvcKinds)] /\ serviceFuncs[n] \in Seq(SvcKinds)
        BY <1>i DEF SvcTypes
      <4>2. Append(serviceFuncs[n], kind) \in Seq(SvcKinds)
        BY <4>1
      <4> DEFINE more == Append(serviceFuncs[n], kind)
      <4>3. serviceFuncs' = [serviceFuncs EXCEPT ![n] = more] /\ more \in Seq(SvcKinds)
        BY <3>1, <4>2
      <4> HIDE DEF more
      <4> QED
        BY <4>1, <4>3
    <3>3. SvcTypes'
      BY <3>1, <3>2, <1>i DEF SvcTypes, osVars
    <3>4. NodeOK'
      <4>1. ASSUME NEW m \in Node PROVE LiveOK(m)'
        BY <3>1, <3>2, <1>i, ZenonT(40) DEF NodeOK, LiveOK, KindsOf
      <4> QED
        BY <4>1, <3>1, <1>i DEF NodeOK, DirOK, osVars
    <3>5. CallsOK'
      BY <3>1, <1>i DEF CallsOK
    <3> QED
      BY <3>3, <3>4, <3>5 DEF NodeInv
  <2>s. ASSUME StartNode(n), callAt' = callAt PROVE NodeInv'
    BY <2>s, <1>i, StartKeeps, CallStays DEF NodeInv
  <2>t. ASSUME NEW failed, StopNode(n, failed), callAt' = callAt PROVE NodeInv'
    BY <2>t, <1>i, StopNodeKeeps, CallStays DEF NodeInv
  <2>w. /\ <<"idle">> \in Calls /\ <<"restarts">> \in Calls /\ <<"panicked">> \in Calls
        /\ \A k \in Nat : <<"waits", k>> \in Calls /\ <<"p2p", k>> \in Calls
        /\ \A start, closed : /\ WaitOK(<<"idle">>, start, closed) /\ WaitOK(<<"restarts">>, start, closed)
                            /\ WaitOK(<<"panicked">>, start, closed)
                            /\ \A k \in Nat : WaitOK(<<"p2p", k>>, start, closed)
    BY DEF Calls, WaitOK
  <2>c. ASSUME NEW g \in CallsOf[n], NEW what \in Calls, UNCHANGED SvcRest, callAt' = [callAt EXCEPT ![g] = what],
               WaitOK(what, svcRun[n], stopClosed[n])
        PROVE  NodeInv'
    <3>1. svcRun' = svcRun /\ stopClosed' = stopClosed
      BY <2>c DEF SvcRest
    <3>2. CallsOK'
      BY <3>1, <2>c, <1>i, CallKeeps
    <3> QED
      BY <3>2, <2>c, <1>i, RestKeeps DEF NodeInv
  <2>n. svcRun[n] \in Nat
    BY <1>i DEF SvcTypes
  <2>a. ASSUME NEW g \in CallsOf[n], NEW failed, RestartStops(n, g, failed) PROVE NodeInv'
    <3>1. /\ StopNode(n, failed)
          /\ callAt' = [callAt EXCEPT ![g] = IF failed = {} THEN <<"restarts">> ELSE <<"idle">>]
      BY <2>a DEF RestartStops, Calling
    <3> DEFINE what == IF failed = {} THEN <<"restarts">> ELSE <<"idle">>
    <3>2. what \in Calls /\ WaitOK(what, svcRun'[n], stopClosed'[n])
      BY <2>w
    <3> HIDE DEF what
    <3>3. callAt' = [callAt EXCEPT ![g] = what]
      BY <3>1 DEF what
    <3>4. CallsOK'
      BY <3>1, <3>2, <3>3, <1>i, StopNodeKeeps, CallKeeps
    <3> QED
      BY <3>1, <3>4, <1>i, StopNodeKeeps DEF NodeInv
  <2>b. ASSUME NEW g \in CallsOf[n], WaitNode(n, g) PROVE NodeInv'
    <3>1. UNCHANGED SvcRest /\ callAt' = [callAt EXCEPT ![g] = <<"waits", svcRun[n]>>] /\ svcRun[n] # 0
      BY <2>b DEF WaitNode, Calling
    <3>2. WaitOK(<<"waits", svcRun[n]>>, svcRun[n], stopClosed[n])
      BY <3>1 DEF WaitOK
    <3> QED
      BY <3>1, <3>2, <2>c, <2>w, <2>n
  <2>d. ASSUME NEW g \in CallsOf[n], Woken(n, g) \/ P2PStarts(n, g) PROVE NodeInv'
    <3>1. UNCHANGED SvcRest /\ callAt' = [callAt EXCEPT ![g] = <<"idle">>]
      BY <2>d DEF Woken, P2PStarts, Calling
    <3> QED
      BY <3>1, <2>c, <2>w
  <2>e. ASSUME NEW g \in CallsOf[n], StartP2P(n, g) PROVE NodeInv'
    <3>1. /\ UNCHANGED SvcRest
          /\ \/ callAt' = [callAt EXCEPT ![g] = <<"panicked">>]
             \/ callAt' = [callAt EXCEPT ![g] = <<"p2p", svcRun[n]>>]
      BY <2>e DEF StartP2P, Calling
    <3> QED
      BY <3>1, <2>c, <2>w, <2>n
  <2>f. ASSUME NEW g \in CallsOf[n], RestartStarts(n, g) PROVE NodeInv'
    <3>1. /\ StartNode(n) \/ UNCHANGED SvcRest
          /\ callAt' = [callAt EXCEPT ![g] = <<"idle">>]
      BY <2>f DEF RestartStarts, Calling
    <3>2. CASE StartNode(n)
      <4>1. CallsOK'
        BY <3>1, <3>2, <2>w, <1>i, StartKeeps, CallKeeps
      <4> QED
        BY <4>1, <3>2, <1>i, StartKeeps DEF NodeInv
    <3>3. CASE UNCHANGED SvcRest
      BY <3>1, <3>3, <2>c, <2>w
    <3> QED
      BY <3>1, <3>2, <3>3
  <2> QED
    BY <2>1, <2>r, <2>s, <2>t, <2>a, <2>b, <2>d, <2>e, <2>f
<1> QED
  BY <1>u, <1>n

\* For any number of nodes on one machine, with any services and endpoints: a start that
\* fails at any step and a stop leave no service, address or waiter behind, and a node that
\* runs has its directory, services and addresses (service/node.go).
THEOREM NodesAlways == SvcSpec => []NodeSound
<1>1. NodeInv => NodeSound
  <2> SUFFICES ASSUME NodeInv PROVE NodeSound
    OBVIOUS
  <2>1. StoppedLeavesNothing
    BY DEF NodeInv, NodeOK, AddrOK, DirOK, LiveOK, StoppedLeavesNothing
  <2>2. WaitersWaitForRunning
    BY DEF NodeInv, CallsOK, WaitOK, WaitersWaitForRunning
  <2> QED
    BY <2>1, <2>2 DEF NodeSound
<1> QED
  BY <1>1, NodeStart, NodeStep, PTL DEF SvcSpec

-----------------------------------------------------------------------------
(* The event system of a slave (Filters).                                  *)

\* Broadcasts send to installed subscribers only; a subscriber that the loop installs
\* waits for that, and one that has left is not installed.
FilterOK(at, ix, loop, cast) ==
    /\ DOMAIN at = Subscriber /\ DOMAIN cast = Shards
    /\ loop = <<"select">> \/ loop \in {"install", "uninstall"} \X Subscriber
    /\ \A s \in Subscriber : loop = <<"install", s>> => at[s] = "installing"
    /\ \A s \in Subscriber : at[s] = "gone" => s \notin ix
    /\ \A h \in Shards : cast[h] \subseteq ix

FilterInv == FilterOK(subscriberAt, index, loopAt, casting)

\* A step of the event system keeps FilterInv: the index changes only while nobody
\* broadcasts.
LEMMA FilterStep ==
  ASSUME FilterInv, [FiltersNext]_filterVars
  PROVE  FilterInv'
<1> USE DEF FilterInv, FilterOK
<1>1. ASSUME NEW s \in Subscriber, Subscribe(s)
      PROVE  FilterInv'
  BY <1>1 DEF Subscribe, Move, feedVars
<1>2. ASSUME NEW s \in Subscriber, LeaveSubscription(s)
      PROVE  FilterInv'
  BY <1>2 DEF LeaveSubscription, Move, sysVars, feedVars
<1>3. ASSUME NEW s \in Subscriber, TakeEvent(s)
      PROVE  FilterInv'
  BY <1>3 DEF TakeEvent, sysVars, feedVars
<1>4. ASSUME NEW s \in Subscriber, Uninstalls(s)
      PROVE  FilterInv'
  BY <1>4 DEF Uninstalls, Move, feedVars
<1>5. ASSUME NEW s \in Subscriber, MissesLoop(s) \/ ConsumesOne(s)
      PROVE  FilterInv'
  BY <1>5 DEF MissesLoop, ConsumesOne, Move, sysVars, feedVars
<1>6. ASSUME Reading = {}, NEW h \in Shards
      PROVE  casting[h] = {}
  BY <1>6 DEF Reading
<1>7. CASE Install
  BY <1>6, <1>7 DEF Install, Move, feedVars
<1>8. CASE Uninstall
  BY <1>6, <1>8 DEF Uninstall, UninstallWith, Move, feedVars
<1>9. ASSUME NEW t, AddFeed(t) \/ DeleteFeed(t) \/ PostEvent(t) \/ FeedTick \/ TickEnds
      PROVE  FilterInv'
  BY <1>9 DEF AddFeed, DeleteFeed, PostEvent, FeedTick, TickEnds, sysVars
<1>10. ASSUME NEW h \in Shards, NEW t, Broadcast(h, t)
       PROVE  FilterInv'
  BY <1>10, ZenonT(40) DEF Broadcast, Installed, sysVars
<1>11. ASSUME NEW h \in Shards, NEW s, CastTo(h, s)
       PROVE  FilterInv'
  BY <1>11 DEF CastTo, sysVars
<1>12. CASE UNCHANGED filterVars
  BY <1>12 DEF filterVars
<1> QED
  BY <1>1, <1>2, <1>3, <1>4, <1>5, <1>7, <1>8, <1>9, <1>10, <1>11, <1>12
     DEF FiltersNext, SubscriberStep, LoopStep, EventsLoopStep, WorkerStep

\* For any subscribers, topics and sizes of channels: nobody sends to a subscriber whose
\* Unsubscribe has returned (filter_system.go broadcast, eventLoop).
THEOREM SendsAlways == FiltersSpec => []NoSendAfterUnsubscribe
<1>1. FiltersInit => FilterInv
  BY DEF FiltersInit, FilterInv, FilterOK
<1>2. FilterInv => NoSendAfterUnsubscribe
  BY DEF FilterInv, FilterOK, NoSendAfterUnsubscribe
<1> QED
  BY <1>1, <1>2, FilterStep, PTL DEF FiltersSpec

-----------------------------------------------------------------------------
(* The JSON-RPC server (RpcServer).                                        *)

\* The messages of connection c that are being executed, by their numbers.
Executing(ex, c) == {e.n : e \in {x \in ex : x.conn = c}}
IsExec(e) == DOMAIN e = {"conn", "n", "started", "todo", "created"}

\* A connection of a server that was not stopped: its messages are answered or executed,
\* unless a write failed, none is there before it is served, and none is left when its
\* loop has ended.
ServedOK(at, got, ans, failed, ex) ==
    /\ at = "new" => got = 0 /\ ans = {} /\ ex = {}
    /\ at = "ended" => ex = {}
    /\ ~failed => ans \cup ex = 1 .. got

ServerInv ==
    /\ DOMAIN serveAt = RpcConn /\ DOMAIN answered = RpcConn
    /\ writeFailed \in [RpcConn -> BOOLEAN] /\ received \in [RpcConn -> Nat]
    /\ \A e \in execs : IsExec(e) /\ e.n \in Nat
    /\ run = 1 => \A c \in RpcConn : ServedOK(serveAt[c], received[c], answered[c], writeFailed[c],
                                              Executing(execs, c))

LEMMA ServerStart == RpcInit => ServerInv
  BY DEF RpcInit, ServerInv, ServedOK, Executing, IsExec

\* What is executed of a connection when a message is added, goes on or ends.
LEMMA ExecAdded ==
  ASSUME NEW e, NEW c
  PROVE  Executing(execs \cup {e}, c) = IF e.conn = c THEN Executing(execs, c) \cup {e.n}
                                        ELSE Executing(execs, c)
  BY DEF Executing

LEMMA ExecGoesOn ==
  ASSUME NEW e \in execs, NEW f, f.conn = e.conn, f.n = e.n, NEW c
  PROVE  Executing((execs \ {e}) \cup {f}, c) = Executing(execs, c)
  BY DEF Executing

LEMMA ExecEnds ==
  ASSUME NEW e \in execs, NEW c
  PROVE  /\ e.conn = c => /\ Executing(execs \ {e}, c) \subseteq Executing(execs, c)
                          /\ Executing(execs, c) \subseteq Executing(execs \ {e}, c) \cup {e.n}
         /\ e.conn # c => Executing(execs \ {e}, c) = Executing(execs, c)
  BY DEF Executing

\* A step of the server keeps ServerInv: a message leaves the executing ones with its answer
\* or with a failed write, and a loop ends when none of its messages is executing.
LEMMA ServerStep ==
  ASSUME ServerInv, [RpcNext]_rpcVars
  PROVE  ServerInv'
<1>1. ASSUME NEW c \in RpcConn, Serve(c) \/ RefuseHttp(c) \/ LoopTest(c) \/ ReadEnds(c)
      PROVE  ServerInv'
  BY <1>1 DEF Serve, RefuseHttp, LoopTest, ReadEnds, ServeReturns, ServerInv, ServedOK
<1>2. ASSUME NEW c \in RpcConn, ReadRequest(c)
      PROVE  ServerInv'
  <2>0. UNCHANGED <<run, answered, writeFailed>> /\ serveAt[c] = "read"
    BY <1>2 DEF ReadRequest
  <2>1. CASE UNCHANGED <<received, execs>> /\ serveAt' = [serveAt EXCEPT ![c] = "wait"]
    BY <2>0, <2>1 DEF ServerInv, ServedOK
  <2>2. ASSUME NEW todo,
               received' = [received EXCEPT ![c] = @ + 1], serveAt' = [serveAt EXCEPT ![c] = "got"],
               execs' = execs \cup {[conn |-> c, n |-> received[c] + 1, started |-> FALSE,
                                     todo |-> todo, created |-> {}]}
        PROVE  ServerInv'
    <3> DEFINE e == [conn |-> c, n |-> received[c] + 1, started |-> FALSE, todo |-> todo, created |-> {}]
    <3>1. IsExec(e) /\ e.conn = c /\ e.n = received[c] + 1 /\ e.n \in Nat
      BY DEF IsExec, ServerInv
    <3>2. \A d : Executing(execs', d) = IF d = c THEN Executing(execs, d) \cup {received[c] + 1}
                                        ELSE Executing(execs, d)
      BY <2>2, <3>1, ExecAdded
    <3> HIDE DEF e
    <3>3. 1 .. received[c] + 1 = (1 .. received[c]) \cup {received[c] + 1}
      BY DEF ServerInv
    <3>4. ASSUME run' = 1, NEW d \in RpcConn
          PROVE  ServedOK(serveAt'[d], received'[d], answered'[d], writeFailed'[d], Executing(execs', d))
      <4>1. CASE d = c
        BY <2>0, <2>2, <3>2, <3>3, <3>4, <4>1 DEF ServerInv, ServedOK
      <4>2. CASE d # c
        BY <2>0, <2>2, <3>2, <3>4, <4>2 DEF ServerInv
      <4> QED
        BY <4>1, <4>2
    <3>5. \A x \in execs' : IsExec(x) /\ x.n \in Nat
      BY <2>2, <3>1 DEF ServerInv, e
    <3>6. received' \in [RpcConn -> Nat] /\ DOMAIN serveAt' = RpcConn
      BY <2>2 DEF ServerInv
    <3>7. DOMAIN answered' = RpcConn /\ writeFailed' \in [RpcConn -> BOOLEAN]
      BY <2>0 DEF ServerInv
    <3> QED
      BY <3>4, <3>5, <3>6, <3>7, Zenon DEF ServerInv
  <2> QED
    BY <1>2, <2>1, <2>2 DEF ReadRequest
<1>3. ASSUME NEW c \in RpcConn, Dispatch(c)
      PROVE  ServerInv'
  <2>1. PICK e \in execs :
          /\ e.conn = c
          /\ IF run # 1
             THEN /\ execs' = execs \ {e}
                  /\ answered' = IF codecClosed[c] THEN answered ELSE [answered EXCEPT ![c] = @ \cup {e.n}]
                  /\ ServeReturns(c)
             ELSE /\ execs' = (execs \ {e}) \cup {[e EXCEPT !.started = TRUE]}
                  /\ serveAt' = [serveAt EXCEPT ![c] = IF c \in StreamConn THEN "loop" ELSE "single"]
                  /\ UNCHANGED <<answered, codecs, codecClosed>>
    BY <1>3 DEF Dispatch
  <2>2. UNCHANGED <<run, received, writeFailed>> /\ serveAt[c] = "got"
    BY <1>3 DEF Dispatch
  <2>3. CASE run # 1
    BY <2>1, <2>2, <2>3 DEF ServeReturns, ServerInv
  <2>4. CASE run = 1
    <3>1. PICK f : f = [e EXCEPT !.started = TRUE]
      OBVIOUS
    <3>2. IsExec(f) /\ f.conn = e.conn /\ f.n = e.n
      BY <3>1 DEF ServerInv, IsExec
    <3>3. execs' = (execs \ {e}) \cup {f}
      BY <2>1, <2>4, <3>1
    <3>4. \A d : Executing(execs', d) = Executing(execs, d)
      BY <3>2, <3>3, ExecGoesOn
    <3>5. \A x \in execs' : IsExec(x) /\ x.n \in Nat
      BY <3>2, <3>3 DEF ServerInv
    <3> QED
      BY <2>1, <2>2, <2>4, <3>4, <3>5 DEF ServerInv, ServedOK
  <2> QED
    BY <2>3, <2>4
<1>4. ASSUME NEW c \in RpcConn, WaitEnds(c)
      PROVE  ServerInv'
  <2>1. Executing(execs, c) = {}
    BY <1>4 DEF WaitEnds, Executing
  <2> QED
    BY <1>4, <2>1 DEF WaitEnds, ServeReturns, ServerInv, ServedOK
<1>5. ASSUME NEW e \in execs, handle(e)
      PROVE  ServerInv'
  <2>1. PICK f : IsExec(f) /\ f.conn = e.conn /\ f.n = e.n /\ execs' = (execs \ {e}) \cup {f}
    <3> DEFINE rest == [e EXCEPT !.todo = Tail(@)]
               more == [rest EXCEPT !.created = @ \cup {<<e.n, Len(e.todo)>>}]
    <3>1. IsExec(rest) /\ rest.conn = e.conn /\ rest.n = e.n
      BY DEF ServerInv, IsExec
    <3>2. IsExec(more) /\ more.conn = e.conn /\ more.n = e.n
      BY DEF ServerInv, IsExec
    <3>3. execs' = (execs \ {e}) \cup {rest} \/ execs' = (execs \ {e}) \cup {more}
      BY <1>5 DEF handle
    <3> HIDE DEF rest, more
    <3> QED
      BY <3>1, <3>2, <3>3
  <2>2. \A d : Executing(execs', d) = Executing(execs, d)
    BY <2>1, ExecGoesOn
  <2>3. UNCHANGED <<run, serveAt, received, answered, writeFailed>>
    BY <1>5 DEF handle
  <2> QED
    BY <2>1, <2>2, <2>3 DEF ServerInv
<1>6. ASSUME NEW e \in execs, exec(e)
      PROVE  ServerInv'
  <2>1. PICK ok \in BOOLEAN :
          /\ answered' = IF ok THEN [answered EXCEPT ![e.conn] = @ \cup {e.n}] ELSE answered
          /\ writeFailed' = [writeFailed EXCEPT ![e.conn] = @ \/ ~ok]
    BY <1>6 DEF exec, Writes
  <2>2. execs' = execs \ {e} /\ UNCHANGED <<run, serveAt, received>>
    BY <1>6 DEF exec
  <2>3. ASSUME run = 1, NEW d \in RpcConn
        PROVE  ServedOK(serveAt'[d], received'[d], answered'[d], writeFailed'[d], Executing(execs', d))
    <3>1. CASE e.conn # d
      BY <2>1, <2>2, <2>3, <3>1, ExecEnds DEF ServerInv
    <3>2. CASE e.conn = d
      <4>1. e.n \in Executing(execs, d)
        BY <3>2 DEF Executing
      <4>2. CASE ok
        <5>1. /\ answered'[d] = answered[d] \cup {e.n} /\ writeFailed'[d] = writeFailed[d]
              /\ serveAt'[d] = serveAt[d] /\ received'[d] = received[d]
          BY <2>1, <2>2, <3>2, <4>2 DEF ServerInv
        <5>2. PICK ex, rest : ex = Executing(execs, d) /\ rest = Executing(execs', d)
          OBVIOUS
        <5>3. rest \subseteq ex /\ ex \subseteq rest \cup {e.n} /\ e.n \in ex
          BY <2>2, <3>2, <4>1, <5>2, ExecEnds
        <5>4. ServedOK(serveAt[d], received[d], answered[d], writeFailed[d], ex)
          BY <2>3, <5>2 DEF ServerInv
        <5>5. (answered[d] \cup {e.n}) \cup rest = answered[d] \cup ex
          BY <5>3
        <5>6. serveAt[d] # "new"
          BY <5>3, <5>4 DEF ServedOK
        <5>7. serveAt[d] = "ended" => rest = {}
          BY <5>3, <5>4 DEF ServedOK
        <5>8. ~writeFailed[d] => (answered[d] \cup {e.n}) \cup rest = 1 .. received[d]
          BY <5>4, <5>5, Zenon DEF ServedOK
        <5> QED
          BY <5>1, <5>2, <5>6, <5>7, <5>8, Zenon DEF ServedOK
      <4>3. CASE ~ok
        BY <2>1, <2>2, <2>3, <3>2, <4>1, <4>3 DEF ServerInv, ServedOK
      <4> QED
        BY <4>2, <4>3
    <3> QED
      BY <3>1, <3>2
  <2> QED
    BY <2>1, <2>2, <2>3 DEF ServerInv
<1>7. ASSUME NEW c \in RpcConn, NEW id, Notify(c, id)
      PROVE  ServerInv'
  <2>1. writeFailed' = writeFailed \/ \E ok \in BOOLEAN : writeFailed' = [writeFailed EXCEPT ![c] = @ \/ ~ok]
    BY <1>7 DEF Notify, Writes
  <2>2. writeFailed' \in [RpcConn -> BOOLEAN] /\ \A d \in RpcConn : ~writeFailed'[d] => ~writeFailed[d]
    BY <2>1 DEF ServerInv
  <2>3. UNCHANGED <<run, serveAt, received, answered, execs>>
    BY <1>7 DEF Notify
  <2> QED
    BY <2>2, <2>3 DEF ServerInv, ServedOK
<1>8. ASSUME NEW c, NEW id, ProducerLeaves(c, id)
      PROVE  ServerInv'
  BY <1>8 DEF ProducerLeaves, ServerInv
<1>9. CASE StopServer
  BY <1>9 DEF StopServer, ServerInv
<1>10. CASE UNCHANGED rpcVars
  BY <1>10 DEF rpcVars, ServerInv
<1> QED
  BY <1>1, <1>2, <1>3, <1>4, <1>5, <1>6, <1>7, <1>8, <1>9, <1>10
     DEF RpcNext, ServeStep, ExecStep, ProducerStep

\* For any connections, services and messages: a connection that Stop did not cut and whose
\* writes succeeded ends with all its messages answered (server.go serveRequest, exec).
THEOREM AnsweredAlways == RpcSpec => []EndedIsAnswered
<1>1. ServerInv => EndedIsAnswered
  BY DEF ServerInv, ServedOK, EndedIsAnswered
<1> QED
  BY <1>1, ServerStart, ServerStep, PTL DEF RpcSpec

-----------------------------------------------------------------------------
(* The JSON-RPC client (RpcClient).                                        *)

\* An id of the table is one of its operation, which is past its send and not closed; one
\* that was not sent yet is not closed; and the call of eth_unsubscribe starts inside quitOnce.
ClientOK(at, waiting, closed, once) ==
    /\ DOMAIN at = ClientOp /\ closed \in [ClientOp -> BOOLEAN] /\ DOMAIN once = SubRequest
    /\ \A id \in waiting : /\ id[1] \in ClientOp /\ id \in IdsOf(id[1]) /\ ~closed[id[1]]
                           /\ at[id[1]] \notin {"idle", "send"}
    /\ \A o \in ClientOp : at[o] \in {"idle", "send"} => ~closed[o]
    /\ \A s \in SubRequest : once[s] = "free" => at[<<s, "unsub">>] = "idle"

RpcClientInv == ClientOK(opAt, respWait, opClosed, quitOnce)

LEMMA IdNamesOp == \A o : \A id \in IdsOf(o) : id[1] = o
  BY DEF IdsOf

LEMMA UnsubIsOp == \A s \in SubRequest : <<s, "unsub">> \in ClientOp /\ \A r : <<r, "req">> # <<s, "unsub">>
  BY DEF ClientOp

\* Operation o goes on from its send, and ids may leave the table.
LEMMA OpGoesOn ==
  ASSUME RpcClientInv, NEW o \in ClientOp, opAt[o] # "idle", NEW v, v \notin {"idle", "send"},
         opAt' = [opAt EXCEPT ![o] = v], respWait' \subseteq respWait,
         opClosed' = opClosed \/ opClosed' = [opClosed EXCEPT ![o] = FALSE], UNCHANGED quitOnce
  PROVE  RpcClientInv'
<1>1. ClientOK(opAt, respWait, opClosed, quitOnce)
  BY DEF RpcClientInv
<1>2. /\ DOMAIN opAt' = ClientOp /\ opClosed' \in [ClientOp -> BOOLEAN]
      /\ \A p \in ClientOp : opClosed'[p] => opClosed[p]
      /\ \A p \in ClientOp : opAt'[p] = IF p = o THEN v ELSE opAt[p]
  BY <1>1 DEF ClientOK
<1>3. \A id \in respWait' : /\ id[1] \in ClientOp /\ id \in IdsOf(id[1]) /\ ~opClosed'[id[1]]
                            /\ opAt'[id[1]] \notin {"idle", "send"}
  BY <1>1, <1>2 DEF ClientOK
<1>4. \A p \in ClientOp : opAt'[p] \in {"idle", "send"} => ~opClosed'[p]
  BY <1>1, <1>2 DEF ClientOK
<1>5. \A s \in SubRequest : quitOnce'[s] = "free" => opAt'[<<s, "unsub">>] = "idle"
  BY <1>1, <1>2, UnsubIsOp DEF ClientOK
<1> QED
  BY <1>1, <1>2, <1>3, <1>4, <1>5 DEF RpcClientInv, ClientOK

\* An operation that waits for its turn is not closed and has no id in the table.
LEMMA OpStarts ==
  ASSUME RpcClientInv, NEW o \in ClientOp, opAt[o] = "idle", opAt' = [opAt EXCEPT ![o] = "send"],
         UNCHANGED <<respWait, opClosed>>,
         \/ quitOnce' = quitOnce /\ o[2] = "req"
         \/ \E s \in SubRequest : o = <<s, "unsub">> /\ quitOnce' = [quitOnce EXCEPT ![s] = "held"]
  PROVE  RpcClientInv'
<1>1. ClientOK(opAt, respWait, opClosed, quitOnce)
  BY DEF RpcClientInv
<1>2. DOMAIN opAt' = ClientOp /\ \A p \in ClientOp : opAt'[p] = IF p = o THEN "send" ELSE opAt[p]
  BY <1>1 DEF ClientOK
<1>3. \A id \in respWait' : /\ id[1] \in ClientOp /\ id \in IdsOf(id[1]) /\ ~opClosed'[id[1]]
                            /\ opAt'[id[1]] \notin {"idle", "send"}
  BY <1>1, <1>2 DEF ClientOK
<1>4. \A p \in ClientOp : opAt'[p] \in {"idle", "send"} => ~opClosed'[p]
  BY <1>1, <1>2 DEF ClientOK
<1>5. DOMAIN quitOnce' = SubRequest /\ \A s \in SubRequest : quitOnce'[s] = "free" => opAt'[<<s, "unsub">>] = "idle"
  BY <1>1, <1>2, UnsubIsOp DEF ClientOK
<1> QED
  BY <1>1, <1>2, <1>3, <1>4, <1>5 DEF RpcClientInv, ClientOK

\* Nothing starts; the table may lose ids and a quitOnce may be done.
LEMMA TableShrinks ==
  ASSUME RpcClientInv, respWait' \subseteq respWait, UNCHANGED <<opAt, opClosed>>,
         quitOnce' = quitOnce \/ \E s \in SubRequest : quitOnce' = [quitOnce EXCEPT ![s] = "done"]
  PROVE  RpcClientInv'
  BY DEF RpcClientInv, ClientOK

LEMMA ClientOpStep ==
  ASSUME RpcClientInv, NEW o \in ClientOp, CallerStep(o)
  PROVE  RpcClientInv'
<1>1. ClientOK(opAt, respWait, opClosed, quitOnce)
  BY DEF RpcClientInv
<1>2. ASSUME NEW ok, SendEnds(o, ok), opAt[o] # "idle" PROVE RpcClientInv'
  <2>1. PICK v : v = (IF ok THEN "wait" ELSE "failed") /\ v \notin {"idle", "send"}
    OBVIOUS
  <2>2. opAt' = [opAt EXCEPT ![o] = v] /\ UNCHANGED <<respWait, opClosed, quitOnce>>
    BY <1>2, <2>1 DEF SendEnds, subVars
  <2> QED
    BY <1>2, <2>1, <2>2, OpGoesOn
<1>3. CASE SendAccepted(o)
  <2>1. /\ opAt[o] = "send" /\ respWait' = respWait \cup IdsOf(o) /\ opAt' = [opAt EXCEPT ![o] = "write"]
        /\ UNCHANGED <<opClosed, quitOnce>>
    BY <1>3 DEF SendAccepted, subVars
  <2>2. DOMAIN opAt' = ClientOp /\ \A p \in ClientOp : opAt'[p] = IF p = o THEN "write" ELSE opAt[p]
    BY <1>1, <2>1 DEF ClientOK
  <2>3. ASSUME NEW id \in respWait'
        PROVE  /\ id[1] \in ClientOp /\ id \in IdsOf(id[1]) /\ ~opClosed'[id[1]]
               /\ opAt'[id[1]] \notin {"idle", "send"}
    <3>1. CASE id \in respWait
      BY <1>1, <2>1, <2>2, <3>1 DEF ClientOK
    <3>2. CASE id \in IdsOf(o)
      BY <1>1, <2>1, <2>2, <3>2, IdNamesOp DEF ClientOK
    <3> QED
      BY <2>1, <3>1, <3>2
  <2>4. \A s \in SubRequest : quitOnce'[s] = "free" => opAt'[<<s, "unsub">>] = "idle"
    BY <1>1, <2>1, <2>2, UnsubIsOp DEF ClientOK
  <2>5. \A p \in ClientOp : opAt'[p] \in {"idle", "send"} => ~opClosed'[p]
    BY <1>1, <2>1, <2>2 DEF ClientOK
  <2> QED
    BY <1>1, <2>1, <2>2, <2>3, <2>4, <2>5 DEF RpcClientInv, ClientOK
<1>4. CASE SendGivesUp(o)
  BY <1>4, OpGoesOn DEF SendGivesUp, loopVars, subVars
<1>5. CASE Encode(o)
  BY <1>5, <1>2 DEF Encode
<1>6. CASE Reconnect(o)
  BY <1>6, <1>2, OpGoesOn DEF Reconnect, loopVars, subVars
<1>7. CASE ReconnectQuits(o)
  BY <1>7, <1>2 DEF ReconnectQuits
<1>8. CASE WaitReturns(o)
  <2>1. /\ opAt[o] = "wait" /\ UNCHANGED <<respWait, quitOnce>>
        /\ \/ UNCHANGED <<opAt, opClosed>>
           \/ \E v \in {"failed", "returned"} :
                 /\ opAt' = [opAt EXCEPT ![o] = v]
                 /\ opClosed' = opClosed \/ opClosed' = [opClosed EXCEPT ![o] = FALSE]
    BY <1>8 DEF WaitReturns, Collected, loopVars, subVars
  <2> QED
    BY <2>1, OpGoesOn, TableShrinks
<1>9. CASE TakeReconnected(o)
  BY <1>9, OpGoesOn DEF TakeReconnected, subVars
<1> QED
  BY <1>3, <1>4, <1>5, <1>6, <1>7, <1>8, <1>9 DEF CallerStep

\* closeRequestOps closes what is in the table, and empties it.
LEMMA OpsClosed ==
  ASSUME RpcClientInv, closeRequestOps, UNCHANGED <<opAt, quitOnce>>
  PROVE  RpcClientInv'
<1>1. ClientOK(opAt, respWait, opClosed, quitOnce)
  BY DEF RpcClientInv
<1>2. /\ respWait' = {} /\ opClosed' \in [ClientOp -> BOOLEAN]
      /\ \A o \in ClientOp : opClosed'[o] => opClosed[o] \/ \E id \in IdsOf(o) : id \in respWait
  BY <1>1 DEF closeRequestOps, ClientOK
<1>3. \A o \in ClientOp : opAt'[o] \in {"idle", "send"} => ~opClosed'[o]
  BY <1>1, <1>2, IdNamesOp DEF ClientOK
<1> QED
  BY <1>1, <1>2, <1>3 DEF RpcClientInv, ClientOK

\* A response takes the ids of its operation out of the table when it closes it.
LEMMA ResponseTaken ==
  ASSUME RpcClientInv, NEW o, NEW ok \in BOOLEAN, handleResponse(o, ok), UNCHANGED <<opAt, quitOnce>>
  PROVE  RpcClientInv'
<1>1. ClientOK(opAt, respWait, opClosed, quitOnce)
  BY DEF RpcClientInv
<1>2. /\ respWait' = respWait \ (IdsOf(o) \cap respWait)
      /\ \/ opClosed' = opClosed
         \/ IdsOf(o) \cap respWait # {} /\ opClosed' = [opClosed EXCEPT ![o] = TRUE]
  BY DEF handleResponse
<1>3. CASE opClosed' = opClosed
  BY <1>2, <1>3, TableShrinks
<1>4. CASE IdsOf(o) \cap respWait # {} /\ opClosed' = [opClosed EXCEPT ![o] = TRUE]
  <2>1. o \in ClientOp /\ opAt[o] \notin {"idle", "send"}
    BY <1>1, <1>4, IdNamesOp DEF ClientOK
  <2>2. opClosed' \in [ClientOp -> BOOLEAN] /\ \A p \in ClientOp : p # o => opClosed'[p] = opClosed[p]
    BY <1>1, <1>4 DEF ClientOK
  <2>3. \A id \in respWait' : id \in respWait /\ id[1] # o
    BY <1>1, <1>2 DEF ClientOK
  <2> QED
    BY <1>1, <2>1, <2>2, <2>3 DEF RpcClientInv, ClientOK
<1> QED
  BY <1>2, <1>3, <1>4

LEMMA RpcClientStep ==
  ASSUME RpcClientInv, [ClientNext]_clientVars
  PROVE  RpcClientInv'
<1>1. ASSUME NEW r \in Request, StartRpcCall(r) PROVE RpcClientInv'
  <2>1. <<r, "req">> \in ClientOp /\ <<r, "req">>[2] = "req"
    BY DEF ClientOp
  <2> QED
    BY <1>1, <2>1, OpStarts DEF StartRpcCall, loopVars, subVars
<1>2. ASSUME NEW s \in SubRequest, QuitAndUnsubscribe(s), UNCHANGED <<respWait, opClosed>> PROVE RpcClientInv'
  <2>1. opAt[<<s, "unsub">>] = "idle"
    BY <1>2 DEF RpcClientInv, ClientOK, QuitAndUnsubscribe
  <2> QED
    BY <1>2, <2>1, UnsubIsOp, OpStarts DEF QuitAndUnsubscribe
<1>3. CASE DispatchStep
  <2>1. CASE TakeResponse
    BY <2>1, ResponseTaken DEF TakeResponse
  <2>2. CASE TakeSendDone
    BY <2>2, TableShrinks DEF TakeSendDone, callVars, subVars
  <2>3. CASE TakeReadErr
    BY <2>3, OpsClosed DEF TakeReadErr, subVars
  <2>4. CASE QuitSubscription
    <3>1. \E s : quitOnce' = [quitOnce EXCEPT ![s] = "done"]
      BY <2>4 DEF QuitSubscription
    <3>2. UNCHANGED <<opAt, opClosed, respWait>>
      BY <2>4 DEF QuitSubscription, callVars, loopVars
    <3> QED
      BY <3>1, <3>2 DEF RpcClientInv, ClientOK
  <2>5. CASE handleNotification \/ DeliverDropped \/ OldReaderGone \/ SubscriptionsQuit \/ Drain
    BY <2>5, TableShrinks DEF handleNotification, DeliverDropped, OldReaderGone, SubscriptionsQuit, Drain,
       callVars, subVars
  <2> QED
    BY <1>3, <2>1, <2>2, <2>3, <2>4, <2>5 DEF DispatchStep
<1>4. CASE CloseClient
  BY <1>4, OpsClosed DEF CloseClient, subVars
<1>5. ASSUME NEW s \in SubRequest, SubStep(s) \/ ForwardSends(s) \/ Unsubscribe(s) PROVE RpcClientInv'
  <2>1. UNCHANGED <<respWait, opClosed>>
    BY <1>5 DEF SubStep, ForwardReceives, ForwardEnds, UnsubscribeCalled, UnsubscribeReturns, ForwardSends,
       Unsubscribe, callVars, loopVars
  <2>2. \/ QuitAndUnsubscribe(s) \/ UNCHANGED <<opAt, quitOnce>>
        \/ UNCHANGED opAt /\ quitOnce' = [quitOnce EXCEPT ![s] = "done"]
    BY <1>5 DEF SubStep, ForwardReceives, ForwardEnds, UnsubscribeCalled, UnsubscribeReturns, ForwardSends,
       Unsubscribe, callVars, loopVars
  <2> QED
    BY <1>2, <2>1, <2>2, TableShrinks
<1>6. CASE ReadResponse \/ ReadNotification \/ ReaderFails \/ UNCHANGED clientVars
  BY <1>6, TableShrinks DEF ReadResponse, ReadNotification, ReaderFails, clientVars, callVars, loopVars, subVars
<1> QED
  BY <1>1, <1>3, <1>4, <1>5, <1>6, ClientOpStep DEF ClientNext

\* For any calls, connections and subscriptions: dispatch never has an id of an operation
\* whose channel it has closed, so it neither closes it twice nor sends on it (client.go
\* dispatch, closeRequestOps, handleResponse).
THEOREM NeverClosedTwice == ClientSpec => []NoClosedRegistered
<1>1. ASSUME ClientInit PROVE RpcClientInv
  <2>1. /\ opAt = [o \in ClientOp |-> "idle"] /\ opClosed = [o \in ClientOp |-> FALSE]
        /\ respWait = {} /\ quitOnce = [s \in SubRequest |-> "free"]
    BY <1>1 DEF ClientInit
  <2>2. opClosed \in [ClientOp -> BOOLEAN]
    BY <2>1
  <2>3. \A s \in SubRequest : opAt[<<s, "unsub">>] = "idle"
    BY <2>1, UnsubIsOp
  <2> QED
    BY <2>1, <2>2, <2>3 DEF RpcClientInv, ClientOK
<1>2. RpcClientInv => NoClosedRegistered
  BY DEF RpcClientInv, ClientOK, NoClosedRegistered
<1> QED
  BY <1>1, <1>2, RpcClientStep, PTL DEF ClientSpec

=============================================================================
