----------------------------- MODULE NodeService -----------------------------
(***************************************************************************)
(* The service stack of a process (cluster/service/node.go): constructing  *)
(* the registered services, opening the endpoints, initialising the        *)
(* services, and taking all of it down again.  Start and Stop hold the     *)
(* lock of the node; Restart is one after the other, Wait sleeps outside   *)
(* it, and StartP2P does not take it at all, so the calls of the main      *)
(* goroutine and of the signal handler meet here.  The nodes of Node share *)
(* one data directory and one set of addresses.                            *)
(***************************************************************************)
EXTENDS Integers, Sequences, FiniteSets

CONSTANTS
    Node,
    MasterNodes,   \* the nodes with isMaster
    Configured,    \* the endpoints that have an address
    DirChoices,    \* whether a DataDir is configured
    SvcKinds,      \* types of services
    CallsOf,       \* node -> the goroutines that call it
    MaxNodeStarts, \* node -> bound on its successful starts
    MaxServices    \* node -> bound on its constructors

\* A goroutine belongs to one node; "nobody" stands for no node.
ASSUME NodeAssumption ==
    /\ "nobody" \notin Node
    /\ \A m, n \in Node : m # n => CallsOf[m] \cap CallsOf[n] = {}

VARIABLES
    dirInUse,      \* DataDir # ""; never changes
    serviceFuncs,  \* node -> kinds of the registered constructors, in order
    svcRun,        \* node -> number of the running start, 0 when stopped (n.server = nil)
    startCount,        \* node -> successful starts
    holdsLock,     \* node -> n.instanceDirLock # nil
    svcListens,     \* node -> endpoints whose listener field is set
    dirOwner,      \* the node that has the directory locked, "nobody" if none
    addrOwner,         \* endpoint -> the node that is listening there, "nobody" if none
    svcLive,          \* node -> services initialised and not stopped
    stopClosed,    \* node -> starts whose stop channel is closed
    p2pUp,         \* node -> starts whose P2P server is running
    callAt         \* goroutine -> what it is in the middle of

osVars == <<dirInUse, dirOwner, addrOwner>>
svcVars == <<serviceFuncs, svcRun, startCount, holdsLock, svcListens, svcLive, stopClosed, p2pUp, callAt, osVars>>

SvcEndpoint == {"grpc", "ipc", "http", "priv", "ws"}
Goroutine == UNION {CallsOf[n] : n \in Node}
IsMaster(n) == n \in MasterNodes

SvcInit(dirs) ==
    /\ dirInUse \in dirs
    /\ serviceFuncs = [n \in Node |-> <<>>]
    /\ svcRun = [n \in Node |-> 0] /\ startCount = [n \in Node |-> 0]
    /\ holdsLock = [n \in Node |-> FALSE]
    /\ svcListens = [n \in Node |-> {}]
    /\ dirOwner = "nobody" /\ addrOwner = [e \in SvcEndpoint |-> "nobody"]
    /\ svcLive = [n \in Node |-> {}]
    /\ stopClosed = [n \in Node |-> {}] /\ p2pUp = [n \in Node |-> {}]
    /\ callAt = [g \in Goroutine |-> <<"idle">>]

-----------------------------------------------------------------------------
RegisterService(n, kind) ==
    /\ svcRun[n] = 0 /\ Len(serviceFuncs[n]) < MaxServices[n]
    /\ serviceFuncs' = [serviceFuncs EXCEPT ![n] = Append(@, kind)]
    /\ UNCHANGED <<svcRun, startCount, holdsLock, svcListens, svcLive, stopClosed, p2pUp, callAt, osVars>>

\* The endpoints of a node in the order startRPC opens them; one without an address is
\* passed over.
RpcOrder(n) == IF IsMaster(n) THEN <<"grpc", "ipc", "http", "priv">> ELSE <<"grpc", "ws">>

\* What is open after the first k endpoints.
OpenedBy(n, k) == {RpcOrder(n)[i] : i \in 1 .. k} \cap Configured
RpcEndpoints(n) == OpenedBy(n, Len(RpcOrder(n)))

\* startIPC, startGRPC, startHTTP, startPrivHTTP, startWS: one address, taken if free.
CanOpen(e) == addrOwner[e] = "nobody"

\* stopGRPC, stopIPC, stopHTTP, stopPrivHTTP close and clear a listener that is set;
\* stopWS closes all that were ever opened.
stopListeners(n, es, used) == [e \in SvcEndpoint |-> IF e \in es /\ used[e] = n THEN "nobody" ELSE used[e]]

RpcReaches(n) == {"grpc", "ws"} \cup (IF IsMaster(n) THEN {"ipc", "http", "priv"} ELSE {})

\* Mutant: the public HTTP endpoint of a master is left open.
MutstopRPC(n, fields, used) ==
    /\ svcListens' = [svcListens EXCEPT ![n] = fields \ RpcReaches(n)]
    /\ addrOwner' = stopListeners(n, fields \cap (RpcReaches(n) \ {"http"}), used)

stopRPC(n, fields, used) ==
    /\ svcListens' = [svcListens EXCEPT ![n] = fields \ RpcReaches(n)]
    /\ addrOwner' = stopListeners(n, fields \cap RpcReaches(n), used)

\* openDataDir: a lock that anybody holds, this node included, is an error.
openDataDir(n) == dirInUse => dirOwner = "nobody"
LocksDir(n) ==
    IF dirInUse THEN dirOwner' = n /\ holdsLock' = [holdsLock EXCEPT ![n] = TRUE]
    ELSE UNCHANGED <<dirOwner, holdsLock>>

KindsOf(n) == {serviceFuncs[n][i] : i \in DOMAIN serviceFuncs[n]}
Duplicated(n) == Cardinality(KindsOf(n)) < Len(serviceFuncs[n])

\* The outcomes of Start behind openDataDir.  A constructor fails, or two services
\* have one type: nothing else has happened.
StartConstructFails(n) ==
    /\ Len(serviceFuncs[n]) > 0
    /\ UNCHANGED <<svcListens, addrOwner, svcLive, svcRun, startCount>>

\* startRPC fails at endpoint i: the master stops all, a slave whose websocket cannot be
\* opened stops the websockets only.
StartRPCFails(n, i) ==
    /\ ~Duplicated(n)
    /\ RpcOrder(n)[i] \in Configured
    /\ \A e \in OpenedBy(n, i - 1) : CanOpen(e)
    /\ LET opened == OpenedBy(n, i - 1)
           used == [e \in SvcEndpoint |-> IF e \in opened THEN n ELSE addrOwner[e]]
       IN  IF RpcOrder(n)[i] = "ws"
           THEN /\ svcListens' = [svcListens EXCEPT ![n] = @ \cup opened]
                /\ addrOwner' = stopListeners(n, {"ws"}, used)
           ELSE stopRPC(n, svcListens[n] \cup opened, used)
    /\ UNCHANGED <<svcLive, svcRun, startCount>>

\* A service fails to initialise: those of up were started before it and are stopped.
StartInitFails(n, up) ==
    /\ ~Duplicated(n)
    /\ \A e \in RpcEndpoints(n) : CanOpen(e)
    /\ up # KindsOf(n)
    /\ LET opened == RpcEndpoints(n)
       IN  stopRPC(n, svcListens[n] \cup opened, [e \in SvcEndpoint |-> IF e \in opened THEN n ELSE addrOwner[e]])
    /\ svcLive' = [svcLive EXCEPT ![n] = (@ \cup up) \ up]
    /\ UNCHANGED <<svcRun, startCount>>

StartSucceeds(n) ==
    /\ ~Duplicated(n) /\ startCount[n] < MaxNodeStarts[n]
    /\ \A e \in RpcEndpoints(n) : CanOpen(e)
    /\ LET opened == RpcEndpoints(n)
       IN  /\ svcListens' = [svcListens EXCEPT ![n] = @ \cup opened]
           /\ addrOwner' = [e \in SvcEndpoint |-> IF e \in opened THEN n ELSE addrOwner[e]]
    /\ svcLive' = [svcLive EXCEPT ![n] = KindsOf(n)]
    /\ startCount' = [startCount EXCEPT ![n] = @ + 1]
    /\ svcRun' = [svcRun EXCEPT ![n] = startCount'[n]]

\* Start; what it fails with is not kept, and a failure does not unlock the directory.
StartNode(n) ==
    /\ svcRun[n] = 0 /\ openDataDir(n)
    /\ LocksDir(n)
    /\ \/ StartConstructFails(n)
       \/ \E i \in DOMAIN RpcOrder(n) : StartRPCFails(n, i)
       \/ \E up \in SUBSET KindsOf(n) : StartInitFails(n, up)
       \/ StartSucceeds(n)
    /\ UNCHANGED <<dirInUse, serviceFuncs, stopClosed, p2pUp>>

\* Mutant: Stop returns early when a service reports an error.
MutStopNode(n, failed) ==
    /\ svcRun[n] # 0
    /\ stopRPC(n, svcListens[n], addrOwner)
    /\ svcLive' = [svcLive EXCEPT ![n] = {}]
    /\ p2pUp' = [p2pUp EXCEPT ![n] = @ \ {svcRun[n]}]
    /\ svcRun' = [svcRun EXCEPT ![n] = 0]
    /\ IF holdsLock[n] THEN dirOwner' = "nobody" ELSE UNCHANGED dirOwner
    /\ holdsLock' = [holdsLock EXCEPT ![n] = FALSE]
    /\ stopClosed' = IF failed # {} THEN stopClosed ELSE [stopClosed EXCEPT ![n] = @ \cup {svcRun[n]}]
    /\ UNCHANGED <<dirInUse, serviceFuncs, startCount>>

\* Stop: every service is stopped, and so is all the rest, whatever the services of
\* failed report.
StopNode(n, failed) ==
    /\ svcRun[n] # 0
    /\ stopRPC(n, svcListens[n], addrOwner)
    /\ svcLive' = [svcLive EXCEPT ![n] = {}]
    /\ p2pUp' = [p2pUp EXCEPT ![n] = @ \ {svcRun[n]}]
    /\ svcRun' = [svcRun EXCEPT ![n] = 0]
    /\ IF holdsLock[n] THEN dirOwner' = "nobody" ELSE UNCHANGED dirOwner
    /\ holdsLock' = [holdsLock EXCEPT ![n] = FALSE]
    /\ stopClosed' = [stopClosed EXCEPT ![n] = @ \cup {svcRun[n]}]
    /\ UNCHANGED <<dirInUse, serviceFuncs, startCount>>

-----------------------------------------------------------------------------
Calling(g, what) == callAt' = [callAt EXCEPT ![g] = what]
SvcRest == <<serviceFuncs, svcRun, startCount, holdsLock, svcListens, svcLive, stopClosed, osVars>>

\* Wait reads the stop channel under the lock and sleeps on it.
WaitNode(n, g) ==
    /\ callAt[g] = <<"idle">> /\ svcRun[n] # 0
    /\ Calling(g, <<"waits", svcRun[n]>>)
    /\ UNCHANGED <<SvcRest, p2pUp>>

Woken(n, g) ==
    /\ callAt[g][1] = "waits" /\ callAt[g][2] \in stopClosed[n]
    /\ Calling(g, <<"idle">>)
    /\ UNCHANGED <<SvcRest, p2pUp>>

\* Restart: Start follows a Stop without error, with the lock free in between.
RestartStops(n, g, failed) ==
    /\ callAt[g] = <<"idle">>
    /\ StopNode(n, failed)
    /\ Calling(g, IF failed = {} THEN <<"restarts">> ELSE <<"idle">>)

RestartStarts(n, g) ==
    /\ callAt[g] = <<"restarts">>
    /\ \/ StartNode(n)
       \/ (svcRun[n] # 0 \/ ~openDataDir(n)) /\ UNCHANGED <<SvcRest, p2pUp>>
    /\ Calling(g, <<"idle">>)

\* StartP2P reads n.server without the lock: a stopped node is a nil pointer.
StartP2P(n, g) ==
    /\ IsMaster(n) /\ callAt[g] = <<"idle">>
    /\ Calling(g, IF svcRun[n] = 0 THEN <<"panicked">> ELSE <<"p2p", svcRun[n]>>)
    /\ UNCHANGED <<SvcRest, p2pUp>>

\* The server it has read is started, also after the node was stopped.
P2PStarts(n, g) ==
    /\ callAt[g][1] = "p2p"
    /\ p2pUp' = [p2pUp EXCEPT ![n] = @ \cup {callAt[g][2]}]
    /\ Calling(g, <<"idle">>)
    /\ UNCHANGED SvcRest

SvcNext ==
    \E n \in Node :
       \/ \E kind \in SvcKinds : RegisterService(n, kind)
       \/ \E g \in CallsOf[n] :
             \/ callAt[g] = <<"idle">> /\ StartNode(n) /\ UNCHANGED callAt
             \/ \E failed \in SUBSET svcLive[n] :
                   \/ callAt[g] = <<"idle">> /\ StopNode(n, failed) /\ UNCHANGED callAt
                   \/ RestartStops(n, g, failed)
             \/ WaitNode(n, g) \/ Woken(n, g)
             \/ RestartStarts(n, g)
             \/ StartP2P(n, g) \/ P2PStarts(n, g)

SvcSpec == SvcInit(DirChoices) /\ [][SvcNext]_svcVars

-----------------------------------------------------------------------------
\* A node that does not run has left nothing behind, whichever step of a start failed
\* and whatever its services reported when they were stopped: no service goes on and no
\* address stays taken.  The exceptions are what the code leaves: the gRPC address of a
\* slave whose websocket could not be opened.  A node that runs owns the directory.
StoppedLeavesNothing ==
    \A n \in Node :
        /\ svcRun[n] = 0 =>
              /\ svcLive[n] = {}
              /\ \A e \in SvcEndpoint : addrOwner[e] = n => ~IsMaster(n) /\ e = "grpc"
        /\ svcRun[n] # 0 =>
              /\ dirInUse => dirOwner = n
              /\ svcLive[n] = KindsOf(n)
              /\ \A e \in RpcEndpoints(n) : addrOwner[e] = n

\* Nobody waits for a node that has stopped: a goroutine in Wait sleeps on the channel
\* of the start that is running, or on one that is closed, also over a Restart and when
\* a service fails to stop.
WaitersWaitForRunning ==
    \A n \in Node : \A g \in CallsOf[n] :
        callAt[g][1] = "waits" => callAt[g][2] = svcRun[n] \/ callAt[g][2] \in stopClosed[n]

\* A start that fails and a stop leave no service, address or waiter behind (node.go).
NodeSound == StoppedLeavesNothing /\ WaitersWaitForRunning

=============================================================================
