------------------------------- MODULE MCNetwork -------------------------------
(***************************************************************************)
(* Instances of the network components, with what has to happen in the end *)
(* under the fairness of each: the p2p server and one of its connections,  *)
(* the discovery table and its UDP transport, the JSON-RPC client and      *)
(* server, and the filters behind subscriptions.  They share no variable;  *)
(* running names the one that a behaviour is about.                        *)
(***************************************************************************)
EXTENDS P2PServer, P2PPeer, NodeTable, Discovery, RpcClient, RpcServer, Filters

VARIABLE running

(* Server: n1 and n2 share an address, n2 is a boot node.                  *)
SrvNodes == {"n1", "n2", "self"}
SrvIps == [n1 |-> "ip1", n2 |-> "ip1", self |-> "ip0"]
SrvBoots == <<"n2">>

(* A connection: two versions of protocol 1, one of protocol 2; the remote *)
(* lists its capabilities in any order, one of them unknown here.          *)
PeerProtocols ==
    <<[name |-> 1, version |-> 1, length |-> 2], [name |-> 1, version |-> 2, length |-> 3],
      [name |-> 2, version |-> 1, length |-> 1]>>
PeerCap == {<<1, 1>>, <<1, 2>>, <<2, 1>>, <<3, 1>>}
PeerCaps == {c \in UNION {[1 .. n -> PeerCap] : n \in 1 .. 3} : <<1, 2>> \in Range(c)}
OneCap == {<<<<1, 2>>>>}

(* Table: d1 moves between two addresses, one of which d2 has too.         *)
TabRecords == {[id |-> "d1", ip |-> "i1"], [id |-> "d1", ip |-> "i2"], [id |-> "d2", ip |-> "i1"]}
TabBuckets == [d1 |-> 1, d2 |-> 1, me |-> 1]
TabDistances == [d1 |-> 1, d2 |-> 2, me |-> 4]
TabNursery == <<[id |-> "d1", ip |-> "i1"]>>

UdpTargets == [u1 |-> "d1", u2 |-> "d1"]

ClientKinds == [b1 |-> "batch", s1 |-> "sub"]

RpcApis ==
    <<[namespace |-> "eth", calls |-> [call |-> 1], subs |-> [logs |-> 0]],
      [namespace |-> "net", calls |-> [version |-> 0], subs |-> [n \in {} |-> 0]]>>
RpcReq(method, args) == [idOk |-> TRUE, method |-> method, args |-> args, given |-> args # <<>>]
RpcSubscribe == RpcReq(<<"eth", "subscribe">>, <<"logs">>)
RpcMessages ==
    {[batch |-> FALSE, reqs |-> <<RpcSubscribe>>],
     [batch |-> FALSE, reqs |-> <<RpcReq(<<"eth", "unsubscribe">>, <<"id">>)>>],
     [batch |-> FALSE, reqs |-> <<RpcReq(<<"a", "b", "c">>, <<>>)>>],
     [batch |-> TRUE, reqs |-> <<RpcReq(<<"eth", "call">>, <<"x">>), RpcSubscribe>>]}

FilterTopics == [f1 |-> <<1, "heads">>, f2 |-> <<1, "heads">>]

-----------------------------------------------------------------------------
networkVars == <<running, srvVars, peerVars, tabVars, udpVars, clientVars, rpcVars, filterVars>>

NetworkInit ==
    /\ running \in {"server", "peer", "table", "udp", "client", "rpc", "filters"}
    /\ SrvInit /\ TabInit /\ ClientInit /\ RpcInit /\ FiltersInit
    /\ PeerInit(IF running = "peer" THEN RemoteCaps ELSE OneCap)
    /\ UdpInit(IF running = "udp" THEN Remote ELSE {})

NetworkNext ==
    /\ UNCHANGED running
    /\ running # "server" => UNCHANGED srvVars
    /\ running # "peer" => UNCHANGED peerVars
    /\ running # "table" => UNCHANGED tabVars
    /\ running # "udp" => UNCHANGED udpVars
    /\ running # "client" => UNCHANGED clientVars
    /\ running # "rpc" => UNCHANGED rpcVars
    /\ running # "filters" => UNCHANGED filterVars
    /\ \/ running = "server" /\ SrvNext
       \/ running = "peer" /\ PeerNext
       \/ running = "table" /\ TabNext
       \/ running = "udp" /\ UdpNext
       \/ running = "client" /\ ClientNext
       \/ running = "rpc" /\ RpcNext
       \/ running = "filters" /\ FiltersNext

\* The fairness of each component where it runs.  Of several steps that a component's
\* fairness names one by one, that one of them is taken is enough, except in a connection
\* and in the filters, where a loop could starve the others.
NetworkSpec ==
    /\ NetworkInit /\ [][NetworkNext]_networkVars
    /\ WF_srvVars(running = "server" /\ (\/ LoopQuits \/ Stopped
                                         \/ \E n \in P2PNode, d \in Dir : SpinDown(n, d)))
    /\ WF_peerVars(running = "peer" /\ RunCloses) /\ WF_peerVars(running = "peer" /\ ReadMsg)
    /\ WF_peerVars(running = "peer" /\ HandlePingMsg) /\ WF_peerVars(running = "peer" /\ HandleProto)
    /\ WF_peerVars(running = "peer" /\ PingLoop)
    /\ \A p \in {1, 2} :
          WF_peerVars(running = "peer" /\ p \in DOMAIN protoAt /\ (Handler(p) \/ WriteMsg(p)))
    /\ WF_tabVars(running = "table" /\ (\/ \E l \in Lookups : LookupStep(l)
                                        \/ RefreshDone \/ EndRevalidate \/ LoopEnds))
    /\ WF_udpVars(running = "udp" /\ (Timeout \/ LoopCloses \/ AfterPing \/ \E u \in Caller : GoOn(u)))
    /\ WF_clientVars(running = "client" /\ (\/ \E o \in ClientOp : CallerStep(o)
                                            \/ DispatchStep
                                            \/ readConn \in lostConns /\ ReaderFails
                                            \/ \E r \in SubRequest : SubStep(r)))
    /\ WF_rpcVars(running = "rpc" /\ (\/ ExecStep
                                      \/ \E c \in RpcConn : \/ ServeStep(c) \/ ProducerStep(c)
                                                            \/ codecClosed[c] /\ ReadEnds(c)))
    /\ \A f \in Subscriber : WF_filterVars(running = "filters" /\ SubscriberStep(f))
    /\ WF_filterVars(running = "filters" /\ LoopStep)
    /\ WF_filterVars(running = "filters" /\ EventsLoopStep)
    /\ \A h \in Shards : WF_filterVars(running = "filters" /\ WorkerStep(h))

-----------------------------------------------------------------------------
\* Connections keep their limits and their codes: inbound peers and dynamic dials are
\* bounded (server.go, dial.go), and every message code has one handler (p2p/peer.go).
ConnectionsSound ==
    /\ running = "server" => InboundBounded /\ DynDialsBounded
    /\ running = "peer" => CodesRouted

\* What a component has begun, and its end: Stop of the p2p server and of one connection, a
\* lookup, the UDP requests, Stop of the RPC server; the loops of the RPC client and of the
\* filters have to come back to their selects over and over, save for the circular waits
\* that RpcClient and Filters name.
Begun ==
    \/ running = "server" /\ srvState = "quitting"
    \/ running = "peer" /\ closed
    \/ running = "table" /\ \E l \in UserLookup : lookup[l].at = "start"
    \/ running = "udp" /\ \E u \in Caller : Waits(u)
    \/ running = "rpc" /\ run = 0
    \/ running = "client" \/ running = "filters"

Ended ==
    \/ running = "server" /\ srvState = "stopped"
    \/ running = "peer" /\ runAt = "returned"
    \/ running = "table" /\ \A l \in UserLookup : lookup[l].at = "done"
    \/ running = "udp" /\ \A u \in Caller : caller[u] \in {"idle", "returned"}
    \/ running = "rpc" /\ \A c \in RpcConn : serveAt[c] = "ended" /\ producers[c] = {}
    \/ running = "client" /\
         (dispatchAt[1] \in {"select", "done"} \/ ReaderHoldsMessage \/ OnceHeldBySender)
    \/ running = "filters" /\ (loopAt = <<"select">> \/ CastHoldsUninstall)

\* What the network components have begun comes to its end (server.go run, p2p/peer.go
\* run, table.go lookup, udp.go loop, rpc client.go dispatch, rpc
\* server.go Stop, filter_system.go eventLoop).
BegunEnds == Begun ~> Ended

=============================================================================
