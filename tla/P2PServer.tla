----------------------------- MODULE P2PServer -----------------------------
(***************************************************************************)
(* The peer-to-peer server (p2p/server.go), its dialer (p2p/dial.go) and   *)
(* the blacklist (p2p/nodefilter/blacklist.go).  One loop, Server.run,     *)
(* owns the map of peers, the counters and the dialer; every connection    *)
(* runs its handshakes in a goroutine of its own and meets the loop twice, *)
(* at posthandshake and at addpeer; a peer runs in a goroutine until it    *)
(* ends, and then waits for the loop to take it at delpeer.                *)
(*                                                                         *)
(* conns holds the connections, at most one inbound and one dialed per     *)
(* remote node, the latter made by the dial task of the node.              *)
(***************************************************************************)
EXTENDS Integers, FiniteSets, Sequences, SequencesExt

CONSTANTS P2PNode, SelfNode,    \* node identities, the local one among them
          IpOf, WhiteIp,        \* address of a node; addresses never blacklisted
          StaticNodes, BootNodes,
          TableNode,            \* nodes a lookup may find, external
          MaxPeers, DialRatio, MaxPendingPeers, MaxActiveDialTasks,
          AdminNode, MaxAdmin, MaxConnects \* bounds: calls of the API, for which nodes; connections

Dir == {"in", "out"}

ASSUME SrvAssumption ==
    /\ SelfNode \in P2PNode /\ StaticNodes \subseteq P2PNode
    /\ DialRatio \in Nat \ {0} /\ MaxPeers \in Nat

VARIABLES srvState,      \* "running", "quitting" (quit is closed), "spindown" or "stopped"
          conns,         \* [P2PNode -> [Dir -> connection]]
          srvPeers,      \* the map of peers: the direction of the peer, or "none"
          inboundCount, trusted,
          blackIps,      \* dialoutBlacklist, without the entries whose time is over
          dialer,        \* dialstate
          runningTasks, doneTasks, queuedTasks,
          admin, connects

srvVars == <<srvState, conns, srvPeers, inboundCount, trusted, blackIps, dialer,
             runningTasks, doneTasks, queuedTasks, admin, connects>>
taskVars == <<runningTasks, doneTasks, queuedTasks>>

Unused == [stage |-> "free", flag |-> "none", trust |-> FALSE, exempt |-> FALSE, black |-> FALSE]

maxDialedConns == MaxPeers \div DialRatio
maxInboundConns == MaxPeers - maxDialedConns

newDialState ==
    [static |-> StaticNodes, dialing |-> [n \in P2PNode |-> "none"], hist |-> {},
     lookupBuf |-> << >>, lookupRunning |-> FALSE, boot |-> BootNodes]

SrvInit ==
    /\ srvState = "running"
    /\ conns = [n \in P2PNode |-> [d \in Dir |-> Unused]]
    /\ srvPeers = [n \in P2PNode |-> "none"]
    /\ inboundCount = 0 /\ trusted = {} /\ blackIps = {}
    /\ dialer = newDialState
    /\ runningTasks = {} /\ doneTasks = {} /\ queuedTasks = << >>
    /\ admin = 0 /\ connects = 0

Connected == {n \in P2PNode : srvPeers[n] # "none"}
ChkDialoutBlacklist(n) == IpOf[n] \in blackIps
LoopRuns == srvState \in {"running", "quitting"}

-----------------------------------------------------------------------------
(* The dialer.  A task is a dial, a lookup, or a wait for the history.     *)

DialTask(n, flag) == [kind |-> "dial", node |-> n, flag |-> flag]
LookupTask == [kind |-> "lookup", node |-> SelfNode, flag |-> "none"]
WaitTask == [kind |-> "wait", node |-> SelfNode, flag |-> "none"]

checkDial(d, n) ==
    /\ d.dialing[n] = "none"
    /\ srvPeers[n] = "none"
    /\ n # SelfNode
    /\ n \notin d.hist

\* addDial for each of ns, which are distinct.
AddDials(s, ns, flag) ==
    LET ok == SelectSeq(ns, LAMBDA n : checkDial(s.d, n))
    IN  [d |-> [s.d EXCEPT !.dialing = [n \in P2PNode |-> IF n \in ToSet(ok) THEN flag ELSE @[n]]],
         new |-> s.new \o [i \in DOMAIN ok |-> DialTask(ok[i], flag)],
         need |-> IF flag = "dyn" THEN s.need - Len(ok) ELSE s.need]

\* needDynDials: the peers and the dials under way both count.
needDynDials(d) ==
    maxDialedConns
    - Cardinality({n \in Connected : conns[n][srvPeers[n]].flag = "dyn"})
    - Cardinality({n \in P2PNode : d.dialing[n] = "dyn"})

\* Static nodes, in any order; the local node is removed from them.
StaticDials(s) ==
    AddDials([s EXCEPT !.d.static = @ \ {SelfNode}], SetToSeq(s.d.static), "static")

\* Without peers, and once the fallback time is over, the next boot node.
BootDial(s, late) ==
    IF ~late \/ Connected # {} \/ s.d.boot = << >> \/ s.need <= 0 THEN s
    ELSE AddDials([s EXCEPT !.d.boot = Append(Tail(@), Head(@))], <<Head(s.d.boot)>>, "dyn")

\* What the table may return; none of it is used while less than two dials are needed.
ReadRandomNodes ==
    {<< >>} \cup IF needDynDials(dialer) < 2 THEN {} ELSE {<<n>> : n \in TableNode}

\* Half of the rest from the nodes of the table.
RandomDials(s, random) ==
    AddDials(s, SubSeq(random, 1, IF s.need \div 2 < Len(random) THEN s.need \div 2 ELSE Len(random)), "dyn")

RECURSIVE BufferDials(_)
BufferDials(s) ==
    IF s.need <= 0 \/ s.d.lookupBuf = << >> THEN s
    ELSE BufferDials(AddDials([s EXCEPT !.d.lookupBuf = Tail(@)], <<Head(s.d.lookupBuf)>>, "dyn"))

Lookup(s) ==
    IF Len(s.d.lookupBuf) >= s.need \/ s.d.lookupRunning THEN s
    ELSE [s EXCEPT !.d.lookupRunning = TRUE, !.new = Append(@, LookupTask)]

newTasks(nRunning, kept, late, random) ==
    LET d0 == dialer
        s0 == [d |-> [d0 EXCEPT !.hist = kept], new |-> << >>, need |-> needDynDials(d0)]
        s1 == Lookup(BufferDials(RandomDials(BootDial(StaticDials(s0), late), random)))
    IN  IF nRunning = 0 /\ s1.new = << >> /\ kept # {} THEN [s1 EXCEPT !.new = <<WaitTask>>] ELSE s1

\* Mutant: a node stays in dialing when its dial is done.
MuttaskDone(t, found) ==
    IF t.kind = "dial" THEN [dialer EXCEPT !.hist = @ \cup {t.node}]
    ELSE IF t.kind = "lookup" THEN [dialer EXCEPT !.lookupRunning = FALSE, !.lookupBuf = @ \o found]
    ELSE dialer

\* taskDone: a dial enters the history whatever came of it.
taskDone(t, found) ==
    CASE t.kind = "dial" ->
           [dialer EXCEPT !.hist = @ \cup {t.node}, !.dialing[t.node] = "none"]
      [] t.kind = "lookup" ->
           [dialer EXCEPT !.lookupRunning = FALSE, !.lookupBuf = @ \o found]
      [] OTHER -> dialer

\* startTasks: as many as the limit leaves room for; the rest is queued.
Room(running) == MaxActiveDialTasks - Cardinality(running)
Started(running, ts) == SubSeq(ts, 1, IF Room(running) < Len(ts) THEN Room(running) ELSE Len(ts))
Rest(running, ts) == SubSeq(ts, Len(Started(running, ts)) + 1, Len(ts))

-----------------------------------------------------------------------------
(* Steps of the loop *)

\* The ticker: scheduleTasks, then periodicallyUnblacklist, which takes the peers of a
\* blacklisted address out of the map.  Their goroutines go on.
Tick ==
    /\ LoopRuns
    /\ LET r1 == runningTasks \cup ToSet(Started(runningTasks, queuedTasks))
           q1 == Rest(runningTasks, queuedTasks)
       IN  IF Room(r1) <= 0
           THEN runningTasks' = r1 /\ queuedTasks' = q1 /\ UNCHANGED dialer
           ELSE \E kept \in SUBSET dialer.hist, late \in {FALSE, Connected = {}},
                   random \in ReadRandomNodes :
                  \E s \in {newTasks(Cardinality(r1) + Len(q1), kept, late, random)} :
                      /\ dialer' = s.d
                      /\ runningTasks' = r1 \cup ToSet(Started(r1, s.new))
                      /\ queuedTasks' = q1 \o Rest(r1, s.new)
    /\ srvPeers' = [n \in P2PNode |-> IF ChkDialoutBlacklist(n) THEN "none" ELSE srvPeers[n]]
    /\ UNCHANGED <<srvState, conns, inboundCount, trusted, blackIps, doneTasks, admin, connects>>

\* A finished task.
TakeDone(t) ==
    /\ LoopRuns /\ t \in doneTasks
    /\ \E found \in {<< >>} \cup IF t.kind = "lookup" THEN {<<n>> : n \in TableNode} ELSE {} :
          dialer' = taskDone(t, found)
    /\ runningTasks' = runningTasks \ {t} /\ doneTasks' = doneTasks \ {t}
    /\ UNCHANGED <<srvState, conns, srvPeers, inboundCount, trusted, blackIps, queuedTasks, admin, connects>>

AddStatic(n) == dialer' = [dialer EXCEPT !.static = @ \cup {n}]
                /\ UNCHANGED <<conns, trusted>>

\* Disconnect is taken by Peer.run, or the peer has ended already.
Disconnected(cs, n) ==
    IF srvPeers[n] = "none" \/ cs[n][srvPeers[n]].stage # "peer" THEN cs
    ELSE [cs EXCEPT ![n][srvPeers[n]].stage = "ended"]

RemoveStatic(n) == /\ dialer' = [dialer EXCEPT !.static = @ \ {n}, !.hist = @ \ {n}]
                   /\ conns' = Disconnected(conns, n)
                   /\ UNCHANGED trusted

Trust(n, val) ==
    /\ trusted' = IF val THEN trusted \cup {n} ELSE trusted \ {n}
    /\ conns' = IF srvPeers[n] = "none" THEN conns ELSE [conns EXCEPT ![n][srvPeers[n]].trust = val]
    /\ UNCHANGED dialer

Api(n) ==
    /\ LoopRuns /\ admin < MaxAdmin /\ admin' = admin + 1
    /\ AddStatic(n) \/ RemoveStatic(n) \/ Trust(n, TRUE) \/ Trust(n, FALSE)
    /\ UNCHANGED <<srvState, srvPeers, inboundCount, blackIps, taskVars, connects>>

\* encHandshakeChecks.
encHandshakeChecks(n, d, c) ==
    /\ c.trust \/ c.flag = "static" \/ Cardinality(Connected) < MaxPeers
    /\ c.trust \/ d # "in" \/ inboundCount < maxInboundConns
    /\ srvPeers[n] = "none"
    /\ n # SelfNode

\* A connection set up by a dial task ends its task.
FinishTask(n, d) ==
    doneTasks' = IF d = "in" THEN doneTasks
                 ELSE doneTasks \cup {t \in runningTasks : t.kind = "dial" /\ t.node = n}

PostHandshake(n, d) ==
    /\ LoopRuns /\ conns[n][d].stage = "enc"
    /\ LET c == [conns[n][d] EXCEPT !.trust = @ \/ n \in trusted]
       IN  IF encHandshakeChecks(n, d, c)
           THEN conns' = [conns EXCEPT ![n][d] = [c EXCEPT !.stage = "proto"]] /\ UNCHANGED doneTasks
           ELSE conns' = [conns EXCEPT ![n][d] = Unused] /\ FinishTask(n, d)
    /\ UNCHANGED <<srvState, srvPeers, inboundCount, trusted, blackIps, dialer, runningTasks, queuedTasks,
                   admin, connects>>

\* The second checks are left out.
MutprotoHandshakeChecks(n, d, c) == srvPeers[n] = "none"

\* protoHandshakeChecks, for a node that runs one of the protocols.
protoHandshakeChecks(n, d, c) == encHandshakeChecks(n, d, c)

\* A blacklisted node passes the checks: nothing is started, and SetupConn is told that
\* all is well.
AddPeer(n, d) ==
    /\ LoopRuns /\ conns[n][d].stage = "proto"
    /\ LET ok == protoHandshakeChecks(n, d, conns[n][d]) /\ ~ChkDialoutBlacklist(n)
           in == d = "in"
       IN  \/ /\ ok
              /\ conns' = [conns EXCEPT ![n][d].stage = "peer", ![n][d].exempt = conns[n][d].trust]
              /\ srvPeers' = [srvPeers EXCEPT ![n] = d]
              /\ inboundCount' = inboundCount + IF in THEN 1 ELSE 0
           \/ /\ conns' = [conns EXCEPT ![n][d] = Unused] \* refused, or no matching protocol
              /\ UNCHANGED <<srvPeers, inboundCount>>
    /\ FinishTask(n, d)
    /\ UNCHANGED <<srvState, trusted, blackIps, dialer, runningTasks, queuedTasks, admin, connects>>

AddDialoutBlacklist(n, c) ==
    IF c.black /\ IpOf[n] \notin WhiteIp THEN blackIps \cup {IpOf[n]} ELSE blackIps

\* delpeer removes the identity from the map, whichever connection has it now.
DelPeer(n, d) ==
    /\ LoopRuns /\ conns[n][d].stage = "ended"
    /\ blackIps' = AddDialoutBlacklist(n, conns[n][d])
    /\ srvPeers' = [srvPeers EXCEPT ![n] = "none"]
    /\ inboundCount' = inboundCount - IF d = "in" THEN 1 ELSE 0
    /\ conns' = [conns EXCEPT ![n][d] = Unused]
    /\ UNCHANGED <<srvState, trusted, dialer, taskVars, admin, connects>>

-----------------------------------------------------------------------------
(* Stopping *)

Stop == /\ srvState = "running" /\ srvState' = "quitting"
        /\ UNCHANGED <<conns, srvPeers, inboundCount, trusted, blackIps, dialer, taskVars, admin, connects>>

\* The variables of the loop are gone with it.
LoopGone ==
    /\ inboundCount' = 0 /\ trusted' = {} /\ dialer' = newDialState
    /\ runningTasks' = {} /\ doneTasks' = {} /\ queuedTasks' = << >>
    /\ UNCHANGED <<srvPeers, blackIps, admin, connects>>

\* The peers are left running.
MutLoopQuits == /\ srvState = "quitting" /\ srvState' = "spindown"
                /\ LoopGone /\ UNCHANGED conns

\* The loop leaves the select and disconnects every peer of the map.
LoopQuits ==
    /\ srvState = "quitting" /\ srvState' = "spindown"
    /\ conns' = [n \in P2PNode |-> Disconnected(conns, n)[n]]
    /\ LoopGone

SpinDown(n, d) ==
    /\ srvState = "spindown" /\ Connected # {} /\ conns[n][d].stage = "ended"
    /\ srvPeers' = [srvPeers EXCEPT ![n] = "none"]
    /\ conns' = [conns EXCEPT ![n][d] = Unused]
    /\ UNCHANGED <<srvState, inboundCount, trusted, blackIps, dialer, taskVars, admin, connects>>

Stopped ==
    /\ srvState = "spindown" /\ Connected = {} /\ srvState' = "stopped"
    /\ UNCHANGED <<conns, srvPeers, inboundCount, trusted, blackIps, dialer, taskVars, admin, connects>>

-----------------------------------------------------------------------------
(* The other goroutines *)

\* listenLoop: a slot for the handshakes, then SetupConn.
Accept(n) ==
    /\ srvState = "running" /\ connects < MaxConnects
    /\ Cardinality({m \in P2PNode : conns[m]["in"].stage \in {"enc", "proto"}}) < MaxPendingPeers
    /\ conns[n]["in"].stage = "free" /\ n # SelfNode
    /\ conns' = [conns EXCEPT ![n]["in"].stage = "enc"] /\ connects' = connects + 1
    /\ UNCHANGED <<srvState, srvPeers, inboundCount, trusted, blackIps, dialer, taskVars, admin>>

\* Do of a dial task: the dial fails, or SetupConn begins unless the server is stopped.
DoDial(t) ==
    /\ t \in runningTasks \ doneTasks /\ t.kind = "dial" /\ conns[t.node]["out"].stage \notin {"enc", "proto"}
    /\ \/ /\ srvState = "running" /\ connects < MaxConnects /\ conns[t.node]["out"].stage = "free"
          /\ conns' = [conns EXCEPT ![t.node]["out"] = [Unused EXCEPT !.stage = "enc", !.flag = t.flag]]
          /\ connects' = connects + 1 /\ UNCHANGED doneTasks
       \/ doneTasks' = doneTasks \cup {t} /\ UNCHANGED <<conns, connects>>
    /\ UNCHANGED <<srvState, srvPeers, inboundCount, trusted, blackIps, dialer, runningTasks, queuedTasks, admin>>

DoOther(t) ==
    /\ t \in runningTasks \ doneTasks /\ t.kind # "dial"
    /\ doneTasks' = doneTasks \cup {t}
    /\ UNCHANGED <<srvState, conns, srvPeers, inboundCount, trusted, blackIps, dialer, runningTasks, queuedTasks,
                   admin, connects>>

\* A handshake fails, the identity is not the expected one, or the server stopped.
SetupFails(n, d) ==
    /\ conns[n][d].stage \in {"enc", "proto"}
    /\ conns' = [conns EXCEPT ![n][d] = Unused] /\ FinishTask(n, d)
    /\ UNCHANGED <<srvState, srvPeers, inboundCount, trusted, blackIps, dialer, runningTasks, queuedTasks, admin, connects>>

\* Peer.run returns; some errors of the protocol are to blacklist the address.
PeerEnds(n, d) ==
    /\ conns[n][d].stage = "peer"
    /\ \E black \in BOOLEAN : conns' = [conns EXCEPT ![n][d].stage = "ended", ![n][d].black = black]
    /\ UNCHANGED <<srvState, srvPeers, inboundCount, trusted, blackIps, dialer, taskVars, admin, connects>>

\* The time of an entry is over.
Unblacklist(ip) ==
    /\ ip \in blackIps /\ blackIps' = blackIps \ {ip}
    /\ UNCHANGED <<srvState, conns, srvPeers, inboundCount, trusted, dialer, taskVars, admin, connects>>

SrvNext ==
    \/ Tick \/ Stop \/ LoopQuits \/ Stopped
    \/ \E t \in runningTasks : TakeDone(t) \/ DoDial(t) \/ DoOther(t)
    \/ \E n \in AdminNode : Api(n)
    \/ \E n \in P2PNode : Accept(n)
    \/ \E n \in P2PNode, d \in Dir :
          PostHandshake(n, d) \/ AddPeer(n, d) \/ DelPeer(n, d) \/ SpinDown(n, d) \/ SetupFails(n, d) \/ PeerEnds(n, d)
    \/ \E ip \in blackIps : Unblacklist(ip)

\* The loop leaves its select for a closed quit, and takes the peers that wait for it.
SrvFairness ==
    /\ WF_srvVars(LoopQuits) /\ WF_srvVars(Stopped)
    /\ \A n \in P2PNode, d \in Dir : WF_srvVars(SpinDown(n, d))

SrvSpec == SrvInit /\ [][SrvNext]_srvVars /\ SrvFairness

-----------------------------------------------------------------------------
\* The inbound peers that run and were not trusted when they were added never exceed
\* maxInboundConns, although the peer set changes between the two handshakes of a
\* connection and the ticker drops peers of a blacklisted address from the map while
\* they run (server.go:662-670, 815, 779).
InboundBounded ==
    Cardinality({n \in P2PNode : /\ conns[n]["in"].stage \in {"peer", "ended"}
                                 /\ ~conns[n]["in"].exempt}) <= maxInboundConns

\* The dynamic dials under way and the peers that came from them never exceed
\* maxDialedConns, and a node is being dialed exactly while a task for it is queued,
\* running or done but not yet taken (dial.go:180-191, 265-291).
DynDialsBounded ==
    LET tasks == runningTasks \cup ToSet(queuedTasks)
    IN  /\ Cardinality({n \in P2PNode : \/ dialer.dialing[n] = "dyn"
                                        \/ srvPeers[n] = "out" /\ conns[n]["out"].flag = "dyn"})
              <= maxDialedConns
        /\ \A n \in P2PNode : dialer.dialing[n] # "none" <=> \E t \in tasks : t.kind = "dial" /\ t.node = n

=============================================================================
