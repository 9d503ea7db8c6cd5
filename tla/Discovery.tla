----------------------------- MODULE Discovery -----------------------------
(***************************************************************************)
(* The transport of the discovery protocol (p2p/discover/udp.go): the loop *)
(* with its queue of pending replies and its timer, readLoop with the      *)
(* handlers of the four packets, and the callers, which ping a node or ask *)
(* it for neighbours and wait for the result.  Packets of the network may  *)
(* come, be lost or come late; a ping is known by its hash, the number of  *)
(* the request here.                                                       *)
(***************************************************************************)
EXTENDS Integers, FiniteSets, Sequences

CONSTANTS Remote,          \* remote nodes
          PingCaller, FindCaller,   \* callers of ping and of findnode
          TargetOf,        \* the node a caller asks
          NeighborsWanted, \* packets of neighbours until bucketSize nodes are there
          MaxPackets       \* bound: packets received

Caller == PingCaller \cup FindCaller

VARIABLES plist,       \* the queue: [from, ptype, by, tok, got]; by is the caller, or "reader"
          loopRuns, closing,
          caller,      \* [Caller -> where it is]
          reader,      \* "read", "pinged" with the node, or "done"
          bonded, pinged,  \* LastPongReceived, LastPingReceived: nodes heard of recently
          inTable,     \* nodes added through ping
          ponged,      \* nodes that sent a pong the queue waited for
          packets

udpVars == <<plist, loopRuns, closing, caller, reader, bonded, pinged, inTable, ponged, packets>>

UdpInit(heardOf) ==
    /\ plist = << >> /\ loopRuns = TRUE /\ closing = FALSE
    /\ caller = [c \in Caller |-> "idle"] /\ reader = [at |-> "read", node |-> "none"]
    /\ bonded \in SUBSET heardOf /\ pinged \in SUBSET heardOf /\ inTable = {} /\ ponged = bonded
    /\ packets = 0

\* A ping is told from the others by a number no request of the queue has.
FreshTok == CHOOSE k \in 1..Len(plist) + 1 : \A i \in DOMAIN plist : plist[i].tok # k

\* pending: the loop takes the request, or it is refused when the transport is closed.
pending(from, ptype, by) ==
    /\ loopRuns
    /\ plist' = Append(plist, [from |-> from, ptype |-> ptype, by |-> by, tok |-> FreshTok, got |-> 0])

Refused == closing /\ UNCHANGED plist

-----------------------------------------------------------------------------
(* Callers: ping, waitping and findnode *)

\* The next thing a caller waits for; findnode solicits a ping first when none came.
StartCall(c) ==
    /\ caller[c] = "idle"
    /\ LET n == TargetOf[c]
           ask(ptype, at) == \/ pending(n, ptype, c) /\ caller' = [caller EXCEPT ![c] = at]
                             \/ Refused /\ caller' = [caller EXCEPT ![c] = "answered_" \o at]
       IN  IF c \in PingCaller \/ n \notin pinged THEN ask("pong", "pong") ELSE ask("neighbors", "neighbors")
    /\ UNCHANGED <<loopRuns, closing, reader, bonded, pinged, inTable, ponged, packets>>

GoOn(c) ==
    /\ \/ /\ caller[c] = "answered_pong" /\ c \in FindCaller
          /\ \/ pending(TargetOf[c], "ping", c) /\ caller' = [caller EXCEPT ![c] = "ping"]
             \/ Refused /\ caller' = [caller EXCEPT ![c] = "answered_ping"]
       \/ /\ caller[c] = "answered_ping"
          /\ \/ pending(TargetOf[c], "neighbors", c) /\ caller' = [caller EXCEPT ![c] = "neighbors"]
             \/ Refused /\ caller' = [caller EXCEPT ![c] = "answered_neighbors"]
       \/ /\ \/ caller[c] = "answered_pong" /\ c \in PingCaller
             \/ caller[c] = "answered_neighbors"
          /\ caller' = [caller EXCEPT ![c] = "returned"] /\ UNCHANGED plist
    /\ UNCHANGED <<loopRuns, closing, reader, bonded, pinged, inTable, ponged, packets>>

Waits(c) == caller[c] \in {"pong", "ping", "neighbors"}

\* A result on errc, which has room for it.
NotifyWaiter(callers) ==
    caller' = [c \in Caller |-> IF c \in callers /\ Waits(c) THEN "answered_" \o caller[c] ELSE caller[c]]

-----------------------------------------------------------------------------
(* The loop *)

Matches(p, from, ptype) == p.from = from /\ p.ptype = ptype

\* callback: a pong must carry the hash of the request; neighbours are collected.
callback(p, tok) ==
    CASE p.ptype = "pong" -> p.tok = tok
      [] p.ptype = "ping" -> TRUE
      [] OTHER -> p.got + 1 >= NeighborsWanted

\* The iteration: a request whose callback is done is removed, and with it the
\* successor of the list element is gone, so the iteration ends there.
Completed(from, ptype, tok) ==
    {i \in DOMAIN plist : /\ Matches(plist[i], from, ptype) /\ callback(plist[i], tok)
                          /\ \A j \in 1..i - 1 : ~(Matches(plist[j], from, ptype) /\ callback(plist[j], tok))}

Dispatched(from, ptype, tok) ==
    LET done == Completed(from, ptype, tok)
        seen == [i \in DOMAIN plist |->
                   IF Matches(plist[i], from, ptype) /\ \A j \in done : i <= j
                   THEN [plist[i] EXCEPT !.got = IF @ < NeighborsWanted THEN @ + 1 ELSE @] ELSE plist[i]]
    IN  [list |-> IF done = {} THEN seen
                  ELSE LET k == CHOOSE i \in done : TRUE
                       IN  SubSeq(seen, 1, k - 1) \o SubSeq(seen, k + 1, Len(seen)),
         by |-> {plist[i].by : i \in done},
         matched |-> \E i \in DOMAIN plist : Matches(plist[i], from, ptype)]

\* gotreply, and what it does to the table: the callback of the reader's own ping adds
\* the node.
GotReply(from, ptype, tok) ==
    LET d == Dispatched(from, ptype, tok)
    IN  /\ loopRuns /\ plist' = d.list /\ NotifyWaiter(d.by)
        /\ inTable' = IF ptype = "pong" /\ "reader" \in d.by THEN inTable \cup {from} ELSE inTable

\* The timer, which resetTimeout sets for the front of the queue at every turn: only the
\* first expired request is removed, for the same reason.
Timeout ==
    /\ loopRuns /\ plist # << >> /\ plist' = Tail(plist) /\ NotifyWaiter({plist[1].by})
    /\ UNCHANGED <<loopRuns, closing, reader, bonded, pinged, inTable, ponged, packets>>

\* The requests left are not told.
MutLoopCloses ==
    /\ loopRuns /\ closing /\ loopRuns' = FALSE /\ plist' = << >>
    /\ UNCHANGED <<closing, caller, reader, bonded, pinged, inTable, ponged, packets>>

LoopCloses ==
    /\ loopRuns /\ closing /\ loopRuns' = FALSE /\ plist' = << >>
    /\ NotifyWaiter({plist[i].by : i \in DOMAIN plist})
    /\ UNCHANGED <<closing, reader, bonded, pinged, inTable, ponged, packets>>

-----------------------------------------------------------------------------
(* readLoop *)

\* A packet of a node that is not blacklisted; the others are dropped before any state
\* changes.
Received == reader.at = "read" /\ packets < MaxPackets /\ packets' = packets + 1

\* ping.handle: pong is sent and the reply dispatched; what follows is a second step.
HandlePing(n) ==
    /\ Received /\ reader' = [at |-> "pinged", node |-> n]
    /\ \/ GotReply(n, "ping", 0)
       \/ closing /\ UNCHANGED <<plist, caller, inTable>>
    /\ UNCHANGED <<loopRuns, closing, bonded, pinged, ponged>>

\* A node is added without a pong.
MutAfterPing ==
    /\ reader.at = "pinged" /\ reader' = [at |-> "read", node |-> "none"]
    /\ inTable' = inTable \cup {reader.node} /\ pinged' = pinged \cup {reader.node}
    /\ UNCHANGED <<plist, loopRuns, closing, caller, bonded, ponged, packets>>

\* Without a recent pong the node is pinged, and added when it answers.
AfterPing ==
    /\ reader.at = "pinged" /\ reader' = [at |-> "read", node |-> "none"]
    /\ IF reader.node \in bonded
       THEN inTable' = inTable \cup {reader.node} /\ UNCHANGED plist
       ELSE UNCHANGED inTable /\ (pending(reader.node, "pong", "reader") \/ Refused)
    /\ pinged' = pinged \cup {reader.node}
    /\ UNCHANGED <<loopRuns, closing, caller, bonded, ponged, packets>>

\* pong.handle: any pong counts that some request for a pong of the node waits for.
HandlePong(n) ==
    /\ Received
    /\ \/ \E tok \in 0..Len(plist) + 1 :
            /\ GotReply(n, "pong", tok)
            /\ IF Dispatched(n, "pong", tok).matched
               THEN bonded' = bonded \cup {n} /\ ponged' = ponged \cup {n}
               ELSE UNCHANGED <<bonded, ponged>>
       \/ closing /\ UNCHANGED <<plist, caller, inTable, bonded, ponged>>
    /\ UNCHANGED <<loopRuns, closing, reader, pinged>>

\* neighbors.handle.
HandleNeighbors(n) ==
    /\ Received
    /\ GotReply(n, "neighbors", 0) \/ (closing /\ UNCHANGED <<plist, caller, inTable>>)
    /\ UNCHANGED <<loopRuns, closing, reader, bonded, pinged, ponged>>

\* The time of a bond is over.
BondExpires(n) ==
    /\ n \in bonded \cup pinged /\ packets < MaxPackets /\ packets' = packets + 1
    /\ \/ bonded' = bonded \ {n} /\ UNCHANGED pinged
       \/ pinged' = pinged \ {n} /\ UNCHANGED bonded
    /\ UNCHANGED <<plist, loopRuns, closing, caller, reader, inTable, ponged>>

Close ==
    /\ ~closing /\ closing' = TRUE
    /\ UNCHANGED <<plist, loopRuns, caller, reader, bonded, pinged, inTable, ponged, packets>>

ReaderEnds ==
    /\ closing /\ reader.at = "read" /\ reader' = [at |-> "done", node |-> "none"]
    /\ UNCHANGED <<plist, loopRuns, closing, caller, bonded, pinged, inTable, ponged, packets>>

UdpNext ==
    \/ \E c \in Caller : StartCall(c) \/ GoOn(c)
    \/ \E n \in Remote : HandlePing(n) \/ HandlePong(n) \/ HandleNeighbors(n) \/ BondExpires(n)
    \/ AfterPing \/ Timeout \/ LoopCloses \/ Close \/ ReaderEnds

\* The timer fires, the loop takes a closed channel, callers and the reader go on.
UdpFairness ==
    /\ WF_udpVars(Timeout) /\ WF_udpVars(LoopCloses) /\ WF_udpVars(AfterPing)
    /\ \A c \in Caller : WF_udpVars(GoOn(c))

UdpSpec == UdpInit(Remote) /\ [][UdpNext]_udpVars /\ UdpFairness

-----------------------------------------------------------------------------

\* A node is added to the table because of its pings only after it sent a pong while a
\* ping to it was pending (udp.go:637-675).
AddedAnswered == inTable \subseteq ponged

=============================================================================
