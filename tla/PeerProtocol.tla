--------------------------- MODULE PeerProtocol ---------------------------
(***************************************************************************)
(* The master's side of the peer-to-peer protocol (cluster/master,         *)
(* handle.go and peer.go): one goroutine per connection that shakes hands, *)
(* registers the peer, asks for a sync task and then serves messages; the  *)
(* requests other goroutines send through the peer and whose answers the   *)
(* serving goroutine hands over by request id; the broadcast of new tips   *)
(* through a bounded queue per peer; and QKCMasterBackend.Stop, which      *)
(* closes the synchronizer and takes the connections down.                 *)
(***************************************************************************)
EXTENDS Integers, Sequences, FiniteSets

CONSTANTS
    Conn,          \* connections the p2p server hands to the protocol
    PeerId,        \* identities of the nodes at the other end
    ConnIds,       \* who may be at the ends of the connections
    NoConn,
    NoHead,
    MaxPeerConns,
    MaxQueuedTips,
    TipSet,        \* tips the nodes announce: [td, num]
    AskedConns,    \* bound: connections that requests are sent through
    MaxRpc,        \* bound: requests sent through a connection
    MaxMsg         \* bound: messages a peer sends besides answers

ASSUME ProtoAssumption ==
    IsFiniteSet(Conn) /\ NoConn \notin Conn /\ ConnIds \subseteq [Conn -> PeerId]

VARIABLES
    handler,    \* connection -> where its goroutine is
    connId,     \* connection -> identity of its peer
    peers,      \* peerSet.peers
    peersClosed,
    rootHead,   \* Peer.head.rootTip
    msgErr,     \* Peer.handleMsgErr
    inWire,       \* connection -> messages of the peer not read yet
    cut,        \* connection -> ReadMsg fails from now on
    queuedTip,  \* connection -> tips to announce
    bcast,      \* connection -> the broadcast goroutine runs
    rpc,        \* connection -> its request: last id, chans, answer taken
    waitGroup,  \* ProtocolManager.wg
    syncer,     \* the syncer loop receives from newPeerCh and noMorePeers
    quitSync,   \* quitSync is closed
    syncLoop,   \* the synchronizer's loop receives tasks
    stopAt,     \* where QKCMasterBackend.Stop is
    msgCount

protoVars == <<handler, connId, peers, peersClosed, rootHead, msgErr, inWire, cut, queuedTip,
               bcast, rpc, waitGroup, syncer, quitSync, syncLoop, stopAt, msgCount>>

NoRpc == [last |-> 0, open |-> FALSE, chan |-> 0, asked |-> {}, got |-> 0]

ProtoInit(ids) ==
    /\ handler = [c \in Conn |-> "offered"]
    /\ connId \in ids
    /\ peers = [i \in PeerId |-> NoConn]
    /\ peersClosed = FALSE
    /\ rootHead = [c \in Conn |-> NoHead]
    /\ msgErr = [c \in Conn |-> FALSE]
    /\ inWire = [c \in Conn |-> << >>]
    /\ cut = [c \in Conn |-> FALSE]
    /\ queuedTip = [c \in Conn |-> << >>]
    /\ bcast = [c \in Conn |-> FALSE]
    /\ rpc = [c \in Conn |-> NoRpc]
    /\ waitGroup = 0
    /\ syncer = TRUE
    /\ quitSync = FALSE
    /\ syncLoop = TRUE
    /\ stopAt = "running"
    /\ msgCount = 0

Registered == {c \in Conn : peers[connId[c]] = c}

----------------------------------------------------------------------------
(* The goroutine of a connection. *)

GoTo(c, where) == handler' = [handler EXCEPT ![c] = where]

SharedUnchanged == UNCHANGED <<connId, syncer, quitSync, syncLoop, stopAt>>

\* Protocol.Run: the syncer takes the peer from newPeerCh, or quitSync is closed.
ProtocolRun(c) ==
    /\ \/ handler[c] = "offered" /\ syncer /\ GoTo(c, "accepted")
       \/ handler[c] = "offered" /\ quitSync /\ GoTo(c, "done")
    /\ UNCHANGED <<peers, peersClosed, rootHead, msgErr, inWire, cut, queuedTip, bcast, rpc, waitGroup,
                   msgCount>>
    /\ SharedUnchanged

\* wg.Add(1) comes after the rendezvous; then handle counts the peers.
EnterHandle(c) ==
    /\ handler[c] = "accepted"
    /\ IF Cardinality(Registered) >= MaxPeerConns
       THEN GoTo(c, "done") /\ UNCHANGED waitGroup
       ELSE GoTo(c, "shake") /\ waitGroup' = waitGroup + 1
    /\ UNCHANGED <<peers, peersClosed, rootHead, msgErr, inWire, cut, queuedTip, bcast, rpc, msgCount>>
    /\ SharedUnchanged

\* Handshake: both sides' Hello within handshakeTimeout, or an error.
Handshake(c) ==
    /\ handler[c] = "shake"
    /\ \/ /\ ~cut[c]
          /\ \E t \in TipSet : rootHead' = [rootHead EXCEPT ![c] = t]
          /\ GoTo(c, "register")
          /\ UNCHANGED waitGroup
       \/ /\ GoTo(c, "done")
          /\ waitGroup' = waitGroup - 1
          /\ UNCHANGED rootHead
    /\ UNCHANGED <<peers, peersClosed, msgErr, inWire, cut, queuedTip, bcast, rpc, msgCount>>
    /\ SharedUnchanged

\* Mutant: the handler removes the entry, whoever it belongs to.
MutRefusedConn(c) ==
    /\ GoTo(c, "done")
    /\ waitGroup' = waitGroup - 1
    /\ peers' = [peers EXCEPT ![connId[c]] = NoConn]
    /\ UNCHANGED <<bcast, rootHead>>

\* What a handler does when Register refuses its peer: it returns before
\* removePeer is deferred, so the entry of another connection stays.
RefusedConn(c) ==
    /\ GoTo(c, "done")
    /\ waitGroup' = waitGroup - 1
    /\ rootHead' = [rootHead EXCEPT ![c] = NoHead]
    /\ UNCHANGED <<peers, bcast>>

Register(c) ==
    /\ handler[c] = "register"
    /\ IF peersClosed \/ peers[connId[c]] # NoConn
       THEN RefusedConn(c)
       ELSE /\ peers' = [peers EXCEPT ![connId[c]] = c]
            /\ bcast' = [bcast EXCEPT ![c] = TRUE]
            /\ GoTo(c, "task")
            /\ UNCHANGED <<waitGroup, rootHead>>
    /\ UNCHANGED <<peersClosed, msgErr, inWire, cut, queuedTip, rpc, msgCount>>
    /\ SharedUnchanged

\* AddTask returns when the synchronizer's loop has received the task.
HandlerAddTask(c) ==
    /\ handler[c] = "task"
    /\ syncLoop
    /\ GoTo(c, "serve")
    /\ UNCHANGED <<peers, peersClosed, rootHead, msgErr, inWire, cut, queuedTip, bcast, rpc, waitGroup,
                   msgCount>>
    /\ SharedUnchanged

\* handle returns: the deferred removePeer drops the entry of this id, stops the
\* broadcast goroutine and disconnects; then wg.Done.  Nobody reads the Peer's
\* head, queue and pending messages any more.
LeaveHandle(c) ==
    /\ GoTo(c, "done")
    /\ peers' = [peers EXCEPT ![connId[c]] = NoConn]
    /\ bcast' = IF peers[connId[c]] = NoConn THEN bcast
                ELSE [bcast EXCEPT ![peers[connId[c]]] = FALSE]
    /\ cut' = [cut EXCEPT ![c] = TRUE]
    /\ rootHead' = [rootHead EXCEPT ![c] = NoHead]
    /\ msgErr' = [msgErr EXCEPT ![c] = FALSE]
    /\ inWire' = [inWire EXCEPT ![c] = << >>]
    /\ queuedTip' = [queuedTip EXCEPT ![c] = << >>]
    /\ waitGroup' = waitGroup - 1

\* HandleNewRootTip: total difficulty must not fall, nor the header change at
\* the same total difficulty; a higher number asks for a sync task.
\* The node's own height is not fixed: blocks arrive all the time.
NewRootTip(c, t) ==
    IF rootHead[c] # NoHead /\ (t.td < rootHead[c].td \/ (t.td = rootHead[c].td /\ t # rootHead[c]))
    THEN LeaveHandle(c)
    ELSE /\ rootHead' = [rootHead EXCEPT ![c] = t]
         /\ inWire' = [inWire EXCEPT ![c] = Tail(@)]
         /\ GoTo(c, "task") \/ GoTo(c, "serve")
         /\ UNCHANGED <<peers, bcast, cut, waitGroup, msgErr, queuedTip>>

MutDeliver(c, id) ==
    rpc' = [rpc EXCEPT ![c].chan = IF rpc[c].open THEN id ELSE @]

\* An answer goes to the channel registered for its id; without one it is
\* dropped with a warning.  The channel holds one answer.
Deliver(c, id) ==
    rpc' = [rpc EXCEPT ![c].chan = IF rpc[c].open /\ id = rpc[c].last THEN id ELSE @]

\* One round of handle's loop.  Requests of the peer are answered in place;
\* lists of transactions, minor blocks and requests for minor blocks run in
\* goroutines whose failure shows in handleMsgErr.
handleMsg(c) ==
    /\ handler[c] = "serve"
    /\ IF msgErr[c] \/ (cut[c] /\ inWire[c] = << >>)
       THEN LeaveHandle(c) /\ UNCHANGED rpc
       ELSE /\ inWire[c] # << >>
            /\ LET m == Head(inWire[c]) IN
               \/ /\ m.op = "tip"
                  /\ NewRootTip(c, m.tip)
                  /\ UNCHANGED rpc
               \/ /\ m.op = "answer"
                  /\ Deliver(c, m.id)
                  /\ inWire' = [inWire EXCEPT ![c] = Tail(@)]
                  /\ UNCHANGED <<handler, peers, bcast, cut, waitGroup, rootHead, msgErr, queuedTip>>
               \/ /\ m.op = "request"
                  /\ LeaveHandle(c)
                  /\ UNCHANGED rpc
               \/ /\ m.op = "request"
                  /\ \E e \in BOOLEAN : msgErr' = [msgErr EXCEPT ![c] = @ \/ e]
                  /\ inWire' = [inWire EXCEPT ![c] = Tail(@)]
                  /\ UNCHANGED <<handler, peers, bcast, cut, waitGroup, rootHead, rpc, queuedTip>>
    /\ UNCHANGED <<peersClosed, msgCount>>
    /\ SharedUnchanged

----------------------------------------------------------------------------
(* Requests through a peer: the Get... methods of Peer. *)

OnlyRpc == UNCHANGED <<handler, connId, peers, peersClosed, rootHead, msgErr, cut, queuedTip, bcast,
                       waitGroup, syncer, quitSync, syncLoop, stopAt, msgCount>>

\* getRpcIdWithChan and the request message, one request at a time.
SendRequest(c) ==
    /\ handler[c] \in {"task", "serve"}
    /\ c \in AskedConns /\ ~rpc[c].open /\ rpc[c].last < MaxRpc
    /\ rpc' = [rpc EXCEPT ![c] = [last |-> @.last + 1, open |-> TRUE, chan |-> 0,
                                  asked |-> @.asked \cup {@.last + 1}, got |-> 0]]
    /\ UNCHANGED inWire
    /\ OnlyRpc

\* The answer arrives, or the timer fires; both remove the channel.
TakeAnswer(c) ==
    /\ rpc[c].open
    /\ \/ rpc[c].chan # 0 /\ rpc' = [rpc EXCEPT ![c].open = FALSE, ![c].got = rpc[c].chan]
       \/ rpc' = [rpc EXCEPT ![c].open = FALSE]
    /\ UNCHANGED inWire
    /\ OnlyRpc

----------------------------------------------------------------------------
(* The peer. *)

\* The peer answers a request it has received, once, perhaps after the timer
\* of the request fired and the next request was sent.
PeerAnswers(c) ==
    /\ ~cut[c]
    /\ \E id \in rpc[c].asked :
          /\ inWire' = [inWire EXCEPT ![c] = Append(@, [op |-> "answer", id |-> id])]
          /\ rpc' = [rpc EXCEPT ![c].asked = @ \ {id}]
    /\ OnlyRpc

PeerSends(c) ==
    /\ handler[c] \in {"task", "serve"}
    /\ ~cut[c]
    /\ msgCount < MaxMsg
    /\ msgCount' = msgCount + 1
    /\ \E m \in {[op |-> "request"]} \cup {[op |-> "tip", tip |-> t] : t \in TipSet} :
          inWire' = [inWire EXCEPT ![c] = Append(@, m)]
    /\ UNCHANGED <<handler, peers, peersClosed, rootHead, msgErr, cut, queuedTip, bcast, rpc, waitGroup>>
    /\ SharedUnchanged

PeerHangsUp(c) ==
    /\ handler[c] \notin {"offered", "done"}
    /\ ~cut[c]
    /\ cut' = [cut EXCEPT ![c] = TRUE]
    /\ UNCHANGED <<handler, peers, peersClosed, rootHead, msgErr, inWire, queuedTip, bcast, rpc, waitGroup,
                   msgCount>>
    /\ SharedUnchanged

----------------------------------------------------------------------------
(* Tips to the peers. *)

OnlyTips == UNCHANGED <<handler, connId, peers, peersClosed, rootHead, msgErr, inWire, cut, rpc,
                        waitGroup, syncer, quitSync, syncLoop, stopAt>>

\* BroadcastTip for every registered peer whose head is lower; a full queue
\* drops the tip.
BroadcastTip ==
    /\ msgCount < MaxMsg
    /\ stopAt = "running"
    /\ msgCount' = msgCount + 1
    /\ \E t \in TipSet :
          queuedTip' = [c \in Conn |->
              IF /\ c \in Registered
                 /\ rootHead[c] = NoHead \/ t.num > rootHead[c].num
                 /\ Len(queuedTip[c]) < MaxQueuedTips
              THEN Append(queuedTip[c], t) ELSE queuedTip[c]]
    /\ UNCHANGED bcast
    /\ OnlyTips

\* The broadcast goroutine writes the next tip; it ends when a write fails.
BroadcastLoop(c) ==
    /\ bcast[c]
    /\ queuedTip[c] # << >>
    /\ queuedTip' = [queuedTip EXCEPT ![c] = Tail(@)]
    /\ bcast' = [bcast EXCEPT ![c] = ~cut[c]]
    /\ UNCHANGED msgCount
    /\ OnlyTips

----------------------------------------------------------------------------
(* QKCMasterBackend.Stop. *)

OnlyStop == UNCHANGED <<handler, connId, rootHead, msgErr, inWire, queuedTip, bcast, rpc, waitGroup,
                        msgCount>>

\* synchronizer.Close
StopSynchronizer ==
    /\ stopAt = "running"
    /\ syncLoop' = FALSE
    /\ stopAt' = "noMorePeers"
    /\ UNCHANGED <<syncer, quitSync, peersClosed, cut, peers>>
    /\ OnlyStop

\* The send to noMorePeers and close(quitSync).
StopSyncer ==
    /\ stopAt = "noMorePeers"
    /\ syncer
    /\ syncer' = FALSE
    /\ quitSync' = TRUE
    /\ stopAt' = "close"
    /\ UNCHANGED <<syncLoop, peersClosed, cut, peers>>
    /\ OnlyStop

MutStopPeers ==
    /\ stopAt = "close"
    /\ peersClosed' = TRUE
    /\ stopAt' = "wait"
    /\ UNCHANGED <<syncLoop, syncer, quitSync, peers, cut>>
    /\ OnlyStop

\* peerSet.Close disconnects every registered peer.
StopPeers ==
    /\ stopAt = "close"
    /\ peersClosed' = TRUE
    /\ cut' = [c \in Conn |-> cut[c] \/ c \in Registered]
    /\ stopAt' = "wait"
    /\ UNCHANGED <<syncLoop, syncer, quitSync, peers>>
    /\ OnlyStop

\* wg.Wait.
StopWaits ==
    /\ stopAt = "wait"
    /\ waitGroup = 0
    /\ stopAt' = "stopped"
    /\ UNCHANGED <<syncLoop, syncer, quitSync, peersClosed, cut, peers>>
    /\ OnlyStop

StopStep == StopSyncer \/ StopPeers \/ StopWaits

HandlerStep(c) ==
    \/ ProtocolRun(c) \/ EnterHandle(c) \/ Handshake(c) \/ Register(c)
    \/ HandlerAddTask(c) \/ handleMsg(c)

ProtoNext ==
    \/ \E c \in Conn : HandlerStep(c)
    \/ \E c \in Conn : SendRequest(c) \/ TakeAnswer(c)
    \/ \E c \in Conn : PeerAnswers(c) \/ PeerSends(c) \/ PeerHangsUp(c)
    \/ BroadcastTip
    \/ \E c \in Conn : BroadcastLoop(c)
    \/ StopSynchronizer \/ StopStep

ProtoSpec == ProtoInit(ConnIds) /\ [][ProtoNext]_protoVars

----------------------------------------------------------------------------
\* The peer set holds exactly the connections that are being served: an entry
\* has a handler that will remove it, and Stop reaches every handler.  A second
\* connection of the same peer is refused without disturbing the first
\* (handle.go:171-176, peer.go Register/Unregister).
EntryHasHandler ==
    \A c \in Conn : peers[connId[c]] = c <=> handler[c] \in {"task", "serve"}

\* A request never takes the answer to another one, although an answer may
\* arrive after its timer fired and the next request is under way
\* (peer.go getRpcIdWithChan, deleteChan; handle.go getChan).
AnswerIsForRequest == \A c \in Conn : rpc[c].got # 0 => rpc[c].got = rpc[c].last

\* When Stop has returned nobody is served any more and no tip goes out: the connections
\* that were still between the rendezvous with the syncer and Register, and for which the
\* wait group was perhaps not counted up when Stop waited for it, find the peer set closed
\* (handle.go:78-85, 131-140).
StoppedServesNobody ==
    stopAt = "stopped" => \A c \in Conn : handler[c] \notin {"task", "serve"} /\ ~bcast[c]

\* The peer set, the requests and the stop of the protocol together (handle.go, peer.go).
ProtocolSound == EntryHasHandler /\ AnswerIsForRequest /\ StoppedServesNobody

\* Stop can go on, or some handler can, until Stop has returned; the one exception is a
\* handler caught in AddTask by the synchronizer that Stop has closed before
\* (backend.go:272, handle.go:147).
StopHeldOnlyByTask ==
    stopAt \in {"noMorePeers", "close", "wait"} /\ ~ENABLED (StopStep \/ \E c \in Conn : HandlerStep(c))
        => \E c \in Conn : handler[c] = "task"

=============================================================================
