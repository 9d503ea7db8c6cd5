----------------------------- MODULE RpcClient -----------------------------
(***************************************************************************)
(* The JSON-RPC client over a stream connection (rpc/client.go): the       *)
(* goroutines that call, the dispatch loop that owns the tables of waiting *)
(* requests and subscriptions, the read loop of the present connection,    *)
(* the forwarder of every subscription, and Close.                         *)
(*                                                                         *)
(* Unbuffered channels are joint steps of the two sides.  A message is a   *)
(* request id; a notification names its subscription.  The server, and     *)
(* the connection, which may break at any time, are the environment.       *)
(***************************************************************************)
EXTENDS Naturals, Sequences, FiniteSets

CONSTANTS
  Request,        \* the calls made on the client
  KindOf,         \* [Request -> {"call", "batch", "sub"}]
  Timed,          \* the requests whose context has a deadline
  MaxClientBuffer,\* maxClientSubscriptionBuffer
  MaxConns,       \* bound: connections ever made
  MaxNotes        \* bound: notifications the server sends

\* The operation a request issues, and the eth_unsubscribe call of a subscription.
SubRequest == {r \in Request : KindOf[r] = "sub"}
ClientOp == (Request \X {"req"}) \cup (SubRequest \X {"unsub"})
IdsOf(o) == IF o[2] = "req" /\ KindOf[o[1]] = "batch" THEN {<<o, 1>>, <<o, 2>>} ELSE {<<o, 1>>}
IsSubscribe(o) == o[2] = "req" /\ o[1] \in SubRequest
NoOp == <<"none", "none">>

VARIABLES
  opAt,      \* [ClientOp -> where its goroutine is]
  opResp,    \* [ClientOp -> the ids whose responses are in op.resp]
  opClosed,  \* [ClientOp -> op.resp is closed]
  opErr,     \* [ClientOp -> op.err is set]
  gotten,    \* [ClientOp -> the ids whose responses were received]
  respWait,  \* the ids of the active requests
  lastOp,    \* the operation that holds the send lock, or NoOp
  sendDone,  \* the buffered outcome of the last send
  dispatchAt,\* where the dispatch loop is
  writeConn, \* the connection written to; 0 is nil
  readConn,  \* the connection of the dispatch loop and its reader
  newConn,   \* the connection made by reconnect and not yet handed over
  lostConns, \* the connections closed by either side
  readAt,    \* the read loop
  served,    \* requests on their way to or at the server: <<connection, operation>>
  liveSubs,  \* c.subs
  quitOnce,  \* [SubRequest -> state of sub.quitOnce: "free", "held", "done"]
  forwarder, \* [SubRequest -> the goroutine of sub.start]
  queued,    \* [SubRequest -> notifications in forward's buffer]
  unsubscribing, \* [SubRequest -> the user's call of Unsubscribe]
  noted      \* notifications sent so far

callVars == <<opAt, opResp, opClosed, opErr, gotten>>
loopVars == <<respWait, lastOp, sendDone, dispatchAt>>
connVars == <<writeConn, readConn, newConn, lostConns, readAt, served>>
subVars == <<liveSubs, quitOnce, forwarder, queued, unsubscribing, noted>>
clientVars == <<callVars, loopVars, connVars, subVars>>

ClientInit ==
  /\ opAt = [o \in ClientOp |-> "idle"]
  /\ opResp = [o \in ClientOp |-> {}] /\ gotten = [o \in ClientOp |-> {}]
  /\ opClosed = [o \in ClientOp |-> FALSE] /\ opErr = [o \in ClientOp |-> FALSE]
  /\ respWait = {} /\ lastOp = NoOp /\ sendDone = <<>> /\ dispatchAt = <<"select">>
  /\ writeConn = 1 /\ readConn = 1 /\ newConn = 0 /\ lostConns = {}
  /\ readAt = <<"decode">> /\ served = {}
  /\ liveSubs = {} /\ noted = 0
  /\ quitOnce = [s \in SubRequest |-> "free"] /\ forwarder = [s \in SubRequest |-> "none"]
  /\ queued = [s \in SubRequest |-> 0] /\ unsubscribing = [s \in SubRequest |-> "no"]

ClientClosing == dispatchAt[1] \in {"quit", "drain", "done"}
DidClose == dispatchAt[1] = "done"

-----------------------------------------------------------------------------
(* The calling goroutine: CallContext, BatchCallContext, Subscribe.        *)

StartRpcCall(r) ==
  /\ opAt[<<r, "req">>] = "idle"
  /\ opAt' = [opAt EXCEPT ![<<r, "req">>] = "send"]
  /\ UNCHANGED <<opResp, opClosed, opErr, gotten, loopVars, connVars, subVars>>

\* send: dispatch takes the operation, which is the send lock, and registers its ids.
SendAccepted(o) ==
  /\ opAt[o] = "send" /\ dispatchAt = <<"select">> /\ lastOp = NoOp
  /\ lastOp' = o
  /\ respWait' = respWait \cup IdsOf(o)
  /\ opAt' = [opAt EXCEPT ![o] = "write"]
  /\ UNCHANGED <<opResp, opClosed, opErr, gotten, sendDone, dispatchAt, connVars, subVars>>

\* send gives up: its context is done, or the client is closing.
SendGivesUp(o) ==
  /\ opAt[o] = "send"
  /\ ClientClosing \/ (o[2] = "req" /\ o[1] \in Timed)
  /\ opAt' = [opAt EXCEPT ![o] = "failed"]
  /\ UNCHANGED <<opResp, opClosed, opErr, gotten, loopVars, connVars, subVars>>

SendEnds(o, ok) ==
  /\ sendDone' = Append(sendDone, ok)
  /\ opAt' = [opAt EXCEPT ![o] = IF ok THEN "wait" ELSE "failed"]
  /\ UNCHANGED <<opResp, opClosed, opErr, gotten, respWait, lastOp, dispatchAt, subVars>>

\* write on the connection there is.  A write that fails may have reached the server.
Encode(o) ==
  /\ opAt[o] = "write" /\ writeConn # 0
  /\ \E ok \in BOOLEAN, arrives \in BOOLEAN :
       /\ ok => writeConn \notin lostConns /\ arrives
       /\ served' = IF arrives /\ writeConn \notin lostConns
                    THEN served \cup {<<writeConn, o>>} ELSE served
       /\ writeConn' = IF ok THEN writeConn ELSE 0
       /\ SendEnds(o, ok)
  /\ UNCHANGED <<readConn, newConn, lostConns, readAt>>

\* The write before failed: connectFunc makes a new connection, or fails.
Reconnect(o) ==
  /\ opAt[o] = "write" /\ writeConn = 0
  /\ \/ /\ readConn < MaxConns
        /\ newConn' = readConn + 1
        /\ opAt' = [opAt EXCEPT ![o] = "reconnect"]
        /\ UNCHANGED <<opResp, opClosed, opErr, gotten, loopVars, subVars>>
     \/ newConn' = newConn /\ SendEnds(o, FALSE)
  /\ UNCHANGED <<writeConn, readConn, lostConns, readAt, served>>

\* The client quit before it took the new connection.
ReconnectQuits(o) ==
  /\ opAt[o] = "reconnect" /\ DidClose
  /\ newConn' = 0
  /\ SendEnds(o, FALSE)
  /\ UNCHANGED <<writeConn, readConn, lostConns, readAt, served>>

\* op.wait: a buffered response first, then the end of the channel, or the context.  An
\* operation that nobody waits for and dispatch has forgotten is garbage.
Collected(o) ==
  /\ opResp' = [opResp EXCEPT ![o] = {}] /\ gotten' = [gotten EXCEPT ![o] = {}]
  /\ opClosed' = [opClosed EXCEPT ![o] = FALSE] /\ opErr' = [opErr EXCEPT ![o] = FALSE]
WaitReturns(o) ==
  /\ opAt[o] = "wait"
  /\ \/ \E id \in opResp[o] :
          IF ~opErr[o] /\ gotten[o] \cup {id} # IdsOf(o)
          THEN /\ opResp' = [opResp EXCEPT ![o] = @ \ {id}]
               /\ gotten' = [gotten EXCEPT ![o] = @ \cup {id}]
               /\ UNCHANGED <<opAt, opClosed, opErr>>
          ELSE /\ opAt' = [opAt EXCEPT ![o] = IF opErr[o] THEN "failed" ELSE "returned"]
               /\ Collected(o)
     \/ /\ opResp[o] = {} /\ opClosed[o]
        /\ opAt' = [opAt EXCEPT ![o] = IF opErr[o] THEN "failed" ELSE "returned"]
        /\ Collected(o)
     \/ /\ o[2] = "req" /\ o[1] \in Timed
        /\ opAt' = [opAt EXCEPT ![o] = "failed"]
        /\ UNCHANGED <<opResp, gotten, opClosed, opErr>>
  /\ UNCHANGED <<loopVars, connVars, subVars>>

-----------------------------------------------------------------------------
(* The read loop and the server behind it.                                 *)

\* readMessage: the array of responses to one operation, or one notification.
ReadResponse ==
  /\ readAt = <<"decode">> /\ readConn \notin lostConns
  /\ \E q \in served : /\ q[1] = readConn
                       /\ readAt' = <<"resp", q[2]>>
                       /\ served' = served \ {q}
  /\ UNCHANGED <<callVars, loopVars, writeConn, readConn, newConn, lostConns, subVars>>

ReadNotification ==
  /\ readAt = <<"decode">> /\ readConn \notin lostConns /\ noted < MaxNotes
  /\ \E s \in SubRequest : forwarder[s] # "none" /\ readAt' = <<"note", s>>
  /\ noted' = noted + 1
  /\ UNCHANGED <<callVars, loopVars, writeConn, readConn, newConn, lostConns, served,
                 liveSubs, quitOnce, forwarder, queued, unsubscribing>>

\* The connection is closed here, or broken by the other side, or does not parse.
ReaderFails ==
  /\ readAt = <<"decode">>
  /\ readAt' = <<"err">>
  /\ lostConns' = lostConns \cup {readConn}
  /\ UNCHANGED <<callVars, loopVars, writeConn, readConn, newConn, served, subVars>>

-----------------------------------------------------------------------------
(* dispatch.                                                               *)

\* handleResponse: forward to the caller, or start the subscription it answers.
handleResponse(o, ok) ==
  LET known == IdsOf(o) \cap respWait
      starts == known # {} /\ IsSubscribe(o) /\ ok
  IN  /\ respWait' = respWait \ known
      /\ opResp' = IF IsSubscribe(o) THEN opResp ELSE [opResp EXCEPT ![o] = @ \cup known]
      /\ opClosed' = IF IsSubscribe(o) /\ known # {} THEN [opClosed EXCEPT ![o] = TRUE] ELSE opClosed
      /\ opErr' = IF IsSubscribe(o) /\ known # {} /\ ~ok THEN [opErr EXCEPT ![o] = TRUE] ELSE opErr
      /\ liveSubs' = IF starts THEN liveSubs \cup {o[1]} ELSE liveSubs
      /\ forwarder' = IF starts THEN [forwarder EXCEPT ![o[1]] = "runs"] ELSE forwarder

TakeResponse ==
  /\ dispatchAt = <<"select">> /\ readAt[1] = "resp"
  /\ \E ok \in BOOLEAN : handleResponse(readAt[2], ok)
  /\ readAt' = <<"decode">>
  /\ UNCHANGED <<opAt, gotten, lastOp, sendDone, dispatchAt, writeConn, readConn, newConn, lostConns,
                 served, quitOnce, queued, unsubscribing, noted>>

\* handleNotification: an unknown subscription is dropped, a known one is delivered to.
handleNotification ==
  /\ dispatchAt = <<"select">> /\ readAt[1] = "note"
  /\ readAt' = <<"decode">>
  /\ dispatchAt' = IF readAt[2] \in liveSubs THEN <<"deliver", readAt[2]>> ELSE dispatchAt
  /\ UNCHANGED <<callVars, respWait, lastOp, sendDone, writeConn, readConn, newConn, lostConns,
                 served, subVars>>

\* deliver finds the subscription's quit channel closed.
MutDeliverDropped ==
  /\ dispatchAt[1] = "deliver" /\ quitOnce[dispatchAt[2]] = "done"
  /\ dispatchAt' = <<"select">>
  /\ UNCHANGED <<callVars, respWait, lastOp, sendDone, connVars, subVars>>
DeliverDropped ==
  /\ dispatchAt[1] = "deliver" /\ quitOnce[dispatchAt[2]] # "free"
  /\ dispatchAt' = <<"select">>
  /\ UNCHANGED <<callVars, respWait, lastOp, sendDone, connVars, subVars>>

\* A send is over: a failed one is forgotten, and the send lock is free again.
TakeSendDone ==
  /\ dispatchAt = <<"select">> /\ sendDone # <<>>
  /\ respWait' = IF Head(sendDone) THEN respWait ELSE respWait \ IdsOf(lastOp)
  /\ sendDone' = Tail(sendDone) /\ lastOp' = NoOp
  /\ UNCHANGED <<callVars, dispatchAt, connVars, subVars>>

\* reconnect hands over the new connection.  If the old reader runs, its connection is
\* closed and dispatch waits for its error, and for nothing else.
TakeReconnected(o) ==
  /\ dispatchAt = <<"select">> /\ opAt[o] = "reconnect"
  /\ opAt' = [opAt EXCEPT ![o] = "write"]
  /\ writeConn' = newConn
  /\ IF readAt # <<"dead">>
     THEN /\ lostConns' = lostConns \cup {readConn}
          /\ dispatchAt' = <<"awaitErr">>
          /\ UNCHANGED <<readConn, newConn, readAt>>
     ELSE /\ readConn' = newConn /\ newConn' = 0 /\ readAt' = <<"decode">>
          /\ UNCHANGED <<lostConns, dispatchAt>>
  /\ UNCHANGED <<opResp, opClosed, opErr, gotten, respWait, lastOp, sendDone, served, subVars>>

OldReaderGone ==
  /\ dispatchAt = <<"awaitErr">> /\ readAt = <<"err">>
  /\ readConn' = newConn /\ newConn' = 0 /\ readAt' = <<"decode">>
  /\ dispatchAt' = <<"select">>
  /\ UNCHANGED <<callVars, respWait, lastOp, sendDone, writeConn, lostConns, served, subVars>>

\* closeRequestOps, first loop: every waiting operation is told, and forgotten.
MutcloseRequestOps ==
  LET ops == {o \in ClientOp : IdsOf(o) \cap respWait # {}}
  IN  /\ respWait' = {id \in respWait : id[2] = 2}
      /\ opErr' = [o \in ClientOp |-> opErr[o] \/ o \in ops]
      /\ opClosed' = [o \in ClientOp |-> opClosed[o] \/ o \in ops]
closeRequestOps ==
  LET ops == {o \in ClientOp : IdsOf(o) \cap respWait # {}}
  IN  /\ respWait' = {}
      /\ opErr' = [o \in ClientOp |-> opErr[o] \/ o \in ops]
      /\ opClosed' = [o \in ClientOp |-> opClosed[o] \/ o \in ops]

\* The read loop ends: everybody waiting is told.
TakeReadErr ==
  /\ dispatchAt = <<"select">> /\ readAt = <<"err">>
  /\ closeRequestOps
  /\ readAt' = <<"dead">>
  /\ dispatchAt' = <<"lost">>
  /\ UNCHANGED <<opAt, opResp, gotten, lastOp, sendDone, writeConn, readConn, newConn, lostConns,
                 served, subVars>>

\* Close meets dispatch: closing is closed first, then everybody waiting is told.  Close
\* itself returns when didClose is closed.
CloseClient ==
  /\ dispatchAt = <<"select">>
  /\ closeRequestOps
  /\ dispatchAt' = <<"quit">>
  /\ UNCHANGED <<opAt, opResp, gotten, lastOp, sendDone, connVars, subVars>>

\* closeRequestOps, second loop: quitWithError of every subscription.  A quitOnce that
\* another goroutine is inside of is waited for.
QuitSubscription ==
  /\ dispatchAt[1] \in {"lost", "quit"}
  /\ \E s \in liveSubs :
       /\ quitOnce[s] # "held"
       /\ liveSubs' = liveSubs \ {s}
       /\ quitOnce' = [quitOnce EXCEPT ![s] = "done"]
  /\ UNCHANGED <<callVars, loopVars, connVars, forwarder, queued, unsubscribing, noted>>

SubscriptionsQuit ==
  /\ dispatchAt[1] \in {"lost", "quit"} /\ liveSubs = {}
  /\ lostConns' = lostConns \cup {readConn}
  /\ dispatchAt' = IF dispatchAt = <<"lost">> THEN <<"select">>
                   ELSE IF readAt # <<"dead">> THEN <<"drain">> ELSE <<"done">>
  /\ UNCHANGED <<callVars, respWait, lastOp, sendDone, writeConn, readConn, newConn, readAt, served,
                 subVars>>

\* The deferred function empties the read channels until the reader is dead.
Drain ==
  /\ dispatchAt = <<"drain">> /\ readAt[1] \in {"resp", "note", "err"}
  /\ readAt' = IF readAt = <<"err">> THEN <<"dead">> ELSE <<"decode">>
  /\ dispatchAt' = IF readAt = <<"err">> THEN <<"done">> ELSE dispatchAt
  /\ UNCHANGED <<callVars, respWait, lastOp, sendDone, writeConn, readConn, newConn, lostConns, served,
                 subVars>>

-----------------------------------------------------------------------------
(* Subscriptions.                                                          *)

\* quitWithError with unsubscribeServer: inside quitOnce the quit channel is closed
\* and then the server is called.
QuitAndUnsubscribe(s) ==
  /\ quitOnce[s] = "free"
  /\ quitOnce' = [quitOnce EXCEPT ![s] = "held"]
  /\ opAt' = [opAt EXCEPT ![<<s, "unsub">>] = "send"]

\* deliver meets forward: the notification is queued, or does not parse, or the queue
\* is full, and then the subscription ends itself.
ForwardReceives(s) ==
  /\ dispatchAt = <<"deliver", s>> /\ forwarder[s] = "runs"
  /\ dispatchAt' = <<"select">>
  /\ \/ /\ queued[s] < MaxClientBuffer
        /\ queued' = [queued EXCEPT ![s] = @ + 1]
        /\ UNCHANGED <<opAt, quitOnce, forwarder>>
     \/ /\ forwarder' = [forwarder EXCEPT ![s] = "quits"]
        /\ queued' = [queued EXCEPT ![s] = 0]
        /\ \/ QuitAndUnsubscribe(s)
           \/ quitOnce[s] # "free" /\ UNCHANGED <<opAt, quitOnce>>
  /\ UNCHANGED <<opResp, opClosed, opErr, gotten, respWait, lastOp, sendDone, connVars,
                 liveSubs, unsubscribing, noted>>

\* forward sends the first queued item to the subscriber's channel.
ForwardSends(s) ==
  /\ forwarder[s] = "runs" /\ queued[s] > 0
  /\ queued' = [queued EXCEPT ![s] = @ - 1]
  /\ UNCHANGED <<callVars, loopVars, connVars, liveSubs, quitOnce, forwarder, unsubscribing, noted>>

\* forward sees quit, or its own quitWithError is over.
ForwardEnds(s) ==
  /\ \/ forwarder[s] = "runs" /\ quitOnce[s] # "free"
     \/ forwarder[s] = "quits" /\ quitOnce[s] = "done"
  /\ forwarder' = [forwarder EXCEPT ![s] = IF quitOnce[s] = "done" THEN "ended" ELSE "quits"]
  /\ queued' = [queued EXCEPT ![s] = 0]
  /\ UNCHANGED <<callVars, loopVars, connVars, liveSubs, quitOnce, unsubscribing, noted>>

\* Unsubscribe, by the holder of the subscription that Subscribe returned.
Unsubscribe(s) ==
  /\ opAt[<<s, "req">>] = "returned" /\ unsubscribing[s] = "no"
  /\ unsubscribing' = [unsubscribing EXCEPT ![s] = "waits"]
  /\ \/ QuitAndUnsubscribe(s)
     \/ quitOnce[s] # "free" /\ UNCHANGED <<opAt, quitOnce>>
  /\ UNCHANGED <<opResp, opClosed, opErr, gotten, loopVars, connVars, liveSubs, forwarder, queued, noted>>

\* The unsubscribe call is over, whatever its outcome, and with it quitOnce.
UnsubscribeCalled(s) ==
  /\ quitOnce[s] = "held" /\ opAt[<<s, "unsub">>] \in {"returned", "failed"}
  /\ quitOnce' = [quitOnce EXCEPT ![s] = "done"]
  /\ UNCHANGED <<callVars, loopVars, connVars, liveSubs, forwarder, queued, unsubscribing, noted>>

UnsubscribeReturns(s) ==
  /\ unsubscribing[s] = "waits" /\ quitOnce[s] = "done"
  /\ unsubscribing' = [unsubscribing EXCEPT ![s] = "returned"]
  /\ UNCHANGED <<callVars, loopVars, connVars, liveSubs, quitOnce, forwarder, queued, noted>>

-----------------------------------------------------------------------------
CallerStep(o) ==
  \/ SendAccepted(o) \/ SendGivesUp(o) \/ Encode(o) \/ Reconnect(o) \/ ReconnectQuits(o)
  \/ WaitReturns(o) \/ TakeReconnected(o)
DispatchStep ==
  \/ TakeResponse \/ handleNotification \/ DeliverDropped \/ TakeSendDone \/ OldReaderGone
  \/ TakeReadErr \/ QuitSubscription \/ SubscriptionsQuit \/ Drain
SubStep(s) ==
  \/ ForwardReceives(s) \/ ForwardEnds(s) \/ UnsubscribeCalled(s) \/ UnsubscribeReturns(s)

ClientNext ==
  \/ \E r \in Request : StartRpcCall(r)
  \/ \E o \in ClientOp : CallerStep(o)
  \/ ReadResponse \/ ReadNotification \/ ReaderFails
  \/ DispatchStep \/ CloseClient
  \/ \E s \in SubRequest : SubStep(s) \/ ForwardSends(s) \/ Unsubscribe(s)

\* The goroutines run, and a closed connection fails its reader.  Nobody has to read the
\* subscriber's channel, and the server need not answer.
ClientFairness ==
  /\ \A o \in ClientOp : WF_clientVars(CallerStep(o))
  /\ WF_clientVars(DispatchStep)
  /\ WF_clientVars(readConn \in lostConns /\ ReaderFails)
  /\ \A s \in SubRequest : WF_clientVars(SubStep(s))
ClientSpec == ClientInit /\ [][ClientNext]_clientVars /\ ClientFairness

-----------------------------------------------------------------------------
\* dispatch closes op.resp twice, or sends on it when closed, only if an id of a closed
\* operation is still registered; that never happens, whatever order the failed send,
\* the read error, the late answer and Close come in (client.go:568-577, 585-602, 622-646).
NoClosedRegistered == \A id \in respWait : ~opClosed[id[1]]

\* The circular waits of the code: dispatch waits for the old reader's error while that
\* reader holds a message for it; or dispatch waits for a quitOnce whose owner waits for
\* dispatch, after a read error to take its unsubscribe call, and even after Close to
\* take its new connection (send listens to closing, reconnect only to didClose).
ReaderHoldsMessage == dispatchAt = <<"awaitErr">> /\ readAt[1] \in {"resp", "note"}
OnceHeldBySender ==
  /\ dispatchAt[1] \in {"lost", "quit"}
  /\ \E s \in liveSubs :
       /\ quitOnce[s] = "held"
       /\ \/ opAt[<<s, "unsub">>] = "reconnect"
          \/ opAt[<<s, "unsub">>] = "send" /\ dispatchAt = <<"lost">>

=============================================================================
