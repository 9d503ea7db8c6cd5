----------------------------- MODULE RpcServer -----------------------------
(***************************************************************************)
(* The JSON-RPC server: a serve loop per connection, a goroutine per       *)
(* message read from it, the notifier of a connection that supports        *)
(* subscriptions, and Stop (rpc/server.go, rpc/subscription.go,            *)
(* rpc/json.go).                                                           *)
(*                                                                         *)
(* A message is a sequence of JSON requests and whether it is an array.  A *)
(* JSON request is its method split at the separator, its positional       *)
(* arguments, whether they are given, and whether its id is one.           *)
(***************************************************************************)
EXTENDS Naturals, Sequences, FiniteSets

CONSTANTS
  RpcConn,       \* connections ever made to the server
  StreamConn,    \* those that are no HTTP request: websocket and IPC
  Apis,          \* sequence of [namespace, calls, subs]: names to numbers of arguments
  Incoming,      \* the messages a client may send: [batch, reqs]
  MaxMessages,   \* bound: messages per connection
  MaxNotify      \* bound: notifications of one connection

VARIABLES
  run,        \* Server.run
  codecs,     \* Server.codecs
  serveAt,    \* [RpcConn -> the serve loop]
  codecClosed,\* [RpcConn -> the codec is closed]
  received,   \* [RpcConn -> messages read]
  execs,      \* the executing messages: [conn, n, batch, todo, resps, callbacks]
  answered,   \* [RpcConn -> numbers of the messages that were answered]
  writeFailed,\* [RpcConn -> a write failed]
  active, inactive, \* [RpcConn -> the notifier's tables of subscription ids]
  buffer,     \* [RpcConn -> ids with a buffered notification]
  idSent,     \* [RpcConn -> ids whose response was written]
  early,      \* [RpcConn -> ids notified before their response was written]
  producers,  \* [RpcConn -> ids whose service goroutine runs]
  notified    \* [RpcConn -> notifications so far]

noteVars == <<active, inactive, buffer, idSent, early, producers, notified>>
rpcVars == <<run, codecs, serveAt, codecClosed, received, execs, answered, writeFailed, noteVars>>

-----------------------------------------------------------------------------
(* The registry.                                                           *)

Updated(old, new) == [n \in DOMAIN old \cup DOMAIN new |-> IF n \in DOMAIN new THEN new[n] ELSE old[n]]

\* RegisterName: a service without methods is refused, one of a known name is merged.
RegisterName(services, name, api) ==
  IF DOMAIN api.calls \cup DOMAIN api.subs = {} THEN services
  ELSE IF name \in DOMAIN services
       THEN [services EXCEPT ![name] = [calls |-> Updated(services[name].calls, api.calls),
                                        subs |-> Updated(services[name].subs, api.subs)]]
       ELSE Updated(services, [n \in {name} |-> [calls |-> api.calls, subs |-> api.subs]])

\* NewServer registers the metadata service, StartWSEndpoint every API twice.
NewServer == RegisterName([n \in {} |-> 0], "rpc", [calls |-> [modules |-> 0], subs |-> [n \in {} |-> 0]])
Registered[n \in 0 .. Len(Apis)] ==
  IF n = 0 THEN NewServer
  ELSE RegisterName(RegisterName(Registered[n - 1], Apis[n].namespace, Apis[n]), "eth", Apis[n])
StartWSEndpoint == Registered[Len(Apis)]

-----------------------------------------------------------------------------
(* Reading a message: the codec parses it, the server resolves it.         *)

\* subscribeMethodSuffix and unsubscribeMethodSuffix: alone or after a namespace.
EndsWith(r, word) == r.method[Len(r.method)] = word

\* What the two parsers make of one request; "fail" ends the whole message.
ParseOne(r, batch) ==
  IF ~r.idOk THEN [fail |-> TRUE]
  ELSE IF EndsWith(r, "subscribe")
       THEN IF ~r.given \/ r.args = <<>> THEN [fail |-> TRUE]
            ELSE [fail |-> FALSE, err |-> FALSE, pubsub |-> TRUE, unsub |-> FALSE, method |-> r.args[1],
                  service |-> IF Len(r.method) = 1 THEN "rpc" ELSE r.method[1], args |-> r.args, given |-> TRUE]
  ELSE IF EndsWith(r, "unsubscribe")
       THEN [fail |-> FALSE, err |-> FALSE, pubsub |-> TRUE, unsub |-> TRUE, method |-> "unsubscribe",
             service |-> "", args |-> r.args, given |-> r.given]
  ELSE IF Len(r.method) > 2 /\ ~batch THEN [fail |-> TRUE]
  ELSE [fail |-> FALSE, err |-> Len(r.method) > 2, pubsub |-> FALSE, unsub |-> FALSE,
        method |-> r.method[Len(r.method)],
        service |-> IF Len(r.method) = 1 THEN "rpc" ELSE r.method[1], args |-> r.args,
        given |-> r.given \/ ~batch]

\* parsePositionalArguments: an array of at most that many; all types here are required.
parsePositionalArguments(r, n) == r.given /\ Len(r.args) = n

\* readRequest: unsubscribe takes its id, the others are looked up in the registry.
Bad == [op |-> "error", n |-> 0]
readRequest(services, r) ==
  IF r.err THEN Bad
  ELSE IF r.unsub
       THEN IF parsePositionalArguments(r, 1) THEN [op |-> "unsubscribe", n |-> 0] ELSE Bad
  ELSE IF r.service \notin DOMAIN services THEN Bad
  ELSE LET table == IF r.pubsub THEN services[r.service].subs ELSE services[r.service].calls
           first == IF r.pubsub THEN 1 ELSE 0
       IN  IF r.method \notin DOMAIN table THEN Bad
           ELSE IF r.given /\ table[r.method] > 0 /\ ~parsePositionalArguments(r, first + table[r.method])
                THEN Bad
           ELSE IF r.pubsub THEN [op |-> "subscribe", n |-> 0]
           ELSE [op |-> "call", n |-> table[r.method] - (IF r.given /\ table[r.method] > 0
                                                         THEN Len(r.args) ELSE 0)]

-----------------------------------------------------------------------------
RpcInit ==
  /\ run = 1 /\ codecs = {} /\ execs = {}
  /\ serveAt = [c \in RpcConn |-> "new"]
  /\ codecClosed = [c \in RpcConn |-> FALSE] /\ writeFailed = [c \in RpcConn |-> FALSE]
  /\ received = [c \in RpcConn |-> 0] /\ answered = [c \in RpcConn |-> {}]
  /\ active = [c \in RpcConn |-> {}] /\ inactive = [c \in RpcConn |-> {}] /\ buffer = [c \in RpcConn |-> {}]
  /\ idSent = [c \in RpcConn |-> {}] /\ early = [c \in RpcConn |-> {}]
  /\ producers = [c \in RpcConn |-> {}] /\ notified = [c \in RpcConn |-> 0]

\* The serve loop returns; ServeCodec closes the codec.
ServeReturns(c) ==
  /\ serveAt' = [serveAt EXCEPT ![c] = "ended"]
  /\ codecs' = codecs \ {c}
  /\ codecClosed' = [codecClosed EXCEPT ![c] = TRUE]

\* serveRequest registers the codec, unless the server was stopped.
Serve(c) ==
  /\ serveAt[c] = "new"
  /\ IF run # 1 THEN ServeReturns(c)
     ELSE /\ serveAt' = [serveAt EXCEPT ![c] = "loop"]
          /\ codecs' = codecs \cup {c}
          /\ UNCHANGED codecClosed
  /\ UNCHANGED <<run, received, execs, answered, writeFailed, noteVars>>

\* ServeHTTP refuses by method, length or content type before anything is served.
RefuseHttp(c) ==
  /\ serveAt[c] = "new" /\ c \notin StreamConn
  /\ serveAt' = [serveAt EXCEPT ![c] = "ended"]
  /\ codecClosed' = [codecClosed EXCEPT ![c] = TRUE]
  /\ UNCHANGED <<run, codecs, received, execs, answered, writeFailed, noteVars>>

LoopTest(c) ==
  /\ serveAt[c] = "loop"
  /\ IF run = 1 THEN serveAt' = [serveAt EXCEPT ![c] = "read"] /\ UNCHANGED <<codecs, codecClosed>>
     ELSE ServeReturns(c)
  /\ UNCHANGED <<run, received, execs, answered, writeFailed, noteVars>>

\* A message is read.  If one of its requests does not parse, the client is told so and
\* the connection is torn down like at the end of the stream.
ReadRequest(c) ==
  /\ serveAt[c] = "read" /\ ~codecClosed[c] /\ received[c] < MaxMessages
  /\ \E m \in Incoming :
       \E parsed \in {[i \in DOMAIN m.reqs |-> ParseOne(m.reqs[i], m.batch)]} :
         IF \E i \in DOMAIN parsed : parsed[i].fail
         THEN /\ serveAt' = [serveAt EXCEPT ![c] = "wait"]
              /\ UNCHANGED <<received, execs>>
         ELSE /\ received' = [received EXCEPT ![c] = @ + 1]
              /\ serveAt' = [serveAt EXCEPT ![c] = "got"]
              /\ execs' = execs \cup {[conn |-> c, n |-> received[c] + 1, started |-> FALSE,
                                       todo |-> [i \in DOMAIN parsed |-> readRequest(StartWSEndpoint, parsed[i])],
                                       created |-> {}]}
  /\ UNCHANGED <<run, codecs, codecClosed, answered, writeFailed, noteVars>>

\* The read fails: end of the stream, or the codec was closed.
ReadEnds(c) ==
  /\ serveAt[c] = "read"
  /\ serveAt' = [serveAt EXCEPT ![c] = "wait"]
  /\ UNCHANGED <<run, codecs, codecClosed, received, execs, answered, writeFailed, noteVars>>

\* A message read while the server was stopped is answered with shutdownError; otherwise
\* a goroutine executes it (or the loop itself, for a single request).
Dispatch(c) ==
  /\ serveAt[c] = "got"
  /\ \E e \in {x \in execs : x.conn = c /\ ~x.started} :
       IF run # 1
       THEN /\ execs' = execs \ {e}
            /\ answered' = IF codecClosed[c] THEN answered ELSE [answered EXCEPT ![c] = @ \cup {e.n}]
            /\ ServeReturns(c)
       ELSE /\ execs' = (execs \ {e}) \cup {[e EXCEPT !.started = TRUE]}
            /\ serveAt' = [serveAt EXCEPT ![c] = IF c \in StreamConn THEN "loop" ELSE "single"]
            /\ UNCHANGED <<answered, codecs, codecClosed>>
  /\ UNCHANGED <<run, received, writeFailed, noteVars>>

\* Mutant: the loop ends without pend.Wait.
MutWaitEnds(c) ==
  /\ serveAt[c] = "wait"
  /\ ServeReturns(c)
  /\ UNCHANGED <<run, received, execs, answered, writeFailed, noteVars>>

\* pend.Wait, or the end of the single request.
WaitEnds(c) ==
  /\ serveAt[c] \in {"wait", "single"}
  /\ ~\E e \in execs : e.conn = c
  /\ ServeReturns(c)
  /\ UNCHANGED <<run, received, execs, answered, writeFailed, noteVars>>

-----------------------------------------------------------------------------
(* Executing a message: handle for every request, one write, then the      *)
(* callbacks that activate its subscriptions.                              *)

\* CreateSubscription enters the id into the active table.
CreateSubscription(c, id) ==
  /\ active' = [active EXCEPT ![c] = @ \cup {id}]
  /\ producers' = [producers EXCEPT ![c] = @ \cup {id}]

\* unsubscribe: a known id is removed, which tells its producer.
unsubscribe(c, id) == active' = [active EXCEPT ![c] = @ \ {id}] /\ UNCHANGED producers

\* Every other outcome of handle, an error or a result, is one response.
handle(e) ==
  /\ e \in execs /\ e.started /\ e.todo # <<>>
  /\ \E req \in {Head(e.todo)} :
       LET c == e.conn
           rest == [e EXCEPT !.todo = Tail(@)]
           id == <<e.n, Len(e.todo)>>
       IN  \/ /\ req.op = "subscribe" /\ c \in StreamConn
              /\ CreateSubscription(c, id)
              /\ execs' = (execs \ {e}) \cup {[rest EXCEPT !.created = @ \cup {id}]}
           \/ /\ req.op = "unsubscribe" /\ c \in StreamConn
              /\ \E old \in active[c] \cup {<<0, 0>>} : unsubscribe(c, old)
              /\ execs' = (execs \ {e}) \cup {rest}
           \/ /\ req.op \in {"call", "error"} \/ c \notin StreamConn
              /\ execs' = (execs \ {e}) \cup {rest}
              /\ UNCHANGED <<active, producers>>
  /\ UNCHANGED <<run, codecs, serveAt, codecClosed, received, answered, writeFailed,
                 inactive, buffer, idSent, early, notified>>

\* codec.Write fails on a closed codec, and when the connection broke; exec then closes
\* the codec.
Writes(c) == IF codecClosed[c] THEN {FALSE} ELSE BOOLEAN

\* activate looks the ids up in the inactive table.
activate(c, ids) ==
  LET found == ids \cap inactive[c]
  IN  /\ active' = [active EXCEPT ![c] = @ \cup found]
      /\ inactive' = [inactive EXCEPT ![c] = @ \ found]
      /\ buffer' = [buffer EXCEPT ![c] = @ \ found]

exec(e) ==
  /\ e \in execs /\ e.started /\ e.todo = <<>>
  /\ \E ok \in Writes(e.conn) :
       /\ answered' = IF ok THEN [answered EXCEPT ![e.conn] = @ \cup {e.n}] ELSE answered
       /\ idSent' = IF ok THEN [idSent EXCEPT ![e.conn] = @ \cup e.created] ELSE idSent
       /\ codecClosed' = [codecClosed EXCEPT ![e.conn] = @ \/ ~ok]
       /\ writeFailed' = [writeFailed EXCEPT ![e.conn] = @ \/ ~ok]
  /\ activate(e.conn, e.created)
  /\ execs' = execs \ {e}
  /\ UNCHANGED <<run, codecs, serveAt, received, early, producers, notified>>

-----------------------------------------------------------------------------
(* The service goroutines of subscriptions, and Stop.                      *)

\* Notify: an active subscription is written to, another's notification is buffered.
Notify(c, id) ==
  /\ id \in producers[c] /\ notified[c] < MaxNotify
  /\ notified' = [notified EXCEPT ![c] = @ + 1]
  /\ IF id \in active[c]
     THEN /\ \E ok \in Writes(c) :
               /\ codecClosed' = [codecClosed EXCEPT ![c] = @ \/ ~ok]
               /\ writeFailed' = [writeFailed EXCEPT ![c] = @ \/ ~ok]
               /\ early' = IF ok /\ id \notin idSent[c] THEN [early EXCEPT ![c] = @ \cup {id}] ELSE early
          /\ UNCHANGED buffer
     ELSE /\ buffer' = [buffer EXCEPT ![c] = @ \cup {id}]
          /\ UNCHANGED <<codecClosed, writeFailed, early>>
  /\ UNCHANGED <<run, codecs, serveAt, received, execs, answered, active, inactive, idSent, producers>>

\* The producer sees that its connection is closed, or that it was unsubscribed, and
\* leaves.
ProducerLeaves(c, id) ==
  /\ id \in producers[c]
  /\ codecClosed[c] \/ id \notin active[c]
  /\ producers' = [producers EXCEPT ![c] = @ \ {id}]
  /\ UNCHANGED <<run, codecs, serveAt, codecClosed, received, execs, answered, writeFailed,
                 active, inactive, buffer, idSent, early, notified>>

\* Stop closes the codecs that are registered, under codecsMu.
MutStopServer ==
  /\ run = 1 /\ run' = 0
  /\ UNCHANGED <<codecs, serveAt, codecClosed, received, execs, answered, writeFailed, noteVars>>
StopServer ==
  /\ run = 1 /\ run' = 0
  /\ codecClosed' = [c \in RpcConn |-> codecClosed[c] \/ c \in codecs]
  /\ UNCHANGED <<codecs, serveAt, received, execs, answered, writeFailed, noteVars>>

-----------------------------------------------------------------------------
ServeStep(c) == Serve(c) \/ LoopTest(c) \/ Dispatch(c) \/ WaitEnds(c)
ExecStep == \E e \in execs : handle(e) \/ exec(e)
ProducerStep(c) == \E id \in producers[c] : ProducerLeaves(c, id)

RpcNext ==
  \/ \E c \in RpcConn : \/ ServeStep(c) \/ RefuseHttp(c) \/ ReadRequest(c) \/ ReadEnds(c)
                        \/ ProducerStep(c)
                        \/ \E id \in producers[c] : Notify(c, id)
  \/ ExecStep
  \/ StopServer

\* Goroutines run, callbacks return, and a closed codec fails its reader.
RpcFairness ==
  /\ \A c \in RpcConn : /\ WF_rpcVars(ServeStep(c))
                        /\ WF_rpcVars(codecClosed[c] /\ ReadEnds(c))
                        /\ WF_rpcVars(ProducerStep(c))
  /\ WF_rpcVars(ExecStep)
RpcSpec == RpcInit /\ [][RpcNext]_rpcVars /\ RpcFairness

-----------------------------------------------------------------------------
\* "Error or end of stream, wait for requests and tear down": a connection that was not
\* cut by Stop and whose writes succeeded ends with every message it sent answered, the
\* slow ones included (server.go:161-171).
EndedIsAnswered ==
  \A c \in RpcConn :
    serveAt[c] = "ended" /\ run = 1 /\ ~writeFailed[c] => answered[c] = 1 .. received[c]

=============================================================================
