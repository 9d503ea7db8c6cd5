------------------------------ MODULE P2PPeer ------------------------------
(***************************************************************************)
(* One peer connection (p2p/peer.go): Peer.run with the goroutines it      *)
(* starts, readLoop, pingLoop and one handler per matched protocol.  The   *)
(* handlers share one token, writeStart, and hand the result of a write    *)
(* back to run, which gives the token out again.  Protocols are matched    *)
(* with the capabilities of the remote node, whose order the remote        *)
(* chooses.                                                                *)
(***************************************************************************)
EXTENDS Integers, FiniteSets, Sequences, TLC, SequencesExt

CONSTANTS Protocols,     \* local protocols: a sequence of [name, version, length]
          RemoteCaps,    \* capability lists of the remote, sequences of <<name, version>>
          PingQueue      \* capacity of pingRecv

baseProtocolLength == 16

VARIABLES caps,      \* what the remote sent in its handshake, until the peer is made
          matched,   \* running: name -> [version, offset, length]
          runAt, peerReadAt, pingAt, protoAt,   \* where the goroutines are
          writeStart, writeErr, readErr,    \* channels of run
          protoErr, pingRecv,               \* messages in protoErr and pingRecv
          closed, wire                      \* p.closed; "up", "broken" or "closed"

peerVars == <<caps, matched, runAt, peerReadAt, pingAt, protoAt, writeStart, writeErr, readErr,
              protoErr, pingRecv, closed, wire>>

-----------------------------------------------------------------------------
(* Matching of protocols *)

SortedCaps(cs) == SortSeq(cs, LAMBDA a, b : a[1] < b[1] \/ (a[1] = b[1] /\ a[2] < b[2]))

LocalFor(cap) == {i \in DOMAIN Protocols : Protocols[i].name = cap[1] /\ Protocols[i].version = cap[2]}

countMatchingProtocols(cs) == Cardinality({<<i, j>> \in (DOMAIN cs) \X (DOMAIN Protocols) : j \in LocalFor(cs[i])})

\* The next capability takes the place of an older version of the same protocol.
Match(acc, cap) ==
    IF LocalFor(cap) = {} THEN acc
    ELSE LET p == Protocols[CHOOSE i \in LocalFor(cap) : \A j \in LocalFor(cap) : i <= j]
             off == acc.offset - IF p.name \in DOMAIN acc.result THEN acc.result[p.name].length ELSE 0
         IN  [offset |-> off + p.length,
              result |-> [n \in DOMAIN acc.result \cup {p.name} |->
                            IF n = p.name THEN [version |-> p.version, offset |-> off, length |-> p.length]
                            ELSE acc.result[n]]]

\* The capabilities in the order they came in.
MutmatchProtocols(cs) ==
    FoldLeft(Match, [offset |-> baseProtocolLength, result |-> << >>], cs).result

matchProtocols(cs) ==
    FoldLeft(Match, [offset |-> baseProtocolLength, result |-> << >>], SortedCaps(cs)).result

\* getProto: the protocols responsible for a code; the code takes the first it meets.
getProto(code) ==
    {n \in DOMAIN matched : matched[n].offset <= code /\ code < matched[n].offset + matched[n].length}

-----------------------------------------------------------------------------
PeerInit(remoteCaps) ==
    /\ caps \in remoteCaps /\ matched = << >>
    /\ runAt = "new" /\ peerReadAt = <<"none">> /\ pingAt = "none" /\ protoAt = << >>
    /\ writeStart = 0 /\ writeErr = "none" /\ readErr = FALSE /\ protoErr = 0 /\ pingRecv = 0
    /\ closed = FALSE /\ wire = "up"

\* newPeer, and the start of run: the goroutines are started and the token is put out.
newPeer ==
    /\ runAt = "new" /\ countMatchingProtocols(caps) > 0
    /\ matched' = matchProtocols(caps) /\ caps' = << >>
    /\ protoAt' = [n \in DOMAIN matchProtocols(caps) |-> "idle"]
    /\ runAt' = "loop" /\ peerReadAt' = <<"read">> /\ pingAt' = "idle" /\ writeStart' = 1
    /\ UNCHANGED <<writeErr, readErr, protoErr, pingRecv, closed, wire>>

Leave == runAt' = "closing"

\* One turn of the loop of run: a write has finished, or something ends the loop;
\* Disconnect by the server is taken at any time.
RunLoop ==
    /\ runAt = "loop"
    /\ \/ /\ writeErr # "none" /\ writeErr' = "none"
          /\ IF writeErr = "failed" THEN Leave /\ UNCHANGED writeStart
                                    ELSE writeStart' = writeStart + 1 /\ UNCHANGED runAt
          /\ UNCHANGED <<readErr, protoErr>>
       \/ readErr /\ readErr' = FALSE /\ Leave /\ UNCHANGED <<writeErr, writeStart, protoErr>>
       \/ protoErr > 0 /\ protoErr' = protoErr - 1 /\ Leave /\ UNCHANGED <<writeErr, writeStart, readErr>>
       \/ Leave /\ UNCHANGED <<writeErr, writeStart, readErr, protoErr>>
    /\ UNCHANGED <<caps, matched, peerReadAt, pingAt, protoAt, pingRecv, closed, wire>>

\* close(p.closed), the connection is closed, and the goroutines are waited for.
RunCloses ==
    /\ \/ runAt = "closing" /\ ~closed /\ closed' = TRUE /\ UNCHANGED <<runAt, wire>>
       \/ runAt = "closing" /\ closed /\ runAt' = "waiting" /\ wire' = "closed" /\ UNCHANGED closed
       \/ /\ runAt = "waiting" /\ peerReadAt = <<"done">> /\ pingAt = "done"
          /\ \A n \in DOMAIN protoAt : protoAt[n] = "done"
          /\ runAt' = "returned" /\ UNCHANGED <<closed, wire>>
    /\ UNCHANGED <<caps, matched, peerReadAt, pingAt, protoAt, writeStart, writeErr, readErr, protoErr, pingRecv>>

ReadFails == peerReadAt' = <<"done">> /\ readErr' = TRUE

\* readLoop: the next message, or an error of the connection.
ReadMsg ==
    /\ peerReadAt = <<"read">>
    /\ \/ wire # "up" /\ ReadFails
       \/ wire = "up" /\ peerReadAt' = <<"ping">> /\ UNCHANGED readErr
       \/ wire = "up" /\ UNCHANGED <<peerReadAt, readErr>>    \* another base message
       \/ wire = "up" /\ ReadFails                       \* discMsg, or a code out of range
       \/ wire = "up" /\ \E n \in DOMAIN matched : peerReadAt' = <<"to", n>> /\ UNCHANGED readErr
    /\ UNCHANGED <<caps, matched, runAt, pingAt, protoAt, writeStart, writeErr, protoErr, pingRecv, closed, wire>>

\* handle of a ping.
HandlePingMsg ==
    /\ peerReadAt = <<"ping">> /\ peerReadAt' = <<"read">>
    /\ \/ pingRecv < PingQueue /\ pingRecv' = pingRecv + 1
       \/ closed /\ UNCHANGED pingRecv
    /\ UNCHANGED <<caps, matched, runAt, pingAt, protoAt, writeStart, writeErr, readErr, protoErr, closed, wire>>

\* The reader waits for the handler alone.
MutHandleProto ==
    /\ \E n \in DOMAIN matched :
          /\ peerReadAt = <<"to", n>> /\ protoAt[n] = "reading"
          /\ peerReadAt' = <<"read">> /\ protoAt' = [protoAt EXCEPT ![n] = "idle"] /\ UNCHANGED readErr
    /\ UNCHANGED <<caps, matched, runAt, pingAt, writeStart, writeErr, protoErr, pingRecv, closed, wire>>

\* handle of a message of a protocol: the handler takes it, or the peer is closed.
HandleProto ==
    /\ \E n \in DOMAIN matched :
          /\ peerReadAt = <<"to", n>>
          /\ \/ /\ protoAt[n] = "reading" /\ peerReadAt' = <<"read">>
                /\ protoAt' = [protoAt EXCEPT ![n] = "idle"] /\ UNCHANGED readErr
             \/ closed /\ ReadFails /\ UNCHANGED protoAt
    /\ UNCHANGED <<caps, matched, runAt, pingAt, writeStart, writeErr, protoErr, pingRecv, closed, wire>>

\* pingLoop: the timer, a ping to answer, or the end.
PingLoop ==
    /\ pingAt = "idle"
    /\ \/ wire # "up" /\ pingAt' = "done" /\ protoErr' = protoErr + 1 /\ UNCHANGED pingRecv
       \/ pingRecv > 0 /\ pingRecv' = pingRecv - 1 /\ UNCHANGED <<pingAt, protoErr>>
       \/ closed /\ pingAt' = "done" /\ UNCHANGED <<pingRecv, protoErr>>
    /\ UNCHANGED <<caps, matched, runAt, peerReadAt, protoAt, writeStart, writeErr, readErr, closed, wire>>

ProtoGoes(n, at) == protoAt' = [protoAt EXCEPT ![n] = at]

\* A handler reads, writes or returns (its Run is not part of this package).
Handler(n) ==
    /\ \/ protoAt[n] = "idle" /\ (ProtoGoes(n, "reading") \/ ProtoGoes(n, "writes") \/ ProtoGoes(n, "failed"))
          /\ UNCHANGED <<writeStart, writeErr, protoErr>>
       \/ protoAt[n] = "reading" /\ closed /\ ProtoGoes(n, "failed") /\ UNCHANGED <<writeStart, writeErr, protoErr>>
       \/ protoAt[n] = "failed" /\ ProtoGoes(n, "done") /\ protoErr' = protoErr + 1 /\ UNCHANGED <<writeStart, writeErr>>
    /\ UNCHANGED <<caps, matched, runAt, peerReadAt, pingAt, readErr, pingRecv, closed, wire>>

\* WriteMsg: the token, the write, and its result to run; the handler should return
\* after an error, and need not.
WriteMsg(n) ==
    /\ \/ /\ protoAt[n] = "writes" /\ writeStart > 0
          /\ writeStart' = writeStart - 1 /\ ProtoGoes(n, "writing") /\ UNCHANGED writeErr
       \/ protoAt[n] = "writes" /\ closed /\ ProtoGoes(n, "failed") /\ UNCHANGED <<writeStart, writeErr>>
       \/ /\ protoAt[n] = "writing" /\ writeErr = "none" /\ UNCHANGED writeStart
          /\ \/ wire = "up" /\ writeErr' = "ok" /\ ProtoGoes(n, "idle")
             \/ wire # "up" /\ writeErr' = "failed" /\ (ProtoGoes(n, "idle") \/ ProtoGoes(n, "failed"))
    /\ UNCHANGED <<caps, matched, runAt, peerReadAt, pingAt, readErr, protoErr, pingRecv, closed, wire>>

\* The connection breaks.
Break == /\ wire = "up" /\ runAt = "loop" /\ wire' = "broken"
         /\ UNCHANGED <<caps, matched, runAt, peerReadAt, pingAt, protoAt, writeStart, writeErr, readErr, protoErr,
                        pingRecv, closed>>

PeerGoroutine == RunCloses \/ ReadMsg \/ HandlePingMsg \/ HandleProto \/ PingLoop

PeerNext ==
    \/ newPeer \/ RunLoop \/ Break \/ PeerGoroutine
    \/ \E n \in DOMAIN protoAt : Handler(n) \/ WriteMsg(n)

\* Every goroutine goes on while it can; a handler returns once it is told to.
PeerFairness ==
    /\ WF_peerVars(RunCloses) /\ WF_peerVars(ReadMsg) /\ WF_peerVars(HandlePingMsg)
    /\ WF_peerVars(HandleProto) /\ WF_peerVars(PingLoop)
    /\ \A p \in {Protocols[i].name : i \in DOMAIN Protocols} :
          WF_peerVars(p \in DOMAIN protoAt /\ (Handler(p) \/ WriteMsg(p)))

PeerSpec == PeerInit(RemoteCaps) /\ [][PeerNext]_peerVars /\ PeerFairness

-----------------------------------------------------------------------------
\* Whatever order and repetitions the remote's capabilities have, the code ranges of
\* the running protocols do not overlap and leave no gap above the base protocol: every
\* code has exactly one handler (peer.go:335-357, 387-394).
CodesRouted ==
    LET total == baseProtocolLength + FoldFunction(LAMBDA p, a : p.length + a, 0, matched)
    IN  \A code \in baseProtocolLength .. total - 1 : Cardinality(getProto(code)) = 1

=============================================================================
