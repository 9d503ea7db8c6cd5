---------------------------- MODULE ClusterProofs ----------------------------
(***************************************************************************)
(* Proofs about a cluster for any number of shards, slaves, callers and    *)
(* blocks, and for any number of failing calls and crashes.                *)
(*                                                                         *)
(* Cluster: the inductive invariant Inv adds to the properties what they   *)
(* rest on: a job still has to send every list that is not there and was   *)
(* not dropped, no shard has a list it is not to receive, the master's     *)
(* root blocks hold only reported headers, root blocks are stored after    *)
(* their parents, and slaves rebuild their connections only while the      *)
(* master starts.                                                          *)
(*                                                                         *)
(* ClusterApi, the calls between the master and its slaves: a minor block  *)
(* that was reported has its lists at every slave that needs them as long  *)
(* as no slave has stopped, and a request that succeeds was served by the  *)
(* slaves it is for and has an answer its caller can read.  The invariant  *)
(* has four parts: the types, the request under way (AskOK), the first     *)
(* start of the cluster, which is over before anything happens on the      *)
(* chains (BootOK), and the lists of the broadcast under way (JobOK).      *)
(***************************************************************************)
EXTENDS Cluster, ClusterApi, FiniteSetTheorems, TLAPS

\* A leaf is tried with Zenon, then with the SMT solver; the limits are in seconds.
USE ZenonT(8), SMTT(30)

\* A job is about stored blocks of its shard, and the lists of these blocks are where
\* they belong, were dropped, or are still on the job's list of receivers.
JobsOK ==
    \A s \in Shard : job[s] # None =>
        \A m \in job[s].blks :
            /\ ShardOf[m] = s /\ m \in mdb[s]
            /\ \A t \in Receivers(m) : t \in job[s].todo \/ m \in xlists[t] \/ m \in lost[t]

\* Shards have only the lists that are for them.
ListsOK == \A t \in Shard : \A m \in xlists[t] : t \in Receivers(m)

\* The master's root blocks hold reported headers, and the head is one of them.
MasterOK ==
    /\ head \in rdb
    /\ \A r \in rdb : Headers[r] \subseteq validated

\* A running call brings a stored root block, to the shards it has passed if no slave
\* has answered no.  Calls run while the master does.
CallsOK ==
    /\ up => stops <= MaxStops
    /\ \A c \in Caller : call[c] # None =>
          /\ up /\ call[c].blk \in rdb \ {Genesis}
          /\ ~call[c].failed =>
                \A s \in Shard : s \in call[c].todo \/ call[c].blk \in rstore[s]

\* The shards store root blocks after their parents.
RootsClosed ==
    \A s \in Shard : /\ Genesis \in rstore[s]
                     /\ \A r \in rstore[s] \ {Genesis} : RParent[r] \in rstore[s]

\* The handlers of MasterInfo run while the master is down or waits for them.
StartOK ==
    /\ up => asked = {} /\ \A v \in Slave : info[v] = None
    /\ asked # {} => stops <= MaxStops /\ \A v \in Slave \ asked : info[v] = None
    /\ stops = 0 => up

Inv ==
    /\ TypeOK /\ JobsOK /\ ListsOK /\ MasterOK /\ CallsOK /\ RootsClosed /\ StartOK
    /\ ValidatedDelivered /\ LostUnconnected /\ MissingIsOnItsWay

-----------------------------------------------------------------------------
\* Sender and receiver agree (BroadcastXshardTxList, AddRootBlock): a shard that
\* knows the root block a foreign header is mined on expects a list exactly when it
\* is one of the receivers.
LEMMA ExpectedIsSent ==
    ASSUME TypeOK, NEW s \in Shard, NEW m \in MBlock, PrevRoot[m] \in rstore[s]
    PROVE  ExpectsList(s, m) <=> s \in Receivers(m)
BY BlockAssumption DEF ExpectsList, Receivers, TypeOK

\* A shard that has the parent of a root block of the master, and for which no list of
\* the block's headers was dropped, has everything the checks of AddRootBlock on the
\* headers look for.
LEMMA HeadersReady ==
    ASSUME Inv, NEW s \in Shard, NEW r \in rdb \ {Genesis}, RParent[r] \in rstore[s],
           Headers[r] \cap (lost[s] \ xlists[s]) = {}
    PROVE  MinorsReady(s, r)
<1>1. r \in RBlock \ {Genesis} /\ rstore[s] \in SUBSET RBlock
  BY DEF Inv, TypeOK
<1>2. \A m \in Headers[r] : PrevRoot[m] \in rstore[s]
  BY <1>1, HeaderAssumption DEF Inv, RootsClosed
<1>3. Headers[r] \subseteq MBlock /\ Headers[r] \subseteq validated
  BY <1>1, BlockAssumption DEF Inv, MasterOK
<1>4. ASSUME NEW m \in Headers[r], ShardOf[m] = s
      PROVE  m \in mdb[s]
  BY <1>3, <1>4 DEF Inv, ValidatedDelivered
<1>5. ASSUME NEW m \in Headers[r], ShardOf[m] # s
      PROVE  ExpectsList(s, m) <=> m \in xlists[s]
  <2>1. ExpectsList(s, m) <=> s \in Receivers(m)
    BY <1>2, <1>3, ExpectedIsSent DEF Inv
  <2>2. s \in Receivers(m) => m \in xlists[s]
    BY <1>3 DEF Inv, ValidatedDelivered
  <2>3. m \in xlists[s] => s \in Receivers(m)
    BY DEF Inv, ListsOK
  <2> QED BY <2>1, <2>2, <2>3
<1> QED BY <1>4, <1>5 DEF MinorsReady

\* Where the invariant holds, no shard refuses a root block of the master over its
\* headers, unless a list was dropped.
LEMMA NeverRefused ==
    ASSUME Inv
    PROVE  HeadersNeverRefused
<1> SUFFICES ASSUME NEW c \in Caller, NEW s \in Shard, call[c] # None,
                    RParent[call[c].blk] \in rstore[s],
                    Headers[call[c].blk] \cap (lost[s] \ xlists[s]) = {}
             PROVE  Accepts(s, call[c].blk)
  BY DEF HeadersNeverRefused
<1>1. call[c].blk \in rdb \ {Genesis}
  BY DEF Inv, CallsOK
<1> QED BY <1>1, HeadersReady DEF Accepts

-----------------------------------------------------------------------------
\* The cluster starts in the invariant.
LEMMA InitInv == Init => Inv
<1> SUFFICES ASSUME Init PROVE Inv
  OBVIOUS
<1> USE BlockAssumption DEF Init
<1>1. TypeOK
  BY DEF TypeOK
<1>2. JobsOK /\ ListsOK /\ RootsClosed
  BY DEF JobsOK, ListsOK, RootsClosed
<1>3. MasterOK /\ CallsOK
  BY DEF MasterOK, CallsOK
<1>4. ValidatedDelivered
  BY DEF ValidatedDelivered, Receivers
<1>5. MissingIsOnItsWay /\ LostUnconnected /\ StartOK
  BY DEF MissingIsOnItsWay, LostUnconnected, StartOK
<1> QED BY <1>1, <1>2, <1>3, <1>4, <1>5 DEF Inv

\* A handler that has inserted minor blocks has everything still to send.
LEMMA InsertMinorInv ==
    ASSUME Inv, NEW s \in Shard, NEW blks \in SUBSET MBlock, InsertMinor(s, blks)
    PROVE  Inv'
<1> USE DEF InsertMinor, Inv, startVars
<1>1. ReceiversOf(blks) \in SUBSET Shard
  BY DEF ReceiversOf, Receivers
<1>2. TypeOK'
  BY <1>1 DEF TypeOK, Job
<1>3. JobsOK'
  <2> SUFFICES ASSUME NEW t \in Shard, job'[t] # None, NEW m \in job'[t].blks
               PROVE  /\ ShardOf[m] = t /\ m \in mdb'[t]
                      /\ \A u \in Receivers(m) :
                            u \in job'[t].todo \/ m \in xlists'[u] \/ m \in lost'[u]
    BY DEF JobsOK, Receivers
  <2>1. CASE t = s
    BY <2>1 DEF TypeOK, Connected, ReceiversOf
  <2>2. CASE t # s
    BY <2>2 DEF TypeOK, JobsOK
  <2> QED BY <2>1, <2>2
<1>4. ListsOK' /\ MasterOK' /\ CallsOK' /\ RootsClosed' /\ MissingIsOnItsWay'
  BY DEF ListsOK, MasterOK, CallsOK, RootsClosed, MissingIsOnItsWay, Receivers
<1>5. ValidatedDelivered'
  BY BlockAssumption DEF ValidatedDelivered, TypeOK, Receivers
<1>6. LostUnconnected' /\ StartOK'
  BY DEF LostUnconnected, StartOK, Reaches
<1> QED BY <1>2, <1>3, <1>4, <1>5, <1>6

\* A list that arrives is one the receiver is to have, and the sender strikes the
\* receiver off only when the list has arrived or was dropped.
LEMMA SendListInv ==
    ASSUME Inv, NEW s \in Shard, NEW t \in Shard, SendList(s, t)
    PROVE  Inv'
<1> USE DEF Inv
<1>a. /\ job[s] # None /\ t \in job[s].todo
      /\ job' = [job EXCEPT ![s].todo = @ \ {t}]
      /\ UNCHANGED <<mdb, rstore, validated, rdb, head, committing, call, up, aborts, stops>>
      /\ UNCHANGED <<conns, info, asked>>
  BY DEF SendList, startVars
<1>b. \/ /\ xlists' = [xlists EXCEPT ![t] = @ \cup ListsFor(s, t)]
         /\ UNCHANGED lost
      \/ /\ ~Reaches(s, t)
         /\ lost' = [lost EXCEPT ![t] = @ \cup ListsFor(s, t)]
         /\ UNCHANGED xlists
  BY DEF SendList
<1>0. job[s] \in Job
  BY <1>a DEF TypeOK
<1>c. ListsFor(s, t) \in SUBSET MBlock
  BY <1>0 DEF ListsFor, Job
<1>1. TypeOK'
  <2>1. xlists' \in [Shard -> SUBSET MBlock] /\ lost' \in [Shard -> SUBSET MBlock]
    BY <1>b, <1>c DEF TypeOK
  <2>2. job' \in [Shard -> Job \cup {None}]
    BY <1>0, <1>a DEF TypeOK, Job
  <2> QED BY <1>a, <2>1, <2>2 DEF TypeOK
<1>2. \A u \in Shard : xlists[u] \subseteq xlists'[u] /\ lost[u] \subseteq lost'[u]
  BY <1>b DEF TypeOK
<1>3. JobsOK'
  <2> SUFFICES ASSUME NEW w \in Shard, job'[w] # None, NEW m \in job'[w].blks
               PROVE  /\ ShardOf[m] = w /\ m \in mdb'[w]
                      /\ \A u \in Receivers(m) :
                            u \in job'[w].todo \/ m \in xlists'[u] \/ m \in lost'[u]
    BY DEF JobsOK, Receivers
  <2>1. CASE w = s
    <3>1. job'[s].blks = job[s].blks /\ job'[s].todo = job[s].todo \ {t}
      BY <1>0, <1>a DEF TypeOK, Job
    <3>2. m \in job[s].blks
      BY <2>1, <3>1
    <3>3. t \in Receivers(m) => m \in xlists'[t] \/ m \in lost'[t]
      BY <3>2, <1>b DEF TypeOK, ListsFor
    <3>4. \A u \in Receivers(m) : u \in Shard
      BY DEF Receivers
    <3>5. /\ ShardOf[m] = s /\ m \in mdb[s]
          /\ \A u \in Receivers(m) : u \in job[s].todo \/ m \in xlists[u] \/ m \in lost[u]
      BY <1>a, <3>2 DEF JobsOK
    <3>6. \A u \in Receivers(m) : u \in job'[s].todo \/ m \in xlists'[u] \/ m \in lost'[u]
      BY <3>1, <3>3, <3>4, <3>5, <1>2
    <3> QED BY <2>1, <3>5, <3>6, <1>a
  <2>2. CASE w # s
    <3>1. job'[w] = job[w]
      BY <2>2, <1>a DEF TypeOK
    <3>2. \A u \in Receivers(m) : u \in Shard
      BY DEF Receivers
    <3> QED BY <3>1, <3>2, <1>2, <1>a DEF JobsOK
  <2> QED BY <2>1, <2>2
<1>4. ListsOK'
  BY <1>0, <1>b DEF ListsOK, TypeOK, Receivers, ListsFor
<1>5. MasterOK' /\ CallsOK' /\ RootsClosed' /\ MissingIsOnItsWay' /\ StartOK'
  BY <1>a DEF MasterOK, CallsOK, RootsClosed, MissingIsOnItsWay, StartOK
<1>6. ValidatedDelivered'
  BY <1>2, <1>a DEF ValidatedDelivered, Receivers
<1>7. LostUnconnected'
  <2> SUFFICES ASSUME stops = 0, NEW u \in Shard, NEW m \in lost'[u]
               PROVE  ~Reaches(ShardOf[m], u)
    BY <1>a DEF LostUnconnected, Reaches
  <2>1. CASE m \in lost[u]
    BY <2>1 DEF LostUnconnected
  <2>2. CASE m \notin lost[u]
    <3>1. u = t /\ ~Reaches(s, t) /\ m \in ListsFor(s, t)
      BY <1>b, <2>2 DEF TypeOK
    <3>2. ShardOf[m] = s
      BY <3>1, <1>a DEF ListsFor, JobsOK
    <3> QED BY <3>1, <3>2
  <2> QED BY <2>1, <2>2
<1> QED BY <1>1, <1>3, <1>4, <1>5, <1>6, <1>7

\* Headers are reported when no receiver is left, so their lists are delivered; a
\* job that ends without a report leaves what it stored.
LEMMA EndOfJobInv ==
    ASSUME Inv, NEW s \in Shard, ReportHeaders(s) \/ AbortJob(s)
    PROVE  Inv'
<1> USE DEF ReportHeaders, AbortJob, Inv, startVars
<1>0. job[s] \in Job
  BY BlockAssumption DEF TypeOK
<1>1. TypeOK'
  <2>1. CASE ReportHeaders(s)
    BY <1>0, <2>1 DEF TypeOK, Job
  <2>2. CASE AbortJob(s)
    BY <2>2, BlockAssumption DEF TypeOK
  <2> QED BY <2>1, <2>2
<1>2. JobsOK'
  BY DEF JobsOK, TypeOK, Receivers
<1>3. ListsOK' /\ CallsOK' /\ RootsClosed' /\ MissingIsOnItsWay'
  BY DEF ListsOK, CallsOK, RootsClosed, MissingIsOnItsWay, Receivers
<1>4. validated \subseteq validated'
  OBVIOUS
<1>5. MasterOK'
  BY <1>4 DEF MasterOK
<1>6. ValidatedDelivered'
  BY <1>0 DEF ValidatedDelivered, JobsOK, Receivers
<1>7. LostUnconnected' /\ StartOK'
  BY DEF LostUnconnected, StartOK, Reaches
<1> QED BY <1>1, <1>2, <1>3, <1>5, <1>6, <1>7

-----------------------------------------------------------------------------
\* The master stores a root block whose headers are reported and whose call is to
\* bring it to all shards.
LEMMA AddRootBlockInv ==
    ASSUME Inv, NEW c \in Caller, AddRootBlock(c)
    PROVE  Inv'
<1>1. PICK r \in RBlock \ {Genesis} :
          /\ Insertable(r)
          /\ rdb' = rdb \cup {r}
          /\ head' = IF BecomesHead(r) THEN r ELSE head
          /\ committing' = r
          /\ call' = [call EXCEPT ![c] = [blk |-> r, todo |-> Shard, failed |-> FALSE]]
  BY DEF AddRootBlock
<1> USE DEF Inv
<1>2. up /\ call[c] = None /\ UNCHANGED <<rstore, up, aborts, stops>>
      /\ UNCHANGED <<shardVars, startVars>>
  BY DEF AddRootBlock
<1>3. TypeOK'
  BY <1>1, <1>2 DEF TypeOK, Call, shardVars, startVars
<1>4. JobsOK' /\ ListsOK' /\ RootsClosed' /\ ValidatedDelivered'
  BY <1>2 DEF JobsOK, ListsOK, RootsClosed, ValidatedDelivered, Receivers, shardVars, startVars
<1>5. MasterOK'
  BY <1>1, <1>2 DEF MasterOK, Insertable, shardVars, startVars
<1>6. CallsOK'
  <2>1. ASSUME NEW d \in Caller, d # c
        PROVE  call'[d] = call[d]
    BY <1>1, <2>1 DEF TypeOK
  <2>2. call'[c] = [blk |-> r, todo |-> Shard, failed |-> FALSE]
    BY <1>1 DEF TypeOK
  <2> QED BY <1>1, <1>2, <2>1, <2>2 DEF CallsOK
<1>7. MissingIsOnItsWay'
  <2>1. ASSUME NEW d \in Caller, call[d] # None
        PROVE  call'[d] = call[d]
    BY <1>1, <1>2, <2>1 DEF TypeOK
  <2>2. call'[c] = [blk |-> r, todo |-> Shard, failed |-> FALSE]
    BY <1>1 DEF TypeOK
  <2>3. call'[c] # None
    <3>1. call'[c] \in Call
      BY <2>2 DEF Call
    <3> QED BY <3>1, NoneAssumption
  <2> QED BY <1>1, <1>2, <2>1, <2>2, <2>3 DEF MissingIsOnItsWay
<1>8. LostUnconnected' /\ StartOK'
  BY <1>2 DEF LostUnconnected, StartOK, Reaches, shardVars, startVars
<1> QED BY <1>3, <1>4, <1>5, <1>6, <1>7, <1>8

\* A root block the master does not take changes the committing hash alone.
LEMMA RejectRootBlockInv ==
    ASSUME Inv, NEW c \in Caller, RejectRootBlock(c)
    PROVE  Inv'
<1> USE DEF RejectRootBlock, Inv, shardVars, startVars
<1>1. TypeOK'
  BY DEF TypeOK
<1>2. JobsOK' /\ ListsOK' /\ RootsClosed' /\ ValidatedDelivered'
  BY DEF JobsOK, ListsOK, RootsClosed, ValidatedDelivered, Receivers
<1>3. MasterOK' /\ CallsOK' /\ MissingIsOnItsWay'
  BY DEF MasterOK, CallsOK, MissingIsOnItsWay
<1>4. LostUnconnected' /\ StartOK'
  BY DEF LostUnconnected, StartOK, Reaches
<1> QED BY <1>1, <1>2, <1>3, <1>4

\* A shard stores a root block after its parent.
LEMMA ShardAddsInv ==
    ASSUME Inv, NEW c \in Caller, NEW s \in Shard, ShardAddsRootBlock(c, s)
    PROVE  Inv'
<1> USE DEF ShardAddsRootBlock, Inv, shardVars, startVars
<1>0. call[c] \in Call
  BY DEF TypeOK
<1>1. TypeOK'
  BY <1>0 DEF TypeOK, Call
<1>2. JobsOK' /\ ListsOK' /\ ValidatedDelivered' /\ MasterOK'
  BY DEF JobsOK, ListsOK, ValidatedDelivered, MasterOK, Receivers
<1>3. RootsClosed'
  BY DEF RootsClosed, Accepts, TypeOK
<1>4. \A t \in Shard : rstore[t] \subseteq rstore'[t]
  BY DEF TypeOK
<1>5. /\ call'[c] = [call[c] EXCEPT !.todo = @ \ {s}]
      /\ call'[c].blk = call[c].blk /\ call'[c].failed = call[c].failed
      /\ call'[c].todo = call[c].todo \ {s} /\ call[c].blk \in rstore'[s]
      /\ \A d \in Caller : d # c => call'[d] = call[d]
  BY <1>0 DEF TypeOK, Call
<1>6. CallsOK'
  BY <1>4, <1>5, ZenonT(40) DEF CallsOK
<1>7. MissingIsOnItsWay'
  <2>1. call'[c] \in Call
    BY <1>0, <1>5 DEF Call
  <2>2. call'[c] # None
    BY <2>1, NoneAssumption
  <2> QED BY <1>4, <1>5, <2>2 DEF MissingIsOnItsWay
<1>8. LostUnconnected' /\ StartOK'
  BY DEF LostUnconnected, StartOK, Reaches
<1> QED BY <1>1, <1>2, <1>3, <1>6, <1>7, <1>8

\* A refusal keeps the call open until the master panics.
LEMMA ShardRefusesInv ==
    ASSUME Inv, NEW c \in Caller, NEW s \in Shard, ShardRefusesRootBlock(c, s)
    PROVE  Inv'
<1> USE DEF ShardRefusesRootBlock, Inv, shardVars, startVars
<1>0. call[c] \in Call
  BY DEF TypeOK
<1>1. /\ call'[c] \in Call
      /\ call'[c].blk = call[c].blk /\ call'[c].failed
      /\ \A d \in Caller : d # c => call'[d] = call[d]
  BY <1>0 DEF TypeOK, Call
<1>2. TypeOK'
  BY <1>0, <1>1 DEF TypeOK, Call
<1>3. JobsOK' /\ ListsOK' /\ ValidatedDelivered' /\ MasterOK' /\ RootsClosed'
  BY DEF JobsOK, ListsOK, ValidatedDelivered, MasterOK, RootsClosed, Receivers
<1>4. CallsOK'
  BY <1>1 DEF CallsOK
<1>5. MissingIsOnItsWay'
  <2>1. call'[c] # None
    BY <1>1, NoneAssumption
  <2>2. ASSUME stops = 0, NEW r \in rdb, NEW t \in Shard, r \notin rstore[t]
        PROVE  \E d \in Caller : /\ call'[d] # None /\ call'[d].blk = r
                                 /\ t \in call'[d].todo \/ call'[d].failed
    <3>1. PICK d \in Caller : /\ call[d] # None /\ call[d].blk = r
                              /\ t \in call[d].todo \/ call[d].failed
      BY <2>2 DEF MissingIsOnItsWay
    <3>2. CASE d = c
      BY <3>1, <3>2, <1>1, <2>1
    <3>3. CASE d # c
      BY <3>1, <3>3, <1>1
    <3> QED BY <3>2, <3>3
  <2> QED BY <2>2 DEF MissingIsOnItsWay
<1>6. LostUnconnected' /\ StartOK'
  BY DEF LostUnconnected, StartOK, Reaches
<1> QED BY <1>2, <1>3, <1>4, <1>5, <1>6

\* When all slaves have answered yes, all shards have the block.
LEMMA RootBlockSentInv ==
    ASSUME Inv, NEW c \in Caller, RootBlockSent(c)
    PROVE  Inv'
<1> USE DEF RootBlockSent, Inv, shardVars, startVars
<1>1. call'[c] = None /\ \A d \in Caller : d # c => call'[d] = call[d]
  BY DEF TypeOK
<1>2. TypeOK'
  BY DEF TypeOK
<1>3. JobsOK' /\ ListsOK' /\ ValidatedDelivered' /\ MasterOK' /\ RootsClosed'
  BY DEF JobsOK, ListsOK, ValidatedDelivered, MasterOK, RootsClosed, Receivers
<1>4. CallsOK'
  BY <1>1 DEF CallsOK
<1>5. MissingIsOnItsWay'
  BY <1>1 DEF MissingIsOnItsWay, CallsOK
<1>6. LostUnconnected' /\ StartOK'
  BY DEF LostUnconnected, StartOK, Reaches
<1> QED BY <1>2, <1>3, <1>4, <1>5, <1>6

\* A stop of the master, by a panic or a crash, ends the calls and nothing else.
LEMMA StopInv ==
    ASSUME Inv, Crash \/ \E c \in Caller : Panic(c)
    PROVE  Inv'
<1> USE DEF Inv
<1>1. /\ up' = FALSE /\ stops' = stops + 1 /\ asked' = {}
      /\ call' = [c \in Caller |-> None]
      /\ UNCHANGED <<rstore, rdb, head, committing, conns, info, aborts>> /\ UNCHANGED shardVars
  BY DEF Crash, Panic, startVars, StartOK, CallsOK
<1>2. stops <= MaxStops
  BY BlockAssumption DEF Crash, Panic, CallsOK, TypeOK
<1>3. stops' \in 0 .. MaxStops + 1 /\ stops' # 0
  BY <1>1, <1>2, BlockAssumption DEF TypeOK
<1>4. TypeOK'
  BY <1>1, <1>3 DEF TypeOK, shardVars
<1>5. JobsOK' /\ ListsOK' /\ ValidatedDelivered' /\ MasterOK' /\ RootsClosed'
  BY <1>1 DEF JobsOK, ListsOK, ValidatedDelivered, MasterOK, RootsClosed, Receivers, shardVars
<1>6. CallsOK' /\ MissingIsOnItsWay' /\ LostUnconnected' /\ StartOK'
  BY <1>1, <1>3 DEF CallsOK, MissingIsOnItsWay, LostUnconnected, StartOK
<1> QED BY <1>4, <1>5, <1>6

\* A start asks all slaves, while no call runs.
LEMMA InitShardsInv ==
    ASSUME Inv, InitShards
    PROVE  Inv'
<1> USE DEF Inv
<1>1. /\ ~up /\ stops <= MaxStops /\ asked' = Slave
      /\ UNCHANGED <<rstore, rdb, head, committing, call, up, conns, aborts, stops>>
      /\ UNCHANGED shardVars
  BY DEF InitShards
<1>2. info' \in [Slave -> Info \cup {None}]
  <2>1. \A v \in Slave :
            [st |-> "create", shards |-> {s \in Shard : SlaveOf[s] = v}, slaves |-> {}] \in Info
    BY DEF Info
  <2> QED BY <2>1 DEF InitShards, TypeOK
<1>3. TypeOK'
  BY <1>1, <1>2 DEF TypeOK, shardVars
<1>4. JobsOK' /\ ListsOK' /\ ValidatedDelivered' /\ MasterOK' /\ RootsClosed'
  BY <1>1 DEF JobsOK, ListsOK, ValidatedDelivered, MasterOK, RootsClosed, Receivers, shardVars
<1>5. CallsOK' /\ MissingIsOnItsWay' /\ LostUnconnected' /\ StartOK'
  BY <1>1 DEF CallsOK, MissingIsOnItsWay, LostUnconnected, StartOK
<1> QED BY <1>3, <1>4, <1>5

\* A shard that a start initialises stores the head after its parent.
LEMMA InitFromRootBlockInv ==
    ASSUME Inv, NEW v \in Slave, NEW s \in Shard, InitFromRootBlock(v, s)
    PROVE  Inv'
<1> USE DEF Inv
<1>1. /\ info[v] # None /\ Accepts(s, head)
      /\ rstore' = [rstore EXCEPT ![s] = @ \cup {head}]
      /\ info' = [info EXCEPT ![v].shards = @ \ {s}]
      /\ UNCHANGED <<rdb, head, committing, call, up, conns, asked, aborts, stops>>
      /\ UNCHANGED shardVars
  BY DEF InitFromRootBlock
<1>2. info[v] \in Info
  BY <1>1 DEF TypeOK
<1>3. ~up /\ stops # 0
  BY <1>1 DEF StartOK
<1>4. info' \in [Slave -> Info \cup {None}] /\ \A w \in Slave : info[w] = None => info'[w] = None
  BY <1>1, <1>2 DEF TypeOK, Info
<1>5. TypeOK'
  BY <1>1, <1>4 DEF TypeOK, shardVars
<1>6. JobsOK' /\ ListsOK' /\ ValidatedDelivered' /\ MasterOK'
  BY <1>1 DEF JobsOK, ListsOK, ValidatedDelivered, MasterOK, Receivers, shardVars
<1>7. RootsClosed'
  BY <1>1 DEF RootsClosed, Accepts, TypeOK
<1>8. CallsOK' /\ MissingIsOnItsWay' /\ LostUnconnected' /\ StartOK'
  BY <1>1, <1>3, <1>4 DEF CallsOK, MissingIsOnItsWay, LostUnconnected, StartOK
<1> QED BY <1>5, <1>6, <1>7, <1>8

\* The other steps of a handler of MasterInfo change connections and the handler itself,
\* and the last answer ends the start.
LEMMA InfoInv ==
    ASSUME Inv, NEW v \in Slave,
           \/ \E s \in Shard : InitRefused(v, s)
           \/ DropConns(v)
           \/ \E w \in Slave : Ping(v, w)
           \/ AnswerInfo(v)
    PROVE  Inv'
<1> USE DEF Inv
<1>1. /\ info[v] # None
      /\ UNCHANGED <<rstore, rdb, head, committing, call, stops>> /\ UNCHANGED shardVars
  BY DEF InitRefused, DropConns, Ping, AnswerInfo
<1>2. info[v] \in Info
  BY <1>1 DEF TypeOK
<1>3. ~up /\ stops # 0
  BY <1>1 DEF StartOK
<1>4. /\ info' \in [Slave -> Info \cup {None}]
      /\ \A w \in Slave : info[w] = None => info'[w] = None
  <2>1. CASE \E s \in Shard : InitRefused(v, s)
    BY <2>1 DEF InitRefused, TypeOK
  <2>2. CASE DropConns(v)
    BY <2>2, <1>2 DEF DropConns, TypeOK, Info
  <2>3. CASE \E w \in Slave : Ping(v, w)
    BY <2>3, <1>2 DEF Ping, TypeOK, Info
  <2>4. CASE AnswerInfo(v)
    BY <2>4 DEF AnswerInfo, TypeOK
  <2> QED BY <2>1, <2>2, <2>3, <2>4
<1>5. conns' \in [Slave -> SUBSET Slave] /\ asked' \subseteq Slave
      /\ up' \in BOOLEAN /\ aborts' \in 0 .. MaxAborts
  <2>1. CASE \E s \in Shard : InitRefused(v, s)
    BY <2>1 DEF InitRefused, TypeOK
  <2>2. CASE DropConns(v)
    BY <2>2 DEF DropConns, TypeOK
  <2>3. CASE \E w \in Slave : Ping(v, w)
    <3>1. PICK w \in Slave : Ping(v, w)
      BY <2>3
    <3>2. conns' \in [Slave -> SUBSET Slave]
      BY <3>1 DEF Ping, TypeOK
    <3>3. aborts' \in 0 .. MaxAborts
      BY <3>1, BlockAssumption DEF Ping, TypeOK
    <3> QED BY <3>1, <3>2, <3>3 DEF Ping, TypeOK
  <2>4. CASE AnswerInfo(v)
    BY <2>4 DEF AnswerInfo, TypeOK
  <2> QED BY <2>1, <2>2, <2>3, <2>4
<1>6. TypeOK'
  BY <1>1, <1>4, <1>5 DEF TypeOK, shardVars
<1>7. JobsOK' /\ ListsOK' /\ ValidatedDelivered' /\ MasterOK' /\ RootsClosed'
  BY <1>1 DEF JobsOK, ListsOK, ValidatedDelivered, MasterOK, RootsClosed, Receivers, shardVars
<1>8. MissingIsOnItsWay' /\ LostUnconnected'
  BY <1>1, <1>3 DEF MissingIsOnItsWay, LostUnconnected
<1>9. CallsOK' /\ StartOK'
  <2>1. CASE \E s \in Shard : InitRefused(v, s)
    BY <2>1, <1>1, <1>3 DEF InitRefused, CallsOK, StartOK
  <2>2. CASE DropConns(v) \/ \E w \in Slave : Ping(v, w)
    BY <2>2, <1>1, <1>3, <1>4 DEF DropConns, Ping, CallsOK, StartOK
  <2>3. CASE AnswerInfo(v)
    <3>1. /\ info'[v] = None /\ asked' = asked \ {v} /\ up' = (asked = {v})
          /\ \A w \in Slave : w # v => info'[w] = info[w]
      BY <2>3 DEF AnswerInfo, TypeOK
    <3>2. CASE asked = {v}
      BY <3>1, <3>2, <1>1, <1>3 DEF CallsOK, StartOK
    <3>3. CASE asked # {v}
      BY <3>1, <3>3, <1>1, <1>3 DEF CallsOK, StartOK
    <3> QED BY <3>2, <3>3
  <2> QED BY <2>1, <2>2, <2>3
<1> QED BY <1>6, <1>7, <1>8, <1>9

-----------------------------------------------------------------------------
\* A step that changes nothing keeps the invariant.
LEMMA StutterInv ==
    ASSUME Inv, UNCHANGED vars
    PROVE  Inv'
<1> USE DEF Inv, vars, shardVars, startVars
<1>1. TypeOK' /\ JobsOK' /\ ListsOK'
  BY DEF TypeOK, JobsOK, ListsOK, Receivers
<1>2. MasterOK' /\ CallsOK' /\ RootsClosed' /\ StartOK'
  BY DEF MasterOK, CallsOK, RootsClosed, StartOK
<1>3. ValidatedDelivered' /\ LostUnconnected' /\ MissingIsOnItsWay'
  BY DEF ValidatedDelivered, LostUnconnected, MissingIsOnItsWay, Receivers, Reaches
<1> QED BY <1>1, <1>2, <1>3

\* Every step keeps the invariant.
LEMMA NextInv == Inv /\ [Next]_vars => Inv'
<1> SUFFICES ASSUME Inv, [Next]_vars PROVE Inv'
  OBVIOUS
<1>1. ASSUME NEW s \in Shard, ShardNext(s) PROVE Inv'
  <2>1. CASE AddMinorBlock(s)
    BY <2>1, InsertMinorInv DEF AddMinorBlock
  <2>2. CASE AddBlockListForSync(s)
    <3>1. PICK r \in RBlock \ rdb :
              InsertMinor(s, {m \in Headers[r] : ShardOf[m] = s /\ m \notin validated})
      BY <2>2 DEF AddBlockListForSync
    <3>2. {m \in Headers[r] : ShardOf[m] = s /\ m \notin validated} \in SUBSET MBlock
      BY BlockAssumption
    <3> QED BY <3>1, <3>2, InsertMinorInv
  <2>3. CASE \E t \in Shard : SendList(s, t)
    BY <2>3, SendListInv
  <2>4. CASE ReportHeaders(s) \/ AbortJob(s)
    BY <2>4, EndOfJobInv
  <2> QED BY <1>1, <2>1, <2>2, <2>3, <2>4 DEF ShardNext
<1>2. ASSUME NEW c \in Caller, CallNext(c) PROVE Inv'
  BY <1>2, AddRootBlockInv, RejectRootBlockInv, ShardAddsInv, ShardRefusesInv,
     RootBlockSentInv, StopInv DEF CallNext
<1>3. ASSUME NEW v \in Slave, StartNext(v) PROVE Inv'
  BY <1>3, InitFromRootBlockInv, InfoInv DEF StartNext
<1>4. CASE Crash \/ InitShards
  BY <1>4, StopInv, InitShardsInv
<1>5. CASE UNCHANGED vars
  BY <1>5, StutterInv
<1> QED BY <1>1, <1>2, <1>3, <1>4, <1>5 DEF Next

\* In every reachable state, whatever the blocks, shards, slaves, callers and bounds are:
\* the lists of reported headers are delivered (AddMinorBlock, AddBlockListForSync) or were
\* dropped for want of a connection (AddXshardTxList), which before the first restart is
\* the fault of a ping; and as long as the master has not stopped a stored root block is at
\* every shard or on its way (AddRootBlock of the master).
THEOREM DeliveredAlways == Spec => []ListsAccounted
<1>1. Inv => ListsAccounted
  BY DEF Inv, ListsAccounted
<1> QED BY InitInv, NextInv, <1>1, PTL DEF Spec

\* In every reachable state, a shard refuses a root block over its headers only when a
\* list for it was dropped (AddRootBlock of MinorBlockChain): the master takes only
\* reported headers, their blocks are stored, and sender and receiver agree on which
\* lists there are, also while a restarted master initialises the shards.
THEOREM NeverRefusedAlways == Spec => []HeadersNeverRefused
<1>1. Inv => HeadersNeverRefused
  BY NeverRefused
<1> QED BY InitInv, NextInv, <1>1, PTL DEF Spec

-----------------------------------------------------------------------------
(* The calls between the master and its slaves (ClusterApi).               *)

\* What the tables of a call join.
LEMMA JoinedFacts ==
  ASSUME NEW f, NEW g, NEW op
  PROVE  /\ DOMAIN Joined(f, g) = DOMAIN f \cup DOMAIN g
         /\ op \in DOMAIN f => Joined(f, g)[op] = f[op]
         /\ op \in DOMAIN g /\ op \notin DOMAIN f => Joined(f, g)[op] = g[op]
  BY DEF Joined

LEMMA StubDomains ==
  /\ DOMAIN TxStubs = {"AddTransaction", "ExecuteTransaction", "GetTransaction", "GetTransactionReceipt",
                       "GetTransactionListByAddress", "GetAllTx"}
  /\ DOMAIN StateStubs = {"GetLogs", "EstimateGas", "GetStorageAt", "GetCode", "GasPrice", "GetWork", "SubmitWork"}
  /\ DOMAIN ClusterStubs = {"GetUnconfirmedHeaderList", "GetAccountData", "GenTx"}
  /\ DOMAIN PeerStubs = {"AddTransactions", "GetMinorBlockList", "GetMinorBlockHeaderListWithSkip",
                         "GetMinorBlockHeaderList", "HandleNewTip", "HandleNewMinorBlock",
                         "AddMinorBlockListForSync", "SetMining", "CheckMinorBlocksInRoot", "GetMinorBlock",
                         "GetRootChainStakes"}
  BY DEF TxStubs, StateStubs, ClusterStubs, PeerStubs

LEMMA HandlerDomains ==
  /\ DOMAIN ClusterHandlers = {"GenTx", "GetUnconfirmedHeaderList", "GetAccountData", "AddTransaction", "GetMinorBlock"}
  /\ DOMAIN TxHandlers = {"GetTransaction", "ExecuteTransaction", "GetTransactionReceipt",
                          "GetTransactionListByAddress", "GetAllTx", "GetLogs"}
  /\ DOMAIN StateHandlers = {"EstimateGas", "GetStorageAt", "GetCode", "GasPrice", "GetWork", "SubmitWork"}
  /\ DOMAIN SyncHandlers = {"GetRootChainStakes", "AddMinorBlockListForSync", "GetMinorBlockList",
                            "GetMinorBlockHeaderListWithSkip", "GetMinorBlockHeaderList"}
  /\ DOMAIN PeerHandlers = {"HandleNewTip", "AddTransactions", "HandleNewMinorBlock", "SetMining",
                            "CheckMinorBlocksInRoot"}
  BY DEF ClusterHandlers, TxHandlers, StateHandlers, SyncHandlers, PeerHandlers

\* Every stub but the one of GetAllTx reads what the handler of its operation writes.
LEMMA StubsReadable == \A op \in DOMAIN Stubs : op # "GetAllTx" => Readable(op)
<1>1. ASSUME NEW op \in DOMAIN TxStubs PROVE Stubs[op] = TxStubs[op] 
  BY DEF Stubs, Joined
<1>2. ASSUME NEW op \in DOMAIN StateStubs PROVE Stubs[op] = StateStubs[op]
  BY StubDomains DEF Stubs, Joined
<1>3. ASSUME NEW op \in DOMAIN ClusterStubs PROVE Stubs[op] = ClusterStubs[op]
  BY StubDomains DEF Stubs, Joined
<1>4. ASSUME NEW op \in DOMAIN PeerStubs PROVE Stubs[op] = PeerStubs[op]
  BY StubDomains DEF Stubs, Joined
<1>5. ASSUME NEW op \in DOMAIN ClusterHandlers PROVE Handlers[op] = ClusterHandlers[op]
  BY DEF Handlers, Joined
<1>6. ASSUME NEW op \in DOMAIN TxHandlers PROVE Handlers[op] = TxHandlers[op]
  BY HandlerDomains DEF Handlers, Joined
<1>7. ASSUME NEW op \in DOMAIN StateHandlers PROVE Handlers[op] = StateHandlers[op]
  BY HandlerDomains DEF Handlers, Joined
<1>8. ASSUME NEW op \in DOMAIN SyncHandlers PROVE Handlers[op] = SyncHandlers[op]
  BY HandlerDomains DEF Handlers, Joined
<1>9. ASSUME NEW op \in DOMAIN PeerHandlers PROVE Handlers[op] = PeerHandlers[op]
  BY HandlerDomains DEF Handlers, Joined
<1>a. ASSUME NEW op \in DOMAIN TxStubs, op # "GetAllTx" PROVE Readable(op)
  <2>1. CASE op = "AddTransaction"
    <3>1. TxStubs[op].reads = NoData
      BY <2>1 DEF TxStubs, Stub
    <3> QED
      BY <3>1, <1>1 DEF Readable
  <2>2. CASE op # "AddTransaction"
    <3>1. op \in DOMAIN TxHandlers
      BY <1>a, <2>2, StubDomains, HandlerDomains
    <3>2. TxStubs[op].reads = TxHandlers[op].writes
      BY <1>a, <2>2, StubDomains DEF TxStubs, TxHandlers, Stub, Handler
    <3> QED
      BY <3>1, <3>2, <1>1, <1>6 DEF Readable
  <2> QED
    BY <2>1, <2>2
<1>b. ASSUME NEW op \in DOMAIN StateStubs PROVE Readable(op)
  <2>1. CASE op = "GetLogs"
    <3>1. op \in DOMAIN TxHandlers /\ StateStubs[op].reads = TxHandlers[op].writes
      BY <2>1, HandlerDomains DEF StateStubs, TxHandlers, Stub, Handler
    <3> QED
      BY <3>1, <1>2, <1>6 DEF Readable
  <2>2. CASE op # "GetLogs"
    <3>1. op \in DOMAIN StateHandlers
      BY <2>2, StubDomains, HandlerDomains
    <3>2. StateStubs[op].reads = StateHandlers[op].writes
      BY <2>2, StubDomains DEF StateStubs, StateHandlers, Stub, Handler
    <3> QED
      BY <3>1, <3>2, <1>2, <1>7 DEF Readable
  <2> QED
    BY <2>1, <2>2
<1>c. ASSUME NEW op \in DOMAIN ClusterStubs PROVE Readable(op)
  <2>1. op \in DOMAIN ClusterHandlers
    BY StubDomains, HandlerDomains
  <2>2. ClusterStubs[op].reads = ClusterHandlers[op].writes
    BY StubDomains DEF ClusterStubs, ClusterHandlers, Stub, Handler
  <2> QED
    BY <2>1, <2>2, <1>3, <1>5 DEF Readable
<1>d. ASSUME NEW op \in DOMAIN PeerStubs PROVE Readable(op)
  <2>1. CASE op \in {"AddMinorBlockListForSync", "GetRootChainStakes"}
    <3>1. op \in DOMAIN SyncHandlers /\ PeerStubs[op].reads = SyncHandlers[op].writes
      BY <2>1, HandlerDomains DEF PeerStubs, SyncHandlers, Stub, Handler
    <3> QED
      BY <3>1, <1>4, <1>8 DEF Readable
  <2>2. CASE op = "GetMinorBlock"
    <3>1. op \in DOMAIN ClusterHandlers /\ PeerStubs[op].reads = ClusterHandlers[op].writes
      BY <2>2, HandlerDomains DEF PeerStubs, ClusterHandlers, Stub, Handler
    <3> QED
      BY <3>1, <1>4, <1>5 DEF Readable
  <2>3. CASE op \notin {"AddMinorBlockListForSync", "GetRootChainStakes", "GetMinorBlock"}
    <3>1. PeerStubs[op].reads \in {NoData, Bytes}
      BY <2>3, StubDomains DEF PeerStubs, Stub
    <3> QED
      BY <3>1, <1>4 DEF Readable
  <2> QED
    BY <2>1, <2>2, <2>3
<1>e. DOMAIN Stubs = (DOMAIN TxStubs \cup DOMAIN StateStubs) \cup (DOMAIN ClusterStubs \cup DOMAIN PeerStubs)
  BY DEF Stubs, Joined
<1> QED
  BY <1>a, <1>b, <1>c, <1>d, <1>e

MasterStates == {"down", "pinging", "sharding", "running"}

ApiTypes ==
    /\ DOMAIN slaveUp = ApiSlaves /\ DOMAIN slavesConn = ApiSlaves /\ DOMAIN pinging = ApiSlaves
    /\ DOMAIN xshardLists = ApiSlaves
    /\ shards \in [ApiSlaves -> SUBSET FullShardIds] /\ seen \in [ApiSlaves -> Nat]
    /\ rootTip \in Nat /\ crashes \in Nat /\ starts \in Nat
    /\ DOMAIN master = {"at", "left"} /\ master.at \in MasterStates
    /\ spread # NoCall => DOMAIN spread = {"height", "left", "tries", "failed"} /\ spread.height \in Nat
    /\ apiJob # NoCall => DOMAIN apiJob = {"by", "shard", "on", "to"} /\ apiJob.by \in ApiSlaves

\* A slave has shards of the configuration only, before and after CreateShards.
LEMMA CreateTypes ==
  ASSUME ApiTypes, NEW v \in ApiSlaves, NEW h \in Nat, NEW again, NEW endpoint, NEW ok,
         CreateShards(v, h, again, endpoint, ok)
  PROVE  /\ shards' \in [ApiSlaves -> SUBSET FullShardIds] /\ seen' \in [ApiSlaves -> Nat]
         /\ DOMAIN xshardLists' = ApiSlaves
<1>1. Due(v, h) \subseteq FullShardIds
  BY ApiAssumption DEF Due
<1>2. shards[v] \subseteq FullShardIds
  BY DEF ApiTypes
<1>3. PICK ss \in SUBSET FullShardIds : shards' = [shards EXCEPT ![v] = ss] \/ shards' = shards
  <2>1. shards[v] \cup (Due(v, h) \ shards[v]) \in SUBSET FullShardIds /\ {} \in SUBSET FullShardIds
    BY <1>1, <1>2
  <2>2. \/ shards' = [shards EXCEPT ![v] = shards[v] \cup (Due(v, h) \ shards[v])]
        \/ shards' = [shards EXCEPT ![v] = {}]
        \/ shards' = shards
    BY DEF CreateShards
  <2> QED
    BY <2>1, <2>2
<1>4. seen' = [seen EXCEPT ![v] = h] \/ seen' = seen
  BY DEF CreateShards
<1>5. xshardLists' = xshardLists \/ DOMAIN xshardLists' = ApiSlaves
  BY DEF CreateShards, WithLists
<1> QED
  BY <1>3, <1>4, <1>5 DEF ApiTypes

LEMMA ApiTypesStep == ApiTypes /\ [ApiNext]_apiVars => ApiTypes'
<1> SUFFICES ASSUME ApiTypes, [ApiNext]_apiVars PROVE ApiTypes'
  OBVIOUS
<1>g. MasterGone = [at |-> "down", left |-> {}]
  BY DEF MasterGone
<1>u. CASE UNCHANGED apiVars
  BY <1>u DEF apiVars, ApiTypes
<1>1. CASE StartMaster
  BY <1>1 DEF StartMaster, listVars, ApiTypes, MasterStates
<1>2. CASE InitConnManager
  <2>1. \/ master' = [at |-> "down", left |-> {}] \/ master' = [at |-> "sharding", left |-> ApiSlaves]
        \/ \E x : master' = [master EXCEPT !.left = x]
    BY <1>2, <1>g DEF InitConnManager
  <2>2. DOMAIN master' = {"at", "left"} /\ master'.at \in MasterStates
    BY <2>1 DEF ApiTypes, MasterStates
  <2> QED
    BY <1>2, <2>2 DEF InitConnManager, listVars, ApiTypes
<1>3. CASE SpreadEnds
  <2>1. DOMAIN master' = {"at", "left"} /\ master'.at \in MasterStates
    BY <1>3, <1>g DEF SpreadEnds, ApiTypes, MasterStates
  <2> QED
    BY <1>3, <2>1 DEF SpreadEnds, listVars, ApiTypes
<1>4. CASE BroadcastXshardTxList
  <2>1. PICK t \in apiJob.to :
           /\ xshardLists' = WithLists({<<<<apiJob.shard, apiJob.on>>, t, w>> : w \in ListHolders(apiJob.by, t)})
           /\ apiJob' = IF ListTaken(apiJob.by, t) THEN [apiJob EXCEPT !.to = @ \ {t}] ELSE NoCall
    BY <1>4 DEF BroadcastXshardTxList
  <2>2. DOMAIN xshardLists' = ApiSlaves
    BY <2>1 DEF WithLists
  <2>3. apiJob' # NoCall => DOMAIN apiJob' = {"by", "shard", "on", "to"} /\ apiJob'.by \in ApiSlaves
    BY <1>4, <2>1 DEF BroadcastXshardTxList, ApiTypes
  <2> QED
    BY <1>4, <2>2, <2>3 DEF BroadcastXshardTxList, bootVars, ApiTypes
<1>5. CASE SendMinorBlockHeaderToMaster
  BY <1>5 DEF SendMinorBlockHeaderToMaster, bootVars, ApiTypes
<1>6. CASE AskEnds
  BY <1>6 DEF AskEnds, bootVars, listVars, ApiTypes
<1>7. ASSUME NEW v \in ApiSlaves, MasterInfo(v) PROVE ApiTypes'
  <2>1. /\ shards' \in [ApiSlaves -> SUBSET FullShardIds] /\ seen' \in [ApiSlaves -> Nat]
        /\ DOMAIN xshardLists' = ApiSlaves
    BY <1>7, CreateTypes DEF MasterInfo, ApiTypes
  <2>2. DOMAIN master' = {"at", "left"} /\ master'.at \in MasterStates
    <3>1. master' = master \/ master' = MasterGone
      BY <1>7, Zenon DEF MasterInfo
    <3> QED
      BY <3>1, <1>g DEF ApiTypes, MasterStates
  <2>3. DOMAIN slavesConn' = ApiSlaves /\ DOMAIN pinging' = ApiSlaves
    BY <1>7 DEF MasterInfo, ApiTypes
  <2> QED
    BY <1>7, <2>1, <2>2, <2>3 DEF MasterInfo, ApiTypes
<1>8. ASSUME NEW v \in ApiSlaves, SetConnect(v) PROVE ApiTypes'
  <2>1. DOMAIN master' = {"at", "left"} /\ master'.at \in MasterStates
    BY <1>8 DEF SetConnect, ApiTypes, MasterStates
  <2> QED
    BY <1>8, <2>1 DEF SetConnect, listVars, ApiTypes
<1>9. ASSUME NEW v \in ApiSlaves, SlaveCrash(v) PROVE ApiTypes'
  <2>1. DOMAIN master' = {"at", "left"} /\ master'.at \in MasterStates
    BY <1>9, <1>g DEF SlaveCrash, ApiTypes, MasterStates
  <2>2. shards' \in [ApiSlaves -> SUBSET FullShardIds]
    BY <1>9 DEF SlaveCrash, ApiTypes
  <2>3. crashes' \in Nat
    BY <1>9 DEF SlaveCrash, ApiTypes
  <2> QED
    BY <1>9, <2>1, <2>2, <2>3 DEF SlaveCrash, ApiTypes
<1>10. ASSUME NEW v \in ApiSlaves, SlaveRestart(v) PROVE ApiTypes'
  BY <1>10 DEF SlaveRestart, listVars, ApiTypes
<1>11. ASSUME NEW v \in ApiSlaves, Heartbeat(v) PROVE ApiTypes'
  BY <1>11, <1>g DEF Heartbeat, listVars, ApiTypes, MasterStates
<1>12. ASSUME NEW v \in ApiSlaves, SlaveAddRootBlock(v) PROVE ApiTypes'
  <2>1. /\ shards' \in [ApiSlaves -> SUBSET FullShardIds] /\ seen' \in [ApiSlaves -> Nat]
        /\ DOMAIN xshardLists' = ApiSlaves
    BY <1>12, CreateTypes DEF SlaveAddRootBlock, ApiTypes
  <2>2. DOMAIN spread' = {"height", "left", "tries", "failed"} /\ spread'.height \in Nat
    BY <1>12 DEF SlaveAddRootBlock, TryFails, ApiTypes
  <2> QED
    BY <1>12, <2>1, <2>2 DEF SlaveAddRootBlock, ApiTypes
<1>13. ASSUME NEW v \in ApiSlaves, Serve(v) PROVE ApiTypes'
  BY <1>13 DEF Serve, bootVars, listVars, ApiTypes
<1>14. ASSUME NEW v \in ApiSlaves, NEW s \in FullShardIds, MineBlock(v, s) PROVE ApiTypes'
  BY <1>14 DEF MineBlock, bootVars, ApiTypes
<1>15. ASSUME NEW h \in 1 .. MaxRootHeight, ApiAddRootBlock(h) PROVE ApiTypes'
  <2>1. h \in Nat
    BY <1>15 DEF ApiAddRootBlock, ApiTypes
  <2>2. rootTip' \in Nat
    BY <1>15, <2>1 DEF ApiAddRootBlock, ApiTypes
  <2> QED
    BY <1>15, <2>1, <2>2 DEF ApiAddRootBlock, bootVars, listVars, ApiTypes
<1>16. ASSUME NEW op, NEW b, Ask(op, b) PROVE ApiTypes'
  BY <1>16 DEF Ask, bootVars, listVars, ApiTypes
<1> QED
  BY <1>u, <1>1, <1>2, <1>3, <1>4, <1>5, <1>6, <1>7, <1>8, <1>9, <1>10, <1>11, <1>12, <1>13, <1>14,
     <1>15, <1>16 DEF ApiNext

\* The request under way: the slaves that have served it and those left are its route as
\* long as no call has failed, and what a call for a branch brings is the branch.
AskOK(q) ==
    /\ DOMAIN q = {"op", "branch", "left", "ok", "by", "data"}
    /\ q.op \in Ops
    /\ q.ok => Route(q.op, q.branch) # {} /\ q.by \cup q.left = Route(q.op, q.branch)
    /\ q.data \subseteq FullShardIds
    /\ q.op \notin ToEvery \cup {"GetRootChainStakes"} => q.data = IF q.by = {} THEN {} ELSE {q.branch}

AskInv == ask # NoCall => AskOK(ask)

LEMMA AskStep == ApiTypes /\ AskInv /\ [ApiNext]_apiVars => AskInv'
<1> SUFFICES ASSUME ApiTypes, AskInv, [ApiNext]_apiVars PROVE AskInv'
  OBVIOUS
<1>k. ASSUME UNCHANGED ask \/ ask' = NoCall PROVE AskInv'
  BY <1>k DEF AskInv, AskOK
<1>1. ASSUME NEW v \in ApiSlaves, Serve(v) PROVE AskInv'
  <2>0. ask # NoCall /\ AskOK(ask) /\ v \in ask.left
    BY <1>1 DEF Serve, AskInv
  <2>1. CASE ask' = [ask EXCEPT !.left = @ \ {v}, !.ok = FALSE]
    <3>1. /\ DOMAIN ask' = DOMAIN ask /\ ask'.op = ask.op /\ ask'.branch = ask.branch /\ ~ask'.ok
          /\ ask'.by = ask.by /\ ask'.data = ask.data
      BY <2>0, <2>1 DEF AskOK
    <3> QED
      BY <3>1, <2>0 DEF AskInv, AskOK
  <2>2. ASSUME NEW arrives \in BOOLEAN,
               ask.op \in ToEvery \/ Serves(v, ask.op, ask.branch) # {},
               ask' = [ask EXCEPT !.left = @ \ {v}, !.by = @ \cup {v},
                                  !.data = @ \cup Serves(v, ask.op, ask.branch),
                                  !.ok = @ /\ arrives]
        PROVE  AskInv'
    <3>1. /\ DOMAIN ask' = DOMAIN ask /\ ask'.op = ask.op /\ ask'.branch = ask.branch
          /\ ask'.by = ask.by \cup {v} /\ ask'.left = ask.left \ {v}
          /\ ask'.data = ask.data \cup Serves(v, ask.op, ask.branch)
      BY <2>0, <2>2 DEF AskOK
    <3>2. ask'.ok => ask.ok
      BY <2>0, <2>2 DEF AskOK
    <3>3. ask'.by \cup ask'.left = ask.by \cup ask.left
      BY <3>1, <2>0
    <3>4. Serves(v, ask.op, ask.branch) \subseteq FullShardIds
      BY DEF Serves, ServesAll, ServesBranch, ApiTypes
    <3>5. ASSUME ask.op \notin ToEvery \cup {"GetRootChainStakes"}
          PROVE  ask'.data = {ask.branch} /\ ask'.by # {}
      <4>1. Serves(v, ask.op, ask.branch) = {ask.branch}
        BY <3>5, <2>2 DEF Serves, ServesBranch
      <4>2. ask.data = IF ask.by = {} THEN {} ELSE {ask.branch}
        BY <3>5, <2>0 DEF AskOK
      <4> QED
        BY <4>1, <4>2, <3>1
    <3>6. /\ DOMAIN ask' = {"op", "branch", "left", "ok", "by", "data"} /\ ask'.op \in Ops
          /\ ask'.data \subseteq FullShardIds
      BY <3>1, <3>4, <2>0 DEF AskOK
    <3>7. ask'.ok => /\ Route(ask'.op, ask'.branch) # {}
                     /\ ask'.by \cup ask'.left = Route(ask'.op, ask'.branch)
      BY <3>1, <3>2, <3>3, <2>0 DEF AskOK
    <3>8. ask'.op \notin ToEvery \cup {"GetRootChainStakes"} =>
             ask'.data = IF ask'.by = {} THEN {} ELSE {ask'.branch}
      BY <3>1, <3>5
    <3> QED
      BY <3>6, <3>7, <3>8 DEF AskInv, AskOK
  <2> QED
    BY <1>1, <2>1, <2>2 DEF Serve
<1>2. ASSUME NEW op \in Ops, NEW b, Ask(op, b) PROVE AskInv'
  <2>1. /\ DOMAIN ask' = {"op", "branch", "left", "ok", "by", "data"}
        /\ ask'.op = op /\ ask'.branch = b /\ ask'.left = Route(op, b) /\ ask'.by = {} /\ ask'.data = {}
    BY <1>2 DEF Ask
  <2>2. ask'.ok => Route(op, b) # {}
    BY <1>2 DEF Ask
  <2> QED
    BY <2>1, <2>2 DEF AskInv, AskOK
<1>u. CASE UNCHANGED apiVars
  BY <1>u, <1>k DEF apiVars
<1>3. CASE StartMaster \/ InitConnManager \/ SpreadEnds \/ BroadcastXshardTxList
           \/ SendMinorBlockHeaderToMaster \/ AskEnds
  BY <1>3, <1>k DEF StartMaster, InitConnManager, SpreadEnds, BroadcastXshardTxList,
     SendMinorBlockHeaderToMaster, AskEnds
<1>4. ASSUME NEW v \in ApiSlaves, MasterInfo(v) \/ SlaveAddRootBlock(v) PROVE AskInv'
  <2>1. UNCHANGED ask
    BY <1>4 DEF MasterInfo, SlaveAddRootBlock
  <2> QED
    BY <2>1, <1>k
<1>5. ASSUME NEW v \in ApiSlaves, \/ SetConnect(v) \/ SlaveCrash(v) \/ SlaveRestart(v) \/ Heartbeat(v)
                                  \/ \E s \in FullShardIds : MineBlock(v, s)
      PROVE  AskInv'
  BY <1>5, <1>k DEF SetConnect, SlaveCrash, SlaveRestart, Heartbeat, MineBlock
<1>6. ASSUME NEW h, ApiAddRootBlock(h) PROVE AskInv'
  BY <1>6, <1>k DEF ApiAddRootBlock
<1> QED
  BY <1>u, <1>1, <1>2, <1>3, <1>4, <1>5, <1>6 DEF ApiNext

\* What AskOK and the tables say of a request that succeeds.
LEMMA ServedByAsk == AskInv => OkMeansServed
<1> SUFFICES ASSUME AskInv, ask # NoCall, Answered(ask), ask.op # "AddTransactions"
             PROVE  /\ ask.op \in ToBranch => ask.by = HasShard(ask.branch)
                    /\ ask.op \in ToEvery => ask.by = ApiSlaves
                    /\ ask.op = "GetAccountData" => ask.data = FullShardIds
                    /\ ask.op \notin ToEvery \cup {"GetRootChainStakes"} => ask.data = {ask.branch}
                    /\ ask.op # "GetAllTx" => Readable(ask.op)
  BY DEF OkMeansServed
<1>1. AskOK(ask) /\ ask.left = {} /\ ask.ok /\ Complete(ask)
  BY DEF AskInv, Answered
<1>2. ask.by = Route(ask.op, ask.branch) /\ ask.by # {}
  BY <1>1 DEF AskOK
<1>3. ask.op \in ToBranch => ask.by = HasShard(ask.branch)
  <2>1. ASSUME ask.op \in ToBranch
        PROVE  ask.op \notin ToEvery /\ ask.op # "GetRootChainStakes" /\ ask.op \notin ToFirst
    BY <2>1 DEF ToEvery, ToBranch, ToFirst, Lookups, AccountQueries, PeerQueries
  <2> QED
    BY <1>2, <2>1 DEF Route
<1>4. ask.op \in ToEvery => ask.by = ApiSlaves
  <2>1. ASSUME ask.op \in ToEvery
        PROVE  ask.op \notin ToBranch \cup PeersToBranch /\ ask.op # "GetRootChainStakes" /\ ask.op \notin ToFirst
    BY <2>1 DEF ToEvery, ToBranch, PeersToBranch, ToFirst, Lookups, AccountQueries, PeerQueries
  <2> QED
    BY <1>2, <2>1 DEF Route
<1>5. ask.op = "GetAccountData" => ask.data = FullShardIds
  <2>1. ask.data \subseteq FullShardIds /\ IsFiniteSet(FullShardIds)
    BY <1>1, ApiAssumption DEF AskOK
  <2> QED
    BY <2>1, <1>1, FS_Subset DEF Complete
<1>6. ask.op \notin ToEvery \cup {"GetRootChainStakes"} => ask.data = {ask.branch}
  BY <1>1, <1>2 DEF AskOK
<1>7. ask.op # "GetAllTx" => Readable(ask.op)
  BY <1>1, OpsAssumption, StubsReadable DEF AskOK
<1> QED
  BY <1>3, <1>4, <1>5, <1>6, <1>7

\* No slave has stopped and the master has started once at most.
Quiet == crashes = 0 /\ starts <= 1

\* Nothing has happened on the chains yet, and every slave is connected to all slaves.
Fresh == rootTip = 0 /\ spread = NoCall /\ apiJob = NoCall /\ \A v \in ApiSlaves : seen[v] = 0
Wired == \A v \in ApiSlaves : ApiSlaves \subseteq slavesConn[v]

\* The first start: MasterInfo empties the connections of a slave only while nothing has
\* happened, and the slaves that are through with it are connected to all.
BootOK ==
    /\ \A v \in ApiSlaves : slaveUp[v]
    /\ master.at = "pinging" => \A v \in ApiSlaves : pinging[v] = {}
    /\ master.at \in {"pinging", "sharding"} => Fresh
    /\ master.at = "sharding" => \A v \in ApiSlaves :
          /\ v \notin master.left => ApiSlaves \subseteq slavesConn[v]
          /\ pinging[v] # {} => ApiSlaves \subseteq slavesConn[v] \cup pinging[v]
    /\ master.at = "running" => Wired
    /\ ~Fresh => Wired
    /\ starts = 0 => master.at = "down" /\ Fresh /\ \A v \in ApiSlaves : pinging[v] = {}

BootInv == Quiet => BootOK

\* A step that leaves the connections and the start alone.
LEMMA BootKept ==
  ASSUME BootOK, UNCHANGED <<slaveUp, slavesConn, pinging, starts>>,
         master' = master \/ master' = MasterGone,
         (Fresh => Fresh') \/ master.at = "running"
  PROVE  BootOK'
<1>1. \A v \in ApiSlaves : slaveUp'[v]
  BY DEF BootOK
<1>2. master'.at = "down" \/ master' = master
  BY DEF MasterGone
<1>3. (Wired => Wired') /\ (~Fresh' => Wired)
  BY DEF BootOK, Wired
<1>4. master'.at \in {"pinging", "sharding"} => Fresh'
  BY <1>2 DEF BootOK
<1>5. starts' = 0 => master'.at = "down" /\ Fresh'
  BY <1>2 DEF BootOK
<1>6. /\ master'.at = "pinging" => \A v \in ApiSlaves : pinging'[v] = {}
      /\ master'.at = "sharding" => \A v \in ApiSlaves :
           /\ v \notin master'.left => ApiSlaves \subseteq slavesConn'[v]
           /\ pinging'[v] # {} => ApiSlaves \subseteq slavesConn'[v] \cup pinging'[v]
      /\ master'.at = "running" => Wired'
  BY <1>2, <1>3 DEF BootOK
<1> QED
  BY <1>1, <1>3, <1>4, <1>5, <1>6 DEF BootOK

LEMMA BootStep == ApiTypes /\ BootInv /\ [ApiNext]_apiVars => BootInv'
<1> SUFFICES ASSUME ApiTypes, BootInv, [ApiNext]_apiVars, Quiet' PROVE BootOK'
  BY DEF BootInv
<1>f. ASSUME UNCHANGED <<rootTip, spread, apiJob, seen>> PROVE Fresh' <=> Fresh
  BY <1>f DEF Fresh
<1>q. ASSUME UNCHANGED <<crashes, starts>> PROVE BootOK
  BY <1>q DEF Quiet, BootInv
<1>u. CASE UNCHANGED apiVars
  <2>1. UNCHANGED <<slaveUp, slavesConn, pinging, starts, crashes, master, rootTip, spread, apiJob, seen>>
    BY <1>u DEF apiVars
  <2> QED
    BY <2>1, <1>f, <1>q, BootKept
<1>1. CASE StartMaster
  <2>1. crashes = 0 /\ starts = 0
    BY <1>1 DEF StartMaster, Quiet, ApiTypes
  <2>2. BootOK /\ Fresh /\ Fresh'
    BY <1>1, <2>1, <1>f DEF BootInv, BootOK, Quiet, StartMaster, listVars
  <2>3. /\ master'.at = "pinging" /\ starts' = 1 /\ \A v \in ApiSlaves : pinging'[v] = {}
        /\ \A v \in ApiSlaves : slaveUp'[v]
    BY <1>1, <2>1, <2>2 DEF StartMaster, BootOK
  <2> QED
    BY <2>2, <2>3 DEF BootOK
<1>2. CASE InitConnManager
  <2>1. BootOK /\ Fresh /\ Fresh' /\ starts' # 0
    BY <1>2, <1>f, <1>q DEF InitConnManager, BootOK, listVars
  <2>2. /\ \/ master'.at = "down" \/ master' = [at |-> "sharding", left |-> ApiSlaves]
           \/ master'.at = "pinging"
        /\ \A v \in ApiSlaves : pinging'[v] = {} /\ slaveUp'[v]
    BY <1>2, <2>1 DEF InitConnManager, MasterGone, BootOK, ApiTypes
  <2> QED
    BY <2>1, <2>2 DEF BootOK
<1>3. CASE SpreadEnds
  <2>1. BootOK /\ ~Fresh
    BY <1>3, <1>q DEF SpreadEnds, Fresh
  <2> QED
    BY <1>3, <2>1, BootKept DEF SpreadEnds
<1>4. CASE BroadcastXshardTxList \/ SendMinorBlockHeaderToMaster
  <2>1. UNCHANGED bootVars /\ ~Fresh
    BY <1>4 DEF BroadcastXshardTxList, SendMinorBlockHeaderToMaster, Fresh
  <2> QED
    BY <2>1, <1>q, BootKept DEF bootVars
<1>5. CASE AskEnds \/ (\E v \in ApiSlaves : Serve(v)) \/ (\E op, b : Ask(op, b))
  <2>1. UNCHANGED bootVars /\ UNCHANGED <<rootTip, spread, apiJob>>
    BY <1>5 DEF AskEnds, Serve, Ask, listVars
  <2> QED
    BY <2>1, <1>f, <1>q, BootKept DEF bootVars
<1>7. ASSUME NEW v \in ApiSlaves, MasterInfo(v) PROVE BootOK'
  <2>1. BootOK /\ Fresh /\ master.at = "sharding" /\ v \in master.left /\ starts' # 0
        /\ UNCHANGED <<slaveUp, rootTip, spread, apiJob>>
    BY <1>7, <1>q DEF MasterInfo, BootOK
  <2>2. seen' = [seen EXCEPT ![v] = rootTip] \/ seen' = seen
    BY <1>7 DEF MasterInfo, CreateShards
  <2>3. Fresh'
    BY <2>1, <2>2 DEF Fresh, ApiTypes
  <2>4. \/ /\ pinging' = [pinging EXCEPT ![v] = ApiSlaves]
           /\ slavesConn' = [slavesConn EXCEPT ![v] = {}] /\ master' = master
        \/ master' = MasterGone
    BY <1>7, Zenon DEF MasterInfo
  <2>5. CASE master' = MasterGone
    BY <2>5, <2>1, <2>3 DEF BootOK, MasterGone
  <2>6. CASE /\ pinging' = [pinging EXCEPT ![v] = ApiSlaves]
             /\ slavesConn' = [slavesConn EXCEPT ![v] = {}] /\ master' = master
    <3>1. ASSUME NEW w \in ApiSlaves
          PROVE  /\ w \notin master'.left => ApiSlaves \subseteq slavesConn'[w]
                 /\ pinging'[w] # {} => ApiSlaves \subseteq slavesConn'[w] \cup pinging'[w]
      BY <2>1, <2>6 DEF BootOK, ApiTypes
    <3> QED
      BY <3>1, <2>1, <2>3, <2>6 DEF BootOK
  <2> QED
    BY <2>4, <2>5, <2>6
<1>8. ASSUME NEW v \in ApiSlaves, SetConnect(v) PROVE BootOK'
  <2> DEFINE x == NextSlave(pinging[v])
  <2>1. /\ BootOK /\ UNCHANGED <<slaveUp, starts, crashes, rootTip, spread, apiJob, seen>>
        /\ pinging[v] # {} /\ (Fresh' <=> Fresh)
    BY <1>8, <1>f, <1>q DEF SetConnect, listVars
  <2>2. /\ slavesConn' = [slavesConn EXCEPT ![v] = IF slaveUp[x] THEN slavesConn[v] \cup {x} ELSE slavesConn[v]]
        /\ pinging' = [pinging EXCEPT ![v] = pinging[v] \ {x}]
        /\ master' = IF ~(pinging[v] = {x} /\ master.at = "sharding") THEN master
                     ELSE [at |-> IF master.left \ {v} = {} THEN "running" ELSE "sharding", left |-> master.left \ {v}]
    BY <1>8 DEF SetConnect
  <2> HIDE DEF x
  <2>3. \A w \in ApiSlaves : slavesConn[w] \subseteq slavesConn'[w]
    BY <2>2 DEF ApiTypes
  <2>4. \A w \in ApiSlaves \ {v} : pinging'[w] = pinging[w] /\ slavesConn'[w] = slavesConn[w]
    BY <2>2 DEF ApiTypes
  <2>5. ApiSlaves \subseteq slavesConn[v] \cup pinging[v] => ApiSlaves \subseteq slavesConn'[v] \cup pinging'[v]
    <3>1. x \in ApiSlaves => slaveUp[x]
      BY <2>1 DEF BootOK
    <3>2. pinging'[v] = pinging[v] \ {x} /\ (x \in ApiSlaves => slavesConn'[v] = slavesConn[v] \cup {x})
      BY <2>2, <3>1 DEF ApiTypes
    <3> QED
      BY <3>2, <2>3
  <2>6. Wired => Wired'
    BY <2>3 DEF Wired
  <2>7. CASE ~(pinging[v] = {x} /\ master.at = "sharding")
    <3>1. master' = master
      BY <2>2, <2>7
    <3>2. master.at # "pinging"
      BY <2>1 DEF BootOK
    <3>3. ASSUME master.at = "sharding", NEW w \in ApiSlaves
          PROVE  /\ w \notin master.left => ApiSlaves \subseteq slavesConn'[w]
                 /\ pinging'[w] # {} => ApiSlaves \subseteq slavesConn'[w] \cup pinging'[w]
      BY <3>3, <2>1, <2>3, <2>4, <2>5 DEF BootOK
    <3> QED
      BY <3>1, <3>2, <3>3, <2>1, <2>6 DEF BootOK
  <2>8. CASE pinging[v] = {x} /\ master.at = "sharding"
    <3>1. /\ master'.at = IF master.left \ {v} = {} THEN "running" ELSE "sharding"
          /\ master'.left = master.left \ {v}
      BY <2>2, <2>8
    <3>2. ApiSlaves \subseteq slavesConn'[v]
      <4>1. ApiSlaves \subseteq slavesConn[v] \cup pinging[v]
        BY <2>1, <2>8 DEF BootOK
      <4>2. pinging'[v] = {}
        BY <2>2, <2>8 DEF ApiTypes
      <4> QED
        BY <4>1, <4>2, <2>5
    <3>3. ASSUME NEW w \in ApiSlaves
          PROVE  /\ w \notin master'.left => ApiSlaves \subseteq slavesConn'[w]
                 /\ pinging'[w] # {} => ApiSlaves \subseteq slavesConn'[w] \cup pinging'[w]
      BY <3>1, <3>2, <2>1, <2>3, <2>4, <2>8 DEF BootOK
    <3>4. master'.at = "running" => Wired'
      BY <3>1, <3>3 DEF Wired
    <3>5. Fresh' /\ starts' # 0 /\ \A w \in ApiSlaves : slaveUp'[w]
      BY <2>1, <2>8 DEF BootOK
    <3> QED
      BY <3>1, <3>3, <3>4, <3>5 DEF BootOK
  <2> QED
    BY <2>7, <2>8
<1>9. ASSUME NEW v \in ApiSlaves, SlaveCrash(v) PROVE BootOK'
  <2>1. crashes' = crashes + 1
    BY <1>9, Zenon DEF SlaveCrash
  <2>2. crashes \in Nat
    BY Zenon DEF ApiTypes
  <2>3. crashes' # 0
    BY <2>1, <2>2, SMT
  <2> QED
    BY <2>3, Zenon DEF Quiet
<1>10. ASSUME NEW v \in ApiSlaves, SlaveRestart(v) PROVE BootOK'
  BY <1>10, <1>q DEF SlaveRestart, BootOK
<1>11. ASSUME NEW v \in ApiSlaves, Heartbeat(v) PROVE BootOK'
  <2>1. BootOK /\ (Fresh => Fresh')
    BY <1>11, <1>q DEF Heartbeat, Fresh, listVars
  <2> QED
    BY <1>11, <2>1, BootKept DEF Heartbeat
<1>12. ASSUME NEW v \in ApiSlaves, SlaveAddRootBlock(v) PROVE BootOK'
  <2>1. ~Fresh /\ UNCHANGED <<master, slaveUp, slavesConn, pinging, crashes, starts>>
    BY <1>12, Zenon DEF SlaveAddRootBlock, Fresh
  <2> QED
    BY <2>1, <1>q, BootKept
<1>14. ASSUME NEW v \in ApiSlaves, NEW s \in FullShardIds, MineBlock(v, s) PROVE BootOK'
  <2>1. ~Fresh /\ UNCHANGED bootVars
    <3>1. seen[v] > RootHeight[s] /\ UNCHANGED bootVars
      BY <1>14, Zenon DEF MineBlock
    <3>2. seen[v] \in Nat /\ RootHeight[s] \in Nat
      BY ApiAssumption DEF ApiTypes
    <3>3. seen[v] # 0
      BY <3>1, <3>2, SMT
    <3> QED
      BY <3>1, <3>3, Zenon DEF Fresh
  <2> QED
    BY <2>1, <1>q, BootKept DEF bootVars
<1>15. ASSUME NEW h, ApiAddRootBlock(h) PROVE BootOK'
  BY <1>15, <1>q, BootKept DEF ApiAddRootBlock, bootVars
<1> QED
  BY <1>u, <1>1, <1>2, <1>3, <1>4, <1>5, <1>7, <1>8, <1>9, <1>10, <1>11, <1>12, <1>14, <1>15 DEF ApiNext

\* Every slave of shard t has the list of block b.
ListsAt(b, t) == \A w \in HasShard(t) : <<b, t>> \in xshardLists[w]

\* The broadcast under way has reached the slaves of the shards it has been to.
JobOK ==
    apiJob # NoCall => \A t \in InitializedBefore(apiJob.on) \ {apiJob.shard} :
                           t \notin apiJob.to => ListsAt(<<apiJob.shard, apiJob.on>>, t)

ListInv == (Quiet => JobOK) /\ ReportedDelivered

\* A step that adds lists, and reports genesis blocks only.
LEMMA ListsKept ==
  ASSUME ListInv, Quiet' => Quiet,
         \A w \in ApiSlaves : xshardLists[w] \subseteq xshardLists'[w],
         apiJob' = apiJob \/ apiJob' = NoCall,
         \A b \in reported' : b \in reported \/ ~(b[2] > RootHeight[b[1]])
  PROVE  ListInv'
<1>1. ASSUME NEW b, NEW t, ListsAt(b, t) PROVE ListsAt(b, t)'
  BY <1>1 DEF ListsAt, HasShard
<1>2. Quiet' => JobOK'
  BY <1>1 DEF ListInv, JobOK
<1>3. ASSUME Quiet', NEW b \in reported', b[2] > RootHeight[b[1]],
             NEW t \in InitializedBefore(b[2]) \ {b[1]}
      PROVE  ListsAt(b, t)'
  <2>1. ListsAt(b, t)
    BY <1>3 DEF ListInv, ReportedDelivered, ListsAt, Quiet
  <2> QED
    BY <2>1, <1>1
<1> QED
  BY <1>2, <1>3 DEF ListInv, ReportedDelivered, ListsAt, Quiet

LEMMA ListsGrow ==
  ASSUME NEW sent, xshardLists' = WithLists(sent), NEW w \in ApiSlaves
  PROVE  xshardLists'[w] = xshardLists[w] \cup {<<e[1], e[2]>> : e \in {x \in sent : x[3] = w}}
  BY DEF WithLists

\* CreateShards reports the genesis blocks of the shards it makes.
LEMMA CreateLists ==
  ASSUME ApiTypes, NEW v \in ApiSlaves, NEW h \in Nat, NEW endpoint, NEW ok,
         CreateShards(v, h, shards[v], endpoint, ok)
  PROVE  /\ \A w \in ApiSlaves : xshardLists[w] \subseteq xshardLists'[w]
         /\ \A b \in reported' : b \in reported \/ ~(b[2] > RootHeight[b[1]])
<1> DEFINE made == {s \in (Due(v, h) \ shards[v]) \cup shards[v] : RootHeight[s] = h}
<1>1. \/ /\ xshardLists' = WithLists(GenesisLists(v, made, h))
         /\ reported' = reported \cup {<<s, h>> : s \in made}
      \/ xshardLists' = xshardLists /\ reported' = reported
  BY DEF CreateShards
<1>2. \A s \in made : RootHeight[s] = h
  OBVIOUS
<1> HIDE DEF made
<1>3. \A w \in ApiSlaves : xshardLists[w] \subseteq xshardLists'[w]
  BY <1>1, ListsGrow
<1>4. ASSUME NEW s \in made PROVE ~(<<s, h>>[2] > RootHeight[<<s, h>>[1]])
  BY <1>2
<1> QED
  BY <1>1, <1>3, <1>4

LEMMA ListStep == ApiTypes /\ BootInv /\ ListInv /\ [ApiNext]_apiVars => ListInv'
<1> SUFFICES ASSUME ApiTypes, BootInv, ListInv, [ApiNext]_apiVars PROVE ListInv'
  OBVIOUS
<1>q. ASSUME UNCHANGED <<crashes, starts>> PROVE Quiet' <=> Quiet
  BY <1>q DEF Quiet
<1>k. ASSUME UNCHANGED <<xshardLists, reported>>, Quiet' => Quiet, apiJob' = apiJob \/ apiJob' = NoCall
      PROVE  ListInv'
  BY <1>k, ListsKept
<1>u. CASE UNCHANGED apiVars
  BY <1>u, <1>q, <1>k DEF apiVars
<1>1. CASE StartMaster
  <2>1. Quiet' => Quiet
    BY <1>1 DEF StartMaster, Quiet, ApiTypes
  <2> QED
    BY <1>1, <2>1, <1>k DEF StartMaster, listVars
<1>2. CASE InitConnManager \/ SpreadEnds
  BY <1>2, <1>q, <1>k DEF InitConnManager, SpreadEnds, listVars
<1>4. CASE BroadcastXshardTxList
  <2>1. PICK t \in apiJob.to :
           /\ xshardLists' = WithLists({<<<<apiJob.shard, apiJob.on>>, t, w>> : w \in ListHolders(apiJob.by, t)})
           /\ apiJob' = IF ListTaken(apiJob.by, t) THEN [apiJob EXCEPT !.to = @ \ {t}] ELSE NoCall
    BY <1>4 DEF BroadcastXshardTxList
  <2>2. apiJob # NoCall /\ UNCHANGED <<crashes, starts, reported>> /\ (Quiet' <=> Quiet)
    BY <1>4, <1>q DEF BroadcastXshardTxList, bootVars
  <2>3. \A w \in ApiSlaves : xshardLists[w] \subseteq xshardLists'[w]
    BY <2>1, ListsGrow
  <2>4. CASE ~ListTaken(apiJob.by, t)
    BY <2>1, <2>2, <2>3, <2>4, ListsKept
  <2>5. CASE ListTaken(apiJob.by, t)
    <3>1. /\ apiJob'.shard = apiJob.shard /\ apiJob'.on = apiJob.on /\ apiJob'.to = apiJob.to \ {t}
          /\ apiJob.by \in ApiSlaves
      BY <2>1, <2>2, <2>5 DEF ApiTypes
    <3>b. PICK b : b = <<apiJob.shard, apiJob.on>>
      OBVIOUS
    <3>2. ASSUME Quiet PROVE ListsAt(b, t)'
      <4>1. ApiSlaves \subseteq slavesConn[apiJob.by]
        BY <3>1, <3>2, <2>2 DEF BootInv, BootOK, Fresh, Wired
      <4>2. ASSUME NEW w \in HasShard(t) PROVE <<b, t>> \in xshardLists'[w]
        <5>1. w \in ApiSlaves /\ w \in Connections(apiJob.by, t)
          BY <4>1 DEF HasShard, Connections
        <5>2. w \in ListHolders(apiJob.by, t)
          BY <5>1, <2>5 DEF ListTaken, ListHolders
        <5>3. <<b, t, w>> \in {x \in {<<b, t, y>> : y \in ListHolders(apiJob.by, t)} : x[3] = w}
          BY <5>2
        <5>4. <<<<b, t, w>>[1], <<b, t, w>>[2]>> \in xshardLists'[w]
          BY <5>1, <5>3, <3>b, <2>1, ListsGrow
        <5> QED
          BY <5>4
      <4> QED
        BY <4>2 DEF ListsAt, HasShard
    <3>3. ASSUME NEW a, NEW s, ListsAt(a, s) PROVE ListsAt(a, s)'
      BY <3>3, <2>3 DEF ListsAt, HasShard
    <3>4. ASSUME Quiet', NEW s \in InitializedBefore(apiJob.on) \ {apiJob.shard}, s \notin apiJob.to \ {t}
          PROVE  ListsAt(b, s)'
      <4>1. CASE s = t
        BY <4>1, <3>2, <3>4, <2>2
      <4>2. CASE s # t
        <5>1. ListsAt(b, s)
          BY <4>2, <3>4, <3>b, <2>2 DEF ListInv, JobOK
        <5> QED
          BY <5>1, <3>3
      <4> QED
        BY <4>1, <4>2
    <3>5. Quiet' => JobOK'
      BY <3>1, <3>4, <3>b DEF JobOK
    <3>6. ReportedDelivered'
      <4>1. ASSUME Quiet', NEW a \in reported', a[2] > RootHeight[a[1]],
                   NEW s \in InitializedBefore(a[2]) \ {a[1]}
            PROVE  ListsAt(a, s)'
        <5>1. ListsAt(a, s)
          BY <4>1, <2>2 DEF ListInv, ReportedDelivered, ListsAt, Quiet
        <5> QED
          BY <5>1, <3>3
      <4> QED
        BY <4>1 DEF ReportedDelivered, ListsAt, Quiet
    <3> QED
      BY <3>5, <3>6 DEF ListInv
  <2> QED
    BY <2>4, <2>5
<1>5. CASE SendMinorBlockHeaderToMaster
  <2>1. /\ apiJob # NoCall /\ apiJob.to = {} /\ apiJob' = NoCall /\ UNCHANGED xshardLists
        /\ Quiet' <=> Quiet
        /\ reported' \subseteq reported \cup {<<apiJob.shard, apiJob.on>>}
    BY <1>5, <1>q DEF SendMinorBlockHeaderToMaster, bootVars
  <2> DEFINE b == <<apiJob.shard, apiJob.on>>
  <2>2. b[1] = apiJob.shard /\ b[2] = apiJob.on
    OBVIOUS
  <2>3. ASSUME Quiet, NEW t \in InitializedBefore(b[2]) \ {b[1]} PROVE ListsAt(b, t)
    BY <2>1, <2>3 DEF ListInv, JobOK
  <2>4. ASSUME Quiet', NEW a \in reported', a[2] > RootHeight[a[1]], NEW s \in InitializedBefore(a[2]) \ {a[1]}
        PROVE  ListsAt(a, s)'
    <3>1. ListsAt(a, s)
      <4>1. CASE a \in reported
        BY <4>1, <2>4, <2>1 DEF ListInv, ReportedDelivered, ListsAt, Quiet
      <4>2. CASE a = b
        BY <4>2, <2>4, <2>1, <2>3
      <4> QED
        BY <4>1, <4>2, <2>4, <2>1
    <3> QED
      BY <3>1, <2>1 DEF ListsAt
  <2> QED
    BY <2>1, <2>4 DEF ListInv, JobOK, ReportedDelivered, ListsAt, Quiet
<1>6. CASE AskEnds \/ (\E v \in ApiSlaves : Serve(v)) \/ (\E op, b : Ask(op, b)) \/ (\E h : ApiAddRootBlock(h))
  <2>1. UNCHANGED bootVars /\ UNCHANGED listVars
    BY <1>6 DEF AskEnds, Serve, Ask, ApiAddRootBlock
  <2> QED
    BY <2>1, <1>q, <1>k DEF bootVars, listVars
<1>7. ASSUME NEW v \in ApiSlaves, MasterInfo(v) PROVE ListInv'
  <2>1. UNCHANGED <<crashes, starts, apiJob>>
    BY <1>7, Zenon DEF MasterInfo
  <2>2. /\ \A w \in ApiSlaves : xshardLists[w] \subseteq xshardLists'[w]
        /\ \A b \in reported' : b \in reported \/ ~(b[2] > RootHeight[b[1]])
    BY <1>7, CreateLists DEF MasterInfo, ApiTypes
  <2> QED
    BY <2>1, <2>2, <1>q, ListsKept
<1>8. ASSUME NEW v \in ApiSlaves, SetConnect(v) \/ SlaveRestart(v) \/ Heartbeat(v) PROVE ListInv'
  BY <1>8, <1>q, <1>k DEF SetConnect, SlaveRestart, Heartbeat, listVars
<1>9. ASSUME NEW v \in ApiSlaves, SlaveCrash(v) PROVE ListInv'
  <2>1. ~Quiet'
    <3>1. crashes' = crashes + 1
      BY <1>9, Zenon DEF SlaveCrash
    <3>2. crashes \in Nat
      BY Zenon DEF ApiTypes
    <3>3. crashes' # 0
      BY <3>1, <3>2, SMT
    <3> QED
      BY <3>3, Zenon DEF Quiet
  <2> QED
    BY <1>9, <2>1, <1>k DEF SlaveCrash
<1>12. ASSUME NEW v \in ApiSlaves, SlaveAddRootBlock(v) PROVE ListInv'
  <2>1. UNCHANGED <<crashes, starts, apiJob>>
    BY <1>12, Zenon DEF SlaveAddRootBlock
  <2>2. /\ \A w \in ApiSlaves : xshardLists[w] \subseteq xshardLists'[w]
        /\ \A b \in reported' : b \in reported \/ ~(b[2] > RootHeight[b[1]])
    <3>1. CASE UNCHANGED <<shards, seen, xshardLists, reported>>
      BY <3>1
    <3>2. ASSUME NEW ok, CreateShards(v, spread.height, shards[v], target'[v], ok)
          PROVE  /\ \A w \in ApiSlaves : xshardLists[w] \subseteq xshardLists'[w]
                 /\ \A b \in reported' : b \in reported \/ ~(b[2] > RootHeight[b[1]])
      BY <1>12, <3>2, CreateLists DEF SlaveAddRootBlock, ApiTypes
    <3> QED
      BY <1>12, <3>1, <3>2 DEF SlaveAddRootBlock
  <2> QED
    BY <2>1, <2>2, <1>q, ListsKept
<1>14. ASSUME NEW v \in ApiSlaves, NEW s \in FullShardIds, MineBlock(v, s) PROVE ListInv'
  <2>1. /\ apiJob'.shard = s /\ apiJob'.on = seen[v] /\ apiJob'.to = InitializedBefore(seen[v]) \ {s}
        /\ UNCHANGED <<xshardLists, reported>> /\ (Quiet' <=> Quiet)
    BY <1>14, <1>q DEF MineBlock, bootVars
  <2> QED
    BY <2>1 DEF ListInv, JobOK, ReportedDelivered, Quiet
<1> QED
  BY <1>u, <1>1, <1>2, <1>4, <1>5, <1>6, <1>7, <1>8, <1>9, <1>12, <1>14 DEF ApiNext

LEMMA ApiStart == ApiInit => ApiTypes /\ AskInv /\ BootInv /\ ListInv
<1> SUFFICES ASSUME ApiInit PROVE ApiTypes /\ AskInv /\ BootInv /\ ListInv
  OBVIOUS
<1>1. ApiTypes
  BY DEF ApiInit, ApiTypes, MasterStates
<1>2. AskInv
  BY DEF ApiInit, AskInv
<1>3. BootInv
  BY DEF ApiInit, BootInv, BootOK, Fresh
<1>4. ListInv
  BY DEF ApiInit, ListInv, JobOK, ReportedDelivered
<1> QED
  BY <1>1, <1>2, <1>3, <1>4

\* For any slaves, shards, root heights and operations: as long as no slave has stopped
\* and the master has started once, a minor block that was reported to the master has its
\* list at every slave of every other shard; and whatever stops or restarts, a request
\* that succeeds was served by the slaves it is for, and its answer can be read.
THEOREM ApiAlways == ApiSpec => []ApiSound
<1>1. ApiInit => ApiTypes /\ AskInv /\ BootInv /\ ListInv
  BY ApiStart
<1>2. ApiTypes /\ AskInv /\ BootInv /\ ListInv /\ [ApiNext]_apiVars
        => (ApiTypes /\ AskInv /\ BootInv /\ ListInv)'
  BY ApiTypesStep, AskStep, BootStep, ListStep
<1>3. AskInv /\ ListInv => ApiSound
  BY ServedByAsk DEF ApiSound, ListInv
<1> QED
  BY <1>1, <1>2, <1>3, PTL DEF ApiSpec

=============================================================================
