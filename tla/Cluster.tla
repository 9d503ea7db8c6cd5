-------------------------------- MODULE Cluster --------------------------------
(***************************************************************************)
(* A cluster: the master's root chain and the shards its slaves keep.      *)
(*                                                                         *)
(* A shard that accepts a minor block sends the block's cross-shard list   *)
(* to every shard that is to receive one and then reports the header to    *)
(* the master; a root block may only hold reported headers.  The master    *)
(* stores a root block and then sends it to all slaves.  Each arrow is a   *)
(* call over gRPC, so the handlers of several shards and of several        *)
(* callers of AddRootBlock interleave, and each may stop half way.         *)
(*                                                                         *)
(* When the master starts, every slave initialises its shards and then     *)
(* builds its connections to the other slaves anew.  A list for a shard    *)
(* that no connection leads to is dropped, and its sender is not told.     *)
(*                                                                         *)
(* MinorChain and RootChain model what a chain does with a block; here a   *)
(* chain is the set of the blocks it has stored.                           *)
(***************************************************************************)
EXTENDS Naturals, FiniteSets

CONSTANTS
    Shard, Slave, SlaveOf,         \* shards, slaves, the slave that runs a shard
    Neighbor,                      \* the pairs of shards for which IsNeighbor holds
    MBlock, ShardOf, MParent,      \* minor blocks, their shard and parent
    PrevRoot,                      \* PrevRootBlockHash of a minor block
    RBlock, RParent, RNumber, TD,  \* root blocks, their parent, height, total difficulty
    Headers,                       \* the minor blocks whose headers a root block holds
    Genesis, MGenesis,             \* the root genesis block and the minor ones
    Caller,                        \* goroutines that call AddRootBlock: sync task, miner
    None,                          \* no block, no job
    MaxAborts, MaxStops            \* bounds: handlers cut short, times the master stops

ASSUME BlockAssumption ==
    /\ None \notin RBlock
    /\ SlaveOf \in [Shard -> Slave] /\ ShardOf \in [MBlock -> Shard]
    /\ Neighbor \subseteq Shard \X Shard
    /\ \A s, t \in Shard : <<s, t>> \in Neighbor => s # t /\ <<t, s>> \in Neighbor
    /\ Genesis \in RBlock /\ RNumber \in [RBlock -> Nat] /\ TD \in [RBlock -> Nat]
    /\ RParent \in [RBlock \ {Genesis} -> RBlock]
    /\ \A r \in RBlock \ {Genesis} : RNumber[r] = RNumber[RParent[r]] + 1
    /\ RNumber[Genesis] = 0
    /\ MGenesis \subseteq MBlock /\ PrevRoot \in [MBlock -> RBlock]
    /\ MParent \in [MBlock \ MGenesis -> MBlock]
    /\ Headers \in [RBlock -> SUBSET MBlock] /\ Headers[Genesis] = {}
    /\ \A m \in MGenesis : PrevRoot[m] = Genesis
    /\ MaxAborts \in Nat /\ MaxStops \in Nat

\* What RootBlockValidator has checked: the headers of a root block are mined on its
\* ancestors.  A set of root blocks that is closed under parents and holds the
\* parent of r therefore holds the root blocks its headers are mined on.
ASSUME HeaderAssumption ==
    \A r \in RBlock \ {Genesis}, rs \in SUBSET RBlock :
        /\ RParent[r] \in rs
        /\ \A q \in rs \ {Genesis} : RParent[q] \in rs
        => \A m \in Headers[r] : PrevRoot[m] \in rs

VARIABLES
    mdb,         \* per shard, the minor blocks it has stored
    xlists,      \* per shard, the minor blocks whose cross-shard list it has
    rstore,      \* per shard, the root blocks it has stored
    job,         \* per shard, what the holder of ShardBackend.mu still has to send
    validated,   \* headers the shards have reported to the master
    rdb, head,   \* the master's root blocks, and CurrentBlock
    committing,  \* the committing hash in the master's database
    call,        \* per caller, the AddRootBlock it is in
    up,          \* the master runs
    conns,       \* per slave, the other slaves it has a connection to
    info,        \* per slave, its handler of MasterInfo
    asked,       \* the slaves that a starting master waits for
    lost,        \* history: per shard, the minor blocks whose list for it was dropped
    aborts, stops  \* handlers cut short and pings lost, times the master has stopped

shardVars == <<mdb, xlists, lost, job, validated>>
startVars == <<conns, info, asked>>
vars == <<shardVars, startVars, rstore, rdb, head, committing, call, up, aborts, stops>>

Info == [st : {"create", "ping"}, shards : SUBSET Shard, slaves : SUBSET Slave]
Job == [blks : SUBSET MBlock, todo : SUBSET Shard]
Call == [blk : RBlock, todo : SUBSET Shard, failed : BOOLEAN]

ASSUME NoneAssumption == None \notin Job /\ None \notin Call /\ None \notin Info

\* Type invariant.
TypeOK ==
    /\ mdb \in [Shard -> SUBSET MBlock] /\ xlists \in [Shard -> SUBSET MBlock]
    /\ lost \in [Shard -> SUBSET MBlock]
    /\ conns \in [Slave -> SUBSET Slave] /\ asked \subseteq Slave
    /\ info \in [Slave -> Info \cup {None}]
    /\ rstore \in [Shard -> SUBSET RBlock]
    /\ job \in [Shard -> Job \cup {None}]
    /\ validated \subseteq MBlock /\ rdb \subseteq RBlock
    /\ head \in RBlock /\ committing \in RBlock \cup {None}
    /\ call \in [Caller -> Call \cup {None}]
    /\ up \in BOOLEAN /\ aborts \in 0 .. MaxAborts /\ stops \in 0 .. MaxStops + 1

\* The cluster right after its first start, on the root genesis block.  Any ping of the
\* slaves may have failed.
Init ==
    /\ mdb = [s \in Shard |-> {m \in MGenesis : ShardOf[m] = s}]
    /\ xlists = [s \in Shard |-> {}] /\ lost = [s \in Shard |-> {}]
    /\ conns \in [Slave -> SUBSET Slave] /\ \A v \in Slave : v \notin conns[v]
    /\ info = [v \in Slave |-> None] /\ asked = {}
    /\ rstore = [s \in Shard |-> {Genesis}]
    /\ job = [s \in Shard |-> None]
    /\ validated = MGenesis
    /\ rdb = {Genesis} /\ head = Genesis /\ committing = None
    /\ call = [c \in Caller |-> None]
    /\ up = TRUE /\ aborts = 0 /\ stops = 0

-----------------------------------------------------------------------------
\* The shards BroadcastXshardTxList sends the list of m to: the neighbours among
\* the shards created before the root height m is mined on.
Receivers(m) ==
    {t \in Shard : <<ShardOf[m], t>> \in Neighbor /\ RNumber[PrevRoot[m]] > 0}

\* AddRootBlock of MinorBlockChain: shard s looks for a list of the foreign header m
\* when it knows the root block m is mined on, this is not its own genesis root
\* block, and the two shards are neighbours.
ExpectsList(s, m) ==
    /\ PrevRoot[m] \in rstore[s]
    /\ RNumber[PrevRoot[m]] # 0
    /\ <<s, ShardOf[m]>> \in Neighbor

\* AddRootBlock of MinorBlockChain: the checks on the headers of r.  A list that is
\* not expected is as much an error as one that is missing.
MinorsReady(s, r) ==
    \A m \in Headers[r] :
        IF ShardOf[m] = s THEN m \in mdb[s] ELSE ExpectsList(s, m) <=> m \in xlists[s]

\* Shard s stores r, or has it already.
Accepts(s, r) == r \notin rstore[s] => RParent[r] \in rstore[s] /\ MinorsReady(s, r)

-----------------------------------------------------------------------------
\* The minor blocks shard s can run: the parent and the root block are stored, or
\* the parent comes earlier in the same list.
Connected(s, blks) ==
    \A m \in blks : /\ ShardOf[m] = s
                    /\ PrevRoot[m] \in rstore[s]
                    /\ m \notin MGenesis => MParent[m] \in mdb[s] \cup blks

ReceiversOf(blks) == UNION {Receivers(m) : m \in blks}

\* AddMinorBlock (one block) and AddBlockListForSync (a list): take ShardBackend.mu
\* and insert.  Blocks that are stored already are run again, because of "force".
InsertMinor(s, blks) ==
    /\ job[s] = None /\ blks # {}
    /\ Connected(s, blks)
    /\ mdb' = [mdb EXCEPT ![s] = @ \cup blks]
    /\ job' = [job EXCEPT ![s] = [blks |-> blks, todo |-> ReceiversOf(blks)]]
    /\ UNCHANGED <<xlists, lost, rstore, validated, rdb, head, committing, call, up, aborts, stops>>
    /\ UNCHANGED startVars

\* AddMinorBlock: a block from a peer or from the shard's own miner.
AddMinorBlock(s) == \E m \in MBlock \ MGenesis : InsertMinor(s, {m})

\* AddBlockListForSync: the sync task is about to add r and asks the shard for the
\* headers the master does not have.
AddBlockListForSync(s) ==
    /\ up
    /\ \E r \in RBlock \ rdb :
          InsertMinor(s, {m \in Headers[r] : ShardOf[m] = s /\ m \notin validated})

\* A list of shard s gets to shard t: the slave of s runs t as well, or has a connection
\* to the slave that does.
Reaches(s, t) == SlaveOf[s] = SlaveOf[t] \/ SlaveOf[t] \in conns[SlaveOf[s]]

\* The blocks of the job of s that have a list for t.
ListsFor(s, t) == {m \in job[s].blks : t \in Receivers(m)}

\* Mutant: AddXshardTxList takes the mutex of the receiving shard.
MutSendListLocked(s, t) ==
    /\ job[s] # None /\ t \in job[s].todo /\ job[t] = None
    /\ xlists' = [xlists EXCEPT ![t] = @ \cup ListsFor(s, t)]
    /\ job' = [job EXCEPT ![s].todo = @ \ {t}]
    /\ UNCHANGED <<mdb, lost, rstore, validated, rdb, head, committing, call, up, aborts, stops>>
    /\ UNCHANGED startVars

\* AddXshardTxList: the call to one receiver.  The receiver takes no lock.  Without a
\* connection there is no call, and no error either.
SendList(s, t) ==
    /\ job[s] # None /\ t \in job[s].todo
    /\ \/ /\ Reaches(s, t)
          /\ xlists' = [xlists EXCEPT ![t] = @ \cup ListsFor(s, t)]
          /\ UNCHANGED lost
       \/ /\ ~Reaches(s, t)
          /\ lost' = [lost EXCEPT ![t] = @ \cup ListsFor(s, t)]
          /\ UNCHANGED xlists
    /\ job' = [job EXCEPT ![s].todo = @ \ {t}]
    /\ UNCHANGED <<mdb, rstore, validated, rdb, head, committing, call, up, aborts, stops>>
    /\ UNCHANGED startVars

\* Mutant: the header is reported while lists are still being sent.
MutReportHeaders(s) ==
    /\ job[s] # None
    /\ validated' = IF up THEN validated \cup job[s].blks ELSE validated
    /\ job' = [job EXCEPT ![s] = None]
    /\ UNCHANGED <<mdb, xlists, lost, rstore, rdb, head, committing, call, up, aborts, stops>>
    /\ UNCHANGED startVars

\* SendMinorBlockHeaderToMaster, after all lists are sent.  The call fails when
\* the master is down; the shard unlocks in any case.
ReportHeaders(s) ==
    /\ job[s] # None /\ job[s].todo = {}
    /\ validated' = IF up THEN validated \cup job[s].blks ELSE validated
    /\ job' = [job EXCEPT ![s] = None]
    /\ UNCHANGED <<mdb, xlists, lost, rstore, rdb, head, committing, call, up, aborts, stops>>
    /\ UNCHANGED startVars

\* A call of the handler fails: what was stored stays stored.
AbortJob(s) ==
    /\ job[s] # None /\ aborts < MaxAborts
    /\ aborts' = aborts + 1
    /\ job' = [job EXCEPT ![s] = None]
    /\ UNCHANGED <<mdb, xlists, lost, rstore, validated, rdb, head, committing, call, up, stops>>
    /\ UNCHANGED startVars

-----------------------------------------------------------------------------
\* Mutant: the headers are not looked up among the reported ones.
MutInsertable(r) ==
    IF r \in rdb THEN RNumber[r] <= RNumber[head] ELSE RParent[r] \in rdb

\* InsertChain takes r: its parent is stored and all its headers are reported, or r
\* is stored and not above the head.
Insertable(r) ==
    IF r \in rdb THEN RNumber[r] <= RNumber[head]
    ELSE RParent[r] \in rdb /\ Headers[r] \subseteq validated

\* WriteBlockWithState: r becomes the head.
BecomesHead(r) ==
    /\ r \notin rdb
    /\ \/ TD[r] > TD[head]
       \/ TD[r] = TD[head] /\ RNumber[r] < RNumber[head]

\* AddRootBlock of the master, up to InsertChain: the sync task or the miner brings
\* a root block.
AddRootBlock(c) ==
    /\ up /\ call[c] = None
    /\ \E r \in RBlock \ {Genesis} :
          /\ Insertable(r)
          /\ rdb' = rdb \cup {r}
          /\ head' = IF BecomesHead(r) THEN r ELSE head
          /\ committing' = r
          /\ call' = [call EXCEPT ![c] = [blk |-> r, todo |-> Shard, failed |-> FALSE]]
    /\ UNCHANGED <<rstore, up, aborts, stops>> /\ UNCHANGED <<shardVars, startVars>>

\* AddRootBlock of the master when InsertChain fails: the committing hash stays.
RejectRootBlock(c) ==
    /\ up /\ call[c] = None
    /\ \E r \in RBlock \ {Genesis} : ~Insertable(r) /\ committing' = r
    /\ UNCHANGED <<rstore, rdb, head, call, up, aborts, stops>> /\ UNCHANGED <<shardVars, startVars>>

\* AddRootBlock of a shard, under ShardBackend.mu, called by the loop of its slave.
ShardAddsRootBlock(c, s) ==
    /\ call[c] # None /\ s \in call[c].todo /\ job[s] = None
    /\ Accepts(s, call[c].blk)
    /\ rstore' = [rstore EXCEPT ![s] = @ \cup {call[c].blk}]
    /\ call' = [call EXCEPT ![c].todo = @ \ {s}]
    /\ UNCHANGED <<rdb, head, committing, up, aborts, stops>> /\ UNCHANGED <<shardVars, startVars>>

\* Mutant: the slave's answer does not carry the error of a shard.
MutShardRefuses(c, s) ==
    /\ call[c] # None /\ s \in call[c].todo /\ job[s] = None
    /\ ~Accepts(s, call[c].blk)
    /\ call' = [call EXCEPT ![c].todo = {t \in @ : SlaveOf[t] # SlaveOf[s]}]
    /\ UNCHANGED <<rstore, rdb, head, committing, up, aborts, stops>> /\ UNCHANGED <<shardVars, startVars>>

\* The shard refuses the block for the third time, and the slave's loop ends.
ShardRefusesRootBlock(c, s) ==
    /\ call[c] # None /\ s \in call[c].todo /\ job[s] = None
    /\ ~Accepts(s, call[c].blk)
    /\ call' = [call EXCEPT ![c].todo = {t \in @ : SlaveOf[t] # SlaveOf[s]},
                            ![c].failed = TRUE]
    /\ UNCHANGED <<rstore, rdb, head, committing, up, aborts, stops>> /\ UNCHANGED <<shardVars, startVars>>

\* All slaves have answered yes: ClearCommittingHash.
RootBlockSent(c) ==
    /\ call[c] # None /\ call[c].todo = {} /\ ~call[c].failed
    /\ committing' = None
    /\ call' = [call EXCEPT ![c] = None]
    /\ UNCHANGED <<rstore, rdb, head, up, aborts, stops>> /\ UNCHANGED <<shardVars, startVars>>

\* All slaves have answered, one of them no: the master panics.
Panic(c) ==
    /\ call[c] # None /\ call[c].todo = {} /\ call[c].failed
    /\ up' = FALSE /\ stops' = stops + 1
    /\ call' = [d \in Caller |-> None]
    /\ UNCHANGED <<rstore, rdb, head, committing, aborts>> /\ UNCHANGED <<shardVars, startVars>>

\* The master stops between two steps, also while it starts.
Crash ==
    /\ up \/ asked # {}
    /\ stops < MaxStops
    /\ up' = FALSE /\ stops' = stops + 1 /\ asked' = {}
    /\ call' = [c \in Caller |-> None]
    /\ UNCHANGED <<rstore, rdb, head, committing, conns, info, aborts>> /\ UNCHANGED shardVars

-----------------------------------------------------------------------------
\* A start of the master: initShards calls MasterInfo, with CurrentBlock, at all slaves.
\* A handler that an earlier start has left behind is the one of this start as well: it
\* has the same CurrentBlock.
InitShards ==
    /\ ~up /\ asked = {} /\ stops <= MaxStops
    /\ asked' = Slave
    /\ info' = [v \in Slave |->
                   IF info[v] # None THEN info[v]
                   ELSE [st |-> "create", shards |-> {s \in Shard : SlaveOf[s] = v}, slaves |-> {}]]
    /\ UNCHANGED <<rstore, rdb, head, committing, call, up, conns, aborts, stops>>
    /\ UNCHANGED shardVars

\* CreateShards: InitFromRootBlock of a shard that runs, under ShardBackend.mu, adds the block when
\* it is missing.
InitFromRootBlock(v, s) ==
    /\ info[v] # None /\ s \in info[v].shards /\ job[s] = None
    /\ Accepts(s, head)
    /\ rstore' = [rstore EXCEPT ![s] = @ \cup {head}]
    /\ info' = [info EXCEPT ![v].shards = @ \ {s}]
    /\ UNCHANGED <<rdb, head, committing, call, up, conns, asked, aborts, stops>>
    /\ UNCHANGED shardVars

\* CreateShards fails at a shard that refuses the block, and the master does not come up.
InitRefused(v, s) ==
    /\ info[v] # None /\ s \in info[v].shards /\ job[s] = None
    /\ ~Accepts(s, head)
    /\ info' = [info EXCEPT ![v] = None] /\ asked' = {}
    /\ UNCHANGED <<rstore, rdb, head, committing, call, up, conns, aborts, stops>>
    /\ UNCHANGED shardVars

\* SetConnectToMasterAndSlaves begins with no connection at all.  The shards of the slave
\* read them without a lock.
DropConns(v) ==
    /\ info[v] # None /\ info[v].st = "create" /\ info[v].shards = {}
    /\ conns' = [conns EXCEPT ![v] = {}]
    /\ info' = [info EXCEPT ![v].st = "ping", ![v].slaves = Slave \ {v}]
    /\ UNCHANGED <<rstore, rdb, head, committing, call, up, asked, aborts, stops>>
    /\ UNCHANGED shardVars

\* SetConnectToMasterAndSlaves: a slave that answers the ping gets a connection, another
\* one is left out.
Ping(v, w) ==
    /\ info[v] # None /\ w \in info[v].slaves
    /\ \/ conns' = [conns EXCEPT ![v] = @ \cup {w}] /\ UNCHANGED aborts
       \/ aborts < MaxAborts /\ aborts' = aborts + 1 /\ UNCHANGED conns
    /\ info' = [info EXCEPT ![v].slaves = @ \ {w}]
    /\ UNCHANGED <<rstore, rdb, head, committing, call, up, asked, stops>>
    /\ UNCHANGED shardVars

\* The slave answers MasterInfo.  The master is up with the last answer, if it still
\* waits for it.
AnswerInfo(v) ==
    /\ info[v] # None /\ info[v].st = "ping" /\ info[v].slaves = {}
    /\ info' = [info EXCEPT ![v] = None] /\ asked' = asked \ {v}
    /\ up' = (asked = {v})
    /\ UNCHANGED <<rstore, rdb, head, committing, call, conns, aborts, stops>>
    /\ UNCHANGED shardVars

-----------------------------------------------------------------------------
ShardNext(s) ==
    \/ AddMinorBlock(s)
    \/ AddBlockListForSync(s)
    \/ \E t \in Shard : SendList(s, t)
    \/ ReportHeaders(s)
    \/ AbortJob(s)

CallNext(c) ==
    \/ AddRootBlock(c)
    \/ RejectRootBlock(c)
    \/ \E s \in Shard : ShardAddsRootBlock(c, s)
    \/ \E s \in Shard : ShardRefusesRootBlock(c, s)
    \/ RootBlockSent(c)
    \/ Panic(c)

StartNext(v) ==
    \/ \E s \in Shard : InitFromRootBlock(v, s) \/ InitRefused(v, s)
    \/ DropConns(v)
    \/ \E w \in Slave : Ping(v, w)
    \/ AnswerInfo(v)

Next ==
    \/ \E s \in Shard : ShardNext(s)
    \/ \E c \in Caller : CallNext(c)
    \/ \E v \in Slave : StartNext(v)
    \/ Crash
    \/ InitShards

Spec == Init /\ [][Next]_vars

\* The calls run and return: every handler that waits for an answer gets one.  The
\* shard's mutex may be taken by one minor block after the other; sync.Mutex hands
\* it to a waiter that is passed over for long, hence strong fairness for the root
\* block that waits for it.
LiveSpec ==
    /\ Spec
    /\ \A s \in Shard : /\ WF_vars(\E t \in Shard : SendList(s, t))
                         /\ WF_vars(ReportHeaders(s))
    /\ \A c \in Caller :
          /\ \A s \in Shard : SF_vars(ShardAddsRootBlock(c, s) \/ ShardRefusesRootBlock(c, s))
          /\ WF_vars(RootBlockSent(c) \/ Panic(c))

-----------------------------------------------------------------------------
\* A header the master counts as validated belongs to a block its shard has stored, and
\* every shard that is to receive the block's cross-shard list has the list, or it was
\* dropped for want of a connection: AddMinorBlock and AddBlockListForSync report only
\* after all lists are sent, and a handler that is cut short reports nothing.
ValidatedDelivered ==
    \A m \in validated :
        /\ m \in mdb[ShardOf[m]]
        /\ \A t \in Receivers(m) : m \in xlists[t] \/ m \in lost[t]

\* Lists are dropped only where SetConnectToMasterAndSlaves has failed or is at work:
\* until the master stops, just those between slaves whose ping failed at the first start.
LostUnconnected ==
    stops = 0 => \A t \in Shard : \A m \in lost[t] : ~Reaches(ShardOf[m], t)

\* AddRootBlock of MinorBlockChain leaves it to the master that a root block fits: a
\* shard that has the parent of a root block on its way refuses the block over its
\* headers only when a list for it was dropped.  No minor block is missing, no list is
\* there that the shard does not expect, and no crash or start of the master changes that.
HeadersNeverRefused ==
    \A c \in Caller, s \in Shard :
        /\ call[c] # None
        /\ RParent[call[c].blk] \in rstore[s]
        => \/ Accepts(s, call[c].blk)
           \/ Headers[call[c].blk] \cap (lost[s] \ xlists[s]) # {}

\* As long as the master has not stopped, a root block it has stored is stored by
\* every shard, unless a call that is to bring it there is still running.
MissingIsOnItsWay ==
    stops = 0 =>
        \A r \in rdb, s \in Shard :
            \/ r \in rstore[s]
            \/ \E c \in Caller : call[c] # None /\ call[c].blk = r
                                  /\ (s \in call[c].todo \/ call[c].failed)

\* What is counted on is there: a reported header has its lists delivered except those
\* dropped for want of a connection, and stored root blocks are at the shards or on
\* their way.
ListsAccounted == TypeOK /\ ValidatedDelivered /\ LostUnconnected /\ MissingIsOnItsWay

\* A stored root block reaches every shard, or the master stops.  The mutexes of the
\* shards, held over calls to other shards and to the master, do not block each
\* other.
RootBlockArrives ==
    \A r \in RBlock :
        r \in rdb ~> \/ \A s \in Shard : r \in rstore[s]
                     \/ stops > 0

\* "use write-ahead log so if crashed the root block can be re-broadcasted"
\* (WriteRootBlockCommittingHash): once the master is up again and no call is
\* running, the shards have the root block the committing hash names.
CommittingResent ==
    up /\ (\A c \in Caller : call[c] = None) /\ committing \in rdb =>
        \A s \in Shard : committing \in rstore[s]
=============================================================================
