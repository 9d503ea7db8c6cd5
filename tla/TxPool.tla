------------------------------- MODULE TxPool -------------------------------
(***************************************************************************)
(* The transaction pool of a shard (core/tx_pool.go, tx_list.go,           *)
(* tx_noncer.go): executable transactions (pending) and future ones        *)
(* (queue) per account, the index of all transactions, the price heap with *)
(* its lazily removed entries, and the virtual nonces.  Transactions are   *)
(* added under the pool's lock; promotion and the reset to a new head run  *)
(* in a goroutine of their own, with the requests gathered until it was    *)
(* launched.                                                               *)
(*                                                                         *)
(* The chain is the sequence of transactions in its blocks, one per block: *)
(* it gives nonces and balances.  Gas limits are left out.                 *)
(***************************************************************************)
EXTENDS Integers, SequencesExt, FiniteSetsExt

CONSTANTS
    Account, PoolToken,
    TxSet,         \* transactions: [from, nonce, price, token, cost]
    Fund,          \* account -> token -> balance at genesis
    PriceBump, GlobalSlots, AccountSlots, GlobalQueue, AccountQueue,
    NoReset,
    MaxAdds,       \* bound: transactions offered
    MaxHeads,      \* bound: new heads
    MaxTrims       \* bound: evictions and changes of the minimum price

VARIABLES
    pool,          \* the pool's maps, under TxPool.mu
    chainTxs,      \* the transactions of the current chain
    loopHead,      \* the chain at TxPool.loop's head
    resetReq,      \* scheduleReorgLoop: pending reset request
    dirty,         \* scheduleReorgLoop: accounts to promote
    promoteReq,    \* requests of addTxs still to be received by scheduleReorgLoop
    launch,        \* scheduleReorgLoop: launchNextRun
    reorgRun,      \* the launched runReorg, which waits for the lock
    poolSteps

poolVars == <<pool, chainTxs, loopHead, resetReq, dirty, promoteReq, launch, reorgRun, poolSteps>>

NonceAt(c, a) == Cardinality({i \in DOMAIN c : c[i].from = a})
BalanceAt(c, a, tok) ==
    FoldLeft(LAMBDA b, t : IF t.from = a /\ t.token = tok THEN b - t.cost ELSE b, Fund[a][tok], c)

EmptyList == [txs |-> {}, costcap |-> [k \in PoolToken |-> 0]]

PoolInit ==
    /\ pool = [pending |-> [a \in Account |-> EmptyList], queue |-> [a \in Account |-> EmptyList],
               all |-> {}, items |-> << >>, stales |-> 0,
               nonces |-> [a \in Account |-> 0], locals |-> {}, state |-> << >>]
    /\ chainTxs = << >>
    /\ loopHead = << >>
    /\ resetReq = NoReset
    /\ dirty = {}
    /\ promoteReq = {}
    /\ launch = FALSE
    /\ reorgRun = NoReset
    /\ poolSteps = [add |-> 0, head |-> 0, trim |-> 0]

----------------------------------------------------------------------------
(* txList *)

At(l, n) == {t \in l.txs : t.nonce = n}
Norm(l) == IF l.txs = {} THEN EmptyList ELSE l
Without(l, S) == Norm([l EXCEPT !.txs = @ \ S])
ByNonce(S) == SetToSortSeq(S, LAMBDA t, u : t.nonce < u.nonce)

\* Add accepts tx when no transaction has its nonce, or a cheaper one with the
\* required price bump.
CanAdd(l, tx) ==
    \A old \in At(l, tx.nonce) :
        old.price < tx.price /\ (old.price * (100 + PriceBump)) \div 100 <= tx.price

PutTx(l, tx) ==
    [txs |-> (l.txs \ At(l, tx.nonce)) \cup {tx},
     costcap |-> [l.costcap EXCEPT ![tx.token] = IF @ < tx.cost THEN tx.cost ELSE @]]

\* Filter gives up as soon as one token the account holds covers the highest
\* cost seen for that token; otherwise it removes what the balances cannot pay.
Balances(c, a) == [k \in PoolToken |-> BalanceAt(c, a, k)]
Covered(l, bal) == \E k \in PoolToken : bal[k] > 0 /\ l.costcap[k] <= bal[k]
FilterOut(l, bal) == IF Covered(l, bal) THEN {} ELSE {t \in l.txs : t.cost > bal[t.token]}
FilterCap(l, bal) ==
    IF Covered(l, bal) THEN l ELSE Without([l EXCEPT !.costcap = bal], FilterOut(l, bal))

\* Ready: the run of nonces that begins at the lowest, if that is not above start.
Ready(l, start) ==
    IF l.txs = {} THEN {}
    ELSE LET low == Min({t.nonce : t \in l.txs})
         IN  IF low > start THEN {}
             ELSE {t \in l.txs : \A n \in low .. t.nonce : At(l, n) # {}}

\* Cap: what exceeds the lowest k nonces.
Beyond(l, k) == {t \in l.txs : Cardinality({u \in l.txs : u.nonce < t.nonce}) >= k}

----------------------------------------------------------------------------
(* txPricedList: a heap, cheapest first, of everything that was added; an   *)
(* entry that is no longer in all is stale.                                 *)

Cheaper(t, u) == t.price < u.price \/ (t.price = u.price /\ t.nonce > u.nonce)

PricedPut(p, tx) ==
    LET k == Cardinality({i \in DOMAIN p.items : ~Cheaper(tx, p.items[i])})
    IN  [p EXCEPT !.items = SubSeq(@, 1, k) \o <<tx>> \o SubSeq(@, k + 1, Len(@))]

\* Removed: count stale entries, rebuild the heap when they exceed a quarter.
PricedRemoved(p, n) ==
    IF p.stales + n <= Len(p.items) \div 4
    THEN [p EXCEPT !.stales = @ + n]
    ELSE [p EXCEPT !.stales = 0, !.items = SetToSortSeq(p.all, Cheaper)]

\* Entries are popped up to position k: the stale ones vanish, the remote ones
\* are dropped and the local ones put back.
Popped(p, k) ==
    LET local(t)  == t.from \in p.locals
        kept      == SelectSeq(SubSeq(p.items, 1, k), LAMBDA t : t \in p.all /\ local(t))
        stale     == Cardinality({i \in 1 .. k : p.items[i] \notin p.all})
    IN  [p EXCEPT !.items = kept \o SubSeq(@, k + 1, Len(@)), !.stales = @ - stale]

RemoteLive(p, i) == p.items[i] \in p.all /\ p.items[i].from \notin p.locals

\* Discard stops after count remote transactions.
DiscardTo(p, count) ==
    LET ks == {k \in DOMAIN p.items :
                  Cardinality({i \in 1 .. k : RemoteLive(p, i)}) >= count}
    IN  IF count <= 0 THEN 0 ELSE IF ks = {} THEN Len(p.items) ELSE Min(ks)

\* Cap stops at the first live transaction that pays the threshold.
CapTo(p, price) ==
    LET ks == {k \in DOMAIN p.items : p.items[k] \in p.all /\ p.items[k].price >= price}
    IN  IF ks = {} THEN Len(p.items) ELSE Min(ks) - 1

DroppedBy(p, k) == SelectSeq(SubSeq(p.items, 1, k), LAMBDA t : t \in p.all /\ t.from \notin p.locals)

\* Underpriced pops the stale entries at the top, then compares the cheapest.
Unstaled(p) ==
    LET live == {k \in DOMAIN p.items : p.items[k] \in p.all}
    IN  Popped(p, IF live = {} THEN Len(p.items) ELSE Min(live) - 1)

Underpriced(p, tx) ==
    tx.from \notin p.locals /\ p.items # << >> /\ p.items[1].price >= tx.price

----------------------------------------------------------------------------
(* Moves between the maps. *)

LookupAdd(p, tx) == IF tx \in p.all THEN p ELSE PricedPut([p EXCEPT !.all = @ \cup {tx}], tx)

\* A replaced transaction stays in the lookup.
MutenqueueTx(p, tx) ==
    LET l == p.queue[tx.from]
    IN  IF ~CanAdd(l, tx) THEN p
        ELSE LookupAdd([p EXCEPT !.queue[tx.from] = PutTx(l, tx)], tx)

\* enqueueTx; when the queue holds a better transaction nothing changes.
enqueueTx(p, tx) ==
    LET l == p.queue[tx.from]
        old == At(l, tx.nonce)
        q == [p EXCEPT !.queue[tx.from] = PutTx(l, tx), !.all = @ \ old]
    IN  IF ~CanAdd(l, tx) THEN p
        ELSE LookupAdd(IF old = {} THEN q ELSE PricedRemoved(q, 1), tx)

EnqueueAll(p, S) == FoldLeft(enqueueTx, p, ByNonce(S))

\* removeTx: transactions above a removed executable one return to the queue.
Unlist(p, tx) ==
    LET a == tx.from
        l == p.pending[a]
        invalids == {t \in l.txs : t.nonce > tx.nonce}
    IN  IF At(l, tx.nonce) # {}
        THEN [EnqueueAll([p EXCEPT !.pending[a] = Without(@, At(l, tx.nonce) \cup invalids)], invalids)
              EXCEPT !.nonces[a] = IF @ <= tx.nonce THEN @ ELSE tx.nonce]
        ELSE [p EXCEPT !.queue[a] = Without(@, At(@, tx.nonce))]

RemoveTx(p, tx, outofbound) ==
    IF tx \notin p.all THEN p
    ELSE LET q == [p EXCEPT !.all = @ \ {tx}]
         IN  Unlist(IF outofbound THEN PricedRemoved(q, 1) ELSE q, tx)

RemoveAll(p, txs, outofbound) == FoldLeft(LAMBDA q, t : RemoveTx(q, t, outofbound), p, txs)

\* promoteTx
promoteTx(p, tx) ==
    LET a == tx.from
        l == p.pending[a]
        old == At(l, tx.nonce)
        q == [p EXCEPT !.pending[a] = PutTx(l, tx), !.all = @ \ old]
    IN  IF ~CanAdd(l, tx)
        THEN PricedRemoved([p EXCEPT !.all = @ \ {tx}], 1)
        ELSE [LookupAdd(IF old = {} THEN q ELSE PricedRemoved(q, 1), tx)
              EXCEPT !.nonces[a] = tx.nonce + 1]

----------------------------------------------------------------------------
(* Adding a transaction. *)

\* validateTx, ValidateTransaction against the pool's state: a used nonce or a
\* cost above the balance is refused.
ValidTx(p, tx) ==
    /\ tx.nonce >= NonceAt(p.state, tx.from)
    /\ tx.cost <= BalanceAt(p.state, tx.from, tx.token)

\* The remote transactions popped up to position k are removed.
Discard(p, k) == RemoveAll(Popped(p, k), DroppedBy(p, k), FALSE)

\* The new transaction replaces a pending one, or joins the queue.
Place(p, tx, local) ==
    LET l      == p.pending[tx.from]
        old    == At(l, tx.nonce)
        queued == CanAdd(p.queue[tx.from], tx)
        over   == [p EXCEPT !.pending[tx.from] = PutTx(l, tx), !.all = @ \ old]
    IN  IF old = {}
        THEN [ok |-> queued,
              replaced |-> queued /\ At(p.queue[tx.from], tx.nonce) # {},
              pool |-> [enqueueTx(p, tx) EXCEPT !.locals = IF queued /\ local THEN @ \cup {tx.from} ELSE @]]
        ELSE IF CanAdd(l, tx)
        THEN [ok |-> TRUE, replaced |-> TRUE,
              pool |-> PricedPut([PricedRemoved(over, 1) EXCEPT !.all = @ \cup {tx}], tx)]
        ELSE [ok |-> FALSE, replaced |-> FALSE, pool |-> p]

\* A full pool makes room first, whatever happens to the new transaction afterwards.
MakeRoom(p, tx, local) ==
    IF ~local /\ Underpriced(p, tx) THEN [ok |-> FALSE, replaced |-> FALSE, pool |-> p]
    ELSE Place(Discard(p, DiscardTo(p, Cardinality(p.all) - (GlobalSlots + GlobalQueue - 1))), tx, local)

\* add: [ok, replaced, pool].
AddTx(p, tx, local) ==
    IF tx \in p.all \/ ~ValidTx(p, tx) THEN [ok |-> FALSE, replaced |-> FALSE, pool |-> p]
    ELSE IF Cardinality(p.all) < GlobalSlots + GlobalQueue THEN Place(p, tx, local)
    ELSE MakeRoom(IF local \/ tx.from \in p.locals THEN p ELSE Unstaled(p), tx, local)

\* addTxs, under the lock; its request to promote the sender follows.
addTxs(tx, local) ==
    /\ poolSteps.add < MaxAdds
    /\ poolSteps' = [poolSteps EXCEPT !.add = @ + 1]
    /\ LET r == AddTx(pool, tx, local)
       IN  /\ pool' = r.pool
           /\ promoteReq' = promoteReq \cup {IF r.ok /\ ~r.replaced THEN {tx.from} ELSE {}}
    /\ UNCHANGED <<chainTxs, loopHead, resetReq, dirty, launch, reorgRun>>

\* scheduleReorgLoop receives the request of requestPromoteExecutables.
RequestPromote ==
    \E s \in promoteReq :
        /\ promoteReq' = promoteReq \ {s}
        /\ dirty' = dirty \cup s
        /\ launch' = TRUE
        /\ UNCHANGED <<pool, chainTxs, loopHead, resetReq, reorgRun, poolSteps>>

----------------------------------------------------------------------------
(* The reorganisation of the pool. *)

PromoteReady(p, a, readies) ==
    FoldLeft(promoteTx, [p EXCEPT !.queue[a] = Without(@, readies)], ByNonce(readies))

\* n transactions are gone already.
CapQueue(p, a, n) ==
    LET caps == IF a \in p.locals THEN {} ELSE Beyond(p.queue[a], AccountQueue)
    IN  PricedRemoved([p EXCEPT !.queue[a] = Without(@, caps), !.all = @ \ caps], n + Cardinality(caps))

promoteExecutables(p, a) ==
    LET l        == p.queue[a]
        forwards == {t \in l.txs : t.nonce < NonceAt(p.state, a)}
        l1       == Without(l, forwards)
        bal      == Balances(p.state, a)
        gone     == forwards \cup FilterOut(l1, bal)
        l2       == FilterCap(l1, bal)
        p1       == [p EXCEPT !.queue[a] = l2, !.all = @ \ gone]
    IN  IF l.txs = {} THEN p
        ELSE CapQueue(PromoteReady(p1, a, Ready(l2, p.nonces[a])), a, Cardinality(gone))

\* What returns to the queue: all above a dropped transaction, and the rest too
\* if the account's next nonce is not among it.
Returned(l, drops, nonce) ==
    LET invalids == {t \in l.txs : \E d \in drops : d.nonce < t.nonce}
        kept     == l.txs \ invalids
    IN  IF \E t \in kept : t.nonce = nonce THEN invalids ELSE l.txs

SendBack(p, a, back, n) ==
    EnqueueAll(PricedRemoved([p EXCEPT !.pending[a] = Without(@, back)], n), back)

demoteUnexecutables(p, a) ==
    LET l     == p.pending[a]
        nonce == NonceAt(p.state, a)
        olds  == {t \in l.txs : t.nonce < nonce}
        l1    == Without(l, olds)
        bal   == Balances(p.state, a)
        drops == FilterOut(l1, bal)
        l2    == FilterCap(l1, bal)
    IN  IF l.txs = {} THEN p
        ELSE SendBack([p EXCEPT !.pending[a] = l2, !.all = @ \ (olds \cup drops)], a,
                      Returned(l2, drops, nonce), Cardinality(olds \cup drops))

PendingLen(p, a) == Cardinality(p.pending[a].txs)
PendingTotal(p) == FoldSet(LAMBDA a, n : n + PendingLen(p, a), 0, Account)
QueueTotal(p) == FoldSet(LAMBDA a, n : n + Cardinality(p.queue[a].txs), 0, Account)

\* The last transaction of an account's pending list is dropped.
DropLast(p, a) ==
    LET last == Beyond(p.pending[a], PendingLen(p, a) - 1)
        p1 == [p EXCEPT !.pending[a] = Without(@, last), !.all = @ \ last]
    IN  PricedRemoved([p1 EXCEPT !.nonces[a] = Min({@} \cup {t.nonce : t \in last})],
                      Cardinality(last))

\* Rounds that shorten every account of offs while the pool holds too much and
\* the account ref is longer than floor.
RECURSIVE Shorten(_, _, _, _)
Shorten(p, offs, ref, floor) ==
    IF PendingTotal(p) > GlobalSlots /\ PendingLen(p, ref) > floor
    THEN Shorten(FoldLeft(DropLast, p, offs), offs, ref, floor)
    ELSE p

\* The offenders join one by one, longest list first; those before are
\* shortened to the length of the newest.
RECURSIVE Equalize(_, _, _)
Equalize(p, offs, rest) ==
    IF PendingTotal(p) > GlobalSlots /\ rest # << >>
    THEN LET new == Head(rest) IN
         Equalize(IF offs = << >> THEN p
                  ELSE Shorten(p, offs, Last(offs), PendingLen(p, new)),
                  Append(offs, new), Tail(rest))
    ELSE IF offs = << >> THEN p
    ELSE Shorten(p, offs, Last(offs), AccountSlots)

truncatePending(p) ==
    Equalize(p, << >>,
             SetToSortSeq({a \in Account \ p.locals : PendingLen(p, a) > AccountSlots},
                          LAMBDA a, b : PendingLen(p, a) > PendingLen(p, b)))

\* Accounts in the order of their heartbeats; the highest nonces go first.
RECURSIVE DropQueued(_, _, _)
DropQueued(p, order, drop) ==
    IF drop <= 0 \/ order = << >> THEN p
    ELSE LET l    == p.queue[Head(order)]
             size == Cardinality(l.txs)
             gone == IF size <= drop THEN ByNonce(l.txs)
                     ELSE Reverse(ByNonce(Beyond(l, size - drop)))
         IN  DropQueued(RemoveAll(p, gone, TRUE), Tail(order), drop - Len(gone))

truncateQueue(p, order) ==
    DropQueued(p, SelectSeq(order, LAMBDA a : a \notin p.locals /\ p.queue[a].txs # {}),
               QueueTotal(p) - GlobalQueue)

\* reset: transactions of the blocks that left the chain come back.
CommonLen(c, d) == Len(LongestCommonPrefix({c, d}))

Reset(p, req) ==
    LET k == CommonLen(req.old, req.new)
        included == ToSet(SubSeq(req.new, k + 1, Len(req.new)))
        discarded == Reverse(SubSeq(req.old, k + 1, Len(req.old)))
        p1 == [p EXCEPT !.state = req.new, !.nonces = [a \in Account |-> NonceAt(req.new, a)]]
    IN  FoldLeft(LAMBDA q, t : AddTx(q, t, FALSE).pool, p1,
                 SelectSeq(discarded, LAMBDA t : t \notin included))

\* The virtual nonces stay as the reset left them.
MutFinalNonces(p) == p

\* The virtual nonce of an account with pending transactions follows the last.
FinalNonces(p) ==
    [p EXCEPT !.nonces = [a \in Account |->
        IF p.pending[a].txs = {} THEN p.nonces[a]
        ELSE Max({t.nonce : t \in p.pending[a].txs}) + 1]]

\* runReorg, under the lock.
runReorg ==
    /\ reorgRun # NoReset
    /\ \E order \in SetToSeqs(Account) :
          LET again == reorgRun.reset # NoReset
              p1 == IF again THEN Reset(pool, reorgRun.reset) ELSE pool
              p2 == FoldLeft(promoteExecutables, p1,
                             SelectSeq(order, LAMBDA a : again \/ a \in reorgRun.dirty))
              p3 == FoldLeft(demoteUnexecutables, p2, IF again THEN order ELSE << >>)
          IN  pool' = FinalNonces(truncateQueue(truncatePending(p3), order))
    /\ reorgRun' = NoReset
    /\ UNCHANGED <<chainTxs, loopHead, resetReq, dirty, promoteReq, launch, poolSteps>>

\* scheduleReorgLoop launches the next run when the last one is done.
LaunchRun ==
    /\ launch
    /\ reorgRun = NoReset
    /\ reorgRun' = [reset |-> resetReq, dirty |-> dirty]
    /\ launch' = FALSE
    /\ resetReq' = NoReset
    /\ dirty' = {}
    /\ UNCHANGED <<pool, chainTxs, loopHead, promoteReq, poolSteps>>

\* loop receives a head event: requestReset; a waiting request keeps its old head.
ChainHead ==
    /\ loopHead # chainTxs
    /\ resetReq' = [old |-> IF resetReq = NoReset THEN loopHead ELSE resetReq.old, new |-> chainTxs]
    /\ loopHead' = chainTxs
    /\ launch' = TRUE
    /\ UNCHANGED <<pool, chainTxs, dirty, promoteReq, reorgRun, poolSteps>>

\* loop's eviction tick drops the queues of the accounts S, not local, whose
\* heartbeat is old; an account that never had an executable transaction has none.
Evict(S) ==
    /\ poolSteps.trim < MaxTrims
    /\ S # {}
    /\ \A a \in S : a \notin pool.locals /\ pool.queue[a].txs # {}
    /\ pool' = FoldSet(LAMBDA a, p : RemoveAll(p, ByNonce(p.queue[a].txs), TRUE), pool, S)
    /\ poolSteps' = [poolSteps EXCEPT !.trim = @ + 1]
    /\ UNCHANGED <<chainTxs, loopHead, resetReq, dirty, promoteReq, launch, reorgRun>>

SetGasPrice(price) ==
    /\ poolSteps.trim < MaxTrims
    /\ LET k == CapTo(pool, price)
       IN  pool' = Discard(pool, k)
    /\ poolSteps' = [poolSteps EXCEPT !.trim = @ + 1]
    /\ UNCHANGED <<chainTxs, loopHead, resetReq, dirty, promoteReq, launch, reorgRun>>

----------------------------------------------------------------------------
(* The chain: a block is added, or the last one replaced. *)

Fits(c, tx) == tx.nonce = NonceAt(c, tx.from) /\ tx.cost <= BalanceAt(c, tx.from, tx.token)

NewBlock(tx) ==
    /\ poolSteps.head < MaxHeads
    /\ \/ Fits(chainTxs, tx) /\ chainTxs' = Append(chainTxs, tx)
       \/ /\ chainTxs # << >>
          /\ tx # Last(chainTxs)
          /\ Fits(Front(chainTxs), tx)
          /\ chainTxs' = Append(Front(chainTxs), tx)
    /\ poolSteps' = [poolSteps EXCEPT !.head = @ + 1]
    /\ UNCHANGED <<pool, loopHead, resetReq, dirty, promoteReq, launch, reorgRun>>

PoolNext ==
    \/ \E tx \in TxSet, local \in BOOLEAN : addTxs(tx, local)
    \/ RequestPromote \/ runReorg \/ LaunchRun \/ ChainHead
    \/ \E S \in SUBSET Account : Evict(S)
    \/ \E tx \in TxSet : SetGasPrice(tx.price + 1) \/ NewBlock(tx)

----------------------------------------------------------------------------
\* The indexes agree: the lookup holds exactly the pending and the queued
\* transactions, an account has no nonce in both lists (removeTx and Status
\* search by nonce), and the price heap can find every transaction.
PoolIndexed ==
    /\ pool.all = UNION {pool.pending[a].txs \cup pool.queue[a].txs : a \in Account}
    /\ \A a \in Account : \A t \in pool.pending[a].txs : At(pool.queue[a], t.nonce) = {}
    /\ pool.all \subseteq ToSet(pool.items)

\* Whenever the lock is free an account's pending transactions are the run of
\* nonces from its nonce in the pool's state, and Nonce() answers the nonce
\* after the run, after any removal, replacement, truncation and reorg.
PendingRun ==
    \A a \in Account :
        {t.nonce : t \in pool.pending[a].txs} = NonceAt(pool.state, a) .. pool.nonces[a] - 1

=============================================================================
