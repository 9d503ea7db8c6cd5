--------------------------- MODULE StateTransition ---------------------------
(***************************************************************************)
(* How a block moves tokens (core/state_transition.go, state_processor.go, *)
(* gaspool.go, and the block production and validation of                  *)
(* minorblockchain_addon.go and minorblock_validator.go), on two shards    *)
(* that send each other deposits.                                          *)
(*                                                                         *)
(* A block first runs the deposits of its shard, then transactions of the  *)
(* pool by price.  The producer's state is blk.w; blk.v is what a node     *)
(* that runs the finished block computes, and blk.ok whether it accepts    *)
(* every transaction.  What the byte code does is an outcome of Outcomes;  *)
(* Interpreter and EvmCalls have the rest.                                 *)
(***************************************************************************)
EXTENDS Integers, Sequences, FiniteSets, FiniteSetsExt, TLC

CONSTANTS
    StShard, StAcct, StToken,
    QKC,              \* the default chain token
    StMiner, Manager, Zero, \* coinbase, system contract, burn address
    StBalance,        \* [shard -> [account -> [token -> amount]]]
    StStake,          \* [shard -> [account -> amount]]: senderDisallowMap, 0 if absent
    StInbox,          \* [shard -> sequence of deposits]
    PoolViews,        \* what the pool may offer: a set of sequences of transactions
    Outcomes,         \* [err, use, refund]
    GasOf,            \* [tx, create, byte, gtxx]
    FeeNum, FeeDen,   \* LocalFeeRate
    NativeQuote,      \* [rate, price]: what the system contract answers
    XShardGasFix,     \* whether the root height is past XShardGasDDOSFixRootHeight
    StReward, StGasLimit, StXGasLimit, MinMiningPrice, StMaxBlocks

VARIABLES world, inbox, blk, madeBlocks, minted

stVars == <<world, inbox, blk, madeBlocks, minted>>

Idle == [phase |-> "idle"]
Ok == "ok"

----------------------------------------------------------------------------
(* Moving balances *)

Credit(w, a, t, x) == [w EXCEPT !.bal[a][t] = @ + x]
Burn(w, x) == [w EXCEPT !.burnt = @ + x]
BumpNonce(w, a) == [w EXCEPT !.nonce[a] = @ + 1]
IsCrossShard(tx) == tx.dst # tx.src

IntrinsicGas(tx) ==
    (IF tx.create THEN GasOf.create ELSE GasOf.tx) + tx.data * GasOf.byte
    + (IF IsCrossShard(tx) THEN GasOf.gtxx ELSE 0)

StakeShort(w, m) == w.stake[m.from] > 0 /\ m.value + w.stake[m.from] > w.bal[m.from][QKC]

\* refund: with a rate below 100 the rest goes to the zero address.
RefundTo(w, m, total) ==
    LET back == (total * m.rate) \div 100
    IN  Credit(Credit(w, m.from, QKC, back), Zero, QKC, total - back)

\* The share of the target shard's miner is charged here too.
MutchargeFee(w, m, used, whole) ==
    LET fee == whole * m.price
        rated == (fee * FeeNum) \div FeeDen
    IN  Burn([Credit(w, StMiner, QKC, rated) EXCEPT !.fee = @ + rated,
                                                  !.gasUsed = @ + (IF w.evmOn THEN used ELSE whole)],
             fee - rated)

\* whole is st.gasUsed(), used the part that is charged on this shard.
chargeFee(w, m, used, whole) ==
    LET fee == used * m.price
        rated == (fee * FeeNum) \div FeeDen
    IN  Burn([Credit(w, StMiner, QKC, rated) EXCEPT !.fee = @ + rated,
                                                  !.gasUsed = @ + (IF w.evmOn THEN used ELSE whole)],
             fee - rated)

----------------------------------------------------------------------------
(* TransitionDb.  A result is the state, an error and the gas used. *)

Res(w, err, used) == [w |-> w, err |-> err, used |-> used]

buyGas(w, m) ==
    IF w.bal[m.from][m.gtok] < m.gas * m.payPrice THEN Res(w, "balance for gas", 0)
    ELSE IF w.gp < m.gas THEN Res(w, "gas limit", 0)
    ELSE Res([Credit(w, m.from, m.gtok, -(m.gas * m.payPrice)) EXCEPT !.gp = @ - m.gas], Ok, 0)

preCheck(w, m) ==
    IF w.nonce[m.from] < m.nonce THEN Res(w, "nonce too high", 0)
    ELSE IF w.nonce[m.from] > m.nonce THEN Res(w, "nonce too low", 0)
    ELSE buyGas(w, m)

AddCrossShardTxDeposit(w, m, intrinsic) ==
    LET reserved == IF m.create \/ w.evmOn THEN m.gas - intrinsic ELSE 0
        deposit == [from |-> m.from, to |-> m.to, value |-> m.value, vtok |-> m.vtok, gas |-> reserved,
                    price |-> m.price, rate |-> m.rate, create |-> m.create, root |-> FALSE]
        sent == [Credit(w, m.from, m.vtok, -m.value) EXCEPT !.out = Append(@, deposit)]
    IN  IF w.bal[m.from][m.vtok] < m.value THEN Res(w, "balance", 0)
        ELSE IF StakeShort(w, m)
        THEN LET done == chargeFee(RefundTo(w, m, 0), m, m.gas, m.gas) IN Res(done, Ok, done.gasUsed)
        ELSE LET done == chargeFee(RefundTo(sent, m, (m.gas - intrinsic - reserved) * m.price), m,
                                   intrinsic - GasOf.gtxx, intrinsic)
             IN  Res(done, Ok, done.gasUsed)

\* evm.Call and evm.Create: the state, the gas left, the error and the refund counter.
RunMessage(w, m, gas, o) ==
    LET end(x, left, err, refund) == [w |-> x, gas |-> left, err |-> err, refund |-> refund]
        bumped == IF m.deposit THEN w ELSE BumpNonce(w, m.from)
        moved == Credit(Credit(bumped, m.from, m.vtok, -m.value), m.to, m.vtok, m.value)
        short == w.bal[m.from][m.vtok] < m.value
    IN  IF m.create /\ short THEN end(w, gas, "balance", 0)
        ELSE IF m.create /\ m.vtok # QKC THEN end(bumped, gas, "token", 0)
        ELSE IF StakeShort(w, m) THEN end(bumped, 0, "stake", 0)
        ELSE IF short THEN end(bumped, gas, "balance", 0)
        ELSE IF o.err = "fail" \/ o.use > gas THEN end(bumped, 0, "failed", 0)
        ELSE IF o.err = "revert" THEN end(bumped, gas - o.use, "reverted", 0)
        ELSE end(moved, gas - o.use, Ok, o.refund)

\* refundGas: half of the used gas at most comes back through the refund counter.
refundGas(r, m, initial) ==
    LET half == (initial - r.gas) \div 2
        extra == IF r.err # Ok THEN 0 ELSE IF half > r.refund THEN r.refund ELSE half
    IN  [w |-> [RefundTo(r.w, m, (r.gas + extra) * m.price) EXCEPT !.gp = @ + r.gas + extra],
         gas |-> r.gas + extra]

TransitionDb(w, m, o) ==
    LET bought == IF m.deposit THEN Res(w, Ok, 0) ELSE preCheck(w, m)
        initial == m.gas + m.start
        intrinsic == IF m.deposit THEN m.start ELSE IntrinsicGas(m)
        ran == RunMessage(bought.w, m, initial - intrinsic, o)
        back == refundGas(ran, m, initial)
        used == initial - back.gas
    IN  IF bought.err # Ok THEN bought
        ELSE IF initial < intrinsic THEN Res(bought.w, "out of gas", 0)
        ELSE IF ~m.deposit /\ IsCrossShard(m)
        THEN AddCrossShardTxDeposit(BumpNonce(bought.w, m.from), m, intrinsic)
        ELSE IF ran.err = "balance" THEN Res(ran.w, "balance", 0)
        ELSE Res(chargeFee(back.w, m, used, used), Ok, used)

----------------------------------------------------------------------------
(* Transactions and deposits *)

PaysNative(tx) == tx.gtok # QKC
Converted(tx) == IF PaysNative(tx) THEN tx.price * NativeQuote.price ELSE tx.price

ApplyTransaction(w, tx, o) ==
    LET lent == tx.gas * Converted(tx)
        swapped == Credit(Credit(w, Manager, QKC, -lent), Manager, tx.gtok, tx.gas * tx.price)
        m == tx @@ [payPrice |-> tx.price, deposit |-> FALSE, start |-> 0,
                    rate |-> IF PaysNative(tx) THEN NativeQuote.rate ELSE 100]
    IN  IF PaysNative(tx) /\ (Converted(tx) <= 0 \/ w.bal[Manager][QKC] < lent) THEN Res(w, "reserve", 0)
        ELSE TransitionDb(IF PaysNative(tx) THEN swapped ELSE w, [m EXCEPT !.price = Converted(tx)], o)

ApplyCrossShardDeposit(w, d, o) ==
    LET start == IF (IF XShardGasFix THEN d.root ELSE d.price = 0) THEN 0 ELSE GasOf.gtxx
        share == (d.price * GasOf.gtxx * FeeNum) \div FeeDen
        early == [Credit(Credit(w, d.to, d.vtok, d.value), StMiner, QKC, share)
                     EXCEPT !.fee = @ + share, !.gasUsed = @ + start]
        m == d @@ [deposit |-> TRUE, start |-> start, src |-> "", dst |-> "", data |-> 0, nonce |-> 0,
                   gtok |-> QKC, payPrice |-> d.price]
    IN  IF ~w.evmOn THEN Burn(early, d.price * (GasOf.gtxx + d.gas) - share)
        ELSE TransitionDb(Credit(w, d.from, d.vtok, d.value), m, o).w

CostIn(tx, t) == (IF t = tx.vtok THEN tx.value ELSE 0) + (IF t = tx.gtok THEN tx.price * tx.gas ELSE 0)
CanPay(w, tx) == \A t \in {tx.vtok, tx.gtok} :
    (t # QKC => w.bal[tx.from][t] > 0) /\ w.bal[tx.from][t] >= CostIn(tx, t)

ValidateTransaction(w, tx) ==
    /\ w.nonce[tx.from] <= tx.nonce
    /\ tx.gas >= IntrinsicGas(tx)
    /\ CanPay(w, tx)
    /\ PaysNative(tx) /\ tx.price # 0 =>
          Converted(tx) # 0 /\ w.bal[Manager][QKC] >= tx.gas * Converted(tx)
    /\ w.gasUsed + tx.gas <= w.limit

\* validateTx, as far as the state decides: a transaction of the future is not looked at closely.
validateTx(w, tx) ==
    /\ IsCrossShard(tx) => tx.gas <= StXGasLimit
    /\ w.evmOn \/ (~tx.create /\ tx.data = 0)
    /\ w.nonce[tx.from] < tx.nonce \/ ValidateTransaction(w, tx)

----------------------------------------------------------------------------
(* Making a block: CreateBlockToMine, and beside it runBlock of the same block *)

\* getEvmStateForNewBlock; the time of a block never goes back.
StartBlock(s, evmOn) ==
    /\ blk = Idle
    /\ madeBlocks < StMaxBlocks
    /\ world[s].evmOn => evmOn
    /\ blk' = [phase |-> "deposits", shard |-> s, box |-> inbox[s],
               w |-> [world[s] EXCEPT !.evmOn = evmOn, !.gp = StGasLimit, !.limit = StGasLimit]]
    /\ madeBlocks' = madeBlocks + 1
    /\ UNCHANGED <<world, inbox, minted>>

\* One turn of RunCrossShardTxWithCursor; a deposit runs with a gas pool of its own.
RunDeposit(o) ==
    /\ blk.phase = "deposits"
    /\ blk.box # << >>
    /\ LET w == ApplyCrossShardDeposit(blk.w, Head(blk.box), o)
       IN  blk' = [blk EXCEPT !.w = [w EXCEPT !.gp = StGasLimit], !.box = Tail(@),
                              !.phase = IF w.gasUsed >= StXGasLimit THEN "full" ELSE "deposits"]
    /\ UNCHANGED <<world, inbox, madeBlocks, minted>>

\* The pool holds transactions that its own checks let in, each for itself (TxPool has the rest).
\* The producer takes the unused part of the deposits' gas off the limit; Process sets it back.
EndDeposits(pool) ==
    /\ blk.phase = "full" \/ (blk.phase = "deposits" /\ blk.box = << >>)
    /\ \A i \in DOMAIN pool :
          /\ pool[i].src = blk.shard
          /\ validateTx([world[blk.shard] EXCEPT !.evmOn = blk.w.evmOn], pool[i])
          /\ CanPay(world[blk.shard], pool[i])
    /\ LET unused == IF blk.w.gasUsed < StXGasLimit THEN StXGasLimit - blk.w.gasUsed ELSE 0
       IN  blk' = [phase |-> "txs", shard |-> blk.shard, box |-> blk.box, ok |-> TRUE, heads |-> pool,
                   w |-> [blk.w EXCEPT !.limit = @ - unused], v |-> blk.w]
    /\ UNCHANGED <<world, inbox, madeBlocks, minted>>

\* TransactionsByPriceAndNonce: the dearest of the accounts' first transactions.
FirstOf(s, a) == {i \in DOMAIN s : s[i].from = a /\ \A j \in DOMAIN s : s[j].from = a => i <= j}
HeadsOf(s) == UNION {FirstOf(s, a) : a \in StAcct}
Peek(s) == CHOOSE i \in HeadsOf(s) : \A j \in HeadsOf(s) : s[j].price < s[i].price \/ (s[j].price = s[i].price /\ i <= j)
Shift(s, i) == SubSeq(s, 1, i - 1) \o SubSeq(s, i + 1, Len(s))
PopAccount(s, a) == SelectSeq(s, LAMBDA t : t.from # a)

checkTxBeforeApply(w, tx) ==
    /\ tx.gas <= w.limit - w.gasUsed
    /\ Converted(tx) >= MinMiningPrice
    /\ w.evmOn \/ (~tx.create /\ tx.data = 0)

\* One turn of addTransactionToBlock.  A transaction that fails is left out; what it already did
\* to the state stays.
AddTransaction(o) ==
    /\ blk.phase = "txs"
    /\ blk.heads # << >> /\ blk.w.gasUsed < blk.w.limit
    /\ LET i == Peek(blk.heads)
           tx == blk.heads[i]
           r == ApplyTransaction(blk.w, tx, o)
           replay == ApplyTransaction(blk.v, tx, o)
           popped == [blk EXCEPT !.heads = PopAccount(@, tx.from)]
       IN  blk' = IF ~checkTxBeforeApply(blk.w, tx) THEN popped
                  ELSE IF r.err \in {"gas limit", "nonce too high"} THEN [popped EXCEPT !.w = r.w]
                  ELSE IF r.err # Ok THEN [blk EXCEPT !.heads = Shift(@, i), !.w = r.w]
                  ELSE [blk EXCEPT !.heads = Shift(@, i), !.w = r.w, !.v = replay.w,
                                   !.ok = @ /\ validateTx(blk.v, tx) /\ replay.err = Ok]
    /\ UNCHANGED <<world, inbox, madeBlocks, minted>>

\* ValidateState.
SameState(w, v) ==
    w.bal = v.bal /\ w.nonce = v.nonce /\ w.gasUsed = v.gasUsed /\ w.fee = v.fee

AtRest(w) == [w EXCEPT !.gasUsed = 0, !.fee = 0, !.gp = 0, !.limit = StGasLimit, !.out = << >>]

\* Finalize, and the insertion of the block.
SealBlock ==
    /\ blk.phase = "txs"
    /\ blk.heads = << >> \/ blk.w.gasUsed >= blk.w.limit
    /\ LET accepted == blk.ok /\ SameState(blk.w, blk.v)
           paid == Credit(blk.v, StMiner, QKC, StReward)
           other == CHOOSE s \in StShard : s # blk.shard
       IN  IF accepted
           THEN /\ world' = [world EXCEPT ![blk.shard] = AtRest(paid)]
                /\ inbox' = [inbox EXCEPT ![other] = @ \o blk.v.out, ![blk.shard] = blk.box]
                /\ minted' = minted + StReward
                /\ blk' = Idle
           ELSE blk' = [phase |-> "refused"] /\ UNCHANGED <<world, inbox, minted>>
    /\ UNCHANGED madeBlocks

\* A refused block leaves the chain as it was.
DropBlock ==
    /\ blk.phase = "refused"
    /\ blk' = Idle
    /\ UNCHANGED <<world, inbox, madeBlocks, minted>>

StInit ==
    /\ world = [s \in StShard |->
                  [bal |-> StBalance[s], stake |-> StStake[s], nonce |-> [a \in StAcct |-> 0], burnt |-> 0,
                   gasUsed |-> 0, fee |-> 0, gp |-> 0, limit |-> StGasLimit, out |-> << >>, evmOn |-> FALSE]]
    /\ inbox = StInbox
    /\ blk = Idle
    /\ madeBlocks = 0
    /\ minted = 0

StNext ==
    \/ \E s \in StShard, evmOn \in BOOLEAN : StartBlock(s, evmOn)
    \/ \E o \in Outcomes : RunDeposit(o) \/ AddTransaction(o)
    \/ \E pool \in PoolViews : EndDeposits(pool)
    \/ SealBlock \/ DropBlock

----------------------------------------------------------------------------
(* Properties *)

\* Whatever transactions, deposits, refunds, native gas tokens and fees do, no token appears or
\* disappears: balances on both shards, deposits on their way with the gas they carry and the
\* target miner's share, and what is burnt, add up to the start and the block rewards.
OnShard(t) == FoldSet(LAMBDA s, acc : acc
    + FoldSet(LAMBDA a, sum : sum + world[s].bal[a][t], 0, StAcct)
    + IF t = QKC THEN world[s].burnt ELSE 0, 0, StShard)
Carried(d, t) == (IF d.vtok = t THEN d.value ELSE 0)
                 + (IF t = QKC THEN d.price * (d.gas + GasOf.gtxx) ELSE 0)
InFlight(boxes, t) == FoldSet(LAMBDA s, acc : acc
    + FoldSet(LAMBDA i, sum : sum + Carried(boxes[s][i], t), 0, DOMAIN boxes[s]), 0, StShard)
AtStart(t) == InFlight(StInbox, t) + FoldSet(LAMBDA s, acc : acc
    + FoldSet(LAMBDA a, sum : sum + StBalance[s][a][t], 0, StAcct), 0, StShard)
TokensConserved ==
    blk = Idle => \A t \in StToken :
        OnShard(t) + InFlight(inbox, t) = AtStart(t) + IF t = QKC THEN minted ELSE 0

=============================================================================
