----------------------------- MODULE MCExecution -----------------------------
(***************************************************************************)
(* Instances of the components below a block: the transaction pool, the    *)
(* state and its journal, message calls, the interpreter, transactions and *)
(* blocks on the state, the transaction index and the byte encoding.  They *)
(* share no variable; running names the one that a behaviour is about, so  *)
(* the state space is the sum of theirs.                                   *)
(***************************************************************************)
EXTENDS TxPool, StateDB, EvmCalls, Interpreter, StateTransition, TxIndex, Serializer

VARIABLE running

-----------------------------------------------------------------------------
(* Transaction pool: two transactions of a compete for nonce 0, a has a    *)
(* third that leaves a gap, b has one.                                     *)
PoolTx(f, n, p) == [from |-> f, nonce |-> n, price |-> p, token |-> "q", cost |-> 1]
PoolTxs == {PoolTx("a", 0, 1), PoolTx("a", 0, 2), PoolTx("a", 1, 3), PoolTx("b", 0, 2)}
PoolFund == [a |-> [q |-> 3], b |-> [q |-> 1]]

SdbBalances == [x |-> [q |-> 1, r |-> 1], y |-> [q |-> 0, r |-> 0]]

-----------------------------------------------------------------------------
(* Message calls: o is the origin, c a contract, n has no account yet.     *)
EvmAll == EvmAddr \cup Native
EvmWorld ==
    [bal |-> [a \in EvmAll |-> [q |-> IF a = "o" THEN 2 ELSE IF a = "c" THEN 1 ELSE 0,
                                r |-> IF a \in {"o", "c"} THEN 1 ELSE 0]],
     nonce |-> [a \in EvmAll |-> IF a = "c" THEN 1 ELSE 0],
     code |-> [a \in EvmAll |-> IF a = "c" THEN 1 ELSE 0],
     slot |-> [a \in EvmAll |-> 0], live |-> {"o", "c"}, logs |-> 0, refund |-> 0]
EvmLocked == [a \in EvmAll |-> IF a = "o" THEN 1 ELSE 0]
EvmGas ==
    [calls |-> 2, transfer |-> 12, stipend |-> 5, newAccount |-> 25, create |-> 32, createData |-> 20,
     word |-> 2, set |-> 20, clear |-> 5, reset |-> 5, refund |-> 15, log |-> 4, suicide |-> 10,
     mnt |-> 1, deploy |-> 3, mint |-> 9, balance |-> 4, math |-> 6]
MntTo(a, token, value, wellFormed) ==
    [to |-> a, token |-> token, value |-> value, wellFormed |-> wellFormed]
EvmMntInputs ==
    {MntTo("n", "r", 1, TRUE), MntTo("transferMnt", "q", 0, TRUE), MntTo("o", "q", 0, FALSE)}

-----------------------------------------------------------------------------
(* Interpreter: four byte values, words of two bytes.  Every operation on  *)
(* words with the operands that two pushes can give, five-instruction      *)
(* programs of jumps, and memory, call and copy instructions whose         *)
(* arguments reach the edge of memory, return data and gas.                *)
Byte == {"b0", "b1", "b2", "b3"}
VmBytes == [op \in DOMAIN JumpTable \cup Byte |->
    CASE op \in {"b0", "STOP"} -> 0 [] op \in {"b2", "PUSH1"} -> 2 [] op \in {"b3", "JUMPDEST"} -> 3
      [] OTHER -> 1]
BinaryCode == {<<"PUSH2", a, b, "PUSH2", c, d, op>> : a, b, c, d \in Byte, op \in Binary}
UnaryCode == {<<"PUSH2", a, b, op>> : a, b \in Byte, op \in Unary}
TernaryCode == {<<"PUSH1", a, "PUSH1", b, "PUSH1", c, op>> : a, b, c \in Byte, op \in Ternary}
FlowOp == {"PUSH1", "JUMPDEST", "JUMPI", "SWAP1", "DUP1"}
FlowCode == {<<a, b, c, d, e>> : a, b, c, d, e \in FlowOp}
EnvOp == EnvPush \cup EnvRead \cup
         {"POP", "PC", "MSIZE", "GAS", "MLOAD", "CALLDATALOAD", "CALLDATASIZE", "CODESIZE",
          "SELFDESTRUCT", "RETURNDATASIZE", "JUMP"}
EnvCode == {<<"PUSH1", "b1", op, "STOP">> : op \in EnvOp} \cup {<<op>> : op \in EnvOp \cup {"b0"}}
MemoryOp == {"CALLDATACOPY", "CODECOPY", "RETURNDATACOPY", "CREATE", "LOG1", "LOG0", "SHA3", "MSTORE",
             "MSTORE8", "RETURN", "REVERT", "SSTORE", "DUP2", "SWAP2"}
MemoryCode ==
    {<<"PUSH1", a, "PUSH1", b, "PUSH1", c, op, "MSIZE">> : a, b, c \in Byte, op \in MemoryOp}
CallPrograms ==
    {<<"PUSH1", a, "PUSH1", b, "PUSH1", c, "PUSH1", d, "PUSH1", v, "PUSH1", "b0", "PUSH1", "b1", op,
       "RETURNDATASIZE", "PUSH1", "b0", "PUSH1", "b0", "RETURNDATACOPY">> :
        a, b, c, d \in {"b0", "b3"}, v \in {"b0", "b1"}, op \in CallOps \cup {"CREATE2", "EXTCODECOPY"}}
JumpCode == {<<"PUSH2", a, b, "JUMP", "PUSH9">> \o [i \in 1 .. 9 |-> "JUMPDEST"] \o <<"JUMPDEST", "PC">> :
                a, b \in Byte}
VmFrames(C, G, R) == {[code |-> c, gas |-> g, readOnly |-> r] : c \in C, g \in G, r \in R}
VmPrograms ==
    VmFrames(BinaryCode \cup UnaryCode \cup TernaryCode \cup FlowCode \cup JumpCode, {400}, {FALSE})
    \cup VmFrames(EnvCode \cup MemoryCode \cup CallPrograms, {60, 40000}, BOOLEAN)
VmOutcomes ==
    {[err |-> "ok", keepsGas |-> TRUE, data |-> <<1, 2>>],
     [err |-> "revert", keepsGas |-> FALSE, data |-> <<3>>],
     [err |-> "fail", keepsGas |-> FALSE, data |-> <<>>]}
VmCallData == <<1, 2, 3>>

-----------------------------------------------------------------------------
(* Transactions: a and b hold money in shard s1, m mines, g manages the    *)
(* gas reserves.                                                           *)
NoMoney == [a \in StAcct |-> [q |-> 0, r |-> 0]]
StBalances == [s1 |-> [NoMoney EXCEPT !["a"] = [q |-> 14, r |-> 5], !["b"].q = 9, !["g"].q = 10],
               s2 |-> [NoMoney EXCEPT !["b"].q = 2]]
StStakes == [s1 |-> [a \in StAcct |-> IF a = "b" THEN 3 ELSE 0],
             s2 |-> [a \in StAcct |-> IF a = "a" THEN 2 ELSE 0]]
StDeposits ==
    [s1 |-> <<>>,
     s2 |-> <<[from |-> "z", to |-> "b", value |-> 1, vtok |-> "q", gas |-> 0, price |-> 0, rate |-> 100,
               create |-> FALSE, root |-> TRUE]>>]
Tx(from, to, dst, v, vt, gas, price, gt, create, data, n) ==
    [from |-> from, to |-> to, src |-> "s1", dst |-> dst, value |-> v, vtok |-> vt, gas |-> gas,
     price |-> price, gtok |-> gt, create |-> create, data |-> data, nonce |-> n]
TxOfA(n) ==
    {Tx("a", "b", "s1", 7, "q", 3, 1, "q", FALSE, 0, n), Tx("a", "b", "s2", 2, "q", 4, 1, "q", FALSE, 0, n),
     Tx("a", "b", "s2", 1, "r", 4, 1, "r", FALSE, 0, n), Tx("a", "b", "s1", 2, "q", 3, 1, "r", FALSE, 1, n),
     Tx("a", "b", "s2", 2, "q", 5, 2, "q", TRUE, 0, n), Tx("a", "b", "s1", 1, "r", 3, 1, "q", TRUE, 0, n)}
StPools ==
    {<<>>} \cup {<<x>> : x \in UNION {TxOfA(n) : n \in 0 .. 2}}
    \cup {<<x, y>> : x \in TxOfA(0), y \in TxOfA(1)}
    \cup {<<x, Tx("b", "a", "s1", 5, "q", 2, 2, "q", FALSE, 0, 0)>> : x \in TxOfA(0)}
    \cup {<<Tx("b", "a", "s2", 2, "q", 3, 1, "q", FALSE, 0, 0)>>}
StOutcomes ==
    {[err |-> "ok", use |-> 1, refund |-> 1], [err |-> "revert", use |-> 0, refund |-> 0],
     [err |-> "fail", use |-> 0, refund |-> 0]}
StGasOf == [tx |-> 2, create |-> 3, byte |-> 1, gtxx |-> 1]
StQuote == [rate |-> 50, price |-> 2]

-----------------------------------------------------------------------------
(* Transaction index: a1 competes with b1 and b2, which is longer; t1 and  *)
(* t2 are on both branches, d1 is a deposit on both.                       *)
PathOf(s) == [i \in 0 .. Len(s) - 1 |-> s[i + 1]]
IdxBlocks == {"g", "a1", "b1", "b2"}
IdxNumbers == [g |-> 0, a1 |-> 1, b1 |-> 1, b2 |-> 2]
IdxPaths == [g |-> PathOf(<<"g">>), a1 |-> PathOf(<<"g", "a1">>), b1 |-> PathOf(<<"g", "b1">>),
             b2 |-> PathOf(<<"g", "b1", "b2">>)]
IdxTxs == [g |-> <<>>, a1 |-> <<"t1", "t2">>, b1 |-> <<"t2">>, b2 |-> <<"t3", "t1">>]
IdxDeposits == [g |-> <<>>, a1 |-> <<"d1", "r0">>, b1 |-> <<>>, b2 |-> <<"r1", "d1">>]
IdxFrom == [t1 |-> "u", t2 |-> "u", t3 |-> "v"]
IdxTo == [t1 |-> "v", t2 |-> "v", t3 |-> "v", d1 |-> "v", r0 |-> "u", r1 |-> "u"]

-----------------------------------------------------------------------------
(* Encoding: a byte has four values.  Numbers, slices and lists to the     *)
(* limit of their length prefix and, where the code refuses it, beyond.    *)
BytesUpto(n) == UNION {[1 .. k -> 0 .. ByteBase - 1] : k \in 0 .. n}
Same(k) == [i \in 1 .. k |-> k % ByteBase]
SerInner == StructOf(<<Kind("big"), Kind("bool")>>)
SerInners == {<<>>, <<<<0, FALSE>>>>, <<<<5, TRUE>>>>}
SerOneCase == {<<Kind("bool"), {TRUE}>>}
SerAllCases ==
    {<<UintN(2), 0 .. ByteBase ^ 2 - 1>>, <<Kind("big"), 0 .. ByteBase ^ (ByteBase - 1) - 1>>,
     <<Kind("varuint"), {0, 1, 3, 4, 15}>>, <<Kind("bool"), BOOLEAN>>,
     <<ByteArray(2), [1 .. 2 -> 0 .. ByteBase - 1]>>, <<Kind("string"), BytesUpto(2)>>,
     <<ByteSlice(1), {Same(k) : k \in 0 .. 5}>>, <<ByteSlice(2), {Same(k) : k \in 0 .. 17}>>,
     <<ListOf(Kind("big"), 1), UNION {[1 .. k -> {0, 2, 5}] : k \in 0 .. 4}>>,
     <<ListOf(ByteSlice(1), 2), UNION {[1 .. k -> BytesUpto(1)] : k \in 0 .. 2}>>,
     <<ArrayOf(UintN(2), 2), [1 .. 2 -> {0, 7}]>>, <<PtrTo(UintN(1), TRUE), {<<>>, <<0>>, <<3>>}>>,
     <<PtrTo(SerInner, FALSE), SerInners>>,
     <<StructOf(<<PtrTo(SerInner, TRUE), ListOf(PtrTo(SerInner, FALSE), 1), ByteArray(1)>>),
       {<<p, l, <<2>>>> : p \in SerInners, l \in UNION {[1 .. k -> SerInners] : k \in 0 .. 3}}>>}
SerAfter == {<<>>, <<0>>, <<3, 3>>}

-----------------------------------------------------------------------------
ExecInit ==
    /\ running \in {"pool", "state", "evm", "vm", "block", "index", "serialize"}
    /\ PoolInit /\ SdbInit /\ EvmInit /\ StInit /\ IdxInit
    /\ VmInit(IF running = "vm" THEN VmStarts ELSE VmFrames({<<"STOP">>}, {0}, {FALSE}))
    /\ SerInit(IF running = "serialize" THEN SerCases ELSE SerOneCase)

ExecNext ==
    /\ UNCHANGED running
    /\ running # "pool" => UNCHANGED poolVars
    /\ running # "state" => UNCHANGED sdbVars
    /\ running # "evm" => UNCHANGED evmVars
    /\ running # "vm" => UNCHANGED vm
    /\ running # "block" => UNCHANGED stVars
    /\ running # "index" => UNCHANGED idxVars
    /\ running # "serialize" => UNCHANGED serVars
    /\ \/ running = "pool" /\ PoolNext
       \/ running = "state" /\ SdbNext
       \/ running = "evm" /\ EvmNext
       \/ running = "vm" /\ VmNext
       \/ running = "block" /\ StNext
       \/ running = "index" /\ IdxNext
       \/ running = "serialize" /\ SerNext

ExecSpec ==
    ExecInit /\ [][ExecNext]_<<running, poolVars, sdbVars, evmVars, vm, stVars, idxVars, serVars>>

-----------------------------------------------------------------------------
\* The pool's indexes name the same transactions, and what is pending can be executed in
\* order from the account's nonce (tx_pool.go add, promoteTx, demoteUnexecutables).
PoolSound == running = "pool" => PoolIndexed /\ PendingRun


\* A call that fails leaves the state as it found it, no call makes gas, a read-only frame
\* changes nothing but through the native-token precompiles, and the interpreter stays within
\* its stack, its memory and its code (evm.go Call, create; gas_table.go; interpreter.go Run).
EvmSound ==
    /\ running = "evm" => FailedCallUndone /\ GasNeverCreated /\ StaticUnlessNative
    /\ running = "vm" => VmStaysInBounds

\* Transactions, deposits, fees and rewards move tokens and make none but the reward
\* (state_transition.go, state_processor.go).
BlockSound == running = "block" => TokensConserved

\* The index refers to stored blocks and to the chain of the tip
\* (minorblockchain.go reorg, insert; accessors_indexes.go).
IndexSound == running = "index" => RefsStored /\ IndexFollowsTip

\* What is decoded is what was encoded, and the bytes after it are left alone (serialize).
EncodingSound == running = "serialize" => RoundTrip

=============================================================================
