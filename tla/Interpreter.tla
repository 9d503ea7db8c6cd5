----------------------------- MODULE Interpreter -----------------------------
(***************************************************************************)
(* The byte-code interpreter of one contract frame (core/vm:               *)
(* interpreter.go, jump_table.go, instructions.go, gas_table.go,           *)
(* memory_table.go, memory.go, stack.go, analysis.go, contract.go).        *)
(*                                                                         *)
(* A word has WordBytes bytes of ByteBits bits, 32 of 8 in the code.  A    *)
(* byte of code is the name of the opcode it would be; ByteVal is its      *)
(* value when it is pushed.  What the chain supplies (addresses, block     *)
(* fields, hashes) is the word EnvWord.  A call to another contract        *)
(* returns one of CallOutcomes; EvmCalls has what happens inside.          *)
(***************************************************************************)
EXTENDS Integers, Sequences, FiniteSets, TLC
LOCAL INSTANCE Bitwise

CONSTANTS
    ByteBits, WordBytes, ByteVal,
    VmStarts,         \* the frames: [code, gas, readOnly]
    VmInput,          \* the call data: a sequence of byte values
    StackLimit, MemBound, EnvWord,
    CallOutcomes      \* [err, keepsGas, data]

VARIABLE vm

----------------------------------------------------------------------------
(* Words *)

WordBits == ByteBits * WordBytes
Words == 2 ^ WordBits
U256(x) == x % Words
S256(x) == IF x < Words \div 2 THEN x ELSE x - Words
AbsVal(x) == IF x < 0 THEN -x ELSE x
Bool(b) == IF b THEN 1 ELSE 0

opAdd(x, y) == U256(x + y)
opSub(x, y) == U256(x - y)
opMul(x, y) == U256(x * y)
opDiv(x, y) == IF y # 0 THEN U256(x \div y) ELSE 0

opSdiv(x, y) ==
    LET a == S256(x)
        b == S256(y)
        q == AbsVal(a) \div AbsVal(b)
    IN  IF b = 0 \/ a = 0 THEN 0 ELSE IF (a < 0) # (b < 0) THEN U256(-q) ELSE U256(q)

opMod(x, y) == IF y = 0 THEN 0 ELSE U256(x % y)

opSmod(x, y) ==
    LET a == S256(x)
        b == S256(y)
        m == AbsVal(a) % AbsVal(b)
    IN  IF b = 0 THEN 0 ELSE IF a < 0 THEN U256(-m) ELSE U256(m)

opExp(base, exponent) ==
    LET power[n \in 0 .. exponent] == IF n = 0 THEN 1 ELSE U256(base * power[n - 1])
    IN  IF exponent = 0 THEN 1 ELSE IF base = 0 THEN 0 ELSE IF exponent = 1 THEN base
        ELSE power[exponent]

\* The mask covers the bits below the sign bit.
MutopSignExtend(back, num) ==
    LET bit == back * ByteBits + ByteBits
        low == num % 2 ^ bit
    IN  IF back >= WordBytes - 1 THEN num
        ELSE IF (num \div 2 ^ bit) % 2 = 1 THEN U256(low + Words - 2 ^ bit) ELSE low

opSignExtend(back, num) ==
    LET bit == back * ByteBits + ByteBits - 1
        low == num % 2 ^ bit
    IN  IF back >= WordBytes - 1 THEN num
        ELSE IF (num \div 2 ^ bit) % 2 = 1 THEN U256(low + Words - 2 ^ bit) ELSE low

opLt(x, y) == Bool(x < y)
opGt(x, y) == Bool(x > y)

\* Comparisons of signed words look at the top bits first.
opSlt(x, y) ==
    LET half == Words \div 2
    IN  IF x >= half /\ y < half THEN 1 ELSE IF x < half /\ y >= half THEN 0 ELSE Bool(x < y)
opSgt(x, y) ==
    LET half == Words \div 2
    IN  IF x >= half /\ y < half THEN 0 ELSE IF x < half /\ y >= half THEN 1 ELSE Bool(x > y)

opEq(x, y) == Bool(x = y)
opIszero(x) == IF x > 0 THEN 0 ELSE 1
opAnd(x, y) == x & y
opOr(x, y) == x | y
opXor(x, y) == x ^^ y
opNot(x) == U256(-x - 1)

opByte(th, val) ==
    IF th < WordBytes THEN (val \div 2 ^ (ByteBits * (WordBytes - 1 - th))) % 2 ^ ByteBits ELSE 0

opAddmod(x, y, z) == IF z > 0 THEN U256((x + y) % z) ELSE 0
opMulmod(x, y, z) == IF z > 0 THEN U256((x * y) % z) ELSE 0
opSHL(shift, value) == IF shift >= WordBits THEN 0 ELSE U256(value * 2 ^ shift)
opSHR(shift, value) == IF shift >= WordBits THEN 0 ELSE U256(value \div 2 ^ shift)

opSAR(shift, value) ==
    LET v == S256(value)
    IN  IF shift >= WordBits THEN IF v >= 0 THEN 0 ELSE U256(-1) ELSE U256(v \div 2 ^ shift)

Unary == {"ISZERO", "NOT"}
Ternary == {"ADDMOD", "MULMOD"}
Binary == {"ADD", "SUB", "MUL", "DIV", "SDIV", "MOD", "SMOD", "EXP", "SIGNEXTEND", "LT", "GT", "SLT",
           "SGT", "EQ", "AND", "OR", "XOR", "BYTE", "SHL", "SHR", "SAR"}

\* x was on top of the stack.
Compute(op, x, y, z) ==
    CASE op = "ADD" -> opAdd(x, y) [] op = "SUB" -> opSub(x, y) [] op = "MUL" -> opMul(x, y)
      [] op = "DIV" -> opDiv(x, y) [] op = "SDIV" -> opSdiv(x, y) [] op = "MOD" -> opMod(x, y)
      [] op = "SMOD" -> opSmod(x, y) [] op = "EXP" -> opExp(x, y)
      [] op = "SIGNEXTEND" -> opSignExtend(x, y) [] op = "LT" -> opLt(x, y) [] op = "GT" -> opGt(x, y)
      [] op = "SLT" -> opSlt(x, y) [] op = "SGT" -> opSgt(x, y) [] op = "EQ" -> opEq(x, y)
      [] op = "AND" -> opAnd(x, y) [] op = "OR" -> opOr(x, y) [] op = "XOR" -> opXor(x, y)
      [] op = "BYTE" -> opByte(x, y) [] op = "SHL" -> opSHL(x, y) [] op = "SHR" -> opSHR(x, y)
      [] op = "SAR" -> opSAR(x, y) [] op = "ISZERO" -> opIszero(x) [] op = "NOT" -> opNot(x)
      [] op = "ADDMOD" -> opAddmod(x, y, z) [] op = "MULMOD" -> opMulmod(x, y, z)

----------------------------------------------------------------------------
(* The jump table: pops and pushes of validateStack, constant gas, flags *)

Op(pop, push, gas) == [pop |-> pop, push |-> push, gas |-> gas, writes |-> FALSE, halts |-> FALSE,
                       reverts |-> FALSE, jumps |-> FALSE, returns |-> FALSE]
Quick == 2
Fastest == 3
Fast == 5
Mid == 8
Slow == 10
Ext == 20

ArithmeticSet ==
    [STOP |-> [Op(0, 0, 0) EXCEPT !.halts = TRUE],
     ADD |-> Op(2, 1, Fastest), MUL |-> Op(2, 1, Fast), SUB |-> Op(2, 1, Fastest), DIV |-> Op(2, 1, Fast),
     SDIV |-> Op(2, 1, Fast), MOD |-> Op(2, 1, Fast), SMOD |-> Op(2, 1, Fast),
     ADDMOD |-> Op(3, 1, Mid), MULMOD |-> Op(3, 1, Mid), EXP |-> Op(2, 1, Slow),
     SIGNEXTEND |-> Op(2, 1, Fast), LT |-> Op(2, 1, Fastest), GT |-> Op(2, 1, Fastest),
     SLT |-> Op(2, 1, Fastest), SGT |-> Op(2, 1, Fastest), EQ |-> Op(2, 1, Fastest),
     ISZERO |-> Op(1, 1, Fastest), AND |-> Op(2, 1, Fastest), XOR |-> Op(2, 1, Fastest),
     OR |-> Op(2, 1, Fastest), NOT |-> Op(1, 1, Fastest), BYTE |-> Op(2, 1, Fastest)]

EnvironmentSet ==
    [SHA3 |-> Op(2, 1, 30), ADDRESS |-> Op(0, 1, Quick), BALANCE |-> Op(1, 1, 400),
     ORIGIN |-> Op(0, 1, Quick), CALLER |-> Op(0, 1, Quick), CALLVALUE |-> Op(0, 1, Quick),
     CALLDATALOAD |-> Op(1, 1, Fastest), CALLDATASIZE |-> Op(0, 1, Quick),
     CALLDATACOPY |-> Op(3, 0, Fastest), CODESIZE |-> Op(0, 1, Quick), CODECOPY |-> Op(3, 0, Fastest),
     GASPRICE |-> Op(0, 1, Quick), EXTCODESIZE |-> Op(1, 1, 700), EXTCODECOPY |-> Op(4, 0, 700),
     BLOCKHASH |-> Op(1, 1, Ext), COINBASE |-> Op(0, 1, Quick), TIMESTAMP |-> Op(0, 1, Quick),
     NUMBER |-> Op(0, 1, Quick), DIFFICULTY |-> Op(0, 1, Quick), GASLIMIT |-> Op(0, 1, Quick)]

FlowSet ==
    [POP |-> Op(1, 0, Quick), MLOAD |-> Op(1, 1, Fastest), MSTORE |-> Op(2, 0, Fastest),
     MSTORE8 |-> Op(2, 0, Fastest), SLOAD |-> Op(1, 1, 200),
     SSTORE |-> [Op(2, 0, 0) EXCEPT !.writes = TRUE], JUMP |-> [Op(1, 0, Mid) EXCEPT !.jumps = TRUE],
     JUMPI |-> [Op(2, 0, Slow) EXCEPT !.jumps = TRUE], PC |-> Op(0, 1, Quick), MSIZE |-> Op(0, 1, Quick),
     GAS |-> Op(0, 1, Quick), JUMPDEST |-> Op(0, 0, 1)]

\* PUSH1 .. PUSH32, DUP1 .. DUP16, SWAP1 .. SWAP16: the model has some of each.
PushSize == [PUSH1 |-> 1, PUSH2 |-> 2, PUSH9 |-> 9]
DupDepth == [DUP1 |-> 1, DUP2 |-> 2]
SwapDepth == [SWAP1 |-> 1, SWAP2 |-> 2]
PushSet == [op \in DOMAIN PushSize |-> Op(0, 1, Fastest)]
DupSet == [op \in DOMAIN DupDepth |-> Op(DupDepth[op], DupDepth[op] + 1, Fastest)]

\* One item short: SWAPn exchanges the top with the item n below it.
MutSwapSet == [op \in DOMAIN SwapDepth |-> Op(SwapDepth[op], SwapDepth[op], Fastest)]
SwapSet == [op \in DOMAIN SwapDepth |-> Op(SwapDepth[op] + 1, SwapDepth[op] + 1, Fastest)]

Calls(o) == [o EXCEPT !.returns = TRUE]
SystemSet ==
    [LOG0 |-> [Op(2, 0, 375) EXCEPT !.writes = TRUE], LOG1 |-> [Op(3, 0, 750) EXCEPT !.writes = TRUE],
     CREATE |-> [Calls(Op(3, 1, 32000)) EXCEPT !.writes = TRUE], CALL |-> Calls(Op(7, 1, 700)),
     CALLCODE |-> Calls(Op(7, 1, 700)), RETURN |-> [Op(2, 0, 0) EXCEPT !.halts = TRUE],
     SELFDESTRUCT |-> [Op(1, 0, 5000) EXCEPT !.halts = TRUE, !.writes = TRUE]]

HomesteadSet == [DELEGATECALL |-> Calls(Op(6, 1, 700))]
ByzantiumSet ==
    [STATICCALL |-> Calls(Op(6, 1, 700)), RETURNDATASIZE |-> Op(0, 1, Quick),
     RETURNDATACOPY |-> Op(3, 0, Fastest), REVERT |-> [Calls(Op(2, 0, 0)) EXCEPT !.reverts = TRUE]]
ConstantinopleSet ==
    [SHL |-> Op(2, 1, Fastest), SHR |-> Op(2, 1, Fastest), SAR |-> Op(2, 1, Fastest),
     EXTCODEHASH |-> Op(1, 1, 400), CREATE2 |-> [Calls(Op(4, 1, 32000)) EXCEPT !.writes = TRUE]]

JumpTable == ArithmeticSet @@ EnvironmentSet @@ FlowSet @@ PushSet @@ DupSet @@ SwapSet @@ SystemSet
             @@ HomesteadSet @@ ByzantiumSet @@ ConstantinopleSet

\* The opcodes that only push something the chain supplies.
EnvPush == {"ADDRESS", "ORIGIN", "CALLER", "CALLVALUE", "GASPRICE", "COINBASE", "TIMESTAMP", "NUMBER",
            "DIFFICULTY", "GASLIMIT"}
EnvRead == {"BALANCE", "EXTCODESIZE", "EXTCODEHASH", "BLOCKHASH", "SLOAD"}
CallOps == {"CALL", "CALLCODE", "DELEGATECALL", "STATICCALL"}
CreateOps == {"CREATE", "CREATE2"}
LogOps == {"LOG0", "LOG1"}

----------------------------------------------------------------------------
(* Stack, memory, code *)

Back(s, n) == s[Len(s) - n]
DropTop(s, n) == SubSeq(s, 1, Len(s) - n)
Grow(m, n) == m \o [i \in 1 .. n - Len(m) |-> 0]
ByteAt(v, i) == IF i < Len(v.code) THEN v.code[i + 1] ELSE "STOP"
getData(data, off, n) == [i \in 1 .. n |-> IF off + i <= Len(data) THEN data[off + i] ELSE 0]
WriteAt(m, off, bytes) ==
    [i \in DOMAIN m |-> IF i > off /\ i <= off + Len(bytes) THEN bytes[i - off] ELSE m[i]]
WordOf(bytes) ==
    LET val[i \in 0 .. Len(bytes)] == IF i = 0 THEN 0 ELSE val[i - 1] * 2 ^ ByteBits + bytes[i]
    IN  val[Len(bytes)]
BytesOf(x) == [i \in 1 .. WordBytes |-> opByte(i - 1, x)]
CodeBytes(code) == [i \in DOMAIN code |-> ByteVal[code[i]]]

\* set and set8 of the bit vector: eight positions straddle two of its bytes.
Bits8(pos) == {p \in pos .. pos + 7 : p \div 8 = pos \div 8}
              \cup {p \in (pos \div 8 + 1) * 8 .. (pos \div 8 + 1) * 8 + 7 : p % 8 < pos % 8}

RECURSIVE Scan(_, _), Argument(_, _)
Argument(pc, n) ==
    IF n >= 8 THEN Bits8(pc) \cup Argument(pc + 8, n - 8)
    ELSE pc .. pc + n - 1
Scan(code, pc) ==
    IF pc >= Len(code) THEN {}
    ELSE IF code[pc + 1] \in DOMAIN PushSize
    THEN LET n == PushSize[code[pc + 1]] IN Argument(pc + 1, n) \cup Scan(code, pc + 1 + n)
    ELSE Scan(code, pc + 1)

\* The positions that are data.
codeBitmap(code) == Scan(code, 0)

validJumpdest(v, dest) ==
    /\ dest < Len(v.code)
    /\ v.code[dest + 1] = "JUMPDEST"
    /\ dest \notin codeBitmap(v.code)

----------------------------------------------------------------------------
(* Memory an instruction asks for, and what it costs *)

calcMemSize(off, l) == IF l = 0 THEN 0 ELSE off + l
Larger(a, b) == IF a > b THEN a ELSE b

memorySize(op, s) ==
    CASE op \in {"SHA3", "RETURN", "REVERT"} \cup LogOps -> calcMemSize(Back(s, 0), Back(s, 1))
      [] op \in {"CALLDATACOPY", "RETURNDATACOPY", "CODECOPY"} -> calcMemSize(Back(s, 0), Back(s, 2))
      [] op = "EXTCODECOPY" -> calcMemSize(Back(s, 1), Back(s, 3))
      [] op \in {"MLOAD", "MSTORE"} -> calcMemSize(Back(s, 0), WordBytes)
      [] op = "MSTORE8" -> calcMemSize(Back(s, 0), 1)
      [] op \in CreateOps -> calcMemSize(Back(s, 1), Back(s, 2))
      [] op \in {"CALL", "CALLCODE"} ->
            Larger(calcMemSize(Back(s, 5), Back(s, 6)), calcMemSize(Back(s, 3), Back(s, 4)))
      [] op \in {"DELEGATECALL", "STATICCALL"} ->
            Larger(calcMemSize(Back(s, 4), Back(s, 5)), calcMemSize(Back(s, 2), Back(s, 3)))
      [] OTHER -> 0

toWordSize(n) == (n + WordBytes - 1) \div WordBytes
MemoryTotal(words) == words * 3 + (words * words) \div 512

memoryGasCost(v, size) ==
    IF toWordSize(size) * WordBytes > Len(v.mem) THEN MemoryTotal(toWordSize(size)) - v.memGas ELSE 0

\* All but a 64th, at most what is asked for.
Forwarded(available, requested) ==
    LET most == available - available \div 64 IN IF most < requested THEN most ELSE requested

\* The gas that depends on the operands, memory excluded.
CopyGas(s) == 3 * toWordSize(Back(s, 2))
CodeCopyGas(op, s) == 3 * toWordSize(Back(s, IF op = "EXTCODECOPY" THEN 3 ELSE 2))
HashGas(s) == 6 * toWordSize(Back(s, 1))
Create2Gas(s) == 6 * toWordSize(Back(s, 2))
LogGas(s) == 8 * Back(s, 1)
ExpGas(s) == 50 * Cardinality({i \in 1 .. WordBytes : Back(s, 1) >= 2 ^ (ByteBits * (i - 1))})
SstoreGas(s, slot) == IF slot = 0 /\ Back(s, 1) # 0 THEN 20000 ELSE 5000
CallGas(s) == IF Back(s, 2) # 0 THEN 9000 ELSE 0

dynamicGas(op, s, slot) ==
    CASE op \in {"CALLDATACOPY", "RETURNDATACOPY"} -> CopyGas(s)
      [] op \in {"CODECOPY", "EXTCODECOPY"} -> CodeCopyGas(op, s)
      [] op = "SHA3" -> HashGas(s)
      [] op = "CREATE2" -> Create2Gas(s)
      [] op \in LogOps -> LogGas(s)
      [] op = "EXP" -> ExpGas(s)
      [] op = "SSTORE" -> SstoreGas(s, slot)
      [] op \in {"CALL", "CALLCODE"} -> CallGas(s)
      [] OTHER -> 0

----------------------------------------------------------------------------
(* What an instruction does *)

\* The regions of memory it touches, as offset and size.
Regions(op, s) ==
    CASE op \in {"SHA3", "RETURN", "REVERT"} \cup LogOps -> {<<Back(s, 0), Back(s, 1)>>}
      [] op \in {"CALLDATACOPY", "RETURNDATACOPY", "CODECOPY"} -> {<<Back(s, 0), Back(s, 2)>>}
      [] op = "EXTCODECOPY" -> {<<Back(s, 1), Back(s, 3)>>}
      [] op \in {"MLOAD", "MSTORE"} -> {<<Back(s, 0), WordBytes>>}
      [] op = "MSTORE8" -> {<<Back(s, 0), 1>>}
      [] op \in CreateOps -> {<<Back(s, 1), Back(s, 2)>>}
      [] op \in {"CALL", "CALLCODE"} -> {<<Back(s, 3), Back(s, 4)>>, <<Back(s, 5), Back(s, 6)>>}
      [] op \in {"DELEGATECALL", "STATICCALL"} ->
            {<<Back(s, 2), Back(s, 3)>>, <<Back(s, 4), Back(s, 5)>>}
      [] OTHER -> {}

\* The items it reads from the stack.
Reads(op) ==
    CASE op \in Binary \cup {"SHA3", "MSTORE", "MSTORE8", "SSTORE", "JUMPI", "RETURN", "REVERT", "LOG0"} -> 2
      [] op \in Unary \cup EnvRead \cup {"CALLDATALOAD", "POP", "MLOAD", "JUMP", "SELFDESTRUCT"} -> 1
      [] op \in Ternary \cup {"CALLDATACOPY", "RETURNDATACOPY", "CODECOPY", "CREATE", "LOG1"} -> 3
      [] op \in {"EXTCODECOPY", "CREATE2"} -> 4
      [] op \in {"CALL", "CALLCODE"} -> 7
      [] op \in {"DELEGATECALL", "STATICCALL"} -> 6
      [] op \in DOMAIN DupDepth -> DupDepth[op]
      [] op \in DOMAIN SwapDepth -> SwapDepth[op] + 1
      [] OTHER -> 0

\* Indexing below the stack or beyond memory stops the process.
Faulty(v, op) ==
    \/ Len(v.stack) < Reads(op)
    \/ \E r \in Regions(op, v.stack) : r[2] > 0 /\ r[1] + r[2] > Len(v.mem)

\* What the call and its input supply.
InputWord(v, op) ==
    CASE op = "CALLDATALOAD" -> WordOf(getData(VmInput, Back(v.stack, 0), WordBytes))
      [] op = "CALLDATASIZE" -> U256(Len(VmInput))
      [] op = "RETURNDATASIZE" -> U256(Len(v.ret))
      [] OTHER -> EnvWord
InputOps == {"ADDRESS", "BALANCE", "ORIGIN", "CALLER", "CALLVALUE", "CALLDATALOAD", "CALLDATASIZE",
             "RETURNDATASIZE"}

\* What the frame holds.
FrameWord(v, op) ==
    CASE op = "SLOAD" -> v.slot
      [] op = "MLOAD" -> WordOf(SubSeq(v.mem, Back(v.stack, 0) + 1, Back(v.stack, 0) + WordBytes))
      [] op = "PC" -> U256(v.pc)
      [] op = "MSIZE" -> U256(Len(v.mem))
      [] op = "GAS" -> U256(v.gas)
FrameOps == {"SLOAD", "MLOAD", "PC", "MSIZE", "GAS"}

\* makePush, makeDup and makeSwap.
Pushed(v, op) == U256(WordOf(getData(CodeBytes(v.code), v.pc + 1, PushSize[op])))
Dupped(s, n) == SubSeq(s, Len(s) - n + 1, Len(s)) \o <<Back(s, n - 1)>>
Swapped(s, n) == <<Back(s, 0)>> \o SubSeq(s, Len(s) - n + 1, Len(s) - 1) \o <<Back(s, n)>>

\* SIGNEXTEND with a large first operand leaves the second in place, like every other operation
\* that returns it unchanged.
Result(v, op) ==
    LET s == v.stack
    IN  CASE op \in Unary -> <<Compute(op, Back(s, 0), 0, 0)>>
          [] op \in Binary -> <<Compute(op, Back(s, 0), Back(s, 1), 0)>>
          [] op \in Ternary -> <<Compute(op, Back(s, 0), Back(s, 1), Back(s, 2))>>
          [] op \in InputOps -> <<InputWord(v, op)>>
          [] op \in FrameOps -> <<FrameWord(v, op)>>
          [] op \in EnvPush \cup EnvRead \cup {"SHA3"} -> <<EnvWord>>
          [] op = "CODESIZE" -> <<U256(Len(v.code))>>
          [] op \in DOMAIN PushSize -> <<Pushed(v, op)>>
          [] op \in DOMAIN DupDepth -> Dupped(s, DupDepth[op])
          [] op \in DOMAIN SwapDepth -> Swapped(s, SwapDepth[op])
          [] OTHER -> << >>

\* What it writes to memory.
Copied(v, op) ==
    LET s == v.stack
    IN  CASE op = "CALLDATACOPY" -> WriteAt(v.mem, Back(s, 0), getData(VmInput, Back(s, 1), Back(s, 2)))
          [] op = "CODECOPY" ->
                WriteAt(v.mem, Back(s, 0), getData(CodeBytes(v.code), Back(s, 1), Back(s, 2)))
          [] op = "EXTCODECOPY" -> WriteAt(v.mem, Back(s, 1), getData(<< >>, Back(s, 2), Back(s, 3)))
          [] op = "RETURNDATACOPY" -> WriteAt(v.mem, Back(s, 0), getData(v.ret, Back(s, 1), Back(s, 2)))
          [] OTHER -> v.mem
Stored(v, op) ==
    LET s == v.stack
    IN  CASE op = "MSTORE" -> WriteAt(v.mem, Back(s, 0), BytesOf(Back(s, 1)))
          [] op = "MSTORE8" -> WriteAt(v.mem, Back(s, 0), <<Back(s, 1) % 2 ^ ByteBits>>)
          [] OTHER -> Copied(v, op)

Stop(v, status) == [v EXCEPT !.status = status]

\* opJump and opJumpi.
Jump(v, op) ==
    LET s == v.stack
        popped == [v EXCEPT !.stack = DropTop(s, Reads(op))]
    IN  IF op = "JUMPI" /\ Back(s, 1) = 0 THEN [popped EXCEPT !.pc = @ + 1]
        ELSE IF validJumpdest(v, Back(s, 0)) THEN [popped EXCEPT !.pc = Back(s, 0)]
        ELSE Stop(v, "error")

\* opCall and its kin, opCreate and opCreate2, with the outcome of the callee.
CallOut(v, op, r) ==
    LET s == v.stack
        asked == IF op \in CreateOps THEN v.gas ELSE Back(s, 0)
        lent == Forwarded(v.gas, asked)
        region == IF op \in {"CALL", "CALLCODE"} THEN <<Back(s, 5), Back(s, 6)>> ELSE <<Back(s, 4), Back(s, 5)>>
        copied == SubSeq(r.data, 1, IF region[2] < Len(r.data) THEN region[2] ELSE Len(r.data))
    IN  [v EXCEPT !.stack = Append(DropTop(s, Reads(op)),
                                   IF r.err # "ok" THEN 0 ELSE IF op \in CreateOps THEN EnvWord ELSE 1),
                  !.mem = IF op \in CallOps /\ r.err \in {"ok", "revert"}
                          THEN WriteAt(@, region[1], copied) ELSE @,
                  !.gas = IF r.keepsGas THEN @ ELSE @ - lent,
                  !.ret = IF op \in CreateOps /\ r.err # "revert" THEN << >> ELSE r.data,
                  !.pc = @ + 1]

Execute(v, op, r) ==
    LET s == v.stack
        plain == [v EXCEPT !.stack = DropTop(s, Reads(op)) \o Result(v, op), !.mem = Stored(v, op),
                           !.slot = IF op = "SSTORE" THEN Back(s, 1) ELSE @,
                           !.pc = @ + 1 + IF op \in DOMAIN PushSize THEN PushSize[op] ELSE 0]
    IN  IF Faulty(v, op) THEN Stop(v, "panic")
        ELSE IF JumpTable[op].jumps THEN Jump(v, op)
        ELSE IF op \in CallOps \cup CreateOps THEN CallOut(v, op, r)
        ELSE IF op = "RETURNDATACOPY" /\ Back(s, 1) + Back(s, 2) > Len(v.ret) THEN Stop(v, "error")
        ELSE IF JumpTable[op].reverts THEN Stop(plain, "reverted")
        ELSE IF JumpTable[op].halts THEN Stop(plain, "done") ELSE plain

\* One turn of the loop of Run: validity, stack, write protection, memory size, gas, execution.
VmStep(r) ==
    LET op == ByteAt(vm, vm.pc)
        o == JumpTable[op]
        size == memorySize(op, vm.stack)
        grown == toWordSize(size) * WordBytes
        fee == memoryGasCost(vm, size)
        cost == o.gas + fee + dynamicGas(op, vm.stack, vm.slot)
        ready == [vm EXCEPT !.gas = @ - cost, !.memGas = @ + fee, !.mem = Grow(@, grown)]
    IN  IF \/ op \notin DOMAIN JumpTable
           \/ Len(vm.stack) < o.pop
           \/ Len(vm.stack) + o.push - o.pop > StackLimit
           \/ vm.readOnly /\ (o.writes \/ (op = "CALL" /\ Back(vm.stack, 2) > 0))
        THEN Stop(vm, "error")
        ELSE IF size > MemBound \/ vm.gas < cost THEN Stop(vm, "error")
        ELSE Execute(ready, op, r)

----------------------------------------------------------------------------

VmInit(starts) ==
    \E f \in starts :
        vm = [code |-> f.code, pc |-> 0, stack |-> << >>, mem |-> << >>, memGas |-> 0, gas |-> f.gas,
              slot |-> 0, ret |-> << >>, readOnly |-> f.readOnly, status |-> "running"]

VmNext ==
    /\ vm.status = "running"
    /\ \E r \in CallOutcomes : vm' = VmStep(r)

----------------------------------------------------------------------------
(* Properties *)

\* The interpreter never reads below the stack or outside the memory it resized, whatever the
\* program: the stack bounds of jump_table.go and the sizes of memory_table.go cover what
\* instructions.go touches.  And control is always at an instruction, never inside the data of
\* a PUSH, which is what the bit map of analysis.go is for.
InstructionStarts(code) ==
    LET size(pc) == IF pc < Len(code) /\ code[pc + 1] \in DOMAIN PushSize THEN PushSize[code[pc + 1]] ELSE 0
        start[n \in 0 .. Len(code)] == IF n = 0 THEN 0 ELSE LET p == start[n - 1] IN p + 1 + size(p)
    IN  {start[n] : n \in 0 .. Len(code)}
VmStaysInBounds ==
    /\ vm.status # "panic"
    /\ Len(vm.stack) <= StackLimit
    /\ vm.status = "running" /\ vm.pc < Len(vm.code) => vm.pc \in InstructionStarts(vm.code)

\* Signed division, remainder, comparison, shifts, extension and modular arithmetic compute what
\* their algebra says, on every pair of words: quotient and remainder recompose, the remainder
\* has the sign of the dividend, a shifted or extended word has the value of the signed one.
Recomposes(x, y) ==
    LET q == S256(opSdiv(x, y))
        m == S256(opSmod(x, y))
    IN  S256(y) # 0 => /\ U256(S256(y) * q + m) = x
                       /\ AbsVal(m) < AbsVal(S256(y))
                       /\ m # 0 => ((m < 0) = (S256(x) < 0))
Extends(back, x, res) ==
    back < WordBytes - 1 =>
        LET range == 2 ^ (ByteBits * (back + 1))
        IN  res % range = x % range /\ S256(res) >= -(range \div 2) /\ S256(res) < range \div 2
WordSpec(op, x, y, z, res) ==
    /\ op \in {"SDIV", "SMOD"} => Recomposes(x, y)
    /\ op = "SIGNEXTEND" => Extends(x, y, res)
    /\ op = "SAR" /\ x < WordBits =>
          S256(res) * 2 ^ x <= S256(y) /\ S256(y) < (S256(res) + 1) * 2 ^ x
    /\ op \in {"SLT", "SGT"} => (res = 1) = (IF op = "SLT" THEN S256(x) < S256(y) ELSE S256(x) > S256(y))
    /\ op = "ADDMOD" /\ z > 0 => res < z /\ (x + y - res) % z = 0
    /\ op = "SUB" => U256(res + y) = x
    /\ op = "DIV" /\ y > 0 => res * y <= x /\ x < (res + 1) * y
    /\ op = "XOR" => opXor(res, y) = x
Executed(op) == vm.status = "running" /\ ByteAt(vm, vm.pc) = op /\ vm'.status = "running"
WordOpsRight ==
    [][\A op \in Unary \cup Binary \cup Ternary :
          Executed(op) =>
              WordSpec(op, Back(vm.stack, 0), IF op \in Unary THEN 0 ELSE Back(vm.stack, 1),
                       IF op \in Ternary THEN Back(vm.stack, 2) ELSE 0, Back(vm'.stack, 0))]_vm
=============================================================================
