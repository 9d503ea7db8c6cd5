------------------------------ MODULE EvmCalls ------------------------------
(***************************************************************************)
(* Message calls and contract creation inside one transaction              *)
(* (core/vm/evm.go, the call instructions of instructions.go, their gas in *)
(* gas_table.go, and the native-token precompiles of contracts.go).        *)
(*                                                                         *)
(* evm is the state of the machine: the world, the frames from the         *)
(* transaction's message to the running contract, the read-only flag of    *)
(* the interpreter and the token the message transfers.  The running       *)
(* contract executes any instruction; what it computes between calls is    *)
(* Work.  Gas is a machine word: arithmetic is modulo GasWord.             *)
(***************************************************************************)
EXTENDS Integers, Sequences, FiniteSets, FiniteSetsExt

CONSTANTS
    EvmAddr, EvmToken, DefaultToken,
    EvmOrigin,         \* the sender of the message
    SystemMinter,      \* NON_RESERVED_NATIVE_TOKEN, the only caller mintMNT accepts
    SystemTarget,      \* the address deploySystemContract creates
    FreshAddr,         \* the address a create instruction computes
    StartWorld,        \* the world before the message
    Locked,            \* the sender-disallow map of proof of staked work: 0 is "not in the map"
    GasWord,           \* 2^64
    StartGas, CallValues, GasRequests,
    MntInputs,         \* the inputs of transferMnt and mintMNT: [to, token, value, wellFormed]
    GasTable,          \* [calls, transfer, stipend, newAccount, create, createData, word, set,
                       \*  clear, reset, refund, log, suicide, mnt, deploy, mint, balance, math]
    CallCreateDepth, MaxCodeSize, NoFrame,
    MaxInstr           \* bound: instructions in a behaviour

VARIABLES evm, evmSteps
evmVars == <<evm, evmSteps>>

\* The precompiles; "math" stands for the eight of Ethereum.
Native == {"currentMntID", "transferMnt", "deploySystemContract", "mintMNT", "balanceMNT", "math"}

----------------------------------------------------------------------------
(* The world *)

Alive(w, a) == [w EXCEPT !.live = @ \cup {a}]
EmptyAccount(w, a) == w.nonce[a] = 0 /\ w.code[a] = 0 /\ \A k \in EvmToken : w.bal[a][k] = 0
Pay(w, a, k, v) == [Alive(w, a) EXCEPT !.bal[a][k] = @ + v]
CanTransfer(w, a, k, v) == w.bal[a][k] >= v
Transfer(w, a, b, k, v) == Pay([w EXCEPT !.bal[a][k] = @ - v], b, k, v)

\* The sender's stake has to stay, measured in the default token whatever is transferred.
TransferFailureByPoswBalanceCheck(w, a, v) == Locked[a] > 0 /\ v + Locked[a] > w.bal[a][DefaultToken]

\* What a transaction can see of the world.  undone in evm records whether every failed call left
\* it as it was.
Visible(w) == <<w.bal, w.code, w.slot, w.logs>>

----------------------------------------------------------------------------
(* Frames *)

Top(e) == e.frames[Len(e.frames)]
Pop(e) == [e EXCEPT !.frames = SubSeq(@, 1, Len(@) - 1)]
Interpreted(f) == f.code \notin Native
Depth(e) == Cardinality({i \in DOMAIN e.frames : Interpreted(e.frames[i])})
Running(e) == e.frames # << >> /\ Interpreted(Top(e))
HasCode(w, f) == f.creates \/ w.code[f.code] # 0

\* caller is CallerAddress, from the address of the calling frame: a delegate call keeps the
\* first of its caller.
NewFrame(self, caller, code, value, gas, snap, before) ==
    [self |-> self, caller |-> caller, from |-> caller, code |-> code, value |-> value, gas |-> gas, snap |-> snap,
     before |-> before, static |-> FALSE, queried |-> FALSE, setsReadOnly |-> FALSE,
     creates |-> FALSE, input |-> NoFrame, outerToken |-> NoFrame]

\* A contract that received a foreign token without asking which one is reverted.
checkTokenIDQueried(e, f, err) ==
    IF err = "ok" /\ Interpreted(f) /\ HasCode(e.world, f) /\ ~f.queried
       /\ e.token # DefaultToken /\ f.value # 0
    THEN "revert" ELSE err

----------------------------------------------------------------------------
(* Returning *)

RECURSIVE EndFrame(_, _), EndPrecompiled(_, _, _)

\* A call hands its result to the frame that made it, or ends the message.
Deliver(e, gas, err, code, before) ==
    LET d == [e EXCEPT !.undone = @ /\ (err # "ok" => Visible(before) = Visible(e.world))]
    IN  IF d.frames = << >> THEN [d EXCEPT !.outcome = err, !.gasLeft = gas]
        ELSE IF ~Interpreted(Top(d)) THEN EndPrecompiled(d, gas, err)
        ELSE LET n == Len(d.frames)
             IN  [d EXCEPT !.frames[n].gas = @ + gas,
                           !.frames[n].queried = @ \/ code = "currentMntID"]

\* transferMnt and deploySystemContract end with the call they made.
EndPrecompiled(e, gas, err) ==
    LET n == Len(e.frames)
        left == IF Top(e).code = "deploySystemContract" /\ err # "ok" THEN 0 ELSE gas
        token == IF Top(e).outerToken = NoFrame THEN e.token ELSE Top(e).outerToken
    IN  EndFrame([e EXCEPT !.frames[n].gas = left, !.token = token], err)

\* The end of Call, CallCode, DelegateCall, StaticCall and create: an error undoes the call,
\* and takes the gas unless the contract reverted.
EndFrame(e, err0) ==
    LET f == Top(e)
        err == checkTokenIDQueried(e, f, err0)
        world == IF err = "ok" THEN e.world ELSE f.snap
        gas == IF err \in {"ok", "revert"} THEN f.gas ELSE 0
    IN  Deliver([Pop(e) EXCEPT !.world = world, !.readOnly = @ /\ ~f.setsReadOnly],
                gas, err, f.code, f.before)

----------------------------------------------------------------------------
(* Precompiles *)

RECURSIVE Call(_, _, _, _, _, _)

\* The end of create: the returned code is paid for and stored.
EndCreate(e, err0, size) ==
    LET n == Len(e.frames)
        f == Top(e)
        err1 == checkTokenIDQueried(e, f, err0)
        cost == size * GasTable.createData
        err == IF err1 # "ok" THEN err1
               ELSE IF size > MaxCodeSize THEN "codeSize"
               ELSE IF f.gas < cost THEN "gas" ELSE "ok"
    IN  IF err # "ok" THEN EndFrame(e, err)
        ELSE EndFrame([e EXCEPT !.frames[n].gas = @ - cost,
                                !.world.code[f.self] = IF size > 0 THEN 1 ELSE 0], "ok")

Create(e, from, to, gas, value, before) ==
    LET bumped == [Alive(e.world, from) EXCEPT
                     !.nonce[from] = IF from = EvmOrigin /\ e.xshard THEN @ ELSE @ + 1]
        made == [Alive(bumped, to) EXCEPT !.nonce[to] = 1, !.slot[to] = 0]
        f == [NewFrame(to, from, to, value, gas, bumped, before) EXCEPT !.creates = TRUE]
    IN  IF Depth(e) > CallCreateDepth THEN Deliver(e, gas, "depth", to, before)
        ELSE IF ~CanTransfer(e.world, from, e.token, value)
        THEN Deliver(e, gas, "balance", to, before)
        ELSE IF e.token # DefaultToken
        THEN Deliver([e EXCEPT !.world = bumped], gas, "token", to, before)
        ELSE IF bumped.nonce[to] # 0 \/ bumped.code[to] # 0
        THEN Deliver([e EXCEPT !.world = bumped], 0, "collision", to, before)
        ELSE IF TransferFailureByPoswBalanceCheck(bumped, from, value)
        THEN Deliver([e EXCEPT !.world = bumped], 0, "posw", to, before)
        ELSE [e EXCEPT !.world = Transfer(made, from, to, e.token, value),
                       !.frames = Append(@, f)]

\* Sends a token other than the message's: a call by the caller of the precompile.
transferMnt(e) ==
    LET f == Top(e)
        n == Len(e.frames)
        in == f.input
        cost == (IF in.value > 0 THEN GasTable.transfer ELSE 0)
                + (IF in.value > 0 /\ in.to \notin e.world.live THEN GasTable.newAccount ELSE 0)
        used == [e EXCEPT !.frames[n].gas = @ - cost]
        toCall == f.gas - cost + (IF in.value > 0 THEN GasTable.stipend ELSE 0)
    IN  IF ~in.wellFormed \/ f.static \/ in.to = "transferMnt" \/ f.gas < cost
        THEN EndFrame([e EXCEPT !.frames[n].gas = 0], "fail")
        ELSE IF e.world.bal[f.caller][in.token] < in.value \/ Depth(e) >= CallCreateDepth
        THEN EndFrame(used, "revert")
        ELSE Call([used EXCEPT !.token = in.token, !.frames[n].outerToken = e.token],
                  f.from, in.to, toCall, in.value, NoFrame)

deploySystemContract(e) ==
    LET f == Top(e)
        n == Len(e.frames)
    IN  IF ~f.input.wellFormed THEN EndFrame([e EXCEPT !.frames[n].gas = 0], "fail")
        ELSE Create(e, f.self, SystemTarget, f.gas, 0, e.world)

mintMNT(e) ==
    LET f == Top(e)
        n == Len(e.frames)
        in == f.input
        fee == IF in.to \in e.world.live THEN 0 ELSE GasTable.newAccount
    IN  IF ~in.wellFormed \/ in.value = 0 \/ in.token = DefaultToken \/ f.gas < fee \/ f.caller # SystemMinter
        THEN EndFrame([e EXCEPT !.frames[n].gas = 0], "fail")
        ELSE EndFrame([e EXCEPT !.frames[n].gas = @ - fee,
                                !.world = Pay(e.world, in.to, in.token, in.value)], "ok")

NativeGas(c) ==
    CASE c = "currentMntID" -> GasTable.mnt
      [] c = "transferMnt" -> 0
      [] c = "deploySystemContract" -> GasTable.deploy
      [] c = "mintMNT" -> GasTable.mint
      [] c = "balanceMNT" -> GasTable.balance
      [] c = "math" -> GasTable.math

RunPrecompiledContract(e) ==
    LET f == Top(e)
        n == Len(e.frames)
        paid == [e EXCEPT !.frames[n].gas = @ - NativeGas(f.code),
                          !.native = @ \/ f.code \in {"transferMnt", "deploySystemContract", "mintMNT"}]
    IN  IF f.gas < NativeGas(f.code) THEN EndFrame(e, "gas")
        ELSE CASE f.code = "transferMnt" -> transferMnt(paid)
               [] f.code = "deploySystemContract" -> deploySystemContract(paid)
               [] f.code = "mintMNT" -> mintMNT(paid)
               [] f.code = "currentMntID" -> EndFrame([paid EXCEPT !.frames[n].queried = TRUE], "ok")
               [] OTHER -> EndFrame(paid, IF f.input.wellFormed THEN "ok" ELSE "fail")

\* run: a precompile at once, an account without code not at all, code one instruction at a time.
Run(e) ==
    IF ~Interpreted(Top(e)) THEN RunPrecompiledContract(e)
    ELSE IF HasCode(e.world, Top(e)) THEN e ELSE EndFrame(e, "ok")

----------------------------------------------------------------------------
(* Calls *)

\* The snapshot is taken once the value has moved.
MutCall(e, from, to, gas, value, input) ==
    LET moved == Transfer(Alive(e.world, to), from, to, e.token, value)
        f == [NewFrame(to, from, to, value, gas, moved, e.world) EXCEPT !.input = input]
    IN  IF Depth(e) > CallCreateDepth THEN Deliver(e, gas, "depth", to, e.world)
        ELSE IF ~CanTransfer(e.world, from, e.token, value) THEN Deliver(e, gas, "balance", to, e.world)
        ELSE IF TransferFailureByPoswBalanceCheck(e.world, from, value)
        THEN Deliver(e, 0, "posw", to, e.world)
        ELSE IF to \notin e.world.live /\ to \notin Native /\ value = 0
        THEN Deliver(e, gas, "ok", to, e.world)
        ELSE Run([e EXCEPT !.world = moved, !.frames = Append(@, f)])

Call(e, from, to, gas, value, input) ==
    LET moved == Transfer(Alive(e.world, to), from, to, e.token, value)
        f == [NewFrame(to, from, to, value, gas, e.world, e.world) EXCEPT !.input = input]
    IN  IF Depth(e) > CallCreateDepth THEN Deliver(e, gas, "depth", to, e.world)
        ELSE IF ~CanTransfer(e.world, from, e.token, value) THEN Deliver(e, gas, "balance", to, e.world)
        ELSE IF TransferFailureByPoswBalanceCheck(e.world, from, value)
        THEN Deliver(e, 0, "posw", to, e.world)
        ELSE IF to \notin e.world.live /\ to \notin Native /\ value = 0
        THEN Deliver(e, gas, "ok", to, e.world)
        ELSE Run([e EXCEPT !.world = moved, !.frames = Append(@, f)])

\* CallCode runs the code of another account as the caller.
CallCode(e, p, to, gas, value, input) ==
    LET f == [NewFrame(p.self, p.self, to, value, gas, e.world, e.world) EXCEPT !.input = input]
    IN  IF Depth(e) > CallCreateDepth THEN Deliver(e, gas, "depth", to, e.world)
        ELSE IF ~CanTransfer(e.world, p.self, e.token, value) THEN Deliver(e, gas, "balance", to, e.world)
        ELSE IF TransferFailureByPoswBalanceCheck(e.world, p.self, value)
        THEN Deliver(e, 0, "posw", to, e.world)
        ELSE Run([e EXCEPT !.frames = Append(@, f)])

\* DelegateCall keeps the caller and the value of the calling frame.
DelegateCall(e, p, to, gas, input) ==
    LET f == [NewFrame(p.self, p.caller, to, p.value, gas, e.world, e.world) EXCEPT
                !.input = input, !.from = p.self]
    IN  IF Depth(e) > CallCreateDepth THEN Deliver(e, gas, "depth", to, e.world)
        ELSE IF TransferFailureByPoswBalanceCheck(e.world, p.self, p.value)
        THEN Deliver(e, 0, "posw", to, e.world)
        ELSE Run([e EXCEPT !.frames = Append(@, f)])

\* Run turns the interpreter read-only until the frame that did so ends; a precompile is told
\* by its own frame only.
StaticCall(e, p, to, gas, input) ==
    LET f == [NewFrame(to, p.self, to, 0, gas, e.world, e.world) EXCEPT
                !.input = input, !.static = TRUE,
                !.setsReadOnly = ~e.readOnly /\ to \notin Native]
    IN  IF Depth(e) > CallCreateDepth THEN Deliver(e, gas, "depth", to, e.world)
        ELSE IF TransferFailureByPoswBalanceCheck(e.world, p.self, 0)
        THEN Deliver(e, 0, "posw", to, e.world)
        ELSE Run([e EXCEPT !.world = Alive(@, to), !.frames = Append(@, f),
                           !.readOnly = @ \/ to \notin Native])

----------------------------------------------------------------------------
(* Instructions of the running contract *)

\* Write protection is left to the calls.
MutPaid(e, cost, writes) == cost < GasWord /\ Top(e).gas >= cost

Paid(e, cost, writes) ==
    ~(writes /\ e.readOnly) /\ cost < GasWord /\ Top(e).gas >= cost

\* enforceRestrictions fails the writer, the gas table prices the operation.
Spend(e, cost, writes) ==
    LET n == Len(e.frames)
    IN  IF ~Paid(e, cost, writes) THEN EndFrame(e, "fail")
        ELSE [e EXCEPT !.frames[n].gas = @ - cost]

\* All but a 64th of what is left after the base cost, at most what is asked for.
callGas(available, base, requested) ==
    LET rest == (available - base) % GasWord
        most == rest - rest \div 64
    IN  IF requested >= GasWord \/ most < requested THEN most ELSE requested

\* Transferring value is free of charge.
MutgasCall(e, kind, to, value) ==
    GasTable.calls
    + (IF kind = "CALL" /\ value > 0 /\ EmptyAccount(e.world, to)
       THEN GasTable.newAccount ELSE 0)

gasCall(e, kind, to, value) ==
    GasTable.calls
    + (IF kind = "CALL" /\ value > 0 /\ EmptyAccount(e.world, to)
       THEN GasTable.newAccount ELSE 0)
    + (IF value > 0 THEN GasTable.transfer ELSE 0)

\* opCall, opCallCode, opDelegateCall and opStaticCall.
CallOp(kind, to, value, requested, input) ==
    LET p == Top(evm)
        n == Len(evm.frames)
        base == gasCall(evm, kind, to, value)
        temp == callGas(p.gas, base, requested)
        writes == kind = "CALL" /\ value > 0
        e == Spend(evm, base + temp, writes)
        gas == temp + (IF value > 0 THEN GasTable.stipend ELSE 0)
    IN  IF ~Paid(evm, base + temp, writes) THEN e
        ELSE CASE kind = "CALL" -> Call(e, p.self, to, gas, value, input)
               [] kind = "CALLCODE" -> CallCode(e, p, to, gas, value, input)
               [] kind = "DELEGATECALL" -> DelegateCall(e, p, to, gas, input)
               [] kind = "STATICCALL" -> StaticCall(e, p, to, gas, input)

\* opCreate and opCreate2 hand over all but a 64th of the gas.
CreateOp(value) ==
    LET p == Top(evm)
        n == Len(evm.frames)
        e == Spend(evm, GasTable.create, TRUE)
        gas == Top(e).gas - Top(e).gas \div 64
    IN  IF ~Paid(evm, GasTable.create, TRUE) THEN e
        ELSE Create([e EXCEPT !.frames[n].gas = @ - gas], p.self, FreshAddr, gas, value, e.world)

\* The refund for clearing a slot is added with the gas.
SstoreOp(v) ==
    LET old == evm.world.slot[Top(evm).self]
        cost == IF old = 0 /\ v # 0 THEN GasTable.set
                ELSE IF old # 0 /\ v = 0 THEN GasTable.clear ELSE GasTable.reset
        e == Spend(evm, cost, TRUE)
    IN  IF ~Paid(evm, cost, TRUE) THEN e
        ELSE [e EXCEPT !.world.slot[Top(evm).self] = v,
                       !.world.refund = IF old # 0 /\ v = 0 THEN @ + GasTable.refund ELSE @]

LogOp ==
    LET e == Spend(evm, GasTable.log, TRUE)
    IN  IF Paid(evm, GasTable.log, TRUE) THEN [e EXCEPT !.world.logs = @ + 1] ELSE e

\* The default token goes to the beneficiary, every other token with the account.
SuicideOp(to) ==
    LET a == Top(evm).self
        bal == evm.world.bal[a][DefaultToken]
        cost == GasTable.suicide
                + (IF bal # 0 /\ EmptyAccount(evm.world, to) THEN GasTable.newAccount ELSE 0)
        e == Spend(evm, cost, TRUE)
        given == Pay(e.world, to, DefaultToken, bal)
    IN  IF ~Paid(evm, cost, TRUE) THEN e
        ELSE EndFrame([e EXCEPT !.world = [given EXCEPT !.bal[a] = [k \in EvmToken |-> 0]]], "ok")

WorkOp == Spend(evm, GasTable.word, FALSE)

----------------------------------------------------------------------------
(* Steps *)

NativeInputs(to) ==
    IF to \notin Native \/ to = "currentMntID" THEN {NoFrame}
    ELSE IF to \in {"transferMnt", "mintMNT"}
    THEN MntInputs
    ELSE [wellFormed : BOOLEAN]

Instruction(next) == evm' = next /\ evmSteps' = evmSteps + 1

EvmInit ==
    /\ evm = [world |-> StartWorld, frames |-> << >>, readOnly |-> FALSE, token |-> DefaultToken,
              xshard |-> FALSE, native |-> FALSE, outcome |-> "none", gasLeft |-> 0, bought |-> 0,
              undone |-> TRUE]
    /\ evmSteps = 0

\* TransitionDb starts the message with the gas it bought.
Message(to, token, value, gas, xshard) ==
    LET e == [evm EXCEPT !.token = token, !.xshard = xshard, !.bought = gas]
    IN  /\ evm.outcome = "none" /\ evm.frames = << >>
        /\ evm' = IF to = NoFrame THEN Create(e, EvmOrigin, FreshAddr, gas, value, e.world)
                  ELSE Call(e, EvmOrigin, to, gas, value, NoFrame)
        /\ UNCHANGED evmSteps

RunningStep ==
    \/ Instruction(WorkOp)
    \/ \E v \in 0..1 : Instruction(SstoreOp(v))
    \/ Instruction(LogOp)
    \/ \E to \in EvmAddr : Instruction(SuicideOp(to))
    \/ \E kind \in {"CALL", "CALLCODE"}, to \in EvmAddr \cup Native, value \in CallValues,
          requested \in GasRequests : \E input \in NativeInputs(to) :
            Instruction(CallOp(kind, to, value, requested, input))
    \/ \E kind \in {"DELEGATECALL", "STATICCALL"}, to \in EvmAddr \cup Native,
          requested \in GasRequests : \E input \in NativeInputs(to) :
            Instruction(CallOp(kind, to, 0, requested, input))
    \/ \E value \in CallValues : Instruction(CreateOp(value))
    \/ \E size \in 0 .. MaxCodeSize + 1 :
          Top(evm).creates /\ Instruction(EndCreate(evm, "ok", size))
    \/ ~Top(evm).creates /\ Instruction(EndFrame(evm, "ok"))
    \/ Instruction(EndFrame(evm, "revert"))
    \/ Instruction(EndFrame(evm, "fail"))

EvmNext ==
    \/ \E to \in EvmAddr \cup {NoFrame}, token \in EvmToken, value \in CallValues, gas \in StartGas :
          \E x \in {FALSE, to = NoFrame} : Message(to, token, value, gas, x)
    \/ Running(evm) /\ evmSteps < MaxInstr /\ RunningStep

----------------------------------------------------------------------------
(* Properties *)

\* A call that failed, for whatever reason and however deep inside, left the balances, code,
\* storage and logs as they were before its instruction began (RevertToSnapshot at the end of
\* Call, CallCode, DelegateCall, StaticCall and create, evm.go).
FailedCallUndone == evm.undone

\* The gas in all running contracts together never exceeds what the message bought: every
\* stipend a callee is given was paid for by the caller, and no subtraction of callGas wraps
\* into gas somebody can spend.
GasNeverCreated ==
    LET held == MapThenSumSet(LAMBDA i : IF Interpreted(evm.frames[i]) THEN evm.frames[i].gas ELSE 0,
                              DOMAIN evm.frames)
    IN  held + evm.gasLeft <= evm.bought

\* While the interpreter is read-only, nothing visible changes.
ReadOnlySince == {i \in DOMAIN evm.frames : evm.frames[i].setsReadOnly}
StaticChangesNothing ==
    \A i \in ReadOnlySince : Visible(evm.world) = Visible(evm.frames[i].before)

\* Only the native-token precompiles, which the interpreter's write protection does not reach,
\* change anything while the interpreter is read-only.
StaticUnlessNative == evm.native \/ StaticChangesNothing
=============================================================================
