-------------------------------- MODULE PoSW --------------------------------
(***************************************************************************)
(* The rule a block header is verified against: the difficulty that the    *)
(* parent demands, reduced for a miner with enough stake who has mined few *)
(* of the last blocks (proof of staked work), and the seal.  The addresses *)
(* of the last miners are kept per block in a small cache and slide from a *)
(* block to its child; headers of all forks, and the queries of the        *)
(* interface, go through that cache in any order.                          *)
(* The root chain and a shard differ in who may claim a stake: poswRoot    *)
(* says which chain this is.                                               *)
(***************************************************************************)
EXTENDS Integers, Sequences, FiniteSets, SequencesExt

CONSTANTS
    PoswMiner,         \* coinbase addresses
    WindowSize,        \* PoSWConfig.WindowSize
    EnableTimestamp,   \* PoSWConfig.EnableTimestamp
    DiffDivider, BoostTimestamp, BoostStepInterval, BoostSteps, BoostMultiplier,
    StakePerBlock,     \* TotalStakePerBlock: what one block in the window takes
    DecayTimestamp, EpochInterval, DecayNum, DecayDen,   \* of a shard's stakes
    Stakes,            \* balances a miner may have at the parent
    AddrCacheSize,     \* entries of coinbaseAddrCache
    AdjustmentCutoff, AdjustmentFactor, MinimumDifficulty,
    Delays,            \* seconds between a block and its parent
    Efforts,           \* the difficulties that a seal may meet
    PoswMaxBlocks      \* bound on the blocks of the tree

ASSUME PoswAssumption ==
    /\ WindowSize \in Nat \ {0, 1}
    /\ {DiffDivider, StakePerBlock, AddrCacheSize, AdjustmentCutoff, AdjustmentFactor,
         MinimumDifficulty, BoostStepInterval, EpochInterval, DecayDen} \subseteq Nat \ {0}
    /\ {EnableTimestamp, BoostTimestamp, BoostSteps, DecayTimestamp, DecayNum} \subseteq Nat

VARIABLES
    poswRoot,   \* the chain is the root chain
    poswBlocks, \* the accepted blocks; number i has its parent among 1 .. i - 1
    addrCache,  \* coinbaseAddrCache: block and addresses, the most recent first
    verdict     \* the last request, and what was answered

poswVars == <<poswRoot, poswBlocks, addrCache, verdict>>

HeightOf(b) == poswBlocks[b].number

-----------------------------------------------------------------------------
\* EthDifficultyCalculator.CalculateDifficulty, for a header dt seconds later.
CalculateDifficulty(parent, dt) ==
    LET sign == IF 1 - dt \div AdjustmentCutoff < -99 THEN -99 ELSE 1 - dt \div AdjustmentCutoff
        diff == parent.diff + (parent.diff \div AdjustmentFactor) * sign
    IN  IF diff < MinimumDifficulty THEN MinimumDifficulty ELSE diff

\* The cache: an entry that is used moves to the front, the oldest one is dropped.
Entries(b) == {i \in DOMAIN addrCache : addrCache[i][1] = b}
Used(cache, b) ==
    SelectSeq(cache, LAMBDA e : e[1] = b) \o SelectSeq(cache, LAMBDA e : e[1] # b)
Kept(cache, b, addrs) ==
    LET all == <<<<b, addrs>>>> \o SelectSeq(cache, LAMBDA e : e[1] # b)
    IN  SubSeq(all, 1, IF Len(all) < AddrCacheSize THEN Len(all) ELSE AddrCacheSize)

\* A walk from b towards the genesis block, at most n blocks: the coinbases, from b.
RECURSIVE Walked(_, _)
Walked(b, n) ==
    IF n = 0 THEN <<>>
    ELSE <<poswBlocks[b].coinbase>> \o
         (IF HeightOf(b) = 0 THEN <<>> ELSE Walked(poswBlocks[b].parent, n - 1))

\* Mutant: the oldest address stays in the window of the child.
MutgetCoinbaseAddressUntilBlock(b) ==
    LET length == WindowSize - 1
        parent == poswBlocks[b].parent
        held == addrCache[CHOOSE i \in Entries(parent) : TRUE][2]
    IN  IF HeightOf(b) > 0 /\ Entries(parent) # {}
        THEN IF Len(held) = length THEN held ELSE Append(held, poswBlocks[b].coinbase)
        ELSE Reverse(Walked(b, length))

\* getCoinbaseAddressUntilBlock: slide the window of the parent, or walk.  The
\* parent hash of the genesis block names no block.
getCoinbaseAddressUntilBlock(b) ==
    LET length == WindowSize - 1
        parent == poswBlocks[b].parent
        held == addrCache[CHOOSE i \in Entries(parent) : TRUE][2]
    IN  IF HeightOf(b) > 0 /\ Entries(parent) # {}
        THEN Append(IF Len(held) = length THEN Tail(held) ELSE held, poswBlocks[b].coinbase)
        ELSE Reverse(Walked(b, length))

\* Its effect on the cache.
Asking(b) ==
    addrCache' = Kept(IF HeightOf(b) > 0 THEN Used(addrCache, poswBlocks[b].parent) ELSE addrCache,
                      b, getCoinbaseAddressUntilBlock(b))

Times(addrs, a) == Cardinality({i \in DOMAIN addrs : addrs[i] = a})
countCoinbaseBlockUntil(b, coinbase) == Times(getCoinbaseAddressUntilBlock(b), coinbase)

\* GetDiffDivider: after BoostTimestamp the divider is multiplied step by step.
GetDiffDivider(time) ==
    LET steps == (time - BoostTimestamp) \div BoostStepInterval + 1
    IN  IF BoostTimestamp > 0 /\ time >= BoostTimestamp
        THEN DiffDivider * BoostMultiplier ^ (IF steps > BoostSteps THEN BoostSteps ELSE steps)
        ELSE DiffDivider

\* DecayByHeightAndTime: a shard asks for less stake from epoch to epoch.  (The map that
\* keeps the amounts of an epoch holds what is computed here.)
DecayByHeightAndTime(height, time) ==
    LET epoch == height \div EpochInterval
    IN  IF DecayTimestamp = 0 \/ time < DecayTimestamp THEN StakePerBlock
        ELSE (StakePerBlock * DecayNum ^ epoch) \div DecayDen ^ epoch

StakePreBlock(h) == IF poswRoot THEN StakePerBlock ELSE DecayByHeightAndTime(h.number, h.time)

\* The number of blocks a stake allows in the window.
Threshold(h, stakes) ==
    LET n == stakes \div StakePreBlock(h) IN IF n > WindowSize THEN WindowSize ELSE n

IsPoSWEnabled(h) == h.time >= EnableTimestamp /\ h.number > 0

\* Mutant: one block more than the stake covers.
MutPoSWDiffAdjust(h, stakes) ==
    IF /\ Threshold(h, stakes) > 0
       /\ countCoinbaseBlockUntil(h.parent, h.coinbase) <= Threshold(h, stakes)
    THEN h.diff \div GetDiffDivider(h.time) ELSE h.diff

\* PoSWDiffAdjust, in the window of the parent.
PoSWDiffAdjust(h, stakes) ==
    IF /\ Threshold(h, stakes) > 0
       /\ countCoinbaseBlockUntil(h.parent, h.coinbase) < Threshold(h, stakes)
    THEN h.diff \div GetDiffDivider(h.time) ELSE h.diff

\* getSignedPoSWStakes: a stake on the root chain counts when its signer has signed
\* the header; any other signature is an error, which leaves the difficulty as it is.
getSignedPoSWStakes(h) == IF h.signer = "staker" THEN h.stakes ELSE 0

Adjusted(h, stakes) == IF IsPoSWEnabled(h) THEN PoSWDiffAdjust(h, stakes) ELSE h.diff

\* RootBlockChain.GetAdjustedDifficulty: the guardian's signature divides by 1000.
RootAdjustedDifficulty(h) ==
    IF h.signer = "guardian" THEN h.diff \div 1000 ELSE Adjusted(h, getSignedPoSWStakes(h))

\* MinorBlockChain.GetAdjustedDifficulty: the balance of the coinbase is the stake.
MinorAdjustedDifficulty(h) == Adjusted(h, h.stakes)

\* RootBlockChain.GetAdjustedDifficultyToMine: the signature comes with the solution.
RootDifficultyToMine(h) ==
    IF h.signer = "guardian" THEN h.diff \div 1000 ELSE Adjusted(h, h.stakes)

\* ShardBackend.CreateBlockToMine.
MinorDifficultyToMine(h) == Adjusted(h, h.stakes)

\* Whether the window of the parent is asked for with these stakes.
ReadsWindow(h, stakes) ==
    (poswRoot => h.signer # "guardian") /\ IsPoSWEnabled(h) /\ Threshold(h, stakes) > 0

-----------------------------------------------------------------------------
PoswInit(chains, miners) ==
    /\ poswRoot \in chains
    /\ \E a \in miners :
          poswBlocks = <<[parent |-> 0, number |-> 0, time |-> 0, coinbase |-> a,
                          diff |-> MinimumDifficulty]>>
    /\ addrCache = <<>>
    /\ verdict = [op |-> "none"]

\* The header on p that is mined dt seconds after it; its stakes are those of the
\* coinbase in the state of p.
HeaderOn(p, coinbase, dt, stakes, signer) ==
    [parent |-> p, number |-> HeightOf(p) + 1, time |-> poswBlocks[p].time + dt, coinbase |-> coinbase,
     diff |-> CalculateDifficulty(poswBlocks[p], dt), stakes |-> stakes, signer |-> signer]

Extended(h) ==
    Append(poswBlocks, [parent |-> h.parent, number |-> h.number, time |-> h.time,
                        coinbase |-> h.coinbase, diff |-> h.diff])

\* VerifySeal: the seal meets effort.  (sealVerifiedCache repeats the answer that the
\* same header got for the same difficulty.)
VerifySeal(effort, adjustedDiff) == effort >= adjustedDiff

\* VerifyHeader, of a header that passes the checks that touch nothing: version,
\* height, extra data, a later time, the difficulty that the parent demands.
VerifyHeader(h, effort) ==
    /\ IF ReadsWindow(h, IF poswRoot THEN getSignedPoSWStakes(h) ELSE h.stakes)
       THEN Asking(h.parent) ELSE UNCHANGED addrCache
    /\ \E adjusted \in {IF poswRoot THEN RootAdjustedDifficulty(h) ELSE MinorAdjustedDifficulty(h)} :
          /\ poswBlocks' = IF VerifySeal(effort, adjusted) THEN Extended(h) ELSE poswBlocks
          /\ verdict' = [op |-> "header", header |-> h, effort |-> effort,
                         accepted |-> VerifySeal(effort, adjusted)]
    /\ UNCHANGED poswRoot

\* A miner asks for the difficulty of the header they are about to work on.
DifficultyToMine(h) ==
    /\ IF ReadsWindow(h, h.stakes) THEN Asking(h.parent) ELSE UNCHANGED addrCache
    /\ verdict' = [op |-> "mine", header |-> h,
                   diff |-> IF poswRoot THEN RootDifficultyToMine(h) ELSE MinorDifficultyToMine(h)]
    /\ UNCHANGED <<poswRoot, poswBlocks>>

\* BuildSenderDisallowMap for a block on b by coinbase: what each recent miner may not
\* spend.
BuildSenderDisallowMap(b, coinbase) ==
    /\ Asking(b)
    /\ verdict' = [op |-> "disallow", on |-> b, by |-> coinbase,
                   map |-> [a \in PoswMiner |->
                      (countCoinbaseBlockUntil(b, a) + (IF a = coinbase THEN 1 ELSE 0)) * StakePerBlock]]
    /\ UNCHANGED <<poswRoot, poswBlocks>>

\* GetPoSWInfo counts in the window that ends with the block itself.
GetPoSWInfo(b) ==
    /\ Asking(b)
    /\ verdict' = [op |-> "info", on |-> b, mined |-> countCoinbaseBlockUntil(b, poswBlocks[b].coinbase)]
    /\ UNCHANGED <<poswRoot, poswBlocks>>

PoswNext ==
    \/ /\ Len(poswBlocks) < PoswMaxBlocks
       /\ \E p \in DOMAIN poswBlocks, a \in PoswMiner, dt \in Delays, s \in Stakes :
             \E signer \in IF poswRoot THEN {"guardian", "staker", "other"} ELSE {"other"} :
                \E h \in {HeaderOn(p, a, dt, s, signer)} :
                   \/ \E e \in Efforts : VerifyHeader(h, e)
                   \/ DifficultyToMine(h)
    \/ \E b \in DOMAIN poswBlocks :
          (\E a \in PoswMiner : BuildSenderDisallowMap(b, a)) \/ GetPoSWInfo(b)

PoswSpec == PoswInit(BOOLEAN, PoswMiner) /\ [][PoswNext]_poswVars

-----------------------------------------------------------------------------
\* How many of the last n blocks up to b are a's, counted on the tree itself.
RECURSIVE MinedBy(_, _, _)
MinedBy(b, a, n) ==
    IF n = 0 \/ b = 0 THEN 0
    ELSE (IF poswBlocks[b].coinbase = a THEN 1 ELSE 0) + MinedBy(poswBlocks[b].parent, a, n - 1)

\* What the rule demands of a header's seal, with the stake it can claim.
Demanded(h, stakes) ==
    IF poswRoot /\ h.signer = "guardian" THEN h.diff \div 1000
    ELSE IF /\ h.number > 0 /\ h.time >= EnableTimestamp
            /\ stakes >= (MinedBy(h.parent, h.coinbase, WindowSize - 1) + 1) * StakePreBlock(h)
         THEN h.diff \div GetDiffDivider(h.time)
         ELSE h.diff

\* Whatever the caches hold, a header is accepted if and only if its seal meets what the
\* rule demands: the reduced difficulty exactly when the stake, on the root chain signed
\* for, covers one block more than the coinbase has mined in the window before it.  A
\* miner is told that difficulty before signing, and the stake held back from each
\* address covers the blocks the window counts as its own.
AnsweredByRule ==
    CASE verdict.op = "header" ->
           LET h == verdict.header
               stakes == IF poswRoot /\ h.signer # "staker" THEN 0 ELSE h.stakes
           IN  verdict.accepted = (verdict.effort >= Demanded(h, stakes))
      [] verdict.op = "mine" -> verdict.diff = Demanded(verdict.header, verdict.header.stakes)
      [] verdict.op = "disallow" ->
           \A a \in PoswMiner :
              verdict.map[a] = (MinedBy(verdict.on, a, WindowSize - 1)
                                + (IF a = verdict.by THEN 1 ELSE 0)) * StakePerBlock
      [] OTHER -> TRUE

=============================================================================
