------------------------------ MODULE PeerProofs -----------------------------
(***************************************************************************)
(* Theorems about what the master does with its peers.                     *)
(*                                                                         *)
(* Synchronizer, for every tree of blocks, any number of peers, every      *)
(* limit of a header list and every staleness:                             *)
(*                                                                         *)
(*   LinkedAlways   a task hands over blocks in order, so that the node    *)
(*                  has the path below every block it has;                 *)
(*   NarrowsAlways  a round of the search for the ancestor that does not   *)
(*                  end it leaves fewer heights.                           *)
(*                                                                         *)
(* The invariant says what the runner knows between two requests.  While   *)
(* it searches, start .. end is a range of heights and the best ancestor   *)
(* so far is stored; while it downloads, the last block added is stored    *)
(* and the headers left continue it one by one.  Nothing the peer or       *)
(* another source of blocks does in between can undo that, because blocks  *)
(* are never removed and the headers are checked against each other.       *)
(*                                                                         *)
(* PeerProtocol, for any number of connections and peers:                  *)
(*                                                                         *)
(*   ProtocolAlways  the peer set and the stop of the protocol agree with  *)
(*                   the goroutines that serve, and an answer completes    *)
(*                   the request it belongs to.                            *)
(*                                                                         *)
(* Discovery, for any number of nodes, requests and replies:               *)
(*                                                                         *)
(*   AddedAlways     a node is added to the table only once it has         *)
(*                   answered.                                             *)
(***************************************************************************)
EXTENDS Synchronizer, PeerProtocol, Discovery, FiniteSetTheorems, TLAPS, WellFoundedInduction

\* A leaf is tried with Zenon, then with the SMT solver; the limits are in seconds.
USE ZenonT(8), SMTT(30)

-----------------------------------------------------------------------------
(* The synchronizer.                                                       *)

Whole(S) == \A b \in S : \A h \in 0 .. SyncNumber[b] : SyncAnc[b][h] \in S

\* The headers continue the block best.
Continue(hashes, best) ==
    /\ hashes \in Seq(SyncBlock) /\ hashes # << >>
    /\ \A i \in 1 .. Len(hashes) :
          /\ SyncNumber[hashes[i]] > 0
          /\ SyncParent(hashes[i]) = IF i = 1 THEN best ELSE hashes[i - 1]

TaskOK(t, S) ==
    /\ t.pc # "idle" => t.peer \in SyncPeer /\ t.header \in SyncBlock
    /\ t.pc = "run" => t.best = SyncNil
    /\ t.pc = "find" => /\ t.start \in Nat /\ t.end \in Nat /\ t.start <= t.end
                        /\ t.best \in S \cup {SyncNil}
    /\ t.pc \in {"headers", "blocks"} => t.best \in S
    /\ t.pc = "blocks" => Continue(t.hashes, t.best)

Phase == {"idle", "run", "find", "headers", "blocks", "panic"}

SyncTask == [pc : Phase, peer : SyncPeer \cup {SyncNil}, header : SyncBlock \cup {SyncNil},
             start : Int, end : Int, best : SyncBlock \cup {SyncNil}, hashes : Seq(SyncBlock)]

SyncInv ==
    /\ syncRoot \in BOOLEAN
    /\ peerTip \in [SyncPeer -> SyncBlock]
    /\ taskMap \in [SyncPeer -> SyncBlock \cup {SyncNil}]
    /\ stored \subseteq SyncBlock /\ SyncGenesis \in stored /\ Whole(stored)
    /\ syncCurrent \in stored
    /\ orphaned = FALSE
    /\ task \in SyncTask
    /\ TaskOK(task, stored)

-----------------------------------------------------------------------------
(* Arithmetic. *)

LEMMA ProductMonotone ==
    ASSUME NEW j \in Nat, NEW q \in Nat, NEW d \in Nat, j <= q
    PROVE  j * d <= q * d
<1>1. PICK k \in Nat : q = j + k
  <2>1. q - j \in Nat /\ q = j + (q - j)
    OBVIOUS
  <2> QED BY <2>1
<1>2. k * d \in Nat /\ j * d \in Nat
  OBVIOUS
<1>3. q * d = j * d + k * d
  BY <1>1
<1> QED BY <1>2, <1>3

\* What a quotient bounds: j steps of width d fit into a.
LEMMA StepsFit ==
    ASSUME NEW a \in Nat, NEW d \in Nat, d > 0, NEW j \in Nat, j <= a \div d
    PROVE  j * d \in Nat /\ j * d <= a
<1>1. a \div d \in Nat /\ d * (a \div d) <= a
  OBVIOUS
<1>2. j * d <= (a \div d) * d
  BY <1>1, ProductMonotone
<1>3. j * d \in Nat /\ (a \div d) * d = d * (a \div d) /\ d * (a \div d) \in Nat
  BY <1>1
<1> QED BY <1>1, <1>2, <1>3

\* Every nonempty set of naturals has a least element.
LEMMA LeastNatural ==
    ASSUME NEW T, T \subseteq Nat, T # {}
    PROVE  \E x \in T : \A y \in T : x <= y
<1> DEFINE R == {p \in Nat \X Nat : p[1] < p[2]}
<1>1. IsWellFoundedOn(R, Nat)
  BY NatLessThanWellFounded, Zenon DEF OpToRel
<1>2. PICK x \in T : \A y \in T : ~ (<<y, x>> \in R)
  <2> HIDE DEF R
  <2> QED BY <1>1, WFMin
<1>3. \A y \in T : ~ (y < x)
  BY <1>2
<1> QED BY <1>3

\* A nonempty set of positions has a last one.
LEMMA LastPosition ==
    ASSUME NEW n \in Nat, NEW T, T \subseteq 1 .. n, T # {}
    PROVE  \E x \in T : \A y \in T : y <= x
<1> DEFINE D == {n - y : y \in T}
<1>0. PICK z : z \in T
  OBVIOUS
<1>1. D \subseteq Nat /\ n - z \in D
  BY <1>0
<1>2. PICK d \in D : \A e \in D : d <= e
  <2> HIDE DEF D
  <2> QED BY <1>1, LeastNatural, Zenon
<1>3. PICK x \in T : d = n - x
  OBVIOUS
<1>4. \A y \in T : n - x <= n - y
  BY <1>2, <1>3
<1> QED BY <1>4

-----------------------------------------------------------------------------
(* Paths and header lists. *)

LEMMA PathFacts ==
    ASSUME NEW b \in SyncBlock
    PROVE  /\ SyncNumber[b] \in Nat
           /\ SyncAnc[b][SyncNumber[b]] = b
           /\ \A h \in 0 .. SyncNumber[b] :
                 /\ SyncAnc[b][h] \in SyncBlock
                 /\ SyncNumber[SyncAnc[b][h]] = h
                 /\ \A k \in 0 .. h : SyncAnc[SyncAnc[b][h]][k] = SyncAnc[b][k]
<1>1. IsBlockTree(SyncBlock, SyncNumber, SyncAnc)
  BY SyncAssumption
<1>2. SyncNumber \in [SyncBlock -> Nat]
  BY <1>1, Zenon DEF IsBlockTree
<1>3. /\ SyncAnc[b] \in [0 .. SyncNumber[b] -> SyncBlock]
      /\ SyncAnc[b][SyncNumber[b]] = b
      /\ \A h \in 0 .. SyncNumber[b] :
            /\ SyncNumber[SyncAnc[b][h]] = h
            /\ \A k \in 0 .. h : SyncAnc[SyncAnc[b][h]][k] = SyncAnc[b][k]
  BY <1>1, Zenon DEF IsBlockTree
<1> QED BY <1>2, <1>3

\* A header of an answer has the height that was asked for.
LEMMA HeaderAt ==
    ASSUME NEW tip \in SyncBlock, NEW start \in Nat, NEW skip \in Nat, NEW limit \in Nat,
           NEW list, list = HeaderList(tip, start, skip, limit)
    PROVE  /\ list \in Seq(SyncBlock)
           /\ Len(list) <= limit
           /\ \A i \in 1 .. Len(list) :
                 /\ (i - 1) * (skip + 1) \in Nat
                 /\ start + (i - 1) * (skip + 1) <= SyncNumber[tip]
                 /\ list[i] = SyncAnc[tip][start + (i - 1) * (skip + 1)]
                 /\ SyncNumber[list[i]] = start + (i - 1) * (skip + 1)
<1> DEFINE last == SyncNumber[tip]
           fit  == IF start > last THEN 0 ELSE (last - start) \div (skip + 1) + 1
           n    == IF fit < limit THEN fit ELSE limit
<1>1. last \in Nat
  BY PathFacts
<1>2. fit \in Nat
  BY <1>1
<1>3. n \in Nat /\ n <= limit /\ n <= fit
  <2> HIDE DEF fit
  <2> QED BY <1>2
<1>4. list = [i \in 1 .. n |-> SyncAnc[tip][start + (i - 1) * (skip + 1)]]
  BY Zenon DEF HeaderList
<1>5. ASSUME NEW i \in 1 .. n
      PROVE  /\ (i - 1) * (skip + 1) \in Nat
             /\ start + (i - 1) * (skip + 1) <= last
  <2>1. start <= last /\ i - 1 <= (last - start) \div (skip + 1)
    BY <1>1, <1>3
  <2>2. last - start \in Nat /\ skip + 1 \in Nat /\ skip + 1 > 0 /\ i - 1 \in Nat
    BY <2>1, <1>1
  <2>3. (i - 1) * (skip + 1) \in Nat /\ (i - 1) * (skip + 1) <= last - start
    BY <2>1, <2>2, StepsFit
  <2> QED BY <2>3, <1>1
<1>6. ASSUME NEW i \in 1 .. n
      PROVE  /\ SyncAnc[tip][start + (i - 1) * (skip + 1)] \in SyncBlock
             /\ SyncNumber[SyncAnc[tip][start + (i - 1) * (skip + 1)]] = start + (i - 1) * (skip + 1)
  <2> DEFINE h == start + (i - 1) * (skip + 1)
  <2>1. h \in 0 .. SyncNumber[tip]
    BY <1>5, <1>1
  <2> HIDE DEF h
  <2>2. SyncAnc[tip][h] \in SyncBlock /\ SyncNumber[SyncAnc[tip][h]] = h
    BY <2>1, PathFacts
  <2> QED BY <2>2 DEF h
<1> HIDE DEF n, last
<1>7. \A i \in 1 .. n : list[i] = SyncAnc[tip][start + (i - 1) * (skip + 1)]
  BY <1>4
<1>8. list \in Seq(SyncBlock) /\ Len(list) = n
  <2>1. DOMAIN list = 1 .. n /\ list = [i \in DOMAIN list |-> list[i]]
    BY <1>4
  <2>2. \A i \in 1 .. n : list[i] \in SyncBlock
    BY <1>6, <1>7
  <2>3. list \in [1 .. n -> SyncBlock]
    BY <2>1, <2>2, Zenon
  <2> QED BY <1>3, <2>3
<1> QED BY <1>3, <1>5, <1>6, <1>7, <1>8 DEF last

\* The headers of an answer without gaps continue each other.
LEMMA ListContinues ==
    ASSUME NEW tip \in SyncBlock, NEW best \in SyncBlock, NEW limit \in Nat,
           NEW list, list = HeaderList(tip, SyncNumber[best] + 1, 0, limit),
           list # << >>, SyncContinues(list, best)
    PROVE  Continue(list, best)
<1> DEFINE from == SyncNumber[best]
<1>1. from \in Nat
  BY PathFacts
<1>2. /\ list \in Seq(SyncBlock)
      /\ \A i \in 1 .. Len(list) :
            /\ from + 1 + (i - 1) * (0 + 1) <= SyncNumber[tip]
            /\ list[i] = SyncAnc[tip][from + 1 + (i - 1) * (0 + 1)]
            /\ SyncNumber[list[i]] = from + 1 + (i - 1) * (0 + 1)
  <2>1. from + 1 \in Nat /\ list = HeaderList(tip, from + 1, 0, limit)
    BY <1>1
  <2> HIDE DEF from
  <2> QED BY <2>1, HeaderAt
<1> HIDE DEF from
<1>3. \A i \in 1 .. Len(list) :
            /\ from + i <= SyncNumber[tip]
            /\ list[i] = SyncAnc[tip][from + i]
            /\ SyncNumber[list[i]] = from + i
  <2>1. \A i \in 1 .. Len(list) : from + 1 + (i - 1) * (0 + 1) = from + i
    BY <1>1, <1>2
  <2> QED BY <1>2, <2>1
<1>4. ASSUME NEW i \in 1 .. Len(list)
      PROVE  /\ SyncNumber[list[i]] > 0
             /\ SyncParent(list[i]) = IF i = 1 THEN best ELSE list[i - 1]
  <2>1. SyncNumber[list[i]] > 0
    BY <1>1, <1>3
  <2>2. CASE i = 1
    BY <2>1, <2>2 DEF SyncContinues
  <2>3. CASE i # 1
    <3>1. i - 1 \in 1 .. Len(list)
      BY <1>2, <2>3
    <3>2. list[i - 1] = SyncAnc[tip][from + i - 1]
      <4>1. from + (i - 1) = from + i - 1
        BY <1>1
      <4> QED BY <1>3, <3>1, <4>1
    <3>3. from + i \in 0 .. SyncNumber[tip] /\ from + i - 1 \in 0 .. from + i
      BY <1>1, <1>2, <1>3, PathFacts
    <3>4. SyncAnc[list[i]][from + i - 1] = SyncAnc[tip][from + i - 1]
      BY <1>3, <3>3, PathFacts
    <3>5. SyncNumber[list[i]] - 1 = from + i - 1
      BY <1>1, <1>3
    <3>6. SyncParent(list[i]) = list[i - 1]
      BY <3>2, <3>4, <3>5 DEF SyncParent, ParentOf
    <3> QED BY <2>1, <2>3, <3>6
  <2> QED BY <2>2, <2>3
<1> QED BY <1>2, <1>4 DEF Continue

-----------------------------------------------------------------------------
(* The search for the ancestor. *)

\* The headers of a round lie within start .. end: both tasks ask for at most as many
\* as fit.
LEMMA RoundFits ==
    ASSUME NEW width \in Nat, NEW span \in Nat, span > 0, NEW limit,
           limit = (width + 1) \div span \/ limit = (width + span) \div span,
           NEW i \in Nat, i > 0, i <= limit
    PROVE  (i - 1) * span \in Nat /\ (i - 1) * span <= width
<1>1. i * span \in Nat /\ i * span <= width + span
  <2>1. CASE limit = (width + 1) \div span
    <3>1. i * span \in Nat /\ i * span <= width + 1
      BY <2>1, StepsFit
    <3> QED BY <3>1
  <2>2. CASE limit = (width + span) \div span
    BY <2>2, StepsFit
  <2> QED BY <2>1, <2>2
<1>2. (i - 1) * span = i * span - span
  OBVIOUS
<1>3. (i - 1) * span \in Nat
  OBVIOUS
<1> QED BY <1>1, <1>2, <1>3

\* What one round may do to the task.
Narrower ==
    /\ task' \in SyncTask
    /\ task'.pc = "find"
    /\ task'.peer \in SyncPeer /\ task'.header \in SyncBlock
    /\ task'.start \in Nat /\ task'.end \in Nat
    /\ task.start < task'.start /\ task'.start <= task'.end /\ task'.end <= task.end
    /\ task'.best \in stored

LEMMA SearchOutcome ==
    ASSUME SyncInv, findAncestor
    PROVE  TaskDone \/ SyncPanic \/ (\E a \in stored : Found(a)) \/ Narrower
<1> DEFINE width == task.end - task.start
           span  == width \div HeaderListLimit + 1
           limit == IF syncRoot THEN (width + 1) \div span ELSE (width + span) \div span
           tip   == peerTip[task.peer]
           list  == HeaderList(tip, task.start, span - 1, limit)
<1>1. /\ task.pc = "find" /\ task \in SyncTask
      /\ task.start \in Nat /\ task.end \in Nat /\ task.start <= task.end
      /\ task.best \in stored \cup {SyncNil}
      /\ task.peer \in SyncPeer /\ task.header \in SyncBlock
      /\ stored \subseteq SyncBlock
  BY DEF findAncestor, SyncInv, TaskOK
<1>2. tip \in SyncBlock
  BY <1>1 DEF SyncInv
<1>3. width \in Nat /\ HeaderListLimit \in Nat \ {0}
  BY <1>1, SyncAssumption
<1>4. span \in Nat /\ span > 0 /\ span - 1 \in Nat /\ span - 1 + 1 = span
  <2> HIDE DEF width
  <2> QED BY <1>3
<1>5. limit \in Nat
  <2> HIDE DEF width, span
  <2>1. (width + 1) \div span \in Nat /\ (width + span) \div span \in Nat
    BY <1>3, <1>4
  <2> QED BY <2>1
<1>6. IF ListAccepted(tip, list, task.start, span - 1, limit) THEN SearchRound(list) ELSE TaskDone
  BY DEF findAncestor
<1>7. ASSUME ListAccepted(tip, list, task.start, span - 1, limit), SearchRound(list)
      PROVE  SyncPanic \/ (\E a \in stored : Found(a)) \/ Narrower
  <2> HIDE DEF width, span, limit, tip
  <2>0. list = HeaderList(tip, task.start, span - 1, limit)
    OBVIOUS
  <2>2. list # << >>
    BY <1>7 DEF ListAccepted
  <2> HIDE DEF list
  <2>1. /\ list \in Seq(SyncBlock) /\ Len(list) <= limit
        /\ \A i \in 1 .. Len(list) : SyncNumber[list[i]] = task.start + (i - 1) * (span - 1 + 1)
    BY <1>1, <1>2, <1>4, <1>5, <2>0, HeaderAt
  <2>3. Len(list) \in Nat /\ Len(list) > 0 /\ DOMAIN list = 1 .. Len(list)
    BY <2>1, <2>2
  <2>4. ASSUME NEW i \in 1 .. Len(list)
        PROVE  /\ (i - 1) * span \in Nat
               /\ SyncNumber[list[i]] = task.start + (i - 1) * span
               /\ SyncNumber[list[i]] <= task.end
    <3>1. (i - 1) * span \in Nat /\ (i - 1) * span <= width
      <4>1. limit = (width + 1) \div span \/ limit = (width + span) \div span
        BY DEF limit
      <4>2. i \in Nat /\ i > 0 /\ i <= limit
        BY <1>5, <2>1, <2>3
      <4> QED BY <1>3, <1>4, <4>1, <4>2, RoundFits
    <3>2. SyncNumber[list[i]] = task.start + (i - 1) * span
      BY <1>4, <2>1
    <3> QED BY <1>1, <3>1, <3>2 DEF width
  <2> DEFINE known == {i \in DOMAIN list : list[i] \in stored}
             top   == CHOOSE i \in known : \A j \in known : j <= i
             below == SyncNumber[list[IF known = {} THEN 1 ELSE top + 1]] - 1
             end   == IF known # {} /\ top = Len(list) THEN task.end ELSE below
             t     == [task EXCEPT !.end = end, !.header = HeaderAfter(tip)]
  <2>5. IF known = {}
        THEN IF end >= task.start
             THEN task' = t /\ UNCHANGED syncing
             ELSE IF task.best = SyncNil THEN SyncPanic ELSE Found(task.best)
        ELSE IF SyncNumber[list[top]] = end
        THEN Found(list[top])
        ELSE /\ task' = [t EXCEPT !.start = SyncNumber[list[top]] + 1, !.best = list[top]]
             /\ UNCHANGED syncing
    BY <1>7, Zenon DEF SearchRound, tip
  <2>6. CASE known = {}
    <3>1. end = SyncNumber[list[1]] - 1
      BY <2>6
    <3>2. SyncNumber[list[1]] = task.start
      <4>1. 1 \in 1 .. Len(list) /\ (1 - 1) * span = 0
        BY <1>4, <2>3
      <4>2. SyncNumber[list[1]] = task.start + (1 - 1) * span
        BY <2>4, <4>1
      <4> QED BY <1>1, <4>1, <4>2
    <3>3. ~ (end >= task.start)
      <4> HIDE DEF end
      <4> QED BY <1>1, <3>1, <3>2
    <3> HIDE DEF end, known
    <3>4. IF task.best = SyncNil THEN SyncPanic ELSE Found(task.best)
      BY <2>5, <2>6, <3>3
    <3> QED BY <1>1, <3>4
  <2>7. CASE known # {}
    <3>1. \E i \in known : \A j \in known : j <= i
      <4>1. known \subseteq 1 .. Len(list)
        BY <2>3
      <4> HIDE DEF known
      <4> QED BY <2>3, <2>7, <4>1, LastPosition
    <3>2. top \in known
      <4> HIDE DEF known
      <4> QED BY <3>1
    <3>3. top \in 1 .. Len(list) /\ list[top] \in stored
      BY <2>3, <3>2
    <3> HIDE DEF top
    <3>4. end = IF top = Len(list) THEN task.end ELSE SyncNumber[list[top + 1]] - 1
      BY <2>7
    <3>5. IF SyncNumber[list[top]] = end
          THEN Found(list[top])
          ELSE task' = [t EXCEPT !.start = SyncNumber[list[top]] + 1, !.best = list[top]]
      <4> HIDE DEF end, known, t
      <4> QED BY <2>5, <2>7
    <3> HIDE DEF end, known
    <3>6. CASE SyncNumber[list[top]] = end
      BY <3>3, <3>5, <3>6
    <3>7. CASE SyncNumber[list[top]] # end
      <4> DEFINE n == SyncNumber[list[top]]
      <4>1. n \in Nat /\ task.start <= n /\ n <= task.end
        BY <1>1, <2>4, <3>3
      <4>2. end \in Nat /\ n <= end /\ end <= task.end
        <5>1. CASE top = Len(list)
          BY <1>1, <3>4, <4>1, <5>1
        <5>2. CASE top # Len(list)
          <6>1. top + 1 \in 1 .. Len(list) /\ top + 1 - 1 = top
            <7>1. top \in 1 .. Len(list) /\ Len(list) \in Nat /\ top # Len(list)
              BY <2>3, <3>3, <5>2
            <7> QED BY <7>1
          <6>2. /\ SyncNumber[list[top + 1]] = task.start + top * span
                /\ SyncNumber[list[top + 1]] <= task.end
                /\ top * span \in Nat
            <7> DEFINE j == top + 1
            <7>1. j \in 1 .. Len(list) /\ j - 1 = top
              BY <2>3, <3>3, <6>1
            <7> HIDE DEF j
            <7>2. /\ (j - 1) * span \in Nat
                  /\ SyncNumber[list[j]] = task.start + (j - 1) * span
                  /\ SyncNumber[list[j]] <= task.end
              BY <2>4, <7>1
            <7> QED BY <7>1, <7>2 DEF j
          <6>3. n = task.start + (top - 1) * span /\ (top - 1) * span \in Nat
            BY <2>4, <3>3
          <6>4. top * span = (top - 1) * span + span
            BY <1>4, <3>3
          <6>5. end = SyncNumber[list[top + 1]] - 1
            BY <3>4, <5>2
          <6> HIDE DEF n
          <6> QED BY <1>1, <1>4, <6>2, <6>3, <6>4, <6>5
        <5> QED BY <5>1, <5>2
      <4>3. HeaderAfter(tip) \in SyncBlock
        BY <1>1, <1>2 DEF HeaderAfter
      <4>4. task' = [t EXCEPT !.start = n + 1, !.best = list[top]]
        BY <3>5, <3>7
      <4>5. list[top] \in SyncBlock
        BY <1>1, <3>3
      <4>6. n < end
        BY <3>7, <4>1, <4>2
      <4> HIDE DEF n
      <4>7. /\ task' \in SyncTask /\ task'.pc = "find"
            /\ task'.peer = task.peer /\ task'.header = HeaderAfter(tip)
            /\ task'.start = n + 1 /\ task'.end = end /\ task'.best = list[top]
        <5>1. task' = [pc |-> task.pc, peer |-> task.peer, header |-> HeaderAfter(tip),
                       start |-> n + 1, end |-> end, best |-> list[top], hashes |-> task.hashes]
          BY <1>1, <4>4 DEF SyncTask
        <5>2. task.peer \in SyncPeer \cup {SyncNil} /\ task.hashes \in Seq(SyncBlock) /\ task.pc \in Phase
          BY <1>1 DEF SyncTask
        <5> QED BY <1>1, <4>1, <4>2, <4>3, <4>5, <5>1, <5>2 DEF SyncTask
      <4>8. Narrower
        BY <1>1, <3>3, <4>1, <4>2, <4>3, <4>6, <4>7 DEF Narrower
      <4> QED BY <4>8
    <3> QED BY <3>6, <3>7
  <2> QED BY <2>6, <2>7
<1> QED BY <1>6, <1>7

-----------------------------------------------------------------------------
(* The steps. *)

LEMMA NoTaskOK ==
    ASSUME NEW S
    PROVE  NoTask \in SyncTask /\ TaskOK(NoTask, S)
<1>1. << >> \in Seq(SyncBlock) /\ 0 \in Int
  OBVIOUS
<1> QED BY <1>1 DEF NoTask, SyncTask, TaskOK, Phase

\* Blocks that are added leave a task as it is.
LEMMA TaskOKGrows ==
    ASSUME NEW t, NEW S, NEW T, S \subseteq T, TaskOK(t, S)
    PROVE  TaskOK(t, T)
BY DEF TaskOK

LEMMA FoundKeeps ==
    ASSUME SyncInv, task.pc \in {"run", "find"}, NEW a \in stored, Found(a)
    PROVE  task' \in SyncTask /\ TaskOK(task', stored) /\ task'.pc # "find"
<1>1. /\ task \in SyncTask /\ task.peer \in SyncPeer /\ task.header \in SyncBlock
      /\ stored \subseteq SyncBlock
  BY DEF SyncInv, TaskOK
<1>2. CASE TaskDone
  BY <1>2, NoTaskOK DEF TaskDone, NoTask
<1>3. CASE task' = [task EXCEPT !.pc = "headers", !.best = a]
  <2>1. task' = [pc |-> "headers", peer |-> task.peer, header |-> task.header, start |-> task.start,
                 end |-> task.end, best |-> a, hashes |-> task.hashes]
    BY <1>1, <1>3 DEF SyncTask
  <2>2. task.start \in Int /\ task.end \in Int /\ task.hashes \in Seq(SyncBlock)
    BY <1>1 DEF SyncTask
  <2>3. task' \in SyncTask
    BY <1>1, <2>1, <2>2 DEF SyncTask, Phase
  <2>4. TaskOK(task', stored) /\ task'.pc # "find"
    BY <1>1, <2>1 DEF TaskOK
  <2> QED BY <2>3, <2>4
<1> QED BY <1>2, <1>3 DEF Found

LEMMA PanicKeeps ==
    ASSUME SyncInv, task.pc # "idle", SyncPanic
    PROVE  task' \in SyncTask /\ TaskOK(task', stored) /\ task'.pc # "find"
<1>1. /\ task \in SyncTask /\ task.peer \in SyncPeer /\ task.header \in SyncBlock
      /\ task' = [task EXCEPT !.pc = "panic"]
  BY DEF SyncInv, TaskOK, SyncPanic
<1>2. task' \in SyncTask /\ task'.pc = "panic" /\ task'.peer = task.peer /\ task'.header = task.header
  BY <1>1 DEF SyncTask, Phase
<1> QED BY <1>1, <1>2 DEF TaskOK

\* A block whose parent is stored leaves the paths whole.
LEMMA ChainAddKeeps ==
    ASSUME SyncInv, NEW b \in SyncBlock, b = SyncGenesis \/ SyncParent(b) \in stored, ChainAdd(b)
    PROVE  /\ stored' \subseteq SyncBlock /\ SyncGenesis \in stored' /\ Whole(stored')
           /\ stored \subseteq stored' /\ b \in stored'
           /\ syncCurrent' \in stored'
<1>1. /\ stored \subseteq SyncBlock /\ SyncGenesis \in stored /\ Whole(stored)
      /\ syncCurrent \in stored /\ stored' = stored \cup {b}
      /\ syncCurrent' = b \/ syncCurrent' = syncCurrent
  BY DEF SyncInv, ChainAdd
<1>2. SyncNumber[b] \in Nat /\ SyncAnc[b][SyncNumber[b]] = b
  BY PathFacts
<1>3. ASSUME NEW h \in 0 .. SyncNumber[b]
      PROVE  SyncAnc[b][h] \in stored'
  <2>1. CASE h = SyncNumber[b]
    BY <1>1, <1>2, <2>1
  <2>2. CASE h # SyncNumber[b]
    <3> DEFINE p == SyncNumber[b] - 1
    <3>1. p \in 0 .. SyncNumber[b] /\ h \in 0 .. p
      BY <1>2, <2>2
    <3>2. b # SyncGenesis
      BY <1>2, <2>2, SyncAssumption
    <3>3. SyncAnc[b][p] \in stored
      BY <3>2 DEF SyncParent, ParentOf
    <3> HIDE DEF p
    <3>4. SyncNumber[SyncAnc[b][p]] = p /\ SyncAnc[SyncAnc[b][p]][h] = SyncAnc[b][h]
      BY <3>1, PathFacts
    <3>5. SyncAnc[SyncAnc[b][p]][h] \in stored
      BY <1>1, <3>1, <3>3, <3>4 DEF Whole
    <3> QED BY <1>1, <3>4, <3>5
  <2> QED BY <2>1, <2>2
<1>4. Whole(stored')
  BY <1>1, <1>3 DEF Whole
<1> QED BY <1>1, <1>4

\* The runner's steps that add no block.
LEMMA RunTaskKeeps ==
    ASSUME SyncInv, RunTask
    PROVE  task' \in SyncTask /\ TaskOK(task', stored) /\ task.pc = "run"
<1>1. /\ task \in SyncTask /\ task.peer \in SyncPeer /\ task.header \in SyncBlock
      /\ stored \subseteq SyncBlock /\ syncCurrent \in stored /\ task.pc = "run"
      /\ task.best = SyncNil
  BY DEF SyncInv, TaskOK, RunTask
<1>2. CASE TaskDone
  BY <1>1, <1>2, NoTaskOK DEF TaskDone
<1>3. CASE Found(syncCurrent)
  BY <1>1, <1>3, FoundKeeps
<1>4. CASE SyncPanic
  BY <1>1, <1>4, PanicKeeps
<1> DEFINE end == IF SyncNumber[task.header] < SyncNumber[syncCurrent]
                  THEN SyncNumber[task.header] ELSE SyncNumber[syncCurrent]
<1>5. CASE ~ (end < LowestHeight) /\ task' = [task EXCEPT !.pc = "find", !.start = LowestHeight, !.end = end]
  <2>1. SyncNumber[syncCurrent] \in Nat /\ SyncNumber[task.header] \in Nat /\ MaxSyncStaleness \in Nat
    BY <1>1, PathFacts, SyncAssumption
  <2>2. LowestHeight \in Nat /\ end \in Nat
    BY <2>1 DEF LowestHeight
  <2> HIDE DEF end
  <2>3. task' = [pc |-> "find", peer |-> task.peer, header |-> task.header, start |-> LowestHeight,
                 end |-> end, best |-> SyncNil, hashes |-> task.hashes]
    BY <1>1, <1>5 DEF SyncTask
  <2>4. task.hashes \in Seq(SyncBlock)
    BY <1>1 DEF SyncTask
  <2>5. task' \in SyncTask
    BY <1>1, <2>2, <2>3, <2>4 DEF SyncTask, Phase
  <2>6. LowestHeight <= end
    BY <1>5, <2>2
  <2>7. TaskOK(task', stored)
    BY <1>1, <2>2, <2>3, <2>6 DEF TaskOK
  <2> QED BY <1>1, <2>5, <2>7
<1> QED BY <1>2, <1>3, <1>4, <1>5 DEF RunTask

LEMMA SearchKeeps ==
    ASSUME SyncInv, findAncestor
    PROVE  task' \in SyncTask /\ TaskOK(task', stored) /\ (task'.pc = "find" => Narrower)
<1>1. task.pc = "find"
  BY DEF findAncestor
<1>2. CASE TaskDone
  BY <1>2, NoTaskOK DEF TaskDone, NoTask
<1>3. CASE SyncPanic
  BY <1>1, <1>3, PanicKeeps
<1>4. CASE \E a \in stored : Found(a)
  BY <1>1, <1>4, FoundKeeps
<1>5. CASE Narrower
  BY <1>5 DEF Narrower, TaskOK
<1> QED BY <1>2, <1>3, <1>4, <1>5, SearchOutcome

LEMMA HeadersKeep ==
    ASSUME SyncInv, getHeaders
    PROVE  task' \in SyncTask /\ TaskOK(task', stored) /\ task.pc = "headers"
<1> DEFINE tip   == peerTip[task.peer]
           diff  == SyncNumber[task.header] - SyncNumber[task.best]
           limit == IF HeaderListLimit > diff THEN diff ELSE HeaderListLimit
           list  == HeaderList(tip, SyncNumber[task.best] + 1, 0, limit)
<1>1. /\ task \in SyncTask /\ task.peer \in SyncPeer /\ task.header \in SyncBlock
      /\ stored \subseteq SyncBlock /\ task.pc = "headers" /\ task.best \in stored
      /\ tip \in SyncBlock
  BY DEF SyncInv, TaskOK, getHeaders
<1>2. CASE TaskDone
  BY <1>1, <1>2, NoTaskOK DEF TaskDone
<1>3. CASE /\ diff > 0 /\ ListAccepted(tip, list, SyncNumber[task.best] + 1, 0, limit)
           /\ SyncContinues(list, task.best)
           /\ task' = [task EXCEPT !.pc = "blocks", !.hashes = list, !.header = HeaderAfter(tip)]
  <2>1. SyncNumber[task.best] \in Nat /\ SyncNumber[task.header] \in Nat /\ HeaderListLimit \in Nat
    BY <1>1, PathFacts, SyncAssumption
  <2>2. limit \in Nat
    BY <1>3, <2>1
  <2>3. list = HeaderList(tip, SyncNumber[task.best] + 1, 0, limit) /\ list # << >>
    BY <1>3 DEF ListAccepted
  <2> HIDE DEF limit, tip, list
  <2>4. Continue(list, task.best)
    BY <1>1, <1>3, <2>2, <2>3, ListContinues
  <2>5. HeaderAfter(tip) \in SyncBlock
    BY <1>1 DEF HeaderAfter
  <2>6. task' = [pc |-> "blocks", peer |-> task.peer, header |-> HeaderAfter(tip), start |-> task.start,
                 end |-> task.end, best |-> task.best, hashes |-> list]
    BY <1>1, <1>3 DEF SyncTask
  <2>7. task.start \in Int /\ task.end \in Int /\ list \in Seq(SyncBlock)
    BY <1>1, <2>4 DEF SyncTask, Continue
  <2>8. task' \in SyncTask
    BY <1>1, <2>5, <2>6, <2>7 DEF SyncTask, Phase
  <2>9. TaskOK(task', stored)
    BY <1>1, <2>4, <2>5, <2>6 DEF TaskOK
  <2> QED BY <1>1, <2>8, <2>9
<1> QED BY <1>2, <1>3 DEF getHeaders

LEMMA AddOneKeeps ==
    ASSUME SyncInv, AddOne
    PROVE  /\ stored' \subseteq SyncBlock /\ SyncGenesis \in stored' /\ Whole(stored')
           /\ syncCurrent' \in stored' /\ orphaned' = FALSE
           /\ task' \in SyncTask /\ TaskOK(task', stored') /\ task.pc = "blocks"
<1> DEFINE hs == task.hashes
           b  == hs[1]
<1>1. /\ task \in SyncTask /\ task.peer \in SyncPeer /\ task.header \in SyncBlock
      /\ stored \subseteq SyncBlock /\ task.pc = "blocks" /\ task.best \in stored
      /\ orphaned = FALSE /\ Continue(hs, task.best)
  BY DEF SyncInv, TaskOK, AddOne
<1>2. hs \in Seq(SyncBlock) /\ hs # << >> /\ Len(hs) \in Nat /\ Len(hs) > 0 /\ Head(hs) = b
  BY <1>1 DEF Continue
<1>3. b \in SyncBlock /\ SyncParent(b) = task.best
  <2>1. 1 \in 1 .. Len(hs)
    BY <1>2
  <2> QED BY <1>1, <1>2, <2>1 DEF Continue
<1>4. /\ ChainAdd(b) /\ orphaned' = orphaned
      /\ task' = [task EXCEPT !.best = b, !.hashes = Tail(@),
                              !.pc = IF Len(task.hashes) = 1 THEN "headers" ELSE "blocks"]
  BY <1>1, <1>2, <1>3 DEF AddOne
<1> HIDE DEF b
<1>5. /\ stored' \subseteq SyncBlock /\ SyncGenesis \in stored' /\ Whole(stored')
      /\ stored \subseteq stored' /\ b \in stored' /\ syncCurrent' \in stored'
  BY <1>1, <1>3, <1>4, ChainAddKeeps
<1>6. task' = [pc |-> IF Len(hs) = 1 THEN "headers" ELSE "blocks", peer |-> task.peer,
               header |-> task.header, start |-> task.start, end |-> task.end, best |-> b,
               hashes |-> Tail(hs)]
  BY <1>1, <1>4 DEF SyncTask
<1>7. task.start \in Int /\ task.end \in Int
  BY <1>1 DEF SyncTask
<1> HIDE DEF hs
<1>8. Tail(hs) \in Seq(SyncBlock) /\ Len(Tail(hs)) = Len(hs) - 1
  BY <1>2
<1>9. task' \in SyncTask
  BY <1>1, <1>3, <1>6, <1>7, <1>8 DEF SyncTask, Phase
<1>10. ASSUME Len(hs) # 1
       PROVE  Continue(Tail(hs), b)
  <2>1. Tail(hs) # << >>
    BY <1>2, <1>8, <1>10
  <2>2. ASSUME NEW i \in 1 .. Len(Tail(hs))
        PROVE  /\ SyncNumber[Tail(hs)[i]] > 0
               /\ SyncParent(Tail(hs)[i]) = IF i = 1 THEN b ELSE Tail(hs)[i - 1]
    <3>1. i \in Nat /\ i >= 1 /\ i <= Len(hs) - 1
      BY <1>2, <1>8
    <3>2. i + 1 \in 1 .. Len(hs) /\ i + 1 # 1 /\ i + 1 - 1 = i
      BY <1>2, <3>1
    <3>3. Tail(hs)[i] = hs[i + 1] /\ (i # 1 => Tail(hs)[i - 1] = hs[i])
      BY <1>2, <3>1
    <3>4. SyncNumber[hs[i + 1]] > 0 /\ SyncParent(hs[i + 1]) = hs[i]
      <4> DEFINE j == i + 1
      <4>1. j \in 1 .. Len(hs) /\ j # 1 /\ j - 1 = i
        BY <3>1, <3>2
      <4> HIDE DEF j
      <4>2. SyncNumber[hs[j]] > 0 /\ SyncParent(hs[j]) = hs[j - 1]
        BY <1>1, <4>1 DEF Continue
      <4> QED BY <4>1, <4>2 DEF j
    <3> QED BY <3>3, <3>4 DEF b
  <2> QED BY <1>8, <2>1, <2>2 DEF Continue
<1>11. TaskOK(task', stored')
  BY <1>1, <1>5, <1>6, <1>10 DEF TaskOK
<1> QED BY <1>1, <1>4, <1>5, <1>9, <1>11

LEMMA SyncStep == SyncInv /\ [SyncNext]_syncVars => SyncInv'
<1> SUFFICES ASSUME SyncInv, [SyncNext]_syncVars
             PROVE  SyncInv'
  OBVIOUS
<1>1. /\ syncRoot \in BOOLEAN /\ peerTip \in [SyncPeer -> SyncBlock]
      /\ taskMap \in [SyncPeer -> SyncBlock \cup {SyncNil}]
      /\ stored \subseteq SyncBlock /\ SyncGenesis \in stored /\ Whole(stored)
      /\ syncCurrent \in stored /\ orphaned = FALSE
      /\ task \in SyncTask /\ TaskOK(task, stored)
  BY DEF SyncInv
<1>2. ASSUME NEW p \in SyncPeer, AddTask(p)
      PROVE  SyncInv'
  <2>1. taskMap' \in [SyncPeer -> SyncBlock \cup {SyncNil}]
    BY <1>1, <1>2 DEF AddTask
  <2> QED BY <1>1, <1>2, <2>1 DEF AddTask, SyncInv
<1>3. ASSUME NEW p \in SyncPeer, Assign(p)
      PROVE  SyncInv'
  <2>1. taskMap' \in [SyncPeer -> SyncBlock \cup {SyncNil}] /\ taskMap[p] \in SyncBlock
    BY <1>1, <1>3 DEF Assign, getNextTask
  <2>2. task' = [pc |-> "run", peer |-> p, header |-> taskMap[p], start |-> 0, end |-> 0,
                 best |-> SyncNil, hashes |-> << >>]
    BY <1>3 DEF Assign, NoTask
  <2>3. << >> \in Seq(SyncBlock) /\ 0 \in Int
    OBVIOUS
  <2>4. task' \in SyncTask
    BY <2>1, <2>2, <2>3 DEF SyncTask, Phase
  <2>5. TaskOK(task', stored)
    BY <2>1, <2>2 DEF TaskOK
  <2> QED BY <1>1, <1>3, <2>1, <2>4, <2>5 DEF Assign, SyncInv
<1>4. CASE SyncClose
  BY <1>1, <1>4 DEF SyncClose, SyncInv
<1>5. CASE RunTask
  BY <1>1, <1>5, RunTaskKeeps DEF RunTask, RunnerOnly, SyncInv
<1>6. CASE findAncestor
  BY <1>1, <1>6, SearchKeeps DEF findAncestor, RunnerOnly, SyncInv
<1>7. CASE getHeaders
  BY <1>1, <1>7, HeadersKeep DEF getHeaders, RunnerOnly, SyncInv
<1>8. CASE AddOne
  BY <1>1, <1>8, AddOneKeeps DEF AddOne, RunnerOnly, SyncInv
<1>9. CASE TaskFails
  BY <1>1, <1>9, NoTaskOK DEF TaskFails, TaskDone, RunnerOnly, SyncInv
<1>10. ASSUME NEW p \in SyncPeer, NEW b \in SyncBlock, PeerSwitches(p, b)
       PROVE  SyncInv'
  <2>1. peerTip' \in [SyncPeer -> SyncBlock]
    BY <1>1, <1>10 DEF PeerSwitches
  <2> QED BY <1>1, <1>10, <2>1 DEF PeerSwitches, SyncInv
<1>11. ASSUME NEW b \in SyncBlock \ {SyncGenesis}, LocalBlock(b)
       PROVE  SyncInv'
  <2>1. /\ stored' \subseteq SyncBlock /\ SyncGenesis \in stored' /\ Whole(stored')
        /\ stored \subseteq stored' /\ syncCurrent' \in stored'
    BY <1>11, ChainAddKeeps DEF LocalBlock
  <2>2. TaskOK(task, stored')
    BY <1>1, <2>1, TaskOKGrows
  <2> QED BY <1>1, <1>11, <2>1, <2>2 DEF LocalBlock, SyncInv
<1>12. CASE UNCHANGED syncVars
  BY <1>1, <1>12 DEF syncVars, SyncInv
<1> QED BY <1>2, <1>3, <1>4, <1>5, <1>6, <1>7, <1>8, <1>9, <1>10, <1>11, <1>12
        DEF SyncNext, RunnerStep

LEMMA SyncStart ==
    ASSUME SyncInit(BOOLEAN, SyncTips)
    PROVE  SyncInv
<1>1. Whole(SyncHave) /\ SyncHave \subseteq SyncBlock /\ SyncGenesis \in SyncHave
  BY SyncAssumption DEF Whole
<1>2. peerTip \in [SyncPeer -> SyncBlock]
  BY SyncAssumption DEF SyncInit
<1> QED BY <1>1, <1>2, NoTaskOK DEF SyncInit, SyncInv

\* Every block of every task finds its parent, and the node has the path below every
\* block it has, whatever the peers do between the requests (task.Run).
THEOREM LinkedAlways == SyncSpec(BOOLEAN, SyncTips) => []BlocksLinked
<1>1. SyncInit(BOOLEAN, SyncTips) => SyncInv
  BY SyncStart
<1>2. SyncInv => BlocksLinked
  BY DEF SyncInv, BlocksLinked, Whole
<1> QED BY <1>1, <1>2, SyncStep, PTL DEF SyncSpec

\* The search for the ancestor narrows with every round, so that it can not go on for
\* ever (findAncestor).
THEOREM NarrowsAlways == SyncSpec(BOOLEAN, SyncTips) => SearchNarrows
<1> DEFINE Narrows == task.pc = "find" /\ task'.pc = "find" /\ task' # task
                        => /\ task.start < task'.start /\ task'.start <= task'.end
                           /\ task'.end <= task.end
<1>1. SyncInit(BOOLEAN, SyncTips) => SyncInv
  BY SyncStart
<1>2. SyncInv /\ [SyncNext]_syncVars => [Narrows]_syncVars
  <2> SUFFICES ASSUME SyncInv, SyncNext, task.pc = "find", task'.pc = "find", task' # task
               PROVE  Narrower
    BY DEF Narrower, syncVars
  <2>1. ~ \E p \in SyncPeer : AddTask(p) \/ Assign(p)
    BY DEF AddTask, Assign
  <2>2. ~ SyncClose /\ ~ RunTask /\ ~ getHeaders /\ ~ AddOne
    BY DEF SyncClose, RunTask, getHeaders, AddOne
  <2>3. ~ TaskFails
    BY DEF TaskFails, TaskDone, NoTask
  <2>4. ~ \E p \in SyncPeer, b \in SyncBlock : PeerSwitches(p, b)
    BY DEF PeerSwitches
  <2>5. ~ \E b \in SyncBlock \ {SyncGenesis} : LocalBlock(b)
    BY DEF LocalBlock
  <2>6. findAncestor
    BY <2>1, <2>2, <2>3, <2>4, <2>5 DEF SyncNext, RunnerStep
  <2> QED BY <2>6, SearchKeeps
<1> QED BY <1>1, <1>2, SyncStep, PTL DEF SyncSpec, SearchNarrows

-----------------------------------------------------------------------------
(* The protocol with the peers (PeerProtocol).                             *)

\* The places of a handler between wg.Add and wg.Done, and those between Register and the
\* deferred removePeer.
Served == {"task", "serve"}
Counted == {"shake", "register"} \cup Served
Places == {"offered", "accepted", "done"} \cup Counted
Rpc == [last : Nat, open : BOOLEAN, chan : Nat, asked : SUBSET Nat, got : Nat]

ProtoTypes ==
    /\ handler \in [Conn -> Places] /\ connId \in [Conn -> PeerId]
    /\ peers \in [PeerId -> Conn \cup {NoConn}] /\ bcast \in [Conn -> BOOLEAN]
    /\ rpc \in [Conn -> Rpc]

Counts(h) == {c \in Conn : h[c] \in Counted}

\* An entry of the peer set is under the identity of its connection and stands for a
\* handler that serves, and so does a broadcast goroutine.
PlacesOK(h, id, ps, bc) ==
    /\ \A i \in PeerId : ps[i] # NoConn => id[ps[i]] = i
    /\ \A c \in Conn : ps[id[c]] = c <=> h[c] \in Served
    /\ \A c \in Conn : bc[c] => h[c] \in Served

\* The set is closed before Stop waits, and nobody serves after it.
StopOK(h, closed, at) ==
    /\ at \in {"wait", "stopped"} => closed
    /\ at = "stopped" => \A c \in Conn : h[c] \notin Served

\* What is in the channel of a request, or was taken from it, is its own answer.
RpcOK(r) == (r.chan # 0 => r.chan = r.last) /\ (r.got # 0 => r.got = r.last)

ProtoInv ==
    /\ ProtoTypes
    /\ PlacesOK(handler, connId, peers, bcast)
    /\ StopOK(handler, peersClosed, stopAt)
    /\ waitGroup = Cardinality(Counts(handler))
    /\ \A c \in Conn : RpcOK(rpc[c])

LEMMA ProtoStart == ProtoInit(ConnIds) => ProtoInv
<1> SUFFICES ASSUME ProtoInit(ConnIds) PROVE ProtoInv
  OBVIOUS
<1>1. NoRpc \in Rpc /\ RpcOK(NoRpc)
  BY DEF NoRpc, Rpc, RpcOK
<1>2. ProtoTypes
  BY <1>1, ProtoAssumption DEF ProtoInit, ProtoTypes, Places
<1>3. PlacesOK(handler, connId, peers, bcast)
  BY <1>2, ProtoAssumption DEF ProtoInit, PlacesOK, Served, ProtoTypes
<1>4. StopOK(handler, peersClosed, stopAt)
  BY DEF ProtoInit, StopOK
<1>5. Counts(handler) = {}
  BY DEF ProtoInit, Counts, Counted, Served
<1>6. Cardinality({}) = 0
  BY FS_EmptySet
<1>7. waitGroup = 0 /\ rpc = [c \in Conn |-> NoRpc]
  BY DEF ProtoInit
<1> QED
  BY <1>1, <1>2, <1>3, <1>4, <1>5, <1>6, <1>7 DEF ProtoInv

\* The number of handlers between wg.Add and wg.Done when one of them moves.
LEMMA CountMoves ==
  ASSUME NEW h \in [Conn -> Places], NEW c \in Conn, NEW q \in Places
  PROVE  /\ Cardinality(Counts(h)) \in Nat
         /\ h[c] \in Counted /\ q \in Counted =>
               Cardinality(Counts([h EXCEPT ![c] = q])) = Cardinality(Counts(h))
         /\ h[c] \notin Counted /\ q \notin Counted =>
               Cardinality(Counts([h EXCEPT ![c] = q])) = Cardinality(Counts(h))
         /\ h[c] \notin Counted /\ q \in Counted =>
               Cardinality(Counts([h EXCEPT ![c] = q])) = Cardinality(Counts(h)) + 1
         /\ h[c] \in Counted /\ q \notin Counted =>
               Cardinality(Counts([h EXCEPT ![c] = q])) = Cardinality(Counts(h)) - 1
<1> DEFINE k == [h EXCEPT ![c] = q]
<1>0. k[c] = q /\ \A d \in Conn : d # c => k[d] = h[d]
  OBVIOUS
<1> HIDE DEF k
<1>1. IsFiniteSet(Counts(h)) /\ Cardinality(Counts(h)) \in Nat
  BY ProtoAssumption, FS_Subset, FS_CardinalityType DEF Counts
<1>2. h[c] \in Counted /\ q \in Counted => Counts(k) = Counts(h)
  BY <1>0 DEF Counts
<1>3. h[c] \notin Counted /\ q \notin Counted => Counts(k) = Counts(h)
  BY <1>0 DEF Counts
<1>4. h[c] \notin Counted /\ q \in Counted => Counts(k) = Counts(h) \cup {c} /\ c \notin Counts(h)
  BY <1>0 DEF Counts
<1>5. h[c] \in Counted /\ q \notin Counted => Counts(k) = Counts(h) \ {c} /\ c \in Counts(h)
  BY <1>0 DEF Counts
<1>6. Counts(k) = Counts(h) \cup {c} /\ c \notin Counts(h) => Cardinality(Counts(k)) = Cardinality(Counts(h)) + 1
  BY <1>1, FS_AddElement
<1>7. Counts(k) = Counts(h) \ {c} /\ c \in Counts(h) => Cardinality(Counts(k)) = Cardinality(Counts(h)) - 1
  BY <1>1, FS_RemoveElement
<1>8. Counts(k) = Counts(h) => Cardinality(Counts(k)) = Cardinality(Counts(h))
  OBVIOUS
<1>9. /\ Cardinality(Counts(h)) \in Nat
      /\ h[c] \in Counted /\ q \in Counted => Cardinality(Counts(k)) = Cardinality(Counts(h))
      /\ h[c] \notin Counted /\ q \notin Counted => Cardinality(Counts(k)) = Cardinality(Counts(h))
      /\ h[c] \notin Counted /\ q \in Counted => Cardinality(Counts(k)) = Cardinality(Counts(h)) + 1
      /\ h[c] \in Counted /\ q \notin Counted => Cardinality(Counts(k)) = Cardinality(Counts(h)) - 1
  BY <1>1, <1>2, <1>3, <1>4, <1>5, <1>6, <1>7, <1>8, Zenon
<1> QED
  BY <1>9, Zenon DEF k

\* A handler moves, neither into the serving places nor out of them.
LEMMA MoveKeeps ==
  ASSUME ProtoInv, NEW c \in Conn, NEW q \in Places, GoTo(c, q),
         handler[c] \in Served <=> q \in Served,
         handler[c] \in Counted /\ q \in Counted => waitGroup' = waitGroup,
         handler[c] \notin Counted /\ q \notin Counted => waitGroup' = waitGroup,
         handler[c] \notin Counted /\ q \in Counted => waitGroup' = waitGroup + 1,
         handler[c] \in Counted /\ q \notin Counted => waitGroup' = waitGroup - 1,
         UNCHANGED <<connId, peers, bcast, peersClosed, stopAt, rpc>>
  PROVE  ProtoInv'
<1>t. ProtoTypes
  BY DEF ProtoInv
<1>h. handler' = [handler EXCEPT ![c] = q]
  BY DEF GoTo
<1>1. ProtoTypes'
  BY <1>t, <1>h DEF ProtoTypes
<1>2. handler'[c] = q /\ \A d \in Conn : d # c => handler'[d] = handler[d]
  BY <1>t, <1>h DEF ProtoTypes
<1>3. PlacesOK(handler', connId', peers', bcast')
  BY <1>2 DEF ProtoInv, PlacesOK
<1>4. StopOK(handler', peersClosed', stopAt')
  BY <1>2 DEF ProtoInv, StopOK
<1>5. waitGroup' = Cardinality(Counts(handler'))
  <2>1. handler \in [Conn -> Places] /\ waitGroup = Cardinality(Counts(handler))
    BY <1>t DEF ProtoInv, ProtoTypes
  <2> QED
    BY <2>1, <1>h, CountMoves
<1>6. \A d \in Conn : RpcOK(rpc'[d])
  BY DEF ProtoInv
<1> QED
  BY <1>1, <1>3, <1>4, <1>5, <1>6 DEF ProtoInv

\* handle returns with its deferred removePeer.
LEMMA LeaveKeeps ==
  ASSUME ProtoInv, NEW c \in Conn, handler[c] \in Served, LeaveHandle(c),
         UNCHANGED <<connId, peersClosed, stopAt, rpc>>
  PROVE  ProtoInv'
<1>t. ProtoTypes
  BY DEF ProtoInv
<1>p. peers[connId[c]] = c /\ c # NoConn
  BY ProtoAssumption DEF ProtoInv, PlacesOK
<1>h. /\ handler' = [handler EXCEPT ![c] = "done"]
      /\ peers' = [peers EXCEPT ![connId[c]] = NoConn]
      /\ bcast' = [bcast EXCEPT ![c] = FALSE]
      /\ waitGroup' = waitGroup - 1
      /\ connId' = connId /\ peersClosed' = peersClosed /\ stopAt' = stopAt /\ rpc' = rpc
  BY <1>p DEF LeaveHandle, GoTo
<1>i. connId[c] \in PeerId /\ "done" \in Places
  BY <1>t DEF ProtoTypes, Places
<1>1. ProtoTypes'
  BY <1>t, <1>h, <1>i DEF ProtoTypes
<1>2. /\ handler'[c] = "done" /\ bcast'[c] = FALSE /\ peers'[connId[c]] = NoConn
      /\ \A d \in Conn : d # c => handler'[d] = handler[d] /\ bcast'[d] = bcast[d]
      /\ \A i \in PeerId : i # connId[c] => peers'[i] = peers[i]
  BY <1>t, <1>h, <1>i DEF ProtoTypes
<1>3. PlacesOK(handler', connId, peers', bcast')
  <2>1. PlacesOK(handler, connId, peers, bcast) /\ connId \in [Conn -> PeerId]
    BY <1>t DEF ProtoInv, ProtoTypes
  <2>2. \A i \in PeerId : peers'[i] # NoConn => connId[peers'[i]] = i
    BY <2>1, <1>2 DEF PlacesOK
  <2>3. ASSUME NEW d \in Conn PROVE peers'[connId[d]] = d <=> handler'[d] \in Served
    <3>1. CASE d = c
      BY <3>1, <1>2, <1>p DEF Served
    <3>2. CASE d # c /\ connId[d] = connId[c]
      BY <3>2, <1>2, <1>p, <2>1, ProtoAssumption DEF PlacesOK
    <3>3. CASE d # c /\ connId[d] # connId[c]
      BY <3>3, <1>2, <2>1 DEF PlacesOK
    <3> QED
      BY <3>1, <3>2, <3>3
  <2>4. \A d \in Conn : bcast'[d] => handler'[d] \in Served
    BY <2>1, <1>2 DEF PlacesOK
  <2> QED
    BY <2>2, <2>3, <2>4 DEF PlacesOK
<1>4. StopOK(handler', peersClosed', stopAt')
  BY <1>2, <1>h DEF ProtoInv, StopOK, Served
<1>5. waitGroup' = Cardinality(Counts(handler'))
  <2>1. handler \in [Conn -> Places] /\ waitGroup = Cardinality(Counts(handler))
    BY <1>t DEF ProtoInv, ProtoTypes
  <2>2. handler[c] \in Counted /\ "done" \notin Counted
    BY DEF Counted, Served
  <2> QED
    BY <2>1, <2>2, <1>h, <1>i, CountMoves
<1>6. \A d \in Conn : RpcOK(rpc'[d])
  BY <1>h DEF ProtoInv
<1> QED
  BY <1>1, <1>3, <1>4, <1>5, <1>6, <1>h DEF ProtoInv

\* The request of a connection changes and nothing else of the invariant.
LEMMA RpcKeeps ==
  ASSUME ProtoInv, NEW c \in Conn, NEW r \in Rpc, RpcOK(r), rpc' = [rpc EXCEPT ![c] = r],
         UNCHANGED <<handler, connId, peers, bcast, peersClosed, stopAt, waitGroup>>
  PROVE  ProtoInv'
<1>1. ProtoTypes'
  BY DEF ProtoInv, ProtoTypes
<1>2. \A d \in Conn : RpcOK(rpc'[d])
  BY DEF ProtoInv, ProtoTypes
<1> QED
  BY <1>1, <1>2 DEF ProtoInv

\* Nothing of the invariant changes.
LEMMA NothingKeeps ==
  ASSUME ProtoInv, UNCHANGED <<handler, connId, peers, bcast, peersClosed, stopAt, waitGroup, rpc>>
  PROVE  ProtoInv'
  BY DEF ProtoInv, ProtoTypes

LEMMA RegisterKeeps ==
  ASSUME ProtoInv, NEW c \in Conn, Register(c)
  PROVE  ProtoInv'
<1>t. ProtoTypes
  BY DEF ProtoInv
<1>s. UNCHANGED <<connId, peersClosed, stopAt, rpc>> /\ handler[c] = "register"
  BY DEF Register, SharedUnchanged
<1>1. CASE peersClosed \/ peers[connId[c]] # NoConn
  <2>1. GoTo(c, "done") /\ waitGroup' = waitGroup - 1 /\ UNCHANGED <<peers, bcast>>
    BY <1>1 DEF Register, RefusedConn
  <2>2. "done" \in Places /\ "done" \notin Counted /\ "done" \notin Served
    BY DEF Places, Counted, Served
  <2>3. handler[c] \in Counted /\ handler[c] \notin Served
    BY <1>s DEF Counted, Served
  <2> QED
    BY <2>1, <2>2, <2>3, <1>s, MoveKeeps
<1>2. CASE ~peersClosed /\ peers[connId[c]] = NoConn
  <2>h. /\ handler' = [handler EXCEPT ![c] = "task"]
        /\ peers' = [peers EXCEPT ![connId[c]] = c]
        /\ bcast' = [bcast EXCEPT ![c] = TRUE]
        /\ waitGroup' = waitGroup
    BY <1>2 DEF Register, GoTo
  <2>i. connId[c] \in PeerId /\ "task" \in Places
    BY <1>t DEF ProtoTypes, Places, Counted, Served
  <2>1. ProtoTypes'
    BY <1>t, <1>s, <2>h, <2>i DEF ProtoTypes
  <2>2. /\ handler'[c] = "task" /\ peers'[connId[c]] = c
        /\ \A d \in Conn : d # c => handler'[d] = handler[d] /\ bcast'[d] = bcast[d]
        /\ \A i \in PeerId : i # connId[c] => peers'[i] = peers[i]
    BY <1>t, <2>h, <2>i DEF ProtoTypes
  <2>3. PlacesOK(handler', connId, peers', bcast')
    <3>1. PlacesOK(handler, connId, peers, bcast) /\ connId \in [Conn -> PeerId]
      BY <1>t DEF ProtoInv, ProtoTypes
    <3>2. \A i \in PeerId : peers'[i] # NoConn => connId[peers'[i]] = i
      BY <3>1, <2>2 DEF PlacesOK
    <3>3. ASSUME NEW d \in Conn PROVE peers'[connId[d]] = d <=> handler'[d] \in Served
      <4>1. CASE d = c
        BY <4>1, <2>2 DEF Served
      <4>2. CASE d # c /\ connId[d] = connId[c]
        BY <4>2, <2>2, <1>2, <3>1, ProtoAssumption DEF PlacesOK
      <4>3. CASE d # c /\ connId[d] # connId[c]
        BY <4>3, <2>2, <3>1 DEF PlacesOK
      <4> QED
        BY <4>1, <4>2, <4>3
    <3>4. \A d \in Conn : bcast'[d] => handler'[d] \in Served
      BY <3>1, <2>2 DEF PlacesOK, Served
    <3> QED
      BY <3>2, <3>3, <3>4 DEF PlacesOK
  <2>4. StopOK(handler', peersClosed', stopAt')
    BY <1>2, <1>s DEF ProtoInv, StopOK
  <2>5. waitGroup' = Cardinality(Counts(handler'))
    <3>1. handler \in [Conn -> Places] /\ waitGroup = Cardinality(Counts(handler))
      BY <1>t DEF ProtoInv, ProtoTypes
    <3>2. handler[c] \in Counted /\ "task" \in Counted
      BY <1>s DEF Counted, Served
    <3> QED
      BY <3>1, <3>2, <2>h, <2>i, CountMoves
  <2>6. \A d \in Conn : RpcOK(rpc'[d])
    BY <1>s DEF ProtoInv
  <2> QED
    BY <2>1, <2>3, <2>4, <2>5, <2>6, <1>s DEF ProtoInv
<1> QED
  BY <1>1, <1>2

\* One round of the loop of handle.
LEMMA MsgKeeps ==
  ASSUME ProtoInv, NEW c \in Conn, handleMsg(c)
  PROVE  ProtoInv'
<1>s. UNCHANGED <<connId, peersClosed, stopAt>> /\ handler[c] = "serve" /\ handler[c] \in Served
  BY DEF handleMsg, SharedUnchanged, Served
<1>p. /\ "task" \in Places /\ "task" \in Served /\ "task" \in Counted
      /\ "serve" \in Places /\ "serve" \in Served /\ "serve" \in Counted
  BY DEF Places, Served, Counted
<1>1. CASE LeaveHandle(c) /\ UNCHANGED rpc
  BY <1>1, <1>s, LeaveKeeps
<1> DEFINE m == Head(inWire[c])
<1>2. CASE NewRootTip(c, m.tip) /\ UNCHANGED rpc
  <2>1. CASE LeaveHandle(c)
    BY <2>1, <1>1, <1>2
  <2>2. CASE ~LeaveHandle(c)
    <3>1. (GoTo(c, "task") \/ GoTo(c, "serve")) /\ UNCHANGED <<peers, bcast, waitGroup>>
      BY <2>2, <1>2 DEF NewRootTip
    <3> QED
      BY <3>1, <1>2, <1>s, <1>p, MoveKeeps
  <2> QED
    BY <2>1, <2>2
<1>3. CASE Deliver(c, m.id) /\ UNCHANGED <<handler, peers, bcast, waitGroup>>
  <2> DEFINE got == IF rpc[c].open /\ m.id = rpc[c].last THEN m.id ELSE rpc[c].chan
             r == [last |-> rpc[c].last, open |-> rpc[c].open, chan |-> got, asked |-> rpc[c].asked,
                   got |-> rpc[c].got]
  <2>1. rpc \in [Conn -> Rpc] /\ rpc[c] \in Rpc /\ RpcOK(rpc[c])
    BY DEF ProtoInv, ProtoTypes
  <2>2. got \in Nat /\ (got # 0 => got = rpc[c].last)
    BY <2>1 DEF Rpc, RpcOK
  <2>3. [rpc[c] EXCEPT !.chan = got] = r
    BY <2>1 DEF Rpc
  <2>4. rpc' = [rpc EXCEPT ![c] = [rpc[c] EXCEPT !.chan = got]]
    BY <1>3, <2>1 DEF Deliver
  <2>5. r \in Rpc /\ RpcOK(r)
    BY <2>1, <2>2 DEF Rpc, RpcOK
  <2>6. rpc' = [rpc EXCEPT ![c] = r]
    BY <2>3, <2>4
  <2> HIDE DEF r
  <2> QED
    BY <2>5, <2>6, <1>3, <1>s, RpcKeeps
<1>4. CASE UNCHANGED <<handler, peers, bcast, waitGroup, rpc>>
  BY <1>4, <1>s, NothingKeeps
<1>5. \/ LeaveHandle(c) /\ UNCHANGED rpc
      \/ NewRootTip(c, m.tip) /\ UNCHANGED rpc
      \/ Deliver(c, m.id) /\ UNCHANGED <<handler, peers, bcast, waitGroup>>
      \/ UNCHANGED <<handler, peers, bcast, waitGroup, rpc>>
  BY Zenon DEF handleMsg
<1> QED
  BY <1>1, <1>2, <1>3, <1>4, <1>5, Zenon

LEMMA HandlerKeeps ==
  ASSUME ProtoInv, NEW c \in Conn, HandlerStep(c)
  PROVE  ProtoInv'
<1>p. /\ Places = {"offered", "accepted", "done", "shake", "register", "task", "serve"}
      /\ Counted = {"shake", "register", "task", "serve"} /\ Served = {"task", "serve"}
  BY DEF Places, Counted, Served
<1>1. CASE ProtocolRun(c)
  <2>1. UNCHANGED <<connId, peers, bcast, peersClosed, stopAt, rpc, waitGroup>> /\ handler[c] = "offered"
    BY <1>1 DEF ProtocolRun, SharedUnchanged
  <2>2. GoTo(c, "accepted") \/ GoTo(c, "done")
    BY <1>1 DEF ProtocolRun
  <2> QED
    BY <2>1, <2>2, <1>p, MoveKeeps
<1>2. CASE EnterHandle(c)
  <2>1. UNCHANGED <<connId, peers, bcast, peersClosed, stopAt, rpc>> /\ handler[c] = "accepted"
    BY <1>2 DEF EnterHandle, SharedUnchanged
  <2>2. \/ GoTo(c, "done") /\ waitGroup' = waitGroup
        \/ GoTo(c, "shake") /\ waitGroup' = waitGroup + 1
    BY <1>2 DEF EnterHandle
  <2> QED
    BY <2>1, <2>2, <1>p, MoveKeeps
<1>3. CASE Handshake(c)
  <2>1. UNCHANGED <<connId, peers, bcast, peersClosed, stopAt, rpc>> /\ handler[c] = "shake"
    BY <1>3 DEF Handshake, SharedUnchanged
  <2>2. \/ GoTo(c, "register") /\ waitGroup' = waitGroup
        \/ GoTo(c, "done") /\ waitGroup' = waitGroup - 1
    BY <1>3 DEF Handshake
  <2> QED
    BY <2>1, <2>2, <1>p, MoveKeeps
<1>4. CASE HandlerAddTask(c)
  <2>1. /\ UNCHANGED <<connId, peers, bcast, peersClosed, stopAt, rpc, waitGroup>> /\ handler[c] = "task"
        /\ GoTo(c, "serve")
    BY <1>4 DEF HandlerAddTask, SharedUnchanged
  <2> QED
    BY <2>1, <1>p, MoveKeeps
<1> QED
  BY <1>1, <1>2, <1>3, <1>4, RegisterKeeps, MsgKeeps DEF HandlerStep

\* A request without its channel, written out.
LEMMA Closing ==
  ASSUME NEW q \in Rpc, NEW o, NEW g
  PROVE  /\ [q EXCEPT !.open = o] =
               [last |-> q.last, open |-> o, chan |-> q.chan, asked |-> q.asked, got |-> q.got]
         /\ [[q EXCEPT !.open = o] EXCEPT !.got = g] =
               [last |-> q.last, open |-> o, chan |-> q.chan, asked |-> q.asked, got |-> g]
<1> DEFINE p == [last |-> q.last, open |-> o, chan |-> q.chan, asked |-> q.asked, got |-> q.got]
<1>1. [q EXCEPT !.open = o] = p
  BY DEF Rpc
<1>2. [p EXCEPT !.got = g] =
         [last |-> q.last, open |-> o, chan |-> q.chan, asked |-> q.asked, got |-> g]
  OBVIOUS
<1> QED
  BY <1>1, <1>2

\* Requests, what the peer does, and the tips.
LEMMA PeerKeeps ==
  ASSUME ProtoInv, NEW c \in Conn,
         \/ SendRequest(c) \/ TakeAnswer(c) \/ PeerAnswers(c) \/ PeerSends(c) \/ PeerHangsUp(c)
         \/ BroadcastLoop(c)
  PROVE  ProtoInv'
<1>r. rpc \in [Conn -> Rpc] /\ rpc[c] \in Rpc /\ RpcOK(rpc[c])
  BY DEF ProtoInv, ProtoTypes
<1>1. CASE SendRequest(c)
  <2> DEFINE r == [last |-> rpc[c].last + 1, open |-> TRUE, chan |-> 0,
                   asked |-> rpc[c].asked \cup {rpc[c].last + 1}, got |-> 0]
  <2>1. r \in Rpc /\ RpcOK(r)
    BY <1>r DEF Rpc, RpcOK
  <2>2. rpc' = [rpc EXCEPT ![c] = r] /\ UNCHANGED <<handler, connId, peers, bcast, peersClosed, stopAt, waitGroup>>
    BY <1>1 DEF SendRequest, OnlyRpc
  <2> HIDE DEF r
  <2> QED
    BY <2>1, <2>2, RpcKeeps
<1>2. CASE TakeAnswer(c)
  <2> DEFINE r(g) == [last |-> rpc[c].last, open |-> FALSE, chan |-> rpc[c].chan, asked |-> rpc[c].asked,
                      got |-> g]
  <2>1. ASSUME NEW g \in {rpc[c].got, rpc[c].chan} PROVE r(g) \in Rpc /\ RpcOK(r(g))
    BY <1>r DEF Rpc, RpcOK
  <2>2. /\ [[rpc[c] EXCEPT !.open = FALSE] EXCEPT !.got = rpc[c].chan] = r(rpc[c].chan)
        /\ [rpc[c] EXCEPT !.open = FALSE] = r(rpc[c].got)
    BY <1>r, Closing
  <2>3. \/ rpc' = [rpc EXCEPT ![c].open = FALSE, ![c].got = rpc[c].chan]
        \/ rpc' = [rpc EXCEPT ![c].open = FALSE]
    BY <1>2 DEF TakeAnswer
  <2>4. /\ [rpc EXCEPT ![c].open = FALSE, ![c].got = rpc[c].chan] =
              [rpc EXCEPT ![c] = [[rpc[c] EXCEPT !.open = FALSE] EXCEPT !.got = rpc[c].chan]]
        /\ [rpc EXCEPT ![c].open = FALSE] = [rpc EXCEPT ![c] = [rpc[c] EXCEPT !.open = FALSE]]
    BY <1>r
  <2>5. rpc' = [rpc EXCEPT ![c] = r(rpc[c].chan)] \/ rpc' = [rpc EXCEPT ![c] = r(rpc[c].got)]
    BY <2>2, <2>3, <2>4
  <2>6. UNCHANGED <<handler, connId, peers, bcast, peersClosed, stopAt, waitGroup>>
    BY <1>2 DEF TakeAnswer, OnlyRpc
  <2> HIDE DEF r
  <2> QED
    BY <2>1, <2>5, <2>6, RpcKeeps
<1>3. CASE PeerAnswers(c)
  <2>1. PICK id \in rpc[c].asked : rpc' = [rpc EXCEPT ![c].asked = @ \ {id}]
    BY <1>3 DEF PeerAnswers
  <2> DEFINE r == [last |-> rpc[c].last, open |-> rpc[c].open, chan |-> rpc[c].chan,
                   asked |-> rpc[c].asked \ {id}, got |-> rpc[c].got]
  <2>2. [rpc[c] EXCEPT !.asked = rpc[c].asked \ {id}] = r
    BY <1>r DEF Rpc
  <2>3. rpc' = [rpc EXCEPT ![c] = [rpc[c] EXCEPT !.asked = rpc[c].asked \ {id}]]
    BY <1>r, <2>1
  <2>4. r \in Rpc /\ RpcOK(r)
    BY <1>r DEF Rpc, RpcOK
  <2>5. rpc' = [rpc EXCEPT ![c] = r]
    BY <2>2, <2>3
  <2>6. UNCHANGED <<handler, connId, peers, bcast, peersClosed, stopAt, waitGroup>>
    BY <1>3 DEF PeerAnswers, OnlyRpc
  <2> HIDE DEF r
  <2> QED
    BY <2>4, <2>5, <2>6, RpcKeeps
<1>4. CASE PeerSends(c) \/ PeerHangsUp(c)
  BY <1>4, NothingKeeps DEF PeerSends, PeerHangsUp, SharedUnchanged
<1>5. CASE BroadcastLoop(c)
  <2>1. /\ bcast' = [bcast EXCEPT ![c] = ~cut[c]] /\ bcast[c]
        /\ UNCHANGED <<handler, connId, peers, peersClosed, stopAt, waitGroup, rpc>>
    BY <1>5 DEF BroadcastLoop, OnlyTips
  <2>2. bcast \in [Conn -> BOOLEAN]
    BY DEF ProtoInv, ProtoTypes
  <2>3. bcast' \in [Conn -> BOOLEAN] /\ \A d \in Conn : bcast'[d] => bcast[d]
    BY <2>1, <2>2
  <2>4. PlacesOK(handler', connId', peers', bcast')
    BY <2>1, <2>3 DEF ProtoInv, PlacesOK
  <2> QED
    BY <2>1, <2>3, <2>4 DEF ProtoInv, ProtoTypes
<1> QED
  BY <1>1, <1>2, <1>3, <1>4, <1>5

LEMMA StopKeeps ==
  ASSUME ProtoInv, StopSynchronizer \/ StopStep
  PROVE  ProtoInv'
<1>1. UNCHANGED <<handler, connId, peers, bcast, waitGroup, rpc>>
  BY DEF StopSynchronizer, StopStep, StopSyncer, StopPeers, StopWaits, OnlyStop
<1>2. StopOK(handler', peersClosed', stopAt')
  <2>1. CASE StopSynchronizer \/ StopSyncer
    BY <2>1, <1>1 DEF StopSynchronizer, StopSyncer, ProtoInv, StopOK
  <2>2. CASE StopPeers
    BY <2>2, <1>1 DEF StopPeers, StopOK
  <2>3. CASE StopWaits
    <3>1. Counts(handler) \in SUBSET Conn
      BY DEF Counts
    <3>2. IsFiniteSet(Counts(handler)) /\ Cardinality(Counts(handler)) = 0
      BY <2>3, <3>1, ProtoAssumption, FS_Subset DEF StopWaits, ProtoInv
    <3>3. Counts(handler) = {}
      BY <3>2, FS_EmptySet
    <3>4. \A c \in Conn : handler[c] \notin Served
      BY <3>3 DEF Counts, Counted
    <3>5. peersClosed' = peersClosed /\ stopAt = "wait" /\ stopAt' = "stopped"
      BY <2>3 DEF StopWaits
    <3> QED
      BY <1>1, <3>4, <3>5 DEF ProtoInv, StopOK
  <2> QED
    BY <2>1, <2>2, <2>3 DEF StopStep
<1> QED
  BY <1>1, <1>2 DEF ProtoInv, ProtoTypes

LEMMA ProtoStep == ProtoInv /\ [ProtoNext]_protoVars => ProtoInv'
<1> SUFFICES ASSUME ProtoInv, [ProtoNext]_protoVars PROVE ProtoInv'
  OBVIOUS
<1>1. CASE UNCHANGED protoVars
  BY <1>1, NothingKeeps DEF protoVars
<1>2. CASE BroadcastTip
  BY <1>2, NothingKeeps DEF BroadcastTip, OnlyTips
<1> QED
  BY <1>1, <1>2, HandlerKeeps, PeerKeeps, StopKeeps DEF ProtoNext

\* For any number of connections and any peers at their ends, also several connections of
\* one peer: the peer set holds exactly the connections that are served, no request takes
\* the answer to another, and nobody is served after Stop has returned (handle.go, peer.go).
THEOREM ProtocolAlways == ProtoSpec => []ProtocolSound
<1>1. ProtoInv => ProtocolSound
  <2> SUFFICES ASSUME ProtoInv PROVE ProtocolSound
    OBVIOUS
  <2>1. EntryHasHandler
    BY DEF ProtoInv, PlacesOK, Served, EntryHasHandler
  <2>2. AnswerIsForRequest
    BY DEF ProtoInv, RpcOK, AnswerIsForRequest
  <2>3. StoppedServesNobody
    BY DEF ProtoInv, PlacesOK, StopOK, Served, StoppedServesNobody
  <2> QED
    BY <2>1, <2>2, <2>3 DEF ProtocolSound
<1> QED
  BY <1>1, ProtoStart, ProtoStep, PTL DEF ProtoSpec

-----------------------------------------------------------------------------
(* The transport of the discovery protocol (Discovery).                    *)

\* A reply that completes a request was waited for.
LEMMA CompletedMatches ==
  ASSUME NEW n, NEW ptype, NEW tok, NEW by \in Dispatched(n, ptype, tok).by
  PROVE  Dispatched(n, ptype, tok).matched
<1>1. PICK i \in Completed(n, ptype, tok) : TRUE
  BY DEF Dispatched
<1> QED
  BY <1>1 DEF Dispatched, Completed

\* A node whose pong is recent has sent one that was waited for, and so has a node that was
\* added: the callback of the reader's ping runs only for such a pong.
Answered == bonded \subseteq ponged /\ inTable \subseteq ponged

LEMMA AnsweredStep ==
  ASSUME Answered, [UdpNext]_udpVars
  PROVE  Answered'
<1> USE DEF Answered
<1>1. ASSUME NEW c \in Caller, StartCall(c) \/ GoOn(c)
      PROVE  Answered'
  BY <1>1 DEF StartCall, GoOn
<1>2. ASSUME NEW n \in Remote, HandlePing(n)
      PROVE  Answered'
  <2>1. inTable' = inTable
    BY <1>2 DEF HandlePing, GotReply
  <2> QED
    BY <1>2, <2>1 DEF HandlePing
<1>3. ASSUME NEW n \in Remote, HandleNeighbors(n)
      PROVE  Answered'
  <2>1. inTable' = inTable
    BY <1>3 DEF HandleNeighbors, GotReply
  <2> QED
    BY <1>3, <2>1 DEF HandleNeighbors
<1>4. ASSUME NEW n \in Remote, HandlePong(n)
      PROVE  Answered'
  <2>1. CASE UNCHANGED <<plist, caller, inTable, bonded, ponged>>
    BY <2>1
  <2>2. ASSUME NEW tok, GotReply(n, "pong", tok),
               IF Dispatched(n, "pong", tok).matched
               THEN bonded' = bonded \cup {n} /\ ponged' = ponged \cup {n}
               ELSE UNCHANGED <<bonded, ponged>>
        PROVE  Answered'
    <3>1. inTable' \subseteq inTable \cup {n}
      BY <2>2 DEF GotReply
    <3>2. CASE Dispatched(n, "pong", tok).matched
      BY <2>2, <3>1, <3>2
    <3>3. CASE ~Dispatched(n, "pong", tok).matched
      <4>1. "reader" \notin Dispatched(n, "pong", tok).by
        BY <3>3, CompletedMatches
      <4>2. inTable' = inTable
        BY <2>2, <4>1 DEF GotReply
      <4> QED
        BY <2>2, <3>3, <4>2
    <3> QED
      BY <3>2, <3>3
  <2> QED
    BY <1>4, <2>1, <2>2 DEF HandlePong
<1>5. ASSUME NEW n \in Remote, BondExpires(n)
      PROVE  Answered'
  BY <1>5 DEF BondExpires
<1>6. CASE AfterPing
  BY <1>6 DEF AfterPing
<1>7. CASE Timeout \/ LoopCloses \/ Close \/ ReaderEnds
  BY <1>7 DEF Timeout, LoopCloses, Close, ReaderEnds
<1>8. CASE UNCHANGED udpVars
  BY <1>8 DEF udpVars
<1> QED
  BY <1>1, <1>2, <1>3, <1>4, <1>5, <1>6, <1>7, <1>8 DEF UdpNext

\* For any nodes, callers and packets: a node gets into the table because of its pings only
\* after it has answered one (udp.go handle of ping and pong, handleReply).
THEOREM AddedAlways == UdpSpec => []AddedAnswered
<1>1. UdpInit(Remote) => Answered
  BY DEF UdpInit, Answered
<1>2. Answered => AddedAnswered
  BY DEF Answered, AddedAnswered
<1> QED
  BY <1>1, <1>2, AnsweredStep, PTL DEF UdpSpec

=============================================================================
