---------------------------- MODULE XShardProofs ----------------------------
(***************************************************************************)
(* Cross-shard deposits are credited exactly once and in order, for every  *)
(* tree of root blocks and every content of them.                          *)
(*                                                                         *)
(* The inductive invariant Inv says that root blocks are stored with their *)
(* ancestors and lists, and that what a path and the execution on top of   *)
(* it have credited is the part of the inbox up to the cursor.             *)
(***************************************************************************)
EXTENDS XShardCursor, SequenceTheorems, WellFoundedInduction, TLAPS

\* A leaf is tried with Zenon, then with the SMT solver; the limits are in seconds.
USE ZenonT(8), SMTT(30)

\* The deposits of the inbox of r up to a cursor.
UptoCursor(r, c) == {p \in Inbox[r] : Upto(p, c)}

\* A cursor is at a deposit, or before the coinbase of a root block: where genesis
\* puts it, and where it resumes when the chain of its block ended below.
CursorOK(r, c) ==
    c \in Inbox[r] \cup {<<k, 0, 0>> : k \in GenesisHeight .. RNumber[r] + 1}

\* The cursors of finished blocks.
EndOrDeposit(r, c) == c = <<RNumber[r] + 1, 0, 0>> \/ c \in Inbox[r]

\* Root blocks are stored with their ancestors down to the genesis root block.
KnownOK ==
    /\ GenesisRoot \in known
    /\ \A r \in known : RNumber[r] >= GenesisHeight
                        /\ \A k \in GenesisHeight .. RNumber[r] : RAnc[r][k] \in known

\* Only lists for the shard are stored, and those of stored root blocks are.
ListsOK ==
    /\ \A h \in lists : Sent(h)
    /\ \A r \in known : \A i \in 1 .. Len(HeadersOf[r]) :
          Sent(HeadersOf[r][i]) => HeadersOf[r][i] \in lists

PathOK ==
    \A i \in 1 .. Len(path) :
        /\ path[i].root \in known
        /\ CursorOK(path[i].root, path[i].cursor)
        /\ i >= 2 => EndOrDeposit(path[i].root, path[i].cursor)
        /\ path[i].done = UptoCursor(path[i].root, path[i].cursor)

\* The execution in progress: where its cursor is and what it has credited.
RunOK ==
    run # Idle =>
        /\ run.max \in known
        /\ IsSameChain(RNumber, RAnc, run.max, path[run.on].root)
        /\ run.on < MaxBlocks
        /\ run.rb # None => /\ RNumber[run.rb] \in GenesisHeight .. RNumber[run.max]
                            /\ run.rb = RAnc[run.max][RNumber[run.rb]]
        /\ run.rb = None => run.m = 0 /\ run.d = 0
        /\ CursorOK(run.max, CursorInfo(run))
        /\ path[run.on].done \cup run.got = UptoCursor(run.max, CursorInfo(run))
        /\ run.st = "done" => EndOrDeposit(run.max, CursorInfo(run))
        /\ run.got \cap path[run.on].done = {}

\* The last deposit credited, which tells the abstract inbox how far a block went.
Progress ==
    run # Idle =>
        /\ run.st = "run" /\ run.got # {} => run.rb # None /\ CursorInfo(run) \in run.got
        /\ run.st = "done" =>
              \/ run.got = {} /\ path[run.on].done = Inbox[run.max]
              \/ \E q \in run.got : path[run.on].done \cup run.got = UptoCursor(run.max, q)

Inv == TypeOK /\ KnownOK /\ ListsOK /\ PathOK /\ RunOK /\ Progress


-----------------------------------------------------------------------------
\* The path of a root block (ParentHash followed down to height 0).
LEMMA RootPath ==
    ASSUME NEW r \in RBlock
    PROVE  /\ RNumber[r] \in Nat
           /\ RAnc[r][RNumber[r]] = r
           /\ \A h \in 0 .. RNumber[r] :
                 /\ RAnc[r][h] \in RBlock
                 /\ RNumber[RAnc[r][h]] = h
                 /\ \A k \in 0 .. h : RAnc[RAnc[r][h]][k] = RAnc[r][k]
<1>1. RNumber[r] \in Nat
  BY TreeAssumption DEF IsBlockTree
<1>2. /\ RAnc[r] \in [0 .. RNumber[r] -> RBlock]
      /\ RAnc[r][RNumber[r]] = r
      /\ \A h \in 0 .. RNumber[r] :
            /\ RNumber[RAnc[r][h]] = h
            /\ \A k \in 0 .. h : RAnc[RAnc[r][h]][k] = RAnc[r][k]
  BY TreeAssumption, Zenon DEF IsBlockTree
<1>3. \A h \in 0 .. RNumber[r] : RAnc[r][h] \in RBlock
  BY <1>2
<1> QED BY <1>1, <1>2, <1>3, Zenon

\* Heights are natural numbers.
LEMMA RootNat ==
    ASSUME NEW r \in RBlock
    PROVE  RNumber[r] \in Nat
BY RootPath

\* The genesis height is a natural number.
LEMMA GenesisNat == GenesisHeight \in Nat
BY RootNat, TreeAssumption DEF GenesisHeight

\* The header list of a root block.
LEMMA HeaderAt ==
    ASSUME NEW r \in RBlock
    PROVE  /\ Len(HeadersOf[r]) \in Nat
           /\ \A i \in 1 .. Len(HeadersOf[r]) :
                 /\ HeadersOf[r][i] \in Header
                 /\ NTx[HeadersOf[r][i]] \in Nat
                 /\ PrevRootOf[HeadersOf[r][i]] \in RBlock
<1>1. HeadersOf[r] \in Seq(Header)
  BY ContentAssumption
<1>2. Len(HeadersOf[r]) \in Nat
  BY <1>1
<1>3. \A i \in 1 .. Len(HeadersOf[r]) : HeadersOf[r][i] \in Header
  BY <1>1
<1> QED BY <1>2, <1>3, ContentAssumption

\* Deposit d of header i of the root block at height h on the chain of r.
IsDeposit(r, h, i, d) ==
    /\ h \in GenesisHeight .. RNumber[r]
    /\ \/ i = 0 /\ d = 1
       \/ /\ i \in 1 .. Len(HeadersOf[RAnc[r][h]])
          /\ Sent(HeadersOf[RAnc[r][h]][i])
          /\ d \in 0 .. NTx[HeadersOf[RAnc[r][h]][i]] - 1

\* Membership in the deposits of one root block.
LEMMA DepositsAtMember ==
    ASSUME NEW h, NEW r
    PROVE  \A p : p \in DepositsAt(h, r) <=>
              \E i \in 1 .. Len(HeadersOf[r]) :
                 /\ Sent(HeadersOf[r][i])
                 /\ \E d \in 0 .. NTx[HeadersOf[r][i]] - 1 : p = <<h, i, d>>
BY DEF DepositsAt

\* The inbox is the set of its deposits.
LEMMA InboxMember ==
    ASSUME NEW r \in RBlock
    PROVE  \A p : p \in Inbox[r] <=>
              \E h, i, d \in Nat : p = <<h, i, d>> /\ IsDeposit(r, h, i, d)
<1> DEFINE Hs == GenesisHeight .. RNumber[r]
<1>1. ASSUME NEW p
      PROVE  p \in Inbox[r] <=>
               \/ \E h \in Hs : p = <<h, 0, 1>>
               \/ \E h \in Hs : p \in DepositsAt(h, RAnc[r][h])
  BY DEF Inbox
<1>2. \A h \in Hs : h \in Nat /\ RAnc[r][h] \in RBlock
  BY RootPath, GenesisNat
<1>3. ASSUME NEW p, p \in Inbox[r]
      PROVE  \E h, i, d \in Nat : p = <<h, i, d>> /\ IsDeposit(r, h, i, d)
  <2>1. CASE \E h \in Hs : p = <<h, 0, 1>>
    <3>1. PICK h \in Hs : p = <<h, 0, 1>>
      BY <2>1
    <3> QED BY <3>1, <1>2 DEF IsDeposit
  <2>2. CASE \E h \in Hs : p \in DepositsAt(h, RAnc[r][h])
    <3>1. PICK h \in Hs : p \in DepositsAt(h, RAnc[r][h])
      BY <2>2
    <3>2. PICK i \in 1 .. Len(HeadersOf[RAnc[r][h]]) :
             /\ Sent(HeadersOf[RAnc[r][h]][i])
             /\ \E d \in 0 .. NTx[HeadersOf[RAnc[r][h]][i]] - 1 : p = <<h, i, d>>
      BY <3>1, DepositsAtMember
    <3>3. PICK d \in 0 .. NTx[HeadersOf[RAnc[r][h]][i]] - 1 : p = <<h, i, d>>
      BY <3>2
    <3>4. h \in Nat /\ i \in Nat /\ d \in Nat
      BY <1>2, HeaderAt
    <3>5. IsDeposit(r, h, i, d)
      BY <3>2, <3>3 DEF IsDeposit
    <3> QED BY <3>3, <3>4, <3>5
  <2> QED BY <1>1, <1>3, <2>1, <2>2
<1>4. ASSUME NEW h \in Nat, NEW i \in Nat, NEW d \in Nat, IsDeposit(r, h, i, d)
      PROVE  <<h, i, d>> \in Inbox[r]
  <2>1. h \in Hs
    BY <1>4 DEF IsDeposit
  <2>2. CASE i = 0 /\ d = 1
    BY <1>1, <2>1, <2>2
  <2>3. CASE i \in 1 .. Len(HeadersOf[RAnc[r][h]])
             /\ Sent(HeadersOf[RAnc[r][h]][i])
             /\ d \in 0 .. NTx[HeadersOf[RAnc[r][h]][i]] - 1
    <3>1. <<h, i, d>> \in DepositsAt(h, RAnc[r][h])
      BY <2>3, DepositsAtMember
    <3> QED BY <1>1, <2>1, <3>1
  <2> QED BY <1>4, <2>2, <2>3 DEF IsDeposit
<1> QED BY <1>3, <1>4

-----------------------------------------------------------------------------
\* c2 is the deposit that comes right after the cursor c.
NextDeposit(r, c, c2) ==
    /\ c2 \in Inbox[r] /\ c2 \notin UptoCursor(r, c)
    /\ UptoCursor(r, c2) = UptoCursor(r, c) \cup {c2}

\* The order of positions, by components.
LEMMA UptoTriple ==
    ASSUME NEW a, NEW b, NEW c, NEW x, NEW y, NEW z
    PROVE  Upto(<<a, b, c>>, <<x, y, z>>) <=>
              \/ a < x
              \/ a = x /\ b < y
              \/ a = x /\ b = y /\ c <= z
BY DEF Upto

\* c2 comes right after c when no deposit of the chain lies in between.
LEMMA RightAfter ==
    ASSUME NEW r \in RBlock,
           NEW h \in Nat, NEW i \in Nat, NEW d \in Nat,
           NEW h2 \in Nat, NEW i2 \in Nat, NEW d2 \in Nat,
           IsDeposit(r, h2, i2, d2),
           ~ Upto(<<h2, i2, d2>>, <<h, i, d>>),
           \A a, b, e \in Nat : IsDeposit(r, a, b, e) =>
              (Upto(<<a, b, e>>, <<h2, i2, d2>>)
                 <=> Upto(<<a, b, e>>, <<h, i, d>>) \/ (a = h2 /\ b = i2 /\ e = d2))
    PROVE  NextDeposit(r, <<h, i, d>>, <<h2, i2, d2>>)
<1> DEFINE c == <<h, i, d>>
           c2 == <<h2, i2, d2>>
<1>1. c2 \in Inbox[r]
  BY InboxMember
<1>2. \A p \in Inbox[r] : Upto(p, c2) <=> Upto(p, c) \/ p = c2
  <2> SUFFICES ASSUME NEW p \in Inbox[r]
               PROVE  Upto(p, c2) <=> Upto(p, c) \/ p = c2
    OBVIOUS
  <2>1. PICK a, b, e \in Nat : p = <<a, b, e>> /\ IsDeposit(r, a, b, e)
    BY InboxMember
  <2> QED BY <2>1
<1>3. ~ Upto(c2, c)
  OBVIOUS
<1> HIDE DEF c, c2
<1>4. NextDeposit(r, c, c2)
  BY <1>1, <1>2, <1>3 DEF NextDeposit, UptoCursor
<1> QED BY <1>4 DEF c, c2

\* The next entry of a list, or the coinbase at the start of a root block.
LEMMA AfterInList ==
    ASSUME NEW r \in RBlock, NEW h \in GenesisHeight .. RNumber[r], NEW i \in Nat, NEW d \in Nat,
           \/ i = 0 /\ d = 0
           \/ i # 0 /\ IsDeposit(r, h, i, d) /\ d + 1 < NTx[HeadersOf[RAnc[r][h]][i]]
    PROVE  NextDeposit(r, <<h, i, d>>, <<h, i, d + 1>>)
<1>1. h \in Nat /\ RAnc[r][h] \in RBlock
  BY RootPath, GenesisNat
<1>2. IsDeposit(r, h, i, d + 1)
  BY <1>1, HeaderAt DEF IsDeposit
<1>3. ~ Upto(<<h, i, d + 1>>, <<h, i, d>>)
  BY <1>1 DEF Upto
<1>4. ASSUME NEW a \in Nat, NEW b \in Nat, NEW e \in Nat, IsDeposit(r, a, b, e)
      PROVE  Upto(<<a, b, e>>, <<h, i, d + 1>>)
               <=> Upto(<<a, b, e>>, <<h, i, d>>) \/ (a = h /\ b = i /\ e = d + 1)
  BY <1>1, UptoTriple
<1>5. d + 1 \in Nat
  OBVIOUS
<1>6. ASSUME NEW d2 \in Nat, d2 = d + 1
      PROVE  NextDeposit(r, <<h, i, d>>, <<h, i, d2>>)
  <2>1. IsDeposit(r, h, i, d2) /\ ~ Upto(<<h, i, d2>>, <<h, i, d>>)
    BY <1>2, <1>3, <1>6
  <2>2. \A a, b, e \in Nat : IsDeposit(r, a, b, e) =>
           (Upto(<<a, b, e>>, <<h, i, d2>>)
              <=> Upto(<<a, b, e>>, <<h, i, d>>) \/ (a = h /\ b = i /\ e = d2))
    BY <1>4, <1>6
  <2> QED BY <1>1, <2>1, <2>2, RightAfter, Zenon
<1> QED BY <1>5, <1>6

\* No deposit of the root block at height h lies above index d of header i.
ListDone(r, h, i, d) ==
    IF i = 0 THEN d >= 1 ELSE d + 1 >= NTx[HeadersOf[RAnc[r][h]][i]]

\* Headers of that block above i and below j hold no deposits.
NothingBetween(r, h, i, j) ==
    \A k \in i + 1 .. j - 1 :
        ~ Sent(HeadersOf[RAnc[r][h]][k]) \/ NTx[HeadersOf[RAnc[r][h]][k]] = 0

\* Deposits of that block above (i, d) are those of header j or later.
LEMMA AboveInBlock ==
    ASSUME NEW r \in RBlock, NEW h \in GenesisHeight .. RNumber[r], NEW i \in Nat, NEW d \in Nat,
           NEW j \in Nat, i < j,
           ListDone(r, h, i, d), NothingBetween(r, h, i, j),
           NEW b \in Nat, NEW e \in Nat, IsDeposit(r, h, b, e)
    PROVE  \/ Upto(<<h, b, e>>, <<h, i, d>>)
           \/ b >= j
<1>1. h \in Nat /\ RAnc[r][h] \in RBlock
  BY RootPath, GenesisNat
<1>2. CASE b < i
  BY <1>1, <1>2, UptoTriple
<1>3. CASE b = i
  <2>1. e <= d
    <3>1. CASE i = 0
      BY <1>3, <3>1 DEF IsDeposit, ListDone
    <3>2. CASE i # 0
      <4>1. i \in 1 .. Len(HeadersOf[RAnc[r][h]]) /\ e \in 0 .. NTx[HeadersOf[RAnc[r][h]][i]] - 1
        BY <1>3, <3>2 DEF IsDeposit
      <4>2. NTx[HeadersOf[RAnc[r][h]][i]] \in Nat /\ d + 1 >= NTx[HeadersOf[RAnc[r][h]][i]]
        BY <1>1, <3>2, <4>1, HeaderAt DEF ListDone
      <4> QED BY <4>1, <4>2
    <3> QED BY <3>1, <3>2
  <2> QED BY <1>1, <1>3, <2>1, UptoTriple
<1>4. CASE b > i /\ b < j
  <2>1. Sent(HeadersOf[RAnc[r][h]][b]) /\ e \in 0 .. NTx[HeadersOf[RAnc[r][h]][b]] - 1
    BY <1>4 DEF IsDeposit
  <2>2. NTx[HeadersOf[RAnc[r][h]][b]] = 0
    BY <1>4, <2>1 DEF NothingBetween
  <2> QED BY <2>1, <2>2
<1> QED BY <1>2, <1>3, <1>4

\* The first deposit of the next header that has one.
LEMMA AfterHeader ==
    ASSUME NEW r \in RBlock, NEW h \in GenesisHeight .. RNumber[r], NEW i \in Nat, NEW d \in Nat,
           NEW j \in Nat, i < j,
           ListDone(r, h, i, d), NothingBetween(r, h, i, j), IsDeposit(r, h, j, 0)
    PROVE  NextDeposit(r, <<h, i, d>>, <<h, j, 0>>)
<1>1. h \in Nat
  BY GenesisNat
<1>2. ~ Upto(<<h, j, 0>>, <<h, i, d>>)
  BY <1>1, UptoTriple
<1>3. ASSUME NEW a \in Nat, NEW b \in Nat, NEW e \in Nat, IsDeposit(r, a, b, e)
      PROVE  Upto(<<a, b, e>>, <<h, j, 0>>)
               <=> Upto(<<a, b, e>>, <<h, i, d>>) \/ (a = h /\ b = j /\ e = 0)
  <2>1. CASE a # h
    BY <1>1, <2>1, UptoTriple
  <2>2. CASE a = h
    <3>1. Upto(<<h, b, e>>, <<h, i, d>>) \/ b >= j
      BY <1>3, <2>2, AboveInBlock
    <3> QED BY <1>1, <2>2, <3>1, UptoTriple
  <2> QED BY <2>1, <2>2
<1> QED BY <1>1, <1>2, <1>3, RightAfter

\* The coinbase of the next root block.
LEMMA AfterRootBlock ==
    ASSUME NEW r \in RBlock, NEW h \in GenesisHeight .. RNumber[r], NEW i \in Nat, NEW d \in Nat,
           ListDone(r, h, i, d), i <= Len(HeadersOf[RAnc[r][h]]),
           NothingBetween(r, h, i, Len(HeadersOf[RAnc[r][h]]) + 1), h < RNumber[r]
    PROVE  NextDeposit(r, <<h, i, d>>, <<h + 1, 0, 1>>)
<1>1. h \in Nat /\ RNumber[r] \in Nat /\ Len(HeadersOf[RAnc[r][h]]) \in Nat
  BY GenesisNat, RootPath, HeaderAt
<1>2. ~ Upto(<<h + 1, 0, 1>>, <<h, i, d>>)
  BY <1>1, UptoTriple
<1>3. IsDeposit(r, h + 1, 0, 1)
  BY <1>1, GenesisNat DEF IsDeposit
<1>4. ASSUME NEW a \in Nat, NEW b \in Nat, NEW e \in Nat, IsDeposit(r, a, b, e)
      PROVE  Upto(<<a, b, e>>, <<h + 1, 0, 1>>)
               <=> Upto(<<a, b, e>>, <<h, i, d>>) \/ (a = h + 1 /\ b = 0 /\ e = 1)
  <2>1. CASE a < h
    BY <1>1, <2>1, UptoTriple
  <2>2. CASE a = h
    <3> DEFINE j == Len(HeadersOf[RAnc[r][h]]) + 1
    <3>0. j \in Nat /\ i < j /\ NothingBetween(r, h, i, j) /\ IsDeposit(r, h, b, e)
      BY <1>1, <1>4, <2>2
    <3> HIDE DEF j
    <3>a. Upto(<<h, b, e>>, <<h, i, d>>) \/ b >= j
      BY <3>0, AboveInBlock
    <3>1. Upto(<<h, b, e>>, <<h, i, d>>) \/ b >= Len(HeadersOf[RAnc[r][h]]) + 1
      BY <3>a DEF j
    <3>2. b <= Len(HeadersOf[RAnc[r][h]])
      BY <1>1, <1>4, <2>2 DEF IsDeposit
    <3> QED BY <1>1, <2>2, <3>1, <3>2, UptoTriple
  <2>3. CASE a > h
    <3>1. b = 0 => e = 1
      BY <1>4 DEF IsDeposit
    <3> QED BY <1>1, <2>3, <3>1, UptoTriple
  <2> QED BY <1>1, <2>1, <2>2, <2>3
<1>5. h + 1 \in Nat /\ 0 \in Nat /\ 1 \in Nat
  BY <1>1
<1> QED BY <1>1, <1>2, <1>3, <1>4, <1>5, RightAfter, Zenon

\* Past the last deposit there is nothing.
LEMMA AfterLast ==
    ASSUME NEW r \in RBlock, NEW i \in Nat, NEW d \in Nat, RNumber[r] >= GenesisHeight,
           ListDone(r, RNumber[r], i, d), i <= Len(HeadersOf[r]),
           NothingBetween(r, RNumber[r], i, Len(HeadersOf[r]) + 1)
    PROVE  UptoCursor(r, <<RNumber[r], i, d>>) = Inbox[r]
<1> DEFINE h == RNumber[r]
<1>1. h \in Nat /\ RAnc[r][h] = r /\ Len(HeadersOf[r]) \in Nat /\ h \in GenesisHeight .. RNumber[r]
  BY GenesisNat, RootPath, HeaderAt
<1> HIDE DEF h
<1>2. ASSUME NEW a \in Nat, NEW b \in Nat, NEW e \in Nat, IsDeposit(r, a, b, e)
      PROVE  Upto(<<a, b, e>>, <<h, i, d>>)
  <2>1. CASE a < h
    BY <1>1, <2>1, UptoTriple
  <2>2. CASE a = h
    <3>1. Upto(<<h, b, e>>, <<h, i, d>>) \/ b >= Len(HeadersOf[r]) + 1
      BY <1>1, <1>2, <2>2, AboveInBlock DEF h
    <3>2. b <= Len(HeadersOf[r])
      BY <1>1, <1>2, <2>2 DEF IsDeposit
    <3> QED BY <1>1, <2>2, <3>1, <3>2
  <2> QED BY <1>1, <1>2, <2>1, <2>2 DEF IsDeposit, h
<1>3. \A p \in Inbox[r] : Upto(p, <<h, i, d>>)
  BY <1>2, InboxMember
<1> QED BY <1>3 DEF UptoCursor, h

-----------------------------------------------------------------------------
\* The least index at which the loop of getNextTx ends.
LEMMA MinIsLeast ==
    ASSUME NEW S, S \subseteq Nat, S # {}
    PROVE  FirstOf(S) \in S /\ \A y \in S : FirstOf(S) <= y
<1> DEFINE R == {p \in Nat \X Nat : p[1] < p[2]}
<1>1. IsWellFoundedOn(R, Nat)
  BY NatLessThanWellFounded, Zenon DEF OpToRel
<1>2. PICK x \in S : \A y \in S : ~ (<<y, x>> \in R)
  <2> HIDE DEF R
  <2> QED BY <1>1, WFMin
<1>3. \A y \in S : ~ (y < x)
  BY <1>2
<1>4. \E z \in S : \A y \in S : z <= y
  BY <1>3
<1> QED BY <1>4 DEF FirstOf

\* A header the loop passes over holds no deposit for the shard.
LEMMA SkipsEmpty ==
    ASSUME StableNeighbors, NEW r \in RBlock, NEW i \in 1 .. Len(HeadersOf[r]),
           Skips(r, HeadersOf[r][i])
    PROVE  ~ Sent(HeadersOf[r][i]) \/ NTx[HeadersOf[r][i]] = 0
<1>1. PrevRootOf[HeadersOf[r][i]] \in RBlock
  BY HeaderAt
<1>2. RNumber[PrevRootOf[HeadersOf[r][i]]] \in Nat
  BY <1>1, RootPath
<1>3. RNumber[r] \in Neighbor[HeadersOf[r][i]]
        <=> RNumber[PrevRootOf[HeadersOf[r][i]]] \in Neighbor[HeadersOf[r][i]]
  BY DEF StableNeighbors
<1> QED BY <1>2, <1>3, GenesisNat DEF Skips, Visited, Denied, Sent

\* A header the loop stops at with success holds one.
LEMMA YieldsDeposit ==
    ASSUME StableNeighbors, NEW r \in RBlock, NEW i \in 1 .. Len(HeadersOf[r]),
           Yields(r, HeadersOf[r][i])
    PROVE  Sent(HeadersOf[r][i]) /\ NTx[HeadersOf[r][i]] > 0
<1>1. PrevRootOf[HeadersOf[r][i]] \in RBlock
  BY HeaderAt
<1>2. RNumber[PrevRootOf[HeadersOf[r][i]]] \in Nat
  BY <1>1, RootPath
<1>3. RNumber[r] \in Neighbor[HeadersOf[r][i]]
        <=> RNumber[PrevRootOf[HeadersOf[r][i]]] \in Neighbor[HeadersOf[r][i]]
  BY DEF StableNeighbors
<1> QED BY <1>2, <1>3, GenesisNat DEF Yields, Visited, Denied, Sent

\* A header was mined on a root block below the one that contains it.
LEMMA PrevRootOnPath ==
    ASSUME NEW r \in RBlock, NEW i \in 1 .. Len(HeadersOf[r])
    PROVE  LET q == PrevRootOf[HeadersOf[r][i]]
           IN  RNumber[q] \in 0 .. RNumber[r] - 1 /\ RAnc[r][RNumber[q]] = q
<1> DEFINE q == PrevRootOf[HeadersOf[r][i]]
<1>1. q \in RBlock /\ RNumber[q] \in Nat /\ RNumber[r] \in Nat
  BY HeaderAt, RootPath
<1>2. RNumber[r] > 0 /\ IsSameChain(RNumber, RAnc, RParent(r), q)
  BY RootBlockAssumption
<1>3. /\ RParent(r) = RAnc[r][RNumber[r] - 1]
      /\ RNumber[r] - 1 \in 0 .. RNumber[r]
  BY <1>1, <1>2 DEF RParent, ParentOf
<1>4. /\ RNumber[RParent(r)] = RNumber[r] - 1
      /\ \A k \in 0 .. RNumber[r] - 1 : RAnc[RParent(r)][k] = RAnc[r][k]
  BY <1>3, RootPath
<1>5. RNumber[q] <= RNumber[r] - 1 /\ RAnc[RParent(r)][RNumber[q]] = q
  BY <1>2, <1>4 DEF IsSameChain
<1>6. RNumber[q] \in 0 .. RNumber[r] - 1
  BY <1>1, <1>5
<1> HIDE DEF q
<1> QED BY <1>4, <1>5, <1>6 DEF q

\* The root block a header of another shard was mined on is stored with it.
LEMMA PrevRootStored ==
    ASSUME TypeOK, KnownOK, PrevRootsKnown, NEW r \in known,
           NEW i \in 1 .. Len(HeadersOf[r]), HeadersOf[r][i] \notin Own
    PROVE  PrevRootOf[HeadersOf[r][i]] \in known
<1> DEFINE q == PrevRootOf[HeadersOf[r][i]]
<1>1. r \in RBlock /\ RNumber[r] >= GenesisHeight
  BY DEF TypeOK, KnownOK
<1>2. RNumber[q] >= GenesisHeight
  BY <1>1 DEF PrevRootsKnown
<1>3. RNumber[q] \in 0 .. RNumber[r] - 1 /\ RAnc[r][RNumber[q]] = q
  BY <1>1, PrevRootOnPath
<1>4. RNumber[q] \in GenesisHeight .. RNumber[r]
  BY <1>1, <1>2, <1>3, RootNat, GenesisNat
<1> HIDE DEF q
<1>5. RAnc[r][RNumber[q]] \in known
  BY <1>4 DEF KnownOK
<1> QED BY <1>3, <1>5 DEF q

-----------------------------------------------------------------------------
\* A run in progress that is not at the end: its place on the root chain.
LEMMA RunPlace ==
    ASSUME Inv, run # Idle, run.rb # None
    PROVE  LET h == RNumber[run.rb]
           IN  /\ run.max \in RBlock /\ run.rb \in RBlock /\ run.rb \in known
               /\ h \in GenesisHeight .. RNumber[run.max]
               /\ run.rb = RAnc[run.max][h]
               /\ run.m \in 0 .. Len(HeadersOf[run.rb]) /\ run.d \in Nat
               /\ CursorInfo(run) = <<h, run.m, run.d>>
               /\ run.m # 0 => IsDeposit(run.max, h, run.m, run.d)
               /\ run.m = 0 => run.d \in {0, 1}
<1> DEFINE h == RNumber[run.rb]
<1>1. /\ run.max \in RBlock /\ run.rb \in RBlock /\ run.d \in Nat /\ run.max \in known
      /\ run.m \in 0 .. Len(HeadersOf[run.rb])
  BY DEF Inv, TypeOK, RunOK, Idle
<1>2. h \in GenesisHeight .. RNumber[run.max] /\ run.rb = RAnc[run.max][h]
  BY DEF Inv, RunOK
<1>3. RAnc[run.max][h] \in known
  BY <1>1, <1>2 DEF Inv, KnownOK
<1>4. CursorInfo(run) = <<h, run.m, run.d>>
  BY DEF CursorInfo
<1>5. h \in Nat /\ run.m \in Nat
  BY <1>1, <1>2, GenesisNat, HeaderAt
<1>6. /\ run.m # 0 => IsDeposit(run.max, h, run.m, run.d)
      /\ run.m = 0 => run.d \in {0, 1}
  <2>1. CursorOK(run.max, <<h, run.m, run.d>>)
    BY <1>4 DEF Inv, RunOK
  <2> HIDE DEF h
  <2>2. CASE \E k \in GenesisHeight .. RNumber[run.max] + 1 : <<h, run.m, run.d>> = <<k, 0, 0>>
    BY <2>2
  <2>3. CASE <<h, run.m, run.d>> \in Inbox[run.max]
    <3>1. PICK a, b, e \in Nat :
             <<h, run.m, run.d>> = <<a, b, e>> /\ IsDeposit(run.max, a, b, e)
      BY <1>1, <2>3, InboxMember
    <3>2. a = h /\ b = run.m /\ e = run.d
      BY <3>1
    <3>3. IsDeposit(run.max, h, run.m, run.d)
      BY <3>1, <3>2
    <3>4. run.m = 0 => run.d = 1
      BY <3>3 DEF IsDeposit
    <3> QED BY <3>3, <3>4
  <2> QED BY <2>1, <2>2, <2>3 DEF CursorOK
<1> HIDE DEF h
<1> QED BY <1>1, <1>2, <1>3, <1>4, <1>6 DEF h

\* The list the walk is in is stored.
LEMMA ListStored ==
    ASSUME Inv, run # Idle, run.rb # None
    PROVE  ~ NilList(run.rb, run.m)
<1>1. CASE run.m = 0
  BY <1>1 DEF NilList
<1>2. CASE run.m # 0
  <2>1. Sent(HeadersOf[run.rb][run.m]) /\ run.m \in 1 .. Len(HeadersOf[run.rb]) /\ run.rb \in known
    BY <1>2, RunPlace DEF IsDeposit
  <2>2. HeadersOf[run.rb][run.m] \in lists
    BY <2>1 DEF Inv, ListsOK
  <2> QED BY <2>2 DEF NilList
<1> QED BY <1>1, <1>2

\* A header of a stored root block is passed over or yields a deposit.
LEMMA SkipsOrYields ==
    ASSUME Inv, StableNeighbors, PrevRootsKnown, NEW r \in known, NEW i \in 1 .. Len(HeadersOf[r])
    PROVE  Skips(r, HeadersOf[r][i]) \/ Yields(r, HeadersOf[r][i])
<1> DEFINE H == HeadersOf[r][i]
<1>1. r \in RBlock
  BY DEF Inv, TypeOK
<1>2. H \notin Own => PrevRootOf[H] \in known
  BY PrevRootStored DEF Inv
<1>3. H \in Header /\ NTx[H] \in Nat /\ PrevRootOf[H] \in RBlock
  BY <1>1, HeaderAt
<1>4. RNumber[PrevRootOf[H]] \in Nat
  BY <1>3, RootPath
<1>5. RNumber[r] \in Neighbor[H] <=> RNumber[PrevRootOf[H]] \in Neighbor[H]
  BY <1>1 DEF StableNeighbors
<1>6. Sent(H) <=> H \in lists /\ Sent(H)
  BY DEF Inv, ListsOK
<1>7. H \in lists => Sent(H)
  BY DEF Inv, ListsOK
<1> HIDE DEF H
<1>8. Skips(r, H) \/ Yields(r, H)
  BY <1>2, <1>3, <1>4, <1>5, <1>6, <1>7, GenesisNat DEF Skips, Yields, Visited, Denied, Sent
<1> QED BY <1>8 DEF H

\* The walk does not fail: NoFault follows from the invariant.
LEMMA InvNoFault ==
    ASSUME Inv, StableNeighbors, PrevRootsKnown
    PROVE  NoFault
<1> SUFFICES ASSUME WalkFails PROVE FALSE
  BY DEF NoFault
<1>1. run.st = "run" /\ run.rb # None
  BY DEF WalkFails, AtEndOfList
<1>2. run # Idle
  BY <1>1 DEF Idle
<1>3. ~ NilList(run.rb, run.m)
  BY <1>1, <1>2, ListStored
<1> DEFINE S == Stops(run.rb, run.m)
<1>4. S # {} /\ ~ Yields(run.rb, HeadersOf[run.rb][FirstOf(S)])
  BY <1>3 DEF WalkFails
<1>5. run.rb \in known /\ run.m \in 0 .. Len(HeadersOf[run.rb]) /\ run.rb \in RBlock
  BY <1>1, <1>2, RunPlace
<1>6. S \subseteq 1 .. Len(HeadersOf[run.rb])
  BY <1>5, HeaderAt DEF Stops
<1>7. S \subseteq Nat
  BY <1>6
<1>8. FirstOf(S) \in S
  BY <1>4, <1>7, MinIsLeast
<1>9. ~ Skips(run.rb, HeadersOf[run.rb][FirstOf(S)])
  BY <1>8 DEF Stops
<1> HIDE DEF S
<1> QED BY <1>4, <1>5, <1>6, <1>8, <1>9, SkipsOrYields

-----------------------------------------------------------------------------
\* The fields of an execution.
RunFields ==
    [st : {"run", "done"}, on : 1 .. Len(path), max : RBlock, rb : RBlock \cup {None},
     m : Nat, d : Nat, got : SUBSET (Nat \X Nat \X Nat)]

\* Crediting the next deposit keeps the invariant.
LEMMA TakeKeeps ==
    ASSUME Inv, run.st = "run",
           NEW rb \in RBlock, NEW m2 \in 0 .. Len(HeadersOf[rb]), NEW d2 \in Nat,
           RNumber[rb] \in GenesisHeight .. RNumber[run.max], rb = RAnc[run.max][RNumber[rb]],
           NextDeposit(run.max, CursorInfo(run), <<RNumber[rb], m2, d2>>),
           Take(rb, m2, d2), UNCHANGED <<known, lists, path>>
    PROVE  Inv'
<1> DEFINE c2 == <<RNumber[rb], m2, d2>>
<1>1. PICK st \in {"run", "done"} :
         run' = [run EXCEPT !.st = st, !.rb = rb, !.m = m2, !.d = d2, !.got = @ \cup {c2}]
  BY DEF Take
<1>2. run # Idle
  BY DEF Idle
<1>3. run \in RunFields
  BY <1>2 DEF Inv, TypeOK, RunFields
<1>4. RNumber[rb] \in Nat /\ m2 \in Nat /\ c2 \in Nat \X Nat \X Nat /\ rb # None
  BY GenesisNat, HeaderAt, TreeAssumption, RootPath
<1> HIDE DEF c2
<1>5. /\ run'.st = st /\ run'.rb = rb /\ run'.m = m2 /\ run'.d = d2
      /\ run'.got = run.got \cup {c2} /\ run'.max = run.max /\ run'.on = run.on
      /\ run' \in RunFields
  BY <1>1, <1>3, <1>4 DEF RunFields
<1>6. run' # Idle
  BY <1>5 DEF Idle
<1>7. CursorInfo(run)' = c2
  BY <1>4, <1>5 DEF CursorInfo, c2
<1>8. TypeOK'
  BY <1>4, <1>5 DEF Inv, TypeOK, RunFields
<1>9. KnownOK' /\ ListsOK' /\ PathOK'
  BY DEF Inv, KnownOK, ListsOK, PathOK, CursorOK, EndOrDeposit, UptoCursor, Sent
<1>10. /\ c2 \in Inbox[run.max]
       /\ c2 \notin UptoCursor(run.max, CursorInfo(run))
       /\ UptoCursor(run.max, c2) = UptoCursor(run.max, CursorInfo(run)) \cup {c2}
  BY DEF NextDeposit, c2
<1>11. /\ path[run.on].done \cup run.got = UptoCursor(run.max, CursorInfo(run))
       /\ run.got \cap path[run.on].done = {}
       /\ run.max \in known
       /\ IsSameChain(RNumber, RAnc, run.max, path[run.on].root)
       /\ run.on < MaxBlocks
  BY <1>2 DEF Inv, RunOK
<1>12. path[run.on].done \cup run'.got = UptoCursor(run.max, c2)
  BY <1>5, <1>10, <1>11
<1>13. run'.got \cap path[run.on].done = {}
  BY <1>5, <1>10, <1>11
<1>14. RunOK'
  <2>1. CursorOK(run.max, c2) /\ EndOrDeposit(run.max, c2)
    BY <1>10 DEF CursorOK, EndOrDeposit
  <2>2. /\ run.max \in known' /\ IsSameChain(RNumber, RAnc, run.max, path'[run.on].root)
        /\ path'[run.on].done = path[run.on].done
    BY <1>11
  <2> QED
    BY <1>4, <1>5, <1>7, <1>11, <1>12, <1>13, <2>1, <2>2
       DEF RunOK, CursorOK, EndOrDeposit, UptoCursor, IsSameChain
<1>15. Progress'
  <2>1. c2 \in run'.got
    BY <1>5
  <2>2. path'[run'.on].done \cup run'.got = UptoCursor(run'.max, c2)
    BY <1>5, <1>12
  <2> QED BY <1>4, <1>5, <1>7, <2>1, <2>2 DEF Progress, UptoCursor
<1> QED BY <1>8, <1>9, <1>14, <1>15 DEF Inv

\* getNextTx within a list.
LEMMA NextInListKeeps ==
    ASSUME Inv, NextInList
    PROVE  Inv'
<1> DEFINE h == RNumber[run.rb]
<1>1. run.st = "run" /\ run.rb # None /\ HasMore(run.rb, run.m, run.d)
  BY DEF NextInList
<1>2. run # Idle
  BY <1>1 DEF Idle
<1>3. /\ run.max \in RBlock /\ run.rb \in RBlock /\ run.rb \in known
      /\ h \in GenesisHeight .. RNumber[run.max] /\ run.rb = RAnc[run.max][h]
      /\ run.m \in 0 .. Len(HeadersOf[run.rb]) /\ run.d \in Nat
      /\ CursorInfo(run) = <<h, run.m, run.d>>
      /\ run.m # 0 => IsDeposit(run.max, h, run.m, run.d)
  BY <1>1, <1>2, RunPlace
<1>4. run.m \in Nat
  BY <1>3, HeaderAt
<1> HIDE DEF h
<1>5. NextDeposit(run.max, <<h, run.m, run.d>>, <<h, run.m, run.d + 1>>)
  BY <1>1, <1>3, <1>4, AfterInList DEF HasMore
<1>6. run.d + 1 \in Nat
  BY <1>3
<1> QED
  BY <1>1, <1>3, <1>5, <1>6, TakeKeeps DEF NextInList, h

\* What the walk knows when it leaves a list: the list holds no more deposits.
LEMMA EndOfList ==
    ASSUME Inv, AtEndOfList
    PROVE  /\ run # Idle /\ run.rb # None
           /\ ListDone(run.max, RNumber[run.rb], run.m, run.d)
<1>1. run.st = "run" /\ run.rb # None /\ ~ HasMore(run.rb, run.m, run.d)
  BY DEF AtEndOfList
<1>2. run # Idle
  BY <1>1 DEF Idle
<1>3. ~ NilList(run.rb, run.m)
  BY <1>1, <1>2, ListStored
<1>4. /\ run.rb \in RBlock /\ run.m \in 0 .. Len(HeadersOf[run.rb]) /\ run.d \in Nat
      /\ run.rb = RAnc[run.max][RNumber[run.rb]]
      /\ run.m = 0 => run.d \in {0, 1}
  BY <1>1, <1>2, RunPlace
<1>5. run.m # 0 => NTx[HeadersOf[run.rb][run.m]] \in Nat
  BY <1>4, HeaderAt
<1>6. ListDone(run.max, RNumber[run.rb], run.m, run.d)
  <2>1. CASE run.m = 0
    BY <1>1, <1>4, <2>1 DEF HasMore, ListDone
  <2>2. CASE run.m # 0
    <3>1. run.d + 1 >= NTx[HeadersOf[run.rb][run.m]]
      BY <1>1, <1>3, <1>4, <1>5, <2>2 DEF HasMore, NilList
    <3> QED BY <1>4, <2>2, <3>1 DEF ListDone
  <2> QED BY <2>1, <2>2
<1> QED BY <1>1, <1>2, <1>6

\* Headers below the first stop hold no deposits.
LEMMA BeforeStop ==
    ASSUME Inv, StableNeighbors, run # Idle, run.rb # None,
           NEW j \in Nat, j <= Len(HeadersOf[run.rb]) + 1,
           \A k \in Stops(run.rb, run.m) : j <= k
    PROVE  NothingBetween(run.max, RNumber[run.rb], run.m, j)
<1>1. /\ run.rb \in RBlock /\ run.rb = RAnc[run.max][RNumber[run.rb]]
      /\ run.m \in 0 .. Len(HeadersOf[run.rb]) /\ Len(HeadersOf[run.rb]) \in Nat
  BY RunPlace, HeaderAt
<1>2. ASSUME NEW k \in run.m + 1 .. j - 1
      PROVE  ~ Sent(HeadersOf[run.rb][k]) \/ NTx[HeadersOf[run.rb][k]] = 0
  <2>1. k \in 1 .. Len(HeadersOf[run.rb]) /\ k \in run.m + 1 .. Len(HeadersOf[run.rb])
    BY <1>1
  <2>2. k \notin Stops(run.rb, run.m)
    BY <1>1
  <2>3. Skips(run.rb, HeadersOf[run.rb][k])
    BY <2>1, <2>2 DEF Stops
  <2> QED BY <1>1, <2>1, <2>3, SkipsEmpty
<1> QED BY <1>1, <1>2 DEF NothingBetween

\* getNextTx across headers.
LEMMA NextHeaderKeeps ==
    ASSUME Inv, StableNeighbors, NextHeader
    PROVE  Inv'
<1> DEFINE h == RNumber[run.rb]
           S == Stops(run.rb, run.m)
           j == FirstOf(S)
<1>1. /\ AtEndOfList /\ S # {} /\ Yields(run.rb, HeadersOf[run.rb][j])
      /\ Take(run.rb, j, 0) /\ UNCHANGED <<known, lists, path>>
  BY DEF NextHeader
<1>2. run # Idle /\ run.rb # None /\ ListDone(run.max, h, run.m, run.d) /\ run.st = "run"
  BY <1>1, EndOfList DEF AtEndOfList
<1>3. /\ run.max \in RBlock /\ run.rb \in RBlock
      /\ h \in GenesisHeight .. RNumber[run.max] /\ run.rb = RAnc[run.max][h]
      /\ run.m \in 0 .. Len(HeadersOf[run.rb]) /\ run.d \in Nat
      /\ CursorInfo(run) = <<h, run.m, run.d>>
  BY <1>2, RunPlace
<1>4. run.m \in Nat /\ Len(HeadersOf[run.rb]) \in Nat
  BY <1>3, HeaderAt
<1>5. S \subseteq run.m + 1 .. Len(HeadersOf[run.rb])
  BY DEF Stops
<1>6. S \subseteq Nat
  BY <1>4, <1>5
<1>7. j \in S /\ \A y \in S : j <= y
  BY <1>1, <1>6, MinIsLeast
<1> HIDE DEF h, j
<1>8. j \in Nat /\ run.m < j /\ j \in 1 .. Len(HeadersOf[run.rb])
  BY <1>4, <1>5, <1>7
<1>9. NothingBetween(run.max, h, run.m, j)
  <2>1. \A k \in Stops(run.rb, run.m) : j <= k
    BY <1>7
  <2>2. j <= Len(HeadersOf[run.rb]) + 1
    BY <1>4, <1>8
  <2> QED BY <1>2, <1>8, <2>1, <2>2, BeforeStop DEF h
<1>10. Sent(HeadersOf[run.rb][j]) /\ NTx[HeadersOf[run.rb][j]] > 0
  BY <1>1, <1>3, <1>8, YieldsDeposit
<1>11. IsDeposit(run.max, h, j, 0)
  <2>1. NTx[HeadersOf[run.rb][j]] \in Nat
    BY <1>3, <1>8, HeaderAt
  <2>2. 0 \in 0 .. NTx[HeadersOf[run.rb][j]] - 1
    BY <1>10, <2>1
  <2> QED BY <1>3, <1>8, <1>10, <2>2 DEF IsDeposit
<1>12. NextDeposit(run.max, <<h, run.m, run.d>>, <<h, j, 0>>)
  BY <1>2, <1>3, <1>4, <1>8, <1>9, <1>11, AfterHeader
<1>13. j \in 0 .. Len(HeadersOf[run.rb])
  BY <1>8
<1> QED
  BY <1>1, <1>2, <1>3, <1>12, <1>13, TakeKeeps DEF h

\* The rest of the root block holds no deposits when the loop runs to its end.
LEMMA EndOfBlock ==
    ASSUME Inv, StableNeighbors, AtEndOfList, Stops(run.rb, run.m) = {}
    PROVE  NothingBetween(run.max, RNumber[run.rb], run.m, Len(HeadersOf[run.rb]) + 1)
<1>1. run # Idle /\ run.rb # None
  BY EndOfList
<1>2. Len(HeadersOf[run.rb]) \in Nat
  BY <1>1, RunPlace, HeaderAt
<1> QED BY <1>1, <1>2, BeforeStop

\* getNextTx across root blocks.
LEMMA NextRootBlockKeeps ==
    ASSUME Inv, StableNeighbors, NextRootBlock
    PROVE  Inv'
<1> DEFINE h == RNumber[run.rb]
           rb == RAnc[run.max][h + 1]
<1>1. /\ AtEndOfList /\ Stops(run.rb, run.m) = {} /\ h < RNumber[run.max]
      /\ Take(rb, 0, 1) /\ UNCHANGED <<known, lists, path>>
  BY DEF NextRootBlock
<1>2. run # Idle /\ run.rb # None /\ ListDone(run.max, h, run.m, run.d) /\ run.st = "run"
  BY <1>1, EndOfList DEF AtEndOfList
<1>3. /\ run.max \in RBlock /\ run.rb \in RBlock
      /\ h \in GenesisHeight .. RNumber[run.max] /\ run.rb = RAnc[run.max][h]
      /\ run.m \in 0 .. Len(HeadersOf[run.rb]) /\ run.d \in Nat
      /\ CursorInfo(run) = <<h, run.m, run.d>>
  BY <1>2, RunPlace
<1>4. NothingBetween(run.max, h, run.m, Len(HeadersOf[run.rb]) + 1)
  BY <1>1, EndOfBlock
<1>5. /\ run.m \in Nat /\ h \in Nat /\ RNumber[run.max] \in Nat
      /\ run.m <= Len(HeadersOf[run.rb])
  BY <1>3, HeaderAt, GenesisNat, RootPath
<1> HIDE DEF h
<1>6. NextDeposit(run.max, <<h, run.m, run.d>>, <<h + 1, 0, 1>>)
  BY <1>1, <1>2, <1>3, <1>4, <1>5, AfterRootBlock
<1>7. /\ h + 1 \in 0 .. RNumber[run.max]
      /\ h + 1 \in GenesisHeight .. RNumber[run.max]
  BY <1>1, <1>3, <1>5, GenesisNat
<1>8. rb \in RBlock /\ RNumber[rb] = h + 1
  BY <1>3, <1>7, RootPath, ZenonT(40)
<1>9. 0 \in 0 .. Len(HeadersOf[rb])
  BY <1>8, HeaderAt
<1> HIDE DEF rb
<1>10. rb = RAnc[run.max][RNumber[rb]]
  BY <1>8 DEF rb
<1> QED
  BY <1>1, <1>2, <1>3, <1>6, <1>7, <1>8, <1>9, <1>10, TakeKeeps

-----------------------------------------------------------------------------
\* All deposits of a chain lie before its end.
LEMMA UptoEnd ==
    ASSUME NEW r \in RBlock
    PROVE  UptoCursor(r, <<RNumber[r] + 1, 0, 0>>) = Inbox[r]
<1>1. ASSUME NEW p \in Inbox[r]
      PROVE  Upto(p, <<RNumber[r] + 1, 0, 0>>)
  <2>1. PICK h, i, d \in Nat : p = <<h, i, d>> /\ IsDeposit(r, h, i, d)
    BY InboxMember
  <2>2. h < RNumber[r] + 1
    BY <2>1, RootNat, GenesisNat DEF IsDeposit
  <2> QED BY <2>1, <2>2, UptoTriple
<1> QED BY <1>1 DEF UptoCursor

\* The deposits up to a cursor are the same on a longer root chain, and so is the
\* place of the cursor.
LEMMA UptoOnLongerChain ==
    ASSUME NEW r \in RBlock, NEW s \in RBlock, IsSameChain(RNumber, RAnc, r, s),
           RNumber[s] >= GenesisHeight, NEW c, CursorOK(s, c)
    PROVE  CursorOK(r, c) /\ UptoCursor(r, c) = UptoCursor(s, c)
<1>1. /\ RNumber[s] \in Nat /\ RNumber[r] \in Nat /\ RNumber[s] <= RNumber[r]
      /\ \A k \in GenesisHeight .. RNumber[s] : RAnc[s][k] = RAnc[r][k]
  <2>1. RNumber[s] \in 0 .. RNumber[r] /\ RAnc[r][RNumber[s]] = s
    BY RootPath DEF IsSameChain
  <2> QED BY <2>1, RootPath, GenesisNat
<1>2. ASSUME NEW h \in Nat, NEW i \in Nat, NEW d \in Nat
      PROVE  IsDeposit(s, h, i, d) <=> IsDeposit(r, h, i, d) /\ h <= RNumber[s]
  <2>1. CASE h \in GenesisHeight .. RNumber[s]
    <3>1. RAnc[s][h] = RAnc[r][h]
      BY <1>1, <2>1
    <3>2. h \in GenesisHeight .. RNumber[r] /\ h <= RNumber[s]
      BY <1>1, <2>1, GenesisNat
    <3> QED BY <2>1, <3>1, <3>2 DEF IsDeposit
  <2>2. CASE h \notin GenesisHeight .. RNumber[s]
    <3>1. ~ (h \in GenesisHeight .. RNumber[r] /\ h <= RNumber[s])
      BY <1>1, <2>2, GenesisNat
    <3> QED BY <2>2, <3>1 DEF IsDeposit
  <2> QED BY <2>1, <2>2
<1>3. PICK x, y, z \in Nat :
         /\ c = <<x, y, z>>
         /\ \/ IsDeposit(s, x, y, z)
            \/ x \in GenesisHeight .. RNumber[s] + 1 /\ y = 0 /\ z = 0
  <2>1. CASE c \in Inbox[s]
    BY <2>1, InboxMember
  <2>2. CASE c \in {<<k, 0, 0>> : k \in GenesisHeight .. RNumber[s] + 1}
    BY <1>1, <2>2, GenesisNat
  <2> QED BY <2>1, <2>2 DEF CursorOK
<1>4. CursorOK(r, c)
  <2>1. CASE IsDeposit(s, x, y, z)
    BY <1>2, <1>3, <2>1, InboxMember DEF CursorOK
  <2>2. CASE x \in GenesisHeight .. RNumber[s] + 1 /\ y = 0 /\ z = 0
    BY <1>1, <1>3, <2>2, GenesisNat DEF CursorOK
  <2> QED BY <1>3, <2>1, <2>2
<1>5. ASSUME NEW h \in Nat, NEW i \in Nat, NEW d \in Nat,
             IsDeposit(r, h, i, d), Upto(<<h, i, d>>, <<x, y, z>>)
      PROVE  h <= RNumber[s]
  <2>1. h <= x
    BY <1>5, UptoTriple
  <2>2. CASE IsDeposit(s, x, y, z)
    BY <1>1, <2>1, <2>2, GenesisNat DEF IsDeposit
  <2>3. CASE x \in GenesisHeight .. RNumber[s] + 1 /\ y = 0 /\ z = 0
    <3>1. ~ (h = x)
      <4> SUFFICES ASSUME h = x PROVE FALSE
        OBVIOUS
      <4>1. i = 0 /\ d = 0
        BY <1>5, <2>3, UptoTriple
      <4> QED BY <1>5, <4>1 DEF IsDeposit
    <3> QED BY <1>1, <2>1, <2>3, <3>1, GenesisNat
  <2> QED BY <1>3, <2>2, <2>3
<1>6. ASSUME NEW p
      PROVE  p \in UptoCursor(r, c) <=> p \in UptoCursor(s, c)
  <2>1. ASSUME p \in UptoCursor(r, c) PROVE p \in UptoCursor(s, c)
    <3>1. p \in Inbox[r] /\ Upto(p, c)
      BY <2>1 DEF UptoCursor
    <3>2. PICK h, i, d \in Nat : p = <<h, i, d>> /\ IsDeposit(r, h, i, d)
      BY <3>1, InboxMember
    <3>3. IsDeposit(s, h, i, d)
      BY <1>2, <1>3, <1>5, <3>1, <3>2
    <3> QED BY <3>1, <3>2, <3>3, InboxMember DEF UptoCursor
  <2>2. ASSUME p \in UptoCursor(s, c) PROVE p \in UptoCursor(r, c)
    <3>1. p \in Inbox[s] /\ Upto(p, c)
      BY <2>2 DEF UptoCursor
    <3>2. PICK h, i, d \in Nat : p = <<h, i, d>> /\ IsDeposit(s, h, i, d)
      BY <3>1, InboxMember
    <3>3. IsDeposit(r, h, i, d)
      BY <1>2, <3>2
    <3> QED BY <3>1, <3>2, <3>3, InboxMember DEF UptoCursor
  <2> QED BY <2>1, <2>2
<1>7. UptoCursor(r, c) = UptoCursor(s, c)
  BY <1>6, Zenon
<1> QED BY <1>4, <1>7

\* getNextTx at the end.
LEMMA ReachEOFKeeps ==
    ASSUME Inv, StableNeighbors, ReachEOF
    PROVE  Inv'
<1>1. run.st = "run" /\ run # Idle
  BY DEF ReachEOF, Idle
<1>2. run \in RunFields
  BY <1>1 DEF Inv, TypeOK, RunFields
<1>3. run.max \in RBlock /\ run.max \in known
  BY <1>1, <1>2 DEF Inv, RunOK, RunFields
<1>4. run.rb = None => run.m = 0 /\ run.d = 0
  BY <1>1 DEF Inv, RunOK
<1>5. /\ run'.st = "done" /\ run'.rb = None /\ run'.m = 0 /\ run'.d = 0
      /\ run'.got = run.got /\ run'.max = run.max /\ run'.on = run.on
      /\ run' \in RunFields
  BY <1>2, <1>4 DEF ReachEOF, RunFields
<1>6. run' # Idle
  BY <1>5 DEF Idle
<1>7. UNCHANGED <<known, lists, path>>
  BY DEF ReachEOF
<1>8. CursorInfo(run)' = <<RNumber[run.max] + 1, 0, 0>>
  BY <1>5 DEF CursorInfo
<1>9. UptoCursor(run.max, CursorInfo(run)) = Inbox[run.max]
  <2>1. CASE run.rb = None
    BY <1>3, <1>4, <2>1, UptoEnd DEF CursorInfo
  <2>2. CASE run.rb # None
    <3>1. /\ AtEndOfList /\ Stops(run.rb, run.m) = {}
          /\ RNumber[run.rb] = RNumber[run.max]
      BY <2>2 DEF ReachEOF
    <3>2. /\ run.rb \in RBlock /\ run.rb = RAnc[run.max][RNumber[run.rb]]
          /\ RNumber[run.rb] \in GenesisHeight .. RNumber[run.max]
          /\ run.m \in 0 .. Len(HeadersOf[run.rb]) /\ run.d \in Nat
          /\ CursorInfo(run) = <<RNumber[run.rb], run.m, run.d>>
      BY <1>1, <2>2, RunPlace
    <3>3. run.rb = run.max
      BY <1>3, <3>1, <3>2, RootPath
    <3>4. /\ ListDone(run.max, RNumber[run.max], run.m, run.d)
          /\ NothingBetween(run.max, RNumber[run.max], run.m, Len(HeadersOf[run.max]) + 1)
      BY <3>1, <3>3, EndOfList, EndOfBlock
    <3>5. /\ run.m \in Nat /\ run.m <= Len(HeadersOf[run.max])
          /\ RNumber[run.max] >= GenesisHeight
      BY <1>3, <3>2, <3>3, HeaderAt, GenesisNat, RootPath
    <3>6. UptoCursor(run.max, <<RNumber[run.max], run.m, run.d>>) = Inbox[run.max]
      BY <1>3, <3>2, <3>4, <3>5, AfterLast
    <3> QED BY <3>1, <3>2, <3>6
  <2> QED BY <2>1, <2>2
<1>10. /\ path[run.on].done \cup run.got = Inbox[run.max]
       /\ run.got \cap path[run.on].done = {}
       /\ IsSameChain(RNumber, RAnc, run.max, path[run.on].root)
       /\ run.on < MaxBlocks
  BY <1>1, <1>9 DEF Inv, RunOK
<1>11. TypeOK'
  BY <1>5, <1>7 DEF Inv, TypeOK, RunFields
<1>12. KnownOK' /\ ListsOK' /\ PathOK'
  BY <1>7 DEF Inv, KnownOK, ListsOK, PathOK, CursorOK, EndOrDeposit, UptoCursor, Sent
<1> DEFINE e == <<RNumber[run.max] + 1, 0, 0>>
<1>13. CursorOK(run.max, e) /\ EndOrDeposit(run.max, e) /\ UptoCursor(run.max, e) = Inbox[run.max]
  <2>1. RNumber[run.max] + 1 \in GenesisHeight .. RNumber[run.max] + 1
    BY <1>3, RootPath, GenesisNat DEF Inv, KnownOK
  <2> QED BY <1>3, <2>1, UptoEnd DEF CursorOK, EndOrDeposit
<1> HIDE DEF e
<1>14. RunOK'
  BY <1>3, <1>5, <1>7, <1>8, <1>10, <1>13
     DEF RunOK, CursorOK, EndOrDeposit, UptoCursor, IsSameChain, e
<1>15. Progress'
  <2>1. CASE run.got = {}
    BY <1>5, <1>7, <1>10, <2>1 DEF Progress
  <2>2. CASE run.got # {}
    <3>1. CursorInfo(run) \in run.got
      BY <1>1, <2>2 DEF Inv, Progress
    <3>2. path'[run'.on].done \cup run'.got = UptoCursor(run'.max, CursorInfo(run))
      BY <1>5, <1>7, <1>9, <1>10
    <3> QED BY <1>5, <3>1, <3>2 DEF Progress, UptoCursor
  <2> QED BY <2>1, <2>2
<1> QED BY <1>11, <1>12, <1>14, <1>15 DEF Inv

\* An execution starts where its parent stopped.
LEMMA StartKeeps ==
    ASSUME Inv, NEW p \in 1 .. Len(path), NEW r \in RBlock, NewXShardTxCursor(p, r)
    PROVE  Inv'
<1> DEFINE c == path[p].cursor
           s == path[p].root
<1>1. /\ run = Idle /\ p < MaxBlocks /\ r \in known /\ IsSameChain(RNumber, RAnc, r, s)
      /\ run' = [st |-> "run", on |-> p, max |-> r, got |-> {}, m |-> c[2], d |-> c[3],
                 rb |-> IF c[1] <= RNumber[r] THEN RAnc[r][c[1]] ELSE None]
      /\ UNCHANGED <<known, lists, path>>
  BY DEF NewXShardTxCursor
<1>2. /\ path[p] \in MinorBlock /\ s \in known /\ CursorOK(s, c)
      /\ path[p].done = UptoCursor(s, c)
  BY DEF Inv, TypeOK, PathOK
<1>3. s \in RBlock /\ RNumber[s] >= GenesisHeight /\ RNumber[r] >= GenesisHeight
  BY <1>1, <1>2 DEF Inv, TypeOK, KnownOK
<1>4. CursorOK(r, c) /\ UptoCursor(r, c) = UptoCursor(s, c)
  BY <1>1, <1>2, <1>3, UptoOnLongerChain
<1>5. PICK x, y, z \in Nat :
         /\ c = <<x, y, z>>
         /\ x \in GenesisHeight .. RNumber[r] + 1
         /\ \/ IsDeposit(r, x, y, z)
            \/ y = 0 /\ z = 0
  <2>1. CASE c \in Inbox[r]
    <3>1. PICK x, y, z \in Nat : c = <<x, y, z>> /\ IsDeposit(r, x, y, z)
      BY <2>1, InboxMember
    <3>2. x \in GenesisHeight .. RNumber[r] + 1
      BY <3>1, GenesisNat, RootPath DEF IsDeposit
    <3> QED BY <3>1, <3>2
  <2>2. CASE c \in {<<k, 0, 0>> : k \in GenesisHeight .. RNumber[r] + 1}
    BY <2>2, GenesisNat, RootPath
  <2> QED BY <1>4, <2>1, <2>2 DEF CursorOK
<1> DEFINE rb == IF x <= RNumber[r] THEN RAnc[r][x] ELSE None
<1> HIDE DEF c, s
<1>6. run' = [st |-> "run", on |-> p, max |-> r, got |-> {}, m |-> y, d |-> z, rb |-> rb]
  BY <1>1, <1>5
<1>7. /\ run'.st = "run" /\ run'.on = p /\ run'.max = r /\ run'.got = {}
      /\ run'.m = y /\ run'.d = z /\ run'.rb = rb
  BY <1>6
<1>8. run' # Idle
  BY <1>7 DEF Idle
<1>9. CASE x <= RNumber[r]
  <2>1. x \in 0 .. RNumber[r] /\ x \in GenesisHeight .. RNumber[r]
    BY <1>5, <1>9, GenesisNat, RootPath
  <2>2. rb \in RBlock /\ rb # None /\ RNumber[rb] = x /\ rb = RAnc[r][x]
    BY <1>9, <2>1, RootPath, TreeAssumption
  <2> HIDE DEF rb
  <2>3. y \in 0 .. Len(HeadersOf[rb])
    <3>1. Len(HeadersOf[rb]) \in Nat
      BY <2>2, HeaderAt
    <3>2. CASE IsDeposit(r, x, y, z)
      BY <2>2, <3>1, <3>2 DEF IsDeposit
    <3> QED BY <1>5, <3>1, <3>2
  <2>4. CursorInfo(run)' = c
    BY <1>5, <1>7, <2>2 DEF CursorInfo
  <2>5. run' \in RunFields
    BY <1>6, <2>2 DEF RunFields
  <2>6. TypeOK'
    BY <1>1, <1>7, <2>3, <2>5 DEF Inv, TypeOK, RunFields
  <2>7. RunOK'
    BY <1>1, <1>2, <1>4, <1>7, <2>1, <2>2, <2>4
       DEF RunOK, CursorOK, UptoCursor, IsSameChain, s
  <2>8. Progress'
    BY <1>7 DEF Progress
  <2>9. KnownOK' /\ ListsOK' /\ PathOK'
    BY <1>1 DEF Inv, KnownOK, ListsOK, PathOK, CursorOK, EndOrDeposit, UptoCursor, Sent
  <2> QED BY <2>6, <2>7, <2>8, <2>9 DEF Inv
<1>10. CASE ~ (x <= RNumber[r])
  <2>1. x = RNumber[r] + 1 /\ rb = None
    BY <1>5, <1>10, GenesisNat, RootPath
  <2>2. y = 0 /\ z = 0
    BY <1>5, <1>10 DEF IsDeposit
  <2> HIDE DEF rb
  <2>4. CursorInfo(run)' = c
    BY <1>5, <1>7, <2>1 DEF CursorInfo
  <2>5. run' \in RunFields
    BY <1>6, <2>1 DEF RunFields
  <2>6. TypeOK'
    BY <1>1, <1>7, <2>1, <2>5 DEF Inv, TypeOK, RunFields
  <2>7. RunOK'
    BY <1>1, <1>2, <1>4, <1>7, <2>1, <2>2, <2>4
       DEF RunOK, CursorOK, UptoCursor, IsSameChain, s
  <2>8. Progress'
    BY <1>7 DEF Progress
  <2>9. KnownOK' /\ ListsOK' /\ PathOK'
    BY <1>1 DEF Inv, KnownOK, ListsOK, PathOK, CursorOK, EndOrDeposit, UptoCursor, Sent
  <2> QED BY <2>6, <2>7, <2>8, <2>9 DEF Inv
<1> QED BY <1>9, <1>10

\* A finished block extends the path by its cursor and its deposits.
LEMMA FinishKeeps ==
    ASSUME Inv, Finish
    PROVE  Inv'
<1> DEFINE b == [root |-> run.max, cursor |-> CursorInfo(run),
                 done |-> path[run.on].done \cup run.got]
           n == run.on
<1>1. /\ run.st = "done" /\ path' = Append(SubSeq(path, 1, n), b)
      /\ run' = Idle /\ known' = known /\ lists' = lists
  BY DEF Finish
<1>2. run # Idle
  BY <1>1 DEF Idle
<1>3. run \in RunFields /\ path \in Seq(MinorBlock) /\ n \in 1 .. Len(path)
  BY <1>2 DEF Inv, TypeOK, RunFields
<1>4. /\ run.max \in known /\ CursorOK(run.max, CursorInfo(run)) /\ n < MaxBlocks
      /\ EndOrDeposit(run.max, CursorInfo(run))
      /\ path[n].done \cup run.got = UptoCursor(run.max, CursorInfo(run))
  BY <1>1, <1>2 DEF Inv, RunOK
<1>5. b \in MinorBlock
  <2>1. CursorInfo(run) \in Nat \X Nat \X Nat
    BY <1>3, RootPath DEF CursorInfo, RunFields
  <2>2. path[n] \in MinorBlock
    BY <1>3
  <2> QED BY <1>3, <2>1, <2>2 DEF MinorBlock, RunFields
<1>6. b.root = run.max /\ b.cursor = CursorInfo(run) /\ b.done = path[n].done \cup run.got
  OBVIOUS
<1> HIDE DEF b, n
<1>7. /\ path' \in Seq(MinorBlock) /\ Len(path') = n + 1
      /\ \A i \in 1 .. n : path'[i] = path[i]
      /\ path'[n + 1] = b
  BY <1>1, <1>3, <1>5
<1>8. TypeOK'
  <2>1. n + 1 \in 1 .. MaxBlocks
    BY <1>3, <1>4, ContentAssumption
  <2> QED BY <1>1, <1>7, <2>1 DEF Inv, TypeOK
<1>9. ASSUME NEW i \in 1 .. Len(path')
      PROVE  /\ path'[i].root \in known
             /\ CursorOK(path'[i].root, path'[i].cursor)
             /\ i >= 2 => EndOrDeposit(path'[i].root, path'[i].cursor)
             /\ path'[i].done = UptoCursor(path'[i].root, path'[i].cursor)
  <2>1. CASE i \in 1 .. n
    <3>1. i \in 1 .. Len(path) /\ path'[i] = path[i]
      BY <1>3, <1>7, <2>1
    <3> QED BY <3>1 DEF Inv, PathOK
  <2>2. CASE i = n + 1
    BY <1>4, <1>6, <1>7, <2>2
  <2> QED BY <1>3, <1>7, <2>1, <2>2
<1>10. PathOK'
  BY <1>1, <1>9 DEF PathOK, CursorOK, EndOrDeposit, UptoCursor
<1>11. KnownOK' /\ ListsOK'
  BY <1>1 DEF Inv, KnownOK, ListsOK, Sent
<1>12. RunOK' /\ Progress'
  BY <1>1 DEF RunOK, Progress
<1> QED BY <1>8, <1>10, <1>11, <1>12 DEF Inv

\* An execution that ends without a block leaves no trace.
LEMMA AbortKeeps ==
    ASSUME Inv, Abort
    PROVE  Inv'
<1>1. run' = Idle /\ UNCHANGED <<known, lists, path>>
  BY DEF Abort
<1>2. TypeOK'
  BY <1>1 DEF Inv, TypeOK
<1>3. KnownOK' /\ ListsOK' /\ PathOK'
  BY <1>1 DEF Inv, KnownOK, ListsOK, PathOK, CursorOK, EndOrDeposit, UptoCursor, Sent
<1>4. RunOK' /\ Progress'
  BY <1>1 DEF RunOK, Progress
<1> QED BY <1>2, <1>3, <1>4 DEF Inv

\* Path and execution do not depend on what else is stored.
LEMMA StoreKeeps ==
    ASSUME Inv, known \subseteq known', known' \subseteq RBlock, lists' \subseteq Header,
           UNCHANGED <<path, run>>
    PROVE  TypeOK' /\ PathOK' /\ RunOK' /\ Progress'
<1>1. TypeOK'
  BY DEF Inv, TypeOK
<1>2. PathOK'
  BY DEF Inv, PathOK, CursorOK, EndOrDeposit, UptoCursor
<1>3. RunOK'
  BY DEF Inv, RunOK, CursorOK, EndOrDeposit, UptoCursor, IsSameChain, CursorInfo
<1>4. Progress'
  BY DEF Inv, Progress, UptoCursor, CursorInfo
<1> QED BY <1>1, <1>2, <1>3, <1>4

\* A deposit list is stored.
LEMMA ListKeeps ==
    ASSUME Inv, NEW h \in Header, AddCrossShardTxList(h)
    PROVE  Inv'
<1>1. Sent(h) /\ lists' = lists \cup {h} /\ UNCHANGED <<known, path, run>>
  BY DEF AddCrossShardTxList
<1>2. known \subseteq known' /\ known' \subseteq RBlock /\ lists' \subseteq Header
  BY <1>1 DEF Inv, TypeOK
<1>3. TypeOK' /\ PathOK' /\ RunOK' /\ Progress'
  BY <1>1, <1>2, StoreKeeps
<1>4. KnownOK'
  BY <1>1 DEF Inv, KnownOK
<1>5. ListsOK'
  BY <1>1 DEF Inv, ListsOK, Sent
<1> QED BY <1>3, <1>4, <1>5 DEF Inv

\* A root block is stored once its lists are.
LEMMA RootBlockKeeps ==
    ASSUME Inv, PrevRootsKnown, NEW r \in RBlock, AddRootBlock(r)
    PROVE  Inv'
<1>1. /\ RNumber[r] > GenesisHeight /\ RParent(r) \in known
      /\ known' = known \cup {r} /\ UNCHANGED <<lists, path, run>>
      /\ \A i \in 1 .. Len(HeadersOf[r]) :
            HeadersOf[r][i] \notin Own => (HeadersOf[r][i] \in lists <=> Expected(HeadersOf[r][i]))
  BY DEF AddRootBlock
<1>2. known \subseteq known' /\ known' \subseteq RBlock /\ lists' \subseteq Header
  BY <1>1 DEF Inv, TypeOK
<1>3. TypeOK' /\ PathOK' /\ RunOK' /\ Progress'
  BY <1>1, <1>2, StoreKeeps
<1>4. /\ RNumber[RParent(r)] = RNumber[r] - 1
      /\ \A k \in 0 .. RNumber[r] - 1 : RAnc[RParent(r)][k] = RAnc[r][k]
      /\ RNumber[r] \in Nat
  <2>1. RNumber[r] \in Nat /\ RNumber[r] - 1 \in 0 .. RNumber[r]
    BY <1>1, RootNat, GenesisNat
  <2>2. RParent(r) = RAnc[r][RNumber[r] - 1]
    BY DEF RParent, ParentOf
  <2> QED BY <2>1, <2>2, RootPath
<1>5. ASSUME NEW k \in GenesisHeight .. RNumber[r]
      PROVE  RAnc[r][k] \in known'
  <2>1. CASE k = RNumber[r]
    BY <1>1, <2>1, RootPath
  <2>2. CASE k # RNumber[r]
    <3>1. k \in GenesisHeight .. RNumber[RParent(r)] /\ k \in 0 .. RNumber[r] - 1
      BY <1>4, <2>2, GenesisNat
    <3>2. RAnc[RParent(r)][k] \in known
      BY <1>1, <3>1 DEF Inv, KnownOK
    <3> QED BY <1>1, <1>4, <3>1, <3>2
  <2> QED BY <2>1, <2>2
<1>6. KnownOK'
  BY <1>1, <1>4, <1>5, GenesisNat DEF Inv, KnownOK
<1>7. ASSUME NEW i \in 1 .. Len(HeadersOf[r]), Sent(HeadersOf[r][i])
      PROVE  HeadersOf[r][i] \in lists
  <2> DEFINE q == PrevRootOf[HeadersOf[r][i]]
  <2>1. RNumber[q] \in 0 .. RNumber[r] - 1 /\ RAnc[r][RNumber[q]] = q
    BY PrevRootOnPath
  <2>2. RNumber[q] > GenesisHeight /\ RNumber[q] \in Neighbor[HeadersOf[r][i]]
        /\ HeadersOf[r][i] \notin Own
    BY <1>7 DEF Sent
  <2> HIDE DEF q
  <2>3. RNumber[q] \in GenesisHeight .. RNumber[RParent(r)]
    <3>1. RNumber[RParent(r)] = RNumber[r] - 1 /\ RNumber[r] \in Nat
      BY <1>4
    <3> QED BY <2>1, <2>2, <3>1, GenesisNat
  <2>4. RAnc[RParent(r)][RNumber[q]] \in known
    BY <1>1, <2>3 DEF Inv, KnownOK
  <2>5. q \in known
    BY <1>4, <2>1, <2>4
  <2>6. RNumber[q] # GenesisHeight
    BY <2>1, <2>2, GenesisNat
  <2>7. Expected(HeadersOf[r][i])
    BY <2>2, <2>5, <2>6 DEF Expected, q
  <2> QED BY <1>1, <2>2, <2>7
<1>8. ListsOK'
  BY <1>1, <1>7 DEF Inv, ListsOK, Sent
<1> QED BY <1>3, <1>6, <1>8 DEF Inv

\* The genesis block has credited nothing and its cursor is before everything.
LEMMA InitInv ==
    ASSUME Init, PrevRootsKnown
    PROVE  Inv
<1> DEFINE c == <<GenesisHeight, 0, 0>>
           b == [root |-> GenesisRoot, cursor |-> c, done |-> {}]
<1>1. /\ known = {GenesisRoot} /\ lists = {} /\ path = <<b>> /\ run = Idle
  BY DEF Init
<1>2. GenesisRoot \in RBlock /\ GenesisHeight = RNumber[GenesisRoot] /\ GenesisHeight \in Nat
  BY TreeAssumption, GenesisNat DEF GenesisHeight
<1>3. b \in MinorBlock
  BY <1>2 DEF MinorBlock
<1>4. b.root = GenesisRoot /\ b.cursor = c /\ b.done = {}
  OBVIOUS
<1>5. UptoCursor(GenesisRoot, c) = {}
  <2> SUFFICES ASSUME NEW p \in Inbox[GenesisRoot], Upto(p, c) PROVE FALSE
    BY DEF UptoCursor
  <2>1. PICK h, i, d \in Nat : p = <<h, i, d>> /\ IsDeposit(GenesisRoot, h, i, d)
    BY <1>2, InboxMember
  <2>2. h = GenesisHeight /\ i = 0 /\ d = 0
    BY <1>2, <2>1, UptoTriple DEF IsDeposit
  <2> QED BY <2>1, <2>2 DEF IsDeposit
<1>6. CursorOK(GenesisRoot, c)
  <2>1. GenesisHeight \in GenesisHeight .. RNumber[GenesisRoot] + 1
    BY <1>2
  <2> QED BY <2>1 DEF CursorOK
<1> HIDE DEF b, c
<1>7. path \in Seq(MinorBlock) /\ Len(path) = 1 /\ path[1] = b
  BY <1>1, <1>3
<1>8. TypeOK
  BY <1>1, <1>2, <1>7, ContentAssumption DEF TypeOK
<1>9. KnownOK
  BY <1>1, <1>2, RootPath DEF KnownOK
<1>10. ASSUME NEW i \in 1 .. Len(HeadersOf[GenesisRoot])
       PROVE  ~ Sent(HeadersOf[GenesisRoot][i])
  <2>1. RNumber[PrevRootOf[HeadersOf[GenesisRoot][i]]] \in 0 .. GenesisHeight - 1
    BY <1>2, PrevRootOnPath
  <2>2. ~ (RNumber[PrevRootOf[HeadersOf[GenesisRoot][i]]] > GenesisHeight)
    BY <1>2, <2>1
  <2> QED BY <2>2 DEF Sent
<1>11. ListsOK
  BY <1>1, <1>10 DEF ListsOK
<1>12. PathOK
  BY <1>1, <1>4, <1>5, <1>6, <1>7 DEF PathOK
<1>13. RunOK /\ Progress
  BY <1>1 DEF RunOK, Progress
<1> QED BY <1>8, <1>9, <1>11, <1>12, <1>13 DEF Inv

\* Every step keeps the invariant.
LEMMA NextInv ==
    ASSUME Inv, StableNeighbors, PrevRootsKnown, [Next]_vars
    PROVE  Inv'
<1>1. CASE \E h \in Header : AddCrossShardTxList(h)
  BY <1>1, ListKeeps
<1>2. CASE \E r \in RBlock : AddRootBlock(r)
  BY <1>2, RootBlockKeeps
<1>3. CASE \E p \in 1 .. Len(path), r \in RBlock : NewXShardTxCursor(p, r)
  BY <1>3, StartKeeps
<1>4. CASE GetNextTx
  BY <1>4, NextInListKeeps, NextHeaderKeeps, NextRootBlockKeeps, ReachEOFKeeps DEF GetNextTx
<1>5. CASE Finish
  BY <1>5, FinishKeeps
<1>6. CASE Abort
  BY <1>6, AbortKeeps
<1>7. CASE UNCHANGED vars
  <2>1. UNCHANGED <<known, lists, path, run>>
    BY <1>7 DEF vars
  <2>2. known \subseteq known' /\ known' \subseteq RBlock /\ lists' \subseteq Header
    BY <2>1 DEF Inv, TypeOK
  <2>3. TypeOK' /\ PathOK' /\ RunOK' /\ Progress'
    BY <2>1, <2>2, StoreKeeps
  <2>4. KnownOK' /\ ListsOK'
    BY <2>1 DEF Inv, KnownOK, ListsOK, Sent
  <2> QED BY <2>3, <2>4 DEF Inv
<1> QED BY <1>1, <1>2, <1>3, <1>4, <1>5, <1>6, <1>7 DEF Next

\* What the invariant says of cursors and credits (getNextTx, RunCrossShardTxWithCursor).
LEMMA InvIsSound ==
    ASSUME StableNeighbors, PrevRootsKnown, Inv
    PROVE  WalkSound /\ CreditSound
<1>1. TypeOK /\ NoFault
  BY InvNoFault DEF Inv
<1>2. CursorValid
  <2>1. Len(path) \in Nat
    BY DEF Inv, TypeOK
  <2> QED BY <2>1 DEF Inv, PathOK, CursorValid, EndOrDeposit
<1>3. CreditedUptoCursor
  BY DEF Inv, PathOK, CreditedUptoCursor, UptoCursor
<1>4. CreditedOnce
  <2>1. RunOK
    BY DEF Inv
  <2>2. run.st # "idle" => run # Idle
    BY DEF Idle
  <2> QED BY <2>1, <2>2 DEF RunOK, CreditedOnce
<1> QED BY <1>1, <1>2, <1>3, <1>4 DEF WalkSound, CreditSound

\* On every root tree the walk of getNextTx never meets a missing list or root block,
\* and every cursor is at the end or at a deposit.
THEOREM WalkAlways ==
    ASSUME StableNeighbors, PrevRootsKnown
    PROVE  Spec => []WalkSound
<1>1. Init => Inv
  BY InitInv
<1>2. Inv /\ [Next]_vars => Inv'
  BY NextInv
<1>3. Inv => WalkSound
  BY InvIsSound
<1> QED BY <1>1, <1>2, <1>3, PTL DEF Spec

\* Crediting is exact on every root tree (RunCrossShardTxWithCursor and AddRootBlock): a
\* minor chain has credited exactly the deposits up to its cursor, none of them twice.
THEOREM CreditedAlways ==
    ASSUME StableNeighbors, PrevRootsKnown
    PROVE  Spec => []CreditSound
<1>1. Init => Inv
  BY InitInv
<1>2. Inv /\ [Next]_vars => Inv'
  BY NextInv
<1>3. Inv => CreditSound
  BY InvIsSound
<1> QED BY <1>1, <1>2, <1>3, PTL DEF Spec

-----------------------------------------------------------------------------
\* A finished block is a step of the abstract inbox.
LEMMA FinishDelivers ==
    ASSUME Inv, Finish
    PROVE  Promise!Deliver
<1> DEFINE b == [root |-> run.max, cursor |-> CursorInfo(run),
                 done |-> path[run.on].done \cup run.got]
           n == run.on
           done == path[n].done \cup run.got
           view == ViewOf(path)
<1>1. run.st = "done" /\ path' = Append(SubSeq(path, 1, n), b)
  BY DEF Finish
<1>2. run # Idle
  BY <1>1 DEF Idle
<1>3. run \in RunFields /\ path \in Seq(MinorBlock) /\ n \in 1 .. Len(path)
  BY <1>2 DEF Inv, TypeOK, RunFields
<1>4. /\ run.max \in RBlock /\ Follows(run.max, path[n].root)
      /\ done = UptoCursor(run.max, CursorInfo(run))
      /\ run.got \cap path[n].done = {}
  BY <1>2, <1>3 DEF Inv, RunOK, Follows, RunFields
<1>5. \/ run.got = {} /\ path[n].done = Inbox[run.max]
      \/ \E q \in run.got : done = UptoCursor(run.max, q)
  BY <1>1, <1>2 DEF Inv, Progress
<1>6. done \in Promise!Credits(run.max, path[n].done)
  <2>1. CASE run.got = {} /\ path[n].done = Inbox[run.max]
    BY <2>1 DEF Promise!Credits
  <2>2. CASE \E q \in run.got : done = UptoCursor(run.max, q)
    <3>1. PICK q \in run.got : done = UptoCursor(run.max, q)
      BY <2>2
    <3>2. q \in Inbox[run.max] /\ q \notin path[n].done
      BY <1>4 DEF UptoCursor
    <3>3. path[n].done # Inbox[run.max]
      BY <3>2
    <3>4. done = Promise!Through(run.max, q)
      BY <3>1 DEF Promise!Through, UptoCursor
    <3> HIDE DEF done
    <3> QED BY <3>2, <3>3, <3>4 DEF Promise!Credits
  <2> QED BY <1>5, <2>1, <2>2
<1>7. /\ view \in Seq([root : RBlock, done : SUBSET (Nat \X Nat \X Nat)])
      /\ Len(view) = Len(path)
      /\ \A i \in 1 .. Len(path) : view[i] = [root |-> path[i].root, done |-> path[i].done]
  <2>1. \A i \in 1 .. Len(path) : path[i] \in MinorBlock
    BY <1>3
  <2>2. Len(path) \in Nat
    BY <1>3
  <2> QED BY <2>1, <2>2 DEF ViewOf, MinorBlock
<1>8. /\ Len(path') = n + 1 /\ path'[n + 1] = b /\ b \in MinorBlock /\ n \in Nat
      /\ \A i \in 1 .. n : path'[i] = path[i]
  <2>1. path[n] \in MinorBlock /\ CursorInfo(run) \in Nat \X Nat \X Nat
    BY <1>3, RootPath DEF CursorInfo, RunFields
  <2>2. b \in MinorBlock
    BY <1>3, <2>1 DEF MinorBlock, RunFields
  <2> HIDE DEF b
  <2> QED BY <1>1, <1>3, <2>2
<1> DEFINE e == [root |-> run.max, done |-> done]
<1>9. ViewOf(path)' = Append(SubSeq(view, 1, n), e)
  <2> DEFINE V == [root : RBlock, done : SUBSET (Nat \X Nat \X Nat)]
             view2 == ViewOf(path)'
             t == Append(SubSeq(view, 1, n), e)
  <2>0. [root |-> b.root, done |-> b.done] = e
    OBVIOUS
  <2> HIDE DEF n, b
  <2>1. \A i \in 1 .. n + 1 : path'[i] \in MinorBlock
    <3>1. \A i \in 1 .. n : path'[i] \in MinorBlock
      BY <1>3, <1>8
    <3> QED BY <1>3, <1>8, <3>1
  <2>2. /\ view2 \in Seq(V) /\ Len(view2) = n + 1
        /\ \A i \in 1 .. n + 1 : view2[i] = [root |-> path'[i].root, done |-> path'[i].done]
    <3>1. view2 = [i \in 1 .. n + 1 |-> [root |-> path'[i].root, done |-> path'[i].done]]
      BY <1>8 DEF ViewOf
    <3>2. n + 1 \in Nat
      BY <1>3
    <3>3. \A i \in 1 .. n + 1 : [root |-> path'[i].root, done |-> path'[i].done] \in V
      BY <2>1 DEF MinorBlock
    <3> HIDE DEF V, view2
    <3> QED BY <3>1, <3>2, <3>3
  <2>3. view2[n + 1] = e
    <3> HIDE DEF V, view2, e
    <3>1. n + 1 \in 1 .. n + 1
      BY <1>8
    <3>2. view2[n + 1] = [root |-> path'[n + 1].root, done |-> path'[n + 1].done]
      BY <2>2, <3>1
    <3> QED BY <1>8, <2>0, <3>2
  <2>4. \A i \in 1 .. n : view2[i] = view[i]
    <3> HIDE DEF view2, view
    <3>1. ASSUME NEW i \in 1 .. n PROVE view2[i] = view[i]
      <4>1. i \in 1 .. n + 1 /\ i \in 1 .. Len(path)
        BY <1>3, <1>8
      <4>2. path'[i] = path[i]
        BY <1>8
      <4>3. view[i] = [root |-> path[i].root, done |-> path[i].done]
        BY <1>7, <4>1
      <4> QED BY <2>2, <4>1, <4>2, <4>3
    <3> QED BY <3>1
  <2>5. e \in V
    <3>1. n + 1 \in 1 .. n + 1
      BY <1>3
    <3> QED BY <2>2, <2>3, <3>1
  <2> HIDE DEF V, view2, view, e
  <2>6. SubSeq(view, 1, n) \in Seq(V) /\ Len(SubSeq(view, 1, n)) = n
        /\ \A i \in 1 .. n : SubSeq(view, 1, n)[i] = view[i]
    <3>1. view \in Seq(V) /\ n \in Nat /\ n <= Len(view)
      BY <1>3, <1>7, <1>8 DEF V
    <3> QED BY <3>1
  <2>7. t \in Seq(V) /\ Len(t) = n + 1 /\ t[n + 1] = e /\ \A i \in 1 .. n : t[i] = view[i]
    BY <1>3, <2>5, <2>6
  <2> HIDE DEF t
  <2>8. \A i \in 1 .. Len(view2) : view2[i] = t[i]
    BY <1>3, <2>2, <2>3, <2>4, <2>7
  <2>9. view2 = t
    BY <2>2, <2>7, <2>8, SeqEqual
  <2> QED BY <2>9 DEF view2, t
<1>10. view[n] = [root |-> path[n].root, done |-> path[n].done] /\ n \in 1 .. Len(view)
  BY <1>3, <1>7
<1> HIDE DEF view
<1>11. view[n].root = path[n].root /\ view[n].done = path[n].done
  BY <1>10
<1>12. path[n].done \subseteq done
  OBVIOUS
<1> HIDE DEF done, n
<1> QED
  BY <1>4, <1>6, <1>9, <1>10, <1>11, <1>12 DEF Promise!Deliver, view

\* The abstract inbox sees no other step.
LEMMA OtherStepsStutter ==
    ASSUME [Next]_vars, ~ Finish
    PROVE  UNCHANGED path
BY DEF Next, vars, AddCrossShardTxList, AddRootBlock, NewXShardTxCursor, GetNextTx, NextInList,
       NextHeader, NextRootBlock, ReachEOF, Abort

\* The code implements XShardInbox: each block that RunCrossShardTxWithCursor completes
\* credits the next deposits of the inbox, and at least one if there are any left.
THEOREM ImplementsInbox ==
    ASSUME StableNeighbors, PrevRootsKnown
    PROVE  Spec => InboxPromise
<1>1. Init => Inv
  BY InitInv
<1>2. Inv /\ [Next]_vars => Inv'
  BY NextInv
<1>3. Init => Promise!Init
  <2> SUFFICES ASSUME Init PROVE Promise!Init
    OBVIOUS
  <2> DEFINE b == [root |-> GenesisRoot, cursor |-> <<GenesisHeight, 0, 0>>, done |-> {}]
  <2>1. path = <<b>>
    BY DEF Init
  <2>2. Len(path) = 1 /\ path[1].root = GenesisRoot /\ path[1].done = {}
    BY <2>1
  <2> QED BY <2>2 DEF Promise!Init, ViewOf
<1>4. Inv /\ [Next]_vars => [Promise!Deliver]_(ViewOf(path))
  <2> SUFFICES ASSUME Inv, [Next]_vars
               PROVE  Promise!Deliver \/ UNCHANGED ViewOf(path)
    OBVIOUS
  <2>1. CASE Finish
    BY <2>1, FinishDelivers
  <2>2. CASE ~ Finish
    BY <2>2, OtherStepsStutter DEF ViewOf
  <2> QED BY <2>1, <2>2
<1> QED BY <1>1, <1>2, <1>3, <1>4, PTL DEF Spec, InboxPromise, Promise!Spec

=============================================================================
