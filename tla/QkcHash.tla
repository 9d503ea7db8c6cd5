------------------------------- MODULE QkcHash -------------------------------
(***************************************************************************)
(* The parts of the proof-of-work function qkchash that have a state: the  *)
(* left-leaning red-black tree that every hash fills and then edits by     *)
(* position, and the list of caches, one per epoch, that the hashes of all *)
(* goroutines share.  Nodes that disagree on the k-th value of a tree      *)
(* disagree on every seal.  The rotation statistics, a register that no    *)
(* operation reads, and the mixing of words are left out.                  *)
(***************************************************************************)
EXTENDS Integers, Sequences, FiniteSets, SequencesExt

CONSTANTS
    TreeValues,       \* values, numbers other than Null_Value
    CacheAheadRound,  \* cacheAheadRound
    MaxEpoch,         \* bound on epochs asked for
    Hashers           \* goroutines that hash

VARIABLES
    tree,      \* llrb: root and size
    keptSet,   \* the set of values that the tree should hold
    treeGot,   \* the last operation's answer, and the answer for the set
    caches,    \* epoch + 1 -> cache object
    cacheHeap, \* objects -> seed and whether ls is filled in
    hashing    \* goroutine -> the epoch and the object it hashes with

treeVars == <<tree, keptSet, treeGot>>
seedVars == <<caches, cacheHeap, hashing>>

Null_Value == -1

-----------------------------------------------------------------------------
\* A node is a value, the number of nodes on its left (Index), two links, a colour.
Nil == <<>>
Leaf(value) == <<value, 0, Nil, Nil, FALSE>>
Value(h) == h[1]
Index(h) == h[2]
Left(h) == h[3]
Right(h) == h[4]
Black(h) == h[5]
WithLeft(h, x) == [h EXCEPT ![3] = x]
WithRight(h, x) == [h EXCEPT ![4] = x]
Coloured(h, black) == [h EXCEPT ![5] = black]
isRed(h) == h # Nil /\ ~Black(h)

flip(h) ==
    <<Value(h), Index(h), Coloured(Left(h), ~Black(Left(h))), Coloured(Right(h), ~Black(Right(h))), ~Black(h)>>

\* A panic has no value; the operations that would meet it are never reached.
PanicBlackLink == CHOOSE x : x = "rotating a black link"

\* Mutant: the node that moves up does not count what it has got on its left.
MutrotateLeft(h) ==
    LET x == Right(h)
    IN  IF Black(x) THEN PanicBlackLink
        ELSE <<Value(x), Index(x), Coloured(WithRight(h, Left(x)), FALSE), Right(x), Black(h)>>

rotateLeft(h) ==
    LET x == Right(h)
    IN  IF Black(x) THEN PanicBlackLink
        ELSE <<Value(x), Index(x) + Index(h) + 1,
               Coloured(WithRight(h, Left(x)), FALSE), Right(x), Black(h)>>

rotateRight(h) ==
    LET x == Left(h)
    IN  IF Black(x) THEN PanicBlackLink
        ELSE <<Value(x), Index(x), Left(x),
               <<Value(h), Index(h) - (Index(x) + 1), Right(x), Right(h), FALSE>>, Black(h)>>

\* The last two repairs of insert and of fixUp.
Rebalanced(h) ==
    LET g == IF isRed(Left(h)) /\ isRed(Left(Left(h))) THEN rotateRight(h) ELSE h
    IN  IF isRed(Left(g)) /\ isRed(Right(g)) THEN flip(g) ELSE g

fixUp(h) == Rebalanced(IF isRed(Right(h)) THEN rotateLeft(h) ELSE h)

moveRedLeft(h) ==
    LET g == flip(h)
    IN  IF isRed(Left(Right(g))) THEN flip(rotateLeft(WithRight(g, rotateRight(Right(g))))) ELSE g

moveRedRight(h) ==
    LET g == flip(h) IN IF isRed(Left(Left(g))) THEN flip(rotateRight(g)) ELSE g

\* Each returns the node that takes h's place, and the value replaced or deleted.
RECURSIVE insert(_, _)
insert(h, value) ==
    IF h = Nil THEN <<Leaf(value), Null_Value>>
    ELSE LET below == IF value < Value(h) THEN insert(Left(h), value)
                      ELSE IF Value(h) < value THEN insert(Right(h), value)
                      ELSE <<Nil, Value(h)>>
             grown == IF below[2] = Null_Value THEN 1 ELSE 0
             g == IF value < Value(h) THEN [WithLeft(h, below[1]) EXCEPT ![2] = @ + grown]
                  ELSE IF Value(h) < value THEN WithRight(h, below[1])
                  ELSE h
         IN  <<Rebalanced(IF isRed(Right(g)) /\ ~isRed(Left(g)) THEN rotateLeft(g) ELSE g), below[2]>>

RECURSIVE deleteMin(_)
deleteMin(h) ==
    IF h = Nil THEN <<Nil, Null_Value>>
    ELSE IF Left(h) = Nil THEN <<Nil, Value(h)>>
    ELSE LET g == IF ~isRed(Left(h)) /\ ~isRed(Left(Left(h))) THEN moveRedLeft(h) ELSE h
             below == deleteMin(Left(g))
         IN  <<fixUp([WithLeft(g, below[1]) EXCEPT ![2] = @ - 1]), below[2]>>

\* A node on the way to a deletion on its right.
LeaningRight(h) ==
    IF Right(h) # Nil /\ ~isRed(Right(h)) /\ ~isRed(Left(Right(h))) THEN moveRedRight(h) ELSE h

\* The value of g is replaced by the least on its right.
WithoutTop(g) ==
    LET below == deleteMin(Right(g)) IN [WithRight(g, below[1]) EXCEPT ![1] = below[2]]

RECURSIVE delete(_, _)
delete(h, value) ==
    IF h = Nil THEN <<Nil, Null_Value>>
    ELSE IF value < Value(h) THEN
        IF Left(h) = Nil THEN <<h, Null_Value>>
        ELSE LET g == IF ~isRed(Left(h)) /\ ~isRed(Left(Left(h))) THEN moveRedLeft(h) ELSE h
                 below == delete(Left(g), value)
                 gone == IF below[2] # Null_Value THEN 1 ELSE 0
             IN  <<fixUp([WithLeft(g, below[1]) EXCEPT ![2] = @ - gone]), below[2]>>
    ELSE LET k == IF isRed(Left(h)) THEN rotateRight(h) ELSE h
         IN  IF Value(k) = value /\ Right(k) = Nil THEN <<Nil, Value(k)>>
             ELSE LET g == LeaningRight(k)
                      below == delete(Right(g), value)
                  IN  IF Value(g) = value THEN <<fixUp(WithoutTop(g)), value>>
                      ELSE <<fixUp(WithRight(g, below[1])), below[2]>>

RECURSIVE deleteAt(_, _)
deleteAt(h, idx) ==
    IF h = Nil THEN <<Nil, Null_Value>>
    ELSE IF idx < Index(h) THEN
        LET g == IF ~isRed(Left(h)) /\ ~isRed(Left(Left(h))) THEN moveRedLeft(h) ELSE h
            below == deleteAt(Left(g), idx)
        IN  <<fixUp([WithLeft(g, below[1]) EXCEPT ![2] = @ - 1]), below[2]>>
    ELSE LET k == IF isRed(Left(h)) THEN rotateRight(h) ELSE h
         IN  IF Index(k) = idx /\ Right(k) = Nil THEN <<Nil, Value(k)>>
             ELSE LET g == LeaningRight(k)
                      below == deleteAt(Right(g), idx - Index(g) - 1)
                  IN  IF Index(g) = idx THEN <<fixUp(WithoutTop(g)), Value(g)>>
                      ELSE <<fixUp(WithRight(g, below[1])), below[2]>>

\* Get and GetByIndex, as the value found.
RECURSIVE Get(_, _)
Get(h, key) ==
    IF h = Nil THEN Null_Value
    ELSE IF key < Value(h) THEN Get(Left(h), key)
    ELSE IF key > Value(h) THEN Get(Right(h), key) ELSE Value(h)

RECURSIVE getByIndex(_, _)
getByIndex(h, idx) ==
    IF idx = Index(h) THEN Value(h)
    ELSE IF idx < Index(h) THEN getByIndex(Left(h), idx)
    ELSE getByIndex(Right(h), idx - Index(h) - 1)

GetByIndex(idx) == IF tree.root = Nil \/ idx >= tree.size THEN Null_Value ELSE getByIndex(tree.root, idx)

\* The root is painted black after every change.
Rooted(root, size) == [root |-> IF root = Nil THEN Nil ELSE Coloured(root, TRUE), size |-> size]

-----------------------------------------------------------------------------
TreeInit == tree = [root |-> Nil, size |-> 0] /\ keptSet = {} /\ treeGot = <<Null_Value, Null_Value>>

\* The value at a position of the set, counted from 0.
KthOf(S, k) ==
    IF k >= Cardinality(S) THEN Null_Value ELSE CHOOSE x \in S : Cardinality({y \in S : y < x}) = k

Insert(v) ==
    \E r \in {insert(tree.root, v)} :
       /\ tree' = Rooted(r[1], IF r[2] = Null_Value THEN tree.size + 1 ELSE tree.size)
       /\ keptSet' = keptSet \cup {v}
       /\ treeGot' = <<r[2], IF v \in keptSet THEN v ELSE Null_Value>>

Delete(v) ==
    \E r \in {delete(tree.root, v)} :
       /\ tree' = Rooted(r[1], IF r[2] # Null_Value THEN tree.size - 1 ELSE tree.size)
       /\ keptSet' = keptSet \ {v}
       /\ treeGot' = <<r[2], IF v \in keptSet THEN v ELSE Null_Value>>

DeleteAt(k) ==
    \E r \in {deleteAt(tree.root, k)} :
       /\ tree' = Rooted(r[1], IF r[2] # Null_Value THEN tree.size - 1 ELSE tree.size)
       /\ keptSet' = keptSet \ {KthOf(keptSet, k)}
       /\ treeGot' = <<r[2], KthOf(keptSet, k)>>

TreeNext ==
    \/ \E v \in TreeValues : Insert(v) \/ Delete(v)
    \/ \E k \in 0 .. tree.size : DeleteAt(k)

TreeSpec == TreeInit /\ [][TreeNext]_treeVars

-----------------------------------------------------------------------------
\* Keccak256 takes the seed of an epoch to that of the next: a seed is as good as
\* its epoch.
Cache(seed, filled) == [seed |-> seed, filled |-> filled]
SeedInit ==
    /\ caches = <<1>> /\ cacheHeap = <<Cache(0, TRUE)>>
    /\ hashing = [g \in Hashers |-> <<>>]

\* Mutant: old caches are emptied in place.
MutShrunk(cs, heap) ==
    <<cs, [o \in DOMAIN heap |->
              IF \E i \in 1 .. Len(cs) - 2 * CacheAheadRound : cs[i] = o
              THEN Cache(heap[o].seed, FALSE) ELSE heap[o]]>>

\* All but the last 2 * CacheAheadRound caches give way to new objects without ls.
Shrunk(cs, heap) ==
    LET old == IF Len(cs) > 2 * CacheAheadRound THEN Len(cs) - 2 * CacheAheadRound ELSE 0
    IN  <<[i \in DOMAIN cs |-> IF i <= old THEN Len(heap) + i ELSE cs[i]],
          heap \o [i \in 1 .. old |-> Cache(heap[cs[i]].seed, FALSE)]>>

\* New caches up to CacheAheadRound beyond the epoch, then the shrinking.
Ahead(epoch) ==
    LET add == epoch - Len(caches) + CacheAheadRound
        last == cacheHeap[caches[Len(caches)]].seed
    IN  Shrunk(caches \o [i \in 1 .. add |-> Len(cacheHeap) + i],
               cacheHeap \o [i \in 1 .. add |-> Cache(last + i, TRUE)])

\* getCacheFromHeight, under the mutex; g then hashes with what it was given.
getCacheFromHeight(g, epoch) ==
    /\ hashing[g] = <<>>
    /\ IF epoch < Len(caches)
       THEN /\ cacheHeap' = [cacheHeap EXCEPT ![caches[epoch + 1]].filled = TRUE]
            /\ UNCHANGED caches
       ELSE \E r \in {Ahead(epoch)} : caches' = r[1] /\ cacheHeap' = r[2]
    /\ hashing' = [hashing EXCEPT ![g] = <<epoch, caches'[epoch + 1]>>]

HashDone(g) ==
    /\ hashing[g] # <<>>
    /\ hashing' = [hashing EXCEPT ![g] = <<>>]
    /\ UNCHANGED <<caches, cacheHeap>>

SeedNext ==
    \E g \in Hashers : HashDone(g) \/ \E epoch \in 0 .. MaxEpoch : getCacheFromHeight(g, epoch)

SeedSpec == SeedInit /\ [][SeedNext]_seedVars

-----------------------------------------------------------------------------
RECURSIVE InOrder(_)
InOrder(h) == IF h = Nil THEN <<>> ELSE InOrder(Left(h)) \o <<Value(h)>> \o InOrder(Right(h))

\* The black nodes on the way down from h, when it is the same on all ways and no red
\* node leans to the right or follows another one; -1 otherwise.
RECURSIVE BlackHeight(_)
BlackHeight(h) ==
    IF h = Nil THEN 0
    ELSE LET l == BlackHeight(Left(h)) r == BlackHeight(Right(h))
         IN  IF l # r \/ l = -1 \/ isRed(Right(h)) \/ (isRed(h) /\ isRed(Left(h))) THEN -1
             ELSE IF Black(h) THEN l + 1 ELSE l

\* Whatever is inserted, deleted by value or deleted by position, and in whichever
\* order, the tree is the sorted set of what it holds: every answer, and the value at
\* every position, is the one that the set gives, the size is the number of values, and
\* the tree stays balanced (its rotations never meet a black link).
TreeIsSortedSet ==
    /\ treeGot[1] = treeGot[2]
    /\ tree.size = Cardinality(keptSet)
    /\ \A k \in 0 .. tree.size : GetByIndex(k) = KthOf(keptSet, k)
    /\ \A v \in TreeValues : (Get(tree.root, v) = v) = (v \in keptSet)
    /\ BlackHeight(tree.root) >= 0 /\ ~isRed(tree.root)

\* While a goroutine hashes, the cache it was given stays the filled cache of the epoch
\* of its block, whatever epochs the others ask for in the meantime.
HashCacheStays ==
    \A g \in Hashers :
        hashing[g] # <<>> => cacheHeap[hashing[g][2]] = Cache(hashing[g][1], TRUE)

=============================================================================
