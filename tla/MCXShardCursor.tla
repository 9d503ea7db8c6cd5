--------------------------- MODULE MCXShardCursor ---------------------------
(* Small root trees with headers of other shards, for XShardCursor.          *)
EXTENDS XShardCursor, TLC

CONSTANTS r0, r1, r2, r3, f2, f3,  \* root blocks; f2 and f3 are a fork above r1
          a, b, k, e, n, o         \* headers; e has no deposits, o is the shard's own

Roots == {r0, r1, r2, r3, f2, f3}
Heights == r0 :> 0 @@ r1 :> 1 @@ r2 :> 2 @@ r3 :> 3 @@ f2 :> 2 @@ f3 :> 3
Paths ==
    r0 :> (0 :> r0) @@ r1 :> (0 :> r0 @@ 1 :> r1)
    @@ r2 :> (0 :> r0 @@ 1 :> r1 @@ 2 :> r2)
    @@ r3 :> (0 :> r0 @@ 1 :> r1 @@ 2 :> r2 @@ 3 :> r3)
    @@ f2 :> (0 :> r0 @@ 1 :> r1 @@ 2 :> f2)
    @@ f3 :> (0 :> r0 @@ 1 :> r1 @@ 2 :> f2 @@ 3 :> f3)

Hdrs == {a, b, k, e, n, o}

\* a was mined on genesis, where the shard takes no deposits yet; b and e on r1.  The
\* fork confirms b and e in another order and k does not exist there.
Contents ==
    r0 :> <<>> @@ r1 :> <<a>> @@ r2 :> <<o, e, n, b>> @@ r3 :> <<k>> @@ f2 :> <<b>> @@ f3 :> <<e>>
MinedOn == a :> r0 @@ b :> r1 @@ k :> r1 @@ n :> r1 @@ e :> r1 @@ o :> r1
Deposits == a :> 1 @@ b :> 2 @@ k :> 1 @@ n :> 0 @@ e :> 0 @@ o :> 1

\* n's shard is not a neighbor, the others are.
Neighbors == [h \in Hdrs |-> IF h = n THEN {} ELSE 0 .. 3]

=============================================================================
