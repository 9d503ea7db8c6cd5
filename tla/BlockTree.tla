------------------------------ MODULE BlockTree ------------------------------
(***************************************************************************)
(* The blocks of one chain (root or minor) form a tree.  A tree is given   *)
(* by the height of every block and by its ancestors: Anc[b][h] is the     *)
(* block of height h on the path that ends in b, the block that following  *)
(* ParentHash() from b reaches after Number[b] - h steps.                  *)
(***************************************************************************)
EXTENDS Integers

\* Paths end in the block itself, climb one height at a time and agree with the
\* paths of the blocks they run through.
IsBlockTree(Block, Number, Anc) ==
    /\ Number \in [Block -> Nat]
    /\ \A b \in Block :
          /\ Anc[b] \in [0 .. Number[b] -> Block]
          /\ Anc[b][Number[b]] = b
          /\ \A h \in 0 .. Number[b] :
                /\ Number[Anc[b][h]] = h
                /\ \A k \in 0 .. h : Anc[Anc[b][h]][k] = Anc[b][k]

\* ParentHash(), for a block above height 0.
ParentOf(Number, Anc, b) == Anc[b][Number[b] - 1]

\* isSameChain: the walk from longer down to the height of shorter meets shorter.
\* The callers only ask when the heights are in this order.
IsSameChain(Number, Anc, longer, shorter) ==
    /\ Number[shorter] <= Number[longer]
    /\ Anc[longer][Number[shorter]] = shorter

\* Heights and paths of a tree given by its parent links, for the instances; the parent of a
\* block of height 0 is "".
HeightsOf(parent) ==
    LET height[b \in DOMAIN parent] == IF parent[b] = "" THEN 0 ELSE height[parent[b]] + 1
    IN  [b \in DOMAIN parent |-> height[b]]
PathsOf(parent) ==
    LET height == HeightsOf(parent)
        path[b \in DOMAIN parent] ==
            [h \in 0 .. height[b] |-> IF h = height[b] THEN b ELSE path[parent[b]][h]]
    IN  [b \in DOMAIN parent |-> path[b]]

=============================================================================
