----------------------------- MODULE XShardInbox -----------------------------
(***************************************************************************)
(* What a shard promises to the senders of cross-shard deposits.           *)
(*                                                                         *)
(* Every root block carries deposits for the shard, in a fixed order.  A   *)
(* minor block credits the next ones: none is left out, none is credited   *)
(* twice, and a block credits at least one unless its root block has none  *)
(* left.  A reorganisation only continues from an earlier minor block.     *)
(***************************************************************************)
EXTENDS Integers, Sequences

CONSTANTS
    Root,              \* root blocks
    Genesis,           \* the root block of the shard's genesis
    Follows(_, _),     \* the first root block is the second or descends from it
    Inbox,             \* deposits on the root chain that ends in a root block
    Upto(_, _)         \* the order of deposits

VARIABLE view          \* the minor chain: the root block and the credited deposits

Init == view = <<[root |-> Genesis, done |-> {}]>>

\* What a block on r has credited when q is the last deposit it takes.
Through(r, q) == {p \in Inbox[r] : Upto(p, q)}

\* What the next block on r may have credited when its parent has credited done.
Credits(r, done) ==
    IF done = Inbox[r] THEN {done} ELSE {Through(r, q) : q \in Inbox[r] \ done}

Deliver ==
    \E i \in 1 .. Len(view), r \in Root :
      /\ Follows(r, view[i].root)
      /\ \E done \in Credits(r, view[i].done) :
           /\ view[i].done \subseteq done
           /\ view' = Append(SubSeq(view, 1, i), [root |-> r, done |-> done])

Spec == Init /\ [][Deliver]_view

=============================================================================
