------------------------------- MODULE StateDB -------------------------------
(***************************************************************************)
(* The world state of a shard while transactions run (core/state): the     *)
(* live account objects over the account trie, the journal that            *)
(* RevertToSnapshot replays, the end of a transaction (Finalise), of a     *)
(* block (Commit) and Copy.  An account holds a balance per token          *)
(* (core/types/token.go): few tokens are a list inside the account, more   *)
(* than TrieThreshold move into a trie of their own, with a cache before   *)
(* it.                                                                     *)
(*                                                                         *)
(* An account has one storage slot.  Code is 0 (none) or 1.  The tries are *)
(* their contents.                                                         *)
(***************************************************************************)
EXTENDS Integers, Sequences, SequencesExt, FiniteSets

CONSTANTS
    Addr, Token,
    GenesisBalance,  \* address -> token -> balance; an account exists when one is positive
    TrieThreshold,   \* TokenTrieThreshold
    Ripemd,          \* the address whose touch survives a revert
    NoVal, NoObj, NoTrie,
    MaxOps           \* bound: operations in a behaviour

VARIABLES
    sdb,             \* the StateDB
    saved,           \* what the state looked like at each valid revision
    sdbOps

sdbVars == <<sdb, saved, sdbOps>>

----------------------------------------------------------------------------
(* TokenBalances *)

NonZero(c) == {k \in Token : c[k] # NoVal /\ c[k] > 0}
NotUsingTrie(o) == o.ttrie = NoTrie /\ Cardinality(NonZero(o.cache)) <= TrieThreshold
NoCache == [k \in Token |-> NoVal]

TokenBalance(o, k) ==
    IF o.cache[k] # NoVal THEN o.cache[k] ELSE IF o.ttrie # NoTrie THEN o.ttrie[k] ELSE 0

\* GetTokenBalance keeps what it read from the trie.
Cached(o, k) ==
    IF o.cache[k] = NoVal /\ o.ttrie # NoTrie /\ o.ttrie[k] > 0
    THEN [o EXCEPT !.cache[k] = o.ttrie[k]] ELSE o

\* Commit moves the cache into the trie when the account uses one.
TokensCommit(o) ==
    IF NotUsingTrie(o) THEN o
    ELSE [o EXCEPT !.ttrie = [k \in Token |-> TokenBalance(o, k)], !.cache = NoCache]

\* A map replaces everything: the trie, and the database it would need.
SetBalances(o, c) == [o EXCEPT !.cache = c, !.ttrie = NoTrie, !.hasdb = FALSE]

----------------------------------------------------------------------------
(* Objects *)

NewObject == [nonce |-> 0, cache |-> NoCache, ttrie |-> NoTrie, hasdb |-> TRUE, code |-> 0,
              strie |-> 0, origin |-> NoVal, slot |-> NoVal,
              suicided |-> FALSE, deleted |-> FALSE]

CommittedSlot(o) == IF o.origin # NoVal THEN o.origin ELSE o.strie
SlotOf(o) == IF o.slot # NoVal THEN o.slot ELSE CommittedSlot(o)
EmptyObject(o) == o.nonce = 0 /\ o.ttrie = NoTrie /\ NonZero(o.cache) = {} /\ o.code = 0

\* updateTrie: the dirty slot goes into the storage trie.
UpdateTrie(o) ==
    TokensCommit(IF o.slot = NoVal THEN o
                 ELSE [o EXCEPT !.slot = NoVal, !.origin = o.slot, !.strie = o.slot])

\* What the account trie stores, and an object read back from it.
Encode(o) == [nonce |-> o.nonce, code |-> o.code, strie |-> o.strie, ttrie |-> o.ttrie,
              cache |-> IF o.ttrie # NoTrie THEN NoCache
                        ELSE [k \in Token |-> IF k \in NonZero(o.cache) THEN o.cache[k] ELSE NoVal]]
Decode(e) == [NewObject EXCEPT !.nonce = e.nonce, !.code = e.code, !.strie = e.strie,
                               !.ttrie = e.ttrie, !.cache = e.cache]

----------------------------------------------------------------------------
(* The state *)

NoDirties == [a \in Addr |-> 0]
NewState(t) == [objs |-> [a \in Addr |-> NoObj], trie |-> t, journal |-> << >>,
                dirties |-> NoDirties, objDirty |-> {}, revisions |-> << >>, nextRevision |-> 0,
                refund |-> 0, logs |-> 0, fault |-> FALSE]

GenesisTrie ==
    [a \in Addr |->
        IF \A k \in Token : GenesisBalance[a][k] = 0 THEN NoObj
        ELSE Encode(TokensCommit([NewObject EXCEPT !.cache = GenesisBalance[a]]))]

SdbInit ==
    /\ sdb = NewState(GenesisTrie)
    /\ saved = << >>
    /\ sdbOps = 0

\* getStateObject brings an account into the live set.
LoadObject(s, a) ==
    IF s.objs[a] = NoObj /\ s.trie[a] # NoObj THEN [s EXCEPT !.objs[a] = Decode(s.trie[a])] ELSE s
HasObject(s, a) == LET o == LoadObject(s, a).objs[a] IN o # NoObj /\ ~o.deleted

\* journal.append counts the account an entry dirties; "reset" dirties none.
Record(s, e) ==
    [s EXCEPT !.journal = Append(@, e),
              !.dirties = IF e.type \in {"reset", "refund", "log"} THEN @
                          ELSE [@ EXCEPT ![e.addr] = @ + 1]]

createObject(s, a) ==
    LET prev == LoadObject(s, a).objs[a]
        e == IF HasObject(s, a) THEN [type |-> "reset", addr |-> a, prev |-> prev]
             ELSE [type |-> "create", addr |-> a, prev |-> NoObj]
    IN  [Record(LoadObject(s, a), e) EXCEPT !.objs[a] = NewObject]

GetOrNew(s, a) == IF HasObject(s, a) THEN LoadObject(s, a) ELSE createObject(s, a)

Touch(s, a) ==
    LET t == Record(s, [type |-> "touch", addr |-> a, prev |-> 0])
    IN  IF a = Ripemd THEN [t EXCEPT !.dirties[a] = @ + 1] ELSE t

----------------------------------------------------------------------------
(* The setters *)

\* The journal keeps only the previous balance of the token that changes.
MutSetBalance(s, a, k, amount) ==
    [Record(s, [type |-> "balance", addr |-> a,
                prev |-> [NoCache EXCEPT ![k] = s.objs[a].cache[k]]])
     EXCEPT !.objs[a].cache[k] = amount]

SetBalance(s, a, k, amount) ==
    [Record(s, [type |-> "balance", addr |-> a, prev |-> s.objs[a].cache])
     EXCEPT !.objs[a].cache[k] = amount]

AddBalance(s, a, k, amount) ==
    LET t == GetOrNew(s, a)
        u == [t EXCEPT !.objs[a] = Cached(@, k)]
    IN  IF amount = 0 THEN Touch(t, a)
        ELSE SetBalance(u, a, k, TokenBalance(u.objs[a], k) + amount)

SubBalance(s, a, k, amount) ==
    LET t == GetOrNew(s, a)
        u == [t EXCEPT !.objs[a] = Cached(@, k)]
    IN  IF amount = 0 THEN t ELSE SetBalance(u, a, k, TokenBalance(u.objs[a], k) - amount)

SetNonce(s, a, n) ==
    LET t == GetOrNew(s, a)
    IN  [Record(t, [type |-> "nonce", addr |-> a, prev |-> t.objs[a].nonce]) EXCEPT !.objs[a].nonce = n]

SetCode(s, a, c) ==
    LET t == GetOrNew(s, a)
    IN  [Record(t, [type |-> "code", addr |-> a, prev |-> t.objs[a].code]) EXCEPT !.objs[a].code = c]

SetState(s, a, v) ==
    LET t == GetOrNew(s, a)
        u == IF t.objs[a].slot = NoVal
             THEN [t EXCEPT !.objs[a].origin = CommittedSlot(t.objs[a])] ELSE t
        prev == SlotOf(u.objs[a])
    IN  IF prev = v THEN u
        ELSE [Record(u, [type |-> "storage", addr |-> a, prev |-> prev]) EXCEPT !.objs[a].slot = v]

Suicide(s, a) ==
    LET t == LoadObject(s, a)
        o == t.objs[a]
    IN  IF ~HasObject(s, a) THEN t
        ELSE [Record(t, [type |-> "suicide", addr |-> a,
                         prev |-> [suicided |-> o.suicided, cache |-> o.cache]])
              EXCEPT !.objs[a] = [o EXCEPT !.suicided = TRUE, !.cache = NoCache,
                                           !.ttrie = NoTrie, !.hasdb = TRUE]]

\* CreateAccount carries the balance over; evm.create sets the nonce next, with
\* no snapshot between.
CreateContract(s, a) ==
    LET prev == LoadObject(s, a).objs[a]
        t == createObject(s, a)
    IN  SetNonce(IF HasObject(s, a) THEN [t EXCEPT !.objs[a] = SetBalances(@, prev.cache)] ELSE t,
                 a, 1)

AddRefund(s) == [Record(s, [type |-> "refund", addr |-> NoVal, prev |-> s.refund]) EXCEPT !.refund = @ + 1]
SubRefund(s) == [Record(s, [type |-> "refund", addr |-> NoVal, prev |-> s.refund]) EXCEPT !.refund = @ - 1]
AddLog(s)    == [Record(s, [type |-> "log", addr |-> NoVal, prev |-> 0]) EXCEPT !.logs = @ + 1]

----------------------------------------------------------------------------
(* Reverting *)

UndoEntry(s, e) ==
    LET a == e.addr
        t == IF a = NoVal THEN s ELSE LoadObject(s, a)
    IN  CASE e.type = "create"  -> [s EXCEPT !.objs[a] = NoObj, !.objDirty = @ \ {a}]
          [] e.type = "reset"   -> [s EXCEPT !.objs[a] = e.prev]
          [] e.type = "suicide" ->
                IF HasObject(s, a)
                THEN [t EXCEPT !.objs[a] = SetBalances([@ EXCEPT !.suicided = e.prev.suicided],
                                                       e.prev.cache)]
                ELSE t
          [] e.type = "balance" -> [t EXCEPT !.objs[a] = SetBalances(@, e.prev)]
          [] e.type = "nonce"   -> [t EXCEPT !.objs[a].nonce = e.prev]
          [] e.type = "code"    -> [t EXCEPT !.objs[a].code = e.prev]
          [] e.type = "storage" -> [t EXCEPT !.objs[a].slot = e.prev]
          [] e.type = "refund"  -> [s EXCEPT !.refund = e.prev]
          [] e.type = "log"     -> [s EXCEPT !.logs = @ - 1]
          [] e.type = "touch"   -> s

\* journal.revert: undo the last entry and its dirty mark.
UndoLast(s) ==
    LET e == Last(s.journal)
        t == UndoEntry(s, e)
    IN  [t EXCEPT !.journal = Front(@),
                  !.dirties = IF e.type \in {"reset", "refund", "log"} THEN @
                              ELSE [@ EXCEPT ![e.addr] = @ - 1]]

RevertTo(s, i) ==
    [FoldLeft(LAMBDA t, n : UndoLast(t), s,
              [n \in 1 .. Len(s.journal) - s.revisions[i].index |-> n])
     EXCEPT !.revisions = SubSeq(@, 1, i - 1)]

----------------------------------------------------------------------------
(* The end of a transaction and of a block *)

ClearJournal(s) == [s EXCEPT !.journal = << >>, !.dirties = NoDirties, !.revisions = << >>, !.refund = 0]

\* A trie is needed and the object has lost its database.
Unbacked(o) == ~NotUsingTrie(o) /\ o.ttrie = NoTrie /\ ~o.hasdb

WriteObject(s, a) ==
    LET o == UpdateTrie(s.objs[a])
    IN  [s EXCEPT !.objs[a] = o, !.trie[a] = Encode(o), !.fault = @ \/ Unbacked(s.objs[a])]

DeleteObject(s, a) == [s EXCEPT !.objs[a].deleted = TRUE, !.trie[a] = NoObj]


Finalise(s) ==
    LET touched == {a \in Addr : s.dirties[a] > 0 /\ s.objs[a] # NoObj}
        put(t, a) == IF s.objs[a].suicided \/ EmptyObject(s.objs[a])
                     THEN DeleteObject(t, a) ELSE WriteObject(t, a)
    IN  [ClearJournal(FoldLeft(put, s, SetToSeq(touched))) EXCEPT !.objDirty = @ \cup touched]

\* Commit(true): every live object that is dirty, now or since an earlier Finalise.
Commit(s) ==
    LET isDirty == s.objDirty \cup {a \in Addr : s.dirties[a] > 0}
        live == {a \in Addr : s.objs[a] # NoObj}
        put(t, a) == IF s.objs[a].suicided \/ (a \in isDirty /\ EmptyObject(s.objs[a]))
                     THEN DeleteObject(t, a)
                     ELSE IF a \in isDirty THEN WriteObject(t, a) ELSE t
    IN  [ClearJournal(FoldLeft(put, s, SetToSeq(live))) EXCEPT !.objDirty = isDirty \ live]

\* Copy takes the dirty objects and the trie; the journal stays behind.
Copy(s) ==
    LET kept == {a \in s.objDirty \cup {b \in Addr : s.dirties[b] > 0} : s.objs[a] # NoObj}
    IN  [NewState(s.trie) EXCEPT !.objs = [a \in Addr |-> IF a \in kept THEN s.objs[a] ELSE NoObj],
                                 !.objDirty = kept, !.refund = s.refund, !.logs = s.logs,
                                 !.fault = s.fault]

----------------------------------------------------------------------------
(* What a reader of the state sees. *)

ObjectView(o) ==
    IF o.deleted THEN NoObj
    ELSE [nonce |-> o.nonce, code |-> o.code, slot |-> SlotOf(o), suicided |-> o.suicided,
          balance |-> [k \in Token |-> TokenBalance(o, k)]]

AccountView(s, a) == IF HasObject(s, a) THEN ObjectView(LoadObject(s, a).objs[a]) ELSE NoObj

StateView(s) == [accounts |-> [a \in Addr |-> AccountView(s, a)], refund |-> s.refund, logs |-> s.logs]

----------------------------------------------------------------------------
(* The calls a transaction makes. *)

Step(s) == sdb' = s /\ sdbOps' = sdbOps + 1

Change ==
    /\ UNCHANGED saved
    /\ \/ \E a \in Addr, k \in Token, n \in 0 .. 1 : Step(AddBalance(sdb, a, k, n))
       \/ \E a \in Addr, k \in Token :
             /\ AccountView(sdb, a) # NoObj
             /\ AccountView(sdb, a).balance[k] > 0
             /\ Step(SubBalance(sdb, a, k, 1))
       \/ \E a \in Addr :
             \/ Step(SetNonce(sdb, a, IF HasObject(sdb, a) THEN AccountView(sdb, a).nonce + 1 ELSE 1))
             \/ Step(GetOrNew(sdb, a))          \* GetNonce, GetBalances
             \/ Step(SetCode(sdb, a, 1))
             \/ \E v \in 0 .. 1 : Step(SetState(sdb, a, v))
             \/ Step(Suicide(sdb, a))
             \/ Step(CreateContract(sdb, a))
       \/ Step(AddRefund(sdb))
       \/ sdb.refund > 0 /\ Step(SubRefund(sdb))
       \/ Step(AddLog(sdb))

Snapshot ==
    /\ Step([sdb EXCEPT !.revisions = Append(@, [id |-> sdb.nextRevision, index |-> Len(sdb.journal)]),
                        !.nextRevision = @ + 1])
    /\ saved' = Append(saved, StateView(sdb))

RevertToSnapshot ==
    \E i \in DOMAIN sdb.revisions :
        Step(RevertTo(sdb, i)) /\ saved' = SubSeq(saved, 1, i - 1)

EndOfTransaction == Step(Finalise(sdb)) /\ saved' = << >>
EndOfBlock       == Step(Commit(sdb)) /\ saved' = << >>

\* Callers copy a state that no transaction has changed since it was finalised.
UseCopy == sdb.journal = << >> /\ Step(Copy(sdb)) /\ saved' = << >>

SdbNext ==
    /\ sdbOps < MaxOps
    /\ Change \/ Snapshot \/ RevertToSnapshot \/ EndOfTransaction \/ EndOfBlock \/ UseCopy

----------------------------------------------------------------------------
\* "RevertToSnapshot reverts all state changes made since the given revision":
\* from any state, going back to any valid snapshot shows every account, the
\* refund and the logs as they were when the snapshot was taken.
RevertRestores ==
    \A i \in DOMAIN sdb.revisions : StateView(RevertTo(sdb, i)) = saved[i]

\* An object that no journal entry dirties shows what the account trie stores,
\* which is why Finalise, Commit and Copy may skip it; and no object comes to
\* need a token trie without a database.
CleanIsStored ==
    /\ \A a \in Addr : sdb.objs[a] # NoObj /\ sdb.dirties[a] = 0 =>
          ObjectView(sdb.objs[a]) = IF sdb.trie[a] = NoObj THEN NoObj ELSE ObjectView(Decode(sdb.trie[a]))
    /\ ~sdb.fault

=============================================================================
