----------------------------- MODULE NodeTable -----------------------------
(***************************************************************************)
(* The table of nodes of the discovery protocol (p2p/discover/table.go):   *)
(* its buckets with live entries, replacements and address counters, the   *)
(* loop that schedules refreshes and ticks, and the lookups of     *)
(* callers.  The transport is the interface of the same name: a ping is    *)
(* answered or not, findnode returns nodes or an error, and both end.      *)
(***************************************************************************)
EXTENDS Integers, FiniteSets, Sequences, TLC, SequencesExt

CONSTANTS NodeRec,        \* node records [id, ip]; an identity may change its address
          SelfId, BucketOf, Distance,
          LanIp,          \* addresses that are not counted
          Nursery,        \* bootstrap nodes
          BucketSize, MaxReplacements, BucketIpLimit, TableIpLimit,
          Alpha, MaxFindnodeFailures,
          UserLookup,     \* lookups of callers
          MaxAnswers, MaxTicks  \* bounds: nodes the network tells; events of the loop's timers

Bucket == {BucketOf[i] : i \in DOMAIN BucketOf}
Ips == {n.ip : n \in NodeRec}
Lookups == UserLookup \cup {"refresh"}

VARIABLES buckets,     \* [Bucket -> [entries, replacements, ips]]
          tableIps, seedDb, fails,
          tabLoop,     \* "running", "closing" or "closed"
          initDone, refreshing, waiting, revalidating,
          lookup,      \* [Lookups -> [at, asked, seen, pending, result, mayRefresh]]
          answers, ticks

tabVars == <<buckets, tableIps, seedDb, fails, tabLoop, initDone, refreshing, waiting, revalidating,
             lookup, answers, ticks>>
storeVars == <<buckets, tableIps>>

Position(list, id) == {i \in DOMAIN list : list[i].id = id}
Least(S) == CHOOSE i \in S : \A j \in S : i <= j

\* deleteNode and pushNode on a list.
deleteNode(list, n) ==
    IF Position(list, n.id) = {} THEN list ELSE RemoveAt(list, Least(Position(list, n.id)))
pushNode(list, n, max) == SubSeq(<<n>> \o list, 1, IF Len(list) < max THEN Len(list) + 1 ELSE max)

-----------------------------------------------------------------------------
(* Operations on a table t = [b |-> the bucket, ips |-> the counters of the table] *)

addIP(t, ip) == IF ip \in LanIp THEN t ELSE [t EXCEPT !.ips[ip] = @ + 1, !.b.ips[ip] = @ + 1]
CanAddIP(t, ip) == ip \in LanIp \/ (t.ips[ip] < TableIpLimit /\ t.b.ips[ip] < BucketIpLimit)

Less1(k) == IF k = 0 THEN 0 ELSE k - 1
removeIP(t, ip) == IF ip \in LanIp THEN t ELSE [t EXCEPT !.ips[ip] = Less1(@), !.b.ips[ip] = Less1(@)]

\* bump stores the record it is given, whose address may be a new one.
bump(t, n) ==
    IF Position(t.b.entries, n.id) = {} THEN t ELSE [t EXCEPT !.b.entries = <<n>> \o deleteNode(@, n)]

\* A replacement that becomes an entry stays a replacement.
MutbumpOrAdd(t, n) ==
    IF Position(t.b.entries, n.id) # {} THEN [ok |-> TRUE, t |-> bump(t, n)]
    ELSE IF Len(t.b.entries) >= BucketSize \/ ~CanAddIP(t, n.ip) THEN [ok |-> FALSE, t |-> t]
    ELSE [ok |-> TRUE, t |-> [addIP(t, n.ip) EXCEPT !.b.entries = pushNode(@, n, BucketSize)]]

bumpOrAdd(t, n) ==
    IF Position(t.b.entries, n.id) # {} THEN [ok |-> TRUE, t |-> bump(t, n)]
    ELSE IF Len(t.b.entries) >= BucketSize \/ ~CanAddIP(t, n.ip) THEN [ok |-> FALSE, t |-> t]
    ELSE [ok |-> TRUE, t |-> [addIP(t, n.ip) EXCEPT !.b.entries = pushNode(@, n, BucketSize),
                                                  !.b.replacements = deleteNode(@, n)]]

addReplacement(t, n) ==
    IF Position(t.b.replacements, n.id) # {} \/ ~CanAddIP(t, n.ip) THEN t
    ELSE LET r == t.b.replacements
             u == [addIP(t, n.ip) EXCEPT !.b.replacements = pushNode(@, n, MaxReplacements)]
         IN  IF Len(r) < MaxReplacements THEN u ELSE removeIP(u, r[Len(r)].ip)

add(t, n) ==
    IF n.id = SelfId THEN t
    ELSE IF bumpOrAdd(t, n).ok THEN bumpOrAdd(t, n).t ELSE addReplacement(t, n)

\* The address is given back whether or not the node was there.
deleteInBucket(t, n) == removeIP([t EXCEPT !.b.entries = deleteNode(@, n)], n.ip)

\* replace: the results for each replacement the random choice may take.
replace(t, last) ==
    IF t.b.entries = << >> \/ t.b.entries[Len(t.b.entries)].id # last.id THEN {t}
    ELSE IF t.b.replacements = << >> THEN {deleteInBucket(t, last)}
    ELSE {removeIP([t EXCEPT !.b.replacements = deleteNode(@, r),
                             !.b.entries = [@ EXCEPT ![Len(@)] = r]], last.ip) : r \in ToSet(t.b.replacements)}

View(s, n) == [b |-> s.buckets[BucketOf[n.id]], ips |-> s.ips]
Put(s, n, t) == [buckets |-> [s.buckets EXCEPT ![BucketOf[n.id]] = t.b], ips |-> t.ips]

\* The nodes are added one after the other.
RECURSIVE AddAll(_, _)
AddAll(s, ns) ==
    IF ns = << >> THEN {s}
    ELSE UNION {AddAll(u, Tail(ns)) : u \in {Put(s, Head(ns), add(View(s, Head(ns)), Head(ns)))}}

Now == [buckets |-> buckets, ips |-> tableIps]
StoreOne(S) == \E s \in S : buckets' = s.buckets /\ tableIps' = s.ips

-----------------------------------------------------------------------------
(* Lookups *)

\* push: nodes in the order of their distance, the farthest falls out.
push(list, n, max) ==
    LET farther == {i \in DOMAIN list : Distance[list[i].id] > Distance[n.id]}
        ix == IF farther = {} THEN Len(list) + 1 ELSE Least(farther)
        all == SubSeq(list, 1, ix - 1) \o <<n>> \o SubSeq(list, ix, Len(list))
    IN  SubSeq(all, 1, IF Len(all) < max THEN Len(all) ELSE max)

RECURSIVE PushAll(_, _)
PushAll(list, ns) ==
    IF ns = << >> THEN list ELSE PushAll(push(list, Head(ns), BucketSize), Tail(ns))

Entries == UNION {ToSet(buckets[b].entries) : b \in Bucket}
closest(max) ==
    LET all == SortSeq(SetToSeq(Entries), LAMBDA m, n : Distance[m.id] < Distance[n.id])
    IN  SubSeq(all, 1, IF Len(all) < max THEN Len(all) ELSE max)

Idle == [at |-> "idle", asked |-> {SelfId}, seen |-> {}, pending |-> {}, result |-> << >>, mayRefresh |-> TRUE]

Begin(l) ==
    /\ l \in UserLookup /\ lookup[l].at = "idle"
    /\ lookup' = [lookup EXCEPT ![l].at = "start"]
    /\ UNCHANGED <<storeVars, seedDb, fails, tabLoop, initDone, refreshing, waiting, revalidating, answers, ticks>>

\* The first result set; without one, the caller asks for a refresh and waits for it.
FirstResults(l) ==
    /\ lookup[l].at = "start"
    /\ lookup' = IF Entries # {} \/ ~lookup[l].mayRefresh
                 THEN [lookup EXCEPT ![l].at = "asking", ![l].result = closest(BucketSize)]
                 ELSE [lookup EXCEPT ![l].at = "refresh"]
    /\ UNCHANGED <<storeVars, seedDb, fails, tabLoop, initDone, refreshing, waiting, revalidating, answers, ticks>>

\* The closest nodes not asked yet, while fewer than alpha queries are under way.
ToAsk(k) ==
    LET open == SelectSeq(k.result, LAMBDA n : n.id \notin k.asked)
        room == Alpha - Cardinality(k.pending)
    IN  ToSet(SubSeq(open, 1, IF room < Len(open) THEN room ELSE Len(open)))

Query(l) ==
    /\ lookup[l].at = "asking"
    /\ LET k == lookup[l]
           next == ToAsk(k)
       IN  lookup' = [lookup EXCEPT ![l] =
             IF k.pending \cup next = {} THEN [k EXCEPT !.at = "done"]
             ELSE [k EXCEPT !.at = "waiting", !.asked = @ \cup {n.id : n \in next}, !.pending = @ \cup next]]
    /\ UNCHANGED <<storeVars, seedDb, fails, tabLoop, initDone, refreshing, waiting, revalidating, answers, ticks>>

\* What transport.findnode returns, nodes of blacklisted addresses left out: with an
\* error or without one.  Each node told counts against the bound.
Answered == {<< >>} \cup IF answers < MaxAnswers THEN {<<n>> : n \in NodeRec} ELSE {}

\* findnode: the failures are counted, a node with too many is deleted, the nodes told
\* are added, and the lookup takes the reply.
findnode(l, n) ==
    /\ lookup[l].at = "waiting" /\ n \in lookup[l].pending
    /\ \E rs \in Answered, err \in BOOLEAN :
         LET failed == err \/ rs = << >>
             count == fails[n.id] + 1
             dropped == IF failed /\ count >= MaxFindnodeFailures
                        THEN {Put(Now, n, t) : t \in {deleteInBucket(View(Now, n), n)}} ELSE {Now}
             new == SelectSeq(rs, LAMBDA x : x.id \notin lookup[l].seen)
         IN  /\ fails' = [fails EXCEPT ![n.id] =
                  IF failed THEN (IF count > MaxFindnodeFailures THEN MaxFindnodeFailures ELSE count) ELSE Less1(@)]
             /\ \E s1 \in dropped : StoreOne(AddAll(s1, rs))
             /\ answers' = answers + Len(rs)
             /\ lookup' = [lookup EXCEPT ![l].at = "asking", ![l].pending = @ \ {n},
                                         ![l].seen = @ \cup {x.id : x \in ToSet(rs)},
                                         ![l].result = PushAll(@, new)]
    /\ UNCHANGED <<seedDb, tabLoop, initDone, refreshing, waiting, revalidating, ticks>>

-----------------------------------------------------------------------------
(* The loop *)

\* doRefresh starts: the seeds are added, then it looks itself up.
StartRefresh ==
    /\ refreshing' = TRUE
    /\ StoreOne(AddAll(Now, SetToSeq(seedDb) \o Nursery))
    /\ lookup' = [lookup EXCEPT !["refresh"] = [Idle EXCEPT !.at = "start", !.mayRefresh = FALSE]]

\* refreshReq from a lookup, or the ticker of the loop.
TakeRefreshReq(l) ==
    /\ tabLoop = "running" /\ lookup[l].at = "refresh" /\ l \notin waiting
    /\ waiting' = waiting \cup {l}
    /\ IF refreshing THEN UNCHANGED <<refreshing, storeVars, lookup>> ELSE StartRefresh
    /\ UNCHANGED <<seedDb, fails, tabLoop, initDone, revalidating, answers, ticks>>

RefreshTick ==
    /\ tabLoop = "running" /\ ~refreshing /\ ticks < MaxTicks
    /\ StartRefresh /\ ticks' = ticks + 1
    /\ UNCHANGED <<seedDb, fails, tabLoop, initDone, waiting, revalidating, answers>>

\* A caller whose channel is closed looks at the table again, and does not come back.
Released(ls) ==
    [l \in Lookups |-> IF l \in ls THEN [lookup[l] EXCEPT !.at = "start", !.mayRefresh = FALSE] ELSE lookup[l]]

\* refreshDone: everybody who waits is released; the first one ends the initialisation.
RefreshDone ==
    /\ tabLoop = "running" /\ refreshing /\ lookup["refresh"].at = "done"
    /\ refreshing' = FALSE /\ initDone' = TRUE /\ waiting' = {}
    /\ lookup' = [Released(waiting) EXCEPT !["refresh"] = Idle]
    /\ UNCHANGED <<storeVars, seedDb, fails, tabLoop, revalidating, answers, ticks>>

None == [id |-> SelfId, ip |-> "none"]

\* doRevalidate: the last node of a bucket is pinged without the lock.
StartRevalidate ==
    /\ tabLoop = "running" /\ revalidating = None /\ ticks < MaxTicks
    /\ \E b \in Bucket : buckets[b].entries # << >> /\ revalidating' = Last(buckets[b].entries)
    /\ ticks' = ticks + 1
    /\ UNCHANGED <<storeVars, seedDb, fails, tabLoop, initDone, refreshing, waiting, lookup, answers>>

\* It answered and is not blacklisted: moved to the front.  Otherwise it is replaced,
\* when it is still the last.
EndRevalidate ==
    /\ revalidating # None
    /\ LET n == revalidating
       IN  StoreOne({Put(Now, n, t) : t \in {bump(View(Now, n), n)} \cup replace(View(Now, n), n)})
    /\ revalidating' = None
    /\ UNCHANGED <<seedDb, fails, tabLoop, initDone, refreshing, waiting, lookup, answers, ticks>>

\* copyLiveNodes: the entries that are old enough go to the database.
copyLiveNodes ==
    /\ tabLoop = "running" /\ ticks < MaxTicks /\ ticks' = ticks + 1
    /\ \E old \in SUBSET Entries : old # {} /\ seedDb' = {n \in seedDb : \A o \in old : o.id # n.id} \cup old
    /\ UNCHANGED <<storeVars, fails, tabLoop, initDone, refreshing, waiting, revalidating, lookup, answers>>

\* addThroughPing, for a node that pinged and has an endpoint proof.
addThroughPing(n) ==
    /\ initDone /\ tabLoop # "closed" /\ answers < MaxAnswers
    /\ StoreOne(AddAll(Now, <<n>>)) /\ answers' = answers + 1
    /\ UNCHANGED <<seedDb, fails, tabLoop, initDone, refreshing, waiting, revalidating, lookup, ticks>>

-----------------------------------------------------------------------------
(* Closing *)

CloseReq ==
    /\ tabLoop = "running" /\ tabLoop' = "closing"
    /\ UNCHANGED <<storeVars, seedDb, fails, initDone, refreshing, waiting, revalidating, lookup, answers, ticks>>

\* The callers that wait are forgotten.
MutLoopEnds ==
    /\ tabLoop = "closing" /\ (refreshing => lookup["refresh"].at = "done") /\ revalidating = None
    /\ tabLoop' = "closed"
    /\ UNCHANGED <<storeVars, seedDb, fails, initDone, refreshing, waiting, revalidating, lookup, answers, ticks>>

\* The loop waits for the refresh, releases the callers, waits for the revalidation.
LoopEnds ==
    /\ tabLoop = "closing" /\ (refreshing => lookup["refresh"].at = "done") /\ revalidating = None
    /\ tabLoop' = "closed" /\ waiting' = {} /\ lookup' = Released(waiting)
    /\ UNCHANGED <<storeVars, seedDb, fails, initDone, refreshing, revalidating, answers, ticks>>

\* refresh on a closed table.
RefreshClosed(l) ==
    /\ tabLoop = "closed" /\ lookup[l].at = "refresh" /\ l \notin waiting
    /\ lookup' = Released({l})
    /\ UNCHANGED <<storeVars, seedDb, fails, tabLoop, initDone, refreshing, waiting, revalidating, answers, ticks>>

TabInit ==
    LET empty == [b \in Bucket |-> [entries |-> << >>, replacements |-> << >>, ips |-> [i \in Ips |-> 0]]]
    IN  /\ \E s \in AddAll([buckets |-> empty, ips |-> [i \in Ips |-> 0]], Nursery) :
              buckets = s.buckets /\ tableIps = s.ips
        /\ seedDb = {} /\ fails = [i \in DOMAIN BucketOf |-> 0]
        /\ tabLoop = "running" /\ initDone = FALSE /\ refreshing = TRUE /\ waiting = {} /\ revalidating = None
        /\ lookup = [l \in Lookups |-> IF l = "refresh" THEN [Idle EXCEPT !.at = "start", !.mayRefresh = FALSE] ELSE Idle]
        /\ answers = 0 /\ ticks = 0

LookupStep(l) ==
    FirstResults(l) \/ Query(l) \/ RefreshClosed(l) \/ TakeRefreshReq(l) \/ \E n \in lookup[l].pending : findnode(l, n)

TabNext ==
    \/ \E l \in Lookups : Begin(l) \/ LookupStep(l)
    \/ RefreshTick \/ RefreshDone \/ StartRevalidate \/ EndRevalidate \/ copyLiveNodes \/ CloseReq \/ LoopEnds
    \/ \E n \in NodeRec : addThroughPing(n)

\* findnode and ping end by their timeouts; the loop takes what is ready.
TabFairness ==
    /\ \A l \in Lookups : WF_tabVars(LookupStep(l))
    /\ WF_tabVars(RefreshDone) /\ WF_tabVars(EndRevalidate) /\ WF_tabVars(LoopEnds)

TabSpec == TabInit /\ [][TabNext]_tabVars /\ TabFairness

-----------------------------------------------------------------------------
\* A node is in its bucket once, as an entry or as a replacement, and both lists keep
\* their bounds, although lookups, pings and the revalidation, which decides without
\* the lock, add, delete and replace nodes concurrently (table.go:471-505, 593-605,
\* 669-735).
BucketsSound ==
    \A b \in Bucket :
        LET all == buckets[b].entries \o buckets[b].replacements
        IN  /\ \A i, j \in DOMAIN all : all[i].id = all[j].id => i = j
            /\ Len(buckets[b].entries) <= BucketSize /\ Len(buckets[b].replacements) <= MaxReplacements
            /\ \A i \in DOMAIN all : BucketOf[all[i].id] = b /\ all[i].id # SelfId

=============================================================================
