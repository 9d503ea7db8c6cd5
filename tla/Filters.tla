------------------------------ MODULE Filters ------------------------------
(***************************************************************************)
(* The event system behind the websocket subscriptions of a slave          *)
(* (cluster/slave/filters and the four subscription methods of             *)
(* cluster/slave/api.go): a goroutine per subscriber, the loop that        *)
(* installs and uninstalls, and the loop that subscribes to the shards and *)
(* every two seconds broadcasts what they posted.                          *)
(*                                                                         *)
(* A topic is a shard and an event type.  Subscribers of one topic get the *)
(* same events, so an event is counted, not named.                         *)
(***************************************************************************)
EXTENDS Naturals, FiniteSets

CONSTANTS
  Subscriber,   \* calls of NewHeads, Logs, NewPendingTransactions, Syncing
  TopicOf,      \* [Subscriber -> <<shard, type>>]
  ServedShard,  \* the shards GetFullShardList returned
  BackedShard,  \* those GetShardFilter finds
  SubChanSize,  \* TxsChanSize, ChainEvChanSize...: a subscriber's channel
  FeedChanSize, \* the same sizes, for the channel of a topic
  MaxPosts      \* bound: events posted by the shards

Topics == {TopicOf[s] : s \in Subscriber}
Shards == {t[1] : t \in Topics}

VARIABLES
  subscriberAt, \* [Subscriber -> where its goroutine is]
  inbox,        \* [Subscriber -> events in its channel]
  index,        \* the installed subscribers
  loopAt,       \* the loop of EventSystem: <<"select">>, or <<what, subscriber>>
  adding, deleting, \* [Topics -> requests on their way through addCh, delCh]
  feeds,        \* the topics subscribed to at the shards: s.events
  feedChan,     \* [Topics -> events in the topic's channel]
  ticking,      \* eventsloop waits for the goroutines of a tick
  worker,       \* [Shards -> topics its goroutine has yet to read]
  casting,      \* [Shards -> subscribers its broadcast has yet to send to]
  postedEvents  \* events posted so far

filterVars == <<subscriberAt, inbox, index, loopAt, adding, deleting, feeds, feedChan,
                ticking, worker, casting, postedEvents>>
sysVars == <<index, loopAt, adding, deleting>>
feedVars == <<feeds, feedChan, ticking, worker, casting, postedEvents>>

FiltersInit ==
  /\ subscriberAt = [s \in Subscriber |-> "idle"] /\ inbox = [s \in Subscriber |-> 0]
  /\ index = {} /\ loopAt = <<"select">> /\ adding = [t \in Topics |-> 0] /\ deleting = [t \in Topics |-> 0]
  /\ feeds = {} /\ feedChan = [t \in Topics |-> 0]
  /\ ticking = FALSE /\ worker = [h \in Shards |-> {}] /\ casting = [h \in Shards |-> {}]
  /\ postedEvents = 0

Move(s, at) == subscriberAt' = [subscriberAt EXCEPT ![s] = at]
Installed(t) == {s \in index : TopicOf[s] = t}

\* es.mu: held for reading by every broadcast, wanted for writing by a loop that has
\* taken a request.  A waiting writer keeps new readers out.
Reading == {h \in Shards : casting[h] # {}}
WriterWaits == loopAt[1] \in {"install", "uninstall"}

-----------------------------------------------------------------------------
(* A subscriber: NewHeads, Logs, NewPendingTransactions, Syncing.          *)

\* subscribe: the loop takes the subscription; the caller waits until it is installed.
Subscribe(s) ==
  /\ subscriberAt[s] = "idle" /\ loopAt = <<"select">>
  /\ loopAt' = <<"install", s>>
  /\ Move(s, "installing")
  /\ UNCHANGED <<inbox, index, adding, deleting, feedVars>>

\* The goroutine takes an event from its channel and notifies the client.
TakeEvent(s) ==
  /\ subscriberAt[s] = "reading" /\ inbox[s] > 0
  /\ inbox' = [inbox EXCEPT ![s] = @ - 1]
  /\ UNCHANGED <<subscriberAt, sysVars, feedVars>>

\* The client unsubscribed, or its connection is closed.
LeaveSubscription(s) ==
  /\ subscriberAt[s] = "reading"
  /\ Move(s, "unsubscribing")
  /\ UNCHANGED <<inbox, sysVars, feedVars>>

\* Unsubscribe: if the loop is at its select now it takes the request; otherwise one
\* event is consumed, if need be waited for, and the attempt repeated.
Uninstalls(s) ==
  /\ subscriberAt[s] = "unsubscribing" /\ loopAt = <<"select">>
  /\ loopAt' = <<"uninstall", s>>
  /\ Move(s, "uninstalling")
  /\ UNCHANGED <<inbox, index, adding, deleting, feedVars>>
MissesLoop(s) ==
  /\ subscriberAt[s] = "unsubscribing" /\ loopAt # <<"select">>
  /\ Move(s, "draining")
  /\ UNCHANGED <<inbox, sysVars, feedVars>>
MutConsumesOne(s) == FALSE /\ subscriberAt[s] = "draining" /\ UNCHANGED filterVars
ConsumesOne(s) ==
  /\ subscriberAt[s] = "draining" /\ inbox[s] > 0
  /\ inbox' = [inbox EXCEPT ![s] = @ - 1]
  /\ Move(s, "unsubscribing")
  /\ UNCHANGED <<sysVars, feedVars>>

-----------------------------------------------------------------------------
(* The loop of EventSystem.                                                *)

\* install, with the lock: the shard's backend subscription is asked for, in a goroutine.
Install ==
  /\ loopAt[1] = "install" /\ Reading = {}
  /\ \E s \in {loopAt[2]} :
       /\ IF TopicOf[s][1] \in ServedShard
          THEN index' = index \cup {s} /\ adding' = [adding EXCEPT ![TopicOf[s]] = @ + 1]
          ELSE UNCHANGED <<index, adding>>
       /\ Move(s, "reading")
  /\ loopAt' = <<"select">>
  /\ UNCHANGED <<inbox, deleting, feedVars>>

\* uninstall, with the lock; the last subscriber of a topic gives the backend
\* subscription back, in a goroutine.  Closing f.err lets Unsubscribe return.
UninstallWith(locked) ==
  /\ loopAt[1] = "uninstall" /\ locked
  /\ \E s \in {loopAt[2]} :
       /\ index' = index \ {s}
       /\ deleting' = IF TopicOf[s][1] \in ServedShard /\ Installed(TopicOf[s]) \subseteq {s}
                      THEN [deleting EXCEPT ![TopicOf[s]] = @ + 1] ELSE deleting
       /\ Move(s, "gone")
       /\ inbox' = [inbox EXCEPT ![s] = 0]
  /\ loopAt' = <<"select">>
  /\ UNCHANGED <<adding, feedVars>>
MutUninstall == UninstallWith(TRUE)
Uninstall == UninstallWith(Reading = {})

-----------------------------------------------------------------------------
(* eventsloop.                                                             *)

\* The event types a shard can be subscribed to; for the others there is no feed.
newSubEvent(t) == t[2] \in {"logs", "txs", "heads", "syncing"}

\* add: one backend subscription per topic, if the shard is there.
AddFeed(t) ==
  /\ ~ticking /\ adding[t] > 0
  /\ adding' = [adding EXCEPT ![t] = @ - 1]
  /\ feeds' = IF t[1] \in BackedShard /\ newSubEvent(t) THEN feeds \cup {t} ELSE feeds
  /\ UNCHANGED <<subscriberAt, inbox, index, loopAt, deleting, feedChan, ticking, worker, casting, postedEvents>>

\* del: freech unsubscribes at the shard; its channel is dropped.
DeleteFeed(t) ==
  /\ ~ticking /\ deleting[t] > 0
  /\ deleting' = [deleting EXCEPT ![t] = @ - 1]
  /\ feeds' = feeds \ {t}
  /\ feedChan' = [feedChan EXCEPT ![t] = 0]
  /\ UNCHANGED <<subscriberAt, inbox, index, loopAt, adding, ticking, worker, casting, postedEvents>>

\* The tick starts one goroutine per shard, which reads its topics one after the other.
FeedTick ==
  /\ ~ticking /\ feeds # {}
  /\ ticking' = TRUE
  /\ worker' = [h \in Shards |-> {t \in feeds : t[1] = h}]
  /\ UNCHANGED <<subscriberAt, inbox, sysVars, feeds, feedChan, casting, postedEvents>>

\* getch takes an event and broadcasts it under the read lock; an empty channel ends it.
Broadcast(h, t) ==
  /\ t \in worker[h] /\ casting[h] = {}
  /\ \/ /\ feedChan[t] > 0 /\ ~WriterWaits
        /\ feedChan' = [feedChan EXCEPT ![t] = @ - 1]
        /\ casting' = [casting EXCEPT ![h] = Installed(t)]
        /\ UNCHANGED worker
     \/ /\ feedChan[t] = 0
        /\ worker' = [worker EXCEPT ![h] = @ \ {t}]
        /\ UNCHANGED <<feedChan, casting>>
  /\ UNCHANGED <<subscriberAt, inbox, sysVars, feeds, ticking, postedEvents>>

\* One send of broadcast: it waits while the subscriber's channel is full.
CastTo(h, s) ==
  /\ s \in casting[h] /\ inbox[s] < SubChanSize
  /\ inbox' = [inbox EXCEPT ![s] = @ + 1]
  /\ casting' = [casting EXCEPT ![h] = @ \ {s}]
  /\ UNCHANGED <<subscriberAt, sysVars, feeds, feedChan, ticking, worker, postedEvents>>

TickEnds ==
  /\ ticking /\ \A h \in Shards : worker[h] = {} /\ casting[h] = {}
  /\ ticking' = FALSE
  /\ UNCHANGED <<subscriberAt, inbox, sysVars, feeds, feedChan, worker, casting, postedEvents>>

\* A shard posts an event; its feed waits while the topic's channel is full.
PostEvent(t) ==
  /\ t \in feeds /\ feedChan[t] < FeedChanSize /\ postedEvents < MaxPosts
  /\ feedChan' = [feedChan EXCEPT ![t] = @ + 1]
  /\ postedEvents' = postedEvents + 1
  /\ UNCHANGED <<subscriberAt, inbox, sysVars, feeds, ticking, worker, casting>>

-----------------------------------------------------------------------------
SubscriberStep(s) == TakeEvent(s) \/ Uninstalls(s) \/ MissesLoop(s) \/ ConsumesOne(s)
LoopStep == Install \/ Uninstall
WorkerStep(h) == (\E t \in worker[h] : Broadcast(h, t)) \/ (\E s \in casting[h] : CastTo(h, s))
EventsLoopStep == TickEnds \/ (\E t \in Topics : AddFeed(t) \/ DeleteFeed(t))

FiltersNext ==
  \/ \E s \in Subscriber : Subscribe(s) \/ SubscriberStep(s) \/ LeaveSubscription(s)
  \/ LoopStep \/ EventsLoopStep \/ FeedTick
  \/ \E h \in Shards : WorkerStep(h)
  \/ \E t \in Topics : PostEvent(t)

\* Goroutines run; nobody has to subscribe, to leave or to post, and the ticker is not
\* needed for the property.
FiltersFairness ==
  /\ \A s \in Subscriber : WF_filterVars(SubscriberStep(s))
  /\ WF_filterVars(LoopStep) /\ WF_filterVars(EventsLoopStep)
  /\ \A h \in Shards : WF_filterVars(WorkerStep(h))
FiltersSpec == FiltersInit /\ [][FiltersNext]_filterVars /\ FiltersFairness

-----------------------------------------------------------------------------
\* Once Unsubscribe has returned nobody will send on the subscriber's channel, which its
\* owner may close: a broadcast that counted on it holds the read lock until it is done
\* (filter_system.go:174-178, 297-298, 367-369).
NoSendAfterUnsubscribe ==
  \A s \in Subscriber : subscriberAt[s] = "gone" => \A h \in Shards : s \notin casting[h]

\* A broadcast waits for the full channel of a subscriber whose uninstallation the loop
\* has taken and now waits for the lock; that subscriber only waits for the loop.
CastHoldsUninstall ==
  /\ loopAt[1] = "uninstall"
  /\ \E h \in Shards : loopAt[2] \in casting[h] /\ inbox[loopAt[2]] = SubChanSize

=============================================================================
