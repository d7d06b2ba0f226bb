---------------------------- MODULE Subscription ----------------------------
(***************************************************************************)
(* The subscription engine of the open62541 server: subscriptions with     *)
(* their publish timer, keep-alive and lifetime counters, the publish      *)
(* requests a session parks in its response queue, the retransmission      *)
(* queues, and the services that act on them (ua_subscription.c,           *)
(* ua_services_subscription.c, ua_session.c, parts of                      *)
(* ua_services_session.c and ua_server_binary.c).                          *)
(*                                                                         *)
(* The server holds serviceMutex for a whole service call or timer         *)
(* callback.  The two loops inside such a call (UA_Subscription_publish    *)
(* and the search for late subscriptions in Service_Publish) take one step *)
(* per iteration here: the variable call holds what is still to be done,   *)
(* and everything else waits until it is Idle.                             *)
(*                                                                         *)
(* The definitions named Defect... are variants of the definition that     *)
(* follows them, each with a plausible error. They are part of no          *)
(* specification: put in the place of the definition, they show that the   *)
(* properties notice.                                                      *)
(***************************************************************************)
EXTENDS Integers, Sequences, FiniteSets, SequencesExt, Lists

CONSTANTS
    Session,               \* UA_Session objects
    NoSession,             \* NULL
    Request,               \* publish requests; the client reuses one that was completed
    MaxSubId,              \* bound: number of subscriptions ever created
    MaxSeqNo,              \* largest sequence number, 2^32 - 1 in the code
    MaxSubCount,           \* largest value of a subscription counter, 2^32 - 1 in the code;
                           \* with 0 its values are not told apart
    SubRetransLimit,       \* UA_MAX_RETRANSMISSIONQUEUESIZE
    SessionRetransLimit,   \* config.maxRetransmissionQueueSize, 0 is unlimited
    EnableRetransmission,  \* config.enableRetransmissionQueue
    MaxPublishReq,         \* config.maxPublishReqPerSession, 0 is unlimited
    MaxSubscriptions,      \* config.maxSubscriptions, 0 is unlimited
    MaxSubsPerSession,     \* config.maxSubscriptionsPerSession, 0 is unlimited
    MaxNotifPerPublish,    \* config.maxNotificationsPerPublish
    KeepAliveLimits,       \* config.keepAliveCountLimits
    LifeTimeLimits,        \* config.lifeTimeCountLimits
    AllowTransfer,         \* what accessControl.allowTransferSubscription answers
    Settings,              \* the settings clients request
    PublishingModes,       \* the publishing modes clients request
    MaxNotifications,      \* bound: notifications ever produced
    MaxTime                \* bound: publish times that are told apart

ASSUME SessionAssumption == NoSession \notin Session

ASSUME BoundAssumption ==
    /\ MaxSubId \in Nat
    /\ MaxSeqNo \in Nat \ {0}
    /\ MaxSubCount \in Nat
    /\ SubRetransLimit \in Nat \ {0}
    /\ SessionRetransLimit \in Nat
    /\ {MaxPublishReq, MaxSubscriptions, MaxSubsPerSession} \subseteq Nat
    /\ MaxNotifPerPublish \in Nat \ {0}
    /\ MaxNotifications \in Nat
    /\ MaxTime \in Nat
    /\ {EnableRetransmission, AllowTransfer} \subseteq BOOLEAN

ASSUME LimitAssumption ==
    /\ KeepAliveLimits \in [min : Nat \ {0}, max : Nat \ {0}]
    /\ LifeTimeLimits \in [min : Nat \ {0}, max : Nat \ {0}]
    /\ KeepAliveLimits.min <= KeepAliveLimits.max
    /\ LifeTimeLimits.min <= LifeTimeLimits.max

ASSUME SettingsAssumption ==
    Settings \subseteq [keepAlive : Nat, lifeTime : Nat, perPublish : Nat, priority : Nat]

ASSUME ModesAssumption == PublishingModes \subseteq BOOLEAN

VARIABLES
    alive,          \* the activated sessions
    channel,        \* state of the SecureChannel a session is bound to
    subscriptions,  \* session->subscriptions, ordered by priority
    responseQueue,  \* session->responseQueue: the parked publish requests
    retransTotal,   \* session->totalRetransmissionQueueSize
    live,           \* server->subscriptions
    sub,            \* the UA_Subscription structs
    lastSubId,      \* server->lastSubscriptionId
    timers,         \* the subscriptions whose publishCallback is in the server's timer
    subCount,       \* serverDiagnosticsSummary.currentSubscriptionCount
    pending,        \* publish requests received, not answered and not dropped
    call,           \* what the service call or callback in progress still has to do
    produced,       \* notifications the MonitoredItems have produced
    now             \* the clock behind publishTime

vars == <<alive, channel, subscriptions, responseQueue, retransTotal, live, sub,
          lastSubId, timers, subCount, pending, call, produced, now>>
sessionVars == <<alive, channel>>
serverVars == <<live, lastSubId, timers, subCount>>
envVars == <<produced, now>>

SubId == 1..MaxSubId
SeqNo == 1..MaxSeqNo
NoSub == 0
Idle == [op |-> "idle"]

Clamp(x, limits) ==
    IF x > limits.max THEN limits.max ELSE IF x < limits.min THEN limits.min ELSE x

\* setSubscriptionSettings: the settings the server grants.
Revised(q) ==
    LET keepAlive == Clamp(q.keepAlive, KeepAliveLimits)
        lifeTime == Clamp(q.lifeTime, LifeTimeLimits)
    IN [maxKeepAlive |-> keepAlive,
        lifeTime |-> IF lifeTime < 3 * keepAlive THEN 3 * keepAlive ELSE lifeTime,
        perPublish |-> IF q.perPublish = 0 \/ q.perPublish > MaxNotifPerPublish
                       THEN MaxNotifPerPublish ELSE q.perPublish,
        priority |-> q.priority]

\* The members of UA_Subscription that the engine works with.
SubRecord ==
    [session : Session \cup {NoSession},
     state : {"normal", "late"},
     enabled : BOOLEAN,
     keepAlive : Nat,
     lifetime : Nat,
     set : [maxKeepAlive : Nat, lifeTime : Nat, perPublish : Nat, priority : Nat],
     nextSeqNo : SeqNo,
     queued : Nat,                                \* notificationQueueSize
     retrans : Seq([seqNo : SeqNo, at : Nat])]    \* retransmissionQueue

\* UA_Subscription_new, with the first keep-alive due at once.
NewSub(s, set, enabled) ==
    [session |-> s, state |-> "normal", enabled |-> enabled,
     keepAlive |-> set.maxKeepAlive, lifetime |-> 0, set |-> set,
     nextSeqNo |-> 1, queued |-> 0, retrans |-> <<>>]

\* A struct that is not (or no longer) allocated.
Blank == NewSub(NoSession, [maxKeepAlive |-> 0, lifeTime |-> 0, perPublish |-> 0,
                            priority |-> 0], FALSE)

Calls ==
    {Idle} \cup [op : {"publish"}, sub : SubId]
           \cup [op : {"late"}, sub : SubId, session : Session]

TypeOK ==
    /\ alive \subseteq Session
    /\ channel \in [Session -> {"none", "open", "closing"}]
    /\ subscriptions \in [Session -> Seq(SubId)]
    /\ responseQueue \in [Session -> Seq(Request)]
    /\ retransTotal \in [Session -> Int]
    /\ live \subseteq SubId
    /\ sub \in [SubId -> SubRecord]
    /\ lastSubId \in 0..MaxSubId
    /\ timers \subseteq SubId
    /\ subCount \in 0..MaxSubCount
    /\ pending \subseteq Request
    /\ call \in Calls
    /\ produced \in 0..MaxNotifications
    /\ now \in 0..MaxTime

Init ==
    /\ alive = {}
    /\ channel = [s \in Session |-> "none"]
    /\ subscriptions = [s \in Session |-> <<>>]
    /\ responseQueue = [s \in Session |-> <<>>]
    /\ retransTotal = [s \in Session |-> 0]
    /\ live = {}
    /\ sub = [b \in SubId |-> Blank]
    /\ lastSubId = 0
    /\ timers = {}
    /\ subCount = 0
    /\ pending = {}
    /\ call = Idle
    /\ produced = 0
    /\ now = 0

-----------------------------------------------------------------------------
(* Lists.                                                                  *)

\* Insert b before the first entry from position from on that has a lower
\* priority, at the end when there is none.
InsertByPriority(list, b, priority, from) ==
    LET lower == {i \in from..Len(list) : sub[list[i]].set.priority < priority}
    IN InsertAt(list, IF lower = {} THEN Len(list) + 1 ELSE Min(lower), b)

\* currentSubscriptionCount, an unsigned counter, after a change by d.
Counted(d) == (subCount + d) % (MaxSubCount + 1)

\* UA_Session_getSubscriptionById finds b in session s.
Owns(s, b) == b \in live /\ sub[b].session = s

\* A service request of session s is being handled: s is bound to an open
\* channel (getBoundSession) and nobody else holds serviceMutex.
InService(s) == call = Idle /\ s \in alive /\ channel[s] = "open"

DefectKeepRequests(q, list) == q

\* The parked requests q once a subscription has left its session, which still
\* has those in list: when the last one goes, every request is answered with
\* BADNOSUBSCRIPTION.
AfterDetach(q, list) == IF list = <<>> THEN <<>> ELSE q

-----------------------------------------------------------------------------
(* One iteration of publishing: UA_Subscription_publishOnce.               *)

NextSeqNo(n) == IF n = MaxSeqNo THEN 1 ELSE n + 1

DefectNoKeepAlive(n) == n

\* The keep-alive counter. Above the largest maxKeepAliveCount it makes no
\* difference any more, so it stops there.
Bump(n) == IF n < KeepAliveLimits.max THEN n + 1 ELSE n

HasRequest(b) == sub[b].session # NoSession /\ responseQueue[sub[b].session] # <<>>

Notifications(b) ==
    LET n == IF sub[b].enabled THEN sub[b].queued ELSE 0
    IN IF n > sub[b].set.perPublish THEN sub[b].set.perPublish ELSE n

KeepAliveAfter(b) ==
    IF Notifications(b) = 0 THEN Bump(sub[b].keepAlive) ELSE sub[b].keepAlive
DefectNoLifetime(b) == IF HasRequest(b) THEN 0 ELSE sub[b].lifetime
LifetimeAfter(b) == IF HasRequest(b) THEN 0 ELSE sub[b].lifetime + 1
Expired(b) == LifetimeAfter(b) > sub[b].set.lifeTime
NothingToSay(b) == Notifications(b) = 0 /\ KeepAliveAfter(b) < sub[b].set.maxKeepAlive
CanSend(b) == HasRequest(b) /\ channel[sub[b].session] # "none"

\* UA_Subscription_delete of a subscription that has a session or not.
DeleteSub(b) ==
    LET s == sub[b].session
        rest == Without(subscriptions[s], b)
    IN /\ live' = live \ {b}
       /\ timers' = timers \ {b}
       /\ subCount' = Counted(-1)
       /\ sub' = [sub EXCEPT ![b] = Blank]
       /\ IF s = NoSession
          THEN UNCHANGED <<subscriptions, responseQueue, retransTotal, pending>>
          ELSE /\ subscriptions' = [subscriptions EXCEPT ![s] = rest]
               /\ retransTotal' = [retransTotal EXCEPT ![s] = @ - Len(sub[b].retrans)]
               /\ responseQueue' = [responseQueue EXCEPT ![s] = AfterDetach(@, rest)]
               /\ pending' = IF rest = <<>> THEN pending \ ToSet(responseQueue[s])
                             ELSE pending
       /\ UNCHANGED lastSubId

\* The lifetime is over. No request is parked, so nothing announces it.
Expire(b) ==
    /\ Expired(b)
    /\ DeleteSub(b)

DefectLoseRequest(b) ==
    /\ ~Expired(b)
    /\ NothingToSay(b)
    /\ sub' = [sub EXCEPT ![b].keepAlive = KeepAliveAfter(b),
                          ![b].lifetime = LifetimeAfter(b)]
    /\ responseQueue' = IF HasRequest(b)
                        THEN [responseQueue EXCEPT ![sub[b].session] = Tail(@)]
                        ELSE responseQueue
    /\ UNCHANGED <<retransTotal, pending>>

\* Neither notifications nor a keep-alive to send. The request goes back to
\* the head of the queue.
Quiet(b) ==
    /\ ~Expired(b)
    /\ NothingToSay(b)
    /\ sub' = [sub EXCEPT ![b].keepAlive = KeepAliveAfter(b),
                          ![b].lifetime = LifetimeAfter(b)]
    /\ UNCHANGED <<responseQueue, retransTotal, pending>>

\* Something to send, but no request or no channel to send it with.
BecomeLate(b) ==
    /\ ~Expired(b)
    /\ ~NothingToSay(b)
    /\ ~CanSend(b)
    /\ sub' = [sub EXCEPT ![b].state = "late",
                          ![b].keepAlive = KeepAliveAfter(b),
                          ![b].lifetime = LifetimeAfter(b)]
    /\ UNCHANGED <<responseQueue, retransTotal, pending>>

\* UA_Subscription_addRetransmissionMessage: where room has to be made, the
\* subscription that loses a message. Session-wide it is the one whose last
\* message has the smallest publish time, the first such in the list.
RetransVictims(s, b) ==
    LET list == subscriptions[s]
        filled == {i \in DOMAIN list : sub[list[i]].retrans # <<>>}
        At(i) == Last(sub[list[i]].retrans).at
    IN IF Len(sub[b].retrans) >= SubRetransLimit THEN {b}
       ELSE IF SessionRetransLimit > 0 /\ retransTotal[s] >= SessionRetransLimit
       THEN {list[i] : i \in {j \in filled : \A k \in filled :
                                 At(j) < At(k) \/ (At(j) = At(k) /\ j <= k)}}
       ELSE {}

DefectOwnQueueOnly(c, b, victims, entry) ==
    IF c # b THEN sub[c].retrans
    ELSE Append(IF b \in victims THEN DropLast(sub[b].retrans) ELSE sub[b].retrans, entry)
DefectNewestFirst(c, b, victims, entry) ==
    LET kept == IF c \in victims THEN DropLast(sub[c].retrans) ELSE sub[c].retrans
    IN IF c = b THEN <<entry>> \o kept ELSE kept

\* The retransmission queue of c after b has sent a message.
RetransAfter(c, b, victims, entry) ==
    LET kept == IF c \in victims THEN DropLast(sub[c].retrans) ELSE sub[c].retrans
    IN IF c = b THEN Append(kept, entry) ELSE kept

\* A keep-alive or a message with notifications answers the first request.
Send(b) ==
    LET s == sub[b].session
        n == Notifications(b)
        stores == n > 0 /\ EnableRetransmission
        victims == IF stores THEN RetransVictims(s, b) ELSE {}
        entry == [seqNo |-> sub[b].nextSeqNo, at |-> now]
    IN /\ ~Expired(b)
       /\ ~NothingToSay(b)
       /\ CanSend(b)
       /\ sub' = [c \in SubId |->
             LET kept == IF stores THEN RetransAfter(c, b, victims, entry) ELSE sub[c].retrans
             IN IF c = b
                THEN [sub[b] EXCEPT
                        !.retrans = kept,
                        !.nextSeqNo = IF n > 0 THEN NextSeqNo(@) ELSE @,
                        !.queued = @ - n,
                        !.state = IF sub[b].queued = n THEN "normal" ELSE @,
                        !.keepAlive = 0,
                        !.lifetime = 0]
                ELSE [sub[c] EXCEPT !.retrans = kept]]
       /\ retransTotal' = [retransTotal EXCEPT ![s] =
             IF stores THEN @ + 1 - Cardinality(victims) ELSE @]
       /\ responseQueue' = [responseQueue EXCEPT ![s] = Tail(@)]
       /\ pending' = pending \ {Head(responseQueue[s])}

-----------------------------------------------------------------------------
(* The publish timer.                                                      *)

\* MonitoredItems sampled with the subscription may add a notification.
Produce(b, n) ==
    /\ produced + n <= MaxNotifications
    /\ produced' = produced + n
    /\ sub' = [sub EXCEPT ![b].queued = @ + n]

\* publishCallback: sample, then enter the publish loop.
PublishCallback(b) ==
    /\ call = Idle
    /\ b \in timers
    /\ \E n \in 0..1 : Produce(b, n)
    /\ call' = [op |-> "publish", sub |-> b]
    /\ UNCHANGED <<sessionVars, serverVars, subscriptions, responseQueue,
                   retransTotal, pending, now>>

\* UA_Subscription_publish: one iteration, repeated while publishOnce has sent
\* a message and notifications remain.
Publishing(b) == call = [op |-> "publish", sub |-> b]

PublishExpire(b) ==
    /\ Publishing(b)
    /\ Expire(b)
    /\ call' = Idle
    /\ UNCHANGED <<sessionVars, envVars>>

PublishStop(b) ==
    /\ Publishing(b)
    /\ Quiet(b) \/ BecomeLate(b)
    /\ call' = Idle
    /\ UNCHANGED <<sessionVars, serverVars, envVars, subscriptions>>

\* publishOnce is not done: notifications remain after this message.
NotDone(b) == sub[b].queued > Notifications(b)

PublishSend(b) ==
    /\ Publishing(b)
    /\ Send(b)
    /\ call' = IF NotDone(b) THEN call ELSE Idle
    /\ UNCHANGED <<sessionVars, serverVars, envVars, subscriptions>>

PublishLoop(b) == PublishExpire(b) \/ PublishStop(b) \/ PublishSend(b)

\* A MonitoredItem with its own sampling adds a notification, or one leaves
\* the queue (overflow, change of mode, deletion of the MonitoredItem).
Notify(b) ==
    /\ call = Idle
    /\ b \in live
    /\ Produce(b, 1)
    /\ UNCHANGED <<sessionVars, serverVars, subscriptions, responseQueue,
                   retransTotal, pending, call, now>>

Discard(b) ==
    /\ call = Idle
    /\ b \in live
    /\ sub[b].queued > 0
    /\ sub' = [sub EXCEPT ![b].queued = @ - 1]
    /\ UNCHANGED <<sessionVars, serverVars, envVars, subscriptions, responseQueue,
                   retransTotal, pending, call>>

Tick ==
    /\ call = Idle
    /\ now < MaxTime
    /\ now' = now + 1
    /\ UNCHANGED <<sessionVars, serverVars, subscriptions, responseQueue,
                   retransTotal, sub, pending, call, produced>>

-----------------------------------------------------------------------------
(* Service_Publish.                                                        *)

\* UA_Subscription_removeRetransmissionMessage for an acknowledgement of n in
\* subscription b of session s; b = NoSub is a request without one.
Acked(s, b, n) ==
    /\ b # NoSub
    /\ Owns(s, b)
    /\ \E i \in DOMAIN sub[b].retrans : sub[b].retrans[i].seqNo = n

AckIndex(b, n) == Min({i \in DOMAIN sub[b].retrans : sub[b].retrans[i].seqNo = n})

QueueFull(s) == MaxPublishReq > 0 /\ Len(responseQueue[s]) >= MaxPublishReq

\* A publish request r with one acknowledgement. When the queue is full, its
\* oldest request is answered with BADTOOMANYPUBLISHREQUESTS to make room. With
\* older requests parked nobody looks for late subscriptions.
Publish(s, r, b, n) ==
    LET full == QueueFull(s)
        queue == IF full THEN Tail(responseQueue[s]) ELSE responseQueue[s]
    IN /\ InService(s)
       /\ r \notin pending
       /\ subscriptions[s] # <<>>
       /\ responseQueue' = [responseQueue EXCEPT ![s] = Append(queue, r)]
       /\ pending' = (IF full THEN pending \ {Head(responseQueue[s])} ELSE pending) \cup {r}
       /\ IF Acked(s, b, n)
          THEN /\ sub' = [sub EXCEPT ![b].retrans = RemoveAt(@, AckIndex(b, n))]
               /\ retransTotal' = [retransTotal EXCEPT ![s] = @ - 1]
          ELSE UNCHANGED <<sub, retransTotal>>
       /\ call' = IF queue = <<>>
                  THEN [op |-> "late", sub |-> Head(subscriptions[s]), session |-> s]
                  ELSE Idle
       /\ UNCHANGED <<sessionVars, serverVars, envVars, subscriptions>>

\* The search for late subscriptions stands at b; next is taken before b moves
\* to the end of its priority. It ends with the list or with the requests.
Searching(b) == call.op = "late" /\ call.sub = b

NextInList(s, b) ==
    LET i == IndexOf(subscriptions[s], b)
    IN IF i < Len(subscriptions[s]) THEN subscriptions[s][i + 1] ELSE NoSub

SearchOn(next) == IF next = NoSub THEN Idle ELSE [call EXCEPT !.sub = next]

LateSkip(b) ==
    /\ Searching(b)
    /\ sub[b].state # "late"
    /\ call' = SearchOn(NextInList(call.session, b))
    /\ UNCHANGED <<sessionVars, serverVars, envVars, subscriptions, responseQueue,
                   retransTotal, sub, pending>>

\* A request is parked for the whole search, so publishOnce neither expires
\* the subscription nor finds it late again.
LateServe(b) ==
    /\ Searching(b)
    /\ sub[b].state = "late"
    /\ Quiet(b) \/ Send(b)
    /\ LET s == call.session
           i == IndexOf(subscriptions[s], b)
       IN /\ subscriptions' = [subscriptions EXCEPT ![s] =
                InsertByPriority(Without(@, b), b, sub[b].set.priority, i)]
          /\ call' = IF responseQueue'[s] = <<>> THEN Idle ELSE SearchOn(NextInList(s, b))
    /\ UNCHANGED <<sessionVars, serverVars, envVars>>

LateLoop(b) == LateSkip(b) \/ LateServe(b)

-----------------------------------------------------------------------------
(* The other subscription services.                                        *)

\* Subscription_registerPublishCallback of a subscription without one.
RegisterPublishCallback(b) == timers' = timers \cup {b}

CreateSubscription(s, q, enabled) ==
    LET b == lastSubId + 1
    IN /\ InService(s)
       /\ lastSubId < MaxSubId
       /\ MaxSubscriptions = 0 \/ Cardinality(live) < MaxSubscriptions
       /\ MaxSubsPerSession = 0 \/ Len(subscriptions[s]) < MaxSubsPerSession
       /\ lastSubId' = b
       /\ sub' = [sub EXCEPT ![b] = NewSub(s, Revised(q), enabled)]
       /\ live' = live \cup {b}
       /\ RegisterPublishCallback(b)
       /\ subCount' = Counted(1)
       /\ subscriptions' = [subscriptions EXCEPT ![s] =
                               InsertByPriority(@, b, q.priority, 1)]
       /\ UNCHANGED <<sessionVars, envVars, responseQueue, retransTotal, pending, call>>

\* A change of priority takes the subscription out of the list and attaches it
\* again, leaving the parked requests alone.
ModifySubscription(s, b, q) ==
    /\ InService(s)
    /\ Owns(s, b)
    /\ sub' = [sub EXCEPT ![b].set = Revised(q), ![b].lifetime = 0]
    /\ subscriptions' = [subscriptions EXCEPT ![s] =
           IF q.priority = sub[b].set.priority THEN @
           ELSE InsertByPriority(Without(@, b), b, q.priority, 1)]
    /\ UNCHANGED <<sessionVars, serverVars, envVars, responseQueue, retransTotal,
                   pending, call>>

SetPublishingMode(s, b, enabled) ==
    /\ InService(s)
    /\ Owns(s, b)
    /\ sub' = [sub EXCEPT ![b].enabled = enabled, ![b].lifetime = 0]
    /\ UNCHANGED <<sessionVars, serverVars, envVars, subscriptions, responseQueue,
                   retransTotal, pending, call>>

\* Republish answers at once from the retransmission queue, which it leaves
\* as it is; found or not, the lifetime starts again. So do the MonitoredItem
\* services.
Republish(s, b) ==
    /\ InService(s)
    /\ Owns(s, b)
    /\ sub' = [sub EXCEPT ![b].lifetime = 0]
    /\ UNCHANGED <<sessionVars, serverVars, envVars, subscriptions, responseQueue,
                   retransTotal, pending, call>>

DeleteSubscription(s, b) ==
    /\ InService(s)
    /\ Owns(s, b)
    /\ DeleteSub(b)
    /\ UNCHANGED <<sessionVars, envVars, call>>

\* Operation_TransferSubscription to session s. The subscription gets a new
\* struct, a byte copy of the old one that already holds a publishCallbackId, so
\* registering its publishCallback does nothing. The messages and notifications
\* move over. A last publish on the old struct answers one request of the old
\* session and deletes the struct, its timer included. n initial values may be
\* queued before the first publish of the new struct.
TransferSubscription(s, b, n) ==
    LET old == sub[b].session
        rest == Without(subscriptions[old], b)
        queue == AfterDetach(Tail(responseQueue[old]), rest)
        size == Len(sub[b].retrans)
    IN /\ InService(s)
       /\ b \in live
       /\ old # s
       /\ AllowTransfer
       /\ MaxSubsPerSession = 0 \/ Len(subscriptions[s]) < MaxSubsPerSession
       /\ produced + n <= MaxNotifications
       /\ produced' = produced + n
       /\ sub' = [sub EXCEPT ![b].session = s, ![b].queued = @ + n]
       /\ timers' = timers \ {b}
       /\ subCount' = Counted(-1)
       /\ subscriptions' = [t \in Session |->
              IF t = s THEN InsertByPriority(subscriptions[s], b, sub[b].set.priority, 1)
              ELSE IF t = old THEN rest ELSE subscriptions[t]]
       /\ retransTotal' = [t \in Session |->
              IF t = s THEN retransTotal[t] + size
              ELSE IF t = old THEN retransTotal[t] - size ELSE retransTotal[t]]
       /\ IF old = NoSession \/ responseQueue[old] = <<>>
          THEN UNCHANGED <<responseQueue, pending>>
          ELSE /\ responseQueue' = [responseQueue EXCEPT ![old] = queue]
               /\ pending' = (pending \ ToSet(responseQueue[old])) \cup ToSet(queue)
       /\ call' = [op |-> "publish", sub |-> b]
       /\ UNCHANGED <<sessionVars, live, lastSubId, now>>

-----------------------------------------------------------------------------
(* Sessions and their channels.                                            *)

\* CreateSession and the first ActivateSession on an open channel.
OpenSession(s) ==
    /\ call = Idle
    /\ s \notin alive
    /\ alive' = alive \cup {s}
    /\ channel' = [channel EXCEPT ![s] = "open"]
    /\ UNCHANGED <<serverVars, envVars, subscriptions, responseQueue, retransTotal,
                   sub, pending, call>>

DefectKeepQueue(s) ==
    /\ pending' = pending \ ToSet(responseQueue[s])
    /\ UNCHANGED responseQueue

\* UA_Session_detachFromSecureChannel drops the parked requests.
DropRequests(s) ==
    /\ responseQueue' = [responseQueue EXCEPT ![s] = <<>>]
    /\ pending' = pending \ ToSet(responseQueue[s])

\* ActivateSession on another channel.
ActivateSession(s) ==
    /\ call = Idle
    /\ s \in alive
    /\ channel' = [channel EXCEPT ![s] = "open"]
    /\ DropRequests(s)
    /\ UNCHANGED <<serverVars, envVars, alive, subscriptions, retransTotal, sub, call>>

\* removeSecureChannel half-closes the channel; a delayed callback detaches the
\* session (UA_SecureChannel_close). Responses sent in between are lost.
RemoveSecureChannel(s) ==
    /\ call = Idle
    /\ channel[s] = "open"
    /\ channel' = [channel EXCEPT ![s] = "closing"]
    /\ UNCHANGED <<serverVars, envVars, alive, subscriptions, responseQueue,
                   retransTotal, sub, pending, call>>

SecureChannelClose(s) ==
    /\ call = Idle
    /\ channel[s] = "closing"
    /\ channel' = [channel EXCEPT ![s] = "none"]
    /\ DropRequests(s)
    /\ UNCHANGED <<serverVars, envVars, alive, subscriptions, retransTotal, sub, call>>

\* UA_Server_removeSession: every subscription left goes with the session.
RemoveSession(s, kept) ==
    LET gone == ToSet(subscriptions[s]) \ kept
    IN /\ alive' = alive \ {s}
       /\ channel' = [channel EXCEPT ![s] = "none"]
       /\ subscriptions' = [subscriptions EXCEPT ![s] = <<>>]
       /\ retransTotal' = [retransTotal EXCEPT ![s] = 0]
       /\ live' = live \ gone
       /\ timers' = timers \ gone
       /\ subCount' = Counted(-Cardinality(gone))
       /\ sub' = [b \in SubId |-> IF b \in gone THEN Blank
                                  ELSE IF b \in kept THEN [sub[b] EXCEPT !.session = NoSession]
                                  ELSE sub[b]]
       /\ DropRequests(s)
       /\ UNCHANGED <<lastSubId, envVars, call>>

\* CloseSession: without deleteSubscriptions the subscriptions live on without
\* a session.
CloseSession(s, deleteSubscriptions) ==
    /\ InService(s)
    /\ RemoveSession(s, IF deleteSubscriptions THEN {} ELSE ToSet(subscriptions[s]))

\* UA_Server_cleanupSessions finds the session timed out.
SessionTimeout(s) ==
    /\ call = Idle
    /\ s \in alive
    /\ RemoveSession(s, {})

-----------------------------------------------------------------------------

ServiceNext ==
    \E s \in Session :
        \/ OpenSession(s)
        \/ ActivateSession(s)
        \/ RemoveSecureChannel(s)
        \/ SecureChannelClose(s)
        \/ SessionTimeout(s)
        \/ \E delete \in BOOLEAN : CloseSession(s, delete)
        \/ \E q \in Settings, enabled \in PublishingModes : CreateSubscription(s, q, enabled)
        \/ \E r \in Request, b \in SubId \cup {NoSub}, n \in SeqNo : Publish(s, r, b, n)
        \/ \E b \in SubId :
              \/ \E q \in Settings : ModifySubscription(s, b, q)
              \/ \E enabled \in PublishingModes : SetPublishingMode(s, b, enabled)
              \/ Republish(s, b)
              \/ DeleteSubscription(s, b)
              \/ \E n \in 0..1 : TransferSubscription(s, b, n)

ServerNext ==
    \/ Tick
    \/ \E b \in SubId :
          \/ Notify(b)
          \/ Discard(b)
          \/ PublishCallback(b)
          \/ PublishLoop(b)
          \/ LateLoop(b)

Next == ServiceNext \/ ServerNext

Spec == Init /\ [][Next]_vars

\* serviceMutex is released in the end, and the timer runs every registered
\* publishCallback again and again. Service calls come in between, so weak
\* fairness would not be enough.
Fairness ==
    \A b \in SubId :
        /\ WF_vars(PublishLoop(b))
        /\ WF_vars(LateLoop(b))
        /\ SF_vars(PublishCallback(b))

FairSpec == Spec /\ Fairness
=============================================================================
