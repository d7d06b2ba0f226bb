----------------------- MODULE SubscriptionProperties -----------------------
(***************************************************************************)
(* What the subscription engine of module Subscription has to guarantee.   *)
(***************************************************************************)
EXTENDS Subscription

Owned(s) == {b \in live : sub[b].session = s}

\* The list of a session holds exactly the subscriptions that point back to the
\* session, each once, and only activated sessions have any. Attach, detach,
\* the change of priority, the rotation of late subscriptions, transfer and
\* CloseSession each update both sides.
SessionListsCoherent ==
    \A s \in Session :
        /\ ToSet(subscriptions[s]) = Owned(s)
        /\ Len(subscriptions[s]) = Cardinality(Owned(s))
        /\ subscriptions[s] # <<>> => s \in alive

\* The part of the state that the structure of a step depends on. Together with
\* TypeOK it is inductive: a service call in progress works on a subscription
\* that exists, the search for late ones on one that is still in the list of
\* its session, and subscription ids are not used again.
StepsWellFounded ==
    /\ \A s \in Session :
          /\ IsInjective(subscriptions[s])
          /\ ToSet(subscriptions[s]) = Owned(s)
          /\ subscriptions[s] # <<>> => s \in alive
    /\ live \subseteq 1..lastSubId
    /\ timers \subseteq live
    /\ \A b \in SubId : Publishing(b) => b \in live
    /\ call.op = "late" => call.sub \in ToSet(subscriptions[call.session])

\* The list is ordered by priority (the comment in ua_session.h). The insertion
\* before the first lower priority relies on it and has to preserve it when a
\* priority is modified or a late subscription moves back.
PriorityOrder ==
    \A s \in Session : \A i, j \in DOMAIN subscriptions[s] :
        i < j => sub[subscriptions[s][i]].set.priority >= sub[subscriptions[s][j]].set.priority

\* Every publish request the server has accepted and not completed is parked in
\* exactly one place of one response queue: none is leaked, answered twice or
\* parked twice by the dequeue and re-enqueue in publishOnce, the release on
\* the last detach, the transfer and the loss of the channel.
RequestsConserved ==
    /\ pending = UNION {ToSet(responseQueue[s]) : s \in Session}
    /\ \A s \in Session : IsInjective(responseQueue[s])
    /\ \A s, t \in Session :
          s # t => ToSet(responseQueue[s]) \cap ToSet(responseQueue[t]) = {}

\* What is promised about publish requests, and the refinement: a session is
\* served while it has a channel and a subscription.
ServedSessions == {s \in Session : channel[s] # "none" /\ subscriptions[s] # <<>>}

PR == INSTANCE PublishRequests WITH
        Limit <- MaxPublishReq,
        parked <- responseQueue,
        outstanding <- pending,
        served <- ServedSessions

\* The subscription engine keeps the promise of PublishRequests: whatever
\* publishOnce, Service_Publish, the last detach, a transfer or the loss of the
\* channel does to the response queues is one of its actions or changes nothing
\* there.
RequestsKept == PR!RequestsSpec

\* A parked request can still be answered: its session is bound to a channel
\* and has a subscription that will answer it. Whoever removes the last
\* subscription or the channel has to release the requests.
NoStrandedRequest ==
    \A s \in Session :
        responseQueue[s] # <<>> => channel[s] # "none" /\ subscriptions[s] # <<>>

\* No session parks more publish requests than the configuration allows, also
\* when publishOnce puts requests back.
RequestLimit ==
    MaxPublishReq > 0 => \A s \in Session : Len(responseQueue[s]) <= MaxPublishReq

\* The messages the subscriptions of a session hold for retransmission, as pairs of
\* a subscription and a position in its queue.
Held(s) == UNION {{b} \X DOMAIN sub[b].retrans : b \in Owned(s)}

\* totalRetransmissionQueueSize of a session is the number of messages its
\* subscriptions hold for retransmission, through sending, eviction,
\* acknowledgement, attach, detach and transfer. It is a size_t: one decrement
\* too many makes it huge and every send would evict. No subscription keeps more
\* than its own limit.
RetransmissionAccounting ==
    /\ \A s \in Session : retransTotal[s] = Cardinality(Held(s))
    /\ \A b \in SubId : Len(sub[b].retrans) <= SubRetransLimit

\* How many messages ago sequence number n was used.
Age(b, n) ==
    LET d == (sub[b].nextSeqNo - n + MaxSeqNo) % MaxSeqNo IN IF d = 0 THEN MaxSeqNo ELSE d

\* The messages a client can ask for with Republish are in the order they were
\* sent and no two have the same sequence number, over the wrap-around that
\* skips 0, over evictions, acknowledgements and transfers. This ends when all
\* numbers have been used: since a full queue drops its newest message, the oldest
\* may stay until its number is given to another one. A session that adopts
\* no messages with transferred subscriptions stays within its limit.
RetransmissionOrder ==
    /\ produced <= MaxSeqNo =>
          \A b \in live : \A i, j \in DOMAIN sub[b].retrans :
             i < j => Age(b, sub[b].retrans[i].seqNo) > Age(b, sub[b].retrans[j].seqNo)
    /\ SessionRetransLimit > 0 /\ ~AllowTransfer =>
          \A s \in Session : retransTotal[s] <= SessionRetransLimit

\* Every subscription has its publishCallback in the timer: without it nothing
\* is published, no keep-alive is sent and the lifetime never ends.
PublishCallbackRegistered == call = Idle => live \subseteq timers

\* Every publish request is completed in the end, the keep-alive sees to that,
\* however the client modifies its subscriptions.
RequestsCompleted == \A r \in Request : r \in pending ~> r \notin pending

\* A subscription without a session is adopted by one or its lifetime ends.
DetachedReaped ==
    \A b \in SubId :
        (b \in live /\ sub[b].session = NoSession)
            ~> (b \notin live \/ sub[b].session # NoSession)
=============================================================================
