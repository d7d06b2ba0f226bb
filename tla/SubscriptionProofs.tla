------------------------- MODULE SubscriptionProofs -------------------------
(***************************************************************************)
(* Theorems about module Subscription, for every value of its constants.   *)
(* The inductive invariant is IInv: the types and StepsWellFounded.  More  *)
(* rest on it: RInv for the publish requests, ListsOrdered for priorities, *)
(* AccountInv, NumberInv and LimitInv for the retransmission queues.       *)
(***************************************************************************)
EXTENDS SubscriptionProperties, ListProofs

IInv == TypeOK /\ StepsWellFounded

GrantedSettings == [maxKeepAlive : Nat, lifeTime : Nat, perPublish : Nat, priority : Nat]

-----------------------------------------------------------------------------
(* The values the actions are built from.                                  *)

\* What the server grants is well-typed whatever the client asks for.
LEMMA RevisedType == \A q \in Settings : Revised(q) \in GrantedSettings
<1> TAKE q \in Settings
<1>1. q \in [keepAlive : Nat, lifeTime : Nat, perPublish : Nat, priority : Nat]
    BY SettingsAssumption
<1>2. Clamp(q.keepAlive, KeepAliveLimits) \in Nat /\ Clamp(q.lifeTime, LifeTimeLimits) \in Nat
    BY <1>1, LimitAssumption DEF Clamp
<1>3. MaxNotifPerPublish \in Nat
    BY BoundAssumption
<1> QED
    BY <1>1, <1>2, <1>3 DEF Revised, GrantedSettings

\* New subscriptions and deleted ones are well-typed.
LEMMA NewSubType ==
    /\ \A s \in Session \cup {NoSession}, set \in GrantedSettings, enabled \in BOOLEAN :
          NewSub(s, set, enabled) \in SubRecord /\ NewSub(s, set, enabled).session = s
    /\ Blank \in SubRecord /\ Blank.session = NoSession
BY BoundAssumption DEF NewSub, SubRecord, SeqNo, GrantedSettings, Blank

\* The counter of subscriptions wraps around in its range.
LEMMA CountedType ==
    ASSUME TypeOK, NEW d \in Int
    PROVE  Counted(d) \in 0..MaxSubCount
<1>1. subCount + d \in Int
    BY DEF TypeOK
<1>2. \A x \in Int, k \in Nat : x % (k + 1) \in 0..k
    OBVIOUS
<1> QED
    BY <1>1, <1>2, BoundAssumption DEF Counted

\* A set of subscriptions is finite.
LEMMA SubIdFinite ==
    ASSUME NEW S \in SUBSET SubId
    PROVE  IsFiniteSet(S) /\ Cardinality(S) \in Nat
<1>1. IsFiniteSet(SubId)
    BY FS_Interval, BoundAssumption DEF SubId
<1> QED
    BY <1>1, FS_Subset, FS_CardinalityType

\* InsertByPriority adds b to the list and keeps the rest.
LEMMA InsertByPriorityFacts ==
    ASSUME TypeOK, NEW list \in Seq(SubId), IsInjective(list),
           NEW b \in SubId, b \notin ToSet(list), NEW p \in Nat, NEW from \in Nat \ {0}
    PROVE  /\ InsertByPriority(list, b, p, from) \in Seq(SubId)
           /\ IsInjective(InsertByPriority(list, b, p, from))
           /\ ToSet(InsertByPriority(list, b, p, from)) = ToSet(list) \cup {b}
<1> DEFINE lower == {i \in from..Len(list) : sub[list[i]].set.priority < p}
           k == IF lower = {} THEN Len(list) + 1 ELSE Min(lower)
<1>1. Len(list) \in Nat
    BY LenProperties
<1>2. lower \subseteq 1..Len(list)
    BY <1>1
<1>3. lower # {} => Min(lower) \in lower
  <2>1. lower \in SUBSET Nat
    BY <1>2
  <2> HIDE DEF lower
  <2> QED
    BY <2>1, MinFacts
<1>4. InsertByPriority(list, b, p, from) = InsertAt(list, k, b)
    BY DEF InsertByPriority
<1> HIDE DEF lower
<1>5. lower = {} => k = Len(list) + 1
    BY Zenon
<1>6. lower # {} => k \in lower
    BY <1>3, Zenon
<1> HIDE DEF k
<1>7. k = Len(list) + 1 \/ k \in 1..Len(list)
    BY <1>2, <1>5, <1>6, Zenon
<1>8. k \in 1..Len(list) + 1
    BY <1>1, <1>7
<1> QED
    BY <1>4, <1>8, InsertFacts

\* The counters of a publish iteration are natural numbers, and it takes no
\* more notifications than there are.
LEMMA PublishCounters ==
    ASSUME TypeOK, NEW b \in SubId
    PROVE  /\ Notifications(b) \in Nat
           /\ Notifications(b) <= sub[b].queued
           /\ KeepAliveAfter(b) \in Nat
           /\ LifetimeAfter(b) \in Nat
<1>1. sub[b] \in SubRecord
    BY DEF TypeOK
<1>2. Notifications(b) \in Nat /\ Notifications(b) <= sub[b].queued
    BY <1>1 DEF Notifications, SubRecord
<1>3. KeepAliveAfter(b) \in Nat
    BY <1>1 DEF KeepAliveAfter, Bump, SubRecord
<1>4. LifetimeAfter(b) \in Nat
    BY <1>1 DEF LifetimeAfter, SubRecord
<1> QED
    BY <1>2, <1>3, <1>4

-----------------------------------------------------------------------------
(* Steps that leave the lists alone.                                       *)

\* StepsWellFounded depends on the lists and on the session of a subscription.
LEMMA SameLists ==
    ASSUME StepsWellFounded,
           UNCHANGED <<subscriptions, live, lastSubId, timers>>,
           alive \subseteq alive',
           \A b \in live : sub'[b].session = sub[b].session,
           \/ call' = Idle
           \/ call' = call
           \/ \E b \in live : call' = [op |-> "publish", sub |-> b]
           \/ \E s \in Session : \E b \in ToSet(subscriptions[s]) :
                 call' = [op |-> "late", sub |-> b, session |-> s]
    PROVE  StepsWellFounded'
<1>1. \A s \in Session : Owned(s)' = Owned(s)
    BY DEF Owned
<1>2. \A s \in Session :
         /\ IsInjective(subscriptions[s])'
         /\ ToSet(subscriptions[s])' = Owned(s)'
         /\ (subscriptions[s] # <<>>)' => (s \in alive)'
    BY <1>1 DEF StepsWellFounded
<1>3. /\ (live \subseteq 1..lastSubId)'
      /\ (timers \subseteq live)'
    BY DEF StepsWellFounded
<1>4. \A b \in SubId : Publishing(b)' => b \in live'
  <2> SUFFICES ASSUME NEW b \in SubId, call' = [op |-> "publish", sub |-> b]
               PROVE  b \in live
    BY DEF Publishing
  <2>1. call'.op = "publish" /\ call'.sub = b
    OBVIOUS
  <2>2. CASE call' = call
    BY <2>2 DEF StepsWellFounded, Publishing
  <2>3. CASE \E c \in live : call' = [op |-> "publish", sub |-> c]
    BY <2>1, <2>3
  <2>4. CASE call'.op # "publish"
    BY <2>1, <2>4
  <2>5. Idle.op # "publish"
    BY DEF Idle
  <2>6. \A c, s : [op |-> "late", sub |-> c, session |-> s].op # "publish"
    OBVIOUS
  <2> QED
    BY <2>2, <2>3, <2>4, <2>5, <2>6
<1>5. (call.op = "late" => call.sub \in ToSet(subscriptions[call.session]))'
    BY DEF StepsWellFounded, Idle
<1> QED
    BY <1>2, <1>3, <1>4, <1>5 DEF StepsWellFounded

\* The members of a subscription have their types.
LEMMA SubFields ==
    ASSUME TypeOK, NEW b \in SubId
    PROVE  /\ sub[b] \in SubRecord
           /\ sub[b].queued \in Nat
           /\ sub[b].session \in Session \cup {NoSession}
           /\ sub[b].set \in GrantedSettings
           /\ sub[b].nextSeqNo \in SeqNo
           /\ sub[b].retrans \in Seq([seqNo : SeqNo, at : Nat])
<1>1. sub[b] \in SubRecord
    BY DEF TypeOK
<1> QED
    BY <1>1 DEF SubRecord, GrantedSettings

\* A change of the number of queued notifications.
LEMMA QueuedType ==
    ASSUME TypeOK, NEW b \in SubId, NEW n \in Nat
    PROVE  /\ [sub EXCEPT ![b].queued = n] \in [SubId -> SubRecord]
           /\ \A c \in SubId : [sub EXCEPT ![b].queued = n][c].session = sub[c].session
<1>1. sub \in [SubId -> SubRecord] /\ sub[b] \in SubRecord
    BY DEF TypeOK
<1>2. [sub[b] EXCEPT !.queued = n] \in SubRecord
    BY <1>1 DEF SubRecord
<1> QED
    BY <1>1, <1>2 DEF SubRecord

\* Tick preserves the inductive invariant.
LEMMA TickStep ==
    ASSUME IInv, Tick
    PROVE  IInv'
<1>1. TypeOK'
    BY BoundAssumption DEF IInv, TypeOK, Tick, sessionVars, serverVars
<1>2. StepsWellFounded'
    BY SameLists DEF IInv, Tick, sessionVars, serverVars
<1> QED
    BY <1>1, <1>2 DEF IInv

\* Notify adds one notification to a subscription and preserves the invariant.
LEMMA NotifyStep ==
    ASSUME IInv, NEW b \in SubId, Notify(b)
    PROVE  IInv'
<1> DEFINE n == sub[b].queued + 1
<1>1. sub' = [sub EXCEPT ![b].queued = n] /\ n \in Nat
    BY SubFields DEF Notify, Produce, IInv
<1> HIDE DEF n
<1>2. sub' \in [SubId -> SubRecord]
    BY <1>1, QueuedType DEF IInv
<1>3. produced' \in 0..MaxNotifications
    BY BoundAssumption DEF Notify, Produce, IInv, TypeOK
<1>4. TypeOK'
    BY <1>2, <1>3 DEF IInv, TypeOK, Notify, sessionVars, serverVars
<1>5. \A c \in live : sub'[c].session = sub[c].session
    BY <1>1, QueuedType DEF IInv, TypeOK
<1>6. StepsWellFounded'
    BY <1>5, SameLists DEF IInv, Notify, sessionVars, serverVars
<1> QED
    BY <1>4, <1>6 DEF IInv

\* Discard takes a notification that is there.
LEMMA DiscardStep ==
    ASSUME IInv, NEW b \in SubId, Discard(b)
    PROVE  IInv'
<1> DEFINE n == sub[b].queued - 1
<1>1. sub' = [sub EXCEPT ![b].queued = n] /\ n \in Nat
    BY SubFields DEF Discard, IInv
<1> HIDE DEF n
<1>2. sub' \in [SubId -> SubRecord]
    BY <1>1, QueuedType DEF IInv
<1>3. TypeOK'
    BY <1>2 DEF IInv, TypeOK, Discard, sessionVars, serverVars, envVars
<1>4. \A c \in live : sub'[c].session = sub[c].session
    BY <1>1, QueuedType DEF IInv, TypeOK
<1>5. StepsWellFounded'
    BY <1>4, SameLists DEF IInv, Discard, sessionVars, serverVars
<1> QED
    BY <1>3, <1>5 DEF IInv

\* PublishCallback enters the publish loop with a subscription that exists.
LEMMA PublishCallbackStep ==
    ASSUME IInv, NEW b \in SubId, PublishCallback(b)
    PROVE  IInv'
<1>1. PICK n \in 0..1 : Produce(b, n)
    BY DEF PublishCallback
<1> DEFINE k == sub[b].queued + n
<1>2. sub' = [sub EXCEPT ![b].queued = k] /\ k \in Nat
    BY <1>1, SubFields DEF Produce, IInv
<1> HIDE DEF k
<1>3. sub' \in [SubId -> SubRecord]
    BY <1>2, QueuedType DEF IInv
<1>4. produced' \in 0..MaxNotifications
    BY <1>1, BoundAssumption DEF Produce, IInv, TypeOK
<1>5. call' = [op |-> "publish", sub |-> b] /\ b \in live
    BY DEF PublishCallback, IInv, StepsWellFounded
<1>6. call' \in Calls
    BY <1>5 DEF Calls
<1>7. TypeOK'
    BY <1>3, <1>4, <1>6 DEF IInv, TypeOK, PublishCallback, sessionVars, serverVars
<1>8. \A c \in live : sub'[c].session = sub[c].session
    BY <1>2, QueuedType DEF IInv, TypeOK
<1>9. StepsWellFounded'
    BY <1>5, <1>8, SameLists DEF IInv, PublishCallback, sessionVars, serverVars
<1> QED
    BY <1>7, <1>9 DEF IInv

\* SetPublishingMode and Republish restart the lifetime of a subscription.
LEMMA LifetimeServicesStep ==
    ASSUME IInv, NEW s \in Session, NEW b \in SubId,
           Republish(s, b) \/ \E enabled \in PublishingModes : SetPublishingMode(s, b, enabled)
    PROVE  IInv'
<1>1. /\ sub' \in [SubId -> SubRecord]
      /\ \A c \in live : sub'[c].session = sub[c].session
  <2>1. sub[b] \in SubRecord
    BY DEF IInv, TypeOK
  <2>2. CASE Republish(s, b)
    BY <2>1, <2>2 DEF Republish, IInv, TypeOK, SubRecord
  <2>3. ASSUME NEW enabled \in PublishingModes, SetPublishingMode(s, b, enabled)
        PROVE  /\ sub' \in [SubId -> SubRecord]
               /\ \A c \in live : sub'[c].session = sub[c].session
    BY <2>1, <2>3, ModesAssumption DEF SetPublishingMode, IInv, TypeOK, SubRecord
  <2> QED
    BY <2>2, <2>3
<1>2. UNCHANGED <<alive, channel, live, lastSubId, timers, subCount, produced, now,
                  subscriptions, responseQueue, retransTotal, pending, call>>
    BY DEF Republish, SetPublishingMode, sessionVars, serverVars, envVars
<1>3. TypeOK'
    BY <1>1, <1>2 DEF IInv, TypeOK
<1>4. StepsWellFounded'
    BY <1>1, <1>2, SameLists DEF IInv
<1> QED
    BY <1>3, <1>4 DEF IInv

\* Sessions and channels that come, change or go without a subscription.
LEMMA SessionStep ==
    ASSUME IInv, NEW s \in Session,
           \/ OpenSession(s)
           \/ ActivateSession(s)
           \/ RemoveSecureChannel(s)
           \/ SecureChannelClose(s)
    PROVE  IInv'
<1>1. /\ UNCHANGED <<live, lastSubId, timers, subCount, produced, now, subscriptions,
                     retransTotal, sub, call>>
      /\ alive \subseteq alive'
      /\ alive' \subseteq alive \cup {s}
    BY DEF OpenSession, ActivateSession, RemoveSecureChannel, SecureChannelClose,
           serverVars, envVars
<1>2. channel' \in [Session -> {"none", "open", "closing"}]
    BY DEF OpenSession, ActivateSession, RemoveSecureChannel, SecureChannelClose, IInv, TypeOK
<1>3. /\ responseQueue' \in [Session -> Seq(Request)]
      /\ pending' \subseteq Request
  <2>1. CASE UNCHANGED <<responseQueue, pending>>
    BY <2>1 DEF IInv, TypeOK
  <2>2. CASE DropRequests(s)
    BY <2>2 DEF DropRequests, IInv, TypeOK
  <2> QED
    BY <2>1, <2>2
       DEF OpenSession, ActivateSession, RemoveSecureChannel, SecureChannelClose
<1>4. TypeOK'
    BY <1>1, <1>2, <1>3 DEF IInv, TypeOK
<1>5. StepsWellFounded'
    BY <1>1, SameLists DEF IInv
<1> QED
    BY <1>4, <1>5 DEF IInv

-----------------------------------------------------------------------------
(* One iteration of publishing.                                            *)

Entries == [seqNo : SeqNo, at : Nat]

\* Only subscriptions that hold a message for retransmission lose one.
LEMMA VictimsFacts ==
    ASSUME TypeOK, NEW s \in Session, NEW b \in SubId
    PROVE  /\ RetransVictims(s, b) \subseteq SubId
           /\ \A c \in RetransVictims(s, b) : sub[c].retrans # <<>>
<1>1. \A c \in SubId : sub[c].retrans \in Seq(Entries)
    BY SubFields DEF Entries
<1>2. CASE Len(sub[b].retrans) >= SubRetransLimit
  <2>1. RetransVictims(s, b) = {b}
    BY <1>2, Zenon DEF RetransVictims
  <2>2. Len(sub[b].retrans) # 0
    BY <1>1, <1>2, BoundAssumption
  <2> QED
    BY <1>1, <2>1, <2>2, EmptySeq
<1>3. CASE ~(Len(sub[b].retrans) >= SubRetransLimit)
  <2>1. ASSUME NEW c \in RetransVictims(s, b)
        PROVE  \E i \in DOMAIN subscriptions[s] :
                  c = subscriptions[s][i] /\ sub[c].retrans # <<>>
    BY <1>3, <2>1, Zenon DEF RetransVictims
  <2>2. subscriptions[s] \in Seq(SubId)
    BY DEF TypeOK
  <2> QED
    BY <2>1, <2>2, LenProperties, ElementOfSeq
<1> QED
    BY <1>2, <1>3

\* Storing and evicting messages leaves a well-typed retransmission queue.
LEMMA RetransAfterType ==
    ASSUME TypeOK, NEW b \in SubId, NEW c \in SubId, NEW victims, NEW entry \in Entries,
           c \in victims => sub[c].retrans # <<>>
    PROVE  RetransAfter(c, b, victims, entry) \in Seq(Entries)
<1>1. sub[c].retrans \in Seq(Entries)
    BY SubFields DEF Entries
<1>2. c \in victims => DropLast(sub[c].retrans) \in Seq(Entries)
    BY <1>1, DropLastFacts
<1> DEFINE kept == IF c \in victims THEN DropLast(sub[c].retrans) ELSE sub[c].retrans
<1>3. kept \in Seq(Entries)
    BY <1>1, <1>2
<1>4. RetransAfter(c, b, victims, entry) = IF c = b THEN Append(kept, entry) ELSE kept
    BY DEF RetransAfter
<1> HIDE DEF kept
<1> QED
    BY <1>3, <1>4

\* An iteration that sends nothing.
LEMMA NoMessageFacts ==
    ASSUME TypeOK, NEW b \in SubId, Quiet(b) \/ BecomeLate(b)
    PROVE  /\ sub' \in [SubId -> SubRecord]
           /\ \A c \in SubId : sub'[c].session = sub[c].session
           /\ UNCHANGED <<responseQueue, retransTotal, pending>>
<1> DEFINE k == KeepAliveAfter(b)
           l == LifetimeAfter(b)
<1>1. k \in Nat /\ l \in Nat
    BY PublishCounters
<1>2. sub \in [SubId -> SubRecord] /\ sub[b] \in SubRecord
    BY DEF TypeOK
<1>3. \/ sub' = [sub EXCEPT ![b].keepAlive = k, ![b].lifetime = l]
      \/ sub' = [sub EXCEPT ![b].state = "late", ![b].keepAlive = k, ![b].lifetime = l]
    BY DEF Quiet, BecomeLate
<1>4. UNCHANGED <<responseQueue, retransTotal, pending>>
    BY DEF Quiet, BecomeLate
<1> HIDE DEF k, l
<1>5. /\ [[sub[b] EXCEPT !.keepAlive = k] EXCEPT !.lifetime = l] \in SubRecord
      /\ [[[sub[b] EXCEPT !.state = "late"] EXCEPT !.keepAlive = k] EXCEPT !.lifetime = l]
            \in SubRecord
    BY <1>1, <1>2 DEF SubRecord
<1>6. sub' \in [SubId -> SubRecord]
    BY <1>2, <1>3, <1>5
<1>7. /\ [[sub[b] EXCEPT !.keepAlive = k] EXCEPT !.lifetime = l].session = sub[b].session
      /\ [[[sub[b] EXCEPT !.state = "late"] EXCEPT !.keepAlive = k] EXCEPT !.lifetime = l]
            .session = sub[b].session
    BY <1>2 DEF SubRecord
<1>8. \A c \in SubId : sub'[c].session = sub[c].session
  <2>1. sub'[b].session = sub[b].session
    BY <1>2, <1>3, <1>7
  <2>2. \A c \in SubId \ {b} : sub'[c] = sub[c]
    BY <1>2, <1>3
  <2> QED
    BY <2>1, <2>2
<1> QED
    BY <1>4, <1>6, <1>8

\* A message leaves the types and the sessions of the subscriptions intact, and
\* takes the first request of the session that receives it.
LEMMA SendFacts ==
    ASSUME TypeOK, NEW b \in SubId, Send(b)
    PROVE  /\ sub' \in [SubId -> SubRecord]
           /\ \A c \in SubId : sub'[c].session = sub[c].session
           /\ retransTotal' \in [Session -> Int]
           /\ sub[b].session \in Session
           /\ channel[sub[b].session] # "none"
           /\ responseQueue[sub[b].session] # <<>>
           /\ responseQueue' = [responseQueue EXCEPT ![sub[b].session] = Tail(@)]
           /\ pending' = pending \ {Head(responseQueue[sub[b].session])}
           /\ responseQueue' \in [Session -> Seq(Request)]
           /\ pending' \subseteq Request
<1> DEFINE s == sub[b].session
           n == Notifications(b)
           stores == n > 0 /\ EnableRetransmission
           victims == IF stores THEN RetransVictims(s, b) ELSE {}
           entry == [seqNo |-> sub[b].nextSeqNo, at |-> now]
           Kept(c) == IF stores THEN RetransAfter(c, b, victims, entry) ELSE sub[c].retrans
           next == IF n > 0 THEN NextSeqNo(sub[b].nextSeqNo) ELSE sub[b].nextSeqNo
           rest == sub[b].queued - n
           state == IF sub[b].queued = n THEN "normal" ELSE sub[b].state
           Old(c) == sub[c]
<1>1. /\ s \in Session
      /\ channel[s] # "none"
      /\ responseQueue[s] # <<>>
    BY SubFields DEF Send, CanSend, HasRequest
<1>2. /\ responseQueue' = [responseQueue EXCEPT ![s] = Tail(@)]
      /\ pending' = pending \ {Head(responseQueue[s])}
    BY DEF Send
<1>3. responseQueue' \in [Session -> Seq(Request)]
    BY <1>1, <1>2, HeadTailProperties DEF TypeOK
<1>4. entry \in Entries
  <2>1. now \in Nat /\ sub[b].nextSeqNo \in SeqNo
    BY SubFields, BoundAssumption DEF TypeOK
  <2> QED
    BY <2>1 DEF Entries
<1>5. \A c \in SubId : Kept(c) \in Seq(Entries)
  <2> TAKE c \in SubId
  <2>1. CASE stores
    <3>1. c \in victims => sub[c].retrans # <<>>
        BY <1>1, <2>1, VictimsFacts
    <3> HIDE DEF victims, entry
    <3> QED
        BY <1>4, <2>1, <3>1, RetransAfterType
  <2>2. CASE ~stores
    BY <2>2, SubFields DEF Entries
  <2> QED
    BY <2>1, <2>2
<1>6. victims \subseteq SubId
    BY <1>1, VictimsFacts
<1>7. Cardinality(victims) \in Nat
    <2> HIDE DEF victims
    <2> QED
        BY <1>6, SubIdFinite
<1>8. retransTotal' \in [Session -> Int]
  <2>1. retransTotal' = [retransTotal EXCEPT ![s] =
                            IF stores THEN @ + 1 - Cardinality(victims) ELSE @]
    BY DEF Send
  <2> HIDE DEF victims, stores
  <2> QED
    BY <1>1, <1>7, <2>1 DEF TypeOK
<1>9. next \in SeqNo /\ rest \in Nat /\ state \in {"normal", "late"}
  <2>1. next \in SeqNo
    BY SubFields, BoundAssumption DEF NextSeqNo, SeqNo
  <2>2. rest \in Nat
    BY SubFields, PublishCounters
  <2>3. sub[b].state \in {"normal", "late"}
    BY SubFields DEF SubRecord
  <2> QED
    BY <2>1, <2>2, <2>3
<1>10. sub' = [c \in SubId |->
                 IF c = b
                 THEN [Old(b) EXCEPT !.retrans = Kept(b), !.nextSeqNo = next, !.queued = rest,
                                     !.state = state, !.keepAlive = 0, !.lifetime = 0]
                 ELSE [Old(c) EXCEPT !.retrans = Kept(c)]]
    BY Zenon DEF Send
<1> HIDE DEF Kept, next, rest, state
<1>11. \A c \in SubId : Old(c) \in SubRecord
    BY SubFields
<1> HIDE DEF Old
<1>12. /\ [Old(b) EXCEPT !.retrans = Kept(b), !.nextSeqNo = next, !.queued = rest,
                         !.state = state, !.keepAlive = 0, !.lifetime = 0] \in SubRecord
       /\ [Old(b) EXCEPT !.retrans = Kept(b), !.nextSeqNo = next, !.queued = rest,
                         !.state = state, !.keepAlive = 0, !.lifetime = 0].session
             = Old(b).session
    BY <1>5, <1>9, <1>11 DEF SubRecord, Entries
<1>13. \A c \in SubId : /\ [Old(c) EXCEPT !.retrans = Kept(c)] \in SubRecord
                        /\ [Old(c) EXCEPT !.retrans = Kept(c)].session = Old(c).session
    BY <1>5, <1>11 DEF SubRecord, Entries
<1>14. \A c \in SubId : sub'[c] \in SubRecord /\ sub'[c].session = sub[c].session
    BY <1>10, <1>12, <1>13 DEF Old
<1>15. sub' \in [SubId -> SubRecord]
    BY <1>10, <1>14
<1>16. pending' \subseteq Request
    BY <1>2 DEF TypeOK
<1> QED
    BY <1>1, <1>2, <1>3, <1>8, <1>14, <1>15, <1>16

-----------------------------------------------------------------------------
(* The two loops.                                                          *)

\* A publish loop that ends without a message preserves the invariant.
LEMMA PublishStopStep ==
    ASSUME IInv, NEW b \in SubId, PublishStop(b)
    PROVE  IInv'
<1>1. Quiet(b) \/ BecomeLate(b)
    BY DEF PublishStop
<1>2. /\ sub' \in [SubId -> SubRecord]
      /\ \A c \in SubId : sub'[c].session = sub[c].session
      /\ UNCHANGED <<responseQueue, retransTotal, pending>>
    BY <1>1, NoMessageFacts DEF IInv
<1>3. /\ call' = Idle
      /\ UNCHANGED <<alive, channel, live, lastSubId, timers, subCount, produced, now,
                     subscriptions>>
    BY DEF PublishStop, sessionVars, serverVars, envVars
<1>4. TypeOK'
    BY <1>2, <1>3 DEF IInv, TypeOK, Calls
<1>5. StepsWellFounded'
    BY <1>2, <1>3, SameLists DEF IInv, TypeOK
<1> QED
    BY <1>4, <1>5 DEF IInv

\* A publish loop that sends a message preserves the invariant.
LEMMA PublishSendStep ==
    ASSUME IInv, NEW b \in SubId, PublishSend(b)
    PROVE  IInv'
<1>1. /\ Send(b)
      /\ call' = Idle \/ call' = call
      /\ UNCHANGED <<alive, channel, live, lastSubId, timers, subCount, produced, now,
                     subscriptions>>
    BY DEF PublishSend, sessionVars, serverVars, envVars
<1>2. /\ sub' \in [SubId -> SubRecord]
      /\ \A c \in SubId : sub'[c].session = sub[c].session
      /\ retransTotal' \in [Session -> Int]
      /\ responseQueue' \in [Session -> Seq(Request)]
      /\ pending' \subseteq Request
    BY <1>1, SendFacts DEF IInv
<1>3. TypeOK'
    BY <1>1, <1>2 DEF IInv, TypeOK, Calls
<1>4. StepsWellFounded'
    BY <1>1, <1>2, SameLists DEF IInv, TypeOK
<1> QED
    BY <1>3, <1>4 DEF IInv

\* The search for late subscriptions stands at b, which its session has.
LEMMA SearchFacts ==
    ASSUME IInv, NEW b \in SubId, Searching(b)
    PROVE  /\ call.session \in Session
           /\ b \in ToSet(subscriptions[call.session])
           /\ subscriptions[call.session] \in Seq(SubId)
           /\ IsInjective(subscriptions[call.session])
           /\ sub[b].session = call.session
           /\ b \in live
           /\ \A c : [call EXCEPT !.sub = c] = [op |-> "late", sub |-> c, session |-> call.session]
<1>1. call \in [op : {"late"}, sub : SubId, session : Session]
  <2>1. call \in Calls /\ call.op = "late"
    BY DEF IInv, TypeOK, Searching
  <2>2. call # Idle
    BY <2>1 DEF Idle
  <2> QED
    BY <2>1, <2>2 DEF Calls
<1>2. call.session \in Session
    BY <1>1
<1>3. b \in ToSet(subscriptions[call.session])
    BY DEF IInv, StepsWellFounded, Searching
<1>4. /\ IsInjective(subscriptions[call.session])
      /\ ToSet(subscriptions[call.session]) = Owned(call.session)
    BY <1>2 DEF IInv, StepsWellFounded
<1>5. subscriptions[call.session] \in Seq(SubId)
    BY <1>2 DEF IInv, TypeOK
<1>6. \A c : [call EXCEPT !.sub = c] = [op |-> "late", sub |-> c, session |-> call.session]
    BY <1>1
<1> QED
    BY <1>2, <1>3, <1>4, <1>5, <1>6 DEF Owned

\* What the search turns to next is in the list or the search is over.
LEMMA SearchOnFacts ==
    ASSUME IInv, NEW b \in SubId, Searching(b)
    PROVE  LET next == SearchOn(NextInList(call.session, b))
           IN \/ next = Idle
              \/ \E c \in ToSet(subscriptions[call.session]) :
                    next = [op |-> "late", sub |-> c, session |-> call.session]
<1> DEFINE s == call.session
           list == subscriptions[s]
           i == IndexOf(list, b)
<1>1. /\ b \in ToSet(list)
      /\ list \in Seq(SubId)
      /\ IsInjective(list)
    BY SearchFacts
<1>2. i \in 1..Len(list)
    BY <1>1, WithoutFacts
<1>3. i < Len(list) => list[i + 1] \in ToSet(list)
    BY <1>1, <1>2, ToSetFacts
<1>4. NextInList(s, b) = NoSub \/ NextInList(s, b) \in ToSet(list)
    BY <1>3 DEF NextInList
<1> QED
    BY <1>4, SearchFacts DEF SearchOn

\* The search for late subscriptions moves on within the list of the session.
LEMMA LateSkipStep ==
    ASSUME IInv, NEW b \in SubId, LateSkip(b)
    PROVE  IInv'
<1>1. /\ Searching(b)
      /\ call' = SearchOn(NextInList(call.session, b))
      /\ UNCHANGED <<alive, channel, live, lastSubId, timers, subCount, produced, now,
                     subscriptions, responseQueue, retransTotal, sub, pending>>
    BY DEF LateSkip, sessionVars, serverVars, envVars
<1>2. \/ call' = Idle
      \/ \E c \in ToSet(subscriptions[call.session]) :
            call' = [op |-> "late", sub |-> c, session |-> call.session]
    BY <1>1, SearchOnFacts
<1>3. call.session \in Session /\ ToSet(subscriptions[call.session]) \subseteq SubId
    BY <1>1, SearchFacts, ToSetFacts
<1>4. call' \in Calls
    BY <1>2, <1>3 DEF Calls
<1>5. TypeOK'
    BY <1>1, <1>4 DEF IInv, TypeOK
<1>6. StepsWellFounded'
    BY <1>1, <1>2, <1>3, SameLists DEF IInv
<1> QED
    BY <1>5, <1>6 DEF IInv

\* Taking b out of its list and inserting it again keeps the list's elements.
LEMMA ReinsertFacts ==
    ASSUME IInv, NEW s \in Session, NEW b \in SubId, b \in ToSet(subscriptions[s]),
           NEW p \in Nat, NEW from \in Nat \ {0}
    PROVE  LET list == InsertByPriority(Without(subscriptions[s], b), b, p, from)
           IN /\ list \in Seq(SubId)
              /\ IsInjective(list)
              /\ ToSet(list) = ToSet(subscriptions[s])
<1> DEFINE rest == Without(subscriptions[s], b)
<1>1. subscriptions[s] \in Seq(SubId) /\ IsInjective(subscriptions[s])
    BY DEF IInv, TypeOK, StepsWellFounded
<1>2. /\ rest \in Seq(SubId)
      /\ IsInjective(rest)
      /\ ToSet(rest) = ToSet(subscriptions[s]) \ {b}
    BY <1>1, WithoutFacts
<1> HIDE DEF rest
<1>3. b \notin ToSet(rest)
    BY <1>2
<1>4. /\ InsertByPriority(rest, b, p, from) \in Seq(SubId)
      /\ IsInjective(InsertByPriority(rest, b, p, from))
      /\ ToSet(InsertByPriority(rest, b, p, from)) = ToSet(rest) \cup {b}
    BY <1>2, <1>3, InsertByPriorityFacts DEF IInv
<1>5. ToSet(rest) \cup {b} = ToSet(subscriptions[s])
    BY <1>2, Zenon
<1> QED
    BY <1>4, <1>5 DEF rest

\* An iteration for subscription b, whatever comes of it.
LEMMA IterationFacts ==
    ASSUME TypeOK, NEW b \in SubId, Quiet(b) \/ Send(b)
    PROVE  /\ sub' \in [SubId -> SubRecord]
           /\ \A c \in SubId : sub'[c].session = sub[c].session
           /\ retransTotal' \in [Session -> Int]
           /\ responseQueue' \in [Session -> Seq(Request)]
           /\ pending' \subseteq Request
<1>1. CASE Quiet(b)
    BY <1>1, NoMessageFacts DEF TypeOK
<1>2. CASE Send(b)
    BY <1>2, SendFacts
<1> QED
    BY <1>1, <1>2

\* Serving a late subscription moves it within the list, and the search goes on
\* with one that is still there.
LEMMA LateServeStep ==
    ASSUME IInv, NEW b \in SubId, LateServe(b)
    PROVE  IInv'
<1> DEFINE s == call.session
           i == IndexOf(subscriptions[s], b)
           list == InsertByPriority(Without(subscriptions[s], b), b, sub[b].set.priority, i)
<1>1. /\ Searching(b)
      /\ Quiet(b) \/ Send(b)
      /\ subscriptions' = [subscriptions EXCEPT ![s] = list]
      /\ call' = Idle \/ call' = SearchOn(NextInList(s, b))
      /\ UNCHANGED <<alive, channel, live, lastSubId, timers, subCount, produced, now>>
    BY Zenon DEF LateServe, sessionVars, serverVars, envVars
<1>2. /\ s \in Session
      /\ b \in ToSet(subscriptions[s])
      /\ subscriptions[s] \in Seq(SubId)
      /\ IsInjective(subscriptions[s])
    BY <1>1, SearchFacts
<1>3. i \in Nat \ {0} /\ sub[b].set.priority \in Nat
    BY <1>2, WithoutFacts, SubFields DEF IInv, GrantedSettings
<1>4. list \in Seq(SubId) /\ IsInjective(list) /\ ToSet(list) = ToSet(subscriptions[s])
    BY <1>2, <1>3, ReinsertFacts
<1>5. /\ sub' \in [SubId -> SubRecord]
      /\ \A c \in SubId : sub'[c].session = sub[c].session
      /\ retransTotal' \in [Session -> Int]
      /\ responseQueue' \in [Session -> Seq(Request)]
      /\ pending' \subseteq Request
    BY <1>1, IterationFacts DEF IInv
<1>6. \/ call' = Idle
      \/ \E c \in ToSet(subscriptions[s]) :
            call' = [op |-> "late", sub |-> c, session |-> s]
    BY <1>1, SearchOnFacts
<1> HIDE DEF list, i, s
<1>7. subscriptions' \in [Session -> Seq(SubId)]
    BY <1>1, <1>2, <1>4 DEF IInv, TypeOK
<1>8. ToSet(subscriptions[s]) \subseteq SubId
    BY <1>2, ToSetFacts
<1>9. call' \in Calls
    BY <1>2, <1>6, <1>8 DEF Calls
<1>10. TypeOK'
    BY <1>1, <1>5, <1>7, <1>9 DEF IInv, TypeOK
<1>11. \A t \in Session : /\ IsInjective(subscriptions'[t])
                          /\ ToSet(subscriptions'[t]) = ToSet(subscriptions[t])
                          /\ subscriptions'[t] # <<>> => subscriptions[t] # <<>>
  <2>1. \A t \in Session : IsInjective(subscriptions[t])
    BY DEF IInv, StepsWellFounded
  <2>2. subscriptions'[s] = list /\ \A t \in Session \ {s} : subscriptions'[t] = subscriptions[t]
    BY <1>1, <1>2 DEF IInv, TypeOK
  <2>3. subscriptions[s] # <<>>
    BY <1>2, ToSetFacts
  <2> QED
    BY <1>4, <2>1, <2>2, <2>3
<1>12. \A t \in Session : Owned(t)' = Owned(t)
    BY <1>1, <1>5 DEF Owned, IInv, TypeOK
<1>13. \A t \in Session : /\ IsInjective(subscriptions'[t])
                          /\ ToSet(subscriptions'[t]) = Owned(t)'
                          /\ subscriptions'[t] # <<>> => t \in alive'
    BY <1>1, <1>11, <1>12 DEF IInv, StepsWellFounded
<1>14. /\ live' \subseteq 1..lastSubId'
       /\ timers' \subseteq live'
    BY <1>1 DEF IInv, StepsWellFounded
<1>15. call'.op # "publish"
    BY <1>6 DEF Idle
<1>16. call'.op = "late" => call'.sub \in ToSet(subscriptions'[call'.session])
    BY <1>2, <1>6, <1>11 DEF Idle
<1>17. StepsWellFounded'
    BY <1>13, <1>14, <1>15, <1>16 DEF StepsWellFounded, Publishing
<1> QED
    BY <1>10, <1>17 DEF IInv

-----------------------------------------------------------------------------
(* The services.                                                           *)

\* The acknowledged message is one of the queue.
LEMMA AckFacts ==
    ASSUME TypeOK, NEW s, NEW b \in SubId \cup {NoSub}, NEW n, Acked(s, b, n)
    PROVE  /\ b \in SubId
           /\ AckIndex(b, n) \in 1..Len(sub[b].retrans)
           /\ RemoveAt(sub[b].retrans, AckIndex(b, n)) \in Seq(Entries)
           /\ Len(RemoveAt(sub[b].retrans, AckIndex(b, n))) < Len(sub[b].retrans)
<1> DEFINE S == {i \in DOMAIN sub[b].retrans : sub[b].retrans[i].seqNo = n}
<1>1. b \in SubId
    BY DEF Acked
<1>2. sub[b].retrans \in Seq(Entries)
    BY <1>1, SubFields DEF Entries
<1>3. S \subseteq 1..Len(sub[b].retrans) /\ S # {}
    BY <1>2, LenProperties DEF Acked
<1> HIDE DEF S
<1>4. Min(S) \in S
    BY <1>3, MinFacts
<1>5. AckIndex(b, n) \in 1..Len(sub[b].retrans)
    BY <1>3, <1>4 DEF AckIndex, S
<1> QED
    BY <1>1, <1>2, <1>5, RemoveAtFacts, LenProperties

\* Service_Publish starts the search at a subscription of the session.
LEMMA PublishStep ==
    ASSUME IInv, NEW s \in Session, NEW r \in Request, NEW b \in SubId \cup {NoSub},
           NEW n \in SeqNo, Publish(s, r, b, n)
    PROVE  IInv'
<1> DEFINE full == QueueFull(s)
           queue == IF full THEN Tail(responseQueue[s]) ELSE responseQueue[s]
<1>1. /\ subscriptions[s] # <<>>
      /\ responseQueue' = [responseQueue EXCEPT ![s] = Append(queue, r)]
      /\ pending' = (IF full THEN pending \ {Head(responseQueue[s])} ELSE pending) \cup {r}
      /\ UNCHANGED <<alive, channel, live, lastSubId, timers, subCount, produced, now,
                     subscriptions>>
    BY DEF Publish, sessionVars, serverVars, envVars
<1>2. queue \in Seq(Request)
  <2>1. responseQueue[s] \in Seq(Request)
    BY DEF IInv, TypeOK
  <2>2. full => responseQueue[s] # <<>>
    BY <2>1, EmptySeq, BoundAssumption DEF QueueFull
  <2> QED
    BY <2>1, <2>2, HeadTailProperties
<1>3. responseQueue' \in [Session -> Seq(Request)] /\ pending' \subseteq Request
  <2> HIDE DEF queue, full
  <2> QED
    BY <1>1, <1>2 DEF IInv, TypeOK
<1>4. /\ sub' \in [SubId -> SubRecord]
      /\ \A c \in SubId : sub'[c].session = sub[c].session
      /\ retransTotal' \in [Session -> Int]
  <2>1. CASE Acked(s, b, n)
    <3> DEFINE rest == RemoveAt(sub[b].retrans, AckIndex(b, n))
    <3>1. sub' = [sub EXCEPT ![b].retrans = rest] /\ retransTotal' = [retransTotal EXCEPT ![s] = @ - 1]
        BY <2>1, Zenon DEF Publish
    <3>2. b \in SubId /\ rest \in Seq(Entries)
        BY <2>1, AckFacts DEF IInv
    <3> HIDE DEF rest
    <3>3. sub \in [SubId -> SubRecord] /\ sub[b] \in SubRecord
        BY <3>2 DEF IInv, TypeOK
    <3>4. /\ [sub[b] EXCEPT !.retrans = rest] \in SubRecord
          /\ [sub[b] EXCEPT !.retrans = rest].session = sub[b].session
        BY <3>2, <3>3 DEF SubRecord, Entries
    <3> QED
        BY <3>1, <3>2, <3>3, <3>4 DEF IInv, TypeOK
  <2>2. CASE ~Acked(s, b, n)
    BY <2>2 DEF Publish, IInv, TypeOK
  <2> QED
    BY <2>1, <2>2
<1>5. Head(subscriptions[s]) \in ToSet(subscriptions[s]) /\ Head(subscriptions[s]) \in SubId
    BY <1>1, TailFacts, ToSetFacts DEF IInv, TypeOK, StepsWellFounded
<1>6. call' = Idle \/ call' = [op |-> "late", sub |-> Head(subscriptions[s]), session |-> s]
    BY DEF Publish
<1>7. call' \in Calls
    BY <1>5, <1>6 DEF Calls
<1>8. TypeOK'
    BY <1>1, <1>3, <1>4, <1>7 DEF IInv, TypeOK
<1>9. StepsWellFounded'
    BY <1>1, <1>4, <1>5, <1>6, SameLists DEF IInv, TypeOK
<1> QED
    BY <1>8, <1>9 DEF IInv

\* A new subscription gets an id that no other has and one place in the list.
LEMMA CreateSubscriptionStep ==
    ASSUME IInv, NEW s \in Session, NEW q \in Settings, NEW enabled \in PublishingModes,
           CreateSubscription(s, q, enabled)
    PROVE  IInv'
<1> DEFINE b == lastSubId + 1
           list == InsertByPriority(subscriptions[s], b, q.priority, 1)
           new == NewSub(s, Revised(q), enabled)
<1>1. /\ InService(s)
      /\ lastSubId < MaxSubId
      /\ lastSubId' = b
      /\ sub' = [sub EXCEPT ![b] = new]
      /\ live' = live \cup {b}
      /\ timers' = timers \cup {b}
      /\ subCount' = Counted(1)
      /\ subscriptions' = [subscriptions EXCEPT ![s] = list]
      /\ UNCHANGED <<alive, channel, produced, now, responseQueue, retransTotal, pending, call>>
    BY Zenon DEF CreateSubscription, RegisterPublishCallback, sessionVars, envVars
<1>2. b \in SubId /\ b \in 0..MaxSubId
    BY <1>1, BoundAssumption DEF IInv, TypeOK, SubId
<1>3. b \notin live
    BY DEF IInv, TypeOK, StepsWellFounded
<1>4. new \in SubRecord /\ new.session = s
    BY RevisedType, NewSubType, ModesAssumption
<1>5. subscriptions[s] \in Seq(SubId) /\ IsInjective(subscriptions[s])
        /\ ToSet(subscriptions[s]) = Owned(s)
    BY DEF IInv, TypeOK, StepsWellFounded
<1>6. b \notin ToSet(subscriptions[s])
    BY <1>3, <1>5 DEF Owned
<1>7. q.priority \in Nat
    BY SettingsAssumption
<1> HIDE DEF b, new
<1>8. list \in Seq(SubId) /\ IsInjective(list) /\ ToSet(list) = ToSet(subscriptions[s]) \cup {b}
    BY <1>2, <1>5, <1>6, <1>7, InsertByPriorityFacts DEF IInv
<1> HIDE DEF list
<1>9. subCount' \in 0..MaxSubCount
    BY <1>1, CountedType DEF IInv
<1>10. TypeOK'
    BY <1>1, <1>2, <1>4, <1>8, <1>9 DEF IInv, TypeOK
<1>11. ASSUME NEW t \in Session
       PROVE  /\ IsInjective(subscriptions'[t])
              /\ ToSet(subscriptions'[t]) = Owned(t)'
              /\ subscriptions'[t] # <<>> => t \in alive'
  <2>1. \A c \in SubId : sub'[c].session = IF c = b THEN s ELSE sub[c].session
    BY <1>1, <1>2, <1>4 DEF IInv, TypeOK
  <2>2. \A c : c \in Owned(t)' <=> c \in Owned(t) \/ (c = b /\ t = s)
    BY <1>1, <1>2, <1>3, <2>1 DEF Owned, IInv, TypeOK
  <2>3. /\ IsInjective(subscriptions[t])
        /\ ToSet(subscriptions[t]) = Owned(t)
        /\ subscriptions[t] # <<>> => t \in alive
    BY DEF IInv, StepsWellFounded
  <2>4. CASE t = s
    <3>1. subscriptions'[t] = list
        BY <1>1, <2>4 DEF IInv, TypeOK
    <3>2. t \in alive'
        BY <1>1, <2>4 DEF InService
    <3>3. \A c : c \in ToSet(list) <=> c \in Owned(t)'
        BY <1>8, <2>2, <2>3, <2>4
    <3> QED
        BY <1>8, <3>1, <3>2, <3>3, Zenon
  <2>5. CASE t # s
    <3>1. subscriptions'[t] = subscriptions[t]
        BY <1>1, <2>5 DEF IInv, TypeOK
    <3>2. \A c : c \in Owned(t) <=> c \in Owned(t)'
        BY <2>2, <2>5
    <3>3. Owned(t) = Owned(t)'
        BY <3>2, Zenon
    <3> QED
        BY <1>1, <2>3, <3>1, <3>3
  <2> QED
    BY <2>4, <2>5
<1>12. live' \subseteq 1..lastSubId'
    BY <1>1, <1>2 DEF IInv, TypeOK, StepsWellFounded, b
<1>13. timers' \subseteq live'
    BY <1>1 DEF IInv, StepsWellFounded
<1>14. call' = Idle
    BY <1>1 DEF InService
<1>15. Idle.op = "idle" /\ \A c : Idle # [op |-> "publish", sub |-> c]
    BY DEF Idle
<1>16. StepsWellFounded'
    BY <1>11, <1>12, <1>13, <1>14, <1>15 DEF StepsWellFounded, Publishing
<1> QED
    BY <1>10, <1>16 DEF IInv

\* Nothing is in progress after a service that is one step.
LEMMA IdleCall ==
    ASSUME call' = Idle
    PROVE  /\ call' \in Calls
           /\ \A b \in SubId : Publishing(b)' => b \in live'
           /\ (call.op = "late" => call.sub \in ToSet(subscriptions[call.session]))'
<1>1. Idle.op = "idle" /\ \A c : Idle # [op |-> "publish", sub |-> c]
    BY DEF Idle
<1> QED
    BY <1>1 DEF Calls, Publishing

\* A change of priority takes the subscription out and puts it back once.
LEMMA ModifySubscriptionStep ==
    ASSUME IInv, NEW s \in Session, NEW b \in SubId, NEW q \in Settings,
           ModifySubscription(s, b, q)
    PROVE  IInv'
<1> DEFINE list == InsertByPriority(Without(subscriptions[s], b), b, q.priority, 1)
           granted == Revised(q)
<1>1. /\ InService(s)
      /\ Owns(s, b)
      /\ sub' = [sub EXCEPT ![b].set = granted, ![b].lifetime = 0]
      /\ \/ subscriptions' = subscriptions
         \/ subscriptions' = [subscriptions EXCEPT ![s] = list]
      /\ UNCHANGED <<alive, channel, live, lastSubId, timers, subCount, produced, now,
                     responseQueue, retransTotal, pending, call>>
  <2>1. CASE q.priority = sub[b].set.priority
    <3>1. subscriptions' = [subscriptions EXCEPT ![s] = @]
        BY <2>1 DEF ModifySubscription
    <3> QED
        BY <3>1 DEF ModifySubscription, sessionVars, serverVars, envVars, IInv, TypeOK
  <2>2. CASE q.priority # sub[b].set.priority
    <3>1. subscriptions' = [subscriptions EXCEPT ![s] = list]
        BY <2>2 DEF ModifySubscription
    <3> QED
        BY <3>1 DEF ModifySubscription, sessionVars, serverVars, envVars
  <2> QED
    BY <2>1, <2>2
<1>2. granted \in GrantedSettings
    BY RevisedType
<1>3. subscriptions \in [Session -> Seq(SubId)] /\ sub \in [SubId -> SubRecord]
    BY DEF IInv, TypeOK
<1>4. \A t \in Session : IsInjective(subscriptions[t]) /\ ToSet(subscriptions[t]) = Owned(t)
    BY DEF IInv, StepsWellFounded
<1>5. b \in ToSet(subscriptions[s])
    BY <1>1, <1>4 DEF Owns, Owned
<1>6. q.priority \in Nat
    BY SettingsAssumption
<1>7. list \in Seq(SubId) /\ IsInjective(list) /\ ToSet(list) = ToSet(subscriptions[s])
    BY <1>5, <1>6, ReinsertFacts
<1> HIDE DEF granted, list
<1>8. sub[b] \in SubRecord
    BY <1>3
<1>9. /\ [[sub[b] EXCEPT !.set = granted] EXCEPT !.lifetime = 0] \in SubRecord
      /\ [[sub[b] EXCEPT !.set = granted] EXCEPT !.lifetime = 0].session = sub[b].session
    BY <1>2, <1>8 DEF SubRecord, GrantedSettings
<1>10. sub' = [sub EXCEPT ![b] = [[sub[b] EXCEPT !.set = granted] EXCEPT !.lifetime = 0]]
    BY <1>1, <1>3
<1>11. sub' \in [SubId -> SubRecord] /\ \A c \in SubId : sub'[c].session = sub[c].session
    BY <1>3, <1>9, <1>10
<1>12. TypeOK'
    BY <1>1, <1>3, <1>7, <1>11 DEF IInv, TypeOK
<1>13. ASSUME NEW t \in Session
       PROVE  /\ IsInjective(subscriptions'[t])
              /\ ToSet(subscriptions'[t]) = ToSet(subscriptions[t])
              /\ subscriptions'[t] # <<>> => t \in alive'
  <2>1. CASE subscriptions'[t] = subscriptions[t]
    BY <1>1, <1>4, <2>1 DEF IInv, StepsWellFounded
  <2>2. CASE t = s /\ subscriptions'[t] = list
    BY <1>1, <1>7, <2>2 DEF InService
  <2> QED
    BY <1>1, <1>3, <2>1, <2>2
<1>14. \A t \in Session : Owned(t)' = Owned(t)
    BY <1>1, <1>11 DEF Owned, IInv, TypeOK
<1>15. call' = Idle
    BY <1>1 DEF InService
<1>16. live' \subseteq 1..lastSubId' /\ timers' \subseteq live'
    BY <1>1 DEF IInv, StepsWellFounded
<1>17. StepsWellFounded'
    BY <1>4, <1>13, <1>14, <1>15, <1>16, IdleCall DEF StepsWellFounded
<1> QED
    BY <1>12, <1>17 DEF IInv

\* UA_Subscription_delete, when its lifetime ends or a client asks for it.
LEMMA DeleteSubStep ==
    ASSUME IInv, NEW b \in SubId, b \in live, DeleteSub(b),
           UNCHANGED <<alive, channel, produced, now>>, call' = Idle
    PROVE  IInv'
<1> DEFINE s == sub[b].session
           rest == Without(subscriptions[s], b)
<1>1. /\ live' = live \ {b}
      /\ timers' = timers \ {b}
      /\ subCount' = Counted(-1)
      /\ sub' = [sub EXCEPT ![b] = Blank]
      /\ UNCHANGED lastSubId
    BY Zenon DEF DeleteSub
<1>2. subCount' \in 0..MaxSubCount
    BY <1>1, CountedType DEF IInv
<1>3. Blank \in SubRecord /\ Blank.session = NoSession
    BY NewSubType
<1>4. sub' \in [SubId -> SubRecord] /\ \A c \in SubId \ {b} : sub'[c] = sub[c]
    BY <1>1, <1>3 DEF IInv, TypeOK
<1>5. \A t \in Session : /\ subscriptions[t] \in Seq(SubId)
                         /\ IsInjective(subscriptions[t])
                         /\ ToSet(subscriptions[t]) = Owned(t)
                         /\ subscriptions[t] # <<>> => t \in alive
    BY DEF IInv, TypeOK, StepsWellFounded
<1>6. \A t \in Session : \A c : c \in Owned(t)' <=> c \in Owned(t) /\ c # b
    BY <1>1, <1>4 DEF Owned, IInv, TypeOK
<1>7. live' \subseteq 1..lastSubId' /\ timers' \subseteq live'
    BY <1>1 DEF IInv, StepsWellFounded
<1>8. /\ subscriptions' \in [Session -> Seq(SubId)]
      /\ responseQueue' \in [Session -> Seq(Request)]
      /\ retransTotal' \in [Session -> Int]
      /\ pending' \subseteq Request
      /\ \A t \in Session : /\ IsInjective(subscriptions'[t])
                            /\ ToSet(subscriptions'[t]) = Owned(t)'
                            /\ subscriptions'[t] # <<>> => t \in alive'
  <2>1. CASE s = NoSession
    <3>1. UNCHANGED <<subscriptions, responseQueue, retransTotal, pending>>
        BY <2>1, Zenon DEF DeleteSub
    <3>2. \A t \in Session : b \notin Owned(t)
        BY <2>1, SessionAssumption DEF Owned
    <3>3. \A t \in Session : \A c : c \in Owned(t)' <=> c \in Owned(t)
        BY <1>6, <3>2
    <3>4. \A t \in Session : Owned(t)' = Owned(t)
        BY <3>3, Zenon
    <3> QED
        BY <1>5, <3>1, <3>4 DEF IInv, TypeOK
  <2>2. CASE s # NoSession
    <3>1. s \in Session
        BY <2>2, SubFields DEF IInv
    <3>2. /\ subscriptions' = [subscriptions EXCEPT ![s] = rest]
          /\ retransTotal' = [retransTotal EXCEPT ![s] = @ - Len(sub[b].retrans)]
          /\ responseQueue' = [responseQueue EXCEPT ![s] = AfterDetach(@, rest)]
          /\ pending' = IF rest = <<>> THEN pending \ ToSet(responseQueue[s]) ELSE pending
        BY <2>2, Zenon DEF DeleteSub
    <3>3. b \in ToSet(subscriptions[s])
        BY <1>5, <3>1 DEF Owned
    <3>4. rest \in Seq(SubId) /\ IsInjective(rest) /\ ToSet(rest) = ToSet(subscriptions[s]) \ {b}
        BY <1>5, <3>1, <3>3, WithoutFacts
    <3> HIDE DEF rest
    <3>5. subscriptions' \in [Session -> Seq(SubId)]
        BY <3>1, <3>2, <3>4 DEF IInv, TypeOK
    <3>6. Len(sub[b].retrans) \in Nat
        BY SubFields, LenProperties DEF IInv
    <3>7. retransTotal' \in [Session -> Int]
        BY <3>1, <3>2, <3>6 DEF IInv, TypeOK
    <3>8. responseQueue' \in [Session -> Seq(Request)] /\ pending' \subseteq Request
        BY <3>1, <3>2 DEF IInv, TypeOK, AfterDetach
    <3>9. ASSUME NEW t \in Session
          PROVE  /\ IsInjective(subscriptions'[t])
                 /\ ToSet(subscriptions'[t]) = Owned(t)'
                 /\ subscriptions'[t] # <<>> => t \in alive'
      <4>1. CASE t = s
        <5>1. subscriptions'[t] = rest
            BY <3>1, <3>2, <4>1 DEF IInv, TypeOK
        <5>2. \A c : c \in ToSet(rest) <=> c \in Owned(t)'
            BY <1>5, <1>6, <3>1, <3>4, <4>1
        <5>3. t \in alive'
            BY <1>5, <3>1, <3>3, <4>1, ToSetFacts
        <5> QED
            BY <3>4, <5>1, <5>2, <5>3, Zenon
      <4>2. CASE t # s
        <5>1. subscriptions'[t] = subscriptions[t]
            BY <3>1, <3>2, <4>2 DEF IInv, TypeOK
        <5>2. \A c : c \in Owned(t)' <=> c \in Owned(t)
            BY <1>6, <4>2 DEF Owned
        <5>3. Owned(t)' = Owned(t)
            BY <5>2, Zenon
        <5> QED
            BY <1>5, <5>1, <5>3
      <4> QED
        BY <4>1, <4>2
    <3> QED
        BY <3>5, <3>7, <3>8, <3>9
  <2> QED
    BY <2>1, <2>2
<1>9. TypeOK'
    BY <1>1, <1>2, <1>4, <1>8, IdleCall DEF IInv, TypeOK
<1>10. StepsWellFounded'
    BY <1>7, <1>8, IdleCall DEF StepsWellFounded
<1> QED
    BY <1>9, <1>10 DEF IInv

\* A transfer takes the subscription out of one list and puts it in the other.
LEMMA TransferSubscriptionStep ==
    ASSUME IInv, NEW s \in Session, NEW b \in SubId, NEW n \in 0..1,
           TransferSubscription(s, b, n)
    PROVE  IInv'
<1> DEFINE old == sub[b].session
           rest == Without(subscriptions[old], b)
           list == InsertByPriority(subscriptions[s], b, sub[b].set.priority, 1)
           queue == AfterDetach(Tail(responseQueue[old]), rest)
           size == Len(sub[b].retrans)
           k == sub[b].queued + n
<1>1. /\ InService(s)
      /\ b \in live
      /\ old # s
      /\ produced + n <= MaxNotifications
      /\ produced' = produced + n
      /\ sub' = [sub EXCEPT ![b].session = s, ![b].queued = k]
      /\ timers' = timers \ {b}
      /\ subCount' = Counted(-1)
      /\ subscriptions' = [t \in Session |-> IF t = s THEN list
                                             ELSE IF t = old THEN rest ELSE subscriptions[t]]
      /\ retransTotal' = [t \in Session |->
             IF t = s THEN retransTotal[t] + size
             ELSE IF t = old THEN retransTotal[t] - size ELSE retransTotal[t]]
      /\ \/ UNCHANGED <<responseQueue, pending>>
         \/ /\ old # NoSession
            /\ responseQueue[old] # <<>>
            /\ responseQueue' = [responseQueue EXCEPT ![old] = queue]
            /\ pending' = (pending \ ToSet(responseQueue[old])) \cup ToSet(queue)
      /\ call' = [op |-> "publish", sub |-> b]
      /\ UNCHANGED <<alive, channel, live, lastSubId, now>>
    BY Zenon DEF TransferSubscription, sessionVars
<1>2. /\ sub \in [SubId -> SubRecord]
      /\ sub[b] \in SubRecord
      /\ old \in Session \cup {NoSession}
      /\ sub[b].set.priority \in Nat
    BY SubFields DEF IInv, TypeOK, GrantedSettings
<1>3. k \in Nat /\ size \in Nat
    BY SubFields, LenProperties DEF IInv
<1>4. \A t \in Session : /\ subscriptions[t] \in Seq(SubId)
                         /\ IsInjective(subscriptions[t])
                         /\ ToSet(subscriptions[t]) = Owned(t)
                         /\ subscriptions[t] # <<>> => t \in alive
    BY DEF IInv, TypeOK, StepsWellFounded
<1>5. b \notin ToSet(subscriptions[s])
    BY <1>1, <1>4 DEF Owned
<1>6. list \in Seq(SubId) /\ IsInjective(list) /\ ToSet(list) = ToSet(subscriptions[s]) \cup {b}
    BY <1>2, <1>4, <1>5, InsertByPriorityFacts DEF IInv
<1>7. old \in Session => /\ rest \in Seq(SubId)
                         /\ IsInjective(rest)
                         /\ ToSet(rest) = ToSet(subscriptions[old]) \ {b}
                         /\ old \in alive
  <2>1. old \in Session => b \in ToSet(subscriptions[old])
    BY <1>1, <1>4 DEF Owned
  <2>2. old \in Session => old \in alive
    BY <1>4, <2>1, ToSetFacts
  <2> QED
    BY <1>4, <2>1, <2>2, WithoutFacts
<1>8. responseQueue' \in [Session -> Seq(Request)] /\ pending' \subseteq Request
  <2>1. CASE UNCHANGED <<responseQueue, pending>>
    BY <2>1 DEF IInv, TypeOK
  <2>2. CASE old # NoSession /\ responseQueue[old] # <<>>
    <3>1. old \in Session /\ responseQueue[old] \in Seq(Request)
        BY <1>2, <2>2 DEF IInv, TypeOK
    <3>2. queue \in Seq(Request)
        BY <2>2, <3>1, HeadTailProperties DEF AfterDetach
    <3>3. ToSet(queue) \subseteq Request
        BY <3>2, ToSetFacts
    <3> HIDE DEF queue, old
    <3> QED
        BY <1>1, <3>1, <3>2, <3>3 DEF IInv, TypeOK
  <2> QED
    BY <1>1, <2>1, <2>2
<1> HIDE DEF rest, list, k, size
<1>9. retransTotal' \in [Session -> Int]
    BY <1>1, <1>3 DEF IInv, TypeOK
<1>10. subscriptions' \in [Session -> Seq(SubId)]
    BY <1>1, <1>4, <1>6, <1>7
<1>11. /\ [[sub[b] EXCEPT !.session = s] EXCEPT !.queued = k] \in SubRecord
       /\ [[sub[b] EXCEPT !.session = s] EXCEPT !.queued = k].session = s
    BY <1>2, <1>3 DEF SubRecord
<1>12. sub' = [sub EXCEPT ![b] = [[sub[b] EXCEPT !.session = s] EXCEPT !.queued = k]]
    BY <1>1, <1>2
<1>13. /\ sub' \in [SubId -> SubRecord]
       /\ sub'[b].session = s
       /\ \A c \in SubId \ {b} : sub'[c] = sub[c]
    BY <1>2, <1>11, <1>12
<1>14. subCount' \in 0..MaxSubCount /\ produced' \in 0..MaxNotifications
  <2>1. subCount' \in 0..MaxSubCount
    BY <1>1, CountedType DEF IInv
  <2>2. produced \in 0..MaxNotifications /\ MaxNotifications \in Nat
    BY BoundAssumption DEF IInv, TypeOK
  <2>3. produced' \in 0..MaxNotifications
    BY <1>1, <2>2
  <2> QED
    BY <2>1, <2>3
<1>15. call' \in Calls
    BY <1>1 DEF Calls
<1>16. TypeOK'
    BY <1>1, <1>8, <1>9, <1>10, <1>13, <1>14, <1>15 DEF IInv, TypeOK
<1>17. \A t \in Session : \A c : c \in Owned(t)' <=> (c \in Owned(t) /\ c # b) \/ (c = b /\ t = s)
    BY <1>1, <1>13 DEF Owned, IInv, TypeOK
<1>18. ASSUME NEW t \in Session
       PROVE  /\ IsInjective(subscriptions'[t])
              /\ ToSet(subscriptions'[t]) = Owned(t)'
              /\ subscriptions'[t] # <<>> => t \in alive'
  <2>1. CASE t = s
    <3>1. subscriptions'[t] = list
        BY <1>1, <2>1
    <3>2. \A c : c \in ToSet(list) <=> c \in Owned(t)'
        BY <1>4, <1>5, <1>6, <1>17, <2>1
    <3>3. t \in alive'
        BY <1>1, <2>1 DEF InService
    <3> QED
        BY <1>6, <3>1, <3>2, <3>3, Zenon
  <2>2. CASE t # s /\ t = old
    <3>1. subscriptions'[t] = rest
        BY <1>1, <2>2
    <3>2. \A c : c \in ToSet(rest) <=> c \in Owned(t)'
        BY <1>4, <1>7, <1>17, <2>2
    <3>3. t \in alive'
        BY <1>1, <1>7, <2>2
    <3> QED
        BY <1>7, <2>2, <3>1, <3>2, <3>3, Zenon
  <2>3. CASE t # s /\ t # old
    <3>1. subscriptions'[t] = subscriptions[t]
        BY <1>1, <2>3
    <3>2. \A c : c \in Owned(t)' <=> c \in Owned(t)
        BY <1>17, <2>3 DEF Owned
    <3>3. Owned(t)' = Owned(t)
        BY <3>2, Zenon
    <3> QED
        BY <1>1, <1>4, <3>1, <3>3
  <2> QED
    BY <2>1, <2>2, <2>3
<1>19. live' \subseteq 1..lastSubId' /\ timers' \subseteq live'
    BY <1>1 DEF IInv, StepsWellFounded
<1>20. call'.op = "publish" /\ call'.sub = b /\ b \in live'
    BY <1>1
<1>21. \A c \in SubId : Publishing(c)' => c \in live'
    BY <1>20 DEF Publishing
<1>22. StepsWellFounded'
    BY <1>18, <1>19, <1>20, <1>21 DEF StepsWellFounded
<1> QED
    BY <1>16, <1>22 DEF IInv

\* A session ends, by CloseSession or by its timeout.
LEMMA RemoveSessionStep ==
    ASSUME IInv, NEW s \in Session, NEW kept, kept \subseteq ToSet(subscriptions[s]),
           RemoveSession(s, kept), call = Idle
    PROVE  IInv'
<1> DEFINE gone == ToSet(subscriptions[s]) \ kept
<1>1. /\ alive' = alive \ {s}
      /\ channel' = [channel EXCEPT ![s] = "none"]
      /\ subscriptions' = [subscriptions EXCEPT ![s] = <<>>]
      /\ retransTotal' = [retransTotal EXCEPT ![s] = 0]
      /\ live' = live \ gone
      /\ timers' = timers \ gone
      /\ subCount' = Counted(-Cardinality(gone))
      /\ sub' = [b \in SubId |-> IF b \in gone THEN Blank
                                 ELSE IF b \in kept THEN [sub[b] EXCEPT !.session = NoSession]
                                 ELSE sub[b]]
      /\ responseQueue' = [responseQueue EXCEPT ![s] = <<>>]
      /\ pending' = pending \ ToSet(responseQueue[s])
      /\ UNCHANGED <<lastSubId, produced, now, call>>
    BY DEF RemoveSession, DropRequests, envVars
<1>2. \A t \in Session : /\ subscriptions[t] \in Seq(SubId)
                         /\ IsInjective(subscriptions[t])
                         /\ ToSet(subscriptions[t]) = Owned(t)
                         /\ subscriptions[t] # <<>> => t \in alive
    BY DEF IInv, TypeOK, StepsWellFounded
<1>3. gone \subseteq SubId /\ kept \subseteq SubId
    BY <1>2, ToSetFacts
<1>4. \A b : b \in gone \cup kept <=> b \in Owned(s)
    BY <1>2
<1> HIDE DEF gone
<1>5. Cardinality(gone) \in Nat
    BY <1>3, SubIdFinite
<1>6. subCount' \in 0..MaxSubCount
    BY <1>1, <1>5, CountedType DEF IInv
<1>7. /\ \A b \in SubId : sub[b] \in SubRecord
      /\ \A b \in SubId : [sub[b] EXCEPT !.session = NoSession] \in SubRecord
      /\ \A b \in SubId : [sub[b] EXCEPT !.session = NoSession].session = NoSession
      /\ Blank \in SubRecord /\ Blank.session = NoSession
  <2>1. \A b \in SubId : sub[b] \in SubRecord
    BY DEF IInv, TypeOK
  <2>2. \A r \in SubRecord : /\ [r EXCEPT !.session = NoSession] \in SubRecord
                             /\ [r EXCEPT !.session = NoSession].session = NoSession
    BY DEF SubRecord
  <2> QED
    BY <2>1, <2>2, NewSubType
<1>8. /\ sub' \in [SubId -> SubRecord]
      /\ \A b \in SubId : sub'[b].session = IF b \in gone \cup kept THEN NoSession
                                            ELSE sub[b].session
    BY <1>1, <1>7
<1>9. subscriptions' \in [Session -> Seq(SubId)] /\ responseQueue' \in [Session -> Seq(Request)]
    BY <1>1 DEF IInv, TypeOK
<1>10. TypeOK'
    BY <1>1, <1>6, <1>8, <1>9 DEF IInv, TypeOK
<1>11. \A t \in Session : \A c : c \in Owned(t)' <=> c \in Owned(t) /\ t # s
    BY <1>1, <1>4, <1>8, SessionAssumption DEF Owned, IInv, TypeOK
<1>12. ASSUME NEW t \in Session
       PROVE  /\ IsInjective(subscriptions'[t])
              /\ ToSet(subscriptions'[t]) = Owned(t)'
              /\ subscriptions'[t] # <<>> => t \in alive'
  <2>1. CASE t = s
    <3>1. subscriptions'[t] = <<>>
        BY <1>1, <2>1 DEF IInv, TypeOK
    <3>2. ToSet(<<>>) = {} /\ IsInjective(<<>>)
        BY DEF ToSet, IsInjective
    <3>3. Owned(t)' = {}
        BY <1>11, <2>1, Zenon
    <3> QED
        BY <3>1, <3>2, <3>3
  <2>2. CASE t # s
    <3>1. subscriptions'[t] = subscriptions[t]
        BY <1>1, <2>2 DEF IInv, TypeOK
    <3>2. \A c : c \in Owned(t)' <=> c \in Owned(t)
        BY <1>11, <2>2
    <3>3. Owned(t)' = Owned(t)
        BY <3>2, Zenon
    <3> QED
        BY <1>1, <1>2, <2>2, <3>1, <3>3
  <2> QED
    BY <2>1, <2>2
<1>13. live' \subseteq 1..lastSubId' /\ timers' \subseteq live'
    BY <1>1 DEF IInv, StepsWellFounded
<1>14. StepsWellFounded'
    BY <1>1, <1>12, <1>13, IdleCall DEF StepsWellFounded
<1> QED
    BY <1>10, <1>14 DEF IInv

-----------------------------------------------------------------------------
(* The inductive invariant.                                                *)

\* The initial states satisfy the inductive invariant.
LEMMA InitIInv == Init => IInv
<1> SUFFICES ASSUME Init PROVE IInv
    OBVIOUS
<1>1. TypeOK
    BY NewSubType, BoundAssumption DEF Init, TypeOK, Calls
<1>2. ToSet(<<>>) = {} /\ IsInjective(<<>>)
    BY DEF ToSet, IsInjective
<1>3. Idle.op = "idle" /\ \A c : Idle # [op |-> "publish", sub |-> c]
    BY DEF Idle
<1>4. StepsWellFounded
    BY <1>2, <1>3 DEF Init, StepsWellFounded, Owned, Publishing
<1> QED
    BY <1>1, <1>4 DEF IInv

\* Every step preserves the inductive invariant.
LEMMA NextIInv == IInv /\ [Next]_vars => IInv'
<1> SUFFICES ASSUME IInv, [Next]_vars PROVE IInv'
    OBVIOUS
<1>1. CASE UNCHANGED vars
  <2>1. TypeOK'
    BY <1>1 DEF IInv, TypeOK, vars
  <2>2. StepsWellFounded'
    BY <1>1, SameLists DEF IInv, vars
  <2> QED
    BY <2>1, <2>2 DEF IInv
<1>2. ASSUME NEW s \in Session,
             \/ OpenSession(s)
             \/ ActivateSession(s)
             \/ RemoveSecureChannel(s)
             \/ SecureChannelClose(s)
      PROVE  IInv'
    BY <1>2, SessionStep
<1>3. ASSUME NEW s \in Session,
             SessionTimeout(s) \/ \E delete \in BOOLEAN : CloseSession(s, delete)
      PROVE  IInv'
  <2>1. call = Idle
    BY <1>3 DEF SessionTimeout, CloseSession, InService
  <2>2. RemoveSession(s, {}) \/ RemoveSession(s, ToSet(subscriptions[s]))
    BY <1>3 DEF SessionTimeout, CloseSession
  <2> QED
    BY <2>1, <2>2, RemoveSessionStep
<1>4. ASSUME NEW s \in Session, NEW q \in Settings, NEW enabled \in PublishingModes,
             CreateSubscription(s, q, enabled)
      PROVE  IInv'
    BY <1>4, CreateSubscriptionStep
<1>5. ASSUME NEW s \in Session, NEW r \in Request, NEW b \in SubId \cup {NoSub},
             NEW n \in SeqNo, Publish(s, r, b, n)
      PROVE  IInv'
    BY <1>5, PublishStep
<1>6. ASSUME NEW s \in Session, NEW b \in SubId, NEW q \in Settings, ModifySubscription(s, b, q)
      PROVE  IInv'
    BY <1>6, ModifySubscriptionStep
<1>7. ASSUME NEW s \in Session, NEW b \in SubId,
             Republish(s, b) \/ \E enabled \in PublishingModes : SetPublishingMode(s, b, enabled)
      PROVE  IInv'
    BY <1>7, LifetimeServicesStep
<1>8. ASSUME NEW s \in Session, NEW b \in SubId, DeleteSubscription(s, b)
      PROVE  IInv'
    BY <1>8, DeleteSubStep
       DEF DeleteSubscription, InService, Owns, sessionVars, envVars
<1>9. ASSUME NEW s \in Session, NEW b \in SubId, NEW n \in 0..1, TransferSubscription(s, b, n)
      PROVE  IInv'
    BY <1>9, TransferSubscriptionStep
<1>10. CASE Tick
    BY <1>10, TickStep
<1>11. ASSUME NEW b \in SubId,
              Notify(b) \/ Discard(b) \/ PublishCallback(b)
       PROVE  IInv'
    BY <1>11, NotifyStep, DiscardStep, PublishCallbackStep
<1>12. ASSUME NEW b \in SubId, PublishLoop(b)
       PROVE  IInv'
  <2>1. CASE PublishExpire(b)
    BY <2>1, DeleteSubStep
       DEF PublishExpire, Expire, sessionVars, envVars, IInv, StepsWellFounded
  <2> QED
    BY <1>12, <2>1, PublishStopStep, PublishSendStep DEF PublishLoop
<1>13. ASSUME NEW b \in SubId, LateLoop(b)
       PROVE  IInv'
    BY <1>13, LateSkipStep, LateServeStep DEF LateLoop
<1> QED
  <2>1. CASE ServiceNext
    BY <2>1, <1>2, <1>3, <1>4, <1>5, <1>6, <1>7, <1>8, <1>9, Zenon DEF ServiceNext
  <2>2. CASE ServerNext
    BY <2>2, <1>10, <1>11, <1>12, <1>13, Zenon DEF ServerNext
  <2> QED
    BY <1>1, <2>1, <2>2 DEF Next

\* The lists of the sessions, the back pointers of the subscriptions, the timers
\* and the call in progress fit together in every reachable state, and every
\* variable has its type.
THEOREM Structure == Spec => []IInv
BY InitIInv, NextIInv, PTL DEF Spec

\* The type invariant of the subscription engine.
THEOREM TypeCorrect == Spec => []TypeOK
BY Structure, PTL DEF IInv

\* Attach, detach, the change of a priority, the rotation of late subscriptions,
\* transfer and CloseSession keep the lists of the sessions and the session
\* pointers of the subscriptions in agreement, without duplicates.
THEOREM ListsCoherent == Spec => []SessionListsCoherent
<1>1. IInv => SessionListsCoherent
  <2> SUFFICES ASSUME IInv, NEW s \in Session
               PROVE  /\ ToSet(subscriptions[s]) = Owned(s)
                      /\ Len(subscriptions[s]) = Cardinality(Owned(s))
                      /\ subscriptions[s] # <<>> => s \in alive
    BY DEF SessionListsCoherent
  <2>1. /\ subscriptions[s] \in Seq(SubId)
        /\ IsInjective(subscriptions[s])
        /\ ToSet(subscriptions[s]) = Owned(s)
        /\ subscriptions[s] # <<>> => s \in alive
    BY DEF IInv, TypeOK, StepsWellFounded
  <2>2. Cardinality(ToSet(subscriptions[s])) = Len(subscriptions[s])
    BY <2>1, LengthIsCardinality
  <2> QED
    BY <2>1, <2>2
<1> QED
    BY <1>1, Structure, PTL

\* Without transfers no subscription ever loses its publishCallback. (With them
\* it does: see the run sub_transfer_timer.)
THEOREM CallbackRegistered ==
    ASSUME ~AllowTransfer
    PROVE  Spec => []PublishCallbackRegistered
<1>1. Init => live \subseteq timers
    BY DEF Init
<1>2. IInv /\ live \subseteq timers /\ [Next]_vars => (live \subseteq timers)'
  <2> SUFFICES ASSUME IInv, live \subseteq timers, [Next]_vars
               PROVE  live' \subseteq timers'
    OBVIOUS
  <2>1. CASE UNCHANGED <<live, timers>>
    BY <2>1
  <2>2. ASSUME NEW b \in SubId, DeleteSub(b) PROVE live' \subseteq timers'
    BY <2>2, Zenon DEF DeleteSub
  <2>3. ASSUME NEW s \in Session, NEW kept, RemoveSession(s, kept) PROVE live' \subseteq timers'
    BY <2>3 DEF RemoveSession
  <2>4. ASSUME NEW s \in Session, NEW q, NEW enabled, CreateSubscription(s, q, enabled)
        PROVE  live' \subseteq timers'
    BY <2>4 DEF CreateSubscription, RegisterPublishCallback
  <2>5. CASE ServiceNext
    <3>1. ASSUME NEW s \in Session,
                 \/ OpenSession(s)
                 \/ ActivateSession(s)
                 \/ RemoveSecureChannel(s)
                 \/ SecureChannelClose(s)
          PROVE  UNCHANGED <<live, timers>>
        BY <3>1 DEF OpenSession, ActivateSession, RemoveSecureChannel, SecureChannelClose,
                    serverVars
    <3>2. ASSUME NEW s \in Session, NEW r, NEW b, NEW n, Publish(s, r, b, n)
          PROVE  UNCHANGED <<live, timers>>
        BY <3>2, Zenon DEF Publish, serverVars
    <3>3. ASSUME NEW s \in Session, NEW b, NEW q, ModifySubscription(s, b, q)
          PROVE  UNCHANGED <<live, timers>>
        BY <3>3, Zenon DEF ModifySubscription, serverVars
    <3>4. ASSUME NEW s \in Session, NEW b,
                 Republish(s, b) \/ \E enabled \in PublishingModes : SetPublishingMode(s, b, enabled)
          PROVE  UNCHANGED <<live, timers>>
        BY <3>4, Zenon DEF Republish, SetPublishingMode, serverVars
    <3>5. ASSUME NEW s \in Session,
                 SessionTimeout(s) \/ \E delete \in BOOLEAN : CloseSession(s, delete)
          PROVE  \E kept : RemoveSession(s, kept)
        BY <3>5, Zenon DEF SessionTimeout, CloseSession
    <3>6. ASSUME NEW s \in Session, NEW b, DeleteSubscription(s, b)
          PROVE  DeleteSub(b)
        BY <3>6 DEF DeleteSubscription
    <3>7. ASSUME NEW s \in Session, NEW b, NEW n PROVE ~TransferSubscription(s, b, n)
        BY Zenon DEF TransferSubscription
    <3> QED
        BY <2>1, <2>2, <2>3, <2>4, <2>5, <3>1, <3>2, <3>3, <3>4, <3>5, <3>6, <3>7, Zenon
           DEF ServiceNext
  <2>6. CASE ServerNext
    BY <2>1, <2>2, <2>6
       DEF ServerNext, Tick, Notify, Discard, PublishCallback, PublishLoop, PublishExpire, Expire,
           PublishStop, PublishSend, LateLoop, LateSkip, LateServe, serverVars
  <2> QED
    BY <2>1, <2>5, <2>6 DEF Next, vars
<1>3. live \subseteq timers => PublishCallbackRegistered
    BY DEF PublishCallbackRegistered
<1> QED
    BY <1>1, <1>2, <1>3, Structure, PTL DEF Spec

-----------------------------------------------------------------------------
(* The promise about publish requests.                                     *)

\* Session s is as well served as before: it keeps its channel and its
\* subscriptions.
StillServed(s) ==
    /\ channel[s] # "none" => channel'[s] # "none"
    /\ \A b \in live : sub[b].session = s => b \in live' /\ sub'[b].session = s

\* No step leaves requests parked in a session that is not served.
LEMMA ServeStep ==
    ASSUME IInv, IInv', NoStrandedRequest,
           \A s \in Session : responseQueue'[s] # <<>> =>
              \/ responseQueue[s] # <<>> /\ StillServed(s)
              \/ channel'[s] # "none" /\ subscriptions'[s] # <<>>
    PROVE  NoStrandedRequest' /\ PR!Serve
<1>1. ASSUME NEW s \in Session, responseQueue[s] # <<>>, StillServed(s)
      PROVE  channel'[s] # "none" /\ subscriptions'[s] # <<>>
  <2>1. channel[s] # "none" /\ subscriptions[s] # <<>>
    BY <1>1 DEF NoStrandedRequest
  <2>2. PICK b \in live : sub[b].session = s
    <3>1. ToSet(subscriptions[s]) # {}
        BY <2>1, ToSetFacts DEF IInv, TypeOK
    <3> QED
        BY <3>1 DEF IInv, StepsWellFounded, Owned
  <2>3. b \in Owned(s)'
    BY <1>1, <2>2 DEF StillServed, Owned
  <2>4. ToSet(subscriptions'[s]) # {}
    BY <2>3 DEF IInv, StepsWellFounded
  <2>5. subscriptions'[s] # <<>>
    BY <2>4, ToSetFacts DEF IInv, TypeOK
  <2> QED
    BY <1>1, <2>1, <2>5 DEF StillServed
<1>2. NoStrandedRequest'
    BY <1>1 DEF NoStrandedRequest
<1>3. PR!Serve
    BY <1>2 DEF PR!Serve, ServedSessions, NoStrandedRequest
<1> QED
    BY <1>2, <1>3

\* Steps that leave the parked requests alone.
LEMMA QueuesUnchanged ==
    ASSUME IInv, IInv', NoStrandedRequest, UNCHANGED <<responseQueue, pending>>,
           \A s \in Session : StillServed(s)
    PROVE  NoStrandedRequest' /\ PR!RequestsNext
<1>1. NoStrandedRequest' /\ PR!Serve
    BY ServeStep
<1> QED
    BY <1>1 DEF PR!RequestsNext, PR!Rearrange

\* The message of subscription b answers the oldest request of its session.
LEMMA SendAnswers ==
    ASSUME IInv, IInv', NoStrandedRequest, NEW b \in SubId, Send(b), UNCHANGED <<channel, live>>
    PROVE  NoStrandedRequest' /\ PR!RequestsNext
<1> DEFINE s == sub[b].session
<1>1. /\ \A c \in SubId : sub'[c].session = sub[c].session
      /\ s \in Session
      /\ responseQueue[s] # <<>>
      /\ responseQueue' = [responseQueue EXCEPT ![s] = Tail(@)]
      /\ pending' = pending \ {Head(responseQueue[s])}
    BY SendFacts DEF IInv
<1>2. \A t \in Session : StillServed(t)
    BY <1>1 DEF StillServed, IInv, TypeOK
<1>3. \A t \in Session : responseQueue'[t] # <<>> => responseQueue[t] # <<>>
    BY <1>1 DEF IInv, TypeOK
<1>4. NoStrandedRequest' /\ PR!Serve
    BY <1>2, <1>3, ServeStep
<1> HIDE DEF s
<1>5. PR!Answer(s)
    BY <1>1, <1>4 DEF PR!Answer
<1> QED
    BY <1>1, <1>4, <1>5 DEF PR!RequestsNext

\* The parked requests of s go, and nothing else loses its service.
LEMMA ReleaseStep ==
    ASSUME IInv, IInv', NoStrandedRequest, NEW s \in Session,
           responseQueue' = [responseQueue EXCEPT ![s] = <<>>],
           pending' = pending \ ToSet(responseQueue[s]),
           \A t \in Session \ {s} : StillServed(t)
    PROVE  NoStrandedRequest' /\ PR!RequestsNext
<1>1. \A t \in Session : responseQueue'[t] # <<>> => t # s /\ responseQueue[t] # <<>>
    BY DEF IInv, TypeOK
<1>2. NoStrandedRequest' /\ PR!Serve
    BY <1>1, ServeStep
<1>3. PR!Release(s)
    BY <1>2, Zenon DEF PR!Release, PR!ToSet, ToSet
<1> QED
    BY <1>2, <1>3 DEF PR!RequestsNext

\* Deleting subscription b releases the requests of a session without others.
LEMMA DeleteReleases ==
    ASSUME IInv, IInv', NoStrandedRequest, NEW b \in SubId, b \in live, DeleteSub(b),
           UNCHANGED channel
    PROVE  NoStrandedRequest' /\ PR!RequestsNext
<1> DEFINE s == sub[b].session
           rest == Without(subscriptions[s], b)
<1>1. live' = live \ {b} /\ sub' = [sub EXCEPT ![b] = Blank]
    BY Zenon DEF DeleteSub
<1>2. \A t \in Session \ {s} : StillServed(t)
    BY <1>1 DEF StillServed, IInv, TypeOK
<1>3. CASE s = NoSession
  <2>1. UNCHANGED <<responseQueue, pending>>
    BY <1>3, Zenon DEF DeleteSub
  <2> QED
    BY <1>2, <1>3, <2>1, QueuesUnchanged, SessionAssumption
<1>4. CASE s # NoSession
  <2>1. s \in Session
    BY <1>4, SubFields DEF IInv
  <2>2. /\ subscriptions' = [subscriptions EXCEPT ![s] = rest]
        /\ responseQueue' = [responseQueue EXCEPT ![s] = AfterDetach(@, rest)]
        /\ pending' = IF rest = <<>> THEN pending \ ToSet(responseQueue[s]) ELSE pending
    BY <1>4, Zenon DEF DeleteSub
  <2> HIDE DEF s, rest
  <2>3. CASE rest = <<>>
    <3>1. /\ responseQueue' = [responseQueue EXCEPT ![s] = <<>>]
          /\ pending' = pending \ ToSet(responseQueue[s])
        BY <2>2, <2>3 DEF AfterDetach
    <3> QED
        BY <1>2, <2>1, <3>1, ReleaseStep
  <2>4. CASE rest # <<>>
    <3>1. responseQueue' = responseQueue /\ pending' = pending
        BY <2>1, <2>2, <2>4 DEF AfterDetach, IInv, TypeOK
    <3>2. subscriptions'[s] # <<>>
        BY <2>1, <2>2, <2>4 DEF IInv, TypeOK
    <3>3. \A t \in Session : responseQueue'[t] # <<>> =>
             \/ responseQueue[t] # <<>> /\ StillServed(t)
             \/ channel'[t] # "none" /\ subscriptions'[t] # <<>>
        BY <1>2, <3>1, <3>2 DEF NoStrandedRequest
    <3>4. NoStrandedRequest' /\ PR!Serve
        BY <3>3, ServeStep
    <3> QED
        BY <3>1, <3>4 DEF PR!RequestsNext, PR!Rearrange
  <2> QED
    BY <2>3, <2>4
<1> QED
    BY <1>3, <1>4

\* Service_Publish parks a request in a session that is served.
LEMMA PublishReceives ==
    ASSUME IInv, IInv', NoStrandedRequest, NEW s \in Session, NEW r \in Request,
           NEW b \in SubId \cup {NoSub}, NEW n \in SeqNo, Publish(s, r, b, n)
    PROVE  NoStrandedRequest' /\ PR!RequestsNext
<1>1. /\ s \in ServedSessions
      /\ r \notin pending
      /\ UNCHANGED <<alive, channel, subscriptions>>
    BY DEF Publish, InService, ServedSessions, sessionVars
<1>2. UNCHANGED ServedSessions
    BY <1>1 DEF ServedSessions
<1>3. PR!Receive(s, r)
    BY <1>1, <1>2, Zenon DEF Publish, QueueFull, PR!Receive
<1>4. \A t \in Session \ {s} : responseQueue'[t] = responseQueue[t]
    BY DEF Publish, IInv, TypeOK
<1>5. NoStrandedRequest'
    BY <1>1, <1>4 DEF NoStrandedRequest, ServedSessions
<1> QED
    BY <1>3, <1>5 DEF PR!RequestsNext

\* A transfer answers one request of the old session and releases the others
\* when the old session is left without a subscription.
LEMMA TransferReleases ==
    ASSUME IInv, IInv', NoStrandedRequest, RequestsConserved, NEW s \in Session, NEW b \in SubId, NEW n \in 0..1,
           TransferSubscription(s, b, n)
    PROVE  NoStrandedRequest' /\ PR!RequestsNext
<1> DEFINE old == sub[b].session
           rest == Without(subscriptions[old], b)
           queue == AfterDetach(Tail(responseQueue[old]), rest)
<1>1. /\ b \in live
      /\ old # s
      /\ sub' = [sub EXCEPT ![b].session = s, ![b].queued = @ + n]
      /\ subscriptions' = [t \in Session |->
             IF t = s THEN InsertByPriority(subscriptions[s], b, sub[b].set.priority, 1)
             ELSE IF t = old THEN rest ELSE subscriptions[t]]
      /\ IF old = NoSession \/ responseQueue[old] = <<>>
         THEN UNCHANGED <<responseQueue, pending>>
         ELSE /\ responseQueue' = [responseQueue EXCEPT ![old] = queue]
              /\ pending' = (pending \ ToSet(responseQueue[old])) \cup ToSet(queue)
      /\ UNCHANGED <<channel, live>>
    BY Zenon DEF TransferSubscription, sessionVars
<1>2. \A t \in Session \ {old} : StillServed(t)
  <2>1. \A c \in SubId \ {b} : sub'[c] = sub[c]
    BY <1>1 DEF IInv, TypeOK
  <2> QED
    BY <1>1, <2>1 DEF StillServed, IInv, TypeOK
<1>3. CASE old = NoSession \/ responseQueue[old] = <<>>
  <2>1. UNCHANGED <<responseQueue, pending>>
    BY <1>1, <1>3
  <2>2. \A t \in Session : responseQueue'[t] # <<>> => responseQueue[t] # <<>> /\ StillServed(t)
    BY <1>2, <1>3, <2>1, SessionAssumption
  <2>3. NoStrandedRequest' /\ PR!Serve
    BY <2>2, ServeStep
  <2> QED
    BY <2>1, <2>3 DEF PR!RequestsNext, PR!Rearrange
<1>4. CASE ~(old = NoSession \/ responseQueue[old] = <<>>)
  <2>1. old \in Session /\ responseQueue[old] \in Seq(Request) /\ responseQueue[old] # <<>>
    BY <1>4, SubFields DEF IInv, TypeOK
  <2>2. /\ responseQueue' = [responseQueue EXCEPT ![old] = queue]
        /\ pending' = (pending \ ToSet(responseQueue[old])) \cup ToSet(queue)
    BY <1>1, <1>4
  <2>3. subscriptions'[old] = rest
    BY <1>1, <2>1
  <2>4. CASE rest = <<>>
    <3>1. queue = <<>> /\ ToSet(<<>>) = {}
        BY <2>4 DEF AfterDetach, ToSet
    <3> HIDE DEF queue, rest, old
    <3>2. /\ responseQueue' = [responseQueue EXCEPT ![old] = <<>>]
          /\ pending' = pending \ ToSet(responseQueue[old])
        BY <2>2, <3>1
    <3> QED
        BY <1>2, <2>1, <3>2, ReleaseStep
  <2>5. CASE rest # <<>>
    <3>1. queue = Tail(responseQueue[old])
        BY <2>5 DEF AfterDetach
    <3> HIDE DEF queue, rest, old
    <3>2. channel'[old] # "none" /\ subscriptions'[old] # <<>>
        BY <1>1, <2>1, <2>3, <2>5 DEF NoStrandedRequest
    <3>3. \A t \in Session \ {old} : responseQueue'[t] = responseQueue[t]
        BY <2>1, <2>2 DEF IInv, TypeOK
    <3>4. NoStrandedRequest' /\ PR!Serve
        BY <1>2, <3>2, <3>3, ServeStep
    <3>5. IsInjective(responseQueue[old]) /\ ToSet(responseQueue[old]) \subseteq pending
        BY <2>1 DEF RequestsConserved
    <3> QED
      <4>1. /\ ToSet(queue) = ToSet(responseQueue[old]) \ {Head(responseQueue[old])}
            /\ Head(responseQueue[old]) \in ToSet(responseQueue[old])
        BY <2>1, <3>1, <3>5, TailFacts
      <4>2. pending' = pending \ {Head(responseQueue[old])}
        BY <2>2, <3>5, <4>1, Zenon
      <4>3. PR!Answer(old)
        BY <2>1, <2>2, <3>1, <3>4, <4>2 DEF PR!Answer
      <4> QED
        BY <2>1, <3>4, <4>3 DEF PR!RequestsNext
  <2> QED
    BY <2>4, <2>5
<1> QED
    BY <1>3, <1>4

\* Every step is one of the promised ones for the parked requests.
LEMMA RequestsStep ==
    ASSUME IInv, IInv', NoStrandedRequest, RequestsConserved, [Next]_vars
    PROVE  NoStrandedRequest' /\ PR!RequestsNext
<1>1. CASE UNCHANGED vars
  <2>1. UNCHANGED <<responseQueue, pending>> /\ \A s \in Session : StillServed(s)
    BY <1>1 DEF vars, StillServed
  <2> QED
    BY <2>1, QueuesUnchanged
<1>2. ASSUME NEW s \in Session, OpenSession(s) \/ RemoveSecureChannel(s)
      PROVE  NoStrandedRequest' /\ PR!RequestsNext
  <2>1. UNCHANGED <<responseQueue, pending, live, sub>>
    BY <1>2 DEF OpenSession, RemoveSecureChannel, serverVars
  <2>2. \A t \in Session : channel[t] # "none" => channel'[t] # "none"
    BY <1>2 DEF OpenSession, RemoveSecureChannel, IInv, TypeOK
  <2> QED
    BY <2>1, <2>2, QueuesUnchanged DEF StillServed
<1>3. ASSUME NEW s \in Session, ActivateSession(s) \/ SecureChannelClose(s)
      PROVE  NoStrandedRequest' /\ PR!RequestsNext
  <2>1. DropRequests(s) /\ UNCHANGED <<live, sub>>
    BY <1>3 DEF ActivateSession, SecureChannelClose, serverVars
  <2>2. \A t \in Session \ {s} : channel'[t] = channel[t]
    BY <1>3 DEF ActivateSession, SecureChannelClose, IInv, TypeOK
  <2> QED
    BY <2>1, <2>2, ReleaseStep DEF StillServed, DropRequests
<1>4. ASSUME NEW s \in Session,
             SessionTimeout(s) \/ \E delete \in BOOLEAN : CloseSession(s, delete)
      PROVE  NoStrandedRequest' /\ PR!RequestsNext
  <2>1. PICK kept : RemoveSession(s, kept) /\ kept \subseteq ToSet(subscriptions[s])
    BY <1>4 DEF SessionTimeout, CloseSession
  <2>2. ToSet(subscriptions[s]) = Owned(s)
    BY DEF IInv, StepsWellFounded
  <2>3. \A b \in live : sub[b].session # s => b \in live' /\ sub'[b] = sub[b]
    BY <2>1, <2>2 DEF RemoveSession, Owned, IInv, TypeOK
  <2>4. \A t \in Session \ {s} : StillServed(t)
    BY <2>1, <2>3 DEF StillServed, RemoveSession, IInv, TypeOK
  <2>5. DropRequests(s)
    BY <2>1 DEF RemoveSession
  <2> QED
    BY <2>4, <2>5, ReleaseStep DEF DropRequests
<1>5. ASSUME NEW s \in Session, NEW q \in Settings, NEW enabled \in PublishingModes,
             CreateSubscription(s, q, enabled)
      PROVE  NoStrandedRequest' /\ PR!RequestsNext
  <2>1. /\ live' = live \cup {lastSubId + 1}
        /\ sub' = [sub EXCEPT ![lastSubId + 1] = NewSub(s, Revised(q), enabled)]
        /\ UNCHANGED <<channel, responseQueue, pending>>
    BY <1>5, Zenon DEF CreateSubscription, sessionVars
  <2>2. lastSubId + 1 \notin live
    BY DEF IInv, TypeOK, StepsWellFounded
  <2>3. \A t \in Session : StillServed(t)
    BY <2>1, <2>2 DEF StillServed, IInv, TypeOK
  <2> QED
    BY <2>1, <2>3, QueuesUnchanged
<1>6. ASSUME NEW s \in Session, NEW b \in SubId, NEW q \in Settings, ModifySubscription(s, b, q)
      PROVE  NoStrandedRequest' /\ PR!RequestsNext
  <2>1. /\ UNCHANGED <<channel, live, responseQueue, pending>>
        /\ sub' = [sub EXCEPT ![b].set = Revised(q), ![b].lifetime = 0]
    BY <1>6, Zenon DEF ModifySubscription, sessionVars, serverVars
  <2>2. \A c \in SubId : sub[c] \in SubRecord /\ sub \in [SubId -> SubRecord]
    BY DEF IInv, TypeOK
  <2>3. \A c \in SubId : sub'[c].session = sub[c].session
    BY <2>1, <2>2 DEF SubRecord
  <2> QED
    BY <2>1, <2>3, QueuesUnchanged DEF StillServed, IInv, TypeOK
<1>7. ASSUME NEW s \in Session, NEW b \in SubId,
             Republish(s, b) \/ \E enabled \in PublishingModes : SetPublishingMode(s, b, enabled)
      PROVE  NoStrandedRequest' /\ PR!RequestsNext
  <2>1. UNCHANGED <<channel, live, responseQueue, pending>>
    BY <1>7 DEF Republish, SetPublishingMode, sessionVars, serverVars
  <2>2. sub \in [SubId -> SubRecord] /\ sub[b] \in SubRecord
    BY DEF IInv, TypeOK
  <2>3. CASE Republish(s, b)
    <3>1. \A c \in live : sub'[c].session = sub[c].session
        BY <2>2, <2>3 DEF Republish, IInv, TypeOK, SubRecord
    <3> QED
        BY <2>1, <3>1, QueuesUnchanged DEF StillServed
  <2>4. ASSUME NEW enabled \in PublishingModes, SetPublishingMode(s, b, enabled)
        PROVE  NoStrandedRequest' /\ PR!RequestsNext
    <3>1. \A c \in live : sub'[c].session = sub[c].session
        BY <2>2, <2>4 DEF SetPublishingMode, IInv, TypeOK, SubRecord
    <3> QED
        BY <2>1, <3>1, QueuesUnchanged DEF StillServed
  <2> QED
    BY <1>7, <2>3, <2>4
<1>8. ASSUME NEW s \in Session, NEW b \in SubId, DeleteSubscription(s, b)
      PROVE  NoStrandedRequest' /\ PR!RequestsNext
    BY <1>8, DeleteReleases DEF DeleteSubscription, Owns, sessionVars
<1>9. CASE Tick
    BY <1>9, QueuesUnchanged DEF Tick, StillServed, sessionVars, serverVars
<1>10. ASSUME NEW b \in SubId, Notify(b) \/ Discard(b) \/ PublishCallback(b)
       PROVE  NoStrandedRequest' /\ PR!RequestsNext
  <2>1. UNCHANGED <<channel, live, responseQueue, pending>>
    BY <1>10 DEF Notify, Discard, PublishCallback, sessionVars, serverVars
  <2>2. PICK n \in Nat : sub' = [sub EXCEPT ![b].queued = n]
    <3>1. CASE Notify(b)
        <4>1. sub' = [sub EXCEPT ![b].queued = sub[b].queued + 1] /\ sub[b].queued + 1 \in Nat
            BY <3>1, SubFields DEF Notify, Produce, IInv
        <4> QED
            BY <4>1
    <3>2. CASE Discard(b)
        <4>1. sub' = [sub EXCEPT ![b].queued = sub[b].queued - 1] /\ sub[b].queued - 1 \in Nat
            BY <3>2, SubFields DEF Discard, IInv
        <4> QED
            BY <4>1
    <3>3. CASE PublishCallback(b)
        <4>1. PICK k \in 0..1 : Produce(b, k)
            BY <3>3 DEF PublishCallback
        <4>2. sub' = [sub EXCEPT ![b].queued = sub[b].queued + k] /\ sub[b].queued + k \in Nat
            BY <4>1, SubFields DEF Produce, IInv
        <4> QED
            BY <4>2
    <3> QED
        BY <1>10, <3>1, <3>2, <3>3
  <2>3. \A c \in live : sub'[c].session = sub[c].session
    BY <2>2, QueuedType DEF IInv, TypeOK
  <2> QED
    BY <2>1, <2>3, QueuesUnchanged DEF StillServed
<1>11. ASSUME NEW b \in SubId, Quiet(b) \/ BecomeLate(b), UNCHANGED <<channel, live>>
       PROVE  NoStrandedRequest' /\ PR!RequestsNext
  <2>1. /\ \A c \in SubId : sub'[c].session = sub[c].session
        /\ UNCHANGED <<responseQueue, pending>>
    BY <1>11, NoMessageFacts DEF IInv
  <2> QED
    BY <1>11, <2>1, QueuesUnchanged DEF StillServed, IInv, TypeOK
<1>12. ASSUME NEW b \in SubId, PublishLoop(b)
       PROVE  NoStrandedRequest' /\ PR!RequestsNext
  <2>1. CASE PublishExpire(b)
    <3>1. b \in live
        BY <2>1 DEF PublishExpire, IInv, StepsWellFounded
    <3> QED
        BY <2>1, <3>1, DeleteReleases DEF PublishExpire, Expire, sessionVars
  <2>2. CASE PublishStop(b)
    BY <2>2, <1>11 DEF PublishStop, sessionVars, serverVars
  <2>3. CASE PublishSend(b)
    BY <2>3, SendAnswers DEF PublishSend, sessionVars, serverVars
  <2> QED
    BY <1>12, <2>1, <2>2, <2>3 DEF PublishLoop
<1>13. ASSUME NEW b \in SubId, LateLoop(b)
       PROVE  NoStrandedRequest' /\ PR!RequestsNext
  <2>1. CASE LateSkip(b)
    BY <2>1, QueuesUnchanged DEF LateSkip, StillServed, sessionVars, serverVars
  <2>2. CASE LateServe(b)
    <3>1. UNCHANGED <<channel, live>> /\ (Quiet(b) \/ Send(b))
        BY <2>2, Zenon DEF LateServe, sessionVars, serverVars
    <3> QED
        BY <3>1, <1>11, SendAnswers
  <2> QED
    BY <1>13, <2>1, <2>2 DEF LateLoop
<1> QED
  <2>1. CASE ServiceNext
    BY <2>1, <1>2, <1>3, <1>4, <1>5, <1>6, <1>7, <1>8, PublishReceives, TransferReleases, Zenon
       DEF ServiceNext
  <2>2. CASE ServerNext
    BY <2>2, <1>9, <1>10, <1>12, <1>13, Zenon DEF ServerNext
  <2> QED
    BY <1>1, <2>1, <2>2 DEF Next

\* A queue whose new entries were parked nowhere takes the place of an old one.
LEMMA ReplaceQueue ==
    ASSUME TypeOK, RequestsConserved, NEW s \in Session, NEW q \in Seq(Request),
           IsInjective(q),
           ToSet(q) \cap pending \subseteq ToSet(responseQueue[s]),
           responseQueue' = [responseQueue EXCEPT ![s] = q],
           pending' = (pending \ ToSet(responseQueue[s])) \cup ToSet(q)
    PROVE  RequestsConserved'
<1>1. responseQueue'[s] = q /\ \A t \in Session \ {s} : responseQueue'[t] = responseQueue[t]
    BY DEF TypeOK
<1>2. \A t \in Session : IsInjective(responseQueue'[t])
    BY <1>1 DEF RequestsConserved
<1>3. \A t \in Session \ {s} : /\ ToSet(responseQueue[t]) \subseteq pending
                               /\ ToSet(responseQueue[t]) \cap ToSet(responseQueue[s]) = {}
    BY DEF RequestsConserved
<1>4. \A t \in Session \ {s} : ToSet(responseQueue'[t]) \cap ToSet(responseQueue'[s]) = {}
    BY <1>1, <1>3
<1>5. \A t, u \in Session :
         t # u => ToSet(responseQueue'[t]) \cap ToSet(responseQueue'[u]) = {}
  <2> TAKE t, u \in Session
  <2>1. CASE t = s \/ u = s
    BY <1>4, <2>1
  <2>2. CASE t # s /\ u # s
    BY <1>1, <2>2 DEF RequestsConserved
  <2> QED
    BY <2>1, <2>2
<1>6. pending' = UNION {ToSet(responseQueue'[t]) : t \in Session}
  <2>1. \A r \in pending' : \E t \in Session : r \in ToSet(responseQueue'[t])
    <3> TAKE r \in pending'
    <3>1. CASE r \in ToSet(q)
        BY <1>1, <3>1
    <3>2. CASE r \in pending /\ r \notin ToSet(responseQueue[s])
        <4>1. PICK t \in Session : r \in ToSet(responseQueue[t])
            BY <3>2 DEF RequestsConserved
        <4> QED
            BY <1>1, <3>2, <4>1
    <3> QED
        BY <3>1, <3>2
  <2>2. \A t \in Session : ToSet(responseQueue'[t]) \subseteq pending'
    <3> TAKE t \in Session
    <3>1. CASE t = s
        BY <1>1, <3>1
    <3>2. CASE t # s
        BY <1>1, <1>3, <3>2, Zenon
    <3> QED
        BY <3>1, <3>2
  <2> QED
    BY <2>1, <2>2, Zenon
<1> QED
  <2> DEFINE P == UNION {ToSet(responseQueue[t]) : t \in Session}
  <2>1. P' = UNION {ToSet(responseQueue'[t]) : t \in Session}
    OBVIOUS
  <2> QED
    BY <1>2, <1>5, <1>6, <2>1, Zenon DEF RequestsConserved

\* The abstract steps keep every request in one place, and the queues short.
LEMMA ConservedStep ==
    ASSUME TypeOK, RequestsConserved, RequestLimit, PR!RequestsNext
    PROVE  RequestsConserved' /\ RequestLimit'
<1>1. /\ \A s \in Session : /\ responseQueue[s] \in Seq(Request)
                            /\ IsInjective(responseQueue[s])
                            /\ ToSet(responseQueue[s]) \subseteq pending
                            /\ Len(responseQueue[s]) \in Nat
      /\ responseQueue \in [Session -> Seq(Request)]
      /\ MaxPublishReq \in Nat
    BY BoundAssumption, LenProperties DEF TypeOK, RequestsConserved
<1>2. ASSUME NEW s \in Session, NEW q \in Seq(Request),
             responseQueue' = [responseQueue EXCEPT ![s] = q],
             Len(q) <= Len(responseQueue[s]) \/ (MaxPublishReq > 0 => Len(q) <= MaxPublishReq)
      PROVE  RequestLimit'
  <2>1. responseQueue'[s] = q /\ \A t \in Session \ {s} : responseQueue'[t] = responseQueue[t]
    BY <1>1, <1>2
  <2>2. Len(q) \in Nat
    BY LenProperties
  <2>3. MaxPublishReq > 0 => Len(q) <= MaxPublishReq
    BY <1>1, <1>2, <2>2 DEF RequestLimit
  <2> QED
    BY <2>1, <2>3 DEF RequestLimit
<1>3. ASSUME NEW s \in Session, PR!Answer(s)
      PROVE  RequestsConserved' /\ RequestLimit'
  <2> DEFINE q == Tail(responseQueue[s])
             h == Head(responseQueue[s])
  <2>1. /\ responseQueue[s] # <<>>
        /\ responseQueue' = [responseQueue EXCEPT ![s] = q]
        /\ pending' = pending \ {h}
    BY <1>3 DEF PR!Answer
  <2>2. /\ h \in ToSet(responseQueue[s])
        /\ q \in Seq(Request)
        /\ Len(q) = Len(responseQueue[s]) - 1
        /\ IsInjective(q)
        /\ ToSet(q) = ToSet(responseQueue[s]) \ {h}
    BY <1>1, <2>1, TailFacts
  <2> HIDE DEF q, h
  <2>3. pending' = (pending \ ToSet(responseQueue[s])) \cup ToSet(q)
    BY <1>1, <2>1, <2>2, Zenon
  <2>4. ToSet(q) \cap pending \subseteq ToSet(responseQueue[s])
    BY <2>2
  <2>5. Len(q) <= Len(responseQueue[s])
    BY <1>1, <2>2
  <2> QED
    BY <1>2, <2>1, <2>2, <2>3, <2>4, <2>5, ReplaceQueue
<1>4. ASSUME NEW s \in Session, PR!Release(s)
      PROVE  RequestsConserved' /\ RequestLimit'
  <2>1. /\ responseQueue' = [responseQueue EXCEPT ![s] = <<>>]
        /\ pending' = pending \ ToSet(responseQueue[s])
    BY <1>4, Zenon DEF PR!Release, PR!ToSet, ToSet
  <2>2. /\ <<>> \in Seq(Request)
        /\ Len(<<>>) <= Len(responseQueue[s])
        /\ ToSet(<<>>) = {}
        /\ IsInjective(<<>>)
    BY <1>1 DEF ToSet, IsInjective
  <2>3. pending' = (pending \ ToSet(responseQueue[s])) \cup ToSet(<<>>)
    BY <2>1, <2>2
  <2> QED
    BY <1>2, <2>1, <2>2, <2>3, ReplaceQueue
<1>5. ASSUME NEW s \in Session, NEW r \in Request, PR!Receive(s, r)
      PROVE  RequestsConserved' /\ RequestLimit'
  <2> DEFINE full == MaxPublishReq > 0 /\ Len(responseQueue[s]) >= MaxPublishReq
             queue == IF full THEN Tail(responseQueue[s]) ELSE responseQueue[s]
             q == Append(queue, r)
  <2>1. /\ r \notin pending
        /\ responseQueue' = [responseQueue EXCEPT ![s] = q]
        /\ pending' = (IF full THEN pending \ {Head(responseQueue[s])} ELSE pending) \cup {r}
    BY <1>5, Zenon DEF PR!Receive
  <2>2. full => /\ responseQueue[s] # <<>>
                /\ Head(responseQueue[s]) \in ToSet(responseQueue[s])
                /\ Len(queue) = Len(responseQueue[s]) - 1
                /\ queue \in Seq(Request)
                /\ IsInjective(queue)
                /\ ToSet(queue) = ToSet(responseQueue[s]) \ {Head(responseQueue[s])}
    <3> SUFFICES ASSUME full
                 PROVE  /\ responseQueue[s] # <<>>
                        /\ Head(responseQueue[s]) \in ToSet(responseQueue[s])
                        /\ Len(Tail(responseQueue[s])) = Len(responseQueue[s]) - 1
                        /\ Tail(responseQueue[s]) \in Seq(Request)
                        /\ IsInjective(Tail(responseQueue[s]))
                        /\ ToSet(Tail(responseQueue[s])) =
                              ToSet(responseQueue[s]) \ {Head(responseQueue[s])}
        OBVIOUS
    <3>1. responseQueue[s] # <<>>
        BY <1>1
    <3> QED
        BY <1>1, <3>1, TailFacts
  <2>3. ~full => queue = responseQueue[s]
    OBVIOUS
  <2>4. /\ queue \in Seq(Request)
        /\ IsInjective(queue)
        /\ ToSet(queue) \subseteq ToSet(responseQueue[s])
    BY <1>1, <2>2, <2>3, Zenon
  <2>5. MaxPublishReq > 0 => Len(queue) < MaxPublishReq
    <3> SUFFICES ASSUME MaxPublishReq > 0
                 PROVE  Len(queue) < MaxPublishReq
        OBVIOUS
    <3>1. Len(responseQueue[s]) <= MaxPublishReq
        BY DEF RequestLimit
    <3>2. full => Len(queue) < MaxPublishReq
        BY <1>1, <2>2, <3>1
    <3>3. ~full => Len(queue) < MaxPublishReq
        BY <1>1, <2>3
    <3> QED
        BY <3>2, <3>3
  <2>6. pending' = (pending \ ToSet(responseQueue[s])) \cup (ToSet(queue) \cup {r})
    <3>1. CASE full
        BY <1>1, <2>1, <2>2, <3>1, Zenon
    <3>2. CASE ~full
        BY <1>1, <2>1, <2>3, <3>2, Zenon
    <3> QED
        BY <3>1, <3>2
  <2> HIDE DEF full, queue
  <2>7. r \notin ToSet(queue)
    BY <1>1, <2>1, <2>4
  <2>8. /\ q \in Seq(Request)
        /\ Len(q) = Len(queue) + 1
        /\ IsInjective(q)
        /\ ToSet(q) = ToSet(queue) \cup {r}
    BY <2>4, <2>7, AppendFacts
  <2>9. Len(queue) \in Nat
    BY <2>4, LenProperties
  <2>10. MaxPublishReq > 0 => Len(q) <= MaxPublishReq
    BY <1>1, <2>5, <2>8, <2>9
  <2>11. ToSet(q) \cap pending \subseteq ToSet(responseQueue[s])
    BY <2>1, <2>4, <2>8
  <2> HIDE DEF q
  <2>12. pending' = (pending \ ToSet(responseQueue[s])) \cup ToSet(q)
    BY <2>6, <2>8
  <2> QED
    BY <1>2, <2>1, <2>8, <2>10, <2>11, <2>12, ReplaceQueue
<1>6. CASE PR!Rearrange
  <2>1. UNCHANGED <<responseQueue, pending>>
    BY <1>6 DEF PR!Rearrange
  <2> QED
    BY <2>1 DEF RequestsConserved, RequestLimit
<1> QED
    BY <1>3, <1>4, <1>5, <1>6, Zenon DEF PR!RequestsNext

\* The inductive invariant of the parked requests.
RInv == IInv /\ NoStrandedRequest /\ RequestsConserved /\ RequestLimit

\* At first nothing is parked and no session is served.
LEMMA InitRInv == Init => RInv /\ PR!RequestsInit
<1> SUFFICES ASSUME Init
             PROVE  RInv /\ PR!RequestsInit
    OBVIOUS
<1>1. IInv
    BY InitIInv
<1>2. \A s \in Session : responseQueue[s] = <<>>
    BY DEF Init
<1>3. NoStrandedRequest
    BY <1>2 DEF NoStrandedRequest
<1>4. ToSet(<<>>) = {} /\ IsInjective(<<>>) /\ Len(<<>>) = 0
    BY DEF ToSet, IsInjective
<1>5. \A s \in Session : ToSet(responseQueue[s]) = {} /\ IsInjective(responseQueue[s])
    BY <1>2, <1>4
<1>6. pending = {}
    BY DEF Init
<1>7. RequestsConserved
    BY <1>5, <1>6 DEF RequestsConserved
<1>8. RequestLimit
    BY <1>2, <1>4, BoundAssumption DEF RequestLimit
<1>9. ServedSessions = {}
    BY DEF ServedSessions, Init
<1>10. PR!RequestsInit
    BY <1>6, <1>9 DEF PR!RequestsInit, Init
<1> QED
    BY <1>1, <1>3, <1>7, <1>8, <1>10 DEF RInv

\* Every step preserves RInv and is a step of the abstract specification.
LEMMA NextRInv == RInv /\ [Next]_vars => RInv' /\ PR!RequestsNext
<1> SUFFICES ASSUME RInv, [Next]_vars
             PROVE  RInv' /\ PR!RequestsNext
    OBVIOUS
<1>1. IInv'
    BY NextIInv DEF RInv
<1>2. NoStrandedRequest' /\ PR!RequestsNext
    BY <1>1, RequestsStep DEF RInv
<1>3. RequestsConserved' /\ RequestLimit'
    BY <1>2, ConservedStep DEF RInv, IInv
<1> QED
    BY <1>1, <1>2, <1>3 DEF RInv

\* RInv holds in every reachable state.
LEMMA RequestsInvariant == Spec => []RInv
BY InitRInv, NextRInv, PTL DEF Spec

\* Every publish request that was accepted and not completed is parked in exactly
\* one place: the dequeue and re-enqueue of publishOnce, the release on the last
\* detach, transfers and lost channels neither leak a request nor park it twice.
THEOREM RequestsAreConserved == Spec => []RequestsConserved
BY RequestsInvariant, PTL DEF RInv

\* No request stays parked in a session without a channel or a subscription:
\* whoever takes the last one away has released the requests.
THEOREM NoRequestStranded == Spec => []NoStrandedRequest
BY RequestsInvariant, PTL DEF RInv

\* No session parks more requests than maxPublishReqPerSession.
THEOREM RequestsLimited == Spec => []RequestLimit
BY RequestsInvariant, PTL DEF RInv

\* The subscription engine implements what PublishRequests promises about
\* publish requests.
THEOREM RequestsImplemented == Spec => RequestsKept
<1>1. Init => PR!RequestsInit
    BY InitRInv
<1>2. RInv /\ [Next]_vars => [PR!RequestsNext]_(PR!rvars)
    BY NextRInv
<1> QED
    BY <1>1, <1>2, RequestsInvariant, PTL DEF Spec, RequestsKept, PR!RequestsSpec

-----------------------------------------------------------------------------
(* The lists of subscriptions stay ordered by priority: attaching inserts in *)
(* front of the first lower priority, which is right only while the list is  *)
(* ordered, and a late subscription moves back from its own position.        *)

Priority == [c \in SubId |-> sub[c].set.priority]

\* A list is ordered by the priorities p.
Ordered(list, p) == \A i, j \in 1..Len(list) : i < j => p[list[i]] >= p[list[j]]

ListsOrdered == \A s \in Session : Ordered(subscriptions[s], Priority)

-----------------------------------------------------------------------------
(* Lists.                                                                    *)

\* Priorities are numbers.
LEMMA PriorityType == ASSUME TypeOK PROVE Priority \in [SubId -> Nat]
BY SubFields DEF Priority, GrantedSettings

\* The order depends on the priorities of the elements only.
LEMMA SameOrder ==
    ASSUME NEW list \in Seq(SubId), NEW p, NEW q, Ordered(list, p),
           \A c \in ToSet(list) : q[c] = p[c]
    PROVE  Ordered(list, q)
<1>1. \A i \in 1..Len(list) : list[i] \in ToSet(list)
    BY ToSetFacts
<1> QED
    BY <1>1 DEF Ordered

\* A list stays ordered when an element leaves it.
LEMMA OrderedWithout ==
    ASSUME NEW list \in Seq(SubId), IsInjective(list), NEW b \in ToSet(list),
           NEW p, Ordered(list, p)
    PROVE  Ordered(Without(list, b), p)
<1> DEFINE k == IndexOf(list, b)
           w == Without(list, b)
<1>1. k \in 1..Len(list) /\ Len(list) \in Nat
    BY WithoutFacts, LenProperties
<1>2. /\ Len(w) = Len(list) - 1
      /\ \A j \in 1..Len(list) - 1 : w[j] = IF j < k THEN list[j] ELSE list[j + 1]
    BY <1>1, RemoveAtFacts DEF Without
<1> HIDE DEF k, w
<1>3. ASSUME NEW i \in 1..Len(w), NEW j \in 1..Len(w), i < j
      PROVE  p[w[i]] >= p[w[j]]
  <2>1. PICK m \in 1..Len(list) : w[i] = list[m] /\ (m = i \/ m = i + 1) /\ (i < k <=> m = i)
    <3>1. i \in 1..Len(list) - 1
      BY <1>2
    <3>2. CASE i < k
      <4>1. i \in 1..Len(list) /\ w[i] = list[i]
        BY <3>1, <3>2, <1>1, <1>2
      <4> QED
        BY <4>1, <3>2
    <3>3. CASE ~(i < k)
      <4>1. i + 1 \in 1..Len(list) /\ w[i] = list[i + 1] /\ i + 1 # i
        BY <3>1, <3>3, <1>1, <1>2
      <4> QED
        BY <4>1, <3>3
    <3> QED
      BY <3>2, <3>3
  <2>2. PICK n \in 1..Len(list) : w[j] = list[n] /\ (n = j \/ n = j + 1) /\ (j < k <=> n = j)
    <3>1. j \in 1..Len(list) - 1
      BY <1>2
    <3>2. CASE j < k
      <4>1. j \in 1..Len(list) /\ w[j] = list[j]
        BY <3>1, <3>2, <1>1, <1>2
      <4> QED
        BY <4>1, <3>2
    <3>3. CASE ~(j < k)
      <4>1. j + 1 \in 1..Len(list) /\ w[j] = list[j + 1] /\ j + 1 # j
        BY <3>1, <3>3, <1>1, <1>2
      <4> QED
        BY <4>1, <3>3
    <3> QED
      BY <3>2, <3>3
  <2>3. m < n
    BY <1>3, <2>1, <2>2, <1>1
  <2> QED
    BY <2>1, <2>2, <2>3 DEF Ordered
<1> QED
    BY <1>3 DEF Ordered, w

\* Inserting in front of the first lower priority keeps the order, if what is before
\* the position the search starts from is not lower.
LEMMA OrderedInsert ==
    ASSUME TypeOK, NEW list \in Seq(SubId), NEW b \in SubId, NEW x \in Nat,
           NEW from \in Nat \ {0}, NEW p \in [SubId -> Nat], p[b] = x,
           \A c \in ToSet(list) : p[c] = sub[c].set.priority,
           Ordered(list, p),
           \A i \in 1..Len(list) : i < from => p[list[i]] >= x
    PROVE  Ordered(InsertByPriority(list, b, x, from), p)
<1> DEFINE lower == {i \in from..Len(list) : sub[list[i]].set.priority < x}
           k == IF lower = {} THEN Len(list) + 1 ELSE Min(lower)
           w == InsertByPriority(list, b, x, from)
<1>1. /\ Len(list) \in Nat
      /\ \A i \in 1..Len(list) : list[i] \in ToSet(list) /\ list[i] \in SubId
    BY LenProperties, ToSetFacts
<1>2. \A i \in 1..Len(list) : i \in lower <=> i >= from /\ p[list[i]] < x
    BY <1>1
<1>3. lower \subseteq 1..Len(list)
    BY <1>1
<1>4. lower # {} => Min(lower) \in lower /\ \A i \in lower : Min(lower) <= i
  <2>1. lower \in SUBSET Nat
    BY <1>1
  <2> HIDE DEF lower
  <2> QED
    BY <2>1, MinFacts
<1>5. w = InsertAt(list, k, b)
    BY DEF InsertByPriority
<1> HIDE DEF lower
<1>6. (lower = {} /\ k = Len(list) + 1) \/ (k \in lower /\ \A i \in lower : k <= i)
    BY <1>4, Zenon
<1> HIDE DEF k
<1>7. k \in 1..Len(list) + 1
  <2>1. k = Len(list) + 1 \/ k \in 1..Len(list)
    BY <1>3, <1>6, Zenon
  <2> QED
    BY <2>1, <1>1
<1>8. \A i \in 1..Len(list) : i < k => p[list[i]] >= x
  <2> SUFFICES ASSUME NEW i \in 1..Len(list), i < k PROVE p[list[i]] >= x
    OBVIOUS
  <2>1. i \notin lower
    BY <1>6, <1>7, <1>1
  <2>2. p[list[i]] \in Nat
    BY <1>1
  <2> QED
    BY <2>1, <2>2, <1>2
<1>9. \A i \in 1..Len(list) : i >= k => x >= p[list[i]]
  <2> SUFFICES ASSUME NEW i \in 1..Len(list), i >= k PROVE x >= p[list[i]]
    OBVIOUS
  <2>0. k \in lower
    BY <1>1, <1>6
  <2>1. k \in 1..Len(list) /\ p[list[k]] < x
    BY <2>0, <1>2, <1>3
  <2>2. p[list[k]] >= p[list[i]]
    BY <2>1, <1>1 DEF Ordered
  <2> QED
    BY <1>1, <2>1, <2>2
<1>10. /\ Len(w) = Len(list) + 1
       /\ \A j \in 1..Len(list) + 1 :
             w[j] = IF j < k THEN list[j] ELSE IF j = k THEN b ELSE list[j - 1]
    BY <1>5, <1>7, InsertAtFacts
<1> HIDE DEF w
<1>11. ASSUME NEW i \in 1..Len(w), NEW j \in 1..Len(w), i < j
       PROVE  p[w[i]] >= p[w[j]]
  <2>1. CASE j < k
    <3>1. i \in 1..Len(list) /\ j \in 1..Len(list) /\ w[i] = list[i] /\ w[j] = list[j]
      BY <2>1, <1>1, <1>7, <1>10, <1>11
    <3> QED
      BY <3>1, <1>11 DEF Ordered
  <2>2. CASE j = k
    BY <2>2, <1>1, <1>7, <1>8, <1>10, <1>11
  <2>3. CASE j > k /\ i < k
    <3>1. i \in 1..Len(list) /\ j - 1 \in 1..Len(list) /\ (i < j - 1 \/ i = j - 1)
      BY <2>3, <1>1, <1>7, <1>10
    <3>2. i \in 1..Len(list) /\ w[i] = list[i] /\ w[j] = list[j - 1] /\ p[list[i]] \in Nat
      BY <2>3, <1>1, <1>7, <1>10
    <3>3. CASE i < j - 1
      <4>1. p[list[i]] >= p[list[j - 1]]
        BY <3>1, <3>2, <3>3 DEF Ordered
      <4> QED
        BY <4>1, <3>2
    <3>4. CASE i = j - 1
      <4>1. p[w[i]] = p[w[j]] /\ p[w[i]] \in Nat
        BY <3>2, <3>4
      <4> QED
        BY <4>1
    <3> QED
      BY <3>1, <3>3, <3>4
  <2>4. CASE j > k /\ i = k
    <3>1. j - 1 \in 1..Len(list) /\ j - 1 >= k /\ w[i] = b /\ w[j] = list[j - 1]
      BY <2>4, <1>1, <1>7, <1>10
    <3> QED
      BY <3>1, <1>9
  <2>5. CASE j > k /\ i > k
    <3>1. i - 1 \in 1..Len(list) /\ j - 1 \in 1..Len(list) /\ i - 1 < j - 1
      BY <2>5, <1>7, <1>10, <1>11
    <3>2. w[i] = list[i - 1] /\ w[j] = list[j - 1]
      BY <2>5, <1>7, <1>10
    <3> QED
      BY <3>1, <3>2 DEF Ordered
  <2> QED
    BY <2>1, <2>2, <2>3, <2>4, <2>5, <1>7, <1>10
<1> QED
    BY <1>11 DEF Ordered, w

-----------------------------------------------------------------------------
(* Steps that leave priorities alone.                                        *)

\* The priorities are the same when the settings are.
LEMMA SamePriority ==
    ASSUME \A c \in SubId : sub'[c].set = sub[c].set
    PROVE  Priority' = Priority
BY DEF Priority

\* With them, the lists that are left alone stay ordered.
LEMMA StillOrdered ==
    ASSUME ListsOrdered, UNCHANGED subscriptions, \A c \in SubId : sub'[c].set = sub[c].set
    PROVE  ListsOrdered'
BY SamePriority DEF ListsOrdered, Ordered

\* No message changes a setting: neither of the subscription that sends it, nor of
\* those that lose a message for it.
LEMMA IterationSettings ==
    ASSUME TypeOK, NEW b \in SubId, Quiet(b) \/ BecomeLate(b) \/ Send(b)
    PROVE  \A c \in SubId : sub'[c].set = sub[c].set
<1>1. sub \in [SubId -> SubRecord] /\ \A c \in SubId : sub[c] \in SubRecord
    BY DEF TypeOK
<1>2. CASE Quiet(b) \/ BecomeLate(b)
  <2> DEFINE k == KeepAliveAfter(b)
             l == LifetimeAfter(b)
  <2>1. \/ sub' = [sub EXCEPT ![b].keepAlive = k, ![b].lifetime = l]
        \/ sub' = [sub EXCEPT ![b].state = "late", ![b].keepAlive = k, ![b].lifetime = l]
    BY <1>2 DEF Quiet, BecomeLate
  <2> HIDE DEF k, l
  <2>2. /\ [[sub[b] EXCEPT !.keepAlive = k] EXCEPT !.lifetime = l].set = sub[b].set
        /\ [[[sub[b] EXCEPT !.state = "late"] EXCEPT !.keepAlive = k] EXCEPT !.lifetime = l]
              .set = sub[b].set
    BY <1>1 DEF SubRecord
  <2>3. sub'[b].set = sub[b].set /\ \A c \in SubId \ {b} : sub'[c] = sub[c]
    BY <1>1, <2>1, <2>2
  <2> QED
    BY <2>3
<1>3. CASE Send(b)
  <2> SUFFICES ASSUME NEW c \in SubId PROVE sub'[c].set = sub[c].set
    OBVIOUS
  <2>1. \E kept, nextSeqNo, queued, state :
           sub'[c] = IF c = b
                     THEN [sub[b] EXCEPT !.retrans = kept, !.nextSeqNo = nextSeqNo,
                                         !.queued = queued, !.state = state,
                                         !.keepAlive = 0, !.lifetime = 0]
                     ELSE [sub[c] EXCEPT !.retrans = kept]
    BY <1>3 DEF Send
  <2> QED
    BY <1>1, <2>1 DEF SubRecord
<1> QED
    BY <1>2, <1>3

\* The timer and the notifications.
LEMMA OrderedServerStep ==
    ASSUME TypeOK, ListsOrdered, NEW b \in SubId,
           Notify(b) \/ Discard(b) \/ PublishCallback(b) \/ LateSkip(b)
    PROVE  ListsOrdered'
<1>1. sub \in [SubId -> SubRecord] /\ sub[b] \in SubRecord
    BY DEF TypeOK
<1>2. UNCHANGED subscriptions
    BY DEF Notify, Discard, PublishCallback, LateSkip
<1>3. sub' = sub \/ \E n : sub' = [sub EXCEPT ![b].queued = n]
    BY DEF Notify, Discard, PublishCallback, LateSkip, Produce
<1>4. \A n : [sub[b] EXCEPT !.queued = n].set = sub[b].set
    BY <1>1 DEF SubRecord
<1>5. \A c \in SubId : sub'[c].set = sub[c].set
    BY <1>1, <1>3, <1>4
<1> QED
    BY <1>2, <1>5, StillOrdered

\* The publish loop, as long as it deletes nothing.
LEMMA OrderedPublishStep ==
    ASSUME TypeOK, ListsOrdered, NEW b \in SubId, PublishStop(b) \/ PublishSend(b)
    PROVE  ListsOrdered'
<1>1. UNCHANGED subscriptions /\ (Quiet(b) \/ BecomeLate(b) \/ Send(b))
    BY DEF PublishStop, PublishSend
<1> QED
    BY <1>1, IterationSettings, StillOrdered

\* The services that only restart a lifetime, take an acknowledgement or park a request.
LEMMA OrderedServiceStep ==
    ASSUME TypeOK, ListsOrdered, NEW s \in Session, NEW b \in SubId \cup {NoSub},
           \/ \E r \in Request, n \in SeqNo : Publish(s, r, b, n)
           \/ /\ b # NoSub
              /\ \/ Republish(s, b)
                 \/ \E enabled \in PublishingModes : SetPublishingMode(s, b, enabled)
    PROVE  ListsOrdered'
<1>1. UNCHANGED subscriptions
    BY DEF Publish, Republish, SetPublishingMode
<1>2. \/ sub' = sub
      \/ b # NoSub /\ \E kept : sub' = [sub EXCEPT ![b].retrans = kept]
      \/ b # NoSub /\ sub' = [sub EXCEPT ![b].lifetime = 0]
      \/ b # NoSub /\ \E enabled : sub' = [sub EXCEPT ![b].enabled = enabled, ![b].lifetime = 0]
    BY Zenon DEF Publish, Acked, Republish, SetPublishingMode
<1>3. \A c \in SubId : sub'[c].set = sub[c].set
  <2>1. CASE b = NoSub
    BY <1>2, <2>1
  <2>2. CASE b # NoSub
    <3>1. sub \in [SubId -> SubRecord] /\ b \in SubId /\ sub[b] \in SubRecord
      BY <2>2 DEF TypeOK
    <3>2. /\ \A kept : [sub[b] EXCEPT !.retrans = kept].set = sub[b].set
          /\ [sub[b] EXCEPT !.lifetime = 0].set = sub[b].set
          /\ \A e : [[sub[b] EXCEPT !.enabled = e] EXCEPT !.lifetime = 0].set = sub[b].set
      BY <3>1 DEF SubRecord
    <3> QED
      BY <1>2, <3>1, <3>2
  <2> QED
    BY <2>1, <2>2
<1> QED
    BY <1>1, <1>3, StillOrdered

\* Sessions open, move and lose their channel.
LEMMA OrderedSessionStep ==
    ASSUME ListsOrdered, NEW s \in Session,
           \/ OpenSession(s) \/ ActivateSession(s)
           \/ RemoveSecureChannel(s) \/ SecureChannelClose(s)
    PROVE  ListsOrdered'
BY StillOrdered DEF OpenSession, ActivateSession, RemoveSecureChannel, SecureChannelClose

-----------------------------------------------------------------------------
(* Steps that change a list.                                                 *)

\* What a step has to do to the lists: every list stays as it is with the same
\* priorities, or is ordered for a reason of its own.
LEMMA OrderedStep ==
    ASSUME IInv, ListsOrdered,
           \A t \in Session :
              \/ Ordered(subscriptions'[t], Priority')
              \/ /\ subscriptions'[t] = subscriptions[t]
                 /\ \A c \in Owned(t) : sub'[c].set = sub[c].set
    PROVE  ListsOrdered'
<1> SUFFICES ASSUME NEW t \in Session, subscriptions'[t] = subscriptions[t],
                    \A c \in Owned(t) : sub'[c].set = sub[c].set
             PROVE  Ordered(subscriptions'[t], Priority')
    BY DEF ListsOrdered
<1>1. subscriptions[t] \in Seq(SubId) /\ ToSet(subscriptions[t]) = Owned(t)
    BY DEF IInv, TypeOK, StepsWellFounded
<1>2. Owned(t) \subseteq SubId
    BY DEF Owned, IInv, TypeOK
<1>3. \A c \in Owned(t) : Priority'[c] = Priority[c]
    BY <1>2 DEF Priority
<1> QED
    BY <1>1, <1>3, SameOrder DEF ListsOrdered

\* A deletion, on request or at the end of the lifetime.
LEMMA OrderedDelete ==
    ASSUME IInv, ListsOrdered, NEW b \in live, DeleteSub(b)
    PROVE  ListsOrdered'
<1> DEFINE s == sub[b].session
           rest == Without(subscriptions[s], b)
<1>1. b \in SubId /\ sub \in [SubId -> SubRecord] /\ s \in Session \cup {NoSession}
    BY SubFields DEF IInv, TypeOK
<1>2. /\ sub' = [sub EXCEPT ![b] = Blank]
      /\ IF s = NoSession THEN UNCHANGED subscriptions
         ELSE subscriptions' = [subscriptions EXCEPT ![s] = rest]
    BY Zenon DEF DeleteSub
<1>3. \A c \in SubId \ {b} : sub'[c].set = sub[c].set
    BY <1>1, <1>2
<1>4. ASSUME NEW t \in Session
      PROVE  \/ Ordered(subscriptions'[t], Priority')
             \/ /\ subscriptions'[t] = subscriptions[t]
                /\ \A c \in Owned(t) : sub'[c].set = sub[c].set
  <2>1. CASE t = s
    <3>1. /\ subscriptions[s] \in Seq(SubId) /\ IsInjective(subscriptions[s])
          /\ b \in ToSet(subscriptions[s]) /\ subscriptions \in [Session -> Seq(SubId)]
      BY <2>1 DEF IInv, TypeOK, StepsWellFounded, Owned
    <3>2. /\ rest \in Seq(SubId) /\ Ordered(rest, Priority)
          /\ ToSet(rest) = ToSet(subscriptions[s]) \ {b}
      BY <3>1, <2>1, WithoutFacts, OrderedWithout DEF ListsOrdered
    <3>3. ToSet(rest) \subseteq SubId \ {b}
      BY <3>2, ToSetFacts
    <3>4. \A c \in ToSet(rest) : Priority'[c] = Priority[c]
      BY <3>3, <1>3 DEF Priority
    <3>5. Ordered(rest, Priority')
      BY <3>2, <3>4, SameOrder
    <3>6. subscriptions'[t] = rest
      BY <1>2, <2>1, <3>1, SessionAssumption
    <3> QED
      BY <3>5, <3>6
  <2>2. CASE t # s
    <3>1. subscriptions'[t] = subscriptions[t]
      BY <1>1, <1>2, <2>2 DEF IInv, TypeOK
    <3>2. \A c \in Owned(t) : c \in SubId \ {b}
      BY <2>2 DEF Owned, IInv, TypeOK
    <3> QED
      BY <3>1, <3>2, <1>3
  <2> QED
    BY <2>1, <2>2
<1> QED
    BY <1>4, OrderedStep

\* A session goes, and its subscriptions with it or out of its list.
LEMMA OrderedRemoveSession ==
    ASSUME IInv, ListsOrdered, NEW s \in Session, NEW kept, RemoveSession(s, kept)
    PROVE  ListsOrdered'
<1> DEFINE gone == ToSet(subscriptions[s]) \ kept
<1>1. /\ subscriptions' = [subscriptions EXCEPT ![s] = <<>>]
      /\ sub' = [b \in SubId |-> IF b \in gone THEN Blank
                                 ELSE IF b \in kept THEN [sub[b] EXCEPT !.session = NoSession]
                                 ELSE sub[b]]
    BY Zenon DEF RemoveSession
<1>2. gone \subseteq Owned(s)
    BY DEF IInv, StepsWellFounded
<1> HIDE DEF gone
<1>3. ASSUME NEW t \in Session
      PROVE  \/ Ordered(subscriptions'[t], Priority')
             \/ /\ subscriptions'[t] = subscriptions[t]
                /\ \A c \in Owned(t) : sub'[c].set = sub[c].set
  <2>1. CASE t = s
    <3>1. subscriptions'[t] = <<>>
      BY <1>1, <2>1 DEF IInv, TypeOK
    <3> QED
      BY <3>1 DEF Ordered
  <2>2. CASE t # s
    <3>1. subscriptions'[t] = subscriptions[t]
      BY <1>1, <2>2 DEF IInv, TypeOK
    <3>2. ASSUME NEW c \in Owned(t) PROVE sub'[c].set = sub[c].set
      <4>1. c \in SubId /\ c \notin gone /\ sub[c] \in SubRecord
        BY <1>2, <2>2 DEF Owned, IInv, TypeOK
      <4> QED
        BY <1>1, <4>1 DEF SubRecord
    <3> QED
      BY <3>1, <3>2
  <2> QED
    BY <2>1, <2>2
<1> QED
    BY <1>3, OrderedStep

\* A new subscription is inserted with the priority it asks for, which is the one it gets.
LEMMA OrderedCreate ==
    ASSUME IInv, ListsOrdered, NEW s \in Session, NEW q \in Settings, NEW enabled \in PublishingModes,
           CreateSubscription(s, q, enabled)
    PROVE  ListsOrdered'
<1> DEFINE b == lastSubId + 1
           list == InsertByPriority(subscriptions[s], b, q.priority, 1)
           new == NewSub(s, Revised(q), enabled)
<1>1. /\ sub' = [sub EXCEPT ![b] = new]
      /\ subscriptions' = [subscriptions EXCEPT ![s] = list]
      /\ lastSubId < MaxSubId
    BY Zenon DEF CreateSubscription
<1>2. b \in SubId /\ b \notin live
    BY <1>1, BoundAssumption DEF IInv, TypeOK, StepsWellFounded, SubId
<1>3. new.set.priority = q.priority /\ q.priority \in Nat
    BY SettingsAssumption DEF NewSub, Revised
<1>4. /\ subscriptions[s] \in Seq(SubId) /\ ToSet(subscriptions[s]) = Owned(s)
      /\ \A t \in Session : Owned(t) \subseteq SubId \ {b}
    BY <1>2 DEF IInv, TypeOK, StepsWellFounded, Owned
<1> HIDE DEF b, new
<1>5. /\ sub'[b] = new /\ \A c \in SubId \ {b} : sub'[c] = sub[c]
    BY <1>1, <1>2 DEF IInv, TypeOK
<1>6. Priority \in [SubId -> Nat]
    BY PriorityType DEF IInv
<1>7. /\ \A c \in SubId \ {b} : Priority'[c] = Priority[c] /\ Priority'[c] = sub[c].set.priority
      /\ Priority'[b] = q.priority
    BY <1>2, <1>3, <1>5 DEF Priority
<1>8. Priority' \in [SubId -> Nat]
  <2>1. Priority' = [c \in SubId |-> IF c = b THEN q.priority ELSE Priority[c]]
    BY <1>3, <1>5, <1>2 DEF Priority
  <2> QED
    BY <2>1, <1>3, <1>6
<1>9. Ordered(subscriptions[s], Priority')
  <2>1. \A c \in ToSet(subscriptions[s]) : Priority'[c] = Priority[c]
    BY <1>4, <1>7
  <2>2. Ordered(subscriptions[s], Priority)
    BY DEF ListsOrdered
  <2> QED
    BY <2>1, <2>2, <1>4, SameOrder
<1>10. Ordered(list, Priority')
  <2>1. \A c \in ToSet(subscriptions[s]) : Priority'[c] = sub[c].set.priority
    BY <1>4, <1>7
  <2>2. \A i \in 1..Len(subscriptions[s]) : ~(i < 1)
    OBVIOUS
  <2> DEFINE p == Priority'
  <2>3. /\ TypeOK /\ b \in SubId /\ q.priority \in Nat /\ 1 \in Nat \ {0}
        /\ subscriptions[s] \in Seq(SubId) /\ p \in [SubId -> Nat] /\ p[b] = q.priority
        /\ \A c \in ToSet(subscriptions[s]) : p[c] = sub[c].set.priority
        /\ Ordered(subscriptions[s], p)
        /\ \A i \in 1..Len(subscriptions[s]) : i < 1 => p[subscriptions[s][i]] >= q.priority
    BY <2>1, <2>2, <1>2, <1>3, <1>4, <1>7, <1>8, <1>9 DEF IInv
  <2> HIDE DEF p
  <2>4. Ordered(InsertByPriority(subscriptions[s], b, q.priority, 1), p)
    BY <2>3, OrderedInsert
  <2> QED
    BY <2>4 DEF p
<1> HIDE DEF list
<1>11. ASSUME NEW t \in Session
       PROVE  \/ Ordered(subscriptions'[t], Priority')
              \/ /\ subscriptions'[t] = subscriptions[t]
                 /\ \A c \in Owned(t) : sub'[c].set = sub[c].set
  <2>1. CASE t = s
    <3>1. subscriptions'[t] = list
      BY <1>1, <2>1 DEF IInv, TypeOK
    <3> QED
      BY <3>1, <1>10
  <2>2. CASE t # s
    <3>1. subscriptions'[t] = subscriptions[t]
      BY <1>1, <2>2 DEF IInv, TypeOK
    <3> QED
      BY <3>1, <1>4, <1>5
  <2> QED
    BY <2>1, <2>2
<1> QED
    BY <1>11, OrderedStep

\* Where b, taken out of the ordered list of its session, is inserted again with
\* priority x, searching from the start or from its own place with its own priority.
LEMMA Reinserted ==
    ASSUME IInv, ListsOrdered, NEW s \in Session, NEW b \in ToSet(subscriptions[s]),
           NEW x \in Nat, NEW from \in Nat \ {0}, NEW p \in [SubId -> Nat], p[b] = x,
           \A c \in SubId \ {b} : p[c] = sub[c].set.priority,
           \/ from = 1
           \/ from = IndexOf(subscriptions[s], b) /\ x = sub[b].set.priority
    PROVE  Ordered(InsertByPriority(Without(subscriptions[s], b), b, x, from), p)
<1> DEFINE list == subscriptions[s]
           k == IndexOf(list, b)
           rest == Without(list, b)
<1>1. list \in Seq(SubId) /\ IsInjective(list) /\ b \in SubId /\ Len(list) \in Nat
    BY ToSetFacts, LenProperties DEF IInv, TypeOK, StepsWellFounded
<1>2. /\ rest \in Seq(SubId) /\ Len(rest) = Len(list) - 1
      /\ ToSet(rest) = ToSet(list) \ {b} /\ k \in 1..Len(list)
    BY <1>1, WithoutFacts
<1>3. list[k] = b
    BY <1>1, ToSetFacts, LenProperties DEF IndexOf
<1>4. \A j \in 1..Len(list) - 1 : rest[j] = IF j < k THEN list[j] ELSE list[j + 1]
    BY <1>1, <1>2, RemoveAtFacts DEF Without
<1>5. Ordered(list, Priority) /\ Ordered(rest, Priority)
    BY <1>1, OrderedWithout DEF ListsOrdered
<1> HIDE DEF k, rest
<1>6. ToSet(rest) \subseteq SubId \ {b}
    BY <1>1, <1>2, ToSetFacts
<1>7. \A c \in ToSet(rest) : p[c] = sub[c].set.priority /\ p[c] = Priority[c]
    BY <1>6 DEF Priority
<1>8. Ordered(rest, p)
    BY <1>2, <1>5, <1>7, SameOrder
<1>9. \A i \in 1..Len(rest) : i < from => p[rest[i]] >= x
  <2> SUFFICES ASSUME NEW i \in 1..Len(rest), i < from PROVE p[rest[i]] >= x
    OBVIOUS
  <2>1. from = k /\ x = Priority[b]
    BY <1>1 DEF Priority, k
  <2>2. rest[i] = list[i] /\ i \in 1..Len(list) /\ rest[i] \in ToSet(rest)
    <3>1. i \in 1..Len(list) - 1 /\ i \in 1..Len(list) /\ i < k
      BY <2>1, <1>1, <1>2
    <3>2. rest[i] = list[i]
      BY <3>1, <1>4
    <3>3. rest[i] \in ToSet(rest)
      BY <1>2, ToSetFacts
    <3> QED
      BY <3>1, <3>2, <3>3
  <2>3. Priority[list[i]] >= Priority[list[k]]
    BY <2>1, <2>2, <1>2, <1>5 DEF Ordered
  <2> QED
    BY <2>1, <2>2, <2>3, <1>3, <1>7
<1>10. \A c \in ToSet(rest) : p[c] = sub[c].set.priority
    BY <1>7
<1>11. Ordered(InsertByPriority(rest, b, x, from), p)
    BY <1>1, <1>2, <1>8, <1>9, <1>10, OrderedInsert DEF IInv
<1> QED
    BY <1>11 DEF rest

\* A change of settings, of the priority among them.
LEMMA OrderedModify ==
    ASSUME IInv, ListsOrdered, NEW s \in Session, NEW b \in SubId, NEW q \in Settings,
           ModifySubscription(s, b, q)
    PROVE  ListsOrdered'
<1> DEFINE list == InsertByPriority(Without(subscriptions[s], b), b, q.priority, 1)
           set == Revised(q)
<1>1. /\ sub' = [sub EXCEPT ![b].set = set, ![b].lifetime = 0]
      /\ subscriptions' = [subscriptions EXCEPT ![s] =
            IF q.priority = sub[b].set.priority THEN @ ELSE list]
      /\ b \in Owned(s)
    BY Zenon DEF ModifySubscription, Owns, Owned
<1>2. set.priority = q.priority /\ q.priority \in Nat
    BY SettingsAssumption DEF Revised
<1> HIDE DEF set
<1>3. /\ sub'[b].set.priority = q.priority
      /\ \A c \in SubId \ {b} : sub'[c] = sub[c]
  <2>1. sub \in [SubId -> SubRecord] /\ sub[b] \in SubRecord
    BY DEF IInv, TypeOK
  <2>2. [[sub[b] EXCEPT !.set = set] EXCEPT !.lifetime = 0].set = set
    BY <2>1 DEF SubRecord
  <2>3. sub'[b] = [[sub[b] EXCEPT !.set = set] EXCEPT !.lifetime = 0]
    BY <1>1, <2>1
  <2>4. \A c \in SubId \ {b} : sub'[c] = sub[c]
    BY <1>1, <2>1
  <2> QED
    BY <2>2, <2>3, <2>4, <1>2
<1>4. /\ \A c \in SubId \ {b} : Priority'[c] = sub[c].set.priority
      /\ Priority'[b] = q.priority
    BY <1>3 DEF Priority
<1>5. Priority' \in [SubId -> Nat]
  <2>1. Priority' = [c \in SubId |-> IF c = b THEN q.priority ELSE Priority[c]]
    BY <1>3 DEF Priority
  <2>2. Priority \in [SubId -> Nat]
    BY PriorityType DEF IInv
  <2> QED
    BY <2>1, <2>2, <1>2
<1>6. /\ subscriptions[s] \in Seq(SubId) /\ b \in ToSet(subscriptions[s])
      /\ ToSet(subscriptions[s]) \subseteq SubId
    BY <1>1, ToSetFacts DEF IInv, TypeOK, StepsWellFounded
<1>7. Ordered(subscriptions'[s], Priority')
  <2>1. CASE q.priority = sub[b].set.priority
    <3>1. subscriptions'[s] = subscriptions[s]
      BY <1>1, <2>1 DEF IInv, TypeOK
    <3>2. \A c \in ToSet(subscriptions[s]) : Priority'[c] = Priority[c]
      BY <1>4, <1>6, <2>1 DEF Priority
    <3> QED
      BY <3>1, <3>2, <1>6, SameOrder DEF ListsOrdered
  <2>2. CASE q.priority # sub[b].set.priority
    <3>1. subscriptions'[s] = list
      BY <1>1, <2>2 DEF IInv, TypeOK
    <3>2. Ordered(list, Priority')
      <4> DEFINE p == Priority'
      <4>1. /\ p \in [SubId -> Nat] /\ p[b] = q.priority /\ 1 \in Nat \ {0}
            /\ \A c \in SubId \ {b} : p[c] = sub[c].set.priority
        BY <1>4, <1>5
      <4> HIDE DEF p
      <4>2. Ordered(InsertByPriority(Without(subscriptions[s], b), b, q.priority, 1), p)
        BY <4>1, <1>2, <1>6, Reinserted
      <4> QED
        BY <4>2 DEF p
    <3> QED
      BY <3>1, <3>2
  <2> QED
    BY <2>1, <2>2
<1>8. ASSUME NEW t \in Session, t # s
      PROVE  /\ subscriptions'[t] = subscriptions[t]
             /\ \A c \in Owned(t) : sub'[c].set = sub[c].set
  <2>1. subscriptions'[t] = subscriptions[t]
    BY <1>1, <1>8 DEF IInv, TypeOK
  <2>2. \A c \in Owned(t) : c \in SubId \ {b}
    BY <1>1, <1>8 DEF Owned, IInv, TypeOK
  <2> QED
    BY <2>1, <2>2, <1>3
<1> QED
    BY <1>7, <1>8, OrderedStep

\* A late subscription that was served moves behind those of its priority, searching
\* from where it stood.
LEMMA OrderedLateServe ==
    ASSUME IInv, ListsOrdered, NEW b \in SubId, LateServe(b)
    PROVE  ListsOrdered'
<1> DEFINE s == call.session
           i == IndexOf(subscriptions[s], b)
           list == InsertByPriority(Without(subscriptions[s], b), b, sub[b].set.priority, i)
<1>1. /\ Searching(b) /\ (Quiet(b) \/ Send(b))
      /\ subscriptions' = [subscriptions EXCEPT ![s] = list]
    BY Zenon DEF LateServe
<1>2. s \in Session /\ b \in ToSet(subscriptions[s]) /\ i \in Nat \ {0}
  <2>1. /\ s \in Session /\ b \in ToSet(subscriptions[s])
        /\ subscriptions[s] \in Seq(SubId) /\ IsInjective(subscriptions[s])
    BY <1>1, SearchFacts
  <2>2. i \in 1..Len(subscriptions[s])
    BY <2>1, WithoutFacts
  <2> QED
    BY <2>1, <2>2
<1>3. \A c \in SubId : sub'[c].set = sub[c].set
    BY <1>1, IterationSettings DEF IInv
<1>4. Priority' = Priority /\ Priority \in [SubId -> Nat]
    BY <1>3, SamePriority, PriorityType DEF IInv
<1>5. /\ sub[b].set.priority \in Nat /\ Priority[b] = sub[b].set.priority
      /\ \A c \in SubId \ {b} : Priority[c] = sub[c].set.priority
    BY <1>4 DEF Priority
<1>6. Ordered(list, Priority)
    BY <1>2, <1>4, <1>5, Reinserted
<1> HIDE DEF list, s
<1>7. ASSUME NEW t \in Session
      PROVE  \/ Ordered(subscriptions'[t], Priority')
             \/ /\ subscriptions'[t] = subscriptions[t]
                /\ \A c \in Owned(t) : sub'[c].set = sub[c].set
  <2>1. CASE t = s
    BY <1>1, <1>2, <1>4, <1>6, <2>1 DEF IInv, TypeOK
  <2>2. CASE t # s
    <3>1. subscriptions'[t] = subscriptions[t]
      BY <1>1, <2>2 DEF IInv, TypeOK
    <3>2. Owned(t) \subseteq SubId
      BY DEF Owned, IInv, TypeOK
    <3> QED
      BY <3>1, <3>2, <1>3
  <2> QED
    BY <2>1, <2>2
<1> QED
    BY <1>7, OrderedStep

\* A transfer takes the subscription out of one list and inserts it in another.
LEMMA OrderedTransfer ==
    ASSUME IInv, ListsOrdered, NEW s \in Session, NEW b \in SubId, NEW n \in 0..1,
           TransferSubscription(s, b, n)
    PROVE  ListsOrdered'
<1> DEFINE old == sub[b].session
           rest == Without(subscriptions[old], b)
           list == InsertByPriority(subscriptions[s], b, sub[b].set.priority, 1)
           k == sub[b].queued + n
<1>1. /\ b \in live /\ old # s
      /\ sub' = [sub EXCEPT ![b].session = s, ![b].queued = k]
      /\ subscriptions' = [t \in Session |-> IF t = s THEN list
                                             ELSE IF t = old THEN rest ELSE subscriptions[t]]
    BY Zenon DEF TransferSubscription
<1> HIDE DEF k
<1>2. \A c \in SubId : sub'[c].set = sub[c].set
  <2>1. sub \in [SubId -> SubRecord] /\ sub[b] \in SubRecord
    BY DEF IInv, TypeOK
  <2>2. [[sub[b] EXCEPT !.session = s] EXCEPT !.queued = k].set = sub[b].set
    BY <2>1 DEF SubRecord
  <2>3. sub'[b] = [[sub[b] EXCEPT !.session = s] EXCEPT !.queued = k]
    BY <1>1, <2>1
  <2>4. \A c \in SubId \ {b} : sub'[c] = sub[c]
    BY <1>1, <2>1
  <2> QED
    BY <2>2, <2>3, <2>4
<1>3. Priority' = Priority /\ Priority \in [SubId -> Nat]
    BY <1>2, SamePriority, PriorityType DEF IInv
<1>4. /\ sub[b].set.priority \in Nat /\ Priority[b] = sub[b].set.priority
      /\ \A c \in SubId : Priority[c] = sub[c].set.priority
    BY <1>3 DEF Priority
<1>5. /\ \A t \in Session : /\ subscriptions[t] \in Seq(SubId) /\ IsInjective(subscriptions[t])
                            /\ ToSet(subscriptions[t]) = Owned(t)
                            /\ Owned(t) \subseteq SubId
      /\ old \in Session => b \in Owned(old)
    BY <1>1 DEF IInv, TypeOK, StepsWellFounded, Owned
<1>6. Ordered(list, Priority)
  <2>1. \A c \in ToSet(subscriptions[s]) : Priority[c] = sub[c].set.priority
    BY <1>4, <1>5
  <2>2. \A i \in 1..Len(subscriptions[s]) : ~(i < 1)
    OBVIOUS
  <2>3. Ordered(subscriptions[s], Priority)
    BY DEF ListsOrdered
  <2> QED
    BY <2>1, <2>2, <2>3, <1>3, <1>4, <1>5, OrderedInsert DEF IInv
<1>7. old \in Session => Ordered(rest, Priority)
    BY <1>5, OrderedWithout DEF ListsOrdered
<1> HIDE DEF list, rest
<1>8. ASSUME NEW t \in Session PROVE Ordered(subscriptions'[t], Priority')
  <2>1. CASE t = s
    BY <1>1, <1>3, <1>6, <2>1
  <2>2. CASE t = old
    BY <1>1, <1>3, <1>7, <2>2
  <2>3. CASE t # s /\ t # old
    <3>1. subscriptions'[t] = subscriptions[t]
      BY <1>1, <2>3
    <3> QED
      BY <3>1, <1>3 DEF ListsOrdered
  <2> QED
    BY <2>1, <2>2, <2>3
<1> QED
    BY <1>8 DEF ListsOrdered

-----------------------------------------------------------------------------
(* The theorem.                                                              *)

\* Every step keeps the lists in order.
LEMMA OrderedNext == IInv /\ ListsOrdered /\ [Next]_vars => ListsOrdered'
<1> SUFFICES ASSUME IInv, ListsOrdered, [Next]_vars PROVE ListsOrdered'
    OBVIOUS
<1>0. TypeOK
    BY DEF IInv
<1>1. CASE UNCHANGED vars
  <2>1. UNCHANGED <<subscriptions, sub>>
    BY <1>1 DEF vars
  <2> QED
    BY <2>1, StillOrdered
<1>2. ASSUME NEW s \in Session,
             \/ OpenSession(s)
             \/ ActivateSession(s)
             \/ RemoveSecureChannel(s)
             \/ SecureChannelClose(s)
      PROVE  ListsOrdered'
    BY <1>2, OrderedSessionStep
<1>3. ASSUME NEW s \in Session,
             SessionTimeout(s) \/ \E delete \in BOOLEAN : CloseSession(s, delete)
      PROVE  ListsOrdered'
  <2>1. \E kept : RemoveSession(s, kept)
    BY <1>3 DEF SessionTimeout, CloseSession
  <2> QED
    BY <2>1, OrderedRemoveSession
<1>4. ASSUME NEW s \in Session, NEW q \in Settings, NEW enabled \in PublishingModes,
             CreateSubscription(s, q, enabled)
      PROVE  ListsOrdered'
    BY <1>4, OrderedCreate
<1>5. ASSUME NEW s \in Session, NEW r \in Request, NEW b \in SubId \cup {NoSub},
             NEW n \in SeqNo, Publish(s, r, b, n)
      PROVE  ListsOrdered'
    BY <1>0, <1>5, OrderedServiceStep
<1>6. ASSUME NEW s \in Session, NEW b \in SubId, NEW q \in Settings, ModifySubscription(s, b, q)
      PROVE  ListsOrdered'
    BY <1>6, OrderedModify
<1>7. ASSUME NEW s \in Session, NEW b \in SubId,
             Republish(s, b) \/ \E enabled \in PublishingModes : SetPublishingMode(s, b, enabled)
      PROVE  ListsOrdered'
  <2>1. b # NoSub
    BY DEF SubId, NoSub
  <2> QED
    BY <2>1, <1>0, <1>7, OrderedServiceStep
<1>8. ASSUME NEW s \in Session, NEW b \in SubId, DeleteSubscription(s, b)
      PROVE  ListsOrdered'
    BY <1>8, OrderedDelete DEF DeleteSubscription, Owns
<1>9. ASSUME NEW s \in Session, NEW b \in SubId, NEW n \in 0..1, TransferSubscription(s, b, n)
      PROVE  ListsOrdered'
    BY <1>9, OrderedTransfer
<1>10. ASSUME NEW b \in SubId,
              Notify(b) \/ Discard(b) \/ PublishCallback(b) \/ LateSkip(b)
       PROVE  ListsOrdered'
    BY <1>0, <1>10, OrderedServerStep
<1>11. ASSUME NEW b \in SubId, PublishLoop(b)
       PROVE  ListsOrdered'
  <2>1. CASE PublishExpire(b)
    BY <2>1, OrderedDelete DEF PublishExpire, Expire, IInv, StepsWellFounded
  <2>2. CASE PublishStop(b) \/ PublishSend(b)
    BY <2>2, <1>0, OrderedPublishStep
  <2> QED
    BY <1>11, <2>1, <2>2 DEF PublishLoop
<1>12. ASSUME NEW b \in SubId, LateServe(b)
       PROVE  ListsOrdered'
    BY <1>12, OrderedLateServe
<1>13. CASE Tick
  <2>1. UNCHANGED <<subscriptions, sub>>
    BY <1>13 DEF Tick
  <2> QED
    BY <2>1, StillOrdered
<1> QED
  <2>1. CASE ServiceNext
    BY <2>1, <1>2, <1>3, <1>4, <1>5, <1>6, <1>7, <1>8, <1>9, Zenon DEF ServiceNext
  <2>2. CASE ServerNext
    BY <2>2, <1>10, <1>11, <1>12, <1>13, Zenon DEF ServerNext, LateLoop
  <2> QED
    BY <1>1, <2>1, <2>2 DEF Next

\* The list of every session is ordered by priority in every reachable state, through
\* creation, changes of priority, rotation, transfer and deletion.
THEOREM ListsOrderedByPriority == Spec => []PriorityOrder
<1>1. Init => ListsOrdered
  <2> SUFFICES ASSUME Init, NEW s \in Session PROVE Ordered(subscriptions[s], Priority)
    BY DEF ListsOrdered
  <2>1. subscriptions[s] = <<>>
    BY DEF Init
  <2> QED
    BY <2>1 DEF Ordered
<1>2. IInv /\ ListsOrdered /\ [Next]_vars => ListsOrdered'
    BY OrderedNext
<1>3. IInv /\ ListsOrdered => PriorityOrder
  <2> SUFFICES ASSUME IInv, ListsOrdered, NEW s \in Session
               PROVE  \A i, j \in DOMAIN subscriptions[s] :
                        i < j => sub[subscriptions[s][i]].set.priority
                                   >= sub[subscriptions[s][j]].set.priority
    BY DEF PriorityOrder
  <2>1. subscriptions[s] \in Seq(SubId)
    BY DEF IInv, TypeOK
  <2>2. /\ DOMAIN subscriptions[s] = 1..Len(subscriptions[s])
        /\ \A i \in 1..Len(subscriptions[s]) : subscriptions[s][i] \in SubId
    BY <2>1, LenProperties
  <2>3. \A i \in 1..Len(subscriptions[s]) :
           Priority[subscriptions[s][i]] = sub[subscriptions[s][i]].set.priority
    BY <2>2 DEF Priority
  <2> QED
    BY <2>2, <2>3 DEF ListsOrdered, Ordered
<1>4. Spec => []IInv
    BY Structure
<1> QED
    BY <1>1, <1>2, <1>3, <1>4, PTL DEF Spec

-----------------------------------------------------------------------------
(* The retransmission queues: the counter of a session is the number of      *)
(* messages its subscriptions hold, and what a client can have republished is *)
(* in order.  The messages of a session are counted as a set of pairs, a     *)
(* subscription and a position in its queue.                                 *)

\* The lengths of the retransmission queues.
Lengths == [c \in SubId |-> Len(sub[c].retrans)]

\* The positions in queues of the lengths n of the subscriptions S.
Places(S, n) == {p \in SubId \X Nat : p[1] \in S /\ p[2] \in 1..n[p[1]]}

AccountInv ==
    /\ \A s \in Session : retransTotal[s] = Cardinality(Places(Owned(s), Lengths))
    /\ Lengths \in [SubId -> 0..SubRetransLimit]

-----------------------------------------------------------------------------
(* Counting.                                                               *)

\* There are finitely many places.
LEMMA PlacesFinite ==
    ASSUME NEW S \in SUBSET SubId, NEW m \in Nat, NEW n \in [SubId -> 0..m]
    PROVE  IsFiniteSet(Places(S, n)) /\ Cardinality(Places(S, n)) \in Nat
<1>1. IsFiniteSet(SubId)
    BY SubIdFinite
<1>2. IsFiniteSet(1..m)
    BY FS_Interval
<1>3. IsFiniteSet(SubId \X (1..m))
    BY <1>1, <1>2, FS_Product
<1>4. Places(S, n) \in SUBSET (SubId \X (1..m))
  <2> SUFFICES ASSUME NEW p \in SubId \X Nat, p[1] \in S, p[2] \in 1..n[p[1]]
               PROVE  p \in SubId \X (1..m)
    BY DEF Places
  <2>1. n[p[1]] \in 0..m /\ p[1] \in SubId /\ p[2] \in Nat
    OBVIOUS
  <2>2. p[2] \in 1..m
    BY <2>1
  <2> QED
    BY <2>1, <2>2
<1> QED
    BY <1>3, <1>4, FS_Subset, FS_CardinalityType

\* Only the lengths of the queues of S matter.
LEMMA SamePlaces ==
    ASSUME NEW S, NEW n, NEW k, \A c \in S : n[c] = k[c]
    PROVE  Places(S, n) = Places(S, k)
BY DEF Places

\* Nothing is counted where there are no queues or only empty ones.
LEMMA NoPlaces ==
    ASSUME NEW S, NEW n, \A c \in S : n[c] = 0
    PROVE  Cardinality(Places(S, n)) = 0
<1>1. Places(S, n) = {}
  <2> SUFFICES ASSUME NEW p \in SubId \X Nat, p[1] \in S, p[2] \in 1..n[p[1]] PROVE FALSE
    BY DEF Places
  <2>1. p[2] \in 1..0
    OBVIOUS
  <2> QED
    BY <2>1
<1> QED
    BY <1>1, FS_EmptySet

\* A queue that gets longer by one adds one.
LEMMA OneMore ==
    ASSUME NEW S \in SUBSET SubId, NEW m \in Nat, NEW n \in [SubId -> 0..m],
           NEW k \in [SubId -> 0..m], NEW c \in S, k[c] = n[c] + 1,
           \A d \in S \ {c} : k[d] = n[d]
    PROVE  Cardinality(Places(S, k)) = Cardinality(Places(S, n)) + 1
<1> DEFINE new == <<c, k[c]>>
<1>1. n[c] \in Nat /\ k[c] \in Nat /\ c \in SubId
    OBVIOUS
<1>2. Places(S, k) = Places(S, n) \cup {new}
  <2>1. \A i \in Nat : i \in 1..k[c] <=> i \in 1..n[c] \/ i = k[c]
    BY <1>1
  <2>2. ASSUME NEW p \in SubId \X Nat
        PROVE  p \in Places(S, k) <=> p \in Places(S, n) \/ p = new
    <3>1. CASE p[1] = c
      <4>1. p[2] \in 1..k[c] <=> p[2] \in 1..n[c] \/ p[2] = k[c]
        BY <2>1
      <4>2. p = new <=> p[2] = k[c]
        BY <3>1
      <4> HIDE DEF new
      <4> QED
        BY <3>1, <4>1, <4>2 DEF Places
    <3>2. CASE p[1] # c
      <4>1. p # new
        BY <3>2
      <4> HIDE DEF new
      <4> QED
        BY <3>2, <4>1 DEF Places
    <3> QED
      BY <3>1, <3>2
  <2>3. new \in SubId \X Nat
    BY <1>1
  <2> HIDE DEF new
  <2>4. Places(S, k) \subseteq SubId \X Nat /\ Places(S, n) \subseteq SubId \X Nat
    BY DEF Places
  <2> QED
    BY <2>2, <2>3, <2>4
<1>3. new \notin Places(S, n)
  <2> SUFFICES ASSUME new \in Places(S, n) PROVE FALSE
    OBVIOUS
  <2>1. new[1] = c /\ new[2] = k[c] /\ new[2] \in 1..n[new[1]]
    BY DEF Places
  <2>2. k[c] \in 1..n[c]
    BY <2>1
  <2> QED
    BY <1>1, <2>2
<1> HIDE DEF new
<1>4. IsFiniteSet(Places(S, n))
    BY PlacesFinite
<1> QED
    BY <1>2, <1>3, <1>4, FS_AddElement

\* A subscription takes all places in its queue along.
LEMMA WithoutOne ==
    ASSUME NEW S \in SUBSET SubId, NEW m \in Nat, NEW n \in [SubId -> 0..m], NEW c \in S
    PROVE  Cardinality(Places(S \ {c}, n)) = Cardinality(Places(S, n)) - n[c]
<1> DEFINE own == {c} \X (1..n[c])
           rest == Places(S \ {c}, n)
<1>1. n[c] \in Nat /\ c \in SubId
    OBVIOUS
<1>2. IsFiniteSet(own) /\ Cardinality(own) = n[c]
  <2>1. IsFiniteSet({c}) /\ Cardinality({c}) = 1
    BY FS_Singleton
  <2>2. IsFiniteSet(1..n[c]) /\ Cardinality(1..n[c]) = n[c]
    BY <1>1, FS_Interval
  <2> QED
    BY <1>1, <2>1, <2>2, FS_Product
<1>3. IsFiniteSet(rest) /\ Cardinality(rest) \in Nat
    BY PlacesFinite
<1>4. Places(S, n) = rest \cup own
  <2>1. \A p \in SubId \X Nat : p \in own <=> p[1] = c /\ p[2] \in 1..n[c]
    OBVIOUS
  <2>2. \A p \in SubId \X Nat : p \in Places(S, n) <=> p \in rest \/ p \in own
    <3> HIDE DEF own
    <3> QED
      BY <2>1 DEF Places
  <2>3. own \subseteq SubId \X Nat
    BY <1>1
  <2>4. Places(S, n) \subseteq SubId \X Nat /\ rest \subseteq SubId \X Nat
    BY DEF Places
  <2> HIDE DEF own, rest
  <2> QED
    BY <2>2, <2>3, <2>4
<1>5. rest \cap own = {}
  <2> SUFFICES ASSUME NEW p \in rest, p \in own PROVE FALSE
    OBVIOUS
  <2>1. p[1] \in S \ {c}
    BY DEF Places
  <2>2. p[1] = c
    OBVIOUS
  <2> QED
    BY <2>1, <2>2
<1> HIDE DEF own, rest
<1>6. Cardinality(rest \cup own) = Cardinality(rest) + Cardinality(own) - Cardinality(rest \cap own)
    BY <1>2, <1>3, FS_Union
<1>7. Cardinality(rest \cap own) = 0
    BY <1>5, FS_EmptySet
<1> QED
    BY <1>1, <1>2, <1>3, <1>4, <1>6, <1>7 DEF rest

-----------------------------------------------------------------------------
(* Queues and sessions.                                                    *)

\* The lengths are numbers, and the messages of a session are the places in the
\* queues of its subscriptions.
LEMMA HeldPlaces ==
    ASSUME TypeOK
    PROVE  /\ \A c \in SubId : Lengths[c] = Len(sub[c].retrans) /\ Lengths[c] \in Nat
           /\ \A s \in Session : Held(s) = Places(Owned(s), Lengths)
<1>1. \A c \in SubId : Lengths[c] = Len(sub[c].retrans) /\ Lengths[c] \in Nat
                       /\ DOMAIN sub[c].retrans = 1..Len(sub[c].retrans)
    BY SubFields, LenProperties DEF Lengths
<1>2. ASSUME NEW s \in Session PROVE Held(s) = Places(Owned(s), Lengths)
  <2>1. Owned(s) \subseteq SubId
    BY DEF Owned, TypeOK
  <2>2. \A b \in Owned(s) : {b} \X DOMAIN sub[b].retrans = {b} \X (1..Lengths[b])
    BY <1>1, <2>1
  <2>3. Held(s) = UNION {{b} \X (1..Lengths[b]) : b \in Owned(s)}
    BY <2>2, Zenon DEF Held
  <2>4. \A p \in Places(Owned(s), Lengths) : p \in {p[1]} \X (1..Lengths[p[1]]) /\ p[1] \in Owned(s)
    BY DEF Places
  <2>5. ASSUME NEW b \in Owned(s), NEW p \in {b} \X (1..Lengths[b])
        PROVE  p \in Places(Owned(s), Lengths)
    <3>1. p[1] = b /\ p[2] \in 1..Lengths[p[1]] /\ p \in SubId \X Nat
      BY <2>1
    <3> QED
      BY <3>1 DEF Places
  <2> QED
    BY <2>3, <2>4, <2>5
<1> QED
    BY <1>1, <1>2

\* What a session owns is a set of ids, and no two sessions own the same one.
LEMMA OwnedFacts ==
    ASSUME TypeOK
    PROVE  /\ \A t \in Session : Owned(t) \in SUBSET SubId
           /\ \A t, u \in Session : t # u => Owned(t) \cap Owned(u) = {}
           /\ \A c \in live, t \in Session : c \in Owned(t) <=> sub[c].session = t
BY DEF Owned, TypeOK

\* A session keeps what it owns while subscriptions neither come nor go nor move.
LEMMA SameOwned ==
    ASSUME TypeOK, live' = live, \A c \in SubId : sub'[c].session = sub[c].session
    PROVE  \A t \in Session : Owned(t)' = Owned(t)
BY DEF Owned, TypeOK

\* Steps that touch no queue and move no subscription.
LEMMA SameAccount ==
    ASSUME TypeOK, AccountInv, live' = live, retransTotal' = retransTotal,
           \A c \in SubId : /\ sub'[c].session = sub[c].session
                            /\ sub'[c].retrans = sub[c].retrans
    PROVE  AccountInv'
<1>1. \A t \in Session : Owned(t)' = Owned(t)
    BY SameOwned
<1>2. Lengths' = Lengths
    BY DEF Lengths
<1> QED
    BY <1>1, <1>2 DEF AccountInv

\* What a step has to do to the books: in every session the counter and the places
\* change together.
LEMMA AccountStep ==
    ASSUME Lengths' \in [SubId -> 0..SubRetransLimit],
           \A t \in Session :
              retransTotal'[t] = Cardinality(Places(Owned(t)', Lengths'))
    PROVE  AccountInv'
BY DEF AccountInv

-----------------------------------------------------------------------------
(* Steps that touch no queue.                                              *)

\* What the simple updates of a subscription leave alone.
LEMMA QueueKept ==
    ASSUME TypeOK, NEW b \in SubId,
           \/ sub' = sub
           \/ \E k, l : sub' = [sub EXCEPT ![b].keepAlive = k, ![b].lifetime = l]
           \/ \E k, l : sub' = [sub EXCEPT ![b].state = "late", ![b].keepAlive = k, ![b].lifetime = l]
           \/ sub' = [sub EXCEPT ![b].lifetime = 0]
           \/ \E e : sub' = [sub EXCEPT ![b].enabled = e, ![b].lifetime = 0]
           \/ \E q : sub' = [sub EXCEPT ![b].set = q, ![b].lifetime = 0]
    PROVE  \A c \in SubId : /\ sub'[c].session = sub[c].session
                            /\ sub'[c].retrans = sub[c].retrans
                            /\ sub'[c].nextSeqNo = sub[c].nextSeqNo
                            /\ sub'[c].queued = sub[c].queued
<1> DEFINE Same(x, y) == /\ x.session = y.session
                         /\ x.retrans = y.retrans
                         /\ x.nextSeqNo = y.nextSeqNo
                         /\ x.queued = y.queued
<1>1. sub \in [SubId -> SubRecord] /\ sub[b] \in SubRecord
    BY DEF TypeOK
<1>2. \A x : Same(x, x)
    OBVIOUS
<1> HIDE DEF Same
<1>3. \A c \in SubId : Same(sub'[c], sub[c])
  <2>1. Same(sub'[b], sub[b])
    <3>1. CASE sub' = sub
      BY <1>2, <3>1
    <3>2. ASSUME NEW k, NEW l, sub' = [sub EXCEPT ![b].keepAlive = k, ![b].lifetime = l]
          PROVE  Same(sub'[b], sub[b])
      <4>1. sub'[b] = [[sub[b] EXCEPT !.keepAlive = k] EXCEPT !.lifetime = l]
        BY <1>1, <3>2
      <4> QED
        BY <1>1, <4>1 DEF SubRecord, Same
    <3>3. ASSUME NEW k, NEW l,
                 sub' = [sub EXCEPT ![b].state = "late", ![b].keepAlive = k, ![b].lifetime = l]
          PROVE  Same(sub'[b], sub[b])
      <4>1. sub'[b] = [[[sub[b] EXCEPT !.state = "late"] EXCEPT !.keepAlive = k] EXCEPT !.lifetime = l]
        BY <1>1, <3>3
      <4> QED
        BY <1>1, <4>1 DEF SubRecord, Same
    <3>4. CASE sub' = [sub EXCEPT ![b].lifetime = 0]
      <4>1. sub'[b] = [sub[b] EXCEPT !.lifetime = 0]
        BY <1>1, <3>4
      <4> QED
        BY <1>1, <4>1 DEF SubRecord, Same
    <3>5. ASSUME NEW e, sub' = [sub EXCEPT ![b].enabled = e, ![b].lifetime = 0]
          PROVE  Same(sub'[b], sub[b])
      <4>1. sub'[b] = [[sub[b] EXCEPT !.enabled = e] EXCEPT !.lifetime = 0]
        BY <1>1, <3>5
      <4> QED
        BY <1>1, <4>1 DEF SubRecord, Same
    <3>6. ASSUME NEW q, sub' = [sub EXCEPT ![b].set = q, ![b].lifetime = 0]
          PROVE  Same(sub'[b], sub[b])
      <4>1. sub'[b] = [[sub[b] EXCEPT !.set = q] EXCEPT !.lifetime = 0]
        BY <1>1, <3>6
      <4> QED
        BY <1>1, <4>1 DEF SubRecord, Same
    <3> QED
      BY <3>1, <3>2, <3>3, <3>4, <3>5, <3>6, Zenon
  <2>2. \A c \in SubId \ {b} : sub'[c] = sub[c]
    BY <1>1
  <2> QED
    BY <1>2, <2>1, <2>2
<1> QED
    BY <1>3 DEF Same

\* The steps of subscriptions that neither send nor acknowledge nor notify.
LEMMA QuietSteps ==
    ASSUME NEW b \in SubId,
           \/ LateSkip(b) \/ PublishStop(b)
           \/ LateServe(b) /\ Quiet(b)
           \/ \E s \in Session :
                 \/ Republish(s, b)
                 \/ \E enabled \in PublishingModes : SetPublishingMode(s, b, enabled)
                 \/ \E q \in Settings : ModifySubscription(s, b, q)
    PROVE  /\ UNCHANGED <<live, retransTotal, produced>>
           /\ \/ sub' = sub
              \/ \E k, l : sub' = [sub EXCEPT ![b].keepAlive = k, ![b].lifetime = l]
              \/ \E k, l : sub' = [sub EXCEPT ![b].state = "late", ![b].keepAlive = k, ![b].lifetime = l]
              \/ sub' = [sub EXCEPT ![b].lifetime = 0]
              \/ \E e : sub' = [sub EXCEPT ![b].enabled = e, ![b].lifetime = 0]
              \/ \E q : sub' = [sub EXCEPT ![b].set = q, ![b].lifetime = 0]
<1>1. CASE LateSkip(b)
    BY <1>1, Zenon DEF LateSkip, serverVars, envVars
<1>2. CASE PublishStop(b) \/ (LateServe(b) /\ Quiet(b))
    BY <1>2, Zenon DEF PublishStop, LateServe, Quiet, BecomeLate, serverVars, envVars
<1>3. CASE \E s \in Session :
              \/ Republish(s, b)
              \/ \E enabled \in PublishingModes : SetPublishingMode(s, b, enabled)
              \/ \E q \in Settings : ModifySubscription(s, b, q)
    BY <1>3, Zenon DEF Republish, SetPublishingMode, ModifySubscription, serverVars, envVars
<1> QED
    BY <1>1, <1>2, <1>3

\* Notifications come and go without a message.
LEMMA NotifySteps ==
    ASSUME TypeOK, NEW b \in SubId, Notify(b) \/ Discard(b) \/ PublishCallback(b)
    PROVE  /\ UNCHANGED <<live, retransTotal>>
           /\ produced <= produced'
           /\ \A c \in SubId : /\ sub'[c].session = sub[c].session
                               /\ sub'[c].retrans = sub[c].retrans
                               /\ sub'[c].nextSeqNo = sub[c].nextSeqNo
                               /\ sub'[c].queued <= sub[c].queued + (produced' - produced)
<1>1. sub \in [SubId -> SubRecord] /\ sub[b] \in SubRecord /\ produced \in Nat
    BY BoundAssumption DEF TypeOK
<1>2. UNCHANGED <<live, retransTotal>>
    BY Zenon DEF Notify, Discard, PublishCallback, serverVars
<1>3. \E n \in {-1, 0, 1} : /\ sub' = [sub EXCEPT ![b].queued = @ + n]
                            /\ produced' \in {produced, produced + 1}
                            /\ n <= produced' - produced
  <2>1. ASSUME NEW n \in 0..1, Produce(b, n)
        PROVE  /\ sub' = [sub EXCEPT ![b].queued = @ + n]
               /\ n \in {-1, 0, 1}
               /\ produced' \in {produced, produced + 1}
               /\ n <= produced' - produced
    BY <1>1, <2>1 DEF Produce
  <2>2. CASE Discard(b)
    <3>1. sub' = [sub EXCEPT ![b].queued = @ - 1] /\ produced' = produced
      BY <2>2, Zenon DEF Discard, envVars
    <3>2. sub[b].queued \in Nat
      BY <1>1 DEF SubRecord
    <3>3. sub[b].queued - 1 = sub[b].queued + (-1)
      BY <3>2
    <3>4. sub' = [sub EXCEPT ![b].queued = @ + (-1)]
      BY <3>1, <3>3
    <3>5. -1 <= produced' - produced
      BY <1>1, <3>1
    <3> QED
      BY <3>1, <3>4, <3>5
  <2>3. CASE Notify(b) \/ PublishCallback(b)
    <3>1. \E n \in 0..1 : Produce(b, n)
      BY <2>3 DEF Notify, PublishCallback
    <3> QED
      BY <2>1, <3>1, Zenon
  <2> QED
    BY <2>2, <2>3
<1>4. PICK n \in {-1, 0, 1} : /\ sub' = [sub EXCEPT ![b].queued = @ + n]
                              /\ produced' \in {produced, produced + 1}
                              /\ n <= produced' - produced
    BY <1>3
<1>5. sub' = [sub EXCEPT ![b] = [sub[b] EXCEPT !.queued = @ + n]]
    BY <1>1, <1>4
<1>6. LET r == [sub[b] EXCEPT !.queued = @ + n]
      IN /\ r.session = sub[b].session
         /\ r.retrans = sub[b].retrans
         /\ r.nextSeqNo = sub[b].nextSeqNo
         /\ r.queued = sub[b].queued + n
    BY <1>1 DEF SubRecord
<1>7. produced <= produced' /\ produced' \in Int
    BY <1>1, <1>3, <1>4
<1>8. \A c \in SubId : sub[c].queued \in Nat
    BY SubFields
<1>9. ASSUME NEW c \in SubId
      PROVE  /\ sub'[c].session = sub[c].session
             /\ sub'[c].retrans = sub[c].retrans
             /\ sub'[c].nextSeqNo = sub[c].nextSeqNo
             /\ sub'[c].queued <= sub[c].queued + (produced' - produced)
  <2>1. CASE c = b
    BY <1>1, <1>4, <1>5, <1>6, <1>7, <1>8, <2>1
  <2>2. CASE c # b
    <3>1. sub'[c] = sub[c]
      BY <1>1, <1>5, <2>2
    <3> QED
      BY <1>1, <1>7, <1>8, <3>1
  <2> QED
    BY <2>1, <2>2
<1> QED
    BY <1>2, <1>7, <1>9

-----------------------------------------------------------------------------
(* A message is sent.                                                      *)

\* Where room has to be made, one subscription of the session loses a message, the
\* sender itself if its own queue is full.
LEMMA VictimCases ==
    ASSUME IInv, NEW b \in live, NEW s \in Session, sub[b].session = s
    PROVE  \/ RetransVictims(s, b) = {} /\ Lengths[b] < SubRetransLimit
           \/ \E v \in Owned(s) : /\ RetransVictims(s, b) = {v}
                                  /\ Lengths[v] > 0
                                  /\ v # b => Lengths[b] < SubRetransLimit
<1> DEFINE list == subscriptions[s]
           filled == {i \in DOMAIN list : sub[list[i]].retrans # <<>>}
           At(i) == Last(sub[list[i]].retrans).at
           oldest == {j \in filled : \A k \in filled : At(j) < At(k) \/ (At(j) = At(k) /\ j <= k)}
<1>1. /\ b \in SubId /\ b \in Owned(s)
      /\ \A c \in SubId : Lengths[c] = Len(sub[c].retrans) /\ Lengths[c] \in Nat
      /\ SubRetransLimit \in Nat \ {0}
    BY HeldPlaces, BoundAssumption DEF IInv, TypeOK, Owned
<1>2. CASE Len(sub[b].retrans) >= SubRetransLimit
  <2>1. RetransVictims(s, b) = {b}
    BY <1>2, Zenon DEF RetransVictims
  <2> QED
    BY <1>1, <1>2, <2>1
<1>3. CASE ~(Len(sub[b].retrans) >= SubRetransLimit)
  <2>1. Lengths[b] < SubRetransLimit
    BY <1>1, <1>3
  <2>2. RetransVictims(s, b) = {} \/ RetransVictims(s, b) = {list[i] : i \in oldest}
    BY <1>3, Zenon DEF RetransVictims
  <2>3. CASE RetransVictims(s, b) = {list[i] : i \in oldest} /\ oldest # {}
    <3>1. PICK j : j \in oldest
      BY <2>3
    <3>2. /\ list \in Seq(SubId) /\ ToSet(list) = Owned(s)
          /\ DOMAIN list = 1..Len(list)
          /\ \A i \in 1..Len(list) : list[i] \in SubId /\ list[i] \in ToSet(list)
      BY ToSetFacts, LenProperties DEF IInv, TypeOK, StepsWellFounded
    <3>3. \A i \in oldest : i = j
      <4> SUFFICES ASSUME NEW i \in oldest PROVE i = j
        OBVIOUS
      <4>1. /\ i \in filled /\ j \in filled
            /\ At(i) < At(j) \/ (At(i) = At(j) /\ i <= j)
            /\ At(j) < At(i) \/ (At(j) = At(i) /\ j <= i)
        BY <3>1
      <4>2. ASSUME NEW k \in filled PROVE At(k) \in Nat /\ k \in Nat
        <5>1. list[k] \in SubId /\ sub[list[k]].retrans # <<>> /\ k \in Nat
          BY <3>2
        <5>2. sub[list[k]].retrans \in Seq([seqNo : SeqNo, at : Nat])
          BY <5>1, SubFields DEF IInv
        <5> DEFINE queue == sub[list[k]].retrans
                   E == [seqNo : SeqNo, at : Nat]
        <5>3. Last(queue) \in E
          <6>1. queue \in Seq(E) /\ queue # <<>>
            BY <5>1, <5>2
          <6> HIDE DEF queue, E
          <6>2. Len(queue) \in 1..Len(queue)
            BY <6>1, EmptySeq, LenProperties
          <6> QED
            BY <6>1, <6>2, ElementOfSeq DEF Last
        <5> QED
          BY <5>1, <5>3
      <4> HIDE DEF At, filled
      <4> QED
        BY <4>1, <4>2
    <3>4. RetransVictims(s, b) = {list[j]}
      <4> HIDE DEF oldest
      <4> QED
        BY <2>3, <3>1, <3>3
    <3>5. list[j] \in Owned(s) /\ list[j] \in SubId /\ sub[list[j]].retrans # <<>>
      BY <3>1, <3>2
    <3>6. Lengths[list[j]] > 0
      <4>1. sub[list[j]].retrans \in Seq([seqNo : SeqNo, at : Nat])
        BY <3>5, SubFields DEF IInv
      <4> QED
        BY <3>5, <4>1, <1>1, EmptySeq, LenProperties
    <3> QED
      BY <2>1, <3>4, <3>5, <3>6
  <2>4. CASE ~(RetransVictims(s, b) = {list[i] : i \in oldest} /\ oldest # {})
    <3> HIDE DEF oldest
    <3>1. RetransVictims(s, b) = {}
      BY <2>2, <2>4
    <3> QED
      BY <2>1, <3>1
  <2> QED
    BY <2>3, <2>4
<1> QED
    BY <1>2, <1>3

Entry(b) == [seqNo |-> sub[b].nextSeqNo, at |-> now]

\* What a message does to the queues and numbers. It is stored, or the queues are
\* left alone.
LEMMA SendQueues ==
    ASSUME TypeOK, NEW b \in SubId, Send(b)
    PROVE  LET s == sub[b].session
               n == Notifications(b)
               v == RetransVictims(s, b)
               stores == n > 0 /\ EnableRetransmission
           IN /\ \A c \in SubId :
                    sub'[c].retrans = IF stores THEN RetransAfter(c, b, v, Entry(b))
                                      ELSE sub[c].retrans
              /\ \A c \in SubId \ {b} : /\ sub'[c].nextSeqNo = sub[c].nextSeqNo
                                        /\ sub'[c].queued = sub[c].queued
              /\ sub'[b].nextSeqNo = IF n > 0 THEN NextSeqNo(sub[b].nextSeqNo)
                                     ELSE sub[b].nextSeqNo
              /\ sub'[b].queued = sub[b].queued - n
              /\ retransTotal' = [retransTotal EXCEPT ![s] =
                                     IF stores THEN @ + 1 - Cardinality(v) ELSE @]
<1> DEFINE s == sub[b].session
           n == Notifications(b)
           stores == n > 0 /\ EnableRetransmission
           victims == IF stores THEN RetransVictims(s, b) ELSE {}
           entry == Entry(b)
           Kept(c) == IF stores THEN RetransAfter(c, b, victims, entry) ELSE sub[c].retrans
           next == IF n > 0 THEN NextSeqNo(sub[b].nextSeqNo) ELSE sub[b].nextSeqNo
           rest == sub[b].queued - n
           state == IF sub[b].queued = n THEN "normal" ELSE sub[b].state
           Old(c) == sub[c]
<1>1. sub' = [c \in SubId |->
                 IF c = b
                 THEN [Old(b) EXCEPT !.retrans = Kept(b), !.nextSeqNo = next, !.queued = rest,
                                     !.state = state, !.keepAlive = 0, !.lifetime = 0]
                 ELSE [Old(c) EXCEPT !.retrans = Kept(c)]]
    BY Zenon DEF Send, Entry
<1>2. retransTotal' = [retransTotal EXCEPT ![s] =
                          IF stores THEN @ + 1 - Cardinality(victims) ELSE @]
    BY Zenon DEF Send
<1>3. \A c \in SubId : Kept(c) = IF stores THEN RetransAfter(c, b, RetransVictims(s, b), entry)
                                 ELSE sub[c].retrans
    BY Zenon
<1>4. retransTotal' = [retransTotal EXCEPT ![s] =
                          IF stores THEN @ + 1 - Cardinality(RetransVictims(s, b)) ELSE @]
    BY <1>2, Zenon
<1>5. \A c \in SubId : Old(c) \in SubRecord
    BY SubFields
<1> HIDE DEF Kept, victims, entry, stores, n, s
<1>6. /\ next = IF n > 0 THEN NextSeqNo(sub[b].nextSeqNo) ELSE sub[b].nextSeqNo
      /\ rest = sub[b].queued - n
    OBVIOUS
<1> HIDE DEF next, rest, state, Old
<1>7. /\ sub'[b].retrans = Kept(b) /\ sub'[b].nextSeqNo = next /\ sub'[b].queued = rest
    BY <1>1, <1>5 DEF SubRecord
<1>8. \A c \in SubId \ {b} : /\ sub'[c].retrans = Kept(c)
                             /\ sub'[c].nextSeqNo = Old(c).nextSeqNo
                             /\ sub'[c].queued = Old(c).queued
    BY <1>1, <1>5 DEF SubRecord
<1> QED
    BY <1>3, <1>4, <1>6, <1>7, <1>8 DEF Old, s, n, stores, entry

\* A victim's queue gets shorter by one, the sender's longer by one.
LEMMA SentLength ==
    ASSUME TypeOK, NEW b \in SubId, NEW c \in SubId, NEW victims,
           c \in victims => Lengths[c] > 0
    PROVE  Len(RetransAfter(c, b, victims, Entry(b)))
              = Lengths[c] - (IF c \in victims THEN 1 ELSE 0) + (IF c = b THEN 1 ELSE 0)
<1> DEFINE queue == sub[c].retrans
           kept == IF c \in victims THEN DropLast(queue) ELSE queue
           entry == Entry(b)
<1>1. queue \in Seq(Entries) /\ Lengths[c] = Len(queue) /\ Len(queue) \in Nat
    BY SubFields, LenProperties DEF Lengths, Entries
<1>2. entry \in Entries
    BY SubFields, BoundAssumption DEF Entries, Entry, TypeOK
<1>3. RetransAfter(c, b, victims, entry) = IF c = b THEN Append(kept, entry) ELSE kept
    BY DEF RetransAfter
<1> HIDE DEF queue, entry
<1>4. c \in victims => /\ DropLast(queue) \in Seq(Entries)
                       /\ Len(DropLast(queue)) = Len(queue) - 1
  <2>1. c \in victims => Len(queue) > 0
    BY <1>1
  <2>2. c \in victims => queue # <<>>
    BY <1>1, <2>1, EmptySeq
  <2> QED
    BY <1>1, <2>2, DropLastFacts
<1>5. kept \in Seq(Entries) /\ Len(kept) = Len(queue) - (IF c \in victims THEN 1 ELSE 0)
    BY <1>1, <1>4
<1> HIDE DEF kept
<1>6. Len(Append(kept, entry)) = Len(kept) + 1
    BY <1>2, <1>5, AppendProperties
<1>7. Len(RetransAfter(c, b, victims, entry))
         = Lengths[c] - (IF c \in victims THEN 1 ELSE 0) + (IF c = b THEN 1 ELSE 0)
  <2> DEFINE off == IF c \in victims THEN 1 ELSE 0
             m == Len(RetransAfter(c, b, victims, entry))
  <2>1. Len(kept) = Lengths[c] - off /\ off \in Int /\ Lengths[c] \in Int
    BY <1>1, <1>5
  <2>2. CASE c = b
    <3>1. m = Len(kept) + 1
      BY <1>3, <1>6, <2>2, Zenon
    <3> HIDE DEF off, m
    <3>2. m = Lengths[c] - off + 1
      BY <2>1, <3>1
    <3>3. m = Lengths[c] - off + (IF c = b THEN 1 ELSE 0)
      BY <2>2, <3>2
    <3> QED
      BY <3>3, Zenon DEF off, m
  <2>3. CASE c # b
    <3>1. m = Len(kept)
      BY <1>3, <2>3, Zenon
    <3> HIDE DEF off, m
    <3>2. m = Lengths[c] - off + 0
      BY <2>1, <3>1
    <3>3. m = Lengths[c] - off + (IF c = b THEN 1 ELSE 0)
      BY <2>3, <3>2
    <3> QED
      BY <3>3, Zenon DEF off, m
  <2> QED
    BY <2>2, <2>3
<1> QED
    BY <1>7 DEF entry

\* A message that is sent is counted in its session, and one that makes room is
\* counted off.
LEMMA SendAccount ==
    ASSUME IInv, AccountInv, NEW b \in live, Send(b), live' = live
    PROVE  AccountInv'
<1> DEFINE s == sub[b].session
           n == Notifications(b)
           stores == n > 0 /\ EnableRetransmission
           M == SubRetransLimit
<1>0. TypeOK /\ b \in SubId /\ M \in Nat /\ Lengths \in [SubId -> 0..M]
    BY BoundAssumption DEF IInv, TypeOK, AccountInv
<1>1. s \in Session /\ \A c \in SubId : sub'[c].session = sub[c].session
    BY <1>0, SendFacts
<1>2. \A t \in Session : Owned(t)' = Owned(t)
    BY <1>0, <1>1, SameOwned
<1>3. /\ \A t \in Session : Owned(t) \in SUBSET SubId
      /\ \A t, u \in Session : t # u => Owned(t) \cap Owned(u) = {}
      /\ b \in Owned(s)
    BY <1>0, <1>1, OwnedFacts
<1>4. CASE ~stores
  <2>1. /\ \A c \in SubId : sub'[c].retrans = sub[c].retrans
        /\ retransTotal' = retransTotal
    <3>1. retransTotal' = [retransTotal EXCEPT ![s] = @]
      BY <1>0, <1>4, SendQueues, Zenon
    <3> QED
      BY <1>0, <1>1, <1>4, <3>1, SendQueues DEF TypeOK
  <2> QED
    BY <1>0, <1>1, <2>1, SameAccount
<1>5. CASE stores
  <2>1. PICK victims : victims = RetransVictims(s, b)
    OBVIOUS
  <2>2. /\ \A c \in SubId : sub'[c].retrans = RetransAfter(c, b, victims, Entry(b))
        /\ retransTotal' = [retransTotal EXCEPT ![s] = @ + 1 - Cardinality(victims)]
    BY <1>0, <1>5, <2>1, SendQueues, Zenon
  <2>3. \/ victims = {} /\ Lengths[b] < M
        \/ \E v \in Owned(s) : /\ victims = {v} /\ Lengths[v] > 0
                               /\ v # b => Lengths[b] < M
    BY <1>1, <2>1, VictimCases
  <2>4. \A c \in SubId : Lengths'[c] = Lengths[c] - (IF c \in victims THEN 1 ELSE 0)
                                                  + (IF c = b THEN 1 ELSE 0)
    <3> SUFFICES ASSUME NEW c \in SubId
                 PROVE  Lengths'[c] = Lengths[c] - (IF c \in victims THEN 1 ELSE 0)
                                                  + (IF c = b THEN 1 ELSE 0)
      OBVIOUS
    <3>1. c \in victims => Lengths[c] > 0
      BY <2>3
    <3>2. Len(RetransAfter(c, b, victims, Entry(b)))
             = Lengths[c] - (IF c \in victims THEN 1 ELSE 0) + (IF c = b THEN 1 ELSE 0)
      BY <1>0, <3>1, SentLength
    <3>3. Lengths'[c] = Len(sub'[c].retrans)
      BY DEF Lengths
    <3> QED
      BY <2>2, <3>2, <3>3
  <2>5. \A t \in Session : retransTotal'[t] = IF t = s THEN retransTotal[t] + 1 - Cardinality(victims)
                                              ELSE retransTotal[t]
    BY <1>0, <2>2 DEF TypeOK
  <2>6. Lengths' = [c \in SubId |-> Lengths'[c]]
    BY DEF Lengths
  <2>7. Lengths' \in [SubId -> 0..M]
    <3> SUFFICES ASSUME NEW c \in SubId PROVE Lengths'[c] \in 0..M
      BY <2>6
    <3>1. Lengths[c] \in 0..M
      BY <1>0
    <3> QED
      BY <1>0, <2>3, <2>4, <3>1
  <2>8. ASSUME NEW t \in Session
        PROVE  retransTotal'[t] = Cardinality(Places(Owned(t), Lengths'))
    <3>1. CASE t # s
      <4>1. \A c \in Owned(t) : c \in SubId /\ c # b /\ c \notin victims
        BY <1>1, <1>3, <2>3, <3>1
      <4>2. \A c \in Owned(t) : Lengths'[c] = Lengths[c]
        BY <1>0, <2>4, <4>1
      <4>3. Places(Owned(t), Lengths') = Places(Owned(t), Lengths)
        BY <4>2, SamePlaces
      <4> QED
        BY <2>5, <3>1, <4>3 DEF AccountInv
    <3>2. CASE t = s /\ victims = {}
      <4>1. Cardinality(victims) = 0
        BY <3>2, FS_EmptySet
      <4>2. Lengths'[b] = Lengths[b] + 1 /\ \A c \in Owned(s) \ {b} : Lengths'[c] = Lengths[c]
        BY <1>0, <1>1, <1>3, <2>4, <3>2
      <4>3. Cardinality(Places(Owned(s), Lengths')) = Cardinality(Places(Owned(s), Lengths)) + 1
        BY <1>0, <1>1, <1>3, <2>7, <4>2, OneMore
      <4>4. retransTotal[s] = Cardinality(Places(Owned(s), Lengths)) /\ retransTotal[s] \in Int
        BY <1>0, <1>1 DEF AccountInv, TypeOK
      <4> QED
        BY <1>1, <2>5, <3>2, <4>1, <4>3, <4>4
    <3>3. ASSUME NEW v \in Owned(s), t = s, victims = {v}, Lengths[v] > 0, v # b => Lengths[b] < M
          PROVE  retransTotal'[t] = Cardinality(Places(Owned(t), Lengths'))
      <4>1. Cardinality(victims) = 1
        BY <3>3, FS_Singleton
      <4>2. retransTotal[s] = Cardinality(Places(Owned(s), Lengths)) /\ retransTotal[s] \in Int
        BY <1>0, <1>1 DEF AccountInv, TypeOK
      <4>3. retransTotal'[t] = retransTotal[s]
        BY <1>1, <2>5, <3>3, <4>1, <4>2
      <4>4. CASE v = b
        <5>1. \A c \in Owned(s) : Lengths'[c] = Lengths[c]
          BY <1>0, <1>1, <1>3, <2>4, <3>3, <4>4
        <5>2. Places(Owned(s), Lengths') = Places(Owned(s), Lengths)
          BY <5>1, SamePlaces
        <5> QED
          BY <3>3, <4>2, <4>3, <5>2
      <4>5. CASE v # b
        <5>1. PICK k : k = [Lengths EXCEPT ![b] = @ + 1]
          OBVIOUS
        <5>2. /\ k \in [SubId -> 0..M] /\ k[b] = Lengths[b] + 1
              /\ \A c \in Owned(s) \ {b} : k[c] = Lengths[c]
          BY <1>0, <1>1, <1>3, <3>3, <4>5, <5>1
        <5>3. Cardinality(Places(Owned(s), k)) = Cardinality(Places(Owned(s), Lengths)) + 1
          BY <1>0, <1>1, <1>3, <5>2, OneMore
        <5>4. v \in SubId /\ b \in SubId /\ k[v] = Lengths[v] /\ Lengths[v] \in Nat /\ Lengths[b] \in Nat
          BY <1>0, <1>1, <1>3, <4>5, <5>2
        <5>5. k[v] = Lengths'[v] + 1
          BY <2>4, <3>3, <4>5, <5>4
        <5>6. \A c \in Owned(s) \ {v} : k[c] = Lengths'[c]
          <6> SUFFICES ASSUME NEW c \in Owned(s), c # v PROVE k[c] = Lengths'[c]
            OBVIOUS
          <6>1. c \in SubId /\ c \notin victims /\ Lengths[c] \in Nat
            BY <1>0, <1>1, <1>3, <3>3
          <6>2. Lengths'[c] = Lengths[c] - 0 + (IF c = b THEN 1 ELSE 0)
            BY <2>4, <6>1
          <6> QED
            BY <5>2, <6>1, <6>2
        <5>7. Cardinality(Places(Owned(s), k)) = Cardinality(Places(Owned(s), Lengths')) + 1
          BY <1>0, <1>1, <1>3, <2>7, <5>2, <5>5, <5>6, OneMore
        <5>8. Cardinality(Places(Owned(s), Lengths')) \in Nat
          BY <1>0, <1>1, <1>3, <2>7, PlacesFinite
        <5> QED
          BY <3>3, <4>2, <4>3, <5>3, <5>7, <5>8
      <4> QED
        BY <4>4, <4>5
    <3> QED
      BY <2>3, <3>1, <3>2, <3>3
  <2>9. \A t \in Session : Places(Owned(t)', Lengths') = Places(Owned(t), Lengths')
    BY <1>2
  <2> QED
    BY <2>7, <2>8, <2>9, AccountStep
<1> QED
    BY <1>4, <1>5

-----------------------------------------------------------------------------
(* Acknowledgements, and subscriptions that come, go and move.             *)

\* The acknowledged message leaves the queue and the count.
LEMMA PublishAccount ==
    ASSUME IInv, AccountInv, NEW s \in Session, NEW r, NEW b \in SubId \cup {NoSub}, NEW n,
           Publish(s, r, b, n)
    PROVE  AccountInv'
<1> DEFINE M == SubRetransLimit
<1>0. TypeOK /\ M \in Nat /\ Lengths \in [SubId -> 0..M]
    BY BoundAssumption DEF IInv, AccountInv
<1>1. live' = live
    BY Zenon DEF Publish, serverVars
<1>2. CASE ~Acked(s, b, n)
  <2>1. UNCHANGED <<sub, retransTotal>>
    BY <1>2, Zenon DEF Publish
  <2> QED
    BY <1>0, <1>1, <2>1, SameAccount
<1>3. CASE Acked(s, b, n)
  <2> DEFINE rest == RemoveAt(sub[b].retrans, AckIndex(b, n))
  <2>1. /\ sub' = [sub EXCEPT ![b].retrans = rest]
        /\ retransTotal' = [retransTotal EXCEPT ![s] = @ - 1]
    BY <1>3, Zenon DEF Publish
  <2>2. b \in SubId /\ b \in Owned(s)
    BY <1>3, AckFacts, <1>0 DEF Acked, Owns, Owned
  <2>3. rest \in Seq(Entries) /\ Len(rest) = Len(sub[b].retrans) - 1
    <3>1. sub[b].retrans \in Seq(Entries) /\ AckIndex(b, n) \in 1..Len(sub[b].retrans)
      BY <1>0, <1>3, <2>2, AckFacts, SubFields DEF Entries
    <3> QED
      BY <3>1, RemoveAtFacts
  <2> HIDE DEF rest
  <2>4. /\ \A c \in SubId : sub'[c].session = sub[c].session
        /\ sub'[b].retrans = rest
        /\ \A c \in SubId \ {b} : sub'[c].retrans = sub[c].retrans
    <3>1. sub \in [SubId -> SubRecord] /\ sub[b] \in SubRecord
      BY <1>0, <2>2 DEF TypeOK
    <3>2. sub' = [sub EXCEPT ![b] = [sub[b] EXCEPT !.retrans = rest]]
      BY <2>1, <2>2, <3>1
    <3>3. /\ [sub[b] EXCEPT !.retrans = rest].session = sub[b].session
          /\ [sub[b] EXCEPT !.retrans = rest].retrans = rest
      BY <3>1 DEF SubRecord
    <3> QED
      BY <2>2, <3>1, <3>2, <3>3
  <2>5. \A c \in SubId : /\ Lengths[c] = Len(sub[c].retrans)
                         /\ Lengths'[c] = Len(sub'[c].retrans)
                         /\ Lengths[c] \in 0..M
    BY <1>0 DEF Lengths
  <2>6. /\ Lengths[b] = Lengths'[b] + 1
        /\ Lengths'[b] \in 0..M
        /\ \A c \in SubId \ {b} : Lengths'[c] = Lengths[c]
    <3>1. Len(rest) \in Nat
      BY <2>3, LenProperties
    <3>2. Lengths'[b] = Len(rest) /\ Lengths[b] = Len(rest) + 1 /\ Lengths[b] \in 0..M
      BY <2>2, <2>3, <2>4, <2>5, <3>1
    <3> QED
      BY <1>0, <2>4, <2>5, <3>1, <3>2
  <2>7. Lengths' \in [SubId -> 0..M]
    <3>1. Lengths' = [c \in SubId |-> Lengths'[c]]
      BY DEF Lengths
    <3>2. \A c \in SubId : Lengths'[c] \in 0..M
      BY <2>5, <2>6
    <3> QED
      BY <3>1, <3>2
  <2>8. \A t \in Session : Owned(t) \in SUBSET SubId /\ Owned(t)' = Owned(t)
    BY <1>0, <1>1, <2>4, OwnedFacts, SameOwned
  <2>9. ASSUME NEW t \in Session
        PROVE  retransTotal'[t] = Cardinality(Places(Owned(t), Lengths'))
    <3>1. retransTotal[t] = Cardinality(Places(Owned(t), Lengths))
      BY DEF AccountInv
    <3>2. CASE t = s
      <4>1. Cardinality(Places(Owned(s), Lengths)) = Cardinality(Places(Owned(s), Lengths')) + 1
        BY <1>0, <2>2, <2>6, <2>7, <2>8, OneMore
      <4>2. Cardinality(Places(Owned(s), Lengths')) \in Nat
        BY <1>0, <2>7, <2>8, PlacesFinite
      <4>3. retransTotal'[s] = retransTotal[s] - 1
        BY <1>0, <2>1 DEF TypeOK
      <4> QED
        BY <3>1, <3>2, <4>1, <4>2, <4>3
    <3>3. CASE t # s
      <4>1. b \notin Owned(t)
        BY <1>0, <2>2, <3>3, OwnedFacts
      <4>2. \A c \in Owned(t) : Lengths'[c] = Lengths[c]
        BY <2>6, <2>8, <4>1
      <4>3. Places(Owned(t), Lengths') = Places(Owned(t), Lengths)
        BY <4>2, SamePlaces
      <4>4. retransTotal'[t] = retransTotal[t]
        BY <1>0, <2>1, <3>3 DEF TypeOK
      <4> QED
        BY <3>1, <4>3, <4>4
    <3> QED
      BY <3>2, <3>3
  <2> QED
    BY <2>7, <2>8, <2>9, AccountStep
<1> QED
    BY <1>2, <1>3

\* A subscription that is not there has no messages and belongs to nobody after the
\* step: what the other ones hold stays as it is.
LEMMA OthersKept ==
    ASSUME TypeOK, AccountInv, NEW b \in SubId, sub' \in [SubId -> SubRecord],
           sub'[b].retrans = <<>>, \A c \in SubId \ {b} : sub'[c] = sub[c]
    PROVE  /\ Lengths' \in [SubId -> 0..SubRetransLimit]
           /\ Lengths'[b] = 0
           /\ \A S : b \notin S /\ S \subseteq SubId => Places(S, Lengths') = Places(S, Lengths)
<1>1. Lengths' = [c \in SubId |-> Len(sub'[c].retrans)]
    BY DEF Lengths
<1>2. Len(<<>>) = 0
    OBVIOUS
<1>3. Lengths'[b] = 0
    BY <1>1, <1>2
<1>4. \A c \in SubId \ {b} : Lengths'[c] = Lengths[c] /\ Lengths[c] \in 0..SubRetransLimit
    BY <1>1 DEF Lengths, AccountInv
<1>5. ASSUME NEW S, b \notin S, S \subseteq SubId
      PROVE  Places(S, Lengths') = Places(S, Lengths)
  <2>1. \A c \in S : Lengths'[c] = Lengths[c]
    BY <1>4, <1>5
  <2> QED
    BY <2>1, SamePlaces
<1>6. \A c \in SubId : Lengths'[c] \in 0..SubRetransLimit
    BY <1>3, <1>4, BoundAssumption
<1> QED
    BY <1>1, <1>3, <1>5, <1>6

\* A new subscription adds nothing.
LEMMA CreateAccount ==
    ASSUME IInv, AccountInv, NEW s \in Session, NEW q \in Settings,
           NEW enabled \in PublishingModes, CreateSubscription(s, q, enabled)
    PROVE  AccountInv'
<1> DEFINE b == lastSubId + 1
           new == NewSub(s, Revised(q), enabled)
           M == SubRetransLimit
<1>0. TypeOK /\ M \in Nat
    BY BoundAssumption DEF IInv
<1>1. /\ lastSubId < MaxSubId
      /\ sub' = [sub EXCEPT ![b] = new]
      /\ live' = live \cup {b}
      /\ retransTotal' = retransTotal
    BY Zenon DEF CreateSubscription
<1>2. b \in SubId /\ b \notin live
    BY <1>0, <1>1, BoundAssumption DEF IInv, TypeOK, SubId, StepsWellFounded
<1>3. new \in SubRecord /\ new.session = s /\ new.retrans = <<>>
    BY RevisedType, NewSubType, ModesAssumption DEF NewSub
<1> HIDE DEF b, new
<1>4. sub' \in [SubId -> SubRecord] /\ sub'[b] = new /\ \A c \in SubId \ {b} : sub'[c] = sub[c]
    BY <1>0, <1>1, <1>2, <1>3 DEF TypeOK
<1>5. /\ Lengths' \in [SubId -> 0..M]
      /\ Lengths'[b] = 0
      /\ \A S : b \notin S /\ S \subseteq SubId => Places(S, Lengths') = Places(S, Lengths)
    BY <1>0, <1>2, <1>3, <1>4, OthersKept
<1>6. ASSUME NEW t \in Session
      PROVE  retransTotal'[t] = Cardinality(Places(Owned(t)', Lengths'))
  <2>1. Owned(t) \in SUBSET SubId /\ b \notin Owned(t)
    BY <1>0, <1>2, OwnedFacts DEF Owned
  <2>2. retransTotal'[t] = Cardinality(Places(Owned(t), Lengths'))
    BY <1>1, <1>5, <2>1 DEF AccountInv
  <2>3. CASE t # s
    <3>1. Owned(t)' = Owned(t)
      BY <1>0, <1>1, <1>2, <1>3, <1>4, <2>3 DEF Owned, TypeOK
    <3> QED
      BY <2>2, <3>1
  <2>4. CASE t = s
    <3>1. PICK S : S = Owned(t) \cup {b}
      OBVIOUS
    <3>2. Owned(t)' = S
      <4>1. \A c : c \in Owned(t)' <=> c \in Owned(t) \/ c = b
        BY <1>0, <1>1, <1>2, <1>3, <1>4, <2>4 DEF Owned, TypeOK
      <4> QED
        BY <3>1, <4>1, Zenon
    <3>3. S \in SUBSET SubId /\ b \in S /\ S \ {b} = Owned(t)
      BY <1>2, <2>1, <3>1
    <3>4. Cardinality(Places(S \ {b}, Lengths')) = Cardinality(Places(S, Lengths')) - Lengths'[b]
      BY <1>0, <1>5, <3>3, WithoutOne
    <3>5. Cardinality(Places(S, Lengths')) \in Nat
      BY <1>0, <1>5, <3>3, PlacesFinite
    <3> QED
      BY <1>5, <2>2, <3>2, <3>3, <3>4, <3>5
  <2> QED
    BY <2>3, <2>4
<1> QED
    BY <1>5, <1>6, AccountStep

\* A deleted subscription takes its messages out of the count of its session.
LEMMA DeleteAccount ==
    ASSUME IInv, AccountInv, NEW b \in SubId, b \in live, DeleteSub(b)
    PROVE  AccountInv'
<1> DEFINE s == sub[b].session
           M == SubRetransLimit
<1>0. TypeOK /\ M \in Nat /\ Lengths \in [SubId -> 0..M]
    BY BoundAssumption DEF IInv, AccountInv
<1>1. live' = live \ {b} /\ sub' = [sub EXCEPT ![b] = Blank]
    BY Zenon DEF DeleteSub
<1>2. Blank \in SubRecord /\ Blank.session = NoSession /\ Blank.retrans = <<>>
    BY NewSubType DEF Blank, NewSub
<1>3. sub' \in [SubId -> SubRecord] /\ sub'[b] = Blank /\ \A c \in SubId \ {b} : sub'[c] = sub[c]
    BY <1>0, <1>1, <1>2 DEF TypeOK
<1>4. /\ Lengths' \in [SubId -> 0..M]
      /\ \A S : b \notin S /\ S \subseteq SubId => Places(S, Lengths') = Places(S, Lengths)
    BY <1>0, <1>2, <1>3, OthersKept
<1>5. ASSUME NEW t \in Session
      PROVE  retransTotal'[t] = Cardinality(Places(Owned(t)', Lengths'))
  <2>1. Owned(t) \in SUBSET SubId /\ (b \in Owned(t) <=> s = t)
    BY <1>0, OwnedFacts
  <2>2. Owned(t)' = Owned(t) \ {b}
    <3>1. \A c : c \in Owned(t)' <=> c \in Owned(t) /\ c # b
      BY <1>0, <1>1, <1>3 DEF Owned, TypeOK
    <3> QED
      BY <3>1
  <2>3. Places(Owned(t)', Lengths') = Places(Owned(t) \ {b}, Lengths)
    BY <1>4, <2>1, <2>2
  <2>4. retransTotal[t] = Cardinality(Places(Owned(t), Lengths))
    BY DEF AccountInv
  <2>5. CASE s = t
    <3>1. retransTotal' = [retransTotal EXCEPT ![s] = @ - Len(sub[b].retrans)]
      BY <2>5, SessionAssumption, Zenon DEF DeleteSub
    <3>2. retransTotal'[t] = retransTotal[t] - Lengths[b]
      BY <1>0, <2>5, <3>1 DEF TypeOK, Lengths
    <3>3. Cardinality(Places(Owned(t) \ {b}, Lengths)) = Cardinality(Places(Owned(t), Lengths)) - Lengths[b]
      BY <1>0, <2>1, <2>5, WithoutOne
    <3> QED
      BY <2>3, <2>4, <3>2, <3>3
  <2>6. CASE s # t
    <3>1. Owned(t) \ {b} = Owned(t)
      BY <2>1, <2>6
    <3>2. retransTotal'[t] = retransTotal[t]
      <4>1. CASE s = NoSession
        BY <4>1, Zenon DEF DeleteSub
      <4>2. CASE s # NoSession
        <5>1. retransTotal' = [retransTotal EXCEPT ![s] = @ - Len(sub[b].retrans)]
          BY <4>2, Zenon DEF DeleteSub
        <5> QED
          BY <1>0, <2>6, <5>1 DEF TypeOK
      <4> QED
        BY <4>1, <4>2
    <3> QED
      BY <2>3, <2>4, <3>1, <3>2
  <2> QED
    BY <2>5, <2>6
<1> QED
    BY <1>4, <1>5, AccountStep

\* A transfer moves the messages of the subscription from one count to the other.
LEMMA TransferAccount ==
    ASSUME IInv, AccountInv, NEW s \in Session, NEW b \in SubId, NEW n \in 0..1,
           TransferSubscription(s, b, n)
    PROVE  AccountInv'
<1> DEFINE old == sub[b].session
           k == sub[b].queued + n
           M == SubRetransLimit
<1>0. TypeOK /\ M \in Nat /\ Lengths \in [SubId -> 0..M]
    BY BoundAssumption DEF IInv, AccountInv
<1>1. /\ b \in live
      /\ old # s
      /\ sub' = [sub EXCEPT ![b].session = s, ![b].queued = k]
      /\ retransTotal' = [t \in Session |->
             IF t = s THEN retransTotal[t] + Len(sub[b].retrans)
             ELSE IF t = old THEN retransTotal[t] - Len(sub[b].retrans) ELSE retransTotal[t]]
      /\ live' = live
    BY Zenon DEF TransferSubscription
<1>2. sub \in [SubId -> SubRecord] /\ sub[b] \in SubRecord
    BY <1>0 DEF TypeOK
<1>3. sub' = [sub EXCEPT ![b] = [[sub[b] EXCEPT !.session = s] EXCEPT !.queued = k]]
    BY <1>1, <1>2
<1> HIDE DEF k
<1>4. /\ [[sub[b] EXCEPT !.session = s] EXCEPT !.queued = k].session = s
      /\ [[sub[b] EXCEPT !.session = s] EXCEPT !.queued = k].retrans = sub[b].retrans
    BY <1>2 DEF SubRecord
<1>5. /\ sub'[b].session = s
      /\ \A c \in SubId \ {b} : sub'[c] = sub[c]
      /\ \A c \in SubId : sub'[c].retrans = sub[c].retrans
    BY <1>2, <1>3, <1>4
<1>6. Lengths' = Lengths
    BY <1>5 DEF Lengths
<1>7. Lengths[b] \in Nat /\ Lengths[b] = Len(sub[b].retrans)
    BY <1>0 DEF Lengths
<1>8. ASSUME NEW t \in Session
      PROVE  retransTotal'[t] = Cardinality(Places(Owned(t)', Lengths'))
  <2>1. Owned(t) \in SUBSET SubId /\ (b \in Owned(t) <=> old = t)
    BY <1>0, <1>1, OwnedFacts
  <2>2. \A c : c \in Owned(t)' <=> (c \in Owned(t) /\ c # b) \/ (c = b /\ t = s)
    BY <1>0, <1>1, <1>5 DEF Owned, TypeOK
  <2>3. retransTotal[t] = Cardinality(Places(Owned(t), Lengths)) /\ retransTotal[t] \in Int
    BY <1>0 DEF AccountInv, TypeOK
  <2>4. CASE t = s
    <3>1. PICK S : S = Owned(t) \cup {b}
      OBVIOUS
    <3>2. Owned(t)' = S
      BY <2>2, <2>4, <3>1
    <3>3. S \in SUBSET SubId /\ b \in S /\ S \ {b} = Owned(t)
      BY <1>1, <2>1, <2>4, <3>1
    <3>4. Cardinality(Places(S \ {b}, Lengths)) = Cardinality(Places(S, Lengths)) - Lengths[b]
      BY <1>0, <3>3, WithoutOne
    <3>5. Cardinality(Places(S, Lengths)) \in Nat
      BY <1>0, <3>3, PlacesFinite
    <3>6. retransTotal'[t] = retransTotal[t] + Lengths[b]
      BY <1>1, <1>7, <2>4
    <3>7. retransTotal'[t] = Cardinality(Places(S, Lengths))
      <4>1. Cardinality(Places(Owned(t), Lengths)) = Cardinality(Places(S, Lengths)) - Lengths[b]
        BY <3>3, <3>4, Zenon
      <4>2. retransTotal[t] = Cardinality(Places(S, Lengths)) - Lengths[b]
        BY <2>3, <4>1
      <4> QED
        BY <1>7, <3>5, <3>6, <4>2
    <3> QED
      BY <1>6, <3>2, <3>7
  <2>5. CASE t # s /\ t = old
    <3>1. Owned(t)' = Owned(t) \ {b}
      BY <2>2, <2>5
    <3>2. Cardinality(Places(Owned(t) \ {b}, Lengths)) = Cardinality(Places(Owned(t), Lengths)) - Lengths[b]
      BY <1>0, <2>1, <2>5, WithoutOne
    <3>3. retransTotal'[t] = retransTotal[t] - Lengths[b]
      BY <1>1, <1>7, <2>5
    <3> QED
      BY <1>6, <2>3, <3>1, <3>2, <3>3
  <2>6. CASE t # s /\ t # old
    <3>1. Owned(t)' = Owned(t)
      BY <2>1, <2>2, <2>6
    <3>2. retransTotal'[t] = retransTotal[t]
      BY <1>1, <2>6
    <3> QED
      BY <1>6, <2>3, <3>1, <3>2
  <2> QED
    BY <2>4, <2>5, <2>6
<1>9. Lengths' \in [SubId -> 0..M]
    BY <1>0, <1>6
<1> QED
    BY <1>8, <1>9, AccountStep

\* With a session its count ends, whether its subscriptions go or live on.
LEMMA RemoveSessionAccount ==
    ASSUME IInv, AccountInv, NEW s \in Session, NEW kept, kept \subseteq ToSet(subscriptions[s]),
           RemoveSession(s, kept)
    PROVE  AccountInv'
<1> DEFINE gone == ToSet(subscriptions[s]) \ kept
           M == SubRetransLimit
<1>0. TypeOK /\ M \in Nat /\ Lengths \in [SubId -> 0..M]
    BY BoundAssumption DEF IInv, AccountInv
<1>1. /\ retransTotal' = [retransTotal EXCEPT ![s] = 0]
      /\ live' = live \ gone
      /\ sub' = [b \in SubId |-> IF b \in gone THEN Blank
                                 ELSE IF b \in kept THEN [sub[b] EXCEPT !.session = NoSession]
                                 ELSE sub[b]]
    BY DEF RemoveSession
<1>2. ToSet(subscriptions[s]) = Owned(s)
    BY DEF IInv, StepsWellFounded
<1>3. \A b : b \in gone \cup kept <=> b \in Owned(s)
    BY <1>2
<1> HIDE DEF gone
<1>4. /\ \A b \in SubId : [sub[b] EXCEPT !.session = NoSession].session = NoSession
      /\ \A b \in SubId : [sub[b] EXCEPT !.session = NoSession].retrans = sub[b].retrans
      /\ Blank.session = NoSession /\ Blank.retrans = <<>>
  <2>1. \A b \in SubId : sub[b] \in SubRecord
    BY <1>0 DEF TypeOK
  <2>2. \A r \in SubRecord : /\ [r EXCEPT !.session = NoSession].session = NoSession
                             /\ [r EXCEPT !.session = NoSession].retrans = r.retrans
    BY DEF SubRecord
  <2>3. Blank.session = NoSession /\ Blank.retrans = <<>>
    BY NewSubType DEF Blank, NewSub
  <2> QED
    BY <2>1, <2>2, <2>3
<1>5. \A b \in SubId : /\ sub'[b].session = IF b \in Owned(s) THEN NoSession ELSE sub[b].session
                       /\ sub'[b].retrans = sub[b].retrans \/ sub'[b].retrans = <<>>
                       /\ b \notin Owned(s) => sub'[b] = sub[b]
    BY <1>1, <1>3, <1>4
<1>6. Lengths' = [c \in SubId |-> Len(sub'[c].retrans)]
    BY DEF Lengths
<1>7. Lengths' \in [SubId -> 0..M]
  <2>1. ASSUME NEW c \in SubId PROVE Len(sub'[c].retrans) \in 0..M
    <3>1. Len(<<>>) = 0
      OBVIOUS
    <3>2. Len(sub[c].retrans) \in 0..M
      BY <1>0 DEF Lengths
    <3> QED
      BY <1>0, <1>5, <3>1, <3>2
  <2> QED
    BY <1>6, <2>1
<1>8. ASSUME NEW t \in Session
      PROVE  retransTotal'[t] = Cardinality(Places(Owned(t)', Lengths'))
  <2>1. \A c : c \in Owned(t)' <=> c \in Owned(t) /\ t # s
    BY <1>0, <1>1, <1>3, <1>5, SessionAssumption DEF Owned, TypeOK
  <2>2. CASE t = s
    <3>1. Owned(t)' = {}
      BY <2>1, <2>2, Zenon
    <3>2. Cardinality(Places({}, Lengths')) = 0
      BY NoPlaces
    <3>3. retransTotal'[t] = 0
      BY <1>0, <1>1, <2>2 DEF TypeOK
    <3> QED
      BY <3>1, <3>2, <3>3
  <2>3. CASE t # s
    <3>1. Owned(t)' = Owned(t)
      BY <2>1, <2>3
    <3>2. \A c \in Owned(t) : c \in SubId /\ c \notin Owned(s)
      BY <1>0, <2>3, OwnedFacts
    <3>3. \A c \in Owned(t) : Lengths'[c] = Lengths[c]
      BY <1>5, <1>6, <3>2 DEF Lengths
    <3>4. Places(Owned(t), Lengths') = Places(Owned(t), Lengths)
      BY <3>3, SamePlaces
    <3>5. retransTotal'[t] = retransTotal[t]
      BY <1>0, <1>1, <2>3 DEF TypeOK
    <3> QED
      BY <3>1, <3>4, <3>5 DEF AccountInv
  <2> QED
    BY <2>2, <2>3
<1> QED
    BY <1>7, <1>8, AccountStep

-----------------------------------------------------------------------------
(* The accounting invariant.                                               *)

\* The steps of sessions that have subscriptions do not touch them.
LEMMA SessionAccount ==
    ASSUME NEW s \in Session,
           \/ OpenSession(s)
           \/ ActivateSession(s)
           \/ RemoveSecureChannel(s)
           \/ SecureChannelClose(s)
    PROVE  UNCHANGED <<live, retransTotal, sub, produced>>
BY Zenon DEF OpenSession, ActivateSession, RemoveSecureChannel, SecureChannelClose,
             serverVars, envVars

\* Every step keeps the books.
LEMMA AccountNext == IInv /\ AccountInv /\ [Next]_vars => AccountInv'
<1> SUFFICES ASSUME IInv, AccountInv, [Next]_vars PROVE AccountInv'
    OBVIOUS
<1>0. TypeOK
    BY DEF IInv
<1>1. ASSUME UNCHANGED <<live, retransTotal, sub>>
      PROVE  AccountInv'
    BY <1>0, <1>1, SameAccount
<1>2. ASSUME NEW s \in Session,
             \/ OpenSession(s)
             \/ ActivateSession(s)
             \/ RemoveSecureChannel(s)
             \/ SecureChannelClose(s)
      PROVE  AccountInv'
    BY <1>1, <1>2, SessionAccount
<1>3. ASSUME NEW s \in Session,
             SessionTimeout(s) \/ \E delete \in BOOLEAN : CloseSession(s, delete)
      PROVE  AccountInv'
  <2>1. \E kept : kept \subseteq ToSet(subscriptions[s]) /\ RemoveSession(s, kept)
    BY <1>3 DEF SessionTimeout, CloseSession
  <2> QED
    BY <2>1, RemoveSessionAccount
<1>4. ASSUME NEW s \in Session, NEW q \in Settings, NEW enabled \in PublishingModes,
             CreateSubscription(s, q, enabled)
      PROVE  AccountInv'
    BY <1>4, CreateAccount
<1>5. ASSUME NEW s \in Session, NEW r \in Request, NEW b \in SubId \cup {NoSub},
             NEW n \in SeqNo, Publish(s, r, b, n)
      PROVE  AccountInv'
    BY <1>5, PublishAccount
<1>6. ASSUME NEW b \in SubId,
             \/ LateSkip(b) \/ PublishStop(b)
             \/ LateServe(b) /\ Quiet(b)
             \/ \E s \in Session :
                   \/ Republish(s, b)
                   \/ \E enabled \in PublishingModes : SetPublishingMode(s, b, enabled)
                   \/ \E q \in Settings : ModifySubscription(s, b, q)
      PROVE  AccountInv'
  <2>1. live' = live /\ retransTotal' = retransTotal
    BY <1>6, QuietSteps
  <2>2. \A c \in SubId : sub'[c].session = sub[c].session /\ sub'[c].retrans = sub[c].retrans
    BY <1>0, <1>6, QuietSteps, QueueKept
  <2> QED
    BY <1>0, <2>1, <2>2, SameAccount
<1>7. ASSUME NEW s \in Session, NEW b \in SubId, DeleteSubscription(s, b)
      PROVE  AccountInv'
    BY <1>7, DeleteAccount DEF DeleteSubscription, Owns
<1>8. ASSUME NEW s \in Session, NEW b \in SubId, NEW n \in 0..1, TransferSubscription(s, b, n)
      PROVE  AccountInv'
    BY <1>8, TransferAccount
<1>9. ASSUME NEW b \in SubId, PublishLoop(b)
      PROVE  AccountInv'
  <2>1. CASE PublishExpire(b)
    BY <2>1, DeleteAccount DEF PublishExpire, Expire, IInv, StepsWellFounded
  <2>2. CASE PublishStop(b)
    BY <1>6, <2>2
  <2>3. CASE PublishSend(b)
    BY <2>3, SendAccount DEF PublishSend, serverVars, IInv, StepsWellFounded
  <2> QED
    BY <1>9, <2>1, <2>2, <2>3 DEF PublishLoop
<1>10. ASSUME NEW b \in SubId, LateLoop(b)
       PROVE  AccountInv'
  <2>1. CASE LateSkip(b) \/ (LateServe(b) /\ Quiet(b))
    BY <1>6, <2>1
  <2>2. CASE LateServe(b) /\ Send(b)
    <3>1. Searching(b) /\ live' = live
      BY <2>2 DEF LateServe, serverVars
    <3> QED
      BY <2>2, <3>1, SearchFacts, SendAccount
  <2> QED
    BY <1>10, <2>1, <2>2 DEF LateLoop, LateServe
<1>11. CASE Tick
    BY <1>1, <1>11, Zenon DEF Tick, serverVars
<1>12. ASSUME NEW b \in SubId, Notify(b) \/ Discard(b) \/ PublishCallback(b)
       PROVE  AccountInv'
    BY <1>0, <1>12, NotifySteps, SameAccount
<1>13. CASE UNCHANGED vars
    BY <1>1, <1>13 DEF vars
<1> QED
  <2>1. CASE ServiceNext
    BY <2>1, <1>2, <1>3, <1>4, <1>5, <1>6, <1>7, <1>8, Zenon DEF ServiceNext
  <2>2. CASE ServerNext
    BY <2>2, <1>9, <1>10, <1>11, <1>12, Zenon DEF ServerNext
  <2> QED
    BY <1>13, <2>1, <2>2 DEF Next

\* At the start no session has messages.
LEMMA InitAccount == Init => AccountInv
<1> SUFFICES ASSUME Init PROVE AccountInv
    OBVIOUS
<1>1. \A c \in SubId : sub[c].retrans = <<>>
    BY DEF Init, Blank, NewSub
<1>2. Len(<<>>) = 0
    OBVIOUS
<1>3. Lengths = [c \in SubId |-> 0]
    BY <1>1, <1>2 DEF Lengths
<1>4. Lengths \in [SubId -> 0..SubRetransLimit]
    BY <1>3, BoundAssumption
<1>5. ASSUME NEW s \in Session PROVE retransTotal[s] = Cardinality(Places(Owned(s), Lengths))
  <2>1. Owned(s) = {}
    BY DEF Init, Owned
  <2>2. Cardinality(Places({}, Lengths)) = 0
    BY NoPlaces
  <2> QED
    BY <2>1, <2>2 DEF Init
<1> QED
    BY <1>4, <1>5 DEF AccountInv

\* totalRetransmissionQueueSize counts the messages that the subscriptions of the
\* session hold, after every step that sends, evicts, acknowledges, attaches, detaches,
\* deletes or transfers, and no queue outgrows its limit.
THEOREM RetransmissionsCounted == Spec => []RetransmissionAccounting
<1>1. IInv /\ AccountInv => RetransmissionAccounting
  <2> SUFFICES ASSUME IInv, AccountInv PROVE RetransmissionAccounting
    OBVIOUS
  <2>1. /\ \A c \in SubId : Lengths[c] = Len(sub[c].retrans) /\ Lengths[c] \in Nat
        /\ \A s \in Session : Held(s) = Places(Owned(s), Lengths)
    BY HeldPlaces DEF IInv
  <2>2. \A c \in SubId : Lengths[c] \in 0..SubRetransLimit
    BY DEF AccountInv
  <2> QED
    BY <2>1, <2>2, BoundAssumption DEF AccountInv, RetransmissionAccounting
<1>2. Spec => []IInv
    BY Structure
<1> QED
    BY <1>1, <1>2, InitAccount, AccountNext, PTL DEF Spec

-----------------------------------------------------------------------------
(* The numbers of the messages in a queue.                                 *)

Sorted(q) == \A i, j \in 1..Len(q) : i < j => q[i].seqNo < q[j].seqNo

Below(q, x) == \A i \in 1..Len(q) : q[i].seqNo < x

\* A queue q of a subscription with next number x and k notifications to send, when p
\* notifications have been produced: a number is used for at least one notification,
\* so the numbers only start again when all notifications have been sent.
Numbered(q, x, k, p) ==
    /\ Sorted(q)
    /\ \/ x - 1 + k <= p /\ Below(q, x)
       \/ x = 1 /\ k = 0 /\ MaxSeqNo <= p

NumberedSub(c) == Numbered(sub[c].retrans, sub[c].nextSeqNo, sub[c].queued, produced)

NumberInv == produced <= MaxSeqNo => \A c \in SubId : NumberedSub(c)

\* The queue w has messages of q in the order of q.
Thinner(w, q) == (Sorted(q) => Sorted(w)) /\ \A x : Below(q, x) => Below(w, x)

\* Without one message a queue is still in order.
LEMMA OneLess ==
    ASSUME NEW q \in Seq(Entries), NEW w, NEW i \in Nat, Len(q) > 0, Len(w) = Len(q) - 1,
           \A j \in 1..Len(q) - 1 : w[j] = IF j < i THEN q[j] ELSE q[j + 1]
    PROVE  Thinner(w, q)
<1>1. Len(q) \in Nat /\ Len(w) \in Nat
    BY LenProperties
<1>2. ASSUME NEW j \in 1..Len(w)
      PROVE  \E a \in 1..Len(q) : w[j] = q[a] /\ a \in {j, j + 1} /\ (a = j <=> j < i)
    BY <1>1
<1>3. ASSUME Sorted(q), NEW j \in 1..Len(w), NEW k \in 1..Len(w), j < k
      PROVE  w[j].seqNo < w[k].seqNo
  <2>1. PICK a \in 1..Len(q) : w[j] = q[a] /\ a \in {j, j + 1} /\ (a = j <=> j < i)
    BY <1>2
  <2>2. PICK b \in 1..Len(q) : w[k] = q[b] /\ b \in {k, k + 1} /\ (b = k <=> k < i)
    BY <1>2
  <2>3. a < b
    BY <1>1, <1>3, <2>1, <2>2
  <2>4. q[a].seqNo < q[b].seqNo
    BY <1>3, <2>3 DEF Sorted
  <2> QED
    BY <2>1, <2>2, <2>4
<1>4. ASSUME NEW x, Below(q, x), NEW j \in 1..Len(w)
      PROVE  w[j].seqNo < x
  <2>1. PICK a \in 1..Len(q) : w[j] = q[a]
    BY <1>2
  <2>2. q[a].seqNo < x
    BY <1>4 DEF Below
  <2> QED
    BY <2>1, <2>2
<1>5. Sorted(q) => Sorted(w)
    BY <1>3 DEF Sorted
<1>6. \A x : Below(q, x) => Below(w, x)
    BY <1>4 DEF Below
<1> QED
    BY <1>5, <1>6 DEF Thinner

\* An acknowledged or evicted message leaves the others in order.
LEMMA ThinnerFacts ==
    ASSUME NEW q \in Seq(Entries)
    PROVE  /\ Thinner(q, q)
           /\ \A i \in 1..Len(q) : Thinner(RemoveAt(q, i), q)
           /\ q # <<>> => Thinner(DropLast(q), q)
<1>1. Len(q) \in Nat
    BY LenProperties
<1>2. ASSUME NEW i \in 1..Len(q) PROVE Thinner(RemoveAt(q, i), q)
  <2>1. /\ Len(RemoveAt(q, i)) = Len(q) - 1
        /\ \A j \in 1..Len(q) - 1 : RemoveAt(q, i)[j] = IF j < i THEN q[j] ELSE q[j + 1]
    BY RemoveAtFacts
  <2>2. Len(q) > 0 /\ i \in Nat
    BY <1>1
  <2> QED
    BY <2>1, <2>2, OneLess
<1>3. ASSUME q # <<>> PROVE Thinner(DropLast(q), q)
  <2>1. Len(q) > 0 /\ Len(DropLast(q)) = Len(q) - 1
    BY <1>1, <1>3, EmptySeq, DropLastFacts
  <2>2. \A j \in 1..Len(q) - 1 : DropLast(q)[j] = q[j]
    <3>1. \A j \in 1..Len(q) - 1 : q[j] \in Entries
      BY <1>1, ElementOfSeq
    <3> QED
      BY <1>1, <2>1, <3>1 DEF DropLast
  <2>3. \A j \in 1..Len(q) - 1 : DropLast(q)[j] = IF j < Len(q) THEN q[j] ELSE q[j + 1]
    BY <1>1, <2>2
  <2> QED
    BY <1>1, <2>1, <2>3, OneLess
<1>4. Thinner(q, q)
    BY DEF Thinner
<1> QED
    BY <1>2, <1>3, <1>4

\* A message with the next number comes last.
LEMMA AppendOrder ==
    ASSUME NEW q \in Seq(Entries), NEW e \in Entries, Sorted(q), Below(q, e.seqNo)
    PROVE  Sorted(Append(q, e)) /\ Below(Append(q, e), e.seqNo + 1)
<1> DEFINE w == Append(q, e)
           n == Len(q)
<1>1. /\ n \in Nat
      /\ Len(w) = n + 1
      /\ w[n + 1] = e
      /\ \A i \in 1..n : w[i] = q[i]
    BY AppendProperties, LenProperties
<1>2. \A i \in 1..n : q[i] \in Entries
    BY ElementOfSeq, <1>1
<1>3. e.seqNo \in Nat /\ \A i \in 1..n : q[i].seqNo \in Nat
    BY <1>2, BoundAssumption DEF Entries, SeqNo
<1> HIDE DEF w
<1>4. ASSUME NEW i \in 1..n PROVE w[i].seqNo < e.seqNo /\ w[i].seqNo < e.seqNo + 1
    BY <1>1, <1>3 DEF Below
<1>5. w[n + 1].seqNo < e.seqNo + 1
    BY <1>1, <1>3
<1>6. \A i \in 1..n + 1 : i \in 1..n \/ i = n + 1
    BY <1>1
<1>7. Below(w, e.seqNo + 1)
    BY <1>1, <1>4, <1>5, <1>6 DEF Below
<1>8. ASSUME NEW i \in 1..Len(w), NEW j \in 1..Len(w), i < j
      PROVE  w[i].seqNo < w[j].seqNo
  <2>1. i \in 1..n
    BY <1>1, <1>8
  <2>2. CASE j = n + 1
    BY <1>1, <1>4, <2>1, <2>2
  <2>3. CASE j \in 1..n
    <3>1. q[i].seqNo < q[j].seqNo
      BY <1>8, <2>1, <2>3 DEF Sorted
    <3> QED
      BY <1>1, <2>1, <2>3, <3>1
  <2> QED
    BY <1>1, <1>6, <2>2, <2>3
<1> QED
    BY <1>7, <1>8 DEF Sorted, w

\* What most steps do to a subscription: its number stays, no notification comes from
\* nowhere, its queue at most loses messages; or the subscription is blank or new.
Continues(c) ==
    \/ /\ sub'[c].nextSeqNo = sub[c].nextSeqNo
       /\ sub'[c].queued <= sub[c].queued + (produced' - produced)
       /\ Thinner(sub'[c].retrans, sub[c].retrans)
    \/ sub'[c].nextSeqNo = 1 /\ sub'[c].queued = 0 /\ sub'[c].retrans = <<>>

\* Such a step keeps the numbers of the subscription in order.
LEMMA StillNumbered ==
    ASSUME TypeOK, TypeOK', NEW c \in SubId, Continues(c), produced <= produced',
           produced' <= MaxSeqNo, NumberedSub(c)
    PROVE  NumberedSub(c)'
<1>1. /\ sub[c].nextSeqNo \in SeqNo /\ sub[c].queued \in Nat
      /\ produced \in Nat /\ produced' \in Nat
    BY SubFields, BoundAssumption DEF TypeOK
<1>2. sub'[c].nextSeqNo \in SeqNo /\ sub'[c].queued \in Nat
    BY DEF TypeOK, SubRecord
<1>3. MaxSeqNo \in Nat /\ \A x \in SeqNo : x \in Nat /\ x >= 1
    BY BoundAssumption DEF SeqNo
<1>4. NumberedSub(c)' <=> Numbered(sub'[c].retrans, sub'[c].nextSeqNo, sub'[c].queued, produced')
    BY DEF NumberedSub, Numbered
<1>5. CASE /\ sub'[c].nextSeqNo = sub[c].nextSeqNo
           /\ sub'[c].queued <= sub[c].queued + (produced' - produced)
           /\ Thinner(sub'[c].retrans, sub[c].retrans)
  <2>1. Sorted(sub'[c].retrans)
    BY <1>5 DEF NumberedSub, Numbered, Thinner
  <2>2. CASE /\ sub[c].nextSeqNo - 1 + sub[c].queued <= produced
             /\ Below(sub[c].retrans, sub[c].nextSeqNo)
    <3>1. Below(sub'[c].retrans, sub'[c].nextSeqNo)
      BY <1>5, <2>2 DEF Thinner
    <3>2. sub'[c].nextSeqNo - 1 + sub'[c].queued <= produced'
      BY <1>1, <1>2, <1>3, <1>5, <2>2
    <3> QED
      BY <1>4, <2>1, <3>1, <3>2 DEF Numbered
  <2>3. CASE sub[c].nextSeqNo = 1 /\ sub[c].queued = 0 /\ MaxSeqNo <= produced
    <3>1. sub'[c].nextSeqNo = 1 /\ sub'[c].queued = 0 /\ MaxSeqNo <= produced'
      BY <1>1, <1>2, <1>3, <1>5, <2>3
    <3> QED
      BY <1>4, <2>1, <3>1 DEF Numbered
  <2> QED
    BY <2>2, <2>3 DEF NumberedSub, Numbered
<1>6. CASE sub'[c].nextSeqNo = 1 /\ sub'[c].queued = 0 /\ sub'[c].retrans = <<>>
  <2>1. Len(<<>>) = 0
    OBVIOUS
  <2>2. \A i : i \notin 1..0
    OBVIOUS
  <2>3. Sorted(<<>>) /\ Below(<<>>, 1)
    BY <2>1, <2>2 DEF Sorted, Below
  <2>4. 1 - 1 + 0 <= produced'
    BY <1>1
  <2> QED
    BY <1>4, <1>6, <2>3, <2>4 DEF Numbered
<1> QED
    BY <1>5, <1>6 DEF Continues

\* A step after which all subscriptions continue keeps all numbers in order.
LEMMA NumberStep ==
    ASSUME TypeOK, TypeOK', NumberInv, produced <= produced',
           \A c \in SubId : Continues(c)
    PROVE  NumberInv'
<1>1. produced \in Nat /\ produced' \in Nat /\ MaxSeqNo \in Nat
    BY BoundAssumption DEF TypeOK
<1>2. ASSUME produced' <= MaxSeqNo, NEW c \in SubId PROVE NumberedSub(c)'
  <2>1. NumberedSub(c)
    BY <1>1, <1>2 DEF NumberInv
  <2> QED
    BY <1>2, <2>1, StillNumbered
<1> QED
    BY <1>2 DEF NumberInv

\* A subscription that a step leaves alone, or whose queue and number it leaves alone.
LEMMA ContinueFacts ==
    ASSUME TypeOK, NEW c \in SubId, produced' \in Int, produced <= produced',
           sub'[c].nextSeqNo = sub[c].nextSeqNo, sub'[c].queued = sub[c].queued
    PROVE  /\ sub'[c].retrans = sub[c].retrans => Continues(c)
           /\ Thinner(sub'[c].retrans, sub[c].retrans) => Continues(c)
<1>1. sub[c].queued \in Nat /\ sub[c].retrans \in Seq(Entries)
    BY SubFields DEF Entries
<1>a. produced \in Nat
    BY BoundAssumption DEF TypeOK
<1>2. sub'[c].queued <= sub[c].queued + (produced' - produced)
    BY <1>1, <1>a
<1>3. Thinner(sub[c].retrans, sub[c].retrans)
    BY <1>1, ThinnerFacts
<1> QED
    BY <1>2, <1>3 DEF Continues

\* A message takes the next number, the last of its queue; the other queues at most
\* lose one.
LEMMA SendNumbers ==
    ASSUME IInv, AccountInv, TypeOK', NumberInv, NEW b \in live, Send(b), produced' = produced
    PROVE  NumberInv'
<1> DEFINE s == sub[b].session
           n == Notifications(b)
           x == sub[b].nextSeqNo
           k == sub[b].queued
           stores == n > 0 /\ EnableRetransmission
           Kept(c, v) == IF c \in v THEN DropLast(sub[c].retrans) ELSE sub[c].retrans
<1>0. /\ TypeOK /\ b \in SubId
      /\ MaxSeqNo \in Nat \ {0} /\ produced \in Nat /\ produced' \in Int /\ produced <= produced'
    BY BoundAssumption DEF IInv, TypeOK
<1>1. s \in Session
    BY <1>0, SendFacts
<1>2. PICK victims : victims = RetransVictims(s, b)
    OBVIOUS
<1>3. /\ \A c \in SubId : sub'[c].retrans = IF stores THEN RetransAfter(c, b, victims, Entry(b))
                                            ELSE sub[c].retrans
      /\ \A c \in SubId \ {b} : /\ sub'[c].nextSeqNo = sub[c].nextSeqNo
                                /\ sub'[c].queued = sub[c].queued
      /\ sub'[b].nextSeqNo = IF n > 0 THEN NextSeqNo(x) ELSE x
      /\ sub'[b].queued = k - n
    BY <1>0, <1>2, SendQueues, Zenon
<1>4. \A c \in SubId : sub[c].retrans \in Seq(Entries)
    BY <1>0, SubFields DEF Entries
<1>5. \A c \in SubId : Kept(c, victims) \in Seq(Entries) /\ Thinner(Kept(c, victims), sub[c].retrans)
  <2> SUFFICES ASSUME NEW c \in SubId
               PROVE  Kept(c, victims) \in Seq(Entries) /\ Thinner(Kept(c, victims), sub[c].retrans)
    OBVIOUS
  <2>1. CASE c \in victims
    <3>1. Lengths[c] > 0
      <4>1. \/ victims = {}
            \/ \E v \in Owned(s) : victims = {v} /\ Lengths[v] > 0
        BY <1>1, <1>2, VictimCases
      <4> QED
        BY <2>1, <4>1
    <3>2. sub[c].retrans # <<>>
      BY <1>4, <3>1, EmptySeq, LenProperties DEF Lengths
    <3>3. Kept(c, victims) = DropLast(sub[c].retrans)
      BY <2>1
    <3> HIDE DEF Kept
    <3> QED
      BY <1>4, <3>2, <3>3, DropLastFacts, ThinnerFacts
  <2>2. CASE c \notin victims
    <3>1. Kept(c, victims) = sub[c].retrans
      BY <2>2
    <3> HIDE DEF Kept
    <3> QED
      BY <1>4, <3>1, ThinnerFacts
  <2> QED
    BY <2>1, <2>2
<1>6. \A c \in SubId : RetransAfter(c, b, victims, Entry(b)) =
                          IF c = b THEN Append(Kept(c, victims), Entry(b)) ELSE Kept(c, victims)
    BY DEF RetransAfter
<1>7. \A c \in SubId \ {b} : Continues(c)
  <2> SUFFICES ASSUME NEW c \in SubId \ {b} PROVE Continues(c)
    OBVIOUS
  <2> HIDE DEF Kept, stores, n, x, k
  <2>1. sub'[c].retrans = Kept(c, victims) \/ sub'[c].retrans = sub[c].retrans
    BY <1>3, <1>6
  <2> QED
    BY <1>0, <1>3, <1>5, <2>1, ContinueFacts
<1>8. x \in SeqNo /\ k \in Nat /\ n \in Nat /\ n <= k
    BY <1>0, SubFields, PublishCounters
<1>9. ASSUME produced <= MaxSeqNo PROVE NumberedSub(b)'
  <2>1. Numbered(sub[b].retrans, x, k, produced)
    BY <1>0, <1>9 DEF NumberInv, NumberedSub
  <2>2. NumberedSub(b)' <=> Numbered(sub'[b].retrans, sub'[b].nextSeqNo, sub'[b].queued, produced')
    BY DEF NumberedSub, Numbered
  <2>3. CASE n = 0
    <3>1. sub'[b].retrans = sub[b].retrans /\ sub'[b].nextSeqNo = x /\ sub'[b].queued = k
      <4> HIDE DEF Kept, x, k, n
      <4> QED
        BY <1>0, <1>3, <1>8, <2>3
    <3> QED
      BY <2>1, <2>2, <3>1
  <2>4. CASE n > 0
    <3>1. /\ x \in Nat /\ 1 <= x /\ x <= MaxSeqNo
      BY <1>0, <1>8 DEF SeqNo
    <3>2. x - 1 + k <= produced /\ Below(sub[b].retrans, x) /\ Sorted(sub[b].retrans)
      <4> HIDE DEF x, k, n
      <4> QED
        BY <1>8, <2>1, <2>4 DEF Numbered
    <3>3. Sorted(sub'[b].retrans) /\ Below(sub'[b].retrans, x + 1)
      <4>1. CASE stores
        <5>1. sub'[b].retrans = Append(Kept(b, victims), Entry(b))
          BY <1>0, <1>3, <1>6, <4>1, Zenon
        <5>2. Entry(b) \in Entries /\ Entry(b).seqNo = x
          BY <1>0, <1>8, BoundAssumption DEF Entry, Entries, TypeOK
        <5>3. PICK q : q = Kept(b, victims)
          OBVIOUS
        <5>4. q \in Seq(Entries) /\ Sorted(q) /\ Below(q, x)
          BY <1>0, <1>5, <3>2, <5>3 DEF Thinner
        <5> HIDE DEF Kept, x
        <5>5. Sorted(Append(q, Entry(b))) /\ Below(Append(q, Entry(b)), x + 1)
          BY <5>2, <5>4, AppendOrder
        <5> QED
          BY <5>1, <5>3, <5>5
      <4>2. CASE ~stores
        <5>1. sub'[b].retrans = sub[b].retrans
          BY <1>0, <1>3, <4>2, Zenon
        <5>2. \A i \in 1..Len(sub[b].retrans) : sub[b].retrans[i].seqNo \in Nat
          <6>1. \A i \in 1..Len(sub[b].retrans) : sub[b].retrans[i] \in Entries
            BY <1>0, <1>4, ElementOfSeq
          <6> QED
            BY <1>0, <6>1 DEF Entries, SeqNo
        <5>3. Below(sub[b].retrans, x + 1)
          <6> HIDE DEF x
          <6> QED
            BY <3>1, <3>2, <5>2 DEF Below
        <5> QED
          BY <3>2, <5>1, <5>3
      <4> QED
        BY <4>1, <4>2
    <3>4. sub'[b].nextSeqNo = NextSeqNo(x) /\ sub'[b].queued = k - n
      BY <1>3, <2>4, Zenon
    <3> HIDE DEF x, k, n, Kept, stores
    <3>5. CASE x = MaxSeqNo
      <4>1. sub'[b].nextSeqNo = 1 /\ sub'[b].queued = 0 /\ MaxSeqNo <= produced'
        BY <1>0, <1>8, <1>9, <2>4, <3>1, <3>2, <3>4, <3>5 DEF NextSeqNo
      <4> QED
        BY <2>2, <3>3, <4>1 DEF Numbered
    <3>6. CASE x # MaxSeqNo
      <4>1. PICK y : y = x + 1
        OBVIOUS
      <4>2. PICK z : z = k - n
        OBVIOUS
      <4>3. PICK q : q = sub'[b].retrans
        OBVIOUS
      <4>4. sub'[b].nextSeqNo = y /\ sub'[b].queued = z
        BY <3>4, <3>6, <4>1, <4>2 DEF NextSeqNo
      <4>5. y - 1 + z <= produced'
        BY <1>0, <1>8, <2>4, <3>1, <3>2, <4>1, <4>2
      <4>6. Sorted(q) /\ Below(q, y)
        BY <3>3, <4>1, <4>3
      <4>7. Numbered(q, y, z, produced')
        BY <4>5, <4>6 DEF Numbered
      <4> QED
        BY <2>2, <4>3, <4>4, <4>7
    <3> QED
      BY <3>5, <3>6
  <2> QED
    BY <1>8, <2>3, <2>4
<1>10. ASSUME produced' <= MaxSeqNo, NEW c \in SubId PROVE NumberedSub(c)'
  <2>1. CASE c = b
    BY <1>9, <1>10, <2>1
  <2>2. CASE c # b
    <3>1. NumberedSub(c)
      BY <1>10 DEF NumberInv
    <3> QED
      BY <1>0, <1>7, <1>10, <2>2, <3>1, StillNumbered
  <2> QED
    BY <2>1, <2>2
<1> QED
    BY <1>10 DEF NumberInv

\* Every step keeps the numbers in order.
LEMMA NumberNext == IInv /\ AccountInv /\ NumberInv /\ [Next]_vars => NumberInv'
<1> SUFFICES ASSUME IInv, AccountInv, NumberInv, [Next]_vars PROVE NumberInv'
    OBVIOUS
<1>0. TypeOK /\ TypeOK' /\ sub \in [SubId -> SubRecord] /\ produced \in Nat /\ produced' \in Nat
    BY NextIInv, BoundAssumption DEF IInv, TypeOK
<1>1. ASSUME UNCHANGED <<sub, produced>>
      PROVE  NumberInv'
  <2>1. \A c \in SubId : Continues(c)
    BY <1>0, <1>1, ContinueFacts
  <2> QED
    BY <1>0, <1>1, <2>1, NumberStep
<1>2. ASSUME NEW s \in Session,
             \/ OpenSession(s)
             \/ ActivateSession(s)
             \/ RemoveSecureChannel(s)
             \/ SecureChannelClose(s)
      PROVE  NumberInv'
    BY <1>1, <1>2, SessionAccount
<1>3. ASSUME NEW s \in Session,
             SessionTimeout(s) \/ \E delete \in BOOLEAN : CloseSession(s, delete)
      PROVE  NumberInv'
  <2>1. PICK kept : RemoveSession(s, kept)
    BY <1>3 DEF SessionTimeout, CloseSession
  <2>2. PICK gone : sub' = [b \in SubId |-> IF b \in gone THEN Blank
                                  ELSE IF b \in kept THEN [sub[b] EXCEPT !.session = NoSession]
                                  ELSE sub[b]]
    BY <2>1, Zenon DEF RemoveSession
  <2>3. produced' = produced
    BY <2>1, Zenon DEF RemoveSession, envVars
  <2>4. \A r \in SubRecord : LET d == [r EXCEPT !.session = NoSession]
                             IN /\ d.retrans = r.retrans
                                /\ d.nextSeqNo = r.nextSeqNo
                                /\ d.queued = r.queued
    BY DEF SubRecord
  <2>5. ASSUME NEW c \in SubId PROVE Continues(c)
    <3>1. CASE sub'[c] = Blank
      BY <3>1 DEF Continues, Blank, NewSub
    <3>2. CASE sub'[c] = sub[c] \/ sub'[c] = [sub[c] EXCEPT !.session = NoSession]
      <4>1. /\ sub'[c].retrans = sub[c].retrans
            /\ sub'[c].nextSeqNo = sub[c].nextSeqNo
            /\ sub'[c].queued = sub[c].queued
        BY <1>0, <2>4, <3>2
      <4> QED
        BY <1>0, <2>3, <4>1, ContinueFacts
    <3> QED
      BY <2>2, <3>1, <3>2
  <2> QED
    BY <1>0, <2>3, <2>5, NumberStep
<1>4. ASSUME NEW s \in Session, NEW q \in Settings, NEW enabled \in PublishingModes,
             CreateSubscription(s, q, enabled)
      PROVE  NumberInv'
  <2>1. PICK b : b = lastSubId + 1
    OBVIOUS
  <2>2. sub' = [sub EXCEPT ![b] = NewSub(s, Revised(q), enabled)] /\ produced' = produced
    BY <1>4, <2>1, Zenon DEF CreateSubscription, envVars
  <2>3. ASSUME NEW c \in SubId PROVE Continues(c)
    <3>1. CASE c = b
      <4>1. sub'[c] = NewSub(s, Revised(q), enabled)
        BY <1>0, <2>2, <3>1
      <4> QED
        BY <4>1 DEF Continues, NewSub
    <3>2. CASE c # b
      <4>1. sub'[c] = sub[c]
        BY <1>0, <2>2, <3>2
      <4> QED
        BY <1>0, <2>2, <4>1, ContinueFacts
    <3> QED
      BY <3>1, <3>2
  <2> QED
    BY <1>0, <2>2, <2>3, NumberStep
<1>5. ASSUME NEW s \in Session, NEW r \in Request, NEW b \in SubId \cup {NoSub},
             NEW n \in SeqNo, Publish(s, r, b, n)
      PROVE  NumberInv'
  <2>1. produced' = produced
    BY <1>5, Zenon DEF Publish, envVars
  <2>2. CASE ~Acked(s, b, n)
    BY <1>1, <1>5, <2>1, <2>2, Zenon DEF Publish
  <2>3. CASE Acked(s, b, n)
    <3> DEFINE rest == RemoveAt(sub[b].retrans, AckIndex(b, n))
    <3>1. sub' = [sub EXCEPT ![b].retrans = rest]
      BY <1>5, <2>3, Zenon DEF Publish
    <3>2. b \in SubId /\ AckIndex(b, n) \in 1..Len(sub[b].retrans)
      BY <1>0, <2>3, AckFacts
    <3>3. sub[b].retrans \in Seq(Entries)
      BY <1>0, <3>2, SubFields DEF Entries
    <3>4. Thinner(rest, sub[b].retrans)
      BY <3>2, <3>3, ThinnerFacts
    <3> HIDE DEF rest
    <3>5. sub[b] \in SubRecord /\ sub' = [sub EXCEPT ![b] = [sub[b] EXCEPT !.retrans = rest]]
      BY <1>0, <3>1, <3>2
    <3>6. LET d == [sub[b] EXCEPT !.retrans = rest]
          IN d.retrans = rest /\ d.nextSeqNo = sub[b].nextSeqNo /\ d.queued = sub[b].queued
      BY <3>5 DEF SubRecord
    <3>7. ASSUME NEW c \in SubId PROVE Continues(c)
      <4>1. CASE c = b
        <5>1. /\ sub'[c].retrans = rest
              /\ sub'[c].nextSeqNo = sub[c].nextSeqNo
              /\ sub'[c].queued = sub[c].queued
          BY <1>0, <3>5, <3>6, <4>1
        <5> QED
          BY <1>0, <2>1, <3>4, <4>1, <5>1, ContinueFacts
      <4>2. CASE c # b
        <5>1. sub'[c] = sub[c]
          BY <1>0, <3>5, <4>2
        <5> QED
          BY <1>0, <2>1, <5>1, ContinueFacts
      <4> QED
        BY <4>1, <4>2
    <3> QED
      BY <1>0, <2>1, <3>7, NumberStep
  <2> QED
    BY <2>2, <2>3
<1>6. ASSUME NEW b \in SubId,
             \/ LateSkip(b) \/ PublishStop(b)
             \/ LateServe(b) /\ Quiet(b)
             \/ \E s \in Session :
                   \/ Republish(s, b)
                   \/ \E enabled \in PublishingModes : SetPublishingMode(s, b, enabled)
                   \/ \E q \in Settings : ModifySubscription(s, b, q)
      PROVE  NumberInv'
  <2>1. produced' = produced
    BY <1>6, QuietSteps
  <2>2. \A c \in SubId : /\ sub'[c].retrans = sub[c].retrans
                         /\ sub'[c].nextSeqNo = sub[c].nextSeqNo
                         /\ sub'[c].queued = sub[c].queued
    BY <1>0, <1>6, QuietSteps, QueueKept
  <2>3. \A c \in SubId : Continues(c)
    BY <1>0, <2>1, <2>2, ContinueFacts
  <2> QED
    BY <1>0, <2>1, <2>3, NumberStep
<1>7. ASSUME NEW b \in SubId, DeleteSub(b), produced' = produced
      PROVE  NumberInv'
  <2>1. sub' = [sub EXCEPT ![b] = Blank]
    BY <1>7, Zenon DEF DeleteSub
  <2>2. ASSUME NEW c \in SubId PROVE Continues(c)
    <3>1. CASE c = b
      <4>1. sub'[c] = Blank
        BY <1>0, <2>1, <3>1
      <4> QED
        BY <4>1 DEF Continues, Blank, NewSub
    <3>2. CASE c # b
      <4>1. sub'[c] = sub[c]
        BY <1>0, <2>1, <3>2
      <4> QED
        BY <1>0, <1>7, <4>1, ContinueFacts
    <3> QED
      BY <3>1, <3>2
  <2> QED
    BY <1>0, <1>7, <2>2, NumberStep
<1>8. ASSUME NEW s \in Session, NEW b \in SubId, NEW n \in 0..1, TransferSubscription(s, b, n)
      PROVE  NumberInv'
  <2>1. /\ sub' = [sub EXCEPT ![b].session = s, ![b].queued = @ + n]
        /\ produced' = produced + n
    BY <1>8, Zenon DEF TransferSubscription
  <2>2. sub[b] \in SubRecord
    BY <1>0
  <2>3. LET d == [[sub[b] EXCEPT !.session = s] EXCEPT !.queued = @ + n]
        IN /\ d.retrans = sub[b].retrans
           /\ d.nextSeqNo = sub[b].nextSeqNo
           /\ d.queued = sub[b].queued + n
    BY <2>2 DEF SubRecord
  <2>4. sub' = [sub EXCEPT ![b] = [[sub[b] EXCEPT !.session = s] EXCEPT !.queued = @ + n]]
    BY <1>0, <2>1
  <2>5. ASSUME NEW c \in SubId PROVE Continues(c)
    <3>1. CASE c = b
      <4>1. /\ sub'[c].retrans = sub[c].retrans
            /\ sub'[c].nextSeqNo = sub[c].nextSeqNo
            /\ sub'[c].queued = sub[c].queued + n
        BY <1>0, <2>3, <2>4, <3>1
      <4>2. sub[c].retrans \in Seq(Entries) /\ sub[c].queued \in Nat
        BY <1>0, SubFields DEF Entries
      <4>3. sub[c].queued + n <= sub[c].queued + (produced' - produced)
        BY <1>0, <2>1, <4>2
      <4>4. Thinner(sub[c].retrans, sub[c].retrans)
        BY <4>2, ThinnerFacts
      <4> QED
        BY <4>1, <4>3, <4>4 DEF Continues
    <3>2. CASE c # b
      <4>1. sub'[c] = sub[c] /\ produced <= produced'
        BY <1>0, <2>1, <2>4, <3>2
      <4> QED
        BY <1>0, <4>1, ContinueFacts
    <3> QED
      BY <3>1, <3>2
  <2>6. produced <= produced'
    BY <1>0, <2>1
  <2> QED
    BY <1>0, <2>5, <2>6, NumberStep
<1>9. ASSUME NEW b \in SubId, PublishLoop(b)
      PROVE  NumberInv'
  <2>1. CASE PublishExpire(b)
    BY <1>7, <2>1 DEF PublishExpire, Expire, envVars
  <2>2. CASE PublishStop(b)
    BY <1>6, <2>2
  <2>3. CASE PublishSend(b)
    BY <1>0, <2>3, SendNumbers DEF PublishSend, envVars, IInv, StepsWellFounded
  <2> QED
    BY <1>9, <2>1, <2>2, <2>3 DEF PublishLoop
<1>10. ASSUME NEW b \in SubId, LateLoop(b)
       PROVE  NumberInv'
  <2>1. CASE LateSkip(b) \/ (LateServe(b) /\ Quiet(b))
    BY <1>6, <2>1
  <2>2. CASE LateServe(b) /\ Send(b)
    <3>1. Searching(b) /\ produced' = produced
      BY <2>2 DEF LateServe, envVars
    <3> QED
      BY <1>0, <2>2, <3>1, SearchFacts, SendNumbers
  <2> QED
    BY <1>10, <2>1, <2>2 DEF LateLoop, LateServe
<1>11. CASE Tick
    BY <1>1, <1>11, Zenon DEF Tick
<1>12. ASSUME NEW b \in SubId, Notify(b) \/ Discard(b) \/ PublishCallback(b)
       PROVE  NumberInv'
  <2>1. /\ produced <= produced'
        /\ \A c \in SubId : /\ sub'[c].retrans = sub[c].retrans
                            /\ sub'[c].nextSeqNo = sub[c].nextSeqNo
                            /\ sub'[c].queued <= sub[c].queued + (produced' - produced)
    BY <1>0, <1>12, NotifySteps
  <2>2. \A c \in SubId : sub[c].retrans \in Seq(Entries)
    BY <1>0, SubFields DEF Entries
  <2>3. \A c \in SubId : Continues(c)
    BY <2>1, <2>2, ThinnerFacts DEF Continues
  <2> QED
    BY <1>0, <2>1, <2>3, NumberStep
<1>13. CASE UNCHANGED vars
    BY <1>1, <1>13 DEF vars
<1>14. ASSUME NEW s \in Session, NEW b \in SubId, DeleteSubscription(s, b)
       PROVE  NumberInv'
    BY <1>7, <1>14 DEF DeleteSubscription, envVars
<1> QED
  <2>1. CASE ServiceNext
    BY <2>1, <1>2, <1>3, <1>4, <1>5, <1>6, <1>8, <1>14, Zenon DEF ServiceNext
  <2>2. CASE ServerNext
    BY <2>2, <1>9, <1>10, <1>11, <1>12, Zenon DEF ServerNext
  <2> QED
    BY <1>13, <2>1, <2>2 DEF Next

-----------------------------------------------------------------------------
(* The limit of a session.                                                 *)

LimitInv ==
    SessionRetransLimit > 0 /\ ~AllowTransfer =>
        \A s \in Session : retransTotal[s] <= SessionRetransLimit

\* A session that holds as many messages as it may finds one to drop: the counter is
\* not just positive, there is a queue behind it.
LEMMA VictimExists ==
    ASSUME IInv, AccountInv, NEW b \in live, NEW s \in Session, sub[b].session = s,
           SessionRetransLimit > 0, retransTotal[s] >= SessionRetransLimit
    PROVE  RetransVictims(s, b) # {}
<1> DEFINE list == subscriptions[s]
           filled == {i \in DOMAIN list : sub[list[i]].retrans # <<>>}
           At(i) == Last(sub[list[i]].retrans).at
           oldest == {j \in filled : \A k \in filled : At(j) < At(k) \/ (At(j) = At(k) /\ j <= k)}
<1>0. /\ TypeOK /\ b \in SubId /\ SessionRetransLimit \in Nat /\ SubRetransLimit \in Nat
      /\ \A c \in SubId : /\ sub[c].retrans \in Seq(Entries)
                          /\ Lengths[c] = Len(sub[c].retrans)
                          /\ Len(sub[c].retrans) \in Nat
    BY BoundAssumption, SubFields, LenProperties DEF IInv, TypeOK, Lengths, Entries
<1>1. CASE Len(sub[b].retrans) >= SubRetransLimit
    BY <1>1, Zenon DEF RetransVictims
<1>2. CASE ~(Len(sub[b].retrans) >= SubRetransLimit)
  <2>1. RetransVictims(s, b) = {list[i] : i \in oldest}
    BY <1>2, Zenon DEF RetransVictims
  <2>2. /\ list \in Seq(SubId) /\ ToSet(list) = Owned(s)
        /\ DOMAIN list = 1..Len(list)
        /\ \A i \in 1..Len(list) : list[i] \in SubId
    BY ToSetFacts, LenProperties DEF IInv, TypeOK, StepsWellFounded
  <2>3. Places(Owned(s), Lengths) # {}
    <3>1. retransTotal[s] = Cardinality(Places(Owned(s), Lengths)) /\ retransTotal[s] > 0
      BY <1>0 DEF AccountInv, TypeOK
    <3> QED
      BY <3>1, FS_EmptySet
  <2>4. PICK p \in SubId \X Nat : p[1] \in Owned(s) /\ p[2] \in 1..Lengths[p[1]]
    BY <2>3 DEF Places
  <2>5. PICK i \in 1..Len(list) : list[i] = p[1]
    BY <2>2, <2>4, ToSetFacts
  <2>6. sub[list[i]].retrans # <<>>
    <3>1. Len(sub[list[i]].retrans) > 0
      BY <1>0, <2>2, <2>4, <2>5
    <3> QED
      BY <1>0, <2>2, <3>1, EmptySeq
  <2>7. i \in filled /\ filled \subseteq Nat
    BY <2>2, <2>6
  <2>8. \A k \in filled : At(k) \in Nat
    <3> SUFFICES ASSUME NEW k \in filled PROVE At(k) \in Nat
      OBVIOUS
    <3>1. PICK queue : queue = sub[list[k]].retrans
      OBVIOUS
    <3>2. queue \in Seq(Entries) /\ queue # <<>>
      BY <1>0, <2>2, <3>1
    <3>3. Last(queue) \in Entries
      <4>1. Len(queue) \in 1..Len(queue)
        BY <3>2, EmptySeq, LenProperties
      <4> QED
        BY <3>2, <4>1, ElementOfSeq DEF Last
    <3> QED
      BY <3>1, <3>3 DEF Entries
  <2> HIDE DEF filled, At
  <2> DEFINE Times == {At(k) : k \in filled}
             time == Min(Times)
             first == {k \in filled : At(k) = time}
             j == Min(first)
  <2>9. Times \in SUBSET Nat /\ Times # {}
    BY <2>7, <2>8
  <2>10. time \in Times /\ \A k \in filled : time <= At(k) /\ At(k) \in Times
    <3> HIDE DEF Times
    <3>1. Min(Times) \in Times /\ \A y \in Times : Min(Times) <= y
      BY <2>9, MinFacts
    <3>2. \A k \in filled : At(k) \in Times
      BY DEF Times
    <3> QED
      BY <3>1, <3>2
  <2>11. first \in SUBSET Nat /\ first # {}
    <3> HIDE DEF time
    <3> QED
      BY <2>7, <2>10
  <2>12. j \in first /\ \A k \in first : j <= k
    <3> HIDE DEF first
    <3> QED
      BY <2>11, MinFacts
  <2> HIDE DEF j, time
  <2>13. j \in filled /\ At(j) = time
    BY <2>12
  <2>14. ASSUME NEW k \in filled PROVE At(j) < At(k) \/ (At(j) = At(k) /\ j <= k)
    <3>1. At(j) \in Nat /\ At(k) \in Nat /\ At(j) <= At(k)
      BY <2>8, <2>10, <2>13
    <3>2. At(j) = At(k) => j <= k
      BY <2>12, <2>13, <2>14
    <3> QED
      BY <3>1, <3>2
  <2>15. j \in oldest
    BY <2>13, <2>14
  <2> HIDE DEF oldest
  <2> QED
    BY <2>1, <2>15
<1> QED
    BY <1>1, <1>2

\* A message that would exceed the limit of its session makes room first.
LEMMA SendLimit ==
    ASSUME IInv, AccountInv, LimitInv, NEW b \in live, Send(b)
    PROVE  LimitInv'
<1> DEFINE s == sub[b].session
           stores == Notifications(b) > 0 /\ EnableRetransmission
<1> SUFFICES ASSUME SessionRetransLimit > 0, ~AllowTransfer, NEW t \in Session
             PROVE  retransTotal'[t] <= SessionRetransLimit
    BY DEF LimitInv
<1>0. /\ TypeOK /\ b \in SubId /\ SessionRetransLimit \in Nat
      /\ \A u \in Session : retransTotal[u] \in Int /\ retransTotal[u] <= SessionRetransLimit
    BY BoundAssumption DEF IInv, TypeOK, LimitInv
<1>1. s \in Session
    BY <1>0, SendFacts
<1>2. PICK victims : victims = RetransVictims(s, b)
    OBVIOUS
<1>3. retransTotal' = [retransTotal EXCEPT ![s] = IF stores THEN @ + 1 - Cardinality(victims) ELSE @]
    BY <1>0, <1>2, SendQueues, Zenon
<1>4. victims = {} \/ \E v : victims = {v}
    BY <1>1, <1>2, VictimCases
<1>5. Cardinality(victims) \in {0, 1} /\ (Cardinality(victims) = 0 => victims = {})
    BY <1>4, FS_EmptySet, FS_Singleton
<1>6. retransTotal[s] >= SessionRetransLimit => Cardinality(victims) = 1
    BY <1>1, <1>2, <1>5, VictimExists
<1>7. retransTotal'[t] \in {retransTotal[t], IF t = s THEN retransTotal[s] + 1 - Cardinality(victims)
                                             ELSE retransTotal[t]}
    BY <1>0, <1>1, <1>3 DEF TypeOK
<1>8. retransTotal[s] + 1 - Cardinality(victims) <= SessionRetransLimit
    BY <1>0, <1>1, <1>5, <1>6
<1> QED
    BY <1>0, <1>7, <1>8

\* Only a message that is sent, or a transfer, adds to a count.
LEMMA LimitNext == IInv /\ AccountInv /\ LimitInv /\ [Next]_vars => LimitInv'
<1> SUFFICES ASSUME IInv, AccountInv, LimitInv, [Next]_vars PROVE LimitInv'
    OBVIOUS
<1>0. TypeOK
    BY DEF IInv
<1>1. ASSUME \A t \in Session : retransTotal'[t] <= retransTotal[t] /\ retransTotal'[t] \in Int
      PROVE  LimitInv'
    BY <1>0, <1>1, BoundAssumption DEF LimitInv, TypeOK
<1>2. ASSUME retransTotal' = retransTotal PROVE LimitInv'
    BY <1>2 DEF LimitInv
<1>3. ASSUME NEW s \in Session,
             \/ OpenSession(s)
             \/ ActivateSession(s)
             \/ RemoveSecureChannel(s)
             \/ SecureChannelClose(s)
      PROVE  LimitInv'
    BY <1>2, <1>3, SessionAccount
<1>4. ASSUME NEW s \in Session,
             SessionTimeout(s) \/ \E delete \in BOOLEAN : CloseSession(s, delete)
      PROVE  LimitInv'
  <2>1. retransTotal' = [retransTotal EXCEPT ![s] = 0]
    BY <1>4, Zenon DEF SessionTimeout, CloseSession, RemoveSession
  <2>2. \A t \in Session : retransTotal'[t] \in {0, retransTotal[t]}
    BY <1>0, <2>1 DEF TypeOK
  <2> QED
    BY <2>2, BoundAssumption DEF LimitInv
<1>5. ASSUME NEW s \in Session, NEW q \in Settings, NEW enabled \in PublishingModes,
             CreateSubscription(s, q, enabled)
      PROVE  LimitInv'
    BY <1>2, <1>5, Zenon DEF CreateSubscription
<1>6. ASSUME NEW s \in Session, NEW r \in Request, NEW b \in SubId \cup {NoSub},
             NEW n \in SeqNo, Publish(s, r, b, n)
      PROVE  LimitInv'
  <2>1. retransTotal' = retransTotal \/ retransTotal' = [retransTotal EXCEPT ![s] = @ - 1]
    BY <1>6, Zenon DEF Publish
  <2>2. \A t \in Session : retransTotal[t] \in Int
    BY <1>0 DEF TypeOK
  <2>3. \A t \in Session : retransTotal'[t] \in {retransTotal[t], retransTotal[t] - 1}
    BY <1>0, <2>1 DEF TypeOK
  <2>4. \A t \in Session : retransTotal'[t] <= retransTotal[t] /\ retransTotal'[t] \in Int
    BY <2>2, <2>3
  <2> QED
    BY <1>1, <2>4
<1>7. ASSUME NEW b \in SubId, DeleteSub(b) PROVE LimitInv'
  <2>1. PICK m : m = Len(sub[b].retrans)
    OBVIOUS
  <2>2. m \in Nat
    BY <1>0, <2>1, SubFields, LenProperties
  <2>3. \/ retransTotal' = retransTotal
        \/ retransTotal' = [retransTotal EXCEPT ![sub[b].session] = @ - m]
    BY <1>7, <2>1, Zenon DEF DeleteSub
  <2>4. \A t \in Session : retransTotal[t] \in Int
    BY <1>0 DEF TypeOK
  <2>5. \A t \in Session : retransTotal'[t] \in {retransTotal[t], retransTotal[t] - m}
    BY <1>0, <2>3 DEF TypeOK
  <2>6. \A t \in Session : retransTotal'[t] <= retransTotal[t] /\ retransTotal'[t] \in Int
    BY <2>2, <2>4, <2>5
  <2> QED
    BY <1>1, <2>6
<1>8. ASSUME NEW b \in SubId,
             \/ LateSkip(b) \/ PublishStop(b)
             \/ LateServe(b) /\ Quiet(b)
             \/ \E s \in Session :
                   \/ Republish(s, b)
                   \/ \E enabled \in PublishingModes : SetPublishingMode(s, b, enabled)
                   \/ \E q \in Settings : ModifySubscription(s, b, q)
      PROVE  LimitInv'
    BY <1>2, <1>8, QuietSteps
<1>9. ASSUME NEW s \in Session, NEW b \in SubId, NEW n \in 0..1, TransferSubscription(s, b, n)
      PROVE  LimitInv'
  <2>1. AllowTransfer
    BY <1>9, Zenon DEF TransferSubscription
  <2> QED
    BY <2>1 DEF LimitInv
<1>10. ASSUME NEW b \in SubId, PublishLoop(b)
       PROVE  LimitInv'
  <2>1. CASE PublishExpire(b)
    BY <1>7, <2>1 DEF PublishExpire, Expire
  <2>2. CASE PublishStop(b)
    BY <1>8, <2>2
  <2>3. CASE PublishSend(b)
    BY <2>3, SendLimit DEF PublishSend, IInv, StepsWellFounded
  <2> QED
    BY <1>10, <2>1, <2>2, <2>3 DEF PublishLoop
<1>11. ASSUME NEW b \in SubId, LateLoop(b)
       PROVE  LimitInv'
  <2>1. CASE LateSkip(b) \/ (LateServe(b) /\ Quiet(b))
    BY <1>8, <2>1
  <2>2. CASE LateServe(b) /\ Send(b)
    <3>1. Searching(b)
      BY <2>2 DEF LateServe
    <3> QED
      BY <2>2, <3>1, SearchFacts, SendLimit
  <2> QED
    BY <1>11, <2>1, <2>2 DEF LateLoop, LateServe
<1>12. CASE Tick
    BY <1>2, <1>12, Zenon DEF Tick
<1>13. ASSUME NEW b \in SubId, Notify(b) \/ Discard(b) \/ PublishCallback(b)
       PROVE  LimitInv'
    BY <1>0, <1>2, <1>13, NotifySteps
<1>14. CASE UNCHANGED vars
    BY <1>2, <1>14 DEF vars
<1>15. ASSUME NEW s \in Session, NEW b \in SubId, DeleteSubscription(s, b)
       PROVE  LimitInv'
    BY <1>7, <1>15 DEF DeleteSubscription
<1> QED
  <2>1. CASE ServiceNext
    BY <2>1, <1>3, <1>4, <1>5, <1>6, <1>8, <1>9, <1>15, Zenon DEF ServiceNext
  <2>2. CASE ServerNext
    BY <2>2, <1>10, <1>11, <1>12, <1>13, Zenon DEF ServerNext
  <2> QED
    BY <1>14, <2>1, <2>2 DEF Next

-----------------------------------------------------------------------------
(* The order of what can be republished.                                   *)

\* While the numbers have not been used up, a higher number is a younger message.
LEMMA AgeOfNumber ==
    ASSUME TypeOK, NEW b \in SubId, NumberedSub(b), produced <= MaxSeqNo,
           NEW i \in DOMAIN sub[b].retrans, NEW j \in DOMAIN sub[b].retrans, i < j
    PROVE  Age(b, sub[b].retrans[i].seqNo) > Age(b, sub[b].retrans[j].seqNo)
<1>1. PICK q : q = sub[b].retrans
    OBVIOUS
<1>2. PICK x : x = sub[b].nextSeqNo
    OBVIOUS
<1>3. q \in Seq(Entries) /\ x \in SeqNo
    BY <1>1, <1>2, SubFields DEF Entries
<1>4. i \in 1..Len(q) /\ j \in 1..Len(q)
    BY <1>1, <1>3, LenProperties
<1>5. MaxSeqNo \in Nat \ {0} /\ \A n \in SeqNo : n \in Nat /\ 1 <= n /\ n <= MaxSeqNo
    BY BoundAssumption DEF SeqNo
<1>6. q[i].seqNo \in SeqNo /\ q[j].seqNo \in SeqNo
  <2>1. q[i] \in Entries /\ q[j] \in Entries
    BY <1>3, <1>4, ElementOfSeq
  <2> QED
    BY <2>1 DEF Entries
<1>7. q[i].seqNo < q[j].seqNo
    BY <1>1, <1>4 DEF NumberedSub, Numbered, Sorted
<1>8. (\A k \in 1..Len(q) : q[k].seqNo < x) \/ x = 1
    BY <1>1, <1>2 DEF NumberedSub, Numbered, Below
<1>9. \A m \in Nat : m < MaxSeqNo => (m + MaxSeqNo) % MaxSeqNo = m /\ m % MaxSeqNo = m
    BY <1>5
<1>10. CASE \A k \in 1..Len(q) : q[k].seqNo < x
  <2>1. ASSUME NEW n \in SeqNo, n < x PROVE Age(b, n) = x - n
    <3>1. PICK m : m = x - n
      OBVIOUS
    <3>2. m \in Nat /\ m < MaxSeqNo /\ m # 0
      BY <1>3, <1>5, <2>1, <3>1
    <3>3. (x - n + MaxSeqNo) % MaxSeqNo = m
      BY <1>9, <3>1, <3>2
    <3> QED
      BY <1>2, <3>1, <3>2, <3>3 DEF Age
  <2>2. Age(b, q[i].seqNo) = x - q[i].seqNo /\ Age(b, q[j].seqNo) = x - q[j].seqNo
    BY <1>4, <1>6, <1>10, <2>1
  <2>3. x \in Nat /\ q[i].seqNo \in Nat /\ q[j].seqNo \in Nat
    BY <1>3, <1>5, <1>6
  <2>4. Age(b, q[i].seqNo) > Age(b, q[j].seqNo)
    BY <1>7, <2>2, <2>3
  <2> QED
    BY <1>1, <2>4
<1>11. CASE x = 1
  <2>1. ASSUME NEW n \in SeqNo PROVE Age(b, n) = MaxSeqNo + 1 - n
    <3>1. CASE n = 1
      <4>1. (x - n + MaxSeqNo) % MaxSeqNo = 0
        <5>1. x - n + MaxSeqNo = 0 + MaxSeqNo
          BY <1>5, <1>11, <3>1
        <5>2. 0 \in Nat /\ 0 < MaxSeqNo
          BY <1>5
        <5> QED
          BY <1>9, <5>1, <5>2
      <4>2. Age(b, n) = MaxSeqNo
        BY <1>2, <4>1 DEF Age
      <4> QED
        BY <1>5, <3>1, <4>2
    <3>2. CASE n # 1
      <4>1. PICK m : m = x - n + MaxSeqNo
        OBVIOUS
      <4>2. m \in Nat /\ m < MaxSeqNo /\ m # 0 /\ m = MaxSeqNo + 1 - n
        BY <1>5, <1>11, <3>2, <4>1
      <4>3. m % MaxSeqNo = m
        BY <1>9, <4>2
      <4>4. Age(b, n) = m
        BY <1>2, <4>1, <4>2, <4>3 DEF Age
      <4> QED
        BY <4>2, <4>4
    <3> QED
      BY <3>1, <3>2
  <2>2. /\ Age(b, q[i].seqNo) = MaxSeqNo + 1 - q[i].seqNo
        /\ Age(b, q[j].seqNo) = MaxSeqNo + 1 - q[j].seqNo
    BY <1>6, <2>1
  <2>3. MaxSeqNo \in Nat /\ q[i].seqNo \in Nat /\ q[j].seqNo \in Nat
    BY <1>5, <1>6
  <2>4. Age(b, q[i].seqNo) > Age(b, q[j].seqNo)
    BY <1>7, <2>2, <2>3
  <2> QED
    BY <1>1, <2>4
<1> QED
    BY <1>8, <1>10, <1>11

\* Until the sequence numbers have been used up, a client is offered the messages of
\* a subscription in the order they were sent, whatever was evicted, acknowledged or
\* transferred; and a session that adopts no messages stays within its limit.
THEOREM RepublishedInOrder == Spec => []RetransmissionOrder
<1>1. Init => NumberInv /\ LimitInv
  <2> SUFFICES ASSUME Init PROVE NumberInv /\ LimitInv
    OBVIOUS
  <2>1. ASSUME NEW c \in SubId PROVE NumberedSub(c)
    <3>1. sub[c].retrans = <<>> /\ sub[c].nextSeqNo = 1 /\ sub[c].queued = 0 /\ produced = 0
      BY DEF Init, Blank, NewSub
    <3>2. Len(<<>>) = 0 /\ \A i : i \notin 1..0
      OBVIOUS
    <3>3. Sorted(<<>>) /\ Below(<<>>, 1)
      BY <3>2 DEF Sorted, Below
    <3>4. 1 - 1 + 0 <= 0
      OBVIOUS
    <3> QED
      BY <3>1, <3>3, <3>4 DEF NumberedSub, Numbered
  <2>2. LimitInv
    BY BoundAssumption DEF LimitInv, Init
  <2> QED
    BY <2>1, <2>2 DEF NumberInv
<1>2. IInv /\ NumberInv /\ LimitInv => RetransmissionOrder
  <2> SUFFICES ASSUME IInv, NumberInv, LimitInv PROVE RetransmissionOrder
    OBVIOUS
  <2>1. ASSUME produced <= MaxSeqNo, NEW b \in live,
               NEW i \in DOMAIN sub[b].retrans, NEW j \in DOMAIN sub[b].retrans, i < j
        PROVE  Age(b, sub[b].retrans[i].seqNo) > Age(b, sub[b].retrans[j].seqNo)
    <3>1. b \in SubId /\ TypeOK
      BY DEF IInv, TypeOK
    <3>2. NumberedSub(b)
      BY <2>1, <3>1 DEF NumberInv
    <3> QED
      BY <2>1, <3>1, <3>2, AgeOfNumber
  <2> QED
    BY <2>1 DEF RetransmissionOrder, LimitInv
<1>3. Spec => []IInv
    BY Structure
<1> QED
    BY <1>1, <1>2, <1>3, InitAccount, AccountNext, NumberNext, LimitNext, PTL DEF Spec
=============================================================================
