------------------------- MODULE NotificationQueue -------------------------
(***************************************************************************)
(* The notifications of one subscription on their way from the sampling of *)
(* a MonitoredItem, or from an event, to a NotificationMessage             *)
(* (ua_subscription_monitoreditem.c, ua_services_monitoreditem.c and       *)
(* prepareNotificationMessage in ua_subscription.c).  A notification is in *)
(* the queue of its MonitoredItem and, once it is to be reported, also in  *)
(* the queue of the subscription.  Queue sizes, overflow, monitoring modes *)
(* and triggering links act on both queues.                                *)
(*                                                                         *)
(* The server holds serviceMutex for a whole service call, event or        *)
(* sampling callback.  Loops inside such a call take one step per          *)
(* iteration here: call holds what is still to be done, and everything     *)
(* else waits until it is Idle.                                            *)
(*                                                                         *)
(* The variants named Defect... are explained in module Subscription.      *)
(***************************************************************************)
EXTENDS Integers, Sequences, FiniteSets, SequencesExt, Lists

CONSTANTS
    Mon,               \* the MonitoredItems, each created at most once
    EventMon,          \* those that monitor events, the others monitor values
    Links,             \* pairs of MonitoredItems a client may link
    Modes,             \* the monitoring modes clients ask for
    Settings,          \* the queue settings clients ask for
    MaxNotifications   \* bound: notifications ever produced

AllModes == {"disabled", "sampling", "reporting"}

ASSUME NotificationAssumption ==
    /\ EventMon \subseteq Mon
    /\ Links \subseteq Mon \X Mon
    /\ Modes \subseteq AllModes
    /\ Settings \subseteq [size : Nat \ {0}, discardOldest : BOOLEAN]
    /\ Settings # {}
    /\ MaxNotifications \in Nat

VARIABLES
    mode,               \* of each MonitoredItem; "none" before its creation
    params,             \* its queueSize and discardOldest
    links,              \* its triggeringLinks
    triggered,          \* is triggeredUntil in the future?
    queue,              \* its queue of notifications
    notificationQueue,  \* the queue of the subscription
    flagged,            \* notifications with the overflow InfoBits
    counted,            \* eventNotifications and dataChangeNotifications
    made,               \* notifications produced so far
    call,               \* what the call in progress still has to do
    sent,               \* observer: newest notification sent for each item
    untold              \* observer: items that lost a reported notification
                        \* and have not sent a sign of it since

vars == <<mode, params, links, triggered, queue, notificationQueue, flagged,
          counted, made, call, sent, untold>>
itemVars == <<mode, params, links, triggered>>
queueVars == <<queue, notificationQueue, flagged, counted>>

\* An overflow event (over) has the number of the notification it was put before.
Notification == [mon : Mon, n : 1..MaxNotifications, over : BOOLEAN]

Idle == [op |-> "idle"]

Kind(m) == IF m \in EventMon THEN "event" ELSE "data"
Registered == {m \in Mon : mode[m] \in AllModes}
Reported(x) == x \in ToSet(notificationQueue)

Init ==
    /\ mode = [m \in Mon |-> "none"]
    /\ params \in [Mon -> {CHOOSE p \in Settings : TRUE}]
    /\ links = [m \in Mon |-> <<>>]
    /\ triggered = [m \in Mon |-> FALSE]
    /\ queue = [m \in Mon |-> <<>>]
    /\ notificationQueue = <<>>
    /\ flagged = {}
    /\ counted = [k \in {"data", "event"} |-> 0]
    /\ made = 0
    /\ call = Idle
    /\ sent = [m \in Mon |-> 0]
    /\ untold = {}

-----------------------------------------------------------------------------
(* Parts of the handlers.                                                  *)

\* The counters after k more notifications of m in the subscription's queue.
Counted(m, k) == [counted EXCEPT ![Kind(m)] = @ + k]

\* The queue of the subscription without the notifications in S.
Dropped(S) == Excluding(notificationQueue, S)

\* Delete the notifications S of m from all queues. m keeps those in rest.
Delete(m, S, rest) ==
    /\ queue' = [queue EXCEPT ![m] = rest]
    /\ notificationQueue' = Dropped(S)
    /\ flagged' = flagged \ S
    /\ counted' = Counted(m, 0 - Cardinality({x \in S : Reported(x)}))

DefectEnqueueMissing(m, md) ==
    IF md = "reporting"
    THEN notificationQueue \o Excluding(queue[m], ToSet(notificationQueue))
    ELSE Dropped(ToSet(queue[m]))

DefectEnqueueNewest(m, md) ==
    Dropped(ToSet(queue[m])) \o
        (IF md = "reporting" /\ queue[m] # <<>> THEN <<Last(queue[m])>> ELSE <<>>)

\* The queue of the subscription when m starts to report or to only sample.
Requeued(m, md) ==
    Dropped(ToSet(queue[m])) \o (IF md = "reporting" THEN queue[m] ELSE <<>>)

\* setMonitoringMode to sampling or reporting. ok is false when sampling cannot
\* be registered because the node is gone; the notifications are kept then.
Activate(m, md, ok) ==
    /\ mode' = [mode EXCEPT ![m] = IF ok THEN md ELSE "disabled"]
    /\ notificationQueue' = Requeued(m, md)
    /\ counted' = Counted(m, Len(Requeued(m, md)) - Len(notificationQueue))
    /\ UNCHANGED <<queue, flagged>>

\* setMonitoringMode to disabled.
Deactivate(m) ==
    /\ mode' = [mode EXCEPT ![m] = "disabled"]
    /\ Delete(m, ToSet(queue[m]), <<>>)

\* enqueueAndTrigger of a new notification of m. Room for it is made next.
Enqueue(m) ==
    LET x == [mon |-> m, n |-> made + 1, over |-> FALSE]
        report == mode[m] = "reporting" \/ (mode[m] = "sampling" /\ triggered[m])
    IN /\ made < MaxNotifications
       /\ made' = made + 1
       /\ queue' = [queue EXCEPT ![m] = Append(@, x)]
       /\ notificationQueue' = IF report THEN Append(notificationQueue, x)
                                         ELSE notificationQueue
       /\ counted' = Counted(m, IF report THEN 1 ELSE 0)
       /\ triggered' = [triggered EXCEPT ![m] = @ /\ ~report]
       /\ call' = [op |-> "enqueue", mon |-> m, reporting |-> FALSE]
       /\ UNCHANGED <<mode, params, links, flagged, sent, untold>>

-----------------------------------------------------------------------------
(* UA_MonitoredItem_ensureQueueSpace, called when a notification was added *)
(* and when the settings were modified.                                    *)

MakingSpace(m) == call.op \in {"enqueue", "modify"} /\ call.mon = m

\* The positions of the notifications that are not overflow events.
Normal(m) == {i \in DOMAIN queue[m] : ~queue[m][i].over}

TooMany(m) == Cardinality(Normal(m)) > params[m].size

\* The oldest, or the second newest to keep the newest. The last one is not an
\* overflow event.
Victim(m) ==
    IF params[m].discardOldest THEN Min(Normal(m))
    ELSE Max(Normal(m) \ {Len(queue[m])})

DefectKeepOrder(del, next) ==
    IF Reported(del) THEN Without(notificationQueue, del) ELSE notificationQueue

\* The subscription's queue without del. Its successor at the MonitoredItem
\* takes over its place, so that an item with many notifications is not starved.
TakenOver(del, next) ==
    IF ~Reported(del) THEN notificationQueue
    ELSE IF ~Reported(next) THEN Without(notificationQueue, del)
    ELSE LET rest == Without(notificationQueue, next)
         IN [rest EXCEPT ![IndexOf(rest, del)] = next]

SignsLoss(m) == m \in EventMon \/ params[m].size > 1

RemoveOne(m) ==
    /\ MakingSpace(m)
    /\ TooMany(m)
    /\ LET i == Victim(m)
           del == queue[m][i]
       IN /\ queue' = [queue EXCEPT ![m] = RemoveAt(@, i)]
          /\ notificationQueue' = TakenOver(del, queue[m][i + 1])
          /\ flagged' = flagged \ {del}
          /\ counted' = Counted(m, IF Reported(del) THEN -1 ELSE 0)
          /\ call' = [call EXCEPT !.reporting = @ \/ Reported(del)]
          /\ untold' = IF Reported(del) /\ SignsLoss(m) THEN untold \cup {m} ELSE untold
    /\ UNCHANGED <<itemVars, made, sent>>

\* After the space is made: trigger the links, or the call is complete.
Continue(m) ==
    call' = IF call.op = "enqueue" /\ links[m] # <<>>
            THEN [op |-> "trigger", mon |-> m, link |-> Len(links[m])]
            ELSE Idle

\* The notification that shows that others were removed next to it.
Indicator(m) == IF params[m].discardOldest THEN Head(queue[m]) ELSE Last(queue[m])

DefectTwoWithoutBits(m) == IF params[m].size <= 2 THEN {} ELSE {Indicator(m)}

\* setOverflowInfoBits
Marked(m) == IF params[m].size = 1 THEN {} ELSE {Indicator(m)}

DefectBitsStay(m) == {}

\* removeOverflowInfoBits, when the settings were modified
Unmarked(m) ==
    IF call.op = "modify" /\ params[m].size = 1 /\ m \notin EventMon
    THEN ToSet(queue[m]) ELSE {}

\* A value was lost, or nothing that was reported.
SpaceMade(m) ==
    /\ MakingSpace(m)
    /\ ~TooMany(m)
    /\ ~call.reporting \/ m \notin EventMon
    /\ flagged' = (flagged \cup (IF call.reporting THEN Marked(m) ELSE {})) \ Unmarked(m)
    /\ untold' = IF Unmarked(m) = {} THEN untold ELSE untold \ {m}
    /\ Continue(m)
    /\ UNCHANGED <<itemVars, queue, notificationQueue, counted, made, sent>>

\* The list with x inserted before y.
InsertBefore(list, x, y) == InsertAt(list, IndexOf(list, y), x)

\* Would the new overflow event be next to another one?
AdjacentOverflow(m) ==
    IF params[m].discardOldest THEN Head(queue[m]).over
    ELSE Len(queue[m]) > 1 /\ queue[m][Len(queue[m]) - 1].over

\* Where the overflow event ov goes that is before at in the MonitoredItem. An
\* oldest notification has no older one to look for, so the end of the queue is
\* the place also with discardOldest.
OverflowPlaced(ov, at) ==
    IF Reported(at) THEN InsertBefore(notificationQueue, ov, at)
    ELSE Append(notificationQueue, ov)

\* An event was lost: createEventOverflowNotification.
EventOverflow(m) ==
    LET at == Indicator(m)
        ov == [at EXCEPT !.over = TRUE]
    IN /\ MakingSpace(m)
       /\ ~TooMany(m)
       /\ call.reporting /\ m \in EventMon
       /\ IF AdjacentOverflow(m) THEN UNCHANGED queueVars
          ELSE /\ queue' = [queue EXCEPT ![m] = InsertBefore(@, ov, at)]
               /\ notificationQueue' = OverflowPlaced(ov, at)
               /\ counted' = Counted(m, 1)
               /\ UNCHANGED flagged
       /\ Continue(m)
       /\ UNCHANGED <<itemVars, made, sent, untold>>

-----------------------------------------------------------------------------
(* The triggering links of m, from the last to the first.                  *)

\* A list of links without its i-th: the last one takes its place.
Unlinked(list, i) == DropLast([list EXCEPT ![i] = Last(list)])

NextLink == call' = IF call.link = 1 THEN Idle ELSE [call EXCEPT !.link = @ - 1]

\* The link leads to a MonitoredItem that was deleted.
RemoveDeadLink(m) ==
    /\ call.op = "trigger" /\ call.mon = m
    /\ links[m][call.link] \notin Registered
    /\ links' = [links EXCEPT ![m] = Unlinked(@, call.link)]
    /\ NextLink
    /\ UNCHANGED <<mode, params, triggered, queueVars, made, sent, untold>>

\* Only sampling items are triggered. They report their newest notification
\* and the next one.
Trigger(m) ==
    LET t == links[m][call.link]
        newest == Last(queue[t])
        enqueue == queue[t] # <<>> /\ ~Reported(newest)
    IN /\ call.op = "trigger" /\ call.mon = m
       /\ t \in Registered
       /\ IF mode[t] = "sampling"
          THEN /\ notificationQueue' = IF enqueue THEN Append(notificationQueue, newest)
                                                  ELSE notificationQueue
               /\ counted' = Counted(t, IF enqueue THEN 1 ELSE 0)
               /\ triggered' = [triggered EXCEPT ![t] = TRUE]
          ELSE UNCHANGED <<notificationQueue, counted, triggered>>
       /\ NextLink
       /\ UNCHANGED <<mode, params, links, queue, flagged, made, sent, untold>>

-----------------------------------------------------------------------------
(* The handlers.                                                           *)

\* A changed value is sampled, or an event passes the filter.
Notify(m) ==
    /\ call = Idle
    /\ mode[m] \in {"sampling", "reporting"}
    /\ Enqueue(m)

\* A value is sampled at once when its item is activated. The first sample
\* after the creation passes every filter.
FirstSample(m) ==
    /\ call.op = "sample" /\ call.mon = m
    /\ \/ Enqueue(m)
       \/ /\ call.optional \/ made = MaxNotifications
          /\ call' = Idle
          /\ UNCHANGED <<itemVars, queueVars, made, sent, untold>>

SampleNext(m, optional) ==
    call' = IF mode'[m] = "disabled" \/ m \in EventMon THEN Idle
            ELSE [op |-> "sample", mon |-> m, optional |-> optional]

CreateMonitoredItem(m, p, md) ==
    /\ call = Idle
    /\ mode[m] = "none"
    /\ mode' = [mode EXCEPT ![m] = md]
    /\ params' = [params EXCEPT ![m] = p]
    /\ SampleNext(m, FALSE)
    /\ UNCHANGED <<links, triggered, queueVars, made, sent, untold>>

\* Sampling is only registered, and can only fail, when the item was disabled.
SetMonitoringMode(m, md, ok) ==
    /\ call = Idle
    /\ m \in Registered
    /\ ok \/ (mode[m] = "disabled" /\ md # "disabled")
    /\ IF md = "disabled" THEN Deactivate(m) ELSE Activate(m, md, ok)
    /\ IF mode[m] = "disabled" THEN SampleNext(m, TRUE) ELSE call' = Idle
    /\ untold' = untold \ {m}
    /\ UNCHANGED <<params, links, triggered, made, sent>>

\* With another sampling interval (resample) sampling is registered again.
ModifyMonitoredItem(m, p, resample, ok) ==
    /\ call = Idle
    /\ m \in Registered
    /\ ok \/ (resample /\ mode[m] # "disabled")
    /\ params' = [params EXCEPT ![m] = p]
    /\ IF ~resample THEN UNCHANGED <<mode, queueVars>>
       ELSE IF mode[m] = "disabled" THEN Deactivate(m)
       ELSE Activate(m, mode[m], ok)
    /\ call' = [op |-> "modify", mon |-> m, reporting |-> FALSE]
    /\ UNCHANGED <<links, triggered, made, sent, untold>>

DeleteMonitoredItem(m) ==
    /\ call = Idle
    /\ m \in Registered
    /\ mode' = [mode EXCEPT ![m] = "deleted"]
    /\ links' = [links EXCEPT ![m] = <<>>]
    /\ triggered' = [triggered EXCEPT ![m] = FALSE]
    /\ Delete(m, ToSet(queue[m]), <<>>)
    /\ untold' = untold \ {m}
    /\ UNCHANGED <<params, made, call, sent>>

AddLink(m, t) ==
    /\ call = Idle
    /\ {m, t} \subseteq Registered
    /\ t \notin ToSet(links[m])
    /\ links' = [links EXCEPT ![m] = Append(@, t)]
    /\ UNCHANGED <<mode, params, triggered, queueVars, made, call, sent, untold>>

RemoveLink(m, t) ==
    /\ call = Idle
    /\ m \in Registered
    /\ t \in ToSet(links[m])
    /\ links' = [links EXCEPT ![m] = Unlinked(@, IndexOf(@, t))]
    /\ UNCHANGED <<mode, params, triggered, queueVars, made, call, sent, untold>>

\* A publishing interval has passed since m was triggered.
TriggerExpires(m) ==
    /\ call = Idle
    /\ triggered[m]
    /\ triggered' = [triggered EXCEPT ![m] = FALSE]
    /\ UNCHANGED <<mode, params, links, queueVars, made, call, sent, untold>>

DefectOnlySent(x) == {x}

\* x and what is before it in its MonitoredItem.
Overtaken(x) == ToSet(SubSeq(queue[x.mon], 1, IndexOf(queue[x.mon], x)))

\* prepareNotificationMessage moves the first notification to the response.
Publish ==
    /\ call = Idle
    /\ notificationQueue # <<>>
    /\ LET x == Head(notificationQueue)
           m == x.mon
       IN /\ Delete(m, Overtaken(x), Excluding(queue[m], Overtaken(x)))
          /\ sent' = IF x.over THEN sent ELSE [sent EXCEPT ![m] = x.n]
          /\ untold' = IF x.over \/ x \in flagged THEN untold \ {m} ELSE untold
    /\ UNCHANGED <<itemVars, made, call>>

Service(m) ==
    \/ \E p \in Settings, md \in Modes : CreateMonitoredItem(m, p, md)
    \/ \E md \in Modes, ok \in BOOLEAN : SetMonitoringMode(m, md, ok)
    \/ \E p \in Settings, resample, ok \in BOOLEAN : ModifyMonitoredItem(m, p, resample, ok)
    \/ DeleteMonitoredItem(m)
    \/ \E t \in Mon : <<m, t>> \in Links /\ (AddLink(m, t) \/ RemoveLink(m, t))

Step(m) ==
    \/ RemoveOne(m)
    \/ SpaceMade(m)
    \/ EventOverflow(m)
    \/ RemoveDeadLink(m)
    \/ Trigger(m)
    \/ FirstSample(m)

Next ==
    \/ \E m \in Mon : Notify(m) \/ Service(m) \/ Step(m) \/ TriggerExpires(m)
    \/ Publish

Spec == Init /\ [][Next]_vars
=============================================================================
