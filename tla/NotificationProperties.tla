----------------------- MODULE NotificationProperties -----------------------
(***************************************************************************)
(* What the notification queues of module NotificationQueue have to        *)
(* guarantee.                                                              *)
(***************************************************************************)
EXTENDS NotificationQueue

Calls ==
    {Idle}
    \cup [op : {"enqueue", "modify"}, mon : Mon, reporting : BOOLEAN]
    \cup [op : {"sample"}, mon : Mon, optional : BOOLEAN]
    \cup [op : {"trigger"}, mon : Mon, link : Nat \ {0}]

\* Types, the deleted and unborn items included: those hold no notification.
\* Between two calls no MonitoredItem holds more notifications than its queue
\* size, overflow events apart, whatever was modified or triggered; and values
\* of an item with a queue of one never carry the overflow bits (Part 4, 7.16),
\* also not when the queue was longer before.
NotificationTypeOK ==
    /\ mode \in [Mon -> AllModes \cup {"none", "deleted"}]
    /\ params \in [Mon -> Settings]
    /\ links \in [Mon -> Seq(Mon)]
    /\ triggered \in [Mon -> BOOLEAN]
    /\ queue \in [Mon -> Seq(Notification)]
    /\ notificationQueue \in Seq(Notification)
    /\ flagged \subseteq Notification
    /\ counted \in [{"data", "event"} -> Int]
    /\ made \in 0..MaxNotifications
    /\ call \in Calls
    /\ sent \in [Mon -> 0..MaxNotifications]
    /\ untold \subseteq Mon
    /\ \A m \in Mon \ Registered : queue[m] = <<>>
    /\ call = Idle => \A m \in Mon :
          /\ Cardinality(Normal(m)) <= params[m].size
          /\ m \notin EventMon /\ params[m].size = 1 => ToSet(queue[m]) \cap flagged = {}

\* prepareNotificationMessage deletes what is before a notification in its
\* MonitoredItem when it sends it: "These are earlier Notifications that are
\* non-reporting." One that is still to be reported would be lost, and the loop
\* may have read it already as its next element.
EarlierNotReported ==
    \A i, j \in DOMAIN notificationQueue :
        LET x == notificationQueue[i]
            y == notificationQueue[j]
        IN i < j /\ x.mon = y.mon =>
              IndexOf(queue[x.mon], x) < IndexOf(queue[x.mon], y)

\* A reporting MonitoredItem holds nothing back: all it has in its queue is also
\* in the queue of the subscription. Nothing else is there, and the counters by
\* which prepareNotificationMessage allocates its arrays, eventNotifications and
\* dataChangeNotifications, count it.
ReportingComplete ==
    /\ \A m \in Mon : mode[m] = "reporting" =>
          ToSet(queue[m]) \subseteq ToSet(notificationQueue)
    /\ \A i \in DOMAIN notificationQueue :
          notificationQueue[i] \in ToSet(queue[notificationQueue[i].mon])
    /\ \A k \in {"data", "event"} :
          counted[k] = Cardinality({i \in DOMAIN notificationQueue :
                                       Kind(notificationQueue[i].mon) = k})

\* While a reporting item has lost a reported notification without the client
\* having got a sign of it, a sign is on its way: an overflow event or a value
\* with the overflow bits. A sign may itself be discarded, if a new one is set.
LossIsTold ==
    call = Idle =>
        \A m \in untold : mode[m] = "reporting" =>
            \E x \in ToSet(queue[m]) : Reported(x) /\ (x.over \/ x \in flagged)

Reports(m) == {i \in DOMAIN notificationQueue : notificationQueue[i].mon = m}

\* A reporting item whose queue overflows keeps the place of its first
\* notification in the queue of the subscription. "So we don't starve
\* MonitoredItems with a high sampling interval."
KeepsPlace ==
    [][\A m \in Mon :
          (MakingSpace(m) /\ mode[m] = "reporting" /\ Reports(m) # {})
              => Reports(m)' # {} /\ Min(Reports(m))' <= Min(Reports(m))
      ]_vars

\* The refinement: what a MonitoredItem holds is its queue without the overflow
\* events.
Held == [m \in Mon |-> {x.n : x \in {y \in ToSet(queue[m]) : ~y.over}}]

OD == INSTANCE OrderedDelivery WITH Item <- Mon, held <- Held, latest <- sent

\* Whatever the modes, settings and triggers, the client gets the notifications
\* of an item in their order and none twice, and an overflow never costs the
\* newest one.
DeliveryKept == OD!DeliverySpec
=============================================================================
