------------------------ MODULE MCNotificationQueue ------------------------
(***************************************************************************)
(* Instances of NotificationQueue for TLC.                                 *)
(***************************************************************************)
EXTENDS NotificationProperties

CONSTANTS a, b

OneOldest == [size |-> 1, discardOldest |-> TRUE]
TwoOldest == [size |-> 2, discardOldest |-> TRUE]
TwoNewest == [size |-> 2, discardOldest |-> FALSE]
ThreeOldest == [size |-> 3, discardOldest |-> TRUE]

ValueLink == {<<a, b>>}   \* the value item triggers the event item
EventLink == {<<b, a>>}   \* the event item triggers the value item

OneOrTwo == {OneOldest, TwoOldest, TwoNewest}
OnlyThree == {ThreeOldest}
=============================================================================
