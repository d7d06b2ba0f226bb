-------------------------- MODULE OrderedDelivery --------------------------
(***************************************************************************)
(* What a client may expect of a MonitoredItem: its notifications arrive   *)
(* in the order they were produced, each at most once.  Some may be lost,  *)
(* but making room never costs the newest one, so the client always gets   *)
(* to the current value.  The notifications of an item are numbered in the *)
(* order they are produced.                                                *)
(***************************************************************************)
EXTENDS Integers

CONSTANT Item

VARIABLES
    held,    \* the notifications the server holds for an item
    latest   \* the newest notification the client got for an item

dvars == <<held, latest>>

DeliveryInit ==
    /\ held = [m \in Item |-> {}]
    /\ latest = [m \in Item |-> 0]

Newer(k, S) == \A j \in S : k > j

\* A notification of m is produced. It is newer than all others.
Produce(m) ==
    /\ \E k \in held'[m] : /\ Newer(k, held[m] \cup {latest[m]})
                          /\ held' = [held EXCEPT ![m] = @ \cup {k}]
    /\ UNCHANGED latest

\* There is no room, or the client will not be sent old ones: some notification
\* is lost, but not the newest.
Lose(m) ==
    /\ \E S \in SUBSET held[m] :
          /\ \E k \in held[m] \ S : Newer(k, S)
          /\ held' = [held EXCEPT ![m] = @ \ S]
    /\ UNCHANGED latest

\* A notification is sent. Older ones will not follow.
Deliver(m) ==
    \E k \in held[m] :
        /\ latest' = [latest EXCEPT ![m] = k]
        /\ held' = [held EXCEPT ![m] = {j \in @ : j > k}]

\* The MonitoredItem is disabled or deleted.
Clear(m) == held' = [held EXCEPT ![m] = {}] /\ UNCHANGED latest

DeliveryNext == \E m \in Item : Produce(m) \/ Lose(m) \/ Deliver(m) \/ Clear(m)

DeliverySpec == DeliveryInit /\ [][DeliveryNext]_dvars

\* Nothing that is still held is older than what the client has.
NothingStale == \A m \in Item : \A k \in held[m] : k > latest[m]
=============================================================================
