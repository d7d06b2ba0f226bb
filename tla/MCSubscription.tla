--------------------------- MODULE MCSubscription ---------------------------
(***************************************************************************)
(* Instances of Subscription for TLC.                                      *)
(***************************************************************************)
EXTENDS SubscriptionProperties

ShortLimits == [min |-> 1, max |-> 1]
CountLimits == [min |-> 1, max |-> 2]
LifeLimits == [min |-> 3, max |-> 3]

Plain == [keepAlive |-> 1, lifeTime |-> 1, perPublish |-> 1, priority |-> 0]
Slow == [keepAlive |-> 2, lifeTime |-> 1, perPublish |-> 0, priority |-> 1]

OneSetting == {Plain}
TwoSettings == {Plain, Slow}

\* Sessions are alike, and so are publish requests (not for liveness).
Symmetry == Permutations(Session) \cup Permutations(Request)
=============================================================================
