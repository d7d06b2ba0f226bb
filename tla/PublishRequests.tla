-------------------------- MODULE PublishRequests --------------------------
(***************************************************************************)
(* What the server promises about publish requests, seen from the client:  *)
(* a session answers the requests it has parked in the order they came,    *)
(* each once, never parks more than the configured number, and parks none  *)
(* while it is not being served, that is, while it has no SecureChannel to *)
(* answer on or no subscription that will ever answer.                     *)
(*                                                                         *)
(* Why a request is answered, by which subscription and with what, is left *)
(* to module Subscription, which implements this one.                      *)
(***************************************************************************)
EXTENDS Integers, Sequences, SequencesExt

CONSTANTS
    Session,
    Request,
    Limit         \* config.maxPublishReqPerSession, 0 is unlimited

VARIABLES
    parked,       \* the requests a session has parked, oldest first
    outstanding,  \* requests received and not completed
    served        \* the sessions that are being served

rvars == <<parked, outstanding, served>>

RequestsTypeOK ==
    /\ parked \in [Session -> Seq(Request)]
    /\ outstanding \subseteq Request
    /\ served \subseteq Session

RequestsInit ==
    /\ parked = [s \in Session |-> <<>>]
    /\ outstanding = {}
    /\ served = {}

\* A session may stop being served only if nothing is parked there.
Serve ==
    /\ served' \subseteq Session
    /\ \A s \in Session : parked'[s] # <<>> => s \in served'

\* Session s parks a new request. When it is full the oldest makes room.
Receive(s, r) ==
    LET full == Limit > 0 /\ Len(parked[s]) >= Limit
        queue == IF full THEN Tail(parked[s]) ELSE parked[s]
    IN /\ s \in served
       /\ r \notin outstanding
       /\ parked' = [parked EXCEPT ![s] = Append(queue, r)]
       /\ outstanding' = (IF full THEN outstanding \ {Head(parked[s])} ELSE outstanding)
                            \cup {r}
       /\ UNCHANGED served

\* The oldest request of s is answered.
Answer(s) ==
    /\ parked[s] # <<>>
    /\ parked' = [parked EXCEPT ![s] = Tail(@)]
    /\ outstanding' = outstanding \ {Head(parked[s])}
    /\ Serve

\* All requests of s are answered at once, or the channel they came on is gone.
Release(s) ==
    /\ parked' = [parked EXCEPT ![s] = <<>>]
    /\ outstanding' = outstanding \ ToSet(parked[s])
    /\ Serve

\* Sessions come, go, and gain and lose channels and subscriptions.
Rearrange ==
    /\ UNCHANGED <<parked, outstanding>>
    /\ Serve

RequestsNext ==
    \/ \E s \in Session : Answer(s) \/ Release(s) \/ \E r \in Request : Receive(s, r)
    \/ Rearrange

RequestsSpec == RequestsInit /\ [][RequestsNext]_rvars

-----------------------------------------------------------------------------
\* Every outstanding request is parked in exactly one place.
Conserved ==
    /\ outstanding = UNION {ToSet(parked[s]) : s \in Session}
    /\ \A s \in Session : IsInjective(parked[s])
    /\ \A s, t \in Session : s # t => ToSet(parked[s]) \cap ToSet(parked[t]) = {}

\* Only sessions that are being served have requests parked.
Served == \A s \in Session : parked[s] # <<>> => s \in served

WithinLimit == Limit > 0 => \A s \in Session : Len(parked[s]) <= Limit
=============================================================================
