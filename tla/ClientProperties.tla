-------------------------- MODULE ClientProperties --------------------------
(***************************************************************************)
(* What the client of module ClientSession must keep to.                   *)
(***************************************************************************)
EXTENDS ClientSession

Publishing(c) == {call \in ToSet(c.calls) : call.kind = "publish"}

\* A session is active only on an open channel, only an active one is taken up
\* again, no call outlives its channel, and no requestId is used twice
\* (closeSecureChannel, UA_Client_AsyncService_removeAll).
ClientTypeOK ==
  /\ client.channel \in {"CLOSED", "OPENING", "OPEN"} /\ client.session \in DOMAIN SessionRank
  /\ client.outstanding \in Nat /\ client.limit \in 1..Wanted
  /\ DOMAIN client.subs \subseteq Sub /\ server.subs \subseteq Sub /\ faults \in 0..MaxFaults
  /\ client.channel # "OPEN" =>
       /\ SessionRank[client.session] \in {0, SessionRank["CREATED"]}
       /\ client.calls = <<>> /\ client.waiting = <<>> /\ client.in = <<>>
  /\ client.session = "CLOSED" => client.subs = NoSubs /\ client.acks = {}
  /\ client.checking = Pending(client, "check")
  /\ LET ids == [i \in DOMAIN client.calls |-> client.calls[i].id]
                  \o [i \in DOMAIN client.waiting |-> client.waiting[i].id]
     IN \A i, j \in DOMAIN ids : ids[i] = ids[j] => i = j

\* The counter that limits the publish requests counts the publish requests in
\* progress, however they end: by a response, with their channel or with their
\* session. While the connection is up every call has its request or its
\* response under way, exactly once, or a publish request parked at the server:
\* nobody waits for an answer that cannot come. And the client asks for less
\* until the server is content and no further (BadTooManyPublishRequests).
CallsAccounted ==
  /\ client.outstanding = Cardinality(Publishing(client))
  /\ Min({Wanted, MaxParked}) <= client.limit /\ client.outstanding <= client.limit
  /\ client.channel = "OPEN" /\ server.channel =>
       \A id \in Ids(client.calls) \union Ids(client.waiting) :
         Cardinality({i \in DOMAIN client.out : client.out[i].id = id})
         + Cardinality({i \in DOMAIN client.in : client.in[i].id = id})
         + Cardinality({i \in DOMAIN server.parked : server.parked[i] = id}) = 1

\* Every notification message has been processed by the client or can still be
\* republished: it acknowledges nothing it has not seen. It is told of every
\* message it did not get, and of no other, across reconnections.
NothingForgotten ==
  /\ \A s \in server.subs : \A n \in 1..server.seq[s] :
       <<s, n>> \in server.retrans \union client.got
  /\ client.acks \subseteq client.got
  /\ client.got \intersect client.missed = {}
  /\ \A s \in DOMAIN client.subs : \A n \in 1..client.subs[s] :
       <<s, n>> \in client.got \union client.missed

\* A session whose channel was lost is active again, on the next channel or as a
\* new session, unless the client gives up or is disconnected.
Reactivates ==
  client.session = "CREATED"
    ~> client.session \in {"ACTIVATED", "CLOSED"} \/ client.status = "bad"

\* What a subscription of both ends has to report is reported, as long as the
\* subscription exists: through reconnections, rejected and ended requests the
\* client keeps publish requests at the server.
ChangesReachClient ==
  \A s \in Sub :
    s \in server.ready /\ s \in DOMAIN client.subs
      ~> s \notin server.ready \/ s \notin DOMAIN client.subs \/ client.status = "bad"
=============================================================================
