--------------------------- MODULE ClientSession ---------------------------
(***************************************************************************)
(* The client of the library: how it finds a server, opens a SecureChannel, *)
(* creates and activates a session and takes it along to the next channel, *)
(* the services in progress, synchronous ones that wait and asynchronous   *)
(* ones with a callback, and the publish requests by which it keeps its    *)
(* subscriptions fed.                                                      *)
(*                                                                         *)
(* Each end is a record; the client's holds both directions of its         *)
(* connection.  The server is reduced to what the client sees of it: one   *)
(* session, its subscriptions and its parked publish requests.             *)
(*                                                                         *)
(* The handshake of a channel (module SecureChannel) is one step.  The     *)
(* server has seen the end of a connection before the client opens the     *)
(* next one.                                                               *)
(*                                                                         *)
(* The variants named Defect... are explained in module Subscription.      *)
(***************************************************************************)
EXTENDS Lists

CONSTANTS
  MaxSub,       \* bound: subscriptions created
  MaxSeq,       \* bound: notification messages of a subscription
  Wanted,       \* config.outStandingPublishRequests at the start
  MaxParked,    \* the server's maxPublishReqPerSession
  MaxFaults,    \* bound: broken connections, time-outs, ended sessions
  SendMayFail   \* writing to a broken connection may fail before reading does

ASSUME BoundsAssumption ==
  /\ {MaxSub, MaxSeq, MaxFaults} \subseteq Nat
  /\ {Wanted, MaxParked} \subseteq Nat \ {0}
  /\ SendMayFail \in BOOLEAN

VARIABLES client, server, faults
vars == <<client, server, faults>>

Sub == 1..MaxSub

\* The session states in their order.
SessionRank == [CLOSED |-> 0, CREATE_REQUESTED |-> 1, CREATED |-> 2,
                ACTIVATE_REQUESTED |-> 3, ACTIVATED |-> 4, CLOSING |-> 5]

NoSubs == [s \in {} |-> 0]

\* The client: its channel, session and connectStatus; discoveryUrl, and
\* whether the endpoint is configured; asyncServiceCalls, newest first; the
\* synchronous services that wait, innermost last; the publish requests
\* (currentlyOutStandingPublishRequests, outStandingPublishRequests), the
\* subscriptions with their sequenceNumber, pendingNotificationsAcks and
\* pendingConnectivityCheck.  in and out are the messages on the connection,
\* which may be lost without the client knowing yet.  got and missed observe the
\* messages processed and those a warning was given for.
FreshClient ==
  [channel |-> "CLOSED", session |-> "CLOSED", status |-> "good", url |-> "none",
   endpoint |-> FALSE, calls |-> <<>>, waiting |-> <<>>, outstanding |-> 0,
   limit |-> Wanted, subs |-> NoSubs, acks |-> {}, checking |-> FALSE,
   lost |-> FALSE, in |-> <<>>, out |-> <<>>, got |-> {}, missed |-> {}]

\* The server: whether it has the client's channel, the session and whether it
\* is bound to that channel, its subscriptions, those with something to report,
\* the last sequence numbers, the retransmission queue and the parked requests.
FreshServer ==
  [channel |-> FALSE, session |-> "none", bound |-> FALSE, subs |-> {}, created |-> 0,
   ready |-> {}, seq |-> [s \in Sub |-> 0], retrans |-> {}, parked |-> <<>>]

Request(id, kind, sub, acks) == [id |-> id, kind |-> kind, sub |-> sub, acks |-> acks]
Response(id, result) ==
  [id |-> id, result |-> result, sub |-> 0, seq |-> 0, data |-> FALSE, avail |-> {}]

-----------------------------------------------------------------------------
(* Sending. *)

Ids(seq) == {seq[i].id : i \in DOMAIN seq}

\* A requestId no request or response in progress has.
FreshId(c) ==
  LET used == Ids(c.calls) \union Ids(c.waiting) \union Ids(c.in)
                \union Ids(c.out) \union ToSet(server.parked)
  IN Min(1..(Cardinality(used) + 1) \ used)

\* What is written to a lost connection goes nowhere.
Written(c, m) == [c EXCEPT !.out = IF c.lost THEN @ ELSE Append(@, m)]

\* An asynchronous service: the request is sent and the call remembered.
AsyncService(c, kind, acks) ==
  LET id == FreshId(c)
  IN [Written(c, Request(id, kind, 0, acks))
        EXCEPT !.calls = <<[id |-> id, kind |-> kind]>> \o @]

\* A synchronous service that goes on as op when its response is there.
Service(c, op, sub) ==
  LET id == FreshId(c)
  IN [Written(c, Request(id, op, sub, {}))
        EXCEPT !.waiting = Append(@, [id |-> id, op |-> op, sub |-> sub])]

SendFails(c) == c.lost /\ SendMayFail

-----------------------------------------------------------------------------
(* Ending calls, channels and sessions. *)

\* backgroundPublish wants to send.
Publishes(c) ==
  c.session = "ACTIVATED" /\ DOMAIN c.subs # {} /\ c.outstanding < c.limit

\* It counts the request and takes the acknowledgements along before it finds
\* that there is no open channel.
Unsent(c) == [c EXCEPT !.outstanding = @ + 1, !.acks = {}]

DefectUncounted(c) == c

\* processPublishResponse has one request less outstanding.
OneLess(c) == [c EXCEPT !.outstanding = @ - 1]

\* The callback of a call that ends without a response, because the channel
\* ("BadSecureChannelClosed") or the session ("BadSessionClosed") does.
Cancelled(c, kind, code) ==
  CASE kind = "find"      -> [c EXCEPT !.url = "own"]
    [] kind = "endpoints" -> [c EXCEPT !.status = "bad"]
    [] kind = "create"    -> [c EXCEPT !.status = "bad", !.session = "CLOSED"]
    [] kind = "check"     -> [c EXCEPT !.checking = FALSE]
    [] kind = "publish"   -> LET d == OneLess(c) IN IF Publishes(d) THEN Unsent(d) ELSE d
    [] kind = "activate"  ->
         IF code = "BadSecureChannelClosed" THEN [c EXCEPT !.status = "bad"]
         ELSE IF c.channel = "OPEN"
         THEN [AsyncService(c, "create", {}) EXCEPT !.session = "CREATE_REQUESTED"]
         ELSE c

\* UA_Client_AsyncService_removeAll.
RemoveAll(c, code) ==
  LET left[i \in 0..Len(c.calls)] ==
        IF i = 0 THEN c
        ELSE Cancelled([left[i - 1] EXCEPT !.calls = Without(@, c.calls[i])], c.calls[i].kind, code)
  IN left[Len(c.calls)]

\* closeSecureChannel.  The session falls back first, so that the callbacks do
\* not publish.
CloseSecureChannel(c) ==
  RemoveAll([c EXCEPT !.channel = "CLOSED", !.lost = FALSE, !.in = <<>>,
                      !.session = IF SessionRank[@] > SessionRank["CREATED"] THEN "CREATED" ELSE @,
                      !.out = IF c.lost THEN <<>>
                              ELSE IF c.channel = "OPEN" THEN Append(@, Request(0, "CLO", 0, {}))
                              ELSE @],
            "BadSecureChannelClosed")

DefectKeepAcks(c) ==
  [RemoveAll([c EXCEPT !.session = "CLOSED", !.subs = NoSubs], "BadSessionClosed")
     EXCEPT !.outstanding = 0]

\* closeSession, without the service.
SessionClosed(c) ==
  [RemoveAll([c EXCEPT !.session = "CLOSED", !.subs = NoSubs, !.acks = {}], "BadSessionClosed")
     EXCEPT !.outstanding = 0]

Disconnected(c) == CloseSecureChannel(SessionClosed(c))

\* UA_Client_disconnect: an active session is closed with a service first.
Disconnecting(c) ==
  IF c.session # "ACTIVATED" THEN {Disconnected(c)}
  ELSE {Service([c EXCEPT !.session = "CLOSING"], "CloseSession", 0)}
         \union (IF SendFails(c) THEN {Disconnected([c EXCEPT !.session = "CLOSING"])} ELSE {})

\* A synchronous service whose channel has closed returns an error.
Unwound(c) ==
  IF c.channel # "CLOSED" \/ c.waiting = <<>> THEN c
  ELSE LET d == [c EXCEPT !.waiting = <<>>]
       IN IF \E i \in DOMAIN c.waiting : c.waiting[i].op = "CloseSession"
          THEN Disconnected(d) ELSE d

-----------------------------------------------------------------------------
(* Publishing. *)

\* As many publish requests as wanted; the first takes the acknowledgements along.
Filled(c) ==
  LET sent[i \in 0..(c.limit - c.outstanding)] ==
        IF i = 0 THEN [c EXCEPT !.outstanding = c.limit, !.acks = {}]
        ELSE AsyncService(sent[i - 1], "publish", IF i = 1 THEN c.acks ELSE {})
  IN sent[c.limit - c.outstanding]

\* UA_Client_Subscriptions_backgroundPublish.  A request that cannot be sent
\* closes the channel and ends the loop.
BackgroundPublish(c) ==
  IF ~Publishes(c) THEN {c}
  ELSE IF c.channel # "OPEN" THEN {Unsent(c)}
  ELSE {Filled(c)} \union (IF SendFails(c) THEN {CloseSecureChannel(Unsent(c))} ELSE {})

\* The next sequence number, had no message been lost.
Expected(c, m) == c.subs[m.sub] + 1

DefectCountKeepAlive(c, m) ==
  [c EXCEPT !.subs[m.sub] = m.seq,
            !.missed = @ \union {<<m.sub, n>> : n \in Expected(c, m)..(m.seq - 1)},
            !.got = IF m.data THEN @ \union {<<m.sub, m.seq>>} ELSE @,
            !.acks = IF m.seq \in m.avail THEN @ \union {<<m.sub, m.seq>>} ELSE @]

\* A good publish response: lost messages are warned of, the notifications are
\* delivered, and the message is acknowledged if it can be.  A keep-alive
\* carries the number of the next message.
Notified(c, m) ==
  [c EXCEPT !.subs[m.sub] = IF m.data THEN m.seq ELSE @,
            !.missed = @ \union {<<m.sub, n>> : n \in Expected(c, m)..(m.seq - 1)},
            !.got = IF m.data THEN @ \union {<<m.sub, m.seq>>} ELSE @,
            !.acks = IF m.seq \in m.avail THEN @ \union {<<m.sub, m.seq>>} ELSE @]

\* One publish request less from now on.
Lowered(c) == IF c.limit > 1 THEN [c EXCEPT !.limit = @ - 1] ELSE c

\* UA_Client_Subscriptions_processPublishResponse.
ProcessPublishResponse(c, m) ==
  LET d == OneLess(c)
  IN CASE m.result = "BadTooManyPublishRequests" -> {Lowered(d)}
       [] m.result = "BadSessionIdInvalid" /\ DOMAIN d.subs # {} -> Disconnecting(d)
       [] m.result = "Good" /\ m.sub \in DOMAIN d.subs -> {Notified(d, m)}
       [] OTHER -> {d}

-----------------------------------------------------------------------------
(* Receiving. *)

DefectKeepSession(c, m) ==
  {IF m.result = "Good" THEN [c EXCEPT !.session = "ACTIVATED"] ELSE c}

\* responseActivateSession: a lost session is replaced by a new one.
ActivateAnswered(c, m) ==
  IF m.result = "Good" THEN {[c EXCEPT !.session = "ACTIVATED"]}
  ELSE LET d == SessionClosed(c)
       IN {[AsyncService(d, "create", {}) EXCEPT !.session = "CREATE_REQUESTED"]}
            \union (IF SendFails(d) THEN {CloseSecureChannel(d)} ELSE {})

\* responseFindServers: another URL means another connection.
ServersFound(c, m) ==
  IF m.result = "own" THEN [c EXCEPT !.url = "own"]
  ELSE CloseSecureChannel([c EXCEPT !.url = "other"])

\* responseGetEndpoints: an endpoint is chosen, if there is a matching one; a
\* different security policy means another channel.
EndpointChosen(c, m) ==
  CASE m.result = "same"      -> [c EXCEPT !.endpoint = TRUE]
    [] m.result = "different" -> CloseSecureChannel([c EXCEPT !.endpoint = TRUE])
    [] m.result = "none"      -> CloseSecureChannel([c EXCEPT !.status = "bad"])

\* responseSessionCallback.
SessionCreated(c) == [c EXCEPT !.session = "CREATED", !.status = "good"]

\* processAsyncResponse: the callback of a call, which is no longer in the list.
Answered(c, kind, m) ==
  CASE kind = "find"      -> {ServersFound(c, m)}
    [] kind = "endpoints" -> {EndpointChosen(c, m)}
    [] kind = "create"    -> {SessionCreated(c)}
    [] kind = "activate"  -> ActivateAnswered(c, m)
    [] kind = "check"     -> {[c EXCEPT !.checking = FALSE]}
    [] kind = "publish"   -> UNION {BackgroundPublish(d) : d \in ProcessPublishResponse(c, m)}

\* The synchronous service that waits has its response.
Returned(c, m) ==
  LET w == Last(c.waiting)
      d == [c EXCEPT !.waiting = Front(@)]
  IN CASE w.op = "CloseSession" -> Disconnected(d)
       [] w.op = "CreateSubscription" /\ m.result = "Good" ->
            [d EXCEPT !.subs = [s \in DOMAIN @ \union {m.sub} |-> IF s = m.sub THEN 0 ELSE @[s]]]
       [] w.op = "DeleteSubscription" /\ m.result \in {"Good", "BadSubscriptionIdInvalid"} ->
            [d EXCEPT !.subs = [s \in DOMAIN @ \ {w.sub} |-> @[s]]]
       [] OTHER -> d

\* processServiceResponse; a response nobody waits for closes the channel.
Processed(c, m) ==
  LET known == {call \in ToSet(c.calls) : call.id = m.id}
  IN IF c.waiting # <<>> /\ m.id = Last(c.waiting).id THEN {Returned(c, m)}
     ELSE IF known = {} THEN {CloseSecureChannel(c)}
     ELSE LET call == CHOOSE x \in known : TRUE
          IN Answered([c EXCEPT !.calls = Without(@, call)], call.kind, m)

\* receiveResponse: one message, a lost connection, or nothing.
Received(c) ==
  {Unwound(d) : d \in IF c.channel # "OPEN" THEN {CloseSecureChannel(c)}
                      ELSE IF c.in # <<>> THEN Processed([c EXCEPT !.in = Tail(@)], Head(c.in))
                      ELSE IF c.lost THEN {CloseSecureChannel(c)}
                      ELSE {c}}

-----------------------------------------------------------------------------
(* UA_Client_run_iterate. *)

Pending(c, kind) == \E call \in ToSet(c.calls) : call.kind = kind

\* A call sent while connecting; if that fails the client gives up.
RequestSent(c, kind, state) ==
  {[AsyncService(c, kind, {}) EXCEPT !.session = state]}
    \union (IF SendFails(c) THEN {[CloseSecureChannel(c) EXCEPT !.status = "bad"]} ELSE {})

\* connectIterate on an open channel.
SessionIterate(c) ==
  CASE c.url = "none" /\ ~Pending(c, "find") -> RequestSent(c, "find", c.session)
    [] c.url # "none" /\ c.session = "CLOSED" /\ c.endpoint ->
         RequestSent(c, "create", "CREATE_REQUESTED")
    [] c.url # "none" /\ c.session = "CLOSED" /\ ~c.endpoint /\ ~Pending(c, "endpoints") ->
         RequestSent(c, "endpoints", c.session)
    [] c.url # "none" /\ c.session = "CREATED" -> RequestSent(c, "activate", "ACTIVATE_REQUESTED")
    [] OTHER -> Received(c)

\* UA_Client_backgroundConnectivity, when its interval is over.
Checked(c) ==
  {c} \union (IF c.checking \/ c.channel # "OPEN" THEN {}
              ELSE {[AsyncService(c, "check", {}) EXCEPT !.checking = TRUE]}
                     \union (IF SendFails(c) THEN {CloseSecureChannel(c)} ELSE {}))

\* Its read times out (asyncServiceTimeoutCheck).
CheckTimedOut(c) ==
  LET call == CHOOSE x \in ToSet(c.calls) : x.kind = "check"
  IN [c EXCEPT !.calls = Without(@, call), !.checking = FALSE]

\* run_iterate with an active session: publish, check, then receive, then look
\* for what took too long.  A callback that makes a synchronous call goes first.
ActiveIterate(c) ==
  UNION {Received(d) : d \in UNION {Checked(b) : b \in BackgroundPublish(c)}}

\* run_iterate goes to connectIterate.
Connecting(c) == SessionRank[c.session] < SessionRank["ACTIVATED"] \/ c.url = "none"

\* initConnect, after UA_Client_connect or when the channel was lost.
InitConnect(c) ==
  /\ ~server.channel /\ UNCHANGED server
  /\ \/ /\ client' = [c EXCEPT !.channel = "OPENING", !.status = "good"]
        /\ UNCHANGED faults
     \/ /\ faults < MaxFaults /\ faults' = faults + 1
        /\ client' = [CloseSecureChannel(c) EXCEPT !.status = "bad"]

\* The handshake of the channel succeeds; or it fails, and there may be the
\* original URL to fall back to (fixBadDiscoveryUrl).
Handshake ==
  \/ /\ client' = [client EXCEPT !.channel = "OPEN"]
     /\ server' = [server EXCEPT !.channel = TRUE]
     /\ UNCHANGED faults
  \/ /\ faults < MaxFaults /\ faults' = faults + 1
     /\ client' = IF client.url = "other"
                  THEN [CloseSecureChannel(client) EXCEPT !.url = "own"]
                  ELSE [CloseSecureChannel(client) EXCEPT !.status = "bad"]
     /\ UNCHANGED server

Iterating == client.waiting = <<>> /\ client.status = "good"

ConnectIterate ==
  /\ Iterating /\ Connecting(client) /\ client.session # "ACTIVATED"
  /\ \/ client.channel = "CLOSED" /\ InitConnect(client)
     \/ client.channel = "OPENING" /\ Handshake
     \/ /\ client.channel = "OPEN" /\ client' \in SessionIterate(client)
        /\ UNCHANGED <<server, faults>>

Iterate ==
  /\ Iterating /\ ~Connecting(client)
  /\ client' \in ActiveIterate(client) /\ UNCHANGED <<server, faults>>

\* The answer to the check took too long.
CheckTimeout ==
  /\ Iterating /\ ~Connecting(client) /\ client.checking
  /\ faults < MaxFaults /\ faults' = faults + 1
  /\ client' = CheckTimedOut(client) /\ UNCHANGED server

\* A synchronous service receives until its response is there.
SyncReceive ==
  /\ client.waiting # <<>>
  /\ client' \in Received(client) /\ UNCHANGED <<server, faults>>

\* It took too long (__UA_Client_Service).
SyncTimeout ==
  /\ client.waiting # <<>> /\ faults < MaxFaults /\ faults' = faults + 1
  /\ client' = Unwound(CloseSecureChannel(client)) /\ UNCHANGED server

-----------------------------------------------------------------------------
(* The application. *)

Connect ==
  /\ client.waiting = <<>> /\ client.channel = "CLOSED"
  /\ InitConnect([client EXCEPT !.url = "none"])

Disconnect ==
  /\ client.waiting = <<>> /\ client.channel # "CLOSED"
  /\ faults < MaxFaults /\ faults' = faults + 1
  /\ client' \in Disconnecting(client) /\ UNCHANGED server

CreateSubscription ==
  /\ client.waiting = <<>> /\ client.session = "ACTIVATED" /\ server.created < MaxSub
  /\ client' = Service(client, "CreateSubscription", 0) /\ UNCHANGED <<server, faults>>

DeleteSubscription(s) ==
  /\ client.waiting = <<>> /\ client.session = "ACTIVATED" /\ s \in DOMAIN client.subs
  /\ client' = Service(client, "DeleteSubscription", s) /\ UNCHANGED <<server, faults>>

-----------------------------------------------------------------------------
(* The server. *)

\* A closed client reads nothing.
Sent(c, ms) == [c EXCEPT !.in = IF c.channel = "OPEN" THEN @ \o ms ELSE @]
ToEach(ids, result) == [i \in DOMAIN ids |-> Response(ids[i], result)]
Usable == server.session = "active" /\ server.bound

\* The first unread request is answered with ms.
Answer(ms) == client' = Sent([client EXCEPT !.out = Tail(@)], ms)
Receives(kind) == client.out # <<>> /\ Head(client.out).kind = kind
RequestId == Head(client.out).id

\* A request that names a session of another channel is refused; FindServers goes
\* on with the URL at hand then.
ServeFind ==
  /\ Receives("find") /\ UNCHANGED server
  /\ \E result \in IF client.session = "CLOSED" THEN {"own", "other"} ELSE {"own"} :
       Answer(<<Response(RequestId, result)>>)

ServeEndpoints ==
  /\ Receives("endpoints") /\ UNCHANGED server
  /\ \E result \in {"same", "different", "none"} : Answer(<<Response(RequestId, result)>>)

ServeCreate ==
  /\ Receives("create") /\ Answer(<<Response(RequestId, "Good")>>)
  /\ server' = [server EXCEPT !.session = "created", !.bound = TRUE, !.subs = {},
                              !.ready = {}, !.retrans = {}, !.parked = <<>>]

\* A session that was active may move to another channel.
MayActivate == server.session = "active" \/ (server.session = "created" /\ server.bound)
ServeActivate ==
  /\ Receives("activate")
  /\ Answer(<<Response(RequestId, IF MayActivate THEN "Good" ELSE "BadSessionIdInvalid")>>)
  /\ server' = IF MayActivate THEN [server EXCEPT !.session = "active", !.bound = TRUE]
               ELSE server

ServeCheck ==
  /\ Receives("check") /\ UNCHANGED server
  /\ Answer(<<Response(RequestId, IF Usable THEN "Good" ELSE "BadSessionIdInvalid")>>)

\* Acknowledged messages leave the retransmission queue; the oldest request makes
\* room for the new one.
ServePublish ==
  /\ Receives("publish")
  /\ IF Usable /\ server.subs # {}
     THEN LET parked == Append(server.parked, RequestId)
              full   == Len(parked) > MaxParked
          IN /\ server' = [server EXCEPT !.retrans = @ \ Head(client.out).acks,
                                         !.parked = IF full THEN Tail(parked) ELSE parked]
             /\ Answer(IF full THEN <<Response(Head(parked), "BadTooManyPublishRequests")>>
                       ELSE <<>>)
     ELSE /\ Answer(<<Response(RequestId, IF Usable THEN "BadNoSubscription"
                                          ELSE "BadSessionIdInvalid")>>)
          /\ UNCHANGED server

ServeCreateSubscription ==
  /\ Receives("CreateSubscription")
  /\ IF Usable
     THEN /\ server' = [server EXCEPT !.created = @ + 1, !.subs = @ \union {server.created + 1}]
          /\ Answer(<<[Response(RequestId, "Good") EXCEPT !.sub = server.created + 1]>>)
     ELSE Answer(<<Response(RequestId, "BadSessionIdInvalid")>>) /\ UNCHANGED server

\* Without subscription no request stays parked.
Remaining(S) ==
  [server EXCEPT !.subs = @ \ S, !.ready = @ \ S,
                 !.retrans = {r \in @ : r[1] \notin S},
                 !.parked = IF server.subs \subseteq S THEN <<>> ELSE @]
DefectForgetParked(S) == <<>>
Orphans(S) ==
  IF server.subs \subseteq S THEN ToEach(server.parked, "BadNoSubscription") ELSE <<>>

ServeDeleteSubscription ==
  /\ Receives("DeleteSubscription")
  /\ LET s == Head(client.out).sub
     IN IF Usable /\ s \in server.subs
        THEN /\ server' = Remaining({s})
             /\ Answer(Append(Orphans({s}), Response(RequestId, "Good")))
        ELSE /\ Answer(<<Response(RequestId, IF Usable THEN "BadSubscriptionIdInvalid"
                                             ELSE "BadSessionIdInvalid")>>)
             /\ UNCHANGED server

Ended == [Remaining(server.subs) EXCEPT !.session = "none", !.bound = FALSE]

ServeCloseSession ==
  /\ Receives("CloseSession")
  /\ IF Usable
     THEN /\ server' = Ended
          /\ Answer(Append(Orphans(server.subs), Response(RequestId, "Good")))
     ELSE Answer(<<Response(RequestId, "BadSessionIdInvalid")>>) /\ UNCHANGED server

\* The channel takes the parked requests with it, not the session.
ChannelGone == [server EXCEPT !.channel = FALSE, !.bound = FALSE, !.parked = <<>>]
ServeCloseChannel == Receives("CLO") /\ Answer(<<>>) /\ server' = ChannelGone

ServerReceives ==
  /\ \/ ServeFind \/ ServeEndpoints \/ ServeCreate \/ ServeActivate \/ ServeCheck
     \/ ServePublish \/ ServeCreateSubscription \/ ServeDeleteSubscription
     \/ ServeCloseSession \/ ServeCloseChannel
  /\ UNCHANGED faults

NewData(s) ==
  /\ s \in server.subs \ server.ready /\ server.seq[s] < MaxSeq
  /\ server' = [server EXCEPT !.ready = @ \union {s}] /\ UNCHANGED <<client, faults>>

\* The publish callback of a subscription; the numbers available for
\* retransmission go along.
Available(s, retrans) == {r[2] : r \in {q \in retrans : q[1] = s}}
PublishNotification(s) ==
  /\ Usable /\ s \in server.ready /\ server.parked # <<>>
  /\ LET n       == server.seq[s] + 1
         retrans == server.retrans \union {<<s, n>>}
     IN /\ server' = [server EXCEPT !.seq[s] = n, !.ready = @ \ {s}, !.retrans = retrans,
                                    !.parked = Tail(@)]
        /\ client' = Sent(client, <<[id |-> Head(server.parked), result |-> "Good", sub |-> s,
                                     seq |-> n, data |-> TRUE, avail |-> Available(s, retrans)]>>)
  /\ UNCHANGED faults

KeepAlive(s) ==
  /\ Usable /\ s \in server.subs \ server.ready /\ server.parked # <<>>
  /\ server' = [server EXCEPT !.parked = Tail(@)]
  /\ client' = Sent(client, <<[id |-> Head(server.parked), result |-> "Good", sub |-> s,
                               seq |-> server.seq[s] + 1, data |-> FALSE,
                               avail |-> Available(s, server.retrans)]>>)
  /\ UNCHANGED faults

\* The session times out, or an administrator closes it.
SessionEnds ==
  /\ server.session # "none" /\ faults < MaxFaults /\ faults' = faults + 1
  /\ server' = Ended
  /\ client' = IF server.bound THEN Sent(client, Orphans(server.subs)) ELSE client

\* A subscription without publish requests reaches its lifetime.
Expire(s) ==
  /\ s \in server.subs /\ server.parked = <<>> /\ faults < MaxFaults /\ faults' = faults + 1
  /\ server' = Remaining({s}) /\ UNCHANGED client

\* The connection breaks; what has arrived at the client can still be read.
Break ==
  /\ server.channel /\ faults < MaxFaults /\ faults' = faults + 1
  /\ server' = ChannelGone
  /\ \E n \in 0..Len(client.in) :
       client' = [client EXCEPT !.lost = (client.channel = "OPEN"), !.out = <<>>,
                                !.in = SubSeq(@, 1, n)]

-----------------------------------------------------------------------------

Init == client = FreshClient /\ server = FreshServer /\ faults = 0

Next ==
  \/ ConnectIterate \/ Iterate \/ CheckTimeout \/ SyncReceive \/ SyncTimeout
  \/ Connect \/ Disconnect \/ CreateSubscription
  \/ ServerReceives \/ SessionEnds \/ Break
  \/ \E s \in Sub : \/ DeleteSubscription(s) \/ NewData(s) \/ PublishNotification(s)
                    \/ KeepAlive(s) \/ Expire(s)

\* The application calls run_iterate again and again, the server reads, and the
\* publish callback of a subscription comes back every publishing interval.
Fairness ==
  /\ WF_vars(ConnectIterate) /\ WF_vars(Iterate) /\ WF_vars(SyncReceive)
  /\ WF_vars(ServerReceives) /\ \A s \in Sub : SF_vars(PublishNotification(s))

Spec == Init /\ [][Next]_vars /\ Fairness
=============================================================================
