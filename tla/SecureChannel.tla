--------------------------- MODULE SecureChannel ---------------------------
(***************************************************************************)
(* A SecureChannel between one client and the server: the HEL/ACK and OPN  *)
(* handshake, the renewal of the security token while requests are being   *)
(* answered, the roll-over of token and keys at either end, the expiry of  *)
(* tokens at the server, and the ways a channel ends.                      *)
(*                                                                         *)
(* The two ends share nothing but the wires. A key is the pair of nonces   *)
(* it was derived from; a nonce is the number of the OPN that carried it,  *)
(* for the server the identifier of the token issued with it.  Requests    *)
(* are of two kinds: a "read" is answered at once, a "publish" is parked   *)
(* and answered at any later time.                                         *)
(*                                                                         *)
(* Time passes in ticks, a fraction of a token's lifetime.  Messages take  *)
(* far less than a tick and the server's housekeeping runs in every one,   *)
(* so the wires are empty and expired channels gone when a tick ends.      *)
(*                                                                         *)
(* The server's channel of a lost connection is gone before the client     *)
(* connects again: channels are independent, and one record stands for     *)
(* each of them in turn.                                                   *)
(*                                                                         *)
(* The variants named Defect... are explained in module Subscription.      *)
(***************************************************************************)
EXTENDS Integers, Sequences

CONSTANTS
  Configs,    \* the configurations: secured (keys matter), session (the client
              \* creates a session as soon as the channel is open), check (it
              \* tests the connection within every tick), diligent (it iterates
              \* often enough to renew in the tick a renewal is due)
  Lifetime,   \* revisedLifetime of every token, in ticks
  RenewAfter, \* three quarters of it: when the client renews
  MaxToken    \* bound: OPN requests sent, and so tokens issued

ASSUME ConfigsAssumption ==
  Configs \subseteq [secured : BOOLEAN, session : BOOLEAN, check : BOOLEAN,
                      diligent : BOOLEAN]
ASSUME TimesAssumption ==
  /\ Lifetime \in Nat \ {0} /\ RenewAfter \in 1..Lifetime
  /\ 4 * RenewAfter <= 3 * Lifetime
ASSUME MaxTokenAssumption == MaxToken \in Nat \ {0}

VARIABLES
  config,     \* the configuration, fixed at the start
  client,     \* the client's end
  server,     \* the server's end
  toServer, toClient,  \* the wires, sequences of messages
  lastTokenId,         \* server->lastTokenId
  lastNonce,  \* the last nonce the client has generated
  renewalIn,  \* ticks until nextChannelRenewal
  waiting,    \* kinds of requests for which the client expects a response
  parked,     \* publish requests are parked at the server
  checked     \* the client has seen an answer in this tick

ends == <<client, server>>
wires == <<toServer, toClient>>
vars == <<config, client, server, toServer, toClient, lastTokenId, lastNonce,
          renewalIn, waiting, parked, checked>>

States == {"FRESH", "HEL_SENT", "ACK_SENT", "ACK_RECEIVED", "OPN_SENT", "OPEN",
           "CLOSED"}
RenewStates == {"NORMAL", "SENT", "NEWTOKEN_SERVER", "NEWTOKEN_CLIENT"}
NoKey == <<0, 0>>

\* An end: its token and the alternative one with the ages the server counts,
\* the nonces, and the keys for sending and for receiving.
Fresh(s) == [state |-> s, renew |-> "NORMAL", token |-> 0, alt |-> 0,
             age |-> 0, altAge |-> 0, localNonce |-> 0, remoteNonce |-> 0,
             localKey |-> NoKey, remoteKey |-> NoKey]

\* The keys that follow from an end's nonces, written as the pair of the
\* client's and the server's nonce.
ClientKey(e) == <<e.localNonce, e.remoteNonce>>
ServerKey(e) == <<e.remoteNonce, e.localNonce>>

Plain(type, kind, token, nonce) ==
  [type |-> type, kind |-> kind, token |-> token, nonce |-> nonce, key |-> NoKey]
Secured(type, kind, e) ==
  [type |-> type, kind |-> kind, token |-> e.token, nonce |-> 0, key |-> e.localKey]

-----------------------------------------------------------------------------
(* Receiving a symmetric message at either end. *)

\* The token e would use next is known and is the message's.
RollsOver(e, m) ==
  /\ e.renew \in {"NEWTOKEN_SERVER", "NEWTOKEN_CLIENT"}
  /\ m.token = IF e.renew = "NEWTOKEN_SERVER" THEN e.alt ELSE e.token
  /\ e.renew = "NEWTOKEN_SERVER" => m.token # e.token
  /\ e.renew = "NEWTOKEN_CLIENT" => m.token # e.alt

\* The server's end moves on to the new token and to the new keys.
ServerRollover(e) ==
  [e EXCEPT !.renew = "NORMAL", !.token = e.alt, !.alt = 0,
            !.age = e.altAge, !.altAge = 0,
            !.localKey = ServerKey(e), !.remoteKey = ServerKey(e)]

\* checkSymHeader without the expiry: the end after the header of m.
Revolved(e, m) ==
  IF ~RollsOver(e, m) THEN e
  ELSE IF e.renew = "NEWTOKEN_SERVER" THEN ServerRollover(e)
  ELSE [e EXCEPT !.renew = "NORMAL", !.alt = 0, !.remoteKey = ClientKey(e)]

\* The token is one of those checkSymHeader accepts; in the states NORMAL and
\* SENT it does not look.
TokenKnown(e, m) ==
  e.renew \in {"NEWTOKEN_SERVER", "NEWTOKEN_CLIENT"} => m.token \in {e.token, e.alt}

\* The server's token has expired; the client counts no age, because the
\* creation date it compares is the server's wall clock.
Expired(e) == e.age > Lifetime

\* The message passes checkSymHeader and decryptAndVerifyChunk.
Accepts(e, m) ==
  /\ e.state # "CLOSED"
  /\ TokenKnown(e, m)
  /\ config.secured => m.key = Revolved(e, m).remoteKey

-----------------------------------------------------------------------------
(* The ends of a channel. *)

DefectForgetPending == waiting
\* Every outstanding call of the client ends with the channel.
AfterClose == {}

\* closeSecureChannel of the client, with the messages out sent before: an open
\* channel says goodbye, then the connection is closed.
ClientCloses(out) ==
  /\ client' = Fresh("CLOSED") /\ waiting' = AfterClose
  /\ toServer' = toServer \o out
       \o (IF client.state = "OPEN" THEN <<Secured("CLO", "none", client)>> ELSE <<>>)
  /\ toClient' = <<>>

\* The server reports an error and closes the connection.
ServerCloses ==
  /\ server' = Fresh("CLOSED") /\ parked' = FALSE
  /\ toServer' = <<>> /\ toClient' = Append(toClient, Plain("ERR", "none", 0, 0))

-----------------------------------------------------------------------------
(* The client. *)

\* initConnect and sendHELMessage: a new connection and its first message.
Connect ==
  /\ client.state = "CLOSED" /\ server.state = "CLOSED" /\ toServer = <<>>
  /\ lastNonce < MaxToken
  /\ client' = Fresh("HEL_SENT") /\ server' = Fresh("FRESH")
  /\ toServer' = <<Plain("HEL", "none", 0, 0)>> /\ toClient' = <<>>
  /\ renewalIn' = 0
  /\ UNCHANGED <<config, lastTokenId, lastNonce, waiting, parked, checked>>

\* The client's end and the OPN it sends with a new nonce.
Renewing(e) == [e EXCEPT !.localNonce = lastNonce + 1, !.renew = "SENT",
                         !.state = IF @ = "OPEN" THEN @ ELSE "OPN_SENT"]
OPN(kind) == Plain("OPN", kind, 0, lastNonce + 1)

\* sendOPNAsync for a new channel, once the ACK is there.
SendOPN ==
  /\ client.state = "ACK_RECEIVED"
  /\ client' = Renewing(client) /\ lastNonce' = lastNonce + 1
  /\ toServer' = Append(toServer, OPN("issue"))
  /\ UNCHANGED <<config, server, toClient, lastTokenId, renewalIn, waiting, parked, checked>>


\* UA_Client_renewSecureChannel sends a request: open, nothing sent yet, and
\* three quarters of the lifetime are over.
RenewalDue ==
  /\ client.state = "OPEN" /\ client.renew # "SENT" /\ renewalIn = 0
  /\ lastNonce < MaxToken

\* The renewal alone, as UA_Client_run_iterate does it.
Renew ==
  /\ RenewalDue
  /\ client' = Renewing(client) /\ lastNonce' = lastNonce + 1
  /\ toServer' = Append(toServer, OPN("renew"))
  /\ UNCHANGED <<config, server, toClient, lastTokenId, renewalIn, waiting, parked, checked>>

\* sendSymmetricServiceRequest: renew when it is time, then send the request
\* under the token and the key in use.  One request of each kind at a time.
SendRequest(kind) ==
  /\ client.state = "OPEN" /\ kind \notin waiting
  /\ waiting' = waiting \union {kind}
  /\ IF RenewalDue
     THEN /\ client' = Renewing(client) /\ lastNonce' = lastNonce + 1
          /\ toServer' = toServer \o <<OPN("renew"), Secured("MSG", kind, client)>>
     ELSE /\ toServer' = Append(toServer, Secured("MSG", kind, client))
          /\ UNCHANGED <<client, lastNonce>>
  /\ UNCHANGED <<config, server, toClient, lastTokenId, renewalIn, parked, checked>>

\* UA_Client_disconnectSecureChannel.
Disconnect ==
  /\ client.state # "CLOSED" /\ ClientCloses(<<>>)
  /\ UNCHANGED <<config, server, lastTokenId, lastNonce, renewalIn, parked, checked>>

Rest == Tail(toClient)

\* processACKResponse.
ReceiveACK ==
  /\ toClient # <<>> /\ Head(toClient).type = "ACK" /\ client.state = "HEL_SENT"
  /\ client' = [client EXCEPT !.state = "ACK_RECEIVED"] /\ toClient' = Rest
  /\ UNCHANGED <<config, server, toServer, lastTokenId, lastNonce, renewalIn, waiting, parked, checked>>

DefectEagerKeys(e, m) ==
  LET n == [e EXCEPT !.remoteNonce = m.nonce]
  IN [n EXCEPT !.state = "OPEN", !.renew = "NEWTOKEN_CLIENT", !.alt = e.token,
               !.token = m.token, !.localKey = ClientKey(n), !.remoteKey = ClientKey(n)]

\* The client's end after an OPN response: new messages go out under the new
\* token and key, the key for receiving stays until the server uses it.
WithNewToken(e, m) ==
  LET n == [e EXCEPT !.remoteNonce = m.nonce]
  IN [n EXCEPT !.state = "OPEN", !.renew = "NEWTOKEN_CLIENT", !.alt = e.token,
               !.token = m.token, !.localKey = ClientKey(n)]

\* processOPNResponse.
ReceiveOPN ==
  /\ toClient # <<>> /\ Head(toClient).type = "OPN"
  /\ client.state \in {"OPN_SENT", "OPEN"}
  /\ client' = WithNewToken(client, Head(toClient)) /\ toClient' = Rest
  /\ renewalIn' = RenewAfter
  /\ UNCHANGED <<config, server, toServer, lastTokenId, lastNonce, waiting, parked, checked>>

\* A response: when its header or its signature is refused the channel closes.
ReceiveResponse ==
  /\ toClient # <<>> /\ Head(toClient).type = "MSG"
  /\ LET m == Head(toClient)
     IN \/ /\ Accepts(client, m)
           /\ client' = Revolved(client, m) /\ toClient' = Rest
           /\ waiting' = waiting \ {m.kind} /\ checked' = TRUE
           /\ UNCHANGED toServer
        \/ /\ ~Accepts(client, m) /\ ClientCloses(<<>>)
           /\ UNCHANGED checked
  /\ UNCHANGED <<config, server, lastTokenId, lastNonce, renewalIn, parked>>

\* processERRResponse closes the channel without a goodbye.
ReceiveERR ==
  /\ toClient # <<>> /\ Head(toClient).type = "ERR"
  /\ client' = Fresh("CLOSED") /\ waiting' = AfterClose
  /\ toClient' = <<>> /\ toServer' = <<>>
  /\ UNCHANGED <<config, server, lastTokenId, lastNonce, renewalIn, parked, checked>>

-----------------------------------------------------------------------------
(* The server. *)

\* processHEL.
ReceiveHEL ==
  /\ toServer # <<>> /\ Head(toServer).type = "HEL" /\ server.state = "FRESH"
  /\ server' = [server EXCEPT !.state = "ACK_SENT"]
  /\ toServer' = Tail(toServer) /\ toClient' = Append(toClient, Plain("ACK", "none", 0, 0))
  /\ UNCHANGED <<config, client, lastTokenId, lastNonce, renewalIn, waiting, parked, checked>>

\* The server's end once the token new is issued in answer to m: it is kept as
\* the alternative one.  A new channel has the token 0 and no keys till then.
Issued(e, m, new) ==
  [e EXCEPT !.state = "OPEN", !.renew = "NEWTOKEN_SERVER", !.alt = new, !.altAge = 0,
            !.remoteNonce = m.nonce, !.localNonce = new]

\* processOPN: UA_SecureChannelManager_open in the state ACK_SENT, _renew in the
\* state OPEN, anything else is an error that closes the channel.
ReceiveOpenRequest ==
  /\ toServer # <<>> /\ Head(toServer).type = "OPN"
  /\ LET m == Head(toServer)
         new == lastTokenId + 1
         fits == \/ m.kind = "issue" /\ server.state = "ACK_SENT"
                 \/ m.kind = "renew" /\ server.state = "OPEN" /\ m.nonce # server.remoteNonce
     IN \/ /\ fits
           /\ server' = Issued(server, m, new) /\ lastTokenId' = new
           /\ toServer' = Tail(toServer)
           /\ toClient' = Append(toClient, Plain("OPN", m.kind, new, new))
           /\ UNCHANGED parked
        \/ ~fits /\ ServerCloses /\ UNCHANGED lastTokenId
  /\ UNCHANGED <<config, client, lastNonce, renewalIn, waiting, checked>>

\* A request: checkSymHeader, then the expiry of the token it leaves in use; a
\* read is answered at once, a publish request waits.
ReceiveRequest ==
  /\ toServer # <<>> /\ Head(toServer).type \in {"MSG", "CLO"}
  /\ LET m == Head(toServer) e == Revolved(server, m)
     IN \/ /\ Accepts(server, m) /\ ~Expired(e) /\ m.type = "MSG"
           /\ server' = e /\ toServer' = Tail(toServer)
           /\ parked' = (parked \/ m.kind = "publish")
           /\ toClient' = IF m.kind = "read"
                          THEN Append(toClient, Secured("MSG", "read", e)) ELSE toClient
        \/ /\ ~(Accepts(server, m) /\ ~Expired(e)) /\ ServerCloses
        \/ /\ Accepts(server, m) /\ ~Expired(e) /\ m.type = "CLO"
           /\ server' = Fresh("CLOSED") /\ parked' = FALSE
           /\ toServer' = <<>> /\ UNCHANGED toClient
  /\ UNCHANGED <<config, client, lastTokenId, lastNonce, renewalIn, waiting, checked>>

\* A parked publish request is answered, under the token in use.
AnswerPublish ==
  /\ parked /\ server.state = "OPEN"
  /\ parked' = FALSE /\ toClient' = Append(toClient, Secured("MSG", "publish", server))
  /\ UNCHANGED <<config, client, server, toServer, lastTokenId, lastNonce,
                 renewalIn, waiting, checked>>

\* UA_Server_cleanupTimedOutSecureChannels rolls an expired token over to the
\* one already issued instead of closing the channel ...
CleanedUp(e) ==
  IF Expired(e) /\ e.renew = "NEWTOKEN_SERVER" THEN ServerRollover(e) ELSE e

\* ... and closes it when that one has expired as well.  A channel that is not
\* open has no creation date yet and is left alone.
CleanUp ==
  /\ server.state = "OPEN" /\ Expired(server)
  /\ IF Expired(CleanedUp(server))
     THEN /\ server' = Fresh("CLOSED") /\ parked' = FALSE /\ toServer' = <<>>
          /\ toClient' = Append(toClient, Plain("FIN", "none", 0, 0))
     ELSE server' = CleanedUp(server) /\ UNCHANGED <<parked, wires>>
  /\ UNCHANGED <<config, client, lastTokenId, lastNonce, renewalIn, waiting, checked>>

-----------------------------------------------------------------------------
(* The connection and time. *)

\* The client finds the connection closed by the server.
ReceiveFIN ==
  /\ toClient # <<>> /\ Head(toClient).type = "FIN"
  /\ client' = Fresh("CLOSED") /\ waiting' = AfterClose
  /\ toClient' = <<>> /\ toServer' = <<>>
  /\ UNCHANGED <<config, server, lastTokenId, lastNonce, renewalIn, parked, checked>>

\* The server finds the connection closed by the client, after everything that
\* was sent before: UA_Server_removeConnection, then the clean-up of a channel
\* without a connection.
RemoveConnection ==
  /\ client.state = "CLOSED" /\ toServer = <<>> /\ server.state # "CLOSED"
  /\ server' = Fresh("CLOSED") /\ parked' = FALSE /\ toClient' = <<>>
  /\ UNCHANGED <<config, client, toServer, lastTokenId, lastNonce, renewalIn, waiting, checked>>

\* What is left for a server that has closed the channel is lost, as is a
\* message for a client that has.
Lost ==
  \/ /\ server.state = "CLOSED" /\ toServer # <<>>
     /\ toServer' = <<>> /\ UNCHANGED toClient
  \/ /\ client.state = "CLOSED" /\ toClient # <<>>
     /\ toClient' = <<>> /\ UNCHANGED toServer
Discard == Lost /\ UNCHANGED <<config, ends, lastTokenId, lastNonce, renewalIn,
                               waiting, parked, checked>>

\* The connection breaks with everything on it.
Break ==
  /\ client.state # "CLOSED" /\ server.state # "CLOSED"
  /\ client' = Fresh("CLOSED") /\ server' = Fresh("CLOSED")
  /\ waiting' = AfterClose /\ parked' = FALSE /\ toServer' = <<>> /\ toClient' = <<>>
  /\ UNCHANGED <<config, lastTokenId, lastNonce, renewalIn, checked>>

Older(n) == IF n > Lifetime THEN n ELSE n + 1

\* A tick ends.
Tick ==
  /\ client.state = "OPEN" /\ server.state = "OPEN"
  /\ toServer = <<>> /\ toClient = <<>> /\ ~Expired(server)
  /\ config.diligent => renewalIn > 0
  /\ config.check => checked
  /\ config.session => server.token # 0
  /\ checked' = FALSE
  /\ renewalIn' = IF renewalIn = 0 THEN 0 ELSE renewalIn - 1
  /\ server' = [server EXCEPT !.age = Older(@),
                              !.altAge = IF server.renew = "NEWTOKEN_SERVER" THEN Older(@) ELSE 0]
  /\ UNCHANGED <<config, client, wires, lastTokenId, lastNonce, waiting, parked>>

Init ==
  /\ config \in Configs
  /\ client = Fresh("CLOSED") /\ server = Fresh("CLOSED")
  /\ toServer = <<>> /\ toClient = <<>>
  /\ lastTokenId = 0 /\ lastNonce = 0 /\ renewalIn = 0
  /\ waiting = {} /\ parked = FALSE /\ checked = FALSE

ClientReceives == ReceiveACK \/ ReceiveOPN \/ ReceiveResponse \/ ReceiveERR \/ ReceiveFIN
ServerReceives == ReceiveHEL \/ ReceiveOpenRequest \/ ReceiveRequest

Next ==
  \/ Connect \/ SendOPN \/ Renew \/ (\E kind \in {"read", "publish"} : SendRequest(kind))
  \/ Disconnect \/ ClientReceives \/ ServerReceives \/ AnswerPublish \/ CleanUp
  \/ RemoveConnection \/ Discard \/ Break \/ Tick

\* Either end reads what has arrived, run_iterate being called again and again,
\* and the server notices a closed connection.
Spec ==
  /\ Init /\ [][Next]_vars
  /\ WF_vars(ClientReceives) /\ WF_vars(ServerReceives) /\ WF_vars(Discard)
=============================================================================
