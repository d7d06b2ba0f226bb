--------------------------- MODULE ChannelProofs ---------------------------
(***************************************************************************)
(* Proof that the two ends of a SecureChannel never refuse each other's    *)
(* messages, whatever the timing, for every lifetime of a token.           *)
(*                                                                         *)
(* The invariant has a part for each end, which says what is on its way to *)
(* it and holds even when the other end has closed; a part that relates    *)
(* the ends while both are there; and a part about time, which says that   *)
(* a renewal never begins before the last one has come to its end.         *)
(***************************************************************************)
EXTENDS SecureChannelProperties, SequenceTheorems, TLAPS

Requests(w) == {i \in DOMAIN w : w[i].type \in {"MSG", "CLO"}}
Responses(w) == {i \in DOMAIN w : w[i].type = "MSG"}
OPNs(w) == {i \in DOMAIN w : w[i].type = "OPN"}

Type == {"HEL", "ACK", "OPN", "MSG", "CLO", "ERR", "FIN"}
Kind == {"none", "issue", "renew", "read", "publish"}
Key == Nat \X Nat
Message == [type : Type, kind : Kind, token : Nat, nonce : Nat, key : Key]
Age == 0..Lifetime + 1
End == [state : States, renew : RenewStates, token : Nat, alt : Nat, age : Age, altAge : Age,
        localNonce : Nat, remoteNonce : Nat, localKey : Key, remoteKey : Key]

ChannelTypes ==
  /\ config \in Configs
  /\ client \in End /\ server \in End
  /\ toServer \in Seq(Message) /\ toClient \in Seq(Message)
  /\ lastTokenId \in Nat /\ lastNonce \in Nat /\ renewalIn \in 0..RenewAfter
  /\ parked \in BOOLEAN /\ checked \in BOOLEAN
  /\ client.state \in {"HEL_SENT", "ACK_RECEIVED", "OPN_SENT", "OPEN", "CLOSED"}
  /\ server.state \in {"FRESH", "ACK_SENT", "OPEN", "CLOSED"}
  /\ client.renew \in {"NORMAL", "SENT", "NEWTOKEN_CLIENT"}
  /\ server.renew \in {"NORMAL", "NEWTOKEN_SERVER"}
  /\ server.token <= lastTokenId /\ server.alt <= lastTokenId

-----------------------------------------------------------------------------
(* What is on its way to an end, in the configuration c. *)

Strict(c) == c.secured \/ c.diligent
Bears(c, m, t, k) == m.token = t /\ (c.secured => m.key = k)
OldRequest(c, e, m) == Bears(c, m, e.token, e.remoteKey)
NewRequest(c, e, m) == Bears(c, m, e.alt, ServerKey(e))
OldResponse(c, e, m) == Bears(c, m, e.alt, e.remoteKey)
NewResponse(c, e, m) == Bears(c, m, e.token, e.localKey)

\* One request at the server's end e: under the token in use or under the new
\* one, and then all that follow; not under a token that may be rolled over for
\* its age.
RequestFits(c, e, w, i) ==
  /\ \A k \in OPNs(w) : k < i => w[i].token = e.token
  /\ e.renew = "NORMAL" /\ c.secured => OldRequest(c, e, w[i])
  /\ e.renew = "NEWTOKEN_SERVER" =>
       /\ OldRequest(c, e, w[i]) \/ NewRequest(c, e, w[i])
       /\ Strict(c) /\ Expired(e) => NewRequest(c, e, w[i])
       /\ c.secured /\ NewRequest(c, e, w[i]) =>
            \A j \in Requests(w) : i < j => NewRequest(c, e, w[j])

ServerSide(c, e, w) ==
  /\ \A i, j \in OPNs(w) : i = j
  /\ OPNs(w) # {} => e.renew = "NORMAL" /\ (Strict(c) => ~Expired(e))
  /\ e.localKey = e.remoteKey
  /\ e.renew = "NEWTOKEN_SERVER" => e.alt # e.token
  /\ \A i \in Requests(w) : RequestFits(c, e, w, i)

\* One response at the client's end e.
ResponseFits(c, e, w, i) ==
  /\ \A k \in OPNs(w) : k < i =>
       w[i].token = e.token \/ (~c.secured /\ w[i].token = w[k].token)
  /\ e.renew # "NEWTOKEN_CLIENT" /\ c.secured => w[i].key = e.remoteKey
  /\ e.renew = "NEWTOKEN_CLIENT" =>
       /\ OldResponse(c, e, w[i]) \/ NewResponse(c, e, w[i])
       /\ c.secured /\ NewResponse(c, e, w[i]) =>
            \A j \in Responses(w) : i < j => NewResponse(c, e, w[j])

ClientSide(c, e, w) ==
  /\ \A i, j \in OPNs(w) : i = j
  /\ \A k \in OPNs(w) : e.renew = "SENT" /\ w[k].token # e.token
  /\ e.renew = "NEWTOKEN_CLIENT" => e.localKey = ClientKey(e) /\ e.alt # e.token
  /\ \A i \in Responses(w) : ResponseFits(c, e, w, i)

-----------------------------------------------------------------------------
(* The ends together. *)

Connecting == {"HEL_SENT", "ACK_RECEIVED", "OPN_SENT"}

\* Nothing is asked of a channel that is not open.
Handshake ==
  /\ server.state \in {"FRESH", "ACK_SENT"} =>
       /\ server.token = 0 /\ client.state # "OPEN"
       /\ Requests(toServer) = {} /\ Responses(toClient) = {} /\ OPNs(toClient) = {}
  /\ client.state \in Connecting =>
       Requests(toServer) = {} /\ Responses(toClient) = {} /\ server.age = 0
  /\ client.state \in {"HEL_SENT", "ACK_RECEIVED"} =>
       client.renew = "NORMAL" /\ server.state # "OPEN"
  /\ server.state # "OPEN" \/ client.state \in Connecting => ~parked

\* No renewal is on its way: the ends agree on the token and the key in use, or
\* the server has not seen the new one in use yet.
Settled ==
  /\ OPNs(toServer) = {}
  /\ server.renew = "NEWTOKEN_SERVER" =>
       /\ client.renew = "NEWTOKEN_CLIENT"
       /\ server.alt = client.token /\ server.token = client.alt
       /\ config.secured => ServerKey(server) = client.localKey /\ server.localKey = client.remoteKey
       /\ \A i \in Responses(toClient) : toClient[i].token = client.alt
  /\ server.renew = "NORMAL" =>
       /\ server.token = client.token
       /\ config.secured => /\ server.localKey = client.localKey
                            /\ client.renew = "NORMAL" => client.remoteKey = client.localKey

\* The k-th message to the server asks for a token.
Asked(k) ==
  /\ OPNs(toClient) = {}
  /\ server.token = client.token /\ toServer[k].nonce = client.localNonce
  /\ config.secured => server.localKey = client.localKey /\ client.remoteKey = client.localKey
  /\ server.state = "OPEN" => server.age >= RenewAfter

\* The k-th message to the client brings one.
Granted(k) ==
  /\ OPNs(toServer) = {}
  /\ server.renew = "NEWTOKEN_SERVER" =>
       /\ server.alt = toClient[k].token /\ server.token = client.token
       /\ ServerKey(server) = <<client.localNonce, toClient[k].nonce>>
       /\ config.secured => server.localKey = client.localKey /\ client.remoteKey = client.localKey
       /\ Strict(config) => ~Expired(server)
       /\ server.altAge = 0 /\ (server.token = 0 \/ server.age >= RenewAfter)
       /\ \A i \in Requests(toServer) : toServer[i].token = server.token
       /\ \A i \in Responses(toClient) : k < i => toClient[i].token = client.token
  /\ server.renew = "NORMAL" =>
       ~Strict(config) /\ server.token = toClient[k].token /\ server.age = 0

Agreement ==
  client.state # "CLOSED" /\ server.state # "CLOSED" =>
    /\ client.renew # "SENT" => Settled
    /\ client.renew = "SENT" => OPNs(toServer) \union OPNs(toClient) # {}
    /\ \A k \in OPNs(toServer) : Asked(k)
    /\ \A k \in OPNs(toClient) : Granted(k)

\* The age of the tokens goes with the time until the next renewal.
Aged ==
  /\ server.renew = "NORMAL" =>
       /\ server.age >= RenewAfter - renewalIn
       /\ renewalIn > 0 \/ config.diligent => server.age <= RenewAfter - renewalIn
  /\ server.renew = "NEWTOKEN_SERVER" =>
       /\ server.altAge >= RenewAfter - renewalIn
       /\ renewalIn > 0 \/ config.diligent => server.altAge <= RenewAfter - renewalIn
       /\ \/ server.token = 0 /\ server.altAge = 0
          \/ server.age >= RenewAfter + server.altAge

\* A client that checks the connection in every tick does not miss a renewal by
\* more than one: without a request only a parked one can be answered.
BeforeRenewal ==
  config.secured /\ renewalIn = 0 /\ lastNonce < MaxToken =>
    /\ Requests(toServer) = {} /\ server.age <= RenewAfter + 1
    /\ checked \/ Responses(toClient) # {} => ~parked
    /\ server.age = RenewAfter + 1 => ~checked /\ ~parked /\ Responses(toClient) = {}

\* Nor does it go on without an answer under the new token for longer.
AfterRenewal ==
  config.secured /\ client.renew = "NEWTOKEN_CLIENT" /\ renewalIn < RenewAfter =>
    /\ server.renew = "NEWTOKEN_SERVER" =>
         \A i \in Requests(toServer) : toServer[i].token = server.alt
    /\ \A i \in Responses(toClient) : toClient[i].token = client.alt => renewalIn = RenewAfter - 1
    /\ checked => renewalIn = RenewAfter - 1
    /\ server.renew = "NEWTOKEN_SERVER" /\ parked =>
         /\ renewalIn = RenewAfter - 1 /\ ~checked
         /\ \A i \in Responses(toClient) : toClient[i].token # client.alt

Timing ==
  client.state = "OPEN" /\ server.state = "OPEN" /\ client.renew # "SENT" =>
    Aged /\ BeforeRenewal /\ AfterRenewal

\* A client that has got a token has used it before it asks for the next.
SoonUsed ==
  client.state # "CLOSED" /\ client.renew = "NEWTOKEN_CLIENT" /\ config.secured =>
    renewalIn >= RenewAfter - 2

Sides ==
  /\ server.state # "CLOSED" => ServerSide(config, server, toServer)
  /\ client.state # "CLOSED" => ClientSide(config, client, toClient)

Parts == Handshake /\ Sides /\ SoonUsed /\ Agreement /\ Timing
ChannelInv == ChannelTypes /\ Parts

-----------------------------------------------------------------------------
(* Wires. *)

\* The wire without a message.
LEMMA EmptyWire ==
    /\ <<>> \in Seq(Message) /\ Requests(<<>>) = {} /\ Responses(<<>>) = {}
    /\ OPNs(<<>>) = {}
BY EmptySeq DEF Requests, Responses, OPNs

\* m is written to w.
LEMMA Written ==
    ASSUME NEW w \in Seq(Message), NEW m \in Message
    PROVE  /\ Append(w, m) \in Seq(Message) /\ Append(w, m) # <<>>
           /\ Append(w, m)[Len(w) + 1] = m
           /\ \A i \in DOMAIN w : i < Len(w) + 1 /\ Append(w, m)[i] = w[i]
           /\ Requests(Append(w, m)) =
                IF m.type \in {"MSG", "CLO"} THEN Requests(w) \union {Len(w) + 1} ELSE Requests(w)
           /\ Responses(Append(w, m)) =
                IF m.type = "MSG" THEN Responses(w) \union {Len(w) + 1} ELSE Responses(w)
           /\ OPNs(Append(w, m)) =
                IF m.type = "OPN" THEN OPNs(w) \union {Len(w) + 1} ELSE OPNs(w)
<1>1. /\ Append(w, m) \in Seq(Message) /\ Append(w, m) # <<>>
      /\ Append(w, m)[Len(w) + 1] = m
      /\ \A i \in DOMAIN w : i < Len(w) + 1 /\ Append(w, m)[i] = w[i]
      /\ DOMAIN Append(w, m) = DOMAIN w \union {Len(w) + 1}
      /\ Len(w) + 1 \notin DOMAIN w
    BY AppendProperties, LenProperties
<1> DEFINE v == Append(w, m)
           n == Len(w) + 1
<1> HIDE DEF v, n
<1>2. /\ v[n] = m /\ DOMAIN v = DOMAIN w \union {n}
      /\ \A i \in DOMAIN w : v[i] = w[i]
    BY <1>1 DEF v, n
<1>3. /\ Requests(v) = IF m.type \in {"MSG", "CLO"} THEN Requests(w) \union {n} ELSE Requests(w)
      /\ Responses(v) = IF m.type = "MSG" THEN Responses(w) \union {n} ELSE Responses(w)
      /\ OPNs(v) = IF m.type = "OPN" THEN OPNs(w) \union {n} ELSE OPNs(w)
    BY <1>2 DEF Requests, Responses, OPNs
<1> QED
    BY <1>1, <1>3 DEF v, n

\* The first message is read from w.
LEMMA Read ==
    ASSUME NEW w \in Seq(Message), w # <<>>
    PROVE  /\ Tail(w) \in Seq(Message) /\ Head(w) \in Message /\ Head(w) = w[1]
           /\ 1 \in DOMAIN w
           /\ \A i \in DOMAIN Tail(w) :
                i \in Nat /\ 1 < i + 1 /\ i + 1 \in DOMAIN w /\ Tail(w)[i] = w[i + 1]
           /\ \A i \in Requests(Tail(w)) : i \in DOMAIN Tail(w) /\ i + 1 \in Requests(w)
           /\ \A i \in Responses(Tail(w)) : i \in DOMAIN Tail(w) /\ i + 1 \in Responses(w)
           /\ \A i \in OPNs(Tail(w)) : i \in DOMAIN Tail(w) /\ i + 1 \in OPNs(w)
           /\ 1 \in Requests(w) <=> Head(w).type \in {"MSG", "CLO"}
           /\ 1 \in Responses(w) <=> Head(w).type = "MSG"
           /\ 1 \in OPNs(w) <=> Head(w).type = "OPN"
<1>1. /\ Tail(w) \in Seq(Message) /\ Head(w) \in Message /\ Head(w) = w[1]
      /\ 1 \in DOMAIN w
      /\ \A i \in DOMAIN Tail(w) :
           i \in Nat /\ 1 < i + 1 /\ i + 1 \in DOMAIN w /\ Tail(w)[i] = w[i + 1]
  <2>1. /\ Tail(w) \in Seq(Message) /\ Len(Tail(w)) = Len(w) - 1
        /\ \A i \in 1..Len(Tail(w)) : Tail(w)[i] = w[i + 1]
        /\ Head(w) \in Message /\ Len(w) \in Nat \ {0}
    BY HeadTailProperties, EmptySeq
  <2>2. DOMAIN w = 1..Len(w) /\ DOMAIN Tail(w) = 1..Len(w) - 1
    BY <2>1, LenProperties
  <2>3. Head(w) = w[1]
    OBVIOUS
  <2> QED
    BY <2>1, <2>2, <2>3
<1> DEFINE v == Tail(w)
<1> HIDE DEF v
<1>2. \A i \in DOMAIN v : i + 1 \in DOMAIN w /\ v[i] = w[i + 1]
    BY <1>1 DEF v
<1>3. /\ \A i \in Requests(v) : i \in DOMAIN v /\ i + 1 \in Requests(w)
      /\ \A i \in Responses(v) : i \in DOMAIN v /\ i + 1 \in Responses(w)
      /\ \A i \in OPNs(v) : i \in DOMAIN v /\ i + 1 \in OPNs(w)
    BY <1>2 DEF Requests, Responses, OPNs
<1>4. /\ 1 \in Requests(w) <=> Head(w).type \in {"MSG", "CLO"}
      /\ 1 \in Responses(w) <=> Head(w).type = "MSG"
      /\ 1 \in OPNs(w) <=> Head(w).type = "OPN"
    BY <1>1 DEF Requests, Responses, OPNs
<1> QED
    BY <1>1, <1>3, <1>4 DEF v

-----------------------------------------------------------------------------
(* The server's end. *)

\* Nothing is on its way to the server.
LEMMA NothingAsked ==
    ASSUME NEW c, NEW e, e.localKey = e.remoteKey,
           e.renew = "NEWTOKEN_SERVER" => e.alt # e.token
    PROVE  ServerSide(c, e, <<>>)
BY EmptyWire DEF ServerSide

\* The server reads a message that changes nothing at its end.
LEMMA ServerReads ==
    ASSUME NEW c, NEW e, NEW w \in Seq(Message), w # <<>>, ServerSide(c, e, w)
    PROVE  ServerSide(c, e, Tail(w))
<1>1. \A i \in OPNs(Tail(w)) : i \in Nat /\ i + 1 \in OPNs(w)
    BY Read
<1>2. \A i \in Requests(Tail(w)) :
        i \in Nat /\ i + 1 \in Requests(w) /\ Tail(w)[i] = w[i + 1]
    BY Read
<1>3. ASSUME NEW i \in Requests(Tail(w)) PROVE RequestFits(c, e, Tail(w), i)
  <2>1. i \in Nat /\ i + 1 \in Requests(w) /\ Tail(w)[i] = w[i + 1]
    BY <1>2, <1>3
  <2>2. RequestFits(c, e, w, i + 1)
    BY <2>1 DEF ServerSide
  <2>3. ASSUME NEW k \in OPNs(Tail(w)), k < i PROVE w[i + 1].token = e.token
    <3>1. k + 1 \in OPNs(w) /\ k + 1 < i + 1
      BY <1>1, <2>1, <2>3
    <3> QED
      BY <2>2, <3>1 DEF RequestFits
  <2>4. ASSUME NEW j \in Requests(Tail(w)), i < j
        PROVE  j + 1 \in Requests(w) /\ i + 1 < j + 1 /\ Tail(w)[j] = w[j + 1]
    <3>1. i \in Nat /\ j \in Nat
      BY <1>2, <2>4
    <3>2. i + 1 < j + 1
      BY <2>4, <3>1
    <3> QED
      BY <1>2, <2>4, <3>2
  <2> QED
    BY <2>1, <2>2, <2>3, <2>4 DEF RequestFits
<1>4. \A i, j \in OPNs(Tail(w)) : i = j
  <2>1. ASSUME NEW i \in OPNs(Tail(w)), NEW j \in OPNs(Tail(w)) PROVE i = j
    <3>1. i + 1 = j + 1 /\ i \in Nat /\ j \in Nat
      BY <1>1 DEF ServerSide
    <3> QED
      BY <3>1
  <2> QED
    BY <2>1
<1>5. OPNs(Tail(w)) # {} => OPNs(w) # {}
    BY <1>1
<1> QED
    BY <1>3, <1>4, <1>5 DEF ServerSide

\* The client writes a request, under the token in use or under the new one.
LEMMA RequestWritten ==
    ASSUME NEW c, NEW e, NEW w \in Seq(Message), ServerSide(c, e, w),
           NEW m \in Message, m.type \in {"MSG", "CLO"},
           OPNs(w) # {} => m.token = e.token,
           e.renew = "NORMAL" /\ c.secured => OldRequest(c, e, m),
           e.renew = "NEWTOKEN_SERVER" =>
             \/ NewRequest(c, e, m)
             \/ /\ OldRequest(c, e, m) /\ (Strict(c) => ~Expired(e))
                /\ \A i \in Requests(w) : w[i].token = e.token
    PROVE  ServerSide(c, e, Append(w, m))
<1> DEFINE v == Append(w, m)
           n == Len(w) + 1
<1>1. /\ v[n] = m /\ OPNs(v) = OPNs(w) /\ Requests(v) = Requests(w) \union {n}
      /\ \A i \in DOMAIN w : i < n /\ v[i] = w[i]
      /\ n \in Nat /\ DOMAIN w \subseteq Nat
    BY Written, LenProperties
<1>2. \A i \in Requests(w) : i \in DOMAIN w /\ i \in Nat
    BY <1>1 DEF Requests
<1>3. \A k \in OPNs(w) : k \in DOMAIN w
    BY DEF OPNs
<1> HIDE DEF v, n
<1>4. ASSUME NEW i \in Requests(w) PROVE RequestFits(c, e, v, i)
  <2>1. RequestFits(c, e, w, i) /\ v[i] = w[i] /\ i < n
    BY <1>1, <1>2 DEF ServerSide
  <2>2. \A j \in Requests(v) : i < j => j = n \/ (j \in Requests(w) /\ v[j] = w[j])
    BY <1>1, <1>2
  <2>3. ASSUME e.renew = "NEWTOKEN_SERVER", c.secured, NewRequest(c, e, w[i])
        PROVE  NewRequest(c, e, m)
    BY <2>3, <1>4 DEF ServerSide, NewRequest, Bears
  <2> QED
    BY <1>1, <2>1, <2>2, <2>3 DEF RequestFits
<1>5. RequestFits(c, e, v, n)
  <2>1. ~ \E j \in Requests(v) : n < j
    BY <1>1, <1>2
  <2>2. \A k \in OPNs(v) : k < n => v[n].token = e.token
    BY <1>1
  <2> QED
    BY <1>1, <2>1, <2>2 DEF RequestFits
<1> QED
    BY <1>1, <1>4, <1>5 DEF ServerSide, v

\* The client asks for a token.
LEMMA OPNWritten ==
    ASSUME NEW c, NEW e, NEW w \in Seq(Message), ServerSide(c, e, w),
           NEW m \in Message, m.type = "OPN", OPNs(w) = {},
           e.renew = "NORMAL", Strict(c) => ~Expired(e)
    PROVE  ServerSide(c, e, Append(w, m))
<1> DEFINE v == Append(w, m)
           n == Len(w) + 1
<1>1. /\ v[n] = m /\ OPNs(v) = {n} /\ Requests(v) = Requests(w)
      /\ \A i \in DOMAIN w : i < n /\ v[i] = w[i]
      /\ n \in Nat /\ DOMAIN w \subseteq Nat
    BY Written, LenProperties
<1>2. \A i \in Requests(w) : i \in DOMAIN w /\ ~(n < i) /\ v[i] = w[i]
    BY <1>1 DEF Requests
<1> HIDE DEF v, n
<1>3. ASSUME NEW i \in Requests(w) PROVE RequestFits(c, e, v, i)
  <2>1. RequestFits(c, e, w, i)
    BY DEF ServerSide
  <2> QED
    BY <1>1, <1>2, <2>1 DEF RequestFits
<1> QED
    BY <1>1, <1>3 DEF ServerSide, v

\* The requests on the wire w are all under the token t.
AllUnder(w, t) == \A i \in Requests(w) : w[i].token = t

\* The server issues a token: what follows bears the one in use.
LEMMA TokenIssued ==
    ASSUME NEW c, NEW e, NEW f, NEW w \in Seq(Message), w # <<>>, Head(w).type = "OPN",
           ServerSide(c, e, w),
           f.renew = "NEWTOKEN_SERVER", f.token = e.token, f.alt # e.token, f.age = e.age,
           f.localKey = e.localKey, f.remoteKey = e.remoteKey,
           NEW v, v = Tail(w)
    PROVE  /\ ServerSide(c, f, v) /\ OPNs(v) = {}
           /\ Strict(c) => ~Expired(f)
           /\ AllUnder(v, e.token)
<1>1. 1 \in OPNs(w)
    BY Read
<1>2. OPNs(Tail(w)) = {}
  <2>1. ASSUME NEW i \in OPNs(Tail(w)) PROVE FALSE
    <3>1. i \in Nat /\ 1 < i + 1 /\ i + 1 \in OPNs(w)
      BY Read
    <3> QED
      BY <1>1, <3>1 DEF ServerSide
  <2> QED
    BY <2>1
<1>3. e.renew = "NORMAL" /\ (Strict(c) => ~Expired(f))
    BY <1>1 DEF ServerSide, Expired
<1>4. ASSUME NEW i \in Requests(Tail(w))
      PROVE  Tail(w)[i].token = e.token /\ (c.secured => OldRequest(c, e, Tail(w)[i]))
  <2>1. /\ i \in Nat /\ i + 1 \in Requests(w) /\ 1 < i + 1 /\ Tail(w)[i] = w[i + 1]
    BY Read
  <2>2. RequestFits(c, e, w, i + 1)
    BY <2>1 DEF ServerSide
  <2> QED
    BY <1>1, <1>3, <2>1, <2>2 DEF RequestFits
<1>5. ASSUME NEW i \in Requests(Tail(w)) PROVE RequestFits(c, f, Tail(w), i)
  <2>1. OldRequest(c, f, Tail(w)[i]) /\ ~NewRequest(c, f, Tail(w)[i])
    BY <1>4 DEF OldRequest, NewRequest, Bears
  <2> QED
    BY <1>2, <1>3, <2>1 DEF RequestFits
<1>6. ServerSide(c, f, Tail(w))
    BY <1>2, <1>3, <1>5 DEF ServerSide
<1>7. AllUnder(Tail(w), e.token)
    BY <1>4 DEF AllUnder
<1> QED
    BY <1>2, <1>3, <1>6, <1>7

\* The server's end f follows from e by moving on to the new token.
LEMMA ServerMovesOn ==
    ASSUME NEW c, NEW e, NEW f, NEW w, ServerSide(c, e, w),
           e.renew = "NEWTOKEN_SERVER", f.renew = "NORMAL", f.token = e.alt,
           f.localKey = ServerKey(e), f.remoteKey = ServerKey(e),
           c.secured => \A i \in Requests(w) : NewRequest(c, e, w[i])
    PROVE  ServerSide(c, f, w)
<1>1. OPNs(w) = {}
    BY DEF ServerSide
<1>2. ASSUME NEW i \in Requests(w) PROVE RequestFits(c, f, w, i)
    BY <1>1 DEF RequestFits, OldRequest, NewRequest, Bears
<1> QED
    BY <1>1, <1>2 DEF ServerSide

\* The next request is one that the server accepts.
LEMMA NextRequest ==
    ASSUME NEW c, NEW e, NEW w \in Seq(Message), w # <<>>, ServerSide(c, e, w),
           Head(w).type \in {"MSG", "CLO"}
    PROVE  /\ e.renew = "NORMAL" /\ c.secured => Head(w).key = e.remoteKey
           /\ e.renew = "NEWTOKEN_SERVER" =>
                /\ OldRequest(c, e, Head(w)) \/ NewRequest(c, e, Head(w))
                /\ Strict(c) /\ Expired(e) => NewRequest(c, e, Head(w))
                /\ c.secured /\ NewRequest(c, e, Head(w)) =>
                     \A i \in Requests(Tail(w)) : NewRequest(c, e, Tail(w)[i])
<1>1. 1 \in Requests(w) /\ Head(w) = w[1]
    BY Read
<1>2. RequestFits(c, e, w, 1)
    BY <1>1 DEF ServerSide
<1>3. ASSUME NEW i \in Requests(Tail(w))
      PROVE  i + 1 \in Requests(w) /\ 1 < i + 1 /\ Tail(w)[i] = w[i + 1]
    BY Read
<1>4. \A i \in Requests(Tail(w)) : \E j \in Requests(w) : 1 < j /\ Tail(w)[i] = w[j]
    BY <1>3
<1> QED
    BY <1>1, <1>2, <1>4 DEF RequestFits, OldRequest, Bears

-----------------------------------------------------------------------------
(* The client's end. *)

\* Nothing is on its way to the client.
LEMMA NothingAnswered ==
    ASSUME NEW c, NEW e,
           e.renew = "NEWTOKEN_CLIENT" => e.localKey = ClientKey(e) /\ e.alt # e.token
    PROVE  ClientSide(c, e, <<>>)
BY EmptyWire DEF ClientSide

\* The client reads a message that changes nothing at its end.
LEMMA ClientReads ==
    ASSUME NEW c, NEW e, NEW w \in Seq(Message), w # <<>>, ClientSide(c, e, w)
    PROVE  ClientSide(c, e, Tail(w))
<1>1. \A i \in OPNs(Tail(w)) : i \in Nat /\ i + 1 \in OPNs(w) /\ Tail(w)[i] = w[i + 1]
    BY Read
<1>2. \A i \in Responses(Tail(w)) :
        i \in Nat /\ i + 1 \in Responses(w) /\ Tail(w)[i] = w[i + 1]
    BY Read
<1>3. ASSUME NEW i \in Responses(Tail(w)) PROVE ResponseFits(c, e, Tail(w), i)
  <2>1. i \in Nat /\ i + 1 \in Responses(w) /\ Tail(w)[i] = w[i + 1]
    BY <1>2, <1>3
  <2>2. ResponseFits(c, e, w, i + 1)
    BY <2>1 DEF ClientSide
  <2>3. ASSUME NEW k \in OPNs(Tail(w)), k < i
        PROVE  \/ Tail(w)[i].token = e.token
               \/ ~c.secured /\ Tail(w)[i].token = Tail(w)[k].token
    <3>1. k + 1 \in OPNs(w) /\ k + 1 < i + 1 /\ Tail(w)[k] = w[k + 1]
      <4>1. i \in Nat /\ k \in Nat
        BY <1>1, <1>2, <2>3
      <4>2. k + 1 < i + 1
        BY <2>3, <4>1
      <4> QED
        BY <1>1, <2>3, <4>2
    <3> QED
      BY <2>1, <2>2, <3>1 DEF ResponseFits
  <2>4. ASSUME NEW j \in Responses(Tail(w)), i < j
        PROVE  j + 1 \in Responses(w) /\ i + 1 < j + 1 /\ Tail(w)[j] = w[j + 1]
    <3>1. i \in Nat /\ j \in Nat
      BY <1>2, <2>4
    <3>2. i + 1 < j + 1
      BY <2>4, <3>1
    <3> QED
      BY <1>2, <2>4, <3>2
  <2> QED
    BY <2>1, <2>2, <2>3, <2>4 DEF ResponseFits
<1>4. \A i, j \in OPNs(Tail(w)) : i = j
  <2>1. ASSUME NEW i \in OPNs(Tail(w)), NEW j \in OPNs(Tail(w)) PROVE i = j
    <3>1. i + 1 = j + 1 /\ i \in Nat /\ j \in Nat
      BY <1>1 DEF ClientSide
    <3> QED
      BY <3>1
  <2> QED
    BY <2>1
<1>5. \A k \in OPNs(Tail(w)) : e.renew = "SENT" /\ Tail(w)[k].token # e.token
    BY <1>1 DEF ClientSide
<1> QED
    BY <1>3, <1>4, <1>5 DEF ClientSide

\* The server writes a response, under the token before or under the new one.
LEMMA ResponseWritten ==
    ASSUME NEW c, NEW e, NEW w \in Seq(Message), ClientSide(c, e, w),
           NEW m \in Message, m.type = "MSG",
           \A k \in OPNs(w) : m.token = e.token \/ (~c.secured /\ m.token = w[k].token),
           e.renew # "NEWTOKEN_CLIENT" /\ c.secured => m.key = e.remoteKey,
           e.renew = "NEWTOKEN_CLIENT" =>
             \/ NewResponse(c, e, m)
             \/ OldResponse(c, e, m) /\ \A i \in Responses(w) : w[i].token = e.alt
    PROVE  ClientSide(c, e, Append(w, m))
<1> DEFINE v == Append(w, m)
           n == Len(w) + 1
<1>1. /\ v[n] = m /\ OPNs(v) = OPNs(w) /\ Responses(v) = Responses(w) \union {n}
      /\ \A i \in DOMAIN w : i < n /\ v[i] = w[i]
      /\ n \in Nat /\ DOMAIN w \subseteq Nat
    BY Written, LenProperties
<1>2. \A i \in Responses(w) : i \in DOMAIN w /\ i \in Nat
    BY <1>1 DEF Responses
<1>3. \A k \in OPNs(w) : k \in DOMAIN w /\ v[k] = w[k]
    BY <1>1 DEF OPNs
<1> HIDE DEF v, n
<1>4. ASSUME NEW i \in Responses(w) PROVE ResponseFits(c, e, v, i)
  <2>1. ResponseFits(c, e, w, i) /\ v[i] = w[i] /\ i < n
    BY <1>1, <1>2 DEF ClientSide
  <2>2. \A j \in Responses(v) : i < j => j = n \/ (j \in Responses(w) /\ v[j] = w[j])
    BY <1>1, <1>2
  <2>3. ASSUME e.renew = "NEWTOKEN_CLIENT", c.secured, NewResponse(c, e, w[i])
        PROVE  NewResponse(c, e, m)
    BY <2>3, <1>4 DEF ClientSide, NewResponse, Bears
  <2> QED
    BY <1>1, <1>3, <2>1, <2>2, <2>3 DEF ResponseFits
<1>5. ResponseFits(c, e, v, n)
  <2>1. ~ \E j \in Responses(v) : n < j
    BY <1>1, <1>2
  <2>2. \A k \in OPNs(v) : v[n].token = e.token \/ (~c.secured /\ v[n].token = v[k].token)
    BY <1>1, <1>3
  <2> QED
    BY <1>1, <2>1, <2>2 DEF ResponseFits
<1>6. \A k \in OPNs(v) : e.renew = "SENT" /\ v[k].token # e.token
    BY <1>1, <1>3 DEF ClientSide
<1> QED
    BY <1>1, <1>4, <1>5, <1>6 DEF ClientSide, v

\* The server writes something else than a response.
LEMMA OtherWritten ==
    ASSUME NEW c, NEW e, NEW w \in Seq(Message), ClientSide(c, e, w),
           NEW m \in Message, m.type \notin {"MSG", "OPN"}
    PROVE  ClientSide(c, e, Append(w, m))
<1> DEFINE v == Append(w, m)
<1>1. /\ OPNs(v) = OPNs(w) /\ Responses(v) = Responses(w)
      /\ \A i \in DOMAIN w : v[i] = w[i]
    BY Written
<1>2. /\ \A i \in Responses(w) : v[i] = w[i]
      /\ \A k \in OPNs(w) : v[k] = w[k]
    BY <1>1 DEF Responses, OPNs
<1> HIDE DEF v
<1>3. ASSUME NEW i \in Responses(w) PROVE ResponseFits(c, e, v, i)
  <2>1. ResponseFits(c, e, w, i)
    BY DEF ClientSide
  <2> QED
    BY <1>1, <1>2, <2>1 DEF ResponseFits
<1> QED
    BY <1>1, <1>2, <1>3 DEF ClientSide, v

\* The server answers with a token.
LEMMA TokenWritten ==
    ASSUME NEW c, NEW e, NEW w \in Seq(Message), ClientSide(c, e, w),
           NEW m \in Message, m.type = "OPN", OPNs(w) = {},
           e.renew = "SENT", m.token # e.token
    PROVE  ClientSide(c, e, Append(w, m))
<1> DEFINE v == Append(w, m)
           n == Len(w) + 1
<1>1. /\ v[n] = m /\ OPNs(v) = {n} /\ Responses(v) = Responses(w)
      /\ \A i \in DOMAIN w : i < n /\ v[i] = w[i]
      /\ n \in Nat /\ DOMAIN w \subseteq Nat
    BY Written, LenProperties
<1>2. \A i \in Responses(w) : i \in DOMAIN w /\ ~(n < i) /\ v[i] = w[i]
    BY <1>1 DEF Responses
<1> HIDE DEF v, n
<1>3. ASSUME NEW i \in Responses(w) PROVE ResponseFits(c, e, v, i)
  <2>1. ResponseFits(c, e, w, i)
    BY DEF ClientSide
  <2> QED
    BY <1>1, <1>2, <2>1 DEF ResponseFits
<1> QED
    BY <1>1, <1>3 DEF ClientSide, v

\* The client takes the token: what follows bears the one before or this one.
LEMMA TokenTaken ==
    ASSUME NEW c, NEW e, NEW f, NEW w \in Seq(Message), w # <<>>, Head(w).type = "OPN",
           ClientSide(c, e, w),
           f.renew = "NEWTOKEN_CLIENT", f.alt = e.token, f.token = Head(w).token,
           f.localKey = ClientKey(f), f.remoteKey = e.remoteKey
    PROVE  ClientSide(c, f, Tail(w)) /\ OPNs(Tail(w)) = {}
<1>1. 1 \in OPNs(w) /\ Head(w) = w[1]
    BY Read
<1>2. OPNs(Tail(w)) = {}
  <2>1. ASSUME NEW i \in OPNs(Tail(w)) PROVE FALSE
    <3>1. i \in Nat /\ 1 < i + 1 /\ i + 1 \in OPNs(w)
      BY Read
    <3> QED
      BY <1>1, <3>1 DEF ClientSide
  <2> QED
    BY <2>1
<1>3. e.renew = "SENT" /\ Head(w).token # e.token
    BY <1>1 DEF ClientSide
<1>4. ASSUME NEW i \in Responses(Tail(w))
      PROVE  /\ \/ Tail(w)[i].token = e.token
                \/ ~c.secured /\ Tail(w)[i].token = Head(w).token
             /\ c.secured => Tail(w)[i].key = e.remoteKey
  <2>1. /\ i \in Nat /\ i + 1 \in Responses(w) /\ 1 < i + 1 /\ Tail(w)[i] = w[i + 1]
    BY Read
  <2>2. ResponseFits(c, e, w, i + 1)
    BY <2>1 DEF ClientSide
  <2> QED
    BY <1>1, <1>3, <2>1, <2>2 DEF ResponseFits
<1>5. ASSUME NEW i \in Responses(Tail(w)) PROVE ResponseFits(c, f, Tail(w), i)
  <2>1. OldResponse(c, f, Tail(w)[i]) \/ NewResponse(c, f, Tail(w)[i])
    BY <1>4 DEF OldResponse, NewResponse, Bears
  <2>2. c.secured => ~NewResponse(c, f, Tail(w)[i])
    BY <1>3, <1>4 DEF NewResponse, Bears
  <2> QED
    BY <1>2, <2>1, <2>2 DEF ResponseFits
<1> QED
    BY <1>2, <1>3, <1>5 DEF ClientSide

\* The client's end f follows from e by moving on to the new key.
LEMMA ClientMovesOn ==
    ASSUME NEW c, NEW e, NEW f, NEW w, ClientSide(c, e, w),
           e.renew = "NEWTOKEN_CLIENT", f.renew = "NORMAL", f.token = e.token,
           f.remoteKey = ClientKey(e),
           c.secured => \A i \in Responses(w) : NewResponse(c, e, w[i])
    PROVE  ClientSide(c, f, w)
<1>1. OPNs(w) = {} /\ e.localKey = ClientKey(e)
    BY DEF ClientSide
<1>2. ASSUME NEW i \in Responses(w) PROVE ResponseFits(c, f, w, i)
    BY <1>1 DEF ResponseFits, NewResponse, Bears
<1> QED
    BY <1>1, <1>2 DEF ClientSide

\* The client asks for a token when it has used the last one.
LEMMA ClientRenews ==
    ASSUME NEW c, NEW e, NEW f, NEW w, ClientSide(c, e, w), OPNs(w) = {},
           c.secured => e.renew # "NEWTOKEN_CLIENT",
           f.renew = "SENT", f.remoteKey = e.remoteKey
    PROVE  ClientSide(c, f, w)
<1>1. ASSUME NEW i \in Responses(w) PROVE ResponseFits(c, f, w, i)
  <2>1. ResponseFits(c, e, w, i)
    BY DEF ClientSide
  <2> QED
    BY <2>1 DEF ResponseFits
<1> QED
    BY <1>1 DEF ClientSide

\* The next response is one that the client accepts.
LEMMA NextResponse ==
    ASSUME NEW c, NEW e, NEW w \in Seq(Message), w # <<>>, ClientSide(c, e, w),
           Head(w).type = "MSG"
    PROVE  /\ e.renew # "NEWTOKEN_CLIENT" /\ c.secured => Head(w).key = e.remoteKey
           /\ e.renew = "NEWTOKEN_CLIENT" =>
                /\ OldResponse(c, e, Head(w)) \/ NewResponse(c, e, Head(w))
                /\ c.secured /\ NewResponse(c, e, Head(w)) =>
                     \A i \in Responses(Tail(w)) : NewResponse(c, e, Tail(w)[i])
<1>1. 1 \in Responses(w) /\ Head(w) = w[1]
    BY Read
<1>2. ResponseFits(c, e, w, 1)
    BY <1>1 DEF ClientSide
<1>3. ASSUME NEW i \in Responses(Tail(w))
      PROVE  i + 1 \in Responses(w) /\ 1 < i + 1 /\ Tail(w)[i] = w[i + 1]
    BY Read
<1>4. \A i \in Responses(Tail(w)) : \E j \in Responses(w) : 1 < j /\ Tail(w)[i] = w[j]
    BY <1>3
<1> QED
    BY <1>1, <1>2, <1>4 DEF ResponseFits

-----------------------------------------------------------------------------
(* Types. *)

\* Two renewals take longer than a token lives and a tick more: the ticks are
\* fine enough to tell three quarters of a lifetime from the half of it.
FineTicks == 2 * RenewAfter >= Lifetime + 2

\* Clients create a session, and check a connection that is secured.
CheckedConfigs == \A c \in Configs : c.session /\ (c.secured => c.check)

\* The times.
LEMMA Times ==
    /\ Lifetime \in Nat \ {0} /\ RenewAfter \in Nat \ {0} /\ RenewAfter <= Lifetime
    /\ Age \subseteq Nat /\ 0 \in Age
    /\ FineTicks => RenewAfter >= 3 /\ RenewAfter + 1 <= Lifetime
BY TimesAssumption DEF FineTicks, Age

\* New ends and messages.
LEMMA Made ==
    /\ \A s \in States : Fresh(s) \in End
    /\ \A t \in Type, k \in Kind, i \in Nat, n \in Nat : Plain(t, k, i, n) \in Message
    /\ \A t \in Type, k \in Kind, e \in End : Secured(t, k, e) \in Message
    /\ \A e \in End : ClientKey(e) \in Key /\ ServerKey(e) \in Key
    /\ \A e \in End : e.age \in Age /\ e.altAge \in Age /\ e.age \in Nat /\ e.altAge \in Nat
BY Times DEF Fresh, End, Message, Plain, Secured, RenewStates, NoKey, Key, ClientKey, ServerKey

\* The wire to the server when a client closes.
LEMMA Goodbye ==
    ASSUME ChannelTypes
    PROVE  /\ toServer \o <<>> = toServer
           /\ \A m \in Message : toServer \o <<m>> = Append(toServer, m)
           /\ \A m, n \in Message : toServer \o <<m, n>> = Append(Append(toServer, m), n)
OBVIOUS

\* The ends after a message or after the roll-over for age.
LEMMA RolledOver ==
    ASSUME NEW e \in End
    PROVE  /\ ServerRollover(e) \in End
           /\ ServerRollover(e).state = e.state /\ ServerRollover(e).renew = "NORMAL"
           /\ ServerRollover(e).token = e.alt /\ ServerRollover(e).alt = 0
           /\ ServerRollover(e).age = e.altAge /\ ServerRollover(e).altAge = 0
           /\ ServerRollover(e).localKey = ServerKey(e)
           /\ ServerRollover(e).remoteKey = ServerKey(e)
           /\ ServerKey(ServerRollover(e)) = ServerKey(e)
           /\ CleanedUp(e) = IF Expired(e) /\ e.renew = "NEWTOKEN_SERVER"
                             THEN ServerRollover(e) ELSE e
<1>1. ServerKey(e) \in Key /\ ClientKey(e) \in Key /\ 0 \in Age
    BY Made, Times
<1>2. /\ ServerRollover(e) \in End
      /\ ServerRollover(e).state = e.state /\ ServerRollover(e).renew = "NORMAL"
      /\ ServerRollover(e).token = e.alt /\ ServerRollover(e).alt = 0
      /\ ServerRollover(e).age = e.altAge /\ ServerRollover(e).altAge = 0
      /\ ServerRollover(e).localKey = ServerKey(e)
      /\ ServerRollover(e).remoteKey = ServerKey(e)
    BY <1>1 DEF ServerRollover, End, RenewStates
<1>3. ServerKey(ServerRollover(e)) = ServerKey(e)
    BY DEF ServerKey, ServerRollover, End
<1> QED
    BY <1>2, <1>3 DEF CleanedUp

\* The ends after the header of a message.
LEMMA Moved ==
    ASSUME NEW e \in End, NEW m
    PROVE  /\ RollsOver(e, m) /\ e.renew = "NEWTOKEN_SERVER" =>
                Revolved(e, m) = ServerRollover(e)
           /\ ~RollsOver(e, m) => Revolved(e, m) = e
           /\ RollsOver(e, m) /\ e.renew # "NEWTOKEN_SERVER" =>
                /\ Revolved(e, m) = [e EXCEPT !.renew = "NORMAL", !.alt = 0, !.remoteKey = ClientKey(e)]
                /\ Revolved(e, m) \in End
<1>1. ClientKey(e) \in Key
    BY Made
<1>2. [e EXCEPT !.renew = "NORMAL", !.alt = 0, !.remoteKey = ClientKey(e)] \in End
    BY <1>1 DEF End, RenewStates
<1> QED
    BY <1>2 DEF Revolved

\* Every step of the client keeps the types.
LEMMA ClientTypes ==
    ASSUME ChannelTypes,
           \/ Connect \/ SendOPN \/ Renew \/ (\E kind \in {"read", "publish"} : SendRequest(kind))
           \/ Disconnect \/ ClientReceives \/ Break
    PROVE  ChannelTypes'
<1>1. /\ client \in End /\ server \in End /\ toServer \in Seq(Message) /\ toClient \in Seq(Message)
      /\ lastNonce \in Nat /\ renewalIn \in 0..RenewAfter /\ lastTokenId \in Nat
    BY DEF ChannelTypes
<1>2. /\ Fresh("CLOSED") \in End /\ Fresh("HEL_SENT") \in End /\ Fresh("FRESH") \in End
      /\ Fresh("CLOSED").state = "CLOSED" /\ Fresh("HEL_SENT").state = "HEL_SENT"
      /\ Fresh("FRESH").state = "FRESH" /\ Fresh("CLOSED").renew = "NORMAL"
      /\ Fresh("FRESH").renew = "NORMAL" /\ Fresh("HEL_SENT").renew = "NORMAL"
      /\ Fresh("FRESH").token = 0 /\ Fresh("FRESH").alt = 0
      /\ Fresh("CLOSED").token = 0 /\ Fresh("CLOSED").alt = 0
    BY Made DEF States, Fresh
<1>3. ASSUME NEW w \in Seq(Message), NEW m \in Message
      PROVE  Append(w, m) \in Seq(Message)
    BY <1>3, Written
<1>4. <<>> \in Seq(Message) /\ RenewAfter \in 0..RenewAfter /\ 0 \in 0..RenewAfter
    BY EmptyWire, Times
<1>5. \A kind \in {"issue", "renew"} : OPN(kind) \in Message
    BY <1>1, Made DEF OPN, Type, Kind
<1>6. \A kind \in {"read", "publish"} : Secured("MSG", kind, client) \in Message
    BY <1>1, Made DEF Type, Kind
<1>7. /\ Renewing(client) \in End /\ Renewing(client).renew = "SENT"
      /\ Renewing(client).state \in {"OPN_SENT", "OPEN"}
  <2> DEFINE s == IF client.state = "OPEN" THEN "OPEN" ELSE "OPN_SENT"
  <2>1. s \in {"OPN_SENT", "OPEN"}
    OBVIOUS
  <2>2. Renewing(client) =
          [client EXCEPT !.localNonce = lastNonce + 1, !.renew = "SENT", !.state = s]
    BY <1>1 DEF Renewing, End
  <2>3. s \in States /\ lastNonce + 1 \in Nat /\ "SENT" \in RenewStates
    BY <1>1, <2>1 DEF States, RenewStates
  <2> HIDE DEF s
  <2>4. Renewing(client) \in End
    BY <1>1, <2>2, <2>3 DEF End
  <2>5. Renewing(client).renew = "SENT" /\ Renewing(client).state = s
    BY <1>1, <2>2 DEF End
  <2> QED
    BY <2>1, <2>4, <2>5
<1>8. Secured("CLO", "none", client) \in Message
    BY <1>1, Made DEF Type, Kind
<1>9. ASSUME ClientCloses(<<>>) PROVE toServer' \in Seq(Message) /\ client' = Fresh("CLOSED") /\ toClient' = <<>>
    BY <1>1, <1>3, <1>8, <1>9, Goodbye DEF ClientCloses
<1>10. CASE Connect
  <2>1. <<Plain("HEL", "none", 0, 0)>> \in Seq(Message)
    <3>1. Plain("HEL", "none", 0, 0) \in Message
      BY Made DEF Type, Kind
    <3> QED
      BY <3>1
  <2> QED
    BY <1>2, <1>4, <1>10, <2>1 DEF Connect, ChannelTypes, States
<1>11. CASE SendOPN
    BY <1>1, <1>3, <1>5, <1>7, <1>11 DEF SendOPN, ChannelTypes
<1>12. CASE Renew
    BY <1>1, <1>3, <1>5, <1>7, <1>12 DEF Renew, ChannelTypes
<1>13. CASE \E kind \in {"read", "publish"} : SendRequest(kind)
  <2>1. PICK kind \in {"read", "publish"} : SendRequest(kind)
    BY <1>13
  <2>2. CASE RenewalDue
    <3>1. toServer' = Append(Append(toServer, OPN("renew")), Secured("MSG", kind, client))
      BY <2>1, <2>2, <1>5, <1>6, Goodbye DEF SendRequest
    <3>2. toServer' \in Seq(Message)
      BY <1>1, <1>3, <1>5, <1>6, <3>1
    <3> QED
      BY <1>1, <1>7, <2>1, <2>2, <3>2 DEF SendRequest, ChannelTypes
  <2>3. CASE ~RenewalDue
    BY <1>1, <1>3, <1>6, <2>1, <2>3 DEF SendRequest, ChannelTypes
  <2> QED
    BY <2>2, <2>3
<1>14. CASE Disconnect
    BY <1>2, <1>4, <1>9, <1>14 DEF Disconnect, ChannelTypes
<1>15. CASE ReceiveACK
  <2>1. client' \in End /\ client'.state = "ACK_RECEIVED" /\ client'.renew = client.renew
    BY <1>1, <1>15 DEF ReceiveACK, End, States
  <2> QED
    BY <1>1, <1>15, <2>1, Read DEF ReceiveACK, Rest, ChannelTypes
<1>16. CASE ReceiveOPN
  <2>1. Head(toClient) \in Message
    BY <1>1, <1>16, Read DEF ReceiveOPN
  <2> DEFINE n == [client EXCEPT !.remoteNonce = Head(toClient).nonce]
  <2>2. n \in End
    BY <1>1, <2>1 DEF End, Message
  <2>3. ClientKey(n) \in Key
    BY <2>2, Made
  <2>4. WithNewToken(client, Head(toClient)) =
          [n EXCEPT !.state = "OPEN", !.renew = "NEWTOKEN_CLIENT", !.alt = client.token,
                    !.token = Head(toClient).token, !.localKey = ClientKey(n)]
    BY DEF WithNewToken
  <2> HIDE DEF n
  <2>5. client' \in End /\ client'.state = "OPEN" /\ client'.renew = "NEWTOKEN_CLIENT"
    BY <1>1, <1>16, <2>1, <2>2, <2>3, <2>4 DEF ReceiveOPN, End, Message, States, RenewStates
  <2> QED
    BY <1>1, <1>4, <1>16, <2>5, Read DEF ReceiveOPN, Rest, ChannelTypes
<1>17. CASE ReceiveResponse
  <2>1. CASE Accepts(client, Head(toClient)) /\ client' = Revolved(client, Head(toClient))
             /\ toClient' = Rest /\ checked' = TRUE /\ UNCHANGED toServer
    <3>1. /\ client' \in End /\ client'.state = client.state
          /\ client'.renew \in {"NORMAL", client.renew}
      <4>1. client.renew # "NEWTOKEN_SERVER"
        BY DEF ChannelTypes
      <4>2. CASE RollsOver(client, Head(toClient))
        <5>1. /\ client' = [client EXCEPT !.renew = "NORMAL", !.alt = 0, !.remoteKey = ClientKey(client)]
              /\ client' \in End
          BY <1>1, <2>1, <4>1, <4>2, Moved
        <5> QED
          BY <1>1, <5>1 DEF End
      <4>3. CASE ~RollsOver(client, Head(toClient))
        BY <1>1, <2>1, <4>3, Moved
      <4> QED
        BY <4>2, <4>3
    <3> QED
      BY <1>1, <1>17, <2>1, <3>1, Read DEF ReceiveResponse, Rest, ChannelTypes
  <2>2. CASE ClientCloses(<<>>) /\ UNCHANGED checked
    BY <1>2, <1>4, <1>9, <1>17, <2>2 DEF ReceiveResponse, ChannelTypes
  <2> QED
    BY <1>17, <2>1, <2>2 DEF ReceiveResponse
<1>18. CASE ReceiveERR \/ ReceiveFIN
    BY <1>2, <1>4, <1>18 DEF ReceiveERR, ReceiveFIN, ChannelTypes
<1>19. CASE Break
  <2>1. parked' \in BOOLEAN
    BY <1>19 DEF Break
  <2>2. /\ client' = Fresh("CLOSED") /\ server' = Fresh("CLOSED")
        /\ toServer' = <<>> /\ toClient' = <<>>
        /\ UNCHANGED <<config, lastTokenId, lastNonce, renewalIn, checked>>
    BY <1>19 DEF Break
  <2> QED
    BY <1>2, <1>4, <2>1, <2>2 DEF ChannelTypes, States
<1> QED
    BY <1>10, <1>11, <1>12, <1>13, <1>14, <1>15, <1>16, <1>17, <1>18, <1>19 DEF ClientReceives

\* The server closes the channel.
LEMMA ServerGoneTypes ==
    ASSUME ChannelTypes, server' = Fresh("CLOSED"), parked' \in BOOLEAN,
           toServer' \in Seq(Message), toClient' \in Seq(Message),
           UNCHANGED <<config, client, lastTokenId, lastNonce, renewalIn, checked>>
    PROVE  ChannelTypes'
<1>1. /\ Fresh("CLOSED") \in End /\ Fresh("CLOSED").state = "CLOSED"
      /\ Fresh("CLOSED").renew = "NORMAL" /\ Fresh("CLOSED").token = 0 /\ Fresh("CLOSED").alt = 0
    BY Made DEF States, Fresh
<1> QED
    BY <1>1 DEF ChannelTypes

\* Every step of the server, and of time, keeps the types.
LEMMA ServerTypes ==
    ASSUME ChannelTypes,
           \/ ServerReceives \/ AnswerPublish \/ CleanUp \/ RemoveConnection \/ Discard \/ Tick
    PROVE  ChannelTypes'
<1>1. /\ client \in End /\ server \in End /\ toServer \in Seq(Message) /\ toClient \in Seq(Message)
      /\ lastNonce \in Nat /\ renewalIn \in 0..RenewAfter /\ lastTokenId \in Nat
      /\ server.token <= lastTokenId /\ server.alt <= lastTokenId
    BY DEF ChannelTypes
<1>2. /\ Fresh("CLOSED") \in End /\ Fresh("CLOSED").state = "CLOSED"
      /\ Fresh("CLOSED").renew = "NORMAL" /\ Fresh("CLOSED").token = 0 /\ Fresh("CLOSED").alt = 0
    BY Made DEF States, Fresh
<1>3. ASSUME NEW w \in Seq(Message), NEW m \in Message
      PROVE  Append(w, m) \in Seq(Message)
    BY <1>3, Written
<1>4. <<>> \in Seq(Message)
    BY EmptyWire
<1>5. \A t \in Type, k \in Kind, i \in Nat, n \in Nat : Plain(t, k, i, n) \in Message
    BY Made
<1>6. CASE ReceiveHEL
  <2>1. server' \in End /\ server'.state = "ACK_SENT" /\ server'.renew = server.renew
        /\ server'.token = server.token /\ server'.alt = server.alt
    BY <1>1, <1>6 DEF ReceiveHEL, End, States
  <2>2. toClient' \in Seq(Message) /\ toServer' \in Seq(Message)
    BY <1>1, <1>3, <1>5, <1>6, Read DEF ReceiveHEL, Type, Kind
  <2> QED
    BY <1>1, <1>6, <2>1, <2>2 DEF ReceiveHEL, ChannelTypes
<1>7. ASSUME ServerCloses PROVE /\ server' = Fresh("CLOSED") /\ parked' = FALSE
                                /\ toServer' \in Seq(Message) /\ toClient' \in Seq(Message)
    BY <1>1, <1>3, <1>4, <1>5, <1>7 DEF ServerCloses, Type, Kind
<1>8. CASE ReceiveOpenRequest
  <2> DEFINE m == Head(toServer)
             new == lastTokenId + 1
  <2>1. m \in Message /\ Tail(toServer) \in Seq(Message) /\ new \in Nat
    BY <1>1, <1>8, Read DEF ReceiveOpenRequest
  <2>2. CASE ServerCloses /\ UNCHANGED lastTokenId
    BY <1>1, <1>2, <1>7, <1>8, <2>2 DEF ReceiveOpenRequest, ChannelTypes
  <2>3. CASE /\ server' = Issued(server, m, new) /\ lastTokenId' = new
             /\ toServer' = Tail(toServer)
             /\ toClient' = Append(toClient, Plain("OPN", m.kind, new, new))
             /\ UNCHANGED parked
    <3>1. Plain("OPN", m.kind, new, new) \in Message
      BY <1>5, <2>1 DEF Message, Type
    <3>2. toClient' \in Seq(Message)
      BY <1>1, <1>3, <2>3, <3>1
    <3> HIDE DEF m, new
    <3>3. /\ server' \in End /\ server'.state = "OPEN" /\ server'.renew = "NEWTOKEN_SERVER"
          /\ server'.token = server.token /\ server'.alt = new
      BY <1>1, <2>1, <2>3, Times DEF Issued, End, Message, States, RenewStates
    <3>4. server'.token <= lastTokenId' /\ server'.alt <= lastTokenId'
      <4>1. lastTokenId' = lastTokenId + 1 /\ server'.alt = lastTokenId + 1
        BY <2>3, <3>3 DEF new
      <4>2. server.token \in Nat
        BY <1>1 DEF End
      <4> QED
        BY <1>1, <3>3, <4>1, <4>2
    <3> QED
      BY <1>1, <1>8, <2>1, <2>3, <3>2, <3>3, <3>4 DEF ReceiveOpenRequest, ChannelTypes
  <2> QED
    BY <1>8, <2>2, <2>3 DEF ReceiveOpenRequest
<1>9. CASE ReceiveRequest
  <2> DEFINE m == Head(toServer)
             e == Revolved(server, m)
  <2>1. m \in Message /\ Tail(toServer) \in Seq(Message)
    BY <1>1, <1>9, Read DEF ReceiveRequest
  <2>2. CASE ServerCloses
    BY <1>1, <1>2, <1>7, <1>9, <2>2 DEF ReceiveRequest, ChannelTypes
  <2>3. CASE /\ Accepts(server, m) /\ ~Expired(e) /\ m.type = "MSG"
             /\ server' = e /\ toServer' = Tail(toServer)
             /\ parked' = (parked \/ m.kind = "publish")
             /\ toClient' = IF m.kind = "read"
                            THEN Append(toClient, Secured("MSG", "read", e)) ELSE toClient
    <3>1. e \in End /\ e.state = server.state /\ e.renew \in {"NORMAL", server.renew}
          /\ e.token <= lastTokenId /\ e.alt <= lastTokenId
      <4>1. RollsOver(server, m) => server.renew = "NEWTOKEN_SERVER"
        BY DEF ChannelTypes, RollsOver
      <4>2. CASE RollsOver(server, m)
        <5>1. e = ServerRollover(server)
          BY <1>1, <4>1, <4>2, Moved
        <5> HIDE DEF e
        <5>2. e.alt = 0 /\ e.token = server.alt /\ e.renew = "NORMAL"
          BY <1>1, <5>1, RolledOver
        <5> QED
          BY <1>1, <5>1, <5>2, RolledOver
      <4>3. CASE ~RollsOver(server, m)
        BY <1>1, <4>3, Moved
      <4> QED
        BY <4>2, <4>3
    <3> HIDE DEF e
    <3>2. Secured("MSG", "read", e) \in Message
      BY <3>1, Made DEF Type, Kind
    <3>3. toClient' \in Seq(Message)
      BY <1>1, <1>3, <2>3, <3>2
    <3>4. parked' \in BOOLEAN
      BY <2>3
    <3> QED
      BY <1>1, <1>9, <2>1, <2>3, <3>1, <3>3, <3>4 DEF ReceiveRequest, ChannelTypes
  <2>4. CASE /\ server' = Fresh("CLOSED") /\ parked' = FALSE
             /\ toServer' = <<>> /\ UNCHANGED toClient
    <3>1. parked' \in BOOLEAN
      BY <2>4
    <3>2. /\ server' = Fresh("CLOSED") /\ toServer' = <<>> /\ toClient' = toClient
          /\ UNCHANGED <<config, client, lastTokenId, lastNonce, renewalIn, checked>>
      BY <1>9, <2>4 DEF ReceiveRequest
    <3> QED
      BY <1>1, <1>4, <3>1, <3>2, ServerGoneTypes
  <2> QED
    BY <1>9, <2>2, <2>3, <2>4 DEF ReceiveRequest
<1>10. CASE AnswerPublish
  <2>1. Secured("MSG", "publish", server) \in Message
    BY <1>1, Made DEF Type, Kind
  <2> QED
    BY <1>1, <1>3, <1>10, <2>1 DEF AnswerPublish, ChannelTypes
<1>11. CASE CleanUp
  <2>1. CASE /\ server' = Fresh("CLOSED") /\ parked' = FALSE /\ toServer' = <<>>
             /\ toClient' = Append(toClient, Plain("FIN", "none", 0, 0))
    <3>1. toClient' \in Seq(Message)
      BY <1>1, <1>3, <1>5, <2>1 DEF Type, Kind
    <3>2. parked' \in BOOLEAN
      BY <2>1
    <3>3. /\ server' = Fresh("CLOSED") /\ toServer' = <<>>
          /\ UNCHANGED <<config, client, lastTokenId, lastNonce, renewalIn, checked>>
      BY <1>11, <2>1 DEF CleanUp
    <3> QED
      BY <1>4, <3>1, <3>2, <3>3, ServerGoneTypes
  <2>2. CASE server' = CleanedUp(server) /\ UNCHANGED <<parked, wires>>
    <3>1. /\ server' \in End /\ server'.state = server.state
          /\ server'.renew \in {"NORMAL", server.renew}
          /\ server'.token <= lastTokenId /\ server'.alt <= lastTokenId
      <4>1. lastTokenId' = lastTokenId
        BY <1>11 DEF CleanUp
      <4>2. CASE Expired(server) /\ server.renew = "NEWTOKEN_SERVER"
        <5>1. server' = ServerRollover(server)
          BY <1>1, <2>2, <4>2, RolledOver
        <5>2. server'.alt = 0 /\ server'.token = server.alt /\ server'.renew = "NORMAL"
          BY <1>1, <5>1, RolledOver
        <5> QED
          BY <1>1, <4>1, <5>1, <5>2, RolledOver
      <4>3. CASE ~(Expired(server) /\ server.renew = "NEWTOKEN_SERVER")
        BY <1>1, <2>2, <4>1, <4>3, RolledOver
      <4> QED
        BY <4>2, <4>3
    <3> QED
      BY <1>1, <1>11, <2>2, <3>1 DEF CleanUp, ChannelTypes, wires
  <2> QED
    BY <1>11, <2>1, <2>2 DEF CleanUp
<1>12. CASE RemoveConnection
  <2>1. parked' \in BOOLEAN
    BY <1>12 DEF RemoveConnection
  <2>2. /\ server' = Fresh("CLOSED") /\ toServer' = toServer /\ toClient' = <<>>
        /\ UNCHANGED <<config, client, lastTokenId, lastNonce, renewalIn, checked>>
    BY <1>12 DEF RemoveConnection
  <2> QED
    BY <1>1, <1>4, <2>1, <2>2, ServerGoneTypes
<1>13. CASE Discard
    BY <1>1, <1>4, <1>13 DEF Discard, Lost, ends, ChannelTypes
<1>14. CASE Tick
  <2>1. ASSUME NEW n \in Age PROVE Older(n) \in Age
    BY <2>1, TimesAssumption DEF Older, Age
  <2>2. /\ server' \in End /\ server'.state = server.state /\ server'.renew = server.renew
        /\ server'.token = server.token /\ server'.alt = server.alt
    BY <1>1, <1>14, <2>1, Times DEF Tick, End
  <2>3. renewalIn' \in 0..RenewAfter
    BY <1>1, <1>14, Times DEF Tick
  <2> QED
    BY <1>1, <1>14, <2>2, <2>3 DEF Tick, wires, ChannelTypes
<1> QED
    BY <1>6, <1>8, <1>9, <1>10, <1>11, <1>12, <1>13, <1>14 DEF ServerReceives

-----------------------------------------------------------------------------
(* The invariant in the forms the steps use. *)

\* A channel open at the client is open at the server, or closed there.
LEMMA OpenAtServer ==
    ASSUME ChannelInv, client.state = "OPEN" \/ Requests(toServer) # {}
                         \/ Responses(toClient) # {} \/ OPNs(toClient) # {}
    PROVE  server.state \in {"OPEN", "CLOSED"}
<1>1. server.state \in {"FRESH", "ACK_SENT", "OPEN", "CLOSED"}
    BY DEF ChannelInv, ChannelTypes
<1>2. server.state \notin {"FRESH", "ACK_SENT"}
    BY DEF ChannelInv, Parts, Handshake
<1> QED
    BY <1>1, <1>2

\* Requests and responses are of a channel the client has opened.
LEMMA OpenAtClient ==
    ASSUME ChannelInv, Requests(toServer) # {} \/ Responses(toClient) # {} \/ parked
    PROVE  client.state \in {"OPEN", "CLOSED"}
<1>1. client.state \in Connecting \union {"OPEN", "CLOSED"}
    BY DEF ChannelInv, ChannelTypes, Connecting
<1>2. client.state \notin Connecting
    BY DEF ChannelInv, Parts, Handshake
<1> QED
    BY <1>1, <1>2

\* A token that is on its way, in either direction, and one that is not.
LEMMA OnItsWay ==
    ASSUME ChannelInv, client.state # "CLOSED", server.state # "CLOSED"
    PROVE  /\ client.renew # "SENT" => Settled /\ OPNs(toServer) = {} /\ OPNs(toClient) = {}
           /\ client.renew = "SENT" =>
                \/ /\ \E k \in OPNs(toServer) : Asked(k)
                   /\ OPNs(toClient) = {} /\ server.renew = "NORMAL"
                   /\ Strict(config) => ~Expired(server)
                \/ /\ \E k \in OPNs(toClient) : Granted(k)
                   /\ OPNs(toServer) = {}
           /\ OPNs(toServer) # {} => client.renew = "SENT"
           /\ OPNs(toClient) # {} => client.renew = "SENT"
<1>1. /\ client.renew # "SENT" => Settled
      /\ client.renew = "SENT" => OPNs(toServer) \union OPNs(toClient) # {}
      /\ \A k \in OPNs(toServer) : Asked(k)
      /\ \A k \in OPNs(toClient) : Granted(k)
    BY DEF ChannelInv, Parts, Agreement
<1>2. OPNs(toServer) # {} => server.renew = "NORMAL" /\ (Strict(config) => ~Expired(server))
    BY DEF ChannelInv, Parts, Sides, ServerSide
<1>3. \A k \in OPNs(toClient) : client.renew = "SENT"
    BY DEF ChannelInv, Parts, Sides, ClientSide
<1>4. Settled => OPNs(toServer) = {}
    BY DEF Settled
<1>5. \A k \in OPNs(toServer) : OPNs(toClient) = {}
    BY <1>1 DEF Asked
<1>6. \A k \in OPNs(toClient) : OPNs(toServer) = {}
    BY <1>1 DEF Granted
<1> QED
    BY <1>1, <1>2, <1>3, <1>4, <1>5, <1>6

\* What an open client writes fits at the server.
LEMMA ClientWrites ==
    ASSUME ChannelInv, client.state = "OPEN", server.state # "CLOSED",
           NEW m \in Message, m.type \in {"MSG", "CLO"},
           m.token = client.token, m.key = client.localKey
    PROVE  ServerSide(config, server, Append(toServer, m))
<1>1. /\ toServer \in Seq(Message) /\ server.renew \in {"NORMAL", "NEWTOKEN_SERVER"}
      /\ ServerSide(config, server, toServer)
    BY DEF ChannelInv, ChannelTypes, Parts, Sides
<1>2. server.localKey = server.remoteKey
    BY <1>1 DEF ServerSide
<1>3. OPNs(toServer) # {} => m.token = server.token
    BY OnItsWay DEF Asked
<1>4. ASSUME server.renew = "NORMAL", config.secured PROVE OldRequest(config, server, m)
  <2>1. CASE client.renew # "SENT"
    BY <1>2, <1>4, <2>1, OnItsWay DEF Settled, OldRequest, Bears
  <2>2. CASE client.renew = "SENT" /\ \E k \in OPNs(toServer) : Asked(k)
    BY <1>2, <1>4, <2>2 DEF Asked, OldRequest, Bears
  <2>3. CASE \E k \in OPNs(toClient) : Granted(k)
    BY <1>4, <2>3 DEF Granted, Strict
  <2> QED
    BY <2>1, <2>2, <2>3, OnItsWay
<1>5. ASSUME server.renew = "NEWTOKEN_SERVER"
      PROVE  \/ NewRequest(config, server, m)
             \/ /\ OldRequest(config, server, m) /\ (Strict(config) => ~Expired(server))
                /\ \A i \in Requests(toServer) : toServer[i].token = server.token
  <2>1. CASE client.renew # "SENT"
    BY <1>5, <2>1, OnItsWay DEF Settled, NewRequest, Bears
  <2>2. CASE client.renew = "SENT"
    <3>1. \E k \in OPNs(toClient) : Granted(k)
      BY <1>5, <2>2, OnItsWay
    <3> QED
      BY <1>2, <1>5, <3>1 DEF Granted, OldRequest, Bears
  <2> QED
    BY <2>1, <2>2
<1> QED
    BY <1>1, <1>3, <1>4, <1>5, RequestWritten

\* What the server writes on an open channel fits at the client.
LEMMA ServerWrites ==
    ASSUME ChannelInv, client.state # "CLOSED", server.state = "OPEN",
           NEW m \in Message, m.type = "MSG",
           m.token = server.token, m.key = server.localKey
    PROVE  ClientSide(config, client, Append(toClient, m))
<1>1. /\ toClient \in Seq(Message) /\ server.renew \in {"NORMAL", "NEWTOKEN_SERVER"}
      /\ ClientSide(config, client, toClient)
    BY DEF ChannelInv, ChannelTypes, Parts, Sides
<1>2. ASSUME NEW k \in OPNs(toClient)
      PROVE  m.token = client.token \/ (~config.secured /\ m.token = toClient[k].token)
  <2>1. Granted(k)
    BY <1>2 DEF ChannelInv, Parts, Agreement
  <2> QED
    BY <1>1, <2>1 DEF Granted, Strict
<1>3. ASSUME client.renew # "NEWTOKEN_CLIENT", config.secured
      PROVE  m.key = client.remoteKey
  <2>1. CASE client.renew # "SENT"
    <3>1. Settled /\ client.renew = "NORMAL"
      BY <1>3, <2>1, OnItsWay DEF ChannelInv, ChannelTypes
    <3> QED
      BY <1>1, <1>3, <3>1 DEF Settled
  <2>2. CASE \E k \in OPNs(toServer) : Asked(k)
    BY <1>3, <2>2 DEF Asked
  <2>3. CASE \E k \in OPNs(toClient) : Granted(k)
    BY <1>1, <1>3, <2>3 DEF Granted, Strict
  <2> QED
    BY <2>1, <2>2, <2>3, OnItsWay
<1>4. ASSUME client.renew = "NEWTOKEN_CLIENT"
      PROVE  \/ NewResponse(config, client, m)
             \/ /\ OldResponse(config, client, m)
                /\ \A i \in Responses(toClient) : toClient[i].token = client.alt
  <2>1. Settled
    BY <1>4, OnItsWay
  <2>2. CASE server.renew = "NORMAL"
    BY <2>1, <2>2 DEF Settled, NewResponse, Bears
  <2>3. CASE server.renew = "NEWTOKEN_SERVER"
    BY <2>1, <2>3 DEF Settled, OldResponse, Bears
  <2> QED
    BY <1>1, <2>2, <2>3
<1> QED
    BY <1>1, <1>2, <1>3, <1>4, ResponseWritten

\* The client closes the channel.
LEMMA ClientGone ==
    ASSUME ChannelInv, client'.state = "CLOSED", toClient' = <<>>,
           UNCHANGED <<config, server, parked>>,
           server.state # "CLOSED" => ServerSide(config, server, toServer'),
           server.state \in {"FRESH", "ACK_SENT"} => Requests(toServer') = {}
    PROVE  Parts'
<1>1. Handshake'
    BY EmptyWire DEF ChannelInv, Parts, Handshake, Connecting
<1>2. Sides'
    BY DEF Sides
<1>3. SoonUsed' /\ Agreement' /\ Timing'
    BY DEF SoonUsed, Agreement, Timing
<1> QED
    BY <1>1, <1>2, <1>3 DEF Parts

\* The server closes the channel.
LEMMA ServerGone ==
    ASSUME ChannelInv, server' = Fresh("CLOSED"), ~parked',
           Requests(toServer') = {},
           UNCHANGED <<config, client, renewalIn>>,
           client.state # "CLOSED" => ClientSide(config, client, toClient'),
           client.state \in Connecting => Responses(toClient') = {}
    PROVE  Parts'
<1>1. server'.state = "CLOSED" /\ server'.age = 0
    BY DEF Fresh
<1>2. Handshake'
    BY <1>1 DEF ChannelInv, Parts, Handshake, Connecting
<1>3. Sides'
    BY <1>1 DEF Sides
<1>4. SoonUsed' /\ Agreement' /\ Timing'
    BY <1>1 DEF ChannelInv, Parts, SoonUsed, Agreement, Timing
<1> QED
    BY <1>2, <1>3, <1>4 DEF Parts

-----------------------------------------------------------------------------
(* The steps of the client. *)

\* A new connection.
LEMMA ConnectKeeps == ASSUME ChannelInv, Connect PROVE Parts'
<1> DEFINE hel == Plain("HEL", "none", 0, 0)
<1>1. /\ client' = Fresh("HEL_SENT") /\ server' = Fresh("FRESH")
      /\ toServer' = <<hel>> /\ toClient' = <<>> /\ ~parked
      /\ UNCHANGED <<config, parked>>
    BY DEF Connect, ChannelInv, Parts, Handshake
<1>2. /\ Requests(toServer') = {} /\ OPNs(toServer') = {}
      /\ Requests(toClient') = {} /\ Responses(toClient') = {} /\ OPNs(toClient') = {}
  <2>1. hel.type = "HEL"
    BY DEF Plain
  <2>2. DOMAIN toServer' = {1} /\ toServer'[1] = hel
    BY <1>1
  <2>3. DOMAIN toClient' = {}
    BY <1>1
  <2> QED
    BY <2>1, <2>2, <2>3 DEF Requests, Responses, OPNs
<1>3. /\ client'.state = "HEL_SENT" /\ client'.renew = "NORMAL" /\ client'.token = 0
      /\ client'.localKey = NoKey /\ client'.remoteKey = NoKey
      /\ server'.state = "FRESH" /\ server'.renew = "NORMAL" /\ server'.token = 0
      /\ server'.localKey = NoKey /\ server'.remoteKey = NoKey /\ server'.age = 0
    BY <1>1 DEF Fresh
<1>4. Handshake'
    BY <1>1, <1>2, <1>3 DEF Handshake
<1>5. ServerSide(config', server', toServer')
    BY <1>2, <1>3 DEF ServerSide
<1>6. ClientSide(config', client', toClient')
    BY <1>2, <1>3 DEF ClientSide
<1>7. Sides' /\ SoonUsed' /\ Timing'
    BY <1>3, <1>5, <1>6 DEF Sides, SoonUsed, Timing
<1>8. Agreement'
    BY <1>2, <1>3 DEF Agreement, Settled
<1> QED
    BY <1>4, <1>7, <1>8 DEF Parts

\* The client's end when it asks for a token.
LEMMA RenewingEnd ==
    ASSUME ChannelTypes
    PROVE  /\ Renewing(client).state = IF client.state = "OPEN" THEN "OPEN" ELSE "OPN_SENT"
           /\ Renewing(client).renew = "SENT" /\ Renewing(client).token = client.token
           /\ Renewing(client).localNonce = lastNonce + 1
           /\ Renewing(client).localKey = client.localKey
           /\ Renewing(client).remoteKey = client.remoteKey
<1>1. client \in End
    BY DEF ChannelTypes
<1> QED
    BY <1>1 DEF Renewing, End

\* The client asks for a token in the n-th message.
LEMMA Asks ==
    ASSUME ChannelInv, client' = Renewing(client), UNCHANGED <<config, server, toClient, parked>>,
           OPNs(toClient) = {}, config.secured => client.renew # "NEWTOKEN_CLIENT",
           client.state \in {"OPEN", "ACK_RECEIVED"},
           client.state = "ACK_RECEIVED" => Requests(toServer') = {},
           NEW n,
           server.state # "CLOSED" =>
             /\ OPNs(toServer') = {n} /\ toServer'[n].nonce = lastNonce + 1
             /\ ServerSide(config, server, toServer') /\ server.token = client.token
             /\ config.secured => /\ server.localKey = client.localKey
                                  /\ client.remoteKey = client.localKey
             /\ server.state = "OPEN" => server.age >= RenewAfter
    PROVE  Parts'
<1>1. /\ client'.state = IF client.state = "OPEN" THEN "OPEN" ELSE "OPN_SENT"
      /\ client'.renew = "SENT" /\ client'.token = client.token
      /\ client'.localNonce = lastNonce + 1
      /\ client'.localKey = client.localKey /\ client'.remoteKey = client.remoteKey
    BY RenewingEnd DEF ChannelInv
<1>2. Handshake'
  <2>1. CASE client.state = "OPEN"
    BY <1>1, <2>1 DEF ChannelInv, Parts, Handshake, Connecting
  <2>2. CASE client.state = "ACK_RECEIVED"
    BY <1>1, <2>2 DEF ChannelInv, Parts, Handshake, Connecting
  <2> QED
    BY <2>1, <2>2
<1>3. ClientSide(config, client', toClient)
  <2>1. client.state # "CLOSED"
    OBVIOUS
  <2>2. ClientSide(config, client, toClient)
    BY <2>1 DEF ChannelInv, Parts, Sides
  <2> QED
    BY <1>1, <2>2, ClientRenews
<1>4. Sides'
    BY <1>3 DEF Sides
<1>5. SoonUsed' /\ Timing'
    BY <1>1 DEF SoonUsed, Timing
<1>6. Agreement'
    BY <1>1 DEF Agreement, Asked
<1> QED
    BY <1>2, <1>4, <1>5, <1>6 DEF Parts

\* The wire with an OPN, and with a request behind it.
LEMMA AskingWire ==
    ASSUME NEW w \in Seq(Message), OPNs(w) = {}, NEW o \in Message, o.type = "OPN",
           NEW m \in Message, m.type \in {"MSG", "CLO"}
    PROVE  /\ OPNs(Append(w, o)) = {Len(w) + 1} /\ Append(w, o)[Len(w) + 1] = o
           /\ Requests(Append(w, o)) = Requests(w)
           /\ OPNs(Append(Append(w, o), m)) = {Len(w) + 1}
           /\ Append(Append(w, o), m)[Len(w) + 1] = o
<1> DEFINE v == Append(w, o)
<1>1. /\ v \in Seq(Message) /\ OPNs(v) = {Len(w) + 1} /\ v[Len(w) + 1] = o
      /\ Requests(v) = Requests(w) /\ Len(w) + 1 \in DOMAIN v
  <2>1. /\ v \in Seq(Message) /\ OPNs(v) = OPNs(w) \union {Len(w) + 1} /\ v[Len(w) + 1] = o
        /\ Requests(v) = Requests(w)
    BY Written
  <2>2. OPNs(v) = {Len(w) + 1}
    BY <2>1
  <2> QED
    BY <2>1, <2>2 DEF OPNs
<1> HIDE DEF v
<1>2. OPNs(Append(v, m)) = OPNs(v) /\ \A i \in DOMAIN v : Append(v, m)[i] = v[i]
    BY <1>1, Written
<1> QED
    BY <1>1, <1>2 DEF v

\* The first token is asked for.
LEMMA SendOPNKeeps == ASSUME ChannelInv, SendOPN PROVE Parts'
<1>1. /\ client.state = "ACK_RECEIVED" /\ client' = Renewing(client)
      /\ toServer' = Append(toServer, OPN("issue"))
      /\ UNCHANGED <<config, server, toClient, parked>>
    BY DEF SendOPN
<1>2. /\ toServer \in Seq(Message) /\ lastNonce \in Nat
      /\ client.renew = "NORMAL" /\ server.state # "OPEN"
      /\ Requests(toServer) = {} /\ server.age = 0
    BY <1>1 DEF ChannelInv, ChannelTypes, Parts, Handshake, Connecting
<1>3. OPNs(toClient) = {}
    BY <1>1, <1>2 DEF ChannelInv, Parts, Sides, ClientSide
<1>4. /\ OPN("issue") \in Message /\ OPN("issue").type = "OPN"
      /\ OPN("issue").nonce = lastNonce + 1
    BY <1>2, Made DEF OPN, Type, Kind, Plain
<1>5. ASSUME server.state # "CLOSED"
      PROVE  /\ Settled /\ server.renew = "NORMAL" /\ OPNs(toServer) = {}
             /\ ServerSide(config, server, toServer) /\ ~Expired(server)
  <2>1. Settled /\ OPNs(toServer) = {}
    BY <1>1, <1>2, <1>5, OnItsWay
  <2>2. server.renew = "NORMAL" /\ ServerSide(config, server, toServer)
    BY <1>2, <1>5, <2>1 DEF Settled, ChannelInv, ChannelTypes, Parts, Sides
  <2>3. ~Expired(server)
    BY <1>2, Times DEF Expired
  <2> QED
    BY <2>1, <2>2, <2>3
<1>6. Requests(toServer') = {}
    BY <1>1, <1>2, <1>4, Written
<1>7. ASSUME server.state # "CLOSED"
      PROVE  /\ OPNs(toServer') = {Len(toServer) + 1}
             /\ toServer'[Len(toServer) + 1].nonce = lastNonce + 1
             /\ ServerSide(config, server, toServer') /\ server.token = client.token
             /\ config.secured => /\ server.localKey = client.localKey
                                  /\ client.remoteKey = client.localKey
  <2>1. /\ OPNs(toServer') = OPNs(toServer) \union {Len(toServer) + 1}
        /\ toServer'[Len(toServer) + 1] = OPN("issue")
    BY <1>1, <1>2, <1>4, Written
  <2>2. ServerSide(config, server, toServer')
    BY <1>1, <1>2, <1>4, <1>5, <1>7, OPNWritten
  <2>3. /\ server.token = client.token
        /\ config.secured => /\ server.localKey = client.localKey
                             /\ client.remoteKey = client.localKey
    BY <1>2, <1>5, <1>7 DEF Settled
  <2> QED
    BY <1>4, <1>5, <1>7, <2>1, <2>2, <2>3
<1> QED
    BY <1>1, <1>2, <1>3, <1>6, <1>7, Asks

\* A client that asks for the next token has used the last one; the server has
\* seen it in use, and the token has not expired.
LEMMA Due ==
    ASSUME ChannelInv, FineTicks, RenewalDue
    PROVE  /\ config.secured => client.renew # "NEWTOKEN_CLIENT"
           /\ OPNs(toClient) = {}
           /\ server.state # "CLOSED" =>
                /\ server.state = "OPEN" /\ server.renew = "NORMAL" /\ OPNs(toServer) = {}
                /\ server.age >= RenewAfter /\ (Strict(config) => ~Expired(server))
                /\ server.token = client.token
                /\ config.secured => /\ server.localKey = client.localKey
                                     /\ client.remoteKey = client.localKey
<1>1. /\ client.state = "OPEN" /\ client.renew # "SENT" /\ renewalIn = 0 /\ lastNonce < MaxToken
      /\ client.renew \in {"NORMAL", "NEWTOKEN_CLIENT"}
    BY DEF RenewalDue, ChannelInv, ChannelTypes
<1>2. config.secured => client.renew # "NEWTOKEN_CLIENT"
  <2>1. config.secured /\ client.renew = "NEWTOKEN_CLIENT" => renewalIn >= RenewAfter - 2
    BY <1>1 DEF ChannelInv, Parts, SoonUsed
  <2> QED
    BY <1>1, <2>1, Times
<1>3. OPNs(toClient) = {}
    BY <1>1 DEF ChannelInv, Parts, Sides, ClientSide
<1>4. ASSUME server.state # "CLOSED"
      PROVE  /\ server.state = "OPEN" /\ server.renew = "NORMAL" /\ OPNs(toServer) = {}
             /\ server.age >= RenewAfter /\ (Strict(config) => ~Expired(server))
             /\ server.token = client.token
             /\ config.secured => /\ server.localKey = client.localKey
                                  /\ client.remoteKey = client.localKey
  <2>1. server.state = "OPEN"
    BY <1>1, <1>4, OpenAtServer
  <2>2. Settled /\ OPNs(toServer) = {}
    BY <1>1, <1>4, OnItsWay
  <2>3. Aged /\ BeforeRenewal
    BY <1>1, <2>1 DEF ChannelInv, Parts, Timing
  <2>4. /\ server.renew \in {"NORMAL", "NEWTOKEN_SERVER"} /\ server.age \in 0..Lifetime + 1
        /\ server.altAge \in Nat /\ RenewAfter \in Nat \ {0} /\ Lifetime \in Nat
        /\ 2 * RenewAfter >= Lifetime + 2 /\ RenewAfter + 1 <= Lifetime
    BY Times, Made DEF ChannelInv, ChannelTypes, FineTicks, End, Age
  <2>5. server.renew = "NORMAL"
    <3>1. SUFFICES ASSUME server.renew = "NEWTOKEN_SERVER" PROVE FALSE
      BY <2>4
    <3>2. /\ server.altAge >= RenewAfter
          /\ \/ server.token = 0 /\ server.altAge = 0
             \/ server.age >= RenewAfter + server.altAge
      BY <1>1, <2>3, <2>4, <3>1 DEF Aged
    <3> QED
      BY <2>4, <3>2
  <2>6. server.age >= RenewAfter /\ (config.diligent => server.age <= RenewAfter)
    BY <1>1, <2>3, <2>4, <2>5 DEF Aged
  <2>7. config.secured => server.age <= RenewAfter + 1
    BY <1>1, <2>3 DEF BeforeRenewal
  <2>8. Strict(config) => ~Expired(server)
    BY <2>4, <2>6, <2>7 DEF Strict, Expired
  <2>9. /\ server.token = client.token
        /\ config.secured => /\ server.localKey = client.localKey
                             /\ client.remoteKey = client.localKey
    BY <1>1, <1>2, <2>2, <2>5 DEF Settled
  <2> QED
    BY <2>1, <2>2, <2>5, <2>6, <2>8, <2>9
<1> QED
    BY <1>2, <1>3, <1>4

\* The next token is asked for.
LEMMA RenewKeeps == ASSUME ChannelInv, FineTicks, Renew PROVE Parts'
<1>1. /\ RenewalDue /\ client.state = "OPEN" /\ client' = Renewing(client)
      /\ toServer' = Append(toServer, OPN("renew"))
      /\ UNCHANGED <<config, server, toClient, parked>>
    BY DEF Renew, RenewalDue
<1>2. toServer \in Seq(Message) /\ lastNonce \in Nat
    BY DEF ChannelInv, ChannelTypes
<1>3. /\ OPN("renew") \in Message /\ OPN("renew").type = "OPN"
      /\ OPN("renew").nonce = lastNonce + 1
    BY <1>2, Made DEF OPN, Type, Kind, Plain
<1>4. ASSUME server.state # "CLOSED"
      PROVE  /\ OPNs(toServer') = {Len(toServer) + 1}
             /\ toServer'[Len(toServer) + 1].nonce = lastNonce + 1
             /\ ServerSide(config, server, toServer')
  <2>1. /\ OPNs(toServer') = OPNs(toServer) \union {Len(toServer) + 1}
        /\ toServer'[Len(toServer) + 1] = OPN("renew")
    BY <1>1, <1>2, <1>3, Written
  <2>2. /\ OPNs(toServer) = {} /\ server.renew = "NORMAL"
        /\ Strict(config) => ~Expired(server)
    BY <1>1, <1>4, Due
  <2>3. ServerSide(config, server, toServer)
    BY <1>4 DEF ChannelInv, Parts, Sides
  <2>4. ServerSide(config, server, toServer')
    BY <1>1, <1>2, <1>3, <2>2, <2>3, OPNWritten
  <2> QED
    BY <1>3, <2>1, <2>2, <2>4
<1> QED
    BY <1>1, <1>4, Due, Asks

\* A request, after the next token has been asked for when it is time.
LEMMA SendRequestKeeps ==
    ASSUME ChannelInv, FineTicks, NEW kind \in {"read", "publish"}, SendRequest(kind)
    PROVE  Parts'
<1> DEFINE m == Secured("MSG", kind, client)
           o == OPN("renew")
           n == Len(toServer) + 1
<1>1. client.state = "OPEN" /\ UNCHANGED <<config, server, toClient, renewalIn, parked, checked>>
    BY DEF SendRequest
<1>2. toServer \in Seq(Message) /\ lastNonce \in Nat /\ client \in End
    BY DEF ChannelInv, ChannelTypes
<1>3. /\ m \in Message /\ m.type = "MSG" /\ m.token = client.token /\ m.key = client.localKey
      /\ o \in Message /\ o.type = "OPN" /\ o.nonce = lastNonce + 1
  <2>1. m \in Message
    BY <1>2, Made DEF Type, Kind
  <2>2. o \in Message
    BY <1>2, Made DEF OPN, Type, Kind
  <2>3. m.type = "MSG" /\ m.token = client.token /\ m.key = client.localKey
    BY DEF Secured
  <2>4. o.type = "OPN" /\ o.nonce = lastNonce + 1
    BY DEF OPN, Plain
  <2> QED
    BY <2>1, <2>2, <2>3, <2>4
<1>4. CASE RenewalDue
  <2>1. client' = Renewing(client) /\ toServer' = Append(Append(toServer, o), m)
    BY <1>2, <1>3, <1>4, Goodbye DEF SendRequest, ChannelInv
  <2>2. ASSUME server.state # "CLOSED"
        PROVE  /\ OPNs(toServer') = {n} /\ toServer'[n].nonce = lastNonce + 1
               /\ ServerSide(config, server, toServer')
    <3>1. /\ OPNs(toServer) = {} /\ server.renew = "NORMAL"
          /\ (Strict(config) => ~Expired(server)) /\ server.token = client.token
          /\ config.secured => server.localKey = client.localKey
      BY <1>4, <2>2, Due
    <3>2. ServerSide(config, server, toServer) /\ server.localKey = server.remoteKey
      BY <2>2 DEF ChannelInv, Parts, Sides, ServerSide
    <3>3. ServerSide(config, server, Append(toServer, o)) /\ Append(toServer, o) \in Seq(Message)
      BY <1>2, <1>3, <3>1, <3>2, OPNWritten, Written
    <3>4. config.secured => OldRequest(config, server, m)
      BY <1>3, <3>1, <3>2 DEF OldRequest, Bears
    <3> HIDE DEF m, o
    <3>5. ServerSide(config, server, Append(Append(toServer, o), m))
      BY <1>3, <3>1, <3>3, <3>4, RequestWritten
    <3>6. /\ OPNs(Append(Append(toServer, o), m)) = {n}
          /\ Append(Append(toServer, o), m)[n] = o
      BY <1>2, <1>3, <3>1, AskingWire
    <3> QED
      BY <1>3, <2>1, <3>5, <3>6
  <2> QED
    BY <1>1, <1>4, <2>1, <2>2, Due, Asks
<1>5. CASE ~RenewalDue
  <2>1. client' = client /\ toServer' = Append(toServer, m) /\ lastNonce' = lastNonce
    BY <1>5 DEF SendRequest
  <2> HIDE DEF m
  <2>2. /\ OPNs(toServer') = OPNs(toServer)
        /\ Requests(toServer') = Requests(toServer) \union {n} /\ toServer'[n] = m
        /\ \A i \in DOMAIN toServer : toServer'[i] = toServer[i]
        /\ Requests(toServer) \subseteq DOMAIN toServer /\ OPNs(toServer) \subseteq DOMAIN toServer
    BY <1>2, <1>3, <2>1, Written DEF Requests, OPNs
  <2> HIDE DEF n
  <2>3. Handshake'
    BY <1>1, <2>1 DEF ChannelInv, Parts, Handshake, Connecting
  <2>4. Sides' /\ SoonUsed'
    <3>1. server.state # "CLOSED" => ServerSide(config, server, toServer')
      BY <1>1, <1>3, <2>1, ClientWrites
    <3> QED
      BY <1>1, <2>1, <3>1 DEF ChannelInv, Parts, Sides, SoonUsed
  <2>5. Agreement'
    <3>1. SUFFICES ASSUME server.state # "CLOSED" PROVE Agreement'
      BY <1>1 DEF Agreement
    <3>2. client.renew # "SENT" => Settled'
      BY <1>1, <2>1, <2>2, <3>1, OnItsWay DEF Settled
    <3>3. ASSUME NEW k \in OPNs(toServer) PROVE Asked(k)'
      <4>1. Asked(k)
        BY <1>1, <3>1 DEF ChannelInv, Parts, Agreement
      <4> QED
        BY <1>1, <2>1, <2>2, <4>1 DEF Asked
    <3>4. ASSUME NEW k \in OPNs(toClient) PROVE Granted(k)'
      <4>1. Granted(k)
        BY <1>1, <3>1 DEF ChannelInv, Parts, Agreement
      <4> QED
        BY <1>1, <1>3, <2>1, <2>2, <4>1 DEF Granted
    <3>5. client.renew = "SENT" => OPNs(toServer) \union OPNs(toClient) # {}
      BY <1>1, <3>1 DEF ChannelInv, Parts, Agreement
    <3> QED
      BY <1>1, <2>1, <2>2, <3>2, <3>3, <3>4, <3>5 DEF Agreement
  <2>6. Timing'
    <3>1. SUFFICES ASSUME server.state = "OPEN", client.renew # "SENT"
                   PROVE  Aged' /\ BeforeRenewal' /\ AfterRenewal'
      BY <1>1, <2>1 DEF Timing
    <3>2. Aged /\ AfterRenewal
      BY <1>1, <3>1 DEF ChannelInv, Parts, Timing
    <3>3. Aged'
      BY <1>1, <3>2 DEF Aged
    <3>4. BeforeRenewal'
      BY <1>1, <1>5, <2>1, <3>1 DEF BeforeRenewal, RenewalDue
    <3>5. server.renew = "NEWTOKEN_SERVER" => m.token = server.alt
      BY <1>1, <1>3, <3>1, OnItsWay DEF Settled
    <3>6. AfterRenewal'
      BY <1>1, <2>1, <2>2, <3>2, <3>5 DEF AfterRenewal
    <3> QED
      BY <3>3, <3>4, <3>6
  <2> QED
    BY <2>3, <2>4, <2>5, <2>6 DEF Parts
<1> QED
    BY <1>4, <1>5

\* What closeSecureChannel of the client leaves.
LEMMA CloseKeeps ==
    ASSUME ChannelInv, client.state # "CLOSED", ClientCloses(<<>>),
           UNCHANGED <<config, server, parked>>
    PROVE  Parts'
<1> DEFINE m == Secured("CLO", "none", client)
<1>1. client' = Fresh("CLOSED") /\ toClient' = <<>> /\ client'.state = "CLOSED"
    BY DEF ClientCloses, Fresh
<1>2. m \in Message /\ m.type = "CLO" /\ m.token = client.token /\ m.key = client.localKey
  <2>1. client \in End
    BY DEF ChannelInv, ChannelTypes
  <2> QED
    BY <2>1, Made DEF Type, Kind, Secured
<1>3. client.state = "OPEN" => toServer' = Append(toServer, m)
    BY <1>2, Goodbye DEF ClientCloses, ChannelInv
<1>4. client.state # "OPEN" => toServer' = toServer
    BY Goodbye DEF ClientCloses, ChannelInv
<1> HIDE DEF m
<1>5. server.state # "CLOSED" => ServerSide(config, server, toServer')
    BY <1>2, <1>3, <1>4, ClientWrites DEF ChannelInv, Parts, Sides
<1>6. server.state \in {"FRESH", "ACK_SENT"} => Requests(toServer') = {}
    BY <1>4 DEF ChannelInv, Parts, Handshake
<1> QED
    BY <1>1, <1>5, <1>6, ClientGone

\* The client closes the channel.
LEMMA DisconnectKeeps == ASSUME ChannelInv, Disconnect PROVE Parts'
BY CloseKeeps DEF Disconnect

\* The client learns that the server has closed it.
LEMMA ReceiveEndKeeps == ASSUME ChannelInv, ReceiveERR \/ ReceiveFIN PROVE Parts'
<1>1. /\ client' = Fresh("CLOSED") /\ toClient' = <<>> /\ toServer' = <<>>
      /\ UNCHANGED <<config, server, parked>>
    BY DEF ReceiveERR, ReceiveFIN
<1>2. client'.state = "CLOSED"
    BY <1>1 DEF Fresh
<1>3. server.state # "CLOSED" => ServerSide(config, server, toServer')
    BY <1>1, NothingAsked DEF ChannelInv, Parts, Sides, ServerSide
<1>4. Requests(toServer') = {}
    BY <1>1, EmptyWire
<1> QED
    BY <1>1, <1>2, <1>3, <1>4, ClientGone

\* The ACK of the server.
LEMMA ReceiveACKKeeps == ASSUME ChannelInv, ReceiveACK PROVE Parts'
<1>1. /\ toClient # <<>> /\ client.state = "HEL_SENT" /\ toClient' = Tail(toClient)
      /\ client' = [client EXCEPT !.state = "ACK_RECEIVED"]
      /\ UNCHANGED <<config, server, toServer, parked, renewalIn>>
    BY DEF ReceiveACK, Rest
<1>2. /\ toClient \in Seq(Message) /\ client \in End
      /\ client.renew = "NORMAL" /\ server.state # "OPEN"
    BY <1>1 DEF ChannelInv, ChannelTypes, Parts, Handshake
<1>3. /\ client'.state = "ACK_RECEIVED" /\ client'.renew = client.renew
      /\ client'.token = client.token /\ client'.alt = client.alt
      /\ client'.localNonce = client.localNonce /\ client'.remoteNonce = client.remoteNonce
      /\ client'.localKey = client.localKey /\ client'.remoteKey = client.remoteKey
    BY <1>1, <1>2 DEF End
<1>4. Responses(toClient) = {} /\ Responses(toClient') = {}
  <2>1. Responses(toClient) = {}
    BY <1>1 DEF ChannelInv, Parts, Handshake, Connecting
  <2> QED
    BY <1>1, <1>2, <2>1, Read
<1>5. ClientSide(config, client, toClient)
    BY <1>1 DEF ChannelInv, Parts, Sides
<1>6. OPNs(toClient) = {} /\ OPNs(toClient') = {}
  <2>1. OPNs(toClient) = {}
    BY <1>2, <1>5 DEF ClientSide
  <2> QED
    BY <1>1, <1>2, <2>1, Read
<1>7. Handshake'
    BY <1>1, <1>2, <1>3, <1>4, <1>6 DEF ChannelInv, Parts, Handshake, Connecting
<1>8. ClientSide(config, client', toClient')
    BY <1>2, <1>3, <1>4, <1>6 DEF ClientSide
<1>9. Sides' /\ SoonUsed' /\ Timing'
    BY <1>1, <1>2, <1>3, <1>8 DEF ChannelInv, Parts, Sides, SoonUsed, Timing
<1>10. Agreement'
  <2>1. SUFFICES ASSUME server.state # "CLOSED" PROVE Agreement'
    BY <1>1 DEF Agreement
  <2>2. Settled /\ OPNs(toServer) = {}
    BY <1>1, <1>2, <2>1, OnItsWay
  <2>3. Settled'
    BY <1>1, <1>2, <1>3, <1>4, <2>2 DEF Settled
  <2> QED
    BY <1>1, <1>2, <1>3, <1>6, <2>2, <2>3 DEF Agreement
<1> QED
    BY <1>7, <1>9, <1>10 DEF Parts

\* A token for the client: it uses it from now on.
LEMMA ReceiveOPNKeeps == ASSUME ChannelInv, ReceiveOPN PROVE Parts'
<1> DEFINE m == Head(toClient)
<1>1. /\ toClient # <<>> /\ m.type = "OPN" /\ toClient' = Tail(toClient)
      /\ client.state \in {"OPN_SENT", "OPEN"} /\ client' = WithNewToken(client, m)
      /\ renewalIn' = RenewAfter /\ UNCHANGED <<config, server, toServer, parked>>
    BY DEF ReceiveOPN, Rest
<1>2. /\ toClient \in Seq(Message) /\ client \in End /\ server \in End
      /\ server.renew \in {"NORMAL", "NEWTOKEN_SERVER"}
    BY DEF ChannelInv, ChannelTypes
<1>3. m \in Message /\ m = toClient[1] /\ 1 \in OPNs(toClient)
    BY <1>1, <1>2, Read
<1> HIDE DEF m
<1>4. /\ client'.state = "OPEN" /\ client'.renew = "NEWTOKEN_CLIENT"
      /\ client'.token = m.token /\ client'.alt = client.token
      /\ client'.localNonce = client.localNonce /\ client'.remoteNonce = m.nonce
      /\ client'.localKey = <<client.localNonce, m.nonce>> /\ client'.remoteKey = client.remoteKey
    BY <1>1, <1>2 DEF WithNewToken, ClientKey, End
<1>5. ClientSide(config, client', toClient') /\ OPNs(toClient') = {}
  <2>1. ClientSide(config, client, toClient)
    BY <1>1 DEF ChannelInv, Parts, Sides
  <2>2. client'.localKey = ClientKey(client')
    BY <1>4 DEF ClientKey
  <2> QED
    BY <1>1, <1>2, <1>4, <2>1, <2>2, TokenTaken DEF m
<1>6. server.state \in {"OPEN", "CLOSED"}
    BY <1>3, OpenAtServer
<1>7. Handshake'
    BY <1>1, <1>4, <1>6 DEF ChannelInv, Parts, Handshake, Connecting
<1>8. Sides'
    BY <1>1, <1>5 DEF ChannelInv, Parts, Sides
<1>9. SoonUsed'
    BY <1>1, Times DEF SoonUsed
<1>10. ASSUME server.state # "CLOSED" PROVE Granted(1)
    BY <1>1, <1>3, <1>10 DEF ChannelInv, Parts, Agreement
<1>11. Agreement'
  <2>1. SUFFICES ASSUME server.state # "CLOSED" PROVE Settled' /\ OPNs(toServer) = {}
    BY <1>1, <1>4, <1>5 DEF Agreement
  <2>2. OPNs(toServer) = {}
    BY <1>10, <2>1 DEF Granted
  <2>3. CASE server.renew = "NORMAL"
    BY <1>1, <1>3, <1>4, <1>10, <2>1, <2>2, <2>3 DEF Granted, Settled, Strict
  <2>4. CASE server.renew = "NEWTOKEN_SERVER"
    <3>1. \A i \in Responses(toClient') : toClient'[i].token = client'.alt
      <4>1. TAKE i \in Responses(toClient')
      <4>2. /\ i \in DOMAIN Tail(toClient) /\ i + 1 \in Responses(toClient)
            /\ 1 < i + 1 /\ Tail(toClient)[i] = toClient[i + 1]
        BY <1>1, <1>2, <4>1, Read
      <4> QED
        BY <1>1, <1>4, <1>10, <2>1, <2>4, <4>2 DEF Granted
    <3>2. /\ server.alt = m.token /\ server.token = client.token
          /\ ServerKey(server) = <<client.localNonce, m.nonce>>
          /\ config.secured => server.localKey = client.localKey /\ client.remoteKey = client.localKey
      BY <1>3, <1>10, <2>1, <2>4 DEF Granted
    <3> QED
      BY <1>1, <1>4, <2>2, <2>4, <3>1, <3>2 DEF Settled
  <2> QED
    BY <1>2, <2>2, <2>3, <2>4
<1>12. Timing'
  <2>1. SUFFICES ASSUME server.state # "CLOSED" PROVE Aged' /\ BeforeRenewal' /\ AfterRenewal'
    BY <1>1 DEF Timing
  <2>2. BeforeRenewal' /\ AfterRenewal'
    BY <1>1, Times DEF BeforeRenewal, AfterRenewal
  <2>3. server.renew = "NORMAL" => server.age = 0
    BY <1>10, <2>1 DEF Granted
  <2>4. server.renew = "NEWTOKEN_SERVER" =>
          server.altAge = 0 /\ (server.token = 0 \/ server.age >= RenewAfter)
    BY <1>10, <2>1 DEF Granted
  <2>5. Aged'
    BY <1>1, <1>2, <2>3, <2>4, Times, Made DEF Aged
  <2> QED
    BY <2>2, <2>5
<1> QED
    BY <1>7, <1>8, <1>9, <1>11, <1>12 DEF Parts

\* What is left on the wire to the client behind its first message, which is not
\* an OPN.
LEMMA BehindAtClient ==
    ASSUME toClient \in Seq(Message), toClient # <<>>, Head(toClient).type # "OPN"
    PROVE  /\ \A i \in Responses(Tail(toClient)) :
                i + 1 \in Responses(toClient) /\ Tail(toClient)[i] = toClient[i + 1]
           /\ \A i \in OPNs(Tail(toClient)) :
                i + 1 \in OPNs(toClient) /\ Tail(toClient)[i] = toClient[i + 1]
           /\ OPNs(toClient) # {} => OPNs(Tail(toClient)) # {}
<1>1. /\ \A i \in Responses(Tail(toClient)) :
           i + 1 \in Responses(toClient) /\ Tail(toClient)[i] = toClient[i + 1]
      /\ \A i \in OPNs(Tail(toClient)) :
           i + 1 \in OPNs(toClient) /\ Tail(toClient)[i] = toClient[i + 1]
    BY Read
<1>2. ASSUME NEW k \in OPNs(toClient) PROVE k - 1 \in OPNs(Tail(toClient))
  <2>1. k \in DOMAIN toClient /\ k # 1 /\ toClient[k].type = "OPN"
    BY <1>2, Read DEF OPNs
  <2>2. /\ DOMAIN toClient = 1..Len(toClient) /\ Len(Tail(toClient)) = Len(toClient) - 1
        /\ DOMAIN Tail(toClient) = 1..Len(Tail(toClient)) /\ Len(toClient) \in Nat
    BY HeadTailProperties, LenProperties, Read
  <2>3. k - 1 \in DOMAIN Tail(toClient) /\ (k - 1) + 1 = k
    BY <2>1, <2>2
  <2>4. Tail(toClient)[k - 1] = toClient[(k - 1) + 1]
    BY <2>3, Read
  <2> QED
    BY <2>1, <2>3, <2>4 DEF OPNs
<1> QED
    BY <1>1, <1>2

\* A response.
LEMMA ReceiveResponseKeeps == ASSUME ChannelInv, FineTicks, ReceiveResponse PROVE Parts'
<1> DEFINE m == Head(toClient)
<1>1. /\ toClient # <<>> /\ m.type = "MSG" /\ UNCHANGED <<config, server, renewalIn, parked>>
      /\ UNCHANGED lastNonce
    BY DEF ReceiveResponse
<1>2. /\ toClient \in Seq(Message) /\ client \in End /\ server \in End
      /\ server.renew \in {"NORMAL", "NEWTOKEN_SERVER"}
      /\ client.renew \in {"NORMAL", "SENT", "NEWTOKEN_CLIENT"}
      /\ RenewAfter >= 3 /\ RenewAfter \in Nat /\ renewalIn \in Nat
    BY Times DEF ChannelInv, ChannelTypes
<1>3. m \in Message /\ m = toClient[1] /\ 1 \in Responses(toClient) /\ 1 \in Nat
    BY <1>1, <1>2, Read
<1>4. client.state \in {"OPEN", "CLOSED"} /\ server.state \in {"OPEN", "CLOSED"}
    BY <1>3, OpenAtServer, OpenAtClient
<1>5. CASE client.state # "CLOSED" /\ ClientCloses(<<>>)
    BY <1>1, <1>5, CloseKeeps
<1>6. CASE client.state = "CLOSED" /\ ClientCloses(<<>>)
  <2>1. /\ client' = Fresh("CLOSED") /\ client'.state = "CLOSED" /\ toClient' = <<>>
        /\ toServer' = toServer
    BY <1>6, Goodbye DEF ClientCloses, Fresh, ChannelInv
  <2> QED
    BY <1>1, <1>4, <2>1, ClientGone DEF ChannelInv, Parts, Sides
<1>7. CASE /\ Accepts(client, m) /\ client' = Revolved(client, m)
           /\ toClient' = Rest /\ checked' = TRUE /\ UNCHANGED toServer
  <2>1. toClient' = Tail(toClient) /\ toServer' = toServer /\ client.state = "OPEN"
    BY <1>4, <1>7 DEF Rest, Accepts
  <2>2. ClientSide(config, client, toClient) /\ ClientSide(config, client, toClient')
    BY <1>1, <1>2, <2>1, ClientReads DEF ChannelInv, Parts, Sides
  <2>3. /\ \A i \in Responses(toClient') : i + 1 \in Responses(toClient) /\ toClient'[i] = toClient[i + 1]
        /\ \A i \in OPNs(toClient') : i + 1 \in OPNs(toClient) /\ toClient'[i] = toClient[i + 1]
        /\ OPNs(toClient) # {} => OPNs(toClient') # {}
        /\ Responses(toClient') \subseteq Nat /\ OPNs(toClient') \subseteq Nat
    <3>1. toClient' \in Seq(Message)
      BY <1>1, <1>2, <2>1, Read
    <3>2. Responses(toClient') \subseteq Nat /\ OPNs(toClient') \subseteq Nat
      BY <3>1, LenProperties DEF Responses, OPNs
    <3> QED
      BY <1>1, <1>2, <2>1, <3>2, BehindAtClient
  <2> HIDE DEF m
  <2>4. CASE ~RollsOver(client, m)
    <3>1. client' = client
      BY <1>2, <1>7, <2>4, Moved
    <3>2. Handshake' /\ Sides' /\ SoonUsed'
      BY <1>1, <1>4, <2>1, <2>2, <3>1
         DEF ChannelInv, Parts, Handshake, Connecting, Sides, SoonUsed
    <3>3. Agreement'
      <4>1. SUFFICES ASSUME server.state # "CLOSED" PROVE Agreement'
        BY <1>1 DEF Agreement
      <4>2. client.renew # "SENT" => Settled'
        BY <1>1, <2>1, <2>3, <3>1, <4>1, OnItsWay DEF Settled
      <4>3. client.renew = "SENT" => OPNs(toServer) \union OPNs(toClient') # {}
        BY <2>1, <2>3, <4>1 DEF ChannelInv, Parts, Agreement
      <4>4. ASSUME NEW k \in OPNs(toServer) PROVE Asked(k)'
        <5>1. Asked(k)
          BY <2>1, <4>1 DEF ChannelInv, Parts, Agreement
        <5>2. OPNs(toClient') = {}
          BY <2>3, <5>1 DEF Asked
        <5> QED
          BY <1>1, <2>1, <3>1, <5>1, <5>2 DEF Asked
      <4>5. ASSUME NEW k \in OPNs(toClient') PROVE Granted(k)'
        <5>1. Granted(k + 1) /\ toClient'[k] = toClient[k + 1] /\ k \in Nat
          BY <2>1, <2>3, <4>1 DEF ChannelInv, Parts, Agreement
        <5>2. ASSUME NEW i \in Responses(toClient'), k < i
              PROVE  /\ i + 1 \in Responses(toClient) /\ k + 1 < i + 1
                     /\ toClient'[i] = toClient[i + 1]
          <6>1. i \in Nat
            BY <2>3
          <6> QED
            BY <2>3, <5>1, <5>2, <6>1
        <5> QED
          BY <1>1, <2>1, <3>1, <5>1, <5>2 DEF Granted
      <4> QED
        BY <1>1, <2>1, <3>1, <4>2, <4>3, <4>4, <4>5 DEF Agreement
    <3>4. Timing'
      <4>1. SUFFICES ASSUME server.state = "OPEN", client.renew # "SENT"
                     PROVE  Aged' /\ BeforeRenewal' /\ AfterRenewal'
        BY <1>1, <3>1 DEF Timing
      <4>2. Aged /\ BeforeRenewal /\ AfterRenewal
        BY <2>1, <4>1 DEF ChannelInv, Parts, Timing
      <4>3. Aged'
        BY <1>1, <4>2 DEF Aged
      <4>4. BeforeRenewal'
        BY <1>1, <1>3, <2>1, <4>2 DEF BeforeRenewal
      <4>5. AfterRenewal'
        <5>1. client.renew = "NEWTOKEN_CLIENT" => m.token = client.alt
          BY <1>7, <2>4 DEF RollsOver, Accepts, TokenKnown
        <5> QED
          BY <1>1, <1>3, <2>1, <2>3, <3>1, <4>2, <5>1 DEF AfterRenewal
      <4> QED
        BY <4>3, <4>4, <4>5
    <3> QED
      BY <3>2, <3>3, <3>4 DEF Parts
  <2>5. CASE RollsOver(client, m)
    <3>1. /\ client.renew = "NEWTOKEN_CLIENT" /\ m.token = client.token /\ m.token # client.alt
      BY <1>2, <2>5 DEF RollsOver
    <3>2. /\ client'.state = client.state /\ client'.renew = "NORMAL"
          /\ client'.token = client.token /\ client'.localKey = client.localKey
          /\ client'.remoteKey = ClientKey(client)
      <4>1. client' = [client EXCEPT !.renew = "NORMAL", !.alt = 0, !.remoteKey = ClientKey(client)]
        BY <1>2, <1>7, <2>5, <3>1, Moved
      <4> QED
        BY <1>2, <4>1 DEF End
    <3>3. client.localKey = ClientKey(client) /\ OPNs(toClient) = {} /\ OPNs(toClient') = {}
      BY <2>2, <2>3, <3>1 DEF ClientSide
    <3>4. NewResponse(config, client, m)
      BY <1>7, <3>1, <3>2, <3>3 DEF NewResponse, Bears, Accepts
    <3>5. config.secured => \A i \in Responses(toClient') : NewResponse(config, client, toClient'[i])
      BY <1>1, <1>2, <2>1, <2>2, <3>1, <3>4, NextResponse DEF m
    <3>6. ClientSide(config, client', toClient')
      BY <2>2, <3>1, <3>2, <3>5, ClientMovesOn
    <3>7. Handshake' /\ Sides' /\ SoonUsed'
      BY <1>1, <1>4, <2>1, <3>2, <3>6
         DEF ChannelInv, Parts, Handshake, Connecting, Sides, SoonUsed
    <3>8. Agreement'
      <4>1. SUFFICES ASSUME server.state # "CLOSED" PROVE Settled' /\ OPNs(toServer) = {}
        BY <1>1, <2>1, <3>2, <3>3 DEF Agreement
      <4>2. Settled /\ OPNs(toServer) = {}
        BY <2>1, <3>1, <4>1, OnItsWay
      <4>3. server.renew = "NORMAL"
        BY <1>2, <1>3, <3>1, <4>2 DEF Settled
      <4> QED
        BY <1>1, <2>1, <3>2, <3>3, <4>2, <4>3 DEF Settled
    <3>9. Timing'
      <4>1. SUFFICES ASSUME server.state = "OPEN"
                     PROVE  Aged' /\ BeforeRenewal' /\ AfterRenewal'
        BY <1>1, <3>2 DEF Timing
      <4>2. Aged
        BY <2>1, <3>1, <4>1 DEF ChannelInv, Parts, Timing
      <4>3. Aged'
        BY <1>1, <4>2 DEF Aged
      <4>4. config.secured => renewalIn # 0
        <5>1. config.secured => renewalIn >= RenewAfter - 2
          BY <2>1, <3>1 DEF ChannelInv, Parts, SoonUsed
        <5> QED
          BY <1>2, <5>1
      <4>5. BeforeRenewal' /\ AfterRenewal'
        BY <1>1, <3>2, <4>4 DEF BeforeRenewal, AfterRenewal
      <4> QED
        BY <4>3, <4>5
    <3> QED
      BY <3>7, <3>8, <3>9 DEF Parts
  <2> QED
    BY <2>4, <2>5
<1> QED
    BY <1>5, <1>6, <1>7 DEF ReceiveResponse

\* The connection breaks.
LEMMA BreakKeeps == ASSUME ChannelInv, Break PROVE Parts'
<1>1. /\ client'.state = "CLOSED" /\ server'.state = "CLOSED" /\ ~parked'
    BY DEF Break, Fresh
<1> QED
    BY <1>1 DEF Parts, Handshake, Connecting, Sides, SoonUsed, Agreement, Timing

-----------------------------------------------------------------------------
(* The steps of the server. *)

\* What is left on the wire to the server behind its first message.
LEMMA BehindAtServer ==
    ASSUME toServer \in Seq(Message), toServer # <<>>
    PROVE  /\ \A i \in Requests(Tail(toServer)) :
                i + 1 \in Requests(toServer) /\ Tail(toServer)[i] = toServer[i + 1]
           /\ \A i \in OPNs(Tail(toServer)) :
                i + 1 \in OPNs(toServer) /\ Tail(toServer)[i] = toServer[i + 1]
           /\ OPNs(toServer) # {} /\ Head(toServer).type # "OPN" => OPNs(Tail(toServer)) # {}
<1>1. /\ \A i \in Requests(Tail(toServer)) :
           i + 1 \in Requests(toServer) /\ Tail(toServer)[i] = toServer[i + 1]
      /\ \A i \in OPNs(Tail(toServer)) :
           i + 1 \in OPNs(toServer) /\ Tail(toServer)[i] = toServer[i + 1]
    BY Read
<1>2. ASSUME NEW k \in OPNs(toServer), Head(toServer).type # "OPN"
      PROVE  k - 1 \in OPNs(Tail(toServer))
  <2>1. k \in DOMAIN toServer /\ k # 1 /\ toServer[k].type = "OPN"
    BY <1>2, Read DEF OPNs
  <2>2. /\ DOMAIN toServer = 1..Len(toServer) /\ Len(Tail(toServer)) = Len(toServer) - 1
        /\ DOMAIN Tail(toServer) = 1..Len(Tail(toServer)) /\ Len(toServer) \in Nat
    BY HeadTailProperties, LenProperties, Read
  <2>3. k - 1 \in DOMAIN Tail(toServer) /\ (k - 1) + 1 = k
    BY <2>1, <2>2
  <2>4. Tail(toServer)[k - 1] = toServer[(k - 1) + 1]
    BY <2>3, Read
  <2> QED
    BY <2>1, <2>3, <2>4 DEF OPNs
<1> QED
    BY <1>1, <1>2

\* The client's HEL.
LEMMA ReceiveHELKeeps == ASSUME ChannelInv, ReceiveHEL PROVE Parts'
<1> DEFINE ack == Plain("ACK", "none", 0, 0)
<1>1. /\ toServer # <<>> /\ Head(toServer).type = "HEL" /\ server.state = "FRESH"
      /\ server' = [server EXCEPT !.state = "ACK_SENT"]
      /\ toServer' = Tail(toServer) /\ toClient' = Append(toClient, ack)
      /\ UNCHANGED <<config, client, renewalIn, parked>>
    BY DEF ReceiveHEL
<1>2. toServer \in Seq(Message) /\ toClient \in Seq(Message) /\ server \in End
    BY DEF ChannelInv, ChannelTypes
<1>3. /\ server'.state = "ACK_SENT" /\ server'.renew = server.renew
      /\ server'.token = server.token /\ server'.alt = server.alt
      /\ server'.age = server.age /\ server'.altAge = server.altAge
      /\ server'.localNonce = server.localNonce /\ server'.remoteNonce = server.remoteNonce
      /\ server'.localKey = server.localKey /\ server'.remoteKey = server.remoteKey
    BY <1>1, <1>2 DEF End
<1>4. ack \in Message /\ ack.type = "ACK"
    BY Made DEF Plain, Type, Kind
<1> HIDE DEF ack
<1>5. /\ Requests(toServer) = {} /\ Responses(toClient) = {} /\ OPNs(toClient) = {}
      /\ server.token = 0 /\ client.state # "OPEN" /\ ~parked
    BY <1>1 DEF ChannelInv, Parts, Handshake
<1>6. /\ Requests(toServer') = {} /\ Responses(toClient') = {} /\ OPNs(toClient') = {}
      /\ \A i \in OPNs(toServer') : i + 1 \in OPNs(toServer) /\ toServer'[i] = toServer[i + 1]
      /\ OPNs(toServer) # {} => OPNs(toServer') # {}
  <2>1. /\ \A i \in OPNs(toServer') : i + 1 \in OPNs(toServer) /\ toServer'[i] = toServer[i + 1]
        /\ \A i \in Requests(toServer') : i + 1 \in Requests(toServer)
        /\ OPNs(toServer) # {} => OPNs(toServer') # {}
    BY <1>1, <1>2, BehindAtServer
  <2>2. Responses(toClient') = Responses(toClient) /\ OPNs(toClient') = OPNs(toClient)
    BY <1>1, <1>2, <1>4, Written
  <2> QED
    BY <1>5, <2>1, <2>2
<1>7. ServerSide(config, server', toServer')
  <2>1. ServerSide(config, server, toServer')
    BY <1>1, <1>2, ServerReads DEF ChannelInv, Parts, Sides
  <2>2. Expired(server') <=> Expired(server)
    BY <1>3 DEF Expired
  <2> QED
    BY <1>3, <1>6, <2>1, <2>2 DEF ServerSide
<1>8. client.state # "CLOSED" => ClientSide(config, client, toClient')
    BY <1>1, <1>2, <1>4, OtherWritten DEF ChannelInv, Parts, Sides
<1>9. Handshake'
    BY <1>1, <1>3, <1>5, <1>6 DEF ChannelInv, Parts, Handshake, Connecting
<1>10. Sides' /\ SoonUsed' /\ Timing'
    BY <1>1, <1>3, <1>7, <1>8 DEF ChannelInv, Parts, Sides, SoonUsed, Timing
<1>11. Agreement'
  <2>1. SUFFICES ASSUME client.state # "CLOSED" PROVE Agreement'
    BY <1>1 DEF Agreement
  <2>2. client.renew # "SENT" => Settled'
    <3>1. client.renew # "SENT" => Settled /\ OPNs(toServer) = {}
      BY <1>1, <2>1, OnItsWay
    <3>2. ServerKey(server') = ServerKey(server)
      BY <1>3 DEF ServerKey
    <3> QED
      BY <1>1, <1>3, <1>6, <3>1, <3>2 DEF Settled
  <2>3. client.renew = "SENT" => OPNs(toServer') # {}
    BY <1>1, <1>5, <1>6, <2>1 DEF ChannelInv, Parts, Agreement
  <2>4. ASSUME NEW k \in OPNs(toServer') PROVE Asked(k)'
    <3>1. Asked(k + 1) /\ toServer'[k] = toServer[k + 1]
      BY <1>1, <1>6, <2>1 DEF ChannelInv, Parts, Agreement
    <3> QED
      BY <1>1, <1>3, <1>6, <3>1 DEF Asked
  <2> QED
    BY <1>1, <1>6, <2>2, <2>3, <2>4 DEF Agreement
<1> QED
    BY <1>9, <1>10, <1>11 DEF Parts

\* The server reports an error and closes the channel.
LEMMA ServerClosesKeeps ==
    ASSUME ChannelInv, ServerCloses, UNCHANGED <<config, client, renewalIn>>
    PROVE  Parts'
<1> DEFINE err == Plain("ERR", "none", 0, 0)
<1>1. /\ server' = Fresh("CLOSED") /\ toServer' = <<>>
      /\ toClient' = Append(toClient, err) /\ ~parked'
    BY DEF ServerCloses
<1>2. toClient \in Seq(Message) /\ err \in Message /\ err.type = "ERR"
    BY Made DEF ChannelInv, ChannelTypes, Type, Kind, Plain
<1> HIDE DEF err
<1>3. Requests(toServer') = {} /\ Responses(toClient') = Responses(toClient)
    BY <1>1, <1>2, EmptyWire, Written
<1>4. client.state # "CLOSED" => ClientSide(config, client, toClient')
    BY <1>1, <1>2, OtherWritten DEF ChannelInv, Parts, Sides
<1>5. client.state \in Connecting => Responses(toClient') = {}
    BY <1>3 DEF ChannelInv, Parts, Handshake
<1> QED
    BY <1>1, <1>3, <1>4, <1>5, ServerGone

\* A token is asked for: the server issues one, or closes the channel.
LEMMA ReceiveOpenRequestKeeps == ASSUME ChannelInv, ReceiveOpenRequest PROVE Parts'
<1> DEFINE m == Head(toServer)
           new == lastTokenId + 1
           o == Plain("OPN", m.kind, new, new)
<1>0. PICK n : n = Len(toClient) + 1
    OBVIOUS
<1>1. /\ toServer # <<>> /\ m.type = "OPN" /\ UNCHANGED <<config, client, renewalIn>>
    BY DEF ReceiveOpenRequest
<1>2. /\ toServer \in Seq(Message) /\ toClient \in Seq(Message) /\ server \in End
      /\ client \in End /\ lastTokenId \in Nat /\ server.token <= lastTokenId
      /\ server.token \in Nat /\ client.token \in Nat
    BY DEF ChannelInv, ChannelTypes, End
<1>3. m \in Message /\ m = toServer[1] /\ 1 \in OPNs(toServer)
    BY <1>1, <1>2, Read
<1>4. CASE ServerCloses
    BY <1>1, <1>4, ServerClosesKeeps
<1>5. CASE /\ server.state \in {"ACK_SENT", "OPEN"}
           /\ server' = Issued(server, m, new)
           /\ toServer' = Tail(toServer) /\ toClient' = Append(toClient, o)
           /\ UNCHANGED parked
  <2>1. o \in Message /\ o.type = "OPN" /\ o.token = new /\ o.nonce = new
    <3>1. new \in Nat /\ m.kind \in Kind
      BY <1>2, <1>3 DEF Message
    <3>2. o \in Message
      BY <3>1, Made DEF Type
    <3> QED
      BY <3>2 DEF Plain
  <2>2. /\ server'.state = "OPEN" /\ server'.renew = "NEWTOKEN_SERVER"
        /\ server'.token = server.token /\ server'.alt = new
        /\ server'.age = server.age /\ server'.altAge = 0
        /\ server'.remoteNonce = m.nonce /\ server'.localNonce = new
        /\ server'.localKey = server.localKey /\ server'.remoteKey = server.remoteKey
    BY <1>2, <1>5 DEF Issued, End
  <2>3. new # server.token /\ new \in Nat
    BY <1>2
  <2> HIDE DEF o, new, m
  <2>4. /\ ServerSide(config, server', toServer') /\ OPNs(toServer') = {}
        /\ Strict(config) => ~Expired(server')
        /\ \A i \in Requests(toServer') : toServer'[i].token = server.token
    <3>1. ServerSide(config, server, toServer)
      BY <1>5 DEF ChannelInv, Parts, Sides
    <3>2. Head(toServer).type = "OPN" /\ toServer' = Tail(toServer) /\ server'.alt # server.token
      BY <1>1, <1>5, <2>2, <2>3 DEF m
    <3>3. /\ toServer # <<>> /\ toServer \in Seq(Message) /\ server'.token = server.token
          /\ server'.renew = "NEWTOKEN_SERVER" /\ server'.age = server.age
          /\ server'.localKey = server.localKey /\ server'.remoteKey = server.remoteKey
      BY <1>1, <1>2, <2>2
    <3>4. /\ ServerSide(config, server', toServer') /\ OPNs(toServer') = {}
          /\ Strict(config) => ~Expired(server')
          /\ AllUnder(toServer', server.token)
      BY <3>1, <3>2, <3>3, TokenIssued
    <3> QED
      BY <3>4 DEF AllUnder
  <2>5. Requests(toServer) = {} => Requests(toServer') = {}
    BY <1>1, <1>2, <1>5, BehindAtServer
  <2>6. Responses(toClient') = Responses(toClient) /\ Responses(toClient) \subseteq DOMAIN toClient
    BY <1>2, <1>5, <2>1, Written DEF Responses
  <2>7. ASSUME client.state # "CLOSED"
        PROVE  /\ client.renew = "SENT" /\ Asked(1) /\ OPNs(toClient) = {}
               /\ client.state \notin {"HEL_SENT", "ACK_RECEIVED"}
    <3>1. client.renew = "SENT"
      BY <1>3, <1>5, <2>7, OnItsWay
    <3>2. Asked(1)
      BY <1>3, <1>5, <2>7 DEF ChannelInv, Parts, Agreement
    <3>3. client.state \notin {"HEL_SENT", "ACK_RECEIVED"}
      BY <3>1 DEF ChannelInv, Parts, Handshake
    <3> QED
      BY <3>1, <3>2, <3>3 DEF Asked
  <2>8. Handshake'
    <3>1. client.state \in Connecting =>
            Requests(toServer') = {} /\ Responses(toClient') = {} /\ server'.age = 0 /\ ~parked
      BY <2>2, <2>5, <2>6 DEF ChannelInv, Parts, Handshake
    <3>2. client.state \notin {"HEL_SENT", "ACK_RECEIVED"}
      BY <2>7
    <3> QED
      BY <1>1, <1>5, <2>2, <3>1, <3>2 DEF Handshake
  <2>9. Sides'
    <3>1. ASSUME client.state # "CLOSED" PROVE ClientSide(config, client, toClient')
      <4>1. server.token = client.token
        BY <2>7, <3>1 DEF Asked
      <4>2. o.token # client.token
        BY <2>1, <2>3, <4>1
      <4>3. ClientSide(config, client, toClient)
        BY <3>1 DEF ChannelInv, Parts, Sides
      <4> QED
        BY <1>2, <1>5, <2>1, <2>7, <3>1, <4>2, <4>3, TokenWritten
    <3> QED
      BY <1>1, <2>4, <3>1 DEF Sides
  <2>10. SoonUsed'
    BY <1>1 DEF ChannelInv, Parts, SoonUsed
  <2>11. ASSUME client.state # "CLOSED"
         PROVE  client.renew = "SENT" /\ OPNs(toClient') = {n} /\ Granted(n)'
    <3>1. OPNs(toClient') = {n} /\ toClient'[n] = o
      <4>1. OPNs(toClient') = OPNs(toClient) \union {n} /\ toClient'[n] = o
        BY <1>0, <1>2, <1>5, <2>1, Written
      <4> QED
        BY <2>7, <2>11, <4>1
    <3>2. server'.token = 0 \/ server'.age >= RenewAfter
      <4>1. CASE server.state = "ACK_SENT"
        BY <2>2, <4>1 DEF ChannelInv, Parts, Handshake
      <4>2. CASE server.state = "OPEN"
        BY <2>2, <2>7, <2>11, <4>2 DEF Asked
      <4> QED
        BY <1>5, <4>1, <4>2
    <3>3. ServerKey(server') = <<client.localNonce, new>>
      BY <1>3, <2>2, <2>7, <2>11 DEF ServerKey, Asked
    <3>4. /\ server'.token = client.token
          /\ config.secured => /\ server'.localKey = client.localKey
                               /\ client.remoteKey = client.localKey
      BY <2>2, <2>7, <2>11 DEF Asked
    <3>5. \A i \in Responses(toClient') : ~(n < i)
      <4>1. \A i \in Responses(toClient) : i \in 1..Len(toClient) /\ Len(toClient) \in Nat
        BY <1>2, <2>6, LenProperties
      <4> QED
        BY <1>0, <2>6, <4>1
    <3> QED
      BY <1>1, <2>1, <2>2, <2>4, <2>7, <2>11, <3>1, <3>2, <3>3, <3>4, <3>5 DEF Granted
  <2>12. Agreement' /\ Timing'
    <3>1. ASSUME client.state # "CLOSED" PROVE Agreement'
      BY <1>1, <2>4, <2>11, <3>1 DEF Agreement
    <3>2. client.state = "CLOSED" => Agreement'
      BY <1>1 DEF Agreement
    <3>3. Timing'
      BY <1>1, <2>11 DEF Timing
    <3> QED
      BY <3>1, <3>2, <3>3
  <2> QED
    BY <2>8, <2>9, <2>10, <2>12 DEF Parts
<1> QED
    BY <1>4, <1>5 DEF ReceiveOpenRequest

\* The server moves on to the token it has issued, because the client uses it or
\* because the old one has expired, and may answer a request under it.
LEMMA MovesOnKeeps ==
    ASSUME ChannelInv, FineTicks, server.state = "OPEN", server.renew = "NEWTOKEN_SERVER",
           server' = ServerRollover(server), UNCHANGED <<config, client, renewalIn, checked>>,
           client.state \in {"OPEN", "CLOSED"},
           client.state # "CLOSED" => client.renew # "SENT",
           ServerSide(config, server', toServer'),
           OPNs(toServer) = {} => OPNs(toServer') = {},
           \/ toClient' = toClient
           \/ \E m \in Message : /\ m.type = "MSG" /\ m.token = server'.token /\ m.key = server'.localKey
                                 /\ toClient' = Append(toClient, m)
    PROVE  Parts'
<1>1. /\ server'.state = "OPEN" /\ server'.renew = "NORMAL" /\ server'.token = server.alt
      /\ server'.age = server.altAge /\ server'.localKey = ServerKey(server)
  <2>1. server \in End
    BY DEF ChannelInv, ChannelTypes
  <2> QED
    BY <2>1, RolledOver
<1>2. toClient \in Seq(Message) /\ renewalIn \in Nat /\ RenewAfter \in Nat /\ RenewAfter >= 3
    BY Times DEF ChannelInv, ChannelTypes
<1>3. ASSUME client.state # "CLOSED"
      PROVE  /\ Settled /\ OPNs(toServer) = {} /\ OPNs(toClient) = {}
             /\ client.renew = "NEWTOKEN_CLIENT" /\ server.alt = client.token
             /\ server.token = client.alt /\ client.alt # client.token
             /\ config.secured => ServerKey(server) = client.localKey
             /\ ClientSide(config, client, toClient)
             /\ config.secured => renewalIn # 0
  <2>1. Settled /\ OPNs(toServer) = {} /\ OPNs(toClient) = {}
    BY <1>3, OnItsWay
  <2>2. /\ client.renew = "NEWTOKEN_CLIENT" /\ server.alt = client.token
        /\ server.token = client.alt
        /\ config.secured => ServerKey(server) = client.localKey
    BY <2>1 DEF Settled
  <2>3. ClientSide(config, client, toClient) /\ client.alt # client.token
    BY <1>3, <2>2 DEF ChannelInv, Parts, Sides, ClientSide
  <2>4. config.secured => renewalIn >= RenewAfter - 2
    BY <1>3, <2>2 DEF ChannelInv, Parts, SoonUsed
  <2>5. config.secured => renewalIn # 0
    BY <1>2, <2>4
  <2> QED
    BY <2>1, <2>2, <2>3, <2>5
<1>4. Handshake'
    BY <1>1 DEF Handshake, Connecting
<1>5. ASSUME client.state # "CLOSED"
      PROVE  /\ ClientSide(config, client, toClient') /\ OPNs(toClient') = {}
             /\ \A i \in Responses(toClient') :
                  toClient'[i].token = client.alt =>
                    i \in Responses(toClient) /\ toClient[i].token = client.alt
  <2>1. CASE toClient' = toClient
    BY <1>3, <1>5, <2>1
  <2>2. ASSUME NEW m \in Message, m.type = "MSG", m.token = server'.token, m.key = server'.localKey,
               toClient' = Append(toClient, m)
        PROVE  /\ ClientSide(config, client, toClient') /\ OPNs(toClient') = {}
               /\ \A i \in Responses(toClient') :
                    toClient'[i].token = client.alt =>
                      i \in Responses(toClient) /\ toClient[i].token = client.alt
    <3>1. NewResponse(config, client, m) /\ m.token # client.alt
      BY <1>1, <1>3, <1>5, <2>2 DEF NewResponse, Bears
    <3>2. ClientSide(config, client, toClient')
      BY <1>2, <1>3, <1>5, <2>2, <3>1, ResponseWritten
    <3>3. /\ OPNs(toClient') = {} /\ toClient'[Len(toClient) + 1] = m
          /\ Responses(toClient') = Responses(toClient) \union {Len(toClient) + 1}
          /\ \A i \in Responses(toClient) : toClient'[i] = toClient[i]
      BY <1>2, <1>3, <1>5, <2>2, Written DEF Responses
    <3> QED
      BY <3>1, <3>2, <3>3
  <2> QED
    BY <2>1, <2>2
<1>6. Sides' /\ SoonUsed'
    BY <1>1, <1>5 DEF ChannelInv, Parts, Sides, SoonUsed
<1>7. Agreement'
  <2>1. SUFFICES ASSUME client.state # "CLOSED"
                 PROVE  Settled' /\ OPNs(toServer') = {} /\ OPNs(toClient') = {}
    BY DEF Agreement
  <2> QED
    BY <1>1, <1>3, <1>5, <2>1 DEF Settled
<1>8. Timing'
  <2>1. SUFFICES ASSUME client.state = "OPEN" PROVE Aged' /\ BeforeRenewal' /\ AfterRenewal'
    BY DEF Timing
  <2>2. Aged /\ AfterRenewal
    BY <2>1 DEF ChannelInv, Parts, Timing
  <2>3. Aged'
    BY <1>1, <2>2 DEF Aged
  <2>4. BeforeRenewal'
    BY <1>3, <2>1 DEF BeforeRenewal
  <2>5. AfterRenewal'
    BY <1>1, <1>5, <2>1, <2>2 DEF AfterRenewal
  <2> QED
    BY <2>3, <2>4, <2>5
<1> QED
    BY <1>4, <1>6, <1>7, <1>8 DEF Parts

\* An expired channel is rolled over or closed.
LEMMA CleanUpKeeps == ASSUME ChannelInv, FineTicks, CleanUp PROVE Parts'
<1>1. /\ server.state = "OPEN" /\ Expired(server)
      /\ UNCHANGED <<config, client, renewalIn, checked>>
    BY DEF CleanUp
<1>2. /\ toClient \in Seq(Message) /\ server \in End
      /\ server.renew \in {"NORMAL", "NEWTOKEN_SERVER"} /\ server.age \in Nat
      /\ client.state \in Connecting \union {"OPEN", "CLOSED"}
    BY Made DEF ChannelInv, ChannelTypes, Connecting
<1>3. CASE Expired(CleanedUp(server))
  <2> DEFINE fin == Plain("FIN", "none", 0, 0)
  <2>1. /\ server' = Fresh("CLOSED") /\ toServer' = <<>>
        /\ toClient' = Append(toClient, fin) /\ ~parked'
    BY <1>3 DEF CleanUp
  <2>2. fin \in Message /\ fin.type = "FIN"
    BY Made DEF Type, Kind, Plain
  <2> HIDE DEF fin
  <2>3. Requests(toServer') = {} /\ Responses(toClient') = Responses(toClient)
    BY <1>2, <2>1, <2>2, EmptyWire, Written
  <2>4. client.state # "CLOSED" => ClientSide(config, client, toClient')
    BY <1>2, <2>1, <2>2, OtherWritten DEF ChannelInv, Parts, Sides
  <2>5. client.state \in Connecting => Responses(toClient') = {}
    BY <2>3 DEF ChannelInv, Parts, Handshake
  <2> QED
    BY <1>1, <2>1, <2>3, <2>4, <2>5, ServerGone
<1>4. CASE ~Expired(CleanedUp(server))
  <2>1. server' = CleanedUp(server) /\ UNCHANGED <<parked, toServer, toClient>>
    BY <1>4 DEF CleanUp, wires
  <2>2. server.renew = "NEWTOKEN_SERVER" /\ server' = ServerRollover(server)
    BY <1>1, <1>2, <1>4, <2>1 DEF CleanedUp
  <2>3. /\ server'.state = "OPEN" /\ server'.renew = "NORMAL" /\ server'.token = server.alt
        /\ server'.age = server.altAge
        /\ server'.localKey = ServerKey(server) /\ server'.remoteKey = ServerKey(server)
    BY <1>1, <1>2, <2>2, RolledOver
  <2>4. client.state \in {"OPEN", "CLOSED"}
    <3>1. client.state \in Connecting => server.age = 0
      BY DEF ChannelInv, Parts, Handshake
    <3>2. server.age # 0
      BY <1>1, <1>2, Times DEF Expired
    <3> QED
      BY <1>2, <3>1, <3>2
  <2>5. ServerSide(config, server, toServer)
    BY <1>1 DEF ChannelInv, Parts, Sides
  <2>6. ServerSide(config, server', toServer)
    <3>1. config.secured => \A i \in Requests(toServer) : NewRequest(config, server, toServer[i])
      BY <1>1, <2>2, <2>5 DEF ServerSide, RequestFits, Strict
    <3> QED
      BY <2>2, <2>3, <2>5, <3>1, ServerMovesOn
  <2>7. CASE client.state = "CLOSED" \/ client.renew # "SENT"
    BY <1>1, <2>1, <2>2, <2>4, <2>6, <2>7, MovesOnKeeps
  <2>8. CASE client.state # "CLOSED" /\ client.renew = "SENT"
    <3>1. PICK k \in OPNs(toClient) : Granted(k)
      BY <1>1, <2>2, <2>8, OnItsWay
    <3>2. /\ OPNs(toServer) = {} /\ ~Strict(config) /\ server.altAge = 0
      BY <1>1, <2>2, <3>1 DEF Granted
    <3>3. \A i \in OPNs(toClient) : Granted(i)
      BY <1>1, <2>8 DEF ChannelInv, Parts, Agreement
    <3>4. Handshake'
      BY <1>1, <2>3, <2>4 DEF Handshake, Connecting
    <3>5. Sides' /\ SoonUsed'
      BY <1>1, <2>1, <2>6 DEF ChannelInv, Parts, Sides, SoonUsed
    <3>6. ASSUME NEW i \in OPNs(toClient) PROVE Granted(i)'
      <4>1. server.alt = toClient[i].token
        BY <2>2, <3>3 DEF Granted
      <4> QED
        BY <1>1, <2>1, <2>3, <3>2, <4>1 DEF Granted
    <3>7. Agreement' /\ Timing'
      BY <1>1, <2>1, <2>8, <3>1, <3>2, <3>6 DEF Agreement, Timing
    <3> QED
      BY <3>4, <3>5, <3>7 DEF Parts
  <2> QED
    BY <2>7, <2>8
<1> QED
    BY <1>3, <1>4

\* An end that reads or answers under the token in use leaves the agreement.
LEMMA AgreementStays ==
    ASSUME ChannelInv, UNCHANGED <<config, client, server>>,
           client.state # "CLOSED", server.state # "CLOSED",
           OPNs(toServer') = {} => OPNs(toServer) = {},
           \A k \in OPNs(toServer') :
             \E j \in OPNs(toServer) : toServer'[k].nonce = toServer[j].nonce,
           OPNs(toClient') = OPNs(toClient),
           \A k \in OPNs(toClient) : toClient'[k] = toClient[k],
           \A i \in Requests(toServer') :
             \E j \in Requests(toServer) : toServer'[i].token = toServer[j].token,
           \A i \in Responses(toClient') :
             \/ toClient'[i].token = server.token
             \/ i \in Responses(toClient) /\ toClient'[i].token = toClient[i].token
    PROVE  Agreement'
<1>1. /\ client.renew # "SENT" => Settled
      /\ client.renew = "SENT" => OPNs(toServer) \union OPNs(toClient) # {}
      /\ \A k \in OPNs(toServer) : Asked(k)
      /\ \A k \in OPNs(toClient) : Granted(k)
    BY DEF ChannelInv, Parts, Agreement
<1>2. client.renew # "SENT" => Settled'
  <2>1. SUFFICES ASSUME client.renew # "SENT" PROVE Settled'
    OBVIOUS
  <2>2. OPNs(toServer') = {}
    BY <1>1, <2>1 DEF Settled
  <2>3. server.renew = "NEWTOKEN_SERVER" =>
          \A i \in Responses(toClient') : toClient'[i].token = client.alt
    BY <1>1, <2>1 DEF Settled
  <2> QED
    BY <1>1, <2>1, <2>2, <2>3 DEF Settled
<1>3. ASSUME NEW k \in OPNs(toServer') PROVE Asked(k)'
  <2>1. PICK j \in OPNs(toServer) : toServer'[k].nonce = toServer[j].nonce
    BY <1>3
  <2>2. Asked(j)
    BY <1>1
  <2> QED
    BY <2>1, <2>2 DEF Asked
<1>4. ASSUME NEW k \in OPNs(toClient') PROVE Granted(k)'
  <2>1. Granted(k) /\ toClient'[k] = toClient[k]
    BY <1>1
  <2>2. OPNs(toServer') = {}
    BY <2>1 DEF Granted
  <2>3. ASSUME server.renew = "NEWTOKEN_SERVER"
        PROVE  /\ \A i \in Requests(toServer') : toServer'[i].token = server.token
               /\ \A i \in Responses(toClient') : k < i => toClient'[i].token = client.token
    BY <2>1, <2>3 DEF Granted
  <2> QED
    BY <2>1, <2>2, <2>3 DEF Granted
<1> QED
    BY <1>1, <1>2, <1>3, <1>4 DEF Agreement

\* A parked request is answered.
LEMMA AnswerPublishKeeps == ASSUME ChannelInv, AnswerPublish PROVE Parts'
<1> DEFINE m == Secured("MSG", "publish", server)
<1>1. /\ parked /\ server.state = "OPEN" /\ ~parked' /\ toClient' = Append(toClient, m)
      /\ UNCHANGED <<config, client, server, toServer, lastNonce, renewalIn, checked>>
    BY DEF AnswerPublish
<1>2. /\ toClient \in Seq(Message) /\ server \in End
      /\ server.renew \in {"NORMAL", "NEWTOKEN_SERVER"} /\ server.age \in Nat
    BY Made DEF ChannelInv, ChannelTypes
<1>3. m \in Message /\ m.type = "MSG" /\ m.token = server.token /\ m.key = server.localKey
  <2>1. m \in Message
    BY <1>2, Made DEF Type, Kind
  <2> QED
    BY <2>1 DEF Secured
<1> HIDE DEF m
<1>4. PICK n : n = Len(toClient) + 1
    OBVIOUS
<1>5. /\ OPNs(toClient') = OPNs(toClient) /\ toClient'[n] = m
      /\ Responses(toClient') = Responses(toClient) \union {n}
      /\ \A i \in DOMAIN toClient : toClient'[i] = toClient[i]
      /\ Responses(toClient) \subseteq DOMAIN toClient /\ OPNs(toClient) \subseteq DOMAIN toClient
    BY <1>1, <1>2, <1>3, <1>4, Written DEF Responses, OPNs
<1>6. client.state \in {"OPEN", "CLOSED"}
    BY <1>1, OpenAtClient
<1>7. Handshake'
    BY <1>1, <1>6 DEF Handshake, Connecting
<1>8. Sides' /\ SoonUsed'
  <2>1. client.state # "CLOSED" => ClientSide(config, client, toClient')
    BY <1>1, <1>3, ServerWrites
  <2> QED
    BY <1>1, <2>1 DEF ChannelInv, Parts, Sides, SoonUsed
<1>9. Agreement'
  <2>1. SUFFICES ASSUME client.state # "CLOSED" PROVE Agreement'
    BY <1>1 DEF Agreement
  <2>2. /\ \A k \in OPNs(toServer') :
             \E j \in OPNs(toServer) : toServer'[k].nonce = toServer[j].nonce
        /\ \A i \in Requests(toServer') :
             \E j \in Requests(toServer) : toServer'[i].token = toServer[j].token
        /\ OPNs(toServer') = OPNs(toServer)
    BY <1>1
  <2>3. \A k \in OPNs(toClient) : toClient'[k] = toClient[k]
    BY <1>5
  <2>4. \A i \in Responses(toClient') :
          \/ toClient'[i].token = server.token
          \/ i \in Responses(toClient) /\ toClient'[i].token = toClient[i].token
    BY <1>3, <1>5
  <2> QED
    BY <1>1, <1>5, <2>1, <2>2, <2>3, <2>4, AgreementStays
<1>10. Timing'
  <2>1. SUFFICES ASSUME client.state = "OPEN", client.renew # "SENT"
                 PROVE  Aged' /\ BeforeRenewal' /\ AfterRenewal'
    BY <1>1 DEF Timing
  <2>2. Aged /\ BeforeRenewal /\ AfterRenewal
    BY <1>1, <2>1 DEF ChannelInv, Parts, Timing
  <2>3. Aged'
    BY <1>1, <2>2 DEF Aged
  <2>4. BeforeRenewal'
    BY <1>1, <1>2, <2>2 DEF BeforeRenewal
  <2>5. ASSUME client.renew = "NEWTOKEN_CLIENT", server.renew = "NORMAL"
        PROVE  m.token # client.alt
    <3>1. server.token = client.token
      BY <1>1, <2>1, <2>5, OnItsWay DEF Settled
    <3>2. client.alt # client.token
      BY <2>1, <2>5 DEF ChannelInv, Parts, Sides, ClientSide
    <3> QED
      BY <1>3, <3>1, <3>2
  <2>6. AfterRenewal'
    BY <1>1, <1>2, <1>5, <2>2, <2>5 DEF AfterRenewal
  <2> QED
    BY <2>3, <2>4, <2>6
<1> QED
    BY <1>7, <1>8, <1>9, <1>10 DEF Parts

\* A request under the token in use.
LEMMA RequestTakenKeeps ==
    ASSUME ChannelInv, UNCHANGED <<config, client, server, lastNonce, renewalIn, checked>>,
           toServer # <<>>, Head(toServer).type = "MSG", toServer' = Tail(toServer),
           Accepts(server, Head(toServer)), ~RollsOver(server, Head(toServer)),
           toClient' = IF Head(toServer).kind = "read"
                       THEN Append(toClient, Secured("MSG", "read", server)) ELSE toClient
    PROVE  Parts'
<1> DEFINE m == Secured("MSG", "read", server)
           h == Head(toServer)
<1>1. /\ toServer \in Seq(Message) /\ toClient \in Seq(Message) /\ server \in End
      /\ server.renew \in {"NORMAL", "NEWTOKEN_SERVER"}
    BY DEF ChannelInv, ChannelTypes
<1>2. m \in Message /\ m.type = "MSG" /\ m.token = server.token /\ m.key = server.localKey
  <2>1. m \in Message
    BY <1>1, Made DEF Type, Kind
  <2> QED
    BY <2>1 DEF Secured
<1>3. h = toServer[1] /\ 1 \in Requests(toServer)
    BY <1>1, Read
<1>4. server.state = "OPEN" /\ client.state \in {"OPEN", "CLOSED"}
    BY <1>3, OpenAtServer, OpenAtClient DEF Accepts
<1>5. server.renew = "NEWTOKEN_SERVER" => h.token = server.token
    BY DEF Accepts, TokenKnown, RollsOver
<1>6. /\ \A i \in Requests(toServer') : i + 1 \in Requests(toServer) /\ toServer'[i] = toServer[i + 1]
      /\ \A i \in OPNs(toServer') : i + 1 \in OPNs(toServer) /\ toServer'[i] = toServer[i + 1]
      /\ OPNs(toServer) # {} => OPNs(toServer') # {}
    BY <1>1, BehindAtServer
<1>7. ServerSide(config, server, toServer')
    BY <1>1, <1>4, ServerReads DEF ChannelInv, Parts, Sides
<1>8. /\ client.state # "CLOSED" => ClientSide(config, client, toClient')
      /\ OPNs(toClient') = OPNs(toClient)
      /\ \A k \in OPNs(toClient) : toClient'[k] = toClient[k]
      /\ \A i \in Responses(toClient') :
           \/ toClient'[i].token = server.token
           \/ i \in Responses(toClient) /\ toClient'[i].token = toClient[i].token
  <2> HIDE DEF m
  <2>1. CASE h.kind = "read"
    <3>1. toClient' = Append(toClient, m)
      BY <2>1 DEF m
    <3>2. client.state # "CLOSED" => ClientSide(config, client, toClient')
      BY <1>2, <1>4, <3>1, ServerWrites
    <3>3. /\ OPNs(toClient') = OPNs(toClient) /\ toClient'[Len(toClient) + 1] = m
          /\ Responses(toClient') = Responses(toClient) \union {Len(toClient) + 1}
          /\ \A i \in DOMAIN toClient : toClient'[i] = toClient[i]
          /\ Responses(toClient) \subseteq DOMAIN toClient /\ OPNs(toClient) \subseteq DOMAIN toClient
      BY <1>1, <1>2, <3>1, Written DEF Responses, OPNs
    <3> QED
      BY <1>2, <3>2, <3>3
  <2>2. CASE h.kind # "read"
    <3>1. toClient' = toClient
      BY <2>2
    <3> QED
      BY <3>1 DEF ChannelInv, Parts, Sides
  <2> QED
    BY <2>1, <2>2
<1> HIDE DEF h, m
<1>9. Handshake'
    BY <1>4 DEF Handshake, Connecting
<1>10. Sides' /\ SoonUsed'
    BY <1>7, <1>8 DEF ChannelInv, Parts, Sides, SoonUsed
<1>11. Agreement'
  <2>1. SUFFICES ASSUME client.state # "CLOSED" PROVE Agreement'
    BY DEF Agreement
  <2>2. \A k \in OPNs(toServer') :
          \E j \in OPNs(toServer) : toServer'[k].nonce = toServer[j].nonce
    BY <1>6
  <2>3. \A i \in Requests(toServer') :
          \E j \in Requests(toServer) : toServer'[i].token = toServer[j].token
    BY <1>6
  <2> QED
    BY <1>4, <1>6, <1>8, <2>1, <2>2, <2>3, AgreementStays
<1>12. Timing'
  <2>1. SUFFICES ASSUME client.state = "OPEN", client.renew # "SENT"
                 PROVE  Aged' /\ BeforeRenewal' /\ AfterRenewal'
    BY DEF Timing
  <2>2. Aged /\ BeforeRenewal /\ AfterRenewal
    BY <1>4, <2>1 DEF ChannelInv, Parts, Timing
  <2>3. Aged'
    BY <2>2 DEF Aged
  <2>4. BeforeRenewal'
    BY <1>3, <2>2 DEF BeforeRenewal
  <2>5. AfterRenewal'
    <3>1. SUFFICES ASSUME config.secured, client.renew = "NEWTOKEN_CLIENT", renewalIn < RenewAfter
                   PROVE  AfterRenewal'
      BY DEF AfterRenewal
    <3>2. client.alt # client.token
      BY <2>1, <3>1 DEF ChannelInv, Parts, Sides, ClientSide
    <3>3. Settled
      BY <1>4, <2>1, OnItsWay
    <3>4. server.renew = "NORMAL"
      <4>1. SUFFICES ASSUME server.renew = "NEWTOKEN_SERVER" PROVE FALSE
        BY <1>1
      <4>2. h.token = server.alt
        BY <1>3, <2>2, <3>1, <4>1 DEF AfterRenewal
      <4> QED
        BY <1>5, <3>2, <3>3, <4>1, <4>2 DEF Settled
    <3>5. server.token # client.alt
      BY <3>2, <3>3, <3>4 DEF Settled
    <3> QED
      BY <1>8, <2>2, <3>1, <3>4, <3>5 DEF AfterRenewal
  <2> QED
    BY <2>3, <2>4, <2>5
<1> QED
    BY <1>9, <1>10, <1>11, <1>12 DEF Parts

\* A request.
LEMMA ReceiveRequestKeeps == ASSUME ChannelInv, FineTicks, ReceiveRequest PROVE Parts'
<1> DEFINE m == Head(toServer)
           e == Revolved(server, m)
<1>1. /\ toServer # <<>> /\ m.type \in {"MSG", "CLO"}
      /\ UNCHANGED <<config, client, lastNonce, renewalIn, checked>>
    BY DEF ReceiveRequest
<1>2. /\ toServer \in Seq(Message) /\ toClient \in Seq(Message) /\ server \in End
      /\ server.renew \in {"NORMAL", "NEWTOKEN_SERVER"}
    BY DEF ChannelInv, ChannelTypes
<1>3. m = toServer[1] /\ 1 \in Requests(toServer)
    BY <1>1, <1>2, Read
<1>4. CASE ServerCloses
    BY <1>1, <1>4, ServerClosesKeeps
<1>5. CASE server' = Fresh("CLOSED") /\ parked' = FALSE /\ toServer' = <<>> /\ UNCHANGED toClient
  <2>1. Requests(toServer') = {} /\ ~parked'
    BY <1>5, EmptyWire
  <2>2. /\ client.state # "CLOSED" => ClientSide(config, client, toClient')
        /\ client.state \in Connecting => Responses(toClient') = {}
    BY <1>5 DEF ChannelInv, Parts, Sides, Handshake
  <2> QED
    BY <1>1, <1>5, <2>1, <2>2, ServerGone
<1>6. CASE /\ Accepts(server, m) /\ m.type = "MSG"
           /\ server' = e /\ toServer' = Tail(toServer)
           /\ toClient' = IF m.kind = "read"
                          THEN Append(toClient, Secured("MSG", "read", e)) ELSE toClient
  <2>1. CASE ~RollsOver(server, m)
    <3>1. e = server
      BY <1>2, <2>1, Moved
    <3> HIDE DEF e
    <3> QED
      BY <1>1, <1>6, <2>1, <3>1, RequestTakenKeeps
  <2>2. CASE RollsOver(server, m)
    <3>1. server.renew = "NEWTOKEN_SERVER" /\ m.token = server.alt /\ m.token # server.token
      BY <1>2, <2>2 DEF RollsOver
    <3>2. e = ServerRollover(server)
      BY <1>2, <2>2, <3>1, Moved
    <3>3. /\ e \in End /\ e.renew = "NORMAL" /\ e.token = server.alt
          /\ e.localKey = ServerKey(server) /\ e.remoteKey = ServerKey(server)
      BY <1>2, <3>2, RolledOver
    <3>4. config.secured => m.key = ServerKey(server)
      BY <1>6, <3>3 DEF Accepts
    <3> HIDE DEF e, m
    <3>5. NewRequest(config, server, m)
      BY <3>1, <3>4 DEF NewRequest, Bears
    <3>6. server.state = "OPEN" /\ client.state \in {"OPEN", "CLOSED"}
      BY <1>3, <1>6, OpenAtServer, OpenAtClient DEF Accepts
    <3>7. ServerSide(config, server, toServer)
      BY <3>6 DEF ChannelInv, Parts, Sides
    <3>8. ServerSide(config, server, toServer')
      BY <1>1, <1>2, <1>6, <3>7, ServerReads
    <3>9. config.secured => \A i \in Requests(toServer') : NewRequest(config, server, toServer'[i])
      BY <1>1, <1>2, <1>6, <3>1, <3>5, <3>7, NextRequest DEF m
    <3>10. ServerSide(config, server', toServer')
      BY <1>6, <3>1, <3>3, <3>8, <3>9, ServerMovesOn
    <3>11. client.state # "CLOSED" => client.renew # "SENT"
      <4>1. SUFFICES ASSUME client.state # "CLOSED", client.renew = "SENT" PROVE FALSE
        OBVIOUS
      <4>2. \E k \in OPNs(toClient) : Granted(k)
        BY <3>1, <3>6, <4>1, OnItsWay
      <4> QED
        BY <1>3, <3>1, <4>2 DEF Granted
    <3>12. OPNs(toServer) = {} => OPNs(toServer') = {}
      BY <1>1, <1>2, <1>6, BehindAtServer
    <3>13. \/ toClient' = toClient
           \/ \E r \in Message : /\ r.type = "MSG" /\ r.token = server'.token /\ r.key = server'.localKey
                                 /\ toClient' = Append(toClient, r)
      <4> DEFINE r == Secured("MSG", "read", e)
      <4>1. r \in Message
        BY <3>3, Made DEF Type, Kind
      <4>2. r.type = "MSG" /\ r.token = server'.token /\ r.key = server'.localKey
        BY <1>6 DEF Secured
      <4>3. toClient' = toClient \/ toClient' = Append(toClient, r)
        BY <1>6
      <4> HIDE DEF r
      <4> QED
        BY <4>1, <4>2, <4>3
    <3> QED
      BY <1>1, <1>6, <3>1, <3>2, <3>6, <3>10, <3>11, <3>12, <3>13, MovesOnKeeps
  <2> QED
    BY <2>1, <2>2
<1> QED
    BY <1>4, <1>5, <1>6 DEF ReceiveRequest

\* The server finds that the client has closed the connection.
LEMMA RemoveConnectionKeeps == ASSUME ChannelInv, RemoveConnection PROVE Parts'
<1>1. /\ client.state = "CLOSED" /\ server' = Fresh("CLOSED") /\ toServer' = <<>> /\ ~parked'
      /\ UNCHANGED <<config, client, renewalIn>>
    BY DEF RemoveConnection
<1> QED
    BY <1>1, EmptyWire, ServerGone DEF Connecting

\* What nobody reads any more is lost.
LEMMA DiscardKeeps == ASSUME ChannelInv, Discard PROVE Parts'
<1>1. UNCHANGED <<config, client, server, renewalIn, parked>>
    BY DEF Discard, ends
<1>2. CASE server.state = "CLOSED" /\ toServer' = <<>> /\ UNCHANGED toClient
  <2>1. Handshake'
    BY <1>1, <1>2, EmptyWire DEF ChannelInv, Parts, Handshake, Connecting
  <2> QED
    BY <1>1, <1>2, <2>1 DEF ChannelInv, Parts, Sides, SoonUsed, Agreement, Timing
<1>3. CASE client.state = "CLOSED" /\ toClient' = <<>> /\ UNCHANGED toServer
  <2>1. Handshake'
    BY <1>1, <1>3, EmptyWire DEF ChannelInv, Parts, Handshake, Connecting
  <2> QED
    BY <1>1, <1>3, <2>1 DEF ChannelInv, Parts, Sides, SoonUsed, Agreement, Timing
<1> QED
    BY <1>2, <1>3 DEF Discard, Lost

-----------------------------------------------------------------------------
(* Time. *)

\* A tick: the tokens grow older and the renewal comes nearer. A checked client
\* has used its token by the end of the tick it got it in, or of the next.
LEMMA TickKeeps == ASSUME ChannelInv, FineTicks, CheckedConfigs, Tick PROVE Parts'
<1>1. /\ client.state = "OPEN" /\ server.state = "OPEN" /\ toServer = <<>> /\ toClient = <<>>
      /\ ~Expired(server) /\ (config.diligent => renewalIn > 0) /\ (config.check => checked)
      /\ config.session => server.token # 0
      /\ ~checked' /\ renewalIn' = IF renewalIn = 0 THEN 0 ELSE renewalIn - 1
      /\ UNCHANGED <<config, client, toServer, toClient, lastNonce, parked>>
    BY DEF Tick, wires
<1>2. /\ server \in End /\ server.renew \in {"NORMAL", "NEWTOKEN_SERVER"}
      /\ client.renew \in {"NORMAL", "SENT", "NEWTOKEN_CLIENT"}
      /\ server.age \in 0..Lifetime + 1 /\ server.altAge \in 0..Lifetime + 1
      /\ renewalIn \in 0..RenewAfter /\ config \in Configs
    BY DEF ChannelInv, ChannelTypes, End, Age
<1>3. /\ RenewAfter \in Nat /\ Lifetime \in Nat /\ RenewAfter >= 3 /\ RenewAfter + 1 <= Lifetime
    BY Times
<1>4. server.token # 0 /\ (config.secured => checked)
    BY <1>1, <1>2 DEF CheckedConfigs
<1>5. /\ server'.state = "OPEN" /\ server'.renew = server.renew
      /\ server'.token = server.token /\ server'.alt = server.alt
      /\ server'.localNonce = server.localNonce /\ server'.remoteNonce = server.remoteNonce
      /\ server'.localKey = server.localKey /\ server'.remoteKey = server.remoteKey
      /\ server'.age = Older(server.age)
      /\ server.renew = "NEWTOKEN_SERVER" => server'.altAge = Older(server.altAge)
  <2>1. server' = [server EXCEPT !.age = Older(@),
                     !.altAge = IF server.renew = "NEWTOKEN_SERVER" THEN Older(@) ELSE 0]
    BY DEF Tick
  <2> QED
    BY <1>1, <1>2, <2>1 DEF End
<1>6. server'.age = server.age + 1
    BY <1>1, <1>2, <1>3, <1>5 DEF Expired, Older
<1>7. /\ Requests(toServer) = {} /\ OPNs(toServer) = {}
      /\ Responses(toClient) = {} /\ OPNs(toClient) = {}
    BY <1>1, EmptyWire
<1>8. client.renew # "SENT" /\ Settled
    BY <1>1, <1>7, OnItsWay
<1>9. Aged /\ BeforeRenewal /\ AfterRenewal
    BY <1>1, <1>8 DEF ChannelInv, Parts, Timing
<1>10. Handshake'
    BY <1>1, <1>5 DEF Handshake, Connecting
<1>11. Sides'
  <2>1. /\ server.localKey = server.remoteKey
        /\ server.renew = "NEWTOKEN_SERVER" => server.alt # server.token
    BY <1>1 DEF ChannelInv, Parts, Sides, ServerSide
  <2>2. ServerSide(config, server', <<>>)
    BY <1>5, <2>1, NothingAsked
  <2> QED
    BY <1>1, <2>2 DEF ChannelInv, Parts, Sides
<1>12. config.secured /\ client.renew = "NEWTOKEN_CLIENT" =>
         renewalIn \in {RenewAfter, RenewAfter - 1}
  <2>1. SUFFICES ASSUME config.secured, client.renew = "NEWTOKEN_CLIENT", renewalIn < RenewAfter
                 PROVE  renewalIn = RenewAfter - 1
    BY <1>2, <1>3
  <2> QED
    BY <1>4, <1>9, <2>1 DEF AfterRenewal
<1>13. SoonUsed'
  <2>1. SUFFICES ASSUME config.secured, client.renew = "NEWTOKEN_CLIENT"
                 PROVE  renewalIn' >= RenewAfter - 2
    BY <1>1 DEF SoonUsed
  <2> QED
    BY <1>1, <1>2, <1>3, <1>12, <2>1
<1>14. Agreement'
  <2>1. ServerKey(server') = ServerKey(server)
    BY <1>5 DEF ServerKey
  <2>2. Settled'
    BY <1>1, <1>5, <1>7, <1>8, <2>1 DEF Settled
  <2> QED
    BY <1>1, <1>7, <1>8, <2>2 DEF Agreement
<1>15. Aged'
  <2>1. CASE server.renew = "NORMAL"
    <3>1. /\ server.age >= RenewAfter - renewalIn
          /\ renewalIn > 0 => server.age <= RenewAfter - renewalIn
      BY <1>9, <2>1 DEF Aged
    <3>2. /\ server'.age >= RenewAfter - renewalIn'
          /\ renewalIn' > 0 \/ config.diligent => server'.age <= RenewAfter - renewalIn'
      BY <1>1, <1>2, <1>3, <1>6, <3>1
    <3> QED
      BY <1>1, <1>5, <2>1, <3>2 DEF Aged
  <2>2. CASE server.renew = "NEWTOKEN_SERVER"
    <3>1. /\ server.altAge >= RenewAfter - renewalIn
          /\ renewalIn > 0 => server.altAge <= RenewAfter - renewalIn
          /\ server.age >= RenewAfter + server.altAge
      BY <1>4, <1>9, <2>2 DEF Aged
    <3>2. server'.altAge = server.altAge + 1 /\ server.altAge <= Lifetime
      BY <1>1, <1>2, <1>3, <1>5, <2>2, <3>1 DEF Older, Expired
    <3>3. /\ server'.altAge >= RenewAfter - renewalIn'
          /\ renewalIn' > 0 \/ config.diligent => server'.altAge <= RenewAfter - renewalIn'
          /\ server'.age >= RenewAfter + server'.altAge
      BY <1>1, <1>2, <1>3, <1>6, <3>1, <3>2
    <3> QED
      BY <1>1, <1>5, <2>2, <3>3 DEF Aged
  <2> QED
    BY <1>2, <2>1, <2>2
<1>16. BeforeRenewal'
  <2>1. SUFFICES ASSUME config.secured, renewalIn' = 0, lastNonce < MaxToken
                 PROVE  /\ server'.age <= RenewAfter + 1
                        /\ server'.age = RenewAfter + 1 => ~parked
    BY <1>1, <1>7 DEF BeforeRenewal
  <2>2. client.renew # "NEWTOKEN_CLIENT"
    BY <1>1, <1>2, <1>3, <1>12, <2>1
  <2>3. server.renew = "NORMAL"
    BY <1>2, <1>8, <2>2 DEF Settled
  <2>4. CASE renewalIn = 0
    <3>1. /\ server.age <= RenewAfter + 1 /\ ~parked /\ server.age # RenewAfter + 1
      BY <1>4, <1>9, <2>1, <2>4 DEF BeforeRenewal
    <3> QED
      BY <1>2, <1>3, <1>6, <3>1
  <2>5. CASE renewalIn # 0
    <3>1. renewalIn = 1
      BY <1>1, <1>2, <2>1, <2>5
    <3>2. server.age <= RenewAfter - 1
      BY <1>9, <2>3, <3>1 DEF Aged
    <3> QED
      BY <1>2, <1>3, <1>6, <3>2
  <2> QED
    BY <2>4, <2>5
<1>17. AfterRenewal'
  <2>1. SUFFICES ASSUME config.secured, client.renew = "NEWTOKEN_CLIENT",
                        server.renew = "NEWTOKEN_SERVER", parked
                 PROVE  renewalIn' = RenewAfter - 1
    BY <1>1, <1>5, <1>7 DEF AfterRenewal
  <2>2. renewalIn = RenewAfter
    <3>1. SUFFICES ASSUME renewalIn # RenewAfter PROVE FALSE
      OBVIOUS
    <3>2. renewalIn < RenewAfter
      BY <1>2, <1>3, <3>1
    <3> QED
      BY <1>4, <1>9, <2>1, <3>2 DEF AfterRenewal
  <2> QED
    BY <1>1, <1>3, <2>2
<1> QED
    BY <1>10, <1>11, <1>13, <1>14, <1>15, <1>16, <1>17 DEF Parts, Timing

-----------------------------------------------------------------------------
(* What follows from the invariant. *)

\* The next request has a token and a key the server accepts.
LEMMA RequestAccepted ==
    ASSUME ChannelInv, toServer # <<>>, Head(toServer).type \in {"MSG", "CLO"},
           server.state # "CLOSED"
    PROVE  Accepts(server, Head(toServer))
<1> DEFINE m == Head(toServer)
<1>1. /\ toServer \in Seq(Message) /\ server \in End
      /\ server.renew \in {"NORMAL", "NEWTOKEN_SERVER"}
      /\ ServerSide(config, server, toServer)
    BY DEF ChannelInv, ChannelTypes, Parts, Sides
<1>2. /\ server.renew = "NORMAL" /\ config.secured => m.key = server.remoteKey
      /\ server.renew = "NEWTOKEN_SERVER" =>
           OldRequest(config, server, m) \/ NewRequest(config, server, m)
    BY <1>1, NextRequest
<1>3. server.renew = "NEWTOKEN_SERVER" => server.alt # server.token
    BY <1>1 DEF ServerSide
<1> HIDE DEF m
<1>4. CASE ~RollsOver(server, m)
  <2>1. Revolved(server, m) = server
    BY <1>1, <1>4, Moved
  <2>2. server.renew = "NEWTOKEN_SERVER" => OldRequest(config, server, m)
    BY <1>2, <1>3, <1>4 DEF RollsOver, NewRequest, Bears
  <2> QED
    BY <1>1, <1>2, <2>1, <2>2 DEF Accepts, TokenKnown, OldRequest, Bears, m
<1>5. CASE RollsOver(server, m)
  <2>1. server.renew = "NEWTOKEN_SERVER" /\ m.token = server.alt /\ m.token # server.token
    BY <1>1, <1>5 DEF RollsOver
  <2>2. Revolved(server, m).remoteKey = ServerKey(server)
    <3>1. Revolved(server, m) = ServerRollover(server)
      BY <1>1, <1>5, <2>1, Moved
    <3> QED
      BY <1>1, <3>1, RolledOver
  <2>3. NewRequest(config, server, m)
    BY <1>2, <2>1 DEF OldRequest, Bears
  <2> QED
    BY <1>1, <2>1, <2>2, <2>3 DEF Accepts, TokenKnown, NewRequest, Bears, m
<1> QED
    BY <1>4, <1>5

\* The next response has a token and a key the client accepts.
LEMMA ResponseAccepted ==
    ASSUME ChannelInv, toClient # <<>>, Head(toClient).type = "MSG", client.state # "CLOSED"
    PROVE  Accepts(client, Head(toClient))
<1> DEFINE m == Head(toClient)
<1>1. /\ toClient \in Seq(Message) /\ client \in End
      /\ client.renew \in {"NORMAL", "SENT", "NEWTOKEN_CLIENT"}
      /\ ClientSide(config, client, toClient)
    BY DEF ChannelInv, ChannelTypes, Parts, Sides
<1>2. /\ client.renew # "NEWTOKEN_CLIENT" /\ config.secured => m.key = client.remoteKey
      /\ client.renew = "NEWTOKEN_CLIENT" =>
           OldResponse(config, client, m) \/ NewResponse(config, client, m)
    BY <1>1, NextResponse
<1>3. client.renew = "NEWTOKEN_CLIENT" =>
        client.localKey = ClientKey(client) /\ client.alt # client.token
    BY <1>1 DEF ClientSide
<1> HIDE DEF m
<1>4. CASE ~RollsOver(client, m)
  <2>1. Revolved(client, m) = client
    BY <1>1, <1>4, Moved
  <2>2. client.renew = "NEWTOKEN_CLIENT" => OldResponse(config, client, m)
    BY <1>2, <1>3, <1>4 DEF RollsOver, NewResponse, Bears
  <2> QED
    BY <1>1, <1>2, <2>1, <2>2 DEF Accepts, TokenKnown, OldResponse, Bears, m
<1>5. CASE RollsOver(client, m)
  <2>1. client.renew = "NEWTOKEN_CLIENT" /\ m.token = client.token /\ m.token # client.alt
    BY <1>1, <1>5 DEF RollsOver
  <2>2. Revolved(client, m).remoteKey = ClientKey(client)
    <3>1. Revolved(client, m) =
            [client EXCEPT !.renew = "NORMAL", !.alt = 0, !.remoteKey = ClientKey(client)]
      BY <1>1, <1>5, <2>1, Moved
    <3> QED
      BY <1>1, <3>1 DEF End
  <2>3. NewResponse(config, client, m)
    BY <1>2, <2>1 DEF OldResponse, Bears
  <2> QED
    BY <1>1, <1>3, <2>1, <2>2, <2>3 DEF Accepts, TokenKnown, NewResponse, Bears, m
<1> QED
    BY <1>4, <1>5

\* A diligent client is never cut off.
LEMMA NotCutOff ==
    ASSUME ChannelInv, FineTicks, config.diligent,
           client.state = "OPEN", server.state = "OPEN"
    PROVE  /\ ~Expired(CleanedUp(server))
           /\ toServer # <<>> /\ Head(toServer).type = "MSG" =>
                ~Expired(Revolved(server, Head(toServer)))
<1>1. /\ toServer \in Seq(Message) /\ server \in End
      /\ server.renew \in {"NORMAL", "NEWTOKEN_SERVER"}
      /\ server.age \in Nat /\ server.altAge \in Nat /\ renewalIn \in 0..RenewAfter
      /\ ServerSide(config, server, toServer) /\ Strict(config)
    BY Made DEF ChannelInv, ChannelTypes, Parts, Sides, Strict
<1>2. RenewAfter \in Nat /\ Lifetime \in Nat /\ RenewAfter <= Lifetime
    BY Times
<1>3. client.renew # "SENT" => Aged
    BY DEF ChannelInv, Parts, Timing
<1>4. server.renew = "NORMAL" => ~Expired(server)
  <2>1. SUFFICES ASSUME server.renew = "NORMAL" PROVE ~Expired(server)
    OBVIOUS
  <2>2. CASE client.renew # "SENT"
    <3>1. server.age <= RenewAfter - renewalIn
      BY <1>3, <2>1, <2>2 DEF Aged
    <3> QED
      BY <1>1, <1>2, <3>1 DEF Expired
  <2>3. CASE client.renew = "SENT"
    BY <1>1, <2>1, <2>3, OnItsWay DEF Granted
  <2> QED
    BY <2>2, <2>3
<1>5. ASSUME server.renew = "NEWTOKEN_SERVER"
      PROVE  ~Expired(ServerRollover(server))
  <2>1. ServerRollover(server).age = server.altAge
    BY <1>1, RolledOver
  <2>2. server.altAge <= RenewAfter
    <3>1. CASE client.renew # "SENT"
      <4>1. server.altAge <= RenewAfter - renewalIn
        BY <1>3, <1>5, <3>1 DEF Aged
      <4> QED
        BY <1>1, <1>2, <4>1
    <3>2. CASE client.renew = "SENT"
      <4>1. server.altAge = 0
        BY <1>5, <3>2, OnItsWay DEF Granted
      <4> QED
        BY <1>2, <4>1
    <3> QED
      BY <3>1, <3>2
  <2> QED
    BY <1>1, <1>2, <2>1, <2>2 DEF Expired
<1>6. ~Expired(CleanedUp(server))
    BY <1>1, <1>4, <1>5 DEF CleanedUp
<1>7. ASSUME toServer # <<>>, Head(toServer).type = "MSG"
      PROVE  ~Expired(Revolved(server, Head(toServer)))
  <2> DEFINE m == Head(toServer)
  <2>1. CASE RollsOver(server, m)
    <3>1. server.renew = "NEWTOKEN_SERVER"
      BY <1>1, <2>1 DEF RollsOver
    <3>2. Revolved(server, m) = ServerRollover(server)
      BY <1>1, <2>1, <3>1, Moved
    <3> QED
      BY <1>5, <3>1, <3>2
  <2>2. CASE ~RollsOver(server, m)
    <3>1. Revolved(server, m) = server
      BY <1>1, <2>2, Moved
    <3>2. server.renew = "NEWTOKEN_SERVER" => ~Expired(server)
      <4>1. SUFFICES ASSUME server.renew = "NEWTOKEN_SERVER", Expired(server) PROVE FALSE
        OBVIOUS
      <4>2. NewRequest(config, server, m)
        BY <1>1, <1>7, <4>1, NextRequest
      <4>3. server.alt # server.token
        BY <1>1, <4>1 DEF ServerSide
      <4> QED
        BY <2>2, <4>1, <4>2, <4>3 DEF RollsOver, NewRequest, Bears
    <3> QED
      BY <1>1, <1>4, <3>1, <3>2
  <2> QED
    BY <2>1, <2>2
<1> QED
    BY <1>6, <1>7

\* The ends keep the channel.
LEMMA Kept == ASSUME ChannelInv, FineTicks PROVE ChannelKept
BY RequestAccepted, ResponseAccepted, NotCutOff DEF ChannelKept, Arrived

-----------------------------------------------------------------------------
(* The theorems. *)

\* The invariant holds at the start.
LEMMA InitiallyInv == ASSUME Init PROVE ChannelInv
<1>1. /\ Fresh("CLOSED") \in End /\ Fresh("CLOSED").state = "CLOSED"
      /\ Fresh("CLOSED").renew = "NORMAL" /\ Fresh("CLOSED").token = 0 /\ Fresh("CLOSED").alt = 0
    BY Made DEF States, Fresh
<1>2. ChannelTypes
  <2>1. parked \in BOOLEAN /\ checked \in BOOLEAN
    BY DEF Init
  <2>2. /\ config \in Configs /\ client = Fresh("CLOSED") /\ server = Fresh("CLOSED")
        /\ toServer = <<>> /\ toClient = <<>>
        /\ lastTokenId = 0 /\ lastNonce = 0 /\ renewalIn = 0
    BY DEF Init
  <2> QED
    BY <1>1, <2>1, <2>2, Times, EmptyWire DEF ChannelTypes
<1>3. ~parked /\ client.state = "CLOSED" /\ server.state = "CLOSED"
    BY <1>1 DEF Init
<1> QED
    BY <1>2, <1>3 DEF ChannelInv, Parts, Handshake, Connecting, Sides, SoonUsed, Agreement, Timing

\* Every step keeps the invariant.
LEMMA StepKeepsInv ==
    ASSUME ChannelInv, FineTicks, CheckedConfigs, [Next]_vars
    PROVE  ChannelInv'
<1>1. CASE Next
  <2>1. ChannelTypes'
    BY <1>1, ClientTypes, ServerTypes DEF Next, ChannelInv
  <2>2. ASSUME Connect \/ SendOPN \/ Renew \/ Disconnect \/ Break PROVE Parts'
    BY <2>2, ConnectKeeps, SendOPNKeeps, RenewKeeps, DisconnectKeeps, BreakKeeps
  <2>3. ASSUME \E kind \in {"read", "publish"} : SendRequest(kind) PROVE Parts'
    BY <2>3, SendRequestKeeps
  <2>4. ASSUME ClientReceives PROVE Parts'
    BY <2>4, ReceiveACKKeeps, ReceiveOPNKeeps, ReceiveResponseKeeps, ReceiveEndKeeps
       DEF ClientReceives
  <2>5. ASSUME ServerReceives PROVE Parts'
    BY <2>5, ReceiveHELKeeps, ReceiveOpenRequestKeeps, ReceiveRequestKeeps DEF ServerReceives
  <2>6. ASSUME AnswerPublish \/ CleanUp \/ RemoveConnection \/ Discard \/ Tick PROVE Parts'
    BY <2>6, AnswerPublishKeeps, CleanUpKeeps, RemoveConnectionKeeps, DiscardKeeps, TickKeeps
  <2>7. Parts'
    BY <1>1, <2>2, <2>3, <2>4, <2>5, <2>6 DEF Next
  <2> QED
    BY <2>1, <2>7 DEF ChannelInv
<1>2. CASE UNCHANGED vars
  <2>1. UNCHANGED <<config, client, server, toServer, toClient, lastTokenId, lastNonce,
                    renewalIn, parked, checked>>
    BY <1>2 DEF vars
  <2>2. ChannelTypes'
    BY <2>1 DEF ChannelInv, ChannelTypes
  <2>3. Handshake' /\ Sides' /\ SoonUsed'
    BY <2>1 DEF ChannelInv, Parts, Handshake, Sides, SoonUsed
  <2>4. Agreement'
    BY <2>1 DEF ChannelInv, Parts, Agreement, Settled, Asked, Granted
  <2>5. Timing'
    BY <2>1 DEF ChannelInv, Parts, Timing, Aged, BeforeRenewal, AfterRenewal
  <2> QED
    BY <2>2, <2>3, <2>4, <2>5 DEF ChannelInv, Parts
<1> QED
    BY <1>1, <1>2

\* The two ends stay in step, from the start and for ever: what is on its way to
\* either end, the tokens and keys of both, their ages and the next renewal.
THEOREM ChannelInvariance ==
    ASSUME FineTicks, CheckedConfigs
    PROVE  Spec => []ChannelInv
<1>1. Init => ChannelInv
    BY InitiallyInv
<1>2. ChannelInv /\ [Next]_vars => ChannelInv'
    BY StepKeepsInv
<1> QED
    BY <1>1, <1>2, PTL DEF Spec

\* No end ever receives a request or a response that checkSymHeader or
\* decryptAndVerifyChunk refuses, and a client that renews in time never loses
\* its channel to an expired token: whatever the lifetime of tokens, with ticks
\* fine enough for it, for clients that create a session and check a secured
\* connection.
THEOREM ChannelAlwaysKept ==
    ASSUME FineTicks, CheckedConfigs
    PROVE  Spec => []ChannelKept
<1>1. ChannelInv => ChannelKept
    BY Kept
<1> QED
    BY <1>1, ChannelInvariance, PTL
=============================================================================
