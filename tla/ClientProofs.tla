---------------------------- MODULE ClientProofs ----------------------------
(***************************************************************************)
(* Theorems about module ClientSession, for every value of its constants.  *)
(* The inductive invariant is IInv.  Most of it is about the client c and  *)
(* holds between any two of the functions the client's steps are made of;  *)
(* what only an open channel has is in OpenPart.                           *)
(***************************************************************************)
EXTENDS ClientProperties, ListProofs

-----------------------------------------------------------------------------
(* Types.                                                                    *)

Kinds == {"find", "endpoints", "create", "activate", "check", "publish"}
Ops == {"CloseSession", "CreateSubscription", "DeleteSubscription"}
PosNat == Nat \ {0}

Call == [id : PosNat, kind : Kinds]
Waiting == [id : PosNat, op : Ops, sub : Nat]
Note == Sub \X Nat
RequestMsg == [id : Nat, kind : Kinds \cup Ops \cup {"CLO"}, sub : Nat, acks : SUBSET Note]
Results ==
  {"Good", "own", "other", "same", "different", "none", "BadSessionIdInvalid",
   "BadNoSubscription", "BadTooManyPublishRequests", "BadSubscriptionIdInvalid"}
ResponseMsg ==
  [id : PosNat, result : Results, sub : Nat, seq : Nat, data : BOOLEAN, avail : SUBSET Nat]
Numbers == UNION {[D -> Nat] : D \in SUBSET Sub}

ClientRecord ==
  [channel : {"CLOSED", "OPENING", "OPEN"}, session : DOMAIN SessionRank,
   status : {"good", "bad"}, url : {"none", "own", "other"}, endpoint : BOOLEAN,
   calls : Seq(Call), waiting : Seq(Waiting), outstanding : Int, limit : 1..Wanted,
   subs : Numbers, acks : SUBSET Note, checking : BOOLEAN, lost : BOOLEAN,
   in : Seq(ResponseMsg), out : Seq(RequestMsg), got : SUBSET Note, missed : SUBSET Note]

ServerRecord ==
  [channel : BOOLEAN, session : {"none", "created", "active"}, bound : BOOLEAN,
   subs : SUBSET Sub, created : 0..MaxSub, ready : SUBSET Sub, seq : [Sub -> Nat],
   retrans : SUBSET Note, parked : Seq(PosNat)]

-----------------------------------------------------------------------------
(* The invariant.                                                            *)

\* The sets behind the lists of the client and of the server srv.
Calls(c) == ToSet(c.calls)
Waits(c) == ToSet(c.waiting)
In(c) == ToSet(c.in)
Out(c) == ToSet(c.out)
Parked(srv) == ToSet(srv.parked)

Listed(c) ==
  IsInjective(c.calls) /\ IsInjective(c.waiting) /\ IsInjective(c.in) /\ IsInjective(c.out)

\* The state of the session that a call in progress belongs to.
Belongs(kind, session) ==
  /\ kind = "create" => session = "CREATE_REQUESTED"
  /\ kind = "activate" => session = "ACTIVATE_REQUESTED"
  /\ kind = "publish" => session \in {"ACTIVATED", "CLOSING"}

Single(C) ==
  \A x, y \in C : x.kind = y.kind /\ x.kind \in {"create", "activate", "check"} => x = y

SessionInv(c) ==
  /\ c.channel # "OPEN" =>
       c.calls = <<>> /\ c.in = <<>> /\ ~c.lost /\ c.session \in {"CLOSED", "CREATED"}
  /\ c.channel = "OPENING" => c.waiting = <<>>
  /\ \A x \in Calls(c) : Belongs(x.kind, c.session)
  /\ Single(Calls(c))
  /\ c.session = "CREATE_REQUESTED" => Pending(c, "create")
  /\ c.session \in {"CLOSED", "CREATE_REQUESTED"} => c.subs = NoSubs /\ c.acks = {}
  /\ c.checking <=> Pending(c, "check")

\* What the answer to a call can be.
Answers(kind, m) ==
  /\ kind = "endpoints" => m.result \in {"same", "different", "none"}
  /\ kind = "CreateSubscription" => m.seq = 0 /\ (m.result = "Good" => m.sub \in Sub)

Unique(S) == \A x, y \in S : x.id = y.id => x = y

\* A requestId stands for one call and is in one place: calls C, waiting services
\* W, responses I, requests O, parked requests Q.
Link(C, W, I, O, Q) ==
  /\ Unique(C) /\ Unique(W) /\ Unique(I) /\ Unique(O)
  /\ \A x \in C, w \in W : x.id # w.id
  /\ \A m \in I : m.id \notin Q /\ \A r \in O : r.id # m.id
  /\ \A r \in O : r.id \notin Q
  /\ \A x \in C : /\ \A r \in O : r.id = x.id => r.kind = x.kind
                  /\ \A m \in I : m.id = x.id => Answers(x.kind, m)
                  /\ x.id \in Q => x.kind = "publish"
  /\ \A w \in W : /\ \A r \in O : r.id = w.id => r.kind = w.op
                  /\ \A m \in I : m.id = w.id => Answers(w.op, m)
                  /\ w.id \notin Q

LinkInv(c, srv) == Link(Calls(c), Waits(c), In(c), Out(c), Parked(srv))

\* Nothing is sent behind the message that closes the channel.
CloLast(out) == \A i \in DOMAIN out : out[i].kind = "CLO" => i = Len(out)

\* The connection, as both ends see it.
WireInv(c, srv) ==
  /\ ~srv.channel => c.out = <<>>
  /\ c.channel = "OPEN" => (c.lost <=> ~srv.channel)
  /\ c.channel = "OPENING" => ~srv.channel
  /\ \A r \in Out(c) : r.kind = "CLO" <=> r.id = 0
  /\ c.channel = "OPEN" => \A r \in Out(c) : r.kind # "CLO"
  /\ CloLast(c.out)
  /\ \A r \in Out(c) : r.kind = "CreateSubscription" => srv.created < MaxSub
  /\ \A q, r \in Out(c) : q.kind = "CreateSubscription" /\ r.kind = "CreateSubscription" => q = r

Published(C) == {x \in C : x.kind = "publish"}

CountInv(c) ==
  /\ Cardinality(Published(Calls(c))) <= c.outstanding
  /\ ~SendMayFail => c.outstanding = Cardinality(Published(Calls(c)))
  /\ c.outstanding <= c.limit
  /\ Wanted <= c.limit \/ MaxParked <= c.limit

\* A notification message, and the answer that a subscription was created.
News(m) == m.seq > 0
Creation(m) == m.seq = 0 /\ m.sub # 0

\* The notifications of the server and what the client has noted of them.
Kept(got, srv) ==
  \A s \in srv.subs : s <= srv.created /\ \A n \in 1..srv.seq[s] : <<s, n>> \in srv.retrans \cup got
Numbered(N, srv) == \A p \in N : p[1] <= srv.created /\ p[2] \in 1..srv.seq[p[1]]
Noted(subs, got, missed, srv) ==
  /\ got \cap missed = {}
  /\ \A s \in DOMAIN subs :
       /\ s <= srv.created /\ subs[s] <= srv.seq[s]
       /\ \A n \in 1..subs[s] : <<s, n>> \in got \cup missed
       /\ \A p \in got : p[1] = s => p[2] <= subs[s]
\* The messages on their way.
Coming(m, subs, got, missed, srv) ==
  /\ m.sub # 0 => m.sub \in Sub /\ m.sub <= srv.created
  /\ News(m) => /\ m.sub # 0
                /\ m.seq <= srv.seq[m.sub] + 1
                /\ m.data => m.seq <= srv.seq[m.sub]
                /\ ~m.data => m.seq \notin m.avail
                /\ \A p \in missed : p[1] = m.sub => p[2] < m.seq
                /\ m.sub \in DOMAIN subs => subs[m.sub] < m.seq
  /\ Creation(m) => /\ m.sub \notin DOMAIN subs
                    /\ \A p \in got \cup missed : p[1] # m.sub
InOrder(in) ==
  \A i, j \in DOMAIN in : i < j /\ in[i].sub = in[j].sub /\ in[i].sub # 0 =>
    News(in[j]) /\ in[i].seq <= in[j].seq /\ (in[i].data => in[i].seq < in[j].seq)

NotesInv(c, srv) ==
  /\ c.acks \subseteq c.got /\ \A r \in Out(c) : r.acks \subseteq c.got
  /\ Kept(c.got, srv)
  /\ Numbered(srv.retrans \cup c.got \cup c.missed, srv)
  /\ Noted(c.subs, c.got, c.missed, srv)
  /\ \A m \in In(c) : Coming(m, c.subs, c.got, c.missed, srv)
  /\ InOrder(c.in)

\* What holds of the lists of a client at any moment.
Core(c, srv) ==
  c \in ClientRecord /\ Listed(c) /\ LinkInv(c, srv) /\ WireInv(c, srv) /\ NotesInv(c, srv)

Weak(c, srv) == Core(c, srv) /\ SessionInv(c) /\ CountInv(c)

\* While the connection is up every call is under way, and the requests that
\* change the session were called for.
Asked(C, W, I, O, Q) ==
  /\ \A x \in C \cup W : x.id \in Q \/ \E y \in I \cup O : y.id = x.id
  /\ \A r \in O :
       /\ r.kind \in {"create", "activate", "publish"} =>
            \E x \in C : x.id = r.id /\ x.kind = r.kind
       /\ r.kind = "CreateSubscription" => \E w \in W : w.id = r.id
  /\ \A i \in Q : \E x \in C : x.id = i /\ x.kind = "publish"

AskedInv(c, srv) == Asked(Calls(c), Waits(c), In(c), Out(c), Parked(srv))

UsableAt(srv) == srv.session = "active" /\ srv.bound

\* The answer that the session is active is on its way.
Activating(C, I) ==
  \E x \in C, m \in I : x.kind = "activate" /\ m.id = x.id /\ m.result = "Good"

\* Publish requests not answered up to position i.
Unanswered(c, i) == {x \in Published(Calls(c)) : \A j \in 1..i : c.in[j].id # x.id}

\* Behind a message that there are too many requests, there still are so many.
ManyInv(c) ==
  \A i \in DOMAIN c.in : c.in[i].result = "BadTooManyPublishRequests" =>
    MaxParked <= Cardinality(Unanswered(c, i))

OpenPart(c, srv) ==
  /\ c.waiting # <<>> => c.session \in {"ACTIVATED", "CLOSING"}
  /\ ManyInv(c)
  /\ srv.channel =>
       /\ AskedInv(c, srv)
       /\ UsableAt(srv) => \/ c.session \in {"ACTIVATED", "CLOSING"}
                           \/ Activating(Calls(c), In(c))

Fine(c, srv) == Weak(c, srv) /\ (c.channel = "OPEN" => OpenPart(c, srv))

ServerInv(srv) ==
  /\ srv \in ServerRecord /\ IsInjective(srv.parked)
  /\ srv.ready \subseteq srv.subs
  /\ \A s \in Sub : s > srv.created => srv.seq[s] = 0
  /\ srv.parked # <<>> => UsableAt(srv) /\ srv.subs # {}
  /\ ~srv.channel => ~srv.bound

IInv ==
  /\ Fine(client, server) /\ ServerInv(server) /\ faults \in 0..MaxFaults
  /\ client.channel # "OPEN" => client.waiting = <<>>

-----------------------------------------------------------------------------
(* Lists.                                                                    *)

\* A new element joins a list at its head.
LEMMA ConsFacts ==
  ASSUME NEW S, NEW s \in Seq(S), IsInjective(s), NEW e \in S, e \notin ToSet(s)
  PROVE  /\ <<e>> \o s \in Seq(S)
         /\ IsInjective(<<e>> \o s)
         /\ ToSet(<<e>> \o s) = ToSet(s) \cup {e}
<1> DEFINE w == <<e>> \o s
<1>1. /\ w \in Seq(S)
      /\ Len(w) = Len(s) + 1
      /\ Len(s) \in Nat
      /\ w[1] = e
      /\ \A j \in 1..Len(w) : j > 1 => j - 1 \in 1..Len(s) /\ w[j] = s[j - 1]
      /\ \A j \in 1..Len(s) : j + 1 \in 1..Len(w) /\ w[j + 1] = s[j]
  <2>1. <<e>> \in Seq(S) /\ Len(<<e>>) = 1 /\ <<e>>[1] = e /\ Len(s) \in Nat
    OBVIOUS
  <2> QED
    BY <2>1, ConcatProperties
<1>2. /\ \A j, k \in 1..Len(s) : s[j] = s[k] => j = k
      /\ \A j \in 1..Len(s) : s[j] # e
  BY ToSetFacts
<1> HIDE DEF w
<1>3. ASSUME NEW j \in 1..Len(w), NEW k \in 1..Len(w), w[j] = w[k]
      PROVE  j = k
  <2>a. ASSUME NEW a \in 1..Len(w), a > 1 PROVE w[a] # e
    <3>1. a - 1 \in 1..Len(s) /\ w[a] = s[a - 1]
      BY <1>1, <2>a
    <3> QED
      BY <1>2, <3>1, Zenon
  <2>1. CASE j = 1 \/ k = 1
    <3>1. w[j] = e /\ w[k] = e /\ j \in Nat /\ k \in Nat /\ j > 0 /\ k > 0
      BY <1>1, <1>3, <2>1
    <3>2. ~(j > 1) /\ ~(k > 1)
      BY <2>a, <3>1
    <3> QED
      BY <3>1, <3>2
  <2>2. CASE j > 1 /\ k > 1
    <3>1. j - 1 \in 1..Len(s) /\ k - 1 \in 1..Len(s) /\ s[j - 1] = s[k - 1]
      BY <1>1, <1>3, <2>2
    <3>2. j - 1 = k - 1
      BY <1>2, <3>1
    <3> QED
      BY <3>2
  <2> QED
    BY <2>1, <2>2
<1>4. IsInjective(w)
  BY <1>1, <1>3, ToSetFacts
<1>5. ToSet(w) = ToSet(s) \cup {e}
  <2>1. ASSUME NEW y PROVE y \in ToSet(w) <=> \E j \in 1..Len(w) : w[j] = y
    BY <1>1, ToSetFacts
  <2>2. ASSUME NEW y PROVE y \in ToSet(s) <=> \E j \in 1..Len(s) : s[j] = y
    BY ToSetFacts
  <2>3. 1 \in 1..Len(w)
    BY <1>1
  <2>4. ASSUME NEW y, y \in ToSet(w) PROVE y \in ToSet(s) \cup {e}
    BY <1>1, <2>1, <2>2, <2>4
  <2>5. ASSUME NEW y, y \in ToSet(s) \cup {e} PROVE y \in ToSet(w)
    BY <1>1, <2>1, <2>2, <2>3, <2>5
  <2> QED
    BY <2>4, <2>5
<1> QED
  BY <1>1, <1>4, <1>5 DEF w

\* Elements join a queue at its end.
LEMMA JoinFacts ==
  ASSUME NEW S, NEW s \in Seq(S), NEW t \in Seq(S)
  PROVE  /\ s \o t \in Seq(S)
         /\ Len(s \o t) = Len(s) + Len(t)
         /\ \A i \in 1..Len(s) : (s \o t)[i] = s[i]
         /\ \A i \in 1..Len(t) : (s \o t)[Len(s) + i] = t[i]
         /\ ToSet(s \o t) = ToSet(s) \cup ToSet(t)
         /\ IsInjective(s) /\ IsInjective(t) /\ ToSet(s) \cap ToSet(t) = {} => IsInjective(s \o t)
<1> DEFINE w == s \o t
<1>1. /\ w \in Seq(S)
      /\ Len(w) = Len(s) + Len(t)
      /\ Len(s) \in Nat /\ Len(t) \in Nat
      /\ \A j \in 1..Len(w) : w[j] = IF j <= Len(s) THEN s[j] ELSE t[j - Len(s)]
  BY ConcatProperties, LenProperties
<1> HIDE DEF w
<1>2. \A i \in 1..Len(s) : i \in 1..Len(w) /\ w[i] = s[i]
  BY <1>1
<1>3. ASSUME NEW i \in 1..Len(t) PROVE Len(s) + i \in 1..Len(w) /\ w[Len(s) + i] = t[i]
  <2>1. Len(s) + i \in 1..Len(w) /\ ~(Len(s) + i <= Len(s)) /\ (Len(s) + i) - Len(s) = i
    BY <1>1
  <2> QED
    BY <1>1, <2>1
<1>4. \A j \in 1..Len(w) : \/ j \in 1..Len(s) /\ w[j] = s[j]
                           \/ j - Len(s) \in 1..Len(t) /\ w[j] = t[j - Len(s)]
  BY <1>1
<1>5. ASSUME NEW y PROVE y \in ToSet(w) <=> \E j \in 1..Len(w) : w[j] = y
  BY <1>1, ToSetFacts
<1>6. ASSUME NEW y PROVE y \in ToSet(s) <=> \E j \in 1..Len(s) : s[j] = y
  BY ToSetFacts
<1>7. ASSUME NEW y PROVE y \in ToSet(t) <=> \E j \in 1..Len(t) : t[j] = y
  BY ToSetFacts
<1>8. ToSet(w) = ToSet(s) \cup ToSet(t)
  <2>1. ASSUME NEW y, y \in ToSet(w) PROVE y \in ToSet(s) \cup ToSet(t)
    BY <1>4, <1>5, <1>6, <1>7, <2>1
  <2>2. ASSUME NEW y, y \in ToSet(s) \cup ToSet(t) PROVE y \in ToSet(w)
    BY <1>2, <1>3, <1>5, <1>6, <1>7, <2>2
  <2> QED
    BY <2>1, <2>2
<1>9. ASSUME IsInjective(s), IsInjective(t), ToSet(s) \cap ToSet(t) = {}
      PROVE  IsInjective(w)
  <2>1. \A j, k \in 1..Len(s) : s[j] = s[k] => j = k
    BY <1>9, ToSetFacts
  <2>2. \A j, k \in 1..Len(t) : t[j] = t[k] => j = k
    BY <1>9, ToSetFacts
  <2>3. \A j \in 1..Len(s), k \in 1..Len(t) : s[j] # t[k]
    BY <1>6, <1>7, <1>9
  <2>4. ASSUME NEW j \in 1..Len(w), NEW k \in 1..Len(w), w[j] = w[k]
        PROVE  j = k
    <3>1. CASE j \in 1..Len(s) /\ k \in 1..Len(s)
      BY <1>2, <2>1, <2>4, <3>1
    <3>2. CASE j \notin 1..Len(s) /\ k \notin 1..Len(s)
      <4>1. j - Len(s) \in 1..Len(t) /\ k - Len(s) \in 1..Len(t)
        BY <1>4, <3>2
      <4>2. t[j - Len(s)] = t[k - Len(s)]
        BY <1>4, <2>4, <3>2
      <4>3. j - Len(s) = k - Len(s)
        BY <2>2, <4>1, <4>2
      <4> QED
        BY <1>1, <4>3
    <3>3. CASE j \in 1..Len(s) /\ k \notin 1..Len(s)
      BY <1>2, <1>4, <2>3, <2>4, <3>3
    <3>4. CASE j \notin 1..Len(s) /\ k \in 1..Len(s)
      BY <1>2, <1>4, <2>3, <2>4, <3>4
    <3> QED
      BY <3>1, <3>2, <3>3, <3>4
  <2> QED
    BY <1>1, <2>4, ToSetFacts
<1> QED
  BY <1>1, <1>2, <1>3, <1>8, <1>9 DEF w

\* The first n elements of a list.
LEMMA PrefixFacts ==
  ASSUME NEW S, NEW s \in Seq(S), NEW n \in 0..Len(s)
  PROVE  /\ SubSeq(s, 1, n) \in Seq(S)
         /\ Len(SubSeq(s, 1, n)) = n
         /\ \A i \in 1..n : SubSeq(s, 1, n)[i] = s[i] /\ i \in 1..Len(s)
         /\ ToSet(SubSeq(s, 1, n)) \subseteq ToSet(s)
         /\ IsInjective(s) => IsInjective(SubSeq(s, 1, n))
<1> DEFINE w == SubSeq(s, 1, n)
<1>1. Len(s) \in Nat /\ n \in Nat /\ n <= Len(s)
  BY LenProperties
<1>2. \A i \in 1..n : i \in 1..Len(s) /\ s[i] \in S
  BY <1>1, ElementOfSeq
<1>3. w = [i \in 1..n |-> s[i]]
  BY <1>1
<1>4. /\ w \in Seq(S)
      /\ Len(w) = n
      /\ \A i \in 1..n : w[i] = s[i]
  BY <1>1, <1>2, <1>3
<1> HIDE DEF w
<1>5. ToSet(w) \subseteq ToSet(s)
  BY <1>2, <1>4, ToSetFacts
<1>6. IsInjective(s) => IsInjective(w)
  BY <1>2, <1>4, ToSetFacts
<1> QED
  BY <1>2, <1>4, <1>5, <1>6 DEF w

\* The last element leaves a list.
LEMMA FrontFacts ==
  ASSUME NEW S, NEW s \in Seq(S), IsInjective(s), s # <<>>
  PROVE  /\ Last(s) \in ToSet(s)
         /\ Front(s) \in Seq(S)
         /\ IsInjective(Front(s))
         /\ ToSet(Front(s)) = ToSet(s) \ {Last(s)}
<1> DEFINE w == Front(s)
           n == Len(s) - 1
<1>1. Len(s) \in Nat \ {0} /\ n \in 0..Len(s)
  BY EmptySeq, LenProperties
<1>2. w = SubSeq(s, 1, n) /\ Last(s) = s[Len(s)]
  BY DEF Front, Last
<1>3. /\ w \in Seq(S)
      /\ Len(w) = n
      /\ \A i \in 1..n : w[i] = s[i] /\ i \in 1..Len(s)
      /\ IsInjective(w)
  <2> HIDE DEF n
  <2>1. /\ SubSeq(s, 1, n) \in Seq(S)
        /\ Len(SubSeq(s, 1, n)) = n
        /\ \A i \in 1..n : SubSeq(s, 1, n)[i] = s[i] /\ i \in 1..Len(s)
        /\ IsInjective(SubSeq(s, 1, n))
    BY <1>1, PrefixFacts
  <2> QED
    BY <1>2, <2>1
<1>4. \A i, j \in 1..Len(s) : s[i] = s[j] => i = j
  BY ToSetFacts
<1> HIDE DEF w
<1>5. ASSUME NEW y PROVE y \in ToSet(w) <=> \E j \in 1..Len(w) : w[j] = y
  BY <1>3, ToSetFacts
<1>6. ASSUME NEW y PROVE y \in ToSet(s) <=> \E j \in 1..Len(s) : s[j] = y
  BY ToSetFacts
<1>7. ASSUME NEW y, y \in ToSet(w) PROVE y \in ToSet(s) \ {Last(s)}
  BY <1>1, <1>2, <1>3, <1>4, <1>5, <1>6, <1>7
<1>8. ASSUME NEW y, y \in ToSet(s) \ {Last(s)} PROVE y \in ToSet(w)
  <2>1. PICK i \in 1..Len(s) : s[i] = y
    BY <1>6, <1>8
  <2>2. i # Len(s)
    BY <1>2, <1>8, <2>1
  <2>3. i \in 1..n
    BY <1>1, <2>2
  <2> QED
    BY <1>3, <1>5, <2>1, <2>3
<1>9. Last(s) \in ToSet(s)
  BY <1>1, <1>2, <1>6
<1> QED
  BY <1>3, <1>7, <1>8, <1>9 DEF w

\* One message or none.
LEMMA SingleFacts ==
  ASSUME NEW S, NEW e \in S
  PROVE  /\ <<e>> \in Seq(S) /\ ToSet(<<e>>) = {e} /\ IsInjective(<<e>>)
         /\ <<>> \in Seq(S) /\ ToSet(<<>>) = {} /\ IsInjective(<<>>)
<1>1. <<e>> \in Seq(S) /\ Len(<<e>>) = 1 /\ <<e>>[1] = e
  OBVIOUS
<1>2. <<>> \in Seq(S) /\ Len(<<>>) = 0
  BY EmptySeq
<1>3. ToSet(<<e>>) = {e} /\ IsInjective(<<e>>)
  <2> DEFINE w == <<e>>
  <2>1. w \in Seq(S) /\ Len(w) = 1 /\ w[1] = e
    BY <1>1
  <2> HIDE DEF w
  <2>2. /\ \A x : x \in ToSet(w) <=> \E i \in 1..Len(w) : w[i] = x
        /\ IsInjective(w) <=> \A i, j \in 1..Len(w) : w[i] = w[j] => i = j
    BY <2>1, ToSetFacts
  <2>3. 1..Len(w) = {1}
    BY <2>1
  <2>4. ToSet(w) = {e} /\ IsInjective(w)
    BY <2>1, <2>2, <2>3
  <2> QED
    BY <2>4 DEF w
<1>4. ToSet(<<>>) = {} /\ IsInjective(<<>>)
  BY <1>2 DEF ToSet, IsInjective
<1> QED
  BY <1>1, <1>2, <1>3, <1>4

\* The identifiers in a list are as finite as the list.
LEMMA IdsFacts ==
  ASSUME NEW S, NEW s \in Seq(S)
  PROVE  /\ IsFiniteSet(Ids(s))
         /\ Ids(s) = {x.id : x \in ToSet(s)}
<1> DEFINE f == [i \in 1..Len(s) |-> s[i].id]
<1>1. DOMAIN s = 1..Len(s) /\ Len(s) \in Nat
  BY LenProperties
<1>2. f \in Surjection(1..Len(s), Ids(s))
  BY <1>1 DEF Ids, Surjection
<1>3. IsFiniteSet(1..Len(s))
  BY <1>1, FS_Interval
<1>4. IsFiniteSet(Ids(s))
  BY <1>2, <1>3, FS_Surjection
<1> QED
  BY <1>4 DEF Ids, ToSet

-----------------------------------------------------------------------------
(* Requests and responses as sets.                                           *)

\* A fresh requestId is nobody's.
LEMMA FreshFacts ==
  ASSUME NEW c \in ClientRecord, server \in ServerRecord
  PROVE  /\ FreshId(c) \in PosNat
         /\ \A x \in Calls(c) \cup Waits(c) \cup In(c) \cup Out(c) : x.id # FreshId(c)
         /\ FreshId(c) \notin Parked(server)
<1> DEFINE used == Ids(c.calls) \union Ids(c.waiting) \union Ids(c.in)
                     \union Ids(c.out) \union ToSet(server.parked)
           n == Cardinality(used) + 1
           free == 1..n \ used
<1>1. /\ c.calls \in Seq(Call) /\ c.waiting \in Seq(Waiting) /\ c.in \in Seq(ResponseMsg)
      /\ c.out \in Seq(RequestMsg) /\ server.parked \in Seq(PosNat)
  BY DEF ClientRecord, ServerRecord
<1>2. /\ IsFiniteSet(Ids(c.calls)) /\ Ids(c.calls) = {x.id : x \in Calls(c)}
      /\ IsFiniteSet(Ids(c.waiting)) /\ Ids(c.waiting) = {x.id : x \in Waits(c)}
      /\ IsFiniteSet(Ids(c.in)) /\ Ids(c.in) = {x.id : x \in In(c)}
      /\ IsFiniteSet(Ids(c.out)) /\ Ids(c.out) = {x.id : x \in Out(c)}
  BY <1>1, IdsFacts DEF Calls, Waits, In, Out
<1>3. IsFiniteSet(ToSet(server.parked))
  <2> DEFINE s == server.parked
             f == [i \in 1..Len(s) |-> s[i]]
  <2>1. DOMAIN s = 1..Len(s) /\ Len(s) \in Nat
    BY <1>1, LenProperties
  <2> HIDE DEF s
  <2>2. f \in Surjection(1..Len(s), ToSet(s))
    BY <2>1 DEF ToSet, Surjection
  <2>3. IsFiniteSet(1..Len(s))
    BY <2>1, FS_Interval
  <2> QED
    BY <2>2, <2>3, FS_Surjection DEF s
<1>4. IsFiniteSet(used)
  BY <1>2, <1>3, FS_Union
<1> HIDE DEF used
<1>5. n \in Nat /\ n = Cardinality(used) + 1 /\ Cardinality(used) \in Nat
  BY <1>4, FS_CardinalityType
<1>6. free # {}
  <2> SUFFICES ASSUME free = {} PROVE FALSE
    OBVIOUS
  <2>1. 1..n \subseteq used
    OBVIOUS
  <2>2. Cardinality(1..n) = n
    BY <1>5, FS_Interval
  <2>3. Cardinality(1..n) <= Cardinality(used)
    BY <1>4, <2>1, FS_Subset
  <2> QED
    BY <1>5, <2>2, <2>3
<1>7. free \in SUBSET Nat
  BY <1>5
<1>8. Min(free) \in free
  BY <1>6, <1>7, MinFacts
<1>9. FreshId(c) = Min(free)
  BY DEF FreshId, used
<1>10. FreshId(c) \in 1..n /\ FreshId(c) \notin used
  BY <1>8, <1>9
<1>11. FreshId(c) \in PosNat
  BY <1>5, <1>10 DEF PosNat
<1> QED
  BY <1>2, <1>10, <1>11 DEF used, Parked

\* A call under a fresh requestId, whose request r is under way or lost.
LEMMA LinkCall ==
  ASSUME NEW C, NEW W, NEW I, NEW O, NEW Q, Link(C, W, I, O, Q), NEW x, NEW r,
         \A y \in C \cup W \cup I \cup O : y.id # x.id, x.id \notin Q,
         r.id = x.id, r.kind = x.kind
  PROVE  /\ Link(C \cup {x}, W, I, O \cup {r}, Q)
         /\ Link(C \cup {x}, W, I, O, Q)
<1>1. Unique(C \cup {x}) /\ Unique(O \cup {r})
  BY DEF Link, Unique
<1> QED
  BY <1>1 DEF Link

\* A synchronous service waits for the answer to its request, which is sent or
\* lost.
LEMMA LinkWait ==
  ASSUME NEW C, NEW W, NEW I, NEW O, NEW Q, Link(C, W, I, O, Q), NEW x, NEW r,
         \A y \in C \cup W \cup I \cup O : y.id # x.id, x.id \notin Q,
         r.id = x.id, r.kind = x.op
  PROVE  /\ Link(C, W \cup {x}, I, O \cup {r}, Q)
         /\ Link(C, W \cup {x}, I, O, Q)
<1>1. Unique(W \cup {x}) /\ Unique(O \cup {r})
  BY DEF Link, Unique
<1> QED
  BY <1>1 DEF Link

\* Nothing is mixed up by what goes.
LEMMA LinkLess ==
  ASSUME NEW C, NEW W, NEW I, NEW O, NEW Q, Link(C, W, I, O, Q),
         NEW C1 \in SUBSET C, NEW W1 \in SUBSET W, NEW I1 \in SUBSET I, NEW O1 \in SUBSET O,
         NEW Q1 \in SUBSET Q
  PROVE  Link(C1, W1, I1, O1, Q1)
<1>1. Unique(C1) /\ Unique(W1) /\ Unique(I1) /\ Unique(O1)
  BY DEF Link, Unique
<1> QED
  BY <1>1 DEF Link

\* The server answers: the responses N take the place of requests that are no
\* longer in O1 or Q1; a publish request may go from O to Q1.
LEMMA LinkAnswered ==
  ASSUME NEW C, NEW W, NEW I, NEW O, NEW Q, Link(C, W, I, O, Q),
         NEW N, NEW O1 \in SUBSET O, NEW Q1, Unique(N),
         \A m \in N : /\ m.id \notin Q1 /\ \A r \in O1 : r.id # m.id
                      /\ m.id \in Q \/ \E r \in O : r.id = m.id
                      /\ \A x \in C : x.id = m.id => Answers(x.kind, m)
                      /\ \A w \in W : w.id = m.id => Answers(w.op, m),
         \A i \in Q1 : i \in Q \/ \E r \in O \ O1 : r.id = i /\ r.kind = "publish",
         \A w \in W : \A r \in O : r.id = w.id => r.kind # "publish"
  PROVE  Link(C, W, I \cup N, O1, Q1)
<1>1. \A m \in N, n \in I : m.id # n.id
  BY DEF Link
<1>2. Unique(I \cup N) /\ Unique(O1)
  BY <1>1 DEF Link, Unique
<1>3. \A m \in I \cup N : m.id \notin Q1 /\ \A r \in O1 : r.id # m.id
  BY DEF Link
<1>4. \A r \in O1 : r.id \notin Q1
  BY DEF Link, Unique
<1>5. \A x \in C : x.id \in Q1 => x.kind = "publish"
  BY DEF Link
<1>6. \A w \in W : w.id \notin Q1
  BY DEF Link
<1>7. /\ \A x \in C, m \in I \cup N : m.id = x.id => Answers(x.kind, m)
      /\ \A w \in W, m \in I \cup N : m.id = w.id => Answers(w.op, m)
  BY DEF Link
<1> QED
  BY <1>2, <1>3, <1>4, <1>5, <1>6, <1>7 DEF Link

\* A new call and its request ask for each other.
LEMMA AskedCall ==
  ASSUME NEW C, NEW W, NEW I, NEW O, NEW Q, Asked(C, W, I, O, Q), NEW x, NEW r,
         r.id = x.id, r.kind = x.kind, r.kind # "CreateSubscription"
  PROVE  Asked(C \cup {x}, W, I, O \cup {r}, Q)
BY DEF Asked

\* A synchronous service sends its request.
LEMMA AskedWait ==
  ASSUME NEW C, NEW W, NEW I, NEW O, NEW Q, Asked(C, W, I, O, Q), NEW x, NEW r,
         r.id = x.id, r.kind = x.op, r.kind \in Ops
  PROVE  Asked(C, W \cup {x}, I, O \cup {r}, Q)
BY DEF Asked, Ops


-----------------------------------------------------------------------------
(* The message that closes the channel.                                      *)

\* Where there is none, it is not followed by another.
LEMMA NoClo ==
  ASSUME NEW out, \A r \in ToSet(out) : r.kind # "CLO"
  PROVE  CloLast(out)
BY DEF ToSet, CloLast

\* It may be appended.
LEMMA CloAppended ==
  ASSUME NEW out \in Seq(RequestMsg), \A r \in ToSet(out) : r.kind # "CLO", NEW m \in RequestMsg
  PROVE  CloLast(Append(out, m))
<1> DEFINE w == Append(out, m)
<1>1. /\ w \in Seq(RequestMsg) /\ Len(w) = Len(out) + 1 /\ Len(out) \in Nat
      /\ \A i \in 1..Len(out) : w[i] = out[i]
  BY LenProperties, AppendProperties
<1>2. DOMAIN w = 1..Len(w) /\ \A i \in 1..Len(out) : out[i].kind # "CLO"
  BY <1>1, LenProperties, ToSetFacts
<1> HIDE DEF w
<1>3. CloLast(w)
  BY <1>1, <1>2 DEF CloLast
<1> QED
  BY <1>3 DEF w

\* Nothing is left when it has been read.
LEMMA CloTail ==
  ASSUME NEW out \in Seq(RequestMsg), out # <<>>, CloLast(out)
  PROVE  CloLast(Tail(out)) /\ (Head(out).kind = "CLO" => Tail(out) = <<>>)
<1> DEFINE w == Tail(out)
<1>1. /\ w \in Seq(RequestMsg) /\ Len(w) = Len(out) - 1 /\ Len(out) \in Nat \ {0}
      /\ \A i \in 1..Len(w) : w[i] = out[i + 1]
      /\ Head(out) = out[1]
  BY HeadTailProperties, EmptySeq, LenProperties
<1>2. DOMAIN w = 1..Len(w) /\ DOMAIN out = 1..Len(out)
  BY <1>1, LenProperties
<1>3. Head(out).kind = "CLO" => Len(w) = 0
  BY <1>1, <1>2 DEF CloLast
<1>4. Head(out).kind = "CLO" => w = <<>>
  BY <1>1, <1>3, EmptySeq
<1> HIDE DEF w
<1>5. CloLast(w)
  <2> SUFFICES ASSUME NEW i \in 1..Len(w), w[i].kind = "CLO" PROVE i = Len(w)
    BY <1>2 DEF CloLast
  <2>1. i + 1 \in 1..Len(out) /\ out[i + 1].kind = "CLO"
    BY <1>1
  <2>2. i + 1 = Len(out)
    BY <1>2, <2>1 DEF CloLast
  <2> QED
    BY <1>1, <2>2
<1> QED
  BY <1>4, <1>5 DEF w
-----------------------------------------------------------------------------
(* What parts of the invariant depend on.                                    *)

\* The publish requests of a client are finitely many.
LEMMA PublishedFacts ==
  ASSUME NEW c \in ClientRecord, IsInjective(c.calls)
  PROVE  /\ IsFiniteSet(Published(Calls(c))) /\ Cardinality(Published(Calls(c))) \in Nat
         /\ \A i : /\ Unanswered(c, i) \subseteq Published(Calls(c))
                   /\ IsFiniteSet(Unanswered(c, i)) /\ Cardinality(Unanswered(c, i)) \in Nat
<1>1. c.calls \in Seq(Call)
  BY DEF ClientRecord
<1>2. IsFiniteSet(Calls(c))
  BY <1>1, LengthIsCardinality DEF Calls
<1>3. Published(Calls(c)) \subseteq Calls(c)
  BY DEF Published
<1>4. IsFiniteSet(Published(Calls(c)))
  BY <1>2, <1>3, FS_Subset
<1>5. \A i : Unanswered(c, i) \subseteq Published(Calls(c))
  BY DEF Unanswered
<1>6. ASSUME NEW i PROVE IsFiniteSet(Unanswered(c, i))
  BY <1>4, <1>5, FS_Subset
<1> QED
  BY <1>4, <1>5, <1>6, FS_CardinalityType

\* More publish requests do not hurt.
LEMMA ManyMore ==
  ASSUME NEW c \in ClientRecord, NEW d \in ClientRecord, d.in = c.in, IsInjective(d.calls),
         Published(Calls(c)) \subseteq Published(Calls(d)), ManyInv(c)
  PROVE  ManyInv(d)
<1> SUFFICES ASSUME NEW i \in DOMAIN d.in, d.in[i].result = "BadTooManyPublishRequests"
             PROVE  MaxParked <= Cardinality(Unanswered(d, i))
  BY DEF ManyInv
<1>1. MaxParked <= Cardinality(Unanswered(c, i))
  BY DEF ManyInv
<1>2. Unanswered(c, i) \subseteq Unanswered(d, i)
  BY DEF Unanswered
<1>3. IsFiniteSet(Unanswered(d, i)) /\ Cardinality(Unanswered(d, i)) \in Nat
  BY PublishedFacts
<1>4. /\ Cardinality(Unanswered(c, i)) <= Cardinality(Unanswered(d, i))
      /\ Cardinality(Unanswered(c, i)) \in Nat
  BY <1>2, <1>3, FS_Subset, FS_CardinalityType
<1>5. MaxParked \in Nat
  BY BoundsAssumption
<1> QED
  BY <1>1, <1>3, <1>4, <1>5

\* The fields that Core and OpenPart depend on.
SameWire(c, d) ==
  /\ d.channel = c.channel /\ d.calls = c.calls /\ d.waiting = c.waiting /\ d.lost = c.lost
  /\ d.in = c.in /\ d.out = c.out
SameNotes(c, d) == d.subs = c.subs /\ d.got = c.got /\ d.missed = c.missed

\* Core does not depend on the session, the counters and the flags.
LEMMA CoreFrame ==
  ASSUME NEW c, NEW d \in ClientRecord, NEW srv, Core(c, srv),
         SameWire(c, d), SameNotes(c, d), d.acks \subseteq c.got
  PROVE  Core(d, srv)
<1>1. Listed(d)
  BY DEF Core, Listed, SameWire
<1>2. Calls(d) = Calls(c) /\ Waits(d) = Waits(c) /\ In(d) = In(c) /\ Out(d) = Out(c)
  BY DEF SameWire, Calls, Waits, In, Out
<1>3. LinkInv(d, srv)
  BY <1>2 DEF Core, LinkInv
<1>4. WireInv(d, srv)
  BY <1>2 DEF Core, WireInv, SameWire
<1>5. NotesInv(d, srv)
  BY <1>2 DEF Core, NotesInv, SameWire, SameNotes
<1> QED
  BY <1>1, <1>3, <1>4, <1>5 DEF Core

\* OpenPart depends on the session, besides the lists.
LEMMA OpenFrame ==
  ASSUME NEW c, NEW d, NEW srv, OpenPart(c, srv), SameWire(c, d),
         \/ d.session = c.session
         \/ d.session \in {"ACTIVATED", "CLOSING"}
         \/ c.session \notin {"ACTIVATED", "CLOSING"}
  PROVE  OpenPart(d, srv)
<1>1. Calls(d) = Calls(c) /\ Waits(d) = Waits(c) /\ In(d) = In(c) /\ Out(d) = Out(c)
  BY DEF SameWire, Calls, Waits, In, Out
<1>2. ManyInv(d)
  BY <1>1 DEF OpenPart, ManyInv, Unanswered, SameWire
<1>3. AskedInv(c, srv) => AskedInv(d, srv)
  BY <1>1 DEF AskedInv
<1> QED
  BY <1>1, <1>2, <1>3 DEF OpenPart, SameWire

-----------------------------------------------------------------------------
(* Sending.                                                                  *)

\* A request joins the messages to the server, unless the connection is lost.
LEMMA WrittenFacts ==
  ASSUME NEW c \in ClientRecord, NEW m \in RequestMsg, IsInjective(c.out), m \notin Out(c)
  PROVE  LET w == IF c.lost THEN c.out ELSE Append(c.out, m)
         IN  /\ w \in Seq(RequestMsg) /\ IsInjective(w)
             /\ ToSet(w) = IF c.lost THEN Out(c) ELSE Out(c) \cup {m}
             /\ Written(c, m) = [c EXCEPT !.out = w]
<1>1. c.out \in Seq(RequestMsg)
  BY DEF ClientRecord
<1>2. Append(c.out, m) \in Seq(RequestMsg) /\ IsInjective(Append(c.out, m))
      /\ ToSet(Append(c.out, m)) = Out(c) \cup {m}
  BY <1>1, AppendFacts DEF Out
<1> QED
  BY <1>1, <1>2 DEF Written, Out

\* The fields an asynchronous service leaves alone.
LEMMA AsyncFields ==
  ASSUME NEW c \in ClientRecord, Listed(c), server \in ServerRecord,
         NEW kind \in Kinds, NEW acks \in SUBSET Note
  PROVE  LET d == AsyncService(c, kind, acks)
             x == [id |-> FreshId(c), kind |-> kind]
             r == Request(FreshId(c), kind, 0, acks)
         IN  /\ d \in ClientRecord /\ Listed(d) /\ x \notin Calls(c)
             /\ Calls(d) = Calls(c) \cup {x}
             /\ Out(d) = IF c.lost THEN Out(c) ELSE Out(c) \cup {r}
             /\ c.lost => d.out = c.out
             /\ SameNotes(c, d)
             /\ d.channel = c.channel /\ d.waiting = c.waiting /\ d.lost = c.lost /\ d.in = c.in
             /\ d.session = c.session /\ d.status = c.status /\ d.url = c.url
             /\ d.endpoint = c.endpoint /\ d.outstanding = c.outstanding /\ d.limit = c.limit
             /\ d.acks = c.acks /\ d.checking = c.checking
<1> DEFINE id == FreshId(c)
           x == [id |-> id, kind |-> kind]
           r == Request(id, kind, 0, acks)
           calls == <<x>> \o c.calls
           out == IF c.lost THEN c.out ELSE Append(c.out, r)
<1>1. /\ id \in PosNat
      /\ \A y \in Calls(c) \cup Waits(c) \cup In(c) \cup Out(c) : y.id # id
  BY FreshFacts
<1> HIDE DEF id
<1>2. x \in Call /\ r \in RequestMsg /\ x.id = id /\ r.id = id
  BY <1>1 DEF Request, RequestMsg, Call, PosNat
<1>3. x \notin Calls(c) /\ r \notin Out(c)
  BY <1>1, <1>2
<1>4. c.calls \in Seq(Call) /\ IsInjective(c.calls) /\ IsInjective(c.out)
  BY DEF ClientRecord, Listed
<1>5. calls \in Seq(Call) /\ IsInjective(calls) /\ ToSet(calls) = Calls(c) \cup {x}
  <2> HIDE DEF x
  <2> QED
    BY <1>2, <1>3, <1>4, ConsFacts DEF Calls
<1>6. /\ out \in Seq(RequestMsg) /\ IsInjective(out)
      /\ ToSet(out) = IF c.lost THEN Out(c) ELSE Out(c) \cup {r}
      /\ Written(c, r) = [c EXCEPT !.out = out]
  <2> HIDE DEF r
  <2> QED
    BY <1>2, <1>3, <1>4, WrittenFacts
<1>7. AsyncService(c, kind, acks) = [[c EXCEPT !.out = out] EXCEPT !.calls = <<x>> \o @]
  BY <1>6 DEF AsyncService, id
<1>8. c.lost => out = c.out
  OBVIOUS
<1> HIDE DEF x, r, out
<1>9. DEFINE d == [[c EXCEPT !.out = out] EXCEPT !.calls = <<x>> \o @]
<1>10. d.calls = calls /\ d.out = out /\ d \in ClientRecord
  BY <1>5, <1>6 DEF ClientRecord
<1>11. /\ SameNotes(c, d)
       /\ d.channel = c.channel /\ d.waiting = c.waiting /\ d.lost = c.lost /\ d.in = c.in
       /\ d.session = c.session /\ d.status = c.status /\ d.url = c.url
       /\ d.endpoint = c.endpoint /\ d.outstanding = c.outstanding /\ d.limit = c.limit
       /\ d.acks = c.acks /\ d.checking = c.checking
  BY DEF ClientRecord, SameNotes
<1> HIDE DEF d, calls
<1>12. Listed(d)
  BY <1>5, <1>6, <1>10, <1>11 DEF Listed
<1>13. AsyncService(c, kind, acks) = d
  BY <1>7 DEF d
<1>14. /\ d \in ClientRecord /\ Listed(d) /\ x \notin Calls(c)
       /\ Calls(d) = Calls(c) \cup {x}
       /\ Out(d) = IF c.lost THEN Out(c) ELSE Out(c) \cup {r}
       /\ c.lost => d.out = c.out
  BY <1>3, <1>5, <1>6, <1>8, <1>10, <1>12 DEF Calls, Out
<1> QED
  BY <1>11, <1>13, <1>14 DEF x, r, id

\* A call on an open channel.
LEMMA Called ==
  ASSUME NEW c, Core(c, server), server \in ServerRecord, c.channel = "OPEN",
         NEW kind \in Kinds, NEW acks \in SUBSET c.got
  PROVE  LET d == AsyncService(c, kind, acks)
         IN  /\ Core(d, server)
             /\ OpenPart(c, server) => OpenPart(d, server)
<1> DEFINE d == AsyncService(c, kind, acks)
           x == [id |-> FreshId(c), kind |-> kind]
           r == Request(FreshId(c), kind, 0, acks)
<1>1. c \in ClientRecord /\ Listed(c)
  BY DEF Core
<1>2. acks \in SUBSET Note
  BY <1>1 DEF ClientRecord
<1>3. /\ d \in ClientRecord /\ Listed(d) /\ x \notin Calls(c)
      /\ Calls(d) = Calls(c) \cup {x}
      /\ Out(d) = IF c.lost THEN Out(c) ELSE Out(c) \cup {r}
      /\ c.lost => d.out = c.out
      /\ SameNotes(c, d)
      /\ d.channel = c.channel /\ d.waiting = c.waiting /\ d.lost = c.lost /\ d.in = c.in
      /\ d.session = c.session /\ d.acks = c.acks
  BY <1>1, <1>2, AsyncFields
<1>4. /\ x.id \in PosNat /\ x.id \notin Parked(server)
      /\ \A y \in Calls(c) \cup Waits(c) \cup In(c) \cup Out(c) : y.id # x.id
      /\ r.id = x.id /\ r.kind = x.kind /\ x.kind = kind /\ r.acks = acks
  BY <1>1, FreshFacts DEF Request
<1> HIDE DEF d, x, r
<1>5. Waits(d) = Waits(c) /\ In(d) = In(c)
  BY <1>3 DEF Waits, In
<1>6. c.lost \in BOOLEAN /\ (c.lost <=> ~server.channel)
  BY <1>1 DEF ClientRecord, Core, WireInv
<1>7. LinkInv(d, server)
  <2>1. Link(Calls(c), Waits(c), In(c), Out(c), Parked(server))
    BY DEF Core, LinkInv
  <2>2. /\ Link(Calls(c) \cup {x}, Waits(c), In(c), Out(c) \cup {r}, Parked(server))
        /\ Link(Calls(c) \cup {x}, Waits(c), In(c), Out(c), Parked(server))
    BY <1>4, <2>1, LinkCall
  <2> QED
    BY <1>3, <1>5, <2>2 DEF LinkInv
<1>8. WireInv(d, server)
  <2>1. WireInv(c, server)
    BY DEF Core
  <2>2. r.kind # "CLO" /\ r.kind # "CreateSubscription" /\ r.id # 0
    BY <1>4 DEF Kinds, PosNat
  <2>3. Out(d) \subseteq Out(c) \cup {r}
    BY <1>3
  <2>4. ~server.channel => d.out = <<>>
    BY <1>3, <1>6, <2>1 DEF WireInv
  <2>5. /\ \A q \in Out(d) : q.kind = "CLO" <=> q.id = 0
        /\ \A q \in Out(d) : q.kind # "CLO"
        /\ \A q \in Out(d) : q.kind = "CreateSubscription" => q \in Out(c)
    BY <2>1, <2>2, <2>3 DEF WireInv
  <2>6. CloLast(d.out)
    BY <2>5, NoClo DEF Out
  <2> QED
    BY <1>3, <2>1, <2>4, <2>5, <2>6 DEF WireInv
<1>9. NotesInv(d, server)
  <2>1. NotesInv(c, server)
    BY DEF Core
  <2>2. \A q \in Out(d) : q.acks \subseteq c.got
    BY <1>3, <1>4, <2>1 DEF NotesInv
  <2> QED
    BY <1>3, <1>5, <2>1, <2>2 DEF NotesInv, SameNotes
<1>10. ASSUME OpenPart(c, server) PROVE OpenPart(d, server)
  <2>1. ManyInv(d)
    <3>1. Published(Calls(c)) \subseteq Published(Calls(d))
      BY <1>3 DEF Published
    <3>2. IsInjective(d.calls) /\ ManyInv(c)
      BY <1>3, <1>10 DEF Listed, OpenPart
    <3> QED
      BY <1>1, <1>3, <3>1, <3>2, ManyMore
  <2>2. ASSUME server.channel PROVE AskedInv(d, server)
    <3>1. Asked(Calls(c), Waits(c), In(c), Out(c), Parked(server))
      BY <1>10, <2>2 DEF OpenPart, AskedInv
    <3>2. r.kind # "CreateSubscription"
      BY <1>4 DEF Kinds
    <3>3. Asked(Calls(c) \cup {x}, Waits(c), In(c), Out(c) \cup {r}, Parked(server))
      BY <1>4, <3>1, <3>2, AskedCall
    <3> QED
      BY <1>3, <1>5, <1>6, <2>2, <3>3 DEF AskedInv
  <2>3. Activating(Calls(c), In(c)) => Activating(Calls(d), In(d))
    BY <1>3, <1>5 DEF Activating
  <2> QED
    BY <1>3, <1>10, <2>1, <2>2, <2>3 DEF OpenPart
<1> QED
  BY <1>3, <1>7, <1>8, <1>9, <1>10 DEF Core, d

\* A synchronous service on an open channel of an active session.
LEMMA Served ==
  ASSUME NEW c, Core(c, server), server \in ServerRecord, c.channel = "OPEN",
         NEW op \in Ops, NEW sub \in Nat,
         op = "CreateSubscription" =>
           server.created < MaxSub /\ \A r \in Out(c) : r.kind # "CreateSubscription"
  PROVE  LET d == Service(c, op, sub)
         IN  /\ Core(d, server)
             /\ OpenPart(c, server) /\ c.session \in {"ACTIVATED", "CLOSING"} => OpenPart(d, server)
             /\ SameNotes(c, d) /\ d.calls = c.calls
             /\ d.channel = c.channel /\ d.lost = c.lost /\ d.in = c.in
             /\ d.session = c.session /\ d.outstanding = c.outstanding /\ d.limit = c.limit
             /\ d.acks = c.acks /\ d.checking = c.checking
<1> DEFINE id == FreshId(c)
           x == [id |-> id, op |-> op, sub |-> sub]
           r == Request(id, op, sub, {})
           waiting == Append(c.waiting, x)
           out == IF c.lost THEN c.out ELSE Append(c.out, r)
           d == [[c EXCEPT !.out = out] EXCEPT !.waiting = waiting]
<1>1. c \in ClientRecord /\ Listed(c)
  BY DEF Core
<1>2. /\ id \in PosNat /\ id \notin Parked(server)
      /\ \A y \in Calls(c) \cup Waits(c) \cup In(c) \cup Out(c) : y.id # id
  BY <1>1, FreshFacts
<1> HIDE DEF id
<1>3. /\ x \in Waiting /\ r \in RequestMsg /\ x.id = id /\ r.id = id
      /\ r.kind = x.op /\ x.op = op /\ r.acks = {}
  BY <1>2 DEF Request, RequestMsg, Waiting, PosNat
<1>4. x \notin Waits(c) /\ r \notin Out(c)
  BY <1>2, <1>3
<1>5. c.waiting \in Seq(Waiting) /\ IsInjective(c.waiting) /\ IsInjective(c.out)
  BY <1>1 DEF ClientRecord, Listed
<1>6. /\ waiting \in Seq(Waiting) /\ IsInjective(waiting) /\ ToSet(waiting) = Waits(c) \cup {x}
      /\ waiting # <<>>
  <2> HIDE DEF x
  <2> QED
    BY <1>3, <1>4, <1>5, AppendFacts DEF Waits
<1>7. /\ out \in Seq(RequestMsg) /\ IsInjective(out)
      /\ ToSet(out) = IF c.lost THEN Out(c) ELSE Out(c) \cup {r}
      /\ Written(c, r) = [c EXCEPT !.out = out]
  <2> HIDE DEF r
  <2> QED
    BY <1>1, <1>3, <1>4, <1>5, WrittenFacts
<1>8. Service(c, op, sub) = d
  <2>1. Service(c, op, sub) = [[c EXCEPT !.out = out] EXCEPT !.waiting = Append(@, x)]
    BY <1>7 DEF Service, id
  <2>2. [c EXCEPT !.out = out].waiting = c.waiting
    BY <1>1 DEF ClientRecord
  <2> QED
    BY <2>1, <2>2
<1>9. c.lost => out = c.out
  OBVIOUS
<1> HIDE DEF x, r, out, waiting
<1>10. /\ d.waiting = waiting /\ d.out = out /\ d \in ClientRecord
       /\ SameNotes(c, d) /\ d.calls = c.calls
       /\ d.channel = c.channel /\ d.lost = c.lost /\ d.in = c.in
       /\ d.session = c.session /\ d.outstanding = c.outstanding /\ d.limit = c.limit
       /\ d.acks = c.acks /\ d.checking = c.checking
  BY <1>1, <1>6, <1>7 DEF ClientRecord, SameNotes
<1> HIDE DEF d
<1>11. /\ Waits(d) = Waits(c) \cup {x} /\ In(d) = In(c) /\ Calls(d) = Calls(c)
       /\ Out(d) = IF c.lost THEN Out(c) ELSE Out(c) \cup {r}
  BY <1>6, <1>7, <1>10 DEF Waits, In, Calls, Out
<1>12. c.lost \in BOOLEAN /\ (c.lost <=> ~server.channel)
  BY <1>1 DEF ClientRecord, Core, WireInv
<1>13. LinkInv(d, server)
  <2>1. Link(Calls(c), Waits(c), In(c), Out(c), Parked(server))
    BY DEF Core, LinkInv
  <2>2. /\ Link(Calls(c), Waits(c) \cup {x}, In(c), Out(c) \cup {r}, Parked(server))
        /\ Link(Calls(c), Waits(c) \cup {x}, In(c), Out(c), Parked(server))
    BY <1>2, <1>3, <2>1, LinkWait
  <2> QED
    BY <1>11, <2>2 DEF LinkInv
<1>14. WireInv(d, server)
  <2>1. WireInv(c, server)
    BY DEF Core
  <2>2. r.kind # "CLO" /\ r.id # 0
    BY <1>2, <1>3 DEF Ops, PosNat
  <2>3. Out(d) \subseteq Out(c) \cup {r}
    BY <1>11
  <2>4. ~server.channel => d.out = <<>>
    BY <1>9, <1>10, <1>12, <2>1 DEF WireInv
  <2>5. /\ \A q \in Out(d) : q.kind = "CLO" <=> q.id = 0
        /\ \A q \in Out(d) : q.kind # "CLO"
    BY <2>1, <2>2, <2>3 DEF WireInv
  <2>6. \A q \in Out(d) : q.kind = "CreateSubscription" => server.created < MaxSub
    BY <1>3, <2>1, <2>3 DEF WireInv
  <2>7. \A q, p \in Out(d) :
          q.kind = "CreateSubscription" /\ p.kind = "CreateSubscription" => q = p
    BY <1>3, <2>1, <2>3 DEF WireInv
  <2>8. CloLast(d.out)
    BY <2>5, NoClo DEF Out
  <2> QED
    BY <1>10, <1>12, <2>1, <2>4, <2>5, <2>6, <2>7, <2>8 DEF WireInv
<1>15. NotesInv(d, server)
  <2>1. NotesInv(c, server)
    BY DEF Core
  <2>2. \A q \in Out(d) : q.acks \subseteq c.got
    BY <1>3, <1>11, <2>1 DEF NotesInv
  <2> QED
    BY <1>10, <1>11, <2>1, <2>2 DEF NotesInv, SameNotes
<1>16. ASSUME OpenPart(c, server), c.session \in {"ACTIVATED", "CLOSING"}
       PROVE  OpenPart(d, server)
  <2>1. ManyInv(d)
    BY <1>10, <1>11, <1>16 DEF OpenPart, ManyInv, Unanswered
  <2>2. ASSUME server.channel PROVE AskedInv(d, server)
    <3>1. Asked(Calls(c), Waits(c), In(c), Out(c), Parked(server))
      BY <1>16, <2>2 DEF OpenPart, AskedInv
    <3>2. Asked(Calls(c), Waits(c) \cup {x}, In(c), Out(c) \cup {r}, Parked(server))
      BY <1>3, <3>1, AskedWait
    <3> QED
      BY <1>11, <1>12, <2>2, <3>2 DEF AskedInv
  <2> QED
    BY <1>10, <1>16, <2>1, <2>2 DEF OpenPart
<1>17. Listed(d)
  BY <1>1, <1>6, <1>7, <1>10 DEF Listed
<1> QED
  BY <1>8, <1>10, <1>13, <1>14, <1>15, <1>16, <1>17 DEF Core

-----------------------------------------------------------------------------
(* Ending calls.                                                             *)

\* A call leaves the list.
LEMMA CallGone ==
  ASSUME NEW c, NEW srv, Core(c, srv), NEW y \in Calls(c)
  PROVE  LET d == [c EXCEPT !.calls = Without(@, y)]
         IN  /\ Core(d, srv) /\ d.calls = Without(c.calls, y)
             /\ Calls(d) = Calls(c) \ {y}
             /\ SameNotes(c, d)
             /\ d.channel = c.channel /\ d.waiting = c.waiting /\ d.lost = c.lost /\ d.in = c.in
             /\ d.out = c.out /\ d.session = c.session /\ d.status = c.status /\ d.url = c.url
             /\ d.endpoint = c.endpoint /\ d.outstanding = c.outstanding /\ d.limit = c.limit
             /\ d.acks = c.acks /\ d.checking = c.checking
             /\ Published(Calls(d)) = Published(Calls(c)) \ {y}
             /\ Cardinality(Published(Calls(d))) =
                  IF y.kind = "publish" THEN Cardinality(Published(Calls(c))) - 1
                  ELSE Cardinality(Published(Calls(c)))
<1> DEFINE calls == Without(c.calls, y)
           d == [c EXCEPT !.calls = calls]
<1>1. c \in ClientRecord /\ Listed(c)
  BY DEF Core
<1>2. c.calls \in Seq(Call) /\ IsInjective(c.calls) /\ y \in ToSet(c.calls)
  BY <1>1 DEF ClientRecord, Listed, Calls
<1>3. calls \in Seq(Call) /\ IsInjective(calls) /\ ToSet(calls) = Calls(c) \ {y}
  BY <1>2, WithoutFacts DEF Calls
<1>4. d = [c EXCEPT !.calls = Without(@, y)]
  OBVIOUS
<1> HIDE DEF calls
<1>5. /\ d \in ClientRecord /\ d.calls = calls
      /\ SameNotes(c, d)
      /\ d.channel = c.channel /\ d.waiting = c.waiting /\ d.lost = c.lost /\ d.in = c.in
      /\ d.out = c.out /\ d.session = c.session /\ d.status = c.status /\ d.url = c.url
      /\ d.endpoint = c.endpoint /\ d.outstanding = c.outstanding /\ d.limit = c.limit
      /\ d.acks = c.acks /\ d.checking = c.checking
  BY <1>1, <1>3 DEF ClientRecord, SameNotes
<1> HIDE DEF d
<1>6. Calls(d) = Calls(c) \ {y} /\ Waits(d) = Waits(c) /\ In(d) = In(c) /\ Out(d) = Out(c)
  BY <1>3, <1>5 DEF Calls, Waits, In, Out
<1>7. LinkInv(d, srv)
  <2>1. Link(Calls(c), Waits(c), In(c), Out(c), Parked(srv))
    BY DEF Core, LinkInv
  <2>2. Calls(c) \ {y} \in SUBSET Calls(c)
    OBVIOUS
  <2>3. Link(Calls(c) \ {y}, Waits(c), In(c), Out(c), Parked(srv))
    BY <2>1, <2>2, LinkLess
  <2> QED
    BY <1>6, <2>3 DEF LinkInv
<1>8. Core(d, srv)
  <2>1. Listed(d)
    BY <1>1, <1>3, <1>5 DEF Listed
  <2>2. WireInv(d, srv)
    BY <1>5, <1>6 DEF Core, WireInv
  <2>3. NotesInv(d, srv)
    BY <1>5, <1>6 DEF Core, NotesInv, SameNotes
  <2> QED
    BY <1>5, <1>7, <2>1, <2>2, <2>3 DEF Core
<1>9. Published(Calls(d)) = Published(Calls(c)) \ {y}
  BY <1>6 DEF Published
<1>10. y.kind = "publish" <=> y \in Published(Calls(c))
  BY DEF Published
<1>11. IsFiniteSet(Published(Calls(c)))
  BY <1>1, PublishedFacts DEF Listed
<1>12. Cardinality(Published(Calls(d))) =
         IF y.kind = "publish" THEN Cardinality(Published(Calls(c))) - 1
         ELSE Cardinality(Published(Calls(c)))
  BY <1>9, <1>10, <1>11, FS_RemoveElement
<1> QED
  BY <1>4, <1>5, <1>6, <1>8, <1>9, <1>12 DEF calls, d

\* The client while its calls are ended: the session is not active, and a call
\* that a new session be created is the only new one.
Falling(c, code) ==
  /\ Core(c, server) /\ CountInv(c) /\ Single(Calls(c))
  /\ c.session # "ACTIVATED"
  /\ c.session = "CREATE_REQUESTED" => Pending(c, "create")
  /\ c.session \in {"CLOSED", "CREATE_REQUESTED"} \/ Pending(c, "create") =>
       c.subs = NoSubs /\ c.acks = {}
  /\ c.checking <=> Pending(c, "check")
  /\ code = "BadSecureChannelClosed" => c.channel = "CLOSED"
  /\ code # "BadSecureChannelClosed" =>
       /\ c.channel = "OPEN" /\ c.session \in {"CLOSED", "CREATE_REQUESTED"}
       /\ Pending(c, "create") => ~Pending(c, "activate")

\* What ending calls leaves alone.
SameBase(c, d) ==
  /\ d.channel = c.channel /\ d.waiting = c.waiting /\ d.lost = c.lost /\ d.in = c.in
  /\ d.endpoint = c.endpoint /\ d.limit = c.limit /\ d.acks = c.acks

\* The counters are numbers.
LEMMA CountTypes ==
  ASSUME NEW c \in ClientRecord
  PROVE  c.outstanding \in Int /\ c.limit \in Nat /\ c.limit > 0
<1>1. Wanted \in Nat
  BY BoundsAssumption
<1>2. c.limit \in 1..Wanted /\ c.outstanding \in Int
  BY DEF ClientRecord
<1> QED
  BY <1>1, <1>2

\* One publish request less outstanding, and nothing else changes.
LEMMA OneLessFields ==
  ASSUME NEW c \in ClientRecord
  PROVE  LET d == OneLess(c)
         IN  /\ d \in ClientRecord /\ SameWire(c, d) /\ SameNotes(c, d) /\ SameBase(c, d)
             /\ d.session = c.session /\ d.status = c.status /\ d.url = c.url
             /\ d.outstanding = c.outstanding - 1 /\ d.checking = c.checking
<1> DEFINE n == c.outstanding - 1
<1>1. c.outstanding \in Int /\ n \in Int
  BY CountTypes
<1>2. OneLess(c) = [c EXCEPT !.outstanding = n]
  BY DEF OneLess
<1>3. n = c.outstanding - 1
  OBVIOUS
<1> HIDE DEF n
<1>4. DEFINE d == [c EXCEPT !.outstanding = n]
<1>5. /\ d \in ClientRecord /\ SameWire(c, d) /\ SameNotes(c, d) /\ SameBase(c, d)
      /\ d.session = c.session /\ d.status = c.status /\ d.url = c.url
      /\ d.outstanding = n /\ d.checking = c.checking
  BY <1>1 DEF ClientRecord, SameWire, SameNotes, SameBase
<1> QED
  BY <1>2, <1>3, <1>5

\* The callback of one call.
LEMMA CancelledFalls ==
  ASSUME NEW c, server \in ServerRecord, NEW code, Falling(c, code), NEW y \in Calls(c)
  PROVE  LET d == Cancelled([c EXCEPT !.calls = Without(@, y)], y.kind, code)
         IN  /\ Falling(d, code) /\ SameNotes(c, d) /\ SameBase(c, d)
             /\ Calls(c) \ {y} \subseteq Calls(d) /\ y \notin Calls(d)
             /\ \A x \in Calls(d) \ Calls(c) :
                  /\ x.kind = "create" /\ y.kind = "activate" /\ code # "BadSecureChannelClosed"
                  /\ d.session = "CREATE_REQUESTED"
             /\ y.kind # "activate" \/ code = "BadSecureChannelClosed" =>
                  d.out = c.out /\ d.session \in {c.session, "CLOSED"}
             /\ y.kind # "create" /\ c.session = "CREATE_REQUESTED" =>
                  d.session = "CREATE_REQUESTED"
<1> DEFINE e == [c EXCEPT !.calls = Without(@, y)]
<1>1. Core(c, server) /\ c \in ClientRecord
  BY DEF Falling, Core
<1>2. /\ Core(e, server) /\ e.calls = Without(c.calls, y)
      /\ Calls(e) = Calls(c) \ {y}
      /\ SameNotes(c, e) /\ SameBase(c, e)
      /\ e.out = c.out /\ e.session = c.session
      /\ e.outstanding = c.outstanding /\ e.checking = c.checking
      /\ Cardinality(Published(Calls(e))) =
           IF y.kind = "publish" THEN Cardinality(Published(Calls(c))) - 1
           ELSE Cardinality(Published(Calls(c)))
  BY <1>1, CallGone DEF SameBase
<1> HIDE DEF e
<1>3. e \in ClientRecord
  BY <1>2 DEF Core
<1>4. y \in Call /\ y.kind \in Kinds
  <2>1. c.calls \in Seq(Call)
    BY <1>1 DEF ClientRecord
  <2>2. Calls(c) \subseteq Call
    BY <2>1, ToSetFacts DEF Calls
  <2> QED
    BY <2>2 DEF Call
<1>5. /\ Cardinality(Published(Calls(c))) \in Nat /\ Cardinality(Published(Calls(e))) \in Nat
      /\ c.outstanding \in Int /\ c.limit \in Nat
  BY <1>1, <1>2, <1>3, PublishedFacts, CountTypes DEF Core, Listed
<1>6. Single(Calls(e))
  BY <1>2 DEF Falling, Single
<1>7. \A kind \in Kinds : Pending(e, kind) => Pending(c, kind)
  BY <1>2 DEF Pending, Calls
<1>8. \A kind \in Kinds \ {y.kind} : Pending(e, kind) <=> Pending(c, kind)
  BY <1>2 DEF Pending, Calls
<1>9. y.kind \in {"create", "activate", "check"} => ~Pending(e, y.kind)
  BY <1>2 DEF Pending, Calls, Falling, Single
<1>10. CountInv(c)
  BY DEF Falling
<1>11. e.subs = c.subs /\ e.acks = c.acks /\ e.channel = c.channel
  BY <1>2 DEF SameNotes, SameBase
<1>12. e.acks \subseteq e.got
  BY <1>2 DEF Core, NotesInv
<1>13. CASE y.kind \in {"find", "endpoints"}
  <2> DEFINE d == IF y.kind = "find" THEN [e EXCEPT !.url = "own"] ELSE [e EXCEPT !.status = "bad"]
  <2>1. Cancelled(e, y.kind, code) = d
    BY <1>13 DEF Cancelled
  <2>2. /\ d \in ClientRecord /\ SameWire(e, d) /\ SameNotes(e, d) /\ SameBase(e, d)
        /\ d.session = e.session /\ d.outstanding = e.outstanding /\ d.checking = e.checking
    BY <1>3 DEF ClientRecord, SameWire, SameNotes, SameBase
  <2> HIDE DEF d
  <2>3. Core(d, server)
    BY <1>2, <1>12, <2>2, CoreFrame DEF SameBase
  <2>4. Calls(d) = Calls(e) /\ \A kind : Pending(d, kind) <=> Pending(e, kind)
    BY <2>2 DEF Calls, SameWire, Pending
  <2>5. CountInv(d)
    BY <1>2, <1>10, <1>13, <2>2, <2>4 DEF CountInv, SameBase
  <2>6. /\ \A kind \in {"create", "activate", "check"} : Pending(d, kind) <=> Pending(c, kind)
        /\ d.subs = c.subs /\ d.acks = c.acks /\ d.channel = c.channel
    BY <1>8, <1>11, <1>13, <2>2, <2>4 DEF Kinds, SameNotes, SameBase
  <2>7. Falling(d, code)
    BY <1>2, <1>6, <2>2, <2>3, <2>4, <2>5, <2>6 DEF Falling
  <2> QED
    BY <1>2, <2>1, <2>2, <2>4, <2>7 DEF e, SameBase, SameNotes, SameWire
<1>14. CASE y.kind = "create"
  <2> DEFINE d == [e EXCEPT !.status = "bad", !.session = "CLOSED"]
  <2>1. Cancelled(e, y.kind, code) = d
    BY <1>14 DEF Cancelled
  <2>2. /\ d \in ClientRecord /\ SameWire(e, d) /\ SameNotes(e, d) /\ SameBase(e, d)
        /\ d.session = "CLOSED" /\ d.outstanding = e.outstanding /\ d.checking = e.checking
    BY <1>3 DEF ClientRecord, SameWire, SameNotes, SameBase, SessionRank
  <2> HIDE DEF d
  <2>3. Core(d, server)
    BY <1>2, <1>12, <2>2, CoreFrame DEF SameBase
  <2>4. Calls(d) = Calls(e) /\ \A kind : Pending(d, kind) <=> Pending(e, kind)
    BY <2>2 DEF Calls, SameWire, Pending
  <2>5. CountInv(d)
    BY <1>2, <1>10, <1>14, <2>2, <2>4 DEF CountInv, SameBase
  <2>6. /\ Pending(d, "check") <=> Pending(c, "check")
        /\ d.subs = c.subs /\ d.acks = c.acks /\ d.channel = c.channel
        /\ ~Pending(d, "create")
    BY <1>8, <1>9, <1>11, <1>14, <2>2, <2>4 DEF Kinds, SameNotes, SameBase
  <2>7. Pending(c, "create")
    BY <1>14 DEF Pending, Calls
  <2>8. Falling(d, code)
    BY <1>2, <1>6, <2>2, <2>3, <2>4, <2>5, <2>6, <2>7 DEF Falling
  <2> QED
    <3>1. SameNotes(c, d) /\ SameBase(c, d) /\ d.out = c.out
      BY <1>2, <2>2 DEF SameBase, SameNotes, SameWire
    <3>2. Calls(d) = Calls(c) \ {y}
      BY <1>2, <2>4
    <3> QED
      BY <1>14, <2>1, <2>2, <2>8, <3>1, <3>2 DEF e
<1>15. CASE y.kind = "check"
  <2> DEFINE d == [e EXCEPT !.checking = FALSE]
  <2>1. Cancelled(e, y.kind, code) = d
    BY <1>15 DEF Cancelled
  <2>2. /\ d \in ClientRecord /\ SameWire(e, d) /\ SameNotes(e, d) /\ SameBase(e, d)
        /\ d.session = e.session /\ d.outstanding = e.outstanding /\ d.checking = FALSE
    BY <1>3 DEF ClientRecord, SameWire, SameNotes, SameBase
  <2> HIDE DEF d
  <2>3. Core(d, server)
    BY <1>2, <1>12, <2>2, CoreFrame DEF SameBase
  <2>4. Calls(d) = Calls(e) /\ \A kind : Pending(d, kind) <=> Pending(e, kind)
    BY <2>2 DEF Calls, SameWire, Pending
  <2>5. CountInv(d)
    BY <1>2, <1>10, <1>15, <2>2, <2>4 DEF CountInv, SameBase
  <2>6. /\ \A kind \in {"create", "activate"} : Pending(d, kind) <=> Pending(c, kind)
        /\ d.subs = c.subs /\ d.acks = c.acks /\ d.channel = c.channel
        /\ ~Pending(d, "check")
    BY <1>8, <1>9, <1>11, <1>15, <2>2, <2>4 DEF Kinds, SameNotes, SameBase
  <2>7. Falling(d, code)
    BY <1>2, <1>6, <2>2, <2>3, <2>4, <2>5, <2>6 DEF Falling
  <2> QED
    BY <1>2, <2>1, <2>2, <2>4, <2>7 DEF e, SameBase, SameNotes, SameWire
<1>16. CASE y.kind = "publish"
  <2> DEFINE d == [e EXCEPT !.outstanding = @ - 1]
  <2>2. /\ d \in ClientRecord /\ SameWire(e, d) /\ SameNotes(e, d) /\ SameBase(e, d)
        /\ d.session = e.session /\ d.outstanding = e.outstanding - 1 /\ d.checking = e.checking
    BY <1>3, OneLessFields DEF OneLess
  <2>1. Cancelled(e, y.kind, code) = d
    <3>1. d.session # "ACTIVATED"
      BY <1>2, <2>2 DEF Falling
    <3>2. OneLess(e) = d
      BY DEF OneLess
    <3> HIDE DEF d
    <3> QED
      BY <1>16, <3>1, <3>2 DEF Cancelled, Publishes
  <2> HIDE DEF d
  <2>3. Core(d, server)
    BY <1>2, <1>12, <2>2, CoreFrame DEF SameBase
  <2>4. Calls(d) = Calls(e) /\ \A kind : Pending(d, kind) <=> Pending(e, kind)
    BY <2>2 DEF Calls, SameWire, Pending
  <2>5. CountInv(d)
    <3>1. Cardinality(Published(Calls(d))) = Cardinality(Published(Calls(c))) - 1
      BY <1>2, <1>16, <2>4
    <3>2. d.outstanding = c.outstanding - 1 /\ d.limit = c.limit
      BY <1>2, <2>2 DEF SameBase
    <3> QED
      BY <1>5, <1>10, <3>1, <3>2 DEF CountInv
  <2>6. /\ \A kind \in {"create", "activate", "check"} : Pending(d, kind) <=> Pending(c, kind)
        /\ d.subs = c.subs /\ d.acks = c.acks /\ d.channel = c.channel
    BY <1>8, <1>11, <1>16, <2>2, <2>4 DEF Kinds, SameNotes, SameBase
  <2>7. Falling(d, code)
    BY <1>2, <1>6, <2>2, <2>3, <2>4, <2>5, <2>6 DEF Falling
  <2> QED
    BY <1>2, <2>1, <2>2, <2>4, <2>7 DEF e, SameBase, SameNotes, SameWire
<1>17. CASE y.kind = "activate" /\ code = "BadSecureChannelClosed"
  <2> DEFINE d == [e EXCEPT !.status = "bad"]
  <2>1. Cancelled(e, y.kind, code) = d
    BY <1>17 DEF Cancelled
  <2>2. /\ d \in ClientRecord /\ SameWire(e, d) /\ SameNotes(e, d) /\ SameBase(e, d)
        /\ d.session = e.session /\ d.outstanding = e.outstanding /\ d.checking = e.checking
    BY <1>3 DEF ClientRecord, SameWire, SameNotes, SameBase
  <2> HIDE DEF d
  <2>3. Core(d, server)
    BY <1>2, <1>12, <2>2, CoreFrame DEF SameBase
  <2>4. Calls(d) = Calls(e) /\ \A kind : Pending(d, kind) <=> Pending(e, kind)
    BY <2>2 DEF Calls, SameWire, Pending
  <2>5. CountInv(d)
    BY <1>2, <1>10, <1>17, <2>2, <2>4 DEF CountInv, SameBase
  <2>6. /\ \A kind \in {"create", "check"} : Pending(d, kind) <=> Pending(c, kind)
        /\ d.subs = c.subs /\ d.acks = c.acks /\ d.channel = c.channel
    BY <1>8, <1>11, <1>17, <2>2, <2>4 DEF Kinds, SameNotes, SameBase
  <2>7. Falling(d, code)
    BY <1>2, <1>6, <1>17, <2>2, <2>3, <2>4, <2>5, <2>6 DEF Falling
  <2> QED
    BY <1>2, <2>1, <2>2, <2>4, <2>7 DEF e, SameBase, SameNotes, SameWire
<1>18. CASE y.kind = "activate" /\ code # "BadSecureChannelClosed"
  <2> DEFINE a == AsyncService(e, "create", {})
             x == [id |-> FreshId(e), kind |-> "create"]
             d == [a EXCEPT !.session = "CREATE_REQUESTED"]
  <2>a. e.channel = "OPEN"
    BY <1>11, <1>18 DEF Falling
  <2>1. Cancelled(e, y.kind, code) = d
    BY <1>18, <2>a DEF Cancelled
  <2>b. /\ a \in ClientRecord /\ x \notin Calls(e)
        /\ Calls(a) = Calls(e) \cup {x}
        /\ SameNotes(e, a) /\ SameBase(e, a)
        /\ a.outstanding = e.outstanding /\ a.checking = e.checking
    <3>1. Listed(e) /\ "create" \in Kinds /\ {} \in SUBSET Note
      BY <1>2 DEF Core, Kinds
    <3> QED
      BY <1>3, <3>1, AsyncFields DEF SameBase
  <2>c. Core(a, server)
    <3>1. "create" \in Kinds /\ {} \in SUBSET e.got
      BY DEF Kinds
    <3> QED
      BY <1>2, <2>a, <3>1, Called
  <2>d. x.kind = "create"
    OBVIOUS
  <2> HIDE DEF a
  <2>2. /\ d \in ClientRecord /\ SameWire(a, d) /\ SameNotes(a, d) /\ SameBase(a, d)
        /\ d.session = "CREATE_REQUESTED" /\ d.outstanding = a.outstanding
        /\ d.checking = a.checking
    BY <2>b DEF ClientRecord, SameWire, SameNotes, SameBase, SessionRank
  <2> HIDE DEF d, x
  <2>3. Core(d, server)
    <3>1. a.acks \subseteq a.got
      BY <2>c DEF Core, NotesInv
    <3> QED
      BY <2>2, <2>c, <3>1, CoreFrame DEF SameBase
  <2>4. Calls(d) = Calls(e) \cup {x}
    BY <2>2, <2>b DEF Calls, SameWire
  <2>5. CountInv(d)
    <3>1. Published(Calls(d)) = Published(Calls(e))
      BY <2>4, <2>d DEF Published
    <3> QED
      BY <1>2, <1>10, <1>18, <2>2, <2>b, <3>1 DEF CountInv, SameBase
  <2>6. /\ Pending(d, "create") /\ (Pending(d, "check") <=> Pending(c, "check"))
        /\ ~Pending(d, "activate") /\ ~Pending(e, "create")
    <3>1. \A kind : Pending(d, kind) <=> Pending(e, kind) \/ kind = "create"
      BY <2>4, <2>d DEF Pending, Calls
    <3>2. Pending(c, "activate")
      BY <1>18 DEF Pending, Calls
    <3>3. ~Pending(c, "create")
      BY <1>18, <3>2 DEF Falling
    <3> QED
      BY <1>7, <1>8, <1>9, <1>18, <3>1, <3>3 DEF Kinds
  <2>7. Single(Calls(d))
    BY <1>6, <2>4, <2>6, <2>d DEF Single, Pending, Calls
  <2>8. d.subs = c.subs /\ d.acks = c.acks /\ d.channel = c.channel /\ d.checking = c.checking
    BY <1>2, <1>11, <2>2, <2>b DEF SameNotes, SameBase
  <2>9. Falling(d, code)
    BY <1>18, <2>2, <2>3, <2>5, <2>6, <2>7, <2>8 DEF Falling
  <2>10. SameNotes(c, d) /\ SameBase(c, d)
    BY <1>2, <2>2, <2>b DEF SameNotes, SameBase
  <2>11. y \notin Calls(d)
    BY <1>2, <1>18, <2>4, <2>d
  <2> QED
    <3>1. Calls(c) \ {y} \subseteq Calls(d)
      BY <1>2, <2>4
    <3>2. \A z \in Calls(d) \ Calls(c) : z.kind = "create"
      BY <1>2, <2>4, <2>d
    <3> QED
      BY <1>18, <2>1, <2>2, <2>9, <2>10, <2>11, <3>1, <3>2 DEF e
<1> QED
  BY <1>4, <1>13, <1>14, <1>15, <1>16, <1>17, <1>18 DEF Kinds

\* The walk of RemoveAll, position by position.
LEMMA RemoveAllWalk ==
  ASSUME NEW c, c.calls \in Seq(Call), NEW code
  PROVE  \E f : /\ f = [i \in 0..Len(c.calls) |->
                          IF i = 0 THEN c
                          ELSE Cancelled([f[i - 1] EXCEPT !.calls = Without(@, c.calls[i])],
                                         c.calls[i].kind, code)]
                /\ RemoveAll(c, code) = f[Len(c.calls)]
<1> DEFINE Step(d, i) == Cancelled([d EXCEPT !.calls = Without(@, c.calls[i])],
                                   c.calls[i].kind, code)
           n == Len(c.calls)
           Walk(f, m) == f = [i \in 0..m |-> IF i = 0 THEN c ELSE Step(f[i - 1], i)]
           Bad == {m \in 0..n : ~\E f : Walk(f, m)}
<1>a. n \in Nat
  BY LenProperties
<1>1. Bad = {}
  <2> SUFFICES ASSUME Bad # {} PROVE FALSE
    OBVIOUS
  <2> HIDE DEF Step, n
  <2>1. Bad \in SUBSET Nat
    BY <1>a
  <2>2. PICK m \in Bad : \A k \in Bad : m <= k
    BY <2>1, MinFacts
  <2>3. m \in 0..n /\ ~\E f : Walk(f, m)
    OBVIOUS
  <2>4. CASE m = 0
    <3>1. Walk([i \in 0..0 |-> c], 0)
      OBVIOUS
    <3> QED
      BY <2>3, <2>4, <3>1
  <2>5. CASE m > 0
    <3> HIDE DEF Bad
    <3>a. m - 1 \in 0..n /\ ~(m <= m - 1)
      BY <1>a, <2>3, <2>5
    <3>b. m - 1 \notin Bad
      BY <2>2, <3>a
    <3>1. \E f : Walk(f, m - 1)
      BY <3>a, <3>b DEF Bad
    <3>2. PICK g : Walk(g, m - 1)
      BY <3>1, Zenon
    <3> DEFINE h == [i \in 0..m |-> IF i < m THEN g[i] ELSE Step(g[i - 1], i)]
    <3>3. ASSUME NEW i \in 0..m
          PROVE  h[i] = IF i = 0 THEN c ELSE Step(h[i - 1], i)
      <4>1. CASE i = m
        <5>1. m - 1 \in 0..m /\ m - 1 < m /\ m # 0
          BY <2>3, <2>5
        <5>2. h[m - 1] = g[m - 1]
          BY <5>1
        <5>3. h[m] = Step(g[m - 1], m)
          BY <4>1
        <5> QED
          BY <4>1, <5>1, <5>2, <5>3
      <4>2. CASE i # m /\ i # 0
        <5>1. i \in 0..m - 1 /\ i - 1 \in 0..m /\ i - 1 < m /\ i < m
          BY <2>3, <4>2
        <5>2. h[i] = g[i] /\ h[i - 1] = g[i - 1]
          BY <5>1
        <5>3. g[i] = Step(g[i - 1], i)
          BY <3>2, <4>2, <5>1
        <5> QED
          BY <4>2, <5>2, <5>3
      <4>3. CASE i # m /\ i = 0
        <5>1. h[0] = g[0] /\ 0 \in 0..m - 1
          BY <2>3, <4>3, <2>5
        <5>2. g[0] = c
          BY <3>2, <5>1
        <5> QED
          BY <4>3, <5>1, <5>2
      <4> QED
        BY <4>1, <4>2, <4>3
    <3>4. h = [i \in 0..m |-> h[i]]
      OBVIOUS
    <3> HIDE DEF h
    <3>5. Walk(h, m)
      BY <3>3, <3>4
    <3> QED
      BY <2>3, <3>5
  <2> QED
    BY <2>3, <2>4, <2>5
<1>2. \E f : Walk(f, n)
  <2>1. n \in 0..n
    BY <1>a
  <2> HIDE DEF n, Step
  <2> QED
    BY <1>1, <2>1
<1>3. \E f : Walk(f, n) /\ RemoveAll(c, code) = f[n]
  BY <1>2 DEF RemoveAll
<1> QED
  BY <1>3

\* All calls end.
LEMMA RemovedAll ==
  ASSUME NEW c, server \in ServerRecord, NEW code, Falling(c, code)
  PROVE  LET d == RemoveAll(c, code)
         IN  /\ Falling(d, code) /\ SameNotes(c, d) /\ SameBase(c, d)
             /\ \A x \in Calls(d) :
                  /\ x.kind = "create" /\ Pending(c, "activate")
                  /\ code # "BadSecureChannelClosed" /\ d.session = "CREATE_REQUESTED"
             /\ ~Pending(c, "activate") \/ code = "BadSecureChannelClosed" =>
                  d.out = c.out /\ d.session \in {c.session, "CLOSED"}
<1> DEFINE n == Len(c.calls)
           Quiet == ~Pending(c, "activate") \/ code = "BadSecureChannelClosed"
           Rest(i) == {c.calls[j] : j \in i + 1..n}
           Good(i, d) ==
             /\ Falling(d, code) /\ SameNotes(c, d) /\ SameBase(c, d)
             /\ Rest(i) \subseteq Calls(d)
             /\ \A x \in Calls(d) \ Rest(i) :
                  /\ x.kind = "create" /\ Pending(c, "activate")
                  /\ code # "BadSecureChannelClosed" /\ d.session = "CREATE_REQUESTED"
             /\ Quiet => d.out = c.out /\ d.session \in {c.session, "CLOSED"}
<1>1. c.calls \in Seq(Call) /\ IsInjective(c.calls)
  BY DEF Falling, Core, ClientRecord, Listed
<1>2. /\ n \in Nat /\ Calls(c) = {c.calls[j] : j \in 1..n}
      /\ \A i, j \in 1..n : c.calls[i] = c.calls[j] => i = j
  BY <1>1, LenProperties, ToSetFacts DEF Calls, ToSet
<1>3. PICK f : /\ f = [i \in 0..n |->
                         IF i = 0 THEN c
                         ELSE Cancelled([f[i - 1] EXCEPT !.calls = Without(@, c.calls[i])],
                                        c.calls[i].kind, code)]
               /\ RemoveAll(c, code) = f[n]
  BY <1>1, RemoveAllWalk
<1> HIDE DEF n
<1>4. Good(0, f[0])
  <2>1. f[0] = c
    BY <1>2, <1>3
  <2>2. SameNotes(c, c) /\ SameBase(c, c)
    BY DEF SameNotes, SameBase
  <2>3. Rest(0) = Calls(c)
    BY <1>2
  <2> QED
    BY <2>1, <2>2, <2>3
<1>5. ASSUME NEW i \in 1..n, Good(i - 1, f[i - 1])
      PROVE  Good(i, f[i])
  <2> DEFINE d == f[i - 1]
             y == c.calls[i]
             e == Cancelled([d EXCEPT !.calls = Without(@, y)], y.kind, code)
  <2>1. f[i] = e
    <3>1. i \in 0..n /\ i # 0
      BY <1>2
    <3> QED
      BY <1>3, <3>1
  <2>2. Rest(i) = Rest(i - 1) \ {y} /\ y \in Rest(i - 1)
    BY <1>2
  <2>3. Falling(d, code) /\ SameNotes(c, d) /\ SameBase(c, d) /\ y \in Calls(d)
    BY <1>5, <2>2
  <2> HIDE DEF d, y
  <2>4. /\ Falling(e, code) /\ SameNotes(d, e) /\ SameBase(d, e)
        /\ Calls(d) \ {y} \subseteq Calls(e) /\ y \notin Calls(e)
        /\ \A x \in Calls(e) \ Calls(d) :
             /\ x.kind = "create" /\ y.kind = "activate" /\ code # "BadSecureChannelClosed"
             /\ e.session = "CREATE_REQUESTED"
        /\ y.kind # "activate" \/ code = "BadSecureChannelClosed" =>
             e.out = d.out /\ e.session \in {d.session, "CLOSED"}
        /\ y.kind # "create" /\ d.session = "CREATE_REQUESTED" =>
             e.session = "CREATE_REQUESTED"
    BY <2>3, CancelledFalls
  <2> HIDE DEF e
  <2>5. SameNotes(c, e) /\ SameBase(c, e)
    BY <2>3, <2>4 DEF SameNotes, SameBase
  <2>6. y.kind = "activate" => Pending(c, "activate")
    BY <1>2 DEF Pending, y, Calls
  <2>7. Rest(i) \subseteq Calls(e)
    BY <1>5, <2>2, <2>4 DEF d
  <2>8. ASSUME NEW x \in Calls(e) \ Rest(i)
        PROVE  /\ x.kind = "create" /\ Pending(c, "activate")
               /\ code # "BadSecureChannelClosed" /\ e.session = "CREATE_REQUESTED"
    <3>1. CASE x \notin Calls(d)
      BY <2>4, <2>6, <3>1
    <3>2. CASE x \in Calls(d)
      <4>1. x # y
        BY <2>4
      <4>2. x \in Calls(d) \ Rest(i - 1)
        BY <2>2, <3>2, <4>1
      <4>3. /\ x.kind = "create" /\ Pending(c, "activate")
            /\ code # "BadSecureChannelClosed" /\ d.session = "CREATE_REQUESTED"
        BY <1>5, <4>2 DEF d
      <4>4. y.kind # "create"
        BY <2>3, <3>2, <4>1, <4>3 DEF Falling, Single
      <4> QED
        BY <2>4, <4>3, <4>4
    <3> QED
      BY <3>1, <3>2
  <2>9. Quiet => e.out = c.out /\ e.session \in {c.session, "CLOSED"}
    BY <1>5, <2>4, <2>6 DEF d
  <2> QED
    BY <2>1, <2>4, <2>5, <2>7, <2>8, <2>9
<1>6. \A i \in 0..n : Good(i, f[i])
  <2> DEFINE Bad == {i \in 0..n : ~Good(i, f[i])}
  <2> HIDE DEF Good
  <2> SUFFICES ASSUME Bad # {} PROVE FALSE
    OBVIOUS
  <2>1. Bad \in SUBSET Nat
    BY <1>2
  <2>2. PICK m \in Bad : \A k \in Bad : m <= k
    BY <2>1, MinFacts
  <2>3. m \in 1..n
    BY <1>2, <1>4, <2>2
  <2>4. m - 1 \in 0..n /\ ~(m <= m - 1)
    BY <1>2, <2>3
  <2>5. Good(m - 1, f[m - 1])
    BY <2>2, <2>4
  <2> QED
    BY <1>5, <2>2, <2>3, <2>5
<1>7. Good(n, f[n])
  BY <1>2, <1>6
<1>8. Rest(n) = {}
  BY <1>2
<1> QED
  BY <1>3, <1>7, <1>8

-----------------------------------------------------------------------------
(* Closing channels and sessions.                                            *)

\* The session states and their order.
LEMMA SessionStates ==
  /\ DOMAIN SessionRank = {"CLOSED", "CREATE_REQUESTED", "CREATED", "ACTIVATE_REQUESTED",
                           "ACTIVATED", "CLOSING"}
  /\ SessionRank["CLOSED"] = 0 /\ SessionRank["CREATE_REQUESTED"] = 1
  /\ SessionRank["CREATED"] = 2 /\ SessionRank["ACTIVATE_REQUESTED"] = 3
  /\ SessionRank["ACTIVATED"] = 4 /\ SessionRank["CLOSING"] = 5
BY DEF SessionRank

\* A channel that closes takes all calls with it.
LEMMA ChannelCloses ==
  ASSUME NEW c, Weak(c, server), ServerInv(server)
  PROVE  LET d == CloseSecureChannel(c)
         IN  /\ Weak(d, server) /\ SameNotes(c, d)
             /\ d.channel = "CLOSED" /\ d.calls = <<>> /\ d.in = <<>>
             /\ d.waiting = c.waiting /\ d.session \in {"CLOSED", "CREATED"}
<1> DEFINE clo == Request(0, "CLO", 0, {})
           code == "BadSecureChannelClosed"
           s == IF SessionRank[c.session] > SessionRank["CREATED"] THEN "CREATED" ELSE c.session
           out == IF c.lost THEN <<>>
                  ELSE IF c.channel = "OPEN" THEN Append(c.out, clo) ELSE c.out
           e == [c EXCEPT !.channel = "CLOSED", !.lost = FALSE, !.in = <<>>,
                          !.session = s, !.out = out]
           d == RemoveAll(e, code)
<1>1. /\ c \in ClientRecord /\ Listed(c) /\ server \in ServerRecord
      /\ SessionInv(c) /\ WireInv(c, server) /\ LinkInv(c, server) /\ NotesInv(c, server)
      /\ CountInv(c)
  BY DEF Weak, Core, ServerInv
<1>2. CloseSecureChannel(c) = d
  BY DEF CloseSecureChannel
<1>3. clo \in RequestMsg /\ clo.id = 0 /\ clo.kind = "CLO" /\ clo.acks = {}
  BY DEF Request, RequestMsg
<1> HIDE DEF clo
<1>4. /\ s \in {"CLOSED", "CREATE_REQUESTED", "CREATED"}
      /\ s \in {"CLOSED", "CREATE_REQUESTED"} => s = c.session
      /\ c.session = "CREATE_REQUESTED" => s = "CREATE_REQUESTED"
  <2>1. c.session \in DOMAIN SessionRank
    BY <1>1 DEF ClientRecord
  <2> QED
    BY <2>1, SessionStates
<1>5. /\ out \in Seq(RequestMsg) /\ IsInjective(out)
      /\ ToSet(out) \subseteq Out(c) \cup {clo}
      /\ c.channel # "OPEN" => ToSet(out) \subseteq Out(c)
      /\ ToSet(out) # {} => server.channel
      /\ CloLast(out)
  <2>1. c.out \in Seq(RequestMsg) /\ IsInjective(c.out) /\ c.lost \in BOOLEAN
    BY <1>1 DEF ClientRecord, Listed
  <2>2. <<>> \in Seq(RequestMsg) /\ ToSet(<<>>) = {} /\ IsInjective(<<>>)
    BY <1>3, SingleFacts
  <2>3. CASE c.lost
    BY <2>2, <2>3, NoClo
  <2>4. CASE ~c.lost /\ c.channel = "OPEN"
    <3>1. clo \notin Out(c)
      BY <1>1, <1>3, <2>4 DEF WireInv
    <3>2. /\ Append(c.out, clo) \in Seq(RequestMsg) /\ IsInjective(Append(c.out, clo))
          /\ ToSet(Append(c.out, clo)) = Out(c) \cup {clo}
      BY <1>3, <2>1, <3>1, AppendFacts DEF Out
    <3>3. server.channel
      BY <1>1, <2>4 DEF WireInv
    <3>4. CloLast(Append(c.out, clo))
      BY <1>1, <1>3, <2>1, <2>4, CloAppended DEF WireInv, Out
    <3> QED
      BY <2>4, <3>2, <3>3, <3>4
  <2>5. CASE ~c.lost /\ c.channel # "OPEN"
    <3>1. CloLast(c.out) /\ (ToSet(c.out) # {} => server.channel)
      BY <1>1, <2>2 DEF WireInv
    <3> QED
      BY <2>1, <2>5, <3>1 DEF Out
  <2> QED
    BY <2>1, <2>3, <2>4, <2>5
<1> HIDE DEF s, out
<1>6. /\ e \in ClientRecord /\ SameNotes(c, e)
      /\ e.channel = "CLOSED" /\ e.lost = FALSE /\ e.in = <<>> /\ e.session = s /\ e.out = out
      /\ e.calls = c.calls /\ e.waiting = c.waiting /\ e.acks = c.acks /\ e.limit = c.limit
      /\ e.outstanding = c.outstanding /\ e.checking = c.checking
  <2>1. <<>> \in Seq(ResponseMsg)
    BY EmptySeq
  <2>2. s \in DOMAIN SessionRank
    BY <1>4, SessionStates
  <2> QED
    BY <1>1, <1>5, <2>1, <2>2 DEF ClientRecord, SameNotes
<1> HIDE DEF e
<1>7. /\ Calls(e) = Calls(c) /\ Waits(e) = Waits(c) /\ In(e) = {} /\ Out(e) = ToSet(out)
      /\ \A kind : Pending(e, kind) <=> Pending(c, kind)
  <2>1. ToSet(<<>>) = {}
    BY <1>3, SingleFacts
  <2> QED
    BY <1>6, <2>1 DEF Calls, Waits, In, Out, Pending
<1>8. LinkInv(e, server)
  <2>1. Link(Calls(c), Waits(c), In(c), Out(c), Parked(server))
    BY <1>1 DEF LinkInv
  <2>2. 0 \notin Parked(server)
    <3>1. server.parked \in Seq(PosNat)
      BY <1>1 DEF ServerRecord
    <3>2. Parked(server) \subseteq PosNat
      BY <3>1, ToSetFacts DEF Parked
    <3> QED
      BY <3>2 DEF PosNat
  <2>3. \A x \in Calls(c) \cup Waits(c) : x.id # 0
    <3>1. c.calls \in Seq(Call) /\ c.waiting \in Seq(Waiting)
      BY <1>1 DEF ClientRecord
    <3>2. Calls(c) \subseteq Call /\ Waits(c) \subseteq Waiting
      BY <3>1, ToSetFacts DEF Calls, Waits
    <3> QED
      BY <3>2 DEF Call, Waiting, PosNat
  <2>4. Unique(ToSet(out))
    <3>1. Unique(Out(c))
      BY <2>1 DEF Link
    <3>2. c.channel = "OPEN" => \A r \in Out(c) : r.id # 0
      BY <1>1 DEF WireInv
    <3> QED
      BY <1>3, <1>5, <3>1, <3>2 DEF Unique
  <2>5. Unique({})
    BY DEF Unique
  <2>6. \A r \in ToSet(out) : r \in Out(c) \/ r.id = 0
    BY <1>3, <1>5
  <2>7. Link(Calls(c), Waits(c), {}, ToSet(out), Parked(server))
    BY <2>1, <2>2, <2>3, <2>4, <2>5, <2>6 DEF Link
  <2> QED
    BY <1>7, <2>7 DEF LinkInv
<1>9. WireInv(e, server)
  <2>1. ~server.channel => e.out = <<>>
    BY <1>5, <1>6, ToSetFacts
  <2>2. \A r \in Out(e) : r \in Out(c) \/ r = clo
    BY <1>5, <1>7
  <2> QED
    BY <1>1, <1>3, <1>5, <1>6, <2>1, <2>2 DEF WireInv
<1>10. NotesInv(e, server)
  <2>1. \A r \in Out(e) : r.acks \subseteq c.got
    BY <1>1, <1>3, <1>5, <1>7 DEF NotesInv
  <2>2. InOrder(e.in)
    BY <1>6 DEF InOrder
  <2> QED
    BY <1>1, <1>6, <1>7, <2>1, <2>2 DEF NotesInv, SameNotes
<1>11. Core(e, server)
  <2>1. IsInjective(e.in)
    BY <1>3, <1>6, SingleFacts
  <2>2. Listed(e)
    BY <1>1, <1>5, <1>6, <2>1 DEF Listed
  <2> QED
    BY <1>6, <1>8, <1>9, <1>10, <2>2 DEF Core
<1>12. Falling(e, code)
  <2>1. CountInv(e)
    BY <1>1, <1>6, <1>7 DEF CountInv
  <2>2. Single(Calls(e))
    BY <1>1, <1>7 DEF SessionInv
  <2>3. Pending(c, "create") => c.session = "CREATE_REQUESTED"
    BY <1>1 DEF SessionInv, Pending, Belongs, Calls
  <2>4. e.subs = c.subs
    BY <1>6 DEF SameNotes
  <2> QED
    BY <1>1, <1>4, <1>6, <1>7, <1>11, <2>1, <2>2, <2>3, <2>4 DEF Falling, SessionInv
<1>13. /\ Falling(d, code) /\ SameNotes(e, d) /\ SameBase(e, d)
       /\ Calls(d) = {} /\ d.out = e.out /\ d.session \in {e.session, "CLOSED"}
  BY <1>1, <1>12, RemovedAll
<1> HIDE DEF d
<1>14. d.calls = <<>> /\ Core(d, server) /\ d \in ClientRecord
  <2>1. d \in ClientRecord
    BY <1>13 DEF Falling, Core
  <2>2. d.calls \in Seq(Call)
    BY <2>1 DEF ClientRecord
  <2> QED
    BY <1>13, <2>1, <2>2, ToSetFacts DEF Calls, Falling
<1>15. \A kind : ~Pending(d, kind)
  BY <1>13 DEF Pending, Calls
<1>16. d.session \in {"CLOSED", "CREATED"}
  BY <1>4, <1>6, <1>13, <1>15 DEF Falling
<1>17. SessionInv(d)
  BY <1>6, <1>13, <1>14, <1>15, <1>16 DEF Falling, SessionInv, SameBase, Single
<1>18. Weak(d, server)
  BY <1>13, <1>14, <1>17 DEF Weak, Falling
<1> QED
  BY <1>2, <1>6, <1>13, <1>14, <1>16, <1>18 DEF SameNotes, SameBase

\* A session that is closed takes all calls with it; if a session was being
\* activated, a new one is asked for.
LEMMA SessionCloses ==
  ASSUME NEW c, Weak(c, server), ServerInv(server)
  PROVE  LET d == SessionClosed(c)
         IN  /\ Weak(d, server)
             /\ d.channel = c.channel /\ d.waiting = c.waiting /\ d.lost = c.lost /\ d.in = c.in
             /\ c.channel = "OPEN" /\ ~Pending(c, "activate") =>
                  d.calls = <<>> /\ d.out = c.out /\ d.session = "CLOSED"
<1> DEFINE code == "BadSessionClosed"
           e == [c EXCEPT !.session = "CLOSED", !.subs = NoSubs, !.acks = {}]
           a == RemoveAll(e, code)
           d == [a EXCEPT !.outstanding = 0]
<1>1. /\ c \in ClientRecord /\ Listed(c) /\ server \in ServerRecord
      /\ SessionInv(c) /\ WireInv(c, server) /\ LinkInv(c, server) /\ NotesInv(c, server)
      /\ CountInv(c)
  BY DEF Weak, Core, ServerInv
<1>2. SessionClosed(c) = d
  BY DEF SessionClosed
<1>3. NoSubs \in Numbers /\ DOMAIN NoSubs = {}
  <2>1. NoSubs \in [{} -> Nat] /\ {} \in SUBSET Sub
    BY DEF NoSubs
  <2> QED
    BY <2>1 DEF Numbers
<1> HIDE DEF code
<1>4. /\ e \in ClientRecord /\ SameWire(c, e)
      /\ e.session = "CLOSED" /\ e.subs = NoSubs /\ e.acks = {}
      /\ e.got = c.got /\ e.missed = c.missed /\ e.limit = c.limit
      /\ e.outstanding = c.outstanding /\ e.checking = c.checking
  BY <1>1, <1>3, SessionStates DEF ClientRecord, SameWire
<1> HIDE DEF e
<1>5. /\ Calls(e) = Calls(c) /\ Waits(e) = Waits(c) /\ In(e) = In(c) /\ Out(e) = Out(c)
      /\ \A kind : Pending(e, kind) <=> Pending(c, kind)
  BY <1>4 DEF SameWire, Calls, Waits, In, Out, Pending
<1>6. NotesInv(e, server)
  <2>1. \A m \in In(e) : Coming(m, e.subs, e.got, e.missed, server)
    BY <1>1, <1>3, <1>4, <1>5 DEF NotesInv, Coming
  <2>2. Noted(e.subs, e.got, e.missed, server)
    BY <1>1, <1>3, <1>4 DEF NotesInv, Noted
  <2>3. InOrder(e.in)
    BY <1>1, <1>4 DEF NotesInv, SameWire
  <2> QED
    BY <1>1, <1>4, <1>5, <2>1, <2>2, <2>3 DEF NotesInv
<1>7. Core(e, server)
  <2>1. Listed(e)
    BY <1>1, <1>4 DEF Listed, SameWire
  <2>2. LinkInv(e, server)
    BY <1>1, <1>5 DEF LinkInv
  <2>3. WireInv(e, server)
    BY <1>1, <1>4, <1>5 DEF WireInv, SameWire
  <2> QED
    BY <1>4, <1>6, <2>1, <2>2, <2>3 DEF Core
<1>8. CountInv(e)
  BY <1>1, <1>4, <1>5 DEF CountInv
<1>9. /\ Core(a, server) /\ a \in ClientRecord /\ CountInv(a)
      /\ a.subs = NoSubs /\ a.acks = {}
      /\ a.channel = c.channel /\ a.waiting = c.waiting /\ a.lost = c.lost /\ a.in = c.in
      /\ a.limit = c.limit
      /\ Single(Calls(a)) /\ a.session \in {"CLOSED", "CREATE_REQUESTED"}
      /\ a.session = "CREATE_REQUESTED" => Pending(a, "create")
      /\ a.checking <=> Pending(a, "check")
      /\ \A x \in Calls(a) : x.kind = "create" /\ Pending(c, "activate")
                             /\ a.session = "CREATE_REQUESTED"
      /\ c.channel # "OPEN" => a.calls = <<>> /\ a.session = "CLOSED"
      /\ ~Pending(c, "activate") => a.out = c.out /\ a.session = "CLOSED"
  <2>1. CASE c.channel = "OPEN"
    <3>1. Pending(c, "create") => ~Pending(c, "activate")
      BY <1>1 DEF SessionInv, Pending, Belongs, Calls
    <3>2. Falling(e, code)
      <4>1. e.channel = "OPEN" /\ code # "BadSecureChannelClosed"
        BY <1>4, <2>1 DEF SameWire, code
      <4>2. Single(Calls(e)) /\ (e.checking <=> Pending(e, "check"))
        BY <1>1, <1>4, <1>5 DEF SessionInv
      <4> QED
        BY <1>4, <1>5, <1>7, <1>8, <3>1, <4>1, <4>2 DEF Falling
    <3>3. /\ Falling(a, code) /\ SameNotes(e, a) /\ SameBase(e, a)
          /\ \A x \in Calls(a) :
               /\ x.kind = "create" /\ Pending(e, "activate")
               /\ code # "BadSecureChannelClosed" /\ a.session = "CREATE_REQUESTED"
          /\ ~Pending(e, "activate") => a.out = e.out /\ a.session \in {e.session, "CLOSED"}
      BY <1>1, <3>2, RemovedAll
    <3> HIDE DEF a
    <3>4. code # "BadSecureChannelClosed"
      BY DEF code
    <3>5. a.session \in {"CLOSED", "CREATE_REQUESTED"}
      BY <3>3, <3>4 DEF Falling
    <3>6. Core(a, server) /\ a \in ClientRecord
      BY <3>3 DEF Falling, Core
    <3>7. /\ CountInv(a) /\ Single(Calls(a))
          /\ a.session = "CREATE_REQUESTED" => Pending(a, "create")
          /\ a.checking <=> Pending(a, "check")
      BY <3>3 DEF Falling
    <3>8. /\ a.subs = NoSubs /\ a.acks = {}
          /\ a.channel = c.channel /\ a.waiting = c.waiting /\ a.lost = c.lost /\ a.in = c.in
          /\ a.limit = c.limit
      BY <1>4, <3>3 DEF SameNotes, SameBase, SameWire
    <3>9. ~Pending(c, "activate") => a.out = c.out /\ a.session = "CLOSED"
      BY <1>4, <1>5, <3>3 DEF SameWire
    <3> QED
      BY <1>5, <2>1, <3>3, <3>5, <3>6, <3>7, <3>8, <3>9
  <2>2. CASE c.channel # "OPEN"
    <3>1. e.calls = <<>>
      BY <1>1, <1>4, <2>2 DEF SessionInv, SameWire
    <3>2. e.calls \in Seq(Call)
      BY <1>4 DEF ClientRecord
    <3>3. a = e
      <4>1. PICK f : /\ f = [i \in 0..Len(e.calls) |->
                               IF i = 0 THEN e
                               ELSE Cancelled([f[i - 1] EXCEPT !.calls = Without(@, e.calls[i])],
                                              e.calls[i].kind, code)]
                     /\ RemoveAll(e, code) = f[Len(e.calls)]
        BY <3>2, RemoveAllWalk
      <4>2. Len(e.calls) = 0 /\ 0 \in 0..0
        BY <3>1, EmptySeq
      <4> QED
        BY <4>1, <4>2
    <3>4. Calls(e) = {}
      BY <3>1, <3>2, ToSetFacts DEF Calls
    <3>5. \A kind : ~Pending(e, kind)
      BY <3>4 DEF Pending, Calls
    <3>6. e.checking <=> Pending(e, "check")
      BY <1>1, <1>4, <1>5 DEF SessionInv
    <3>7. Single(Calls(e))
      BY <3>4 DEF Single
    <3> HIDE DEF a
    <3> QED
      BY <1>4, <1>7, <1>8, <2>2, <3>1, <3>3, <3>4, <3>5, <3>6, <3>7 DEF SameWire
  <2> QED
    BY <2>1, <2>2
<1> HIDE DEF a
<1>10. /\ d \in ClientRecord /\ SameWire(a, d) /\ SameNotes(a, d) /\ d.acks = a.acks
       /\ d.session = a.session /\ d.outstanding = 0 /\ d.limit = a.limit
       /\ d.checking = a.checking
  <2>1. a \in ClientRecord /\ 0 \in Int
    BY <1>9
  <2> QED
    BY <2>1 DEF ClientRecord, SameWire, SameNotes
<1> HIDE DEF d
<1>11. Calls(d) = Calls(a) /\ \A kind : Pending(d, kind) <=> Pending(a, kind)
  BY <1>10 DEF Calls, Pending, SameWire
<1>12. Core(d, server)
  BY <1>9, <1>10, CoreFrame
<1>13. SessionInv(d)
  <2>1. \A x \in Calls(d) : Belongs(x.kind, d.session)
    BY <1>9, <1>10, <1>11 DEF Belongs
  <2>2. d.channel # "OPEN" =>
          d.calls = <<>> /\ d.in = <<>> /\ ~d.lost /\ d.session \in {"CLOSED", "CREATED"}
    BY <1>1, <1>9, <1>10 DEF SessionInv, SameWire
  <2>3. d.channel = "OPENING" => d.waiting = <<>>
    BY <1>1, <1>9, <1>10 DEF SessionInv, SameWire
  <2>4. d.subs = NoSubs /\ d.acks = {}
    BY <1>9, <1>10 DEF SameNotes
  <2> QED
    BY <1>9, <1>10, <1>11, <2>1, <2>2, <2>3, <2>4 DEF SessionInv
<1>14. CountInv(d)
  <2>1. Published(Calls(d)) = {}
    BY <1>9, <1>11 DEF Published
  <2>2. Cardinality({}) = 0
    BY FS_EmptySet
  <2>3. d.limit \in Nat
    BY <1>10, CountTypes
  <2>4. Wanted <= d.limit \/ MaxParked <= d.limit
    BY <1>9, <1>10 DEF CountInv
  <2> QED
    BY <1>10, <2>1, <2>2, <2>3, <2>4 DEF CountInv
<1>15. c.channel = "OPEN" /\ ~Pending(c, "activate") =>
         d.calls = <<>> /\ d.out = c.out /\ d.session = "CLOSED"
  <2>1. d.calls \in Seq(Call)
    BY <1>10 DEF ClientRecord
  <2>2. ~Pending(c, "activate") => Calls(d) = {}
    BY <1>9, <1>11
  <2> QED
    BY <1>9, <1>10, <2>1, <2>2, ToSetFacts DEF Calls, SameWire
<1> QED
  BY <1>2, <1>9, <1>10, <1>12, <1>13, <1>14, <1>15 DEF Weak, SameWire

\* A client without channel fulfils the invariant.
Idle(c) == Weak(c, server) /\ c.channel = "CLOSED"

\* A client that is disconnected has no channel.
LEMMA Disconnects ==
  ASSUME NEW c, Weak(c, server), ServerInv(server)
  PROVE  LET d == Disconnected(c)
         IN  Idle(d) /\ d.waiting = c.waiting
<1> DEFINE e == SessionClosed(c)
<1>1. Weak(e, server) /\ e.waiting = c.waiting
  BY SessionCloses
<1> HIDE DEF e
<1>2. LET d == CloseSecureChannel(e)
      IN  Weak(d, server) /\ d.channel = "CLOSED" /\ d.waiting = e.waiting
  BY <1>1, ChannelCloses
<1> QED
  BY <1>1, <1>2 DEF Disconnected, Idle, e

\* A synchronous service returns when its channel has closed.
LEMMA Unwinds ==
  ASSUME NEW c, Fine(c, server), c.channel # "OPENING", ServerInv(server)
  PROVE  LET d == Unwound(c)
         IN  Fine(d, server) /\ (d.channel # "OPEN" => d.waiting = <<>>)
<1>1. c \in ClientRecord
  BY DEF Fine, Weak, Core
<1>2. CASE c.channel # "CLOSED" \/ c.waiting = <<>>
  <2>1. Unwound(c) = c
    BY <1>2 DEF Unwound
  <2>2. c.channel \in {"CLOSED", "OPENING", "OPEN"}
    BY <1>1 DEF ClientRecord
  <2> QED
    BY <1>2, <2>1, <2>2
<1>3. CASE c.channel = "CLOSED" /\ c.waiting # <<>>
  <2> DEFINE d == [c EXCEPT !.waiting = <<>>]
  <2>1. /\ d \in ClientRecord /\ d.waiting = <<>> /\ SameNotes(c, d)
        /\ d.channel = c.channel /\ d.calls = c.calls /\ d.lost = c.lost /\ d.in = c.in
        /\ d.out = c.out /\ d.session = c.session /\ d.acks = c.acks /\ d.limit = c.limit
        /\ d.outstanding = c.outstanding /\ d.checking = c.checking
    <3>1. <<>> \in Seq(Waiting)
      BY EmptySeq
    <3> QED
      BY <1>1, <3>1 DEF ClientRecord, SameNotes
  <2>2. Unwound(c) = IF \E i \in DOMAIN c.waiting : c.waiting[i].op = "CloseSession"
                     THEN Disconnected(d) ELSE d
    BY <1>3 DEF Unwound
  <2> HIDE DEF d
  <2>3. Calls(d) = Calls(c) /\ In(d) = In(c) /\ Out(d) = Out(c) /\ Waits(d) = {}
        /\ (\A kind : Pending(d, kind) <=> Pending(c, kind)) /\ IsInjective(d.waiting)
    <3>1. ToSet(<<>>) = {} /\ IsInjective(<<>>)
      BY SingleFacts
    <3> QED
      BY <2>1, <3>1 DEF Calls, In, Out, Waits, Pending
  <2>4. LinkInv(d, server)
    <3>1. Link(Calls(c), Waits(c), In(c), Out(c), Parked(server)) /\ {} \in SUBSET Waits(c)
      BY DEF Fine, Weak, Core, LinkInv
    <3>2. Link(Calls(c), {}, In(c), Out(c), Parked(server))
      BY <3>1, LinkLess
    <3> QED
      BY <2>3, <3>2 DEF LinkInv
  <2>5. Listed(d)
    BY <2>1, <2>3 DEF Fine, Weak, Core, Listed
  <2>6. WireInv(d, server)
    BY <2>1, <2>3 DEF Fine, Weak, Core, WireInv
  <2>7. NotesInv(d, server)
    BY <2>1, <2>3 DEF Fine, Weak, Core, NotesInv, SameNotes
  <2>8. CountInv(d)
    BY <2>1, <2>3 DEF Fine, Weak, CountInv
  <2>9. SessionInv(d)
    <3>1. SessionInv(c)
      BY DEF Fine, Weak
    <3> QED
      BY <2>1, <2>3, <3>1 DEF SessionInv, SameNotes
  <2>10. Weak(d, server)
    BY <2>1, <2>4, <2>5, <2>6, <2>7, <2>8, <2>9 DEF Weak, Core
  <2>11. Weak(Disconnected(d), server) /\ Disconnected(d).channel = "CLOSED"
         /\ Disconnected(d).waiting = <<>>
    BY <2>1, <2>10, Disconnects DEF Idle
  <2> QED
    BY <1>3, <2>1, <2>2, <2>10, <2>11 DEF Fine
<1> QED
  BY <1>2, <1>3

-----------------------------------------------------------------------------
(* Steps of the client.                                                      *)

\* While no channel is open nothing else is asked for.
LEMMA IdleFine ==
  ASSUME NEW c, Idle(c)
  PROVE  Fine(c, server) /\ c.channel # "OPENING"
BY DEF Idle, Fine

\* What a channel that closes leaves is idle.
LEMMA ChannelIdle ==
  ASSUME NEW c, Weak(c, server), ServerInv(server)
  PROVE  Idle(CloseSecureChannel(c)) /\ CloseSecureChannel(c).waiting = c.waiting
BY ChannelCloses DEF Idle

\* Other settings of an idle client.
LEMMA IdleFrame ==
  ASSUME NEW c, Idle(c), NEW d \in ClientRecord, SameWire(c, d), SameNotes(c, d),
         d.acks = c.acks, d.session = c.session, d.outstanding = c.outstanding,
         d.limit = c.limit, d.checking = c.checking
  PROVE  Idle(d)
<1>1. Core(c, server) /\ SessionInv(c) /\ CountInv(c)
  BY DEF Idle, Weak
<1>2. c.acks \subseteq c.got
  BY <1>1 DEF Core, NotesInv
<1>3. Core(d, server)
  BY <1>1, <1>2, CoreFrame
<1>4. Calls(d) = Calls(c) /\ \A kind : Pending(d, kind) <=> Pending(c, kind)
  BY DEF SameWire, Calls, Pending
<1>5. SessionInv(d)
  BY <1>1, <1>4 DEF SessionInv, SameWire, SameNotes
<1>6. CountInv(d)
  BY <1>1, <1>4 DEF CountInv
<1> QED
  BY <1>3, <1>5, <1>6 DEF Idle, Weak, SameWire

\* An open channel and other settings.
LEMMA FineFrame ==
  ASSUME NEW c, Fine(c, server), NEW d \in ClientRecord, SameWire(c, d), SameNotes(c, d),
         d.acks = c.acks, d.session = c.session, d.outstanding = c.outstanding,
         d.limit = c.limit, d.checking = c.checking
  PROVE  Fine(d, server)
<1>1. Core(c, server) /\ SessionInv(c) /\ CountInv(c)
  BY DEF Fine, Weak
<1>2. c.acks \subseteq c.got
  BY <1>1 DEF Core, NotesInv
<1>3. Core(d, server)
  BY <1>1, <1>2, CoreFrame
<1>4. Calls(d) = Calls(c) /\ \A kind : Pending(d, kind) <=> Pending(c, kind)
  BY DEF SameWire, Calls, Pending
<1>5. SessionInv(d)
  BY <1>1, <1>4 DEF SessionInv, SameWire, SameNotes
<1>6. CountInv(d)
  BY <1>1, <1>4 DEF CountInv
<1>7. c.channel = "OPEN" => OpenPart(d, server)
  BY OpenFrame DEF Fine
<1> QED
  BY <1>3, <1>5, <1>6, <1>7 DEF Fine, Weak, SameWire

\* An asynchronous service other than publish; d is the client that waits for it
\* in session state state.
LEMMA Asks ==
  ASSUME NEW c, Fine(c, server), ServerInv(server), c.channel = "OPEN",
         NEW kind \in Kinds \ {"publish"}, NEW state \in DOMAIN SessionRank,
         Belongs(kind, state), \A x \in Calls(c) : Belongs(x.kind, state),
         kind \in {"create", "activate", "check"} => ~Pending(c, kind),
         state = c.session \/ c.session \notin {"ACTIVATED", "CLOSING"},
         state = "CREATE_REQUESTED" => kind = "create" \/ Pending(c, "create"),
         state \in {"CLOSED", "CREATE_REQUESTED"} => c.subs = NoSubs /\ c.acks = {},
         NEW d \in ClientRecord, SameWire(AsyncService(c, kind, {}), d),
         SameNotes(c, d), d.acks = c.acks, d.session = state, d.outstanding = c.outstanding,
         d.limit = c.limit, d.checking <=> (kind = "check" \/ c.checking)
  PROVE  Fine(d, server)
<1> DEFINE a == AsyncService(c, kind, {})
           x == [id |-> FreshId(c), kind |-> kind]
<1>1. /\ Core(c, server) /\ SessionInv(c) /\ CountInv(c) /\ OpenPart(c, server)
      /\ c \in ClientRecord /\ Listed(c) /\ server \in ServerRecord
      /\ c.acks \subseteq c.got
  BY DEF Fine, Weak, Core, ServerInv, NotesInv
<1>2. /\ a \in ClientRecord /\ x \notin Calls(c) /\ Calls(a) = Calls(c) \cup {x}
      /\ SameNotes(c, a) /\ a.channel = c.channel /\ a.waiting = c.waiting
      /\ a.session = c.session
  <2>1. {} \in SUBSET Note
    OBVIOUS
  <2> QED
    BY <1>1, <2>1, AsyncFields
<1>3. Core(a, server) /\ OpenPart(a, server)
  <2>1. {} \in SUBSET c.got
    OBVIOUS
  <2> QED
    BY <1>1, <2>1, Called
<1>4. x.kind = kind
  OBVIOUS
<1> HIDE DEF a, x
<1>5. SameWire(a, d) /\ SameNotes(a, d)
  BY <1>2 DEF SameNotes, a
<1>6. Core(d, server)
  BY <1>1, <1>2, <1>3, <1>5, CoreFrame DEF SameNotes
<1>7. OpenPart(d, server)
  BY <1>2, <1>3, <1>5, OpenFrame
<1>8. Calls(d) = Calls(c) \cup {x} /\ d.channel = "OPEN" /\ d.waiting = c.waiting
  BY <1>2, <1>5 DEF Calls, SameWire
<1>9. \A k : Pending(d, k) <=> Pending(c, k) \/ k = kind
  BY <1>4, <1>8 DEF Pending, Calls
<1>10. SessionInv(d)
  <2>1. Single(Calls(d))
    BY <1>1, <1>4, <1>8 DEF SessionInv, Single, Pending, Calls
  <2>2. \A y \in Calls(d) : Belongs(y.kind, d.session)
    BY <1>4, <1>8
  <2>3. d.session = "CREATE_REQUESTED" => Pending(d, "create")
    BY <1>9
  <2>4. d.checking <=> Pending(d, "check")
    BY <1>1, <1>9 DEF SessionInv
  <2>5. d.subs = c.subs
    BY DEF SameNotes
  <2> QED
    BY <1>8, <2>1, <2>2, <2>3, <2>4, <2>5 DEF SessionInv
<1>11. CountInv(d)
  <2>1. Published(Calls(d)) = Published(Calls(c))
    BY <1>4, <1>8 DEF Published
  <2> QED
    BY <1>1, <2>1 DEF CountInv
<1> QED
  BY <1>6, <1>7, <1>10, <1>11 DEF Fine, Weak

\* The client has no calls of kinds that do not belong to its session.
LEMMA NotPending ==
  ASSUME NEW c, SessionInv(c), NEW kind \in Kinds, ~Belongs(kind, c.session)
  PROVE  ~Pending(c, kind) /\ \A x \in Calls(c) : x.kind # kind
BY DEF SessionInv, Pending, Calls

\* A call sent while connecting.
LEMMA RequestGoes ==
  ASSUME NEW c, Fine(c, server), ServerInv(server), c.channel = "OPEN",
         NEW kind \in {"find", "endpoints", "create", "activate"}, NEW state,
         \/ kind \in {"find", "endpoints"} /\ state = c.session
         \/ kind = "create" /\ c.session = "CLOSED" /\ state = "CREATE_REQUESTED"
         \/ kind = "activate" /\ c.session = "CREATED" /\ state = "ACTIVATE_REQUESTED",
         NEW d \in RequestSent(c, kind, state)
  PROVE  Fine(d, server) /\ d.channel # "OPENING" /\ (d.channel = "OPEN" \/ d.waiting = c.waiting)
<1>1. /\ Core(c, server) /\ SessionInv(c) /\ CountInv(c) /\ Weak(c, server)
      /\ c \in ClientRecord /\ Listed(c) /\ server \in ServerRecord
  BY DEF Fine, Weak, Core, ServerInv
<1>2. c.session \in DOMAIN SessionRank
  BY <1>1 DEF ClientRecord
<1>3. state \in DOMAIN SessionRank
  BY <1>2, SessionStates
<1>4. CASE d = [AsyncService(c, kind, {}) EXCEPT !.session = state]
  <2> DEFINE a == AsyncService(c, kind, {})
  <2>1. /\ a \in ClientRecord /\ SameNotes(c, a) /\ a.channel = c.channel
        /\ a.acks = c.acks /\ a.outstanding = c.outstanding /\ a.limit = c.limit
        /\ a.checking = c.checking
    <3>1. {} \in SUBSET Note /\ kind \in Kinds
      BY DEF Kinds
    <3> QED
      BY <1>1, <3>1, AsyncFields
  <2> HIDE DEF a
  <2>2. /\ d \in ClientRecord /\ SameWire(a, d) /\ SameNotes(a, d)
        /\ d.acks = a.acks /\ d.session = state /\ d.outstanding = a.outstanding
        /\ d.limit = a.limit /\ d.checking = a.checking
    BY <1>3, <1>4, <2>1 DEF ClientRecord, SameWire, SameNotes, a
  <2>3. /\ SameNotes(c, d) /\ d.acks = c.acks /\ d.outstanding = c.outstanding
        /\ d.limit = c.limit /\ (d.checking <=> (kind = "check" \/ c.checking))
        /\ d.channel = "OPEN"
    BY <2>1, <2>2 DEF SameNotes, SameWire
  <2>4. kind \in Kinds \ {"publish"} /\ Belongs(kind, state)
    BY DEF Kinds, Belongs
  <2>5. \A x \in Calls(c) : Belongs(x.kind, state)
    BY <1>1 DEF SessionInv, Belongs
  <2>6. kind \in {"create", "activate", "check"} => ~Pending(c, kind)
    BY <1>1, NotPending DEF Belongs, Kinds
  <2>7. state = c.session \/ c.session \notin {"ACTIVATED", "CLOSING"}
    OBVIOUS
  <2>8. state = "CREATE_REQUESTED" => kind = "create" \/ Pending(c, "create")
    BY <1>1 DEF SessionInv
  <2>9. state \in {"CLOSED", "CREATE_REQUESTED"} => c.subs = NoSubs /\ c.acks = {}
    BY <1>1 DEF SessionInv
  <2>10. Fine(d, server)
    BY <1>3, <2>2, <2>3, <2>4, <2>5, <2>6, <2>7, <2>8, <2>9, Asks DEF a
  <2> QED
    BY <2>3, <2>10
<1>5. CASE d = [CloseSecureChannel(c) EXCEPT !.status = "bad"]
  <2> DEFINE e == CloseSecureChannel(c)
  <2>1. Idle(e) /\ e.waiting = c.waiting
    BY <1>1, ChannelIdle
  <2> HIDE DEF e
  <2>2. e \in ClientRecord
    BY <2>1 DEF Idle, Weak, Core
  <2>3. /\ d \in ClientRecord /\ SameWire(e, d) /\ SameNotes(e, d)
        /\ d.acks = e.acks /\ d.session = e.session /\ d.outstanding = e.outstanding
        /\ d.limit = e.limit /\ d.checking = e.checking
    BY <1>5, <2>2 DEF ClientRecord, SameWire, SameNotes, e
  <2>4. Idle(d) /\ d.waiting = c.waiting
    BY <2>1, <2>3, IdleFrame DEF SameWire
  <2> QED
    BY <2>4, IdleFine
<1> QED
  BY <1>4, <1>5 DEF RequestSent

\* The background connectivity check.
LEMMA Checks ==
  ASSUME NEW c, Fine(c, server), c.channel # "OPENING", ServerInv(server), NEW d \in Checked(c)
  PROVE  Fine(d, server) /\ d.channel # "OPENING"
<1>1. /\ Core(c, server) /\ SessionInv(c) /\ CountInv(c) /\ Weak(c, server)
      /\ c \in ClientRecord /\ Listed(c) /\ server \in ServerRecord
  BY DEF Fine, Weak, Core, ServerInv
<1>2. CASE d = [AsyncService(c, "check", {}) EXCEPT !.checking = TRUE]
           /\ ~c.checking /\ c.channel = "OPEN"
  <2> DEFINE a == AsyncService(c, "check", {})
  <2>1. /\ a \in ClientRecord /\ SameNotes(c, a) /\ a.channel = c.channel
        /\ a.acks = c.acks /\ a.outstanding = c.outstanding /\ a.limit = c.limit
        /\ a.session = c.session
    <3>1. {} \in SUBSET Note /\ "check" \in Kinds
      BY DEF Kinds
    <3> QED
      BY <1>1, <3>1, AsyncFields
  <2> HIDE DEF a
  <2>2. /\ d \in ClientRecord /\ SameWire(a, d) /\ SameNotes(a, d)
        /\ d.acks = a.acks /\ d.session = a.session /\ d.outstanding = a.outstanding
        /\ d.limit = a.limit /\ d.checking = TRUE
    BY <1>2, <2>1 DEF ClientRecord, SameWire, SameNotes, a
  <2>3. /\ SameNotes(c, d) /\ d.acks = c.acks /\ d.outstanding = c.outstanding
        /\ d.limit = c.limit /\ d.checking /\ d.channel = "OPEN" /\ d.session = c.session
    BY <1>2, <2>1, <2>2 DEF SameNotes, SameWire
  <2>4. "check" \in Kinds \ {"publish"} /\ Belongs("check", c.session)
    BY DEF Kinds, Belongs
  <2>5. \A x \in Calls(c) : Belongs(x.kind, c.session)
    BY <1>1 DEF SessionInv
  <2>6. ~Pending(c, "check")
    BY <1>1, <1>2 DEF SessionInv
  <2>7. c.session = "CREATE_REQUESTED" => Pending(c, "create")
    BY <1>1 DEF SessionInv
  <2>8. c.session \in {"CLOSED", "CREATE_REQUESTED"} => c.subs = NoSubs /\ c.acks = {}
    BY <1>1 DEF SessionInv
  <2>9. c.session \in DOMAIN SessionRank
    BY <1>1 DEF ClientRecord
  <2>10. Fine(d, server)
    BY <1>2, <2>2, <2>3, <2>4, <2>5, <2>6, <2>7, <2>8, <2>9, Asks DEF a
  <2> QED
    BY <2>3, <2>10
<1>3. CASE d = CloseSecureChannel(c)
  BY <1>1, <1>3, ChannelIdle, IdleFine
<1>4. CASE d = c
  BY <1>4
<1> QED
  BY <1>2, <1>3, <1>4 DEF Checked

-----------------------------------------------------------------------------
(* Publishing.                                                               *)

\* The walk of Filled, request by request.
LEMMA FilledWalk ==
  ASSUME NEW c, NEW n \in Nat, n = c.limit - c.outstanding
  PROVE  \E f : /\ f = [i \in 0..n |->
                          IF i = 0 THEN [c EXCEPT !.outstanding = c.limit, !.acks = {}]
                          ELSE AsyncService(f[i - 1], "publish", IF i = 1 THEN c.acks ELSE {})]
                /\ Filled(c) = f[n]
<1> DEFINE Step(d, i) == AsyncService(d, "publish", IF i = 1 THEN c.acks ELSE {})
           z == [c EXCEPT !.outstanding = c.limit, !.acks = {}]
           Walk(f, m) == f = [i \in 0..m |-> IF i = 0 THEN z ELSE Step(f[i - 1], i)]
           Bad == {m \in 0..n : ~\E f : Walk(f, m)}
<1>1. Bad = {}
  <2> SUFFICES ASSUME Bad # {} PROVE FALSE
    OBVIOUS
  <2> HIDE DEF Step, z
  <2>1. Bad \in SUBSET Nat
    OBVIOUS
  <2>2. PICK m \in Bad : \A k \in Bad : m <= k
    BY <2>1, MinFacts
  <2>3. m \in 0..n /\ ~\E f : Walk(f, m)
    OBVIOUS
  <2>4. CASE m = 0
    <3>1. Walk([i \in 0..0 |-> z], 0)
      OBVIOUS
    <3> QED
      BY <2>3, <2>4, <3>1
  <2>5. CASE m > 0
    <3> HIDE DEF Bad
    <3>a. m - 1 \in 0..n /\ ~(m <= m - 1)
      BY <2>3, <2>5
    <3>b. m - 1 \notin Bad
      BY <2>2, <3>a
    <3>1. \E f : Walk(f, m - 1)
      BY <3>a, <3>b DEF Bad
    <3>2. PICK g : Walk(g, m - 1)
      BY <3>1, Zenon
    <3> DEFINE h == [i \in 0..m |-> IF i < m THEN g[i] ELSE Step(g[i - 1], i)]
    <3>3. ASSUME NEW i \in 0..m
          PROVE  h[i] = IF i = 0 THEN z ELSE Step(h[i - 1], i)
      <4>1. CASE i = m
        <5>1. m - 1 \in 0..m /\ m - 1 < m /\ m # 0
          BY <2>3, <2>5
        <5>2. h[m - 1] = g[m - 1]
          BY <5>1
        <5>3. h[m] = Step(g[m - 1], m)
          BY <4>1
        <5> QED
          BY <4>1, <5>1, <5>2, <5>3
      <4>2. CASE i # m /\ i # 0
        <5>1. i \in 0..m - 1 /\ i - 1 \in 0..m /\ i - 1 < m /\ i < m
          BY <2>3, <4>2
        <5>2. h[i] = g[i] /\ h[i - 1] = g[i - 1]
          BY <5>1
        <5>3. g[i] = Step(g[i - 1], i)
          BY <3>2, <4>2, <5>1
        <5> QED
          BY <4>2, <5>2, <5>3
      <4>3. CASE i # m /\ i = 0
        <5>1. h[0] = g[0] /\ 0 \in 0..m - 1
          BY <2>3, <4>3, <2>5
        <5>2. g[0] = z
          BY <3>2, <5>1
        <5> QED
          BY <4>3, <5>1, <5>2
      <4> QED
        BY <4>1, <4>2, <4>3
    <3>4. h = [i \in 0..m |-> h[i]]
      OBVIOUS
    <3> HIDE DEF h
    <3>5. Walk(h, m)
      BY <3>3, <3>4
    <3> QED
      BY <2>3, <3>5
  <2> QED
    BY <2>3, <2>4, <2>5
<1>2. \E f : Walk(f, n)
  <2>1. n \in 0..n
    OBVIOUS
  <2> HIDE DEF Step, z
  <2> QED
    BY <1>1, <2>1
<1>3. \E f : Walk(f, n) /\ Filled(c) = f[n]
  BY <1>2 DEF Filled
<1> QED
  BY <1>3

\* As many publish requests as wanted.
LEMMA Fills ==
  ASSUME NEW c, Fine(c, server), ServerInv(server), c.channel = "OPEN", Publishes(c)
  PROVE  Fine(Filled(c), server) /\ Filled(c).channel = "OPEN"
<1> DEFINE n == c.limit - c.outstanding
           p == Cardinality(Published(Calls(c)))
           Good(i, d) ==
             /\ Core(d, server) /\ OpenPart(d, server) /\ SameNotes(c, d)
             /\ d.channel = "OPEN" /\ d.session = "ACTIVATED" /\ d.waiting = c.waiting
             /\ d.limit = c.limit /\ d.outstanding = c.limit /\ d.checking = c.checking
             /\ d.acks = {}
             /\ Calls(c) \subseteq Calls(d)
             /\ \A x \in Calls(d) \ Calls(c) : x.kind = "publish"
             /\ Cardinality(Published(Calls(d))) = p + i
<1>1. /\ Core(c, server) /\ SessionInv(c) /\ CountInv(c) /\ OpenPart(c, server)
      /\ c \in ClientRecord /\ Listed(c) /\ server \in ServerRecord
  BY DEF Fine, Weak, Core, ServerInv
<1>2. /\ c.limit \in Nat /\ c.outstanding \in Int /\ p \in Nat /\ p <= c.outstanding
      /\ c.outstanding < c.limit /\ c.session = "ACTIVATED"
  BY <1>1, CountTypes, PublishedFacts DEF CountInv, Publishes, Listed
<1>3. n \in Nat /\ n = c.limit - c.outstanding /\ c.outstanding \in Nat
  BY <1>2
<1>4. PICK f : /\ f = [i \in 0..n |->
                         IF i = 0 THEN [c EXCEPT !.outstanding = c.limit, !.acks = {}]
                         ELSE AsyncService(f[i - 1], "publish", IF i = 1 THEN c.acks ELSE {})]
               /\ Filled(c) = f[n]
  <2> HIDE DEF n
  <2> QED
    BY <1>3, FilledWalk
<1> HIDE DEF n, p
<1>5. c.acks \subseteq c.got
  BY <1>1 DEF Core, NotesInv
<1>6. Good(0, f[0])
  <2> DEFINE d == [c EXCEPT !.outstanding = c.limit, !.acks = {}]
  <2>1. f[0] = d
    BY <1>3, <1>4
  <2>2. /\ d \in ClientRecord /\ SameWire(c, d) /\ SameNotes(c, d) /\ d.session = c.session
        /\ d.acks = {} /\ d.outstanding = c.limit /\ d.limit = c.limit /\ d.checking = c.checking
    <3>1. c.limit \in Int /\ {} \in SUBSET Note
      BY <1>2
    <3> QED
      BY <1>1, <3>1 DEF ClientRecord, SameWire, SameNotes
  <2> HIDE DEF d
  <2>3. Core(d, server)
    BY <1>1, <2>2, CoreFrame
  <2>4. OpenPart(d, server)
    BY <1>1, <2>2, OpenFrame
  <2>5. Calls(d) = Calls(c)
    BY <2>2 DEF Calls, SameWire
  <2>6. p = p + 0
    BY <1>2
  <2> QED
    BY <1>2, <2>1, <2>2, <2>3, <2>4, <2>5, <2>6 DEF SameWire, p
<1>7. ASSUME NEW i \in 1..n, Good(i - 1, f[i - 1])
      PROVE  Good(i, f[i])
  <2> DEFINE d == f[i - 1]
             acks == IF i = 1 THEN c.acks ELSE {}
             e == AsyncService(d, "publish", acks)
             x == [id |-> FreshId(d), kind |-> "publish"]
  <2>1. f[i] = e
    <3>1. i \in 0..n /\ i # 0
      BY <1>3
    <3> QED
      BY <1>4, <3>1
  <2>2. /\ Core(d, server) /\ OpenPart(d, server) /\ SameNotes(c, d) /\ d.channel = "OPEN"
        /\ d \in ClientRecord /\ Listed(d)
    BY <1>7 DEF Core
  <2>3. acks \in SUBSET Note /\ acks \in SUBSET d.got /\ "publish" \in Kinds
    BY <1>1, <1>5, <2>2 DEF ClientRecord, SameNotes, Kinds
  <2>4. x.kind = "publish"
    OBVIOUS
  <2>5. /\ e \in ClientRecord /\ x \notin Calls(d) /\ Calls(e) = Calls(d) \cup {x}
        /\ SameNotes(d, e) /\ e.channel = d.channel /\ e.waiting = d.waiting
        /\ e.session = d.session /\ e.outstanding = d.outstanding /\ e.limit = d.limit
        /\ e.acks = d.acks /\ e.checking = d.checking
    <3> HIDE DEF d, acks
    <3> QED
      BY <1>1, <2>2, <2>3, AsyncFields
  <2>6. Core(e, server) /\ OpenPart(e, server)
    <3> HIDE DEF d, acks
    <3> QED
      BY <1>1, <2>2, <2>3, Called
  <2> HIDE DEF e, x, acks
  <2>7. Cardinality(Published(Calls(e))) = p + i
    <3>1. Published(Calls(e)) = Published(Calls(d)) \cup {x} /\ x \notin Published(Calls(d))
      BY <2>4, <2>5 DEF Published
    <3>2. IsFiniteSet(Published(Calls(d)))
      BY <2>2, PublishedFacts DEF Listed
    <3>3. Cardinality(Published(Calls(e))) = Cardinality(Published(Calls(d))) + 1
      BY <3>1, <3>2, FS_AddElement
    <3>4. Cardinality(Published(Calls(d))) = p + (i - 1)
      BY <1>7
    <3> QED
      BY <1>2, <3>3, <3>4
  <2>8. Calls(c) \subseteq Calls(e) /\ \A y \in Calls(e) \ Calls(c) : y.kind = "publish"
    BY <1>7, <2>4, <2>5
  <2>9. SameNotes(c, e)
    BY <2>2, <2>5 DEF SameNotes
  <2> QED
    BY <1>7, <2>1, <2>5, <2>6, <2>7, <2>8, <2>9
<1>8. \A i \in 0..n : Good(i, f[i])
  <2> DEFINE Bad == {i \in 0..n : ~Good(i, f[i])}
  <2> HIDE DEF Good
  <2> SUFFICES ASSUME Bad # {} PROVE FALSE
    OBVIOUS
  <2>1. Bad \in SUBSET Nat
    BY <1>3
  <2>2. PICK m \in Bad : \A k \in Bad : m <= k
    BY <2>1, MinFacts
  <2>3. m \in 1..n
    BY <1>3, <1>6, <2>2
  <2>4. m - 1 \in 0..n /\ ~(m <= m - 1)
    BY <1>3, <2>3
  <2>5. Good(m - 1, f[m - 1])
    BY <2>2, <2>4
  <2> QED
    BY <1>7, <2>2, <2>3, <2>5
<1>9. Good(n, f[n])
  BY <1>3, <1>8
<1> DEFINE d == f[n]
<1>10. CountInv(d)
  <2>1. p + n <= c.limit /\ (~SendMayFail => p + n = c.limit)
    BY <1>1, <1>2, <1>3 DEF CountInv, p
  <2>2. Wanted <= c.limit \/ MaxParked <= c.limit
    BY <1>1 DEF CountInv
  <2>3. c.limit <= c.limit
    BY <1>2
  <2> QED
    BY <1>9, <2>1, <2>2, <2>3 DEF CountInv
<1>11. SessionInv(d)
  <2>1. \A x \in Calls(d) : Belongs(x.kind, d.session)
    BY <1>1, <1>2, <1>9 DEF SessionInv, Belongs
  <2>2. Single(Calls(d))
    BY <1>1, <1>9 DEF SessionInv, Single
  <2>3. d.checking <=> Pending(d, "check")
    BY <1>1, <1>9 DEF SessionInv, Pending, Calls
  <2> QED
    BY <1>9, <2>1, <2>2, <2>3 DEF SessionInv
<1>12. Fine(d, server)
  BY <1>9, <1>10, <1>11 DEF Fine, Weak
<1> QED
  BY <1>4, <1>9, <1>12

\* Publish requests are sent in the background.
LEMMA PublishSteps ==
  ASSUME NEW c, Fine(c, server), c.channel # "OPENING", ServerInv(server),
         NEW d \in BackgroundPublish(c)
  PROVE  Fine(d, server) /\ d.channel # "OPENING"
<1>1. /\ Core(c, server) /\ SessionInv(c) /\ CountInv(c) /\ Weak(c, server)
      /\ c \in ClientRecord
  BY DEF Fine, Weak, Core
<1>2. CASE ~Publishes(c)
  BY <1>2 DEF BackgroundPublish
<1>3. CASE Publishes(c)
  <2>1. c.channel = "OPEN"
    BY <1>1, <1>3 DEF Publishes, SessionInv
  <2>2. d = Filled(c) \/ (SendMayFail /\ d = CloseSecureChannel(Unsent(c)))
    BY <1>3, <2>1 DEF BackgroundPublish, SendFails
  <2>3. CASE d = Filled(c)
    BY <1>3, <2>1, <2>3, Fills
  <2>4. CASE SendMayFail /\ d = CloseSecureChannel(Unsent(c))
    <3> DEFINE m == c.outstanding + 1
               u == [c EXCEPT !.outstanding = m, !.acks = {}]
    <3>1. Unsent(c) = u
      BY DEF Unsent
    <3>2. c.outstanding \in Int /\ m \in Int /\ c.limit \in Nat /\ c.outstanding < c.limit
          /\ Cardinality(Published(Calls(c))) \in Nat
      BY <1>1, <1>3, CountTypes, PublishedFacts DEF Publishes, Core, Listed
    <3>3. c.outstanding <= m /\ m <= c.limit
      BY <3>2
    <3> HIDE DEF m
    <3>4. /\ u \in ClientRecord /\ SameWire(c, u) /\ SameNotes(c, u) /\ u.session = c.session
          /\ u.acks = {} /\ u.outstanding = m /\ u.limit = c.limit /\ u.checking = c.checking
      BY <1>1, <3>2 DEF ClientRecord, SameWire, SameNotes
    <3> HIDE DEF u
    <3>5. Core(u, server)
      BY <1>1, <3>4, CoreFrame
    <3>6. Calls(u) = Calls(c) /\ \A kind : Pending(u, kind) <=> Pending(c, kind)
      BY <3>4 DEF Calls, SameWire, Pending
    <3>7. CountInv(u)
      <4>1. Cardinality(Published(Calls(u))) <= m
        BY <1>1, <3>2, <3>3, <3>6 DEF CountInv
      <4> QED
        BY <1>1, <2>4, <3>3, <3>4, <4>1 DEF CountInv
    <3>8. SessionInv(u)
      BY <1>1, <3>4, <3>6 DEF SessionInv, SameWire, SameNotes
    <3>9. Weak(u, server)
      BY <3>5, <3>7, <3>8 DEF Weak
    <3> QED
      BY <2>4, <3>1, <3>9, ChannelIdle, IdleFine
  <2> QED
    BY <2>2, <2>3, <2>4
<1> QED
  BY <1>2, <1>3

-----------------------------------------------------------------------------
(* Receiving.                                                                *)

\* Taking a response out of the list leaves the others in their order.
LEMMA TakenFacts ==
  ASSUME NEW s \in Seq(ResponseMsg), s # <<>>, IsInjective(s), InOrder(s)
  PROVE  /\ InOrder(Tail(s))
         /\ \A m \in ToSet(Tail(s)) : Head(s).sub = m.sub /\ m.sub # 0 =>
              News(m) /\ Head(s).seq <= m.seq /\ (Head(s).data => Head(s).seq < m.seq)
         /\ \A i \in DOMAIN Tail(s) : i + 1 \in DOMAIN s /\ Tail(s)[i] = s[i + 1]
         /\ 1 \in DOMAIN s /\ s[1] = Head(s)
         /\ DOMAIN Tail(s) \subseteq Nat \ {0}
<1> DEFINE t == Tail(s)
<1>1. /\ t \in Seq(ResponseMsg) /\ Len(t) = Len(s) - 1 /\ Len(s) \in Nat \ {0}
      /\ \A j \in 1..Len(t) : t[j] = s[j + 1]
      /\ DOMAIN s = 1..Len(s) /\ DOMAIN t = 1..Len(t)
  BY HeadTailProperties, EmptySeq, LenProperties
<1>2. Head(s) = s[1]
  OBVIOUS
<1> HIDE DEF t
<1>3. \A i \in DOMAIN t : i + 1 \in DOMAIN s /\ t[i] = s[i + 1] /\ i \in Nat \ {0}
  BY <1>1
<1>4. 1 \in DOMAIN s
  BY <1>1
<1>5. InOrder(t)
  <2> SUFFICES ASSUME NEW i \in DOMAIN t, NEW j \in DOMAIN t,
                      i < j, t[i].sub = t[j].sub, t[i].sub # 0
               PROVE  News(t[j]) /\ t[i].seq <= t[j].seq /\ (t[i].data => t[i].seq < t[j].seq)
    BY DEF InOrder
  <2>1. /\ i + 1 \in DOMAIN s /\ t[i] = s[i + 1] /\ j + 1 \in DOMAIN s /\ t[j] = s[j + 1]
        /\ i + 1 < j + 1
    BY <1>3
  <2> QED
    BY <2>1 DEF InOrder
<1>6. ASSUME NEW m \in ToSet(t), Head(s).sub = m.sub, m.sub # 0
      PROVE  News(m) /\ Head(s).seq <= m.seq /\ (Head(s).data => Head(s).seq < m.seq)
  <2>1. PICK i \in DOMAIN t : m = t[i]
    BY DEF ToSet
  <2>2. i + 1 \in DOMAIN s /\ m = s[i + 1] /\ 1 < i + 1
    BY <1>3, <2>1
  <2> QED
    BY <1>2, <1>4, <1>6, <2>2 DEF InOrder
<1> QED
  BY <1>2, <1>3, <1>4, <1>5, <1>6 DEF t

\* The first response is taken.
LEMMA Taken ==
  ASSUME NEW c, NEW srv, Core(c, srv), c.in # <<>>
  PROVE  LET d == [c EXCEPT !.in = Tail(@)]
             m == Head(c.in)
         IN  /\ Core(d, srv) /\ d.in = Tail(c.in) /\ In(d) = In(c) \ {m}
             /\ m \in In(c) /\ m \in ResponseMsg
             /\ SameNotes(c, d)
             /\ d.channel = c.channel /\ d.calls = c.calls /\ d.waiting = c.waiting
             /\ d.lost = c.lost /\ d.out = c.out /\ d.session = c.session /\ d.status = c.status
             /\ d.url = c.url /\ d.endpoint = c.endpoint /\ d.outstanding = c.outstanding
             /\ d.limit = c.limit /\ d.acks = c.acks /\ d.checking = c.checking
<1> DEFINE in == Tail(c.in)
           d == [c EXCEPT !.in = in]
           m == Head(c.in)
<1>1. c \in ClientRecord /\ Listed(c) /\ NotesInv(c, srv) /\ WireInv(c, srv)
  BY DEF Core
<1>2. c.in \in Seq(ResponseMsg) /\ IsInjective(c.in)
  BY <1>1 DEF ClientRecord, Listed
<1>3. /\ m \in In(c) /\ in \in Seq(ResponseMsg) /\ IsInjective(in) /\ ToSet(in) = In(c) \ {m}
  BY <1>2, TailFacts DEF In
<1>4. InOrder(in)
  BY <1>1, <1>2, TakenFacts DEF NotesInv
<1>5. d = [c EXCEPT !.in = Tail(@)]
  OBVIOUS
<1>6. m \in ResponseMsg
  <2>1. In(c) \subseteq ResponseMsg
    BY <1>2, ToSetFacts DEF In
  <2> QED
    BY <1>3, <2>1
<1> HIDE DEF in, m
<1>7. /\ d \in ClientRecord /\ d.in = in /\ SameNotes(c, d)
      /\ d.channel = c.channel /\ d.calls = c.calls /\ d.waiting = c.waiting
      /\ d.lost = c.lost /\ d.out = c.out /\ d.session = c.session /\ d.status = c.status
      /\ d.url = c.url /\ d.endpoint = c.endpoint /\ d.outstanding = c.outstanding
      /\ d.limit = c.limit /\ d.acks = c.acks /\ d.checking = c.checking
  BY <1>1, <1>3 DEF ClientRecord, SameNotes
<1> HIDE DEF d
<1>8. Calls(d) = Calls(c) /\ Waits(d) = Waits(c) /\ In(d) = In(c) \ {m} /\ Out(d) = Out(c)
  BY <1>3, <1>7 DEF Calls, Waits, In, Out
<1>9. LinkInv(d, srv)
  <2>1. Link(Calls(c), Waits(c), In(c), Out(c), Parked(srv)) /\ In(c) \ {m} \in SUBSET In(c)
    BY DEF Core, LinkInv
  <2>2. Link(Calls(c), Waits(c), In(c) \ {m}, Out(c), Parked(srv))
    BY <2>1, LinkLess
  <2> QED
    BY <1>8, <2>2 DEF LinkInv
<1>10. WireInv(d, srv)
  BY <1>1, <1>7, <1>8 DEF WireInv
<1>11. NotesInv(d, srv)
  BY <1>1, <1>4, <1>7, <1>8 DEF NotesInv, SameNotes
<1>12. Listed(d)
  BY <1>1, <1>3, <1>7 DEF Listed
<1> QED
  BY <1>3, <1>5, <1>6, <1>7, <1>8, <1>9, <1>10, <1>11, <1>12 DEF Core, d, in, m

\* The requests counted behind a message are still there when one before it is gone.
LEMMA ManyTaken ==
  ASSUME NEW c \in ClientRecord, NEW d \in ClientRecord, c.in # <<>>, d.in = Tail(c.in),
         IsInjective(c.in), InOrder(c.in), IsInjective(d.calls), ManyInv(c),
         {x \in Published(Calls(c)) : x.id # Head(c.in).id} \subseteq Published(Calls(d))
  PROVE  ManyInv(d)
<1> SUFFICES ASSUME NEW i \in DOMAIN d.in, d.in[i].result = "BadTooManyPublishRequests"
             PROVE  MaxParked <= Cardinality(Unanswered(d, i))
  BY DEF ManyInv
<1>1. c.in \in Seq(ResponseMsg)
  BY DEF ClientRecord
<1>2. /\ \A j \in DOMAIN d.in : j + 1 \in DOMAIN c.in /\ d.in[j] = c.in[j + 1]
      /\ c.in[1] = Head(c.in) /\ DOMAIN d.in \subseteq Nat \ {0}
      /\ \A j \in 1..i : j \in DOMAIN d.in
  <2>1. d.in \in Seq(ResponseMsg)
    BY DEF ClientRecord
  <2>2. DOMAIN d.in = 1..Len(d.in) /\ Len(d.in) \in Nat
    BY <2>1, LenProperties
  <2>3. \A j \in 1..i : j \in DOMAIN d.in
    BY <2>2
  <2> QED
    BY <1>1, <2>3, TakenFacts
<1>3. MaxParked <= Cardinality(Unanswered(c, i + 1))
  BY <1>2 DEF ManyInv
<1>4. Unanswered(c, i + 1) \subseteq Unanswered(d, i)
  <2> SUFFICES ASSUME NEW x \in Unanswered(c, i + 1) PROVE x \in Unanswered(d, i)
    OBVIOUS
  <2>1. x \in Published(Calls(c)) /\ \A j \in 1..i + 1 : c.in[j].id # x.id
    BY DEF Unanswered
  <2>2. i \in Nat /\ 1 \in 1..i + 1
    BY <1>2
  <2>3. x \in Published(Calls(d))
    BY <1>2, <2>1, <2>2
  <2>4. ASSUME NEW j \in 1..i PROVE d.in[j].id # x.id
    <3>1. j + 1 \in 1..i + 1
      BY <2>2
    <3> QED
      BY <1>2, <2>1, <3>1
  <2> QED
    BY <2>3, <2>4 DEF Unanswered
<1>5. IsFiniteSet(Unanswered(d, i)) /\ Cardinality(Unanswered(d, i)) \in Nat
  BY PublishedFacts
<1>6. /\ Cardinality(Unanswered(c, i + 1)) <= Cardinality(Unanswered(d, i))
      /\ Cardinality(Unanswered(c, i + 1)) \in Nat
  BY <1>4, <1>5, FS_Subset, FS_CardinalityType
<1>7. MaxParked \in Nat
  BY BoundsAssumption
<1> QED
  BY <1>3, <1>5, <1>6, <1>7

\* A call and its response go together.
LEMMA AskedTaken ==
  ASSUME NEW C, NEW W, NEW I, NEW O, NEW Q, Asked(C, W, I, O, Q), Link(C, W, I, O, Q),
         NEW m \in I
  PROVE  /\ \A y \in C : y.id = m.id => Asked(C \ {y}, W, I \ {m}, O, Q)
         /\ \A w \in W : w.id = m.id => Asked(C, W \ {w}, I \ {m}, O, Q)
<1>1. m.id \notin Q /\ \A r \in O : r.id # m.id
  BY DEF Link
<1>2. ASSUME NEW y \in C, y.id = m.id PROVE Asked(C \ {y}, W, I \ {m}, O, Q)
  <2>1. \A x \in (C \ {y}) \cup W : x.id # m.id
    BY <1>2 DEF Link, Unique
  <2> QED
    BY <1>1, <1>2, <2>1 DEF Asked
<1>3. ASSUME NEW w \in W, w.id = m.id PROVE Asked(C, W \ {w}, I \ {m}, O, Q)
  <2>1. \A x \in C \cup (W \ {w}) : x.id # m.id
    BY <1>3 DEF Link, Unique
  <2> QED
    BY <1>1, <1>3, <2>1 DEF Asked
<1> QED
  BY <1>2, <1>3

\* The first response is taken together with the call it answers.
LEMMA Popped ==
  ASSUME NEW c, Fine(c, server), c.channel = "OPEN", c.in # <<>>, NEW y \in Calls(c),
         y.id = Head(c.in).id
  PROVE  LET e == [c EXCEPT !.in = Tail(@)]
             d == [e EXCEPT !.calls = Without(@, y)]
             m == Head(c.in)
         IN  /\ Core(d, server) /\ Calls(d) = Calls(c) \ {y} /\ SameNotes(c, d)
             /\ d.channel = c.channel /\ d.waiting = c.waiting /\ d.lost = c.lost
             /\ d.in = Tail(c.in) /\ In(d) = In(c) \ {m} /\ d.out = c.out
             /\ d.session = c.session /\ d.outstanding = c.outstanding /\ d.limit = c.limit
             /\ d.acks = c.acks /\ d.checking = c.checking
             /\ Cardinality(Published(Calls(d))) =
                  IF y.kind = "publish" THEN Cardinality(Published(Calls(c))) - 1
                  ELSE Cardinality(Published(Calls(c)))
             /\ ManyInv(d) /\ (server.channel => AskedInv(d, server))
             /\ y.kind # "activate" => OpenPart(d, server)
<1> DEFINE e == [c EXCEPT !.in = Tail(@)]
           d == [e EXCEPT !.calls = Without(@, y)]
           m == Head(c.in)
<1>1. Core(c, server) /\ OpenPart(c, server) /\ c \in ClientRecord /\ Listed(c)
      /\ NotesInv(c, server)
  BY DEF Fine, Weak, Core
<1>2. /\ Core(e, server) /\ e.in = Tail(c.in) /\ In(e) = In(c) \ {m}
      /\ m \in In(c)
      /\ SameNotes(c, e)
      /\ e.channel = c.channel /\ e.calls = c.calls /\ e.waiting = c.waiting
      /\ e.lost = c.lost /\ e.out = c.out /\ e.session = c.session
      /\ e.outstanding = c.outstanding
      /\ e.limit = c.limit /\ e.acks = c.acks /\ e.checking = c.checking
  BY <1>1, Taken
<1> HIDE DEF e, m
<1>3. Calls(e) = Calls(c)
  BY <1>2 DEF Calls
<1>4. /\ Core(d, server) /\ Calls(d) = Calls(e) \ {y} /\ SameNotes(e, d)
      /\ d.channel = e.channel /\ d.waiting = e.waiting /\ d.lost = e.lost /\ d.in = e.in
      /\ d.out = e.out /\ d.session = e.session
      /\ d.outstanding = e.outstanding /\ d.limit = e.limit
      /\ d.acks = e.acks /\ d.checking = e.checking
      /\ Published(Calls(d)) = Published(Calls(e)) \ {y}
      /\ Cardinality(Published(Calls(d))) =
           IF y.kind = "publish" THEN Cardinality(Published(Calls(e))) - 1
           ELSE Cardinality(Published(Calls(e)))
  <2>1. y \in Calls(e)
    BY <1>3
  <2> QED
    BY <1>2, <2>1, CallGone
<1> HIDE DEF d
<1>5. d \in ClientRecord /\ IsInjective(d.calls)
  BY <1>4 DEF Core, Listed
<1>6. ManyInv(d)
  <2>1. {x \in Published(Calls(c)) : x.id # Head(c.in).id} \subseteq Published(Calls(d))
    BY <1>3, <1>4
  <2>2. IsInjective(c.in) /\ InOrder(c.in) /\ ManyInv(c) /\ d.in = Tail(c.in)
    BY <1>1, <1>2, <1>4 DEF Listed, NotesInv, OpenPart
  <2> QED
    BY <1>1, <1>5, <2>1, <2>2, ManyTaken
<1>7. /\ Calls(d) = Calls(c) \ {y} /\ In(d) = In(c) \ {m} /\ Waits(d) = Waits(c)
      /\ Out(d) = Out(c)
  BY <1>2, <1>3, <1>4 DEF In, Waits, Out
<1>8. Link(Calls(c), Waits(c), In(c), Out(c), Parked(server))
  BY <1>1 DEF Core, LinkInv
<1>9. ASSUME server.channel PROVE AskedInv(d, server)
  <2>1. Asked(Calls(c), Waits(c), In(c), Out(c), Parked(server))
    BY <1>1, <1>9 DEF OpenPart, AskedInv
  <2>2. Asked(Calls(c) \ {y}, Waits(c), In(c) \ {m}, Out(c), Parked(server))
    BY <1>2, <1>8, <2>1, AskedTaken DEF m
  <2> QED
    BY <1>7, <2>2 DEF AskedInv
<1>10. ASSUME y.kind # "activate" PROVE OpenPart(d, server)
  <2>1. Activating(Calls(c), In(c)) => Activating(Calls(d), In(d))
    <3> SUFFICES ASSUME NEW x \in Calls(c), NEW n \in In(c), x.kind = "activate", n.id = x.id,
                        n.result = "Good"
                 PROVE  x \in Calls(d) /\ n \in In(d)
      BY DEF Activating
    <3>1. x # y
      BY <1>10
    <3>2. x.id # y.id
      BY <1>8, <3>1 DEF Link, Unique
    <3> QED
      BY <1>7, <3>1, <3>2 DEF m
  <2> QED
    BY <1>1, <1>2, <1>4, <1>6, <1>9, <2>1 DEF OpenPart
<1>11. SameNotes(c, d)
  BY <1>2, <1>4 DEF SameNotes
<1> QED
  BY <1>2, <1>3, <1>4, <1>6, <1>7, <1>9, <1>10, <1>11 DEF d, e, m

\* A synchronous service that waits has its response.
LEMMA Returns ==
  ASSUME NEW c, Fine(c, server), ServerInv(server), c.channel = "OPEN", c.in # <<>>,
         c.waiting # <<>>, Head(c.in).id = Last(c.waiting).id
  PROVE  LET d == Returned([c EXCEPT !.in = Tail(@)], Head(c.in))
         IN  Fine(d, server) /\ d.channel # "OPENING"
<1> DEFINE e == [c EXCEPT !.in = Tail(@)]
           m == Head(c.in)
           w == Last(c.waiting)
           waiting == Front(c.waiting)
           d == [e EXCEPT !.waiting = waiting]
<1>1. /\ Core(c, server) /\ OpenPart(c, server) /\ c \in ClientRecord /\ Listed(c)
      /\ NotesInv(c, server) /\ SessionInv(c) /\ CountInv(c) /\ WireInv(c, server)
  BY DEF Fine, Weak, Core
<1>2. /\ Core(e, server) /\ e.in = Tail(c.in) /\ In(e) = In(c) \ {m}
      /\ m \in In(c) /\ m \in ResponseMsg
      /\ SameNotes(c, e)
      /\ e.channel = c.channel /\ e.calls = c.calls /\ e.waiting = c.waiting
      /\ e.lost = c.lost /\ e.out = c.out /\ e.session = c.session
      /\ e.outstanding = c.outstanding
      /\ e.limit = c.limit /\ e.acks = c.acks /\ e.checking = c.checking
  BY <1>1, Taken
<1>3. /\ w \in Waits(c) /\ waiting \in Seq(Waiting) /\ IsInjective(waiting)
      /\ ToSet(waiting) = Waits(c) \ {w}
  <2>1. c.waiting \in Seq(Waiting) /\ IsInjective(c.waiting)
    BY <1>1 DEF ClientRecord, Listed
  <2> QED
    BY <2>1, FrontFacts DEF Waits
<1>4. e \in ClientRecord /\ Listed(e) /\ NotesInv(e, server) /\ WireInv(e, server)
  BY <1>2 DEF Core
<1>a. InOrder(c.in) /\ IsInjective(c.in) /\ c.in \in Seq(ResponseMsg)
  BY <1>1 DEF NotesInv, Listed, ClientRecord
<1>5. Returned(e, m) =
        CASE w.op = "CloseSession" -> Disconnected(d)
          [] w.op = "CreateSubscription" /\ m.result = "Good" ->
               [d EXCEPT !.subs = [s \in DOMAIN @ \union {m.sub} |-> IF s = m.sub THEN 0 ELSE @[s]]]
          [] w.op = "DeleteSubscription" /\ m.result \in {"Good", "BadSubscriptionIdInvalid"} ->
               [d EXCEPT !.subs = [s \in DOMAIN @ \ {w.sub} |-> @[s]]]
          [] OTHER -> d
  BY <1>2 DEF Returned
<1> HIDE DEF e, waiting
<1>6. /\ d \in ClientRecord /\ d.waiting = waiting /\ SameNotes(c, d)
      /\ d.channel = c.channel /\ d.calls = c.calls /\ d.lost = c.lost /\ d.in = e.in
      /\ d.out = c.out /\ d.session = c.session /\ d.outstanding = c.outstanding
      /\ d.limit = c.limit /\ d.acks = c.acks /\ d.checking = c.checking
  BY <1>2, <1>3, <1>4 DEF ClientRecord, SameNotes
<1> HIDE DEF d, w
<1>7. /\ Calls(d) = Calls(c) /\ In(d) = In(c) \ {m} /\ Waits(d) = Waits(c) \ {w}
      /\ Out(d) = Out(c) /\ \A kind : Pending(d, kind) <=> Pending(c, kind)
  BY <1>2, <1>3, <1>6 DEF Calls, In, Waits, Out, Pending
<1>8. Link(Calls(c), Waits(c), In(c), Out(c), Parked(server))
  BY <1>1 DEF Core, LinkInv
<1>9. Core(d, server)
  <2>1. Listed(d)
    BY <1>3, <1>4, <1>6, <1>1 DEF Listed
  <2>2. LinkInv(d, server)
    <3>1. Waits(c) \ {w} \in SUBSET Waits(c) /\ In(c) \ {m} \in SUBSET In(c)
      OBVIOUS
    <3>2. Link(Calls(c), Waits(c) \ {w}, In(c) \ {m}, Out(c), Parked(server))
      BY <1>8, <3>1, LinkLess
    <3> QED
      BY <1>7, <3>2 DEF LinkInv
  <2>3. WireInv(d, server)
    BY <1>1, <1>6, <1>7 DEF WireInv
  <2>4. NotesInv(d, server)
    BY <1>1, <1>4, <1>6, <1>7 DEF NotesInv, SameNotes
  <2> QED
    BY <1>6, <2>1, <2>2, <2>3, <2>4 DEF Core
<1>10. SessionInv(d)
  BY <1>1, <1>6, <1>7 DEF SessionInv, SameNotes
<1>11. CountInv(d)
  BY <1>1, <1>6, <1>7 DEF CountInv
<1>12. OpenPart(d, server)
  <2>1. c.session \in {"ACTIVATED", "CLOSING"}
    BY <1>1 DEF OpenPart
  <2>2. ManyInv(d)
    <3>1. {x \in Published(Calls(c)) : x.id # Head(c.in).id} \subseteq Published(Calls(d))
      BY <1>7
    <3>2. ManyInv(c) /\ d.in = Tail(c.in) /\ IsInjective(d.calls)
      BY <1>1, <1>2, <1>6, <1>9 DEF OpenPart, Core, Listed
    <3> QED
      BY <1>1, <1>6, <1>a, <3>1, <3>2, ManyTaken
  <2>3. ASSUME server.channel PROVE AskedInv(d, server)
    <3>1. Asked(Calls(c), Waits(c), In(c), Out(c), Parked(server))
      BY <1>1, <2>3 DEF OpenPart, AskedInv
    <3>2. Asked(Calls(c), Waits(c) \ {w}, In(c) \ {m}, Out(c), Parked(server))
      BY <1>2, <1>3, <1>8, <3>1, AskedTaken DEF w
    <3> QED
      BY <1>7, <3>2 DEF AskedInv
  <2> QED
    BY <1>6, <2>1, <2>2, <2>3 DEF OpenPart
<1>13. Weak(d, server) /\ Fine(d, server) /\ d.channel = "OPEN"
  BY <1>6, <1>9, <1>10, <1>11, <1>12 DEF Weak, Fine
<1>14. c.session \notin {"CLOSED", "CREATE_REQUESTED"}
  BY <1>1 DEF OpenPart
\* Other subscriptions.
<1>15. ASSUME NEW subs \in Numbers, NEW f, f = [d EXCEPT !.subs = subs],
              Noted(subs, c.got, c.missed, server),
              \A n \in In(d) : Coming(n, subs, c.got, c.missed, server)
       PROVE  Fine(f, server) /\ f.channel # "OPENING"
  <2>1. /\ f \in ClientRecord /\ SameWire(d, f) /\ f.subs = subs /\ f.got = c.got
        /\ f.missed = c.missed /\ f.acks = d.acks /\ f.session = d.session
        /\ f.outstanding = d.outstanding /\ f.limit = d.limit /\ f.checking = d.checking
    BY <1>6, <1>15 DEF ClientRecord, SameWire, SameNotes
  <2>2. /\ Calls(f) = Calls(d) /\ In(f) = In(d) /\ Waits(f) = Waits(d) /\ Out(f) = Out(d)
        /\ \A kind : Pending(f, kind) <=> Pending(d, kind)
    BY <2>1 DEF SameWire, Calls, In, Waits, Out, Pending
  <2>3. d.got = c.got /\ d.missed = c.missed
    BY <1>6 DEF SameNotes
  <2>4. Core(f, server)
    <3>1. Listed(f)
      BY <1>9, <2>1 DEF Core, Listed, SameWire
    <3>2. LinkInv(f, server)
      BY <1>9, <2>2 DEF Core, LinkInv
    <3>3. WireInv(f, server)
      BY <1>9, <2>1, <2>2 DEF Core, WireInv, SameWire
    <3>4. NotesInv(f, server)
      BY <1>9, <1>15, <2>1, <2>2, <2>3 DEF Core, NotesInv, SameWire
    <3> QED
      BY <2>1, <3>1, <3>2, <3>3, <3>4 DEF Core
  <2>5. SessionInv(f)
    BY <1>6, <1>10, <1>14, <2>1, <2>2 DEF SessionInv, SameWire
  <2>6. CountInv(f)
    BY <1>11, <2>1, <2>2 DEF CountInv
  <2>7. OpenPart(f, server)
    BY <1>12, <2>1, OpenFrame
  <2> QED
    BY <1>13, <2>1, <2>4, <2>5, <2>6, <2>7 DEF Fine, Weak, SameWire
<1>16. PICK D \in SUBSET Sub : d.subs \in [D -> Nat]
  BY <1>6 DEF ClientRecord, Numbers
<1>17. d.subs = c.subs /\ d.got = c.got /\ d.missed = c.missed
  BY <1>6 DEF SameNotes
<1>18. CASE w.op = "CloseSession"
  <2>1. Returned(e, m) = Disconnected(d)
    BY <1>5, <1>18
  <2>2. Idle(Disconnected(d))
    BY <1>13, Disconnects
  <2> QED
    BY <2>1, <2>2, IdleFine DEF e
<1>19. CASE w.op = "CreateSubscription" /\ m.result = "Good"
  <2> DEFINE subs == [s \in DOMAIN d.subs \union {m.sub} |-> IF s = m.sub THEN 0 ELSE d.subs[s]]
             f == [d EXCEPT !.subs = subs]
  <2>1. Returned(e, m) = f
    BY <1>5, <1>19
  <2>2. Answers(w.op, m)
    BY <1>2, <1>3, <1>8 DEF Link, w
  <2>3. m.sub \in Sub /\ m.seq = 0 /\ m.sub # 0
    BY <1>19, <2>2 DEF Answers, Sub
  <2>4. Coming(m, c.subs, c.got, c.missed, server) /\ Creation(m)
    BY <1>1, <1>2, <2>3 DEF NotesInv, Creation
  <2>5. /\ m.sub \notin D /\ m.sub <= server.created
        /\ \A p \in c.got \cup c.missed : p[1] # m.sub
    BY <1>16, <1>17, <2>3, <2>4 DEF Coming
  <2>6. subs \in [D \cup {m.sub} -> Nat] /\ D \cup {m.sub} \in SUBSET Sub
    BY <1>16, <2>3
  <2>7. /\ subs \in Numbers /\ DOMAIN subs = D \cup {m.sub} /\ subs[m.sub] = 0
        /\ \A s \in D : subs[s] = d.subs[s]
    BY <1>16, <2>5, <2>6 DEF Numbers
  <2> HIDE DEF subs
  <2>8. Noted(subs, c.got, c.missed, server)
    <3>1. Noted(c.subs, c.got, c.missed, server)
      BY <1>1 DEF NotesInv
    <3>2. server.seq[m.sub] \in Nat
      BY <2>3 DEF ServerInv, ServerRecord
    <3>3. 0 <= server.seq[m.sub] /\ 1..0 = {}
      BY <3>2
    <3> QED
      BY <1>16, <1>17, <2>5, <2>7, <3>1, <3>3 DEF Noted
  <2>9. ASSUME NEW n \in In(d) PROVE Coming(n, subs, c.got, c.missed, server)
    <3>1. Coming(n, c.subs, c.got, c.missed, server) /\ n \in In(c) /\ n \in ToSet(Tail(c.in))
      BY <1>1, <1>2, <1>6, <1>7 DEF NotesInv, In
    <3>2. n.sub = m.sub => News(n)
      <4>1. Head(c.in).sub = n.sub /\ n.sub # 0 => News(n)
        BY <1>a, <3>1, TakenFacts
      <4> QED
        BY <2>3, <4>1
    <3>3. News(n) => 0 < n.seq
      BY DEF News
    <3>4. Creation(n) => n.sub \notin DOMAIN subs
      BY <1>16, <1>17, <2>7, <3>1, <3>2 DEF Coming, Creation, News
    <3>5. News(n) /\ n.sub \in DOMAIN subs => subs[n.sub] < n.seq
      BY <1>16, <1>17, <2>7, <3>1, <3>3 DEF Coming
    <3> QED
      BY <3>1, <3>4, <3>5 DEF Coming
  <2>10. Fine(f, server) /\ f.channel # "OPENING"
    BY <1>15, <2>7, <2>8, <2>9
  <2> QED
    BY <2>1, <2>10 DEF e
<1>20. CASE w.op = "DeleteSubscription" /\ m.result \in {"Good", "BadSubscriptionIdInvalid"}
  <2> DEFINE subs == [s \in DOMAIN d.subs \ {w.sub} |-> d.subs[s]]
             f == [d EXCEPT !.subs = subs]
  <2>1. Returned(e, m) = f
    BY <1>5, <1>20
  <2>2. subs \in [D \ {w.sub} -> Nat] /\ D \ {w.sub} \in SUBSET Sub
    BY <1>16
  <2>3. /\ subs \in Numbers /\ DOMAIN subs \subseteq DOMAIN c.subs
        /\ \A s \in DOMAIN subs : subs[s] = c.subs[s]
    BY <1>16, <1>17, <2>2 DEF Numbers
  <2> HIDE DEF subs
  <2>4. Noted(subs, c.got, c.missed, server)
    BY <1>1, <2>3 DEF NotesInv, Noted
  <2>5. \A n \in In(d) : Coming(n, subs, c.got, c.missed, server)
    BY <1>1, <1>7, <2>3 DEF NotesInv, Coming
  <2>6. Fine(f, server) /\ f.channel # "OPENING"
    BY <1>15, <2>3, <2>4, <2>5
  <2> QED
    BY <2>1, <2>6 DEF e
<1>21. CASE ~(w.op = "CloseSession" \/ (w.op = "CreateSubscription" /\ m.result = "Good")
              \/ (w.op = "DeleteSubscription" /\ m.result \in {"Good", "BadSubscriptionIdInvalid"}))
  <2>1. Returned(e, m) = d
    BY <1>5, <1>21
  <2> QED
    BY <1>13, <2>1 DEF e
<1> QED
  BY <1>18, <1>19, <1>20, <1>21

\* What the client notes of a notification message m.
Notes(subs, got, missed, m, subs1, got1, missed1) ==
  /\ subs1 = [subs EXCEPT ![m.sub] = IF m.data THEN m.seq ELSE @]
  /\ missed1 = missed \cup {<<m.sub, n>> : n \in subs[m.sub] + 1..m.seq - 1}
  /\ got1 = IF m.data THEN got \cup {<<m.sub, m.seq>>} ELSE got

\* What must hold before, and what holds then.
Noting(D, subs, got, missed, m, srv) ==
  /\ D \in SUBSET Sub /\ subs \in [D -> Nat] /\ srv \in ServerRecord /\ m \in ResponseMsg
  /\ Noted(subs, got, missed, srv) /\ Numbered(srv.retrans \cup got \cup missed, srv)
  /\ Coming(m, subs, got, missed, srv) /\ m.sub \in D

NotesKept(D, subs, got, missed, m, srv, subs1, got1, missed1) ==
  /\ subs1 \in [D -> Nat] /\ missed1 \subseteq missed \cup Note /\ got1 \subseteq got \cup Note
  /\ Noted(subs1, got1, missed1, srv)
  /\ Numbered(srv.retrans \cup got1 \cup missed1, srv)
  /\ \A k \in ResponseMsg :
       /\ Coming(k, subs, got, missed, srv)
       /\ m.sub = k.sub => News(k) /\ m.seq <= k.seq /\ (m.data => m.seq < k.seq)
       => Coming(k, subs1, got1, missed1, srv)

\* What the client notes of a message agrees with the server and with the
\* messages behind it.
LEMMA NotesGrow ==
  ASSUME NEW D, NEW subs, NEW got, NEW missed, NEW srv, NEW m,
         Noting(D, subs, got, missed, m, srv),
         NEW subs1, NEW got1, NEW missed1, Notes(subs, got, missed, m, subs1, got1, missed1)
  PROVE  NotesKept(D, subs, got, missed, m, srv, subs1, got1, missed1)
<1> DEFINE s == m.sub
           old == subs[s]
<1>b. /\ D \in SUBSET Sub /\ subs \in [D -> Nat] /\ srv \in ServerRecord /\ m \in ResponseMsg
      /\ Noted(subs, got, missed, srv) /\ Numbered(srv.retrans \cup got \cup missed, srv)
      /\ Coming(m, subs, got, missed, srv) /\ m.sub \in D
  BY DEF Noting
<1>a. /\ subs1 = [subs EXCEPT ![m.sub] = IF m.data THEN m.seq ELSE @]
      /\ missed1 = missed \cup {<<m.sub, n>> : n \in subs[m.sub] + 1..m.seq - 1}
      /\ got1 = IF m.data THEN got \cup {<<m.sub, m.seq>>} ELSE got
  BY DEF Notes
<1>1. /\ s \in Nat /\ s # 0 /\ s \in D /\ s \in Sub
      /\ m.seq \in Nat /\ m.data \in BOOLEAN /\ old \in Nat
      /\ D = DOMAIN subs /\ srv.seq[s] \in Nat
  <2>1. s \in D /\ s \in Sub /\ D = DOMAIN subs /\ old \in Nat
    BY <1>b
  <2>2. s \in Nat /\ s # 0
    BY <2>1, BoundsAssumption DEF Sub
  <2>3. m.seq \in Nat /\ m.data \in BOOLEAN
    BY <1>b DEF ResponseMsg
  <2>4. srv.seq \in [Sub -> Nat]
    BY <1>b DEF ServerRecord
  <2> QED
    BY <2>1, <2>2, <2>3, <2>4
<1>2. /\ News(m) /\ m.seq > 0 /\ s <= srv.created /\ old < m.seq
      /\ m.seq <= srv.seq[s] + 1
      /\ m.data => m.seq <= srv.seq[s]
      /\ \A p \in missed : p[1] = s => p[2] < m.seq
  <2>1. ~Creation(m)
    BY <1>b, <1>1 DEF Coming
  <2>2. m.seq > 0
    BY <1>1, <2>1 DEF Creation
  <2> QED
    BY <1>b, <1>1, <2>2 DEF Coming, News
<1>3. /\ DOMAIN subs1 = D /\ subs1 \in [D -> Nat]
      /\ \A t \in D : t # s => subs1[t] = subs[t]
      /\ m.data => subs1[s] = m.seq
      /\ ~m.data => subs1[s] = old
  BY <1>a, <1>b, <1>1
<1>4. \A p \in missed1 : p \in missed \/ \E n \in old + 1..m.seq - 1 : p = <<s, n>>
  BY <1>a
<1>5. \A p \in got1 : p \in got \/ (m.data /\ p = <<s, m.seq>>)
  BY <1>a
<1>6. \A n \in old + 1..m.seq - 1 : /\ n \in Nat /\ n > 0 /\ n > old /\ n < m.seq /\ n <= srv.seq[s]
                                    /\ <<s, n>> \in missed1
  BY <1>a, <1>1, <1>2
<1>7. missed \subseteq missed1 /\ got \subseteq got1
  BY <1>a
<1>8. missed1 \subseteq missed \cup Note /\ got1 \subseteq got \cup Note
  BY <1>a, <1>1, <1>4, <1>5, <1>6 DEF Note
<1>9. /\ got \cap missed = {}
      /\ \A t \in D : /\ t <= srv.created /\ subs[t] <= srv.seq[t]
                      /\ \A n \in 1..subs[t] : <<t, n>> \in got \cup missed
                      /\ \A p \in got : p[1] = t => p[2] <= subs[t]
  BY <1>b, <1>1 DEF Noted
<1>10. got1 \cap missed1 = {}
  <2> SUFFICES ASSUME NEW p \in got1, p \in missed1 PROVE FALSE
    OBVIOUS
  <2>1. CASE p \in got /\ p \in missed
    BY <1>9, <2>1
  <2>2. ASSUME p \in got, NEW n \in old + 1..m.seq - 1, p = <<s, n>> PROVE FALSE
    <3>1. n <= old
      BY <1>1, <1>9, <2>2
    <3> QED
      BY <1>1, <1>6, <2>2, <3>1
  <2>3. ASSUME m.data, p = <<s, m.seq>>, p \in missed PROVE FALSE
    <3>1. m.seq < m.seq
      BY <1>2, <2>3
    <3> QED
      BY <1>1, <3>1
  <2>4. ASSUME m.data, p = <<s, m.seq>>, NEW n \in old + 1..m.seq - 1, p = <<s, n>> PROVE FALSE
    <3>1. n = m.seq
      BY <2>4
    <3> QED
      BY <1>1, <1>6, <3>1
  <2> QED
    BY <1>4, <1>5, <2>1, <2>2, <2>3, <2>4
<1>11. Noted(subs1, got1, missed1, srv)
  <2>1. ASSUME NEW t \in D
        PROVE  /\ t <= srv.created /\ subs1[t] <= srv.seq[t]
               /\ \A n \in 1..subs1[t] : <<t, n>> \in got1 \cup missed1
               /\ \A p \in got1 : p[1] = t => p[2] <= subs1[t]
    <3>1. CASE t # s
      <4>1. subs1[t] = subs[t]
        BY <1>3, <3>1
      <4>2. \A p \in got1 : p[1] = t => p \in got
        BY <1>5, <3>1
      <4> QED
        BY <1>7, <1>9, <4>1, <4>2
    <3>2. CASE t = s /\ ~m.data
      <4>1. subs1[t] = subs[t] /\ got1 = got
        BY <1>a, <1>3, <3>2
      <4> QED
        BY <1>7, <1>9, <4>1
    <3>3. CASE t = s /\ m.data
      <4>1. subs1[t] = m.seq /\ m.seq <= srv.seq[s]
        BY <1>2, <1>3, <3>3
      <4>2. ASSUME NEW n \in 1..m.seq PROVE <<s, n>> \in got1 \cup missed1
        <5>1. CASE n <= old
          <6>1. n \in 1..old
            BY <1>1, <5>1
          <6> QED
            BY <1>1, <1>7, <1>9, <6>1
        <5>2. CASE n > old /\ n < m.seq
          <6>1. n \in old + 1..m.seq - 1
            BY <1>1, <5>2
          <6> QED
            BY <1>6, <6>1
        <5>3. CASE n = m.seq
          BY <1>a, <3>3, <5>3
        <5> QED
          BY <1>1, <5>1, <5>2, <5>3
      <4>3. ASSUME NEW p \in got1, p[1] = s PROVE p[2] <= m.seq
        <5>1. CASE p \in got
          <6>1. p[2] <= old
            BY <1>1, <1>9, <4>3, <5>1
          <6>2. p[2] \in Nat
            <7>1. p[2] \in 1..srv.seq[p[1]]
              BY <1>b, <5>1 DEF Numbered
            <7> QED
              BY <1>1, <4>3, <7>1
          <6> QED
            BY <1>1, <1>2, <6>1, <6>2
        <5>2. CASE p = <<s, m.seq>>
          BY <1>1, <5>2
        <5> QED
          BY <1>5, <5>1, <5>2
      <4> QED
        BY <1>9, <3>3, <4>1, <4>2, <4>3
    <3> QED
      BY <1>1, <3>1, <3>2, <3>3
  <2> QED
    BY <1>3, <1>10, <2>1 DEF Noted
<1>12. Numbered(srv.retrans \cup got1 \cup missed1, srv)
  <2> SUFFICES ASSUME NEW p \in srv.retrans \cup got1 \cup missed1
               PROVE  p[1] <= srv.created /\ p[2] \in 1..srv.seq[p[1]]
    BY <1>b DEF Numbered
  <2>1. CASE p \in srv.retrans \cup got \cup missed
    BY <1>b, <2>1 DEF Numbered
  <2>2. CASE m.data /\ p = <<s, m.seq>>
    BY <1>1, <1>2, <2>2
  <2>3. ASSUME NEW n \in old + 1..m.seq - 1, p = <<s, n>>
        PROVE  p[1] <= srv.created /\ p[2] \in 1..srv.seq[p[1]]
    BY <1>1, <1>2, <1>6, <2>3
  <2> QED
    BY <1>4, <1>5, <2>1, <2>2, <2>3
<1>13. ASSUME NEW k \in ResponseMsg, Coming(k, subs, got, missed, srv),
              m.sub = k.sub => News(k) /\ m.seq <= k.seq /\ (m.data => m.seq < k.seq)
       PROVE  Coming(k, subs1, got1, missed1, srv)
  <2>1. k.seq \in Nat /\ k.sub \in Nat
    BY DEF ResponseMsg
  <2>2. CASE k.sub # s
    <3>1. /\ \A p \in missed1 : p[1] = k.sub => p \in missed
          /\ \A p \in got1 : p[1] = k.sub => p \in got
      BY <1>4, <1>5, <2>2
    <3>2. k.sub \in D => subs1[k.sub] = subs[k.sub]
      BY <1>3, <2>2
    <3> QED
      BY <1>1, <1>3, <1>13, <3>1, <3>2 DEF Coming
  <2>3. CASE k.sub = s
    <3>1. News(k) /\ m.seq <= k.seq /\ (m.data => m.seq < k.seq) /\ ~Creation(k)
      BY <1>13, <2>1, <2>3 DEF News, Creation
    <3>2. ASSUME NEW p \in missed1, p[1] = k.sub PROVE p[2] < k.seq
      <4>1. CASE p \in missed
        BY <1>13, <3>1, <3>2, <4>1 DEF Coming
      <4>2. ASSUME NEW n \in old + 1..m.seq - 1, p = <<s, n>> PROVE p[2] < k.seq
        BY <1>1, <1>6, <2>1, <3>1, <4>2
      <4> QED
        BY <1>4, <4>1, <4>2
    <3>3. subs1[s] < k.seq
      <4>1. old < k.seq
        BY <1>1, <1>2, <2>1, <3>1
      <4> QED
        BY <1>1, <1>3, <3>1, <4>1
    <3> QED
      BY <1>1, <1>3, <1>13, <2>3, <3>1, <3>2, <3>3 DEF Coming
  <2> QED
    BY <2>2, <2>3
<1> QED
  BY <1>3, <1>8, <1>11, <1>12, <1>13 DEF NotesKept


-----------------------------------------------------------------------------
(* Answers.                                                                  *)

\* The client when the first response is taken and call y, its, is out of the list.
Pop(c, y) == [[c EXCEPT !.in = Tail(@)] EXCEPT !.calls = Without(@, y)]

Answering(c, y) ==
  /\ Fine(c, server) /\ ServerInv(server) /\ c.channel = "OPEN" /\ c.in # <<>>
  /\ y \in Calls(c) /\ y.id = Head(c.in).id

\* The session does not change with it.
LEMMA PoppedSession ==
  ASSUME NEW c, NEW y, Answering(c, y)
  PROVE  LET d == Pop(c, y)
         IN  /\ d \in ClientRecord /\ d.acks \subseteq d.got
             /\ \A k : k # y.kind => (Pending(d, k) <=> Pending(c, k))
             /\ y.kind \in {"create", "activate", "check"} => ~Pending(d, y.kind)
             /\ \A x \in Calls(d) : Belongs(x.kind, c.session)
             /\ Single(Calls(d))
             /\ y.kind \notin {"create", "check"} => SessionInv(d)
             /\ y.kind # "publish" => CountInv(d)
             /\ y.kind \notin {"create", "check", "publish"} => Weak(d, server)
<1> DEFINE d == Pop(c, y)
<1>1. /\ Core(d, server) /\ Calls(d) = Calls(c) \ {y} /\ SameNotes(c, d)
      /\ d.channel = c.channel /\ d.waiting = c.waiting
      /\ d.session = c.session /\ d.outstanding = c.outstanding /\ d.limit = c.limit
      /\ d.acks = c.acks /\ d.checking = c.checking
      /\ y.kind # "publish" => Cardinality(Published(Calls(d))) = Cardinality(Published(Calls(c)))
  <2> DEFINE p == Cardinality(Published(Calls(c)))
             q == Cardinality(Published(Calls(d)))
  <2>1. /\ Fine(c, server) /\ c.channel = "OPEN" /\ c.in # <<>> /\ y \in Calls(c)
        /\ y.id = Head(c.in).id
    BY DEF Answering
  <2>2. /\ Core(d, server) /\ Calls(d) = Calls(c) \ {y} /\ SameNotes(c, d)
        /\ d.channel = c.channel /\ d.waiting = c.waiting
        /\ d.session = c.session /\ d.outstanding = c.outstanding /\ d.limit = c.limit
        /\ d.acks = c.acks /\ d.checking = c.checking
    BY <2>1, Popped DEF Pop
  <2>3. q = IF y.kind = "publish" THEN p - 1 ELSE p
    BY <2>1, Popped, Zenon DEF Pop
  <2>4. y.kind # "publish" => q = p
    BY <2>3, Zenon
  <2> QED
    BY <2>2, <2>4
<1>2. y \in Calls(c) /\ SessionInv(c) /\ CountInv(c) /\ c.channel = "OPEN"
  BY DEF Answering, Fine, Weak
<1> HIDE DEF d
<1>3. d \in ClientRecord /\ d.acks \subseteq d.got
  BY <1>1 DEF Core, NotesInv
<1>4. \A k : k # y.kind => (Pending(d, k) <=> Pending(c, k))
  BY <1>1, <1>2 DEF Pending, Calls
<1>5. Single(Calls(c)) /\ \A x \in Calls(c) : Belongs(x.kind, c.session)
  BY <1>2 DEF SessionInv
<1>6. Single(Calls(d)) /\ \A x \in Calls(d) : Belongs(x.kind, c.session)
  BY <1>1, <1>5 DEF Single
<1>7. y.kind \in {"create", "activate", "check"} => ~Pending(d, y.kind)
  BY <1>1, <1>2, <1>5 DEF Pending, Calls, Single
<1>8. ASSUME y.kind \notin {"create", "check"} PROVE SessionInv(d)
  <2>1. (Pending(d, "create") <=> Pending(c, "create")) /\ (Pending(d, "check") <=> Pending(c, "check"))
    BY <1>4, <1>8
  <2> QED
    BY <1>1, <1>2, <1>6, <2>1 DEF SessionInv, SameNotes
<1>9. y.kind # "publish" => CountInv(d)
  BY <1>1, <1>2 DEF CountInv
<1> QED
  BY <1>1, <1>3, <1>4, <1>6, <1>7, <1>8, <1>9 DEF Weak, d

\* One publish request less is outstanding; behind a message that there are too
\* many there still are as many as the server keeps.
LEMMA LessOutstanding ==
  ASSUME NEW c, NEW y, Answering(c, y), y.kind = "publish"
  PROVE  LET e == OneLess(Pop(c, y))
         IN  /\ Fine(e, server) /\ e.in = Tail(c.in) /\ In(e) = In(c) \ {Head(c.in)}
             /\ SameNotes(c, e) /\ e.channel = "OPEN" /\ e.waiting = c.waiting
             /\ e.session = c.session /\ e.session \in {"ACTIVATED", "CLOSING"}
             /\ e.outstanding < e.limit
             /\ Head(c.in).result = "BadTooManyPublishRequests" => MaxParked <= e.outstanding
<1> DEFINE d == Pop(c, y)
           e == OneLess(d)
           m == Head(c.in)
           p == Cardinality(Published(Calls(c)))
<1>1. /\ Core(d, server) /\ Calls(d) = Calls(c) \ {y} /\ SameNotes(c, d)
      /\ d.channel = c.channel /\ d.waiting = c.waiting
      /\ d.in = Tail(c.in) /\ In(d) = In(c) \ {m}
      /\ d.session = c.session /\ d.outstanding = c.outstanding /\ d.limit = c.limit
      /\ d.acks = c.acks /\ d.checking = c.checking
      /\ Cardinality(Published(Calls(d))) = p - 1
      /\ OpenPart(d, server)
  <2>1. /\ Fine(c, server) /\ c.channel = "OPEN" /\ c.in # <<>> /\ y \in Calls(c)
        /\ y.id = Head(c.in).id
    BY DEF Answering
  <2>2. /\ Core(d, server) /\ Calls(d) = Calls(c) \ {y} /\ SameNotes(c, d)
        /\ d.channel = c.channel /\ d.waiting = c.waiting
        /\ d.in = Tail(c.in) /\ In(d) = In(c) \ {m}
        /\ d.session = c.session /\ d.outstanding = c.outstanding /\ d.limit = c.limit
        /\ d.acks = c.acks /\ d.checking = c.checking
    BY <2>1, Popped DEF Pop
  <2>3. y.kind = "publish" => Cardinality(Published(Calls(d))) = p - 1
    <3> DEFINE q == Cardinality(Published(Calls(d)))
    <3>1. q = IF y.kind = "publish" THEN p - 1 ELSE p
      BY <2>1, Popped, Zenon DEF Pop
    <3> HIDE DEF p
    <3> QED
      BY <3>1, Zenon
  <2>4. y.kind # "activate" => OpenPart(d, server)
    BY <2>1, Popped DEF Pop
  <2> QED
    BY <2>2, <2>3, <2>4
<1>2. d \in ClientRecord /\ d.acks \subseteq d.got /\ SessionInv(d)
  BY PoppedSession
<1> HIDE DEF d
<1>3. /\ e \in ClientRecord /\ SameWire(d, e) /\ SameNotes(d, e) /\ SameBase(d, e)
      /\ e.session = d.session /\ e.outstanding = d.outstanding - 1 /\ e.checking = d.checking
  BY <1>2, OneLessFields
<1> HIDE DEF e
<1>4. Core(e, server) /\ OpenPart(e, server)
  BY <1>1, <1>2, <1>3, CoreFrame, OpenFrame DEF SameBase
<1>5. /\ y \in Calls(c) /\ y.id = m.id /\ c \in ClientRecord /\ Listed(c) /\ CountInv(c)
      /\ c.channel = "OPEN" /\ c.in # <<>> /\ ManyInv(c) /\ Belongs(y.kind, c.session)
  BY DEF Answering, Fine, Weak, Core, SessionInv, OpenPart
<1>6. c.outstanding \in Int /\ c.limit \in Nat /\ c.limit > 0 /\ p \in Nat
      /\ Wanted \in Nat /\ MaxParked \in Nat
  BY <1>5, CountTypes, PublishedFacts, BoundsAssumption DEF Listed
<1>7. Calls(e) = Calls(d) /\ e.limit = c.limit /\ e.outstanding = c.outstanding - 1
      /\ \A kind : Pending(e, kind) <=> Pending(d, kind)
  BY <1>1, <1>3 DEF SameWire, SameBase, Calls, Pending
<1>8. SessionInv(e)
  BY <1>2, <1>3, <1>7 DEF SessionInv, SameWire, SameNotes, SameBase
<1>9. p <= c.outstanding /\ (~SendMayFail => c.outstanding = p) /\ c.outstanding <= c.limit
      /\ (Wanted <= c.limit \/ MaxParked <= c.limit)
  BY <1>5 DEF CountInv
<1>10. CountInv(e) /\ e.outstanding < e.limit
  <2> DEFINE pe == Cardinality(Published(Calls(e)))
  <2>1. pe = p - 1
    BY <1>1, <1>7
  <2> HIDE DEF pe, p
  <2>2. /\ pe <= e.outstanding /\ (~SendMayFail => e.outstanding = pe)
        /\ e.outstanding <= e.limit /\ e.outstanding < e.limit
        /\ (Wanted <= e.limit \/ MaxParked <= e.limit)
    BY <1>6, <1>7, <1>9, <2>1
  <2> QED
    BY <2>2 DEF CountInv, pe
<1>11. ASSUME m.result = "BadTooManyPublishRequests" PROVE MaxParked <= e.outstanding
  <2> DEFINE U == Unanswered(c, 1)
             D == Published(Calls(d))
  <2>1. c.in \in Seq(ResponseMsg)
    BY <1>5 DEF ClientRecord
  <2>2. 1 \in DOMAIN c.in /\ c.in[1] = m
    BY <1>5, <2>1
  <2>3. MaxParked <= Cardinality(U)
    BY <1>5, <1>11, <2>2 DEF ManyInv
  <2>4. U \subseteq D
    <3>1. \A x \in U : x.id # y.id
      BY <1>5, <2>2 DEF Unanswered
    <3> QED
      BY <1>1, <3>1 DEF Unanswered, Published
  <2>5. IsFiniteSet(D) /\ Cardinality(D) = p - 1
    <3>1. Listed(d)
      BY <1>1 DEF Core
    <3> QED
      BY <1>1, <1>2, <3>1, PublishedFacts DEF Listed
  <2> HIDE DEF U, D
  <2>6. IsFiniteSet(U) /\ Cardinality(U) \in Nat /\ Cardinality(U) <= Cardinality(D)
    BY <2>4, <2>5, FS_Subset, FS_CardinalityType
  <2> HIDE DEF p
  <2> QED
    BY <1>6, <1>7, <1>9, <2>3, <2>5, <2>6
<1>12. e.session \in {"ACTIVATED", "CLOSING"}
  BY <1>1, <1>3, <1>5 DEF Belongs
<1> QED
  BY <1>1, <1>3, <1>4, <1>5, <1>8, <1>10, <1>11, <1>12
     DEF Fine, Weak, SameWire, SameNotes, In, e, d, m

\* The client asks for one request less.
LEMMA Lowers ==
  ASSUME NEW c, NEW y, Answering(c, y), y.kind = "publish",
         Head(c.in).result = "BadTooManyPublishRequests"
  PROVE  LET f == Lowered(OneLess(Pop(c, y)))
         IN  Fine(f, server) /\ f.channel # "OPENING"
<1> DEFINE e == OneLess(Pop(c, y))
           f == Lowered(e)
<1>1. /\ Fine(e, server) /\ e.channel = "OPEN"
      /\ e.outstanding < e.limit /\ MaxParked <= e.outstanding
  BY LessOutstanding
<1> HIDE DEF e
<1>2. /\ e \in ClientRecord /\ Core(e, server) /\ SessionInv(e) /\ CountInv(e)
      /\ OpenPart(e, server) /\ e.acks \subseteq e.got
  BY <1>1 DEF Fine, Weak, Core, NotesInv
<1>3. /\ e.outstanding \in Int /\ e.limit \in 1..Wanted
      /\ Wanted \in Nat /\ MaxParked \in Nat /\ MaxParked > 0
  BY <1>2, CountTypes, BoundsAssumption DEF ClientRecord
<1>4. e.limit > 1 /\ e.limit - 1 \in 1..Wanted /\ e.outstanding <= e.limit - 1
      /\ MaxParked <= e.limit - 1
  BY <1>1, <1>3
<1>5. f = [e EXCEPT !.limit = e.limit - 1]
  BY <1>4 DEF Lowered
<1> DEFINE l == e.limit - 1
<1>6. l \in 1..Wanted /\ e.outstanding <= l /\ MaxParked <= l /\ f = [e EXCEPT !.limit = l]
  BY <1>4, <1>5
<1> HIDE DEF l, f
<1>7. /\ f \in ClientRecord /\ SameWire(e, f) /\ SameNotes(e, f) /\ f.acks = e.acks
      /\ f.session = e.session /\ f.outstanding = e.outstanding /\ f.limit = l
      /\ f.checking = e.checking
  BY <1>2, <1>6 DEF ClientRecord, SameWire, SameNotes
<1>8. Core(f, server) /\ OpenPart(f, server)
  BY <1>2, <1>7, CoreFrame, OpenFrame
<1>9. Calls(f) = Calls(e) /\ \A kind : Pending(f, kind) <=> Pending(e, kind)
  BY <1>7 DEF SameWire, Calls, Pending
<1>10. SessionInv(f)
  BY <1>2, <1>7, <1>9 DEF SessionInv, SameWire, SameNotes
<1>11. CountInv(f)
  BY <1>2, <1>6, <1>7, <1>9 DEF CountInv
<1> QED
  BY <1>1, <1>7, <1>8, <1>10, <1>11 DEF Fine, Weak, SameWire, e, f

\* UA_Client_disconnect.
LEMMA DisconnectSteps ==
  ASSUME NEW c, Fine(c, server), ServerInv(server), NEW d \in Disconnecting(c)
  PROVE  Fine(d, server) /\ d.channel # "OPENING" /\ (d.channel = "OPEN" \/ d.waiting = c.waiting)
<1>1. /\ Weak(c, server) /\ Core(c, server) /\ SessionInv(c) /\ CountInv(c)
      /\ c \in ClientRecord /\ c.acks \subseteq c.got /\ server \in ServerRecord
  BY DEF Fine, Weak, Core, NotesInv, ServerInv
<1>2. CASE d = Disconnected(c)
  BY <1>1, <1>2, Disconnects, IdleFine
<1> DEFINE b == [c EXCEPT !.session = "CLOSING"]
<1>3. ASSUME c.session = "ACTIVATED"
      PROVE  /\ Weak(b, server) /\ OpenPart(b, server) /\ b.channel = "OPEN"
             /\ b.waiting = c.waiting /\ b.session = "CLOSING"
  <2>1. "CLOSING" \in DOMAIN SessionRank /\ c.channel = "OPEN"
    BY <1>1, <1>3, SessionStates DEF SessionInv
  <2>2. /\ b \in ClientRecord /\ SameWire(c, b) /\ SameNotes(c, b) /\ b.acks = c.acks
        /\ b.session = "CLOSING" /\ b.outstanding = c.outstanding /\ b.limit = c.limit
        /\ b.checking = c.checking
    BY <1>1, <2>1 DEF ClientRecord, SameWire, SameNotes
  <2> HIDE DEF b
  <2>3. Core(b, server) /\ OpenPart(b, server)
    BY <1>1, <2>1, <2>2, CoreFrame, OpenFrame DEF Fine
  <2>4. Calls(b) = Calls(c) /\ \A kind : Pending(b, kind) <=> Pending(c, kind)
    BY <2>2 DEF SameWire, Calls, Pending
  <2>5. SessionInv(b)
    <3>1. \A x \in Calls(b) : Belongs(x.kind, b.session)
      BY <1>1, <1>3, <2>2, <2>4 DEF SessionInv, Belongs
    <3> QED
      BY <1>1, <2>1, <2>2, <2>4, <3>1 DEF SessionInv, SameWire
  <2>6. CountInv(b)
    BY <1>1, <2>2, <2>4 DEF CountInv
  <2> QED
    BY <2>1, <2>2, <2>3, <2>5, <2>6 DEF Weak, SameWire
<1>4. CASE c.session = "ACTIVATED" /\ d = Service(b, "CloseSession", 0)
  <2> HIDE DEF b
  <2>1. Core(b, server) /\ SessionInv(b) /\ CountInv(b)
    BY <1>3, <1>4 DEF Weak
  <2>2. "CloseSession" \in Ops /\ 0 \in Nat /\ "CloseSession" # "CreateSubscription"
    BY DEF Ops
  <2>3. /\ Core(d, server) /\ OpenPart(d, server) /\ SameNotes(b, d) /\ d.calls = b.calls
        /\ d.channel = b.channel /\ d.session = b.session /\ d.outstanding = b.outstanding
        /\ d.limit = b.limit /\ d.acks = b.acks /\ d.checking = b.checking
    BY <1>1, <1>3, <1>4, <2>1, <2>2, Served
  <2>4. Calls(d) = Calls(b) /\ \A kind : Pending(d, kind) <=> Pending(b, kind)
    BY <2>3 DEF Calls, Pending
  <2>5. SessionInv(d)
    BY <1>3, <1>4, <2>1, <2>3, <2>4 DEF SessionInv, SameNotes
  <2>6. CountInv(d)
    BY <2>1, <2>3, <2>4 DEF CountInv
  <2> QED
    BY <1>3, <1>4, <2>3, <2>5, <2>6 DEF Fine, Weak
<1>5. CASE c.session = "ACTIVATED" /\ d = Disconnected(b)
  <2> HIDE DEF b
  <2> QED
    BY <1>3, <1>5, Disconnects, IdleFine
<1> QED
  BY <1>2, <1>4, <1>5 DEF Disconnecting

\* A notification message is processed.
LEMMA Notifies ==
  ASSUME NEW c, NEW y, Answering(c, y), y.kind = "publish",
         Head(c.in).sub \in DOMAIN c.subs
  PROVE  LET f == Notified(OneLess(Pop(c, y)), Head(c.in))
         IN  Fine(f, server) /\ f.channel # "OPENING"
<1> DEFINE e == OneLess(Pop(c, y))
           m == Head(c.in)
           f == Notified(e, m)
           D == DOMAIN c.subs
           subs == [c.subs EXCEPT ![m.sub] = IF m.data THEN m.seq ELSE @]
           missed == c.missed \cup {<<m.sub, n>> : n \in c.subs[m.sub] + 1..m.seq - 1}
           got == IF m.data THEN c.got \cup {<<m.sub, m.seq>>} ELSE c.got
           acks == IF m.seq \in m.avail THEN e.acks \cup {<<m.sub, m.seq>>} ELSE e.acks
<1>1. /\ Fine(e, server) /\ e.in = Tail(c.in) /\ In(e) = In(c) \ {m}
      /\ SameNotes(c, e) /\ e.channel = "OPEN" /\ e.session \in {"ACTIVATED", "CLOSING"}
  BY LessOutstanding
<1> HIDE DEF e
<1>2. /\ Core(c, server) /\ c \in ClientRecord /\ Listed(c) /\ NotesInv(c, server)
      /\ c.in # <<>> /\ server \in ServerRecord /\ InOrder(c.in)
  BY DEF Answering, Fine, Weak, Core, ServerInv, NotesInv
<1>3. /\ e \in ClientRecord /\ Listed(e) /\ LinkInv(e, server) /\ WireInv(e, server)
      /\ NotesInv(e, server) /\ SessionInv(e) /\ CountInv(e) /\ OpenPart(e, server)
  BY <1>1 DEF Fine, Weak, Core
<1>4. e.subs = c.subs /\ e.got = c.got /\ e.missed = c.missed
  BY <1>1 DEF SameNotes
<1>5. f = [e EXCEPT !.subs = subs, !.missed = missed, !.got = got, !.acks = acks]
  BY <1>4 DEF Notified, Expected
<1>6. D \in SUBSET Sub /\ c.subs \in [D -> Nat] /\ m.sub \in D /\ m.sub \in Sub
  BY <1>2 DEF ClientRecord, Numbers
<1>7. c.in \in Seq(ResponseMsg) /\ IsInjective(c.in)
  BY <1>2 DEF ClientRecord, Listed
<1>8. m \in In(c) /\ m \in ResponseMsg
  BY <1>2, <1>7, TailFacts DEF In
<1>9. Coming(m, c.subs, c.got, c.missed, server)
  BY <1>2, <1>8 DEF NotesInv
<1>10. /\ Noted(c.subs, c.got, c.missed, server)
       /\ Numbered(server.retrans \cup c.got \cup c.missed, server)
       /\ Kept(c.got, server)
  BY <1>2 DEF NotesInv
<1>11. /\ subs \in [D -> Nat] /\ missed \subseteq c.missed \cup Note /\ got \subseteq c.got \cup Note
       /\ Noted(subs, got, missed, server)
       /\ Numbered(server.retrans \cup got \cup missed, server)
       /\ \A k \in ResponseMsg :
            /\ Coming(k, c.subs, c.got, c.missed, server)
            /\ m.sub = k.sub => News(k) /\ m.seq <= k.seq /\ (m.data => m.seq < k.seq)
            => Coming(k, subs, got, missed, server)
  <2>1. Notes(c.subs, c.got, c.missed, m, subs, got, missed)
    BY DEF Notes
  <2> HIDE DEF m, D, subs, missed, got
  <2>2. Noting(D, c.subs, c.got, c.missed, m, server)
    BY <1>2, <1>6, <1>8, <1>9, <1>10 DEF Noting
  <2>3. NotesKept(D, c.subs, c.got, c.missed, m, server, subs, got, missed)
    BY <2>1, <2>2, NotesGrow
  <2> QED
    BY <2>3 DEF NotesKept
<1>12. /\ e.acks \subseteq c.got /\ \A r \in Out(e) : r.acks \subseteq c.got
       /\ c.got \subseteq Note /\ c.missed \subseteq Note
  BY <1>2, <1>3, <1>4 DEF NotesInv, ClientRecord
<1>13. News(m) /\ (m.seq \in m.avail => m.data)
  <2>1. m.sub # 0
    BY <1>6, BoundsAssumption DEF Sub
  <2>2. ~Creation(m)
    BY <1>6, <1>9 DEF Coming
  <2>3. m.seq \in Nat
    BY <1>8 DEF ResponseMsg
  <2>4. News(m)
    BY <2>1, <2>2, <2>3 DEF Creation, News
  <2> QED
    BY <1>9, <2>4 DEF Coming
<1>14. c.got \subseteq got /\ got \subseteq Note /\ missed \subseteq Note /\ acks \subseteq got
  BY <1>11, <1>12, <1>13
<1>15. subs \in Numbers
  BY <1>6, <1>11 DEF Numbers
<1> HIDE DEF f, subs, missed, got, acks
<1>16. /\ f \in ClientRecord /\ SameWire(e, f)
       /\ f.session = e.session /\ f.outstanding = e.outstanding /\ f.limit = e.limit
       /\ f.checking = e.checking
       /\ f.subs = subs /\ f.got = got /\ f.missed = missed /\ f.acks = acks
  BY <1>3, <1>5, <1>14, <1>15 DEF ClientRecord, SameWire
<1>17. /\ Calls(f) = Calls(e) /\ Out(f) = Out(e) /\ In(f) = In(e) /\ Waits(f) = Waits(e)
       /\ \A kind : Pending(f, kind) <=> Pending(e, kind)
  BY <1>16 DEF SameWire, Calls, Out, In, Waits, Pending
<1>18. Listed(f) /\ LinkInv(f, server) /\ WireInv(f, server)
  BY <1>3, <1>16, <1>17 DEF Listed, LinkInv, WireInv, SameWire
<1>19. NotesInv(f, server)
  <2>1. Kept(got, server)
    BY <1>10, <1>14 DEF Kept
  <2>2. ASSUME NEW k \in In(f) PROVE Coming(k, subs, got, missed, server)
    <3>1. k \in In(c) /\ k \in ToSet(Tail(c.in))
      BY <1>1, <1>17, <2>2 DEF In
    <3>2. k \in ResponseMsg
      BY <1>7, <3>1, ToSetFacts DEF In
    <3>3. m.sub # 0
      BY <1>6, BoundsAssumption DEF Sub
    <3>4. m.sub = k.sub => News(k) /\ m.seq <= k.seq /\ (m.data => m.seq < k.seq)
      BY <1>2, <1>7, <3>1, <3>3, TakenFacts
    <3>5. Coming(k, c.subs, c.got, c.missed, server)
      BY <1>2, <3>1 DEF NotesInv
    <3> QED
      BY <1>11, <3>2, <3>4, <3>5
  <2>3. InOrder(f.in)
    BY <1>3, <1>16 DEF NotesInv, SameWire
  <2>4. \A r \in Out(f) : r.acks \subseteq got
    BY <1>12, <1>14, <1>17
  <2> QED
    BY <1>11, <1>14, <1>16, <2>1, <2>2, <2>3, <2>4 DEF NotesInv
<1>20. SessionInv(f)
  BY <1>1, <1>3, <1>16, <1>17 DEF SessionInv, SameWire
<1>21. CountInv(f)
  BY <1>3, <1>16, <1>17 DEF CountInv
<1>22. OpenPart(f, server)
  BY <1>3, <1>16, OpenFrame
<1> QED
  BY <1>1, <1>16, <1>18, <1>19, <1>20, <1>21, <1>22 DEF Fine, Weak, Core, SameWire, e, f

\* A publish request is answered.
LEMMA PublishAnswered ==
  ASSUME NEW c, NEW y, Answering(c, y), y.kind = "publish",
         NEW d \in ProcessPublishResponse(Pop(c, y), Head(c.in))
  PROVE  Fine(d, server) /\ d.channel # "OPENING"
<1> DEFINE e == OneLess(Pop(c, y))
           m == Head(c.in)
<1>1. Fine(e, server) /\ e.channel = "OPEN" /\ SameNotes(c, e) /\ ServerInv(server)
  BY LessOutstanding DEF Answering
<1>2. CASE m.result = "BadTooManyPublishRequests"
  <2>1. d = Lowered(e)
    BY <1>2 DEF ProcessPublishResponse
  <2> QED
    BY <1>2, <2>1, Lowers
<1>3. CASE d \in Disconnecting(e)
  <2> HIDE DEF e
  <2> QED
    BY <1>1, <1>3, DisconnectSteps
<1>4. CASE m.sub \in DOMAIN e.subs /\ d = Notified(e, m)
  <2>1. m.sub \in DOMAIN c.subs
    BY <1>1, <1>4 DEF SameNotes
  <2> QED
    BY <1>4, <2>1, Notifies
<1>5. CASE d = e
  BY <1>1, <1>5
<1> HIDE DEF e, m
<1>6. \/ m.result = "BadTooManyPublishRequests"
      \/ d \in Disconnecting(e)
      \/ m.sub \in DOMAIN e.subs /\ d = Notified(e, m)
      \/ d = e
  <2>1. m.result = "BadTooManyPublishRequests" \/ d \in Disconnecting(e) \/ d = e
        \/ (m.sub \in DOMAIN e.subs /\ d = Notified(e, m))
    BY DEF ProcessPublishResponse, e, m
  <2> QED
    BY <2>1
<1> QED
  BY <1>2, <1>3, <1>4, <1>5, <1>6

\* The answer to the activation of the session.
LEMMA Activates ==
  ASSUME NEW c, NEW y, Answering(c, y), y.kind = "activate",
         NEW d \in ActivateAnswered(Pop(c, y), Head(c.in))
  PROVE  Fine(d, server) /\ d.channel # "OPENING"
<1> DEFINE b == Pop(c, y)
           m == Head(c.in)
<1>1. /\ Core(b, server) /\ Calls(b) = Calls(c) \ {y} /\ SameNotes(c, b)
      /\ b.channel = c.channel /\ b.waiting = c.waiting /\ b.in = Tail(c.in)
      /\ b.session = c.session /\ b.acks = c.acks
      /\ ManyInv(b) /\ (server.channel => AskedInv(b, server))
  <2>1. /\ Fine(c, server) /\ c.channel = "OPEN" /\ c.in # <<>> /\ y \in Calls(c)
        /\ y.id = Head(c.in).id
    BY DEF Answering
  <2> QED
    BY <2>1, Popped DEF Pop
<1>2. Weak(b, server) /\ b \in ClientRecord /\ ~Pending(b, "activate") /\ SessionInv(b)
  BY PoppedSession
<1> HIDE DEF b
<1>3. /\ y \in Calls(c) /\ y.id = m.id /\ c \in ClientRecord /\ LinkInv(c, server)
      /\ c.channel = "OPEN" /\ c.in # <<>> /\ Belongs(y.kind, c.session) /\ OpenPart(c, server)
      /\ Single(Calls(c)) /\ ServerInv(server)
  BY DEF Answering, Fine, Weak, Core, SessionInv
<1>4. c.session = "ACTIVATE_REQUESTED" /\ c.waiting = <<>>
  BY <1>3 DEF Belongs, OpenPart
<1>5. CASE m.result = "Good"
  <2> DEFINE f == [b EXCEPT !.session = "ACTIVATED"]
  <2>1. d = f
    BY <1>5 DEF ActivateAnswered, b
  <2>2. "ACTIVATED" \in DOMAIN SessionRank
    BY SessionStates
  <2>3. /\ f \in ClientRecord /\ SameWire(b, f) /\ SameNotes(b, f) /\ f.acks = b.acks
        /\ f.session = "ACTIVATED" /\ f.outstanding = b.outstanding /\ f.limit = b.limit
        /\ f.checking = b.checking /\ f.channel = "OPEN"
    BY <1>1, <1>2, <1>3, <2>2 DEF ClientRecord, SameWire, SameNotes
  <2> HIDE DEF f
  <2>4. Core(f, server)
    <3>1. b.acks \subseteq b.got
      BY <1>1 DEF Core, NotesInv
    <3> QED
      BY <1>1, <2>3, <3>1, CoreFrame
  <2>5. /\ Calls(f) = Calls(b) /\ In(f) = In(b) /\ Out(f) = Out(b) /\ Waits(f) = Waits(b)
        /\ \A kind : Pending(f, kind) <=> Pending(b, kind)
    BY <2>3 DEF SameWire, Calls, In, Out, Waits, Pending
  <2>6. SessionInv(f)
    <3>1. \A x \in Calls(f) : Belongs(x.kind, f.session)
      <4>1. \A x \in Calls(b) : Belongs(x.kind, b.session) /\ x.kind # "activate"
        BY <1>2 DEF SessionInv, Pending, Calls
      <4> QED
        BY <1>1, <1>4, <2>3, <2>5, <4>1 DEF Belongs
    <3> QED
      BY <1>2, <2>3, <2>5, <3>1 DEF SessionInv
  <2>7. CountInv(f)
    BY <1>2, <2>3, <2>5 DEF CountInv, Weak
  <2>8. ManyInv(f)
    <3>1. f.in = b.in /\ \A i : Unanswered(f, i) = Unanswered(b, i)
      BY <2>3, <2>5 DEF Unanswered, SameWire
    <3> QED
      BY <1>1, <3>1 DEF ManyInv
  <2>9. OpenPart(f, server)
    BY <1>1, <2>3, <2>5, <2>8 DEF OpenPart, AskedInv
  <2> QED
    BY <2>1, <2>3, <2>4, <2>6, <2>7, <2>9 DEF Fine, Weak
<1> DEFINE e == SessionClosed(b)
<1>6. /\ Weak(e, server) /\ e.channel = "OPEN" /\ e.waiting = <<>> /\ e.in = b.in
      /\ e.calls = <<>> /\ e.out = b.out /\ e.session = "CLOSED"
  BY <1>1, <1>2, <1>3, <1>4, SessionCloses
<1> HIDE DEF e
<1>7. ASSUME m.result # "Good" PROVE Fine(e, server)
  <2>1. \A x \in Calls(b) : x.kind \notin {"create", "activate", "publish"}
    <3>1. \A x \in Calls(b) : Belongs(x.kind, b.session) /\ x.kind # "activate"
      BY <1>2 DEF SessionInv, Pending, Calls
    <3> QED
      BY <1>1, <1>4, <3>1 DEF Belongs
  <2>2. Published(Calls(b)) = {}
    BY <2>1 DEF Published
  <2>3. Calls(e) = {} /\ Waits(e) = {} /\ In(e) = In(b) /\ Out(e) = Out(b) /\ Waits(b) = {}
    <3>1. <<>> \in Seq(Call)
      BY EmptySeq
    <3> QED
      BY <1>1, <1>4, <1>6, <3>1, ToSetFacts DEF Calls, Waits, In, Out
  <2>4. ManyInv(e)
    <3> SUFFICES ASSUME NEW i \in DOMAIN e.in, e.in[i].result = "BadTooManyPublishRequests"
                 PROVE  FALSE
      BY DEF ManyInv
    <3>1. MaxParked <= Cardinality(Unanswered(b, i))
      BY <1>1, <1>6 DEF ManyInv
    <3>2. Unanswered(b, i) = {}
      BY <2>2 DEF Unanswered
    <3> QED
      BY <3>1, <3>2, FS_EmptySet, BoundsAssumption
  <2>5. server.channel => AskedInv(e, server)
    BY <1>1, <2>1, <2>3 DEF AskedInv, Asked
  <2>6. server.channel => ~UsableAt(server)
    <3> SUFFICES ASSUME server.channel, UsableAt(server) PROVE FALSE
      OBVIOUS
    <3>1. PICK x \in Calls(c), n \in In(c) : x.kind = "activate" /\ n.id = x.id /\ n.result = "Good"
      BY <1>3, <1>4 DEF OpenPart, Activating
    <3>2. x = y
      BY <1>3, <3>1 DEF Single
    <3>3. m \in In(c)
      <4>1. c.in \in Seq(ResponseMsg)
        BY <1>3 DEF ClientRecord
      <4>2. c.in[1] \in ToSet(c.in) /\ c.in[1] = m
        BY <1>3, <4>1, ToSetFacts
      <4> QED
        BY <4>2 DEF In
    <3>4. n = m
      BY <1>3, <3>1, <3>2, <3>3 DEF LinkInv, Link, Unique
    <3> QED
      BY <1>7, <3>1, <3>4
  <2> QED
    BY <1>6, <2>4, <2>5, <2>6 DEF Fine, OpenPart
<1>8. CASE m.result # "Good" /\ d = [AsyncService(e, "create", {}) EXCEPT !.session = "CREATE_REQUESTED"]
  <2> DEFINE a == AsyncService(e, "create", {})
  <2>1. /\ e \in ClientRecord /\ Listed(e) /\ server \in ServerRecord /\ SessionInv(e)
    BY <1>3, <1>6 DEF Weak, Core, ServerInv
  <2>2. /\ a \in ClientRecord /\ SameNotes(e, a) /\ a.acks = e.acks /\ a.channel = e.channel
        /\ a.outstanding = e.outstanding /\ a.limit = e.limit /\ a.checking = e.checking
    <3>1. {} \in SUBSET Note /\ "create" \in Kinds
      BY DEF Kinds
    <3> QED
      BY <2>1, <3>1, AsyncFields
  <2> HIDE DEF a
  <2>3. "CREATE_REQUESTED" \in DOMAIN SessionRank
    BY SessionStates
  <2>4. /\ d \in ClientRecord /\ SameWire(a, d) /\ SameNotes(e, d) /\ d.acks = e.acks
        /\ d.session = "CREATE_REQUESTED" /\ d.outstanding = e.outstanding
        /\ d.limit = e.limit /\ d.checking = e.checking /\ d.channel = "OPEN"
    BY <1>6, <1>8, <2>2, <2>3 DEF ClientRecord, SameWire, SameNotes, a
  <2>5. "create" \in Kinds \ {"publish"} /\ Belongs("create", "CREATE_REQUESTED")
    BY DEF Kinds, Belongs
  <2>6. Calls(e) = {} /\ ~Pending(e, "create")
    <3>1. <<>> \in Seq(Call)
      BY EmptySeq
    <3> QED
      BY <1>6, <3>1, ToSetFacts DEF Calls, Pending
  <2>7. e.subs = NoSubs /\ e.acks = {}
    BY <1>6, <2>1 DEF SessionInv
  <2>8. Fine(d, server)
    BY <1>3, <1>6, <1>7, <1>8, <2>3, <2>4, <2>5, <2>6, <2>7, Asks DEF a
  <2> QED
    BY <2>4, <2>8
<1>9. CASE d = CloseSecureChannel(e)
  BY <1>3, <1>6, <1>9, ChannelIdle, IdleFine
<1> QED
  BY <1>5, <1>8, <1>9 DEF ActivateAnswered, b, e

\* The other answers.
LEMMA Found ==
  ASSUME NEW c, NEW y, Answering(c, y), y.kind = "find"
  PROVE  LET d == ServersFound(Pop(c, y), Head(c.in))
         IN  Fine(d, server) /\ d.channel # "OPENING"
<1> DEFINE b == Pop(c, y)
           m == Head(c.in)
<1>1. Weak(b, server) /\ b \in ClientRecord
  BY PoppedSession
<1>2. OpenPart(b, server) /\ b.channel = "OPEN"
  <2>1. /\ Fine(c, server) /\ c.channel = "OPEN" /\ c.in # <<>> /\ y \in Calls(c)
        /\ y.id = Head(c.in).id /\ y.kind # "activate"
    BY DEF Answering
  <2> QED
    BY <2>1, Popped DEF Pop
<1> HIDE DEF b
<1>3. Fine(b, server) /\ ServerInv(server)
  BY <1>1, <1>2 DEF Fine, Answering
<1>4. ASSUME NEW url \in {"own", "other"}
      PROVE  LET f == [b EXCEPT !.url = url] IN Fine(f, server) /\ f.channel = "OPEN"
  <2> DEFINE f == [b EXCEPT !.url = url]
  <2>1. /\ f \in ClientRecord /\ SameWire(b, f) /\ SameNotes(b, f) /\ f.acks = b.acks
        /\ f.session = b.session /\ f.outstanding = b.outstanding /\ f.limit = b.limit
        /\ f.checking = b.checking /\ f.channel = "OPEN"
    BY <1>1, <1>2 DEF ClientRecord, SameWire, SameNotes
  <2> HIDE DEF f
  <2>2. Fine(f, server)
    BY <1>3, <2>1, FineFrame
  <2> QED
    BY <2>1, <2>2 DEF f
<1>5. CASE m.result = "own"
  BY <1>4, <1>5 DEF ServersFound, b
<1>6. CASE m.result # "own"
  <2> DEFINE f == [b EXCEPT !.url = "other"]
  <2>1. Weak(f, server)
    BY <1>4 DEF Fine
  <2> HIDE DEF f
  <2>2. Fine(CloseSecureChannel(f), server) /\ CloseSecureChannel(f).channel # "OPENING"
    BY <1>3, <2>1, ChannelIdle, IdleFine
  <2> QED
    BY <1>6, <2>2 DEF ServersFound, b, f
<1> QED
  BY <1>5, <1>6

\* The client's own requestId has the answer.
LEMMA AnswerFits ==
  ASSUME NEW c, NEW y, Answering(c, y)
  PROVE  Answers(y.kind, Head(c.in))
<1>1. /\ c.in \in Seq(ResponseMsg) /\ c.in # <<>> /\ LinkInv(c, server)
      /\ y \in Calls(c) /\ y.id = Head(c.in).id
  BY DEF Answering, Fine, Weak, Core, ClientRecord
<1>2. Head(c.in) \in In(c)
  <2>1. c.in[1] \in ToSet(c.in) /\ c.in[1] = Head(c.in)
    BY <1>1, ToSetFacts
  <2> QED
    BY <2>1 DEF In
<1> QED
  BY <1>1, <1>2 DEF LinkInv, Link

\* The answer to GetEndpoints.
LEMMA EndpointIs ==
  ASSUME NEW c, NEW y, Answering(c, y), y.kind = "endpoints"
  PROVE  LET d == EndpointChosen(Pop(c, y), Head(c.in))
         IN  Fine(d, server) /\ d.channel # "OPENING"
<1> DEFINE b == Pop(c, y)
           m == Head(c.in)
<1>1. Weak(b, server) /\ b \in ClientRecord
  BY PoppedSession
<1>2. OpenPart(b, server) /\ b.channel = "OPEN"
  <2>1. /\ Fine(c, server) /\ c.channel = "OPEN" /\ c.in # <<>> /\ y \in Calls(c)
        /\ y.id = Head(c.in).id /\ y.kind # "activate"
    BY DEF Answering
  <2> QED
    BY <2>1, Popped DEF Pop
<1> HIDE DEF b
<1>3. Fine(b, server) /\ ServerInv(server)
  BY <1>1, <1>2 DEF Fine, Answering
<1>4. m.result \in {"same", "different", "none"}
  BY AnswerFits DEF Answers
<1> DEFINE f == [b EXCEPT !.endpoint = TRUE]
           g == [b EXCEPT !.status = "bad"]
<1>5. Fine(f, server) /\ Weak(f, server) /\ f.channel = "OPEN"
  <2>1. /\ f \in ClientRecord /\ SameWire(b, f) /\ SameNotes(b, f) /\ f.acks = b.acks
        /\ f.session = b.session /\ f.outstanding = b.outstanding /\ f.limit = b.limit
        /\ f.checking = b.checking /\ f.channel = "OPEN"
    BY <1>1, <1>2 DEF ClientRecord, SameWire, SameNotes
  <2> HIDE DEF f
  <2> QED
    BY <1>3, <2>1, FineFrame DEF Fine
<1>6. Weak(g, server)
  <2>1. /\ g \in ClientRecord /\ SameWire(b, g) /\ SameNotes(b, g) /\ g.acks = b.acks
        /\ g.session = b.session /\ g.outstanding = b.outstanding /\ g.limit = b.limit
        /\ g.checking = b.checking
    BY <1>1, <1>2 DEF ClientRecord, SameWire, SameNotes
  <2> HIDE DEF g
  <2> QED
    BY <1>3, <2>1, FineFrame DEF Fine
<1> HIDE DEF f, g
<1>7. /\ Fine(CloseSecureChannel(f), server) /\ CloseSecureChannel(f).channel # "OPENING"
      /\ Fine(CloseSecureChannel(g), server) /\ CloseSecureChannel(g).channel # "OPENING"
  BY <1>3, <1>5, <1>6, ChannelIdle, IdleFine
<1>8. EndpointChosen(b, m) \in {f, CloseSecureChannel(f), CloseSecureChannel(g)}
  BY <1>4 DEF EndpointChosen, f, g
<1> QED
  BY <1>5, <1>7, <1>8 DEF b

\* The answer to CreateSession.
LEMMA Created ==
  ASSUME NEW c, NEW y, Answering(c, y), y.kind = "create"
  PROVE  LET d == SessionCreated(Pop(c, y))
         IN  Fine(d, server) /\ d.channel # "OPENING"
<1> DEFINE b == Pop(c, y)
           d == SessionCreated(b)
<1>1. /\ b \in ClientRecord /\ b.acks \subseteq b.got
      /\ (Pending(b, "check") <=> Pending(c, "check")) /\ ~Pending(b, "create")
      /\ \A x \in Calls(b) : Belongs(x.kind, c.session)
      /\ Single(Calls(b)) /\ CountInv(b)
  BY PoppedSession
<1>2. /\ Core(b, server) /\ OpenPart(b, server) /\ b.channel = "OPEN" /\ b.session = c.session
      /\ b.checking = c.checking
  <2>1. /\ Fine(c, server) /\ c.channel = "OPEN" /\ c.in # <<>> /\ y \in Calls(c)
        /\ y.id = Head(c.in).id /\ y.kind # "activate"
    BY DEF Answering
  <2> QED
    BY <2>1, Popped DEF Pop
<1> HIDE DEF b
<1>3. SessionInv(c) /\ c.session = "CREATE_REQUESTED"
  BY DEF Answering, Fine, Weak, SessionInv, Belongs
<1>4. "CREATED" \in DOMAIN SessionRank
  BY SessionStates
<1>5. /\ d \in ClientRecord /\ SameWire(b, d) /\ SameNotes(b, d) /\ d.acks = b.acks
      /\ d.session = "CREATED" /\ d.outstanding = b.outstanding /\ d.limit = b.limit
      /\ d.checking = b.checking /\ d.channel = "OPEN"
  BY <1>1, <1>2, <1>4 DEF ClientRecord, SameWire, SameNotes, SessionCreated
<1> HIDE DEF d
<1>6. Core(d, server) /\ OpenPart(d, server)
  BY <1>1, <1>2, <1>3, <1>5, CoreFrame, OpenFrame
<1>7. Calls(d) = Calls(b) /\ \A kind : Pending(d, kind) <=> Pending(b, kind)
  BY <1>5 DEF SameWire, Calls, Pending
<1>8. SessionInv(d)
  <2>1. \A x \in Calls(d) : Belongs(x.kind, d.session)
    <3>1. \A x \in Calls(b) : x.kind # "create"
      BY <1>1 DEF Pending, Calls
    <3> QED
      BY <1>1, <1>3, <1>5, <1>7, <3>1 DEF Belongs
  <2>2. d.checking <=> Pending(d, "check")
    BY <1>1, <1>2, <1>3, <1>5, <1>7 DEF SessionInv
  <2> QED
    BY <1>1, <1>5, <1>7, <2>1, <2>2 DEF SessionInv
<1>9. CountInv(d)
  BY <1>1, <1>5, <1>7 DEF CountInv
<1> QED
  BY <1>5, <1>6, <1>8, <1>9 DEF Fine, Weak, d, b

\* The answer to the read of the connectivity check.
LEMMA CheckAnswered ==
  ASSUME NEW c, NEW y, Answering(c, y), y.kind = "check"
  PROVE  LET d == [Pop(c, y) EXCEPT !.checking = FALSE]
         IN  Fine(d, server) /\ d.channel # "OPENING"
<1> DEFINE b == Pop(c, y)
           d == [b EXCEPT !.checking = FALSE]
<1>1. /\ b \in ClientRecord /\ b.acks \subseteq b.got
      /\ (Pending(b, "create") <=> Pending(c, "create")) /\ ~Pending(b, "check")
      /\ \A x \in Calls(b) : Belongs(x.kind, c.session)
      /\ Single(Calls(b)) /\ CountInv(b)
  BY PoppedSession
<1>2. /\ Core(b, server) /\ OpenPart(b, server) /\ b.channel = "OPEN" /\ b.session = c.session
      /\ SameNotes(c, b) /\ b.acks = c.acks
  <2>1. /\ Fine(c, server) /\ c.channel = "OPEN" /\ c.in # <<>> /\ y \in Calls(c)
        /\ y.id = Head(c.in).id /\ y.kind # "activate"
    BY DEF Answering
  <2> QED
    BY <2>1, Popped DEF Pop
<1> HIDE DEF b
<1>3. SessionInv(c)
  BY DEF Answering, Fine, Weak
<1>4. /\ d \in ClientRecord /\ SameWire(b, d) /\ SameNotes(b, d) /\ d.acks = b.acks
      /\ d.session = b.session /\ d.outstanding = b.outstanding /\ d.limit = b.limit
      /\ d.checking = FALSE /\ d.channel = "OPEN"
  BY <1>1, <1>2 DEF ClientRecord, SameWire, SameNotes
<1> HIDE DEF d
<1>5. Core(d, server) /\ OpenPart(d, server)
  BY <1>1, <1>2, <1>4, CoreFrame, OpenFrame
<1>6. Calls(d) = Calls(b) /\ \A kind : Pending(d, kind) <=> Pending(b, kind)
  BY <1>4 DEF SameWire, Calls, Pending
<1>7. SessionInv(d)
  BY <1>1, <1>2, <1>3, <1>4, <1>6 DEF SessionInv, SameNotes
<1>8. CountInv(d)
  BY <1>1, <1>4, <1>6 DEF CountInv
<1> QED
  BY <1>4, <1>5, <1>7, <1>8 DEF Fine, Weak, d, b

\* Any response.
LEMMA Processes ==
  ASSUME NEW c, Fine(c, server), ServerInv(server), c.channel = "OPEN", c.in # <<>>,
         NEW d \in Processed([c EXCEPT !.in = Tail(@)], Head(c.in))
  PROVE  Fine(d, server) /\ d.channel # "OPENING"
<1> DEFINE e == [c EXCEPT !.in = Tail(@)]
           m == Head(c.in)
           known == {call \in ToSet(c.calls) : call.id = m.id}
<1>1. c \in ClientRecord /\ Core(c, server) /\ SessionInv(c) /\ CountInv(c)
  BY DEF Fine, Weak, Core
<1>2. /\ e.calls = c.calls /\ e.waiting = c.waiting
  BY <1>1 DEF ClientRecord
<1>3. CASE c.waiting # <<>> /\ m.id = Last(c.waiting).id
  <2>1. d = Returned(e, m)
    BY <1>2, <1>3 DEF Processed
  <2> QED
    BY <1>3, <2>1, Returns
<1>4. CASE ~(c.waiting # <<>> /\ m.id = Last(c.waiting).id) /\ known = {}
  <2>1. d = CloseSecureChannel(e)
    BY <1>2, <1>4 DEF Processed
  <2>2. Weak(e, server)
    <3>1. /\ Core(e, server) /\ SameNotes(c, e) /\ e.channel = c.channel /\ e.calls = c.calls
          /\ e.session = c.session /\ e.outstanding = c.outstanding /\ e.limit = c.limit
          /\ e.acks = c.acks /\ e.checking = c.checking
      BY <1>1, Taken
    <3> HIDE DEF e
    <3>2. Calls(e) = Calls(c) /\ \A kind : Pending(e, kind) <=> Pending(c, kind)
      BY <3>1 DEF Calls, Pending
    <3>3. SessionInv(e)
      BY <1>1, <3>1, <3>2 DEF SessionInv, SameNotes
    <3>4. CountInv(e)
      BY <1>1, <3>1, <3>2 DEF CountInv
    <3> QED
      BY <3>1, <3>3, <3>4 DEF Weak
  <2> HIDE DEF e
  <2> QED
    BY <2>1, <2>2, ChannelIdle, IdleFine
<1>5. CASE ~(c.waiting # <<>> /\ m.id = Last(c.waiting).id) /\ known # {}
  <2> DEFINE y == CHOOSE x \in known : TRUE
  <2>1. y \in Calls(c) /\ y.id = m.id
    BY <1>5 DEF Calls
  <2>2. d \in Answered(Pop(c, y), y.kind, m)
    BY <1>2, <1>5 DEF Processed, Pop
  <2> HIDE DEF y
  <2>3. Answering(c, y)
    BY <2>1 DEF Answering
  <2>4. y.kind \in Kinds
    <3>1. c.calls \in Seq(Call)
      BY <1>1 DEF ClientRecord
    <3>2. y \in Call
      BY <2>1, <3>1, ToSetFacts DEF Calls
    <3> QED
      BY <3>2 DEF Call
  <2>5. CASE y.kind = "find"
    BY <2>2, <2>3, <2>5, Found DEF Answered
  <2>6. CASE y.kind = "endpoints"
    BY <2>2, <2>3, <2>6, EndpointIs DEF Answered
  <2>7. CASE y.kind = "create"
    BY <2>2, <2>3, <2>7, Created DEF Answered
  <2>8. CASE y.kind = "activate"
    BY <2>2, <2>3, <2>8, Activates DEF Answered
  <2>9. CASE y.kind = "check"
    BY <2>2, <2>3, <2>9, CheckAnswered DEF Answered
  <2>10. CASE y.kind = "publish"
    <3>1. PICK f \in ProcessPublishResponse(Pop(c, y), m) : d \in BackgroundPublish(f)
      BY <2>2, <2>10 DEF Answered
    <3>2. Fine(f, server) /\ f.channel # "OPENING"
      BY <2>3, <2>10, <3>1, PublishAnswered
    <3> QED
      BY <3>1, <3>2, PublishSteps
  <2> QED
    BY <2>4, <2>5, <2>6, <2>7, <2>8, <2>9, <2>10 DEF Kinds
<1> QED
  BY <1>3, <1>4, <1>5

\* receiveResponse.
LEMMA ReceivesResponse ==
  ASSUME NEW c, Fine(c, server), ServerInv(server), NEW d \in Received(c)
  PROVE  Fine(d, server) /\ (d.channel # "OPEN" => d.waiting = <<>>)
<1>1. PICK e \in IF c.channel # "OPEN" THEN {CloseSecureChannel(c)}
                 ELSE IF c.in # <<>> THEN Processed([c EXCEPT !.in = Tail(@)], Head(c.in))
                 ELSE IF c.lost THEN {CloseSecureChannel(c)} ELSE {c} : d = Unwound(e)
  BY DEF Received
<1>2. \/ e = CloseSecureChannel(c)
      \/ /\ c.channel = "OPEN" /\ c.in # <<>>
         /\ e \in Processed([c EXCEPT !.in = Tail(@)], Head(c.in))
      \/ e = c /\ c.channel = "OPEN"
  BY <1>1
<1>3. CASE e = CloseSecureChannel(c)
  <2>1. Weak(c, server)
    BY DEF Fine
  <2>2. Fine(e, server) /\ e.channel # "OPENING"
    BY <1>3, <2>1, ChannelIdle, IdleFine
  <2> QED
    BY <1>1, <2>2, Unwinds
<1>4. CASE c.channel = "OPEN" /\ c.in # <<>>
           /\ e \in Processed([c EXCEPT !.in = Tail(@)], Head(c.in))
  <2>1. Fine(e, server) /\ e.channel # "OPENING"
    BY <1>4, Processes
  <2> QED
    BY <1>1, <2>1, Unwinds
<1>5. CASE e = c /\ c.channel = "OPEN"
  BY <1>1, <1>5, Unwinds
<1> QED
  BY <1>2, <1>3, <1>4, <1>5

-----------------------------------------------------------------------------
(* The client's actions.                                                     *)

\* A step of the client that leaves the server alone.
LEMMA ClientMoves ==
  ASSUME IInv, UNCHANGED server, faults' = faults \/ (faults < MaxFaults /\ faults' = faults + 1),
         NEW d, client' = d, Fine(d, server), d.channel # "OPEN" => d.waiting = <<>>
  PROVE  IInv'
<1>1. MaxFaults \in Nat /\ faults \in 0..MaxFaults
  BY BoundsAssumption DEF IInv
<1>2. faults' \in 0..MaxFaults
  BY <1>1
<1>3. ServerInv(server') /\ Fine(client', server')
  BY DEF IInv
<1> QED
  BY <1>2, <1>3 DEF IInv

\* The client before a step.
Before(c) ==
  /\ Fine(c, server) /\ ServerInv(server)
  /\ c.channel # "OPEN" => c.waiting = <<>>

\* What the client's steps start from.
LEMMA BeforeFacts ==
  ASSUME NEW c, Before(c)
  PROVE  /\ Fine(c, server) /\ Weak(c, server) /\ Core(c, server) /\ ServerInv(server)
         /\ SessionInv(c) /\ CountInv(c) /\ c \in ClientRecord /\ Listed(c)
         /\ server \in ServerRecord /\ c.acks \subseteq c.got
BY DEF Before, Fine, Weak, Core, ServerInv, NotesInv

\* initConnect.
LEMMA InitConnects ==
  ASSUME NEW c, Before(c), c.channel = "CLOSED", ~server.channel,
         NEW d, \/ d = [c EXCEPT !.channel = "OPENING", !.status = "good"]
                \/ d = [CloseSecureChannel(c) EXCEPT !.status = "bad"]
  PROVE  Fine(d, server) /\ d.waiting = <<>>
<1>1. /\ Fine(c, server) /\ Weak(c, server) /\ Core(c, server) /\ ServerInv(server)
      /\ SessionInv(c) /\ CountInv(c) /\ c \in ClientRecord /\ Listed(c)
      /\ server \in ServerRecord /\ c.acks \subseteq c.got /\ c.waiting = <<>>
  BY BeforeFacts DEF Before
<1>2. CASE d = [c EXCEPT !.channel = "OPENING", !.status = "good"]
  <2>1. /\ d \in ClientRecord /\ SameNotes(c, d) /\ d.acks = c.acks
        /\ d.calls = c.calls /\ d.waiting = c.waiting /\ d.lost = c.lost /\ d.in = c.in
        /\ d.out = c.out /\ d.session = c.session /\ d.outstanding = c.outstanding
        /\ d.limit = c.limit /\ d.checking = c.checking /\ d.got = c.got
        /\ d.channel = "OPENING"
    BY <1>1, <1>2 DEF ClientRecord, SameNotes
  <2>2. /\ Calls(d) = Calls(c) /\ In(d) = In(c) /\ Out(d) = Out(c) /\ Waits(d) = Waits(c)
        /\ \A kind : Pending(d, kind) <=> Pending(c, kind)
    BY <2>1 DEF Calls, In, Out, Waits, Pending
  <2>3. Listed(d) /\ LinkInv(d, server) /\ WireInv(d, server)
    BY <1>1, <2>1, <2>2 DEF Core, Listed, LinkInv, WireInv
  <2>4. NotesInv(d, server)
    BY <1>1, <2>1, <2>2 DEF Core, NotesInv, SameNotes
  <2>5. SessionInv(d)
    BY <1>1, <2>1, <2>2 DEF SessionInv, SameNotes
  <2>6. CountInv(d)
    BY <1>1, <2>1, <2>2 DEF CountInv
  <2> QED
    BY <1>1, <2>1, <2>3, <2>4, <2>5, <2>6 DEF Fine, Weak, Core
<1>3. CASE d = [CloseSecureChannel(c) EXCEPT !.status = "bad"]
  <2> DEFINE e == CloseSecureChannel(c)
  <2>1. Idle(e) /\ e.waiting = c.waiting
    BY <1>1, ChannelIdle
  <2> HIDE DEF e
  <2>2. e \in ClientRecord
    BY <2>1 DEF Idle, Weak, Core
  <2>3. /\ d \in ClientRecord /\ SameWire(e, d) /\ SameNotes(e, d) /\ d.acks = e.acks
        /\ d.session = e.session /\ d.outstanding = e.outstanding /\ d.limit = e.limit
        /\ d.checking = e.checking
    BY <1>3, <2>2 DEF ClientRecord, SameWire, SameNotes, e
  <2> QED
    BY <1>1, <2>1, <2>3, IdleFrame, IdleFine DEF SameWire
<1> QED
  BY <1>2, <1>3

\* connectIterate on an open channel.
LEMMA SessionIterates ==
  ASSUME NEW c, Before(c), c.channel = "OPEN", c.waiting = <<>>, NEW d \in SessionIterate(c)
  PROVE  Fine(d, server) /\ (d.channel # "OPEN" => d.waiting = <<>>)
<1>1. \/ d \in Received(c)
      \/ \E kind \in {"find", "endpoints", "create", "activate"} : \E state :
           /\ d \in RequestSent(c, kind, state)
           /\ \/ kind \in {"find", "endpoints"} /\ state = c.session
              \/ kind = "create" /\ c.session = "CLOSED" /\ state = "CREATE_REQUESTED"
              \/ kind = "activate" /\ c.session = "CREATED" /\ state = "ACTIVATE_REQUESTED"
  BY DEF SessionIterate
<1>2. CASE d \in Received(c)
  BY <1>2, ReceivesResponse DEF Before
<1>3. ASSUME NEW kind \in {"find", "endpoints", "create", "activate"}, NEW state,
             d \in RequestSent(c, kind, state),
             \/ kind \in {"find", "endpoints"} /\ state = c.session
             \/ kind = "create" /\ c.session = "CLOSED" /\ state = "CREATE_REQUESTED"
             \/ kind = "activate" /\ c.session = "CREATED" /\ state = "ACTIVATE_REQUESTED"
      PROVE  Fine(d, server) /\ (d.channel # "OPEN" => d.waiting = <<>>)
  <2>1. Fine(c, server) /\ ServerInv(server)
    BY DEF Before
  <2> QED
    BY <1>3, <2>1, RequestGoes
<1> QED
  BY <1>1, <1>2, <1>3

\* run_iterate with an active session.
LEMMA ActiveIterates ==
  ASSUME NEW c, Before(c), ~Connecting(c), NEW d \in ActiveIterate(c)
  PROVE  Fine(d, server) /\ (d.channel # "OPEN" => d.waiting = <<>>)
<1>1. Fine(c, server) /\ ServerInv(server) /\ SessionInv(c) /\ c \in ClientRecord
  BY BeforeFacts
<1>2. c.session \in {"ACTIVATED", "CLOSING"}
  <2>1. c.session \in DOMAIN SessionRank
    BY <1>1 DEF ClientRecord
  <2>2. ~(SessionRank[c.session] < SessionRank["ACTIVATED"])
    BY DEF Connecting
  <2> QED
    BY <2>1, <2>2, SessionStates
<1>3. c.channel # "OPENING"
  BY <1>1, <1>2 DEF SessionInv
<1>4. PICK b \in UNION {Checked(a) : a \in BackgroundPublish(c)} : d \in Received(b)
  BY DEF ActiveIterate
<1>5. PICK a \in BackgroundPublish(c) : b \in Checked(a)
  BY <1>4
<1>6. Fine(a, server) /\ a.channel # "OPENING"
  BY <1>1, <1>3, <1>5, PublishSteps
<1>7. Fine(b, server)
  BY <1>1, <1>5, <1>6, Checks
<1> QED
  BY <1>1, <1>4, <1>7, ReceivesResponse

\* The background connectivity check times out.
LEMMA CheckTimesOut ==
  ASSUME NEW c, Before(c), c.checking
  PROVE  LET d == CheckTimedOut(c)
         IN  Fine(d, server) /\ d.channel = c.channel /\ d.waiting = c.waiting
<1> DEFINE y == CHOOSE x \in ToSet(c.calls) : x.kind = "check"
           b == [c EXCEPT !.calls = Without(@, y)]
           d == CheckTimedOut(c)
<1>1. /\ Fine(c, server) /\ Core(c, server) /\ SessionInv(c) /\ CountInv(c)
      /\ c \in ClientRecord /\ Listed(c) /\ c.acks \subseteq c.got
  BY BeforeFacts
<1>2. y \in Calls(c) /\ y.kind = "check"
  <2>1. \E x \in ToSet(c.calls) : x.kind = "check"
    BY <1>1 DEF SessionInv, Pending
  <2> QED
    BY <2>1 DEF Calls
<1>3. /\ Core(b, server) /\ Calls(b) = Calls(c) \ {y} /\ SameNotes(c, b)
      /\ b.channel = c.channel /\ b.waiting = c.waiting /\ b.lost = c.lost /\ b.in = c.in
      /\ b.out = c.out /\ b.session = c.session /\ b.outstanding = c.outstanding
      /\ b.limit = c.limit /\ b.acks = c.acks /\ b.checking = c.checking
      /\ Published(Calls(b)) = Published(Calls(c)) \ {y}
      /\ b.calls = Without(c.calls, y)
  <2> HIDE DEF y
  <2>1. /\ Core(b, server) /\ Calls(b) = Calls(c) \ {y} /\ SameNotes(c, b)
        /\ b.channel = c.channel /\ b.waiting = c.waiting /\ b.lost = c.lost /\ b.in = c.in
        /\ b.out = c.out /\ b.session = c.session
    BY <1>1, <1>2, CallGone
  <2>2. /\ b.outstanding = c.outstanding /\ b.limit = c.limit /\ b.acks = c.acks
        /\ b.checking = c.checking /\ b.calls = Without(c.calls, y)
        /\ Published(Calls(b)) = Published(Calls(c)) \ {y}
    BY <1>1, <1>2, CallGone
  <2> QED
    BY <2>1, <2>2
<1>4. d = [b EXCEPT !.checking = FALSE]
  <2>1. \A z : [c EXCEPT !.calls = Without(@, z), !.checking = FALSE]
               = [[c EXCEPT !.calls = Without(@, z)] EXCEPT !.checking = FALSE]
    BY <1>1 DEF ClientRecord
  <2> QED
    BY <2>1 DEF CheckTimedOut
<1> HIDE DEF b, d, y
<1>5. b \in ClientRecord /\ b.acks \subseteq b.got
  BY <1>3 DEF Core, NotesInv
<1>6. /\ d \in ClientRecord /\ SameWire(b, d) /\ SameNotes(b, d) /\ d.acks = b.acks
      /\ d.session = b.session /\ d.outstanding = b.outstanding /\ d.limit = b.limit
      /\ d.checking = FALSE
  BY <1>4, <1>5 DEF ClientRecord, SameWire, SameNotes
<1>7. Core(d, server)
  BY <1>3, <1>5, <1>6, CoreFrame
<1>8. /\ Calls(d) = Calls(c) \ {y} /\ In(d) = In(c) /\ Out(d) = Out(c) /\ Waits(d) = Waits(c)
  BY <1>3, <1>6 DEF SameWire, Calls, In, Out, Waits
<1>9. /\ \A kind : kind # "check" => (Pending(d, kind) <=> Pending(c, kind))
      /\ ~Pending(d, "check")
  BY <1>1, <1>2, <1>8 DEF Pending, Calls, SessionInv, Single
<1>10. SessionInv(d)
  <2>1. Single(Calls(d)) /\ \A x \in Calls(d) : Belongs(x.kind, d.session)
    BY <1>1, <1>3, <1>6, <1>8 DEF SessionInv, Single
  <2>2. d.channel # "OPEN" => d.calls = <<>>
    <3>1. c.calls # <<>>
      <4>1. c.calls \in Seq(Call)
        BY <1>1 DEF ClientRecord
      <4> QED
        BY <1>2, <4>1, ToSetFacts DEF Calls
    <3>2. c.channel = "OPEN"
      BY <1>1, <3>1 DEF SessionInv
    <3> QED
      BY <1>3, <1>6, <3>2 DEF SameWire
  <2>3. Pending(d, "create") <=> Pending(c, "create")
    BY <1>9
  <2>4. /\ d.channel = c.channel /\ d.in = c.in /\ d.lost = c.lost /\ d.session = c.session
        /\ d.waiting = c.waiting /\ d.subs = c.subs /\ d.acks = c.acks
    BY <1>3, <1>6 DEF SameWire, SameNotes
  <2> QED
    BY <1>1, <1>6, <1>9, <2>1, <2>2, <2>3, <2>4 DEF SessionInv
<1>11. Published(Calls(d)) = Published(Calls(c))
  BY <1>2, <1>8 DEF Published
<1>12. CountInv(d)
  BY <1>1, <1>3, <1>6, <1>11 DEF CountInv
<1>13. d.channel = c.channel /\ d.waiting = c.waiting /\ d.in = c.in /\ d.session = c.session
  BY <1>3, <1>6 DEF SameWire
<1>14. ASSUME c.channel = "OPEN" PROVE OpenPart(d, server)
  <2>1. OpenPart(c, server)
    BY <1>1, <1>14 DEF Fine
  <2>2. ManyInv(d)
    BY <1>11, <1>13, <2>1 DEF OpenPart, ManyInv, Unanswered
  <2>3. AskedInv(c, server) => AskedInv(d, server)
    BY <1>2, <1>8 DEF AskedInv, Asked
  <2>4. Activating(Calls(c), In(c)) => Activating(Calls(d), In(d))
    BY <1>2, <1>8 DEF Activating
  <2> QED
    BY <1>13, <2>1, <2>2, <2>3, <2>4 DEF OpenPart
<1> QED
  BY <1>7, <1>10, <1>12, <1>13, <1>14 DEF Fine, Weak, d

\* The application's services of subscriptions.
LEMMA Subscribes ==
  ASSUME NEW c, Before(c), c.waiting = <<>>, c.session = "ACTIVATED",
         NEW op \in Ops, NEW sub \in Nat, op = "CreateSubscription" => server.created < MaxSub
  PROVE  LET d == Service(c, op, sub)
         IN  Fine(d, server) /\ d.channel = "OPEN"
<1> DEFINE d == Service(c, op, sub)
<1>1. /\ Fine(c, server) /\ Core(c, server) /\ ServerInv(server)
      /\ SessionInv(c) /\ CountInv(c) /\ c \in ClientRecord /\ server \in ServerRecord
  BY BeforeFacts
<1>2. c.channel = "OPEN" /\ OpenPart(c, server)
  BY <1>1 DEF SessionInv, Fine
<1>3. \A r \in Out(c) : r.kind # "CreateSubscription"
  <2>1. Waits(c) = {}
    <3>1. <<>> \in Seq(Waiting)
      BY EmptySeq
    <3> QED
      BY <3>1, ToSetFacts DEF Waits
  <2>2. server.channel => \A r \in Out(c) : r.kind # "CreateSubscription"
    BY <1>2, <2>1 DEF OpenPart, AskedInv, Asked
  <2>3. ~server.channel => Out(c) = {}
    <3>1. <<>> \in Seq(RequestMsg)
      BY EmptySeq
    <3> QED
      BY <1>1, <3>1, ToSetFacts DEF Core, WireInv, Out
  <2> QED
    BY <1>1, <2>2, <2>3 DEF ServerRecord
<1>4. /\ Core(d, server) /\ OpenPart(d, server) /\ SameNotes(c, d) /\ d.calls = c.calls
      /\ d.channel = c.channel /\ d.lost = c.lost /\ d.in = c.in
      /\ d.session = c.session /\ d.outstanding = c.outstanding /\ d.limit = c.limit
      /\ d.acks = c.acks /\ d.checking = c.checking
  BY <1>1, <1>2, <1>3, Served
<1> HIDE DEF d
<1>5. Calls(d) = Calls(c) /\ \A kind : Pending(d, kind) <=> Pending(c, kind)
  BY <1>4 DEF Calls, Pending
<1>6. SessionInv(d)
  BY <1>1, <1>2, <1>4, <1>5 DEF SessionInv, SameNotes
<1>7. CountInv(d)
  BY <1>1, <1>4, <1>5 DEF CountInv
<1> QED
  BY <1>2, <1>4, <1>6, <1>7 DEF Fine, Weak, d

\* The handshake succeeds.
LEMMA Opens ==
  ASSUME NEW c, NEW srv, Core(c, srv), SessionInv(c), CountInv(c), ServerInv(srv),
         c.channel = "OPENING",
         NEW d, d = [c EXCEPT !.channel = "OPEN"],
         NEW t, t = [srv EXCEPT !.channel = TRUE]
  PROVE  Fine(d, t) /\ ServerInv(t)
<1>1. /\ c \in ClientRecord /\ srv \in ServerRecord /\ Listed(c) /\ LinkInv(c, srv)
      /\ WireInv(c, srv) /\ NotesInv(c, srv)
  BY DEF Core, ServerInv
<1>2. c.calls = <<>> /\ c.in = <<>> /\ ~c.lost /\ c.waiting = <<>> /\ ~srv.channel /\ c.out = <<>>
  BY <1>1 DEF SessionInv, WireInv
<1>3. /\ d \in ClientRecord /\ SameNotes(c, d) /\ d.acks = c.acks
      /\ d.calls = c.calls /\ d.waiting = c.waiting /\ d.lost = c.lost /\ d.in = c.in
      /\ d.out = c.out /\ d.session = c.session /\ d.outstanding = c.outstanding
      /\ d.limit = c.limit /\ d.checking = c.checking /\ d.channel = "OPEN"
  BY <1>1 DEF ClientRecord, SameNotes
<1>4. /\ t \in ServerRecord /\ t.channel = TRUE /\ t.bound = srv.bound /\ t.session = srv.session
      /\ t.subs = srv.subs /\ t.created = srv.created /\ t.ready = srv.ready
      /\ t.seq = srv.seq /\ t.retrans = srv.retrans /\ t.parked = srv.parked
  BY <1>1 DEF ServerRecord
<1>5. ~srv.bound /\ srv.parked = <<>> /\ ~UsableAt(srv)
  BY <1>2 DEF ServerInv, UsableAt
<1>6. ServerInv(t)
  BY <1>4, <1>5 DEF ServerInv
<1>7. /\ Calls(d) = {} /\ In(d) = {} /\ Out(d) = {} /\ Waits(d) = {} /\ Parked(t) = {}
      /\ Calls(c) = {} /\ Parked(t) = Parked(srv)
      /\ In(d) = In(c) /\ Out(d) = Out(c) /\ Waits(d) = Waits(c)
      /\ \A kind : Pending(d, kind) <=> Pending(c, kind)
  <2>1. \A s : s = <<>> => ToSet(s) = {}
    BY DEF ToSet
  <2> QED
    BY <1>2, <1>3, <1>4, <1>5, <2>1 DEF Calls, In, Out, Waits, Parked, Pending
<1>8. Listed(d) /\ LinkInv(d, t)
  BY <1>1, <1>3, <1>7 DEF Listed, LinkInv
<1>9. WireInv(d, t)
  BY <1>1, <1>2, <1>3, <1>4, <1>7 DEF WireInv
<1>10. NotesInv(d, t)
  BY <1>1, <1>3, <1>4, <1>7 DEF NotesInv, SameNotes, Kept, Numbered, Noted, Coming
<1>11. SessionInv(d)
  BY <1>2, <1>3, <1>7 DEF SessionInv, SameNotes
<1>12. CountInv(d)
  BY <1>3, <1>7 DEF CountInv
<1>13. OpenPart(d, t)
  <2>1. ManyInv(d)
    BY <1>2, <1>3 DEF ManyInv
  <2>2. AskedInv(d, t)
    BY <1>7 DEF AskedInv, Asked
  <2>3. ~UsableAt(t)
    BY <1>4, <1>5 DEF UsableAt
  <2> QED
    BY <1>2, <1>3, <2>1, <2>2, <2>3 DEF OpenPart
<1> QED
  BY <1>3, <1>6, <1>8, <1>9, <1>10, <1>11, <1>12, <1>13 DEF Fine, Weak, Core

\* Both ends after a step, none of which is the other's.
LEMMA BothMove ==
  ASSUME IInv, faults' = faults \/ (faults < MaxFaults /\ faults' = faults + 1),
         NEW d, client' = d, NEW t, server' = t, Fine(d, t), ServerInv(t),
         d.channel # "OPEN" => d.waiting = <<>>
  PROVE  IInv'
<1>1. MaxFaults \in Nat /\ faults \in 0..MaxFaults
  BY BoundsAssumption DEF IInv
<1>2. faults' \in 0..MaxFaults
  BY <1>1
<1> QED
  BY <1>2 DEF IInv

\* The channel closes and the client is told otherwise.
LEMMA ClosesWith ==
  ASSUME NEW c, Before(c), c.waiting = <<>>,
         NEW d, \/ d = [CloseSecureChannel(c) EXCEPT !.status = "bad"]
                \/ d = [CloseSecureChannel(c) EXCEPT !.url = "own"]
  PROVE  Fine(d, server) /\ d.waiting = <<>>
<1> DEFINE e == CloseSecureChannel(c)
<1>1. Weak(c, server) /\ ServerInv(server)
  BY BeforeFacts
<1>2. Idle(e) /\ e.waiting = c.waiting
  BY <1>1, ChannelIdle
<1> HIDE DEF e
<1>3. e \in ClientRecord
  BY <1>2 DEF Idle, Weak, Core
<1>4. CASE d = [e EXCEPT !.status = "bad"]
  <2>1. /\ d \in ClientRecord /\ SameWire(e, d) /\ SameNotes(e, d) /\ d.acks = e.acks
        /\ d.session = e.session /\ d.outstanding = e.outstanding /\ d.limit = e.limit
        /\ d.checking = e.checking
    BY <1>3, <1>4 DEF ClientRecord, SameWire, SameNotes
  <2> QED
    BY <1>2, <2>1, IdleFrame, IdleFine DEF SameWire
<1>5. CASE d = [e EXCEPT !.url = "own"]
  <2>1. /\ d \in ClientRecord /\ SameWire(e, d) /\ SameNotes(e, d) /\ d.acks = e.acks
        /\ d.session = e.session /\ d.outstanding = e.outstanding /\ d.limit = e.limit
        /\ d.checking = e.checking
    BY <1>3, <1>5 DEF ClientRecord, SameWire, SameNotes
  <2> QED
    BY <1>2, <2>1, IdleFrame, IdleFine DEF SameWire
<1> QED
  BY <1>4, <1>5 DEF e

\* connectIterate.
LEMMA ConnectIterates ==
  ASSUME IInv, ConnectIterate
  PROVE  IInv'
<1>1. PICK c : c = client
  OBVIOUS
<1>2. PICK d : d = client'
  OBVIOUS
<1>3. Before(c) /\ c.waiting = <<>>
  BY <1>1 DEF IInv, Before, ConnectIterate, Iterating
<1>4. CASE c.channel = "CLOSED" /\ InitConnect(c)
  <2>1. /\ ~server.channel /\ UNCHANGED server
        /\ faults' = faults \/ (faults < MaxFaults /\ faults' = faults + 1)
        /\ \/ d = [c EXCEPT !.channel = "OPENING", !.status = "good"]
           \/ d = [CloseSecureChannel(c) EXCEPT !.status = "bad"]
    BY <1>2, <1>4 DEF InitConnect
  <2>2. Fine(d, server) /\ d.waiting = <<>>
    BY <1>3, <1>4, <2>1, InitConnects
  <2> QED
    BY <1>2, <2>1, <2>2, ClientMoves
<1>5. CASE c.channel = "OPENING" /\ Handshake
  <2>1. \/ /\ d = [c EXCEPT !.channel = "OPEN"] /\ server' = [server EXCEPT !.channel = TRUE]
           /\ faults' = faults
        \/ /\ faults < MaxFaults /\ faults' = faults + 1 /\ UNCHANGED server
           /\ \/ d = [CloseSecureChannel(c) EXCEPT !.status = "bad"]
              \/ d = [CloseSecureChannel(c) EXCEPT !.url = "own"]
    BY <1>1, <1>2, <1>5 DEF Handshake
  <2>2. CASE /\ d = [c EXCEPT !.channel = "OPEN"] /\ server' = [server EXCEPT !.channel = TRUE]
             /\ faults' = faults
    <3>1. PICK srv : srv = server
      OBVIOUS
    <3>2. PICK t : t = [srv EXCEPT !.channel = TRUE]
      OBVIOUS
    <3>3. Core(c, srv) /\ SessionInv(c) /\ CountInv(c) /\ ServerInv(srv)
      BY <1>3, <3>1, BeforeFacts
    <3>4. Fine(d, t) /\ ServerInv(t)
      BY <1>5, <2>2, <3>2, <3>3, Opens
    <3>5. d.channel = "OPEN"
      BY <1>3, <2>2, BeforeFacts DEF ClientRecord
    <3> QED
      BY <1>2, <2>2, <3>1, <3>2, <3>4, <3>5, BothMove
  <2>3. CASE /\ faults < MaxFaults /\ faults' = faults + 1 /\ UNCHANGED server
             /\ \/ d = [CloseSecureChannel(c) EXCEPT !.status = "bad"]
                \/ d = [CloseSecureChannel(c) EXCEPT !.url = "own"]
    <3>1. Fine(d, server) /\ d.waiting = <<>>
      BY <1>3, <2>3, ClosesWith
    <3> QED
      BY <1>2, <2>3, <3>1, ClientMoves
  <2> QED
    BY <2>1, <2>2, <2>3
<1>6. CASE c.channel = "OPEN" /\ d \in SessionIterate(c) /\ UNCHANGED <<server, faults>>
  <2>1. Fine(d, server) /\ (d.channel # "OPEN" => d.waiting = <<>>)
    BY <1>3, <1>6, SessionIterates
  <2> QED
    BY <1>2, <1>6, <2>1, ClientMoves
<1> QED
  BY <1>1, <1>2, <1>4, <1>5, <1>6 DEF ConnectIterate

\* run_iterate on an active session, and what the application and the timers do.
LEMMA Iterates ==
  ASSUME IInv, Iterate
  PROVE  IInv'
<1>1. PICK c : c = client
  OBVIOUS
<1>2. PICK d : d = client'
  OBVIOUS
<1>3. /\ Before(c) /\ ~Connecting(c) /\ d \in ActiveIterate(c)
      /\ UNCHANGED server /\ faults' = faults
  BY <1>1, <1>2 DEF IInv, Before, Iterate
<1>4. Fine(d, server) /\ (d.channel # "OPEN" => d.waiting = <<>>)
  BY <1>3, ActiveIterates
<1> QED
  BY <1>2, <1>3, <1>4, ClientMoves

\* The connectivity check takes too long.
LEMMA ChecksTimeOut ==
  ASSUME IInv, CheckTimeout
  PROVE  IInv'
<1>1. PICK c : c = client
  OBVIOUS
<1>2. PICK d : d = CheckTimedOut(c)
  OBVIOUS
<1>3. /\ Before(c) /\ c.checking /\ client' = d
      /\ UNCHANGED server /\ faults < MaxFaults /\ faults' = faults + 1
  BY <1>1, <1>2 DEF IInv, Before, CheckTimeout
<1>4. Fine(d, server) /\ d.channel = c.channel /\ d.waiting = c.waiting
  BY <1>2, <1>3, CheckTimesOut
<1> QED
  BY <1>3, <1>4, ClientMoves DEF Before

\* A synchronous service receives.
LEMMA SyncReceives ==
  ASSUME IInv, SyncReceive
  PROVE  IInv'
<1>1. PICK c : c = client
  OBVIOUS
<1>2. PICK d : d = client'
  OBVIOUS
<1>3. /\ Before(c) /\ d \in Received(c) /\ UNCHANGED server /\ faults' = faults
  BY <1>1, <1>2 DEF IInv, Before, SyncReceive
<1>4. Fine(d, server) /\ (d.channel # "OPEN" => d.waiting = <<>>)
  BY <1>3, ReceivesResponse DEF Before
<1> QED
  BY <1>2, <1>3, <1>4, ClientMoves

\* A synchronous service takes too long.
LEMMA SyncTimesOut ==
  ASSUME IInv, SyncTimeout
  PROVE  IInv'
<1>1. PICK c : c = client
  OBVIOUS
<1>2. PICK e : e = CloseSecureChannel(c)
  OBVIOUS
<1>3. PICK d : d = Unwound(e)
  OBVIOUS
<1>4. /\ Before(c) /\ client' = d /\ UNCHANGED server
      /\ faults < MaxFaults /\ faults' = faults + 1
  BY <1>1, <1>2, <1>3 DEF IInv, Before, SyncTimeout
<1>5. Weak(c, server) /\ ServerInv(server)
  BY <1>4, BeforeFacts
<1>6. Fine(e, server) /\ e.channel # "OPENING"
  BY <1>2, <1>5, ChannelIdle, IdleFine
<1>7. Fine(d, server) /\ (d.channel # "OPEN" => d.waiting = <<>>)
  BY <1>3, <1>5, <1>6, Unwinds
<1> QED
  BY <1>4, <1>7, ClientMoves

\* The application connects.
LEMMA Connects ==
  ASSUME IInv, Connect
  PROVE  IInv'
<1>1. PICK b : b = client
  OBVIOUS
<1>2. PICK c : c = [b EXCEPT !.url = "none"]
  OBVIOUS
<1>3. PICK d : d = client'
  OBVIOUS
<1>4. Before(b) /\ b.channel = "CLOSED" /\ InitConnect(c)
  BY <1>1, <1>2 DEF IInv, Before, Connect
<1>5. /\ ~server.channel /\ UNCHANGED server
      /\ faults' = faults \/ (faults < MaxFaults /\ faults' = faults + 1)
      /\ \/ d = [c EXCEPT !.channel = "OPENING", !.status = "good"]
         \/ d = [CloseSecureChannel(c) EXCEPT !.status = "bad"]
  BY <1>3, <1>4 DEF InitConnect
<1>6. Before(c) /\ c.channel = "CLOSED"
  <2>1. Fine(b, server) /\ b \in ClientRecord /\ ServerInv(server)
    BY <1>4, BeforeFacts
  <2>2. /\ c \in ClientRecord /\ SameWire(b, c) /\ SameNotes(b, c) /\ c.acks = b.acks
        /\ c.session = b.session /\ c.outstanding = b.outstanding /\ c.limit = b.limit
        /\ c.checking = b.checking
    BY <1>2, <2>1 DEF ClientRecord, SameWire, SameNotes
  <2>3. Fine(c, server)
    BY <2>1, <2>2, FineFrame
  <2> QED
    BY <1>4, <2>1, <2>2, <2>3 DEF Before, SameWire
<1>7. Fine(d, server) /\ d.waiting = <<>>
  BY <1>5, <1>6, InitConnects
<1> QED
  BY <1>3, <1>5, <1>7, ClientMoves

\* The application disconnects.
LEMMA DisconnectsBy ==
  ASSUME IInv, Disconnect
  PROVE  IInv'
<1>1. PICK c : c = client
  OBVIOUS
<1>2. PICK d : d = client'
  OBVIOUS
<1>3. /\ Before(c) /\ c.waiting = <<>> /\ d \in Disconnecting(c)
      /\ UNCHANGED server /\ faults < MaxFaults /\ faults' = faults + 1
  BY <1>1, <1>2 DEF IInv, Before, Disconnect
<1>4. Fine(d, server) /\ (d.channel = "OPEN" \/ d.waiting = c.waiting)
  BY <1>3, DisconnectSteps DEF Before
<1> QED
  BY <1>2, <1>3, <1>4, ClientMoves

\* The application asks for a subscription.
LEMMA CreatesSubscription ==
  ASSUME IInv, CreateSubscription
  PROVE  IInv'
<1>1. PICK c : c = client
  OBVIOUS
<1>2. PICK d : d = client'
  OBVIOUS
<1>3. /\ Before(c) /\ c.waiting = <<>> /\ c.session = "ACTIVATED" /\ server.created < MaxSub
      /\ d = Service(c, "CreateSubscription", 0) /\ UNCHANGED server /\ faults' = faults
  BY <1>1, <1>2 DEF IInv, Before, CreateSubscription
<1>4. "CreateSubscription" \in Ops /\ 0 \in Nat
  BY DEF Ops
<1>5. Fine(d, server) /\ d.channel = "OPEN"
  BY <1>3, <1>4, Subscribes
<1> QED
  BY <1>2, <1>3, <1>5, ClientMoves

\* The application deletes a subscription.
LEMMA DeletesSubscription ==
  ASSUME IInv, NEW s \in Sub, DeleteSubscription(s)
  PROVE  IInv'
<1>1. PICK c : c = client
  OBVIOUS
<1>2. PICK d : d = client'
  OBVIOUS
<1>3. /\ Before(c) /\ c.waiting = <<>> /\ c.session = "ACTIVATED"
      /\ d = Service(c, "DeleteSubscription", s) /\ UNCHANGED server /\ faults' = faults
  BY <1>1, <1>2 DEF IInv, Before, DeleteSubscription
<1>4. "DeleteSubscription" \in Ops /\ s \in Nat /\ "DeleteSubscription" # "CreateSubscription"
  BY BoundsAssumption DEF Ops, Sub
<1>5. Fine(d, server) /\ d.channel = "OPEN"
  BY <1>3, <1>4, Subscribes
<1> QED
  BY <1>2, <1>3, <1>5, ClientMoves

-----------------------------------------------------------------------------
(* Steps of the server.                                                      *)

\* The client c when the responses ms are sent to it and out is left to be read.
Replied(c, ms, out) ==
  [c EXCEPT !.in = IF c.channel = "OPEN" THEN @ \o ms ELSE @, !.out = out]

\* The responses ms answer requests that were parked or are no longer in out;
\* what the server parks was parked or is such a publish request; an open client loses none.
Moves(c, srv, ms, out, t) ==
  /\ IsInjective(out) /\ ToSet(out) \subseteq Out(c) /\ CloLast(out)
  /\ \A i, j \in DOMAIN ms : ms[i].id = ms[j].id => i = j
  /\ \A m \in ToSet(ms) :
       /\ m.id \notin Parked(t)
       /\ m.id \in Parked(srv) \/ \E r \in Out(c) \ ToSet(out) : r.id = m.id /\ Answers(r.kind, m)
  /\ \A i \in Parked(t) :
       i \in Parked(srv) \/ \E r \in Out(c) \ ToSet(out) : r.id = i /\ r.kind = "publish"
  /\ c.channel = "OPEN" =>
       \A i : i \in Parked(srv) \/ (\E r \in Out(c) \ ToSet(out) : r.id = i) =>
         i \in Parked(t) \/ \E m \in ToSet(ms) : m.id = i

\* What the responses ms say is in order.
NotesMove(c, ms, t) ==
  /\ Kept(c.got, t) /\ Numbered(t.retrans \cup c.got \cup c.missed, t)
  /\ Noted(c.subs, c.got, c.missed, t)
  /\ \A m \in In(c) \cup ToSet(ms) : Coming(m, c.subs, c.got, c.missed, t)
  /\ InOrder(c.in \o ms)

\* Behind a message that there are too many requests, there still are so many.
ManyMove(c, ms) ==
  \A i \in DOMAIN ms : ms[i].result = "BadTooManyPublishRequests" =>
    MaxParked <= Cardinality({x \in Published(Calls(c)) :
                                \A m \in In(c) \cup ToSet(ms) : m.id # x.id})

\* Such responses keep what is fine.
LEMMA Replies ==
  ASSUME NEW c, NEW srv, Fine(c, srv), c.channel # "OPEN" => c.waiting = <<>>,
         NEW ms \in Seq(ResponseMsg), NEW out \in Seq(RequestMsg), NEW t \in ServerRecord,
         t.channel = srv.channel, Moves(c, srv, ms, out, t), NotesMove(c, ms, t),
         \A r \in ToSet(out) : r.kind = "CreateSubscription" => t.created < MaxSub,
         c.channel = "OPEN" => ManyMove(c, ms),
         c.channel = "OPEN" /\ srv.channel /\ UsableAt(t) =>
           c.session \in {"ACTIVATED", "CLOSING"} \/ Activating(Calls(c), In(c) \cup ToSet(ms))
  PROVE  LET d == Replied(c, ms, out)
         IN  Fine(d, t) /\ d.channel = c.channel /\ d.waiting = c.waiting
<1> DEFINE d == Replied(c, ms, out)
           in == IF c.channel = "OPEN" THEN c.in \o ms ELSE c.in
           N == ToSet(ms)
           O == ToSet(out)
           C == Calls(c)
           W == Waits(c)
           I == In(c)
           Q == Parked(srv)
           R == Parked(t)
<1>1. /\ c \in ClientRecord /\ Listed(c) /\ LinkInv(c, srv) /\ WireInv(c, srv)
      /\ NotesInv(c, srv) /\ SessionInv(c) /\ CountInv(c)
  BY DEF Fine, Weak, Core
<1>2. /\ c.calls \in Seq(Call) /\ c.in \in Seq(ResponseMsg) /\ c.waiting \in Seq(Waiting)
      /\ c.out \in Seq(RequestMsg)
  BY <1>1 DEF ClientRecord
<1>3. /\ IsInjective(c.calls) /\ IsInjective(c.waiting) /\ IsInjective(c.in)
  BY <1>1 DEF Listed
<1>4. Link(C, W, I, Out(c), Q)
  BY <1>1 DEF LinkInv
<1>5. /\ IsInjective(out) /\ O \subseteq Out(c) /\ CloLast(out)
      /\ \A i, j \in DOMAIN ms : ms[i].id = ms[j].id => i = j
      /\ \A m \in N :
           /\ m.id \notin R
           /\ m.id \in Q \/ \E r \in Out(c) \ O : r.id = m.id /\ Answers(r.kind, m)
      /\ \A i \in R : i \in Q \/ \E r \in Out(c) \ O : r.id = i /\ r.kind = "publish"
      /\ c.channel = "OPEN" =>
           \A i : i \in Q \/ (\E r \in Out(c) \ O : r.id = i) => i \in R \/ \E m \in N : m.id = i
  BY DEF Moves
<1>6. Unique(N) /\ IsInjective(ms) /\ N \subseteq ResponseMsg
  <2>1. \A m \in N : \E i \in DOMAIN ms : ms[i] = m
    BY ToSetFacts DEF ToSet
  <2>2. Unique(N)
    BY <1>5, <2>1 DEF Unique
  <2> QED
    BY <1>5, <2>2, ToSetFacts DEF IsInjective
<1>7. /\ c.in \o ms \in Seq(ResponseMsg) /\ Len(c.in \o ms) = Len(c.in) + Len(ms)
      /\ \A i \in 1..Len(c.in) : (c.in \o ms)[i] = c.in[i]
      /\ \A i \in 1..Len(ms) : (c.in \o ms)[Len(c.in) + i] = ms[i]
      /\ ToSet(c.in \o ms) = I \cup N
      /\ I \cap N = {} => IsInjective(c.in \o ms)
  BY <1>2, <1>3, <1>6, JoinFacts DEF In
<1>8. I \cap N = {}
  <2> SUFFICES ASSUME NEW m \in I, m \in N PROVE FALSE
    OBVIOUS
  <2> QED
    BY <1>4, <1>5 DEF Link
<1> HIDE DEF N, O, C, W, I, Q, R
<1>9. \A m \in N : /\ \A r \in O : r.id # m.id
                   /\ m.id \in Q \/ \E r \in Out(c) : r.id = m.id
                   /\ \A x \in C : x.id = m.id => Answers(x.kind, m)
                   /\ \A w \in W : w.id = m.id => Answers(w.op, m)
  <2> SUFFICES ASSUME NEW m \in N
               PROVE  /\ \A r \in O : r.id # m.id
                      /\ m.id \in Q \/ \E r \in Out(c) : r.id = m.id
                      /\ \A x \in C : x.id = m.id => Answers(x.kind, m)
                      /\ \A w \in W : w.id = m.id => Answers(w.op, m)
    OBVIOUS
  <2>1. CASE m.id \in Q
    <3>1. \A x \in C : x.id = m.id => x.kind = "publish"
      BY <1>4, <2>1 DEF Link
    <3>2. Answers("publish", m)
      BY DEF Answers
    <3> QED
      BY <1>4, <1>5, <2>1, <3>1, <3>2 DEF Link
  <2>2. ASSUME NEW r \in Out(c) \ O, r.id = m.id, Answers(r.kind, m)
        PROVE  /\ \A q \in O : q.id # m.id
               /\ m.id \in Q \/ \E q \in Out(c) : q.id = m.id
               /\ \A x \in C : x.id = m.id => Answers(x.kind, m)
               /\ \A w \in W : w.id = m.id => Answers(w.op, m)
    <3>1. \A q \in O : q.id # m.id
      BY <1>4, <1>5, <2>2 DEF Link, Unique
    <3>2. \A x \in C : x.id = m.id => x.kind = r.kind
      BY <1>4, <2>2 DEF Link
    <3>3. \A w \in W : w.id = m.id => w.op = r.kind
      BY <1>4, <2>2 DEF Link
    <3> QED
      BY <2>2, <3>1, <3>2, <3>3
  <2> QED
    BY <1>5, <2>1, <2>2
<1>10. \A w \in W : \A r \in Out(c) : r.id = w.id => r.kind # "publish"
  <2> SUFFICES ASSUME NEW w \in W, NEW r \in Out(c), r.id = w.id PROVE r.kind # "publish"
    OBVIOUS
  <2>1. r.kind = w.op
    BY <1>4 DEF Link
  <2>2. w \in Waiting
    BY <1>2, ToSetFacts DEF W, Waits
  <2> QED
    BY <2>1, <2>2 DEF Waiting, Ops
<1>11. Link(C, W, I \cup N, O, R)
  <2>1. O \in SUBSET Out(c)
    BY <1>5
  <2>2. \A m \in N : /\ m.id \notin R /\ \A r \in O : r.id # m.id
                     /\ m.id \in Q \/ \E r \in Out(c) : r.id = m.id
                     /\ \A x \in C : x.id = m.id => Answers(x.kind, m)
                     /\ \A w \in W : w.id = m.id => Answers(w.op, m)
    BY <1>5, <1>9
  <2>3. \A i \in R : i \in Q \/ \E r \in Out(c) \ O : r.id = i /\ r.kind = "publish"
    BY <1>5
  <2> QED
    BY <1>4, <1>6, <1>10, <2>1, <2>2, <2>3, LinkAnswered
<1>12. /\ d \in ClientRecord /\ SameNotes(c, d) /\ d.acks = c.acks /\ d.in = in /\ d.out = out
       /\ d.calls = c.calls /\ d.waiting = c.waiting /\ d.lost = c.lost
       /\ d.session = c.session /\ d.outstanding = c.outstanding /\ d.limit = c.limit
       /\ d.checking = c.checking /\ d.channel = c.channel
  <2>1. in \in Seq(ResponseMsg)
    BY <1>2, <1>7
  <2>2. d = [c EXCEPT !.in = in, !.out = out]
    BY DEF Replied
  <2> HIDE DEF in, d
  <2> QED
    BY <1>1, <2>1, <2>2 DEF ClientRecord, SameNotes
<1> HIDE DEF d
<1>13. /\ Calls(d) = C /\ Waits(d) = W /\ Out(d) = O
       /\ \A kind : Pending(d, kind) <=> Pending(c, kind)
       /\ c.channel = "OPEN" => In(d) = I \cup N /\ d.in = c.in \o ms
       /\ c.channel # "OPEN" => In(d) = I /\ d.in = c.in /\ C = {} /\ W = {} /\ I = {}
  <2>1. c.channel # "OPEN" => c.calls = <<>> /\ c.waiting = <<>> /\ c.in = <<>>
    BY <1>1 DEF SessionInv
  <2>2. \A s : s = <<>> => ToSet(s) = {}
    BY DEF ToSet
  <2> QED
    BY <1>7, <1>12, <2>1, <2>2 DEF Calls, Waits, Out, In, Pending, C, W, O, I
<1>14. LinkInv(d, t) /\ Listed(d)
  <2>1. Link(C, W, In(d), O, R)
    <3>1. C \in SUBSET C /\ W \in SUBSET W /\ In(d) \in SUBSET (I \cup N) /\ O \in SUBSET O
          /\ R \in SUBSET R
      BY <1>13
    <3> QED
      BY <1>11, <3>1, LinkLess
  <2>2. IsInjective(d.in)
    BY <1>3, <1>7, <1>8, <1>13
  <2> QED
    BY <1>3, <1>5, <1>12, <1>13, <2>1, <2>2 DEF LinkInv, Listed, R
<1>15. WireInv(d, t)
  <2>1. ~t.channel => out = <<>>
    <3>1. ASSUME ~t.channel PROVE out = <<>>
      <4>1. Out(c) = {}
        <5>1. c.out = <<>>
          BY <1>1, <3>1 DEF WireInv
        <5> QED
          BY <1>2, <5>1, ToSetFacts DEF Out
      <4>2. O = {}
        BY <1>5, <4>1
      <4> QED
        BY <4>2, ToSetFacts DEF O
    <3> QED
      BY <3>1
  <2>2. \A r \in O : r \in Out(c) /\ (r.kind = "CreateSubscription" => t.created < MaxSub)
    BY <1>5 DEF O
  <2>3. /\ c.channel = "OPEN" => (c.lost <=> ~srv.channel)
        /\ c.channel = "OPENING" => ~srv.channel
        /\ \A r \in Out(c) : r.kind = "CLO" <=> r.id = 0
        /\ c.channel = "OPEN" => \A r \in Out(c) : r.kind # "CLO"
        /\ CloLast(c.out)
        /\ \A q, r \in Out(c) :
             q.kind = "CreateSubscription" /\ r.kind = "CreateSubscription" => q = r
    BY <1>1 DEF WireInv
  <2> QED
    BY <1>5, <1>12, <1>13, <2>1, <2>2, <2>3 DEF WireInv
<1>16. NotesInv(d, t)
  <2>1. /\ Kept(c.got, t) /\ Numbered(t.retrans \cup c.got \cup c.missed, t)
        /\ Noted(c.subs, c.got, c.missed, t)
        /\ \A m \in I \cup N : Coming(m, c.subs, c.got, c.missed, t)
        /\ InOrder(c.in \o ms)
    BY DEF NotesMove, I, N
  <2>2. InOrder(d.in)
    BY <1>1, <1>13, <2>1 DEF NotesInv
  <2>3. \A m \in In(d) : Coming(m, c.subs, c.got, c.missed, t)
    BY <1>13, <2>1
  <2>4. c.acks \subseteq c.got /\ \A r \in O : r.acks \subseteq c.got
    BY <1>1, <1>5 DEF NotesInv
  <2> QED
    BY <1>12, <1>13, <2>1, <2>2, <2>3, <2>4 DEF NotesInv, SameNotes
<1>17. SessionInv(d)
  BY <1>1, <1>12, <1>13 DEF SessionInv, SameNotes, C
<1>18. CountInv(d)
  BY <1>1, <1>12, <1>13 DEF CountInv, C
<1>19. ASSUME c.channel = "OPEN" PROVE OpenPart(d, t)
  <2>1. OpenPart(c, srv)
    BY <1>19 DEF Fine
  <2>2. ManyInv(d)
    <3> SUFFICES ASSUME NEW i \in DOMAIN d.in, d.in[i].result = "BadTooManyPublishRequests"
                 PROVE  MaxParked <= Cardinality(Unanswered(d, i))
      BY DEF ManyInv
    <3>1. i \in 1..Len(c.in) + Len(ms) /\ Len(c.in) \in Nat /\ Len(ms) \in Nat
      BY <1>2, <1>7, <1>13, <1>19, LenProperties
    <3>2. CASE i <= Len(c.in)
      <4>1. \A j \in 1..i : d.in[j] = c.in[j]
        BY <1>7, <1>13, <1>19, <3>1, <3>2
      <4>2. Unanswered(d, i) = Unanswered(c, i)
        BY <1>13, <4>1 DEF Unanswered, C
      <4>3. i \in DOMAIN c.in /\ c.in[i] = d.in[i]
        <5>1. i \in 1..i /\ i \in 1..Len(c.in)
          BY <3>1, <3>2
        <5> QED
          BY <1>2, <4>1, <5>1, LenProperties
      <4> QED
        BY <2>1, <4>2, <4>3 DEF OpenPart, ManyInv
    <3>3. CASE i > Len(c.in)
      <4> DEFINE k == i - Len(c.in)
                 U == {x \in Published(C) : \A m \in I \cup N : m.id # x.id}
      <4>1. k \in 1..Len(ms) /\ Len(c.in) + k = i
        BY <3>1, <3>3
      <4>2. k \in DOMAIN ms /\ ms[k].result = "BadTooManyPublishRequests"
        <5>1. ms[k] = d.in[i]
          BY <1>7, <1>13, <1>19, <4>1
        <5> QED
          BY <4>1, <5>1, LenProperties
      <4> HIDE DEF k
      <4>3. MaxParked <= Cardinality(U)
        BY <1>19, <4>2 DEF ManyMove, I, N, C
      <4>4. U \subseteq Unanswered(d, i)
        <5>1. \A j \in 1..i : d.in[j] \in I \cup N
          <6> DEFINE s == c.in \o ms
          <6>1. /\ s \in Seq(ResponseMsg) /\ Len(s) = Len(c.in) + Len(ms)
                /\ ToSet(s) = I \cup N /\ d.in = s
            BY <1>7, <1>13, <1>19
          <6> HIDE DEF s
          <6>2. \A j \in 1..Len(s) : s[j] \in ToSet(s)
            BY <6>1, ToSetFacts
          <6>3. \A j \in 1..i : j \in 1..Len(s)
            BY <3>1, <6>1
          <6> QED
            BY <6>1, <6>2, <6>3
        <5> QED
          BY <1>13, <5>1 DEF Unanswered
      <4>5. IsFiniteSet(Unanswered(d, i)) /\ Cardinality(Unanswered(d, i)) \in Nat
        BY <1>12, <1>14, PublishedFacts DEF Listed
      <4> HIDE DEF U
      <4>6. Cardinality(U) \in Nat /\ Cardinality(U) <= Cardinality(Unanswered(d, i))
        BY <4>4, <4>5, FS_Subset, FS_CardinalityType
      <4> QED
        BY <4>3, <4>5, <4>6, BoundsAssumption
    <3> QED
      BY <3>1, <3>2, <3>3
  <2>3. ASSUME t.channel PROVE AskedInv(d, t)
    <3>1. Asked(C, W, I, Out(c), Q)
      BY <2>1, <2>3 DEF OpenPart, AskedInv, C, W, I, Q
    <3>2. \A x \in C \cup W : x.id \in R \/ \E y \in I \cup N \cup O : y.id = x.id
      BY <1>5, <1>19, <3>1 DEF Asked
    <3>3. \A r \in O :
            /\ r.kind \in {"create", "activate", "publish"} => \E x \in C : x.id = r.id /\ x.kind = r.kind
            /\ r.kind = "CreateSubscription" => \E w \in W : w.id = r.id
      BY <1>5, <3>1 DEF Asked
    <3>4. \A i \in R : \E x \in C : x.id = i /\ x.kind = "publish"
      <4> SUFFICES ASSUME NEW i \in R PROVE \E x \in C : x.id = i /\ x.kind = "publish"
        OBVIOUS
      <4>1. CASE i \in Q
        BY <3>1, <4>1 DEF Asked
      <4>2. ASSUME NEW r \in Out(c), r.id = i, r.kind = "publish"
            PROVE  \E x \in C : x.id = i /\ x.kind = "publish"
        BY <3>1, <4>2 DEF Asked
      <4> QED
        BY <1>5, <4>1, <4>2
    <3> QED
      BY <1>13, <1>19, <3>2, <3>3, <3>4 DEF AskedInv, Asked, R
  <2>4. t.channel /\ UsableAt(t) =>
          d.session \in {"ACTIVATED", "CLOSING"} \/ Activating(Calls(d), In(d))
    BY <1>12, <1>13, <1>19 DEF C, I, N
  <2> QED
    BY <1>12, <2>1, <2>2, <2>3, <2>4 DEF OpenPart
<1> QED
  BY <1>12, <1>14, <1>15, <1>16, <1>17, <1>18, <1>19 DEF Fine, Weak, Core, d

\* The first request the client c has sent is h, and out is behind it.
First(c, h, out) == c.out # <<>> /\ h = Head(c.out) /\ out = Tail(c.out)

\* What is known of them.
LEMMA HeadFacts ==
  ASSUME NEW c, NEW srv, Fine(c, srv), NEW h, NEW out, First(c, h, out)
  PROVE  /\ h \in RequestMsg /\ h \in Out(c) /\ out \in Seq(RequestMsg) /\ IsInjective(out)
         /\ ToSet(out) = Out(c) \ {h} /\ Out(c) \ ToSet(out) = {h} /\ CloLast(out)
         /\ srv.channel
         /\ h.kind # "CLO" => h.id \in PosNat
         /\ h.id \notin Parked(srv)
         /\ \A r \in Out(c) : r.id = h.id => r = h
<1>1. /\ c.out \in Seq(RequestMsg) /\ IsInjective(c.out)
      /\ Link(Calls(c), Waits(c), In(c), Out(c), Parked(srv)) /\ WireInv(c, srv)
  BY DEF Fine, Weak, Core, Listed, LinkInv, ClientRecord
<1>2. /\ h \in Out(c) /\ out \in Seq(RequestMsg) /\ IsInjective(out) /\ ToSet(out) = Out(c) \ {h}
      /\ Out(c) \subseteq RequestMsg
  BY <1>1, TailFacts, ToSetFacts DEF Out, First
<1>3. h \in RequestMsg /\ Out(c) \ ToSet(out) = {h}
  BY <1>2
<1>4. srv.channel
  BY <1>1 DEF WireInv, First
<1>5. h.kind # "CLO" => h.id # 0
  BY <1>1, <1>2 DEF WireInv
<1>6. h.id \in Nat
  BY <1>3 DEF RequestMsg
<1>7. h.id \notin Parked(srv) /\ \A r \in Out(c) : r.id = h.id => r = h
  BY <1>1, <1>2 DEF Link, Unique
<1>8. CloLast(out)
  BY <1>1, CloTail DEF WireInv, First
<1> QED
  BY <1>2, <1>3, <1>4, <1>5, <1>6, <1>7, <1>8 DEF PosNat

\* The first request is answered by m and no other; the parked ones stay.
LEMMA AnswersHead ==
  ASSUME NEW c, NEW srv, Fine(c, srv), NEW h, NEW out, First(c, h, out),
         NEW m \in ResponseMsg, m.id = h.id, Answers(h.kind, m),
         NEW t, Parked(t) \subseteq Parked(srv),
         c.channel = "OPEN" => Parked(srv) \subseteq Parked(t)
  PROVE  Moves(c, srv, <<m>>, out, t) /\ <<m>> \in Seq(ResponseMsg) /\ ToSet(<<m>>) = {m}
<1>1. /\ h \in Out(c) /\ IsInjective(out) /\ ToSet(out) \subseteq Out(c) /\ CloLast(out)
      /\ Out(c) \ ToSet(out) = {h} /\ h.id \notin Parked(srv)
  <2>1. /\ h \in Out(c) /\ IsInjective(out) /\ ToSet(out) = Out(c) \ {h} /\ CloLast(out)
        /\ Out(c) \ ToSet(out) = {h} /\ h.id \notin Parked(srv)
    BY HeadFacts
  <2> QED
    BY <2>1
<1>2. <<m>> \in Seq(ResponseMsg) /\ ToSet(<<m>>) = {m} /\ IsInjective(<<m>>)
  BY SingleFacts
<1>3. \A i, j \in DOMAIN <<m>> : i = j
  BY LenProperties
<1> DEFINE ms == <<m>>
<1> HIDE DEF ms
<1>4. ToSet(ms) = {m} /\ \A i, j \in DOMAIN ms : ms[i].id = ms[j].id => i = j
  BY <1>2, <1>3 DEF ms
<1>5. Moves(c, srv, ms, out, t)
  BY <1>1, <1>4 DEF Moves
<1> QED
  BY <1>2, <1>5 DEF ms

\* Responses that go together with those on their way.
LEMMA InOrderJoins ==
  ASSUME NEW in \in Seq(ResponseMsg), NEW ms \in Seq(ResponseMsg), InOrder(in), InOrder(ms),
         \A x \in ToSet(in), m \in ToSet(ms) : x.sub = m.sub /\ x.sub # 0 =>
           News(m) /\ x.seq <= m.seq /\ (x.data => x.seq < m.seq)
  PROVE  InOrder(in \o ms)
<1> DEFINE w == in \o ms
<1>1. /\ w \in Seq(ResponseMsg) /\ Len(w) = Len(in) + Len(ms)
      /\ \A i \in 1..Len(in) : w[i] = in[i]
      /\ \A i \in 1..Len(ms) : w[Len(in) + i] = ms[i]
  BY JoinFacts
<1>2. Len(in) \in Nat /\ Len(ms) \in Nat /\ DOMAIN w = 1..Len(w)
      /\ DOMAIN in = 1..Len(in) /\ DOMAIN ms = 1..Len(ms)
  BY <1>1, LenProperties
<1>3. (\A i \in 1..Len(in) : in[i] \in ToSet(in)) /\ (\A i \in 1..Len(ms) : ms[i] \in ToSet(ms))
  BY ToSetFacts
<1> HIDE DEF w
<1> SUFFICES ASSUME NEW i \in DOMAIN w, NEW j \in DOMAIN w, i < j, w[i].sub = w[j].sub,
                    w[i].sub # 0
             PROVE  News(w[j]) /\ w[i].seq <= w[j].seq /\ (w[i].data => w[i].seq < w[j].seq)
  BY DEF InOrder, w
<1> DEFINE a == Len(in)
           b == Len(ms)
<1>10. a \in Nat /\ b \in Nat /\ i \in 1..a + b /\ j \in 1..a + b /\ i < j
  BY <1>1, <1>2
<1>4. CASE j <= Len(in)
  <2>1. i \in 1..Len(in) /\ j \in 1..Len(in)
    BY <1>1, <1>2, <1>4
  <2> QED
    BY <1>1, <1>2, <2>1 DEF InOrder
<1>5. CASE i > Len(in)
  <2> DEFINE k == i - Len(in)
             l == j - Len(in)
  <2>1. k \in 1..Len(ms) /\ l \in 1..Len(ms) /\ k < l /\ i = Len(in) + k /\ j = Len(in) + l
    <3>1. i > a
      BY <1>5
    <3> HIDE DEF a, b
    <3>2. i - a \in 1..b /\ j - a \in 1..b /\ i - a < j - a /\ i = a + (i - a) /\ j = a + (j - a)
      BY <1>10, <3>1
    <3> QED
      BY <3>2 DEF a, b
  <2> HIDE DEF k, l
  <2>2. w[i] = ms[k] /\ w[j] = ms[l]
    BY <1>1, <2>1
  <2> QED
    BY <1>2, <2>1, <2>2 DEF InOrder
<1>6. CASE i <= Len(in) /\ j > Len(in)
  <2> DEFINE l == j - Len(in)
  <2>1. i \in 1..Len(in) /\ l \in 1..Len(ms) /\ j = Len(in) + l
    BY <1>1, <1>2, <1>6
  <2> HIDE DEF l
  <2>2. w[i] \in ToSet(in) /\ w[j] \in ToSet(ms)
    BY <1>1, <1>3, <2>1
  <2> QED
    BY <2>2
<1> QED
  BY <1>1, <1>2, <1>4, <1>5, <1>6

\* What notifications need of the server when it has created no more subscriptions
\* and noted no more notifications.
LEMMA FewerNotes ==
  ASSUME NEW c, NEW srv, Fine(c, srv), NEW t \in ServerRecord,
         t.seq = srv.seq, t.created = srv.created, t.subs \subseteq srv.subs,
         t.retrans \subseteq srv.retrans,
         \A p \in srv.retrans : p[1] \in t.subs => p \in t.retrans \cup c.got
  PROVE  /\ Kept(c.got, t) /\ Numbered(t.retrans \cup c.got \cup c.missed, t)
         /\ Noted(c.subs, c.got, c.missed, t)
         /\ \A m \in In(c) : Coming(m, c.subs, c.got, c.missed, t)
         /\ InOrder(c.in)
<1>1. /\ Kept(c.got, srv) /\ Numbered(srv.retrans \cup c.got \cup c.missed, srv)
      /\ Noted(c.subs, c.got, c.missed, srv)
      /\ \A m \in In(c) : Coming(m, c.subs, c.got, c.missed, srv)
      /\ InOrder(c.in)
  BY DEF Fine, Weak, Core, NotesInv
<1>2. Kept(c.got, t)
  <2> SUFFICES ASSUME NEW s \in t.subs
               PROVE  s <= t.created /\ \A n \in 1..t.seq[s] : <<s, n>> \in t.retrans \cup c.got
    BY DEF Kept
  <2>1. s <= srv.created /\ \A n \in 1..srv.seq[s] : <<s, n>> \in srv.retrans \cup c.got
    BY <1>1 DEF Kept
  <2>2. \A n : <<s, n>>[1] = s
    OBVIOUS
  <2> QED
    BY <2>1, <2>2
<1>3. Numbered(t.retrans \cup c.got \cup c.missed, t)
  BY <1>1 DEF Numbered
<1>4. Noted(c.subs, c.got, c.missed, t)
  BY <1>1 DEF Noted
<1>5. \A m \in In(c) : Coming(m, c.subs, c.got, c.missed, t)
  BY <1>1 DEF Coming
<1> QED
  BY <1>1, <1>2, <1>3, <1>4, <1>5

\* A response that says nothing of a subscription.
Plain(m) == m.sub = 0 /\ m.seq = 0

\* Such responses disturb no notification.
LEMMA PlainNotes ==
  ASSUME NEW c, NEW srv, Fine(c, srv), NEW t \in ServerRecord,
         t.seq = srv.seq, t.created = srv.created, t.subs \subseteq srv.subs,
         t.retrans \subseteq srv.retrans,
         \A p \in srv.retrans : p[1] \in t.subs => p \in t.retrans \cup c.got,
         NEW ms \in Seq(ResponseMsg), \A m \in ToSet(ms) : Plain(m)
  PROVE  NotesMove(c, ms, t)
<1>1. /\ Kept(c.got, t) /\ Numbered(t.retrans \cup c.got \cup c.missed, t)
      /\ Noted(c.subs, c.got, c.missed, t)
      /\ \A m \in In(c) : Coming(m, c.subs, c.got, c.missed, t)
      /\ InOrder(c.in)
  BY FewerNotes
<1>2. \A m \in ToSet(ms) : Coming(m, c.subs, c.got, c.missed, t)
  BY DEF Plain, Coming, News, Creation
<1>3. InOrder(ms)
  <2>1. \A i \in DOMAIN ms : ms[i].sub = 0
    BY DEF Plain, ToSet
  <2> QED
    BY <2>1 DEF InOrder
<1>4. c.in \in Seq(ResponseMsg)
  BY DEF Fine, Weak, Core, ClientRecord
<1>5. InOrder(c.in \o ms)
  <2>1. \A x \in ToSet(c.in), m \in ToSet(ms) : ~(x.sub = m.sub /\ x.sub # 0)
    BY DEF Plain
  <2> QED
    BY <1>1, <1>3, <1>4, <2>1, InOrderJoins
<1> QED
  BY <1>1, <1>2, <1>5 DEF NotesMove

\* Sending is replying.
LEMMA SentReplies ==
  ASSUME NEW c \in ClientRecord, NEW ms \in Seq(ResponseMsg), NEW out \in Seq(RequestMsg)
  PROVE  /\ Sent([c EXCEPT !.out = out], ms) = Replied(c, ms, out)
         /\ out = c.out => Sent(c, ms) = Replied(c, ms, out)
         /\ out = c.out /\ ms = <<>> => c = Replied(c, ms, out)
<1> DEFINE in == IF c.channel = "OPEN" THEN c.in \o ms ELSE c.in
<1>1. c.in \in Seq(ResponseMsg)
  BY DEF ClientRecord
<1>2. ms = <<>> => in = c.in
  BY <1>1
<1>3. Replied(c, ms, out) = [c EXCEPT !.in = in, !.out = out]
  BY DEF Replied
<1>4. [c EXCEPT !.out = out].channel = c.channel /\ [c EXCEPT !.out = out].in = c.in
  BY DEF ClientRecord
<1>5. Sent([c EXCEPT !.out = out], ms) = [[c EXCEPT !.out = out] EXCEPT !.in = in]
  BY <1>4 DEF Sent
<1>6. Sent(c, ms) = [c EXCEPT !.in = in]
  BY DEF Sent
<1> HIDE DEF in
<1>7. [[c EXCEPT !.out = out] EXCEPT !.in = in] = [c EXCEPT !.in = in, !.out = out]
  BY DEF ClientRecord
<1>8. out = c.out => [c EXCEPT !.in = in] = [c EXCEPT !.in = in, !.out = out]
  BY DEF ClientRecord
<1>9. out = c.out /\ in = c.in => c = [c EXCEPT !.in = in, !.out = out]
  BY DEF ClientRecord
<1> QED
  BY <1>2, <1>3, <1>5, <1>6, <1>7, <1>8, <1>9

\* The server t after srv has no more subscriptions and notifications, and has what
\* the client c did not get of those that are left.
Keeps(c, srv, t) ==
  /\ t \in ServerRecord /\ t.channel = srv.channel /\ t.seq = srv.seq /\ t.created = srv.created
  /\ t.subs \subseteq srv.subs /\ t.retrans \subseteq srv.retrans
  /\ \A p \in srv.retrans : p[1] \in t.subs => p \in t.retrans \cup c.got

\* What the client c needs of its server.
Sound(c, srv) == Fine(c, srv) /\ (c.channel # "OPEN" => c.waiting = <<>>)

\* Plain responses; they may say that there are too many requests if there are.
LEMMA PlainReplies ==
  ASSUME NEW c, NEW srv, Sound(c, srv), NEW t, Keeps(c, srv, t),
         NEW ms \in Seq(ResponseMsg), NEW out \in Seq(RequestMsg), Moves(c, srv, ms, out, t),
         \A m \in ToSet(ms) : Plain(m),
         \/ \A m \in ToSet(ms) : m.result # "BadTooManyPublishRequests"
         \/ c.channel = "OPEN" => ManyMove(c, ms),
         c.channel = "OPEN" /\ srv.channel /\ UsableAt(t) =>
           UsableAt(srv) \/ Activating(Calls(c), In(c) \cup ToSet(ms))
  PROVE  Sound(Replied(c, ms, out), t)
<1>1. Fine(c, srv) /\ (c.channel # "OPEN" => c.waiting = <<>>)
  BY DEF Sound
<1>2. t \in ServerRecord /\ t.channel = srv.channel /\ t.created = srv.created
  BY DEF Keeps
<1>3. NotesMove(c, ms, t)
  BY <1>1, PlainNotes DEF Keeps
<1>4. \A r \in ToSet(out) : r.kind = "CreateSubscription" => t.created < MaxSub
  <2>1. \A r \in Out(c) : r.kind = "CreateSubscription" => srv.created < MaxSub
    BY <1>1 DEF Fine, Weak, Core, WireInv
  <2>2. ToSet(out) \subseteq Out(c)
    BY DEF Moves
  <2> QED
    BY <1>2, <2>1, <2>2
<1>5. c.channel = "OPEN" => ManyMove(c, ms)
  <2>1. CASE \A m \in ToSet(ms) : m.result # "BadTooManyPublishRequests"
    <3>1. \A i \in DOMAIN ms : ms[i] \in ToSet(ms)
      BY DEF ToSet
    <3> QED
      BY <2>1, <3>1 DEF ManyMove
  <2> QED
    BY <2>1
<1>6. c.channel = "OPEN" /\ srv.channel /\ UsableAt(t) =>
        c.session \in {"ACTIVATED", "CLOSING"} \/ Activating(Calls(c), In(c) \cup ToSet(ms))
  <2>1. c.channel = "OPEN" /\ srv.channel /\ UsableAt(srv) =>
          c.session \in {"ACTIVATED", "CLOSING"} \/ Activating(Calls(c), In(c))
    BY <1>1 DEF Fine, OpenPart
  <2>2. Activating(Calls(c), In(c)) => Activating(Calls(c), In(c) \cup ToSet(ms))
    BY DEF Activating
  <2> QED
    BY <2>1, <2>2
<1> DEFINE d == Replied(c, ms, out)
<1>7. Fine(d, t) /\ d.channel = c.channel /\ d.waiting = c.waiting
  BY <1>1, <1>2, <1>3, <1>4, <1>5, <1>6, Replies
<1> HIDE DEF d
<1> QED
  BY <1>1, <1>7 DEF Sound, d

\* A plain answer to the first request.
LEMMA PlainAnswer ==
  ASSUME NEW c, NEW srv, Sound(c, srv), NEW t, Keeps(c, srv, t),
         NEW h, NEW out, First(c, h, out),
         NEW m \in ResponseMsg, m.id = h.id, Answers(h.kind, m), Plain(m),
         m.result # "BadTooManyPublishRequests",
         Parked(t) \subseteq Parked(srv), c.channel = "OPEN" => Parked(srv) \subseteq Parked(t),
         c.channel = "OPEN" /\ UsableAt(t) =>
           UsableAt(srv) \/ Activating(Calls(c), In(c) \cup {m})
  PROVE  Sound(Replied(c, <<m>>, out), t)
<1> DEFINE ms == <<m>>
<1>1. Fine(c, srv)
  BY DEF Sound
<1>2. Moves(c, srv, <<m>>, out, t) /\ <<m>> \in Seq(ResponseMsg) /\ ToSet(<<m>>) = {m}
  BY <1>1, AnswersHead
<1>3. Moves(c, srv, ms, out, t) /\ ms \in Seq(ResponseMsg) /\ ToSet(ms) = {m}
  BY <1>2
<1>4. out \in Seq(RequestMsg)
  BY <1>1, HeadFacts
<1> HIDE DEF ms
<1>5. \A x \in ToSet(ms) : Plain(x) /\ x.result # "BadTooManyPublishRequests"
  BY <1>3
<1>6. c.channel = "OPEN" /\ srv.channel /\ UsableAt(t) =>
        UsableAt(srv) \/ Activating(Calls(c), In(c) \cup ToSet(ms))
  BY <1>3
<1>7. Sound(Replied(c, ms, out), t)
  BY <1>3, <1>4, <1>5, <1>6, PlainReplies
<1> QED
  BY <1>7 DEF ms

\* What a response says.
LEMMA ResponseFacts ==
  ASSUME NEW id \in PosNat, NEW result \in Results
  PROVE  LET m == Response(id, result)
         IN  /\ m \in ResponseMsg /\ m.id = id /\ m.result = result /\ Plain(m)
             /\ \A kind : kind # "endpoints" /\ (kind = "CreateSubscription" => result # "Good") =>
                  Answers(kind, m)
             /\ result \in {"same", "different", "none"} => \A kind : Answers(kind, m)
<1>1. Response(id, result) =
        [id |-> id, result |-> result, sub |-> 0, seq |-> 0, data |-> FALSE, avail |-> {}]
  BY DEF Response
<1> QED
  BY <1>1 DEF ResponseMsg, Plain, Answers

\* The server srv has a request h of the client c to handle, with out behind it.
Serving(c, srv, h, out) ==
  /\ Sound(c, srv) /\ ServerInv(srv) /\ First(c, h, out) /\ c \in ClientRecord
  /\ out \in Seq(RequestMsg) /\ h \in RequestMsg /\ h \in Out(c) /\ h.id \notin Parked(srv)
  /\ srv.channel
  /\ h.kind # "CLO" => h.id \in PosNat

\* What a handler finds.
LEMMA Begins ==
  ASSUME IInv, NEW kind, Receives(kind)
  PROVE  \E c, srv, h, out : /\ c = client /\ srv = server /\ Serving(c, srv, h, out)
                             /\ h.kind = kind /\ h.id = RequestId
<1>1. PICK c : c = client
  OBVIOUS
<1>2. PICK srv : srv = server
  OBVIOUS
<1>3. PICK h : h = Head(c.out)
  OBVIOUS
<1>4. PICK out : out = Tail(c.out)
  OBVIOUS
<1>5. Sound(c, srv) /\ ServerInv(srv) /\ Fine(c, srv)
  BY <1>1, <1>2 DEF IInv, Sound
<1>6. First(c, h, out) /\ h.kind = kind /\ h.id = RequestId
  BY <1>1, <1>3, <1>4 DEF Receives, RequestId, First
<1>7. /\ h \in RequestMsg /\ h \in Out(c) /\ out \in Seq(RequestMsg) /\ srv.channel
      /\ h.kind # "CLO" => h.id \in PosNat
      /\ h.id \notin Parked(srv)
  BY <1>5, <1>6, HeadFacts
<1>8. c \in ClientRecord
  BY <1>5 DEF Fine, Weak, Core
<1>9. Serving(c, srv, h, out)
  BY <1>5, <1>6, <1>7, <1>8 DEF Serving
<1> QED
  BY <1>1, <1>2, <1>6, <1>9

\* What Answer makes of the client.
LEMMA AnswerIs ==
  ASSUME NEW c, c = client, c \in ClientRecord, NEW h, NEW out, First(c, h, out),
         out \in Seq(RequestMsg), NEW ms \in Seq(ResponseMsg), Answer(ms)
  PROVE  client' = Replied(c, ms, out)
<1>1. client' = Sent([c EXCEPT !.out = out], ms)
  BY DEF Answer, First
<1> QED
  BY <1>1, SentReplies

\* Both ends after a step of the server.
LEMMA ServerMoves ==
  ASSUME IInv, faults' = faults \/ (faults < MaxFaults /\ faults' = faults + 1),
         NEW d, client' = d, NEW t, server' = t, Sound(d, t), ServerInv(t)
  PROVE  IInv'
<1>1. Fine(d, t) /\ (d.channel # "OPEN" => d.waiting = <<>>)
  BY DEF Sound
<1> QED
  BY <1>1, BothMove

\* A request that changes nothing at the server.
LEMMA OnlyAnswers ==
  ASSUME IInv, NEW kind, kind # "CLO", Receives(kind), NEW result \in Results,
         result # "BadTooManyPublishRequests",
         \/ kind # "endpoints" /\ (kind = "CreateSubscription" => result # "Good")
         \/ result \in {"same", "different", "none"},
         Answer(<<Response(RequestId, result)>>), UNCHANGED server, UNCHANGED faults
  PROVE  IInv'
<1>1. PICK c, srv, h, out : /\ c = client /\ srv = server /\ Serving(c, srv, h, out)
                            /\ h.kind = kind /\ h.id = RequestId
  BY Begins
<1>5. /\ Sound(c, srv) /\ ServerInv(srv) /\ First(c, h, out) /\ c \in ClientRecord
      /\ out \in Seq(RequestMsg) /\ h.id \in PosNat
  BY <1>1 DEF Serving
<1>6. PICK m : m = Response(h.id, result)
  OBVIOUS
<1>7. /\ m \in ResponseMsg /\ m.id = h.id /\ m.result = result /\ Plain(m)
      /\ Answers(kind, m)
  BY <1>1, <1>5, <1>6, ResponseFacts
<1>8. PICK d : d = Replied(c, <<m>>, out)
  OBVIOUS
<1>9. client' = d
  <2>1. <<m>> \in Seq(ResponseMsg)
    BY <1>7
  <2>2. Answer(<<m>>)
    BY <1>1, <1>6
  <2> QED
    BY <1>1, <1>5, <1>8, <2>1, <2>2, AnswerIs
<1>10. Keeps(c, srv, srv)
  BY <1>5 DEF Keeps, ServerInv
<1>11. Sound(d, srv)
  <2>1. Sound(Replied(c, <<m>>, out), srv)
    BY <1>1, <1>5, <1>7, <1>10, PlainAnswer
  <2> QED
    BY <1>8, <2>1
<1> QED
  BY <1>1, <1>5, <1>9, <1>11, ServerMoves

\* FindServers.
LEMMA ServesFind ==
  ASSUME IInv, ServeFind, UNCHANGED faults
  PROVE  IInv'
<1>1. PICK result \in {"own", "other"} : Answer(<<Response(RequestId, result)>>)
  BY DEF ServeFind
<1>2. Receives("find") /\ UNCHANGED server
  BY DEF ServeFind
<1>3. result \in Results /\ result # "BadTooManyPublishRequests"
  BY DEF Results
<1> QED
  BY <1>1, <1>2, <1>3, OnlyAnswers

\* GetEndpoints.
LEMMA ServesEndpoints ==
  ASSUME IInv, ServeEndpoints, UNCHANGED faults
  PROVE  IInv'
<1>1. PICK result \in {"same", "different", "none"} : Answer(<<Response(RequestId, result)>>)
  BY DEF ServeEndpoints
<1>2. Receives("endpoints") /\ UNCHANGED server
  BY DEF ServeEndpoints
<1>3. result \in Results /\ result # "BadTooManyPublishRequests"
  BY DEF Results
<1> QED
  BY <1>1, <1>2, <1>3, OnlyAnswers

\* The read of the connectivity check.
LEMMA ServesCheck ==
  ASSUME IInv, ServeCheck, UNCHANGED faults
  PROVE  IInv'
<1>1. PICK result : result = IF Usable THEN "Good" ELSE "BadSessionIdInvalid"
  OBVIOUS
<1>2. Receives("check") /\ UNCHANGED server /\ Answer(<<Response(RequestId, result)>>)
  BY <1>1 DEF ServeCheck
<1>3. result \in Results /\ result # "BadTooManyPublishRequests"
  BY <1>1 DEF Results
<1> QED
  BY <1>1, <1>2, <1>3, OnlyAnswers

\* CreateSession, after which nothing of the old session is left.
LEMMA ServesCreate ==
  ASSUME IInv, ServeCreate, UNCHANGED faults
  PROVE  IInv'
<1>5. Receives("create") /\ Answer(<<Response(RequestId, "Good")>>)
  BY DEF ServeCreate
<1>1. PICK c, srv, h, out : /\ c = client /\ srv = server /\ Serving(c, srv, h, out)
                            /\ h.kind = "create" /\ h.id = RequestId
  BY <1>5, Begins
<1>6. /\ Sound(c, srv) /\ ServerInv(srv) /\ First(c, h, out) /\ c \in ClientRecord
      /\ out \in Seq(RequestMsg) /\ h.id \in PosNat /\ srv.channel /\ h \in Out(c)
  BY <1>1 DEF Serving
<1>7. PICK m : m = Response(h.id, "Good")
  OBVIOUS
<1>8. /\ m \in ResponseMsg /\ m.id = h.id /\ m.result = "Good" /\ Plain(m)
      /\ Answers("create", m)
  <2>1. "Good" \in Results
    BY DEF Results
  <2> QED
    BY <1>1, <1>6, <1>7, <2>1, ResponseFacts
<1>9. PICK d : d = Replied(c, <<m>>, out)
  OBVIOUS
<1>10. client' = d
  <2>1. <<m>> \in Seq(ResponseMsg)
    BY <1>8
  <2>2. Answer(<<m>>)
    BY <1>1, <1>5, <1>7
  <2> QED
    BY <1>1, <1>6, <1>9, <2>1, <2>2, AnswerIs
<1>11. PICK t : t = [srv EXCEPT !.session = "created", !.bound = TRUE, !.subs = {},
                                !.ready = {}, !.retrans = {}, !.parked = <<>>]
  OBVIOUS
<1>12. server' = t
  BY <1>1, <1>11 DEF ServeCreate
<1>13. /\ t \in ServerRecord /\ t.channel = srv.channel /\ t.seq = srv.seq
       /\ t.created = srv.created /\ t.subs = {} /\ t.retrans = {} /\ t.ready = {}
       /\ t.parked = <<>> /\ t.session = "created"
  <2>1. srv \in ServerRecord
    BY <1>1, <1>6 DEF ServerInv
  <2>2. \A S : <<>> \in Seq(S)
    BY EmptySeq
  <2> QED
    BY <1>11, <2>1, <2>2 DEF ServerRecord
<1>14. Keeps(c, srv, t) /\ ~UsableAt(t) /\ Parked(t) = {} /\ IsInjective(t.parked)
  BY <1>13, SingleFacts DEF Keeps, UsableAt, Parked
<1>15. ServerInv(t)
  BY <1>1, <1>6, <1>13, <1>14 DEF ServerInv
<1>16. c.channel = "OPEN" => Parked(srv) = {}
  <2>1. SUFFICES ASSUME c.channel = "OPEN", NEW i \in Parked(srv) PROVE FALSE
    OBVIOUS
  <2>2. Asked(Calls(c), Waits(c), In(c), Out(c), Parked(srv))
    BY <1>1, <1>6, <2>1 DEF Sound, Fine, OpenPart, AskedInv
  <2>3. (\E x \in Calls(c) : x.kind = "create") /\ \E y \in Calls(c) : y.kind = "publish"
    BY <1>1, <1>6, <2>1, <2>2 DEF Asked
  <2>4. \A x \in Calls(c) : Belongs(x.kind, c.session)
    BY <1>1, <1>6 DEF Sound, Fine, Weak, SessionInv
  <2> QED
    BY <2>3, <2>4 DEF Belongs
<1>17. Sound(d, t)
  <2>1. Parked(t) \subseteq Parked(srv) /\ (c.channel = "OPEN" => Parked(srv) \subseteq Parked(t))
    BY <1>14, <1>16
  <2>2. Answers(h.kind, m) /\ m.result # "BadTooManyPublishRequests"
    BY <1>1, <1>6, <1>8
  <2>3. Sound(Replied(c, <<m>>, out), t)
    BY <1>1, <1>6, <1>8, <1>14, <2>1, <2>2, PlainAnswer
  <2> QED
    BY <1>9, <2>3
<1> QED
  BY <1>10, <1>12, <1>15, <1>17, ServerMoves

\* ActivateSession.
LEMMA ServesActivate ==
  ASSUME IInv, ServeActivate, UNCHANGED faults
  PROVE  IInv'
<1>a. CASE ~MayActivate
  <2>1. Receives("activate") /\ Answer(<<Response(RequestId, "BadSessionIdInvalid")>>)
        /\ UNCHANGED server
    BY <1>a DEF ServeActivate
  <2>2. "BadSessionIdInvalid" \in Results
    BY DEF Results
  <2> QED
    BY <2>1, <2>2, OnlyAnswers
<1>b. CASE MayActivate
  <2>5. Receives("activate") /\ Answer(<<Response(RequestId, "Good")>>)
    BY <1>b DEF ServeActivate
  <2>1. PICK c, srv, h, out : /\ c = client /\ srv = server /\ Serving(c, srv, h, out)
                              /\ h.kind = "activate" /\ h.id = RequestId
    BY <2>5, Begins
  <2>6. /\ Sound(c, srv) /\ ServerInv(srv) /\ First(c, h, out) /\ c \in ClientRecord
        /\ out \in Seq(RequestMsg) /\ h.id \in PosNat /\ srv.channel /\ h \in Out(c)
    BY <2>1 DEF Serving
  <2>7. PICK m : m = Response(h.id, "Good")
    OBVIOUS
  <2>8. /\ m \in ResponseMsg /\ m.id = h.id /\ m.result = "Good" /\ Plain(m)
        /\ Answers("activate", m)
    <3>1. "Good" \in Results
      BY DEF Results
    <3> QED
      BY <2>1, <2>6, <2>7, <3>1, ResponseFacts
  <2>9. PICK d : d = Replied(c, <<m>>, out)
    OBVIOUS
  <2>10. client' = d
    <3>1. <<m>> \in Seq(ResponseMsg)
      BY <2>8
    <3>2. Answer(<<m>>)
      BY <2>1, <2>5, <2>7
    <3> QED
      BY <2>1, <2>6, <2>9, <3>1, <3>2, AnswerIs
  <2>11. PICK t : t = [srv EXCEPT !.session = "active", !.bound = TRUE]
    OBVIOUS
  <2>12. server' = t
    BY <1>b, <2>1, <2>11 DEF ServeActivate
  <2>13. /\ t \in ServerRecord /\ t.channel = srv.channel /\ t.seq = srv.seq
         /\ t.created = srv.created /\ t.subs = srv.subs /\ t.retrans = srv.retrans
         /\ t.ready = srv.ready /\ t.parked = srv.parked /\ t.session = "active" /\ t.bound
    BY <2>1, <2>6, <2>11 DEF ServerInv, ServerRecord
  <2>14. Keeps(c, srv, t) /\ Parked(t) = Parked(srv)
    BY <2>13 DEF Keeps, Parked
  <2>15. ServerInv(t)
    BY <2>1, <2>6, <2>13 DEF ServerInv, UsableAt
  <2>16. c.channel = "OPEN" => Activating(Calls(c), In(c) \cup {m})
    <3>1. SUFFICES ASSUME c.channel = "OPEN" PROVE Activating(Calls(c), In(c) \cup {m})
      OBVIOUS
    <3>2. Asked(Calls(c), Waits(c), In(c), Out(c), Parked(srv))
      BY <2>1, <2>6, <3>1 DEF Sound, Fine, OpenPart, AskedInv
    <3>3. \E x \in Calls(c) : x.id = h.id /\ x.kind = "activate"
      BY <2>1, <2>6, <3>2 DEF Asked
    <3> QED
      BY <2>8, <3>3 DEF Activating
  <2>17. Sound(d, t)
    <3>1. Answers(h.kind, m) /\ m.result # "BadTooManyPublishRequests"
      BY <2>1, <2>6, <2>8
    <3>2. Sound(Replied(c, <<m>>, out), t)
      BY <2>1, <2>6, <2>8, <2>14, <2>16, <3>1, PlainAnswer
    <3> QED
      BY <2>9, <3>2
  <2> QED
    BY <2>10, <2>12, <2>15, <2>17, ServerMoves
<1> QED
  BY <1>a, <1>b

\* Behind the answer m that there are too many requests there are as many as the
\* server t has parked, one call for each.
LEMMA StillMany ==
  ASSUME NEW c, NEW srv, Sound(c, srv), c.channel = "OPEN", srv.channel,
         NEW h, h \in Out(c), h.kind = "publish",
         NEW m \in ResponseMsg, NEW t, t \in ServerRecord, IsInjective(t.parked),
         Parked(t) \subseteq Parked(srv) \cup {h.id}, m.id \notin Parked(t),
         MaxParked <= Len(t.parked)
  PROVE  ManyMove(c, <<m>>)
<1> DEFINE U == {x \in Published(Calls(c)) : \A y \in In(c) \cup {m} : y.id # x.id}
           V == {x \in U : x.id \in Parked(t)}
           f == [x \in V |-> x.id]
<1>1. /\ c \in ClientRecord /\ Listed(c)
      /\ Link(Calls(c), Waits(c), In(c), Out(c), Parked(srv))
      /\ Asked(Calls(c), Waits(c), In(c), Out(c), Parked(srv))
  BY DEF Sound, Fine, Weak, Core, LinkInv, OpenPart, AskedInv
<1>2. IsFiniteSet(Parked(t)) /\ Cardinality(Parked(t)) = Len(t.parked)
  BY LengthIsCardinality DEF ServerRecord, Parked
<1>3. ASSUME NEW i \in Parked(t) PROVE \E x \in V : x.id = i
  <2>1. \E x \in Calls(c) : x.id = i /\ x.kind = "publish"
    BY <1>1, <1>3 DEF Asked
  <2>2. \A y \in In(c) \cup {m} : y.id # i
    BY <1>1, <1>3 DEF Link
  <2> QED
    BY <1>3, <2>1, <2>2 DEF Published
<1>4. f \in Surjection(V, Parked(t))
  BY <1>3 DEF Surjection
<1>5. IsFiniteSet(U) /\ Cardinality(U) \in Nat
  <2>1. IsFiniteSet(Calls(c))
    BY <1>1, LengthIsCardinality DEF ClientRecord, Listed, Calls
  <2>2. U \subseteq Calls(c)
    BY DEF Published
  <2> HIDE DEF U
  <2> QED
    BY <2>1, <2>2, FS_Subset, FS_CardinalityType
<1>6. IsFiniteSet(V) /\ Cardinality(V) <= Cardinality(U) /\ Cardinality(V) \in Nat
  <2>1. V \subseteq U
    OBVIOUS
  <2> HIDE DEF U, V
  <2> QED
    BY <1>5, <2>1, FS_Subset, FS_CardinalityType
<1> HIDE DEF U, V, f
<1>7. Cardinality(Parked(t)) <= Cardinality(V)
  BY <1>4, <1>6, FS_Surjection
<1>8. Len(t.parked) \in Nat
  BY LenProperties DEF ServerRecord
<1>9. MaxParked <= Cardinality(U)
  BY <1>2, <1>5, <1>6, <1>7, <1>8, BoundsAssumption
<1>10. ToSet(<<m>>) = {m}
  BY SingleFacts
<1> QED
  BY <1>9, <1>10 DEF ManyMove, U

\* What the server has parked after the request i, the oldest making room for it
\* if it has to.
Queued(srv, i) ==
  LET parked == Append(srv.parked, i)
  IN IF Len(parked) > MaxParked THEN Tail(parked) ELSE parked
Dropped(srv, i) == Len(Append(srv.parked, i)) > MaxParked

\* What it has then.
LEMMA QueuedFacts ==
  ASSUME NEW srv, ServerInv(srv), NEW i \in PosNat, i \notin Parked(srv)
  PROVE  /\ Queued(srv, i) \in Seq(PosNat) /\ IsInjective(Queued(srv, i))
         /\ ~Dropped(srv, i) => ToSet(Queued(srv, i)) = Parked(srv) \cup {i}
         /\ Dropped(srv, i) =>
              /\ Head(Append(srv.parked, i)) \in PosNat
              /\ Head(Append(srv.parked, i)) \in Parked(srv) \cup {i}
              /\ ToSet(Queued(srv, i)) =
                   (Parked(srv) \cup {i}) \ {Head(Append(srv.parked, i))}
              /\ MaxParked <= Len(Queued(srv, i))
<1> DEFINE p == Append(srv.parked, i)
<1>1. /\ p \in Seq(PosNat) /\ IsInjective(p) /\ p # <<>> /\ ToSet(p) = Parked(srv) \cup {i}
  BY AppendFacts DEF ServerInv, ServerRecord, Parked
<1> HIDE DEF p
<1>2. /\ Head(p) \in ToSet(p) /\ Tail(p) \in Seq(PosNat) /\ Len(Tail(p)) = Len(p) - 1
      /\ IsInjective(Tail(p)) /\ ToSet(Tail(p)) = ToSet(p) \ {Head(p)}
  BY <1>1, TailFacts
<1>3. Head(p) \in PosNat
  BY <1>1, <1>2, ToSetFacts
<1>4. Queued(srv, i) = (IF Len(p) > MaxParked THEN Tail(p) ELSE p)
      /\ (Dropped(srv, i) <=> Len(p) > MaxParked)
  BY DEF Queued, Dropped, p
<1>5. Len(p) > MaxParked => MaxParked <= Len(Tail(p))
  <2>1. Len(p) \in Nat /\ MaxParked \in Nat
    BY <1>1, LenProperties, BoundsAssumption
  <2> QED
    BY <1>2, <2>1
<1> QED
  BY <1>1, <1>2, <1>3, <1>4, <1>5 DEF p

\* A publish request that is parked.
LEMMA Parks ==
  ASSUME NEW c, NEW srv, NEW h, NEW out, Serving(c, srv, h, out), h.kind = "publish",
         UsableAt(srv), srv.subs # {},
         NEW t, t = [srv EXCEPT !.retrans = @ \ h.acks, !.parked = Queued(srv, h.id)],
         NEW ms, ms = IF Dropped(srv, h.id)
                      THEN <<Response(Head(Append(srv.parked, h.id)), "BadTooManyPublishRequests")>>
                      ELSE <<>>
  PROVE  ms \in Seq(ResponseMsg) /\ Sound(Replied(c, ms, out), t) /\ ServerInv(t)
<1> DEFINE q == Queued(srv, h.id)
           a == Head(Append(srv.parked, h.id))
           m == Response(a, "BadTooManyPublishRequests")
<1>1. /\ Sound(c, srv) /\ ServerInv(srv) /\ First(c, h, out) /\ c \in ClientRecord
      /\ out \in Seq(RequestMsg) /\ h \in Out(c) /\ h.id \in PosNat /\ h.id \notin Parked(srv)
      /\ srv.channel /\ h \in RequestMsg
  BY DEF Serving
<1>2. /\ q \in Seq(PosNat) /\ IsInjective(q)
      /\ ~Dropped(srv, h.id) => ToSet(q) = Parked(srv) \cup {h.id}
      /\ Dropped(srv, h.id) =>
           /\ a \in PosNat /\ a \in Parked(srv) \cup {h.id}
           /\ ToSet(q) = (Parked(srv) \cup {h.id}) \ {a}
           /\ MaxParked <= Len(q)
  BY <1>1, QueuedFacts
<1>3. t = [srv EXCEPT !.retrans = @ \ h.acks, !.parked = q]
      /\ ms = IF Dropped(srv, h.id) THEN <<m>> ELSE <<>>
  OBVIOUS
<1> HIDE DEF q, a
<1>4. /\ t \in ServerRecord /\ t.channel = srv.channel /\ t.seq = srv.seq
      /\ t.created = srv.created /\ t.subs = srv.subs /\ t.retrans = srv.retrans \ h.acks
      /\ t.ready = srv.ready /\ t.parked = q /\ t.session = srv.session /\ t.bound = srv.bound
  BY <1>1, <1>2, <1>3 DEF ServerInv, ServerRecord
<1>5. ServerInv(t)
  BY <1>1, <1>2, <1>4 DEF ServerInv, UsableAt
<1>6. Keeps(c, srv, t)
  <2>1. h.acks \subseteq c.got
    BY <1>1 DEF Sound, Fine, Weak, Core, NotesInv
  <2> QED
    BY <1>4, <2>1 DEF Keeps
<1>7. /\ Out(c) \ ToSet(out) = {h} /\ IsInjective(out) /\ ToSet(out) \subseteq Out(c)
      /\ CloLast(out)
  <2>1. Fine(c, srv)
    BY <1>1 DEF Sound
  <2>2. /\ ToSet(out) = Out(c) \ {h} /\ Out(c) \ ToSet(out) = {h} /\ IsInjective(out)
        /\ CloLast(out)
    BY <1>1, <2>1, HeadFacts
  <2> QED
    BY <2>2
<1>8. UsableAt(t) => UsableAt(srv)
  BY <1>4 DEF UsableAt
<1>9. Parked(t) = ToSet(q)
  BY <1>4 DEF Parked
<1>10. CASE Dropped(srv, h.id)
  <2>1. "BadTooManyPublishRequests" \in Results
    BY DEF Results
  <2>2. m \in ResponseMsg /\ m.id = a /\ Plain(m) /\ Answers("publish", m)
    BY <1>2, <1>10, <2>1, ResponseFacts
  <2>3. ms = <<m>>
    BY <1>3, <1>10
  <2> HIDE DEF m
  <2>4. ms \in Seq(ResponseMsg) /\ ToSet(ms) = {m}
    BY <2>2, <2>3, SingleFacts
  <2>5. \A i, j \in DOMAIN ms : ms[i].id = ms[j].id => i = j
    BY <2>3, LenProperties
  <2>6. Moves(c, srv, ms, out, t)
    BY <1>2, <1>7, <1>9, <1>10, <2>2, <2>4, <2>5 DEF Moves
  <2>7. c.channel = "OPEN" => ManyMove(c, ms)
    <3>1. Parked(t) \subseteq Parked(srv) \cup {h.id} /\ m.id \notin Parked(t)
      BY <1>2, <1>9, <1>10, <2>2
    <3>2. IsInjective(t.parked) /\ MaxParked <= Len(t.parked)
      BY <1>2, <1>4, <1>10
    <3>3. ASSUME c.channel = "OPEN" PROVE ManyMove(c, <<m>>)
      BY <1>1, <1>4, <2>2, <3>1, <3>2, <3>3, StillMany
    <3> QED
      BY <2>3, <3>3
  <2>8. Sound(Replied(c, ms, out), t)
    BY <1>1, <1>6, <1>8, <2>2, <2>4, <2>6, <2>7, PlainReplies
  <2> QED
    BY <1>5, <2>4, <2>8
<1>11. CASE ~Dropped(srv, h.id)
  <2>1. ms = <<>>
    BY <1>3, <1>11
  <2>2. ms \in Seq(ResponseMsg) /\ ToSet(ms) = {} /\ DOMAIN ms = {}
    BY <2>1, EmptySeq DEF ToSet
  <2>3. Moves(c, srv, ms, out, t)
    BY <1>2, <1>7, <1>9, <1>11, <2>2 DEF Moves
  <2>4. Sound(Replied(c, ms, out), t)
    BY <1>1, <1>6, <1>8, <2>2, <2>3, PlainReplies
  <2> QED
    BY <1>5, <2>2, <2>4
<1> QED
  BY <1>10, <1>11

\* Publish.
LEMMA ServesPublish ==
  ASSUME IInv, ServePublish, UNCHANGED faults
  PROVE  IInv'
<1>1. CASE ~(Usable /\ server.subs # {})
  <2>1. PICK result : result = IF Usable THEN "BadNoSubscription" ELSE "BadSessionIdInvalid"
    OBVIOUS
  <2>2. Receives("publish") /\ UNCHANGED server /\ Answer(<<Response(RequestId, result)>>)
    BY <1>1, <2>1 DEF ServePublish
  <2>3. result \in Results /\ result # "BadTooManyPublishRequests"
    BY <2>1 DEF Results
  <2> QED
    BY <2>2, <2>3, OnlyAnswers
<1>2. CASE Usable /\ server.subs # {}
  <2>1. Receives("publish")
    BY DEF ServePublish
  <2>2. PICK c, srv, h, out : /\ c = client /\ srv = server /\ Serving(c, srv, h, out)
                              /\ h.kind = "publish" /\ h.id = RequestId
    BY <2>1, Begins
  <2>3. /\ First(c, h, out) /\ c \in ClientRecord /\ out \in Seq(RequestMsg)
    BY <2>2 DEF Serving
  <2>4. PICK t : t = [srv EXCEPT !.retrans = @ \ h.acks, !.parked = Queued(srv, h.id)]
    OBVIOUS
  <2>5. PICK ms : ms = IF Dropped(srv, h.id)
                       THEN <<Response(Head(Append(srv.parked, h.id)), "BadTooManyPublishRequests")>>
                       ELSE <<>>
    OBVIOUS
  <2>6. UsableAt(srv) /\ srv.subs # {}
    BY <1>2, <2>2 DEF UsableAt, Usable
  <2>7. ms \in Seq(ResponseMsg) /\ Sound(Replied(c, ms, out), t) /\ ServerInv(t)
    BY <2>2, <2>4, <2>5, <2>6, Parks
  <2>8. server' = t /\ Answer(ms)
    <3>1. h = Head(client.out)
      BY <2>2, <2>3 DEF First
    <3> QED
      BY <1>2, <2>2, <2>4, <2>5, <3>1 DEF ServePublish, Queued, Dropped
  <2>9. PICK d : d = Replied(c, ms, out)
    OBVIOUS
  <2>10. client' = d
    BY <2>2, <2>3, <2>7, <2>8, <2>9, AnswerIs
  <2> QED
    BY <2>7, <2>8, <2>9, <2>10, ServerMoves
<1> QED
  BY <1>1, <1>2

\* Responses that may say something of a subscription.
LEMMA NewsReplies ==
  ASSUME NEW c, NEW srv, Sound(c, srv), NEW t \in ServerRecord, t.channel = srv.channel,
         NEW ms \in Seq(ResponseMsg), NEW out \in Seq(RequestMsg), Moves(c, srv, ms, out, t),
         NotesMove(c, ms, t), \A m \in ToSet(ms) : m.result # "BadTooManyPublishRequests",
         \A r \in ToSet(out) : r.kind = "CreateSubscription" => t.created < MaxSub,
         UsableAt(t) => UsableAt(srv)
  PROVE  Sound(Replied(c, ms, out), t)
<1>1. Fine(c, srv) /\ (c.channel # "OPEN" => c.waiting = <<>>)
  BY DEF Sound
<1>2. ManyMove(c, ms)
  <2>1. \A i \in DOMAIN ms : ms[i] \in ToSet(ms)
    BY DEF ToSet
  <2> QED
    BY <2>1 DEF ManyMove
<1>3. c.channel = "OPEN" /\ srv.channel /\ UsableAt(t) =>
        c.session \in {"ACTIVATED", "CLOSING"} \/ Activating(Calls(c), In(c) \cup ToSet(ms))
  <2>1. c.channel = "OPEN" /\ srv.channel /\ UsableAt(srv) =>
          c.session \in {"ACTIVATED", "CLOSING"} \/ Activating(Calls(c), In(c))
    BY <1>1 DEF Fine, OpenPart
  <2>2. Activating(Calls(c), In(c)) => Activating(Calls(c), In(c) \cup ToSet(ms))
    BY DEF Activating
  <2> QED
    BY <2>1, <2>2
<1> DEFINE d == Replied(c, ms, out)
<1>4. Fine(d, t) /\ d.channel = c.channel /\ d.waiting = c.waiting
  BY <1>1, <1>2, <1>3, Replies
<1> HIDE DEF d
<1> QED
  BY <1>1, <1>4 DEF Sound, d

\* A subscription is created.
LEMMA Gains ==
  ASSUME NEW c, NEW srv, NEW h, NEW out, Serving(c, srv, h, out),
         h.kind = "CreateSubscription", UsableAt(srv),
         NEW n, n = srv.created + 1,
         NEW t, t = [srv EXCEPT !.created = n, !.subs = @ \cup {n}],
         NEW m, m = [Response(h.id, "Good") EXCEPT !.sub = n]
  PROVE  <<m>> \in Seq(ResponseMsg) /\ Sound(Replied(c, <<m>>, out), t) /\ ServerInv(t)
<1>1. /\ Sound(c, srv) /\ Fine(c, srv) /\ ServerInv(srv) /\ First(c, h, out) /\ c \in ClientRecord
      /\ out \in Seq(RequestMsg) /\ h \in Out(c) /\ h.id \in PosNat /\ h.id \notin Parked(srv)
      /\ srv.channel /\ h \in RequestMsg /\ (c.channel # "OPEN" => c.waiting = <<>>)
  BY DEF Serving, Sound
<1>2. /\ WireInv(c, srv) /\ NotesInv(c, srv)
  BY <1>1 DEF Fine, Weak, Core
<1>3. srv.created \in 0..MaxSub /\ MaxSub \in Nat /\ srv.created < MaxSub
  BY <1>1, <1>2, BoundsAssumption DEF WireInv, ServerInv, ServerRecord
<1>4. n \in Sub /\ n \in 0..MaxSub /\ n > srv.created /\ n # 0 /\ n \in Nat
  BY <1>3 DEF Sub
<1>6. \A i \in Nat : i <= srv.created => i <= n
  BY <1>3
<1>7. \A i \in Nat : i <= srv.created => i # n
  BY <1>3
<1>8. \A i \in Nat : i > n => i > srv.created
  BY <1>3
<1>9. /\ m \in ResponseMsg /\ m.id = h.id /\ m.result = "Good" /\ m.sub = n /\ m.seq = 0
      /\ Answers("CreateSubscription", m)
  <2>1. PICK i : i = h.id
    OBVIOUS
  <2>2. PICK r : r = Response(i, "Good")
    OBVIOUS
  <2>3. r = [id |-> i, result |-> "Good", sub |-> 0, seq |-> 0, data |-> FALSE, avail |-> {}]
    BY <2>2 DEF Response
  <2>4. m = [r EXCEPT !.sub = n] /\ i \in PosNat /\ n \in Nat
    BY <1>1, <1>4, <2>1, <2>2
  <2>5. /\ m.id = i /\ m.result = "Good" /\ m.sub = n /\ m.seq = 0
        /\ m \in [id : PosNat, result : {"Good"}, sub : Nat, seq : Nat, data : BOOLEAN,
                   avail : SUBSET Nat]
    <3>1. r \in [id : PosNat, result : {"Good"}, sub : Nat, seq : Nat, data : BOOLEAN,
                 avail : SUBSET Nat]
      BY <2>3, <2>4
    <3> QED
      BY <2>3, <2>4, <3>1
  <2>6. m \in ResponseMsg
    BY <2>5 DEF ResponseMsg, Results
  <2> QED
    BY <1>4, <2>1, <2>5, <2>6 DEF Answers
<1>10. /\ t \in ServerRecord /\ t.channel = srv.channel /\ t.seq = srv.seq
       /\ t.created = n /\ t.subs = srv.subs \cup {n} /\ t.retrans = srv.retrans
       /\ t.ready = srv.ready /\ t.parked = srv.parked /\ t.session = srv.session
       /\ t.bound = srv.bound
  BY <1>1, <1>4 DEF ServerInv, ServerRecord
<1>11. /\ srv.seq[n] = 0 /\ srv.seq \in [Sub -> Nat] /\ srv.subs \subseteq Sub
       /\ \A s \in Sub : s > srv.created => srv.seq[s] = 0
  BY <1>1, <1>4 DEF ServerInv, ServerRecord
<1>12. ServerInv(t)
  <2>1. \A s \in Sub : s > n => srv.seq[s] = 0
    BY <1>8, <1>11, BoundsAssumption DEF Sub
  <2> QED
    BY <1>1, <1>10, <2>1 DEF ServerInv, UsableAt
<1>13. /\ Kept(c.got, srv) /\ Numbered(srv.retrans \cup c.got \cup c.missed, srv)
       /\ Noted(c.subs, c.got, c.missed, srv)
       /\ \A x \in In(c) : Coming(x, c.subs, c.got, c.missed, srv)
       /\ InOrder(c.in)
       /\ c.got \subseteq Note /\ c.missed \subseteq Note /\ srv.retrans \subseteq Note
       /\ c.in \in Seq(ResponseMsg) /\ DOMAIN c.subs \subseteq Nat
  <2>1. c.subs \in Numbers /\ c.got \subseteq Note /\ c.missed \subseteq Note
        /\ c.in \in Seq(ResponseMsg)
    BY <1>1 DEF ClientRecord
  <2>2. DOMAIN c.subs \subseteq Sub
    BY <2>1 DEF Numbers
  <2>3. Sub \subseteq Nat
    BY BoundsAssumption DEF Sub
  <2>4. srv.retrans \subseteq Note
    BY <1>1 DEF ServerInv, ServerRecord
  <2> QED
    BY <1>2, <2>1, <2>2, <2>3, <2>4 DEF NotesInv
<1>14. \A p \in Note : p[1] \in Nat
  BY BoundsAssumption DEF Note, Sub
<1>15. Kept(c.got, t)
  <2> SUFFICES ASSUME NEW s \in t.subs
               PROVE  /\ s <= n
                      /\ \A k \in 1..t.seq[s] : <<s, k>> \in t.retrans \cup c.got
    BY <1>10 DEF Kept
  <2>1. CASE s \in srv.subs
    <3>1. s <= srv.created /\ \A k \in 1..srv.seq[s] : <<s, k>> \in srv.retrans \cup c.got
      BY <1>13, <2>1 DEF Kept
    <3>2. s \in Nat
      BY <1>11, <2>1, BoundsAssumption DEF Sub
    <3> QED
      BY <1>6, <1>10, <3>1, <3>2
  <2>2. CASE s = n
    <3>1. t.seq[s] = 0
      BY <1>10, <1>11, <2>2
    <3>2. \A k \in 1..t.seq[s] : FALSE
      BY <3>1
    <3> QED
      BY <1>4, <2>2, <3>2
  <2> QED
    BY <1>10, <2>1, <2>2
<1>16. Numbered(t.retrans \cup c.got \cup c.missed, t)
  BY <1>6, <1>10, <1>13, <1>14 DEF Numbered
<1>17. Noted(c.subs, c.got, c.missed, t)
  BY <1>6, <1>10, <1>13 DEF Noted
<1>18. \A x \in In(c) : Coming(x, c.subs, c.got, c.missed, t) /\ (x.sub # 0 => x.sub # n)
  <2> SUFFICES ASSUME NEW x \in In(c)
               PROVE  Coming(x, c.subs, c.got, c.missed, t) /\ (x.sub # 0 => x.sub # n)
    OBVIOUS
  <2>1. Coming(x, c.subs, c.got, c.missed, srv) /\ x.sub \in Nat
    <3>1. x \in ResponseMsg
      BY <1>13, ToSetFacts DEF In
    <3> QED
      BY <1>13, <3>1 DEF ResponseMsg
  <2>2. x.sub # 0 => x.sub \in Sub /\ x.sub <= srv.created
    BY <2>1 DEF Coming
  <2>3. x.sub # 0 => x.sub <= n /\ x.sub # n
    BY <1>6, <1>7, <2>1, <2>2
  <2>4. Coming(x, c.subs, c.got, c.missed, t)
    BY <1>10, <2>1, <2>3 DEF Coming
  <2> QED
    BY <2>3, <2>4
<1>19. Coming(m, c.subs, c.got, c.missed, t)
  <2>1. n \notin DOMAIN c.subs
    BY <1>7, <1>13 DEF Noted
  <2>2. \A p \in c.got \cup c.missed : p[1] # n
    BY <1>7, <1>13, <1>14 DEF Numbered
  <2>3. ~News(m)
    BY <1>9 DEF News
  <2> QED
    BY <1>4, <1>9, <1>10, <2>1, <2>2, <2>3 DEF Coming
<1>20. Moves(c, srv, <<m>>, out, t) /\ <<m>> \in Seq(ResponseMsg) /\ ToSet(<<m>>) = {m}
  <2>1. Parked(t) = Parked(srv)
    BY <1>10 DEF Parked
  <2>2. Answers(h.kind, m)
    BY <1>9
  <2> QED
    BY <1>1, <1>9, <2>1, <2>2, AnswersHead
<1> DEFINE ms == <<m>>
<1>21. Len(ms) = 1 /\ DOMAIN ms = 1..1
  OBVIOUS
<1>22. Moves(c, srv, ms, out, t) /\ ms \in Seq(ResponseMsg) /\ ToSet(ms) = {m}
  BY <1>20
<1> HIDE DEF ms
<1>23. InOrder(ms)
  <2>1. \A i, j \in 1..1 : ~(i < j)
    OBVIOUS
  <2> QED
    BY <1>21, <2>1 DEF InOrder
<1>24. InOrder(c.in \o ms)
  <2>1. \A x \in ToSet(c.in), y \in ToSet(ms) : ~(x.sub = y.sub /\ x.sub # 0)
    BY <1>9, <1>18, <1>22 DEF In
  <2> QED
    BY <1>13, <1>22, <1>23, <2>1, InOrderJoins
<1>25. NotesMove(c, ms, t)
  BY <1>15, <1>16, <1>17, <1>18, <1>19, <1>22, <1>24 DEF NotesMove
<1>26. \A r \in ToSet(out) : r.kind # "CreateSubscription"
  <2>1. ToSet(out) = Out(c) \ {h}
    BY <1>1, HeadFacts
  <2> QED
    BY <1>2, <1>1, <2>1 DEF WireInv
<1>27. UsableAt(t) => UsableAt(srv)
  BY <1>10 DEF UsableAt
<1>28. Sound(Replied(c, ms, out), t)
  <2>1. \A r \in ToSet(out) : r.kind = "CreateSubscription" => t.created < MaxSub
    BY <1>26
  <2>2. \A x \in ToSet(ms) : x.result # "BadTooManyPublishRequests"
    BY <1>9, <1>22
  <2> QED
    BY <1>1, <1>10, <1>22, <1>25, <1>27, <2>1, <2>2, NewsReplies
<1> QED
  BY <1>12, <1>22, <1>28 DEF ms

\* CreateSubscription.
LEMMA ServesCreateSubscription ==
  ASSUME IInv, ServeCreateSubscription, UNCHANGED faults
  PROVE  IInv'
<1>1. CASE ~Usable
  <2>1. /\ Receives("CreateSubscription") /\ UNCHANGED server
        /\ Answer(<<Response(RequestId, "BadSessionIdInvalid")>>)
    BY <1>1 DEF ServeCreateSubscription
  <2>2. "BadSessionIdInvalid" \in Results
    BY DEF Results
  <2> QED
    BY <2>1, <2>2, OnlyAnswers
<1>2. CASE Usable
  <2>1. Receives("CreateSubscription")
    BY DEF ServeCreateSubscription
  <2>2. PICK c, srv, h, out : /\ c = client /\ srv = server /\ Serving(c, srv, h, out)
                              /\ h.kind = "CreateSubscription" /\ h.id = RequestId
    BY <2>1, Begins
  <2>3. First(c, h, out) /\ c \in ClientRecord /\ out \in Seq(RequestMsg)
    BY <2>2 DEF Serving
  <2>n. PICK n : n = srv.created + 1
    OBVIOUS
  <2>4. PICK t : t = [srv EXCEPT !.created = n, !.subs = @ \cup {n}]
    OBVIOUS
  <2>5. PICK m : m = [Response(h.id, "Good") EXCEPT !.sub = n]
    OBVIOUS
  <2>6. UsableAt(srv)
    BY <1>2, <2>2 DEF UsableAt, Usable
  <2>7. <<m>> \in Seq(ResponseMsg) /\ Sound(Replied(c, <<m>>, out), t) /\ ServerInv(t)
    BY <2>2, <2>n, <2>4, <2>5, <2>6, Gains
  <2>8. server' = t /\ Answer(<<m>>)
    BY <1>2, <2>2, <2>n, <2>4, <2>5 DEF ServeCreateSubscription
  <2>9. PICK d : d = Replied(c, <<m>>, out)
    OBVIOUS
  <2>10. client' = d
    BY <2>2, <2>3, <2>7, <2>8, <2>9, AnswerIs
  <2> QED
    BY <2>7, <2>8, <2>9, <2>10, ServerMoves
<1> QED
  BY <1>1, <1>2

\* The list without elements.
LEMMA EmptyFacts ==
  ASSUME NEW S
  PROVE  <<>> \in Seq(S) /\ ToSet(<<>>) = {} /\ IsInjective(<<>>)
<1>1. <<>> \in Seq(S) /\ DOMAIN <<>> = {}
  BY EmptySeq
<1> QED
  BY <1>1 DEF ToSet, IsInjective

\* The server srv without the subscriptions S, and the responses to the requests
\* that do not stay parked.
StillParked(srv, S) == IF srv.subs \subseteq S THEN <<>> ELSE srv.parked
Left(srv, S) ==
  [srv EXCEPT !.subs = @ \ S, !.ready = @ \ S, !.retrans = {r \in @ : r[1] \notin S},
              !.parked = StillParked(srv, S)]
Orphaned(srv, S) ==
  IF srv.subs \subseteq S THEN ToEach(srv.parked, "BadNoSubscription") ELSE <<>>

\* What is left.
LEMMA LeftFacts ==
  ASSUME NEW c, NEW srv, ServerInv(srv), NEW S, NEW t, t = Left(srv, S)
  PROVE  /\ ServerInv(t) /\ Keeps(c, srv, t)
         /\ t.session = srv.session /\ t.bound = srv.bound
         /\ t.parked = StillParked(srv, S)
         /\ t.subs = srv.subs \ S
<1> DEFINE p == StillParked(srv, S)
           q == {r \in srv.retrans : r[1] \notin S}
           u == srv.subs \ S
           v == srv.ready \ S
<1>1. srv \in ServerRecord /\ IsInjective(srv.parked)
  BY DEF ServerInv
<1>2. p \in Seq(PosNat) /\ IsInjective(p)
  BY <1>1, EmptyFacts DEF ServerRecord, StillParked
<1>3. t = [srv EXCEPT !.subs = u, !.ready = v, !.retrans = q, !.parked = p]
  BY DEF Left
<1>4. p # <<>> => srv.parked # <<>> /\ srv.subs \ S # {}
  BY DEF StillParked
<1>8. /\ q \in SUBSET Note /\ q \subseteq srv.retrans
      /\ \A r \in srv.retrans : r[1] \in u => r \in q
      /\ u \in SUBSET Sub /\ v \in SUBSET Sub /\ v \subseteq u /\ u \subseteq srv.subs
  BY <1>1 DEF ServerInv, ServerRecord
<1> HIDE DEF p, q, u, v
<1>5. /\ t \in ServerRecord /\ t.channel = srv.channel /\ t.seq = srv.seq
      /\ t.created = srv.created /\ t.subs = u /\ t.retrans = q /\ t.ready = v
      /\ t.parked = p /\ t.session = srv.session /\ t.bound = srv.bound
  BY <1>1, <1>2, <1>3, <1>8 DEF ServerRecord
<1>6. ServerInv(t)
  <2>1. p # <<>> => srv.parked # <<>> /\ u # {}
    BY <1>4 DEF u
  <2> QED
    BY <1>2, <1>5, <1>8, <2>1 DEF ServerInv, UsableAt
<1>7. Keeps(c, srv, t)
  BY <1>5, <1>8 DEF Keeps
<1> QED
  BY <1>5, <1>6, <1>7 DEF p, u

\* The responses.
LEMMA OrphanedFacts ==
  ASSUME NEW srv, ServerInv(srv), NEW S, NEW o, o = Orphaned(srv, S),
         NEW t, t.parked = StillParked(srv, S)
  PROVE  /\ o \in Seq(ResponseMsg) /\ IsInjective(o) /\ Unique(ToSet(o))
         /\ \A m \in ToSet(o) : /\ m.id \in Parked(srv) /\ m.id \notin Parked(t) /\ Plain(m)
                                /\ m.result # "BadTooManyPublishRequests"
         /\ \A i \in Parked(srv) : i \in Parked(t) \/ \E m \in ToSet(o) : m.id = i
         /\ Parked(t) \subseteq Parked(srv)
<1>1. srv.parked \in Seq(PosNat) /\ IsInjective(srv.parked)
  BY DEF ServerInv, ServerRecord
<1>2. CASE ~(srv.subs \subseteq S)
  <2>1. o = <<>> /\ Parked(t) = Parked(srv)
    BY <1>2 DEF Orphaned, Parked, StillParked
  <2>2. o \in Seq(ResponseMsg) /\ ToSet(o) = {} /\ IsInjective(o)
    BY <2>1, EmptyFacts
  <2> QED
    BY <2>1, <2>2 DEF Unique
<1>3. CASE srv.subs \subseteq S
  <2> DEFINE p == srv.parked
             f(i) == Response(i, "BadNoSubscription")
  <2>1. \A i \in PosNat : /\ f(i) \in ResponseMsg /\ f(i).id = i /\ Plain(f(i))
                          /\ f(i).result # "BadTooManyPublishRequests"
    <3>1. "BadNoSubscription" \in Results
      BY DEF Results
    <3> QED
      BY <3>1, ResponseFacts
  <2>2. o = [i \in DOMAIN p |-> f(p[i])]
    BY <1>3 DEF Orphaned, ToEach
  <2>3. Parked(t) = {}
    BY <1>3 DEF Parked, ToSet, StillParked
  <2> HIDE DEF f
  <2>4. /\ Len(p) \in Nat /\ DOMAIN p = 1..Len(p) /\ \A i \in 1..Len(p) : p[i] \in PosNat
        /\ \A i, j \in 1..Len(p) : p[i] = p[j] => i = j
        /\ \A i : i \in Parked(srv) <=> \E j \in 1..Len(p) : p[j] = i
    BY <1>1, LenProperties, ToSetFacts DEF Parked
  <2> HIDE DEF p
  <2>5. o \in Seq(ResponseMsg) /\ DOMAIN o = 1..Len(p) /\ \A i \in 1..Len(p) : o[i] = f(p[i])
    BY <2>1, <2>2, <2>4
  <2>6. ToSet(o) = {f(i) : i \in Parked(srv)}
    <3>1. ToSet(o) = {o[i] : i \in 1..Len(p)}
      BY <2>5 DEF ToSet
    <3> QED
      BY <2>4, <2>5, <3>1
  <2>7. \A i \in Parked(srv) : i \in PosNat
    BY <2>4
  <2>8. IsInjective(o)
    <3> SUFFICES ASSUME NEW i \in DOMAIN o, NEW j \in DOMAIN o, o[i] = o[j] PROVE i = j
      BY DEF IsInjective
    <3>1. o[i].id = p[i] /\ o[j].id = p[j]
      BY <2>1, <2>4, <2>5
    <3> QED
      BY <2>4, <2>5, <3>1
  <2>9. Unique(ToSet(o))
    BY <2>1, <2>6, <2>7 DEF Unique
  <2>10. \A m \in ToSet(o) : /\ m.id \in Parked(srv) /\ m.id \notin Parked(t) /\ Plain(m)
                             /\ m.result # "BadTooManyPublishRequests"
    BY <2>1, <2>3, <2>6, <2>7
  <2>11. \A i \in Parked(srv) : \E m \in ToSet(o) : m.id = i
    BY <2>1, <2>6, <2>7
  <2> QED
    BY <2>3, <2>5, <2>8, <2>9, <2>10, <2>11
<1> QED
  BY <1>2, <1>3

\* The server answers h by m after the requests that do not stay parked.
LEMMA OrphansThenAnswer ==
  ASSUME NEW c, NEW srv, NEW h, NEW out, Serving(c, srv, h, out), NEW S,
         NEW m \in ResponseMsg, m.id = h.id, Answers(h.kind, m), Plain(m),
         m.result # "BadTooManyPublishRequests",
         NEW t, Keeps(c, srv, t), UsableAt(t) => UsableAt(srv),
         t.parked = StillParked(srv, S),
         NEW ms, ms = Append(Orphaned(srv, S), m)
  PROVE  ms \in Seq(ResponseMsg) /\ Sound(Replied(c, ms, out), t)
<1>1. /\ Sound(c, srv) /\ ServerInv(srv) /\ First(c, h, out)
      /\ out \in Seq(RequestMsg) /\ h \in Out(c) /\ h.id \notin Parked(srv)
  BY DEF Serving
<1>2. PICK o : o = Orphaned(srv, S)
  OBVIOUS
<1>3. /\ o \in Seq(ResponseMsg) /\ IsInjective(o) /\ Unique(ToSet(o))
      /\ \A x \in ToSet(o) : /\ x.id \in Parked(srv) /\ x.id \notin Parked(t) /\ Plain(x)
                             /\ x.result # "BadTooManyPublishRequests"
      /\ \A i \in Parked(srv) : i \in Parked(t) \/ \E x \in ToSet(o) : x.id = i
      /\ Parked(t) \subseteq Parked(srv)
  BY <1>1, <1>2, OrphanedFacts
<1>4. m \notin ToSet(o)
  BY <1>1, <1>3
<1>5. ms = Append(o, m)
  BY <1>2
<1>6. ms \in Seq(ResponseMsg) /\ IsInjective(ms) /\ ToSet(ms) = ToSet(o) \cup {m}
  BY <1>3, <1>4, <1>5, AppendFacts
<1>7. \A i, j \in DOMAIN ms : ms[i].id = ms[j].id => i = j
  <2>1. Unique(ToSet(ms))
    BY <1>1, <1>3, <1>6 DEF Unique
  <2>2. \A i \in DOMAIN ms : ms[i] \in ToSet(ms)
    BY DEF ToSet
  <2> QED
    BY <1>6, <2>1, <2>2 DEF Unique, IsInjective
<1>8. /\ IsInjective(out) /\ ToSet(out) \subseteq Out(c) /\ Out(c) \ ToSet(out) = {h}
      /\ CloLast(out)
  <2>1. Fine(c, srv)
    BY <1>1 DEF Sound
  <2>2. /\ IsInjective(out) /\ ToSet(out) = Out(c) \ {h} /\ Out(c) \ ToSet(out) = {h}
        /\ CloLast(out)
    BY <1>1, <2>1, HeadFacts
  <2> QED
    BY <2>2
<1>9. Moves(c, srv, ms, out, t)
  BY <1>1, <1>3, <1>6, <1>7, <1>8 DEF Moves
<1>10. \A x \in ToSet(ms) : Plain(x) /\ x.result # "BadTooManyPublishRequests"
  BY <1>3, <1>6
<1> QED
  BY <1>1, <1>6, <1>9, <1>10, PlainReplies

\* The server answers the requests that do not stay parked, of its own accord.
LEMMA OrphansOnly ==
  ASSUME NEW c, NEW srv, Sound(c, srv), ServerInv(srv), NEW S,
         NEW t, Keeps(c, srv, t), UsableAt(t) => UsableAt(srv),
         t.parked = StillParked(srv, S),
         NEW ms, ms = Orphaned(srv, S)
  PROVE  ms \in Seq(ResponseMsg) /\ Sound(Replied(c, ms, c.out), t)
<1>1. c.out \in Seq(RequestMsg) /\ IsInjective(c.out) /\ CloLast(c.out)
  BY DEF Sound, Fine, Weak, Core, ClientRecord, Listed, WireInv
<1>2. /\ ms \in Seq(ResponseMsg) /\ IsInjective(ms) /\ Unique(ToSet(ms))
      /\ \A x \in ToSet(ms) : /\ x.id \in Parked(srv) /\ x.id \notin Parked(t) /\ Plain(x)
                              /\ x.result # "BadTooManyPublishRequests"
      /\ \A i \in Parked(srv) : i \in Parked(t) \/ \E x \in ToSet(ms) : x.id = i
      /\ Parked(t) \subseteq Parked(srv)
  BY OrphanedFacts
<1>3. \A i, j \in DOMAIN ms : ms[i].id = ms[j].id => i = j
  <2>1. \A i \in DOMAIN ms : ms[i] \in ToSet(ms)
    BY DEF ToSet
  <2> QED
    BY <1>2, <2>1 DEF Unique, IsInjective
<1>4. PICK out : out = c.out
  OBVIOUS
<1>5. Moves(c, srv, ms, out, t)
  BY <1>1, <1>2, <1>3, <1>4 DEF Moves, Out
<1>6. Sound(Replied(c, ms, out), t)
  BY <1>1, <1>2, <1>4, <1>5, PlainReplies
<1> QED
  BY <1>2, <1>4, <1>6

\* The session has ended.
LEMMA EndedFacts ==
  ASSUME NEW c, NEW srv, ServerInv(srv),
         NEW t, t = [Left(srv, srv.subs) EXCEPT !.session = "none", !.bound = FALSE]
  PROVE  ServerInv(t) /\ Keeps(c, srv, t) /\ ~UsableAt(t) /\ t.parked = <<>>
<1>1. PICK l : l = Left(srv, srv.subs)
  OBVIOUS
<1>2. PICK S : S = srv.subs
  OBVIOUS
<1>3. ServerInv(l) /\ Keeps(c, srv, l) /\ l.parked = <<>>
  <2>1. /\ ServerInv(l) /\ Keeps(c, srv, l)
        /\ l.parked = StillParked(srv, S)
    BY <1>1, <1>2, LeftFacts
  <2> QED
    BY <1>2, <2>1 DEF StillParked
<1>4. t = [l EXCEPT !.session = "none", !.bound = FALSE] /\ l \in ServerRecord
  BY <1>1, <1>3 DEF ServerInv
<1>5. /\ t \in ServerRecord /\ t.channel = l.channel /\ t.seq = l.seq
      /\ t.created = l.created /\ t.subs = l.subs /\ t.retrans = l.retrans
      /\ t.ready = l.ready /\ t.parked = l.parked /\ t.session = "none" /\ ~t.bound
  BY <1>4 DEF ServerRecord
<1>6. ServerInv(t)
  BY <1>3, <1>5 DEF ServerInv
<1>7. Keeps(c, srv, t)
  BY <1>3, <1>5 DEF Keeps
<1> QED
  BY <1>3, <1>5, <1>6, <1>7 DEF UsableAt

\* A step of the server the client does not notice.
LEMMA Silent ==
  ASSUME NEW c, NEW srv, Sound(c, srv), NEW t, Keeps(c, srv, t), Parked(t) = Parked(srv),
         UsableAt(t) => UsableAt(srv)
  PROVE  Sound(c, t)
<1>1. c \in ClientRecord /\ c.out \in Seq(RequestMsg) /\ IsInjective(c.out) /\ CloLast(c.out)
  BY DEF Sound, Fine, Weak, Core, ClientRecord, Listed, WireInv
<1>2. PICK out : out = c.out
  OBVIOUS
<1>3. PICK ms : ms = <<>>
  OBVIOUS
<1>4. ms \in Seq(ResponseMsg) /\ ToSet(ms) = {} /\ DOMAIN ms = {}
  BY <1>3, EmptyFacts
<1>5. Moves(c, srv, ms, out, t)
  BY <1>1, <1>2, <1>4 DEF Moves, Out
<1>6. Sound(Replied(c, ms, out), t)
  BY <1>1, <1>2, <1>4, <1>5, PlainReplies
<1>7. c = Replied(c, ms, out)
  BY <1>1, <1>2, <1>3, <1>4, SentReplies
<1> QED
  BY <1>6, <1>7

\* DeleteSubscriptions.
LEMMA ServesDeleteSubscription ==
  ASSUME IInv, ServeDeleteSubscription, UNCHANGED faults
  PROVE  IInv'
<1>1. Receives("DeleteSubscription")
  BY DEF ServeDeleteSubscription
<1>2. PICK c, srv, h, out : /\ c = client /\ srv = server /\ Serving(c, srv, h, out)
                            /\ h.kind = "DeleteSubscription" /\ h.id = RequestId
  BY <1>1, Begins
<1>3. First(c, h, out) /\ c \in ClientRecord /\ out \in Seq(RequestMsg) /\ h.id \in PosNat
      /\ ServerInv(srv)
  BY <1>2 DEF Serving
<1>4. h = Head(client.out)
  BY <1>2, <1>3 DEF First
<1>5. PICK s : s = h.sub
  OBVIOUS
<1>6. CASE ~(Usable /\ s \in server.subs)
  <2>1. PICK result : result = IF Usable THEN "BadSubscriptionIdInvalid" ELSE "BadSessionIdInvalid"
    OBVIOUS
  <2>2. UNCHANGED server /\ Answer(<<Response(RequestId, result)>>)
    BY <1>4, <1>5, <1>6, <2>1 DEF ServeDeleteSubscription
  <2>3. result \in Results /\ result # "BadTooManyPublishRequests" /\ result # "Good"
    BY <2>1 DEF Results
  <2> QED
    BY <1>1, <2>2, <2>3, OnlyAnswers
<1>7. CASE Usable /\ s \in server.subs
  <2>1. PICK S : S = {s}
    OBVIOUS
  <2>2. PICK t : t = Left(srv, S)
    OBVIOUS
  <2>3. PICK m : m = Response(h.id, "Good")
    OBVIOUS
  <2>4. PICK ms : ms = Append(Orphaned(srv, S), m)
    OBVIOUS
  <2>5. /\ m \in ResponseMsg /\ m.id = h.id /\ m.result = "Good" /\ Plain(m)
        /\ Answers("DeleteSubscription", m)
    <3>1. "Good" \in Results
      BY DEF Results
    <3> QED
      BY <1>3, <2>3, <3>1, ResponseFacts
  <2>6. /\ ServerInv(t) /\ Keeps(c, srv, t) /\ t.session = srv.session /\ t.bound = srv.bound
        /\ t.parked = StillParked(srv, S)
    BY <1>3, <2>2, LeftFacts
  <2>7. UsableAt(t) => UsableAt(srv)
    BY <2>6 DEF UsableAt
  <2>8. ms \in Seq(ResponseMsg) /\ Sound(Replied(c, ms, out), t)
    <3>1. Answers(h.kind, m) /\ m.result # "BadTooManyPublishRequests"
      BY <1>2, <2>5
    <3> QED
      BY <1>2, <2>4, <2>5, <2>6, <2>7, <3>1, OrphansThenAnswer
  <2>9. server' = t /\ Answer(ms)
    BY <1>2, <1>4, <1>5, <1>7, <2>1, <2>2, <2>3, <2>4
       DEF ServeDeleteSubscription, Remaining, Left, StillParked, Orphans, Orphaned
  <2>10. PICK d : d = Replied(c, ms, out)
    OBVIOUS
  <2>11. client' = d
    BY <1>2, <1>3, <2>8, <2>9, <2>10, AnswerIs
  <2> QED
    BY <2>6, <2>8, <2>9, <2>10, <2>11, ServerMoves
<1> QED
  BY <1>6, <1>7

\* CloseSession.
LEMMA ServesCloseSession ==
  ASSUME IInv, ServeCloseSession, UNCHANGED faults
  PROVE  IInv'
<1>1. CASE ~Usable
  <2>1. /\ Receives("CloseSession") /\ UNCHANGED server
        /\ Answer(<<Response(RequestId, "BadSessionIdInvalid")>>)
    BY <1>1 DEF ServeCloseSession
  <2>2. "BadSessionIdInvalid" \in Results
    BY DEF Results
  <2> QED
    BY <2>1, <2>2, OnlyAnswers
<1>2. CASE Usable
  <2>1. Receives("CloseSession")
    BY DEF ServeCloseSession
  <2>2. PICK c, srv, h, out : /\ c = client /\ srv = server /\ Serving(c, srv, h, out)
                              /\ h.kind = "CloseSession" /\ h.id = RequestId
    BY <2>1, Begins
  <2>3. First(c, h, out) /\ c \in ClientRecord /\ out \in Seq(RequestMsg) /\ h.id \in PosNat
        /\ ServerInv(srv)
    BY <2>2 DEF Serving
  <2>4. PICK S : S = srv.subs
    OBVIOUS
  <2>5. PICK t : t = [Left(srv, S) EXCEPT !.session = "none", !.bound = FALSE]
    OBVIOUS
  <2>6. PICK m : m = Response(h.id, "Good")
    OBVIOUS
  <2>7. PICK ms : ms = Append(Orphaned(srv, S), m)
    OBVIOUS
  <2>8. /\ m \in ResponseMsg /\ m.id = h.id /\ m.result = "Good" /\ Plain(m)
        /\ Answers("CloseSession", m)
    <3>1. "Good" \in Results
      BY DEF Results
    <3> QED
      BY <2>3, <2>6, <3>1, ResponseFacts
  <2>9. /\ ServerInv(t) /\ Keeps(c, srv, t) /\ ~UsableAt(t)
        /\ t.parked = StillParked(srv, S)
    BY <2>3, <2>4, <2>5, EndedFacts DEF StillParked
  <2>10. ms \in Seq(ResponseMsg) /\ Sound(Replied(c, ms, out), t)
    <3>1. Answers(h.kind, m) /\ m.result # "BadTooManyPublishRequests"
      BY <2>2, <2>8
    <3> QED
      BY <2>2, <2>7, <2>8, <2>9, <3>1, OrphansThenAnswer
  <2>11. server' = t /\ Answer(ms)
    BY <1>2, <2>2, <2>4, <2>5, <2>6, <2>7
       DEF ServeCloseSession, Ended, Remaining, Left, StillParked, Orphans, Orphaned
  <2>12. PICK d : d = Replied(c, ms, out)
    OBVIOUS
  <2>13. client' = d
    BY <2>2, <2>3, <2>10, <2>11, <2>12, AnswerIs
  <2> QED
    BY <2>9, <2>10, <2>11, <2>12, <2>13, ServerMoves
<1> QED
  BY <1>1, <1>2

\* The session times out or is closed at the server.
LEMMA SessionEndsBy ==
  ASSUME IInv, SessionEnds
  PROVE  IInv'
<1>1. PICK c : c = client
  OBVIOUS
<1>2. PICK srv : srv = server
  OBVIOUS
<1>3. Sound(c, srv) /\ ServerInv(srv) /\ c \in ClientRecord /\ c.out \in Seq(RequestMsg)
  BY <1>1, <1>2 DEF IInv, Sound, Fine, Weak, Core, ClientRecord
<1>4. PICK S : S = srv.subs
  OBVIOUS
<1>5. PICK t : t = [Left(srv, S) EXCEPT !.session = "none", !.bound = FALSE]
  OBVIOUS
<1>6. /\ ServerInv(t) /\ Keeps(c, srv, t) /\ ~UsableAt(t) /\ t.parked = <<>>
  BY <1>3, <1>4, <1>5, EndedFacts
<1>7. faults < MaxFaults /\ faults' = faults + 1 /\ server' = t
  BY <1>2, <1>4, <1>5 DEF SessionEnds, Ended, Remaining, Left, StillParked
<1>8. CASE srv.bound
  <2>1. PICK ms : ms = Orphaned(srv, S)
    OBVIOUS
  <2>2. ms \in Seq(ResponseMsg) /\ Sound(Replied(c, ms, c.out), t)
    <3>1. t.parked = StillParked(srv, S)
      BY <1>4, <1>6 DEF StillParked
    <3> QED
      BY <1>3, <1>6, <2>1, <3>1, OrphansOnly
  <2>3. client' = Sent(c, ms)
    BY <1>1, <1>2, <1>4, <1>8, <2>1 DEF SessionEnds, Orphans, Orphaned
  <2>4. PICK out : out = c.out
    OBVIOUS
  <2>5. Sent(c, ms) = Replied(c, ms, out)
    BY <1>3, <2>2, <2>4, SentReplies
  <2>6. PICK d : d = Replied(c, ms, out)
    OBVIOUS
  <2> QED
    BY <1>6, <1>7, <2>2, <2>3, <2>4, <2>5, <2>6, ServerMoves
<1>9. CASE ~srv.bound
  <2>1. srv.parked = <<>>
    BY <1>3, <1>9 DEF ServerInv, UsableAt
  <2>2. Sound(c, t)
    <3>1. Parked(t) = Parked(srv)
      BY <1>6, <2>1 DEF Parked
    <3> QED
      BY <1>3, <1>6, <3>1, Silent
  <2>3. client' = c
    BY <1>1, <1>2, <1>9 DEF SessionEnds
  <2> QED
    BY <1>6, <1>7, <2>2, <2>3, ServerMoves
<1> QED
  BY <1>8, <1>9

\* A subscription reaches its lifetime.
LEMMA Expires ==
  ASSUME IInv, NEW s \in Sub, Expire(s)
  PROVE  IInv'
<1>1. PICK c : c = client
  OBVIOUS
<1>2. PICK srv : srv = server
  OBVIOUS
<1>3. Sound(c, srv) /\ ServerInv(srv)
  BY <1>1, <1>2 DEF IInv, Sound
<1>4. PICK S : S = {s}
  OBVIOUS
<1>5. PICK t : t = Left(srv, S)
  OBVIOUS
<1>6. /\ ServerInv(t) /\ Keeps(c, srv, t) /\ t.session = srv.session /\ t.bound = srv.bound
      /\ t.parked = StillParked(srv, S)
  BY <1>3, <1>5, LeftFacts
<1>7. /\ faults < MaxFaults /\ faults' = faults + 1 /\ server' = t /\ client' = c
      /\ srv.parked = <<>>
  BY <1>1, <1>2, <1>4, <1>5 DEF Expire, Remaining, Left, StillParked
<1>8. Sound(c, t)
  <2>1. Parked(t) = Parked(srv)
    BY <1>6, <1>7 DEF Parked, StillParked
  <2>2. UsableAt(t) => UsableAt(srv)
    BY <1>6 DEF UsableAt
  <2> QED
    BY <1>3, <1>6, <2>1, <2>2, Silent
<1> QED
  BY <1>6, <1>7, <1>8, ServerMoves

\* A subscription has something to report.
LEMMA HasNewData ==
  ASSUME IInv, NEW s \in Sub, NewData(s)
  PROVE  IInv'
<1>1. PICK c : c = client
  OBVIOUS
<1>2. PICK srv : srv = server
  OBVIOUS
<1>3. Sound(c, srv) /\ ServerInv(srv)
  BY <1>1, <1>2 DEF IInv, Sound
<1>4. PICK t : t = [srv EXCEPT !.ready = @ \cup {s}]
  OBVIOUS
<1>5. faults' = faults /\ server' = t /\ client' = c /\ s \in srv.subs
  BY <1>1, <1>2, <1>4 DEF NewData
<1>6. /\ t \in ServerRecord /\ t.channel = srv.channel /\ t.seq = srv.seq
      /\ t.created = srv.created /\ t.subs = srv.subs /\ t.retrans = srv.retrans
      /\ t.ready = srv.ready \cup {s} /\ t.parked = srv.parked /\ t.session = srv.session
      /\ t.bound = srv.bound
  BY <1>3, <1>4 DEF ServerInv, ServerRecord
<1>7. ServerInv(t)
  BY <1>3, <1>5, <1>6 DEF ServerInv, UsableAt
<1>8. Keeps(c, srv, t) /\ Parked(t) = Parked(srv) /\ (UsableAt(t) => UsableAt(srv))
  BY <1>6 DEF Keeps, Parked, UsableAt
<1>9. Sound(c, t)
  BY <1>3, <1>8, Silent
<1> QED
  BY <1>5, <1>7, <1>9, ServerMoves

\* Message m of subscription s answers the oldest parked request: the notification n
\* behind the last one, or a keep-alive, which has its number and sends nothing.
Reports(srv, s, n, m, t) ==
  /\ m \in ResponseMsg /\ m.id = Head(srv.parked) /\ m.sub = s /\ m.seq = n
  /\ m.result # "BadTooManyPublishRequests"
  /\ t \in ServerRecord /\ t.channel = srv.channel /\ t.session = srv.session
  /\ t.bound = srv.bound /\ t.created = srv.created /\ t.subs = srv.subs
  /\ t.ready \subseteq srv.ready /\ t.parked = Tail(srv.parked)
  /\ srv.retrans \subseteq t.retrans
  /\ \A p \in t.retrans : p \in srv.retrans \/ (p = <<s, n>> /\ t.seq[s] = n)
  /\ \A x \in Sub : \/ t.seq[x] = srv.seq[x]
                    \/ x = s /\ t.seq[x] = n /\ <<s, n>> \in t.retrans
  /\ IF m.data THEN t.seq[s] = n ELSE n \notin m.avail

\* What the server and the client then know.
LEMMA ReportNotes ==
  ASSUME NEW c, NEW srv, Sound(c, srv), ServerInv(srv), NEW s \in srv.subs,
         NEW n, n = srv.seq[s] + 1, NEW m, NEW t, Reports(srv, s, n, m, t)
  PROVE  NotesMove(c, <<m>>, t) /\ ServerInv(t)
<1> DEFINE k == srv.seq[s]
<1>1. c \in ClientRecord /\ NotesInv(c, srv) /\ srv \in ServerRecord /\ t \in ServerRecord
      /\ m \in ResponseMsg
  BY DEF Sound, Fine, Weak, Core, ServerInv, Reports
<1>2. /\ Kept(c.got, srv) /\ Numbered(srv.retrans \cup c.got \cup c.missed, srv)
      /\ Noted(c.subs, c.got, c.missed, srv)
      /\ \A x \in In(c) : Coming(x, c.subs, c.got, c.missed, srv)
      /\ InOrder(c.in)
  BY <1>1 DEF NotesInv
<1>3. Sub \subseteq Nat \ {0} /\ s \in Sub /\ srv.created \in Nat
  <2>1. MaxSub \in Nat
    BY BoundsAssumption
  <2> QED
    BY <1>1, <2>1 DEF ServerRecord, Sub
<1>4. /\ srv.seq \in [Sub -> Nat] /\ t.seq \in [Sub -> Nat]
      /\ c.got \subseteq Note /\ c.missed \subseteq Note /\ srv.retrans \subseteq Note
      /\ t.retrans \subseteq Note
      /\ c.in \in Seq(ResponseMsg) /\ c.subs \in Numbers
  BY <1>1 DEF ServerRecord, ClientRecord
<1>5. k \in Nat /\ n = k + 1 /\ n \in Nat /\ n > 0 /\ s <= srv.created /\ s # 0
  BY <1>2, <1>3, <1>4 DEF Kept
<1> HIDE DEF k
<1>6. /\ m.id = Head(srv.parked) /\ m.sub = s /\ m.seq = n
      /\ t.created = srv.created /\ t.subs = srv.subs
      /\ srv.retrans \subseteq t.retrans
      /\ \A p \in t.retrans : p \in srv.retrans \/ (p = <<s, n>> /\ t.seq[s] = n)
      /\ \A x \in Sub : \/ t.seq[x] = srv.seq[x]
                        \/ x = s /\ t.seq[x] = n /\ <<s, n>> \in t.retrans
      /\ (m.data => t.seq[s] = n) /\ (~m.data => n \notin m.avail)
  BY DEF Reports
<1>7. \A x \in Sub : srv.seq[x] \in Nat /\ t.seq[x] \in Nat /\ srv.seq[x] <= t.seq[x]
  <2> SUFFICES ASSUME NEW x \in Sub
               PROVE  srv.seq[x] \in Nat /\ t.seq[x] \in Nat /\ srv.seq[x] <= t.seq[x]
    OBVIOUS
  <2>1. srv.seq[x] \in Nat /\ t.seq[x] \in Nat
    BY <1>4
  <2>2. CASE t.seq[x] = srv.seq[x]
    BY <2>1, <2>2
  <2>3. CASE x = s /\ t.seq[x] = n
    <3>1. srv.seq[x] = k
      BY <2>3 DEF k
    <3> QED
      BY <1>5, <2>1, <2>3, <3>1
  <2> QED
    BY <1>6, <2>2, <2>3
<1>8. \A p \in Note : p[1] \in Sub
  BY <1>3 DEF Note
<1>9. Kept(c.got, t)
  <2> SUFFICES ASSUME NEW x \in srv.subs, NEW i \in 1..t.seq[x]
               PROVE  <<x, i>> \in t.retrans \cup c.got
    BY <1>2, <1>6 DEF Kept
  <2>1. x \in Sub
    BY <1>1 DEF ServerRecord
  <2>2. \A j \in 1..srv.seq[x] : <<x, j>> \in srv.retrans \cup c.got
    BY <1>2 DEF Kept
  <2>3. CASE t.seq[x] = srv.seq[x]
    BY <1>6, <2>2, <2>3
  <2>4. CASE x = s /\ t.seq[x] = n /\ <<s, n>> \in t.retrans
    <3>1. i \in 1..k \/ i = n
      BY <1>5, <2>4
    <3>2. i \in 1..k => i \in 1..srv.seq[x]
      BY <2>4 DEF k
    <3> QED
      BY <1>6, <2>2, <2>4, <3>1, <3>2
  <2> QED
    BY <1>6, <2>1, <2>3, <2>4
<1>10. Numbered(t.retrans \cup c.got \cup c.missed, t)
  <2> SUFFICES ASSUME NEW p \in t.retrans \cup c.got \cup c.missed
               PROVE  p[1] <= srv.created /\ p[2] \in 1..t.seq[p[1]]
    BY <1>6 DEF Numbered
  <2>1. p \in Note
    BY <1>4
  <2>2. CASE p \in srv.retrans \cup c.got \cup c.missed
    <3>1. p[1] <= srv.created /\ p[2] \in 1..srv.seq[p[1]]
      BY <1>2, <2>2 DEF Numbered
    <3>2. p[1] \in Sub
      BY <1>8, <2>1
    <3>3. srv.seq[p[1]] \in Nat /\ t.seq[p[1]] \in Nat /\ srv.seq[p[1]] <= t.seq[p[1]]
      BY <1>7, <3>2
    <3> QED
      BY <3>1, <3>3
  <2>3. CASE p = <<s, n>> /\ t.seq[s] = n
    <3>1. p[1] = s /\ p[2] = n
      BY <2>3
    <3>2. n \in 1..n
      BY <1>5
    <3> QED
      BY <1>5, <2>3, <3>1, <3>2
  <2> QED
    BY <1>6, <2>2, <2>3
<1>11. Noted(c.subs, c.got, c.missed, t)
  <2> SUFFICES ASSUME NEW x \in DOMAIN c.subs PROVE c.subs[x] <= t.seq[x]
    BY <1>2, <1>6 DEF Noted
  <2>1. x \in Sub /\ c.subs[x] \in Nat
    BY <1>4 DEF Numbers
  <2>2. c.subs[x] <= srv.seq[x]
    BY <1>2 DEF Noted
  <2> QED
    BY <1>7, <2>1, <2>2
<1>12. \A x \in In(c) : /\ Coming(x, c.subs, c.got, c.missed, t)
                        /\ x.sub = s => x.seq <= n /\ (x.data => x.seq < n)
  <2> SUFFICES ASSUME NEW x \in In(c)
               PROVE  /\ Coming(x, c.subs, c.got, c.missed, t)
                      /\ x.sub = s => x.seq <= n /\ (x.data => x.seq < n)
    OBVIOUS
  <2>1. Coming(x, c.subs, c.got, c.missed, srv)
    BY <1>2
  <2>2. x \in ResponseMsg
    BY <1>4, ToSetFacts DEF In
  <2>3. x.seq \in Nat /\ x.sub \in Nat
    BY <2>2 DEF ResponseMsg
  <2>4. News(x) => x.sub \in Sub /\ x.seq <= srv.seq[x.sub] + 1
                   /\ (x.data => x.seq <= srv.seq[x.sub])
    BY <2>1 DEF Coming
  <2>5. News(x) => x.seq <= t.seq[x.sub] + 1 /\ (x.data => x.seq <= t.seq[x.sub])
    <3>1. ASSUME News(x) PROVE x.seq <= t.seq[x.sub] + 1 /\ (x.data => x.seq <= t.seq[x.sub])
      <4>1. srv.seq[x.sub] \in Nat /\ t.seq[x.sub] \in Nat /\ srv.seq[x.sub] <= t.seq[x.sub]
        BY <1>7, <2>4, <3>1
      <4>2. x.seq <= srv.seq[x.sub] + 1 /\ (x.data => x.seq <= srv.seq[x.sub])
        BY <2>4, <3>1
      <4> QED
        BY <2>3, <4>1, <4>2
    <3> QED
      BY <3>1
  <2>6. Coming(x, c.subs, c.got, c.missed, t)
    BY <1>6, <2>1, <2>5 DEF Coming
  <2>7. x.sub = s => x.seq <= n /\ (x.data => x.seq < n)
    <3>1. ASSUME x.sub = s PROVE x.seq <= n /\ (x.data => x.seq < n)
      <4>1. CASE News(x)
        <5>1. x.seq <= k + 1 /\ (x.data => x.seq <= k)
          BY <2>4, <3>1, <4>1 DEF k
        <5> QED
          BY <1>5, <2>3, <5>1
      <4>2. CASE ~News(x)
        BY <1>5, <2>3, <4>2 DEF News
      <4> QED
        BY <4>1, <4>2
    <3> QED
      BY <3>1
  <2> QED
    BY <2>6, <2>7
<1>13. Coming(m, c.subs, c.got, c.missed, t)
  <2>1. n <= t.seq[s] + 1
    <3>1. srv.seq[s] <= t.seq[s] /\ t.seq[s] \in Nat /\ srv.seq[s] = k
      BY <1>3, <1>7 DEF k
    <3> QED
      BY <1>5, <3>1
  <2>2. m.data => n <= t.seq[s]
    BY <1>5, <1>6
  <2>3. \A p \in c.missed : p[1] = s => p[2] < n
    <3> SUFFICES ASSUME NEW p \in c.missed, p[1] = s PROVE p[2] < n
      OBVIOUS
    <3>1. p[2] \in 1..k
      BY <1>2 DEF Numbered, k
    <3> QED
      BY <1>5, <3>1
  <2>4. s \in DOMAIN c.subs => c.subs[s] < n
    <3>1. ASSUME s \in DOMAIN c.subs PROVE c.subs[s] < n
      <4>1. c.subs[s] <= k /\ c.subs[s] \in Nat
        BY <1>2, <1>4, <3>1 DEF Noted, Numbers, k
      <4> QED
        BY <1>5, <4>1
    <3> QED
      BY <3>1
  <2>5. ~Creation(m)
    BY <1>5, <1>6 DEF Creation
  <2> QED
    BY <1>3, <1>5, <1>6, <2>1, <2>2, <2>3, <2>4, <2>5 DEF Coming
<1> DEFINE ms == <<m>>
<1>14. Len(ms) = 1 /\ DOMAIN ms = 1..1 /\ ms \in Seq(ResponseMsg) /\ ToSet(ms) = {m}
  BY <1>1, SingleFacts
<1> HIDE DEF ms
<1>15. InOrder(c.in \o ms)
  <2>1. InOrder(ms)
    <3>1. \A i, j \in 1..1 : ~(i < j)
      OBVIOUS
    <3> QED
      BY <1>14, <3>1 DEF InOrder
  <2>2. News(m)
    BY <1>5, <1>6 DEF News
  <2>3. \A x \in ToSet(c.in), y \in ToSet(ms) : x.sub = y.sub /\ x.sub # 0 =>
          News(y) /\ x.seq <= y.seq /\ (x.data => x.seq < y.seq)
    BY <1>6, <1>12, <1>14, <2>2 DEF In
  <2> QED
    BY <1>2, <1>4, <1>14, <2>1, <2>3, InOrderJoins
<1>16. NotesMove(c, ms, t)
  BY <1>9, <1>10, <1>11, <1>12, <1>13, <1>14, <1>15 DEF NotesMove
<1>17. ServerInv(t)
  <2>1. /\ t.channel = srv.channel /\ t.session = srv.session /\ t.bound = srv.bound
        /\ t.ready \subseteq srv.ready /\ t.parked = Tail(srv.parked)
    BY DEF Reports
  <2>2. srv.parked # <<>> => IsInjective(t.parked)
    BY <1>1, <2>1, TailFacts DEF ServerInv, ServerRecord
  <2>3. srv.parked = <<>> => t.parked = <<>>
    BY <2>1
  <2>4. IsInjective(t.parked) /\ (t.parked # <<>> => srv.parked # <<>>)
    BY <2>2, <2>3, EmptyFacts
  <2>5. \A x \in Sub : x > srv.created => t.seq[x] = 0
    <3> SUFFICES ASSUME NEW x \in Sub, x > srv.created PROVE t.seq[x] = 0
      OBVIOUS
    <3>1. srv.seq[x] = 0 /\ x # s
      BY <1>3, <1>5 DEF ServerInv
    <3> QED
      BY <1>6, <3>1
  <2> QED
    BY <1>1, <1>6, <2>1, <2>4, <2>5 DEF ServerInv, UsableAt
<1> QED
  BY <1>16, <1>17 DEF ms

\* Both ends after a subscription has reported.
LEMMA ReportMoves ==
  ASSUME NEW c, NEW srv, Sound(c, srv), ServerInv(srv), NEW s \in srv.subs,
         srv.parked # <<>>,
         NEW n, n = srv.seq[s] + 1, NEW m, NEW t, Reports(srv, s, n, m, t)
  PROVE  <<m>> \in Seq(ResponseMsg) /\ Sound(Replied(c, <<m>>, c.out), t) /\ ServerInv(t)
<1>1. /\ c.out \in Seq(RequestMsg) /\ IsInjective(c.out) /\ WireInv(c, srv)
      /\ srv.parked \in Seq(PosNat) /\ IsInjective(srv.parked)
  BY DEF Sound, Fine, Weak, Core, ClientRecord, Listed, ServerInv, ServerRecord
<1>2. NotesMove(c, <<m>>, t) /\ ServerInv(t)
  BY ReportNotes
<1>3. /\ m \in ResponseMsg /\ m.id = Head(srv.parked) /\ t.parked = Tail(srv.parked)
      /\ m.result # "BadTooManyPublishRequests" /\ t.created = srv.created
      /\ t \in ServerRecord /\ t.channel = srv.channel /\ t.session = srv.session
      /\ t.bound = srv.bound
  BY DEF Reports
<1>4. m.id \in Parked(srv) /\ Parked(t) = Parked(srv) \ {m.id}
  BY <1>1, <1>3, TailFacts DEF Parked
<1> DEFINE ms == <<m>>
<1>5. Len(ms) = 1 /\ DOMAIN ms = 1..1 /\ ms \in Seq(ResponseMsg) /\ ToSet(ms) = {m}
  BY <1>3, SingleFacts
<1>6. NotesMove(c, ms, t)
  BY <1>2
<1> HIDE DEF ms
<1>7. PICK out : out = c.out
  OBVIOUS
<1>8. Moves(c, srv, ms, out, t)
  <2>1. \A i, j \in DOMAIN ms : i = j
    BY <1>5
  <2> QED
    BY <1>1, <1>4, <1>5, <1>7, <2>1 DEF Moves, Out, WireInv
<1>9. \A r \in ToSet(out) : r.kind = "CreateSubscription" => t.created < MaxSub
  BY <1>1, <1>3, <1>7 DEF WireInv, Out
<1>10. Sound(Replied(c, ms, out), t)
  <2>1. UsableAt(t) => UsableAt(srv)
    BY <1>3 DEF UsableAt
  <2>2. \A x \in ToSet(ms) : x.result # "BadTooManyPublishRequests"
    BY <1>3, <1>5
  <2> QED
    BY <1>1, <1>3, <1>5, <1>6, <1>7, <1>8, <1>9, <2>1, <2>2, NewsReplies
<1> QED
  BY <1>2, <1>5, <1>7, <1>10 DEF ms

\* The same of the step.
LEMMA ReportSteps ==
  ASSUME IInv, faults' = faults, NEW srv, srv = server, NEW s \in srv.subs, srv.parked # <<>>,
         NEW n, n = srv.seq[s] + 1, NEW m, NEW t, Reports(srv, s, n, m, t),
         server' = t, client' = Sent(client, <<m>>)
  PROVE  IInv'
<1>1. PICK c : c = client
  OBVIOUS
<1>2. Sound(c, srv) /\ ServerInv(srv) /\ c \in ClientRecord /\ c.out \in Seq(RequestMsg)
  BY <1>1 DEF IInv, Sound, Fine, Weak, Core, ClientRecord
<1>3. PICK out : out = c.out
  OBVIOUS
<1>4. <<m>> \in Seq(ResponseMsg) /\ Sound(Replied(c, <<m>>, out), t) /\ ServerInv(t)
  BY <1>2, <1>3, ReportMoves
<1>5. PICK ms : ms = <<m>>
  OBVIOUS
<1>6. Sent(c, ms) = Replied(c, ms, out)
  BY <1>2, <1>3, <1>4, <1>5, SentReplies
<1>7. PICK d : d = Replied(c, ms, out)
  OBVIOUS
<1>8. client' = d /\ Sound(d, t)
  BY <1>1, <1>4, <1>5, <1>6, <1>7
<1> QED
  BY <1>4, <1>8, ServerMoves

\* A notification.
LEMMA PublishesNotification ==
  ASSUME IInv, NEW s \in Sub, PublishNotification(s)
  PROVE  IInv'
<1>1. PICK srv : srv = server
  OBVIOUS
<1>2. PICK n : n = srv.seq[s] + 1
  OBVIOUS
<1>3. PICK R : R = srv.retrans \cup {<<s, n>>}
  OBVIOUS
<1>4. PICK i : i = Head(srv.parked)
  OBVIOUS
<1>5. PICK a : a = Available(s, R)
  OBVIOUS
<1>6. PICK m : m = [id |-> i, result |-> "Good", sub |-> s, seq |-> n, data |-> TRUE, avail |-> a]
  OBVIOUS
<1>7. PICK p : p = Tail(srv.parked)
  OBVIOUS
<1>8. PICK t : t = [srv EXCEPT !.seq[s] = n, !.ready = @ \ {s}, !.retrans = R, !.parked = p]
  OBVIOUS
<1>9. /\ s \in srv.ready /\ srv.parked # <<>> /\ server' = t /\ client' = Sent(client, <<m>>)
      /\ faults' = faults
  BY <1>1, <1>2, <1>3, <1>4, <1>5, <1>6, <1>7, <1>8 DEF PublishNotification
<1>10. /\ ServerInv(srv) /\ srv \in ServerRecord /\ s \in srv.subs
       /\ srv.parked \in Seq(PosNat) /\ IsInjective(srv.parked) /\ srv.seq \in [Sub -> Nat]
       /\ srv.retrans \subseteq Note
  BY <1>1, <1>9 DEF IInv, ServerInv, ServerRecord
<1>11. n \in Nat /\ <<s, n>> \in Note /\ R \in SUBSET Note
  <2>1. srv.seq[s] \in Nat
    BY <1>10
  <2> QED
    BY <1>2, <1>3, <1>10, <2>1 DEF Note
<1>12. i \in PosNat /\ p \in Seq(PosNat)
  BY <1>4, <1>7, <1>9, <1>10, TailFacts, ToSetFacts
<1>13. a \subseteq Nat
  BY <1>5, <1>11 DEF Available, Note
<1>14. PICK q : q = [srv.seq EXCEPT ![s] = n]
  OBVIOUS
<1>15. q \in [Sub -> Nat] /\ q[s] = n /\ \A x \in Sub : x # s => q[x] = srv.seq[x]
  BY <1>10, <1>11, <1>14
<1>16. t = [srv EXCEPT !.seq = q, !.ready = @ \ {s}, !.retrans = R, !.parked = p]
  BY <1>8, <1>10, <1>14 DEF ServerRecord
<1>17. /\ t \in ServerRecord /\ t.channel = srv.channel /\ t.session = srv.session
       /\ t.bound = srv.bound /\ t.created = srv.created /\ t.subs = srv.subs
       /\ t.ready = srv.ready \ {s} /\ t.parked = p /\ t.retrans = R /\ t.seq = q
  BY <1>10, <1>11, <1>12, <1>15, <1>16 DEF ServerRecord
<1>18. /\ m \in ResponseMsg /\ m.id = i /\ m.sub = s /\ m.seq = n /\ m.data = TRUE
       /\ m.result = "Good"
  <2>1. "Good" \in Results /\ s \in Nat
    BY BoundsAssumption DEF Results, Sub
  <2> QED
    BY <1>6, <1>11, <1>12, <1>13, <2>1 DEF ResponseMsg
<1>19. Reports(srv, s, n, m, t)
  BY <1>3, <1>4, <1>7, <1>15, <1>17, <1>18 DEF Reports
<1> QED
  BY <1>1, <1>2, <1>9, <1>10, <1>19, ReportSteps

\* A keep-alive.
LEMMA KeepsAlive ==
  ASSUME IInv, NEW s \in Sub, KeepAlive(s)
  PROVE  IInv'
<1>1. PICK srv : srv = server
  OBVIOUS
<1>2. PICK n : n = srv.seq[s] + 1
  OBVIOUS
<1>4. PICK i : i = Head(srv.parked)
  OBVIOUS
<1>5. PICK a : a = Available(s, srv.retrans)
  OBVIOUS
<1>6. PICK m : m = [id |-> i, result |-> "Good", sub |-> s, seq |-> n, data |-> FALSE, avail |-> a]
  OBVIOUS
<1>7. PICK p : p = Tail(srv.parked)
  OBVIOUS
<1>8. PICK t : t = [srv EXCEPT !.parked = p]
  OBVIOUS
<1>9. /\ s \in srv.subs /\ srv.parked # <<>> /\ server' = t /\ client' = Sent(client, <<m>>)
      /\ faults' = faults
  BY <1>1, <1>2, <1>4, <1>5, <1>6, <1>7, <1>8 DEF KeepAlive
<1>10. /\ ServerInv(srv) /\ srv \in ServerRecord
       /\ srv.parked \in Seq(PosNat) /\ IsInjective(srv.parked) /\ srv.seq \in [Sub -> Nat]
       /\ srv.retrans \subseteq Note
  BY <1>1, <1>9 DEF IInv, ServerInv, ServerRecord
<1>11. n \in Nat /\ srv.seq[s] \in Nat
  <2>1. srv.seq[s] \in Nat
    BY <1>10
  <2> QED
    BY <1>2, <2>1
<1>12. i \in PosNat /\ p \in Seq(PosNat)
  BY <1>4, <1>7, <1>9, <1>10, TailFacts, ToSetFacts
<1>13. a \subseteq Nat /\ n \notin a
  <2>1. Numbered(srv.retrans, srv)
    BY <1>1 DEF IInv, Fine, Weak, Core, NotesInv, Numbered
  <2>2. \A r \in srv.retrans : r[2] \in Nat /\ (r[1] = s => r[2] # n)
    <3> SUFFICES ASSUME NEW r \in srv.retrans
                 PROVE  r[2] \in Nat /\ (r[1] = s => r[2] # n)
      OBVIOUS
    <3>1. r[2] \in Nat
      BY <1>10 DEF Note
    <3>2. r[1] = s => r[2] \in 1..srv.seq[s]
      BY <2>1 DEF Numbered
    <3> QED
      BY <1>2, <1>11, <3>1, <3>2
  <2> QED
    BY <1>5, <2>2 DEF Available
<1>17. /\ t \in ServerRecord /\ t.channel = srv.channel /\ t.session = srv.session
       /\ t.bound = srv.bound /\ t.created = srv.created /\ t.subs = srv.subs
       /\ t.ready = srv.ready /\ t.parked = p /\ t.retrans = srv.retrans /\ t.seq = srv.seq
  BY <1>8, <1>10, <1>12 DEF ServerRecord
<1>18. /\ m \in ResponseMsg /\ m.id = i /\ m.sub = s /\ m.seq = n /\ m.data = FALSE
       /\ m.result = "Good" /\ m.avail = a
  <2>1. "Good" \in Results /\ s \in Nat
    BY BoundsAssumption DEF Results, Sub
  <2> QED
    BY <1>6, <1>11, <1>12, <1>13, <2>1 DEF ResponseMsg
<1>19. Reports(srv, s, n, m, t)
  BY <1>4, <1>7, <1>13, <1>17, <1>18 DEF Reports
<1> QED
  BY <1>1, <1>2, <1>9, <1>10, <1>19, ReportSteps

\* A list without elements.
LEMMA NothingLeft ==
  ASSUME NEW S, NEW s \in Seq(S), ToSet(s) = {}
  PROVE  s = <<>>
BY ToSetFacts

\* The server has lost the client's channel, and with it the parked requests.
LEMMA GoneFacts ==
  ASSUME NEW srv, ServerInv(srv), NEW t,
         t = [srv EXCEPT !.channel = FALSE, !.bound = FALSE, !.parked = <<>>]
  PROVE  /\ ServerInv(t) /\ t \in ServerRecord /\ t.channel = FALSE /\ t.seq = srv.seq
         /\ t.created = srv.created /\ t.subs = srv.subs /\ t.retrans = srv.retrans
         /\ Parked(t) = {}
<1>1. srv \in ServerRecord /\ <<>> \in Seq(PosNat) /\ IsInjective(<<>>) /\ ToSet(<<>>) = {}
  BY EmptyFacts DEF ServerInv
<1>2. /\ t \in ServerRecord /\ t.channel = FALSE /\ t.bound = FALSE /\ t.parked = <<>>
      /\ t.seq = srv.seq /\ t.created = srv.created /\ t.subs = srv.subs
      /\ t.retrans = srv.retrans /\ t.ready = srv.ready
  BY <1>1 DEF ServerRecord
<1>3. ServerInv(t)
  BY <1>1, <1>2 DEF ServerInv
<1> QED
  BY <1>1, <1>2, <1>3 DEF Parked

\* The connection is gone; the client can still read the first n messages.
LEMMA ConnectionGone ==
  ASSUME NEW c, NEW srv, Sound(c, srv), ServerInv(srv), srv.channel,
         NEW t, t = [srv EXCEPT !.channel = FALSE, !.bound = FALSE, !.parked = <<>>],
         NEW n \in 0..Len(c.in), NEW in, in = SubSeq(c.in, 1, n),
         NEW d, d = [c EXCEPT !.lost = (c.channel = "OPEN"), !.out = <<>>, !.in = in]
  PROVE  Sound(d, t) /\ ServerInv(t)
<1>1. /\ c \in ClientRecord /\ Listed(c) /\ LinkInv(c, srv) /\ WireInv(c, srv)
      /\ NotesInv(c, srv) /\ SessionInv(c) /\ CountInv(c)
      /\ (c.channel # "OPEN" => c.waiting = <<>>) /\ (c.channel = "OPEN" => OpenPart(c, srv))
  BY DEF Sound, Fine, Weak, Core
<1>2. c.in \in Seq(ResponseMsg) /\ IsInjective(c.in) /\ c.calls \in Seq(Call)
      /\ IsInjective(c.calls) /\ IsInjective(c.waiting)
  BY <1>1 DEF ClientRecord, Listed
<1>3. /\ in \in Seq(ResponseMsg) /\ Len(in) = n /\ IsInjective(in) /\ ToSet(in) \subseteq In(c)
      /\ \A i \in 1..n : in[i] = c.in[i] /\ i \in 1..Len(c.in)
  BY <1>2, PrefixFacts DEF In
<1>4. /\ ServerInv(t) /\ t \in ServerRecord /\ t.channel = FALSE /\ t.seq = srv.seq
      /\ t.created = srv.created /\ t.subs = srv.subs /\ t.retrans = srv.retrans
      /\ Parked(t) = {}
  BY GoneFacts
<1>5. <<>> \in Seq(RequestMsg) /\ ToSet(<<>>) = {} /\ IsInjective(<<>>) /\ CloLast(<<>>)
  BY EmptyFacts, NoClo
<1>6. /\ d \in ClientRecord /\ SameNotes(c, d) /\ d.acks = c.acks /\ d.in = in /\ d.out = <<>>
      /\ d.calls = c.calls /\ d.waiting = c.waiting /\ d.lost = (c.channel = "OPEN")
      /\ d.session = c.session /\ d.outstanding = c.outstanding /\ d.limit = c.limit
      /\ d.checking = c.checking /\ d.channel = c.channel
  <2>1. PICK l : l = (c.channel = "OPEN")
    OBVIOUS
  <2>2. l \in BOOLEAN /\ d = [c EXCEPT !.lost = l, !.out = <<>>, !.in = in]
    BY <2>1
  <2>3. /\ d \in ClientRecord /\ SameNotes(c, d) /\ d.acks = c.acks /\ d.in = in
        /\ d.out = <<>> /\ d.calls = c.calls /\ d.waiting = c.waiting /\ d.lost = l
        /\ d.session = c.session /\ d.outstanding = c.outstanding /\ d.limit = c.limit
        /\ d.checking = c.checking /\ d.channel = c.channel
    BY <1>1, <1>3, <1>5, <2>2 DEF ClientRecord, SameNotes
  <2> QED
    BY <2>1, <2>3
<1>7. /\ Calls(d) = Calls(c) /\ Waits(d) = Waits(c) /\ Out(d) = {} /\ In(d) \subseteq In(c)
      /\ \A kind : Pending(d, kind) <=> Pending(c, kind)
  BY <1>3, <1>5, <1>6 DEF Calls, Waits, Out, In, Pending
<1>8. Listed(d) /\ LinkInv(d, t)
  <2>1. Link(Calls(c), Waits(c), In(c), Out(c), Parked(srv))
    BY <1>1 DEF LinkInv
  <2>2. /\ Calls(d) \in SUBSET Calls(c) /\ Waits(d) \in SUBSET Waits(c)
        /\ In(d) \in SUBSET In(c) /\ Out(d) \in SUBSET Out(c)
        /\ Parked(t) \in SUBSET Parked(srv)
    BY <1>4, <1>7
  <2>3. Link(Calls(d), Waits(d), In(d), Out(d), Parked(t))
    BY <2>1, <2>2, LinkLess
  <2> QED
    BY <1>2, <1>3, <1>5, <1>6, <2>3 DEF Listed, LinkInv
<1>9. WireInv(d, t)
  BY <1>4, <1>5, <1>6, <1>7 DEF WireInv
<1>10. NotesInv(d, t)
  <2>1. /\ Kept(c.got, srv) /\ Numbered(srv.retrans \cup c.got \cup c.missed, srv)
        /\ Noted(c.subs, c.got, c.missed, srv) /\ c.acks \subseteq c.got
        /\ \A m \in In(c) : Coming(m, c.subs, c.got, c.missed, srv)
        /\ InOrder(c.in)
    BY <1>1 DEF NotesInv
  <2>2. /\ Kept(c.got, t) /\ Numbered(t.retrans \cup c.got \cup c.missed, t)
        /\ Noted(c.subs, c.got, c.missed, t)
        /\ \A m \in In(d) : Coming(m, c.subs, c.got, c.missed, t)
    BY <1>4, <1>7, <2>1 DEF Kept, Numbered, Noted, Coming
  <2>3. InOrder(in)
    <3>1. DOMAIN in = 1..n /\ DOMAIN c.in = 1..Len(c.in)
      BY <1>2, <1>3, LenProperties
    <3> QED
      BY <1>3, <2>1, <3>1 DEF InOrder
  <2> QED
    BY <1>6, <1>7, <2>1, <2>2, <2>3 DEF NotesInv, SameNotes
<1>11. SessionInv(d)
  <2>1. c.channel # "OPEN" => in = <<>>
    <3>1. ASSUME c.channel # "OPEN" PROVE in = <<>>
      <4>1. c.in = <<>>
        BY <1>1, <3>1 DEF SessionInv
      <4>2. In(c) = {}
        BY <1>5, <4>1 DEF In
      <4>3. ToSet(in) = {}
        BY <1>3, <4>2
      <4> QED
        BY <1>3, <4>3, NothingLeft
    <3> QED
      BY <3>1
  <2> QED
    BY <1>1, <1>6, <1>7, <2>1 DEF SessionInv, SameNotes
<1>12. CountInv(d)
  BY <1>1, <1>6, <1>7 DEF CountInv
<1>13. c.channel = "OPEN" => OpenPart(d, t)
  <2> SUFFICES ASSUME c.channel = "OPEN" PROVE OpenPart(d, t)
    OBVIOUS
  <2>1. OpenPart(c, srv)
    BY <1>1
  <2>2. ManyInv(d)
    <3> SUFFICES ASSUME NEW i \in DOMAIN d.in, d.in[i].result = "BadTooManyPublishRequests"
                 PROVE  MaxParked <= Cardinality(Unanswered(d, i))
      BY DEF ManyInv
    <3>1. i \in 1..n /\ i \in DOMAIN c.in
      BY <1>2, <1>3, <1>6, LenProperties
    <3>2. \A j \in 1..i : d.in[j] = c.in[j]
      <4>1. n \in Nat /\ \A j \in 1..i : j \in 1..n
        BY <1>2, <3>1, LenProperties
      <4> QED
        BY <1>3, <1>6, <4>1
    <3>3. i \in 1..i
      BY <3>1
    <3>4. c.in[i].result = "BadTooManyPublishRequests"
      BY <3>2, <3>3
    <3>5. Unanswered(d, i) = Unanswered(c, i)
      BY <1>7, <3>2 DEF Unanswered
    <3> QED
      BY <2>1, <3>1, <3>4, <3>5 DEF OpenPart, ManyInv
  <2> QED
    BY <1>4, <1>6, <2>1, <2>2 DEF OpenPart
<1> QED
  BY <1>1, <1>4, <1>6, <1>8, <1>9, <1>10, <1>11, <1>12, <1>13 DEF Sound, Fine, Weak, Core

\* The connection breaks.
LEMMA Breaks ==
  ASSUME IInv, Break
  PROVE  IInv'
<1>1. PICK c : c = client
  OBVIOUS
<1>2. PICK srv : srv = server
  OBVIOUS
<1>3. Sound(c, srv) /\ ServerInv(srv)
  BY <1>1, <1>2 DEF IInv, Sound
<1>4. PICK t : t = [srv EXCEPT !.channel = FALSE, !.bound = FALSE, !.parked = <<>>]
  OBVIOUS
<1>5. PICK n \in 0..Len(c.in) :
        client' = [c EXCEPT !.lost = (c.channel = "OPEN"), !.out = <<>>, !.in = SubSeq(@, 1, n)]
  BY <1>1 DEF Break
<1>6. PICK in : in = SubSeq(c.in, 1, n)
  OBVIOUS
<1>7. PICK d : d = [c EXCEPT !.lost = (c.channel = "OPEN"), !.out = <<>>, !.in = in]
  OBVIOUS
<1>8. /\ client' = d /\ server' = t /\ faults < MaxFaults /\ faults' = faults + 1
      /\ srv.channel
  BY <1>1, <1>2, <1>4, <1>5, <1>6, <1>7 DEF Break, ChannelGone
<1>9. Sound(d, t) /\ ServerInv(t)
  BY <1>3, <1>4, <1>6, <1>7, <1>8, ConnectionGone
<1> QED
  BY <1>8, <1>9, ServerMoves

\* The client has closed the channel.
LEMMA ServesCloseChannel ==
  ASSUME IInv, ServeCloseChannel, UNCHANGED faults
  PROVE  IInv'
<1>1. Receives("CLO") /\ Answer(<<>>)
  BY DEF ServeCloseChannel
<1>2. PICK c, srv, h, out : /\ c = client /\ srv = server /\ Serving(c, srv, h, out)
                            /\ h.kind = "CLO" /\ h.id = RequestId
  BY <1>1, Begins
<1>3. /\ Sound(c, srv) /\ ServerInv(srv) /\ First(c, h, out) /\ c \in ClientRecord
      /\ out \in Seq(RequestMsg) /\ h \in Out(c) /\ srv.channel
  BY <1>2 DEF Serving
<1>4. WireInv(c, srv) /\ SessionInv(c) /\ c.out \in Seq(RequestMsg) /\ c.in \in Seq(ResponseMsg)
  BY <1>3 DEF Sound, Fine, Weak, Core, ClientRecord
<1>5. c.channel # "OPEN" /\ c.lost = FALSE /\ c.in = <<>>
  BY <1>2, <1>3, <1>4 DEF WireInv, SessionInv, ClientRecord
<1>6. out = <<>>
  BY <1>2, <1>3, <1>4, CloTail DEF First, WireInv
<1>7. PICK ms : ms = <<>>
  OBVIOUS
<1>8. client' = Replied(c, ms, out)
  <2>1. ms \in Seq(ResponseMsg) /\ Answer(ms)
    BY <1>1, <1>7, EmptySeq
  <2> QED
    BY <1>2, <1>3, <2>1, AnswerIs
<1>9. PICK n : n = 0
  OBVIOUS
<1>10. PICK in : in = SubSeq(c.in, 1, n)
  OBVIOUS
<1>11. n \in 0..Len(c.in) /\ in = c.in
  BY <1>4, <1>5, <1>9, <1>10, LenProperties
<1>12. PICK t : t = [srv EXCEPT !.channel = FALSE, !.bound = FALSE, !.parked = <<>>]
  OBVIOUS
<1>13. PICK d : d = [c EXCEPT !.lost = (c.channel = "OPEN"), !.out = <<>>, !.in = in]
  OBVIOUS
<1>14. client' = d
  <2>1. Replied(c, ms, out) = [c EXCEPT !.in = c.in, !.out = <<>>]
    BY <1>5, <1>6 DEF Replied
  <2>2. d = [c EXCEPT !.lost = FALSE, !.out = <<>>, !.in = c.in]
    BY <1>5, <1>11, <1>13
  <2>3. [c EXCEPT !.lost = FALSE, !.out = <<>>, !.in = c.in] = [c EXCEPT !.in = c.in, !.out = <<>>]
    BY <1>3, <1>5 DEF ClientRecord
  <2> QED
    BY <1>8, <2>1, <2>2, <2>3
<1>15. server' = t
  BY <1>2, <1>12 DEF ServeCloseChannel, ChannelGone
<1>16. Sound(d, t) /\ ServerInv(t)
  BY <1>3, <1>10, <1>11, <1>12, <1>13, ConnectionGone
<1> QED
  BY <1>14, <1>15, <1>16, ServerMoves

-----------------------------------------------------------------------------
(* The invariant is inductive.                                               *)

\* The client that has not connected yet.
LEMMA FreshClientTypes ==
  FreshClient \in ClientRecord /\ NoSubs \in Numbers /\ DOMAIN NoSubs = {}
<1>1. Wanted \in Nat \ {0} /\ 0 \in Int
  BY BoundsAssumption
<1>2. Wanted \in 1..Wanted
  BY <1>1
<1>3. DOMAIN NoSubs = {} /\ NoSubs \in [{} -> Nat]
  BY DEF NoSubs
<1>4. {} \in SUBSET Sub
  OBVIOUS
<1>5. NoSubs \in Numbers
  BY <1>3, <1>4 DEF Numbers
<1>6. /\ <<>> \in Seq(Call) /\ <<>> \in Seq(Waiting) /\ <<>> \in Seq(ResponseMsg)
      /\ <<>> \in Seq(RequestMsg)
  BY EmptyFacts
<1>7. "CLOSED" \in DOMAIN SessionRank
  BY SessionStates
<1>8. FreshClient \in ClientRecord
  BY <1>1, <1>2, <1>5, <1>6, <1>7 DEF FreshClient, ClientRecord
<1> QED
  BY <1>3, <1>5, <1>8

\* The server that has not heard of the client.
LEMMA FreshServerInv == ServerInv(FreshServer)
<1>1. MaxSub \in Nat
  BY BoundsAssumption
<1>2. 0 \in 0..MaxSub /\ \A s \in Sub : s > 0
  BY <1>1 DEF Sub
<1>3. <<>> \in Seq(PosNat) /\ IsInjective(<<>>)
  BY EmptyFacts
<1>4. [s \in Sub |-> 0] \in [Sub -> Nat]
  OBVIOUS
<1>5. FreshServer \in ServerRecord
  BY <1>2, <1>3, <1>4 DEF FreshServer, ServerRecord
<1>6. /\ FreshServer.parked = <<>> /\ FreshServer.ready = {} /\ FreshServer.subs = {}
      /\ ~FreshServer.bound /\ FreshServer.seq = [s \in Sub |-> 0]
  BY DEF FreshServer
<1> QED
  BY <1>3, <1>5, <1>6 DEF ServerInv

\* The initial state fulfils the invariant.
LEMMA InvInit == Init => IInv
<1> SUFFICES ASSUME Init PROVE IInv
  OBVIOUS
<1>1. PICK c : c = client
  OBVIOUS
<1>2. PICK srv : srv = server
  OBVIOUS
<1>3. c = FreshClient /\ srv = FreshServer /\ faults = 0
  BY <1>1, <1>2 DEF Init
<1>4. /\ c.channel = "CLOSED" /\ c.session = "CLOSED" /\ c.calls = <<>> /\ c.waiting = <<>>
      /\ c.outstanding = 0 /\ c.limit = Wanted /\ c.subs = NoSubs /\ c.acks = {}
      /\ c.checking = FALSE /\ c.lost = FALSE /\ c.in = <<>> /\ c.out = <<>>
      /\ c.got = {} /\ c.missed = {}
  BY <1>3 DEF FreshClient
<1>5. srv.channel = FALSE /\ srv.subs = {} /\ srv.retrans = {} /\ srv.parked = <<>>
  BY <1>3 DEF FreshServer
<1>6. ToSet(<<>>) = {} /\ IsInjective(<<>>) /\ DOMAIN <<>> = {}
  BY EmptyFacts, EmptySeq
<1>7. /\ Calls(c) = {} /\ Waits(c) = {} /\ In(c) = {} /\ Out(c) = {} /\ Parked(srv) = {}
      /\ \A kind : ~Pending(c, kind)
  BY <1>4, <1>5, <1>6 DEF Calls, Waits, In, Out, Parked, Pending
<1>8. c \in ClientRecord /\ DOMAIN c.subs = {} /\ ServerInv(srv)
  BY <1>3, <1>4, FreshClientTypes, FreshServerInv
<1>9. Listed(c) /\ LinkInv(c, srv) /\ WireInv(c, srv)
  BY <1>4, <1>5, <1>6, <1>7 DEF Listed, LinkInv, Link, Unique, WireInv, CloLast
<1>10. NotesInv(c, srv)
  BY <1>4, <1>5, <1>6, <1>7, <1>8 DEF NotesInv, Kept, Numbered, Noted, InOrder
<1>11. SessionInv(c)
  BY <1>4, <1>7 DEF SessionInv, Single
<1>12. CountInv(c)
  <2>1. Published(Calls(c)) = {} /\ Cardinality({}) = 0
    BY <1>7, FS_EmptySet DEF Published
  <2>2. Wanted \in Nat /\ 0 <= Wanted
    BY BoundsAssumption
  <2> QED
    BY <1>4, <2>1, <2>2 DEF CountInv
<1>13. faults \in 0..MaxFaults
  BY <1>3, BoundsAssumption
<1>14. Fine(c, srv)
  BY <1>4, <1>8, <1>9, <1>10, <1>11, <1>12 DEF Fine, Weak, Core
<1> QED
  BY <1>1, <1>2, <1>4, <1>8, <1>13, <1>14 DEF IInv

\* Every step preserves it.
LEMMA InvNext == IInv /\ [Next]_vars => IInv'
<1> SUFFICES ASSUME IInv, [Next]_vars PROVE IInv'
  OBVIOUS
<1>1. CASE ConnectIterate
  BY <1>1, ConnectIterates
<1>2. CASE Iterate
  BY <1>2, Iterates
<1>3. CASE CheckTimeout
  BY <1>3, ChecksTimeOut
<1>4. CASE SyncReceive
  BY <1>4, SyncReceives
<1>5. CASE SyncTimeout
  BY <1>5, SyncTimesOut
<1>6. CASE Connect
  BY <1>6, Connects
<1>7. CASE Disconnect
  BY <1>7, DisconnectsBy
<1>8. CASE CreateSubscription
  BY <1>8, CreatesSubscription
<1>9. CASE ServerReceives
  <2>0. UNCHANGED faults
    BY <1>9 DEF ServerReceives
  <2>1. CASE ServeFind
    BY <2>0, <2>1, ServesFind
  <2>2. CASE ServeEndpoints
    BY <2>0, <2>2, ServesEndpoints
  <2>3. CASE ServeCreate
    BY <2>0, <2>3, ServesCreate
  <2>4. CASE ServeActivate
    BY <2>0, <2>4, ServesActivate
  <2>5. CASE ServeCheck
    BY <2>0, <2>5, ServesCheck
  <2>6. CASE ServePublish
    BY <2>0, <2>6, ServesPublish
  <2>7. CASE ServeCreateSubscription
    BY <2>0, <2>7, ServesCreateSubscription
  <2>8. CASE ServeDeleteSubscription
    BY <2>0, <2>8, ServesDeleteSubscription
  <2>9. CASE ServeCloseSession
    BY <2>0, <2>9, ServesCloseSession
  <2>10. CASE ServeCloseChannel
    BY <2>0, <2>10, ServesCloseChannel
  <2> QED
    BY <1>9, <2>1, <2>2, <2>3, <2>4, <2>5, <2>6, <2>7, <2>8, <2>9, <2>10 DEF ServerReceives
<1>10. CASE SessionEnds
  BY <1>10, SessionEndsBy
<1>11. CASE Break
  BY <1>11, Breaks
<1>12. ASSUME NEW s \in Sub, DeleteSubscription(s) PROVE IInv'
  BY <1>12, DeletesSubscription
<1>13. ASSUME NEW s \in Sub, NewData(s) PROVE IInv'
  BY <1>13, HasNewData
<1>14. ASSUME NEW s \in Sub, PublishNotification(s) PROVE IInv'
  BY <1>14, PublishesNotification
<1>15. ASSUME NEW s \in Sub, KeepAlive(s) PROVE IInv'
  BY <1>15, KeepsAlive
<1>16. ASSUME NEW s \in Sub, Expire(s) PROVE IInv'
  BY <1>16, Expires
<1>17. CASE UNCHANGED vars
  BY <1>17 DEF IInv, vars
<1> QED
  BY <1>1, <1>2, <1>3, <1>4, <1>5, <1>6, <1>7, <1>8, <1>9, <1>10, <1>11, <1>12, <1>13, <1>14,
     <1>15, <1>16, <1>17 DEF Next

\* The lists of the client, the connection and the notifications agree with each
\* other and with the server in every state.
THEOREM ClientInvariance == Spec => []IInv
BY InvInit, InvNext, PTL DEF Spec

-----------------------------------------------------------------------------
(* The theorems.                                                             *)

\* The numbers of the elements of a list, in their order.
LEMMA IdsInOrder ==
  ASSUME NEW S, NEW s \in Seq(S), \A x \in S : x.id \in PosNat, IsInjective(s), Unique(ToSet(s))
  PROVE  LET w == [i \in DOMAIN s |-> s[i].id]
         IN  /\ w \in Seq(PosNat) /\ IsInjective(w)
             /\ \A k : k \in ToSet(w) <=> \E x \in ToSet(s) : x.id = k
<1> DEFINE w == [i \in DOMAIN s |-> s[i].id]
<1>1. /\ DOMAIN s = 1..Len(s) /\ Len(s) \in Nat /\ \A i \in 1..Len(s) : s[i] \in S
      /\ \A i, j \in 1..Len(s) : s[i] = s[j] => i = j
      /\ \A x : x \in ToSet(s) <=> \E i \in 1..Len(s) : s[i] = x
  BY LenProperties, ElementOfSeq, ToSetFacts
<1>2. w \in Seq(PosNat) /\ Len(w) = Len(s) /\ \A i \in 1..Len(s) : w[i] = s[i].id
  <2>1. w \in [1..Len(s) -> PosNat]
    BY <1>1
  <2> QED
    BY <1>1, <2>1
<1> HIDE DEF w
<1>3. /\ IsInjective(w) <=> \A i, j \in 1..Len(w) : w[i] = w[j] => i = j
      /\ \A x : x \in ToSet(w) <=> \E i \in 1..Len(w) : w[i] = x
  BY <1>2, ToSetFacts
<1>4. IsInjective(w)
  BY <1>1, <1>2, <1>3 DEF Unique
<1>5. \A k : k \in ToSet(w) <=> \E x \in ToSet(s) : x.id = k
  BY <1>1, <1>2, <1>3
<1> QED
  BY <1>2, <1>4, <1>5 DEF w

\* How often a number occurs in a list of messages.
LEMMA Occurrences ==
  ASSUME NEW S, NEW s \in Seq(S), IsInjective(s), Unique(ToSet(s)), NEW id
  PROVE  Cardinality({i \in DOMAIN s : s[i].id = id})
           = IF \E x \in ToSet(s) : x.id = id THEN 1 ELSE 0
<1> DEFINE P == {i \in DOMAIN s : s[i].id = id}
<1>1. /\ DOMAIN s = 1..Len(s)
      /\ \A i, j \in 1..Len(s) : s[i] = s[j] => i = j
      /\ \A x : x \in ToSet(s) <=> \E i \in 1..Len(s) : s[i] = x
  BY LenProperties, ToSetFacts
<1>2. ASSUME NEW x \in ToSet(s), x.id = id PROVE Cardinality(P) = 1
  <2>1. PICK i \in 1..Len(s) : s[i] = x
    BY <1>1
  <2>2. P = {i}
    BY <1>1, <1>2, <2>1 DEF Unique
  <2> QED
    BY <2>2, FS_Singleton
<1>3. ASSUME ~\E x \in ToSet(s) : x.id = id PROVE Cardinality(P) = 0
  <2>1. P = {}
    BY <1>1, <1>3
  <2> QED
    BY <2>1, FS_EmptySet
<1> QED
  BY <1>2, <1>3, Zenon

\* How often a number occurs in a list of numbers.
LEMMA ParkedOccurrences ==
  ASSUME NEW S, NEW s \in Seq(S), IsInjective(s), NEW id
  PROVE  Cardinality({i \in DOMAIN s : s[i] = id}) = IF id \in ToSet(s) THEN 1 ELSE 0
<1> DEFINE P == {i \in DOMAIN s : s[i] = id}
<1>1. /\ DOMAIN s = 1..Len(s)
      /\ \A i, j \in 1..Len(s) : s[i] = s[j] => i = j
      /\ id \in ToSet(s) <=> \E i \in 1..Len(s) : s[i] = id
  BY LenProperties, ToSetFacts
<1>2. ASSUME id \in ToSet(s) PROVE Cardinality(P) = 1
  <2>1. PICK i \in 1..Len(s) : s[i] = id
    BY <1>1, <1>2
  <2>2. P = {i}
    BY <1>1, <2>1
  <2> QED
    BY <2>2, FS_Singleton
<1>3. ASSUME id \notin ToSet(s) PROVE Cardinality(P) = 0
  <2>1. P = {}
    BY <1>1, <1>3
  <2> QED
    BY <2>1, FS_EmptySet
<1> QED
  BY <1>2, <1>3, Zenon

\* A session is active only on an open channel, only an active one is taken up
\* again, no call outlives its channel, and no requestId is used twice.
THEOREM ClientAlwaysTyped == Spec => []ClientTypeOK
<1>1. IInv => ClientTypeOK
  <2> SUFFICES ASSUME IInv PROVE ClientTypeOK
    OBVIOUS
  <2>1. PICK c : c = client
    OBVIOUS
  <2>2. PICK srv : srv = server
    OBVIOUS
  <2>3. /\ c \in ClientRecord /\ Listed(c) /\ LinkInv(c, srv) /\ SessionInv(c) /\ CountInv(c)
        /\ ServerInv(srv) /\ faults \in 0..MaxFaults
        /\ (c.channel # "OPEN" => c.waiting = <<>>)
    BY <2>1, <2>2 DEF IInv, Fine, Weak, Core
  <2>4. c.calls \in Seq(Call) /\ c.waiting \in Seq(Waiting)
    BY <2>3 DEF ClientRecord
  <2>5. c.outstanding \in Nat
    <3>1. IsFiniteSet(Published(Calls(c)))
      BY <2>3, <2>4, LengthIsCardinality, FS_Subset DEF Listed, Published, Calls
    <3>2. Cardinality(Published(Calls(c))) \in Nat
      BY <3>1, FS_CardinalityType
    <3>3. c.outstanding \in Int /\ Cardinality(Published(Calls(c))) <= c.outstanding
      BY <2>3, CountTypes DEF CountInv
    <3> QED
      BY <3>2, <3>3
  <2>6. DOMAIN c.subs \subseteq Sub /\ srv.subs \subseteq Sub
    <3>1. c.subs \in Numbers /\ srv.subs \in SUBSET Sub
      BY <2>3 DEF ClientRecord, ServerInv, ServerRecord
    <3> QED
      BY <3>1 DEF Numbers
  <2>7. c.channel # "OPEN" =>
          /\ SessionRank[c.session] \in {0, SessionRank["CREATED"]}
          /\ c.calls = <<>> /\ c.waiting = <<>> /\ c.in = <<>>
    BY <2>3, SessionStates DEF SessionInv
  <2>8. (c.session = "CLOSED" => c.subs = NoSubs /\ c.acks = {}) /\ c.checking = Pending(c, "check")
    BY <2>3 DEF SessionInv, ClientRecord, Pending
  <2>9. PICK f : f = [i \in DOMAIN c.calls |-> c.calls[i].id]
    OBVIOUS
  <2>10. PICK g : g = [i \in DOMAIN c.waiting |-> c.waiting[i].id]
    OBVIOUS
  <2>11. /\ Unique(Calls(c)) /\ Unique(Waits(c))
         /\ \A x \in Calls(c), w \in Waits(c) : x.id # w.id
    BY <2>3 DEF LinkInv, Link
  <2>12. /\ f \in Seq(PosNat) /\ IsInjective(f)
         /\ \A k : k \in ToSet(f) <=> \E x \in Calls(c) : x.id = k
    <3>1. \A x \in Call : x.id \in PosNat
      BY DEF Call
    <3> QED
      BY <2>3, <2>4, <2>9, <2>11, <3>1, IdsInOrder DEF Calls, Listed
  <2>13. /\ g \in Seq(PosNat) /\ IsInjective(g)
         /\ \A k : k \in ToSet(g) <=> \E x \in Waits(c) : x.id = k
    <3>1. \A x \in Waiting : x.id \in PosNat
      BY DEF Waiting
    <3> QED
      BY <2>3, <2>4, <2>10, <2>11, <3>1, IdsInOrder DEF Waits, Listed
  <2>14. IsInjective(f \o g)
    <3>1. ToSet(f) \cap ToSet(g) = {}
      BY <2>11, <2>12, <2>13
    <3> QED
      BY <2>12, <2>13, <3>1, JoinFacts
  <2>15. LET ids == [i \in DOMAIN c.calls |-> c.calls[i].id]
                     \o [i \in DOMAIN c.waiting |-> c.waiting[i].id]
         IN \A i, j \in DOMAIN ids : ids[i] = ids[j] => i = j
    BY <2>9, <2>10, <2>14 DEF IsInjective
  <2>16. c.channel \in {"CLOSED", "OPENING", "OPEN"} /\ c.session \in DOMAIN SessionRank
         /\ c.limit \in 1..Wanted
    BY <2>3 DEF ClientRecord
  <2>17. /\ client.channel # "OPEN" =>
               /\ SessionRank[client.session] \in {0, SessionRank["CREATED"]}
               /\ client.calls = <<>> /\ client.waiting = <<>> /\ client.in = <<>>
         /\ client.session = "CLOSED" => client.subs = NoSubs /\ client.acks = {}
         /\ client.checking = Pending(client, "check")
    BY <2>1, <2>7, <2>8
  <2>18. /\ client.channel \in {"CLOSED", "OPENING", "OPEN"}
         /\ client.session \in DOMAIN SessionRank
         /\ client.outstanding \in Nat /\ client.limit \in 1..Wanted
         /\ DOMAIN client.subs \subseteq Sub /\ server.subs \subseteq Sub /\ faults \in 0..MaxFaults
    BY <2>1, <2>2, <2>3, <2>5, <2>6, <2>16
  <2>19. LET ids == [i \in DOMAIN client.calls |-> client.calls[i].id]
                     \o [i \in DOMAIN client.waiting |-> client.waiting[i].id]
         IN \A i, j \in DOMAIN ids : ids[i] = ids[j] => i = j
    BY <2>1, <2>15
  <2> QED
    BY <2>17, <2>18, <2>19, Zenon DEF ClientTypeOK
<1> QED
  BY <1>1, ClientInvariance, PTL

\* Every notification message has been processed by the client or can still be
\* republished, and the client was told of every message it did not get.
THEOREM NothingEverForgotten == Spec => []NothingForgotten
<1>1. IInv => NothingForgotten
  BY DEF IInv, Fine, Weak, Core, NotesInv, Kept, Noted, NothingForgotten
<1> QED
  BY <1>1, ClientInvariance, PTL

\* When a lost connection shows in reading and not in writing, the counter of
\* the publish requests is their number, and every call has its request or its
\* response under way, exactly once, or is parked at the server.
THEOREM CallsAlwaysAccounted == ASSUME ~SendMayFail PROVE Spec => []CallsAccounted
<1>1. IInv => CallsAccounted
  <2> SUFFICES ASSUME IInv PROVE CallsAccounted
    OBVIOUS
  <2>1. PICK c : c = client
    OBVIOUS
  <2>2. PICK srv : srv = server
    OBVIOUS
  <2>3. /\ c \in ClientRecord /\ Listed(c) /\ LinkInv(c, srv) /\ CountInv(c)
        /\ ServerInv(srv) /\ (c.channel = "OPEN" => OpenPart(c, srv))
    BY <2>1, <2>2 DEF IInv, Fine, Weak, Core
  <2>4. /\ c.outstanding = Cardinality(Publishing(c)) /\ c.outstanding <= c.limit
    BY <2>3 DEF CountInv, Published, Publishing, Calls
  <2>5. Min({Wanted, MaxParked}) <= c.limit
    <3>1. {Wanted, MaxParked} \in SUBSET Nat /\ {Wanted, MaxParked} # {}
      BY BoundsAssumption
    <3>2. /\ Min({Wanted, MaxParked}) \in Nat /\ Wanted \in Nat /\ MaxParked \in Nat
          /\ Min({Wanted, MaxParked}) <= Wanted /\ Min({Wanted, MaxParked}) <= MaxParked
      BY <3>1, MinFacts
    <3>3. c.limit \in Nat /\ (Wanted <= c.limit \/ MaxParked <= c.limit)
      BY <2>3, CountTypes DEF CountInv
    <3> QED
      BY <3>2, <3>3
  <2>6. ASSUME c.channel = "OPEN", srv.channel,
               NEW id \in Ids(c.calls) \union Ids(c.waiting)
        PROVE  Cardinality({i \in DOMAIN c.out : c.out[i].id = id})
               + Cardinality({i \in DOMAIN c.in : c.in[i].id = id})
               + Cardinality({i \in DOMAIN srv.parked : srv.parked[i] = id}) = 1
    <3>1. /\ c.calls \in Seq(Call) /\ c.waiting \in Seq(Waiting) /\ c.in \in Seq(ResponseMsg)
          /\ c.out \in Seq(RequestMsg) /\ srv.parked \in Seq(PosNat) /\ IsInjective(srv.parked)
      BY <2>3 DEF ClientRecord, ServerInv, ServerRecord
    <3>2. Link(Calls(c), Waits(c), In(c), Out(c), Parked(srv))
      BY <2>3 DEF LinkInv
    <3>3. Asked(Calls(c), Waits(c), In(c), Out(c), Parked(srv))
      BY <2>3, <2>6 DEF OpenPart, AskedInv
    <3>4. PICK x \in Calls(c) \cup Waits(c) : x.id = id
      BY <2>6 DEF Ids, Calls, Waits, ToSet
    <3>5. id \in Parked(srv) \/ \E y \in In(c) \cup Out(c) : y.id = id
      BY <3>3, <3>4 DEF Asked
    <3>6. /\ \A m \in In(c) : m.id \notin Parked(srv) /\ \A r \in Out(c) : r.id # m.id
          /\ \A r \in Out(c) : r.id \notin Parked(srv)
      BY <3>2 DEF Link
    <3>7. Cardinality({i \in DOMAIN c.out : c.out[i].id = id})
            = IF \E y \in Out(c) : y.id = id THEN 1 ELSE 0
      <4>1. IsInjective(c.out) /\ Unique(ToSet(c.out)) /\ Out(c) = ToSet(c.out)
        BY <2>3, <3>2 DEF Listed, Link, Out
      <4> QED
        BY <3>1, <4>1, Occurrences
    <3>8. Cardinality({i \in DOMAIN c.in : c.in[i].id = id})
            = IF \E y \in In(c) : y.id = id THEN 1 ELSE 0
      <4>1. IsInjective(c.in) /\ Unique(ToSet(c.in)) /\ In(c) = ToSet(c.in)
        BY <2>3, <3>2 DEF Listed, Link, In
      <4> QED
        BY <3>1, <4>1, Occurrences
    <3>9. Cardinality({i \in DOMAIN srv.parked : srv.parked[i] = id})
            = IF id \in Parked(srv) THEN 1 ELSE 0
      BY <3>1, ParkedOccurrences DEF Parked
    <3>10. CASE id \in Parked(srv)
      BY <3>6, <3>7, <3>8, <3>9, <3>10
    <3>11. CASE \E y \in In(c) : y.id = id
      BY <3>6, <3>7, <3>8, <3>9, <3>11
    <3>12. CASE \E y \in Out(c) : y.id = id
      BY <3>6, <3>7, <3>8, <3>9, <3>12
    <3> QED
      BY <3>5, <3>10, <3>11, <3>12
  <2> QED
    BY <2>1, <2>2, <2>4, <2>5, <2>6 DEF CallsAccounted
<1> QED
  BY <1>1, ClientInvariance, PTL
=============================================================================
