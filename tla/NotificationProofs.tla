------------------------- MODULE NotificationProofs -------------------------
(***************************************************************************)
(* Proofs about the notification queues of module NotificationQueue, for   *)
(* any MonitoredItems, links, modes, queue settings and any number of      *)
(* notifications.                                                          *)
(*                                                                         *)
(* The argument is about sets wherever it can be: what an item holds, and  *)
(* which of that is in the queue of the subscription.  The two sequences   *)
(* are only compared through the order of their notifications (Ordered).   *)
(* Moved names what every handler that touches the queues of an item m     *)
(* leaves behind; one lemma per such handler establishes it, and the parts *)
(* of the inductive invariant follow from it.                              *)
(***************************************************************************)
EXTENDS NotificationProperties, ListProofs

Holds(m) == ToSet(queue[m])
Subscribed == ToSet(notificationQueue)

OfKind(k) == {x \in Notification : Kind(x.mon) = k}

\* An overflow event comes just before the notification it was put before.
Key(x) == 2 * x.n - (IF x.over THEN 1 ELSE 0)

\* The notifications of m are in the list in the order they were produced.
Ordered(list, m) ==
    \A i, j \in 1..Len(list) :
        i < j /\ list[i].mon = m /\ list[j].mon = m => Key(list[i]) < Key(list[j])

\* Can m be triggered? An event item that is triggered and overflows while it is
\* sampling puts its overflow event at the end of the subscription's queue.
Target(m) == \E k \in Mon : <<k, m>> \in Links
Orderly(m) == m \notin EventMon \/ mode[m] = "reporting" \/ ~Target(m)

-----------------------------------------------------------------------------
(* The inductive invariant.                                                *)

Variables ==
    /\ mode \in [Mon -> AllModes \cup {"none", "deleted"}]
    /\ params \in [Mon -> Settings]
    /\ links \in [Mon -> Seq(Mon)]
    /\ triggered \in [Mon -> BOOLEAN]
    /\ made \in 0..MaxNotifications
    /\ call \in Calls
    /\ sent \in [Mon -> 0..made]
    /\ untold \subseteq Registered

Queues ==
    /\ queue \in [Mon -> Seq(Notification)]
    /\ notificationQueue \in Seq(Notification)
    /\ flagged \subseteq Notification

\* The call in progress is for an item that exists, and has something to do it to.
CallInv ==
    /\ call # Idle => call.mon \in Registered
    /\ call.op = "sample" => call.mon \notin EventMon
    /\ call.op = "trigger" => call.link \in 1..Len(links[call.mon])
    /\ call.op = "enqueue" => queue[call.mon] # <<>>
    /\ (call.op \in {"enqueue", "modify"} /\ call.reporting) => queue[call.mon] # <<>>

LinksInv ==
    \A m \in Mon :
        /\ \A t \in ToSet(links[m]) : <<m, t>> \in Links
        /\ triggered[m] => Target(m)

\* The newest of some notifications is not an overflow event.
Topped(S) == \A x \in S : x.over => \E y \in S : ~y.over /\ x.n <= y.n

QueueInv ==
    \A m \in Mon :
        /\ Ordered(queue[m], m)
        /\ \A x \in Holds(m) : x.mon = m /\ x.n <= made /\ (x.over => m \in EventMon)
        /\ Topped(Holds(m))
        /\ m \notin Registered => Holds(m) = {}

SubscribedInv ==
    /\ IsInjective(notificationQueue)
    /\ \A x \in Subscribed : x \in Holds(x.mon)

OrderInv == \A m \in Mon : Orderly(m) => Ordered(notificationQueue, m)

\* A reporting item has all its notifications in the subscription's queue; an
\* event item that is not triggered has all or none there.
WholeOf(m) ==
    /\ mode[m] = "reporting" => Holds(m) \subseteq Subscribed
    /\ m \in EventMon /\ ~Target(m) =>
          /\ mode[m] = "sampling" => Holds(m) \cap Subscribed = {}
          /\ Holds(m) \subseteq Subscribed \/ Holds(m) \cap Subscribed = {}
          /\ MakingSpace(m) /\ call.reporting => Holds(m) \subseteq Subscribed

NormalOnes(m) == {x \in Holds(m) : ~x.over}

SizeOf(m) == ~MakingSpace(m) => Cardinality(NormalOnes(m)) <= params[m].size

\* Is m the item whose settings are being modified?
Modifying(m) == call.op = "modify" /\ call.mon = m

BitsOf(m) ==
    m \notin EventMon /\ params[m].size = 1 /\ ~Modifying(m) => Holds(m) \cap flagged = {}

Sign(m) == \E x \in Holds(m) : x \in Subscribed /\ (x.over \/ x \in flagged)

\* A loss has a sign, or gets one at the end of the call that caused it.
ToldOf(m) ==
    m \in untold /\ mode[m] = "reporting" =>
        /\ Sign(m) \/ (MakingSpace(m) /\ call.reporting)
        /\ SignsLoss(m) \/ Modifying(m)

ItemOk(m) == WholeOf(m) /\ SizeOf(m) /\ BitsOf(m) /\ ToldOf(m)
ItemsInv == \A m \in Mon : ItemOk(m)

FlagInv == \A x \in flagged : x.n <= made /\ x.mon \notin EventMon

CountInv ==
    /\ counted \in [{"data", "event"} -> Int]
    /\ \A k \in {"data", "event"} : counted[k] = Cardinality(Subscribed \cap OfKind(k))

IInv ==
    /\ Variables
    /\ Queues
    /\ CallInv
    /\ LinksInv
    /\ QueueInv
    /\ SubscribedInv
    /\ OrderInv
    /\ ItemsInv
    /\ FlagInv
    /\ CountInv

-----------------------------------------------------------------------------
(* Notifications and their order.                                          *)

\* Keys order the notifications of an item by number, an overflow event before the
\* notification it was put before.
LEMMA KeyFacts ==
    ASSUME NEW x \in Notification, NEW y \in Notification
    PROVE  /\ Key(x) \in Int
           /\ Key(x) = Key(y) /\ x.mon = y.mon => x = y
           /\ ~x.over /\ ~y.over => (Key(x) < Key(y) <=> x.n < y.n)
           /\ ~x.over /\ y.over => (Key(x) < Key(y) <=> x.n < y.n)
           /\ x.over /\ ~y.over => (Key(x) < Key(y) <=> x.n <= y.n)
           /\ x.over /\ y.over => (Key(x) < Key(y) <=> x.n < y.n)
<1>1. x.n \in Int /\ y.n \in Int
    BY NotificationAssumption DEF Notification
<1>2. /\ x.over => Key(x) = 2 * x.n - 1
      /\ ~x.over => Key(x) = 2 * x.n
      /\ y.over => Key(y) = 2 * y.n - 1
      /\ ~y.over => Key(y) = 2 * y.n
    BY <1>1 DEF Key
<1>3. x.n = y.n /\ x.mon = y.mon /\ (x.over <=> y.over) => x = y
    BY DEF Notification
<1> DEFINE a == x.n
           b == y.n
           p == Key(x)
           q == Key(y)
<1>4. a \in Int /\ b \in Int
    BY <1>1
<1> HIDE DEF a, b
<1>5. CASE x.over /\ y.over
  <2>1. p = 2 * a - 1 /\ q = 2 * b - 1
    BY <1>2, <1>5 DEF a, b
  <2> HIDE DEF p, q
  <2>2. p \in Int /\ (p = q => a = b) /\ (p < q <=> a < b)
    BY <1>4, <2>1
  <2> QED
    BY <1>3, <1>5, <2>2 DEF a, b, p, q
<1>6. CASE x.over /\ ~y.over
  <2>1. p = 2 * a - 1 /\ q = 2 * b
    BY <1>2, <1>6 DEF a, b
  <2> HIDE DEF p, q
  <2>2. p \in Int /\ p # q /\ (p < q <=> a <= b)
    BY <1>4, <2>1
  <2> QED
    BY <1>6, <2>2 DEF a, b, p, q
<1>7. CASE ~x.over /\ y.over
  <2>1. p = 2 * a /\ q = 2 * b - 1
    BY <1>2, <1>7 DEF a, b
  <2> HIDE DEF p, q
  <2>2. p \in Int /\ p # q /\ (p < q <=> a < b)
    BY <1>4, <2>1
  <2> QED
    BY <1>7, <2>2 DEF a, b, p, q
<1>8. CASE ~x.over /\ ~y.over
  <2>1. p = 2 * a /\ q = 2 * b
    BY <1>2, <1>8 DEF a, b
  <2> HIDE DEF p, q
  <2>2. p \in Int /\ (p = q => a = b) /\ (p < q <=> a < b)
    BY <1>4, <2>1
  <2> QED
    BY <1>3, <1>8, <2>2 DEF a, b, p, q
<1> QED
    BY <1>5, <1>6, <1>7, <1>8

\* The elements of t are in the order they have in s.
SameOrder(t, s) ==
    \A i, j \in 1..Len(t) : i < j =>
        \E p, q \in 1..Len(s) : p < q /\ t[i] = s[p] /\ t[j] = s[q]

\* A list in the order of an ordered one is ordered.
LEMMA SameOrderOrdered ==
    ASSUME NEW s, NEW t, NEW m, SameOrder(t, s), Ordered(s, m)
    PROVE  Ordered(t, m)
BY DEF SameOrder, Ordered

\* A list of one item's notifications, in order: no duplicates, and positions
\* are ordered as keys are.
LEMMA OrderedFacts ==
    ASSUME NEW m, NEW s \in Seq(Notification), Ordered(s, m),
           \A x \in ToSet(s) : x.mon = m
    PROVE  /\ IsInjective(s)
           /\ \A i, j \in 1..Len(s) : i < j <=> Key(s[i]) < Key(s[j])
<1>1. \A i \in 1..Len(s) : s[i] \in Notification /\ s[i].mon = m
    BY ToSetFacts
<1>2. \A i \in 1..Len(s) : Key(s[i]) \in Int
    BY <1>1, KeyFacts
<1>3. \A i, j \in 1..Len(s) : i < j => Key(s[i]) < Key(s[j])
    BY <1>1 DEF Ordered
<1>4. ASSUME NEW i \in 1..Len(s), NEW j \in 1..Len(s), ~(i < j)
      PROVE  ~(Key(s[i]) < Key(s[j]))
  <2>1. i = j \/ j < i
    BY <1>4
  <2> QED
    BY <1>2, <1>3, <2>1
<1>5. ASSUME NEW i \in 1..Len(s), NEW j \in 1..Len(s), s[i] = s[j]
      PROVE  i = j
  <2>1. ~(i < j) /\ ~(j < i)
    BY <1>2, <1>3, <1>5
  <2> QED
    BY <2>1
<1> QED
    BY <1>3, <1>4, <1>5, ToSetFacts

\* The same for the places of two notifications of m in any list.
LEMMA PlaceFacts ==
    ASSUME NEW m, NEW s \in Seq(Notification), Ordered(s, m), IsInjective(s),
           NEW i \in 1..Len(s), NEW j \in 1..Len(s),
           s[i].mon = m, s[j].mon = m
    PROVE  i < j <=> Key(s[i]) < Key(s[j])
<1>1. Key(s[i]) \in Int /\ Key(s[j]) \in Int
  <2>1. s[i] \in Notification /\ s[j] \in Notification
    BY ToSetFacts
  <2> QED
    BY <2>1, KeyFacts
<1>2. /\ i < j => Key(s[i]) < Key(s[j])
      /\ j < i => Key(s[j]) < Key(s[i])
    BY DEF Ordered
<1>3. i < j \/ j < i \/ i = j
    OBVIOUS
<1> QED
    BY <1>1, <1>2, <1>3

\* In a list without duplicates an element has one position.
LEMMA IndexFacts ==
    ASSUME NEW S, NEW s \in Seq(S), IsInjective(s)
    PROVE  /\ \A i \in 1..Len(s) : IndexOf(s, s[i]) = i
           /\ \A x \in ToSet(s) : IndexOf(s, x) \in 1..Len(s) /\ s[IndexOf(s, x)] = x
<1>1. /\ \A i, j \in 1..Len(s) : s[i] = s[j] => i = j
      /\ \A x \in ToSet(s) : \E i \in 1..Len(s) : s[i] = x
      /\ DOMAIN s = 1..Len(s)
    BY ToSetFacts, LenProperties
<1>2. ASSUME NEW x \in ToSet(s) PROVE IndexOf(s, x) \in 1..Len(s) /\ s[IndexOf(s, x)] = x
    BY <1>1 DEF IndexOf
<1>3. ASSUME NEW i \in 1..Len(s) PROVE IndexOf(s, s[i]) = i
  <2>1. s[i] \in ToSet(s)
    BY ToSetFacts
  <2> QED
    BY <1>1, <1>2, <2>1
<1> QED
    BY <1>2, <1>3

\* A walk that removes elements keeps the order.
LEMMA ExcludingOrdered ==
    ASSUME NEW s \in Seq(Notification), NEW X, NEW m, Ordered(s, m)
    PROVE  Ordered(Excluding(s, X), m)
<1>1. SameOrder(Excluding(s, X), s)
    BY ExcludingFacts DEF SameOrder
<1> QED
    BY <1>1, SameOrderOrdered

\* So does the removal of one element.
LEMMA WithoutOrdered ==
    ASSUME NEW s \in Seq(Notification), IsInjective(s), NEW x \in ToSet(s)
    PROVE  SameOrder(Without(s, x), s)
<1> DEFINE k == IndexOf(s, x)
           w == Without(s, x)
<1>1. k \in 1..Len(s) /\ Len(s) \in Nat
    BY IndexFacts, LenProperties
<1>2. /\ Len(w) = Len(s) - 1
      /\ \A j \in 1..Len(s) - 1 : w[j] = IF j < k THEN s[j] ELSE s[j + 1]
    BY <1>1, RemoveAtFacts DEF Without
<1> HIDE DEF w, k
<1> SUFFICES ASSUME NEW i \in 1..Len(w), NEW j \in 1..Len(w), i < j
             PROVE  \E p, q \in 1..Len(s) : p < q /\ w[i] = s[p] /\ w[j] = s[q]
    BY DEF SameOrder, w
<1> DEFINE Old(n) == IF n < k THEN n ELSE n + 1
<1>3. /\ Old(i) \in 1..Len(s) /\ Old(j) \in 1..Len(s) /\ Old(i) < Old(j)
      /\ w[i] = s[Old(i)] /\ w[j] = s[Old(j)]
    BY <1>1, <1>2
<1> QED
    BY <1>3

\* And a newer notification at the end.
LEMMA AppendOrdered ==
    ASSUME NEW s \in Seq(Notification), NEW e \in Notification, NEW m,
           Ordered(s, m),
           e.mon = m => \A x \in ToSet(s) : x.mon = m => Key(x) < Key(e)
    PROVE  Ordered(Append(s, e), m)
<1> DEFINE w == Append(s, e)
<1>1. /\ Len(s) \in Nat
      /\ Len(w) = Len(s) + 1
      /\ \A j \in 1..Len(s) : w[j] = s[j] /\ s[j] \in ToSet(s)
      /\ w[Len(s) + 1] = e
    BY LenProperties, ToSetFacts
<1> HIDE DEF w
<1> SUFFICES ASSUME NEW i \in 1..Len(w), NEW j \in 1..Len(w), i < j,
                    w[i].mon = m, w[j].mon = m
             PROVE  Key(w[i]) < Key(w[j])
    BY DEF Ordered, w
<1>2. i \in 1..Len(s)
    BY <1>1
<1>3. CASE j \in 1..Len(s)
    BY <1>1, <1>2, <1>3 DEF Ordered
<1>4. CASE j = Len(s) + 1
    BY <1>1, <1>2, <1>4
<1> QED
    BY <1>1, <1>3, <1>4

\* e takes the place just before y.
LEMMA InsertOrdered ==
    ASSUME NEW s \in Seq(Notification), IsInjective(s), NEW y \in ToSet(s),
           NEW e \in Notification, e.mon = y.mon, NEW m, Ordered(s, m),
           e.mon = m => /\ Key(e) < Key(y)
                        /\ \A x \in ToSet(s) :
                              x.mon = m /\ Key(x) < Key(y) => Key(x) < Key(e)
    PROVE  Ordered(InsertBefore(s, e, y), m)
<1> DEFINE n == IndexOf(s, y)
           w == InsertBefore(s, e, y)
<1>1. n \in 1..Len(s) /\ s[n] = y /\ Len(s) \in Nat
    BY IndexFacts, LenProperties
<1>2. /\ Len(w) = Len(s) + 1
      /\ \A j \in 1..Len(s) + 1 :
            w[j] = IF j < n THEN s[j] ELSE IF j = n THEN e ELSE s[j - 1]
  <2>1. n \in 1..Len(s) + 1
    BY <1>1
  <2>2. w = InsertAt(s, n, e)
    BY DEF InsertBefore
  <2> HIDE DEF n, w
  <2>3. /\ Len(InsertAt(s, n, e)) = Len(s) + 1
        /\ \A j \in 1..Len(s) + 1 :
              InsertAt(s, n, e)[j] = IF j < n THEN s[j] ELSE IF j = n THEN e ELSE s[j - 1]
    BY <2>1, InsertAtFacts
  <2> QED
    BY <2>2, <2>3
<1>3. \A x \in ToSet(s) : Key(x) \in Int
    BY KeyFacts, ToSetFacts
<1>4. Key(e) \in Int /\ \A j \in 1..Len(s) : s[j] \in ToSet(s) /\ Key(s[j]) \in Int
    BY <1>3, KeyFacts, ToSetFacts
<1> HIDE DEF w, n
<1> SUFFICES ASSUME NEW i \in 1..Len(w), NEW j \in 1..Len(w), i < j,
                    w[i].mon = m, w[j].mon = m
             PROVE  Key(w[i]) < Key(w[j])
    BY DEF Ordered, w
<1>5. CASE j < n
    BY <1>1, <1>2, <1>5 DEF Ordered
<1>6. CASE j = n
  <2>1. i \in 1..Len(s) /\ i < n /\ w[i] = s[i] /\ w[j] = e
    BY <1>1, <1>2, <1>6
  <2>2. Key(s[i]) < Key(s[n])
    BY <1>1, <2>1 DEF Ordered
  <2> QED
    BY <1>1, <1>4, <2>1, <2>2
<1>7. CASE i = n
  <2>1. w[i] = e /\ j - 1 \in 1..Len(s) /\ w[j] = s[j - 1] /\ (j - 1 = n \/ n < j - 1)
    BY <1>1, <1>2, <1>7
  <2>2. Key(e) < Key(y)
    BY <2>1
  <2>3. CASE j - 1 = n
    BY <1>1, <2>1, <2>2, <2>3
  <2>4. CASE n < j - 1
    <3>1. Key(s[n]) < Key(s[j - 1])
      BY <1>1, <2>1, <2>4 DEF Ordered
    <3> QED
      BY <1>1, <1>4, <2>1, <2>2, <3>1
  <2> QED
    BY <2>1, <2>3, <2>4
<1>8. CASE i < n /\ n < j
  <2>1. i \in 1..Len(s) /\ j - 1 \in 1..Len(s) /\ i < j - 1 /\ w[i] = s[i] /\ w[j] = s[j - 1]
    BY <1>1, <1>2, <1>8
  <2> QED
    BY <2>1 DEF Ordered
<1>9. CASE n < i
  <2>1. i - 1 \in 1..Len(s) /\ j - 1 \in 1..Len(s) /\ i - 1 < j - 1
    BY <1>1, <1>2, <1>9
  <2>2. w[i] = s[i - 1] /\ w[j] = s[j - 1]
    BY <1>1, <1>2, <1>9
  <2> QED
    BY <2>1, <2>2 DEF Ordered
<1> QED
    BY <1>1, <1>2, <1>5, <1>6, <1>7, <1>8, <1>9

\* e takes over the place of d.
LEMMA ReplaceFacts ==
    ASSUME NEW s \in Seq(Notification), IsInjective(s), NEW d \in ToSet(s),
           NEW e \in Notification, e \notin ToSet(s), e.mon = d.mon
    PROVE  LET t == [s EXCEPT ![IndexOf(s, d)] = e]
           IN /\ t \in Seq(Notification)
              /\ IsInjective(t)
              /\ ToSet(t) = (ToSet(s) \ {d}) \cup {e}
              /\ \A m : /\ Ordered(s, m)
                        /\ e.mon = m => /\ Key(d) < Key(e)
                                        /\ \A x \in ToSet(s) :
                                              x.mon = m /\ Key(d) < Key(x) => Key(e) < Key(x)
                        => Ordered(t, m)
<1> DEFINE n == IndexOf(s, d)
           t == [s EXCEPT ![n] = e]
<1>1. n \in 1..Len(s) /\ s[n] = d /\ Len(s) \in Nat
    BY IndexFacts, LenProperties
<1> HIDE DEF n
<1>2. /\ t \in Seq(Notification)
      /\ Len(t) = Len(s)
      /\ \A j \in 1..Len(s) : t[j] = IF j = n THEN e ELSE s[j]
    BY <1>1, ExceptSeq
<1> HIDE DEF t
<1>3. /\ \A i, j \in 1..Len(s) : s[i] = s[j] => i = j
      /\ \A i \in 1..Len(s) : s[i] # e
    BY ToSetFacts
<1>4. IsInjective(t)
  <2>1. \A i, j \in 1..Len(t) : t[i] = t[j] => i = j
    BY <1>1, <1>2, <1>3
  <2> QED
    BY <1>2, <2>1, ToSetFacts
<1>5. ToSet(t) = (ToSet(s) \ {d}) \cup {e}
  <2>1. ASSUME NEW y PROVE y \in ToSet(t) <=> \E j \in 1..Len(t) : t[j] = y
    BY <1>2, ToSetFacts
  <2>2. ASSUME NEW y PROVE y \in ToSet(s) <=> \E j \in 1..Len(s) : s[j] = y
    BY ToSetFacts
  <2>3. ASSUME NEW y, y \in ToSet(t) PROVE y \in (ToSet(s) \ {d}) \cup {e}
    <3>1. PICK j \in 1..Len(t) : t[j] = y
      BY <2>1, <2>3
    <3>2. CASE j = n
      BY <1>1, <1>2, <3>1, <3>2
    <3>3. CASE j # n
      BY <1>1, <1>2, <1>3, <2>2, <3>1, <3>3
    <3> QED
      BY <3>2, <3>3
  <2>4. ASSUME NEW y, y \in ToSet(s), y # d PROVE y \in ToSet(t)
    <3>1. PICK j \in 1..Len(s) : s[j] = y
      BY <2>2, <2>4
    <3> QED
      BY <1>1, <1>2, <2>1, <2>4, <3>1
  <2>5. e \in ToSet(t)
    BY <1>1, <1>2, <2>1
  <2> QED
    BY <2>3, <2>4, <2>5
<1>6. ASSUME NEW m, Ordered(s, m),
             e.mon = m => /\ Key(d) < Key(e)
                          /\ \A x \in ToSet(s) :
                                x.mon = m /\ Key(d) < Key(x) => Key(e) < Key(x)
      PROVE  Ordered(t, m)
  <2> SUFFICES ASSUME NEW i \in 1..Len(s), NEW j \in 1..Len(s), i < j,
                      t[i].mon = m, t[j].mon = m
               PROVE  Key(t[i]) < Key(t[j])
    BY <1>2 DEF Ordered
  <2>0. /\ \A k \in 1..Len(s) : s[k] \in ToSet(s) /\ Key(s[k]) \in Int
        /\ Key(e) \in Int
    BY KeyFacts, ToSetFacts
  <2>1. CASE i # n /\ j # n
    BY <1>2, <1>6, <2>1 DEF Ordered
  <2>2. CASE i = n
    <3>1. t[i] = e /\ t[j] = s[j] /\ s[j].mon = m /\ d.mon = m /\ e.mon = m
      BY <1>1, <1>2, <2>2
    <3>2. Key(s[n]) < Key(s[j])
      BY <1>1, <1>6, <2>2, <3>1 DEF Ordered
    <3> QED
      BY <1>1, <1>6, <2>0, <3>1, <3>2
  <2>3. CASE j = n
    <3>1. t[j] = e /\ t[i] = s[i] /\ s[i].mon = m /\ d.mon = m /\ e.mon = m
      BY <1>1, <1>2, <2>3
    <3>2. Key(s[i]) < Key(s[n])
      BY <1>1, <1>6, <2>3, <3>1 DEF Ordered
    <3> QED
      BY <1>1, <1>6, <2>0, <3>1, <3>2
  <2> QED
    BY <2>1, <2>2, <2>3
<1>7. /\ t \in Seq(Notification)
      /\ IsInjective(t)
      /\ ToSet(t) = (ToSet(s) \ {d}) \cup {e}
      /\ \A m : /\ Ordered(s, m)
                /\ e.mon = m => /\ Key(d) < Key(e)
                                /\ \A x \in ToSet(s) :
                                      x.mon = m /\ Key(d) < Key(x) => Key(e) < Key(x)
                => Ordered(t, m)
    BY <1>2, <1>4, <1>5, <1>6
<1> QED
    BY <1>7 DEF t, n

\* Two lists without a common element.
LEMMA ConcatFacts ==
    ASSUME NEW s \in Seq(Notification), NEW t \in Seq(Notification),
           IsInjective(s), IsInjective(t), ToSet(s) \cap ToSet(t) = {}
    PROVE  /\ s \o t \in Seq(Notification)
           /\ IsInjective(s \o t)
           /\ ToSet(s \o t) = ToSet(s) \cup ToSet(t)
           /\ \A m : /\ Ordered(s, m)
                     /\ Ordered(t, m)
                     /\ \/ \A x \in ToSet(s) : x.mon # m
                        \/ \A x \in ToSet(t) : x.mon # m
                     => Ordered(s \o t, m)
<1> DEFINE w == s \o t
           a == Len(s)
           b == Len(t)
<1>1. /\ w \in Seq(Notification)
      /\ a \in Nat /\ b \in Nat
      /\ Len(w) = a + b
      /\ \A j \in 1..a + b : w[j] = IF j <= a THEN s[j] ELSE t[j - a]
    BY ConcatProperties, LenProperties
<1>2. /\ \A i \in 1..a : s[i] \in ToSet(s) /\ s[i] \notin ToSet(t)
      /\ \A i \in 1..b : t[i] \in ToSet(t) /\ t[i] \notin ToSet(s)
      /\ \A i, j \in 1..a : s[i] = s[j] => i = j
      /\ \A i, j \in 1..b : t[i] = t[j] => i = j
    BY ToSetFacts
<1>3. /\ \A x \in ToSet(s) : \E i \in 1..a : s[i] = x
      /\ \A x \in ToSet(t) : \E i \in 1..b : t[i] = x
    BY ToSetFacts
<1> HIDE DEF w, a, b
<1>4. ASSUME NEW j \in 1..a + b
      PROVE  \/ j \in 1..a /\ w[j] = s[j]
             \/ a < j /\ j - a \in 1..b /\ w[j] = t[j - a]
    BY <1>1
<1>5. /\ \A i \in 1..a : i \in 1..a + b /\ w[i] = s[i]
      /\ \A i \in 1..b : a + i \in 1..a + b /\ w[a + i] = t[i]
  <2>1. ASSUME NEW i \in 1..b PROVE a + i \in 1..a + b /\ w[a + i] = t[i]
    <3>1. a + i \in 1..a + b /\ ~(a + i <= a) /\ (a + i) - a = i
      BY <1>1
    <3> QED
      BY <1>1, <3>1
  <2> QED
    BY <1>1, <2>1
<1>6. IsInjective(w)
  <2>1. ASSUME NEW i \in 1..a + b, NEW j \in 1..a + b, w[i] = w[j] PROVE i = j
    <3>1. CASE i \in 1..a /\ w[i] = s[i] /\ j \in 1..a /\ w[j] = s[j]
      BY <1>2, <2>1, <3>1
    <3>2. CASE i - a \in 1..b /\ w[i] = t[i - a] /\ j - a \in 1..b /\ w[j] = t[j - a]
      <4>1. i - a = j - a
        BY <1>2, <2>1, <3>2
      <4> QED
        BY <1>1, <4>1
    <3> QED
      BY <1>2, <1>4, <2>1, <3>1, <3>2
  <2> QED
    BY <1>1, <2>1, ToSetFacts
<1>7. ToSet(w) = ToSet(s) \cup ToSet(t)
  <2>1. ASSUME NEW y PROVE y \in ToSet(w) <=> \E j \in 1..a + b : w[j] = y
    BY <1>1, ToSetFacts
  <2>2. ASSUME NEW y, y \in ToSet(w) PROVE y \in ToSet(s) \cup ToSet(t)
    BY <1>2, <1>4, <2>1, <2>2
  <2>3. ASSUME NEW y \in ToSet(s) PROVE y \in ToSet(w)
    BY <1>3, <1>5, <2>1
  <2>4. ASSUME NEW y \in ToSet(t) PROVE y \in ToSet(w)
    BY <1>3, <1>5, <2>1
  <2> QED
    BY <2>2, <2>3, <2>4
<1>8. ASSUME NEW m, Ordered(s, m), Ordered(t, m),
             \/ \A x \in ToSet(s) : x.mon # m
             \/ \A x \in ToSet(t) : x.mon # m
      PROVE  Ordered(w, m)
  <2> SUFFICES ASSUME NEW i \in 1..a + b, NEW j \in 1..a + b, i < j,
                      w[i].mon = m, w[j].mon = m
               PROVE  Key(w[i]) < Key(w[j])
    BY <1>1 DEF Ordered
  <2>1. CASE i \in 1..a /\ w[i] = s[i] /\ j \in 1..a /\ w[j] = s[j]
    BY <1>8, <2>1 DEF Ordered, a
  <2>2. CASE a < i /\ i - a \in 1..b /\ w[i] = t[i - a]
             /\ a < j /\ j - a \in 1..b /\ w[j] = t[j - a]
    <3>1. i - a < j - a
      BY <1>1
    <3> QED
      BY <1>8, <2>2, <3>1 DEF Ordered, b
  <2>3. CASE i \in 1..a /\ w[i] = s[i] /\ j - a \in 1..b /\ w[j] = t[j - a]
    BY <1>2, <1>8, <2>3
  <2>4. ~(a < i /\ j \in 1..a)
    BY <1>1
  <2> QED
    BY <1>4, <2>1, <2>2, <2>3, <2>4
<1> QED
    BY <1>1, <1>6, <1>7, <1>8 DEF w

\* What is before x in its item, and x.
LEMMA OvertakenFacts ==
    ASSUME NEW m, NEW s \in Seq(Notification), Ordered(s, m),
           \A y \in ToSet(s) : y.mon = m, NEW x \in ToSet(s)
    PROVE  ToSet(SubSeq(s, 1, IndexOf(s, x))) = {y \in ToSet(s) : Key(y) <= Key(x)}
<1> DEFINE n == IndexOf(s, x)
           w == SubSeq(s, 1, n)
<1>1. IsInjective(s) /\ \A i, j \in 1..Len(s) : i < j <=> Key(s[i]) < Key(s[j])
    BY OrderedFacts
<1>2. n \in 1..Len(s) /\ s[n] = x /\ Len(s) \in Nat
    BY <1>1, IndexFacts, LenProperties
<1> HIDE DEF n
<1>3. \A i \in 1..Len(s) : s[i] \in Notification /\ Key(s[i]) \in Int
    BY KeyFacts, ToSetFacts
<1>4. /\ w \in Seq(Notification)
      /\ Len(w) = n
      /\ \A i \in 1..n : w[i] = s[i]
    BY <1>2, <1>3, SubSeqProperties
<1> HIDE DEF w
<1>5. \A i \in 1..Len(s) : i <= n <=> Key(s[i]) <= Key(x)
  <2> SUFFICES ASSUME NEW i \in 1..Len(s) PROVE i <= n <=> Key(s[i]) <= Key(x)
    OBVIOUS
  <2>1. (i <= n <=> ~(n < i)) /\ (Key(s[i]) <= Key(x) <=> ~(Key(x) < Key(s[i])))
    BY <1>2, <1>3
  <2> QED
    BY <1>1, <1>2, <2>1
<1>6. ASSUME NEW y PROVE y \in ToSet(w) <=> \E i \in 1..n : w[i] = y
    BY <1>4, ToSetFacts
<1>7. ASSUME NEW y PROVE y \in ToSet(s) <=> \E i \in 1..Len(s) : s[i] = y
    BY ToSetFacts
<1>8. \A i \in 1..n : i \in 1..Len(s) /\ i <= n
    BY <1>2
<1>9. ASSUME NEW y, y \in ToSet(w) PROVE y \in ToSet(s) /\ Key(y) <= Key(x)
    BY <1>4, <1>5, <1>6, <1>7, <1>8, <1>9
<1>10. ASSUME NEW y \in ToSet(s), Key(y) <= Key(x) PROVE y \in ToSet(w)
  <2>1. PICK i \in 1..Len(s) : s[i] = y
    BY <1>7
  <2>2. i \in 1..n
    BY <1>2, <1>5, <1>10, <2>1
  <2> QED
    BY <1>4, <1>6, <2>1, <2>2
<1>11. ToSet(w) = {y \in ToSet(s) : Key(y) <= Key(x)}
    BY <1>9, <1>10
<1> QED
    BY <1>11 DEF w, n

-----------------------------------------------------------------------------
(* What the invariant says of the lists.                                   *)

\* What the invariant says of the queue of a MonitoredItem.
LEMMA HeldFacts ==
    ASSUME IInv, NEW m \in Mon
    PROVE  /\ queue[m] \in Seq(Notification)
           /\ Ordered(queue[m], m)
           /\ \A x \in ToSet(queue[m]) :
                 /\ x \in Notification
                 /\ x.mon = m
                 /\ x.n <= made
                 /\ x.over => m \in EventMon
           /\ IsInjective(queue[m])
           /\ Topped(ToSet(queue[m]))
           /\ m \notin Registered => ToSet(queue[m]) = {}
           /\ IsFiniteSet(ToSet(queue[m]))
<1>1. queue[m] \in Seq(Notification)
    BY DEF IInv, Queues
<1>2. /\ Ordered(queue[m], m)
      /\ \A x \in ToSet(queue[m]) : x.mon = m /\ x.n <= made /\ (x.over => m \in EventMon)
      /\ Topped(ToSet(queue[m]))
      /\ m \notin Registered => ToSet(queue[m]) = {}
    BY DEF IInv, QueueInv, Holds
<1>3. ToSet(queue[m]) \subseteq Notification
    BY <1>1, ToSetFacts
<1>4. IsInjective(queue[m])
    BY <1>1, <1>2, OrderedFacts
<1>5. IsFiniteSet(ToSet(queue[m]))
    BY <1>1, <1>4, LengthIsCardinality
<1> QED
    BY <1>1, <1>2, <1>3, <1>4, <1>5

\* What it says of the queue of the subscription.
LEMMA SubscribedFacts ==
    ASSUME IInv
    PROVE  /\ notificationQueue \in Seq(Notification)
           /\ IsInjective(notificationQueue)
           /\ IsFiniteSet(ToSet(notificationQueue))
           /\ \A x \in ToSet(notificationQueue) :
                 x \in Notification /\ x.mon \in Mon /\ x \in ToSet(queue[x.mon])
           /\ \A m \in Mon : Orderly(m) => Ordered(notificationQueue, m)
<1>1. notificationQueue \in Seq(Notification) /\ IsInjective(notificationQueue)
    BY DEF IInv, Queues, SubscribedInv
<1>2. ToSet(notificationQueue) \subseteq Notification
    BY <1>1, ToSetFacts
<1>3. \A x \in ToSet(notificationQueue) : x.mon \in Mon /\ x \in ToSet(queue[x.mon])
    BY <1>2 DEF IInv, SubscribedInv, Subscribed, Holds, Notification
<1>4. IsFiniteSet(ToSet(notificationQueue))
    BY <1>1, LengthIsCardinality
<1>5. \A m \in Mon : Orderly(m) => Ordered(notificationQueue, m)
    BY DEF IInv, OrderInv
<1> QED
    BY <1>1, <1>2, <1>3, <1>4, <1>5

\* The newest notification of an item.
LEMMA LastFacts ==
    ASSUME IInv, NEW m \in Mon, queue[m] # <<>>
    PROVE  /\ Last(queue[m]) \in ToSet(queue[m])
           /\ Last(queue[m]) = queue[m][Len(queue[m])]
           /\ Len(queue[m]) \in 1..Len(queue[m])
           /\ ~Last(queue[m]).over
           /\ \A x \in ToSet(queue[m]) : x # Last(queue[m]) => Key(x) < Key(Last(queue[m]))
<1> DEFINE q == queue[m]
           y == q[Len(q)]
<1>1. /\ q \in Seq(Notification) /\ Ordered(q, m) /\ Topped(ToSet(q))
      /\ \A x \in ToSet(q) : x \in Notification /\ x.mon = m
    BY HeldFacts
<1>2. q # <<>> /\ Last(q) = y
    BY DEF Last
<1> HIDE DEF q
<1>3. Len(q) \in 1..Len(q)
    BY <1>1, <1>2, LenProperties, EmptySeq
<1>4. y \in ToSet(q)
    BY <1>1, <1>3, ToSetFacts
<1>5. ASSUME NEW x \in ToSet(q), x # y PROVE Key(x) < Key(y)
  <2>1. PICK i \in 1..Len(q) : q[i] = x
    BY <1>1, ToSetFacts
  <2>2. i < Len(q)
    BY <1>3, <1>5, <2>1
  <2>3. q[i].mon = m /\ q[Len(q)].mon = m
    BY <1>1, <1>4, <2>1
  <2> QED
    BY <1>1, <1>3, <2>1, <2>2, <2>3 DEF Ordered
<1>6. ~y.over
  <2> SUFFICES ASSUME y.over PROVE FALSE
    OBVIOUS
  <2>1. PICK x \in ToSet(q) : ~x.over /\ y.n <= x.n
    BY <1>1, <1>4 DEF Topped
  <2>2. x # y /\ x \in Notification /\ y \in Notification
    BY <1>1, <1>4, <2>1
  <2>3. Key(x) < Key(y)
    BY <1>5, <2>1, <2>2
  <2>5. y.over /\ ~x.over => (Key(y) < Key(x) <=> y.n <= x.n)
    BY <2>2, KeyFacts
  <2>4. Key(x) \in Int /\ Key(y) \in Int
    BY <2>2, KeyFacts
  <2> QED
    BY <2>1, <2>3, <2>4, <2>5
<1> HIDE DEF y
<1>7. /\ y \in ToSet(q) /\ Len(q) \in 1..Len(q) /\ ~y.over
      /\ \A x \in ToSet(q) : x # y => Key(x) < Key(y)
    BY <1>3, <1>4, <1>5, <1>6
<1> QED
    BY <1>2, <1>7 DEF q, y

\* The positions and the notifications that are no overflow events.
LEMMA NormalFacts ==
    ASSUME IInv, NEW m \in Mon
    PROVE  /\ Normal(m) \in SUBSET (1..Len(queue[m]))
           /\ IsFiniteSet(Normal(m))
           /\ IsFiniteSet(NormalOnes(m))
           /\ Cardinality(Normal(m)) = Cardinality(NormalOnes(m))
<1>1. queue[m] \in Seq(Notification) /\ IsInjective(queue[m]) /\ IsFiniteSet(ToSet(queue[m]))
    BY HeldFacts
<1>2. DOMAIN queue[m] = 1..Len(queue[m]) /\ Len(queue[m]) \in Nat
    BY <1>1, LenProperties
<1>3. Normal(m) \in SUBSET (1..Len(queue[m]))
    BY <1>2 DEF Normal
<1>4. IsFiniteSet(Normal(m))
  <2>1. IsFiniteSet(1..Len(queue[m]))
    BY <1>2, FS_Interval
  <2> QED
    BY <1>3, <2>1, FS_Subset
<1> DEFINE K == {x \in Notification : ~x.over}
<1>5. ToSet(queue[m]) \cap K = NormalOnes(m)
    BY HeldFacts DEF NormalOnes, Holds
<1>6. \A i \in 1..Len(queue[m]) : queue[m][i] \in Notification
    BY <1>1, ToSetFacts
<1>7. Normal(m) = {i \in DOMAIN queue[m] : queue[m][i] \in K}
    BY <1>2, <1>6 DEF Normal
<1> HIDE DEF K
<1>8. IsFiniteSet(ToSet(queue[m]) \cap K)
      /\ Cardinality({i \in DOMAIN queue[m] : queue[m][i] \in K}) = Cardinality(ToSet(queue[m]) \cap K)
    BY <1>1, CountFacts
<1> QED
    BY <1>3, <1>4, <1>5, <1>7, <1>8

\* There is room to be made: the victim has a successor.
LEMMA VictimFacts ==
    ASSUME IInv, NEW m \in Mon, TooMany(m)
    PROVE  /\ Victim(m) \in Normal(m)
           /\ Victim(m) \in 1..Len(queue[m])
           /\ Victim(m) < Len(queue[m])
           /\ Len(queue[m]) \in Nat
<1> DEFINE n == Len(queue[m])
           S == Normal(m)
<1>1. S \in SUBSET (1..n) /\ IsFiniteSet(S)
    BY NormalFacts
<1>2. n \in Nat
    BY HeldFacts, LenProperties
<1>3. params[m].size \in Nat /\ params[m].size > 0
  <2>1. params[m] \in Settings
    BY DEF IInv, Variables
  <2>2. params[m] \in [size : Nat \ {0}, discardOldest : BOOLEAN]
    BY <2>1, NotificationAssumption
  <2> QED
    BY <2>2
<1>4. Cardinality(S) \in Nat /\ Cardinality(S) > 1
    BY <1>1, <1>3, FS_CardinalityType DEF TooMany
<1>5. Victim(m) = IF params[m].discardOldest THEN Min(S) ELSE Max(S \ {n})
    BY DEF Victim
<1> HIDE DEF S, n
<1>6. S \ {n} # {}
  <2> SUFFICES ASSUME S \subseteq {n} PROVE FALSE
    OBVIOUS
  <2>1. Cardinality(S) <= Cardinality({n}) /\ Cardinality({n}) = 1
    BY FS_Singleton, FS_Subset
  <2> QED
    BY <1>4, <2>1
<1>7. PICK j \in S \ {n} : TRUE
    BY <1>6
<1>8. j \in 1..n /\ j < n
    BY <1>1, <1>2, <1>7
<1>9. CASE params[m].discardOldest
  <2>1. S \in SUBSET Nat /\ S # {}
    BY <1>1, <1>7
  <2>2. Min(S) \in S /\ Min(S) <= j
    BY <1>7, <2>1, MinFacts
  <2>3. Min(S) \in 1..n
    BY <1>1, <2>2
  <2> QED
    BY <1>2, <1>5, <1>8, <1>9, <2>2, <2>3 DEF S, n
<1>10. CASE ~params[m].discardOldest
  <2>1. S \ {n} \in SUBSET (1..n)
    BY <1>1
  <2>2. Max(S \ {n}) \in S \ {n}
    BY <1>2, <1>6, <2>1, MaxFacts
  <2>3. Max(S \ {n}) \in 1..n /\ Max(S \ {n}) # n
    BY <1>1, <2>2
  <2> QED
    BY <1>2, <1>5, <1>10, <2>2, <2>3 DEF S, n
<1> QED
    BY <1>9, <1>10

-----------------------------------------------------------------------------
(* The handlers that touch the queues of m.                                *)

\* What they leave behind.
Moved(m) ==
    /\ queue' \in [Mon -> Seq(Notification)]
    /\ \A k \in Mon : k # m => queue'[k] = queue[k]
    /\ Ordered(queue'[m], m)
    /\ notificationQueue' \in Seq(Notification)
    /\ IsInjective(notificationQueue')
    /\ \A x \in ToSet(notificationQueue') :
          IF x.mon = m THEN x \in ToSet(queue'[m]) ELSE x \in ToSet(notificationQueue)
    /\ \A x \in ToSet(notificationQueue) : x.mon # m => x \in ToSet(notificationQueue')
    /\ \A k \in Mon : k # m /\ Ordered(notificationQueue, k) => Ordered(notificationQueue', k)
    /\ Orderly(m)' => Ordered(notificationQueue', m)
    /\ counted' = Counted(m, Cardinality(ToSet(notificationQueue'))
                             - Cardinality(ToSet(notificationQueue)))

\* Some notifications of m are deleted from all queues.
LEMMA DeleteEffect ==
    ASSUME IInv, NEW m \in Mon, NEW X, NEW rest, Delete(m, X, rest),
           X \subseteq ToSet(queue[m]),
           rest \in Seq(Notification), Ordered(rest, m),
           ToSet(rest) = ToSet(queue[m]) \ X,
           Orderly(m)' => Orderly(m) \/ ToSet(rest) = {}
    PROVE  /\ Moved(m)
           /\ ToSet(queue'[m]) = ToSet(queue[m]) \ X
           /\ ToSet(notificationQueue') = ToSet(notificationQueue) \ X
           /\ flagged' = flagged \ X
<1> DEFINE nq == notificationQueue
           B == ToSet(nq)
<1>1. /\ queue' = [queue EXCEPT ![m] = rest]
      /\ notificationQueue' = Excluding(nq, X)
      /\ flagged' = flagged \ X
      /\ counted' = Counted(m, 0 - Cardinality({x \in X : x \in B}))
    BY DEF Delete, Dropped, Reported
<1>2. queue \in [Mon -> Seq(Notification)]
    BY DEF IInv, Queues
<1>3. /\ queue' \in [Mon -> Seq(Notification)]
      /\ \A k \in Mon : k # m => queue'[k] = queue[k]
      /\ queue'[m] = rest
    BY <1>1, <1>2
<1>4. /\ nq \in Seq(Notification) /\ IsInjective(nq) /\ IsFiniteSet(B)
      /\ \A x \in B : x \in Notification /\ x.mon \in Mon /\ x \in ToSet(queue[x.mon])
      /\ \A k \in Mon : Orderly(k) => Ordered(nq, k)
    BY SubscribedFacts
<1> HIDE DEF nq
<1>5. /\ Excluding(nq, X) \in Seq(Notification)
      /\ ToSet(Excluding(nq, X)) = ToSet(nq) \ X
      /\ IsInjective(Excluding(nq, X))
    BY <1>4, ExcludingFacts
<1>6. \A k : Ordered(nq, k) => Ordered(Excluding(nq, X), k)
    BY <1>4, ExcludingOrdered
<1>7. \A x \in X : x.mon = m
    BY HeldFacts
<1>8. ASSUME Orderly(m)' PROVE Ordered(Excluding(nq, X), m)
  <2>1. CASE Orderly(m)
    BY <1>4, <1>6, <2>1
  <2>2. CASE ToSet(rest) = {}
    <3>1. \A x \in ToSet(Excluding(nq, X)) : x.mon # m
      BY <1>4, <1>5, <2>2
    <3>2. \A i \in 1..Len(Excluding(nq, X)) : Excluding(nq, X)[i] \in ToSet(Excluding(nq, X))
      BY <1>5, ToSetFacts
    <3> QED
      BY <3>1, <3>2 DEF Ordered
  <2> QED
    BY <1>8, <2>1, <2>2
<1>9. 0 - Cardinality({x \in X : x \in B}) = Cardinality(B \ X) - Cardinality(B)
  <2>1. {x \in X : x \in B} = B \cap X
    OBVIOUS
  <2> HIDE DEF B
  <2>2. /\ Cardinality(B \ X) = Cardinality(B) - Cardinality(B \cap X)
        /\ Cardinality(B) \in Nat
        /\ Cardinality(B \cap X) \in Nat
    <3>1. IsFiniteSet(B \cap X)
      BY <1>4, FS_Subset
    <3> QED
      BY <1>4, <3>1, FS_Difference, FS_CardinalityType
  <2>3. Cardinality({x \in X : x \in B}) = Cardinality(B \cap X)
    BY <2>1
  <2> QED
    BY <2>2, <2>3
<1>10. \A x \in ToSet(Excluding(nq, X)) :
           IF x.mon = m THEN x \in ToSet(rest) ELSE x \in B
    BY <1>4, <1>5
<1> QED
    BY <1>1, <1>3, <1>4, <1>5, <1>6, <1>7, <1>8, <1>9, <1>10 DEF Moved, nq

\* m starts to report what it holds, or takes it back.
LEMMA ActivateEffect ==
    ASSUME IInv, NEW m \in Mon, NEW md, NEW ok, Activate(m, md, ok)
    PROVE  /\ Moved(m)
           /\ queue' = queue
           /\ ToSet(notificationQueue')
                 = (ToSet(notificationQueue) \ ToSet(queue[m]))
                   \cup (IF md = "reporting" THEN ToSet(queue[m]) ELSE {})
           /\ flagged' = flagged
<1> DEFINE nq == notificationQueue
           B == ToSet(nq)
           A == ToSet(queue[m])
           t == IF md = "reporting" THEN queue[m] ELSE <<>>
           ex == Excluding(nq, A)
<1>1. /\ queue' = queue
      /\ notificationQueue' = ex \o t
      /\ flagged' = flagged
      /\ counted' = Counted(m, Len(ex \o t) - Len(nq))
    BY DEF Activate, Requeued, Dropped
<1>2. queue \in [Mon -> Seq(Notification)]
    BY DEF IInv, Queues
<1>3. /\ nq \in Seq(Notification) /\ IsInjective(nq) /\ IsFiniteSet(B)
      /\ \A x \in B : x \in Notification /\ x.mon \in Mon /\ x \in ToSet(queue[x.mon])
    BY SubscribedFacts
<1>4. /\ queue[m] \in Seq(Notification) /\ Ordered(queue[m], m) /\ IsInjective(queue[m])
      /\ \A x \in A : x.mon = m
    BY HeldFacts
<1> HIDE DEF nq
<1>5. /\ ex \in Seq(Notification)
      /\ ToSet(ex) = B \ A
      /\ IsInjective(ex)
      /\ \A k : Ordered(nq, k) => Ordered(ex, k)
    BY <1>3, ExcludingFacts, ExcludingOrdered
<1>6. /\ t \in Seq(Notification)
      /\ ToSet(t) = IF md = "reporting" THEN A ELSE {}
      /\ IsInjective(t)
      /\ Ordered(t, m)
      /\ \A x \in ToSet(t) : x.mon = m
  <2>1. CASE md = "reporting"
    BY <1>4, <2>1
  <2>2. CASE md # "reporting"
    <3>1. t = <<>> /\ t \in Seq(Notification)
      BY <2>2
    <3>2. Len(<<>>) = 0
      OBVIOUS
    <3> HIDE DEF t
    <3>3. ToSet(t) = {} /\ IsInjective(t) /\ Ordered(t, m)
      <4>1. ToSet(t) = {}
        BY <3>1, ToSetFacts
      <4>2. \A i \in 1..Len(t) : FALSE
        BY <3>1, <3>2
      <4>3. IsInjective(t)
        BY <3>1, <4>2, ToSetFacts
      <4> QED
        BY <4>1, <4>2, <4>3 DEF Ordered
    <3> QED
      BY <2>2, <3>1, <3>3
  <2> QED
    BY <2>1, <2>2
<1>7. \A x \in ToSet(ex) : x.mon # m
    BY <1>3, <1>5
<1> HIDE DEF ex, t
<1>8. ToSet(ex) \cap ToSet(t) = {}
    BY <1>6, <1>7
<1>9. /\ ex \o t \in Seq(Notification)
      /\ IsInjective(ex \o t)
      /\ ToSet(ex \o t) = ToSet(ex) \cup ToSet(t)
      /\ \A k : /\ Ordered(ex, k)
                /\ Ordered(t, k)
                /\ \/ \A x \in ToSet(ex) : x.mon # k
                   \/ \A x \in ToSet(t) : x.mon # k
                => Ordered(ex \o t, k)
    BY <1>5, <1>6, <1>8, ConcatFacts
<1>10. \A k : k # m => Ordered(t, k)
  <2>1. \A i \in 1..Len(t) : t[i] \in ToSet(t)
    BY <1>6, ToSetFacts
  <2> QED
    BY <1>6, <2>1 DEF Ordered
<1>11. Ordered(ex, m)
  <2>1. \A i \in 1..Len(ex) : ex[i] \in ToSet(ex)
    BY <1>5, ToSetFacts
  <2> QED
    BY <1>7, <2>1 DEF Ordered
<1>12. /\ Ordered(ex \o t, m)
       /\ \A k \in Mon : k # m /\ Ordered(nq, k) => Ordered(ex \o t, k)
  <2>1. Ordered(ex \o t, m)
    BY <1>6, <1>7, <1>9, <1>11
  <2>2. ASSUME NEW k \in Mon, k # m, Ordered(nq, k) PROVE Ordered(ex \o t, k)
    <3>1. \A x \in ToSet(t) : x.mon # k
      BY <1>6, <2>2
    <3> QED
      BY <1>5, <1>9, <1>10, <2>2, <3>1
  <2> QED
    BY <2>1, <2>2
<1>13. Len(ex \o t) = Cardinality(ToSet(ex \o t)) /\ Len(nq) = Cardinality(B)
    BY <1>3, <1>9, LengthIsCardinality
<1>14. \A x \in ToSet(ex \o t) : IF x.mon = m THEN x \in A ELSE x \in B
    BY <1>5, <1>6, <1>7, <1>9
<1>15. \A x \in B : x.mon # m => x \in ToSet(ex \o t)
    BY <1>4, <1>5, <1>9
<1>16. Moved(m)
    BY <1>1, <1>2, <1>4, <1>9, <1>12, <1>13, <1>14, <1>15 DEF Moved, nq
<1> QED
    BY <1>1, <1>5, <1>6, <1>9, <1>16 DEF nq

\* A new notification x of m joins its queue, and perhaps the other.
LEMMA EnqueueEffect ==
    ASSUME IInv, NEW m \in Mon, Enqueue(m)
    PROVE  LET x == [mon |-> m, n |-> made + 1, over |-> FALSE]
               report == mode[m] = "reporting" \/ (mode[m] = "sampling" /\ triggered[m])
           IN /\ Moved(m)
              /\ x \in Notification
              /\ ToSet(queue'[m]) = ToSet(queue[m]) \cup {x}
              /\ ToSet(notificationQueue')
                    = ToSet(notificationQueue) \cup (IF report THEN {x} ELSE {})
              /\ made' = made + 1
              /\ made' \in 0..MaxNotifications
              /\ queue'[m] # <<>>
<1> DEFINE x == [mon |-> m, n |-> made + 1, over |-> FALSE]
           report == mode[m] = "reporting" \/ (mode[m] = "sampling" /\ triggered[m])
           nq == notificationQueue
           B == ToSet(nq)
           q == queue[m]
<1>1. /\ made < MaxNotifications
      /\ made' = made + 1
      /\ queue' = [queue EXCEPT ![m] = Append(@, x)]
      /\ notificationQueue' = IF report THEN Append(nq, x) ELSE nq
      /\ counted' = Counted(m, IF report THEN 1 ELSE 0)
    BY DEF Enqueue
<1>2. made \in 0..MaxNotifications /\ MaxNotifications \in Nat /\ made \in Int
    BY NotificationAssumption DEF IInv, Variables
<1>3. x \in Notification /\ x.n = made + 1 /\ x.mon = m /\ ~x.over
    BY <1>1, <1>2 DEF Notification
<1>4. made' \in 0..MaxNotifications
    BY <1>1, <1>2
<1> HIDE DEF x, report
<1>5. queue \in [Mon -> Seq(Notification)]
    BY DEF IInv, Queues
<1>6. /\ queue' \in [Mon -> Seq(Notification)]
      /\ \A k \in Mon : k # m => queue'[k] = queue[k]
      /\ queue'[m] = Append(q, x)
  <2>1. Append(q, x) \in Seq(Notification)
    BY <1>3, <1>5
  <2> QED
    BY <1>1, <1>5, <2>1
<1>7. /\ q \in Seq(Notification) /\ Ordered(q, m) /\ IsInjective(q)
      /\ \A y \in ToSet(q) : y \in Notification /\ y.mon = m /\ y.n <= made
    BY HeldFacts
<1>8. ASSUME NEW y \in Notification, y.n <= made PROVE Key(y) < Key(x) /\ y # x
  <2>1. y.n \in Int
    BY NotificationAssumption DEF Notification
  <2>2. y.n < x.n
    BY <1>2, <1>3, <1>8, <2>1
  <2>3. ~y.over /\ ~x.over => (Key(y) < Key(x) <=> y.n < x.n)
    BY <1>3, KeyFacts
  <2>4. y.over /\ ~x.over => (Key(y) < Key(x) <=> y.n <= x.n)
    BY <1>3, KeyFacts
  <2>5. y.n <= x.n
    BY <1>3, <1>2, <2>1, <2>2
  <2>6. y # x
    BY <2>1, <2>2
  <2> QED
    BY <1>3, <2>2, <2>3, <2>4, <2>5, <2>6
<1>9. x \notin ToSet(q)
    BY <1>7, <1>8
<1>10. /\ nq \in Seq(Notification) /\ IsInjective(nq) /\ IsFiniteSet(B)
       /\ \A y \in B : y \in Notification /\ y.mon \in Mon /\ y \in ToSet(queue[y.mon])
       /\ \A k \in Mon : Orderly(k) => Ordered(nq, k)
    BY SubscribedFacts
<1> HIDE DEF q, nq
<1>11. /\ ToSet(Append(q, x)) = ToSet(q) \cup {x}
       /\ Append(q, x) # <<>>
       /\ Ordered(Append(q, x), m)
  <2>1. \A y \in ToSet(q) : y.mon = m => Key(y) < Key(x)
    BY <1>7, <1>8
  <2> QED
    BY <1>3, <1>7, <1>9, <2>1, AppendFacts, AppendOrdered
<1>12. \A y \in B : y.mon = m => y \in ToSet(q)
    BY <1>10 DEF q
<1>13. x \notin B
    BY <1>3, <1>9, <1>12
<1>14. /\ Append(nq, x) \in Seq(Notification)
       /\ IsInjective(Append(nq, x))
       /\ ToSet(Append(nq, x)) = B \cup {x}
    BY <1>3, <1>10, <1>13, AppendFacts
<1>15. ASSUME NEW k \in Mon, Ordered(nq, k) PROVE Ordered(Append(nq, x), k)
  <2>1. ASSUME x.mon = k, NEW y \in B, y.mon = k PROVE Key(y) < Key(x)
    BY <1>3, <1>7, <1>8, <1>12, <2>1
  <2> QED
    BY <1>3, <1>10, <1>15, <2>1, AppendOrdered
<1>16. Orderly(m)' = Orderly(m)
  <2>1. mode' = mode
    BY DEF Enqueue
  <2> QED
    BY <2>1 DEF Orderly, Target
<1>17. Cardinality(B \cup {x}) = Cardinality(B) + 1 /\ Cardinality(B) \in Nat
    BY <1>10, <1>13, FS_AddElement, FS_CardinalityType
<1>18. CASE report
  <2>1. notificationQueue' = Append(nq, x) /\ counted' = Counted(m, 1)
    BY <1>1, <1>18
  <2>2. Cardinality(ToSet(Append(nq, x))) - Cardinality(B) = 1
    BY <1>14, <1>17
  <2>3. \A y \in ToSet(Append(nq, x)) :
           IF y.mon = m THEN y \in ToSet(Append(q, x)) ELSE y \in B
    BY <1>3, <1>11, <1>12, <1>14
  <2>4. \A y \in B : y.mon # m => y \in ToSet(Append(nq, x))
    BY <1>14
  <2>5. Orderly(m)' => Ordered(Append(nq, x), m)
    BY <1>10, <1>15, <1>16
  <2>6. Moved(m)
    BY <1>6, <1>11, <1>14, <1>15, <2>1, <2>2, <2>3, <2>4, <2>5 DEF Moved, nq
  <2>7. ToSet(notificationQueue') = ToSet(notificationQueue) \cup {x}
    BY <1>14, <2>1 DEF nq
  <2> QED
    BY <1>1, <1>3, <1>4, <1>6, <1>11, <1>18, <2>6, <2>7 DEF x, report, q
<1>19. CASE ~report
  <2>1. notificationQueue' = nq /\ counted' = Counted(m, 0)
    BY <1>1, <1>19
  <2>2. Cardinality(B) - Cardinality(B) = 0
    BY <1>17
  <2>3. \A y \in B : IF y.mon = m THEN y \in ToSet(Append(q, x)) ELSE y \in B
    BY <1>11, <1>12
  <2>5. Orderly(m)' => Ordered(nq, m)
    BY <1>10, <1>16
  <2>6. Moved(m)
    BY <1>6, <1>10, <1>11, <2>1, <2>2, <2>3, <2>5 DEF Moved, nq
  <2> QED
    BY <1>1, <1>3, <1>4, <1>6, <1>11, <1>19, <2>1, <2>6 DEF x, report, q, nq
<1> QED
    BY <1>18, <1>19

\* The victim goes; its successor has its place in the subscription's queue.
LEMMA RemoveOneEffect ==
    ASSUME IInv, NEW m \in Mon, RemoveOne(m)
    PROVE  LET del == queue[m][Victim(m)]
           IN /\ Moved(m)
              /\ del \in ToSet(queue[m])
              /\ ~del.over
              /\ ToSet(queue'[m]) = ToSet(queue[m]) \ {del}
              /\ ToSet(notificationQueue') = ToSet(notificationQueue) \ {del}
              /\ flagged' = flagged \ {del}
              /\ call' = [call EXCEPT !.reporting = @ \/ Reported(del)]
              /\ untold' = IF Reported(del) /\ SignsLoss(m) THEN untold \cup {m} ELSE untold
              /\ \E y \in ToSet(queue'[m]) : ~y.over /\ del.n < y.n
<1> DEFINE v == Victim(m)
           q == queue[m]
           del == q[v]
           next == q[v + 1]
           nq == notificationQueue
           B == ToSet(nq)
<1>1. /\ TooMany(m)
      /\ queue' = [queue EXCEPT ![m] = RemoveAt(@, v)]
      /\ notificationQueue' = TakenOver(del, next)
      /\ flagged' = flagged \ {del}
      /\ counted' = Counted(m, IF Reported(del) THEN -1 ELSE 0)
      /\ call' = [call EXCEPT !.reporting = @ \/ Reported(del)]
      /\ untold' = IF Reported(del) /\ SignsLoss(m) THEN untold \cup {m} ELSE untold
      /\ mode' = mode
    BY DEF RemoveOne, itemVars
<1>2. v \in Normal(m) /\ v \in 1..Len(q) /\ v < Len(q) /\ Len(q) \in Nat
    BY <1>1, VictimFacts
<1>3. ~del.over
    BY <1>2 DEF Normal
<1>4. /\ q \in Seq(Notification) /\ Ordered(q, m) /\ IsInjective(q)
      /\ \A y \in ToSet(q) : y \in Notification /\ y.mon = m
    BY HeldFacts
<1>5. queue \in [Mon -> Seq(Notification)]
    BY DEF IInv, Queues
<1>6. /\ nq \in Seq(Notification) /\ IsInjective(nq) /\ IsFiniteSet(B)
      /\ \A y \in B : y \in Notification /\ y.mon \in Mon /\ y \in ToSet(queue[y.mon])
      /\ \A k \in Mon : Orderly(k) => Ordered(nq, k)
    BY SubscribedFacts
<1>7. queue[m] # <<>>
    BY <1>2, <1>4
<1>8. /\ Last(q) \in ToSet(q) /\ Last(q) = q[Len(q)] /\ ~Last(q).over
    BY <1>7, LastFacts
<1> HIDE DEF v, nq
<1>9. /\ \A i, j \in 1..Len(q) : i < j <=> Key(q[i]) < Key(q[j])
      /\ \A i \in 1..Len(q) : q[i] \in ToSet(q)
      /\ \A y \in ToSet(q) : \E i \in 1..Len(q) : q[i] = y
      /\ \A i, j \in 1..Len(q) : q[i] = q[j] => i = j
    BY <1>4, OrderedFacts, ToSetFacts
<1>10. v + 1 \in 1..Len(q) /\ v < v + 1 /\ Len(q) \in 1..Len(q)
    BY <1>2
<1>11. /\ del \in ToSet(q) /\ next \in ToSet(q)
       /\ del \in Notification /\ next \in Notification
       /\ del.mon = m /\ next.mon = m
       /\ Key(del) < Key(next)
       /\ del # next
    BY <1>2, <1>4, <1>9, <1>10
<1>12. ASSUME NEW y \in ToSet(q), Key(del) < Key(y), y # next PROVE Key(next) < Key(y)
  <2>1. PICK i \in 1..Len(q) : q[i] = y
    BY <1>9
  <2>2. v < i /\ i # v + 1
    BY <1>2, <1>9, <1>12, <2>1
  <2>3. v + 1 < i
    BY <1>2, <2>2
  <2> QED
    BY <1>9, <1>10, <2>1, <2>3
<1>13. /\ queue' \in [Mon -> Seq(Notification)]
       /\ \A k \in Mon : k # m => queue'[k] = queue[k]
       /\ ToSet(queue'[m]) = ToSet(q) \ {del}
       /\ Ordered(queue'[m], m)
  <2>1. IndexOf(q, del) = v
    BY <1>2, <1>4, IndexFacts
  <2>2. Without(q, del) = RemoveAt(q, v)
    BY <2>1 DEF Without
  <2>3. /\ Without(q, del) \in Seq(Notification)
        /\ ToSet(Without(q, del)) = ToSet(q) \ {del}
        /\ SameOrder(Without(q, del), q)
    BY <1>4, <1>11, WithoutFacts, WithoutOrdered
  <2>4. Ordered(Without(q, del), m)
    BY <1>4, <2>3, SameOrderOrdered
  <2>5. queue' = [queue EXCEPT ![m] = Without(q, del)]
    BY <1>1, <2>2
  <2> HIDE DEF del
  <2>6. queue'[m] = Without(q, del)
    BY <1>5, <2>5
  <2>7. /\ queue' \in [Mon -> Seq(Notification)]
        /\ \A k \in Mon : k # m => queue'[k] = queue[k]
    BY <1>5, <2>3, <2>5
  <2> QED
    BY <2>3, <2>4, <2>6, <2>7
<1>14. \E y \in ToSet(queue'[m]) : ~y.over /\ del.n < y.n
  <2>1. Key(del) < Key(q[Len(q)])
    BY <1>2, <1>9, <1>10
  <2>2. Last(q) \in Notification /\ Key(del) < Key(Last(q))
    BY <1>4, <1>8, <2>1
  <2>3. del.n < Last(q).n
    BY <1>3, <1>8, <1>11, <2>2, KeyFacts
  <2>4. Last(q) # del
    <3>1. Key(del) \in Int
      BY <1>11, KeyFacts
    <3> QED
      BY <2>2, <3>1
  <2> QED
    BY <1>8, <1>13, <2>3, <2>4
<1> HIDE DEF del, next, q
<1>15. Orderly(m)' = Orderly(m)
    BY <1>1 DEF Orderly, Target
<1>16. \A y \in B : y.mon = m => y \in ToSet(q)
    BY <1>6 DEF q
<1>17. /\ notificationQueue' \in Seq(Notification)
       /\ IsInjective(notificationQueue')
       /\ ToSet(notificationQueue') = B \ {del}
       /\ \A k : Ordered(nq, k) => Ordered(notificationQueue', k)
  <2>1. CASE del \notin B
    <3>1. notificationQueue' = nq
      BY <1>1, <2>1 DEF TakenOver, Reported, nq
    <3> QED
      BY <1>6, <2>1, <3>1
  <2>2. CASE del \in B /\ next \notin B
    <3>1. notificationQueue' = Without(nq, del)
      BY <1>1, <2>2 DEF TakenOver, Reported, nq
    <3>2. /\ Without(nq, del) \in Seq(Notification)
          /\ IsInjective(Without(nq, del))
          /\ ToSet(Without(nq, del)) = B \ {del}
          /\ SameOrder(Without(nq, del), nq)
      BY <1>6, <2>2, WithoutFacts, WithoutOrdered
    <3> QED
      BY <3>1, <3>2, SameOrderOrdered
  <2>3. CASE del \in B /\ next \in B
    <3> DEFINE rest == Without(nq, next)
               t == [rest EXCEPT ![IndexOf(rest, del)] = next]
    <3>1. notificationQueue' = t
      BY <1>1, <2>3 DEF TakenOver, Reported, nq
    <3>2. /\ rest \in Seq(Notification)
          /\ IsInjective(rest)
          /\ ToSet(rest) = B \ {next}
          /\ SameOrder(rest, nq)
      BY <1>6, <2>3, WithoutFacts, WithoutOrdered
    <3> HIDE DEF rest
    <3>3. del \in ToSet(rest) /\ next \notin ToSet(rest)
      BY <1>11, <2>3, <3>2
    <3>4. /\ t \in Seq(Notification)
          /\ IsInjective(t)
          /\ ToSet(t) = (ToSet(rest) \ {del}) \cup {next}
          /\ \A k : /\ Ordered(rest, k)
                    /\ next.mon = k => /\ Key(del) < Key(next)
                                       /\ \A x \in ToSet(rest) :
                                             x.mon = k /\ Key(del) < Key(x)
                                                => Key(next) < Key(x)
                    => Ordered(t, k)
      <4>1. next \in Notification /\ next.mon = del.mon
        BY <1>11
      <4> HIDE DEF del, next
      <4> QED
        BY <3>2, <3>3, <4>1, ReplaceFacts
    <3> HIDE DEF t
    <3>5. ToSet(t) = B \ {del}
      BY <1>11, <2>3, <3>2, <3>4
    <3>6. ASSUME NEW k, Ordered(nq, k) PROVE Ordered(t, k)
      <4>1. Ordered(rest, k)
        BY <3>2, <3>6, SameOrderOrdered
      <4>2. ASSUME next.mon = k, NEW x \in ToSet(rest), x.mon = k, Key(del) < Key(x)
            PROVE  Key(next) < Key(x)
        <5>1. x \in ToSet(q) /\ x # next
          BY <1>11, <1>16, <3>2, <4>2
        <5> QED
          BY <1>12, <4>2, <5>1
      <4> QED
        BY <1>11, <3>4, <4>1, <4>2
    <3> QED
      BY <3>1, <3>4, <3>5, <3>6
  <2> QED
    BY <2>1, <2>2, <2>3
<1>18. counted' = Counted(m, Cardinality(B \ {del}) - Cardinality(B))
  <2>1. Cardinality(B) \in Nat
    BY <1>6, FS_CardinalityType
  <2>2. CASE del \in B
    <3>1. Cardinality(B \ {del}) = Cardinality(B) - 1
      BY <1>6, <2>2, FS_RemoveElement
    <3>2. Cardinality(B \ {del}) - Cardinality(B) = -1
      BY <2>1, <3>1
    <3> QED
      BY <1>1, <2>2, <3>2 DEF Reported, nq
  <2>3. CASE del \notin B
    <3>1. B \ {del} = B
      BY <2>3
    <3>2. Cardinality(B \ {del}) - Cardinality(B) = 0
      BY <2>1, <3>1
    <3> QED
      BY <1>1, <2>3, <3>2 DEF Reported, nq
  <2> QED
    BY <2>2, <2>3
<1>19. \A y \in B \ {del} : IF y.mon = m THEN y \in ToSet(queue'[m]) ELSE y \in B
    BY <1>13, <1>16
<1>20. \A y \in B : y.mon # m => y \in B \ {del}
    BY <1>11
<1>21. Moved(m)
    BY <1>6, <1>13, <1>15, <1>17, <1>18, <1>19, <1>20 DEF Moved, nq
<1> QED
    BY <1>1, <1>3, <1>11, <1>13, <1>14, <1>17, <1>21 DEF del, v, q, nq

\* An overflow event joins both queues.
LEMMA OverflowEffect ==
    ASSUME IInv, NEW m \in Mon, EventOverflow(m), ~AdjacentOverflow(m)
    PROVE  LET at == Indicator(m)
               ov == [at EXCEPT !.over = TRUE]
           IN /\ Moved(m)
              /\ at \in ToSet(queue[m])
              /\ ~at.over
              /\ ov \in Notification
              /\ ov.mon = m /\ ov.n = at.n /\ ov.over
              /\ ToSet(queue'[m]) = ToSet(queue[m]) \cup {ov}
              /\ ToSet(notificationQueue') = ToSet(notificationQueue) \cup {ov}
              /\ flagged' = flagged
<1> DEFINE at == Indicator(m)
           ov == [at EXCEPT !.over = TRUE]
           q == queue[m]
           nq == notificationQueue
           B == ToSet(nq)
<1>1. /\ MakingSpace(m) /\ call.reporting /\ m \in EventMon
      /\ queue' = [queue EXCEPT ![m] = InsertBefore(@, ov, at)]
      /\ notificationQueue' = OverflowPlaced(ov, at)
      /\ counted' = Counted(m, 1)
      /\ flagged' = flagged
      /\ mode' = mode
    BY DEF EventOverflow, itemVars
<1>2. /\ q \in Seq(Notification) /\ Ordered(q, m) /\ IsInjective(q)
      /\ \A y \in ToSet(q) : y \in Notification /\ y.mon = m
    BY HeldFacts
<1>3. queue[m] # <<>>
    BY <1>1 DEF IInv, CallInv, MakingSpace
<1>4. /\ Last(q) \in ToSet(q) /\ Last(q) = q[Len(q)] /\ ~Last(q).over
      /\ Len(q) \in 1..Len(q)
      /\ \A y \in ToSet(q) : y # Last(q) => Key(y) < Key(Last(q))
    BY <1>3, LastFacts
<1>5. queue \in [Mon -> Seq(Notification)]
    BY DEF IInv, Queues
<1>6. /\ nq \in Seq(Notification) /\ IsInjective(nq) /\ IsFiniteSet(B)
      /\ \A y \in B : y \in Notification /\ y.mon \in Mon /\ y \in ToSet(queue[y.mon])
      /\ \A k \in Mon : Orderly(k) => Ordered(nq, k)
    BY SubscribedFacts
<1>7. /\ \A i, j \in 1..Len(q) : i < j <=> Key(q[i]) < Key(q[j])
      /\ \A i \in 1..Len(q) : q[i] \in ToSet(q)
      /\ \A y \in ToSet(q) : \E i \in 1..Len(q) : q[i] = y
      /\ Len(q) \in Nat
    BY <1>2, OrderedFacts, ToSetFacts, LenProperties
<1>8. at = IF params[m].discardOldest THEN q[1] ELSE Last(q)
    BY <1>3 DEF Indicator
<1>9. at \in ToSet(q) /\ ~at.over
  <2>1. 1 \in 1..Len(q)
    BY <1>4
  <2>2. params[m].discardOldest => ~q[1].over
    BY <1>3 DEF AdjacentOverflow
  <2> QED
    BY <1>4, <1>7, <1>8, <2>1, <2>2
<1>10. at \in Notification /\ at.mon = m
    BY <1>2, <1>9
<1> HIDE DEF at
<1>11. /\ ov \in Notification /\ ov.mon = m /\ ov.n = at.n /\ ov.over
    BY <1>10 DEF Notification
<1> HIDE DEF ov, nq
<1>12. Key(ov) < Key(at)
  <2>1. at.n \in Int
    BY <1>10, NotificationAssumption DEF Notification
  <2>2. ov.over /\ ~at.over => (Key(ov) < Key(at) <=> ov.n <= at.n)
    BY <1>10, <1>11, KeyFacts
  <2>3. ov.n <= at.n
    BY <1>11, <2>1
  <2> QED
    BY <1>9, <1>11, <2>2, <2>3
<1>13. ASSUME NEW y \in ToSet(q), Key(y) < Key(at) PROVE Key(y) < Key(ov)
  <2>0. PICK i \in 1..Len(q) : q[i] = y
    BY <1>7
  <2>1. CASE params[m].discardOldest
    <3>1. 1 \in 1..Len(q) /\ at = q[1]
      BY <1>4, <1>8, <2>1
    <3>2. i < 1
      BY <1>7, <1>13, <2>0, <3>1
    <3> QED
      BY <3>2
  <2>2. CASE ~params[m].discardOldest
    <3> DEFINE z == q[Len(q) - 1]
    <3>1. at = q[Len(q)]
      BY <1>4, <1>8, <2>2
    <3>2. i < Len(q)
      BY <1>4, <1>7, <1>13, <2>0, <3>1
    <3>3. Len(q) > 1 /\ Len(q) - 1 \in 1..Len(q) /\ Len(q) - 1 < Len(q) /\ i <= Len(q) - 1
      BY <1>7, <3>2
    <3>4. z \in ToSet(q) /\ Key(z) < Key(at) /\ ~z.over
      <4>1. ~z.over
        BY <2>2, <3>3 DEF AdjacentOverflow
      <4> QED
        BY <1>4, <1>7, <3>1, <3>3, <4>1
    <3>5. z \in Notification /\ y \in Notification
      BY <1>2, <3>4
    <3>6. Key(z) < Key(ov)
      <4>1. ~z.over /\ ~at.over => (Key(z) < Key(at) <=> z.n < at.n)
        BY <1>10, <3>5, KeyFacts
      <4>2. ~z.over /\ ov.over => (Key(z) < Key(ov) <=> z.n < ov.n)
        BY <1>11, <3>5, KeyFacts
      <4> QED
        BY <1>9, <1>11, <3>4, <4>1, <4>2
    <3>7. y = z \/ Key(y) < Key(z)
      <4>1. CASE i = Len(q) - 1
        BY <2>0, <4>1
      <4>2. CASE i < Len(q) - 1
        BY <1>7, <2>0, <3>3, <4>2
      <4>3. i = Len(q) - 1 \/ i < Len(q) - 1
        <5>1. i \in Nat /\ Len(q) - 1 \in Nat /\ i <= Len(q) - 1
          BY <1>7, <3>3
        <5> QED
          BY <5>1
      <4> QED
        BY <4>1, <4>2, <4>3
    <3>8. Key(y) \in Int /\ Key(z) \in Int /\ Key(ov) \in Int
      BY <1>11, <3>5, KeyFacts
    <3> HIDE DEF z
    <3> QED
      BY <3>6, <3>7, <3>8
  <2> QED
    BY <2>1, <2>2
<1>14. ov \notin ToSet(q)
  <2>1. Key(ov) \in Int
    BY <1>11, KeyFacts
  <2> QED
    BY <1>12, <1>13, <2>1
<1>15. /\ queue' \in [Mon -> Seq(Notification)]
       /\ \A k \in Mon : k # m => queue'[k] = queue[k]
       /\ ToSet(queue'[m]) = ToSet(q) \cup {ov}
       /\ Ordered(queue'[m], m)
  <2> DEFINE w == InsertBefore(q, ov, at)
  <2>1. IndexOf(q, at) \in 1..Len(q) + 1
    BY <1>2, <1>7, <1>9, IndexFacts
  <2>2. w \in Seq(Notification) /\ ToSet(w) = ToSet(q) \cup {ov}
    BY <1>2, <1>11, <1>14, <2>1, InsertFacts DEF InsertBefore
  <2>3. Ordered(w, m)
    <3>1. ov.mon = at.mon
      BY <1>10, <1>11
    <3> HIDE DEF q
    <3> QED
      BY <1>2, <1>9, <1>11, <1>12, <1>13, <3>1, InsertOrdered
  <2>4. queue' = [queue EXCEPT ![m] = w]
    BY <1>1
  <2> HIDE DEF w
  <2>5. queue'[m] = w
    BY <1>5, <2>4
  <2>6. /\ queue' \in [Mon -> Seq(Notification)]
        /\ \A k \in Mon : k # m => queue'[k] = queue[k]
    BY <1>5, <2>2, <2>4
  <2> QED
    BY <2>2, <2>3, <2>5, <2>6
<1>16. \A y \in B : y.mon = m => y \in ToSet(q)
    BY <1>6 DEF q
<1>17. ov \notin B
    BY <1>11, <1>14, <1>16
<1>18. Orderly(m)' = Orderly(m)
    BY <1>1 DEF Orderly, Target
<1>19. Orderly(m) => at \in B
  <2>1. ASSUME Orderly(m) PROVE ToSet(q) \subseteq B
    <3>1. CASE mode[m] = "reporting"
      BY <3>1 DEF IInv, ItemsInv, ItemOk, WholeOf, Holds, Subscribed, nq
    <3>2. CASE ~Target(m)
      BY <1>1, <3>2 DEF IInv, ItemsInv, ItemOk, WholeOf, Holds, Subscribed, nq
    <3> QED
      BY <1>1, <2>1, <3>1, <3>2 DEF Orderly
  <2> QED
    BY <1>9, <2>1
<1>20. /\ notificationQueue' \in Seq(Notification)
       /\ IsInjective(notificationQueue')
       /\ ToSet(notificationQueue') = B \cup {ov}
       /\ \A k : (k # m \/ at \in B) /\ Ordered(nq, k) => Ordered(notificationQueue', k)
  <2>1. CASE at \in B
    <3>1. notificationQueue' = InsertBefore(nq, ov, at)
      BY <1>1, <2>1 DEF OverflowPlaced, Reported, nq
    <3>2. IndexOf(nq, at) \in 1..Len(nq) + 1
      BY <1>6, <2>1, IndexFacts, LenProperties
    <3>3. /\ InsertBefore(nq, ov, at) \in Seq(Notification)
          /\ IsInjective(InsertBefore(nq, ov, at))
          /\ ToSet(InsertBefore(nq, ov, at)) = B \cup {ov}
      BY <1>6, <1>11, <1>17, <3>2, InsertFacts DEF InsertBefore
    <3>4. ASSUME NEW k, Ordered(nq, k) PROVE Ordered(InsertBefore(nq, ov, at), k)
      <4>1. ov.mon = at.mon
        BY <1>10, <1>11
      <4>2. ASSUME ov.mon = k, NEW x \in B, x.mon = k, Key(x) < Key(at)
            PROVE  Key(x) < Key(ov)
        BY <1>11, <1>13, <1>16, <4>2
      <4> QED
        BY <1>6, <1>11, <1>12, <2>1, <3>4, <4>1, <4>2, InsertOrdered
    <3> QED
      BY <3>1, <3>3, <3>4
  <2>2. CASE at \notin B
    <3>1. notificationQueue' = Append(nq, ov)
      BY <1>1, <2>2 DEF OverflowPlaced, Reported, nq
    <3>2. /\ Append(nq, ov) \in Seq(Notification)
          /\ IsInjective(Append(nq, ov))
          /\ ToSet(Append(nq, ov)) = B \cup {ov}
      BY <1>6, <1>11, <1>17, AppendFacts
    <3>3. \A k : k # m /\ Ordered(nq, k) => Ordered(Append(nq, ov), k)
      BY <1>6, <1>11, AppendOrdered
    <3> QED
      BY <2>2, <3>1, <3>2, <3>3
  <2> QED
    BY <2>1, <2>2
<1>21. counted' = Counted(m, Cardinality(B \cup {ov}) - Cardinality(B))
  <2>1. Cardinality(B) \in Nat /\ Cardinality(B \cup {ov}) = Cardinality(B) + 1
    BY <1>6, <1>17, FS_CardinalityType, FS_AddElement
  <2>2. Cardinality(B \cup {ov}) - Cardinality(B) = 1
    BY <2>1
  <2> QED
    BY <1>1, <2>2
<1>22. \A y \in B \cup {ov} : IF y.mon = m THEN y \in ToSet(queue'[m]) ELSE y \in B
    BY <1>11, <1>15, <1>16
<1>23. Orderly(m)' => Ordered(notificationQueue', m)
    BY <1>6, <1>18, <1>19, <1>20
<1>24. Moved(m)
    BY <1>15, <1>20, <1>21, <1>22, <1>23 DEF Moved, nq
<1> QED
    BY <1>1, <1>9, <1>11, <1>15, <1>20, <1>24 DEF at, ov, q, nq

\* A triggered item reports its newest notification, if it has not.
LEMMA TriggerEffect ==
    ASSUME IInv, NEW m \in Mon, Trigger(m)
    PROVE  \E t \in Mon :
               /\ mode[t] = "sampling" => Target(t)
               /\ queue' = queue
               /\ flagged' = flagged
               /\ \/ UNCHANGED <<notificationQueue, counted>>
                  \/ /\ Moved(t)
                     /\ mode[t] = "sampling"
                     /\ \E x \in ToSet(queue[t]) :
                           ToSet(notificationQueue') = ToSet(notificationQueue) \cup {x}
<1>0. links[m][call.link] \in Mon
    BY DEF Trigger, Registered
<1> PICK t \in Mon : t = links[m][call.link]
    BY <1>0
<1> SUFFICES /\ mode[t] = "sampling" => Target(t)
             /\ queue' = queue
             /\ flagged' = flagged
             /\ \/ UNCHANGED <<notificationQueue, counted>>
                \/ /\ Moved(t)
                   /\ mode[t] = "sampling"
                   /\ \E x \in ToSet(queue[t]) :
                         ToSet(notificationQueue') = ToSet(notificationQueue) \cup {x}
    OBVIOUS
<1> DEFINE q == queue[t]
           x == Last(q)
           nq == notificationQueue
           B == ToSet(nq)
<1>1. /\ call.op = "trigger" /\ call.mon = m
      /\ t \in Registered
      /\ IF mode[t] = "sampling"
         THEN /\ notificationQueue' = IF q # <<>> /\ ~Reported(x) THEN Append(nq, x) ELSE nq
              /\ counted' = Counted(t, IF q # <<>> /\ ~Reported(x) THEN 1 ELSE 0)
         ELSE UNCHANGED <<notificationQueue, counted>>
      /\ queue' = queue /\ flagged' = flagged /\ mode' = mode
    BY DEF Trigger
<1>3. Target(t)
  <2>1. call.link \in 1..Len(links[m]) /\ links[m] \in Seq(Mon)
    BY <1>1 DEF IInv, Variables, CallInv
  <2>2. t \in ToSet(links[m])
    BY <2>1, ToSetFacts
  <2> QED
    BY <2>2 DEF IInv, LinksInv, Target
<1>4. counted \in [{"data", "event"} -> Int]
    BY DEF IInv, CountInv
<1>5. CASE mode[t] # "sampling"
    BY <1>1, <1>3, <1>5
<1>6. CASE mode[t] = "sampling" /\ ~(q # <<>> /\ ~Reported(x))
  <2>1. notificationQueue' = notificationQueue /\ counted' = Counted(t, 0)
    BY <1>1, <1>6
  <2>2. Counted(t, 0) = counted
    BY <1>4 DEF Counted, Kind
  <2> QED
    BY <1>1, <1>3, <2>1, <2>2
<1>7. CASE mode[t] = "sampling" /\ q # <<>> /\ ~Reported(x)
  <2>1. notificationQueue' = Append(nq, x) /\ counted' = Counted(t, 1)
    BY <1>1, <1>7
  <2>2. /\ x \in ToSet(q)
        /\ \A y \in ToSet(q) : y # x => Key(y) < Key(x)
    BY <1>7, LastFacts
  <2>3. /\ q \in Seq(Notification) /\ Ordered(q, t)
        /\ \A y \in ToSet(q) : y \in Notification /\ y.mon = t
    BY HeldFacts
  <2>4. /\ nq \in Seq(Notification) /\ IsInjective(nq) /\ IsFiniteSet(B)
        /\ \A y \in B : y \in Notification /\ y.mon \in Mon /\ y \in ToSet(queue[y.mon])
        /\ \A k \in Mon : Orderly(k) => Ordered(nq, k)
    BY SubscribedFacts
  <2>5. x \notin B
    BY <1>7 DEF Reported
  <2>6. queue \in [Mon -> Seq(Notification)]
    BY DEF IInv, Queues
  <2> HIDE DEF x, nq
  <2>7. x \in Notification /\ x.mon = t
    BY <2>2, <2>3
  <2>8. /\ Append(nq, x) \in Seq(Notification)
        /\ IsInjective(Append(nq, x))
        /\ ToSet(Append(nq, x)) = B \cup {x}
    BY <2>4, <2>5, <2>7, AppendFacts
  <2>9. ASSUME NEW k \in Mon, Ordered(nq, k) PROVE Ordered(Append(nq, x), k)
    <3>1. ASSUME x.mon = k, NEW y \in B, y.mon = k PROVE Key(y) < Key(x)
      <4>1. y \in ToSet(q) /\ y # x
        BY <2>4, <2>5, <2>7, <3>1
      <4> QED
        BY <2>2, <4>1
    <3> QED
      BY <2>4, <2>7, <2>9, <3>1, AppendOrdered
  <2>10. Cardinality(B \cup {x}) - Cardinality(B) = 1
    <3>1. Cardinality(B) \in Nat /\ Cardinality(B \cup {x}) = Cardinality(B) + 1
      BY <2>4, <2>5, FS_CardinalityType, FS_AddElement
    <3> QED
      BY <3>1
  <2>11. Orderly(t)' = Orderly(t)
    BY <1>1 DEF Orderly, Target
  <2>12. counted' = Counted(t, Cardinality(ToSet(Append(nq, x))) - Cardinality(B))
    BY <2>1, <2>8, <2>10
  <2>13. \A y \in ToSet(Append(nq, x)) : IF y.mon = t THEN y \in ToSet(q) ELSE y \in B
    BY <2>2, <2>4, <2>7, <2>8
  <2>14. \A y \in B : y \in ToSet(Append(nq, x))
    BY <2>8
  <2>15. Orderly(t)' => Ordered(Append(nq, x), t)
    BY <2>4, <2>9, <2>11
  <2>16. Moved(t)
    BY <1>1, <2>1, <2>3, <2>6, <2>8, <2>9, <2>12, <2>13, <2>14, <2>15 DEF Moved, nq
  <2>17. \E y \in ToSet(q) : ToSet(notificationQueue') = ToSet(notificationQueue) \cup {y}
    BY <2>1, <2>2, <2>8 DEF nq
  <2> QED
    BY <1>1, <1>3, <1>7, <2>16, <2>17
<1> QED
    BY <1>5, <1>6, <1>7

-----------------------------------------------------------------------------
(* What every such handler keeps of the invariant.                         *)

QueuesInv ==
    /\ queue \in [Mon -> Seq(Notification)]
    /\ notificationQueue \in Seq(Notification)
    /\ QueueInv
    /\ SubscribedInv
    /\ OrderInv
    /\ CountInv

\* A handler that moves notifications of m keeps what is said of the queues, if
\* what m holds then is fit to be held.
LEMMA QueuesMoved ==
    ASSUME IInv, NEW m \in Mon, Moved(m),
           made' \in Int, made <= made',
           \A k \in Mon : k # m => mode'[k] = mode[k],
           \A x \in ToSet(queue'[m]) :
              x.mon = m /\ x.n <= made' /\ (x.over => m \in EventMon),
           Topped(ToSet(queue'[m])),
           m \notin Registered' => ToSet(queue'[m]) = {}
    PROVE  QueuesInv'
<1> DEFINE B == ToSet(notificationQueue)
           C == ToSet(notificationQueue')
<1>1. /\ queue' \in [Mon -> Seq(Notification)]
      /\ \A k \in Mon : k # m => queue'[k] = queue[k]
      /\ Ordered(queue'[m], m)
      /\ notificationQueue' \in Seq(Notification)
      /\ IsInjective(notificationQueue')
      /\ \A x \in C : IF x.mon = m THEN x \in ToSet(queue'[m]) ELSE x \in B
      /\ \A x \in B : x.mon # m => x \in C
      /\ \A k \in Mon : k # m /\ Ordered(notificationQueue, k) => Ordered(notificationQueue', k)
      /\ Orderly(m)' => Ordered(notificationQueue', m)
      /\ counted' = Counted(m, Cardinality(C) - Cardinality(B))
    BY DEF Moved
<1>2. /\ IsFiniteSet(B)
      /\ \A x \in B : x \in Notification /\ x.mon \in Mon /\ x \in ToSet(queue[x.mon])
      /\ \A k \in Mon : Orderly(k) => Ordered(notificationQueue, k)
    BY SubscribedFacts
<1>3. IsFiniteSet(C) /\ \A x \in C : x \in Notification /\ x.mon \in Mon
  <2>1. IsFiniteSet(C)
    BY <1>1, LengthIsCardinality
  <2>2. C \subseteq Notification
    BY <1>1, ToSetFacts
  <2> QED
    BY <2>1, <2>2 DEF Notification
<1>4. made \in Int
    BY NotificationAssumption DEF IInv, Variables
<1>5. ASSUME NEW k \in Mon, k # m
      PROVE  /\ Ordered(queue'[k], k)
             /\ \A x \in ToSet(queue'[k]) : x.mon = k /\ x.n <= made' /\ (x.over => k \in EventMon)
             /\ Topped(ToSet(queue'[k]))
             /\ k \notin Registered' => ToSet(queue'[k]) = {}
  <2>1. queue'[k] = queue[k]
    BY <1>1, <1>5
  <2>2. /\ Ordered(queue[k], k) /\ Topped(ToSet(queue[k]))
        /\ \A x \in ToSet(queue[k]) :
              x \in Notification /\ x.mon = k /\ x.n <= made /\ (x.over => k \in EventMon)
        /\ k \notin Registered => ToSet(queue[k]) = {}
    BY HeldFacts
  <2>3. k \in Registered => k \in Registered'
    BY <1>5 DEF Registered
  <2>4. ASSUME NEW x \in ToSet(queue[k]) PROVE x.n <= made'
    <3>1. x.n \in Int /\ x.n <= made
      BY <2>2, NotificationAssumption DEF Notification
    <3> QED
      BY <1>4, <3>1
  <2> QED
    BY <2>1, <2>2, <2>3, <2>4
<1>6. QueueInv'
  <2> SUFFICES ASSUME NEW k \in Mon
               PROVE  /\ Ordered(queue'[k], k)
                      /\ \A x \in ToSet(queue'[k]) :
                            x.mon = k /\ x.n <= made' /\ (x.over => k \in EventMon)
                      /\ Topped(ToSet(queue'[k]))
                      /\ k \notin Registered' => ToSet(queue'[k]) = {}
    BY DEF QueueInv, Holds, Topped
  <2>1. CASE k = m
    BY <1>1, <2>1
  <2> QED
    BY <1>5, <2>1
<1>7. SubscribedInv'
  <2>1. ASSUME NEW x \in C PROVE x \in ToSet(queue'[x.mon])
    <3>1. CASE x.mon = m
      BY <1>1, <3>1
    <3>2. CASE x.mon # m
      BY <1>1, <1>2, <1>3, <3>2
    <3> QED
      BY <3>1, <3>2
  <2> QED
    BY <1>1, <2>1 DEF SubscribedInv, Subscribed, Holds
<1>8. OrderInv'
  <2> SUFFICES ASSUME NEW k \in Mon, Orderly(k)' PROVE Ordered(notificationQueue', k)
    BY DEF OrderInv, Ordered
  <2>1. CASE k = m
    BY <1>1, <2>1
  <2>2. CASE k # m
    <3>1. Orderly(k)
      BY <2>2 DEF Orderly, Target
    <3> QED
      BY <1>1, <1>2, <2>2, <3>1
  <2> QED
    BY <2>1, <2>2
<1>9. CountInv'
  <2> DEFINE d == Cardinality(C) - Cardinality(B)
             j == Kind(m)
             K == OfKind(j)
  <2>1. /\ counted \in [{"data", "event"} -> Int]
        /\ \A k \in {"data", "event"} : counted[k] = Cardinality(B \cap OfKind(k))
    BY DEF IInv, CountInv, Subscribed
  <2>2. j \in {"data", "event"}
    BY DEF Kind
  <2>3. /\ Cardinality(B) \in Nat /\ Cardinality(C) \in Nat
        /\ Cardinality(B \cap K) \in Nat /\ Cardinality(C \cap K) \in Nat
        /\ Cardinality(B \ K) = Cardinality(B) - Cardinality(B \cap K)
        /\ Cardinality(C \ K) = Cardinality(C) - Cardinality(C \cap K)
    <3> HIDE DEF B, C, K
    <3>1. IsFiniteSet(B \cap K) /\ IsFiniteSet(C \cap K)
      BY <1>2, <1>3, FS_Subset DEF B, C
    <3>2. IsFiniteSet(B) /\ IsFiniteSet(C)
      BY <1>2, <1>3 DEF B, C
    <3> QED
      BY <3>1, <3>2, FS_CardinalityType, FS_Difference
  <2>4. B \ K = C \ K
    <3>1. \A x \in Notification : x \notin K => x.mon # m
      BY DEF OfKind
    <3>2. ASSUME NEW x \in B, x \notin K PROVE x \in C
      BY <1>1, <1>2, <3>1, <3>2
    <3>3. ASSUME NEW x \in C, x \notin K PROVE x \in B
      BY <1>1, <1>3, <3>1, <3>3
    <3> QED
      BY <3>2, <3>3
  <2>5. d \in Int /\ Cardinality(C \cap K) = Cardinality(B \cap K) + d
    <3> DEFINE b == Cardinality(B)
               c == Cardinality(C)
               bk == Cardinality(B \cap K)
               ck == Cardinality(C \cap K)
    <3>1. b - bk = c - ck
      BY <2>3, <2>4
    <3>2. b \in Nat /\ c \in Nat /\ bk \in Nat /\ ck \in Nat
      BY <2>3
    <3> HIDE DEF b, c, bk, ck
    <3>3. c - b \in Int /\ ck = bk + (c - b)
      BY <3>1, <3>2
    <3> QED
      BY <3>3 DEF b, c, bk, ck
  <2>6. ASSUME NEW k \in {"data", "event"}, k # j PROVE B \cap OfKind(k) = C \cap OfKind(k)
    <3>1. \A x \in Notification : x \in OfKind(k) => x.mon # m
      BY <2>6 DEF OfKind
    <3>2. ASSUME NEW x \in B, x \in OfKind(k) PROVE x \in C
      BY <1>1, <1>2, <3>1, <3>2
    <3>3. ASSUME NEW x \in C, x \in OfKind(k) PROVE x \in B
      BY <1>1, <1>3, <3>1, <3>3
    <3> QED
      BY <3>2, <3>3
  <2>7. counted' = [counted EXCEPT ![j] = @ + d]
    BY <1>1 DEF Counted
  <2> HIDE DEF d, j, K, B, C
  <2>8. /\ counted' \in [{"data", "event"} -> Int]
        /\ counted'[j] = counted[j] + d
        /\ \A k \in {"data", "event"} : k # j => counted'[k] = counted[k]
    BY <2>1, <2>2, <2>5, <2>7
  <2>9. ASSUME NEW k \in {"data", "event"}
        PROVE  counted'[k] = Cardinality(C \cap OfKind(k))
    <3>1. CASE k = j
      BY <2>1, <2>2, <2>5, <2>8, <3>1 DEF K
    <3>2. CASE k # j
      BY <2>1, <2>6, <2>8, <3>2
    <3> QED
      BY <3>1, <3>2
  <2> QED
    BY <2>8, <2>9 DEF CountInv, Subscribed, C, OfKind, Kind
<1> QED
    BY <1>1, <1>6, <1>7, <1>8, <1>9 DEF QueuesInv

\* The same when the queues stay as they are.
LEMMA QueuesStill ==
    ASSUME IInv, UNCHANGED <<queue, notificationQueue, counted, made>>,
           \A k \in Mon : Orderly(k)' => Orderly(k) \/ ToSet(queue[k]) = {},
           \A k \in Mon : k \in Registered => k \in Registered'
    PROVE  QueuesInv'
<1>1. queue \in [Mon -> Seq(Notification)] /\ notificationQueue \in Seq(Notification)
    BY DEF IInv, Queues
<1>2. QueueInv'
  <2> SUFFICES ASSUME NEW k \in Mon
               PROVE  /\ Ordered(queue[k], k)
                      /\ \A x \in ToSet(queue[k]) :
                            x.mon = k /\ x.n <= made /\ (x.over => k \in EventMon)
                      /\ Topped(ToSet(queue[k]))
                      /\ k \notin Registered' => ToSet(queue[k]) = {}
    BY DEF QueueInv, Holds, Topped
  <2> QED
    BY HeldFacts
<1>3. SubscribedInv'
    BY DEF IInv, SubscribedInv, Subscribed, Holds
<1>4. OrderInv'
  <2> SUFFICES ASSUME NEW k \in Mon, Orderly(k)' PROVE Ordered(notificationQueue, k)
    BY DEF OrderInv, Ordered
  <2>1. CASE ToSet(queue[k]) = {}
    <3>1. \A x \in ToSet(notificationQueue) : x.mon # k
      BY <2>1, SubscribedFacts
    <3>2. \A i \in 1..Len(notificationQueue) :
             notificationQueue[i] \in ToSet(notificationQueue)
      BY <1>1, ToSetFacts
    <3> QED
      BY <3>1, <3>2 DEF Ordered
  <2> QED
    BY <2>1, SubscribedFacts
<1>5. CountInv'
    BY DEF IInv, CountInv, Subscribed, OfKind, Kind
<1> QED
    BY <1>1, <1>2, <1>3, <1>4, <1>5 DEF QueuesInv

\* What a handler for m leaves alone of another item k.
Untouched(k) ==
    /\ queue'[k] = queue[k]
    /\ \A x \in ToSet(queue[k]) :
          /\ x \in ToSet(notificationQueue') <=> x \in ToSet(notificationQueue)
          /\ x \in flagged' <=> x \in flagged
    /\ mode'[k] = mode[k]
    /\ params'[k] = params[k]
    /\ k \in untold' <=> k \in untold
    /\ ~MakingSpace(k) /\ ~MakingSpace(k)'

\* An item that no handler touches stays as it should be.
LEMMA UntouchedOk ==
    ASSUME IInv, NEW k \in Mon, Untouched(k)
    PROVE  ItemOk(k)'
<1>1. /\ queue'[k] = queue[k]
      /\ \A x \in ToSet(queue[k]) :
            /\ x \in ToSet(notificationQueue') <=> x \in ToSet(notificationQueue)
            /\ x \in flagged' <=> x \in flagged
      /\ mode'[k] = mode[k]
      /\ params'[k] = params[k]
      /\ k \in untold' <=> k \in untold
      /\ ~MakingSpace(k) /\ ~MakingSpace(k)'
    BY DEF Untouched
<1>2. WholeOf(k) /\ SizeOf(k) /\ BitsOf(k) /\ ToldOf(k)
    BY DEF IInv, ItemsInv, ItemOk
<1>3. WholeOf(k)'
    BY <1>1, <1>2 DEF WholeOf, Holds, Subscribed, Target
<1>4. SizeOf(k)'
    BY <1>1, <1>2 DEF SizeOf, NormalOnes, Holds
<1>5. ~Modifying(k) /\ ~Modifying(k)'
    BY <1>1 DEF Modifying, MakingSpace
<1>6. BitsOf(k)'
    BY <1>1, <1>2, <1>5 DEF BitsOf, Holds
<1>7. ToldOf(k)'
    BY <1>1, <1>2, <1>5 DEF ToldOf, Sign, Holds, Subscribed, SignsLoss
<1> QED
    BY <1>3, <1>4, <1>6, <1>7 DEF ItemOk

\* A handler for m leaves all other items as they should be.
LEMMA OthersOk ==
    ASSUME IInv, NEW m \in Mon,
           Moved(m) \/ UNCHANGED <<queue, notificationQueue>>,
           \A x \in Notification : x.mon # m => (x \in flagged' <=> x \in flagged),
           \A k \in Mon : k # m => /\ mode'[k] = mode[k]
                                   /\ params'[k] = params[k]
                                   /\ k \in untold' <=> k \in untold
                                   /\ ~MakingSpace(k) /\ ~MakingSpace(k)',
           ItemOk(m)'
    PROVE  ItemsInv'
<1> SUFFICES ASSUME NEW k \in Mon PROVE ItemOk(k)'
    BY DEF ItemsInv, ItemOk, WholeOf, SizeOf, BitsOf, ToldOf
<1>1. CASE k = m
    BY <1>1
<1>2. CASE k # m
  <2>1. \A x \in ToSet(queue[k]) : x \in Notification /\ x.mon = k
    BY HeldFacts
  <2>2. \A x \in ToSet(queue[k]) : x \in flagged' <=> x \in flagged
    BY <1>2, <2>1
  <2>3. CASE Moved(m)
    <3>1. queue'[k] = queue[k]
      BY <1>2, <2>3 DEF Moved
    <3>2. /\ \A x \in ToSet(notificationQueue') :
                IF x.mon = m THEN x \in ToSet(queue'[m]) ELSE x \in ToSet(notificationQueue)
          /\ \A x \in ToSet(notificationQueue) : x.mon # m => x \in ToSet(notificationQueue')
      BY <2>3 DEF Moved
    <3>3. \A x \in ToSet(queue[k]) :
             x \in ToSet(notificationQueue') <=> x \in ToSet(notificationQueue)
      BY <1>2, <2>1, <3>2
    <3>4. Untouched(k)
      BY <1>2, <2>2, <3>1, <3>3 DEF Untouched
    <3> QED
      BY <3>4, UntouchedOk
  <2>4. CASE UNCHANGED <<queue, notificationQueue>>
    <3>1. Untouched(k)
      BY <1>2, <2>2, <2>4 DEF Untouched
    <3> QED
      BY <3>1, UntouchedOk
  <2> QED
    BY <2>3, <2>4
<1> QED
    BY <1>1, <1>2

\* What the calls in progress are.
LEMMA CallFacts ==
    ASSUME IInv
    PROVE  /\ call \in Calls
           /\ call = Idle => call.op = "idle" /\ \A k : ~MakingSpace(k) /\ ~Modifying(k)
           /\ \A k : MakingSpace(k) =>
                 /\ call \in [op : {"enqueue", "modify"}, mon : Mon, reporting : BOOLEAN]
                 /\ call # Idle /\ call.mon = k
           /\ call.op = "trigger" =>
                 /\ call \in [op : {"trigger"}, mon : Mon, link : Nat \ {0}]
                 /\ call # Idle /\ \A k : ~MakingSpace(k) /\ ~Modifying(k)
           /\ call.op = "sample" => call # Idle /\ \A k : ~MakingSpace(k) /\ ~Modifying(k)
<1>1. call \in Calls
    BY DEF IInv, Variables
<1>2. Idle.op = "idle"
    BY DEF Idle
<1>3. call = Idle => call.op = "idle" /\ \A k : ~MakingSpace(k) /\ ~Modifying(k)
    BY <1>2 DEF MakingSpace, Modifying
<1>4. ASSUME NEW k, MakingSpace(k)
      PROVE  /\ call \in [op : {"enqueue", "modify"}, mon : Mon, reporting : BOOLEAN]
             /\ call # Idle /\ call.mon = k
    BY <1>1, <1>2, <1>4 DEF MakingSpace, Calls
<1>5. ASSUME call.op = "trigger"
      PROVE  /\ call \in [op : {"trigger"}, mon : Mon, link : Nat \ {0}]
             /\ call # Idle /\ \A k : ~MakingSpace(k) /\ ~Modifying(k)
    BY <1>1, <1>2, <1>5 DEF MakingSpace, Modifying, Calls
<1>6. ASSUME call.op = "sample"
      PROVE  call # Idle /\ \A k : ~MakingSpace(k) /\ ~Modifying(k)
    BY <1>2, <1>6 DEF MakingSpace, Modifying
<1> QED
    BY <1>1, <1>3, <1>4, <1>5, <1>6

-----------------------------------------------------------------------------
(* Every step keeps the invariant.                                         *)

ControlInv == Variables /\ CallInv /\ LinksInv

\* The parts together.
LEMMA Together ==
    ASSUME ControlInv', QueuesInv', flagged' \subseteq Notification, FlagInv', ItemsInv'
    PROVE  IInv'
BY DEF IInv, ControlInv, QueuesInv, Queues

\* A notification is produced.
LEMMA EnqueueKeeps ==
    ASSUME IInv, NEW m \in Mon, Enqueue(m), m \in Registered,
           call = Idle \/ call.op = "sample",
           m \in EventMon => mode[m] \in {"sampling", "reporting"}
    PROVE  IInv'
<1> DEFINE x == [mon |-> m, n |-> made + 1, over |-> FALSE]
           report == mode[m] = "reporting" \/ (mode[m] = "sampling" /\ triggered[m])
           A == ToSet(queue[m])
           B == ToSet(notificationQueue)
<1>1. /\ Moved(m)
      /\ x \in Notification
      /\ ToSet(queue'[m]) = A \cup {x}
      /\ ToSet(notificationQueue') = B \cup (IF report THEN {x} ELSE {})
      /\ made' = made + 1
      /\ made' \in 0..MaxNotifications
      /\ queue'[m] # <<>>
    BY EnqueueEffect
<1>2. /\ triggered' = [triggered EXCEPT ![m] = @ /\ ~report]
      /\ call' = [op |-> "enqueue", mon |-> m, reporting |-> FALSE]
      /\ UNCHANGED <<mode, params, links, flagged, sent, untold>>
    BY DEF Enqueue
<1>3. made \in Nat /\ made' \in Nat /\ made <= made' /\ ~(made + 1 <= made)
  <2>1. made \in 0..MaxNotifications /\ MaxNotifications \in Nat
    BY NotificationAssumption DEF IInv, Variables
  <2> QED
    BY <1>1, <2>1
<1>4. x.n = made + 1 /\ x.mon = m /\ ~x.over
    BY <1>1 DEF Notification
<1>5. \A k : ~MakingSpace(k) /\ ~Modifying(k)
    BY CallFacts
<1>6. /\ call'.op = "enqueue" /\ call'.mon = m /\ call'.reporting = FALSE
      /\ call' # Idle /\ call' \in Calls
    BY <1>2 DEF Idle, Calls
<1>7. /\ MakingSpace(m)' /\ ~Modifying(m)'
      /\ \A k \in Mon : k # m => ~MakingSpace(k)'
    BY <1>6 DEF MakingSpace, Modifying
<1> HIDE DEF x
<1>8. ControlInv'
  <2>1. triggered' \in [Mon -> BOOLEAN] /\ \A k \in Mon : triggered'[k] => triggered[k]
    BY <1>2 DEF IInv, Variables
  <2>2. sent' \in [Mon -> 0..made']
    BY <1>2, <1>3 DEF IInv, Variables
  <2>3. Registered' = Registered
    BY <1>2 DEF Registered
  <2>4. Variables'
    BY <1>1, <1>2, <1>6, <2>1, <2>2, <2>3 DEF IInv, Variables
  <2>5. CallInv'
    BY <1>1, <1>6, <2>3 DEF CallInv
  <2>6. LinksInv'
    BY <1>2, <2>1 DEF IInv, LinksInv, Target
  <2> QED
    BY <2>4, <2>5, <2>6 DEF ControlInv
<1>9. /\ \A y \in A : y \in Notification /\ y.mon = m /\ y.n <= made /\ (y.over => m \in EventMon)
      /\ Topped(A)
    BY HeldFacts
<1>10. QueuesInv'
  <2>1. \A y \in A \cup {x} : y.mon = m /\ y.n <= made' /\ (y.over => m \in EventMon)
    <3>1. ASSUME NEW y \in A PROVE y.n <= made'
      <4>1. y.n \in Int /\ y.n <= made
        BY <1>9, NotificationAssumption DEF Notification
      <4> QED
        BY <1>3, <4>1
    <3> QED
      BY <1>1, <1>3, <1>4, <1>9, <3>1
  <2>2. Topped(A \cup {x})
    BY <1>4, <1>9 DEF Topped
  <2>3. m \in Registered'
    BY <1>2 DEF Registered
  <2> QED
    <3>1. /\ made' \in Int /\ made <= made'
          /\ \A k \in Mon : k # m => mode'[k] = mode[k]
      BY <1>2, <1>3
    <3>2. /\ \A y \in ToSet(queue'[m]) :
                y.mon = m /\ y.n <= made' /\ (y.over => m \in EventMon)
          /\ Topped(ToSet(queue'[m]))
      BY <1>1, <2>1, <2>2
    <3> QED
      BY <1>1, <2>3, <3>1, <3>2, QueuesMoved
<1>11. /\ x \notin flagged
       /\ x \notin B
       /\ flagged \subseteq Notification
       /\ \A y \in flagged : y.n <= made /\ y.mon \notin EventMon
  <2>1. \A y \in flagged : y.n <= made /\ y.mon \notin EventMon
    BY DEF IInv, FlagInv
  <2>2. flagged \subseteq Notification
    BY DEF IInv, Queues
  <2>3. \A y \in B : y.mon = m => y.n <= made
    BY <1>9, SubscribedFacts
  <2> QED
    BY <1>3, <1>4, <2>1, <2>2, <2>3
<1>12. flagged' \subseteq Notification /\ FlagInv'
  <2>1. ASSUME NEW y \in flagged PROVE y.n <= made' /\ y.mon \notin EventMon
    <3>1. y.n \in Int /\ y.n <= made /\ y.mon \notin EventMon
      BY <1>11, NotificationAssumption DEF Notification
    <3> QED
      BY <1>3, <3>1
  <2> QED
    BY <1>2, <1>11, <2>1 DEF FlagInv
<1>13. WholeOf(m) /\ BitsOf(m) /\ ToldOf(m)
    BY DEF IInv, ItemsInv, ItemOk
<1>14. WholeOf(m)'
  <2>1. mode[m] = "reporting" => A \subseteq B
    BY <1>13 DEF WholeOf, Holds, Subscribed
  <2>2. mode[m] = "reporting" => A \cup {x} \subseteq B \cup (IF report THEN {x} ELSE {})
    BY <2>1
  <2>3. ASSUME m \in EventMon, ~Target(m), mode[m] = "sampling"
        PROVE  (A \cup {x}) \cap (B \cup (IF report THEN {x} ELSE {})) = {}
    <3>1. ~triggered[m]
      BY <2>3 DEF IInv, LinksInv
    <3>2. A \cap B = {}
      BY <1>13, <2>3 DEF WholeOf, Holds, Subscribed
    <3> QED
      BY <1>11, <2>3, <3>1, <3>2
  <2> QED
    BY <1>1, <1>2, <1>6, <2>2, <2>3 DEF WholeOf, Holds, Subscribed, Target
<1>15. SizeOf(m)'
    BY <1>7 DEF SizeOf
<1>16. BitsOf(m)'
    BY <1>1, <1>2, <1>5, <1>11, <1>13 DEF BitsOf, Holds
<1>17. ToldOf(m)'
    BY <1>1, <1>2, <1>5, <1>13 DEF ToldOf, Sign, Holds, Subscribed, SignsLoss
<1>18. ItemsInv'
    BY <1>1, <1>2, <1>5, <1>7, <1>14, <1>15, <1>16, <1>17, OthersOk DEF ItemOk
<1> QED
    BY <1>8, <1>10, <1>12, <1>18, Together

\* A notification is removed to make room.
LEMMA RemoveOneKeeps ==
    ASSUME IInv, NEW m \in Mon, RemoveOne(m)
    PROVE  IInv'
<1> DEFINE del == queue[m][Victim(m)]
           A == ToSet(queue[m])
           B == ToSet(notificationQueue)
<1>1. /\ Moved(m)
      /\ del \in A
      /\ ~del.over
      /\ ToSet(queue'[m]) = A \ {del}
      /\ ToSet(notificationQueue') = B \ {del}
      /\ flagged' = flagged \ {del}
      /\ call' = [call EXCEPT !.reporting = @ \/ Reported(del)]
      /\ untold' = IF Reported(del) /\ SignsLoss(m) THEN untold \cup {m} ELSE untold
      /\ \E y \in ToSet(queue'[m]) : ~y.over /\ del.n < y.n
    BY RemoveOneEffect
<1> HIDE DEF del
<1>2. MakingSpace(m) /\ UNCHANGED <<mode, params, links, triggered, made, sent>>
    BY DEF RemoveOne, itemVars
<1>3. /\ call \in [op : {"enqueue", "modify"}, mon : Mon, reporting : BOOLEAN]
      /\ call # Idle /\ call.mon = m
    BY <1>2, CallFacts
<1>4. /\ call' \in [op : {"enqueue", "modify"}, mon : Mon, reporting : BOOLEAN]
      /\ call'.op = call.op /\ call'.mon = m
      /\ call'.reporting <=> call.reporting \/ del \in B
    BY <1>1, <1>3 DEF Reported
<1>5. /\ MakingSpace(m)'
      /\ Modifying(m)' <=> Modifying(m)
      /\ \A k \in Mon : k # m => ~MakingSpace(k) /\ ~MakingSpace(k)'
    BY <1>3, <1>4 DEF MakingSpace, Modifying
<1>6. /\ \A y \in A : y \in Notification /\ y.mon = m /\ y.n <= made /\ (y.over => m \in EventMon)
      /\ Topped(A)
      /\ m \notin Registered => A = {}
    BY HeldFacts
<1>7. made \in Int /\ \A y \in A : y.n \in Int
    BY <1>6, NotificationAssumption DEF Notification, IInv, Variables
<1>8. queue'[m] # <<>>
  <2>1. queue'[m] \in Seq(Notification) /\ ToSet(queue'[m]) # {}
    BY <1>1 DEF Moved
  <2> QED
    BY <2>1, ToSetFacts
<1>9. ControlInv'
  <2>1. Registered' = Registered
    BY <1>2 DEF Registered
  <2>2. call' \in Calls
    BY <1>4 DEF Calls
  <2>3. m \in Registered
    BY <1>1, <1>6
  <2>4. Variables'
    BY <1>1, <1>2, <2>1, <2>2, <2>3 DEF IInv, Variables
  <2>5. CallInv'
    BY <1>4, <1>8, <2>1, <2>3 DEF CallInv
  <2>6. LinksInv'
    BY <1>2 DEF IInv, LinksInv, Target
  <2> QED
    BY <2>4, <2>5, <2>6 DEF ControlInv
<1>10. QueuesInv'
  <2>1. Topped(A \ {del})
    <3>1. PICK y \in A \ {del} : ~y.over /\ del.n < y.n
      BY <1>1
    <3>2. ASSUME NEW z \in A \ {del}, z.over
          PROVE  \E u \in A \ {del} : ~u.over /\ z.n <= u.n
      <4>1. PICK u \in A : ~u.over /\ z.n <= u.n
        BY <1>6, <3>2 DEF Topped
      <4>2. CASE u # del
        BY <4>1, <4>2
      <4>3. CASE u = del
        <5>1. z.n <= y.n
          BY <1>1, <1>7, <3>1, <4>1, <4>3
        <5> QED
          BY <3>1, <5>1
      <4> QED
        BY <4>2, <4>3
    <3> QED
      BY <3>2 DEF Topped
  <2>2. m \in Registered'
    BY <1>1, <1>2, <1>6 DEF Registered
  <2> QED
    <3>1. /\ made' \in Int /\ made <= made'
          /\ \A k \in Mon : k # m => mode'[k] = mode[k]
      BY <1>2, <1>7
    <3>2. /\ \A y \in ToSet(queue'[m]) :
                y.mon = m /\ y.n <= made' /\ (y.over => m \in EventMon)
          /\ Topped(ToSet(queue'[m]))
      BY <1>1, <1>2, <1>6, <2>1
    <3> QED
      BY <1>1, <2>2, <3>1, <3>2, QueuesMoved
<1>11. flagged' \subseteq Notification /\ FlagInv'
    BY <1>1, <1>2 DEF IInv, Queues, FlagInv
<1>12. WholeOf(m) /\ BitsOf(m) /\ ToldOf(m)
    BY DEF IInv, ItemsInv, ItemOk
<1>13. WholeOf(m)'
  <2>1. mode[m] = "reporting" => A \ {del} \subseteq B \ {del}
    BY <1>12 DEF WholeOf, Holds, Subscribed
  <2>2. ASSUME m \in EventMon, ~Target(m)
        PROVE  /\ mode[m] = "sampling" => (A \ {del}) \cap (B \ {del}) = {}
               /\ A \ {del} \subseteq B \ {del} \/ (A \ {del}) \cap (B \ {del}) = {}
               /\ call.reporting \/ del \in B => A \ {del} \subseteq B \ {del}
    <3>1. /\ mode[m] = "sampling" => A \cap B = {}
          /\ A \subseteq B \/ A \cap B = {}
          /\ call.reporting => A \subseteq B
      BY <1>2, <1>12, <2>2 DEF WholeOf, Holds, Subscribed
    <3> QED
      BY <1>1, <3>1
  <2> QED
    BY <1>1, <1>2, <1>4, <2>1, <2>2 DEF WholeOf, Holds, Subscribed, Target
<1>14. SizeOf(m)'
    BY <1>5 DEF SizeOf
<1>15. BitsOf(m)'
    BY <1>1, <1>2, <1>5, <1>12 DEF BitsOf, Holds
<1>16. ToldOf(m)'
  <2> SUFFICES ASSUME m \in untold', mode[m] = "reporting"
               PROVE  /\ Sign(m)' \/ (MakingSpace(m)' /\ call'.reporting)
                      /\ SignsLoss(m)' \/ Modifying(m)'
    BY <1>2 DEF ToldOf
  <2>1. del \in B
    BY <1>1, <1>12 DEF WholeOf, Holds, Subscribed
  <2>2. SignsLoss(m)' <=> SignsLoss(m)
    BY <1>2 DEF SignsLoss
  <2> QED
    BY <1>1, <1>4, <1>5, <1>12, <2>1, <2>2 DEF ToldOf, Reported
<1>17. ItemsInv'
  <2>1. \A y \in Notification : y.mon # m => (y \in flagged' <=> y \in flagged)
    BY <1>1, <1>6
  <2>2. \A k \in Mon : k # m => (k \in untold' <=> k \in untold)
    BY <1>1
  <2> QED
    BY <1>1, <1>2, <1>5, <1>13, <1>14, <1>15, <1>16, <2>1, <2>2, OthersOk DEF ItemOk
<1> QED
    BY <1>9, <1>10, <1>11, <1>17, Together

\* What a completed ensureQueueSpace leaves of the control state.
LEMMA ContinueKeeps ==
    ASSUME IInv, NEW m \in Mon, MakingSpace(m), Continue(m),
           UNCHANGED <<itemVars, made, sent>>, untold' \subseteq untold
    PROVE  /\ ControlInv'
           /\ \A k : ~MakingSpace(k)' /\ ~Modifying(k)'
           /\ \A k \in Mon : k # m => ~MakingSpace(k)
<1>1. /\ call \in [op : {"enqueue", "modify"}, mon : Mon, reporting : BOOLEAN]
      /\ call # Idle /\ call.mon = m
    BY CallFacts
<1>2. \A k \in Mon : k # m => ~MakingSpace(k)
    BY <1>1 DEF MakingSpace
<1>3. Registered' = Registered
    BY DEF Registered, itemVars
<1>4. m \in Registered
    BY <1>1 DEF IInv, CallInv
<1>5. LinksInv'
    BY DEF IInv, LinksInv, Target, itemVars
<1>6. /\ links[m] \in Seq(Mon)
      /\ links' = links
    BY DEF IInv, Variables, itemVars
<1>7. ASSUME call' \in Calls PROVE Variables'
    BY <1>3, <1>7 DEF IInv, Variables, itemVars
<1>8. CASE call' = Idle
  <2>1. call'.op = "idle" /\ call' \in Calls
    BY <1>8 DEF Idle, Calls
  <2>2. CallInv' /\ \A k : ~MakingSpace(k)' /\ ~Modifying(k)'
    BY <1>8, <2>1 DEF CallInv, MakingSpace, Modifying, Idle
  <2> QED
    BY <1>2, <1>5, <1>7, <2>1, <2>2 DEF ControlInv
<1>9. CASE links[m] # <<>> /\ call' = [op |-> "trigger", mon |-> m, link |-> Len(links[m])]
  <2>1. Len(links[m]) \in 1..Len(links[m]) /\ Len(links[m]) \in Nat \ {0}
    BY <1>6, <1>9, LenProperties, EmptySeq
  <2>2. /\ call'.op = "trigger" /\ call'.mon = m /\ call'.link = Len(links[m])
        /\ call' \in Calls
    BY <1>9, <2>1 DEF Calls
  <2>3. CallInv'
    BY <1>3, <1>4, <1>6, <2>1, <2>2 DEF CallInv
  <2>4. \A k : ~MakingSpace(k)' /\ ~Modifying(k)'
    BY <2>2 DEF MakingSpace, Modifying
  <2> QED
    BY <1>2, <1>5, <1>7, <2>2, <2>3, <2>4 DEF ControlInv
<1> QED
    BY <1>8, <1>9 DEF Continue

\* There is room for what m holds.
LEMMA RoomFacts ==
    ASSUME IInv, NEW m \in Mon, ~TooMany(m)
    PROVE  Cardinality(NormalOnes(m)) <= params[m].size
<1>1. params[m].size \in Nat
  <2>1. params[m] \in Settings
    BY DEF IInv, Variables
  <2>2. params[m] \in [size : Nat \ {0}, discardOldest : BOOLEAN]
    BY <2>1, NotificationAssumption
  <2> QED
    BY <2>2
<1>2. /\ Cardinality(Normal(m)) = Cardinality(NormalOnes(m))
      /\ Cardinality(Normal(m)) \in Nat
    BY NormalFacts, FS_CardinalityType
<1> QED
    BY <1>1, <1>2 DEF TooMany

\* The indicator of a non-empty queue is in it.
LEMMA IndicatorFacts ==
    ASSUME IInv, NEW m \in Mon, queue[m] # <<>>
    PROVE  Indicator(m) \in ToSet(queue[m])
<1>1. queue[m] \in Seq(Notification) /\ Len(queue[m]) \in 1..Len(queue[m])
      /\ Last(queue[m]) \in ToSet(queue[m])
    BY HeldFacts, LastFacts
<1>2. 1 \in 1..Len(queue[m])
    BY <1>1
<1>3. queue[m][1] \in ToSet(queue[m])
    BY <1>1, <1>2, ToSetFacts
<1> QED
    BY <1>1, <1>3 DEF Indicator

\* The room is made, and a value item gets its overflow bits.
LEMMA SpaceMadeKeeps ==
    ASSUME IInv, NEW m \in Mon, SpaceMade(m)
    PROVE  IInv'
<1> DEFINE A == ToSet(queue[m])
           B == ToSet(notificationQueue)
           marks == IF call.reporting THEN Marked(m) ELSE {}
<1>1. /\ MakingSpace(m)
      /\ ~TooMany(m)
      /\ ~call.reporting \/ m \notin EventMon
      /\ flagged' = (flagged \cup marks) \ Unmarked(m)
      /\ untold' = IF Unmarked(m) = {} THEN untold ELSE untold \ {m}
      /\ Continue(m)
      /\ UNCHANGED <<itemVars, queue, notificationQueue, counted, made, sent>>
      /\ UNCHANGED <<mode, params, links, triggered>>
    BY DEF SpaceMade, itemVars
<1>2. /\ call \in [op : {"enqueue", "modify"}, mon : Mon, reporting : BOOLEAN]
      /\ call.mon = m
    BY <1>1, CallFacts
<1>3. /\ ControlInv'
      /\ \A k : ~MakingSpace(k)' /\ ~Modifying(k)'
      /\ \A k \in Mon : k # m => ~MakingSpace(k)
  <2>1. untold' \subseteq untold
    BY <1>1
  <2> QED
    BY <1>1, <2>1, ContinueKeeps
<1>4. QueuesInv'
  <2>1. \A k \in Mon : Orderly(k)' => Orderly(k)
    BY <1>1 DEF Orderly, Target
  <2>2. Registered' = Registered
    BY <1>1 DEF Registered
  <2> QED
    BY <1>1, <2>1, <2>2, QueuesStill
<1>5. \A y \in A : y \in Notification /\ y.mon = m /\ y.n <= made
    BY HeldFacts
<1>6. marks \subseteq A /\ (marks # {} => m \notin EventMon)
  <2>1. call.reporting => queue[m] # <<>>
    BY <1>2 DEF IInv, CallInv
  <2> QED
    BY <1>1, <2>1, IndicatorFacts DEF Marked
<1>7. Unmarked(m) = IF call.op = "modify" /\ params[m].size = 1 /\ m \notin EventMon
                    THEN A ELSE {}
    BY DEF Unmarked
<1> HIDE DEF marks
<1>8. flagged' \subseteq Notification /\ FlagInv'
    BY <1>1, <1>5, <1>6 DEF IInv, Queues, FlagInv
<1>9. WholeOf(m) /\ BitsOf(m) /\ ToldOf(m)
    BY DEF IInv, ItemsInv, ItemOk
<1>10. WholeOf(m)'
    BY <1>1, <1>3, <1>9 DEF WholeOf, Holds, Subscribed, Target
<1>11. SizeOf(m)'
  <2>1. Cardinality(NormalOnes(m)) <= params[m].size
    BY <1>1, RoomFacts
  <2> QED
    BY <1>1, <2>1 DEF SizeOf, NormalOnes, Holds
<1>12. BitsOf(m)'
  <2> SUFFICES ASSUME m \notin EventMon, params[m].size = 1 PROVE A \cap flagged' = {}
    BY <1>1 DEF BitsOf, Holds
  <2>1. CASE call.op = "modify"
    BY <1>1, <1>7, <2>1
  <2>2. CASE call.op # "modify"
    <3>1. A \cap flagged = {}
      BY <1>9, <2>2 DEF BitsOf, Modifying, Holds
    <3>2. marks = {}
      BY DEF marks, Marked
    <3> QED
      BY <1>1, <3>1, <3>2
  <2> QED
    BY <2>1, <2>2
<1>13. ToldOf(m)'
  <2> SUFFICES ASSUME m \in untold', mode[m] = "reporting"
               PROVE  Sign(m)' /\ SignsLoss(m)'
    BY <1>1 DEF ToldOf
  <2>1. Unmarked(m) = {} /\ m \in untold
    BY <1>1
  <2>2. A \subseteq B
    BY <1>9 DEF WholeOf, Holds, Subscribed
  <2>3. /\ Sign(m) \/ call.reporting
        /\ SignsLoss(m) \/ Modifying(m)
    BY <1>9, <2>1 DEF ToldOf
  <2>4. A # {}
    <3>1. call.reporting => queue[m] # <<>>
      BY <1>2 DEF IInv, CallInv
    <3>2. queue[m] \in Seq(Notification)
      BY HeldFacts
    <3>3. call.reporting => A # {}
      BY <3>1, <3>2, ToSetFacts
    <3> QED
      BY <2>3, <3>3 DEF Sign, Holds
  <2>5. SignsLoss(m)
    <3>1. CASE Modifying(m) /\ ~SignsLoss(m)
      <4>1. params[m].size = 1
        <5>1. params[m] \in Settings
          BY DEF IInv, Variables
        <5>2. params[m] \in [size : Nat \ {0}, discardOldest : BOOLEAN]
          BY <5>1, NotificationAssumption
        <5>3. params[m].size \in Nat \ {0} /\ ~(params[m].size > 1)
          BY <3>1, <5>2 DEF SignsLoss
        <5> QED
          BY <5>3
      <4> QED
        BY <1>7, <2>1, <2>4, <3>1, <4>1 DEF Modifying, SignsLoss
    <3> QED
      BY <2>3, <3>1
  <2>6. \E x \in A : x \in B /\ (x.over \/ x \in flagged')
    <3>1. CASE call.reporting
      <4>1. m \notin EventMon /\ params[m].size # 1
        BY <1>1, <2>5, <3>1 DEF SignsLoss
      <4>2. marks = {Indicator(m)}
        BY <3>1, <4>1 DEF marks, Marked
      <4> QED
        BY <1>1, <1>6, <2>1, <2>2, <4>2
    <3>2. CASE ~call.reporting
      <4>1. \E x \in A : x \in B /\ (x.over \/ x \in flagged)
        BY <2>3, <3>2 DEF Sign, Holds, Subscribed
      <4> QED
        BY <1>1, <2>1, <4>1
    <3> QED
      BY <3>1, <3>2
  <2>7. Sign(m)'
    BY <1>1, <2>6 DEF Sign, Holds, Subscribed
  <2> QED
    BY <1>1, <2>5, <2>7 DEF SignsLoss
<1>14. ItemsInv'
  <2>1. \A y \in Notification : y.mon # m => (y \in flagged' <=> y \in flagged)
    BY <1>1, <1>5, <1>6, <1>7
  <2>2. \A k \in Mon : k # m => (k \in untold' <=> k \in untold)
    BY <1>1
  <2> QED
    BY <1>1, <1>3, <1>10, <1>11, <1>12, <1>13, <2>1, <2>2, OthersOk DEF ItemOk
<1> QED
    BY <1>3, <1>4, <1>8, <1>14, Together

\* The room is made for an event, with an overflow event.
LEMMA EventOverflowKeeps ==
    ASSUME IInv, NEW m \in Mon, EventOverflow(m)
    PROVE  IInv'
<1> DEFINE A == ToSet(queue[m])
           B == ToSet(notificationQueue)
<1>1. /\ MakingSpace(m)
      /\ ~TooMany(m)
      /\ call.reporting /\ m \in EventMon
      /\ AdjacentOverflow(m) => UNCHANGED queueVars
      /\ Continue(m)
      /\ UNCHANGED <<itemVars, made, sent, untold>>
      /\ UNCHANGED <<mode, params, links, triggered>>
    BY DEF EventOverflow, itemVars
<1>2. /\ call \in [op : {"enqueue", "modify"}, mon : Mon, reporting : BOOLEAN]
      /\ call.mon = m
    BY <1>1, CallFacts
<1>3. /\ ControlInv'
      /\ \A k : ~MakingSpace(k)' /\ ~Modifying(k)'
      /\ \A k \in Mon : k # m => ~MakingSpace(k)
    BY <1>1, ContinueKeeps
<1>4. WholeOf(m) /\ BitsOf(m) /\ ToldOf(m)
    BY DEF IInv, ItemsInv, ItemOk
<1>5. queue[m] # <<>>
    BY <1>1, <1>2 DEF IInv, CallInv
<1>6. /\ queue[m] \in Seq(Notification)
      /\ \A y \in A : y \in Notification /\ y.mon = m /\ y.n <= made
      /\ Topped(A)
      /\ m \notin Registered => A = {}
    BY HeldFacts
<1>7. A # {}
    BY <1>5, <1>6, ToSetFacts
<1>8. SignsLoss(m)' /\ BitsOf(m)'
    BY <1>1 DEF SignsLoss, BitsOf
<1>9. Cardinality(NormalOnes(m)) <= params[m].size
    BY <1>1, RoomFacts
<1>10. Registered' = Registered /\ \A k \in Mon : Orderly(k)' => Orderly(k)
    BY <1>1 DEF Registered, Orderly, Target
<1>11. CASE AdjacentOverflow(m)
  <2>1. UNCHANGED <<queue, notificationQueue, flagged, counted>>
    BY <1>1, <1>11 DEF queueVars
  <2>2. QueuesInv'
    BY <1>1, <1>10, <2>1, QueuesStill
  <2>3. flagged' \subseteq Notification /\ FlagInv'
    BY <1>1, <2>1 DEF IInv, Queues, FlagInv
  <2>4. WholeOf(m)'
    BY <1>1, <1>3, <1>4, <2>1 DEF WholeOf, Holds, Subscribed, Target
  <2>5. SizeOf(m)'
    BY <1>1, <1>9, <2>1 DEF SizeOf, NormalOnes, Holds
  <2>6. ToldOf(m)'
    <3> SUFFICES ASSUME mode[m] = "reporting" PROVE Sign(m)'
      BY <1>1, <1>8 DEF ToldOf
    <3>1. A \subseteq B
      BY <1>4 DEF WholeOf, Holds, Subscribed
    <3>2. \E x \in A : x.over
      <4>1. Len(queue[m]) \in 1..Len(queue[m]) /\ Len(queue[m]) \in Nat
        BY <1>5, LastFacts
      <4>2. \A i \in 1..Len(queue[m]) : queue[m][i] \in A
        BY <1>6, ToSetFacts
      <4>3. CASE params[m].discardOldest
        <5>1. 1 \in 1..Len(queue[m]) /\ queue[m][1].over
          BY <1>5, <1>11, <4>1, <4>3 DEF AdjacentOverflow
        <5> QED
          BY <4>2, <5>1
      <4>4. CASE ~params[m].discardOldest
        <5>1. Len(queue[m]) > 1 /\ queue[m][Len(queue[m]) - 1].over
          BY <1>11, <4>4 DEF AdjacentOverflow
        <5>2. Len(queue[m]) - 1 \in 1..Len(queue[m])
          BY <4>1, <5>1
        <5> QED
          BY <4>2, <5>1, <5>2
      <4> QED
        BY <4>3, <4>4
    <3> QED
      BY <2>1, <3>1, <3>2 DEF Sign, Holds, Subscribed
  <2>7. ItemsInv'
    BY <1>1, <1>3, <1>8, <2>1, <2>4, <2>5, <2>6, OthersOk DEF ItemOk
  <2> QED
    BY <1>3, <2>2, <2>3, <2>7, Together
<1>12. CASE ~AdjacentOverflow(m)
  <2> DEFINE at == Indicator(m)
             ov == [at EXCEPT !.over = TRUE]
  <2>1. /\ Moved(m)
        /\ at \in A
        /\ ~at.over
        /\ ov \in Notification
        /\ ov.mon = m /\ ov.n = at.n /\ ov.over
        /\ ToSet(queue'[m]) = A \cup {ov}
        /\ ToSet(notificationQueue') = B \cup {ov}
        /\ flagged' = flagged
    BY <1>12, OverflowEffect
  <2> HIDE DEF at, ov
  <2>2. made \in Int /\ at.n \in Int
    BY <1>6, <2>1, NotificationAssumption DEF Notification, IInv, Variables
  <2>3. QueuesInv'
    <3>1. made' \in Int /\ made <= made' /\ \A k \in Mon : k # m => mode'[k] = mode[k]
      BY <1>1, <2>2
    <3>2. \A y \in ToSet(queue'[m]) : y.mon = m /\ y.n <= made' /\ (y.over => m \in EventMon)
      BY <1>1, <1>6, <2>1
    <3>3. Topped(ToSet(queue'[m]))
      <4>1. at.n <= at.n
        BY <2>2
      <4> QED
        BY <1>6, <2>1, <4>1 DEF Topped
    <3>4. m \in Registered'
      BY <1>6, <1>7, <1>10
    <3> QED
      BY <2>1, <3>1, <3>2, <3>3, <3>4, QueuesMoved
  <2>4. flagged' \subseteq Notification /\ FlagInv'
    BY <1>1, <2>1 DEF IInv, Queues, FlagInv
  <2>5. WholeOf(m)'
    <3>1. mode[m] = "reporting" => A \subseteq B
      BY <1>4 DEF WholeOf, Holds, Subscribed
    <3>2. ~Target(m) => A \subseteq B /\ mode[m] # "sampling"
      BY <1>1, <1>4, <1>7 DEF WholeOf, Holds, Subscribed
    <3> QED
      BY <1>1, <1>3, <2>1, <3>1, <3>2 DEF WholeOf, Holds, Subscribed, Target
  <2>6. SizeOf(m)'
    <3>1. {x \in A \cup {ov} : ~x.over} = {x \in A : ~x.over}
      BY <2>1
    <3> QED
      BY <1>1, <1>9, <2>1, <3>1 DEF SizeOf, NormalOnes, Holds
  <2>7. ToldOf(m)'
    <3>1. Sign(m)'
      BY <2>1 DEF Sign, Holds, Subscribed
    <3> QED
      BY <1>8, <3>1 DEF ToldOf
  <2>8. ItemsInv'
    BY <1>1, <1>3, <1>8, <2>1, <2>5, <2>6, <2>7, OthersOk DEF ItemOk
  <2> QED
    BY <1>3, <2>3, <2>4, <2>8, Together
<1> QED
    BY <1>11, <1>12

\* A step that leaves the queues, modes and settings alone.
LEMMA QuietKeeps ==
    ASSUME IInv, ControlInv',
           UNCHANGED <<mode, params, queue, notificationQueue, flagged, counted, made, untold>>,
           \A k \in Mon : ~MakingSpace(k) /\ ~MakingSpace(k)'
    PROVE  IInv'
<1>1. QueuesInv'
  <2>1. \A k \in Mon : Orderly(k)' => Orderly(k)
    BY DEF Orderly, Target
  <2>2. Registered' = Registered
    BY DEF Registered
  <2> QED
    BY <2>1, <2>2, QueuesStill
<1>2. flagged' \subseteq Notification /\ FlagInv'
    BY DEF IInv, Queues, FlagInv
<1>3. ItemsInv'
  <2> SUFFICES ASSUME NEW k \in Mon PROVE ItemOk(k)'
    BY DEF ItemsInv, ItemOk, WholeOf, SizeOf, BitsOf, ToldOf
  <2>1. Untouched(k)
    BY DEF Untouched
  <2> QED
    BY <2>1, UntouchedOk
<1> QED
    BY <1>1, <1>2, <1>3, Together

\* A list of links without its i-th.
LEMMA UnlinkedFacts ==
    ASSUME NEW list \in Seq(Mon), NEW i \in 1..Len(list)
    PROVE  /\ Unlinked(list, i) \in Seq(Mon)
           /\ Len(Unlinked(list, i)) = Len(list) - 1
           /\ ToSet(Unlinked(list, i)) \subseteq ToSet(list)
<1> DEFINE n == Len(list)
           e == [list EXCEPT ![i] = Last(list)]
           w == Unlinked(list, i)
<1>1. n \in Nat /\ n \in 1..n /\ n - 1 \in Nat
    BY LenProperties
<1>2. \A j \in 1..n : list[j] \in Mon /\ list[j] \in ToSet(list)
    BY ToSetFacts
<1>3. Last(list) = list[n]
    BY DEF Last
<1>4. /\ e \in Seq(Mon) /\ Len(e) = n
      /\ \A j \in 1..n : e[j] = IF j = i THEN list[n] ELSE list[j]
  <2>1. Last(list) \in Mon
    BY <1>1, <1>2, <1>3
  <2> QED
    BY <1>3, <2>1, ExceptSeq
<1> HIDE DEF e
<1>5. w = SubSeq(e, 1, n - 1)
    BY <1>4 DEF Unlinked, DropLast, e
<1>6. \A j \in 1..n - 1 : e[j] \in Mon /\ e[j] \in ToSet(list)
    BY <1>1, <1>2, <1>4
<1>7. /\ w \in Seq(Mon) /\ Len(w) = n - 1
      /\ \A j \in 1..n - 1 : w[j] = e[j]
  <2> DEFINE k == n - 1
  <2>1. k \in Nat /\ \A j \in 1..k : e[j] \in Mon
    BY <1>1, <1>6
  <2>2. w = SubSeq(e, 1, k)
    BY <1>5
  <2> HIDE DEF k, w
  <2>3. /\ w \in Seq(Mon)
        /\ Len(w) = k
    BY <2>1, <2>2, SubSeqProperties
  <2>4. ASSUME NEW j \in 1..k PROVE w[j] = e[j]
    <3>1. SubSeq(e, 1, k)[j] = e[1 + j - 1]
      BY <2>1, SubSeqProperties
    <3>2. 1 + j - 1 = j
      BY <2>1
    <3> QED
      BY <2>2, <3>1, <3>2
  <2> QED
    BY <2>3, <2>4 DEF k
<1> HIDE DEF w
<1>8. ToSet(w) \subseteq ToSet(list)
  <2>1. \A y \in ToSet(w) : \E j \in 1..Len(w) : w[j] = y
    BY <1>7, ToSetFacts
  <2> QED
    BY <1>6, <1>7, <2>1
<1> QED
    BY <1>7, <1>8 DEF w

\* The next of the links to trigger.
LEMMA NextLinkFacts ==
    ASSUME IInv, NEW m \in Mon, call.op = "trigger", call.mon = m, NextLink,
           Registered' = Registered, links'[m] \in Seq(Mon),
           Len(links'[m]) >= Len(links[m]) - 1
    PROVE  call' \in Calls /\ CallInv' /\ \A k : ~MakingSpace(k)'
<1>1. call \in [op : {"trigger"}, mon : Mon, link : Nat \ {0}]
    BY CallFacts
<1>2. call.link \in 1..Len(links[m]) /\ m \in Registered /\ Len(links[m]) \in Nat
  <2>1. links[m] \in Seq(Mon)
    BY DEF IInv, Variables
  <2>2. call # Idle
    BY CallFacts
  <2> QED
    BY <2>1, <2>2, LenProperties DEF IInv, CallInv
<1>3. CASE call' = Idle
  <2>1. call'.op = "idle" /\ call' \in Calls
    BY <1>3 DEF Idle, Calls
  <2> QED
    BY <1>3, <2>1 DEF CallInv, MakingSpace, Idle
<1>4. CASE call.link # 1 /\ call' = [call EXCEPT !.link = @ - 1]
  <2> DEFINE l == call.link - 1
  <2>1. l \in Nat \ {0} /\ l \in 1..Len(links'[m])
    BY <1>2, <1>4, LenProperties
  <2>2. call' = [call EXCEPT !.link = l]
    BY <1>4
  <2> HIDE DEF l
  <2>3. /\ call' \in [op : {"trigger"}, mon : Mon, link : Nat \ {0}]
        /\ call'.op = "trigger" /\ call'.mon = m /\ call'.link = l
    BY <1>1, <2>1, <2>2
  <2> QED
    BY <1>2, <2>1, <2>3 DEF CallInv, Calls, MakingSpace
<1> QED
    BY <1>3, <1>4 DEF NextLink

\* A link to a deleted item is removed.
LEMMA RemoveDeadLinkKeeps ==
    ASSUME IInv, NEW m \in Mon, RemoveDeadLink(m)
    PROVE  IInv'
<1>1. /\ call.op = "trigger" /\ call.mon = m
      /\ links' = [links EXCEPT ![m] = Unlinked(@, call.link)]
      /\ NextLink
      /\ UNCHANGED <<mode, params, triggered, queue, notificationQueue, flagged, counted,
                     made, sent, untold>>
    BY DEF RemoveDeadLink, queueVars
<1>2. links \in [Mon -> Seq(Mon)] /\ call.link \in 1..Len(links[m])
    BY <1>1 DEF IInv, Variables, CallInv
<1> DEFINE l == call.link
           u == Unlinked(links[m], l)
<1>3. /\ u \in Seq(Mon) /\ Len(u) = Len(links[m]) - 1
      /\ ToSet(u) \subseteq ToSet(links[m])
    BY <1>2, UnlinkedFacts
<1>4. links' = [links EXCEPT ![m] = u]
    BY <1>1
<1> HIDE DEF u
<1>5. /\ links' \in [Mon -> Seq(Mon)]
      /\ links'[m] = u
      /\ \A k \in Mon : k # m => links'[k] = links[k]
    BY <1>2, <1>3, <1>4
<1>6. Registered' = Registered
    BY <1>1 DEF Registered
<1>7. call' \in Calls /\ CallInv' /\ \A k : ~MakingSpace(k)'
  <2>1. Len(u) \in Int /\ Len(u) >= Len(links[m]) - 1
    BY <1>2, <1>3, LenProperties
  <2> QED
    BY <1>1, <1>3, <1>5, <1>6, <2>1, NextLinkFacts
<1>8. LinksInv'
  <2> SUFFICES ASSUME NEW k \in Mon
               PROVE  /\ \A t \in ToSet(links'[k]) : <<k, t>> \in Links
                      /\ triggered[k] => Target(k)
    BY <1>1 DEF LinksInv, Target
  <2>1. /\ \A t \in ToSet(links[k]) : <<k, t>> \in Links
        /\ triggered[k] => Target(k)
    BY DEF IInv, LinksInv
  <2> QED
    BY <1>3, <1>5, <2>1
<1>9. ControlInv'
    BY <1>1, <1>5, <1>6, <1>7, <1>8 DEF ControlInv, IInv, Variables
<1>10. \A k \in Mon : ~MakingSpace(k)
    BY <1>1, CallFacts
<1> QED
    BY <1>1, <1>7, <1>9, <1>10, QuietKeeps

\* A link triggers its item.
LEMMA TriggerKeeps ==
    ASSUME IInv, NEW m \in Mon, Trigger(m)
    PROVE  IInv'
<1>1. PICK t \in Mon :
          /\ mode[t] = "sampling" => Target(t)
          /\ queue' = queue
          /\ flagged' = flagged
          /\ \/ UNCHANGED <<notificationQueue, counted>>
             \/ /\ Moved(t)
                /\ mode[t] = "sampling"
                /\ \E x \in ToSet(queue[t]) :
                      ToSet(notificationQueue') = ToSet(notificationQueue) \cup {x}
    BY TriggerEffect
<1>2. /\ call.op = "trigger" /\ call.mon = m
      /\ NextLink
      /\ UNCHANGED <<mode, params, links, made, sent, untold>>
    BY DEF Trigger
<1>3. triggered' \in [Mon -> BOOLEAN] /\ \A k \in Mon : triggered'[k] => Target(k)
  <2> DEFINE s == links[m][call.link]
  <2>1. triggered \in [Mon -> BOOLEAN] /\ \A k \in Mon : triggered[k] => Target(k)
    BY DEF IInv, Variables, LinksInv
  <2>2. s \in Mon /\ (triggered' = triggered \/ triggered' = [triggered EXCEPT ![s] = TRUE])
    BY DEF Trigger, Registered
  <2>3. Target(s)
    <3>1. call.link \in 1..Len(links[m]) /\ links[m] \in Seq(Mon)
      BY <1>2 DEF IInv, Variables, CallInv
    <3>2. s \in ToSet(links[m])
      BY <3>1, ToSetFacts
    <3> QED
      BY <3>2 DEF IInv, LinksInv, Target
  <2> HIDE DEF s
  <2> QED
    BY <2>1, <2>2, <2>3
<1>4. Registered' = Registered
    BY <1>2 DEF Registered
<1>5. call' \in Calls /\ CallInv' /\ \A k : ~MakingSpace(k)'
  <2>1. links[m] \in Seq(Mon)
    BY DEF IInv, Variables
  <2>2. Len(links[m]) >= Len(links[m]) - 1
    BY <2>1, LenProperties
  <2> QED
    BY <1>2, <1>4, <2>1, <2>2, NextLinkFacts
<1>6. ControlInv'
  <2>1. LinksInv'
    BY <1>2, <1>3 DEF IInv, LinksInv, Target
  <2> QED
    BY <1>2, <1>3, <1>4, <1>5, <2>1 DEF ControlInv, IInv, Variables
<1>7. \A k \in Mon : ~MakingSpace(k) /\ ~MakingSpace(k)'
    BY <1>2, <1>5, CallFacts
<1>8. CASE UNCHANGED <<notificationQueue, counted>>
    BY <1>1, <1>2, <1>6, <1>7, <1>8, QuietKeeps
<1>9. CASE /\ Moved(t)
           /\ mode[t] = "sampling"
           /\ \E x \in ToSet(queue[t]) :
                 ToSet(notificationQueue') = ToSet(notificationQueue) \cup {x}
  <2>1. /\ \A y \in ToSet(queue[t]) :
              /\ y \in Notification /\ y.mon = t /\ y.n <= made
              /\ y.over => t \in EventMon
        /\ Topped(ToSet(queue[t]))
        /\ t \notin Registered => ToSet(queue[t]) = {}
    BY HeldFacts
  <2>2. made \in Int
    BY NotificationAssumption DEF IInv, Variables
  <2>3. QueuesInv'
    <3>1. made' \in Int /\ made <= made' /\ \A k \in Mon : k # t => mode'[k] = mode[k]
      BY <1>2, <2>2
    <3>2. /\ \A y \in ToSet(queue'[t]) : y.mon = t /\ y.n <= made' /\ (y.over => t \in EventMon)
          /\ Topped(ToSet(queue'[t]))
          /\ t \notin Registered' => ToSet(queue'[t]) = {}
      BY <1>1, <1>2, <1>4, <2>1
    <3> QED
      BY <1>9, <3>1, <3>2, QueuesMoved
  <2>4. flagged' \subseteq Notification /\ FlagInv'
    BY <1>1, <1>2 DEF IInv, Queues, FlagInv
  <2>5. WholeOf(t) /\ SizeOf(t) /\ BitsOf(t)
    BY DEF IInv, ItemsInv, ItemOk
  <2>6. WholeOf(t)'
    BY <1>1, <1>2, <1>9 DEF WholeOf, Target
  <2>7. SizeOf(t)'
    BY <1>1, <1>2, <1>7, <2>5 DEF SizeOf, NormalOnes, Holds
  <2>8. BitsOf(t)'
    <3>1. ~Modifying(t)
      BY <1>2 DEF Modifying
    <3> QED
      BY <1>1, <1>2, <2>5, <3>1 DEF BitsOf, Holds
  <2>9. ToldOf(t)'
    BY <1>2, <1>9 DEF ToldOf
  <2>10. ItemsInv'
    BY <1>1, <1>2, <1>7, <1>9, <2>6, <2>7, <2>8, <2>9, OthersOk DEF ItemOk
  <2> QED
    BY <1>6, <2>3, <2>4, <2>10, Together
<1> QED
    BY <1>1, <1>8, <1>9

\* The sample that is taken when an item is activated.
LEMMA FirstSampleKeeps ==
    ASSUME IInv, NEW m \in Mon, FirstSample(m)
    PROVE  IInv'
<1>1. call.op = "sample" /\ call.mon = m
    BY DEF FirstSample
<1>2. m \in Registered /\ m \notin EventMon /\ \A k : ~MakingSpace(k)
    BY <1>1, CallFacts DEF IInv, CallInv
<1>3. CASE Enqueue(m)
    BY <1>1, <1>2, <1>3, EnqueueKeeps
<1>4. CASE call' = Idle /\ UNCHANGED <<itemVars, queueVars, made, sent, untold>>
  <2>1. /\ call' \in Calls /\ CallInv'
        /\ \A k : ~MakingSpace(k)'
    BY <1>4 DEF CallInv, Calls, Idle, MakingSpace
  <2>2. LinksInv'
    BY <1>4 DEF IInv, LinksInv, Target, itemVars
  <2>3. Registered' = Registered
    BY <1>4 DEF Registered, itemVars
  <2>4. ControlInv'
    BY <1>4, <2>1, <2>2, <2>3 DEF ControlInv, IInv, Variables, itemVars
  <2> QED
    BY <1>2, <1>4, <2>1, <2>4, QuietKeeps DEF itemVars, queueVars
<1> QED
    BY <1>3, <1>4 DEF FirstSample

\* A value is sampled or an event passes the filter.
LEMMA NotifyKeeps ==
    ASSUME IInv, NEW m \in Mon, Notify(m)
    PROVE  IInv'
<1>1. m \in Registered
    BY DEF Notify, Registered, AllModes
<1> QED
    BY <1>1, EnqueueKeeps DEF Notify

\* A service that leaves an item without notifications.
LEMMA EmptiedOk ==
    ASSUME IInv, NEW m \in Mon, Delete(m, ToSet(queue[m]), <<>>),
           call = Idle, made' = made, params'[m] \in Settings,
           m \in untold' => mode'[m] # "reporting",
           \A k \in Mon : k # m => /\ mode'[k] = mode[k]
                                   /\ params'[k] = params[k]
                                   /\ k \in untold' <=> k \in untold
                                   /\ ~MakingSpace(k)'
    PROVE  QueuesInv' /\ flagged' \subseteq Notification /\ FlagInv' /\ ItemsInv'
<1> DEFINE A == ToSet(queue[m])
<1>1. /\ <<>> \in Seq(Notification)
      /\ ToSet(<<>>) = A \ A
      /\ Ordered(<<>>, m)
  <2>1. <<>> \in Seq(Notification) /\ \A i \in 1..Len(<<>>) : FALSE
    OBVIOUS
  <2>2. ToSet(<<>>) = {}
    BY <2>1, ToSetFacts
  <2> QED
    BY <2>1, <2>2 DEF Ordered
<1>2. /\ Moved(m)
      /\ ToSet(queue'[m]) = A \ A
      /\ flagged' = flagged \ A
  <2> DEFINE rest == <<>>
  <2>1. /\ rest \in Seq(Notification) /\ ToSet(rest) = A \ A /\ Ordered(rest, m)
        /\ Delete(m, A, rest)
        /\ Orderly(m)' => Orderly(m) \/ ToSet(rest) = {}
    BY <1>1
  <2> HIDE DEF rest
  <2> QED
    BY <2>1, DeleteEffect
<1>3. ToSet(queue'[m]) = {}
    BY <1>2
<1>4. QueuesInv'
  <2>1. made \in Int
    BY NotificationAssumption DEF IInv, Variables
  <2>2. made' \in Int /\ made <= made'
    BY <2>1
  <2> QED
    BY <1>2, <1>3, <2>2, QueuesMoved DEF Topped
<1>5. flagged' \subseteq Notification /\ FlagInv'
    BY <1>2 DEF IInv, Queues, FlagInv
<1>6. WholeOf(m)' /\ BitsOf(m)'
    BY <1>3 DEF WholeOf, BitsOf, Holds
<1>7. SizeOf(m)'
  <2>1. params'[m] \in [size : Nat \ {0}, discardOldest : BOOLEAN]
    BY NotificationAssumption
  <2>2. {x \in ToSet(queue'[m]) : ~x.over} = {}
    BY <1>3
  <2>3. Cardinality({x \in ToSet(queue'[m]) : ~x.over}) = 0
    BY <2>2, FS_EmptySet
  <2>4. params'[m].size \in Nat
    BY <2>1
  <2>5. 0 <= params'[m].size
    BY <2>4
  <2> QED
    BY <2>3, <2>5 DEF SizeOf, NormalOnes, Holds
<1>8. ToldOf(m)'
    BY DEF ToldOf
<1>9. \A x \in Notification : x.mon # m => (x \in flagged' <=> x \in flagged)
    BY <1>2, HeldFacts
<1>10. \A k \in Mon : ~MakingSpace(k)
    BY CallFacts
<1>11. ItemsInv'
    BY <1>2, <1>6, <1>7, <1>8, <1>9, <1>10, OthersOk DEF ItemOk
<1> QED
    BY <1>4, <1>5, <1>11

\* A service that starts to sample or to report.
LEMMA ActivatedOk ==
    ASSUME IInv, NEW m \in Mon, NEW md \in {"sampling", "reporting"}, NEW ok \in BOOLEAN,
           Activate(m, md, ok), m \in Registered,
           call = Idle, made' = made,
           ~MakingSpace(m)' => params'[m] = params[m],
           MakingSpace(m)' => call'.op = "modify" /\ call'.mon = m /\ ~call'.reporting,
           m \in untold' => m \in untold /\ md = mode[m] /\ MakingSpace(m)',
           \A k \in Mon : k # m => /\ params'[k] = params[k]
                                   /\ k \in untold' <=> k \in untold
                                   /\ ~MakingSpace(k)'
    PROVE  QueuesInv' /\ flagged' \subseteq Notification /\ FlagInv' /\ ItemsInv'
<1> DEFINE A == ToSet(queue[m])
           B == ToSet(notificationQueue)
<1>1. /\ Moved(m)
      /\ queue' = queue
      /\ ToSet(notificationQueue') = (B \ A) \cup (IF md = "reporting" THEN A ELSE {})
      /\ flagged' = flagged
    BY ActivateEffect
<1>2. /\ mode'[m] = IF ok THEN md ELSE "disabled"
      /\ \A k \in Mon : k # m => mode'[k] = mode[k]
    BY DEF Activate, IInv, Variables
<1>3. \A k \in Mon : ~MakingSpace(k) /\ ~Modifying(k)
    BY CallFacts
<1>4. /\ \A y \in A : y.mon = m /\ y.n <= made /\ (y.over => m \in EventMon)
      /\ Topped(A)
    BY HeldFacts
<1>5. QueuesInv'
  <2>1. made \in Int
    BY NotificationAssumption DEF IInv, Variables
  <2>2. made' \in Int /\ made <= made'
    BY <2>1
  <2>3. m \in Registered'
    BY <1>2 DEF Registered, AllModes
  <2>4. /\ \A y \in ToSet(queue'[m]) : y.mon = m /\ y.n <= made' /\ (y.over => m \in EventMon)
        /\ Topped(ToSet(queue'[m]))
    BY <1>1, <1>4
  <2> QED
    BY <1>1, <1>2, <2>2, <2>3, <2>4, QueuesMoved
<1>6. flagged' \subseteq Notification /\ FlagInv'
    BY <1>1 DEF IInv, Queues, FlagInv
<1>7. SizeOf(m) /\ BitsOf(m) /\ ToldOf(m)
    BY DEF IInv, ItemsInv, ItemOk
<1>8. WholeOf(m)'
    BY <1>1, <1>2 DEF WholeOf, Holds, Subscribed
<1>9. SizeOf(m)'
    BY <1>1, <1>3, <1>7 DEF SizeOf, NormalOnes, Holds
<1>10. BitsOf(m)'
    BY <1>1, <1>3, <1>7 DEF BitsOf, Holds, MakingSpace, Modifying
<1>11. ToldOf(m)'
  <2> SUFFICES ASSUME m \in untold', mode'[m] = "reporting"
               PROVE  Sign(m)' /\ Modifying(m)'
    BY DEF ToldOf
  <2>1. md = "reporting" /\ mode[m] = "reporting" /\ m \in untold
    BY <1>2
  <2>2. Sign(m)
    BY <1>3, <1>7, <2>1 DEF ToldOf
  <2>3. Sign(m)'
    BY <1>1, <2>1, <2>2 DEF Sign, Holds, Subscribed
  <2> QED
    BY <2>3 DEF Modifying
<1>12. ItemsInv'
    BY <1>1, <1>2, <1>3, <1>8, <1>9, <1>10, <1>11, OthersOk DEF ItemOk
<1> QED
    BY <1>5, <1>6, <1>12

\* A sample may follow.
LEMMA SampleNextFacts ==
    ASSUME NEW m \in Mon, NEW optional \in BOOLEAN,
           SampleNext(m, optional) \/ call' = Idle, m \in Registered'
    PROVE  call' \in Calls /\ CallInv' /\ \A k : ~MakingSpace(k)' /\ ~Modifying(k)'
<1>1. CASE call' = Idle
  <2>1. call'.op = "idle" /\ call' \in Calls
    BY <1>1 DEF Idle, Calls
  <2> QED
    BY <1>1, <2>1 DEF CallInv, MakingSpace, Modifying, Idle
<1>2. CASE m \notin EventMon /\ call' = [op |-> "sample", mon |-> m, optional |-> optional]
  <2>1. call'.op = "sample" /\ call'.mon = m /\ call' \in Calls
    BY <1>2 DEF Calls
  <2> QED
    BY <1>2, <2>1 DEF CallInv, MakingSpace, Modifying
<1> QED
    BY <1>1, <1>2 DEF SampleNext

\* A MonitoredItem is created.
LEMMA CreateKeeps ==
    ASSUME IInv, NEW m \in Mon, NEW p \in Settings, NEW md \in Modes,
           CreateMonitoredItem(m, p, md)
    PROVE  IInv'
<1>1. /\ call = Idle
      /\ mode[m] = "none"
      /\ mode' = [mode EXCEPT ![m] = md]
      /\ params' = [params EXCEPT ![m] = p]
      /\ SampleNext(m, FALSE)
      /\ UNCHANGED <<links, triggered, queue, notificationQueue, flagged, counted, made,
                     sent, untold>>
    BY DEF CreateMonitoredItem, queueVars
<1>2. md \in AllModes
    BY NotificationAssumption
<1>3. /\ mode \in [Mon -> AllModes \cup {"none", "deleted"}]
      /\ params \in [Mon -> Settings]
      /\ untold \subseteq Registered
    BY DEF IInv, Variables
<1>4. /\ mode' \in [Mon -> AllModes \cup {"none", "deleted"}] /\ mode'[m] = md
      /\ params' \in [Mon -> Settings] /\ params'[m] = p
      /\ \A k \in Mon : k # m => mode'[k] = mode[k] /\ params'[k] = params[k]
    BY <1>1, <1>2, <1>3
<1>5. m \in Registered' /\ (\A k \in Registered : k \in Registered') /\ m \notin Registered
    BY <1>1, <1>2, <1>4 DEF Registered, AllModes
<1>6. call' \in Calls /\ CallInv' /\ \A k : ~MakingSpace(k)' /\ ~Modifying(k)'
    BY <1>1, <1>5, SampleNextFacts
<1>7. ControlInv'
  <2>1. LinksInv'
    BY <1>1 DEF IInv, LinksInv, Target
  <2>2. untold' \subseteq Registered'
    BY <1>1, <1>3, <1>5
  <2> QED
    BY <1>1, <1>4, <1>6, <2>1, <2>2 DEF ControlInv, IInv, Variables
<1>8. ToSet(queue[m]) = {}
    BY <1>5, HeldFacts
<1>9. QueuesInv'
  <2>1. \A k \in Mon : Orderly(k)' => Orderly(k) \/ ToSet(queue[k]) = {}
    BY <1>4, <1>8 DEF Orderly, Target
  <2> QED
    BY <1>1, <1>5, <2>1, QueuesStill
<1>10. flagged' \subseteq Notification /\ FlagInv'
    BY <1>1 DEF IInv, Queues, FlagInv
<1>11. WholeOf(m)' /\ BitsOf(m)'
    BY <1>1, <1>8 DEF WholeOf, BitsOf, Holds
<1>12. SizeOf(m)'
  <2>1. p \in [size : Nat \ {0}, discardOldest : BOOLEAN]
    BY NotificationAssumption
  <2>2. {x \in ToSet(queue'[m]) : ~x.over} = {}
    BY <1>1, <1>8
  <2>3. Cardinality({x \in ToSet(queue'[m]) : ~x.over}) = 0
    BY <2>2, FS_EmptySet
  <2>4. params'[m].size \in Nat
    BY <1>4, <2>1
  <2>5. 0 <= params'[m].size
    BY <2>4
  <2> QED
    BY <2>3, <2>5 DEF SizeOf, NormalOnes, Holds
<1>13. ToldOf(m)'
    BY <1>1, <1>3, <1>5 DEF ToldOf
<1>14. \A k \in Mon : ~MakingSpace(k)
    BY <1>1, CallFacts
<1>15. ItemsInv'
    BY <1>1, <1>4, <1>6, <1>11, <1>12, <1>13, <1>14, OthersOk DEF ItemOk
<1> QED
    BY <1>7, <1>9, <1>10, <1>15, Together

\* Its monitoring mode is set.
LEMMA SetModeKeeps ==
    ASSUME IInv, NEW m \in Mon, NEW md \in Modes, NEW ok \in BOOLEAN,
           SetMonitoringMode(m, md, ok)
    PROVE  IInv'
<1>1. /\ call = Idle
      /\ m \in Registered
      /\ ok \/ (mode[m] = "disabled" /\ md # "disabled")
      /\ IF md = "disabled" THEN Deactivate(m) ELSE Activate(m, md, ok)
      /\ SampleNext(m, TRUE) \/ call' = Idle
      /\ untold' = untold \ {m}
      /\ UNCHANGED <<params, links, triggered, made, sent>>
    BY DEF SetMonitoringMode
<1>2. md \in AllModes
    BY NotificationAssumption
<1>3. /\ mode \in [Mon -> AllModes \cup {"none", "deleted"}]
      /\ params \in [Mon -> Settings]
      /\ untold \subseteq Registered
    BY DEF IInv, Variables
<1>4. /\ mode' \in [Mon -> AllModes \cup {"none", "deleted"}]
      /\ mode'[m] \in AllModes
      /\ \A k \in Mon : k # m => mode'[k] = mode[k]
    BY <1>1, <1>2, <1>3 DEF Deactivate, Activate, AllModes
<1>5. Registered' = Registered
    BY <1>1, <1>4 DEF Registered
<1>6. call' \in Calls /\ CallInv' /\ \A k : ~MakingSpace(k)' /\ ~Modifying(k)'
    BY <1>1, <1>5, SampleNextFacts
<1>7. ControlInv'
  <2>1. LinksInv'
    BY <1>1 DEF IInv, LinksInv, Target
  <2>2. untold' \subseteq Registered'
    BY <1>1, <1>3, <1>5
  <2> QED
    BY <1>1, <1>4, <1>6, <2>1, <2>2 DEF ControlInv, IInv, Variables
<1>8. \A k \in Mon : k # m => (k \in untold' <=> k \in untold)
    BY <1>1
<1>9. QueuesInv' /\ flagged' \subseteq Notification /\ FlagInv' /\ ItemsInv'
  <2>1. CASE md = "disabled"
    <3>1. Delete(m, ToSet(queue[m]), <<>>)
      BY <1>1, <2>1 DEF Deactivate
    <3>2. params'[m] \in Settings /\ m \notin untold'
      BY <1>1, <1>3
    <3> QED
      BY <1>1, <1>4, <1>6, <1>8, <3>1, <3>2, EmptiedOk
  <2>2. CASE md # "disabled"
    <3>1. md \in {"sampling", "reporting"} /\ Activate(m, md, ok)
      BY <1>1, <1>2, <2>2 DEF AllModes
    <3>2. m \notin untold'
      BY <1>1
    <3> QED
      BY <1>1, <1>6, <1>8, <3>1, <3>2, ActivatedOk
  <2> QED
    BY <2>1, <2>2
<1> QED
    BY <1>7, <1>9, Together

\* Its settings are modified.
LEMMA ModifyKeeps ==
    ASSUME IInv, NEW m \in Mon, NEW p \in Settings, NEW resample \in BOOLEAN,
           NEW ok \in BOOLEAN, ModifyMonitoredItem(m, p, resample, ok)
    PROVE  IInv'
<1>1. /\ call = Idle
      /\ m \in Registered
      /\ params' = [params EXCEPT ![m] = p]
      /\ IF ~resample THEN UNCHANGED <<mode, queueVars>>
         ELSE IF mode[m] = "disabled" THEN Deactivate(m)
         ELSE Activate(m, mode[m], ok)
      /\ call' = [op |-> "modify", mon |-> m, reporting |-> FALSE]
      /\ UNCHANGED <<links, triggered, made, sent, untold>>
    BY DEF ModifyMonitoredItem
<1>2. /\ mode \in [Mon -> AllModes \cup {"none", "deleted"}]
      /\ params \in [Mon -> Settings]
      /\ untold \subseteq Registered
      /\ mode[m] \in AllModes
    BY <1>1 DEF IInv, Variables, Registered
<1>3. /\ params' \in [Mon -> Settings] /\ params'[m] = p
      /\ \A k \in Mon : k # m => params'[k] = params[k]
    BY <1>1, <1>2
<1>4. /\ mode' \in [Mon -> AllModes \cup {"none", "deleted"}]
      /\ mode'[m] \in AllModes
      /\ \A k \in Mon : k # m => mode'[k] = mode[k]
    BY <1>1, <1>2 DEF Deactivate, Activate, AllModes
<1>5. Registered' = Registered
    BY <1>1, <1>4 DEF Registered
<1>6. /\ call'.op = "modify" /\ call'.mon = m /\ call'.reporting = FALSE
      /\ call' # Idle /\ call' \in Calls
    BY <1>1 DEF Idle, Calls
<1>7. /\ CallInv'
      /\ MakingSpace(m)' /\ Modifying(m)'
      /\ \A k \in Mon : k # m => ~MakingSpace(k)'
    BY <1>1, <1>5, <1>6 DEF CallInv, MakingSpace, Modifying
<1>8. ControlInv'
  <2>1. LinksInv'
    BY <1>1 DEF IInv, LinksInv, Target
  <2>2. untold' \subseteq Registered'
    BY <1>1, <1>2, <1>5
  <2> QED
    BY <1>1, <1>3, <1>4, <1>6, <1>7, <2>1, <2>2 DEF ControlInv, IInv, Variables
<1>9. QueuesInv' /\ flagged' \subseteq Notification /\ FlagInv' /\ ItemsInv'
  <2>1. CASE ~resample
    <3>1. UNCHANGED <<mode, queue, notificationQueue, flagged, counted>>
      BY <1>1, <2>1 DEF queueVars
    <3>2. QueuesInv'
      <4>1. \A k \in Mon : Orderly(k)' => Orderly(k)
        BY <3>1 DEF Orderly, Target
      <4> QED
        BY <1>1, <1>5, <3>1, <4>1, QueuesStill
    <3>3. flagged' \subseteq Notification /\ FlagInv'
      BY <1>1, <3>1 DEF IInv, Queues, FlagInv
    <3>4. WholeOf(m) /\ ToldOf(m) /\ \A k \in Mon : ~MakingSpace(k)
      BY <1>1, CallFacts DEF IInv, ItemsInv, ItemOk
    <3>5. WholeOf(m)'
      BY <1>6, <3>1, <3>4 DEF WholeOf, Holds, Subscribed, Target
    <3>6. SizeOf(m)' /\ BitsOf(m)'
      BY <1>7 DEF SizeOf, BitsOf
    <3>7. ToldOf(m)'
      BY <1>1, <1>7, <3>1, <3>4 DEF ToldOf, Sign, Holds, Subscribed
    <3>8. ItemsInv'
      BY <1>1, <1>3, <1>7, <3>1, <3>4, <3>5, <3>6, <3>7, OthersOk DEF ItemOk
    <3> QED
      BY <3>2, <3>3, <3>8
  <2>2. CASE resample /\ mode[m] = "disabled"
    <3>1. /\ Delete(m, ToSet(queue[m]), <<>>)
          /\ mode'[m] # "reporting"
      BY <1>1, <1>2, <2>2 DEF Deactivate
    <3> QED
      BY <1>1, <1>3, <1>4, <1>7, <3>1, EmptiedOk
  <2>3. CASE resample /\ mode[m] # "disabled"
    <3>1. mode[m] \in {"sampling", "reporting"} /\ Activate(m, mode[m], ok)
      BY <1>1, <1>2, <2>3 DEF AllModes
    <3>2. PICK md \in {"sampling", "reporting"} : md = mode[m]
      BY <3>1
    <3>3. Activate(m, md, ok)
      BY <3>1, <3>2 DEF Activate, Requeued, Dropped
    <3> QED
      BY <1>1, <1>3, <1>6, <1>7, <3>2, <3>3, ActivatedOk
  <2> QED
    BY <2>1, <2>2, <2>3
<1> QED
    BY <1>8, <1>9, Together

\* It is deleted.
LEMMA DeleteKeeps ==
    ASSUME IInv, NEW m \in Mon, DeleteMonitoredItem(m)
    PROVE  IInv'
<1>1. /\ call = Idle
      /\ m \in Registered
      /\ mode' = [mode EXCEPT ![m] = "deleted"]
      /\ links' = [links EXCEPT ![m] = <<>>]
      /\ triggered' = [triggered EXCEPT ![m] = FALSE]
      /\ Delete(m, ToSet(queue[m]), <<>>)
      /\ untold' = untold \ {m}
      /\ UNCHANGED <<params, made, call, sent>>
    BY DEF DeleteMonitoredItem
<1>2. /\ mode \in [Mon -> AllModes \cup {"none", "deleted"}]
      /\ params \in [Mon -> Settings]
      /\ untold \subseteq Registered
      /\ links \in [Mon -> Seq(Mon)]
      /\ triggered \in [Mon -> BOOLEAN]
    BY DEF IInv, Variables
<1>3. <<>> \in Seq(Mon) /\ ToSet(<<>>) = {}
  <2>1. <<>> \in Seq(Mon)
    OBVIOUS
  <2> QED
    BY <2>1, ToSetFacts
<1>4. /\ mode' \in [Mon -> AllModes \cup {"none", "deleted"}] /\ mode'[m] = "deleted"
      /\ \A k \in Mon : k # m => mode'[k] = mode[k]
    BY <1>1, <1>2
<1>5. /\ links' \in [Mon -> Seq(Mon)] /\ links'[m] = <<>>
      /\ \A k \in Mon : k # m => links'[k] = links[k]
    BY <1>1, <1>2, <1>3
<1>6. /\ triggered' \in [Mon -> BOOLEAN]
      /\ \A k \in Mon : triggered'[k] => triggered[k]
    BY <1>1, <1>2
<1>7. Registered' = Registered \ {m}
    BY <1>4 DEF Registered, AllModes
<1>8. /\ call' = Idle /\ call'.op = "idle"
      /\ \A k : ~MakingSpace(k) /\ ~MakingSpace(k)'
  <2>1. call' = Idle
    BY <1>1
  <2>2. call'.op = "idle"
    BY <2>1 DEF Idle
  <2> QED
    BY <1>1, <2>1, <2>2, CallFacts DEF MakingSpace
<1>9. ControlInv'
  <2>1. LinksInv'
    <3> SUFFICES ASSUME NEW k \in Mon
                 PROVE  /\ \A t \in ToSet(links'[k]) : <<k, t>> \in Links
                        /\ triggered'[k] => Target(k)
      BY DEF LinksInv, Target
    <3>1. /\ \A t \in ToSet(links[k]) : <<k, t>> \in Links
          /\ triggered[k] => Target(k)
      BY DEF IInv, LinksInv
    <3> QED
      BY <1>3, <1>5, <1>6, <3>1
  <2>2. untold' \subseteq Registered'
    BY <1>1, <1>2, <1>7
  <2>3. CallInv'
    BY <1>8 DEF CallInv
  <2> QED
    BY <1>1, <1>4, <1>5, <1>6, <2>1, <2>2, <2>3 DEF ControlInv, IInv, Variables
<1>10. QueuesInv' /\ flagged' \subseteq Notification /\ FlagInv' /\ ItemsInv'
  <2>1. params'[m] \in Settings /\ m \notin untold'
    BY <1>1, <1>2
  <2>2. \A k \in Mon : k # m => (k \in untold' <=> k \in untold)
    BY <1>1
  <2> QED
    BY <1>1, <1>4, <1>8, <2>1, <2>2, EmptiedOk
<1> QED
    BY <1>9, <1>10, Together

\* The services on links, and the end of a trigger.
LEMMA LinkServicesKeep ==
    ASSUME IInv, NEW m \in Mon, NEW t \in Mon,
           \/ <<m, t>> \in Links /\ (AddLink(m, t) \/ RemoveLink(m, t))
           \/ TriggerExpires(m)
    PROVE  IInv'
<1>1. /\ call = Idle /\ call' = call
      /\ UNCHANGED <<mode, params, queue, notificationQueue, flagged, counted, made,
                     sent, untold>>
    BY DEF AddLink, RemoveLink, TriggerExpires, queueVars
<1>2. links \in [Mon -> Seq(Mon)] /\ triggered \in [Mon -> BOOLEAN]
    BY DEF IInv, Variables
<1>3. /\ \A k \in Mon : \A u \in ToSet(links[k]) : <<k, u>> \in Links
      /\ \A k \in Mon : triggered[k] => Target(k)
    BY DEF IInv, LinksInv
<1>4. ASSUME NEW list \in Seq(Mon), links' = [links EXCEPT ![m] = list],
             \A u \in ToSet(list) : <<m, u>> \in Links
      PROVE  /\ links' \in [Mon -> Seq(Mon)]
             /\ \A k \in Mon : \A u \in ToSet(links'[k]) : <<k, u>> \in Links
  <2>1. /\ links' \in [Mon -> Seq(Mon)] /\ links'[m] = list
        /\ \A k \in Mon : k # m => links'[k] = links[k]
    BY <1>2, <1>4
  <2> QED
    BY <1>3, <1>4, <2>1
<1>5. /\ links' \in [Mon -> Seq(Mon)] /\ triggered' \in [Mon -> BOOLEAN]
      /\ \A k \in Mon : \A u \in ToSet(links'[k]) : <<k, u>> \in Links
      /\ \A k \in Mon : triggered'[k] => Target(k)
  <2>1. CASE <<m, t>> \in Links /\ AddLink(m, t)
    <3> DEFINE list == Append(links[m], t)
    <3>1. list \in Seq(Mon)
      BY <1>2
    <3>2. ASSUME NEW u \in ToSet(list) PROVE <<m, u>> \in Links
      <4>1. PICK j \in 1..Len(list) : list[j] = u
        BY <3>1, ToSetFacts
      <4>2. CASE j = Len(links[m]) + 1
        <5>1. list[j] = t
          BY <1>2, <4>2
        <5>2. u = t
          BY <4>1, <5>1
        <5> QED
          BY <2>1, <5>2
      <4>3. CASE j # Len(links[m]) + 1
        <5>1. j \in 1..Len(links[m]) /\ links[m][j] = u
          BY <1>2, <4>1, <4>3
        <5>2. u \in ToSet(links[m])
          BY <1>2, <5>1, ToSetFacts
        <5> QED
          BY <1>3, <5>2
      <4> QED
        BY <4>2, <4>3
    <3>3. links' = [links EXCEPT ![m] = list] /\ triggered' = triggered
      BY <2>1 DEF AddLink
    <3> HIDE DEF list
    <3> QED
      BY <1>2, <1>3, <1>4, <3>1, <3>2, <3>3
  <2>2. CASE RemoveLink(m, t)
    <3> DEFINE i == IndexOf(links[m], t)
               list == Unlinked(links[m], i)
    <3>1. t \in ToSet(links[m]) /\ DOMAIN links[m] = 1..Len(links[m])
      BY <1>2, <2>2, LenProperties DEF RemoveLink
    <3>2. i \in 1..Len(links[m])
      <4>1. \E j \in 1..Len(links[m]) : links[m][j] = t
        BY <1>2, <3>1, ToSetFacts
      <4> QED
        BY <3>1, <4>1 DEF IndexOf
    <3> HIDE DEF i
    <3>3. list \in Seq(Mon) /\ ToSet(list) \subseteq ToSet(links[m])
      BY <1>2, <3>2, UnlinkedFacts
    <3>4. links' = [links EXCEPT ![m] = list] /\ triggered' = triggered
      BY <2>2 DEF RemoveLink, i
    <3> HIDE DEF list
    <3> QED
      BY <1>2, <1>3, <1>4, <3>3, <3>4
  <2>3. CASE TriggerExpires(m)
    BY <1>2, <1>3, <2>3 DEF TriggerExpires
  <2> QED
    BY <2>1, <2>2, <2>3
<1>6. call'.op = "idle" /\ call' = Idle /\ call' \in Calls
    BY <1>1 DEF Idle, Calls
<1>7. \A k : ~MakingSpace(k) /\ ~MakingSpace(k)'
    BY <1>1, <1>6, CallFacts DEF MakingSpace
<1>8. ControlInv'
  <2>1. LinksInv'
    BY <1>5 DEF LinksInv, Target
  <2>2. CallInv'
    BY <1>6 DEF CallInv
  <2>3. Registered' = Registered
    BY <1>1 DEF Registered
  <2> QED
    BY <1>1, <1>5, <1>6, <2>1, <2>2, <2>3 DEF ControlInv, IInv, Variables
<1> QED
    BY <1>1, <1>7, <1>8, QuietKeeps

-----------------------------------------------------------------------------
(* A notification is sent.                                                 *)

\* The first notification of the subscription's queue, of m, is sent: those that
\* remain at m are the ones with a higher key.
PublishOf(x, m) ==
    /\ call = Idle
    /\ x \in Subscribed /\ x \in Holds(m) /\ x \in Notification /\ x.mon = m
    /\ Orderly(m) => \A y \in Holds(m) : y \in Subscribed => Key(x) <= Key(y)
    /\ Moved(m)
    /\ ToSet(queue'[m]) = {y \in Holds(m) : Key(x) < Key(y)}
    /\ ToSet(notificationQueue') = Subscribed \ {y \in Holds(m) : Key(y) <= Key(x)}
    /\ flagged' = flagged \ {y \in Holds(m) : Key(y) <= Key(x)}
    /\ sent' = IF x.over THEN sent ELSE [sent EXCEPT ![m] = x.n]
    /\ untold' = IF x.over \/ x \in flagged THEN untold \ {m} ELSE untold
    /\ UNCHANGED <<itemVars, made, call>>

\* What prepareNotificationMessage does is PublishOf.
LEMMA PublishEffect ==
    ASSUME IInv, Publish
    PROVE  \E m \in Mon, x \in Notification : PublishOf(x, m)
<1>1. /\ notificationQueue \in Seq(Notification)
      /\ IsInjective(notificationQueue)
      /\ \A x \in ToSet(notificationQueue) :
            x \in Notification /\ x.mon \in Mon /\ x \in ToSet(queue[x.mon])
      /\ \A m \in Mon : Orderly(m) => Ordered(notificationQueue, m)
    BY SubscribedFacts
<1>2. PICK x \in Notification : x = Head(notificationQueue) /\ x \in ToSet(notificationQueue)
  BY <1>1, TailFacts DEF Publish
<1>3. PICK m \in Mon : m = x.mon
  BY <1>1, <1>2
<1>4. x \in ToSet(queue[m])
  BY <1>1, <1>2, <1>3
<1>5. /\ queue[m] \in Seq(Notification)
      /\ Ordered(queue[m], m)
      /\ \A y \in ToSet(queue[m]) : y \in Notification /\ y.mon = m
  BY HeldFacts
<1>6. Overtaken(x) = {y \in ToSet(queue[m]) : Key(y) <= Key(x)}
  BY <1>3, <1>4, <1>5, OvertakenFacts DEF Overtaken
<1>7. PICK O : O = {y \in ToSet(queue[m]) : Key(y) <= Key(x)}
  OBVIOUS
<1>8. PICK rest : rest = Excluding(queue[m], O)
  OBVIOUS
<1>9. /\ call = Idle
      /\ Delete(m, O, rest)
      /\ sent' = IF x.over THEN sent ELSE [sent EXCEPT ![m] = x.n]
      /\ untold' = IF x.over \/ x \in flagged THEN untold \ {m} ELSE untold
      /\ UNCHANGED <<itemVars, made, call>>
  BY <1>2, <1>3, <1>6, <1>7, <1>8 DEF Publish
<1>10. /\ rest \in Seq(Notification)
       /\ ToSet(rest) = ToSet(queue[m]) \ O
  BY <1>5, <1>8, ExcludingFacts
<1>11. Ordered(rest, m)
  BY <1>5, <1>8, ExcludingOrdered
<1>12. Orderly(m)' => Orderly(m)
  BY <1>9 DEF itemVars, Orderly, Target
<1>13. O \subseteq ToSet(queue[m])
  BY <1>7
<1>14. /\ Moved(m)
       /\ ToSet(queue'[m]) = ToSet(queue[m]) \ O
       /\ ToSet(notificationQueue') = ToSet(notificationQueue) \ O
       /\ flagged' = flagged \ O
  BY <1>9, <1>10, <1>11, <1>12, <1>13, DeleteEffect
<1>15. \A y \in ToSet(queue[m]) : Key(y) \in Int /\ Key(x) \in Int
  BY <1>5, KeyFacts
<1>16. ToSet(queue'[m]) = {y \in ToSet(queue[m]) : Key(x) < Key(y)}
  BY <1>7, <1>14, <1>15
<1>17. ASSUME Orderly(m), NEW y \in ToSet(queue[m]), y \in ToSet(notificationQueue)
       PROVE  Key(x) <= Key(y)
  <2>1. PICK i \in 1..Len(notificationQueue) : notificationQueue[i] = y
    BY <1>1, <1>17, ToSetFacts
  <2>2. Ordered(notificationQueue, m)
    BY <1>1, <1>17
  <2>3. notificationQueue[1] = x
    BY <1>2
  <2>4. y.mon = m /\ x.mon = m
    BY <1>3, <1>5, <1>17
  <2>5. Len(notificationQueue) \in Nat
    BY <1>1, LenProperties
  <2>6. CASE i = 1
    <3>1. y = x
      BY <2>1, <2>3, <2>6
    <3> QED
      BY <1>15, <1>4, <3>1
  <2>7. CASE i # 1
    <3>1. 1 < i /\ 1 \in 1..Len(notificationQueue)
      BY <2>5, <2>7
    <3>2. Key(notificationQueue[1]) < Key(notificationQueue[i])
      BY <2>1, <2>2, <2>3, <2>4, <3>1 DEF Ordered
    <3> QED
      BY <1>15, <1>17, <2>1, <2>3, <3>2
  <2> QED
    BY <2>6, <2>7
<1>18. /\ ToSet(notificationQueue') = ToSet(notificationQueue) \ {y \in ToSet(queue[m]) : Key(y) <= Key(x)}
       /\ flagged' = flagged \ {y \in ToSet(queue[m]) : Key(y) <= Key(x)}
  BY <1>7, <1>14
<1>19. PublishOf(x, m)
  BY <1>2, <1>3, <1>4, <1>9, <1>14, <1>16, <1>17, <1>18 DEF PublishOf, Holds, Subscribed
<1> QED
  BY <1>19

\* A notification is moved to the response.
LEMMA PublishKeeps ==
    ASSUME IInv, NEW m \in Mon, NEW x \in Notification, PublishOf(x, m)
    PROVE  IInv'
<1> DEFINE A == ToSet(queue[m])
           B == ToSet(notificationQueue)
<1>1. PICK O : O = {y \in A : Key(y) <= Key(x)}
    OBVIOUS
<1>2. /\ call = Idle
      /\ x \in A /\ x \in B /\ x.mon = m
      /\ Orderly(m) => \A y \in A : y \in B => Key(x) <= Key(y)
      /\ Moved(m)
      /\ ToSet(queue'[m]) = {y \in A : Key(x) < Key(y)}
      /\ ToSet(notificationQueue') = B \ O
      /\ flagged' = flagged \ O
      /\ sent' = IF x.over THEN sent ELSE [sent EXCEPT ![m] = x.n]
      /\ untold' = IF x.over \/ x \in flagged THEN untold \ {m} ELSE untold
      /\ UNCHANGED <<mode, params, links, triggered, made, call>>
    BY <1>1 DEF PublishOf, Holds, Subscribed, itemVars
<1>3. \A k : ~MakingSpace(k) /\ ~MakingSpace(k)' /\ ~Modifying(k) /\ ~Modifying(k)'
  <2>1. \A k : ~MakingSpace(k) /\ ~Modifying(k)
    BY <1>2, CallFacts
  <2> QED
    BY <1>2, <2>1 DEF MakingSpace, Modifying
<1>4. /\ \A y \in A : y \in Notification /\ y.mon = m /\ y.n <= made /\ (y.over => m \in EventMon)
      /\ Topped(A)
      /\ m \notin Registered => A = {}
      /\ IsFiniteSet(A)
    BY HeldFacts
<1>5. made \in Int /\ \A y \in A : y.n \in Int /\ Key(y) \in Int
  <2>1. \A y \in A : y.n \in Int
    BY <1>4, NotificationAssumption DEF Notification
  <2>2. \A y \in A : Key(y) \in Int
    BY <1>4, KeyFacts
  <2> QED
    BY <2>1, <2>2, NotificationAssumption DEF IInv, Variables
<1>6. /\ \A y \in O : y \in A /\ ~(Key(x) < Key(y))
      /\ ToSet(queue'[m]) = A \ O
    BY <1>1, <1>2, <1>5
<1>7. m \in Registered
    BY <1>2, <1>4
<1>8. ControlInv'
  <2>1. Registered' = Registered
    BY <1>2 DEF Registered
  <2>2. x.n \in 0..made
    BY <1>2, <1>4, <1>5, NotificationAssumption DEF Notification
  <2>3. sent' \in [Mon -> 0..made]
    BY <1>2, <2>2 DEF IInv, Variables
  <2>4. Variables'
    BY <1>2, <2>1, <2>3 DEF IInv, Variables
  <2>5. CallInv'
    BY <1>2, CallFacts DEF CallInv, Idle
  <2>6. LinksInv'
    BY <1>2 DEF IInv, LinksInv, Target
  <2> QED
    BY <2>4, <2>5, <2>6 DEF ControlInv
<1>9. QueuesInv'
  <2>1. Topped(ToSet(queue'[m]))
    <3>1. ASSUME NEW z \in A, Key(x) < Key(z), z.over
          PROVE  \E u \in A : Key(x) < Key(u) /\ ~u.over /\ z.n <= u.n
      <4>1. PICK u \in A : ~u.over /\ z.n <= u.n
        BY <1>4, <3>1 DEF Topped
      <4>2. Key(z) < Key(u)
        BY <1>4, <3>1, <4>1, KeyFacts
      <4> QED
        BY <1>2, <1>5, <3>1, <4>1, <4>2
    <3> QED
      BY <1>2, <3>1 DEF Topped
  <2>2. m \in Registered'
    BY <1>2, <1>7 DEF Registered
  <2>3. /\ made' \in Int /\ made <= made'
        /\ \A k \in Mon : k # m => mode'[k] = mode[k]
    BY <1>2, <1>5
  <2>4. \A y \in ToSet(queue'[m]) : y.mon = m /\ y.n <= made' /\ (y.over => m \in EventMon)
    BY <1>2, <1>4
  <2> QED
    BY <1>2, <2>1, <2>2, <2>3, <2>4, QueuesMoved
<1>10. flagged' \subseteq Notification /\ FlagInv'
    BY <1>2 DEF IInv, Queues, FlagInv
<1>11. WholeOf(m) /\ SizeOf(m) /\ BitsOf(m) /\ ToldOf(m)
    BY DEF IInv, ItemsInv, ItemOk
<1>12. WholeOf(m)'
    BY <1>2, <1>3, <1>6, <1>11 DEF WholeOf, Holds, Subscribed, Target
<1>13. SizeOf(m)'
  <2>1. NormalOnes(m)' \subseteq NormalOnes(m)
    BY <1>6 DEF NormalOnes, Holds
  <2>2. IsFiniteSet(NormalOnes(m))
    BY NormalFacts
  <2>3. Cardinality(NormalOnes(m)') <= Cardinality(NormalOnes(m))
    BY <2>1, <2>2, FS_Subset
  <2>4. IsFiniteSet(NormalOnes(m)')
    BY <2>1, <2>2, FS_Subset
  <2>5. Cardinality(NormalOnes(m)') \in Nat /\ Cardinality(NormalOnes(m)) \in Nat
    BY <2>2, <2>4, FS_CardinalityType
  <2>6. params[m].size \in Nat
    BY NotificationAssumption DEF IInv, Variables
  <2>7. Cardinality(NormalOnes(m)) <= params[m].size
    BY <1>3, <1>11 DEF SizeOf
  <2>8. Cardinality(NormalOnes(m)') <= params[m].size
    BY <2>3, <2>5, <2>6, <2>7
  <2>9. params'[m].size = params[m].size
    BY <1>2
  <2> QED
    BY <2>8, <2>9 DEF SizeOf
<1>14. BitsOf(m)'
    BY <1>2, <1>3, <1>6, <1>11 DEF BitsOf, Holds
<1>15. ToldOf(m)'
  <2> SUFFICES ASSUME m \in untold', mode[m] = "reporting"
               PROVE  Sign(m)' /\ SignsLoss(m)'
    BY <1>2 DEF ToldOf
  <2>1. ~x.over /\ x \notin flagged /\ m \in untold
    BY <1>2
  <2>2. Sign(m) /\ SignsLoss(m)
    BY <1>3, <1>11, <2>1 DEF ToldOf
  <2>3. PICK z \in A : z \in B /\ (z.over \/ z \in flagged)
    BY <2>2 DEF Sign, Holds, Subscribed
  <2>4. Key(x) <= Key(z)
    BY <1>2, <2>3 DEF Orderly
  <2>5. Key(x) # Key(z)
    BY <1>2, <1>4, <2>1, <2>3, KeyFacts
  <2>6. Key(x) < Key(z)
    BY <1>2, <1>5, <2>3, <2>4, <2>5
  <2>7. z \in ToSet(queue'[m]) /\ z \in ToSet(notificationQueue') /\ (z.over \/ z \in flagged')
    BY <1>2, <1>6, <2>3, <2>6
  <2>8. SignsLoss(m)'
    BY <1>2, <2>2 DEF SignsLoss
  <2> QED
    BY <2>7, <2>8 DEF Sign, Holds, Subscribed
<1>16. ItemsInv'
  <2>1. \A y \in Notification : y.mon # m => (y \in flagged' <=> y \in flagged)
    BY <1>2, <1>4, <1>6
  <2>2. \A k \in Mon : k # m => (k \in untold' <=> k \in untold)
    BY <1>2
  <2>3. \A k \in Mon : k # m => /\ mode'[k] = mode[k]
                                /\ params'[k] = params[k]
                                /\ k \in untold' <=> k \in untold
                                /\ ~MakingSpace(k) /\ ~MakingSpace(k)'
    BY <1>2, <1>3, <2>2
  <2>4. ItemOk(m)'
    BY <1>12, <1>13, <1>14, <1>15 DEF ItemOk
  <2> QED
    BY <1>2, <2>1, <2>3, <2>4, OthersOk
<1> QED
    BY <1>8, <1>9, <1>10, <1>16, Together

-----------------------------------------------------------------------------
(* The invariant.                                                          *)

\* Every step of the next-state relation keeps the invariant.
LEMMA NextKeeps ==
    ASSUME IInv, Next
    PROVE  IInv'
<1>1. CASE Publish
    BY <1>1, PublishEffect, PublishKeeps
<1>2. ASSUME NEW m \in Mon, Service(m)
      PROVE  IInv'
  <2>1. CASE \E p \in Settings, md \in Modes : CreateMonitoredItem(m, p, md)
    BY <2>1, CreateKeeps
  <2>2. CASE \E md \in Modes, ok \in BOOLEAN : SetMonitoringMode(m, md, ok)
    BY <2>2, SetModeKeeps
  <2>3. CASE \E p \in Settings, resample, ok \in BOOLEAN : ModifyMonitoredItem(m, p, resample, ok)
    BY <2>3, ModifyKeeps
  <2>4. CASE DeleteMonitoredItem(m)
    BY <2>4, DeleteKeeps
  <2>5. CASE \E t \in Mon : <<m, t>> \in Links /\ (AddLink(m, t) \/ RemoveLink(m, t))
    BY <2>5, LinkServicesKeep
  <2> QED
    BY <1>2, <2>1, <2>2, <2>3, <2>4, <2>5 DEF Service
<1>3. ASSUME NEW m \in Mon, Step(m)
      PROVE  IInv'
    BY <1>3, RemoveOneKeeps, SpaceMadeKeeps, EventOverflowKeeps, RemoveDeadLinkKeeps,
       TriggerKeeps, FirstSampleKeeps DEF Step
<1>4. ASSUME NEW m \in Mon, TriggerExpires(m)
      PROVE  IInv'
    BY <1>4, LinkServicesKeep
<1> QED
    BY <1>1, <1>2, <1>3, <1>4, NotifyKeeps DEF Next
-----------------------------------------------------------------------------
(* The theorems.                                                           *)

\* Nothing is held and nothing is told at the start.
LEMMA InitEstablishes == Init => IInv
<1> SUFFICES ASSUME Init
             PROVE  IInv
    OBVIOUS
<1>1. /\ mode = [m \in Mon |-> "none"]
      /\ params \in [Mon -> {CHOOSE p \in Settings : TRUE}]
      /\ links = [m \in Mon |-> <<>>]
      /\ triggered = [m \in Mon |-> FALSE]
      /\ queue = [m \in Mon |-> <<>>]
      /\ notificationQueue = <<>>
      /\ flagged = {}
      /\ counted = [k \in {"data", "event"} |-> 0]
      /\ made = 0
      /\ call = Idle
      /\ sent = [m \in Mon |-> 0]
      /\ untold = {}
    BY DEF Init
<1>2. /\ params \in [Mon -> Settings]
      /\ \A m \in Mon : params[m].size \in Nat
  <2>1. (CHOOSE p \in Settings : TRUE) \in Settings
    BY NotificationAssumption
  <2>2. params \in [Mon -> Settings]
    BY <1>1, <2>1
  <2> QED
    BY <2>2, NotificationAssumption
<1>3. <<>> \in Seq(Mon) /\ <<>> \in Seq(Notification)
    OBVIOUS
<1>4. ToSet(<<>>) = {}
    BY <1>3, ToSetFacts
<1>5. /\ \A m \in Mon : Holds(m) = {} /\ queue[m] = <<>> /\ links[m] = <<>>
      /\ Subscribed = {}
    BY <1>1, <1>4 DEF Holds, Subscribed
<1>6. Cardinality({}) = 0
    BY FS_EmptySet
<1>7. Variables
  <2>1. made \in 0..MaxNotifications /\ sent \in [Mon -> 0..made]
    BY <1>1, NotificationAssumption
  <2>2. call \in Calls
    BY <1>1 DEF Calls
  <2> QED
    BY <1>1, <1>2, <1>3, <2>1, <2>2 DEF Variables
<1>8. Queues
    BY <1>1, <1>3 DEF Queues
<1>9. CallInv
    BY <1>1 DEF CallInv, Idle
<1>10. LinksInv
    BY <1>1, <1>4, <1>5 DEF LinksInv
<1>11. \A m : Ordered(<<>>, m)
    BY DEF Ordered
<1>12. QueueInv
    BY <1>5, <1>11 DEF QueueInv, Topped
<1>13. SubscribedInv
  <2>1. \A i, j \in 1..Len(notificationQueue) :
           notificationQueue[i] = notificationQueue[j] => i = j
    BY <1>1
  <2>2. notificationQueue \in Seq(Notification)
    BY <1>1, <1>3
  <2>3. IsInjective(notificationQueue)
    BY <2>1, <2>2, ToSetFacts
  <2> QED
    BY <1>5, <2>3 DEF SubscribedInv
<1>14. OrderInv
    BY <1>1, <1>11 DEF OrderInv
<1>15. ItemsInv
  <2> SUFFICES ASSUME NEW m \in Mon
               PROVE  ItemOk(m)
    BY DEF ItemsInv
  <2>1. WholeOf(m)
    BY <1>5 DEF WholeOf
  <2>2. SizeOf(m)
    <3>1. NormalOnes(m) = {}
      BY <1>5 DEF NormalOnes
    <3>2. Cardinality(NormalOnes(m)) = 0
      BY <1>6, <3>1
    <3> QED
      BY <1>2, <3>2 DEF SizeOf
  <2>3. BitsOf(m)
    BY <1>5 DEF BitsOf
  <2>4. ToldOf(m)
    BY <1>1 DEF ToldOf
  <2> QED
    BY <2>1, <2>2, <2>3, <2>4 DEF ItemOk
<1>16. FlagInv
    BY <1>1 DEF FlagInv
<1>17. CountInv
  <2>1. \A k \in {"data", "event"} : Subscribed \cap OfKind(k) = {}
    BY <1>5
  <2>2. \A k \in {"data", "event"} : Cardinality(Subscribed \cap OfKind(k)) = 0
    BY <1>6, <2>1
  <2>3. /\ counted \in [{"data", "event"} -> Int]
        /\ \A k \in {"data", "event"} : counted[k] = 0
    BY <1>1
  <2> QED
    BY <2>2, <2>3 DEF CountInv
<1> QED
    BY <1>7, <1>8, <1>9, <1>10, <1>12, <1>13, <1>14, <1>15, <1>16, <1>17 DEF IInv

\* A stuttering step keeps the invariant.
LEMMA StutterKeeps ==
    ASSUME IInv, UNCHANGED vars
    PROVE  IInv'
<1>1. UNCHANGED <<mode, params, links, triggered, queue, notificationQueue, flagged,
                  counted, made, call, sent, untold>>
    BY DEF vars
<1>2. Variables' /\ Queues' /\ CallInv' /\ LinksInv' /\ FlagInv' /\ CountInv'
    BY <1>1 DEF IInv, Variables, Queues, CallInv, LinksInv, FlagInv, CountInv, Registered,
       Target, Subscribed
<1>3. QueueInv' /\ SubscribedInv' /\ OrderInv'
    BY <1>1 DEF IInv, QueueInv, SubscribedInv, OrderInv, Orderly, Target, Holds, Subscribed,
       Registered
<1>4. ItemsInv'
  <2> SUFFICES ASSUME NEW m \in Mon
               PROVE  ItemOk(m)'
    BY DEF ItemsInv
  <2>1. ItemOk(m)
    BY DEF IInv, ItemsInv
  <2>2. WholeOf(m)'
    BY <1>1, <2>1 DEF ItemOk, WholeOf, Holds, Subscribed, Target, MakingSpace
  <2>3. SizeOf(m)' /\ BitsOf(m)'
    BY <1>1, <2>1 DEF ItemOk, SizeOf, BitsOf, Holds, NormalOnes, MakingSpace, Modifying
  <2>4. ToldOf(m)'
    BY <1>1, <2>1 DEF ItemOk, ToldOf, Sign, SignsLoss, Holds, Subscribed, MakingSpace,
       Modifying
  <2> QED
    BY <2>2, <2>3, <2>4 DEF ItemOk
<1> QED
    BY <1>2, <1>3, <1>4 DEF IInv

\* The inductive invariant of the notification queues holds in all reachable
\* states.
THEOREM NotificationInvariance == Spec => []IInv
<1>1. IInv /\ [Next]_vars => IInv'
    BY NextKeeps, StutterKeeps
<1> QED
    BY <1>1, InitEstablishes, PTL DEF Spec

\* The queues keep their types; between two calls no MonitoredItem holds more
\* notifications than its queue size, and none of an item with a queue of one
\* carries the overflow bits.
THEOREM NotificationTypeCorrect == Spec => []NotificationTypeOK
<1>1. ASSUME IInv PROVE NotificationTypeOK
  <2>1. /\ mode \in [Mon -> AllModes \cup {"none", "deleted"}]
        /\ params \in [Mon -> Settings]
        /\ links \in [Mon -> Seq(Mon)]
        /\ triggered \in [Mon -> BOOLEAN]
        /\ made \in 0..MaxNotifications
        /\ call \in Calls
        /\ sent \in [Mon -> 0..made]
        /\ untold \subseteq Mon
    BY <1>1 DEF IInv, Variables, Registered
  <2>2. /\ queue \in [Mon -> Seq(Notification)]
        /\ notificationQueue \in Seq(Notification)
        /\ flagged \subseteq Notification
        /\ counted \in [{"data", "event"} -> Int]
    BY <1>1 DEF IInv, Queues, CountInv
  <2>3. sent \in [Mon -> 0..MaxNotifications]
    <3>1. 0..made \subseteq 0..MaxNotifications
      BY <2>1, NotificationAssumption
    <3> QED
      BY <2>1, <3>1
  <2>4. \A m \in Mon \ Registered : queue[m] = <<>>
    BY <1>1, HeldFacts, ToSetFacts
  <2>5. ASSUME call = Idle, NEW m \in Mon
        PROVE  /\ Cardinality(Normal(m)) <= params[m].size
               /\ m \notin EventMon /\ params[m].size = 1 => ToSet(queue[m]) \cap flagged = {}
    <3>1. ~MakingSpace(m) /\ ~Modifying(m)
      BY <1>1, <2>5, CallFacts
    <3>2. SizeOf(m) /\ BitsOf(m)
      BY <1>1 DEF IInv, ItemsInv, ItemOk
    <3>3. Cardinality(Normal(m)) = Cardinality(NormalOnes(m))
      BY <1>1, NormalFacts
    <3> QED
      BY <3>1, <3>2, <3>3 DEF SizeOf, BitsOf, Holds
  <2> QED
    BY <2>1, <2>2, <2>3, <2>4, <2>5 DEF NotificationTypeOK
<1> QED
    BY <1>1, NotificationInvariance, PTL

\* A reporting item holds nothing back, nothing else is in the queue of the
\* subscription, and its counters count it.
THEOREM ReportingAlwaysComplete == Spec => []ReportingComplete
<1>1. ASSUME IInv PROVE ReportingComplete
  <2>1. /\ notificationQueue \in Seq(Notification)
        /\ IsInjective(notificationQueue)
        /\ \A x \in ToSet(notificationQueue) : x \in Notification /\ x \in ToSet(queue[x.mon])
    BY <1>1, SubscribedFacts
  <2>2. \A m \in Mon : mode[m] = "reporting" => ToSet(queue[m]) \subseteq ToSet(notificationQueue)
    BY <1>1 DEF IInv, ItemsInv, ItemOk, WholeOf, Holds, Subscribed
  <2>3. /\ DOMAIN notificationQueue = 1..Len(notificationQueue)
        /\ \A i \in DOMAIN notificationQueue : notificationQueue[i] \in ToSet(notificationQueue)
    BY <2>1, ToSetFacts, LenProperties
  <2>4. ASSUME NEW k \in {"data", "event"}
        PROVE  counted[k] = Cardinality({i \in DOMAIN notificationQueue :
                                            Kind(notificationQueue[i].mon) = k})
    <3>1. PICK K : K = OfKind(k)
      OBVIOUS
    <3>2. Cardinality({i \in DOMAIN notificationQueue : notificationQueue[i] \in K})
             = Cardinality(ToSet(notificationQueue) \cap K)
      BY <2>1, CountFacts
    <3>3. {i \in DOMAIN notificationQueue : notificationQueue[i] \in K}
             = {i \in DOMAIN notificationQueue : Kind(notificationQueue[i].mon) = k}
      BY <2>1, <2>3, <3>1 DEF OfKind
    <3>4. counted[k] = Cardinality(ToSet(notificationQueue) \cap K)
      BY <1>1, <3>1 DEF IInv, CountInv, Subscribed
    <3> QED
      BY <3>2, <3>3, <3>4
  <2> QED
    BY <2>1, <2>2, <2>3, <2>4 DEF ReportingComplete
<1> QED
    BY <1>1, NotificationInvariance, PTL

\* While a reporting item has lost a reported notification without a sign, a
\* sign is on its way.
THEOREM LossAlwaysTold == Spec => []LossIsTold
<1>1. ASSUME IInv PROVE LossIsTold
  <2> SUFFICES ASSUME call = Idle, NEW m \in untold, mode[m] = "reporting"
               PROVE  \E x \in ToSet(queue[m]) : Reported(x) /\ (x.over \/ x \in flagged)
    BY DEF LossIsTold
  <2>1. m \in Mon
    BY <1>1 DEF IInv, Variables, Registered
  <2>2. ~MakingSpace(m)
    BY <1>1, CallFacts
  <2>3. ToldOf(m)
    BY <1>1, <2>1 DEF IInv, ItemsInv, ItemOk
  <2> QED
    BY <2>2, <2>3 DEF ToldOf, Sign, Holds, Subscribed, Reported
<1> QED
    BY <1>1, NotificationInvariance, PTL

\* While no event item can be triggered, what prepareNotificationMessage deletes
\* with a notification it sends is never still to be reported. (An event item
\* that is triggered may get its overflow event at the end of the queue.)
THEOREM EarlierNeverReported ==
    ASSUME \A l \in Links : l[2] \notin EventMon
    PROVE  Spec => []EarlierNotReported
<1>1. ASSUME IInv PROVE EarlierNotReported
  <2> SUFFICES ASSUME NEW i \in DOMAIN notificationQueue, NEW j \in DOMAIN notificationQueue,
                      NEW x, NEW y, x = notificationQueue[i], y = notificationQueue[j],
                      i < j, x.mon = y.mon
               PROVE  IndexOf(queue[x.mon], x) < IndexOf(queue[x.mon], y)
    BY DEF EarlierNotReported
  <2>1. /\ notificationQueue \in Seq(Notification)
        /\ IsInjective(notificationQueue)
        /\ \A z \in ToSet(notificationQueue) :
              z \in Notification /\ z.mon \in Mon /\ z \in ToSet(queue[z.mon])
        /\ \A m \in Mon : Orderly(m) => Ordered(notificationQueue, m)
    BY <1>1, SubscribedFacts
  <2>2. /\ i \in 1..Len(notificationQueue) /\ j \in 1..Len(notificationQueue)
        /\ x \in ToSet(notificationQueue) /\ y \in ToSet(notificationQueue)
    BY <2>1, ToSetFacts, LenProperties
  <2>3. PICK m \in Mon : m = x.mon
    BY <2>1, <2>2
  <2>4. m \notin EventMon \/ ~Target(m)
    BY DEF Target
  <2>5. Key(x) < Key(y)
    BY <2>1, <2>2, <2>3, <2>4 DEF Orderly, Ordered
  <2>6. /\ queue[m] \in Seq(Notification)
        /\ Ordered(queue[m], m)
        /\ IsInjective(queue[m])
        /\ \A z \in ToSet(queue[m]) : z.mon = m
    BY <1>1, HeldFacts
  <2>7. x \in ToSet(queue[m]) /\ y \in ToSet(queue[m])
    BY <2>1, <2>2, <2>3
  <2>8. PICK p, q : p = IndexOf(queue[m], x) /\ q = IndexOf(queue[m], y)
    OBVIOUS
  <2>9. /\ p \in 1..Len(queue[m]) /\ queue[m][p] = x
        /\ q \in 1..Len(queue[m]) /\ queue[m][q] = y
    BY <2>6, <2>7, <2>8, IndexFacts
  <2>10. p < q <=> Key(queue[m][p]) < Key(queue[m][q])
    BY <2>6, <2>9, OrderedFacts
  <2> QED
    BY <2>3, <2>5, <2>8, <2>9, <2>10
<1> QED
    BY <1>1, NotificationInvariance, PTL
-----------------------------------------------------------------------------
(* The refinement: what a client may expect of a MonitoredItem.            *)

HeldOf(m) == {x.n : x \in NormalOnes(m)}

\* Only what m holds changes.
LEMMA HeldMoved ==
    ASSUME NEW m \in Mon, \A k \in Mon : k # m => queue'[k] = queue[k]
    PROVE  /\ Held' = [Held EXCEPT ![m] = HeldOf(m)']
           /\ Held \in [Mon -> {HeldOf(k) : k \in Mon}]
           /\ Held[m] = HeldOf(m)
           /\ Held'[m] = HeldOf(m)'
<1>1. /\ Held = [k \in Mon |-> HeldOf(k)]
      /\ Held' = [k \in Mon |-> HeldOf(k)']
    BY DEF Held, HeldOf, NormalOnes, Holds
<1>2. \A k \in Mon : k # m => HeldOf(k)' = HeldOf(k)
    BY DEF HeldOf, NormalOnes, Holds
<1> QED
    BY <1>1, <1>2

\* A step that leaves the queues of the items alone.
LEMMA HeldStill ==
    ASSUME UNCHANGED <<queue, sent>>
    PROVE  UNCHANGED OD!dvars
BY DEF OD!dvars, Held

\* A new notification is newer than those its item holds and than those sent.
LEMMA EnqueueProduces ==
    ASSUME IInv, NEW m \in Mon, Enqueue(m)
    PROVE  OD!Produce(m)
<1>1. PICK x : x = [mon |-> m, n |-> made + 1, over |-> FALSE]
    OBVIOUS
<1>2. /\ Moved(m)
      /\ ToSet(queue'[m]) = ToSet(queue[m]) \cup {x}
    BY <1>1, EnqueueEffect
<1>3. HeldOf(m)' = HeldOf(m) \cup {made + 1}
  <2>1. NormalOnes(m)' = NormalOnes(m) \cup {x}
    BY <1>1, <1>2 DEF NormalOnes, Holds
  <2>2. x.n = made + 1
    BY <1>1
  <2> QED
    BY <2>1, <2>2 DEF HeldOf
<1>4. /\ Held' = [Held EXCEPT ![m] = HeldOf(m)']
      /\ Held[m] = HeldOf(m)
      /\ Held'[m] = HeldOf(m)'
    BY <1>2, HeldMoved DEF Moved
<1>5. \A j \in HeldOf(m) \cup {sent[m]} : made + 1 > j
  <2>1. made \in Int /\ sent[m] \in 0..made
    BY NotificationAssumption DEF IInv, Variables
  <2>2. \A y \in ToSet(queue[m]) : y.n \in Int /\ y.n <= made
    BY HeldFacts, NotificationAssumption DEF Notification
  <2>3. \A j \in HeldOf(m) : j \in Int /\ j <= made
    BY <2>2 DEF HeldOf, NormalOnes, Holds
  <2> QED
    BY <2>1, <2>3
<1>6. sent' = sent
    BY DEF Enqueue
<1>7. OD!Newer(made + 1, Held[m] \cup {sent[m]})
    BY <1>4, <1>5 DEF OD!Newer
<1>8. made + 1 \in Held'[m] /\ Held' = [Held EXCEPT ![m] = Held[m] \cup {made + 1}]
    BY <1>3, <1>4
<1> QED
    BY <1>6, <1>7, <1>8 DEF OD!Produce

\* Making room costs a notification that is not the newest one.
LEMMA RemoveOneLoses ==
    ASSUME IInv, NEW m \in Mon, RemoveOne(m)
    PROVE  OD!Lose(m)
<1>1. PICK del : del = queue[m][Victim(m)]
    OBVIOUS
<1>2. /\ Moved(m)
      /\ del \in ToSet(queue[m])
      /\ ~del.over
      /\ ToSet(queue'[m]) = ToSet(queue[m]) \ {del}
      /\ \E y \in ToSet(queue'[m]) : ~y.over /\ del.n < y.n
    BY <1>1, RemoveOneEffect
<1>3. /\ Held' = [Held EXCEPT ![m] = HeldOf(m)']
      /\ Held[m] = HeldOf(m)
    BY <1>2, HeldMoved DEF Moved
<1>4. \A y \in ToSet(queue[m]) : y \in Notification /\ y.mon = m /\ y.n \in Int
    BY HeldFacts, NotificationAssumption DEF Notification
<1>5. NormalOnes(m)' = NormalOnes(m) \ {del}
    BY <1>2 DEF NormalOnes, Holds
<1>6. \A y \in NormalOnes(m) : y.n = del.n => y = del
    BY <1>2, <1>4 DEF NormalOnes, Holds, Notification
<1>7. HeldOf(m)' = HeldOf(m) \ {del.n}
    BY <1>5, <1>6 DEF HeldOf
<1>8. PICK y \in ToSet(queue'[m]) : ~y.over /\ del.n < y.n
    BY <1>2
<1>9. y.n \in HeldOf(m) \ {del.n} /\ y.n > del.n
  <2>1. y \in NormalOnes(m) /\ y.n \in Int /\ del.n \in Int
    BY <1>2, <1>4, <1>8 DEF NormalOnes, Holds
  <2> QED
    BY <1>8, <2>1 DEF HeldOf
<1>10. {del.n} \in SUBSET Held[m]
    BY <1>2, <1>3 DEF HeldOf, NormalOnes, Holds
<1>11. OD!Newer(y.n, {del.n})
    BY <1>9 DEF OD!Newer
<1>12. sent' = sent
    BY DEF RemoveOne
<1>13. Held' = [Held EXCEPT ![m] = Held[m] \ {del.n}]
    BY <1>3, <1>7
<1>14. y.n \in Held[m] \ {del.n}
    BY <1>3, <1>9
<1> QED
    BY <1>10, <1>11, <1>12, <1>13, <1>14 DEF OD!Lose

\* An overflow event changes nothing of what is held.
LEMMA OverflowStutters ==
    ASSUME IInv, NEW m \in Mon, EventOverflow(m)
    PROVE  UNCHANGED OD!dvars
<1>1. sent' = sent
    BY DEF EventOverflow
<1>2. CASE AdjacentOverflow(m)
  <2>1. queue' = queue
    BY <1>2 DEF EventOverflow, queueVars
  <2> QED
    BY <1>1, <2>1, HeldStill
<1>3. CASE ~AdjacentOverflow(m)
  <2>1. PICK ov : /\ Moved(m)
                  /\ ov.over
                  /\ ToSet(queue'[m]) = ToSet(queue[m]) \cup {ov}
    BY <1>3, OverflowEffect
  <2>2. /\ Held' = [Held EXCEPT ![m] = HeldOf(m)']
        /\ Held \in [Mon -> {HeldOf(k) : k \in Mon}]
        /\ Held[m] = HeldOf(m)
    BY <2>1, HeldMoved DEF Moved
  <2>3. NormalOnes(m)' = NormalOnes(m)
    BY <2>1 DEF NormalOnes, Holds
  <2>4. HeldOf(m)' = HeldOf(m)
    BY <2>3 DEF HeldOf
  <2>5. Held' = Held
    BY <2>2, <2>4
  <2> QED
    BY <1>1, <2>5 DEF OD!dvars
<1> QED
    BY <1>2, <1>3

\* A MonitoredItem that is disabled or deleted is cleared.
LEMMA DeleteClears ==
    ASSUME NEW m \in Mon, IInv, Delete(m, ToSet(queue[m]), <<>>), sent' = sent
    PROVE  OD!Clear(m)
<1>1. /\ queue'[m] = <<>>
      /\ \A k \in Mon : k # m => queue'[k] = queue[k]
    BY DEF Delete, IInv, Queues
<1>2. /\ Held' = [Held EXCEPT ![m] = HeldOf(m)']
    BY <1>1, HeldMoved
<1>3. <<>> \in Seq(Notification)
    OBVIOUS
<1>4. ToSet(queue'[m]) = {}
    BY <1>1, <1>3, ToSetFacts
<1>5. HeldOf(m)' = {}
    BY <1>4 DEF HeldOf, NormalOnes, Holds
<1> QED
    BY <1>2, <1>5 DEF OD!Clear

\* A notification is delivered. An overflow event stands for the older ones that
\* are dropped with it.
LEMMA PublishDelivers ==
    ASSUME IInv, NEW m \in Mon, NEW x \in Notification, PublishOf(x, m)
    PROVE  OD!Deliver(m) \/ OD!Lose(m)
<1>1. /\ x \in ToSet(queue[m]) /\ x.mon = m
      /\ Moved(m)
      /\ ToSet(queue'[m]) = {y \in ToSet(queue[m]) : Key(x) < Key(y)}
      /\ sent' = IF x.over THEN sent ELSE [sent EXCEPT ![m] = x.n]
    BY DEF PublishOf, Holds
<1>2. /\ Held' = [Held EXCEPT ![m] = HeldOf(m)']
      /\ Held[m] = HeldOf(m)
    BY <1>1, HeldMoved DEF Moved
<1>3. \A y \in ToSet(queue[m]) : y \in Notification /\ y.mon = m /\ y.n \in Int
    BY HeldFacts, NotificationAssumption DEF Notification
<1>4. x.n \in Int
    BY <1>1, <1>3
<1>5. CASE ~x.over
  <2>1. \A y \in NormalOnes(m) : Key(x) < Key(y) <=> x.n < y.n
    BY <1>3, <1>5, KeyFacts DEF NormalOnes, Holds
  <2>2. NormalOnes(m)' = {y \in NormalOnes(m) : x.n < y.n}
    BY <1>1, <2>1 DEF NormalOnes, Holds
  <2>3. HeldOf(m)' = {j \in HeldOf(m) : j > x.n}
    <3>1. \A y \in NormalOnes(m) : x.n < y.n <=> y.n > x.n
      BY <1>3, <1>4 DEF NormalOnes, Holds
    <3> QED
      BY <2>2, <3>1 DEF HeldOf
  <2>4. x.n \in Held[m]
    BY <1>1, <1>2, <1>5 DEF HeldOf, NormalOnes, Holds
  <2>5. Held' = [Held EXCEPT ![m] = {j \in Held[m] : j > x.n}]
    BY <1>2, <2>3
  <2>6. sent' = [sent EXCEPT ![m] = x.n]
    BY <1>1, <1>5
  <2>7. OD!Deliver(m)
    BY <2>4, <2>5, <2>6 DEF OD!Deliver
  <2> QED
    BY <2>7
<1>6. CASE x.over
  <2>1. \A y \in NormalOnes(m) : Key(x) < Key(y) <=> x.n <= y.n
    BY <1>3, <1>6, KeyFacts DEF NormalOnes, Holds
  <2>2. NormalOnes(m)' = {y \in NormalOnes(m) : x.n <= y.n}
    BY <1>1, <2>1 DEF NormalOnes, Holds
  <2>3. PICK S : S = {j \in HeldOf(m) : ~(x.n <= j)}
    OBVIOUS
  <2>4. HeldOf(m)' = HeldOf(m) \ S
    BY <2>2, <2>3 DEF HeldOf
  <2>5. PICK u \in ToSet(queue[m]) : ~u.over /\ x.n <= u.n
    BY <1>1, <1>6, HeldFacts DEF Topped
  <2>6. u.n \in HeldOf(m)
    BY <2>5 DEF HeldOf, NormalOnes, Holds
  <2>7. u.n \in HeldOf(m) \ S
    BY <2>3, <2>5, <2>6
  <2>8. \A j \in S : j \in Int /\ u.n > j
    <3>1. \A j \in HeldOf(m) : j \in Int
      BY <1>3 DEF HeldOf, NormalOnes, Holds
    <3>2. u.n \in Int
      BY <1>3, <2>5
    <3> QED
      BY <1>4, <2>3, <2>5, <3>1, <3>2
  <2>9. S \in SUBSET Held[m] /\ OD!Newer(u.n, S) /\ u.n \in Held[m] \ S
    BY <1>2, <2>3, <2>7, <2>8 DEF OD!Newer
  <2>10. Held' = [Held EXCEPT ![m] = Held[m] \ S]
    BY <1>2, <2>4
  <2>11. sent' = sent
    BY <1>1, <1>6
  <2>12. OD!Lose(m)
    BY <2>9, <2>10, <2>11 DEF OD!Lose
  <2> QED
    BY <2>12
<1> QED
    BY <1>5, <1>6

\* Every step is one of OrderedDelivery, or changes nothing that it sees.
LEMMA StepsDeliver ==
    ASSUME IInv, [Next]_vars
    PROVE  [OD!DeliveryNext]_(OD!dvars)
<1>1. CASE UNCHANGED vars
    BY <1>1, HeldStill DEF vars
<1>2. CASE Publish
    BY <1>2, PublishEffect, PublishDelivers DEF OD!DeliveryNext
<1>3. ASSUME NEW m \in Mon, Service(m)
      PROVE  OD!Clear(m) \/ UNCHANGED OD!dvars
  <2>1. ASSUME NEW p \in Settings, NEW md \in Modes, CreateMonitoredItem(m, p, md)
        PROVE  UNCHANGED OD!dvars
    BY <2>1, HeldStill DEF CreateMonitoredItem, queueVars
  <2>2. ASSUME NEW md \in Modes, NEW ok \in BOOLEAN, SetMonitoringMode(m, md, ok)
        PROVE  OD!Clear(m) \/ UNCHANGED OD!dvars
    <3>1. CASE md = "disabled"
      BY <2>2, <3>1, DeleteClears DEF SetMonitoringMode, Deactivate
    <3>2. CASE md # "disabled"
      BY <2>2, <3>2, HeldStill DEF SetMonitoringMode, Activate
    <3> QED
      BY <3>1, <3>2
  <2>3. ASSUME NEW p \in Settings, NEW resample \in BOOLEAN, NEW ok \in BOOLEAN,
               ModifyMonitoredItem(m, p, resample, ok)
        PROVE  OD!Clear(m) \/ UNCHANGED OD!dvars
    <3>1. CASE ~resample
      BY <2>3, <3>1, HeldStill DEF ModifyMonitoredItem, queueVars
    <3>2. CASE resample /\ mode[m] = "disabled"
      BY <2>3, <3>2, DeleteClears DEF ModifyMonitoredItem, Deactivate
    <3>3. CASE resample /\ mode[m] # "disabled"
      BY <2>3, <3>3, HeldStill DEF ModifyMonitoredItem, Activate
    <3> QED
      BY <3>1, <3>2, <3>3
  <2>4. CASE DeleteMonitoredItem(m)
    BY <2>4, DeleteClears DEF DeleteMonitoredItem
  <2>5. ASSUME NEW t \in Mon, AddLink(m, t) \/ RemoveLink(m, t)
        PROVE  UNCHANGED OD!dvars
    BY <2>5, HeldStill DEF AddLink, RemoveLink, queueVars
  <2> QED
    BY <1>3, <2>1, <2>2, <2>3, <2>4, <2>5 DEF Service
<1>4. ASSUME NEW m \in Mon, Step(m)
      PROVE  OD!Produce(m) \/ OD!Lose(m) \/ UNCHANGED OD!dvars
  <2>1. CASE RemoveOne(m)
    BY <2>1, RemoveOneLoses
  <2>2. CASE SpaceMade(m) \/ RemoveDeadLink(m) \/ Trigger(m)
    BY <2>2, HeldStill DEF SpaceMade, RemoveDeadLink, Trigger, queueVars
  <2>3. CASE EventOverflow(m)
    BY <2>3, OverflowStutters
  <2>4. CASE FirstSample(m)
    BY <2>4, EnqueueProduces, HeldStill DEF FirstSample, queueVars
  <2> QED
    BY <1>4, <2>1, <2>2, <2>3, <2>4 DEF Step
<1>5. ASSUME NEW m \in Mon, Notify(m)
      PROVE  OD!Produce(m)
    BY <1>5, EnqueueProduces DEF Notify
<1>6. ASSUME NEW m \in Mon, TriggerExpires(m)
      PROVE  UNCHANGED OD!dvars
    BY <1>6, HeldStill DEF TriggerExpires, queueVars
<1> QED
    BY <1>1, <1>2, <1>3, <1>4, <1>5, <1>6 DEF Next, OD!DeliveryNext

\* The notification queues implement OrderedDelivery: whatever the modes,
\* settings and triggers, the client gets the notifications of an item in their
\* order and none twice, and an overflow never costs the newest one.
THEOREM DeliveryAlwaysKept == Spec => DeliveryKept
<1>1. Init => OD!DeliveryInit
  <2> SUFFICES ASSUME Init
               PROVE  OD!DeliveryInit
    OBVIOUS
  <2>1. \A m \in Mon : queue[m] = <<>>
    BY DEF Init
  <2>2. <<>> \in Seq(Notification)
    OBVIOUS
  <2>3. \A m \in Mon : ToSet(queue[m]) = {}
    BY <2>1, <2>2, ToSetFacts
  <2>4. Held = [m \in Mon |-> {}]
    BY <2>3 DEF Held
  <2>5. sent = [m \in Mon |-> 0]
    BY DEF Init
  <2> QED
    BY <2>4, <2>5 DEF OD!DeliveryInit
<1>2. IInv /\ [Next]_vars => [OD!DeliveryNext]_(OD!dvars)
    BY StepsDeliver
<1> QED
    BY <1>1, <1>2, NotificationInvariance, PTL DEF Spec, DeliveryKept, OD!DeliverySpec
-----------------------------------------------------------------------------
(* The place in the queue of the subscription.                             *)

\* e, further back in the list, takes over the place of d.
LEMMA ReplacePlaces ==
    ASSUME NEW s \in Seq(Notification), IsInjective(s),
           NEW a \in 1..Len(s), NEW b \in 1..Len(s), a < b
    PROVE  LET rest == Without(s, s[b])
               t == [rest EXCEPT ![IndexOf(rest, s[a])] = s[b]]
           IN /\ Len(t) = Len(s) - 1
              /\ t[a] = s[b]
              /\ \A i \in 1..Len(s) : i < b /\ i # a => t[i] = s[i]
<1> DEFINE e == s[b]
           d == s[a]
           rest == Without(s, e)
           t == [rest EXCEPT ![IndexOf(rest, d)] = e]
<1>1. Len(s) \in Nat /\ b \in Nat /\ a \in Nat
    BY LenProperties
<1>2. e \in ToSet(s) /\ IndexOf(s, e) = b
    BY IndexFacts, ToSetFacts
<1>3. /\ rest \in Seq(Notification)
      /\ Len(rest) = Len(s) - 1
      /\ \A j \in 1..Len(s) - 1 : rest[j] = IF j < b THEN s[j] ELSE s[j + 1]
    BY <1>2, RemoveAtFacts DEF Without
<1>4. IsInjective(rest)
    BY <1>2, WithoutFacts
<1> HIDE DEF rest, d, e
<1>5. a \in 1..Len(rest) /\ rest[a] = d
    BY <1>1, <1>3 DEF d
<1>6. IndexOf(rest, d) = a
    BY <1>3, <1>4, <1>5, IndexFacts
<1>7. DOMAIN rest = 1..Len(rest)
    BY <1>3, LenProperties
<1>8. e \in Notification
    BY DEF e
<1>9. /\ t \in Seq(Notification) /\ Len(t) = Len(rest)
      /\ t[a] = e
      /\ \A i \in 1..Len(rest) : i # a => t[i] = rest[i]
    BY <1>3, <1>5, <1>6, <1>7, <1>8, ExceptSeq
<1> HIDE DEF t
<1>10. ASSUME NEW i \in 1..Len(s), i < b, i # a PROVE t[i] = s[i]
  <2>1. i \in 1..Len(rest)
    BY <1>1, <1>3, <1>10
  <2> QED
    BY <1>3, <1>9, <1>10, <2>1
<1> QED
    BY <1>3, <1>9, <1>10 DEF t, rest, d, e

\* e comes to the n-th place.
LEMMA InsertPlaces ==
    ASSUME NEW s \in Seq(Notification), NEW n \in 1..Len(s), NEW e \in Notification
    PROVE  /\ DOMAIN InsertAt(s, n, e) = 1..Len(s) + 1
           /\ InsertAt(s, n, e)[n] = e
           /\ \A j \in 1..Len(s) : j < n => InsertAt(s, n, e)[j] = s[j]
<1>1. n \in 1..Len(s) + 1
    BY LenProperties
<1>2. /\ InsertAt(s, n, e)[n] = e
      /\ \A j \in 1..Len(s) : j < n => InsertAt(s, n, e)[j] = s[j]
    BY <1>1, InsertAtPlaces
<1>3. DOMAIN InsertAt(s, n, e) = 1..Len(s) + 1
  <2>1. InsertAt(s, n, e) \in Seq(Notification) /\ Len(InsertAt(s, n, e)) = Len(s) + 1
    BY <1>1, InsertAtFacts
  <2> QED
    BY <2>1, LenProperties
<1> QED
    BY <1>2, <1>3

\* What is removed when room is made, and what comes after it.
LEMMA SuccessorFacts ==
    ASSUME IInv, NEW m \in Mon, TooMany(m)
    PROVE  /\ queue[m][Victim(m)] \in ToSet(queue[m])
           /\ queue[m][Victim(m) + 1] \in ToSet(queue[m])
           /\ Key(queue[m][Victim(m)]) < Key(queue[m][Victim(m) + 1])
<1>1. PICK v : v = Victim(m)
    OBVIOUS
<1>2. v \in 1..Len(queue[m]) /\ v < Len(queue[m]) /\ Len(queue[m]) \in Nat
    BY <1>1, VictimFacts
<1>3. v + 1 \in 1..Len(queue[m]) /\ v < v + 1
    BY <1>2
<1>4. /\ queue[m] \in Seq(Notification) /\ Ordered(queue[m], m)
      /\ \A y \in ToSet(queue[m]) : y.mon = m
    BY HeldFacts
<1>5. /\ \A i, j \in 1..Len(queue[m]) : i < j <=> Key(queue[m][i]) < Key(queue[m][j])
      /\ \A i \in 1..Len(queue[m]) : queue[m][i] \in ToSet(queue[m])
    BY <1>4, OrderedFacts, ToSetFacts
<1> QED
    BY <1>1, <1>2, <1>3, <1>5

\* The first place of a reporting item stays taken.
LEMMA PlaceStays ==
    ASSUME IInv, NEW m \in Mon, RemoveOne(m) \/ SpaceMade(m) \/ EventOverflow(m),
           mode[m] = "reporting",
           NEW p \in DOMAIN notificationQueue, notificationQueue[p].mon = m,
           \A i \in DOMAIN notificationQueue : notificationQueue[i].mon = m => p <= i
    PROVE  p \in DOMAIN notificationQueue' /\ notificationQueue'[p].mon = m
<1>1. PICK s : s = notificationQueue
    OBVIOUS
<1>2. /\ s \in Seq(Notification) /\ IsInjective(s)
      /\ Ordered(s, m)
    BY <1>1, SubscribedFacts DEF Orderly
<1>3. ToSet(queue[m]) \subseteq ToSet(s)
    BY <1>1 DEF IInv, ItemsInv, ItemOk, WholeOf, Holds, Subscribed
<1>4. /\ DOMAIN s = 1..Len(s) /\ Len(s) \in Nat
      /\ \A y \in ToSet(s) : \E i \in 1..Len(s) : s[i] = y
      /\ p \in 1..Len(s) /\ s[p].mon = m
      /\ \A i \in 1..Len(s) : s[i].mon = m => p <= i
  <2>1. /\ DOMAIN s = 1..Len(s) /\ Len(s) \in Nat
        /\ \A y \in ToSet(s) : \E i \in 1..Len(s) : s[i] = y
    BY <1>2, ToSetFacts, LenProperties
  <2> QED
    BY <1>1, <2>1
<1>5. \A y \in ToSet(queue[m]) : y \in Notification /\ y.mon = m
    BY HeldFacts
<1>6. CASE notificationQueue' = notificationQueue
    BY <1>6
<1>7. CASE RemoveOne(m)
  <2>1. PICK d, e : d = queue[m][Victim(m)] /\ e = queue[m][Victim(m) + 1]
    OBVIOUS
  <2>2. d \in ToSet(queue[m]) /\ e \in ToSet(queue[m]) /\ Key(d) < Key(e)
    BY <1>7, <2>1, SuccessorFacts DEF RemoveOne
  <2>3. PICK a, b \in 1..Len(s) : s[a] = d /\ s[b] = e
    BY <1>3, <1>4, <2>2
  <2>4. s[a].mon = m /\ s[b].mon = m
    BY <1>5, <2>2, <2>3
  <2>5. a < b
    BY <1>2, <2>2, <2>3, <2>4, PlaceFacts
  <2>6. p <= a
    BY <1>4, <2>4
  <2> DEFINE rest == Without(s, s[b])
             t == [rest EXCEPT ![IndexOf(rest, s[a])] = s[b]]
  <2>7. notificationQueue' = t
    <3>1. notificationQueue' = TakenOver(d, e)
      BY <1>7, <2>1 DEF RemoveOne
    <3>2. Reported(d) /\ Reported(e)
      BY <1>1, <1>3, <2>2 DEF Reported
    <3> QED
      BY <1>1, <2>3, <3>1, <3>2 DEF TakenOver
  <2>8. /\ Len(t) = Len(s) - 1
        /\ t[a] = s[b]
        /\ \A i \in 1..Len(s) : i < b /\ i # a => t[i] = s[i]
    BY <1>2, <2>5, ReplacePlaces
  <2>9. t \in Seq(Notification)
    BY <1>7, <2>7, RemoveOneEffect DEF Moved
  <2> HIDE DEF t
  <2>10. DOMAIN t = 1..Len(t)
    BY <2>9, LenProperties
  <2>11. p \in DOMAIN t
    BY <1>4, <2>3, <2>5, <2>6, <2>8, <2>10
  <2>12. t[p].mon = m
    <3>1. CASE p = a
      BY <2>4, <2>8, <3>1
    <3>2. CASE p # a
      <4>1. p < b
        BY <1>4, <2>3, <2>5, <2>6
      <4> QED
        BY <1>4, <2>8, <3>2, <4>1
    <3> QED
      BY <3>1, <3>2
  <2> QED
    BY <2>7, <2>11, <2>12
<1>8. CASE EventOverflow(m) /\ ~AdjacentOverflow(m)
  <2>1. PICK at : at = Indicator(m)
    OBVIOUS
  <2>2. PICK ov : ov = [at EXCEPT !.over = TRUE]
    OBVIOUS
  <2>3. at \in ToSet(queue[m]) /\ ov \in Notification /\ ov.mon = m
    BY <1>8, <2>1, <2>2, OverflowEffect
  <2>4. notificationQueue' = OverflowPlaced(ov, at)
    BY <1>8, <2>1, <2>2 DEF EventOverflow
  <2>5. at \in ToSet(s)
    BY <1>3, <2>3
  <2>6. PICK n : n = IndexOf(s, at)
    OBVIOUS
  <2>7. n \in 1..Len(s) /\ s[n] = at
    BY <1>2, <2>5, <2>6, IndexFacts
  <2>8. notificationQueue' = InsertAt(s, n, ov)
    BY <1>1, <2>4, <2>5, <2>6 DEF OverflowPlaced, Reported, InsertBefore
  <2>10. /\ DOMAIN InsertAt(s, n, ov) = 1..Len(s) + 1
         /\ InsertAt(s, n, ov)[n] = ov
         /\ \A j \in 1..Len(s) : j < n => InsertAt(s, n, ov)[j] = s[j]
    BY <1>2, <2>3, <2>7, InsertPlaces
  <2>11. p <= n
    BY <1>4, <1>5, <2>3, <2>7
  <2>12. p \in 1..Len(s) + 1
    BY <1>4
  <2>13. InsertAt(s, n, ov)[p].mon = m
    <3>1. CASE p = n
      BY <2>3, <2>10, <3>1
    <3>2. CASE p # n
      <4>1. p < n
        BY <1>4, <2>7, <2>11, <3>2
      <4> QED
        BY <1>4, <2>10, <4>1
    <3> QED
      BY <3>1, <3>2
  <2> QED
    BY <2>8, <2>10, <2>12, <2>13
<1>9. CASE SpaceMade(m) \/ (EventOverflow(m) /\ AdjacentOverflow(m))
  <2>1. notificationQueue' = notificationQueue
    BY <1>9 DEF SpaceMade, EventOverflow, queueVars
  <2> QED
    BY <2>1
<1> QED
    BY <1>7, <1>8, <1>9

\* While room is made for an item, nothing else happens.
LEMMA MakingSpaceSteps ==
    ASSUME IInv, Next, NEW m \in Mon, MakingSpace(m)
    PROVE  RemoveOne(m) \/ SpaceMade(m) \/ EventOverflow(m)
<1>1. call # Idle /\ call.op \in {"enqueue", "modify"} /\ call.mon = m
    BY CallFacts DEF MakingSpace
<1>2. ~Publish
    BY <1>1 DEF Publish
<1>3. ASSUME NEW k \in Mon, Notify(k) \/ Service(k) \/ TriggerExpires(k)
      PROVE  FALSE
    BY <1>1, <1>3 DEF Notify, Service, TriggerExpires, CreateMonitoredItem, SetMonitoringMode,
       ModifyMonitoredItem, DeleteMonitoredItem, AddLink, RemoveLink
<1>4. ASSUME NEW k \in Mon, Step(k)
      PROVE  k = m /\ (RemoveOne(k) \/ SpaceMade(k) \/ EventOverflow(k))
    BY <1>1, <1>4 DEF Step, RemoveOne, SpaceMade, EventOverflow, RemoveDeadLink, Trigger,
       FirstSample, MakingSpace
<1> QED
    BY <1>2, <1>3, <1>4 DEF Next

\* A reporting item whose queue overflows keeps the place of its first
\* notification in the queue of the subscription.
THEOREM PlaceAlwaysKept == Spec => KeepsPlace
<1>1. ASSUME IInv, [Next]_vars, NEW m \in Mon,
             MakingSpace(m), mode[m] = "reporting", Reports(m) # {}
      PROVE  Reports(m)' # {} /\ Min(Reports(m))' <= Min(Reports(m))
  <2>1. notificationQueue \in Seq(Notification) /\ notificationQueue' \in Seq(Notification)
    <3>1. IInv'
      BY <1>1, NextKeeps, StutterKeeps
    <3> QED
      BY <1>1, <3>1 DEF IInv, Queues
  <2>2. Reports(m) \in SUBSET Nat /\ Reports(m)' \in SUBSET Nat
    <3>1. /\ DOMAIN notificationQueue = 1..Len(notificationQueue)
          /\ DOMAIN notificationQueue' = 1..Len(notificationQueue')
      BY <2>1, LenProperties
    <3>2. /\ 1..Len(notificationQueue) \subseteq Nat
          /\ 1..Len(notificationQueue') \subseteq Nat
      OBVIOUS
    <3>3. /\ Reports(m) \subseteq DOMAIN notificationQueue
          /\ Reports(m)' \subseteq DOMAIN notificationQueue'
      BY DEF Reports
    <3> QED
      BY <3>1, <3>2, <3>3
  <2>3. PICK p : p = Min(Reports(m))
    OBVIOUS
  <2>4. p \in Reports(m) /\ \A i \in Reports(m) : p <= i
    BY <1>1, <2>2, <2>3, MinFacts
  <2>5. p \in Reports(m)'
    <3>1. CASE UNCHANGED vars
      BY <2>4, <3>1 DEF vars, Reports
    <3>2. CASE Next
      <4>1. RemoveOne(m) \/ SpaceMade(m) \/ EventOverflow(m)
        BY <1>1, <3>2, MakingSpaceSteps
      <4>2. p \in DOMAIN notificationQueue' /\ notificationQueue'[p].mon = m
        BY <1>1, <2>4, <4>1, PlaceStays DEF Reports
      <4> QED
        BY <4>2 DEF Reports
    <3> QED
      BY <1>1, <3>1, <3>2
  <2>6. PICK R : R = Reports(m)'
    OBVIOUS
  <2>7. R \in SUBSET Nat /\ p \in R
    BY <2>2, <2>5, <2>6
  <2>8. Min(R) <= p
    BY <2>7, MinFacts
  <2>9. Min(Reports(m))' = Min(R)
    BY <2>6
  <2> QED
    BY <2>3, <2>5, <2>8, <2>9
<1>2. IInv /\ [Next]_vars =>
         [\A m \in Mon :
             (MakingSpace(m) /\ mode[m] = "reporting" /\ Reports(m) # {})
                 => Reports(m)' # {} /\ Min(Reports(m))' <= Min(Reports(m))]_vars
    BY <1>1
<1> QED
    BY <1>2, NotificationInvariance, PTL DEF Spec, KeepsPlace
=============================================================================
