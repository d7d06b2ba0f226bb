-------------------------- MODULE ChunkStreamProofs --------------------------
(***************************************************************************)
(* ChunkStream implements MessageStream, never refuses a sender that keeps *)
(* to the standard, and never reads a released buffer: for any sizes of    *)
(* chunks and buffers, any limits and any depth of nested calls.           *)
(*                                                                         *)
(* The chunks between the sender and the next delivery, decrypted, queued  *)
(* or on their way, form one line.  The lemmas on Framed and Numbered say  *)
(* what a line keeps when a chunk joins it and when some leave it; the     *)
(* lemmas on the actions say which of the two each action does.            *)
(***************************************************************************)
EXTENDS ChunkStreamProperties, TLAPS, SequenceTheorems

ChunkType == {"intermediate", "final", "abort"}

-----------------------------------------------------------------------------
(* A line d of n chunks, of which the last q belong to a message that goes   *)
(* on; b messages have been begun, and s holds the l that were finished.     *)

LineTypes(d, n, q, b, s, l) ==
  /\ {n, q, b, l} \subseteq Nat
  /\ \A i \in 1..n : d[i].id \in Nat
  /\ \A k \in 1..l : s[k].id \in Nat /\ s[k].chunks \in Nat \ {0}

\* Message m is all of the chunks up to position e that follow the end of
\* another message.
EndsAt(d, e, m) ==
  /\ d[e].type = "final" /\ m.chunks <= e
  /\ \A i \in e - m.chunks + 1..e : d[i].id = m.id
  /\ \A i \in e - m.chunks + 1..e - 1 : d[i].type = "intermediate"
  /\ m.chunks < e => d[e - m.chunks].type # "intermediate"

\* The last chunks of the line are those of message b.
GoesOn(d, n, q, b) ==
  /\ q <= n
  /\ \A i \in n - q + 1..n : d[i].id = b /\ d[i].type = "intermediate"
  /\ q < n => d[n - q].type # "intermediate"

\* The identifiers of the messages grow along the line and in s.
Growing(d, n, q, b, s, l) ==
  /\ \A i, j \in 1..n : i < j => d[i].id <= d[j].id
  /\ \A i, j \in 1..n : i < j /\ d[i].type # "intermediate" => d[i].id < d[j].id
  /\ \A i \in 1..n : d[i].id <= b
  /\ \A j, k \in 1..l : j < k => s[j].id < s[k].id
  /\ \A k \in 1..l : s[k].id <= b /\ (q > 0 => s[k].id < b)

\* Fewer than MaxChunkCount chunks follow each other without an end.
Short(d, n) ==
  \A i, j \in 1..n :
    i <= j /\ (\A k \in i..j : d[k].type = "intermediate") => j - i + 1 < MaxChunkCount

\* The line holds the messages of s after the first r, and no others, apart from
\* those given up.
Holds(d, n, s, l, r) ==
  /\ r <= l
  /\ \A k \in r + 1..l : \E e \in 1..n : EndsAt(d, e, s[k])
  /\ \A e \in 1..n : d[e].type = "final" => \E k \in r + 1..l : EndsAt(d, e, s[k])

Framed(d, n, q, b, s, l, r) ==
  /\ LineTypes(d, n, q, b, s, l)
  /\ GoesOn(d, n, q, b) /\ Growing(d, n, q, b, s, l) /\ Short(d, n)
  /\ q < MaxChunkCount
  /\ Holds(d, n, s, l, r)

\* The sequence numbers follow each other from r, that of the chunk at position
\* p, to t, that of the last one.
Numbered(d, n, p, r, t) ==
  /\ \A i \in p + 1..n : d[i].seq \in Successors(IF i = p + 1 THEN r ELSE d[i - 1].seq)
  /\ t = IF n = p THEN r ELSE d[n].seq

\* Line g is line d of n chunks followed by chunk c.
Joined(d, n, g, c) == (\A i \in 1..n : g[i] = d[i]) /\ g[n + 1] = c

\* The number of the message a chunk belongs to when the next one is sent.
NextId(q, b) == IF q = 0 THEN b + 1 ELSE b

\* What the limits are assumed to be.
LEMMA Limits == MaxChunkCount \in Nat \ {0} /\ MaxMessages \in Nat /\ MaxDepth \in Nat
BY LimitAssumption

\* What a new chunk does not touch.
LEMMA StillEndsAt ==
  ASSUME NEW d, NEW n \in Nat, NEW g, NEW c, NEW e \in 1..n, NEW m, m.chunks \in Nat \ {0}, 
         Joined(d, n, g, c)
  PROVE  EndsAt(d, e, m) <=> EndsAt(g, e, m)
<1>1. \A i \in e - m.chunks + 1..e : m.chunks <= e => i \in 1..n
    OBVIOUS
<1>2. m.chunks < e => e - m.chunks \in 1..n
    OBVIOUS
<1> QED
    BY <1>1, <1>2 DEF EndsAt, Joined

\* Identifiers still grow when a chunk of the message that goes on, or of a new
\* one, joins the line.
LEMMA StillGrowing ==
  ASSUME NEW d, NEW n, NEW g, NEW c, NEW q, NEW b, NEW s, NEW l,
         LineTypes(d, n, q, b, s, l), Growing(d, n, q, b, s, l), GoesOn(d, n, q, b),
         Joined(d, n, g, c), c.id = NextId(q, b)
  PROVE  /\ LineTypes(g, n + 1, q + 1, NextId(q, b), s, l)
         /\ Growing(g, n + 1, q + 1, NextId(q, b), s, l)
<1>1. n \in Nat /\ q \in Nat /\ b \in Nat /\ l \in Nat /\ NextId(q, b) \in Nat /\ b <= NextId(q, b)
    BY DEF LineTypes, NextId
<1>2. \A i \in 1..n : g[i].id \in Nat /\ g[i].id <= NextId(q, b)
    BY <1>1 DEF LineTypes, Growing, Joined
<1>3. g[n + 1].id = NextId(q, b)
    BY DEF Joined
<1>4. \A i, j \in 1..n + 1 : i < j => g[i].id <= g[j].id
    BY <1>1, <1>2, <1>3 DEF Growing, Joined
<1>5. \A k \in 1..l : s[k].id < NextId(q, b)
    BY <1>1 DEF LineTypes, Growing, NextId
<1>6. \A i \in 1..n : g[i].type # "intermediate" => g[i].id < NextId(q, b)
  <2> SUFFICES ASSUME NEW i \in 1..n, d[i].type # "intermediate"
               PROVE  d[i].id < NextId(q, b)
      BY DEF Joined
  <2>1. CASE q = 0
      BY <2>1, <1>1 DEF Growing, LineTypes, NextId
  <2>2. CASE q > 0
    <3>1. i < n /\ n \in 1..n /\ d[n].id = b
        BY <2>2, <1>1 DEF GoesOn
    <3> QED
        BY <3>1, <2>2 DEF Growing, NextId
  <2> QED
      BY <1>1, <2>1, <2>2
<1>7. \A i, j \in 1..n + 1 : i < j /\ g[i].type # "intermediate" => g[i].id < g[j].id
    BY <1>1, <1>3, <1>6 DEF Growing, Joined
<1>8. Growing(g, n + 1, q + 1, NextId(q, b), s, l)
    BY <1>1, <1>2, <1>3, <1>4, <1>5, <1>7 DEF Growing, LineTypes
<1> QED
    BY <1>1, <1>2, <1>3, <1>8 DEF LineTypes

\* An intermediate chunk joins the line.
LEMMA FramedIntermediate ==
  ASSUME NEW d, NEW n, NEW g, NEW c, NEW q, NEW b, NEW s, NEW l, NEW r \in Nat,
         Framed(d, n, q, b, s, l, r), Joined(d, n, g, c),
         c.type = "intermediate", c.id = NextId(q, b), q + 1 < MaxChunkCount
  PROVE  Framed(g, n + 1, q + 1, NextId(q, b), s, l, r)
<1>1. n \in Nat /\ q \in Nat /\ b \in Nat /\ l \in Nat /\ NextId(q, b) \in Nat
    BY DEF LineTypes, NextId, Framed
<1>2. GoesOn(g, n + 1, q + 1, NextId(q, b))
  <2>1. \A i \in n - q + 1..n : d[i].id = NextId(q, b) /\ d[i].type = "intermediate"
      BY <1>1 DEF Framed, GoesOn, NextId
  <2> QED
      BY <1>1, <2>1 DEF Framed, GoesOn, Joined
<1>3. Short(g, n + 1)
  <2> SUFFICES ASSUME NEW i \in 1..n + 1, NEW j \in 1..n + 1, i <= j,
                      \A k \in i..j : g[k].type = "intermediate"
               PROVE  j - i + 1 < MaxChunkCount
      BY DEF Short
  <2>1. CASE j <= n
    <3>1. \A k \in i..j : d[k].type = "intermediate"
        BY <1>1, <2>1 DEF Joined
    <3> QED
        BY <1>1, <2>1, <3>1 DEF Framed, Short
  <2>2. CASE j = n + 1 /\ i <= n - q
    <3>1. q < n /\ n - q \in i..j /\ n - q \in 1..n
        BY <2>2, <1>1
    <3> QED
        BY <3>1 DEF Framed, GoesOn, Joined
  <2>3. CASE j = n + 1 /\ i > n - q
      BY <2>3, <1>1, Limits
  <2> QED
      BY <2>1, <2>2, <2>3, <1>1
<1>4. \A e \in 1..n, k \in 1..l : EndsAt(d, e, s[k]) <=> EndsAt(g, e, s[k])
    BY <1>1, StillEndsAt DEF Framed, LineTypes
<1>5. Holds(g, n + 1, s, l, r)
    BY <1>1, <1>4 DEF Framed, Holds, Joined
<1> QED
    BY <1>1, <1>2, <1>3, <1>5, StillGrowing DEF Framed

\* No chunks in a row without an end become too many when one with an end joins.
LEMMA StillShort ==
  ASSUME NEW d, NEW n \in Nat, NEW g, NEW c,
         Short(d, n), Joined(d, n, g, c), c.type # "intermediate"
  PROVE  Short(g, n + 1)
<1> SUFFICES ASSUME NEW i \in 1..n + 1, NEW j \in 1..n + 1, i <= j,
                    \A k \in i..j : g[k].type = "intermediate"
             PROVE  j - i + 1 < MaxChunkCount
    BY DEF Short
<1>1. j \in 1..n /\ i \in 1..n
    BY DEF Joined
<1>2. \A k \in i..j : d[k].type = "intermediate"
    BY <1>1 DEF Joined
<1> QED
    BY <1>1, <1>2 DEF Short

\* A final chunk joins the line, and its message those that were finished.
LEMMA FramedFinal ==
  ASSUME NEW d, NEW n, NEW g, NEW c, NEW q, NEW b, NEW s, NEW l, NEW r \in Nat, NEW t,
         Framed(d, n, q, b, s, l, r), Joined(d, n, g, c),
         c.type = "final", c.id = NextId(q, b),
         \A k \in 1..l : t[k] = s[k], t[l + 1].id = NextId(q, b), t[l + 1].chunks = q + 1
  PROVE  Framed(g, n + 1, 0, NextId(q, b), t, l + 1, r)
<1>1. n \in Nat /\ q \in Nat /\ b \in Nat /\ l \in Nat /\ NextId(q, b) \in Nat
    BY DEF LineTypes, NextId, Framed
<1>2. GoesOn(g, n + 1, 0, NextId(q, b))
    BY <1>1 DEF GoesOn, Joined
<1>3. /\ LineTypes(g, n + 1, q + 1, NextId(q, b), s, l)
      /\ Growing(g, n + 1, q + 1, NextId(q, b), s, l)
    BY <1>1, StillGrowing DEF Framed
<1>4. LineTypes(g, n + 1, 0, NextId(q, b), t, l + 1)
    BY <1>1, <1>3 DEF LineTypes
<1>5. \A k \in 1..l : t[k].id < t[l + 1].id
    BY <1>1, <1>3 DEF Growing
<1>6. Growing(g, n + 1, 0, NextId(q, b), t, l + 1)
    BY <1>1, <1>3, <1>5 DEF Growing
<1>7. EndsAt(g, n + 1, t[l + 1])
  <2>1. \A i \in n - q + 1..n : g[i].id = NextId(q, b) /\ g[i].type = "intermediate"
      BY <1>1 DEF Framed, GoesOn, NextId, Joined
  <2>2. q < n => g[n - q].type # "intermediate"
      BY <1>1 DEF Framed, GoesOn, Joined
  <2> QED
      BY <1>1, <2>1, <2>2 DEF EndsAt, Joined, Framed, GoesOn
<1>8. \A e \in 1..n, k \in 1..l : EndsAt(d, e, s[k]) <=> EndsAt(g, e, t[k])
    BY <1>1, StillEndsAt DEF Framed, LineTypes
<1>9. Holds(g, n + 1, t, l + 1, r)
  <2>1. \A k \in r + 1..l + 1 : \E e \in 1..n + 1 : EndsAt(g, e, t[k])
      BY <1>1, <1>7, <1>8 DEF Framed, Holds
  <2>2. \A e \in 1..n + 1 : g[e].type = "final" => \E k \in r + 1..l + 1 : EndsAt(g, e, t[k])
      BY <1>1, <1>7, <1>8 DEF Framed, Holds, Joined
  <2> QED
      BY <1>1, <2>1, <2>2 DEF Framed, Holds
<1>10. Short(g, n + 1)
    BY <1>1, StillShort DEF Framed
<1> QED
    BY <1>2, <1>4, <1>6, <1>9, <1>10, Limits DEF Framed

\* An abort chunk joins the line and ends the message that goes on.
LEMMA FramedAbort ==
  ASSUME NEW d, NEW n, NEW g, NEW c, NEW q, NEW b, NEW s, NEW l, NEW r \in Nat,
         Framed(d, n, q, b, s, l, r), Joined(d, n, g, c),
         c.type = "abort", q > 0, c.id = b
  PROVE  Framed(g, n + 1, 0, b, s, l, r)
<1>1. n \in Nat /\ q \in Nat /\ b \in Nat /\ l \in Nat /\ NextId(q, b) = b
    BY DEF LineTypes, NextId, Framed
<1>2. GoesOn(g, n + 1, 0, b)
    BY <1>1 DEF GoesOn, Joined
<1>3. /\ LineTypes(g, n + 1, q + 1, b, s, l)
      /\ Growing(g, n + 1, q + 1, b, s, l)
    BY <1>1, StillGrowing DEF Framed
<1>4. LineTypes(g, n + 1, 0, b, s, l) /\ Growing(g, n + 1, 0, b, s, l)
    BY <1>1, <1>3 DEF LineTypes, Growing
<1>5. \A e \in 1..n, k \in 1..l : EndsAt(d, e, s[k]) <=> EndsAt(g, e, s[k])
    BY <1>1, StillEndsAt DEF Framed, LineTypes
<1>6. Holds(g, n + 1, s, l, r)
    BY <1>1, <1>5 DEF Framed, Holds, Joined
<1>7. Short(g, n + 1)
    BY <1>1, StillShort DEF Framed
<1> QED
    BY <1>2, <1>4, <1>6, <1>7, Limits DEF Framed

\* The first chunk in the line that ends a message: it comes in time, and if it is
\* a final one it ends the first message that has not been delivered, which is all
\* of the line up to it.
LEMMA FirstEnd ==
  ASSUME NEW d, NEW n, NEW q, NEW b, NEW s, NEW l, NEW r \in Nat, NEW e,
         Framed(d, n, q, b, s, l, r), e \in 1..n,
         \A i \in 1..e - 1 : d[i].type = "intermediate"
  PROVE  /\ e <= MaxChunkCount
         /\ d[e].type = "intermediate" => e < MaxChunkCount
         /\ d[e].type = "final" =>
              /\ r + 1 \in 1..l /\ EndsAt(d, e, s[r + 1])
              /\ s[r + 1].id = d[e].id /\ s[r + 1].chunks = e
              /\ \A i \in 1..e : d[i].id = d[e].id
<1>1. n \in Nat /\ q \in Nat /\ b \in Nat /\ l \in Nat
    BY DEF LineTypes, Framed
<1>2. e <= MaxChunkCount
  <2>1. CASE e = 1
      BY <2>1, Limits
  <2>2. CASE e > 1
    <3>1. 1 \in 1..n /\ e - 1 \in 1..n
        BY <1>1, <2>2
    <3>2. (e - 1) - 1 + 1 < MaxChunkCount
        BY <3>1, <2>2, <1>1 DEF Framed, Short
    <3> QED
        BY <3>2, <1>1, Limits
  <2> QED
      BY <1>1, <2>1, <2>2
<1>3. d[e].type = "intermediate" => e < MaxChunkCount
  <2> SUFFICES ASSUME d[e].type = "intermediate" PROVE e < MaxChunkCount
      OBVIOUS
  <2>1. \A i \in 1..e : d[i].type = "intermediate"
      BY <1>1
  <2>2. 1 \in 1..n
      BY <1>1
  <2>3. e - 1 + 1 < MaxChunkCount
      BY <2>1, <2>2, <1>1 DEF Framed, Short
  <2> QED
      BY <2>3, <1>1
<1>4. ASSUME d[e].type = "final"
      PROVE  /\ r + 1 \in 1..l /\ EndsAt(d, e, s[r + 1])
             /\ s[r + 1].id = d[e].id /\ s[r + 1].chunks = e
             /\ \A i \in 1..e : d[i].id = d[e].id
  <2>1. PICK k \in r + 1..l : EndsAt(d, e, s[k])
      BY <1>4 DEF Framed, Holds
  <2>2. k = r + 1
    <3> SUFFICES ASSUME k > r + 1 PROVE FALSE
        BY <1>1
    <3>1. r + 1 \in 1..l /\ r + 1 \in r + 1..l /\ k \in 1..l
        BY <1>1
    <3>2. PICK f \in 1..n : EndsAt(d, f, s[r + 1])
        BY <3>1 DEF Framed, Holds
    <3>3. d[f].id = s[r + 1].id /\ d[e].id = s[k].id
        BY <2>1, <3>1, <3>2, <1>1 DEF EndsAt, Framed, LineTypes
    <3>4. d[f].id < d[e].id
        BY <3>1, <3>3 DEF Framed, Growing
    <3>5. f < e
      <4>1. d[f].id \in Nat /\ d[e].id \in Nat
          BY DEF Framed, LineTypes
      <4>2. e < f => d[e].id <= d[f].id
          BY DEF Framed, Growing
      <4> QED
          BY <4>1, <4>2, <3>4, <1>1
    <3>6. d[f].type = "final" /\ f \in 1..e - 1
        BY <3>2, <3>5, <1>1 DEF EndsAt
    <3> QED
        BY <3>6
  <2>3. r + 1 \in 1..l /\ EndsAt(d, e, s[r + 1])
      BY <2>1, <2>2, <1>1
  <2>4. s[r + 1].chunks \in Nat \ {0}
      BY <2>3 DEF Framed, LineTypes
  <2>5. s[r + 1].chunks = e
    <3>1. s[r + 1].chunks < e => e - s[r + 1].chunks \in 1..e - 1
        BY <2>4, <1>1
    <3> QED
        BY <3>1, <2>3, <2>4, <1>1 DEF EndsAt
  <2>6. \A i \in 1..e : d[i].id = s[r + 1].id
      BY <2>3, <2>5, <1>1 DEF EndsAt
  <2> QED
      BY <2>3, <2>5, <2>6, <1>1
<1> QED
    BY <1>2, <1>3, <1>4

\* A message leaves the front of the line, delivered or given up.
LEMMA FramedDrop ==
  ASSUME NEW d, NEW n, NEW q, NEW b, NEW s, NEW l, NEW r \in Nat, NEW e, NEW g,
         Framed(d, n, q, b, s, l, r), e \in 1..n,
         \A i \in 1..e - 1 : d[i].type = "intermediate", d[e].type # "intermediate",
         \A i \in 1..n - e : g[i] = d[e + i]
  PROVE  Framed(g, n - e, q, b, s, l, IF d[e].type = "final" THEN r + 1 ELSE r)
<1> DEFINE u == IF d[e].type = "final" THEN r + 1 ELSE r
<1>1. n \in Nat /\ q \in Nat /\ b \in Nat /\ l \in Nat /\ n - e \in Nat /\ u \in Nat
    BY DEF LineTypes, Framed
<1>2. q <= n - e
    BY <1>1 DEF Framed, GoesOn
<1>3. \A i \in 1..n - e : e + i \in 1..n
    BY <1>1
<1>4. GoesOn(g, n - e, q, b)
  <2>1. \A i \in n - e - q + 1..n - e : e + i \in n - q + 1..n /\ i \in 1..n - e
      BY <1>1, <1>2
  <2>2. q < n - e => n - e - q \in 1..n - e /\ e + (n - e - q) = n - q
      BY <1>1
  <2> QED
      BY <1>1, <1>2, <2>1, <2>2 DEF Framed, GoesOn
<1>5. LineTypes(g, n - e, q, b, s, l) /\ Growing(g, n - e, q, b, s, l)
    BY <1>1, <1>3 DEF Framed, LineTypes, Growing
<1>6. Short(g, n - e)
  <2> SUFFICES ASSUME NEW i \in 1..n - e, NEW j \in 1..n - e, i <= j,
                      \A k \in i..j : g[k].type = "intermediate"
               PROVE  j - i + 1 < MaxChunkCount
      BY DEF Short
  <2>1. \A k \in e + i..e + j : k - e \in i..j /\ k - e \in 1..n - e /\ e + (k - e) = k
      BY <1>1
  <2>2. \A k \in e + i..e + j : d[k].type = "intermediate"
      BY <2>1
  <2>3. (e + j) - (e + i) + 1 < MaxChunkCount
    <3>1. e + i \in 1..n /\ e + j \in 1..n /\ e + i <= e + j
        BY <1>1
    <3>2. Short(d, n)
        BY DEF Framed
    <3> QED
        BY <3>1, <3>2, <2>2 DEF Short
  <2> QED
      BY <2>3, <1>1
<1>7. ASSUME NEW f \in e + 1..n, NEW k \in 1..l
      PROVE  EndsAt(d, f, s[k]) <=> EndsAt(g, f - e, s[k])
  <2> DEFINE m == s[k].chunks
  <2>1. m \in Nat \ {0}
      BY DEF Framed, LineTypes
  <2>2. /\ f - e \in 1..n - e /\ e + (f - e) = f
        /\ \A i \in 1..n - e : g[i] = d[e + i]
      BY <1>1
  <2>3. ASSUME EndsAt(d, f, s[k]) PROVE EndsAt(g, f - e, s[k])
    <3>1. m <= f - e
      <4>1. m > f - e => e \in f - m + 1..f - 1
          BY <2>1, <2>3, <1>1
      <4> QED
          BY <4>1, <2>3, <2>1, <1>1 DEF EndsAt
    <3>2. \A i \in f - e - m + 1..f - e : i \in 1..n - e /\ e + i \in f - m + 1..f
        BY <3>1, <2>1, <1>1
    <3>3. \A i \in f - e - m + 1..f - e - 1 : i \in 1..n - e /\ e + i \in f - m + 1..f - 1
        BY <3>1, <2>1, <1>1
    <3>4. m < f - e => f - e - m \in 1..n - e /\ e + (f - e - m) = f - m /\ m < f
        BY <3>1, <2>1, <1>1
    <3> QED
        BY <3>1, <3>2, <3>3, <3>4, <2>2, <2>3 DEF EndsAt
  <2>4. ASSUME EndsAt(g, f - e, s[k]) PROVE EndsAt(d, f, s[k])
    <3>1. m <= f - e
        BY <2>4 DEF EndsAt
    <3>2. \A i \in f - m + 1..f : i - e \in 1..n - e /\ i - e \in f - e - m + 1..f - e /\ e + (i - e) = i
        BY <3>1, <2>1, <1>1
    <3>3. \A i \in f - m + 1..f - 1 : i - e \in 1..n - e /\ i - e \in f - e - m + 1..f - e - 1 /\ e + (i - e) = i
        BY <3>1, <2>1, <1>1
    <3>4. CASE m < f - e
      <4>1. f - e - m \in 1..n - e /\ e + (f - e - m) = f - m
          BY <3>4, <2>1, <1>1
      <4> QED
          BY <4>1, <3>1, <3>2, <3>3, <2>1, <2>2, <2>4, <3>4, <1>1 DEF EndsAt
    <3>5. CASE m = f - e
      <4>1. f - m = e
          BY <3>5, <1>1, <2>1
      <4> QED
          BY <4>1, <3>1, <3>2, <3>3, <2>1, <2>2, <2>4, <1>1 DEF EndsAt
    <3> QED
        BY <3>1, <3>4, <3>5, <2>1, <1>1
  <2> QED
      BY <2>3, <2>4
<1>8. Holds(g, n - e, s, l, u)
  <2>1. u <= l
      BY FirstEnd, <1>1 DEF Framed, Holds
  <2>2. ASSUME NEW k \in u + 1..l PROVE \E f \in 1..n - e : EndsAt(g, f, s[k])
    <3>1. k \in r + 1..l /\ k \in 1..l
        BY <1>1
    <3>2. PICK f \in 1..n : EndsAt(d, f, s[k])
        BY <3>1 DEF Framed, Holds
    <3>3. d[f].type = "final" /\ d[f].id = s[k].id
        BY <3>1, <3>2, <1>1 DEF EndsAt, Framed, LineTypes
    <3>4. f # e
      <4> SUFFICES ASSUME f = e PROVE FALSE
          OBVIOUS
      <4>1. r + 1 \in 1..l /\ s[r + 1].id = s[k].id
          BY <3>3, FirstEnd
      <4>2. r + 1 < k
          BY <3>3, <1>1
      <4> QED
          BY <3>1, <4>1, <4>2, <1>1 DEF Framed, Growing, LineTypes
    <3>5. f \in e + 1..n
        BY <3>3, <3>4, <1>1
    <3> QED
        BY <3>1, <3>2, <3>5, <1>7, <1>1
  <2>3. ASSUME NEW f \in 1..n - e, g[f].type = "final"
        PROVE  \E k \in u + 1..l : EndsAt(g, f, s[k])
    <3>1. e + f \in e + 1..n /\ d[e + f].type = "final" /\ (e + f) - e = f
        BY <1>1, <2>3
    <3>2. PICK k \in r + 1..l : EndsAt(d, e + f, s[k])
        BY <3>1, <1>3 DEF Framed, Holds
    <3>3. k \in 1..l
        BY <1>1
    <3>4. EndsAt(g, f, s[k])
        BY <3>1, <3>2, <3>3, <1>7
    <3>5. k \in u + 1..l
      <4>1. CASE d[e].type = "final"
        <5>1. d[e].id < d[e + f].id
            BY <3>1, <1>1 DEF Framed, Growing
        <5>2. k # r + 1
          <6>1. d[e + f].id = s[k].id
              BY <3>1, <3>2, <3>3, <1>1 DEF EndsAt, Framed, LineTypes
          <6>2. d[e].id \in Nat /\ s[r + 1].id = d[e].id
              BY FirstEnd, <4>1 DEF Framed, LineTypes
          <6> QED
              BY <5>1, <6>1, <6>2
        <5> QED
            BY <5>2, <4>1, <1>1
      <4>2. CASE d[e].type # "final"
          BY <4>2
      <4> QED
          BY <4>1, <4>2
    <3> QED
        BY <3>4, <3>5
  <2> QED
      BY <2>1, <2>2, <2>3 DEF Holds
<1> QED
    BY <1>4, <1>5, <1>6, <1>8 DEF Framed

-----------------------------------------------------------------------------
(* Sequence numbers.                                                         *)

\* The numbers a sender may use are within the range, and the receiver accepts
\* them.
LEMMA SuccessorFacts ==
  ASSUME NEW n \in 0..SeqRange - 1, NEW m \in Successors(n)
  PROVE  m \in 0..SeqRange - 1 /\ SeqAccepted(n, m)
<1>1. /\ SeqRange \in Nat \ {0} /\ MaxFirst \in 1..SeqRange /\ Rollover \in Nat
      /\ Rollover < SeqRange /\ n \in Nat /\ n < SeqRange
    BY SequenceAssumption
<1>2. (n + 1) % SeqRange \in 0..SeqRange - 1
    BY <1>1
<1>3. CASE m = (n + 1) % SeqRange
    BY <1>2, <1>3 DEF SeqAccepted
<1>4. CASE n > Rollover /\ n < SeqRange - 1 /\ m \in 0..MaxFirst - 1
  <2>1. (n + 1) % SeqRange = n + 1
      BY <1>1, <1>4
  <2> QED
      BY <1>1, <1>4, <2>1 DEF SeqAccepted
<1> QED
    BY <1>3, <1>4 DEF Successors

\* A chunk with the sender's next number joins the line.
LEMMA NumberedJoin ==
  ASSUME NEW d, NEW n \in Nat, NEW g, NEW c, NEW p \in 0..n, NEW r, NEW t,
         Numbered(d, n, p, r, t), Joined(d, n, g, c), c.seq \in Successors(t)
  PROVE  Numbered(g, n + 1, p, r, c.seq)
<1>1. ASSUME NEW i \in p + 1..n + 1
      PROVE  g[i].seq \in Successors(IF i = p + 1 THEN r ELSE g[i - 1].seq)
  <2>1. CASE i \in p + 1..n
      BY <2>1 DEF Numbered, Joined
  <2>2. CASE i = n + 1 /\ n = p
      BY <2>2 DEF Numbered, Joined
  <2>3. CASE i = n + 1 /\ n # p
    <3>1. i - 1 = n /\ n \in 1..n /\ i # p + 1
        BY <2>3
    <3> QED
        BY <3>1, <2>3 DEF Numbered, Joined
  <2> QED
      BY <2>1, <2>2, <2>3
<1> QED
    BY <1>1 DEF Numbered, Joined

\* The receiver takes the next chunk, which has a number it accepts, and keeps it
\* in the line.
LEMMA NumberedTake ==
  ASSUME NEW d, NEW n \in Nat, NEW p \in 0..n - 1, NEW r \in 0..SeqRange - 1, NEW t,
         Numbered(d, n, p, r, t)
  PROVE  /\ SeqAccepted(r, d[p + 1].seq) /\ d[p + 1].seq \in 0..SeqRange - 1
         /\ Numbered(d, n, p + 1, d[p + 1].seq, t)
<1>1. d[p + 1].seq \in Successors(r)
    BY DEF Numbered
<1> QED
    BY <1>1, SuccessorFacts DEF Numbered

\* The chunks up to the one taken last leave the line.
LEMMA NumberedDrop ==
  ASSUME NEW d, NEW n \in Nat, NEW e \in 1..n, NEW g, NEW r, NEW t,
         Numbered(d, n, e, r, t), d[e].seq = r, \A i \in 1..n - e : g[i] = d[e + i]
  PROVE  Numbered(g, n - e, 0, r, t)
<1>1. ASSUME NEW i \in 1..n - e
      PROVE  g[i].seq \in Successors(IF i = 1 THEN r ELSE g[i - 1].seq)
  <2>1. e + i \in e + 1..n /\ (e + i) - 1 = e + (i - 1) /\ (i # 1 => i - 1 \in 1..n - e)
      OBVIOUS
  <2>2. d[e + i].seq \in Successors(IF e + i = e + 1 THEN r ELSE d[(e + i) - 1].seq)
      BY <2>1 DEF Numbered
  <2> QED
      BY <2>1, <2>2
<1>2. t = IF n - e = 0 THEN r ELSE g[n - e].seq
  <2>1. n - e # 0 => n - e \in 1..n - e /\ e + (n - e) = n
      OBVIOUS
  <2> QED
      BY <2>1 DEF Numbered
<1> QED
    BY <1>1, <1>2 DEF Numbered

-----------------------------------------------------------------------------
(* The invariant.                                                            *)

SentChunk == [id : Nat, type : ChunkType, size : Size, seq : 0..SeqRange - 1]
QueuedChunk == [id : Nat, type : ChunkType, seq : 0..SeqRange - 1, buffer : Nat]

StreamTypes ==
  /\ sendSeq \in 0..SeqRange - 1 /\ recvSeq \in 0..SeqRange - 1
  /\ current \in [id : Nat, chunks : Nat] /\ begun \in 0..MaxMessages
  /\ IF current.chunks = 0 THEN current = Idle ELSE current.id = begun /\ begun > 0
  /\ sent \in Seq(Messages) /\ delivered \in Seq(Messages)
  /\ stream \in Seq(SentChunk)
  /\ complete \in Seq(QueuedChunk) /\ decrypted \in Seq(QueuedChunk)
  /\ count \in Nat /\ stack \in Seq({"processing", "callback"})

\* The line of chunks.
Queued == Len(decrypted) + Len(complete)
InLine == Queued + Len(stream)
Bare(c) == [id |-> c.id, type |-> c.type, seq |-> c.seq]
ChunkAt(i) == IF i <= Len(decrypted) THEN Bare(decrypted[i])
              ELSE IF i <= Queued THEN Bare(complete[i - Len(decrypted)])
              ELSE Bare(stream[i - Queued])
Line == [i \in 1..InLine |-> ChunkAt(i)]

BuffersOwned ==
  /\ \A i \in 1..Len(complete) : complete[i].buffer <= Len(stack)
  /\ \A i \in 1..Len(decrypted) : decrypted[i].buffer <= Len(stack)

LineInv ==
  /\ \A i \in 1..Len(decrypted) : decrypted[i].type = "intermediate"
  /\ Framed(Line, InLine, current.chunks, begun, sent, Len(sent), Len(delivered))
  /\ Numbered(Line, InLine, Len(decrypted), recvSeq, sendSeq)

StreamInv ==
  /\ StreamTypes /\ BuffersOwned /\ LineInv
  /\ ~failed /\ count = Len(decrypted)

\* The lengths and elements that make up the line.
LEMMA LineFacts ==
  ASSUME StreamTypes
  PROVE  /\ Len(decrypted) \in Nat /\ Len(complete) \in Nat /\ Len(stream) \in Nat
         /\ Queued \in Nat /\ InLine \in Nat
         /\ \A i \in 1..InLine : Line[i] = ChunkAt(i)
BY DEF StreamTypes, Queued, InLine, Line

\* The invariant holds at the start.
LEMMA StreamInvInit == Init => StreamInv
<1> SUFFICES ASSUME Init PROVE StreamInv
    OBVIOUS
<1>1. StreamTypes
    BY SequenceAssumption, Limits DEF Init, StreamTypes, Idle
<1>2. InLine = 0 /\ Len(decrypted) = 0 /\ Len(sent) = 0 /\ Len(delivered) = 0 /\ Len(complete) = 0
    BY DEF Init, InLine, Queued
<1>3. current.chunks = 0 /\ begun = 0 /\ recvSeq = sendSeq
    BY DEF Init, Idle
<1>4. Framed(Line, 0, 0, 0, sent, 0, 0)
    BY Limits DEF Framed, LineTypes, GoesOn, Growing, Short, Holds
<1>5. Numbered(Line, 0, 0, recvSeq, sendSeq)
    BY <1>3 DEF Numbered
<1> QED
    BY <1>1, <1>2, <1>3, <1>4, <1>5 DEF StreamInv, BuffersOwned, LineInv, Init

-----------------------------------------------------------------------------
(* The sender.                                                               *)

\* The message the next chunk belongs to.
LEMMA MessageFacts ==
  ASSUME StreamTypes
  PROVE  /\ Message.id = NextId(current.chunks, begun) /\ Message.chunks = current.chunks
         /\ current # Idle => current.id = begun /\ current.chunks > 0
         /\ MayBegin => Message.id \in 1..MaxMessages \/ (current.chunks > 0 /\ Message.id = begun)
BY Limits DEF StreamTypes, Message, MayBegin, NextId, Idle

\* Sending a chunk makes it join the line.
LEMMA SendJoins ==
  ASSUME StreamTypes, NEW m, m.id \in Nat, NEW type \in ChunkType, SendChunk(m, type),
         UNCHANGED receiver
  PROVE  \E c : /\ c.id = m.id /\ c.type = type /\ c.seq = sendSeq'
                /\ c.seq \in Successors(sendSeq) /\ sendSeq' \in 0..SeqRange - 1
                /\ stream' \in Seq(SentChunk)
                /\ InLine' = InLine + 1 /\ Joined(Line, InLine, Line', c)
                /\ Len(decrypted') = Len(decrypted)
<1>1. PICK size \in Size, n \in Successors(sendSeq) :
         /\ sendSeq' = n
         /\ stream' = Append(stream, [id |-> m.id, type |-> type, size |-> size, seq |-> n])
    BY DEF SendChunk
<1> DEFINE new == [id |-> m.id, type |-> type, size |-> size, seq |-> n]
           c == Bare(new)
<1>2. n \in 0..SeqRange - 1
    BY SuccessorFacts DEF StreamTypes
<1>3. new \in SentChunk
    BY <1>2 DEF SentChunk
<1>4. /\ stream' \in Seq(SentChunk) /\ Len(stream') = Len(stream) + 1
      /\ \A i \in 1..Len(stream) : stream'[i] = stream[i]
      /\ stream'[Len(stream) + 1] = new
    BY <1>1, <1>3, AppendProperties DEF StreamTypes
<1>5. Queued' = Queued /\ decrypted' = decrypted /\ complete' = complete
    BY DEF receiver, Queued
<1>6. InLine' = InLine + 1
    BY <1>4, <1>5, LineFacts DEF InLine
<1>7. Line' = [i \in 1..InLine + 1 |-> ChunkAt(i)']
    BY <1>6 DEF Line
<1> HIDE DEF new
<1>8. \A i \in 1..InLine : ChunkAt(i)' = ChunkAt(i)
  <2> SUFFICES ASSUME NEW i \in 1..InLine PROVE ChunkAt(i)' = ChunkAt(i)
      OBVIOUS
  <2>1. CASE i <= Queued
      BY <2>1, <1>5 DEF ChunkAt
  <2>2. CASE i > Queued
    <3>1. i - Queued \in 1..Len(stream)
        BY <2>2, LineFacts DEF InLine
    <3>2. stream'[i - Queued] = stream[i - Queued]
        BY <3>1, <1>4
    <3> QED
        BY <3>2, <1>5 DEF ChunkAt
  <2> QED
      BY <2>1, <2>2, LineFacts
<1>9. ASSUME NEW i \in Nat, i = InLine + 1 PROVE ChunkAt(i)' = c
  <2>1. i - Queued = Len(stream) + 1 /\ ~(i <= Queued) /\ ~(i <= Len(decrypted))
      BY <1>9, LineFacts DEF InLine, Queued
  <2>2. ChunkAt(i)' = Bare(stream'[i - Queued])
      BY <2>1, <1>5 DEF ChunkAt
  <2> QED
      BY <2>1, <2>2, <1>4
<1> HIDE DEF c
<1>10. Joined(Line, InLine, Line', c)
  <2>1. \A i \in 1..InLine + 1 : Line'[i] = ChunkAt(i)'
      BY <1>7
  <2>2. InLine + 1 \in 1..InLine + 1 /\ InLine + 1 \in Nat
        /\ \A i \in 1..InLine : i \in 1..InLine + 1
      BY LineFacts
  <2>3. \A i \in 1..InLine : Line'[i] = Line[i]
      BY <2>1, <2>2, <1>8, LineFacts
  <2>4. Line'[InLine + 1] = c
      BY <2>1, <2>2, <1>9
  <2> QED
      BY <2>3, <2>4 DEF Joined
<1>11. c.id = m.id /\ c.type = type /\ c.seq = n
    BY DEF Bare, new, c
<1> QED
    BY <1>1, <1>2, <1>4, <1>5, <1>6, <1>10, <1>11

\* A chunk of a message that goes on is sent.
LEMMA IntermediateStep == ASSUME StreamInv, SendIntermediate PROVE StreamInv'
<1> USE DEF StreamInv
<1>1. Message.id \in Nat
    BY MessageFacts, LineFacts DEF LineInv, StreamTypes, NextId
<1>2. PICK c : /\ c.id = Message.id /\ c.type = "intermediate" /\ c.seq = sendSeq'
               /\ c.seq \in Successors(sendSeq) /\ sendSeq' \in 0..SeqRange - 1
               /\ stream' \in Seq(SentChunk)
               /\ InLine' = InLine + 1 /\ Joined(Line, InLine, Line', c)
               /\ Len(decrypted') = Len(decrypted)
    BY <1>1, SendJoins DEF SendIntermediate, ChunkType
<1>3. /\ current'.chunks = current.chunks + 1 /\ current'.id = Message.id
      /\ current' \in [id : Nat, chunks : Nat]
      /\ begun' = NextId(current.chunks, begun) /\ begun' \in 0..MaxMessages
  <2>1. Message \in [id : Nat, chunks : Nat]
      BY DEF StreamTypes, Message
  <2>2. current' = [Message EXCEPT !.chunks = @ + 1] /\ begun' = Message.id
      BY DEF SendIntermediate
  <2>3. MayBegin /\ begun \in 0..MaxMessages
      BY DEF SendIntermediate, StreamTypes
  <2> QED
      BY <1>1, <2>1, <2>2, <2>3, MessageFacts, Limits
<1>4. StreamTypes'
    BY <1>1, <1>2, <1>3, MessageFacts DEF StreamTypes, SendIntermediate, receiver
<1>5. Framed(Line, InLine, current.chunks, begun, sent, Len(sent), Len(delivered))'
  <2>1. /\ Framed(Line, InLine, current.chunks, begun, sent, Len(sent), Len(delivered))
        /\ sent' = sent /\ delivered' = delivered /\ Len(delivered) \in Nat
        /\ current.chunks + 1 < MaxChunkCount
      BY MessageFacts DEF LineInv, SendIntermediate, receiver, StreamTypes
  <2>2. Framed(Line', InLine + 1, current.chunks + 1, NextId(current.chunks, begun),
               sent, Len(sent), Len(delivered))
      BY <2>1, <1>2, MessageFacts, FramedIntermediate
  <2> QED
      BY <2>1, <2>2, <1>2, <1>3
<1>6. Numbered(Line, InLine, Len(decrypted), recvSeq, sendSeq)'
    BY <1>2, NumberedJoin, LineFacts DEF LineInv, SendIntermediate, receiver, InLine, Queued
<1> QED
    BY <1>4, <1>5, <1>6 DEF LineInv, BuffersOwned, SendIntermediate, receiver

\* The last chunk of a message is sent, which is the abstract specification's Send.
LEMMA FinalStep ==
  ASSUME StreamInv, SendFinal
  PROVE  StreamInv' /\ MS!Send
<1> USE DEF StreamInv
<1>1. Message.id \in 1..MaxMessages /\ Message.chunks \in 0..MaxChunkCount - 1
  <2>1. current.chunks < MaxChunkCount /\ current.chunks \in Nat
      BY DEF LineInv, Framed, StreamTypes
  <2>2. Message.id \in 1..MaxMessages
    <3>1. CASE current = Idle
        BY <3>1, Limits DEF StreamTypes, Message, SendFinal, MayBegin, Idle
    <3>2. CASE current # Idle
      <4>1. current.chunks > 0 /\ Message.id = begun /\ current.chunks <= InLine
          BY <3>2, MessageFacts DEF Message, LineInv, Framed, GoesOn
      <4> QED
          BY <4>1, <3>2, Limits DEF StreamTypes
    <3> QED
        BY <3>1, <3>2
  <2> QED
      BY <2>1, <2>2, MessageFacts, Limits
<1>2. PICK c : /\ c.id = Message.id /\ c.type = "final" /\ c.seq = sendSeq'
               /\ c.seq \in Successors(sendSeq) /\ sendSeq' \in 0..SeqRange - 1
               /\ stream' \in Seq(SentChunk)
               /\ InLine' = InLine + 1 /\ Joined(Line, InLine, Line', c)
               /\ Len(decrypted') = Len(decrypted)
    BY <1>1, SendJoins DEF SendFinal, ChunkType
<1> DEFINE m == [Message EXCEPT !.chunks = @ + 1]
<1>3. m \in Messages /\ m.id = Message.id /\ m.chunks = current.chunks + 1
  <2>1. Message \in [id : Nat, chunks : Nat]
      BY DEF StreamTypes, Message
  <2>2. m = [id |-> Message.id, chunks |-> Message.chunks + 1]
      BY <2>1
  <2> QED
      BY <1>1, <2>2, MessageFacts, Limits DEF Messages
<1> HIDE DEF m
<1>4. /\ sent' = Append(sent, m) /\ sent' \in Seq(Messages) /\ Len(sent') = Len(sent) + 1
      /\ \A k \in 1..Len(sent) : sent'[k] = sent[k]
      /\ sent'[Len(sent) + 1] = m
    BY <1>3, AppendProperties DEF StreamTypes, SendFinal, m
<1>5. /\ current' = Idle /\ current'.chunks = 0 /\ begun' = NextId(current.chunks, begun)
      /\ begun' \in 0..MaxMessages
    BY <1>1, MessageFacts DEF SendFinal, Idle
<1>6. StreamTypes'
    BY <1>2, <1>4, <1>5 DEF StreamTypes, SendFinal, receiver, Idle
<1>7. Framed(Line, InLine, current.chunks, begun, sent, Len(sent), Len(delivered))'
  <2>1. /\ Framed(Line, InLine, current.chunks, begun, sent, Len(sent), Len(delivered))
        /\ delivered' = delivered /\ Len(delivered) \in Nat
      BY DEF LineInv, SendFinal, receiver, StreamTypes
  <2>2. Framed(Line', InLine + 1, 0, NextId(current.chunks, begun),
               sent', Len(sent) + 1, Len(delivered))
    <3>1. c.id = NextId(current.chunks, begun)
        BY <1>2, MessageFacts DEF LineInv
    <3>2. /\ sent'[Len(sent) + 1].id = NextId(current.chunks, begun)
          /\ sent'[Len(sent) + 1].chunks = current.chunks + 1
        BY <1>2, <1>3, <1>4, <3>1
    <3> QED
        BY <2>1, <1>2, <1>4, <3>1, <3>2, FramedFinal
  <2> QED
      BY <2>1, <2>2, <1>2, <1>4, <1>5
<1>8. Numbered(Line, InLine, Len(decrypted), recvSeq, sendSeq)'
    BY <1>2, NumberedJoin, LineFacts DEF LineInv, SendFinal, receiver, InLine, Queued
<1>9. MS!Send
    BY <1>3, <1>4 DEF MS!Send, SendFinal, receiver
<1> QED
    BY <1>6, <1>7, <1>8, <1>9 DEF LineInv, BuffersOwned, SendFinal, receiver

\* A message is given up.
LEMMA AbortStep == ASSUME StreamInv, SendAbort PROVE StreamInv'
<1> USE DEF StreamInv
<1>1. current.id = begun /\ current.chunks > 0 /\ begun \in Nat
    BY MessageFacts DEF SendAbort, StreamTypes
<1>2. PICK c : /\ c.id = current.id /\ c.type = "abort" /\ c.seq = sendSeq'
               /\ c.seq \in Successors(sendSeq) /\ sendSeq' \in 0..SeqRange - 1
               /\ stream' \in Seq(SentChunk)
               /\ InLine' = InLine + 1 /\ Joined(Line, InLine, Line', c)
               /\ Len(decrypted') = Len(decrypted)
    BY <1>1, SendJoins DEF SendAbort, ChunkType
<1>3. current' = Idle /\ current'.chunks = 0 /\ begun' = begun
    BY DEF SendAbort, Idle
<1>4. StreamTypes'
    BY <1>2, <1>3 DEF StreamTypes, SendAbort, receiver, Idle
<1>5. Framed(Line, InLine, current.chunks, begun, sent, Len(sent), Len(delivered))'
  <2>1. /\ Framed(Line, InLine, current.chunks, begun, sent, Len(sent), Len(delivered))
        /\ sent' = sent /\ delivered' = delivered /\ Len(delivered) \in Nat
      BY DEF LineInv, SendAbort, receiver, StreamTypes
  <2>2. Framed(Line', InLine + 1, 0, begun, sent, Len(sent), Len(delivered))
      BY <2>1, <1>1, <1>2, FramedAbort
  <2> QED
      BY <2>1, <2>2, <1>2, <1>3
<1>6. Numbered(Line, InLine, Len(decrypted), recvSeq, sendSeq)'
    BY <1>2, NumberedJoin, LineFacts DEF LineInv, SendAbort, receiver, InLine, Queued
<1> QED
    BY <1>4, <1>5, <1>6 DEF LineInv, BuffersOwned, SendAbort, receiver

-----------------------------------------------------------------------------
(* The receiver.                                                             *)

\* A line is the same when its chunks are, wherever they are kept.
LEMMA SameLine ==
  ASSUME InLine' = InLine, \A i \in 1..InLine : ChunkAt(i)' = ChunkAt(i)
  PROVE  Line' = Line
<1>1. Line' = [i \in 1..InLine' |-> ChunkAt(i)']
    BY DEF Line
<1>2. Line' = [i \in 1..InLine |-> ChunkAt(i)']
    BY <1>1
<1> QED
    BY <1>2 DEF Line

\* What the elements of the queues are.
LEMMA QueueFacts ==
  ASSUME StreamTypes
  PROVE  /\ \A i \in 1..Len(decrypted) : decrypted[i] \in QueuedChunk
         /\ \A i \in 1..Len(complete) : complete[i] \in QueuedChunk
         /\ \A c \in QueuedChunk : /\ c.buffer \in Nat /\ c.id \in Nat
                                  /\ c.type \in ChunkType /\ c.seq \in 0..SeqRange - 1
<1>1. decrypted \in Seq(QueuedChunk) /\ complete \in Seq(QueuedChunk)
    BY DEF StreamTypes
<1>2. \A i \in 1..Len(decrypted) : decrypted[i] \in QueuedChunk
    BY <1>1, ElementOfSeq
<1>3. \A i \in 1..Len(complete) : complete[i] \in QueuedChunk
    BY <1>1, ElementOfSeq
<1> QED
    BY <1>2, <1>3 DEF QueuedChunk

\* A buffer moves chunks from the stream to the queue, which leaves the line as it is.
LEMMA ReceiveStep ==
  ASSUME StreamInv, NEW n \in Nat, Receive(n)
  PROVE  StreamInv' /\ UNCHANGED MS!svars
<1> USE DEF StreamInv
<1>1. PICK k \in 0..Len(stream) :
        /\ complete' = complete \o [i \in 1..k |-> [id |-> stream[i].id, type |-> stream[i].type,
                                      seq |-> stream[i].seq, buffer |-> Len(stack) + 1]]
        /\ stream' = SubSeq(stream, k + 1, Len(stream))
    BY DEF Receive
<1> DEFINE new == [i \in 1..k |-> [id |-> stream[i].id, type |-> stream[i].type,
                                   seq |-> stream[i].seq, buffer |-> Len(stack) + 1]]
<1>2. /\ sender' = sender /\ recvSeq' = recvSeq /\ decrypted' = decrypted /\ count' = count
      /\ delivered' = delivered /\ failed' = failed /\ stack' = Append(stack, "processing")
      /\ sent' = sent /\ current' = current /\ begun' = begun /\ sendSeq' = sendSeq
    BY DEF Receive, sender
<1>3. /\ stack' \in Seq({"processing", "callback"}) /\ Len(stack') = Len(stack) + 1
      /\ Len(stack) \in Nat /\ k \in Nat
    BY <1>2, AppendProperties, LineFacts DEF StreamTypes
<1>4. \A i \in 1..k : /\ stream[i] \in SentChunk /\ new[i] \in QueuedChunk
                      /\ new[i].buffer = Len(stack) + 1 /\ Bare(new[i]) = Bare(stream[i])
  <2> SUFFICES ASSUME NEW i \in 1..k
               PROVE  /\ stream[i] \in SentChunk /\ new[i] \in QueuedChunk
                      /\ new[i].buffer = Len(stack) + 1 /\ Bare(new[i]) = Bare(stream[i])
      OBVIOUS
  <2>1. i \in 1..Len(stream) /\ stream \in Seq(SentChunk)
      BY LineFacts DEF StreamTypes
  <2>2. stream[i] \in SentChunk
      BY <2>1, ElementOfSeq
  <2>3. new[i] = [id |-> stream[i].id, type |-> stream[i].type,
                  seq |-> stream[i].seq, buffer |-> Len(stack) + 1]
      OBVIOUS
  <2> HIDE DEF new
  <2> QED
      BY <2>2, <2>3, <1>3 DEF SentChunk, QueuedChunk, Bare
<1>5. new \in Seq(QueuedChunk) /\ Len(new) = k
  <2>1. new \in [1..k -> QueuedChunk]
      BY <1>4
  <2> HIDE DEF new
  <2> QED
      BY <2>1, <1>3, SeqDef
<1>6. complete' = complete \o new
    BY <1>1
<1> HIDE DEF new
<1>7. /\ complete' \in Seq(QueuedChunk) /\ Len(complete') = Len(complete) + k
      /\ \A i \in 1..Len(complete) : complete'[i] = complete[i]
      /\ \A i \in 1..k : complete'[Len(complete) + i] = new[i]
  <2>1. /\ complete \o new \in Seq(QueuedChunk) /\ Len(complete \o new) = Len(complete) + k
        /\ \A i \in 1..Len(complete) + k : (complete \o new)[i] =
             IF i <= Len(complete) THEN complete[i] ELSE new[i - Len(complete)]
      BY <1>5, ConcatProperties DEF StreamTypes
  <2>2. Len(complete) \in Nat /\ k \in Nat
      BY <1>3, LineFacts
  <2> QED
      BY <1>6, <2>1, <2>2
<1>8. /\ stream' \in Seq(SentChunk) /\ Len(stream') = Len(stream) - k
      /\ \A i \in 1..Len(stream) - k : stream'[i] = stream[k + i]
  <2>1. \A i \in k + 1..Len(stream) : stream[i] \in SentChunk
      BY ElementOfSeq, LineFacts, <1>3 DEF StreamTypes
  <2>2. k + 1 \in Int /\ Len(stream) \in Int
      BY <1>3, LineFacts
  <2>3. /\ SubSeq(stream, k + 1, Len(stream)) \in Seq(SentChunk)
        /\ Len(SubSeq(stream, k + 1, Len(stream))) =
             IF k + 1 <= Len(stream) THEN Len(stream) - (k + 1) + 1 ELSE 0
        /\ \A i \in 1..Len(stream) - (k + 1) + 1 :
             SubSeq(stream, k + 1, Len(stream))[i] = stream[k + 1 + i - 1]
      BY <2>1, <2>2, SubSeqProperties
  <2>4. Len(stream') = Len(stream) - k
      BY <1>1, <2>2, <2>3, <1>3
  <2>5. \A i \in 1..Len(stream) - k : k + 1 + i - 1 = k + i
      BY <1>3
  <2>6. Len(stream) - (k + 1) + 1 = Len(stream) - k
      BY <2>2, <1>3
  <2> QED
      BY <1>1, <2>3, <2>4, <2>5, <2>6
<1>9. StreamTypes'
    BY <1>2, <1>3, <1>7, <1>8 DEF StreamTypes
<1>10. Queued' = Queued + k /\ InLine' = InLine
    BY <1>2, <1>3, <1>7, <1>8, LineFacts DEF Queued, InLine
<1>11. Line' = Line
  <2>1. \A i \in 1..InLine : ChunkAt(i)' = ChunkAt(i)
    <3> SUFFICES ASSUME NEW i \in 1..InLine PROVE ChunkAt(i)' = ChunkAt(i)
        OBVIOUS
    <3>1. CASE i <= Len(decrypted)
        BY <3>1, <1>2 DEF ChunkAt
    <3>2. CASE i > Len(decrypted) /\ i <= Queued
      <4>1. /\ i - Len(decrypted) \in 1..Len(complete) /\ i <= Queued'
            /\ ~(i <= Len(decrypted)) /\ ~(i <= Len(decrypted'))
          BY <3>2, <1>2, <1>3, <1>10, LineFacts DEF Queued
      <4>2. complete'[i - Len(decrypted)] = complete[i - Len(decrypted)]
          BY <4>1, <1>7
      <4> QED
          BY <3>2, <4>1, <4>2, <1>2 DEF ChunkAt
    <3>3. CASE i > Queued /\ i <= Queued + k
      <4>1. /\ i - Queued \in 1..k /\ i - Len(decrypted) = Len(complete) + (i - Queued)
            /\ ~(i <= Len(decrypted)) /\ ~(i <= Len(decrypted')) /\ ~(i <= Queued)
            /\ i <= Queued'
          BY <3>3, <1>2, <1>3, <1>10, LineFacts DEF Queued
      <4>2. complete'[Len(complete) + (i - Queued)] = new[i - Queued]
          BY <4>1, <1>7
      <4>3. ChunkAt(i)' = Bare(complete'[i - Len(decrypted)])
          BY <4>1, <1>2 DEF ChunkAt
      <4>4. ChunkAt(i)' = Bare(new[i - Queued])
          BY <4>1, <4>2, <4>3
      <4>5. ChunkAt(i) = Bare(stream[i - Queued])
          BY <4>1 DEF ChunkAt
      <4> QED
          BY <4>1, <4>4, <4>5, <1>4
    <3>4. CASE i > Queued + k
      <4>0. /\ Queued \in Nat /\ k \in Nat /\ Len(stream) \in Nat
            /\ Queued' = Queued + k /\ i \in 1..Queued + Len(stream)
          BY <1>3, <1>10, LineFacts DEF InLine
      <4>1. /\ i - Queued' \in 1..Len(stream) - k /\ k + (i - Queued') = i - Queued
            /\ ~(i <= Queued) /\ ~(i <= Queued')
          BY <3>4, <4>0
      <4>2. ~(i <= Len(decrypted)) /\ ~(i <= Len(decrypted'))
          BY <4>1, <1>2, LineFacts DEF Queued
      <4>3. stream'[i - Queued'] = stream[i - Queued]
          BY <4>1, <1>8
      <4> QED
          BY <4>1, <4>2, <4>3 DEF ChunkAt
    <3> QED
        BY <3>1, <3>2, <3>3, <3>4, <1>3, LineFacts
  <2> QED
      BY <2>1, <1>10, SameLine
<1>12. BuffersOwned'
  <2>1. \A i \in 1..Len(decrypted) : decrypted[i].buffer \in Nat
      BY QueueFacts
  <2>2. \A i \in 1..Len(decrypted') : decrypted'[i].buffer <= Len(stack')
      BY <1>2, <1>3, <2>1 DEF BuffersOwned
  <2>3. ASSUME NEW i \in 1..Len(complete') PROVE complete'[i].buffer <= Len(stack')
    <3>1. CASE i \in 1..Len(complete)
      <4>1. complete[i].buffer \in Nat
          BY <3>1, QueueFacts
      <4> QED
          BY <3>1, <4>1, <1>3, <1>7 DEF BuffersOwned
    <3>2. CASE i > Len(complete)
      <4>1. i - Len(complete) \in 1..k /\ i = Len(complete) + (i - Len(complete))
          BY <3>2, <1>3, <1>7, LineFacts
      <4>2. complete'[i] = new[i - Len(complete)]
          BY <4>1, <1>7
      <4> QED
          BY <4>1, <4>2, <1>3, <1>4
    <3> QED
        BY <3>1, <3>2, <1>7, LineFacts
  <2> QED
      BY <2>2, <2>3 DEF BuffersOwned
<1> QED
    BY <1>2, <1>9, <1>10, <1>11, <1>12 DEF LineInv, MS!svars

\* The chunk that processChunks takes is the next of the line. It fits, and if it
\* is a final chunk all that are queued belong to its message, the next one.
LEMMA TakenFits ==
  ASSUME StreamInv, complete # <<>>, NEW c, c = Head(complete), NEW e, e = Len(decrypted) + 1
  PROVE  /\ c \in QueuedChunk /\ c = complete[1] /\ e \in 1..InLine
         /\ Tail(complete) \in Seq(QueuedChunk) /\ Len(Tail(complete)) = Len(complete) - 1
         /\ \A i \in 1..Len(complete) - 1 : Tail(complete)[i] = complete[i + 1]
         /\ Line[e] = Bare(c) /\ \A i \in 1..e - 1 : Line[i] = Bare(decrypted[i])
         /\ \A i \in 1..e - 1 : Line[i].type = "intermediate"
         /\ SeqAccepted(recvSeq, c.seq) /\ e <= MaxChunkCount
         /\ Numbered(Line, InLine, e, c.seq, sendSeq)
         /\ c.type = "intermediate" => e < MaxChunkCount
         /\ c.type = "final" =>
              /\ Len(delivered) + 1 \in 1..Len(sent)
              /\ sent[Len(delivered) + 1].id = c.id /\ sent[Len(delivered) + 1].chunks = e
              /\ \A i \in 1..e - 1 : decrypted[i].id = c.id
<1> USE DEF StreamInv
<1>1. /\ Len(decrypted) \in Nat /\ Len(complete) \in Nat \ {0} /\ Queued \in Nat /\ InLine \in Nat
      /\ Len(stream) \in Nat /\ \A i \in 1..InLine : Line[i] = ChunkAt(i)
    BY LineFacts, EmptySeq DEF StreamTypes
<1>2. /\ Tail(complete) \in Seq(QueuedChunk) /\ Len(Tail(complete)) = Len(complete) - 1
      /\ \A i \in 1..Len(complete) - 1 : Tail(complete)[i] = complete[i + 1]
    BY HeadTailProperties DEF StreamTypes
<1>3. c = complete[1] /\ c \in QueuedChunk
    BY QueueFacts, <1>1
<1>4. e \in 1..InLine /\ e <= Queued /\ ~(e <= Len(decrypted)) /\ e - Len(decrypted) = 1
    BY <1>1 DEF Queued, InLine
<1>5. Line[e] = Bare(c)
    BY <1>1, <1>3, <1>4 DEF ChunkAt
<1>6. \A i \in 1..e - 1 : Line[i] = Bare(decrypted[i])
  <2>1. \A i \in 1..e - 1 : i \in 1..InLine /\ i <= Len(decrypted)
      BY <1>1, <1>4
  <2> QED
      BY <2>1, <1>1 DEF ChunkAt
<1>7. \A i \in 1..e - 1 : Line[i].type = "intermediate"
  <2> SUFFICES ASSUME NEW i \in 1..e - 1 PROVE Line[i].type = "intermediate"
      OBVIOUS
  <2>1. decrypted[i].type = "intermediate"
      BY <1>1 DEF LineInv
  <2>2. Line[i] = Bare(decrypted[i])
      BY <1>6
  <2> QED
      BY <2>1, <2>2 DEF Bare
<1>8. Line[e].seq = c.seq /\ Line[e].type = c.type /\ Line[e].id = c.id
    BY <1>5 DEF Bare
<1>9. SeqAccepted(recvSeq, c.seq) /\ Numbered(Line, InLine, e, c.seq, sendSeq)
  <2>1. Numbered(Line, InLine, Len(decrypted), recvSeq, sendSeq) /\ recvSeq \in 0..SeqRange - 1
      BY DEF LineInv, StreamTypes
  <2>2. Len(decrypted) \in 0..InLine - 1
      BY <1>1, <1>4
  <2>3. /\ SeqAccepted(recvSeq, Line[Len(decrypted) + 1].seq)
        /\ Numbered(Line, InLine, Len(decrypted) + 1, Line[Len(decrypted) + 1].seq, sendSeq)
      BY <2>1, <2>2, <1>1, NumberedTake
  <2> QED
      BY <2>3, <1>8
<1>10. /\ e <= MaxChunkCount
       /\ c.type = "intermediate" => e < MaxChunkCount
       /\ c.type = "final" =>
            /\ Len(delivered) + 1 \in 1..Len(sent)
            /\ sent[Len(delivered) + 1].id = c.id /\ sent[Len(delivered) + 1].chunks = e
            /\ \A i \in 1..e : Line[i].id = c.id
  <2>1. /\ Framed(Line, InLine, current.chunks, begun, sent, Len(sent), Len(delivered))
        /\ Len(delivered) \in Nat
      BY DEF LineInv, StreamTypes
  <2> QED
      BY <2>1, <1>4, <1>7, <1>8, FirstEnd
<1>11. c.type = "final" => \A i \in 1..e - 1 : decrypted[i].id = c.id
  <2> SUFFICES ASSUME c.type = "final", NEW i \in 1..e - 1 PROVE decrypted[i].id = c.id
      OBVIOUS
  <2>1. i \in 1..e /\ Line[i] = Bare(decrypted[i])
      BY <1>1, <1>6
  <2>2. Line[i].id = decrypted[i].id
      BY <2>1 DEF Bare
  <2> QED
      BY <2>1, <2>2, <1>10
<1> QED
    BY <1>2, <1>3, <1>4, <1>5, <1>6, <1>7, <1>9, <1>10, <1>11

\* Chunk c, taken in front of the decrypted ones: c is kept, and the line with it.
LEMMA KeptStep ==
  ASSUME StreamInv, complete # <<>>, NEW c, c = Head(complete), c.type = "intermediate",
         recvSeq' = c.seq, complete' = Tail(complete), decrypted' = Append(decrypted, c),
         count' = count + 1, UNCHANGED <<stack, delivered, failed, sender, stream, read>>
  PROVE  StreamInv'
<1> USE DEF StreamInv
<1> DEFINE e == Len(decrypted) + 1
<1>1. /\ c \in QueuedChunk /\ c = complete[1] /\ e \in 1..InLine
      /\ complete' \in Seq(QueuedChunk) /\ Len(complete') = Len(complete) - 1
      /\ \A i \in 1..Len(complete) - 1 : complete'[i] = complete[i + 1]
      /\ Numbered(Line, InLine, e, c.seq, sendSeq)
    BY TakenFits
<1>2. /\ decrypted' \in Seq(QueuedChunk) /\ Len(decrypted') = e
      /\ \A i \in 1..Len(decrypted) : decrypted'[i] = decrypted[i]
      /\ decrypted'[e] = c
    BY <1>1, AppendProperties DEF StreamTypes
<1>3. /\ Len(decrypted) \in Nat /\ Len(complete) \in Nat \ {0} /\ e \in Nat
      /\ Queued \in Nat /\ InLine \in Nat
    BY LineFacts, EmptySeq DEF StreamTypes
<1>4. /\ sendSeq' = sendSeq /\ current' = current /\ begun' = begun /\ sent' = sent
      /\ stack' = stack /\ delivered' = delivered /\ failed' = failed /\ stream' = stream
    BY DEF sender
<1>5. StreamTypes'
    BY <1>1, <1>2, <1>3, <1>4, QueueFacts DEF StreamTypes
<1>6. Queued' = Queued /\ InLine' = InLine
    BY <1>1, <1>2, <1>3, <1>4 DEF Queued, InLine
<1>7. Line' = Line
  <2>1. ASSUME NEW i \in 1..InLine PROVE ChunkAt(i)' = ChunkAt(i)
    <3>1. CASE i <= Len(decrypted)
      <4>1. i \in 1..Len(decrypted) /\ i <= Len(decrypted')
          BY <3>1, <1>2, <1>3
      <4> QED
          BY <4>1, <1>2 DEF ChunkAt
    <3>2. CASE i = e
      <4>1. i <= Len(decrypted') /\ ~(i <= Len(decrypted)) /\ i <= Queued /\ i - Len(decrypted) = 1
          BY <3>2, <1>2, <1>3 DEF Queued
      <4> QED
          BY <4>1, <3>2, <1>1, <1>2 DEF ChunkAt
    <3>3. CASE i > e /\ i <= Queued
      <4>1. /\ ~(i <= Len(decrypted')) /\ ~(i <= Len(decrypted)) /\ i <= Queued'
            /\ i - Len(decrypted') \in 1..Len(complete) - 1
            /\ (i - Len(decrypted')) + 1 = i - Len(decrypted)
          BY <3>3, <1>2, <1>3, <1>6 DEF Queued
      <4>2. complete'[i - Len(decrypted')] = complete[i - Len(decrypted)]
          BY <4>1, <1>1
      <4> QED
          BY <4>1, <4>2, <3>3 DEF ChunkAt
    <3>4. CASE i > Queued
      <4>1. ~(i <= Len(decrypted')) /\ ~(i <= Len(decrypted)) /\ ~(i <= Queued)
          BY <3>4, <1>2, <1>3 DEF Queued
      <4> QED
          BY <4>1, <1>4, <1>6 DEF ChunkAt
    <3> QED
        BY <3>1, <3>2, <3>3, <3>4, <1>3
  <2> QED
      BY <2>1, <1>6, SameLine
<1>8. \A i \in 1..Len(decrypted') : decrypted'[i].type = "intermediate"
  <2>1. \A i \in 1..Len(decrypted') : i = e \/ i \in 1..Len(decrypted)
      BY <1>2, <1>3
  <2> QED
      BY <2>1, <1>2 DEF LineInv
<1>9. BuffersOwned'
  <2>1. \A i \in 1..Len(decrypted') : i = e \/ i \in 1..Len(decrypted)
      BY <1>2, <1>3
  <2>2. 1 \in 1..Len(complete) /\ \A i \in 1..Len(complete') : i + 1 \in 1..Len(complete)
      BY <1>1, <1>3
  <2>3. \A i \in 1..Len(complete') : complete'[i] = complete[i + 1]
      BY <1>1
  <2>4. \A i \in 1..Len(decrypted') : decrypted'[i].buffer <= Len(stack)
      BY <2>1, <2>2, <1>1, <1>2 DEF BuffersOwned
  <2>5. \A i \in 1..Len(complete') : complete'[i].buffer <= Len(stack)
      BY <2>2, <2>3 DEF BuffersOwned
  <2> QED
      BY <2>4, <2>5, <1>4 DEF BuffersOwned
<1>10. count' = Len(decrypted') /\ ~failed'
    BY <1>2, <1>4
<1> QED
    BY <1>1, <1>2, <1>4, <1>5, <1>6, <1>7, <1>8, <1>9, <1>10 DEF LineInv

\* Chunk c ends a message: the chunks up to it leave the line.
LEMMA DroppedStep ==
  ASSUME StreamInv, complete # <<>>, NEW c, c = Head(complete), c.type # "intermediate",
         recvSeq' = c.seq, complete' = Tail(complete), decrypted' = <<>>, count' = 0,
         UNCHANGED <<failed, sender, stream, read>>,
         stack' \in Seq({"processing", "callback"}), Len(stack') = Len(stack),
         delivered' \in Seq(Messages),
         Len(delivered') = IF c.type = "final" THEN Len(delivered) + 1 ELSE Len(delivered)
  PROVE  StreamInv'
<1> USE DEF StreamInv
<1> DEFINE e == Len(decrypted) + 1
<1>1. /\ c \in QueuedChunk /\ e \in 1..InLine
      /\ complete' \in Seq(QueuedChunk) /\ Len(complete') = Len(complete) - 1
      /\ \A i \in 1..Len(complete) - 1 : complete'[i] = complete[i + 1]
      /\ Line[e] = Bare(c) /\ \A i \in 1..e - 1 : Line[i].type = "intermediate"
      /\ Numbered(Line, InLine, e, c.seq, sendSeq)
    BY TakenFits
<1>2. /\ Len(decrypted) \in Nat /\ Len(complete) \in Nat \ {0} /\ e \in Nat
      /\ Queued \in Nat /\ InLine \in Nat /\ Len(stream) \in Nat
      /\ \A i \in 1..InLine : Line[i] = ChunkAt(i)
    BY LineFacts, EmptySeq DEF StreamTypes
<1>3. /\ sendSeq' = sendSeq /\ current' = current /\ begun' = begun /\ sent' = sent
      /\ failed' = failed /\ stream' = stream
    BY DEF sender
<1>4. decrypted' \in Seq(QueuedChunk) /\ Len(decrypted') = 0
    BY EmptySeq
<1>5. StreamTypes'
    BY <1>1, <1>3, <1>4, QueueFacts DEF StreamTypes
<1>6. Queued' = Queued - e /\ InLine' = InLine - e
    BY <1>1, <1>2, <1>3, <1>4 DEF Queued, InLine
<1>7. \A i \in 1..InLine - e : Line'[i] = Line[e + i]
  <2>1. Line' = [i \in 1..InLine - e |-> ChunkAt(i)']
    <3>1. Line' = [i \in 1..InLine' |-> ChunkAt(i)']
        BY DEF Line
    <3> QED
        BY <3>1, <1>6
  <2>2. ASSUME NEW i \in 1..InLine - e PROVE ChunkAt(i)' = ChunkAt(e + i)
    <3>1. CASE i <= Queued - e
      <4>1. /\ ~(i <= Len(decrypted')) /\ ~(e + i <= Len(decrypted)) /\ e + i <= Queued
            /\ i <= Queued' /\ i - Len(decrypted') = i
            /\ i \in 1..Len(complete) - 1 /\ (e + i) - Len(decrypted) = i + 1
          BY <3>1, <1>2, <1>4, <1>6 DEF Queued
      <4>2. complete'[i] = complete[i + 1]
          BY <4>1, <1>1
      <4>3. ChunkAt(i)' = Bare(complete'[i])
          BY <4>1 DEF ChunkAt
      <4>4. ChunkAt(e + i) = Bare(complete[i + 1])
          BY <4>1 DEF ChunkAt
      <4> QED
          BY <4>2, <4>3, <4>4
    <3>2. CASE i > Queued - e
      <4>1. /\ ~(i <= Len(decrypted')) /\ ~(e + i <= Len(decrypted)) /\ ~(e + i <= Queued)
            /\ ~(i <= Queued') /\ (e + i) - Queued = i - Queued'
          BY <3>2, <1>2, <1>4, <1>6 DEF Queued
      <4>3. ChunkAt(i)' = Bare(stream[i - Queued'])
          BY <4>1, <1>3 DEF ChunkAt
      <4>4. ChunkAt(e + i) = Bare(stream[(e + i) - Queued])
          BY <4>1 DEF ChunkAt
      <4> QED
          BY <4>1, <4>3, <4>4
    <3> QED
        BY <3>1, <3>2, <1>2
  <2>3. \A i \in 1..InLine - e : e + i \in 1..InLine
      BY <1>1, <1>2
  <2> QED
      BY <2>1, <2>2, <2>3, <1>2
<1>8. Framed(Line, InLine, current.chunks, begun, sent, Len(sent), Len(delivered))'
  <2>1. /\ Framed(Line, InLine, current.chunks, begun, sent, Len(sent), Len(delivered))
        /\ Len(delivered) \in Nat
      BY DEF LineInv, StreamTypes
  <2>2. Line[e].type = c.type
      BY <1>1 DEF Bare
  <2> HIDE DEF e
  <2>3. Framed(Line', InLine - e, current.chunks, begun, sent, Len(sent),
               IF Line[e].type = "final" THEN Len(delivered) + 1 ELSE Len(delivered))
      BY <2>1, <2>2, <1>1, <1>7, FramedDrop
  <2>4. Framed(Line', InLine - e, current.chunks, begun, sent, Len(sent), Len(delivered'))
      BY <2>2, <2>3
  <2> QED
      BY <2>4, <1>3, <1>6
<1>9. Numbered(Line, InLine, Len(decrypted), recvSeq, sendSeq)'
  <2>1. Line[e].seq = c.seq
      BY <1>1 DEF Bare
  <2>2. Numbered(Line', InLine - e, 0, c.seq, sendSeq)
      BY <2>1, <1>1, <1>2, <1>7, NumberedDrop
  <2> QED
      BY <2>2, <1>3, <1>4, <1>6
<1>10. BuffersOwned'
  <2>1. \A i \in 1..Len(complete') : i + 1 \in 1..Len(complete) /\ complete'[i] = complete[i + 1]
      BY <1>1, <1>2
  <2> QED
      BY <2>1, <1>4 DEF BuffersOwned
<1>11. \A i \in 1..Len(decrypted') : decrypted'[i].type = "intermediate"
    BY <1>4
<1> QED
    BY <1>3, <1>4, <1>5, <1>8, <1>9, <1>10, <1>11 DEF LineInv

\* One turn of processChunks: a delivery of the abstract specification, or nothing to it.
LEMMA ProcessStep ==
  ASSUME StreamInv, ProcessChunk
  PROVE  StreamInv' /\ (MS!Deliver \/ UNCHANGED MS!svars)
<1> USE DEF StreamInv
<1> DEFINE c == Head(complete)
           e == Len(decrypted) + 1
           chunks == Append(decrypted, c)
<1>1. /\ complete # <<>> /\ stack # <<>> /\ UNCHANGED <<sender, stream, read>> /\ sent' = sent
    BY DEF ProcessChunk, Processing, sender
<1>2. /\ c \in QueuedChunk /\ c.type \in ChunkType
      /\ SeqAccepted(recvSeq, c.seq) /\ e <= MaxChunkCount
      /\ c.type = "final" =>
           /\ Len(delivered) + 1 \in 1..Len(sent)
           /\ sent[Len(delivered) + 1].id = c.id /\ sent[Len(delivered) + 1].chunks = e
           /\ \A i \in 1..e - 1 : decrypted[i].id = c.id
    BY <1>1, TakenFits, QueueFacts
<1>3. /\ chunks \in Seq(QueuedChunk) /\ Len(chunks) = e
      /\ \A i \in 1..Len(decrypted) : chunks[i] = decrypted[i]
      /\ chunks[e] = c
    BY <1>2, AppendProperties DEF StreamTypes
<1>4. Len(decrypted) \in Nat /\ count + 1 = e
    BY LineFacts
<1>5. c.type = "final" => \A i \in DOMAIN chunks : chunks[i].id = c.id
  <2>1. DOMAIN chunks = 1..e /\ \A i \in 1..e : i = e \/ (i \in 1..Len(decrypted) /\ i \in 1..e - 1)
      BY <1>3, <1>4, LenProperties
  <2> QED
      BY <2>1, <1>2, <1>3
<1> HIDE DEF c
<1>6. /\ recvSeq' = c.seq /\ complete' = Tail(complete)
      /\ \/ /\ c.type = "intermediate" /\ decrypted' = chunks /\ count' = count + 1
            /\ UNCHANGED <<stack, delivered, failed>>
         \/ /\ c.type = "abort" /\ decrypted' = <<>> /\ count' = 0
            /\ UNCHANGED <<stack, delivered, failed>>
         \/ /\ c.type = "final" /\ decrypted' = <<>> /\ count' = 0
            /\ delivered' = Append(delivered, [id |-> c.id, chunks |-> Len(chunks)])
            /\ stack' = [stack EXCEPT ![Len(stack)] = "callback"]
            /\ UNCHANGED failed
    BY <1>2, <1>4, <1>5 DEF ProcessChunk, Ends, AfterAbort, c
<1>7. CASE c.type = "intermediate"
  <2>1. StreamInv'
      BY <1>1, <1>6, <1>7, KeptStep DEF c
  <2> QED
      BY <2>1, <1>1, <1>6, <1>7 DEF MS!svars
<1>8. CASE c.type = "abort"
  <2>1. decrypted' = <<>> /\ count' = 0 /\ UNCHANGED <<stack, delivered, failed>>
      BY <1>6, <1>8
  <2>2. stack' \in Seq({"processing", "callback"}) /\ delivered' \in Seq(Messages)
      BY <2>1 DEF StreamTypes
  <2>3. StreamInv'
      BY <1>1, <1>6, <1>8, <2>1, <2>2, DroppedStep DEF c
  <2> QED
      BY <2>1, <2>3, <1>1 DEF MS!svars
<1>9. CASE c.type = "final"
  <2>1. /\ decrypted' = <<>> /\ count' = 0 /\ UNCHANGED failed
        /\ delivered' = Append(delivered, [id |-> c.id, chunks |-> Len(chunks)])
        /\ stack' = [stack EXCEPT ![Len(stack)] = "callback"]
      BY <1>6, <1>9
  <2>2. [id |-> c.id, chunks |-> Len(chunks)] = sent[Len(delivered) + 1]
    <3>1. sent[Len(delivered) + 1] \in Messages
        BY <1>2, <1>9, ElementOfSeq DEF StreamTypes
    <3>2. /\ sent[Len(delivered) + 1].id = c.id /\ sent[Len(delivered) + 1].chunks = Len(chunks)
        BY <1>2, <1>3, <1>9
    <3> HIDE DEF chunks
    <3> QED
        BY <3>1, <3>2 DEF Messages
  <2>3. delivered' = Append(delivered, sent[Len(delivered) + 1])
      BY <2>1, <2>2
  <2>4. sent[Len(delivered) + 1] \in Messages
      BY <1>2, <1>9, ElementOfSeq DEF StreamTypes
  <2>5. delivered' \in Seq(Messages) /\ Len(delivered') = Len(delivered) + 1
      BY <2>3, <2>4, AppendProperties DEF StreamTypes
  <2>6. stack' \in Seq({"processing", "callback"}) /\ Len(stack') = Len(stack)
    <3>1. stack \in Seq({"processing", "callback"}) /\ Len(stack) \in Nat \ {0}
        BY <1>1, EmptySeq DEF StreamTypes
    <3>2. Len(stack) \in 1..Len(stack)
        BY <3>1
    <3> QED
        BY <2>1, <3>1, <3>2, ExceptSeq
  <2>7. StreamInv'
      BY <1>1, <1>6, <1>9, <2>1, <2>5, <2>6, DroppedStep DEF c
  <2>8. MS!Deliver
    <3>1. Len(delivered) < Len(sent)
        BY <1>2, <1>9, LenProperties DEF StreamTypes
    <3> QED
        BY <3>1, <2>3, <1>1 DEF MS!Deliver
  <2> QED
      BY <2>7, <2>8
<1> QED
    BY <1>2, <1>7, <1>8, <1>9 DEF ChunkType

\* The callback returns: no chunk moves.
LEMMA ReturnStep == ASSUME StreamInv, Return PROVE StreamInv' /\ UNCHANGED MS!svars
<1> USE DEF StreamInv
<1>1. /\ sendSeq' = sendSeq /\ current' = current /\ begun' = begun /\ sent' = sent
      /\ stream' = stream /\ recvSeq' = recvSeq /\ complete' = complete
      /\ decrypted' = decrypted /\ count' = count /\ delivered' = delivered /\ failed' = failed
    BY DEF Return, sender
<1>2. stack' \in Seq({"processing", "callback"}) /\ Len(stack') = Len(stack)
  <2>1. stack \in Seq({"processing", "callback"}) /\ Len(stack) \in Nat \ {0}
      BY EmptySeq DEF StreamTypes, Return
  <2>2. Len(stack) \in 1..Len(stack)
      BY <2>1
  <2> QED
      BY <2>1, <2>2, ExceptSeq DEF Return
<1>3. Queued' = Queued /\ InLine' = InLine
    BY <1>1 DEF Queued, InLine
<1>4. Line' = Line
  <2>1. \A i \in 1..InLine : ChunkAt(i)' = ChunkAt(i)
      BY <1>1, <1>3 DEF ChunkAt
  <2> QED
      BY <2>1, <1>3, SameLine
<1>5. StreamTypes'
    BY <1>1, <1>2 DEF StreamTypes
<1>6. BuffersOwned' /\ LineInv'
    BY <1>1, <1>2, <1>3, <1>4 DEF BuffersOwned, LineInv
<1> QED
    BY <1>1, <1>5, <1>6 DEF MS!svars

\* The chunks that are left when a call returns are copied, so they no longer point
\* into its buffer; the line does not see it.
LEMMA EndProcessingStep == ASSUME StreamInv, EndProcessing PROVE StreamInv' /\ UNCHANGED MS!svars
<1> USE DEF StreamInv
<1>1. /\ sendSeq' = sendSeq /\ current' = current /\ begun' = begun /\ sent' = sent
      /\ stream' = stream /\ recvSeq' = recvSeq
      /\ count' = count /\ delivered' = delivered /\ failed' = failed
    BY DEF EndProcessing, sender
<1>2. complete = <<>> /\ Len(complete) = 0
    BY DEF EndProcessing, NothingLeft
<1>3. complete' \in Seq(QueuedChunk) /\ Len(complete') = 0
  <2>1. complete' = [i \in {} |-> [complete[i] EXCEPT !.buffer = 0]]
      BY <1>2 DEF EndProcessing, Persisted
  <2>2. complete' = <<>>
      BY <2>1
  <2> QED
      BY <2>2, EmptySeq
<1>4. /\ decrypted' \in Seq(QueuedChunk) /\ Len(decrypted') = Len(decrypted)
      /\ \A i \in 1..Len(decrypted) : /\ Bare(decrypted'[i]) = Bare(decrypted[i])
                                      /\ decrypted'[i].type = decrypted[i].type
                                      /\ decrypted'[i].buffer = 0
  <2>1. DOMAIN decrypted = 1..Len(decrypted) /\ Len(decrypted) \in Nat
      BY LenProperties DEF StreamTypes
  <2>2. decrypted' = [i \in 1..Len(decrypted) |-> [decrypted[i] EXCEPT !.buffer = 0]]
      BY <2>1 DEF EndProcessing, Persisted
  <2>3. ASSUME NEW i \in 1..Len(decrypted)
        PROVE  /\ decrypted'[i] \in QueuedChunk /\ Bare(decrypted'[i]) = Bare(decrypted[i])
               /\ decrypted'[i].type = decrypted[i].type /\ decrypted'[i].buffer = 0
    <3>1. decrypted[i] \in QueuedChunk /\ decrypted'[i] = [decrypted[i] EXCEPT !.buffer = 0]
        BY <2>2, QueueFacts
    <3> QED
        BY <3>1 DEF QueuedChunk, Bare
  <2>4. decrypted' \in [1..Len(decrypted) -> QueuedChunk]
      BY <2>2, <2>3
  <2> QED
      BY <2>1, <2>3, <2>4, SeqDef
<1>5. stack' \in Seq({"processing", "callback"}) /\ Len(stack') \in Nat
  <2>1. stack \in Seq({"processing", "callback"}) /\ Len(stack) \in Nat \ {0}
      BY EmptySeq DEF StreamTypes, EndProcessing, Processing
  <2>2. stack' = SubSeq(stack, 1, Len(stack) - 1)
      BY DEF EndProcessing, Front
  <2>3. \A i \in 1..Len(stack) - 1 : stack[i] \in {"processing", "callback"}
      BY <2>1, ElementOfSeq
  <2>4. stack' \in Seq({"processing", "callback"})
      BY <2>1, <2>2, <2>3, SubSeqProperties
  <2> QED
      BY <2>4, LenProperties
<1>6. Queued' = Queued /\ InLine' = InLine
    BY <1>1, <1>2, <1>3, <1>4 DEF Queued, InLine
<1>7. Line' = Line
  <2>1. ASSUME NEW i \in 1..InLine PROVE ChunkAt(i)' = ChunkAt(i)
    <3>1. CASE i <= Len(decrypted)
      <4>1. i \in 1..Len(decrypted) /\ i <= Len(decrypted')
          BY <3>1, <1>4, LineFacts
      <4> QED
          BY <4>1, <1>4 DEF ChunkAt
    <3>2. CASE i > Len(decrypted)
      <4>1. ~(i <= Len(decrypted)) /\ ~(i <= Len(decrypted')) /\ ~(i <= Queued) /\ ~(i <= Queued')
          BY <3>2, <1>2, <1>4, <1>6, LineFacts DEF Queued
      <4> QED
          BY <4>1, <1>1, <1>6 DEF ChunkAt
    <3> QED
        BY <3>1, <3>2, LineFacts
  <2> QED
      BY <2>1, <1>6, SameLine
<1>8. StreamTypes'
    BY <1>1, <1>3, <1>4, <1>5 DEF StreamTypes
<1>9. BuffersOwned'
    BY <1>3, <1>4, <1>5 DEF BuffersOwned
<1>10. LineInv'
    BY <1>1, <1>4, <1>6, <1>7 DEF LineInv
<1> QED
    BY <1>1, <1>4, <1>8, <1>9, <1>10 DEF MS!svars

\* Nothing happens.
LEMMA StutterStep == ASSUME StreamInv, UNCHANGED vars PROVE StreamInv' /\ UNCHANGED MS!svars
<1>1. /\ sendSeq' = sendSeq /\ current' = current /\ begun' = begun /\ sent' = sent
      /\ stream' = stream /\ recvSeq' = recvSeq /\ complete' = complete /\ stack' = stack
      /\ decrypted' = decrypted /\ count' = count /\ delivered' = delivered /\ failed' = failed
    BY DEF vars, sender, receiver
<1>2. InLine' = InLine /\ Queued' = Queued
    BY <1>1 DEF InLine, Queued
<1>3. \A i \in 1..InLine : ChunkAt(i)' = ChunkAt(i)
    BY <1>1, <1>2 DEF ChunkAt
<1>4. Line' = Line
    BY <1>2, <1>3, SameLine
<1> QED
    BY <1>1, <1>2, <1>4 DEF StreamInv, StreamTypes, BuffersOwned, LineInv, MS!svars

-----------------------------------------------------------------------------
(* The theorems.                                                             *)

\* Every step keeps the invariant, and is one of the abstract specification or
\* changes nothing of it.
LEMMA StreamInvNext ==
  StreamInv /\ [Next]_vars => StreamInv' /\ [MS!Send \/ MS!Deliver]_(MS!svars)
<1> SUFFICES ASSUME StreamInv, [Next]_vars
             PROVE  StreamInv' /\ (MS!Send \/ MS!Deliver \/ UNCHANGED MS!svars)
    OBVIOUS
<1>1. CASE SendIntermediate
  <2>1. UNCHANGED MS!svars
      BY <1>1 DEF SendIntermediate, receiver, MS!svars
  <2> QED
      BY <2>1, <1>1, IntermediateStep
<1>2. CASE SendFinal
    BY <1>2, FinalStep
<1>3. CASE SendAbort
  <2>1. UNCHANGED MS!svars
      BY <1>3 DEF SendAbort, receiver, MS!svars
  <2> QED
      BY <2>1, <1>3, AbortStep
<1>4. CASE ReceiveSome
  <2>1. PICK n \in 1..MaxBuffer : Receive(n)
      BY <1>4 DEF ReceiveSome
  <2>2. n \in Nat
      BY LimitAssumption
  <2> QED
      BY <2>1, <2>2, ReceiveStep
<1>5. CASE ProcessChunk
    BY <1>5, ProcessStep
<1>6. CASE Return
    BY <1>6, ReturnStep
<1>7. CASE EndProcessing
    BY <1>7, EndProcessingStep
<1>8. CASE UNCHANGED vars
    BY <1>8, StutterStep
<1> QED
    BY <1>1, <1>2, <1>3, <1>4, <1>5, <1>6, <1>7, <1>8 DEF Next

\* The line of chunks stays framed and numbered.
THEOREM LineKept == Spec => []StreamInv
<1>1. Init => StreamInv
    BY StreamInvInit
<1>2. StreamInv /\ [Next]_vars => StreamInv'
    BY StreamInvNext
<1> QED
    BY <1>1, <1>2, PTL DEF Spec

\* A queued chunk never points into a buffer that was released, and the counter
\* that the limit is compared with counts the decrypted chunks.
THEOREM OwnedBuffers == Spec => []ChunksOwned
<1>1. StreamInv => ChunksOwned
  <2> SUFFICES ASSUME StreamInv PROVE ChunksOwned
      OBVIOUS
  <2>1. DOMAIN complete = 1..Len(complete) /\ DOMAIN decrypted = 1..Len(decrypted)
      BY LenProperties DEF StreamInv, StreamTypes
  <2> QED
      BY <2>1 DEF StreamInv, BuffersOwned, ChunksOwned
<1> QED
    BY <1>1, LineKept, PTL

\* A sender that keeps to the standard is never refused.
THEOREM SenderAccepted == Spec => []NeverRefused
<1>1. StreamInv => NeverRefused
    BY DEF StreamInv, NeverRefused
<1> QED
    BY <1>1, LineKept, PTL

\* The channel implements the stream of messages: they arrive whole, in order
\* and once.
THEOREM StreamImplemented == Spec => DeliversInOrder
<1>1. Init => MS!StreamInit
    BY DEF Init, MS!StreamInit
<1>2. StreamInv /\ [Next]_vars => [MS!Send \/ MS!Deliver]_(MS!svars)
    BY StreamInvNext
<1> QED
    BY <1>1, <1>2, LineKept, PTL DEF Spec, DeliversInOrder, MS!StreamSpec
=============================================================================
