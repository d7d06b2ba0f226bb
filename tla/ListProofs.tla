----------------------------- MODULE ListProofs -----------------------------
(***************************************************************************)
(* What the list operations of module Lists, and those of SequencesExt it  *)
(* is built from, do to the length, the elements and the order of a list.  *)
(***************************************************************************)
EXTENDS Lists, FiniteSets, TLAPS, SequenceTheorems, FiniteSetTheorems,
        WellFoundedInduction

\* A non-empty set of natural numbers has a minimum.
LEMMA MinFacts ==
    ASSUME NEW S \in SUBSET Nat, S # {}
    PROVE  /\ Min(S) \in S
           /\ \A y \in S : Min(S) <= y
<1>1. PICK x \in S : \A y \in S : <<y, x>> \notin OpToRel(<, Nat)
    BY NatLessThanWellFounded, WFMin, Zenon
<1>2. \A y \in S : ~(y < x)
    BY <1>1, Zenon DEF OpToRel
<1>3. \A y \in S : x <= y
    BY <1>2
<1> QED
    BY <1>3, Zenon DEF Min

\* RemoveAt shifts what comes after the position.
LEMMA RemoveAtFacts ==
    ASSUME NEW S, NEW s \in Seq(S), NEW i \in 1..Len(s)
    PROVE  /\ RemoveAt(s, i) \in Seq(S)
           /\ Len(RemoveAt(s, i)) = Len(s) - 1
           /\ \A j \in 1..Len(s) - 1 :
                 RemoveAt(s, i)[j] = IF j < i THEN s[j] ELSE s[j + 1]
<1> DEFINE a == SubSeq(s, 1, i - 1)
           z == SubSeq(s, i + 1, Len(s))
<1>1. /\ a \in Seq(S)
      /\ Len(a) = i - 1
      /\ \A j \in 1..i - 1 : a[j] = s[j]
    BY SubSeqProperties
<1>2. /\ z \in Seq(S)
      /\ Len(z) = Len(s) - i
      /\ \A j \in 1..Len(s) - i : z[j] = s[i + j]
    BY SubSeqProperties
<1>3. RemoveAt(s, i) = a \o z
    BY DEF RemoveAt
<1> HIDE DEF a, z
<1>4. /\ a \o z \in Seq(S)
      /\ Len(a \o z) = Len(a) + Len(z)
      /\ \A j \in 1..Len(a) + Len(z) :
            (a \o z)[j] = IF j <= Len(a) THEN a[j] ELSE z[j - Len(a)]
    BY <1>1, <1>2, ConcatProperties
<1>5. \A j \in 1..Len(s) - 1 : (a \o z)[j] = IF j < i THEN s[j] ELSE s[j + 1]
    BY <1>1, <1>2, <1>4
<1> QED
    BY <1>1, <1>2, <1>3, <1>4, <1>5

\* InsertAt puts e at position i and shifts the rest.
LEMMA InsertAtFacts ==
    ASSUME NEW S, NEW s \in Seq(S), NEW i \in 1..Len(s) + 1, NEW e \in S
    PROVE  /\ InsertAt(s, i, e) \in Seq(S)
           /\ Len(InsertAt(s, i, e)) = Len(s) + 1
           /\ \A j \in 1..Len(s) + 1 :
                 InsertAt(s, i, e)[j] = IF j < i THEN s[j] ELSE IF j = i THEN e ELSE s[j - 1]
<1> DEFINE a == SubSeq(s, 1, i - 1)
           b == Append(a, e)
           z == SubSeq(s, i, Len(s))
<1>1. /\ a \in Seq(S)
      /\ Len(a) = i - 1
      /\ \A j \in 1..i - 1 : a[j] = s[j]
    BY SubSeqProperties
<1>2. /\ z \in Seq(S)
      /\ Len(z) = Len(s) - i + 1
      /\ \A j \in 1..Len(s) - i + 1 : z[j] = s[i + j - 1]
    BY SubSeqProperties
<1>3. InsertAt(s, i, e) = (a \o <<e>>) \o z
    BY DEF InsertAt
<1> HIDE DEF a, z
<1>4. b = a \o <<e>>
    BY <1>1
<1>5. /\ b \in Seq(S)
      /\ Len(b) = i
      /\ \A j \in 1..i : b[j] = IF j < i THEN s[j] ELSE e
    BY <1>1
<1>6. InsertAt(s, i, e) = b \o z
    BY <1>3, <1>4, Zenon
<1> HIDE DEF b
<1>7. /\ b \o z \in Seq(S)
      /\ Len(b \o z) = Len(b) + Len(z)
      /\ \A j \in 1..Len(b) + Len(z) :
            (b \o z)[j] = IF j <= Len(b) THEN b[j] ELSE z[j - Len(b)]
    BY <1>2, <1>5, ConcatProperties
<1>8. \A j \in 1..Len(s) + 1 :
         (b \o z)[j] = IF j < i THEN s[j] ELSE IF j = i THEN e ELSE s[j - 1]
    BY <1>2, <1>5, <1>7
<1> QED
    BY <1>2, <1>5, <1>6, <1>7, <1>8

\* The element put in is at its place, and nothing before it has moved.
LEMMA InsertAtPlaces ==
    ASSUME NEW S, NEW s \in Seq(S), NEW i \in 1..Len(s) + 1, NEW e \in S
    PROVE  /\ InsertAt(s, i, e)[i] = e
           /\ \A j \in 1..Len(s) : j < i => InsertAt(s, i, e)[j] = s[j]
<1>1. Len(s) \in Nat /\ i \in Nat
    BY LenProperties
<1>2. \A j \in 1..Len(s) + 1 :
         InsertAt(s, i, e)[j] = IF j < i THEN s[j] ELSE IF j = i THEN e ELSE s[j - 1]
    BY InsertAtFacts
<1>3. InsertAt(s, i, e)[i] = e
    BY <1>1, <1>2
<1>4. ASSUME NEW j \in 1..Len(s), j < i PROVE InsertAt(s, i, e)[j] = s[j]
  <2>1. j \in 1..Len(s) + 1
    BY <1>1
  <2> QED
    BY <1>2, <1>4, <2>1
<1> QED
    BY <1>3, <1>4

\* The elements of a sequence are its values at 1..Len(s).
LEMMA ToSetFacts ==
    ASSUME NEW S, NEW s \in Seq(S)
    PROVE  /\ ToSet(s) \subseteq S
           /\ ToSet(s) = {} <=> s = <<>>
           /\ \A x : x \in ToSet(s) <=> \E i \in 1..Len(s) : s[i] = x
           /\ IsInjective(s) <=> \A i, j \in 1..Len(s) : s[i] = s[j] => i = j
BY LenProperties, EmptySeq DEF ToSet, IsInjective

\* Removing element x of a list without duplicates removes x only.
LEMMA WithoutFacts ==
    ASSUME NEW S, NEW s \in Seq(S), IsInjective(s), NEW x \in ToSet(s)
    PROVE  /\ Without(s, x) \in Seq(S)
           /\ Len(Without(s, x)) = Len(s) - 1
           /\ IsInjective(Without(s, x))
           /\ ToSet(Without(s, x)) = ToSet(s) \ {x}
           /\ IndexOf(s, x) \in 1..Len(s)
<1> DEFINE k == IndexOf(s, x)
           w == Without(s, x)
<1>1. k \in 1..Len(s) /\ s[k] = x
    BY ToSetFacts, LenProperties DEF IndexOf
<1>2. \A i, j \in 1..Len(s) : s[i] = s[j] => i = j
    BY ToSetFacts
<1> HIDE DEF k
<1>3. /\ w \in Seq(S)
      /\ Len(w) = Len(s) - 1
      /\ \A j \in 1..Len(s) - 1 : w[j] = IF j < k THEN s[j] ELSE s[j + 1]
    BY <1>1, RemoveAtFacts DEF Without, k
<1> HIDE DEF w
<1>4. \A i, j \in 1..Len(w) : w[i] = w[j] => i = j
    BY <1>1, <1>2, <1>3
<1>5. \A j \in 1..Len(w) : w[j] # x /\ \E i \in 1..Len(s) : w[j] = s[i]
    BY <1>1, <1>2, <1>3
<1>6. ASSUME NEW i \in 1..Len(s), s[i] # x PROVE \E j \in 1..Len(w) : w[j] = s[i]
  <2>1. CASE i < k
    BY <1>1, <1>3, <2>1
  <2>2. CASE i > k
    <3>1. i - 1 \in 1..Len(w) /\ w[i - 1] = s[i]
        BY <1>1, <1>3, <2>2
    <3> QED
        BY <3>1
  <2> QED
    BY <1>1, <1>6, <2>1, <2>2
<1>7. IsInjective(w)
    BY <1>3, <1>4, ToSetFacts
<1>8. ToSet(w) = ToSet(s) \ {x}
  <2>1. ASSUME NEW y PROVE y \in ToSet(w) <=> \E j \in 1..Len(w) : w[j] = y
    BY <1>3, ToSetFacts
  <2>2. ASSUME NEW y PROVE y \in ToSet(s) <=> \E j \in 1..Len(s) : s[j] = y
    BY ToSetFacts
  <2>3. ASSUME NEW y PROVE y \in ToSet(w) <=> y \in ToSet(s) /\ y # x
    BY <1>5, <1>6, <2>1, <2>2
  <2> QED
    BY <2>3, Zenon
<1> QED
    BY <1>1, <1>3, <1>7, <1>8 DEF k, w

\* Inserting a new element keeps the others.
LEMMA InsertFacts ==
    ASSUME NEW S, NEW s \in Seq(S), IsInjective(s), NEW i \in 1..Len(s) + 1,
           NEW e \in S, e \notin ToSet(s)
    PROVE  /\ InsertAt(s, i, e) \in Seq(S)
           /\ IsInjective(InsertAt(s, i, e))
           /\ ToSet(InsertAt(s, i, e)) = ToSet(s) \cup {e}
<1> DEFINE w == InsertAt(s, i, e)
<1>1. /\ w \in Seq(S)
      /\ Len(w) = Len(s) + 1
      /\ \A j \in 1..Len(s) + 1 :
            w[j] = IF j < i THEN s[j] ELSE IF j = i THEN e ELSE s[j - 1]
    BY InsertAtFacts
<1>2. /\ \A j, k \in 1..Len(s) : s[j] = s[k] => j = k
      /\ \A j \in 1..Len(s) : s[j] # e
    BY ToSetFacts
<1> HIDE DEF w
<1>3. ASSUME NEW j \in 1..Len(w), NEW k \in 1..Len(w), w[j] = w[k]
      PROVE  j = k
  <2> DEFINE Old(n) == IF n < i THEN n ELSE n - 1
  <2>1. ASSUME NEW n \in 1..Len(w), n # i PROVE Old(n) \in 1..Len(s) /\ w[n] = s[Old(n)]
    <3>1. CASE n < i
        BY <1>1, <2>1, <3>1
    <3>2. CASE n > i
        BY <1>1, <2>1, <3>2
    <3> QED
        BY <1>1, <2>1, <3>1, <3>2
  <2>2. w[i] = e
    BY <1>1
  <2>3. j # i /\ k # i => Old(j) = Old(k)
    BY <1>2, <1>3, <2>1
  <2>4. j = i <=> k = i
    BY <1>2, <1>3, <2>1, <2>2
  <2> QED
    BY <1>1, <2>3, <2>4
<1>4. ASSUME NEW j \in 1..Len(w)
      PROVE  w[j] = e \/ \E k \in 1..Len(s) : w[j] = s[k]
  <2>1. CASE j < i
    <3>1. j \in 1..Len(s) /\ w[j] = s[j]
        BY <1>1, <2>1
    <3> QED
        BY <3>1
  <2>2. CASE j = i
    BY <1>1, <2>2
  <2>3. CASE j > i
    <3>1. j - 1 \in 1..Len(s) /\ w[j] = s[j - 1]
        BY <1>1, <2>3
    <3> QED
        BY <3>1
  <2> QED
    BY <1>1, <2>1, <2>2, <2>3
<1>5. w[i] = e /\ i \in 1..Len(w)
    BY <1>1
<1>6. ASSUME NEW k \in 1..Len(s) PROVE \E j \in 1..Len(w) : w[j] = s[k]
  <2>1. CASE k < i
    BY <1>1, <2>1
  <2>2. CASE k >= i
    <3>1. k + 1 \in 1..Len(w) /\ w[k + 1] = s[k]
        BY <1>1, <2>2
    <3> QED
        BY <3>1
  <2> QED
    BY <2>1, <2>2
<1>7. IsInjective(w)
    BY <1>1, <1>3, ToSetFacts
<1>8. ToSet(w) = ToSet(s) \cup {e}
  <2>1. ASSUME NEW y PROVE y \in ToSet(w) <=> \E j \in 1..Len(w) : w[j] = y
    BY <1>1, ToSetFacts
  <2>2. ASSUME NEW y PROVE y \in ToSet(s) <=> \E j \in 1..Len(s) : s[j] = y
    BY ToSetFacts
  <2>3. ASSUME NEW y PROVE y \in ToSet(w) <=> y \in ToSet(s) \/ y = e
    BY <1>4, <1>5, <1>6, <2>1, <2>2
  <2> QED
    BY <2>3, Zenon
<1> QED
    BY <1>1, <1>7, <1>8 DEF w

\* The head leaves a queue without duplicates.
LEMMA TailFacts ==
    ASSUME NEW S, NEW s \in Seq(S), IsInjective(s), s # <<>>
    PROVE  /\ Head(s) \in ToSet(s)
           /\ Tail(s) \in Seq(S)
           /\ Len(Tail(s)) = Len(s) - 1
           /\ IsInjective(Tail(s))
           /\ ToSet(Tail(s)) = ToSet(s) \ {Head(s)}
<1> DEFINE w == Tail(s)
<1>1. /\ w \in Seq(S)
      /\ Len(w) = Len(s) - 1
      /\ \A j \in 1..Len(w) : w[j] = s[j + 1]
      /\ Len(s) \in Nat \ {0}
    BY HeadTailProperties, EmptySeq
<1>2. Head(s) = s[1]
    OBVIOUS
<1>3. \A i, j \in 1..Len(s) : s[i] = s[j] => i = j
    BY ToSetFacts
<1> HIDE DEF w
<1>4. \A i, j \in 1..Len(w) : w[i] = w[j] => i = j
    BY <1>1, <1>3
<1>5. \A j \in 1..Len(w) : w[j] # s[1] /\ \E i \in 1..Len(s) : w[j] = s[i]
    BY <1>1, <1>3
<1>6. ASSUME NEW i \in 1..Len(s), s[i] # s[1] PROVE \E j \in 1..Len(w) : w[j] = s[i]
  <2>1. i - 1 \in 1..Len(w) /\ w[i - 1] = s[i]
    BY <1>1, <1>6
  <2> QED
    BY <2>1
<1>7. IsInjective(w)
    BY <1>1, <1>4, ToSetFacts
<1>8. ToSet(w) = ToSet(s) \ {Head(s)}
  <2>1. ASSUME NEW y PROVE y \in ToSet(w) <=> \E j \in 1..Len(w) : w[j] = y
    BY <1>1, ToSetFacts
  <2>2. ASSUME NEW y PROVE y \in ToSet(s) <=> \E j \in 1..Len(s) : s[j] = y
    BY ToSetFacts
  <2>3. ASSUME NEW y PROVE y \in ToSet(w) <=> y \in ToSet(s) /\ y # Head(s)
    BY <1>2, <1>5, <1>6, <2>1, <2>2
  <2> QED
    BY <2>3, Zenon
<1>9. Head(s) \in ToSet(s)
    BY <1>1, <1>2, ToSetFacts
<1> QED
    BY <1>1, <1>7, <1>8, <1>9 DEF w

\* A new element joins a queue at its end.
LEMMA AppendFacts ==
    ASSUME NEW S, NEW s \in Seq(S), IsInjective(s), NEW e \in S, e \notin ToSet(s)
    PROVE  /\ Append(s, e) \in Seq(S)
           /\ Len(Append(s, e)) = Len(s) + 1
           /\ Append(s, e) # <<>>
           /\ IsInjective(Append(s, e))
           /\ ToSet(Append(s, e)) = ToSet(s) \cup {e}
<1> DEFINE w == Append(s, e)
<1>1. /\ w \in Seq(S)
      /\ Len(w) = Len(s) + 1
      /\ Len(s) \in Nat
      /\ \A j \in 1..Len(s) : w[j] = s[j]
      /\ w[Len(s) + 1] = e
    BY LenProperties
<1>2. /\ \A j, k \in 1..Len(s) : s[j] = s[k] => j = k
      /\ \A j \in 1..Len(s) : s[j] # e
    BY ToSetFacts
<1> HIDE DEF w
<1>3. ASSUME NEW j \in 1..Len(w), NEW k \in 1..Len(w), w[j] = w[k]
      PROVE  j = k
  <2>1. CASE j = Len(s) + 1
    BY <1>1, <1>2, <1>3, <2>1
  <2>2. CASE j \in 1..Len(s)
    BY <1>1, <1>2, <1>3, <2>2
  <2> QED
    BY <1>1, <2>1, <2>2
<1>4. IsInjective(w)
    BY <1>1, <1>3, ToSetFacts
<1>5. ToSet(w) = ToSet(s) \cup {e}
  <2>1. ASSUME NEW y PROVE y \in ToSet(w) <=> \E j \in 1..Len(w) : w[j] = y
    BY <1>1, ToSetFacts
  <2>2. ASSUME NEW y PROVE y \in ToSet(s) <=> \E j \in 1..Len(s) : s[j] = y
    BY ToSetFacts
  <2> QED
    BY <1>1, <2>1, <2>2
<1>6. w # <<>>
    BY <1>1, EmptySeq
<1> QED
    BY <1>1, <1>4, <1>5, <1>6 DEF w

\* DropLast and RemoveAt of a list that may have duplicates.
LEMMA DropLastFacts ==
    ASSUME NEW S, NEW s \in Seq(S), s # <<>>
    PROVE  DropLast(s) \in Seq(S) /\ Len(DropLast(s)) = Len(s) - 1
<1> DEFINE n == Len(s) - 1
<1>1. /\ n \in Nat
      /\ \A i \in 1..n : s[i] \in S
    BY EmptySeq, ElementOfSeq
<1>2. DropLast(s) = SubSeq(s, 1, n)
    BY DEF DropLast
<1> HIDE DEF n
<1>3. /\ SubSeq(s, 1, n) \in Seq(S)
      /\ Len(SubSeq(s, 1, n)) = n
    BY <1>1, SubSeqProperties
<1> QED
    BY <1>2, <1>3 DEF n

\* A list without duplicates has as many elements as positions.
LEMMA LengthIsCardinality ==
    ASSUME NEW S, NEW s \in Seq(S), IsInjective(s)
    PROVE  IsFiniteSet(ToSet(s)) /\ Cardinality(ToSet(s)) = Len(s)
<1>1. s \in Bijection(1..Len(s), ToSet(s))
    BY LenProperties DEF ToSet, IsInjective, Bijection, Injection, Surjection
<1>2. ExistsBijection(1..Len(s), ToSet(s))
    BY <1>1, Zenon DEF ExistsBijection
<1> QED
    BY <1>2, FS_CountingElements, FS_NatBijection, LenProperties

\* The walk of Excluding, position by position.
LEMMA ExcludingWalk ==
    ASSUME NEW T, NEW s \in Seq(T), NEW X
    PROVE  \E f : /\ f = [i \in 0..Len(s) |->
                            IF i = 0 THEN <<>>
                            ELSE IF s[i] \in X THEN f[i - 1] ELSE Append(f[i - 1], s[i])]
                  /\ Excluding(s, X) = f[Len(s)]
<1> DEFINE Walk(f, n) == f = [i \in 0..n |->
                                IF i = 0 THEN <<>>
                                ELSE IF s[i] \in X THEN f[i - 1] ELSE Append(f[i - 1], s[i])]
           Bad == {n \in 0..Len(s) : ~\E f : Walk(f, n)}
<1>1. Bad = {}
  <2> SUFFICES ASSUME Bad # {} PROVE FALSE
    OBVIOUS
  <2>1. Bad \in SUBSET Nat
    OBVIOUS
  <2>2. PICK n \in Bad : \A k \in Bad : n <= k
    BY <2>1, MinFacts
  <2>3. n \in 0..Len(s) /\ ~\E f : Walk(f, n)
    OBVIOUS
  <2>4. CASE n = 0
    <3>1. Walk([i \in 0..0 |-> <<>>], 0)
      OBVIOUS
    <3> QED
      BY <2>3, <2>4, <3>1
  <2>5. CASE n > 0
    <3> HIDE DEF Bad
    <3>a. n - 1 \in 0..Len(s) /\ ~(n <= n - 1)
      BY <2>3, <2>5, LenProperties
    <3>b. n - 1 \notin Bad
      BY <2>2, <3>a
    <3>1. \E f : Walk(f, n - 1)
      BY <3>a, <3>b DEF Bad
    <3>2. PICK g : Walk(g, n - 1)
      BY <3>1, Zenon
    <3> DEFINE h == [i \in 0..n |->
                       IF i < n THEN g[i]
                       ELSE IF s[i] \in X THEN g[i - 1] ELSE Append(g[i - 1], s[i])]
    <3>3. ASSUME NEW i \in 0..n
          PROVE  h[i] = IF i = 0 THEN <<>>
                        ELSE IF s[i] \in X THEN h[i - 1] ELSE Append(h[i - 1], s[i])
      <4>1. CASE i = n
        <5>1. n - 1 \in 0..n /\ n - 1 < n /\ n # 0
          BY <2>3, <2>5
        <5>2. h[n - 1] = g[n - 1]
          BY <5>1
        <5>3. h[n] = IF s[n] \in X THEN g[n - 1] ELSE Append(g[n - 1], s[n])
          BY <4>1
        <5> QED
          BY <4>1, <5>1, <5>2, <5>3
      <4>2. CASE i # n /\ i # 0
        <5>1. i \in 0..n - 1 /\ i - 1 \in 0..n /\ i - 1 < n /\ i < n
          BY <2>3, <4>2
        <5>2. h[i] = g[i] /\ h[i - 1] = g[i - 1]
          BY <5>1
        <5>3. g[i] = IF s[i] \in X THEN g[i - 1] ELSE Append(g[i - 1], s[i])
          BY <3>2, <4>2, <5>1
        <5> QED
          BY <4>2, <5>2, <5>3
      <4>3. CASE i # n /\ i = 0
        <5>1. h[0] = g[0] /\ 0 \in 0..n - 1
          BY <2>3, <4>3, <2>5
        <5>2. g[0] = <<>>
          BY <3>2, <5>1
        <5> QED
          BY <4>3, <5>1, <5>2
      <4> QED
        BY <4>1, <4>2, <4>3
    <3>4. h = [i \in 0..n |-> h[i]]
      OBVIOUS
    <3> HIDE DEF h
    <3>5. Walk(h, n)
      BY <3>3, <3>4
    <3> QED
      BY <2>3, <3>5
  <2> QED
    BY <2>3, <2>4, <2>5
<1>2. \E f : Walk(f, Len(s))
  <2>1. Len(s) \in 0..Len(s)
    BY LenProperties
  <2> QED
    BY <1>1, <2>1
<1>3. \E f : Walk(f, Len(s)) /\ Excluding(s, X) = f[Len(s)]
    BY <1>2 DEF Excluding
<1> QED
    BY <1>3

\* What is left is in the order of the list, and all of it that is not excluded.
LEMMA ExcludingFacts ==
    ASSUME NEW T, NEW s \in Seq(T), NEW X
    PROVE  /\ Excluding(s, X) \in Seq(T)
           /\ ToSet(Excluding(s, X)) = ToSet(s) \ X
           /\ \A a, b \in 1..Len(Excluding(s, X)) : a < b =>
                 \E p, q \in 1..Len(s) : /\ p < q
                                         /\ Excluding(s, X)[a] = s[p]
                                         /\ Excluding(s, X)[b] = s[q]
           /\ IsInjective(s) => IsInjective(Excluding(s, X))
<1>1. PICK f : /\ f = [i \in 0..Len(s) |->
                         IF i = 0 THEN <<>>
                         ELSE IF s[i] \in X THEN f[i - 1] ELSE Append(f[i - 1], s[i])]
               /\ Excluding(s, X) = f[Len(s)]
    BY ExcludingWalk
<1>2. Len(s) \in Nat /\ \A i \in 1..Len(s) : s[i] \in T
    BY LenProperties
<1>3. /\ f[0] = <<>>
      /\ \A i \in 1..Len(s) : f[i] = IF s[i] \in X THEN f[i - 1] ELSE Append(f[i - 1], s[i])
  <2>1. ASSUME NEW i \in 0..Len(s)
        PROVE  f[i] = IF i = 0 THEN <<>>
                      ELSE IF s[i] \in X THEN f[i - 1] ELSE Append(f[i - 1], s[i])
    BY <1>1
  <2>2. 0 \in 0..Len(s) /\ \A i \in 1..Len(s) : i \in 0..Len(s) /\ i # 0
    BY <1>2
  <2> QED
    BY <2>1, <2>2
<1> DEFINE Good(i) ==
             /\ f[i] \in Seq(T)
             /\ \A j \in 1..Len(f[i]) : \E p \in 1..i : f[i][j] = s[p] /\ s[p] \notin X
             /\ \A p \in 1..i : s[p] \notin X => \E j \in 1..Len(f[i]) : f[i][j] = s[p]
             /\ \A a, b \in 1..Len(f[i]) : a < b =>
                   \E p, q \in 1..i : p < q /\ f[i][a] = s[p] /\ f[i][b] = s[q]
           Bad == {i \in 0..Len(s) : ~Good(i)}
<1>4. Good(0)
    BY <1>3
<1>5. ASSUME NEW i \in 1..Len(s), Good(i - 1) PROVE Good(i)
  <2> DEFINE g == f[i - 1]
             h == f[i]
  <2>a. /\ g \in Seq(T)
        /\ \A j \in 1..Len(g) : \E p \in 1..i - 1 : g[j] = s[p] /\ s[p] \notin X
        /\ \A p \in 1..i - 1 : s[p] \notin X => \E j \in 1..Len(g) : g[j] = s[p]
        /\ \A a, b \in 1..Len(g) : a < b =>
              \E p, q \in 1..i - 1 : p < q /\ g[a] = s[p] /\ g[b] = s[q]
    BY <1>5, Zenon
  <2>b. Len(g) \in Nat /\ i \in Nat /\ i - 1 \in Nat
    BY <1>2, <2>a, LenProperties
  <2>2. h = IF s[i] \in X THEN g ELSE Append(g, s[i])
    BY <1>3
  <2>3. \A p \in 1..i - 1 : p \in 1..i /\ p < i
    BY <2>a, <2>b
  <2>4. \A p \in 1..i : p = i \/ p \in 1..i - 1
    BY <2>a, <2>b
  <2> HIDE DEF g, h
  <2>5. CASE s[i] \in X
    <3>1. h = g
      BY <2>2, <2>5
    <3>2. \A p \in 1..i : s[p] \notin X => p \in 1..i - 1
      BY <2>4, <2>5
    <3> QED
      BY <2>a, <2>b, <2>3, <3>1, <3>2 DEF g, h
  <2>6. CASE s[i] \notin X
    <3>1. /\ h \in Seq(T) /\ Len(h) = Len(g) + 1
          /\ \A j \in 1..Len(g) : h[j] = g[j] /\ j \in 1..Len(h)
          /\ h[Len(g) + 1] = s[i] /\ Len(g) + 1 \in 1..Len(h)
          /\ \A j \in 1..Len(h) : j = Len(g) + 1 \/ j \in 1..Len(g)
      BY <1>2, <2>a, <2>b, <2>2, <2>6
    <3>2. i \in 1..i
      BY <2>a, <2>b
    <3>3. ASSUME NEW j \in 1..Len(h)
          PROVE  \E p \in 1..i : h[j] = s[p] /\ s[p] \notin X
      <4>1. CASE j \in 1..Len(g)
        <5>1. PICK p \in 1..i - 1 : g[j] = s[p] /\ s[p] \notin X
          BY <2>a, <4>1
        <5> QED
          BY <2>3, <3>1, <4>1, <5>1
      <4>2. CASE j = Len(g) + 1
        BY <2>6, <3>1, <3>2, <4>2
      <4> QED
        BY <3>1, <4>1, <4>2
    <3>4. \A p \in 1..i : s[p] \notin X => \E j \in 1..Len(h) : h[j] = s[p]
      BY <2>a, <2>b, <2>4, <3>1
    <3>5. ASSUME NEW a \in 1..Len(h), NEW b \in 1..Len(h), a < b
          PROVE  \E p, q \in 1..i : p < q /\ h[a] = s[p] /\ h[b] = s[q]
      <4>1. a \in 1..Len(g)
        BY <2>a, <2>b, <3>1, <3>5
      <4>2. CASE b \in 1..Len(g)
        <5>1. PICK p, q \in 1..i - 1 : p < q /\ g[a] = s[p] /\ g[b] = s[q]
          BY <2>a, <3>5, <4>1, <4>2
        <5> QED
          BY <2>3, <3>1, <4>1, <4>2, <5>1
      <4>3. CASE b = Len(g) + 1
        <5>1. PICK p \in 1..i - 1 : g[a] = s[p]
          BY <2>a, <2>b, <4>1
        <5> QED
          BY <2>3, <3>1, <3>2, <4>1, <4>3, <5>1
      <4> QED
        BY <3>1, <4>2, <4>3
    <3> QED
      BY <3>1, <3>3, <3>4, <3>5 DEF h
  <2> QED
    BY <2>5, <2>6
<1> HIDE DEF Good
<1>6. Bad = {}
  <2> SUFFICES ASSUME Bad # {} PROVE FALSE
    OBVIOUS
  <2>1. Bad \in SUBSET Nat
    OBVIOUS
  <2>2. PICK n \in Bad : \A k \in Bad : n <= k
    BY <2>1, MinFacts
  <2>3. n \in 1..Len(s)
    BY <1>2, <1>4
  <2>4. n - 1 \in 0..Len(s) /\ ~(n <= n - 1)
    BY <1>2, <2>3
  <2>5. Good(n - 1)
    BY <2>2, <2>4
  <2> QED
    BY <1>5, <2>3, <2>5
<1>7. Good(Len(s))
  <2>1. Len(s) \in 0..Len(s)
    BY <1>2
  <2> QED
    BY <1>6, <2>1
<1> DEFINE r == f[Len(s)]
<1>8. /\ r \in Seq(T)
      /\ \A j \in 1..Len(r) : \E p \in 1..Len(s) : r[j] = s[p] /\ s[p] \notin X
      /\ \A p \in 1..Len(s) : s[p] \notin X => \E j \in 1..Len(r) : r[j] = s[p]
      /\ \A a, b \in 1..Len(r) : a < b =>
            \E p, q \in 1..Len(s) : p < q /\ r[a] = s[p] /\ r[b] = s[q]
    BY <1>7, Zenon DEF Good
<1> HIDE DEF r
<1>9. ToSet(r) = ToSet(s) \ X
  <2>1. ASSUME NEW y PROVE y \in ToSet(r) <=> \E j \in 1..Len(r) : r[j] = y
    BY <1>8, ToSetFacts
  <2>2. ASSUME NEW y PROVE y \in ToSet(s) <=> \E j \in 1..Len(s) : s[j] = y
    BY ToSetFacts
  <2>3. ASSUME NEW y, y \in ToSet(r) PROVE y \in ToSet(s) /\ y \notin X
    <3>1. PICK j \in 1..Len(r) : r[j] = y
      BY <2>1, <2>3
    <3>2. PICK p \in 1..Len(s) : r[j] = s[p] /\ s[p] \notin X
      BY <1>8
    <3> QED
      BY <2>2, <3>1, <3>2
  <2>4. ASSUME NEW y, y \in ToSet(s), y \notin X PROVE y \in ToSet(r)
    <3>1. PICK p \in 1..Len(s) : s[p] = y
      BY <2>2, <2>4
    <3>2. PICK j \in 1..Len(r) : r[j] = s[p]
      BY <1>8, <2>4, <3>1
    <3> QED
      BY <2>1, <3>1, <3>2
  <2> QED
    BY <2>3, <2>4, Zenon
<1>10. ASSUME IsInjective(s) PROVE IsInjective(r)
  <2>1. \A p, q \in 1..Len(s) : s[p] = s[q] => p = q
    BY <1>10, ToSetFacts
  <2>2. ASSUME NEW a \in 1..Len(r), NEW b \in 1..Len(r), r[a] = r[b], a < b PROVE FALSE
    <3>1. PICK p \in 1..Len(s), q \in 1..Len(s) : p < q /\ r[a] = s[p] /\ r[b] = s[q]
      BY <1>8, <2>2
    <3>2. p = q
      BY <2>1, <2>2, <3>1
    <3> QED
      BY <1>2, <3>1, <3>2
  <2>3. ASSUME NEW a \in 1..Len(r), NEW b \in 1..Len(r), r[a] = r[b] PROVE a = b
    <3>1. a < b \/ b < a \/ a = b
      OBVIOUS
    <3> QED
      BY <2>2, <2>3, <3>1
  <2> QED
    BY <1>8, <2>3, ToSetFacts
<1>11. Excluding(s, X) = r
    BY <1>1 DEF r
<1> QED
    <2>1. /\ r \in Seq(T)
          /\ ToSet(r) = ToSet(s) \ X
          /\ \A a, b \in 1..Len(r) : a < b =>
                \E p, q \in 1..Len(s) : p < q /\ r[a] = s[p] /\ r[b] = s[q]
          /\ IsInjective(s) => IsInjective(r)
      BY <1>8, <1>9, <1>10
    <2> QED
      BY <1>11, <2>1

\* A non-empty set of positions has a last one.
LEMMA MaxFacts ==
    ASSUME NEW n \in Nat, NEW S \in SUBSET (1..n), S # {}
    PROVE  /\ Max(S) \in S
           /\ \A y \in S : y <= Max(S)
<1> DEFINE Mirror == {n - y : y \in S}
<1>a. ASSUME NEW y \in S PROVE n - y \in Nat
  <2>1. y \in 1..n
    OBVIOUS
  <2> QED
    BY <2>1
<1>1. Mirror \in SUBSET Nat /\ Mirror # {}
    BY <1>a
<1>2. PICK k \in Mirror : \A z \in Mirror : k <= z
    BY <1>1, MinFacts
<1>3. PICK x \in S : k = n - x
    BY <1>2
<1>4. ASSUME NEW y \in S PROVE x >= y
  <2>1. n - x <= n - y
    BY <1>2, <1>3
  <2> QED
    BY <1>3, <2>1
<1>5. \E z \in S : \A y \in S : z >= y
    BY <1>4
<1>6. Max(S) \in S /\ \A y \in S : Max(S) >= y
    BY <1>5, Zenon DEF Max
<1> QED
    BY <1>6

\* Positions and elements of a list without duplicates can be counted alike.
LEMMA CountFacts ==
    ASSUME NEW T, NEW s \in Seq(T), IsInjective(s), NEW K
    PROVE  /\ IsFiniteSet(ToSet(s) \cap K)
           /\ Cardinality({i \in DOMAIN s : s[i] \in K}) = Cardinality(ToSet(s) \cap K)
<1> DEFINE P == {i \in DOMAIN s : s[i] \in K}
           Q == ToSet(s) \cap K
<1>1. IsFiniteSet(Q)
    BY LengthIsCardinality, FS_Subset
<1>2. [i \in P |-> s[i]] \in Injection(P, Q) /\ [i \in P |-> s[i]] \in Surjection(P, Q)
    BY DEF ToSet, IsInjective, Injection, Surjection
<1>3. Cardinality(P) = Cardinality(Q)
    BY <1>1, <1>2, FS_Injection
<1> QED
    BY <1>1, <1>3
=============================================================================
