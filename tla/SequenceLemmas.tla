----------------------------- MODULE SequenceLemmas -----------------------------
(***************************************************************************)
(* What the operators on sequences return, for the proofs about the queue  *)
(* of pending operations, the pool of connections and the list of threads. *)
(***************************************************************************)
EXTENDS Integers, SequencesExt, SequenceTheorems, WellFoundedInduction, TLAPS

\* The positions of s hold different elements.
Injective(s) == \A i, j \in DOMAIN s : s[i] = s[j] => i = j

\* The largest of a non-empty bounded set of numbers is one of them and a bound.
LEMMA MaxBounded ==
  ASSUME NEW n \in Nat, NEW I, I \subseteq 1..n, I # {}
  PROVE  /\ Max(I) \in I
         /\ \A j \in I : j <= Max(I)
<1> DEFINE D == {k \in 0..n : n - k \in I}
<1>1. PICK i \in I : TRUE
  OBVIOUS
<1>2. n - i \in D
  BY <1>1
<1>3. D \subseteq Nat /\ D # {}
  <2>1. D \subseteq Nat
    OBVIOUS
  <2>2. D # {}
    BY <1>2 DEF D
  <2> HIDE DEF D
  <2> QED
    BY <2>1, <2>2
<1>4. PICK d \in D : \A e \in D : ~(<<e, d>> \in OpToRel(<, Nat))
  <2> HIDE DEF D
  <2> QED BY <1>3, NatLessThanWellFounded, WFMin
<1>5. \A e \in D : ~(e < d)
  BY <1>3, <1>4 DEF OpToRel
<1>6. n - d \in I /\ \A j \in I : n - d >= j
  <2>1. n - d \in I
    BY <1>4
  <2>2. ASSUME NEW j \in I PROVE n - d >= j
    <3>1. j \in 1..n
      OBVIOUS
    <3>2. n - (n - j) = j
      BY <3>1
    <3>3. n - j \in D
      BY <3>1, <3>2
    <3> QED
      BY <3>1, <3>3, <1>5, <1>3
  <2> QED
    BY <2>1, <2>2
<1>7. \E x \in I : \A y \in I : x >= y
  BY <1>6
<1>8. Max(I) \in I /\ \A y \in I : Max(I) >= y
  BY <1>7 DEF Max
<1> QED
  BY <1>8

\* Inserting keeps the elements and their order, and adds one at the position given.
LEMMA InsertAtProperties ==
  ASSUME NEW S, NEW s \in Seq(S), NEW i \in 1..(Len(s) + 1), NEW e \in S
  PROVE  /\ InsertAt(s, i, e) \in Seq(S)
         /\ Len(InsertAt(s, i, e)) = Len(s) + 1
         /\ \A j \in 1..(Len(s) + 1) :
               InsertAt(s, i, e)[j] = IF j < i THEN s[j]
                                      ELSE IF j = i THEN e ELSE s[j - 1]
<1> DEFINE a == SubSeq(s, 1, i - 1)
           b == SubSeq(s, i, Len(s))
<1>1. /\ a \in Seq(S) /\ Len(a) = i - 1
      /\ \A j \in 1..(i - 1) : a[j] = s[j]
  BY SubSeqProperties, LenProperties, ElementOfSeq
<1>2. /\ b \in Seq(S) /\ Len(b) = Len(s) - i + 1
      /\ \A j \in 1..(Len(s) - i + 1) : b[j] = s[i + j - 1]
  BY SubSeqProperties, LenProperties, ElementOfSeq
<1>3. <<e>> \in Seq(S) /\ Len(<<e>>) = 1 /\ <<e>>[1] = e
  OBVIOUS
<1> HIDE DEF a, b
<1>4. /\ a \o <<e>> \in Seq(S) /\ Len(a \o <<e>>) = i
      /\ \A j \in 1..i : (a \o <<e>>)[j] = IF j < i THEN s[j] ELSE e
  BY <1>1, <1>3, ConcatProperties
<1>5. /\ (a \o <<e>>) \o b \in Seq(S)
      /\ Len((a \o <<e>>) \o b) = Len(s) + 1
      /\ \A j \in 1..(Len(s) + 1) :
            ((a \o <<e>>) \o b)[j] = IF j <= i THEN (a \o <<e>>)[j] ELSE b[j - i]
  <2>1. PICK ae : ae = a \o <<e>>
    OBVIOUS
  <2>2. ae \in Seq(S) /\ Len(ae) = i
    BY <1>4, <2>1
  <2>3. /\ ae \o b \in Seq(S)
        /\ Len(ae \o b) = Len(ae) + Len(b)
        /\ \A j \in 1..(Len(ae) + Len(b)) :
              (ae \o b)[j] = IF j <= Len(ae) THEN ae[j] ELSE b[j - Len(ae)]
    BY <1>2, <2>2, ConcatProperties
  <2>4. Len(ae) + Len(b) = Len(s) + 1
    BY <1>2, <2>2, LenProperties
  <2> QED
    BY <2>1, <2>2, <2>3, <2>4
<1>6. ASSUME NEW j \in 1..(Len(s) + 1), j > i PROVE b[j - i] = s[j - 1]
  <2>1. j - i \in 1..(Len(s) - i + 1) /\ i + (j - i) - 1 = j - 1
    BY <1>6, LenProperties
  <2> QED
    BY <2>1, <1>2
<1>7. InsertAt(s, i, e) = (a \o <<e>>) \o b
  BY DEF InsertAt, a, b
<1>8. ASSUME NEW j \in 1..(Len(s) + 1)
      PROVE  InsertAt(s, i, e)[j] = IF j < i THEN s[j]
                                    ELSE IF j = i THEN e ELSE s[j - 1]
  <2>1. CASE j <= i
    <3>1. j \in 1..i
      BY <2>1
    <3>2. (a \o <<e>>)[j] = IF j < i THEN s[j] ELSE e
      BY <3>1, <1>4
    <3>3. InsertAt(s, i, e)[j] = (a \o <<e>>)[j]
      BY <1>5, <1>7, <2>1
    <3>4. j < i \/ j = i
      BY <2>1, LenProperties
    <3> QED
      BY <3>2, <3>3, <3>4
  <2>2. CASE ~(j <= i)
    <3>1. InsertAt(s, i, e)[j] = b[j - i]
      BY <1>5, <1>7, <2>2
    <3>2. ~(j < i) /\ j # i /\ j > i
      BY <2>2, LenProperties
    <3> QED
      BY <1>6, <3>1, <3>2
  <2> QED
    BY <2>1, <2>2
<1> QED
  BY <1>5, <1>7, <1>8

\* Removing keeps the other elements and their order.
LEMMA RemoveAtProperties ==
  ASSUME NEW S, NEW s \in Seq(S), NEW i \in 1..Len(s)
  PROVE  /\ RemoveAt(s, i) \in Seq(S)
         /\ Len(RemoveAt(s, i)) = Len(s) - 1
         /\ \A j \in 1..(Len(s) - 1) :
               RemoveAt(s, i)[j] = IF j < i THEN s[j] ELSE s[j + 1]
<1> DEFINE a == SubSeq(s, 1, i - 1)
           b == SubSeq(s, i + 1, Len(s))
<1>1. /\ a \in Seq(S) /\ Len(a) = i - 1
      /\ \A j \in 1..(i - 1) : a[j] = s[j]
  BY SubSeqProperties, LenProperties, ElementOfSeq
<1>2. /\ b \in Seq(S) /\ Len(b) = Len(s) - i
      /\ \A j \in 1..(Len(s) - i) : b[j] = s[i + j]
  BY SubSeqProperties, LenProperties, ElementOfSeq
<1> HIDE DEF a, b
<1>3. /\ a \o b \in Seq(S) /\ Len(a \o b) = Len(s) - 1
      /\ \A j \in 1..(Len(s) - 1) :
            (a \o b)[j] = IF j <= i - 1 THEN a[j] ELSE b[j - (i - 1)]
  <2>1. /\ a \o b \in Seq(S) /\ Len(a \o b) = Len(a) + Len(b)
        /\ \A j \in 1..(Len(a) + Len(b)) :
              (a \o b)[j] = IF j <= Len(a) THEN a[j] ELSE b[j - Len(a)]
    BY <1>1, <1>2, ConcatProperties
  <2>2. Len(s) \in Nat /\ Len(a) + Len(b) = Len(s) - 1
    BY <1>1, <1>2, LenProperties
  <2> QED
    BY <1>1, <2>1, <2>2
<1>4. ASSUME NEW j \in 1..(Len(s) - 1), j > i - 1 PROVE b[j - (i - 1)] = s[j + 1]
  <2>1. j - (i - 1) \in 1..(Len(s) - i) /\ i + (j - (i - 1)) = j + 1
    BY <1>4, LenProperties
  <2> QED
    BY <2>1, <1>2
<1>5. RemoveAt(s, i) = a \o b
  BY DEF RemoveAt, a, b
<1>6. ASSUME NEW j \in 1..(Len(s) - 1)
      PROVE  RemoveAt(s, i)[j] = IF j < i THEN s[j] ELSE s[j + 1]
  <2>1. CASE j <= i - 1
    <3>1. RemoveAt(s, i)[j] = a[j]
      BY <1>3, <1>5, <2>1
    <3>2. j \in 1..(i - 1) /\ j < i
      BY <2>1, LenProperties
    <3> QED
      BY <1>1, <3>1, <3>2
  <2>2. CASE ~(j <= i - 1)
    <3>1. RemoveAt(s, i)[j] = b[j - (i - 1)]
      BY <1>3, <1>5, <2>2
    <3>2. ~(j < i) /\ j > i - 1
      BY <2>2, LenProperties
    <3> QED
      BY <1>4, <3>1, <3>2
  <2> QED
    BY <2>1, <2>2
<1> QED
  BY <1>3, <1>5, <1>6

\* The elements of a sequence are those at its positions.
LEMMA ToSetProperties ==
  ASSUME NEW S, NEW s \in Seq(S)
  PROVE  /\ ToSet(s) \subseteq S
         /\ \A x : x \in ToSet(s) <=> \E i \in 1..Len(s) : s[i] = x
         /\ DOMAIN s = 1..Len(s) /\ Len(s) \in Nat
  BY LenProperties, ElementOfSeq DEF ToSet

\* Popping the first element.
LEMMA PopProperties ==
  ASSUME NEW S, NEW s \in Seq(S), s # <<>>
  PROVE  /\ Head(s) \in S /\ Head(s) \in ToSet(s)
         /\ Tail(s) \in Seq(S)
         /\ ToSet(s) = ToSet(Tail(s)) \cup {Head(s)}
         /\ Injective(s) => Injective(Tail(s)) /\ Head(s) \notin ToSet(Tail(s))
<1>1. Len(s) \in Nat \ {0}
  BY EmptySeq
<1>2. /\ Head(s) \in S /\ Tail(s) \in Seq(S) /\ Len(Tail(s)) = Len(s) - 1
      /\ \A i \in 1..Len(Tail(s)) : Tail(s)[i] = s[i + 1]
  BY HeadTailProperties
<1>3. Head(s) = s[1]
  OBVIOUS
<1>4. /\ \A x : x \in ToSet(s) <=> \E i \in 1..Len(s) : s[i] = x
      /\ DOMAIN s = 1..Len(s)
      /\ \A x : x \in ToSet(Tail(s)) <=> \E i \in 1..(Len(s) - 1) : Tail(s)[i] = x
      /\ DOMAIN Tail(s) = 1..(Len(s) - 1)
  BY <1>2, ToSetProperties
<1>5. Head(s) \in ToSet(s)
  BY <1>1, <1>3, <1>4
<1>6. ASSUME NEW x \in ToSet(s), x # Head(s) PROVE x \in ToSet(Tail(s))
  <2>1. PICK i \in 1..Len(s) : s[i] = x
    BY <1>4
  <2>2. i - 1 \in 1..(Len(s) - 1) /\ (i - 1) + 1 = i
    BY <1>1, <1>3, <1>6, <2>1
  <2>3. Tail(s)[i - 1] = x
    BY <1>2, <2>1, <2>2
  <2> QED
    BY <1>4, <2>2, <2>3
<1>7. ASSUME NEW x \in ToSet(Tail(s)) PROVE x \in ToSet(s)
  <2>1. PICK i \in 1..(Len(s) - 1) : Tail(s)[i] = x
    BY <1>4
  <2>2. i + 1 \in 1..Len(s) /\ s[i + 1] = x
    BY <1>1, <1>2, <2>1
  <2> QED
    BY <1>4, <2>2
<1>8. ASSUME Injective(s) PROVE Injective(Tail(s)) /\ Head(s) \notin ToSet(Tail(s))
  <2>1. Injective(Tail(s))
    BY <1>1, <1>2, <1>4, <1>8 DEF Injective
  <2>2. \A i \in 1..(Len(s) - 1) : Tail(s)[i] # Head(s)
    BY <1>1, <1>2, <1>3, <1>4, <1>8 DEF Injective
  <2> QED
    BY <1>4, <2>1, <2>2
<1> QED
  BY <1>2, <1>5, <1>6, <1>7, <1>8

\* Appending a new element.
LEMMA AppendNew ==
  ASSUME NEW S, NEW s \in Seq(S), NEW e \in S
  PROVE  /\ Append(s, e) \in Seq(S)
         /\ ToSet(Append(s, e)) = ToSet(s) \cup {e}
         /\ Injective(s) /\ e \notin ToSet(s) => Injective(Append(s, e))
<1> DEFINE r == Append(s, e)
<1>1. /\ r \in Seq(S) /\ Len(r) = Len(s) + 1
      /\ \A i \in 1..Len(s) : r[i] = s[i]
      /\ r[Len(s) + 1] = e
  BY AppendProperties
<1> HIDE DEF r
<1>2. /\ \A x : x \in ToSet(s) <=> \E i \in 1..Len(s) : s[i] = x
      /\ DOMAIN s = 1..Len(s) /\ Len(s) \in Nat
      /\ \A x : x \in ToSet(r) <=> \E i \in 1..(Len(s) + 1) : r[i] = x
      /\ DOMAIN r = 1..(Len(s) + 1)
  BY <1>1, ToSetProperties
<1>3. \A x : x \in ToSet(r) <=> x \in ToSet(s) \/ x = e
  <2>1. \A i \in 1..(Len(s) + 1) : i \in 1..Len(s) \/ i = Len(s) + 1
    BY <1>2
  <2>2. 1..Len(s) \subseteq 1..(Len(s) + 1) /\ Len(s) + 1 \in 1..(Len(s) + 1)
    BY <1>2
  <2> QED
    BY <1>1, <1>2, <2>1, <2>2
<1>4. Injective(s) /\ e \notin ToSet(s) => Injective(r)
  BY <1>1, <1>2 DEF Injective
<1> QED
  BY <1>1, <1>3, <1>4 DEF r

\* Joining two sequences.
LEMMA ConcatDistinct ==
  ASSUME NEW S, NEW s \in Seq(S), NEW t \in Seq(S)
  PROVE  /\ s \o t \in Seq(S)
         /\ ToSet(s \o t) = ToSet(s) \cup ToSet(t)
         /\ Injective(s) /\ Injective(t) /\ ToSet(s) \cap ToSet(t) = {}
               => Injective(s \o t)
<1> DEFINE r == s \o t
<1>1. /\ r \in Seq(S) /\ Len(r) = Len(s) + Len(t)
      /\ \A i \in 1..(Len(s) + Len(t)) :
            r[i] = IF i <= Len(s) THEN s[i] ELSE t[i - Len(s)]
  BY ConcatProperties
<1> HIDE DEF r
<1>2. /\ \A x : x \in ToSet(s) <=> \E i \in 1..Len(s) : s[i] = x
      /\ DOMAIN s = 1..Len(s) /\ Len(s) \in Nat
      /\ \A x : x \in ToSet(t) <=> \E i \in 1..Len(t) : t[i] = x
      /\ DOMAIN t = 1..Len(t) /\ Len(t) \in Nat
      /\ \A x : x \in ToSet(r) <=> \E i \in 1..(Len(s) + Len(t)) : r[i] = x
      /\ DOMAIN r = 1..(Len(s) + Len(t))
  BY <1>1, ToSetProperties
<1>3. \A i \in DOMAIN r :
         \/ i \in 1..Len(s) /\ r[i] = s[i]
         \/ i - Len(s) \in 1..Len(t) /\ r[i] = t[i - Len(s)] /\ i > Len(s)
  BY <1>1, <1>2
<1>4. ASSUME NEW x \in ToSet(r) PROVE x \in ToSet(s) \cup ToSet(t)
  <2>1. PICK i \in DOMAIN r : r[i] = x
    BY <1>2
  <2> QED
    BY <1>2, <1>3, <2>1
<1>5. ASSUME NEW x \in ToSet(s) PROVE x \in ToSet(r)
  <2>1. PICK i \in 1..Len(s) : s[i] = x
    BY <1>2
  <2>2. i \in 1..(Len(s) + Len(t)) /\ r[i] = x
    BY <1>1, <1>2, <2>1
  <2> QED
    BY <1>2, <2>2
<1>6. ASSUME NEW x \in ToSet(t) PROVE x \in ToSet(r)
  <2>1. PICK i \in 1..Len(t) : t[i] = x
    BY <1>2
  <2>2. /\ i + Len(s) \in 1..(Len(s) + Len(t)) /\ ~(i + Len(s) <= Len(s))
        /\ (i + Len(s)) - Len(s) = i
    BY <1>2
  <2>3. r[i + Len(s)] = x
    BY <1>1, <2>1, <2>2
  <2> QED
    BY <1>2, <2>2, <2>3
<1>7. ASSUME Injective(s), Injective(t), ToSet(s) \cap ToSet(t) = {}
      PROVE  Injective(r)
  <2>1. ASSUME NEW i \in DOMAIN r, NEW j \in DOMAIN r, r[i] = r[j] PROVE i = j
    <3>1. CASE i \in 1..Len(s) /\ j \in 1..Len(s)
      BY <1>1, <1>2, <1>7, <2>1, <3>1 DEF Injective
    <3>2. CASE i > Len(s) /\ j > Len(s)
      <4>1. /\ i - Len(s) \in DOMAIN t /\ j - Len(s) \in DOMAIN t
            /\ t[i - Len(s)] = t[j - Len(s)]
        BY <1>1, <1>2, <2>1, <3>2
      <4>2. i - Len(s) = j - Len(s)
        BY <1>7, <4>1 DEF Injective
      <4> QED
        BY <1>2, <4>2
    <3>3. CASE i \in 1..Len(s) /\ j > Len(s)
      <4>1. r[i] \in ToSet(s)
        <5>1. i \in 1..Len(s) /\ r[i] = s[i]
          BY <1>2, <1>3, <3>3
        <5> QED
          BY <1>2, <5>1
      <4>2. r[j] \in ToSet(t)
        <5>1. j - Len(s) \in 1..Len(t) /\ r[j] = t[j - Len(s)]
          BY <1>2, <1>3, <3>3
        <5> QED
          BY <1>2, <5>1
      <4> QED
        BY <1>7, <2>1, <4>1, <4>2
    <3>4. CASE i > Len(s) /\ j \in 1..Len(s)
      <4>1. j \in 1..Len(s) /\ r[j] = s[j]
        BY <1>1, <1>2, <3>4
      <4>2. r[j] \in ToSet(s)
        BY <1>2, <4>1
      <4>3. i - Len(s) \in 1..Len(t) /\ r[i] = t[i - Len(s)]
        BY <1>2, <1>3, <3>4
      <4>4. r[i] \in ToSet(t)
        BY <1>2, <4>3
      <4> QED
        BY <1>7, <2>1, <4>2, <4>4
    <3> QED
      BY <1>2, <3>1, <3>2, <3>3, <3>4
  <2> QED
    BY <2>1 DEF Injective
<1> QED
  BY <1>1, <1>4, <1>5, <1>6, <1>7 DEF r

\* The empty sequence.
LEMMA EmptySequence ==
  ASSUME NEW S
  PROVE  <<>> \in Seq(S) /\ ToSet(<<>>) = {} /\ Injective(<<>>)
<1>1. <<>> \in Seq(S) /\ Len(<<>>) = 0
  BY EmptySeq
<1>2. 1..0 = {}
  OBVIOUS
<1>3. ToSet(<<>>) = {} /\ DOMAIN <<>> = {}
  BY <1>1, <1>2, ToSetProperties
<1> QED
  BY <1>1, <1>3 DEF Injective

\* The smallest of a non-empty set of positions is one of them and a bound.
LEMMA MinBounded ==
  ASSUME NEW n \in Nat, NEW I, I \subseteq 1..n, I # {}
  PROVE  /\ Min(I) \in I
         /\ \A j \in I : Min(I) <= j
<1>1. I \subseteq Nat
  OBVIOUS
<1>2. PICK d \in I : \A e \in I : ~(<<e, d>> \in OpToRel(<, Nat))
  BY <1>1, NatLessThanWellFounded, WFMin
<1>3. \A e \in I : ~(e < d)
  BY <1>1, <1>2 DEF OpToRel
<1>4. \A e \in I : d <= e
  BY <1>1, <1>3
<1>5. \E x \in I : \A y \in I : x <= y
  BY <1>4
<1> QED
  BY <1>5 DEF Min

\* list.remove: one occurrence of a listed element goes.
LEMMA RemoveFirstProperties ==
  ASSUME NEW S, NEW s \in Seq(S), NEW e
  PROVE  /\ RemoveFirst(s, e) \in Seq(S)
         /\ ToSet(RemoveFirst(s, e)) \subseteq ToSet(s)
         /\ Injective(s) => /\ Injective(RemoveFirst(s, e))
                            /\ ToSet(RemoveFirst(s, e)) = ToSet(s) \ {e}
<1>0. Len(s) \in Nat /\ DOMAIN s = 1..Len(s) /\ \A x : x \in ToSet(s) <=> \E i \in 1..Len(s) : s[i] = x
  BY ToSetProperties
<1>1. CASE ~\E i \in 1..Len(s) : s[i] = e
  BY <1>0, <1>1 DEF RemoveFirst
<1>2. CASE \E i \in 1..Len(s) : s[i] = e
  <2> DEFINE I == {i \in 1..Len(s) : s[i] = e}
             k == Min(I)
             r == RemoveAt(s, k)
  <2>1. k \in I
    <3>1. I \subseteq 1..Len(s) /\ I # {}
      BY <1>2
    <3> HIDE DEF I
    <3> QED
      BY <1>0, <3>1, MinBounded
  <2>2. RemoveFirst(s, e) = r
    BY <1>2 DEF RemoveFirst, SelectInSeq
  <2>3. k \in 1..Len(s) /\ s[k] = e
    BY <2>1
  <2> HIDE DEF I, k
  <2>4. /\ r \in Seq(S) /\ Len(r) = Len(s) - 1
        /\ \A j \in 1..(Len(s) - 1) : r[j] = IF j < k THEN s[j] ELSE s[j + 1]
    BY <2>3, RemoveAtProperties
  <2> HIDE DEF r
  <2>5. DOMAIN r = 1..(Len(s) - 1) /\ \A x : x \in ToSet(r) <=> \E j \in 1..(Len(s) - 1) : r[j] = x
    BY <2>4, ToSetProperties
  <2>6. ToSet(r) \subseteq ToSet(s)
    <3>1. ASSUME NEW j \in 1..(Len(s) - 1) PROVE \E i \in 1..Len(s) : s[i] = r[j]
      <4>1. j \in 1..Len(s) /\ j + 1 \in 1..Len(s)
        BY <1>0
      <4> QED
        BY <2>4, <4>1
    <3> QED
      BY <1>0, <2>5, <3>1
  <2>7. ASSUME Injective(s) PROVE Injective(r) /\ ToSet(r) = ToSet(s) \ {e}
    <3>1. \A j \in 1..(Len(s) - 1) : j \in 1..Len(s) /\ j + 1 \in 1..Len(s)
      BY <1>0
    <3>2. ASSUME NEW i \in 1..(Len(s) - 1), NEW j \in 1..(Len(s) - 1), r[i] = r[j]
          PROVE  i = j
      <4> DEFINE p(x) == IF x < k THEN x ELSE x + 1
      <4>1. r[i] = s[p(i)] /\ r[j] = s[p(j)] /\ p(i) \in DOMAIN s /\ p(j) \in DOMAIN s
        BY <1>0, <2>4, <3>1
      <4>2. p(i) = p(j)
        BY <2>7, <3>2, <4>1 DEF Injective
      <4> QED
        BY <4>2, <2>3
    <3>3. \A j \in 1..(Len(s) - 1) : r[j] # e
      <4>1. ASSUME NEW j \in 1..(Len(s) - 1) PROVE r[j] # s[k]
        <5>1. CASE j < k
          <6>1. r[j] = s[j] /\ j # k /\ j \in DOMAIN s /\ k \in DOMAIN s
            BY <1>0, <2>3, <2>4, <3>1, <5>1
          <6> QED
            BY <2>7, <6>1 DEF Injective
        <5>2. CASE ~(j < k)
          <6>1. r[j] = s[j + 1] /\ j + 1 # k /\ j + 1 \in DOMAIN s /\ k \in DOMAIN s
            BY <1>0, <2>3, <2>4, <3>1, <5>2
          <6> QED
            BY <2>7, <6>1 DEF Injective
        <5> QED
          BY <5>1, <5>2
      <4> QED
        BY <4>1, <2>3
    <3>4. ASSUME NEW x \in ToSet(s), x # e PROVE x \in ToSet(r)
      <4>1. PICK i \in 1..Len(s) : s[i] = x
        BY <1>0
      <4>2. CASE i < k
        <5>1. i \in 1..(Len(s) - 1) /\ r[i] = x
          BY <1>0, <2>3, <2>4, <4>1, <4>2
        <5> QED
          BY <2>5, <5>1
      <4>3. CASE i > k
        <5>1. i - 1 \in 1..(Len(s) - 1) /\ ~(i - 1 < k) /\ (i - 1) + 1 = i
          BY <1>0, <2>3, <4>3
        <5>2. r[i - 1] = x
          BY <2>4, <4>1, <5>1
        <5> QED
          BY <2>5, <5>1, <5>2
      <4> QED
        BY <2>3, <3>4, <4>1, <4>2, <4>3
    <3> QED
      BY <2>5, <2>6, <3>2, <3>3, <3>4 DEF Injective
  <2> QED
    BY <2>2, <2>4, <2>6, <2>7
<1> QED
  BY <1>1, <1>2

\* Taking the last element.
LEMMA LastProperties ==
  ASSUME NEW S, NEW s \in Seq(S), s # <<>>
  PROVE  /\ Last(s) \in S /\ Last(s) \in ToSet(s)
         /\ Front(s) \in Seq(S)
         /\ ToSet(s) = ToSet(Front(s)) \cup {Last(s)}
         /\ Injective(s) => Injective(Front(s)) /\ Last(s) \notin ToSet(Front(s))
<1> DEFINE f == Front(s)
<1>1. Len(s) \in Nat \ {0}
  BY EmptySeq
<1>2. f \in Seq(S) /\ Len(f) = Len(s) - 1 /\ \A j \in 1..(Len(s) - 1) : f[j] = s[j]
  <2>2. \A i \in 1..(Len(s) - 1) : s[i] \in S
    BY <1>1, ElementOfSeq
  <2> DEFINE n == Len(s) - 1
  <2>3. n \in Nat /\ 1 \in Int /\ \A j \in 1..n : 1 + j - 1 = j
    BY <1>1
  <2>4. f = SubSeq(s, 1, n)
    BY DEF Front
  <2> HIDE DEF n
  <2>5. /\ SubSeq(s, 1, n) \in Seq(S) /\ Len(SubSeq(s, 1, n)) = IF 1 <= n THEN n - 1 + 1 ELSE 0
        /\ \A i \in 1..(n - 1 + 1) : SubSeq(s, 1, n)[i] = s[1 + i - 1]
    BY <2>2, <2>3, SubSeqProperties DEF n
  <2>6. (IF 1 <= n THEN n - 1 + 1 ELSE 0) = n /\ 1..(n - 1 + 1) = 1..n
    BY <2>3
  <2>7. f \in Seq(S) /\ Len(f) = n /\ \A j \in 1..n : f[j] = s[j]
    BY <2>3, <2>4, <2>5, <2>6
  <2> QED
    BY <2>7 DEF n
<1> HIDE DEF f
<1>3. /\ DOMAIN s = 1..Len(s) /\ \A x : x \in ToSet(s) <=> \E i \in 1..Len(s) : s[i] = x
      /\ DOMAIN f = 1..(Len(s) - 1) /\ \A x : x \in ToSet(f) <=> \E i \in 1..(Len(s) - 1) : f[i] = x
      /\ ToSet(s) \subseteq S
  BY <1>2, ToSetProperties
<1>4. /\ Len(s) \in 1..Len(s)
      /\ \A i \in 1..Len(s) : i \in 1..(Len(s) - 1) \/ i = Len(s)
      /\ \A i \in 1..(Len(s) - 1) : i \in 1..Len(s) /\ i # Len(s)
  BY <1>1
<1>5. Last(s) = s[Len(s)]
  BY DEF Last
<1>6. Last(s) \in ToSet(s)
  BY <1>3, <1>4, <1>5
<1>7. ToSet(s) = ToSet(f) \cup {Last(s)}
  BY <1>2, <1>3, <1>4, <1>5, <1>6
<1>8. ASSUME Injective(s) PROVE Injective(f) /\ Last(s) \notin ToSet(f)
  <2>1. \A i \in DOMAIN f : i \in DOMAIN s /\ f[i] = s[i] /\ i # Len(s)
    BY <1>2, <1>3, <1>4
  <2>2. \A i \in DOMAIN f : f[i] # Last(s)
    BY <1>3, <1>4, <1>5, <1>8, <2>1 DEF Injective
  <2>3. Injective(f)
    BY <1>8, <2>1 DEF Injective
  <2> QED
    BY <1>3, <2>2, <2>3
<1> QED
  BY <1>2, <1>3, <1>6, <1>7, <1>8 DEF f
================================================================================
