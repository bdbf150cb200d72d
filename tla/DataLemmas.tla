----------------------------- MODULE DataLemmas -----------------------------
(***************************************************************************)
(* Facts about natural numbers and sequences that the proofs of the        *)
(* components share.                                                       *)
(***************************************************************************)
EXTENDS Naturals, FiniteSets, FiniteSetsExt, SequencesExt, FiniteSetTheorems,
        SequenceTheorems, WellFoundedInduction, TLAPS

\* A set of natural numbers that is not empty has a least element: induction in the
\* form in which it is used here, with a set of counterexamples for T.
LEMMA LeastNat ==
  ASSUME NEW T \in SUBSET Nat, T # {}
  PROVE  \E x \in T : \A y \in T : x <= y
<1>1. PICK x \in T : \A y \in T : ~ (<<y, x>> \in OpToRel(<, Nat))
  BY NatLessThanWellFounded, WFMin
<1>2. ASSUME NEW y \in Nat, y < x PROVE <<y, x>> \in OpToRel(<, Nat)
  BY <1>2, Zenon DEF OpToRel
<1>3. \A y \in T : ~ (y < x)
  BY <1>1, <1>2
<1>4. QED  BY <1>3

-----------------------------------------------------------------------------
(* Counting in a sequence *)

\* The places of s where a member of T is.
Hits(s, T) == {i \in DOMAIN s : s[i] \in T}

\* The places are finitely many.
LEMMA HitsFinite ==
  ASSUME NEW S, NEW s \in Seq(S), NEW T
  PROVE  IsFiniteSet(Hits(s, T)) /\ Cardinality(Hits(s, T)) \in Nat
<1>1. DOMAIN s = 1..Len(s) /\ Len(s) \in Nat
  BY LenProperties
<1>2. IsFiniteSet(1..Len(s))
  BY <1>1, FS_Interval
<1>3. Hits(s, T) \in SUBSET (1..Len(s))
  BY <1>1 DEF Hits
<1>4. QED  BY <1>2, <1>3, FS_Subset, FS_CardinalityType

\* push_back counts one more, if the new element counts.
LEMMA HitsAppend ==
  ASSUME NEW S, NEW s \in Seq(S), NEW T, NEW e \in S
  PROVE  Cardinality(Hits(Append(s, e), T))
           = Cardinality(Hits(s, T)) + IF e \in T THEN 1 ELSE 0
<1>1. /\ DOMAIN s = 1..Len(s) /\ Len(s) \in Nat
      /\ DOMAIN Append(s, e) = 1..(Len(s) + 1)
      /\ \A i \in 1..Len(s) : Append(s, e)[i] = s[i]
      /\ Append(s, e)[Len(s) + 1] = e
  BY AppendProperties, LenProperties
<1>2. Len(s) + 1 \notin Hits(s, T)
  BY <1>1 DEF Hits
<1>3. CASE e \in T
  <2>1. Hits(Append(s, e), T) = Hits(s, T) \cup {Len(s) + 1}
    BY <1>1, <1>3 DEF Hits
  <2>2. QED  BY <1>2, <1>3, <2>1, HitsFinite, FS_AddElement
<1>4. CASE e \notin T
  <2>1. Hits(Append(s, e), T) = Hits(s, T)
    BY <1>1, <1>4 DEF Hits
  <2>2. QED  BY <1>4, <2>1, HitsFinite
<1>5. QED  BY <1>3, <1>4

\* pop_front counts one less, if the front counts.
LEMMA HitsTail ==
  ASSUME NEW S, NEW s \in Seq(S), NEW T, s # <<>>
  PROVE  Cardinality(Hits(s, T))
           = Cardinality(Hits(Tail(s), T)) + IF Head(s) \in T THEN 1 ELSE 0
<1> DEFINE t == Tail(s)
           rest == Hits(s, T) \ {1}
           f == [i \in Hits(t, T) |-> i + 1]
<1>1. /\ t \in Seq(S) /\ Head(s) = s[1] /\ Len(t) = Len(s) - 1
      /\ \A i \in 1..Len(t) : t[i] = s[i + 1]
  BY HeadTailProperties
<1>2. /\ DOMAIN s = 1..Len(s) /\ Len(s) \in Nat /\ Len(s) # 0
      /\ DOMAIN t = 1..Len(t) /\ Len(t) \in Nat
  BY <1>1, LenProperties, EmptySeq
<1> HIDE DEF t
<1>3. ASSUME NEW i \in Hits(t, T) PROVE i \in Nat /\ i + 1 \in rest
  BY <1>1, <1>2 DEF Hits
<1>4. ASSUME NEW j \in rest PROVE j \in Nat /\ j - 1 \in Hits(t, T) /\ (j - 1) + 1 = j
  BY <1>1, <1>2 DEF Hits
<1> HIDE DEF rest
<1>5. f \in Bijection(Hits(t, T), rest)
  <2>1. f \in [Hits(t, T) -> rest]
    BY <1>3
  <2>2. \A i, j \in Hits(t, T) : f[i] = f[j] => i = j
    BY <1>3
  <2>3. \A j \in rest : \E i \in Hits(t, T) : f[i] = j
    BY <1>4
  <2> HIDE DEF f
  <2>4. QED  BY <2>1, <2>2, <2>3 DEF Bijection, Injection, Surjection, IsInjective
<1>6. Cardinality(rest) = Cardinality(Hits(t, T))
  BY <1>1, <1>5, HitsFinite, FS_Bijection DEF ExistsBijection
<1>7. 1 \in Hits(s, T) <=> Head(s) \in T
  BY <1>1, <1>2 DEF Hits
<1>8. IsFiniteSet(Hits(s, T)) /\ Cardinality(Hits(s, T)) \in Nat
  BY HitsFinite
<1>9. Cardinality(rest) = IF 1 \in Hits(s, T) THEN Cardinality(Hits(s, T)) - 1
                                               ELSE Cardinality(Hits(s, T))
  BY <1>8, FS_RemoveElement DEF rest
<1>10. QED  BY <1>6, <1>7, <1>8, <1>9 DEF t

-----------------------------------------------------------------------------
(* Finding in a sequence *)

\* x is at one place of s at most.
Once(s, x) == \A i, j \in DOMAIN s : s[i] = x /\ s[j] = x => i = j

\* What is in two queues, one behind the other.
LEMMA ConcatFind ==
  ASSUME NEW S, NEW s \in Seq(S), NEW u \in Seq(S)
  PROVE  /\ s \o u \in Seq(S)
         /\ Range(s \o u) = Range(s) \cup Range(u)
         /\ \A x : Once(s \o u, x)
                <=> Once(s, x) /\ Once(u, x) /\ (x \notin Range(s) \/ x \notin Range(u))
<1> DEFINE t == s \o u
<1>1. /\ t \in Seq(S) /\ DOMAIN t = 1..(Len(s) + Len(u))
      /\ DOMAIN s = 1..Len(s) /\ Len(s) \in Nat
      /\ DOMAIN u = 1..Len(u) /\ Len(u) \in Nat
      /\ \A i \in 1..(Len(s) + Len(u)) : t[i] = IF i <= Len(s) THEN s[i] ELSE u[i - Len(s)]
  BY ConcatProperties, LenProperties
<1> HIDE DEF t
<1>2. \A i \in DOMAIN s : i \in DOMAIN t /\ t[i] = s[i]
  BY <1>1
<1>3. \A i \in DOMAIN u : Len(s) + i \in DOMAIN t /\ t[Len(s) + i] = u[i]
  BY <1>1
<1>4. \A i \in DOMAIN t : \/ i \in DOMAIN s /\ t[i] = s[i]
                          \/ i - Len(s) \in DOMAIN u /\ t[i] = u[i - Len(s)]
  BY <1>1
<1>5. Range(t) = Range(s) \cup Range(u)
  <2>1. ASSUME NEW x \in Range(t) PROVE x \in Range(s) \cup Range(u)
    BY <1>4, <2>1 DEF Range
  <2>2. ASSUME NEW x \in Range(s) PROVE x \in Range(t)
    BY <1>2, <2>2 DEF Range
  <2>3. ASSUME NEW x \in Range(u) PROVE x \in Range(t)
    <3>1. PICK i \in DOMAIN u : u[i] = x
      BY <2>3 DEF Range
    <3>2. Len(s) + i \in DOMAIN t /\ t[Len(s) + i] = x
      BY <1>3, <3>1
    <3>3. QED  BY <3>2 DEF Range
  <2>4. QED  BY <2>1, <2>2, <2>3
<1>6. ASSUME NEW x, Once(t, x)
      PROVE  Once(s, x) /\ Once(u, x) /\ (x \notin Range(s) \/ x \notin Range(u))
  <2>1. Once(s, x)
    BY <1>2, <1>6 DEF Once
  <2>2. ASSUME NEW i \in DOMAIN u, NEW j \in DOMAIN u, u[i] = x, u[j] = x PROVE i = j
    <3>1. Len(s) + i = Len(s) + j
      BY <1>3, <1>6, <2>2 DEF Once
    <3>2. QED  BY <1>1, <3>1
  <2>3. ASSUME NEW i \in DOMAIN s, NEW j \in DOMAIN u, s[i] = x, u[j] = x PROVE FALSE
    <3>1. i = Len(s) + j
      BY <1>2, <1>3, <1>6, <2>3 DEF Once
    <3>2. QED  BY <1>1, <3>1
  <2>4. QED  BY <2>1, <2>2, <2>3 DEF Once, Range
<1>7. ASSUME NEW x, Once(s, x), Once(u, x), x \notin Range(s) \/ x \notin Range(u)
      PROVE  Once(t, x)
  <2> SUFFICES ASSUME NEW i \in DOMAIN t, NEW j \in DOMAIN t, t[i] = x, t[j] = x
               PROVE  i = j
    BY DEF Once
  <2>1. CASE x \notin Range(s)
    <3>1. i - Len(s) \in DOMAIN u /\ u[i - Len(s)] = x
      BY <1>4, <2>1 DEF Range
    <3>2. j - Len(s) \in DOMAIN u /\ u[j - Len(s)] = x
      BY <1>4, <2>1 DEF Range
    <3>3. i - Len(s) = j - Len(s)
      BY <1>7, <3>1, <3>2 DEF Once
    <3>4. QED  BY <1>1, <3>3
  <2>2. CASE x \notin Range(u)
    <3>1. i \in DOMAIN s /\ s[i] = x
      BY <1>4, <2>2 DEF Range
    <3>2. j \in DOMAIN s /\ s[j] = x
      BY <1>4, <2>2 DEF Range
    <3>3. QED  BY <1>7, <3>1, <3>2 DEF Once
  <2>3. QED  BY <1>7, <2>1, <2>2
<1>8. QED  BY <1>1, <1>5, <1>6, <1>7 DEF t

\* One element.
LEMMA SingleFind ==
  ASSUME NEW S, NEW e \in S
  PROVE  <<e>> \in Seq(S) /\ Range(<<e>>) = {e} /\ \A x : Once(<<e>>, x)
<1>1. DOMAIN <<e>> = {1} /\ <<e>>[1] = e
  OBVIOUS
<1>2. QED  BY <1>1 DEF Range, Once

\* No element.
LEMMA EmptyFind ==
  ASSUME NEW S
  PROVE  <<>> \in Seq(S) /\ Range(<<>>) = {} /\ \A x : Once(<<>>, x)
BY DEF Range, Once

\* push_back.
LEMMA AppendFind ==
  ASSUME NEW S, NEW s \in Seq(S), NEW e \in S
  PROVE  /\ Append(s, e) \in Seq(S)
         /\ Range(Append(s, e)) = Range(s) \cup {e}
         /\ \A x : Once(Append(s, e), x) <=> Once(s, x) /\ (x # e \/ x \notin Range(s))
<1> DEFINE u == <<e>>
<1>1. Append(s, e) = s \o u
  BY AppendIsConcat
<1>2. u \in Seq(S) /\ Range(u) = {e} /\ \A x : Once(u, x)
  BY SingleFind
<1> HIDE DEF u
<1>3. QED  BY <1>1, <1>2, ConcatFind

\* pop_front.
LEMMA TailFind ==
  ASSUME NEW S, NEW s \in Seq(S), s # <<>>
  PROVE  /\ Head(s) \in S /\ Tail(s) \in Seq(S)
         /\ Range(s) = {Head(s)} \cup Range(Tail(s))
         /\ \A x : Once(s, x) => Once(Tail(s), x) /\ (x # Head(s) \/ x \notin Range(Tail(s)))
<1>1. Head(s) \in S /\ Tail(s) \in Seq(S)
  BY HeadTailProperties
<1> DEFINE h == Head(s)
           front == <<h>>
           u == Tail(s)
<1>2. s = front \o u
  OBVIOUS
<1> HIDE DEF h
<1>3. front \in Seq(S) /\ Range(front) = {h} /\ \A x : Once(front, x)
  BY <1>1, SingleFind DEF h
<1> HIDE DEF front, u
<1>4. u \in Seq(S)
  BY <1>1 DEF u
<1>5. Range(s) = {h} \cup Range(u)
  BY <1>2, <1>3, <1>4, ConcatFind
<1>6. \A x : Once(s, x) => Once(u, x) /\ (x # h \/ x \notin Range(u))
  BY <1>2, <1>3, <1>4, ConcatFind
<1>7. QED  BY <1>1, <1>5, <1>6 DEF h, u

\* A queue that is cut in two.
LEMMA SplitFind ==
  ASSUME NEW S, NEW s \in Seq(S), NEW k \in 0..Len(s)
  PROVE  /\ SubSeq(s, 1, k) \in Seq(S) /\ SubSeq(s, k + 1, Len(s)) \in Seq(S)
         /\ Range(s) = Range(SubSeq(s, 1, k)) \cup Range(SubSeq(s, k + 1, Len(s)))
         /\ \A x : Once(s, x) =>
              /\ Once(SubSeq(s, k + 1, Len(s)), x)
              /\ x \notin Range(SubSeq(s, 1, k)) \/ x \notin Range(SubSeq(s, k + 1, Len(s)))
<1>1. Len(s) \in Nat /\ \A i \in 1..Len(s) : s[i] \in S
  BY LenProperties, ElementOfSeq
<1>2. SubSeq(s, 1, k) \in Seq(S) /\ SubSeq(s, k + 1, Len(s)) \in Seq(S)
  BY <1>1, SubSeqProperties
<1>3. 1 \in 1..(Len(s) + 1) /\ k \in (1 - 1)..Len(s) /\ Len(s) \in k..Len(s)
  BY <1>1
<1> DEFINE n == Len(s)
           a == SubSeq(s, 1, k)
           b == SubSeq(s, k + 1, n)
<1>4. a \o b = SubSeq(s, 1, n)
  <2> HIDE DEF n
  <2>1. n = Len(s)
    BY DEF n
  <2>2. QED  BY <1>3, <2>1, ConcatAdjacentSubSeq
<1>5. s = a \o b
  BY <1>4, SubSeqFull
<1>6. a \in Seq(S) /\ b \in Seq(S)
  BY <1>2
<1> HIDE DEF a, b
<1>7. Range(s) = Range(a) \cup Range(b)
  BY <1>5, <1>6, ConcatFind
<1>8. \A x : Once(s, x) => Once(b, x) /\ (x \notin Range(a) \/ x \notin Range(b))
  BY <1>5, <1>6, ConcatFind
<1>9. QED  BY <1>6, <1>7, <1>8 DEF a, b

\* A set in some order: each element is there, once.
LEMMA AnyOrderFind ==
  ASSUME NEW S, IsFiniteSet(S), NEW s \in SetToSeqs(S)
  PROVE  s \in Seq(S) /\ Range(s) \subseteq S /\ \A x : Once(s, x)
<1>1. Cardinality(S) \in Nat
  BY FS_CardinalityType
<1>2. /\ s \in [1..Cardinality(S) -> S]
      /\ \A i, j \in 1..Cardinality(S) : i # j => s[i] # s[j]
  BY DEF SetToSeqs
<1>3. s \in Seq(S)
  BY <1>1, <1>2
<1>4. QED  BY <1>2, <1>3 DEF Range, Once

\* One element or none.
LEMMA OptionFind ==
  ASSUME NEW S, NEW e \in S, NEW w, w = <<>> \/ w = <<e>>
  PROVE  w \in Seq(S) /\ Range(w) \subseteq {e} /\ \A x : Once(w, x)
<1>1. CASE w = <<>>
  BY <1>1, EmptyFind
<1>2. CASE w = <<e>>
  <2> DEFINE u == <<e>>
  <2>1. u \in Seq(S) /\ Range(u) = {e} /\ \A x : Once(u, x)
    BY SingleFind
  <2> HIDE DEF u
  <2>2. w = u
    BY <1>2 DEF u
  <2>3. QED  BY <2>1, <2>2
<1>3. QED  BY <1>1, <1>2

-----------------------------------------------------------------------------
(* The order in a sequence *)

\* An x is ahead of a y.
Precedes(s, x, y) == \E i, j \in DOMAIN s : i < j /\ s[i] = x /\ s[j] = y

\* An x, a y and a z are in this order.
InOrder(s, x, y, z) ==
  \E i, j, k \in DOMAIN s : i < j /\ j < k /\ s[i] = x /\ s[j] = y /\ s[k] = z

\* Two queues, one behind the other, and an element that the second does not have.
LEMMA ConcatOrder ==
  ASSUME NEW S, NEW s \in Seq(S), NEW u \in Seq(S), NEW z, z \notin Range(u)
  PROVE  /\ \A y : Precedes(s \o u, y, z) => Precedes(s, y, z)
         /\ \A x, y : InOrder(s \o u, x, y, z) => InOrder(s, x, y, z)
<1> DEFINE t == s \o u
<1>1. /\ DOMAIN t = 1..(Len(s) + Len(u))
      /\ DOMAIN s = 1..Len(s) /\ Len(s) \in Nat
      /\ DOMAIN u = 1..Len(u) /\ Len(u) \in Nat
      /\ \A i \in 1..(Len(s) + Len(u)) : t[i] = IF i <= Len(s) THEN s[i] ELSE u[i - Len(s)]
  BY ConcatProperties, LenProperties
<1> HIDE DEF t
<1>2. ASSUME NEW j \in DOMAIN t, t[j] = z PROVE j <= Len(s)
  <2> SUFFICES ASSUME ~(j <= Len(s)) PROVE FALSE
    OBVIOUS
  <2>1. j - Len(s) \in DOMAIN u /\ u[j - Len(s)] = z
    BY <1>1, <1>2
  <2>2. QED  BY <2>1 DEF Range
<1>3. \A i, j \in DOMAIN t : i <= j /\ j <= Len(s) => i \in DOMAIN s /\ t[i] = s[i]
  BY <1>1
<1>4. \A i, j, k \in DOMAIN t : i < j /\ j < k => i <= k /\ j <= k
  BY <1>1
<1>5. \A i, j \in DOMAIN t : i < j => i <= j /\ j <= j
  BY <1>1
<1>6. ASSUME NEW y, Precedes(t, y, z) PROVE Precedes(s, y, z)
  BY <1>2, <1>3, <1>5, <1>6 DEF Precedes
<1>7. ASSUME NEW x, NEW y, InOrder(t, x, y, z) PROVE InOrder(s, x, y, z)
  <2>1. PICK i, j, k \in DOMAIN t : i < j /\ j < k /\ t[i] = x /\ t[j] = y /\ t[k] = z
    BY <1>7 DEF InOrder
  <2>2. k <= Len(s) /\ i <= k /\ j <= k /\ k <= k
    BY <1>1, <1>2, <1>4, <2>1
  <2>3. i \in DOMAIN s /\ j \in DOMAIN s /\ k \in DOMAIN s
    BY <1>3, <2>2
  <2>4. s[i] = x /\ s[j] = y /\ s[k] = z
    BY <1>3, <2>1, <2>2
  <2>5. QED  BY <2>1, <2>3, <2>4 DEF InOrder
<1>8. QED  BY <1>6, <1>7 DEF t

\* pop_front: what is in order in the rest is in order in the queue, behind its head.
LEMMA TailOrder ==
  ASSUME NEW S, NEW s \in Seq(S), s # <<>>, NEW z
  PROVE  /\ \A y : Precedes(Tail(s), y, z) => Precedes(s, y, z) /\ InOrder(s, Head(s), y, z)
         /\ \A x, y : InOrder(Tail(s), x, y, z) => InOrder(s, x, y, z)
         /\ z \in Range(Tail(s)) => Precedes(s, Head(s), z)
<1> DEFINE t == Tail(s)
<1>1. /\ t \in Seq(S) /\ Len(t) = Len(s) - 1 /\ \A i \in 1..Len(t) : t[i] = s[i + 1]
      /\ Head(s) = s[1]
  BY HeadTailProperties
<1>2. /\ DOMAIN s = 1..Len(s) /\ Len(s) \in Nat /\ Len(s) # 0
      /\ DOMAIN t = 1..Len(t) /\ Len(t) \in Nat
  BY <1>1, LenProperties, EmptySeq
<1> HIDE DEF t
<1>3. \A i \in DOMAIN t : i + 1 \in DOMAIN s /\ s[i + 1] = t[i] /\ 1 < i + 1
  BY <1>1, <1>2
<1>4. \A i, j \in DOMAIN t : i < j => i + 1 < j + 1
  BY <1>2
<1>5. 1 \in DOMAIN s /\ s[1] = Head(s)
  BY <1>1, <1>2
<1>6. ASSUME NEW y, Precedes(t, y, z) PROVE Precedes(s, y, z) /\ InOrder(s, Head(s), y, z)
  <2>1. PICK i, j \in DOMAIN t : i < j /\ t[i] = y /\ t[j] = z
    BY <1>6 DEF Precedes
  <2>2. /\ i + 1 \in DOMAIN s /\ j + 1 \in DOMAIN s /\ 1 < i + 1 /\ i + 1 < j + 1
        /\ s[i + 1] = y /\ s[j + 1] = z
    BY <1>3, <1>4, <2>1
  <2>3. QED  BY <1>5, <2>2 DEF Precedes, InOrder
<1>7. ASSUME NEW x, NEW y, InOrder(t, x, y, z) PROVE InOrder(s, x, y, z)
  <2>1. PICK i, j, k \in DOMAIN t : i < j /\ j < k /\ t[i] = x /\ t[j] = y /\ t[k] = z
    BY <1>7 DEF InOrder
  <2>2. /\ i + 1 \in DOMAIN s /\ j + 1 \in DOMAIN s /\ k + 1 \in DOMAIN s
        /\ i + 1 < j + 1 /\ j + 1 < k + 1 /\ s[i + 1] = x /\ s[j + 1] = y /\ s[k + 1] = z
    BY <1>3, <1>4, <2>1
  <2>3. QED  BY <2>2 DEF InOrder
<1>8. ASSUME z \in Range(t) PROVE Precedes(s, Head(s), z)
  <2>1. PICK i \in DOMAIN t : t[i] = z
    BY <1>8 DEF Range
  <2>2. QED  BY <1>3, <1>5, <2>1 DEF Precedes
<1>9. QED  BY <1>6, <1>7, <1>8 DEF t

\* What is in order is there.
LEMMA OrderFind ==
  ASSUME NEW s, NEW x, NEW y, NEW z
  PROVE  /\ Precedes(s, x, y) => x \in Range(s) /\ y \in Range(s)
         /\ InOrder(s, x, y, z) =>
              /\ x \in Range(s) /\ y \in Range(s) /\ z \in Range(s)
              /\ Precedes(s, x, y) /\ Precedes(s, y, z)
BY DEF Precedes, InOrder, Range

-----------------------------------------------------------------------------
(* The n-th element of a finite set of natural numbers *)

\* How many elements there are up to i.
Rank(K, i) == Cardinality({j \in K : j <= i})

\* The ranks of the elements are the numbers from 1 to the size of the set, in order.
LEMMA RankOrder ==
  ASSUME NEW K \in SUBSET Nat, IsFiniteSet(K)
  PROVE  /\ Cardinality(K) \in Nat
         /\ \A i \in K : Rank(K, i) \in 1..Cardinality(K)
         /\ \A i, j \in K : i < j <=> Rank(K, i) < Rank(K, j)
         /\ \A k \in 1..Cardinality(K) : \E i \in K : Rank(K, i) = k
<1> DEFINE n == Cardinality(K)
           Upto(i) == {j \in K : j <= i}
           f == [i \in K |-> Rank(K, i)]
<1>1. n \in Nat
  BY FS_CardinalityType
<1>2. ASSUME NEW i \in K
      PROVE  /\ i \in Nat /\ IsFiniteSet(Upto(i)) /\ Rank(K, i) = Cardinality(Upto(i))
             /\ Rank(K, i) \in 1..n /\ Rank(K, i) \in Nat
  <2>1. IsFiniteSet(Upto(i)) /\ Cardinality(Upto(i)) <= n
    BY FS_Subset
  <2>2. Cardinality(Upto(i)) \in Nat /\ Cardinality(Upto(i)) # 0
    <3>1. i \in Upto(i)
      OBVIOUS
    <3> HIDE DEF Upto
    <3> QED
      BY <2>1, <3>1, FS_EmptySet, FS_CardinalityType
  <2> QED
    BY <1>1, <2>1, <2>2 DEF Rank
<1>3. ASSUME NEW i \in K, NEW j \in K, i < j PROVE Rank(K, i) < Rank(K, j)
  <2>1. Upto(i) \in SUBSET Upto(j)
    <3>1. \A x \in K : x <= i => x <= j
      BY <1>3
    <3> QED
      BY <3>1, Zenon
  <2>2. Upto(i) # Upto(j)
    <3>1. ~(j <= i) /\ j <= j
      BY <1>3
    <3>2. j \in Upto(j) /\ j \notin Upto(i)
      BY <3>1
    <3> QED
      BY <3>2
  <2> HIDE DEF Upto
  <2>3. Cardinality(Upto(i)) <= Cardinality(Upto(j)) /\ Cardinality(Upto(i)) # Cardinality(Upto(j))
    BY <1>2, <2>1, <2>2, FS_Subset
  <2> HIDE DEF n
  <2> QED
    BY <1>1, <1>2, <2>3
<1>4. ASSUME NEW i \in K, NEW j \in K, Rank(K, i) < Rank(K, j) PROVE i < j
  <2> HIDE DEF n
  <2>1. Rank(K, i) \in Nat /\ Rank(K, j) \in Nat
    BY <1>2
  <2>2. i \in Nat /\ j \in Nat
    OBVIOUS
  <2>3. CASE j < i
    BY <1>3, <1>4, <2>1, <2>3
  <2>4. CASE i = j
    BY <1>4, <2>1, <2>4
  <2> QED
    BY <2>2, <2>3, <2>4
<1>5. f \in Injection(K, 1..n)
  <2>1. f \in [K -> 1..n]
    BY <1>2
  <2>2. ASSUME NEW i \in K, NEW j \in K, f[i] = f[j] PROVE i = j
    <3>1. Rank(K, i) = Rank(K, j)
      BY <2>2
    <3>2. Rank(K, i) \in Nat
      BY <1>2
    <3>3. ~(i < j) /\ ~(j < i)
      BY <1>3, <3>1, <3>2
    <3> QED
      BY <1>2, <3>3
  <2> QED
    BY <2>1, <2>2 DEF Injection, IsInjective
<1>6. f \in Surjection(K, 1..n)
  <2>1. IsFiniteSet(1..n) /\ Cardinality(1..n) = n
    BY <1>1, FS_Interval
  <2> HIDE DEF f
  <2> QED
    BY <1>5, <2>1, FS_Injection
<1>7. \A k \in 1..n : \E i \in K : Rank(K, i) = k
  BY <1>6 DEF Surjection
<1> QED
  BY <1>1, <1>2, <1>3, <1>4, <1>7

\* push_back puts its element behind all others.
LEMMA AppendOrder ==
  ASSUME NEW S, NEW s \in Seq(S), NEW e
  PROVE  /\ \A x, y : Precedes(s, x, y) => Precedes(Append(s, e), x, y)
         /\ \A x \in Range(s) : Precedes(Append(s, e), x, e)
         /\ \A x, y : Precedes(Append(s, e), x, y) =>
              Precedes(s, x, y) \/ (x \in Range(s) /\ y = e)
<1> DEFINE t == Append(s, e)
<1>1. /\ DOMAIN s = 1..Len(s) /\ DOMAIN t = 1..(Len(s) + 1) /\ Len(s) \in Nat
      /\ \A i \in 1..Len(s) : t[i] = s[i]
      /\ t[Len(s) + 1] = e
  OBVIOUS
<1> HIDE DEF t
<1>2. \A i \in DOMAIN s : i \in DOMAIN t /\ t[i] = s[i] /\ i < Len(s) + 1
  BY <1>1
<1>3. Len(s) + 1 \in DOMAIN t
  BY <1>1
<1>4. ASSUME NEW x, NEW y, Precedes(s, x, y) PROVE Precedes(t, x, y)
  BY <1>2, <1>4 DEF Precedes
<1>5. ASSUME NEW x \in Range(s) PROVE Precedes(t, x, e)
  BY <1>1, <1>2, <1>3, <1>5 DEF Precedes, Range
<1>6. ASSUME NEW x, NEW y, Precedes(t, x, y)
      PROVE  Precedes(s, x, y) \/ (x \in Range(s) /\ y = e)
  <2>1. PICK i, j \in DOMAIN t : i < j /\ t[i] = x /\ t[j] = y
    BY <1>6 DEF Precedes
  <2>2. i \in DOMAIN s /\ s[i] = x
    BY <1>1, <2>1
  <2>3. CASE j = Len(s) + 1
    BY <1>1, <2>1, <2>2, <2>3 DEF Range
  <2>4. CASE j # Len(s) + 1
    <3>1. j \in DOMAIN s /\ s[j] = y
      BY <1>1, <2>1, <2>4
    <3> QED
      BY <2>1, <2>2, <3>1 DEF Precedes
  <2> QED
    BY <2>3, <2>4
<1> QED
  BY <1>4, <1>5, <1>6 DEF t

\* What is counted is there, and the other way round.
LEMMA NoHits ==
  ASSUME NEW S, NEW s \in Seq(S), NEW T
  PROVE  Cardinality(Hits(s, T)) = 0 <=> \A e \in Range(s) : e \notin T
<1>1. Cardinality(Hits(s, T)) = 0 <=> Hits(s, T) = {}
  BY HitsFinite, FS_EmptySet
<1> QED
  BY <1>1 DEF Hits, Range
=============================================================================
