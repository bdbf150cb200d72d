-------------------------- MODULE PropertiesProofs --------------------------
(***************************************************************************)
(* Proofs about the two clients that mirror the server: the one of         *)
(* Properties, for any names and values, updates of any length and any     *)
(* number of calls, and the one of ObjectManager, for any objects,         *)
(* interfaces and values.  What a client knows when it has received        *)
(* everything is a fold over its messages, and the facts about folds that  *)
(* come first serve both.                                                  *)
(***************************************************************************)
EXTENDS Properties, ObjectManager, DataLemmas

-----------------------------------------------------------------------------
(* Folds: what FoldLeft computes for the operators of the two modules *)

\* One turn of a fold.
Turn(op, a, x) ==
  CASE op = "Apply"  -> Apply(a, x)
    [] op = "Assign" -> Assign(a, x)
    [] op = "Update" -> Update(a, x)
    [] op = "Follow" -> Follow(a, x)

\* The recursion of MapThenFoldSet, for the elements of s at the positions in u.
Folds(op, b, s, D, it) ==
  it = [u \in D |-> IF u = {} THEN b ELSE Turn(op, it[u \ {Max(u)}], s[Max(u)])]

\* What an accumulator c goes through, from b on.
Chain(op, b, s, c) ==
  c[0] = b /\ \A i \in 1..Len(s) : c[i] = Turn(op, c[i - 1], s[i])

\* A set of positions has a last one.
LEMMA LastPosition ==
  ASSUME NEW n \in Nat, NEW u \in SUBSET (1..n), u # {}
  PROVE  Max(u) \in u /\ \A i \in u : i <= Max(u)
<1> DEFINE T == {n - i : i \in u}
<1>1. T \in SUBSET Nat /\ T # {}
  <2>1. \A i \in u : i \in Nat /\ i <= n
    OBVIOUS
  <2>2. \A i \in u : n - i \in Nat
    BY <2>1
  <2> QED
    BY <2>2
<1>2. PICK t \in T : \A y \in T : t <= y
  BY <1>1, LeastNat
<1>3. PICK x \in u : t = n - x
  BY <1>2
<1>4. ASSUME NEW y \in u PROVE x >= y
  <2>0. n - y \in T
    OBVIOUS
  <2>1. x \in Nat /\ y \in Nat
    BY <1>3
  <2>2. n - x <= n - y
    BY <1>2, <1>3, <2>0
  <2> QED
    BY <2>1, <2>2
<1>5. \E z \in u : \A y \in u : z >= y
  BY <1>4
<1>6. Max(u) \in u /\ \A y \in u : Max(u) >= y
  BY <1>5 DEF Max
<1> QED
  BY <1>6

\* The last position of a prefix.
LEMMA LastOfPrefix ==
  ASSUME NEW k \in Nat, k # 0
  PROVE  Max(1..k) = k /\ (1..k) \ {Max(1..k)} = 1..(k - 1)
<1>1. 1..k \in SUBSET (1..k) /\ 1..k # {} /\ k \in 1..k
  OBVIOUS
<1>2. Max(1..k) \in 1..k /\ \A i \in 1..k : i <= Max(1..k)
  BY <1>1, LastPosition
<1>3. Max(1..k) = k
  BY <1>1, <1>2
<1> QED
  BY <1>3

\* The recursion is well founded: a function that satisfies it exists.
LEMMA FoldExists ==
  ASSUME NEW op, NEW b, NEW s, NEW n \in Nat
  PROVE  \E it : Folds(op, b, s, SUBSET (1..n), it)
<1> DEFINE Bad == {k \in Nat : ~ \E it : Folds(op, b, s, SUBSET (1..k), it)}
<1>1. 0 \notin Bad
  <2> DEFINE z == [u \in SUBSET (1..0) |-> b]
  <2>1. \A u \in SUBSET (1..0) : u = {}
    OBVIOUS
  <2>2. z = [u \in SUBSET (1..0) |-> IF u = {} THEN b ELSE Turn(op, z[u \ {Max(u)}], s[Max(u)])]
    BY <2>1
  <2> QED
    BY <2>2 DEF Folds
<1>2. ASSUME NEW k \in Nat, k \notin Bad PROVE k + 1 \notin Bad
  <2>1. PICK it : Folds(op, b, s, SUBSET (1..k), it)
    BY <1>2
  <2> DEFINE Step(f, u) == IF u = {} THEN b ELSE Turn(op, f[u \ {Max(u)}], s[Max(u)])
             more == [u \in SUBSET (1..(k + 1)) |-> Step(it, u)]
  <2>2. ASSUME NEW u \in SUBSET (1..(k + 1)), u # {} PROVE u \ {Max(u)} \in SUBSET (1..k)
    <3>1. k + 1 \in Nat
      OBVIOUS
    <3>2. Max(u) \in u /\ \A i \in u : i <= Max(u)
      BY <2>2, <3>1, LastPosition
    <3>3. ASSUME NEW i \in u \ {Max(u)} PROVE i \in 1..k
      <4>1. i \in 1..(k + 1) /\ Max(u) \in 1..(k + 1) /\ i <= Max(u) /\ i # Max(u)
        BY <3>2
      <4> QED
        BY <4>1
    <3> QED
      BY <3>3
  <2>3. SUBSET (1..k) \subseteq SUBSET (1..(k + 1))
    OBVIOUS
  <2>4. \A u \in SUBSET (1..k) : it[u] = Step(it, u)
    BY <2>1 DEF Folds
  <2>5. \A u \in SUBSET (1..k) : more[u] = it[u]
    BY <2>3, <2>4
  <2>6. \A u \in SUBSET (1..(k + 1)) : Step(it, u) = Step(more, u)
    BY <2>2, <2>5
  <2>7. more = [u \in SUBSET (1..(k + 1)) |-> Step(more, u)]
    BY <2>6
  <2>8. Folds(op, b, s, SUBSET (1..(k + 1)), more)
    BY <2>7 DEF Folds
  <2> QED
    BY <2>8
<1>3. Bad = {}
  <2> SUFFICES ASSUME Bad # {} PROVE FALSE
    OBVIOUS
  <2>1. PICK k \in Bad : \A j \in Bad : k <= j
    BY LeastNat
  <2>2. k \in Nat /\ k # 0
    BY <1>1
  <2>3. k - 1 \in Nat /\ (k - 1) + 1 = k /\ ~(k <= k - 1)
    BY <2>2
  <2>4. k - 1 \notin Bad
    BY <2>1, <2>3
  <2> HIDE DEF Bad
  <2> QED
    BY <1>2, <2>1, <2>3, <2>4
<1> QED
  BY <1>3

\* The values at the prefixes are what the accumulator goes through.
LEMMA FoldChain ==
  ASSUME NEW op, NEW b, NEW s, NEW it, Len(s) \in Nat,
         Folds(op, b, s, SUBSET (1..Len(s)), it)
  PROVE  \E c : Chain(op, b, s, c) /\ c[Len(s)] = it[1..Len(s)]
<1> DEFINE n == Len(s)
           c == [i \in 0..n |-> it[1..i]]
<1>1. \A u \in SUBSET (1..n) : it[u] = IF u = {} THEN b ELSE Turn(op, it[u \ {Max(u)}], s[Max(u)])
  BY DEF Folds
<1>2. c[0] = b
  <2>1. 1..0 = {} /\ {} \in SUBSET (1..n) /\ c[0] = it[1..0]
    OBVIOUS
  <2> QED
    BY <1>1, <2>1
<1>3. ASSUME NEW i \in 1..n PROVE c[i] = Turn(op, c[i - 1], s[i])
  <2>1. i \in Nat /\ i # 0 /\ i \in 0..n /\ i - 1 \in 0..n /\ 1..i \in SUBSET (1..n) /\ 1..i # {}
    OBVIOUS
  <2>2. Max(1..i) = i /\ (1..i) \ {Max(1..i)} = 1..(i - 1)
    BY <2>1, LastOfPrefix
  <2>3. it[1..i] = Turn(op, it[(1..i) \ {Max(1..i)}], s[Max(1..i)])
    BY <1>1, <2>1
  <2>4. c[i] = it[1..i] /\ c[i - 1] = it[1..(i - 1)]
    BY <2>1
  <2> HIDE DEF c
  <2> QED
    BY <2>2, <2>3, <2>4
<1>4. c[n] = it[1..n]
  OBVIOUS
<1> HIDE DEF c
<1> QED
  BY <1>2, <1>3, <1>4 DEF Chain

\* Two accumulators that start with the same and do the same n times.
Alike(op, c, d, s, t, n) ==
  /\ c[0] = d[0]
  /\ \A i \in 1..n : /\ c[i] = Turn(op, c[i - 1], s[i])
                     /\ d[i] = Turn(op, d[i - 1], t[i])
                     /\ s[i] = t[i]

\* They are the same.
LEMMA ChainUnique ==
  ASSUME NEW op, NEW c, NEW d, NEW s, NEW t, NEW n \in Nat, Alike(op, c, d, s, t, n)
  PROVE  \A i \in 0..n : c[i] = d[i]
<1> DEFINE Bad == {i \in 0..n : c[i] # d[i]}
<1> SUFFICES ASSUME Bad # {} PROVE FALSE
  OBVIOUS
<1>0. Bad \in SUBSET Nat
  OBVIOUS
<1>1. PICK i \in Bad : \A j \in Bad : i <= j
  BY <1>0, LeastNat
<1>2. i \in 1..n /\ i - 1 \in 0..n /\ i - 1 \notin Bad
  BY <1>1 DEF Alike
<1>3. c[i - 1] = d[i - 1]
  BY <1>2
<1>4. c[i] = d[i]
  BY <1>2, <1>3 DEF Alike
<1> QED
  BY <1>1, <1>4

\* FoldLeft of Apply.
LEMMA ApplyFold ==
  ASSUME NEW S, NEW s \in Seq(S), NEW b
  PROVE  \E c : Chain("Apply", b, s, c) /\ FoldLeft(Apply, b, s) = c[Len(s)]
<1>1. DOMAIN s = 1..Len(s) /\ Len(s) \in Nat
  BY LenProperties
<1> DEFINE fold == FoldLeft(Apply, b, s)
           F(it) == it = [u \in SUBSET (DOMAIN s) |->
                            IF u = {} THEN b ELSE Apply(it[u \ {Max(u)}], s[Max(u)])]
           it0 == CHOOSE it : F(it)
<1>2. fold = it0[DOMAIN s]
  BY DEF FoldLeft, MapThenFoldSet
<1>3. \A it : F(it) <=> Folds("Apply", b, s, SUBSET (1..Len(s)), it)
  BY <1>1 DEF Folds, Turn
<1>4. \E it : F(it)
  BY <1>1, <1>3, FoldExists
<1>5. F(it0)
  BY <1>4
<1> HIDE DEF F, it0, fold
<1>6. Folds("Apply", b, s, SUBSET (1..Len(s)), it0)
  BY <1>3, <1>5
<1>7. PICK c : Chain("Apply", b, s, c) /\ c[Len(s)] = it0[1..Len(s)]
  BY <1>1, <1>6, FoldChain
<1>8. Chain("Apply", b, s, c) /\ fold = c[Len(s)]
  BY <1>1, <1>2, <1>7
<1> QED
  BY <1>8 DEF fold

\* FoldLeft of Assign.
LEMMA AssignFold ==
  ASSUME NEW S, NEW s \in Seq(S), NEW b
  PROVE  \E c : Chain("Assign", b, s, c) /\ FoldLeft(Assign, b, s) = c[Len(s)]
<1>1. DOMAIN s = 1..Len(s) /\ Len(s) \in Nat
  BY LenProperties
<1> DEFINE fold == FoldLeft(Assign, b, s)
           F(it) == it = [u \in SUBSET (DOMAIN s) |->
                            IF u = {} THEN b ELSE Assign(it[u \ {Max(u)}], s[Max(u)])]
           it0 == CHOOSE it : F(it)
<1>2. fold = it0[DOMAIN s]
  BY DEF FoldLeft, MapThenFoldSet
<1>3. \A it : F(it) <=> Folds("Assign", b, s, SUBSET (1..Len(s)), it)
  BY <1>1 DEF Folds, Turn
<1>4. \E it : F(it)
  BY <1>1, <1>3, FoldExists
<1>5. F(it0)
  BY <1>4
<1> HIDE DEF F, it0, fold
<1>6. Folds("Assign", b, s, SUBSET (1..Len(s)), it0)
  BY <1>3, <1>5
<1>7. PICK c : Chain("Assign", b, s, c) /\ c[Len(s)] = it0[1..Len(s)]
  BY <1>1, <1>6, FoldChain
<1>8. Chain("Assign", b, s, c) /\ fold = c[Len(s)]
  BY <1>1, <1>2, <1>7
<1> QED
  BY <1>8 DEF fold

\* FoldLeft of Update.
LEMMA UpdateFold ==
  ASSUME NEW S, NEW s \in Seq(S), NEW b
  PROVE  \E c : Chain("Update", b, s, c) /\ FoldLeft(Update, b, s) = c[Len(s)]
<1>1. DOMAIN s = 1..Len(s) /\ Len(s) \in Nat
  BY LenProperties
<1> DEFINE fold == FoldLeft(Update, b, s)
           F(it) == it = [u \in SUBSET (DOMAIN s) |->
                            IF u = {} THEN b ELSE Update(it[u \ {Max(u)}], s[Max(u)])]
           it0 == CHOOSE it : F(it)
<1>2. fold = it0[DOMAIN s]
  BY DEF FoldLeft, MapThenFoldSet
<1>3. \A it : F(it) <=> Folds("Update", b, s, SUBSET (1..Len(s)), it)
  BY <1>1 DEF Folds, Turn
<1>4. \E it : F(it)
  BY <1>1, <1>3, FoldExists
<1>5. F(it0)
  BY <1>4
<1> HIDE DEF F, it0, fold
<1>6. Folds("Update", b, s, SUBSET (1..Len(s)), it0)
  BY <1>3, <1>5
<1>7. PICK c : Chain("Update", b, s, c) /\ c[Len(s)] = it0[1..Len(s)]
  BY <1>1, <1>6, FoldChain
<1>8. Chain("Update", b, s, c) /\ fold = c[Len(s)]
  BY <1>1, <1>2, <1>7
<1> QED
  BY <1>8 DEF fold

\* The three folds by name.
Assigned(b, s) == FoldLeft(Assign, b, s)
Updated(b, s) == FoldLeft(Update, b, s)
Applied(b, s) == FoldLeft(Apply, b, s)

\* Nothing is assigned.
LEMMA AssignedEmpty ==
  ASSUME NEW b
  PROVE  Assigned(b, <<>>) = b
<1>1. <<>> \in Seq({}) /\ Len(<<>>) = 0
  OBVIOUS
<1>2. PICK c : Chain("Assign", b, <<>>, c) /\ FoldLeft(Assign, b, <<>>) = c[Len(<<>>)]
  BY <1>1, AssignFold
<1> QED
  BY <1>1, <1>2 DEF Assigned, Chain

\* Assigned goes from left to right.
LEMMA AssignedAppend ==
  ASSUME NEW b, NEW S, NEW s \in Seq(S), NEW e \in S
  PROVE  Assigned(b, Append(s, e)) = Assign(Assigned(b, s), e)
<1> DEFINE t == Append(s, e)
           n == Len(s)
<1>1. /\ t \in Seq(S) /\ Len(t) = n + 1 /\ n \in Nat
      /\ (\A i \in 1..n : t[i] = s[i]) /\ t[n + 1] = e
  BY AppendProperties, LenProperties
<1> HIDE DEF t
<1>2. PICK c : Chain("Assign", b, s, c) /\ Assigned(b, s) = c[n]
  BY AssignFold DEF Assigned
<1>3. PICK d : Chain("Assign", b, t, d) /\ Assigned(b, t) = d[Len(t)]
  BY <1>1, AssignFold DEF Assigned
<1> HIDE DEF n
<1>4. c[0] = d[0] /\ Len(s) = n
  BY <1>2, <1>3 DEF Chain, n
<1>5. ASSUME NEW i \in 1..n
      PROVE  /\ c[i] = Turn("Assign", c[i - 1], s[i])
             /\ d[i] = Turn("Assign", d[i - 1], t[i])
             /\ s[i] = t[i]
  <2>1. i \in 1..Len(t) /\ i \in 1..Len(s)
    BY <1>1, <1>4
  <2> QED
    BY <1>1, <1>2, <1>3, <2>1 DEF Chain
<1>6. c[n] = d[n]
  <2>1. Alike("Assign", c, d, s, t, n)
    BY <1>4, <1>5 DEF Alike
  <2>2. \A i \in 0..n : c[i] = d[i]
    BY <1>1, <2>1, ChainUnique
  <2> QED
    BY <1>1, <2>2
<1>7. d[n + 1] = Turn("Assign", d[(n + 1) - 1], t[n + 1]) /\ (n + 1) - 1 = n
  BY <1>1, <1>3 DEF Chain
<1>8. Assigned(b, t) = Assign(Assigned(b, s), e)
  BY <1>1, <1>2, <1>3, <1>6, <1>7 DEF Turn
<1> QED
  BY <1>8 DEF t

\* The accumulator of Applied at every prefix.
LEMMA AppliedSteps ==
  ASSUME NEW S, NEW s \in Seq(S), NEW b
  PROVE  /\ Applied(b, SubSeq(s, 1, 0)) = b
         /\ \A i \in 1..Len(s) :
              Applied(b, SubSeq(s, 1, i)) = Apply(Applied(b, SubSeq(s, 1, i - 1)), s[i])
<1>1. Len(s) \in Nat
  BY LenProperties
<1>2. PICK c : Chain("Apply", b, s, c)
  BY ApplyFold
<1>3. ASSUME NEW n \in 0..Len(s) PROVE Applied(b, SubSeq(s, 1, n)) = c[n]
  <2> DEFINE t == SubSeq(s, 1, n)
  <2>1. t \in Seq(S) /\ Len(t) = n /\ \A i \in 1..n : t[i] = s[i]
    BY <1>1
  <2> HIDE DEF t
  <2>2. PICK d : Chain("Apply", b, t, d) /\ Applied(b, t) = d[Len(t)]
    BY <2>1, ApplyFold DEF Applied
  <2>3. c[0] = d[0] /\ n \in Nat
    BY <1>2, <2>2 DEF Chain
  <2>4. ASSUME NEW i \in 1..n
        PROVE  /\ c[i] = Turn("Apply", c[i - 1], s[i])
               /\ d[i] = Turn("Apply", d[i - 1], t[i])
               /\ s[i] = t[i]
    <3>1. i \in 1..Len(t) /\ i \in 1..Len(s)
      BY <1>1, <2>1, <2>3
    <3> QED
      BY <1>2, <2>1, <2>2, <3>1 DEF Chain
  <2>5. \A i \in 0..n : c[i] = d[i]
    <3>1. Alike("Apply", c, d, s, t, n)
      BY <2>3, <2>4 DEF Alike
    <3> QED
      BY <2>3, <3>1, ChainUnique
  <2>6. Applied(b, t) = c[n]
    BY <2>1, <2>2, <2>3, <2>5
  <2> QED
    BY <2>6 DEF t
<1>4. Applied(b, SubSeq(s, 1, 0)) = b
  BY <1>1, <1>2, <1>3 DEF Chain
<1>5. ASSUME NEW i \in 1..Len(s)
      PROVE  Applied(b, SubSeq(s, 1, i)) = Apply(Applied(b, SubSeq(s, 1, i - 1)), s[i])
  <2>1. i \in 0..Len(s) /\ i - 1 \in 0..Len(s)
    BY <1>1
  <2>2. c[i] = Apply(c[i - 1], s[i])
    BY <1>2 DEF Chain, Turn
  <2> QED
    BY <1>3, <2>1, <2>2
<1> QED
  BY <1>4, <1>5

\* A client that has received the first message believes the same one message earlier.
LEMMA AppliedTail ==
  ASSUME NEW S, NEW s \in Seq(S), NEW b, s # <<>>
  PROVE  \A i \in 0..(Len(s) - 1) :
           Applied(Apply(b, Head(s)), SubSeq(Tail(s), 1, i)) = Applied(b, SubSeq(s, 1, i + 1))
<1> DEFINE t == Tail(s)
           a == Apply(b, Head(s))
           n == Len(s) - 1
           c == [i \in 0..n |-> Applied(a, SubSeq(t, 1, i))]
           d == [i \in 0..n |-> Applied(b, SubSeq(s, 1, i + 1))]
           u == [i \in 1..n |-> s[i + 1]]
<1>1. /\ t \in Seq(S) /\ Len(t) = n /\ n \in Nat /\ Len(s) = n + 1
      /\ (\A i \in 1..n : t[i] = s[i + 1]) /\ Head(s) = s[1]
  <2>1. Len(s) \in Nat /\ Len(s) # 0
    BY LenProperties, EmptySeq
  <2> QED
    BY <2>1, HeadTailProperties
<1>2. /\ Applied(a, SubSeq(t, 1, 0)) = a
      /\ \A i \in 1..Len(t) : Applied(a, SubSeq(t, 1, i)) = Apply(Applied(a, SubSeq(t, 1, i - 1)), t[i])
  BY <1>1, AppliedSteps
<1>3. /\ Applied(b, SubSeq(s, 1, 0)) = b
      /\ \A i \in 1..Len(s) : Applied(b, SubSeq(s, 1, i)) = Apply(Applied(b, SubSeq(s, 1, i - 1)), s[i])
  BY AppliedSteps
<1> HIDE DEF t, a, n
<1>4. c[0] = d[0]
  <2>1. Applied(b, SubSeq(s, 1, 1)) = a
    <3>1. 1 \in 1..Len(s) /\ 1 - 1 = 0
      BY <1>1
    <3>2. Applied(b, SubSeq(s, 1, 1)) = Apply(Applied(b, SubSeq(s, 1, 1 - 1)), s[1])
      BY <1>3, <3>1
    <3> QED
      BY <1>1, <1>3, <3>1, <3>2 DEF a
  <2>2. 0 \in 0..n /\ 0 + 1 = 1
    BY <1>1
  <2>3. c[0] = a
    BY <1>2, <2>2
  <2>4. d[0] = Applied(b, SubSeq(s, 1, 0 + 1))
    BY <2>2
  <2> QED
    BY <2>1, <2>2, <2>3, <2>4
<1>5. ASSUME NEW i \in 1..n
      PROVE  /\ c[i] = Turn("Apply", c[i - 1], t[i])
             /\ d[i] = Turn("Apply", d[i - 1], u[i])
             /\ t[i] = u[i]
  <2>1. /\ i \in 0..n /\ i - 1 \in 0..n /\ (i - 1) + 1 = i /\ i + 1 \in 1..Len(s)
        /\ (i + 1) - 1 = i /\ i \in 1..Len(t)
    BY <1>1
  <2>2. c[i] = Applied(a, SubSeq(t, 1, i)) /\ c[i - 1] = Applied(a, SubSeq(t, 1, i - 1))
    BY <2>1
  <2>3. d[i] = Applied(b, SubSeq(s, 1, i + 1)) /\ d[i - 1] = Applied(b, SubSeq(s, 1, i))
    BY <2>1
  <2>4. u[i] = s[i + 1] /\ t[i] = s[i + 1]
    BY <1>1
  <2> HIDE DEF c, d, u
  <2>5. c[i] = Apply(c[i - 1], t[i])
    BY <1>2, <2>1, <2>2
  <2>6. Applied(b, SubSeq(s, 1, i + 1)) = Apply(Applied(b, SubSeq(s, 1, (i + 1) - 1)), s[i + 1])
    BY <1>3, <2>1
  <2>7. d[i] = Apply(d[i - 1], u[i])
    BY <2>1, <2>3, <2>4, <2>6
  <2> QED
    BY <2>4, <2>5, <2>7 DEF Turn
<1>6. \A i \in 0..n : c[i] = d[i]
  <2> HIDE DEF c, d, u
  <2>1. Alike("Apply", c, d, t, u, n)
    BY <1>4, <1>5 DEF Alike
  <2> QED
    BY <1>1, <2>1, ChainUnique
<1>7. ASSUME NEW i \in 0..n PROVE Applied(a, SubSeq(t, 1, i)) = Applied(b, SubSeq(s, 1, i + 1))
  BY <1>6
<1> QED
  BY <1>7 DEF a, t, n

\* The maps and messages.
Map == [Names -> Values \cup {Absent}]
Letter ==
  [do : {"PropertiesChanged"}, updates : Seq(Pair)]
    \cup [do : {"return"}, to : Request, value : Map \cup Values \cup {Absent}]
    \cup [do : {"error"}, to : Request]

TypesOfProperties ==
  properties_map \in Map /\ requests \in Seq(Request) /\ outbox \in Seq(Letter)

\* The inductive invariant.
AnnouncedInv == TypesOfProperties /\ MirrorCatchesUp /\ RepliesAgree

\* set_properties announces what turns the old map into the new one.
LEMMA UpdatesAnnounced ==
  ASSUME NEW pm \in Map, NEW v \in Seq(Pair), NEW after,
         after = Updated([map |-> pm, updates |-> <<>>], v)
  PROVE  /\ after.map \in Map /\ after.updates \in Seq(Pair)
         /\ Assigned(pm, after.updates) = after.map
         /\ \A p \in Pair : v = <<p>> => after.map[p.name] = p.value
<1> DEFINE Good(a) == /\ a.map \in Map /\ a.updates \in Seq(Pair)
                      /\ Assigned(pm, a.updates) = a.map
           b == [map |-> pm, updates |-> <<>>]
<1>1. Len(v) \in Nat /\ \A i \in 1..Len(v) : v[i] \in Pair
  BY LenProperties, ElementOfSeq
<1>2. PICK c : Chain("Update", b, v, c) /\ after = c[Len(v)]
  BY UpdateFold DEF Updated
<1>3. c[0] = b /\ \A i \in 1..Len(v) : c[i] = Update(c[i - 1], v[i])
  BY <1>2 DEF Chain, Turn
<1>4. Good(b)
  <2>1. b.map = pm /\ b.updates = <<>>
    OBVIOUS
  <2>2. Assigned(pm, <<>>) = pm
    BY AssignedEmpty
  <2> QED
    BY <2>1, <2>2
<1>5. ASSUME NEW a, NEW p \in Pair, Good(a)
      PROVE  Good(Update(a, p)) /\ Update(a, p).map[p.name] = p.value
  <2>1. p.name \in Names /\ p.value \in Values
    BY DEF Pair
  <2>2. CASE a.map[p.name] = p.value
    BY <1>5, <2>2 DEF Update
  <2>3. CASE a.map[p.name] # p.value
    <3> DEFINE m == [a.map EXCEPT ![p.name] = p.value]
               old == a.updates
               u == Append(old, p)
               x == [map |-> m, updates |-> u]
    <3>1. Update(a, p) = x
      BY <2>3 DEF Update
    <3>2. m \in Map /\ m[p.name] = p.value
      BY <1>5, <2>1 DEF Map
    <3>3. u \in Seq(Pair)
      BY <1>5
    <3>4. Assigned(pm, u) = Assign(Assigned(pm, old), p)
      <4>1. old \in Seq(Pair)
        BY <1>5
      <4> HIDE DEF old
      <4> QED
        BY <4>1, AssignedAppend
    <3>5. Assigned(pm, u) = m
      BY <1>5, <3>4 DEF Assign
    <3> HIDE DEF m, u
    <3>6. x.map = m /\ x.updates = u
      OBVIOUS
    <3> HIDE DEF x
    <3> QED
      BY <3>1, <3>2, <3>3, <3>5, <3>6
  <2> QED
    BY <2>2, <2>3
<1> HIDE DEF b, Good
<1>6. \A i \in 0..Len(v) : Good(c[i])
  <2> DEFINE Bad == {i \in 0..Len(v) : ~Good(c[i])}
  <2> SUFFICES ASSUME Bad # {} PROVE FALSE
    OBVIOUS
  <2>1. Bad \in SUBSET Nat
    BY <1>1
  <2>2. PICK i \in Bad : \A j \in Bad : i <= j
    BY <2>1, LeastNat
  <2>3. i \in 0..Len(v) /\ i # 0 /\ ~Good(c[i])
    BY <1>3, <1>4
  <2>4. i \in 1..Len(v) /\ i - 1 \in 0..Len(v) /\ ~(i <= i - 1)
    BY <1>1, <2>3
  <2>5. Good(c[i - 1])
    BY <2>2, <2>4
  <2> QED
    BY <1>1, <1>3, <1>5, <2>3, <2>4, <2>5
<1>7. Good(after)
  BY <1>1, <1>2, <1>6
<1>8. ASSUME NEW p \in Pair, v = <<p>> PROVE after.map[p.name] = p.value
  <2>1. Len(v) = 1 /\ v[1] = p /\ 1 \in 1..Len(v) /\ 1 - 1 = 0
    BY <1>8
  <2>2. after = Update(c[1 - 1], v[1])
    BY <1>2, <1>3, <2>1
  <2> QED
    BY <1>3, <1>4, <1>5, <2>1, <2>2
<1> QED
  BY <1>7, <1>8 DEF Good

\* FORCE announces what is stored, and nothing changes.
LEMMA ForcedSame ==
  ASSUME NEW pm \in Map, NEW v \in Seq(Pair),
         \A i \in DOMAIN v : pm[v[i].name] = v[i].value
  PROVE  Assigned(pm, v) = pm
<1>1. Len(v) \in Nat /\ DOMAIN v = 1..Len(v)
  BY LenProperties
<1>2. PICK c : Chain("Assign", pm, v, c) /\ Assigned(pm, v) = c[Len(v)]
  BY AssignFold DEF Assigned
<1>3. c[0] = pm /\ \A i \in 1..Len(v) : c[i] = [c[i - 1] EXCEPT ![v[i].name] = v[i].value]
  BY <1>2 DEF Chain, Turn, Assign
<1>4. \A i \in 1..Len(v) : pm = [pm EXCEPT ![v[i].name] = v[i].value]
  BY <1>1 DEF Map
<1>5. \A i \in 0..Len(v) : c[i] = pm
  <2> DEFINE Bad == {i \in 0..Len(v) : c[i] # pm}
  <2> SUFFICES ASSUME Bad # {} PROVE FALSE
    OBVIOUS
  <2>1. Bad \in SUBSET Nat
    BY <1>1
  <2>2. PICK i \in Bad : \A j \in Bad : i <= j
    BY <2>1, LeastNat
  <2>3. i \in 0..Len(v) /\ i # 0
    BY <1>3
  <2>4. i \in 1..Len(v) /\ i - 1 \in 0..Len(v) /\ ~(i <= i - 1)
    BY <1>1, <2>3
  <2>5. c[i - 1] = pm
    BY <2>2, <2>4
  <2>6. c[i] = [c[i - 1] EXCEPT ![v[i].name] = v[i].value]
    BY <1>3, <2>4
  <2>7. c[i] = pm
    BY <1>4, <2>4, <2>5, <2>6
  <2>8. c[i] # pm
    BY <2>2
  <2> QED
    BY <2>7, <2>8
<1> QED
  BY <1>1, <1>2, <1>5

-----------------------------------------------------------------------------
(* The client *)

\* MirrorCatchesUp and RepliesAgree of a client that believes mir and is to receive box.
Caught(mir, box, pm) == Applied(mir, SubSeq(box, 1, Len(box))) \in {Unknown, pm}
AllAgree(mir, box) ==
  \A i \in DOMAIN box : Agrees(box[i], Applied(mir, SubSeq(box, 1, i - 1)))

LEMMA ClientIs ==
  /\ MirrorCatchesUp <=> Caught(mirror, outbox, properties_map)
  /\ RepliesAgree <=> AllAgree(mirror, outbox)
  /\ MirrorCatchesUp' <=> Caught(mirror', outbox', properties_map')
  /\ RepliesAgree' <=> AllAgree(mirror', outbox')
BY DEF MirrorCatchesUp, RepliesAgree, Caught, AllAgree, Believed, Applied

\* A message is sent that says what is true, and tells of the change that was made.
LEMMA OneMore ==
  ASSUME NEW mir, NEW box \in Seq(Letter), NEW m \in Letter, NEW pm, NEW new,
         Caught(mir, box, pm), AllAgree(mir, box), Agrees(m, pm),
         \A b \in {Unknown, pm} : Apply(b, m) \in {Unknown, new}
  PROVE  Caught(mir, Append(box, m), new) /\ AllAgree(mir, Append(box, m))
<1> DEFINE n == Len(box)
           t == Append(box, m)
<1>1. /\ t \in Seq(Letter) /\ n \in Nat /\ Len(t) = n + 1 /\ DOMAIN t = 1..(n + 1)
      /\ (\A i \in 1..n : t[i] = box[i]) /\ t[n + 1] = m /\ DOMAIN box = 1..n
  BY AppendProperties, LenProperties
<1>2. ASSUME NEW i \in 0..n PROVE SubSeq(t, 1, i) = SubSeq(box, 1, i)
  BY <1>1
<1> HIDE DEF t
<1>3. Applied(mir, SubSeq(t, 1, n)) \in {Unknown, pm}
  <2>1. n \in 0..n
    BY <1>1
  <2> QED
    BY <1>2, <2>1 DEF Caught
<1>4. Applied(mir, SubSeq(t, 1, n + 1)) = Apply(Applied(mir, SubSeq(t, 1, n)), m)
  <2>1. \A i \in 1..Len(t) : Applied(mir, SubSeq(t, 1, i)) = Apply(Applied(mir, SubSeq(t, 1, i - 1)), t[i])
    BY <1>1, AppliedSteps
  <2>2. n + 1 \in 1..Len(t) /\ (n + 1) - 1 = n
    BY <1>1
  <2>3. Applied(mir, SubSeq(t, 1, n + 1)) = Apply(Applied(mir, SubSeq(t, 1, (n + 1) - 1)), t[n + 1])
    BY <2>1, <2>2
  <2> QED
    BY <1>1, <2>2, <2>3
<1>5. Caught(mir, t, new)
  BY <1>1, <1>3, <1>4 DEF Caught
<1>6. ASSUME NEW i \in DOMAIN t PROVE Agrees(t[i], Applied(mir, SubSeq(t, 1, i - 1)))
  <2>1. CASE i = n + 1
    <3>1. t[i] = m /\ i - 1 = n
      BY <1>1, <2>1
    <3>2. Agrees(m, Applied(mir, SubSeq(t, 1, n)))
      <4>1. CASE Applied(mir, SubSeq(t, 1, n)) = Unknown
        BY <4>1 DEF Agrees
      <4>2. CASE Applied(mir, SubSeq(t, 1, n)) = pm
        BY <4>2
      <4> QED
        BY <1>3, <4>1, <4>2
    <3> QED
      BY <3>1, <3>2
  <2>2. CASE i # n + 1
    <3>1. i \in DOMAIN box /\ i - 1 \in 0..n /\ t[i] = box[i]
      BY <1>1, <2>2
    <3>2. SubSeq(t, 1, i - 1) = SubSeq(box, 1, i - 1)
      BY <1>2, <3>1
    <3> QED
      BY <3>1, <3>2 DEF AllAgree
  <2> QED
    BY <2>1, <2>2
<1> QED
  BY <1>5, <1>6 DEF AllAgree, t

\* The oldest message is received.
LEMMA OneLess ==
  ASSUME NEW mir, NEW box \in Seq(Letter), NEW pm, box # <<>>,
         Caught(mir, box, pm), AllAgree(mir, box)
  PROVE  Caught(Apply(mir, Head(box)), Tail(box), pm) /\ AllAgree(Apply(mir, Head(box)), Tail(box))
<1> DEFINE n == Len(box) - 1
           t == Tail(box)
           a == Apply(mir, Head(box))
<1>1. /\ t \in Seq(Letter) /\ Len(t) = n /\ n \in Nat /\ Len(box) = n + 1
      /\ (\A i \in 1..n : t[i] = box[i + 1])
  <2>1. Len(box) \in Nat /\ Len(box) # 0
    BY LenProperties, EmptySeq
  <2> QED
    BY <2>1, HeadTailProperties
<1>2. DOMAIN t = 1..n /\ DOMAIN box = 1..(n + 1)
  BY <1>1, LenProperties
<1>3. \A i \in 0..n : Applied(a, SubSeq(t, 1, i)) = Applied(mir, SubSeq(box, 1, i + 1))
  BY AppliedTail
<1> HIDE DEF n, t, a
<1>4. Caught(a, t, pm)
  <2>1. n \in 0..n
    BY <1>1
  <2> QED
    BY <1>1, <1>3, <2>1 DEF Caught
<1>5. ASSUME NEW i \in DOMAIN t PROVE Agrees(t[i], Applied(a, SubSeq(t, 1, i - 1)))
  <2>1. i - 1 \in 0..n /\ (i - 1) + 1 = i /\ i + 1 \in DOMAIN box /\ (i + 1) - 1 = i /\ i \in 1..n
    BY <1>1, <1>2
  <2>2. Agrees(box[i + 1], Applied(mir, SubSeq(box, 1, (i + 1) - 1)))
    BY <2>1 DEF AllAgree
  <2> QED
    BY <1>1, <1>3, <2>1, <2>2
<1> QED
  BY <1>4, <1>5 DEF AllAgree, t, a

\* What PropertiesChanged does to a client.
LEMMA ChangedLetter ==
  ASSUME NEW u \in Seq(Pair), NEW pm
  PROVE  /\ Changed(u) \in Letter /\ Agrees(Changed(u), pm)
         /\ \A b \in {Unknown, pm} : Apply(b, Changed(u)) \in {Unknown, Assigned(pm, u)}
<1>1. Changed(u).do = "PropertiesChanged" /\ Changed(u).updates = u
  BY DEF Changed
<1>2. Changed(u) \in Letter
  BY DEF Changed, Letter
<1>3. Agrees(Changed(u), pm)
  BY <1>1 DEF Agrees
<1>4. ASSUME NEW b, b # Unknown PROVE Apply(b, Changed(u)) = Assigned(b, u)
  BY <1>1, <1>4 DEF Apply, Assigned
<1>5. Apply(Unknown, Changed(u)) = Unknown
  BY <1>1 DEF Apply
<1> QED
  BY <1>2, <1>3, <1>4, <1>5

\* What the methods send back agrees with the map.
LEMMA ReplyLetter ==
  ASSUME NEW pm \in Map, NEW r \in Request, NEW m,
         \/ ~r.found /\ m = Failed(r)
         \/ r.do = "Get" /\ m = Failed(r) /\ pm[r.name] = Absent
         \/ r.do = "Get" /\ m = Return(r, pm[r.name]) /\ pm[r.name] # Absent
         \/ r.do = "GetAll" /\ m = Return(r, pm)
         \/ r.do = "Set" /\ m = Return(r, Absent) /\ pm[r.name] = r.value
  PROVE  /\ m \in Letter /\ Agrees(m, pm)
         /\ \A b \in {Unknown, pm} : Apply(b, m) \in {Unknown, pm}
<1>1. ASSUME m = Failed(r) PROVE m.do = "error" /\ m.to = r /\ m \in Letter
  BY <1>1 DEF Failed, Letter
<1>2. ASSUME NEW v \in Map \cup Values \cup {Absent}, m = Return(r, v)
      PROVE  m.do = "return" /\ m.to = r /\ m.value = v /\ m \in Letter
  BY <1>2 DEF Return, Letter
<1>3. CASE m = Failed(r)
  <2>1. m.do = "error" /\ m.to = r /\ m \in Letter
    BY <1>1, <1>3
  <2>2. Failed(r) # Return(r, pm) /\ Failed(r) # Return(r, Absent) /\ \A v : Failed(r) # Return(r, v)
    <3>1. ASSUME NEW v PROVE Failed(r) # Return(r, v)
      <4>1. Failed(r).do = "error" /\ Return(r, v).do = "return"
        BY DEF Failed, Return
      <4> QED
        BY <4>1
    <3> QED
      BY <3>1
  <2>3. ~r.found \/ pm[r.name] = Absent
    BY <1>3, <2>2
  <2>4. Agrees(m, pm)
    BY <2>1, <2>3 DEF Agrees
  <2>5. \A b : Apply(b, m) = b
    BY <2>1 DEF Apply
  <2> QED
    BY <2>1, <2>4, <2>5
<1>4. CASE r.do = "Get" /\ m = Return(r, pm[r.name]) /\ pm[r.name] # Absent
  <2>1. r.name \in Names
    BY <1>4 DEF Request
  <2>2. pm[r.name] \in Map \cup Values \cup {Absent}
    BY <2>1 DEF Map
  <2>3. m.do = "return" /\ m.to = r /\ m.value = pm[r.name] /\ m \in Letter
    BY <1>2, <1>4, <2>2
  <2>4. Agrees(m, pm)
    BY <1>4, <2>3 DEF Agrees
  <2>5. \A b : Apply(b, m) = b
    BY <1>4, <2>3 DEF Apply
  <2> QED
    BY <2>3, <2>4, <2>5
<1>5. CASE r.do = "GetAll" /\ m = Return(r, pm)
  <2>1. m.do = "return" /\ m.to = r /\ m.value = pm /\ m \in Letter
    BY <1>2, <1>5
  <2>2. Agrees(m, pm)
    BY <1>5, <2>1 DEF Agrees
  <2>3. \A b : Apply(b, m) = pm
    BY <1>5, <2>1 DEF Apply
  <2> QED
    BY <2>1, <2>2, <2>3
<1>6. CASE r.do = "Set" /\ m = Return(r, Absent) /\ pm[r.name] = r.value
  <2>1. m.do = "return" /\ m.to = r /\ m \in Letter
    BY <1>2, <1>6
  <2>2. Agrees(m, pm)
    BY <1>6, <2>1 DEF Agrees
  <2>3. \A b : Apply(b, m) = b
    BY <1>6, <2>1 DEF Apply
  <2> QED
    BY <2>1, <2>2, <2>3
<1> QED
  BY <1>3, <1>4, <1>5, <1>6

\* Every step preserves the invariant, if only stored values are forced.
LEMMA NextAnnounced == ~ForceAny /\ AnnouncedInv /\ [Next]_vars => AnnouncedInv'
<1> SUFFICES ASSUME ~ForceAny, AnnouncedInv, [Next]_vars PROVE AnnouncedInv'
  OBVIOUS
<1>1. /\ properties_map \in Map /\ requests \in Seq(Request) /\ outbox \in Seq(Letter)
      /\ Caught(mirror, outbox, properties_map) /\ AllAgree(mirror, outbox)
  BY ClientIs DEF AnnouncedInv, TypesOfProperties
<1>2. ASSUME properties_map' \in Map, requests' \in Seq(Request), outbox' \in Seq(Letter),
             Caught(mirror', outbox', properties_map'), AllAgree(mirror', outbox')
      PROVE  AnnouncedInv'
  BY <1>2, ClientIs DEF AnnouncedInv, TypesOfProperties
<1>3. ASSUME NEW v \in UNION {[1..n -> Pair] : n \in 0..MaxUpdates}, NEW mode \in UpdateType,
             ApplicationSets(v, mode)
      PROVE  AnnouncedInv'
  <2>1. v \in Seq(Pair)
    <3>1. PICK n \in 0..MaxUpdates : v \in [1..n -> Pair]
      OBVIOUS
    <3>2. n \in Nat
      BY <3>1, PropertiesAssumption
    <3> QED
      BY <3>1, <3>2, SeqDef
  <2> DEFINE after == SetProperties(v, mode)
  <2>2. /\ properties_map' = after.map /\ outbox' = Append(outbox, Changed(after.updates))
        /\ requests' = requests /\ mirror' = mirror
    BY <1>3 DEF ApplicationSets
  <2>3. after.map \in Map /\ after.updates \in Seq(Pair) /\ Assigned(properties_map, after.updates) = after.map
    <3>1. CASE mode = "FORCE"
      <4>1. after.map = properties_map /\ after.updates = v
        BY <3>1 DEF SetProperties
      <4>2. \A i \in DOMAIN v : properties_map[v[i].name] = v[i].value
        BY <1>3, <3>1 DEF ApplicationSets
      <4>3. Assigned(properties_map, v) = properties_map
        BY <1>1, <2>1, <4>2, ForcedSame
      <4> QED
        BY <1>1, <2>1, <4>1, <4>3
    <3>2. CASE mode # "FORCE"
      <4>1. after = Updated([map |-> properties_map, updates |-> <<>>], v)
        BY <3>2 DEF SetProperties, Updated
      <4> QED
        BY <1>1, <2>1, <4>1, UpdatesAnnounced
    <3> QED
      BY <3>1, <3>2
  <2> DEFINE u == after.updates
             m == Changed(u)
  <2>4. /\ m \in Letter /\ Agrees(m, properties_map)
        /\ \A b \in {Unknown, properties_map} : Apply(b, m) \in {Unknown, after.map}
    BY <2>3, ChangedLetter
  <2>5. outbox' = Append(outbox, m)
    BY <2>2
  <2> HIDE DEF after, m
  <2>6. Caught(mirror, Append(outbox, m), after.map) /\ AllAgree(mirror, Append(outbox, m))
    BY <1>1, <2>4, OneMore
  <2>7. Append(outbox, m) \in Seq(Letter)
    BY <1>1, <2>4
  <2> QED
    BY <1>1, <1>2, <2>2, <2>3, <2>5, <2>6, <2>7
<1>4. ASSUME requests # <<>> PROVE Head(requests) \in Request /\ Tail(requests) \in Seq(Request)
  BY <1>1, <1>4
<1>5. ASSUME NEW m \in Letter, Agrees(m, properties_map),
             \A b \in {Unknown, properties_map} : Apply(b, m) \in {Unknown, properties_map},
             outbox' = Append(outbox, m), requests' \in Seq(Request),
             mirror' = mirror, properties_map' = properties_map
      PROVE  AnnouncedInv'
  <2>1. Caught(mirror, Append(outbox, m), properties_map) /\ AllAgree(mirror, Append(outbox, m))
    BY <1>1, <1>5, OneMore
  <2>2. Append(outbox, m) \in Seq(Letter)
    BY <1>1
  <2> QED
    BY <1>1, <1>2, <1>5, <2>1, <2>2
<1>6. CASE ServeGet
  <2> DEFINE r == Head(requests)
             m == IF r.do = "Get" THEN GetReply(r) ELSE Return(r, properties_map)
  <2>1. /\ requests # <<>> /\ r.do \in {"Get", "GetAll"}
        /\ outbox' = Append(outbox, m) /\ requests' = Tail(requests)
        /\ mirror' = mirror /\ properties_map' = properties_map
    BY <1>6 DEF ServeGet
  <2>2. r \in Request /\ requests' \in Seq(Request)
    BY <1>4, <2>1
  <2>3. \/ r.do = "Get" /\ m = Failed(r) /\ properties_map[r.name] = Absent
        \/ r.do = "Get" /\ m = Return(r, properties_map[r.name]) /\ properties_map[r.name] # Absent
        \/ r.do = "GetAll" /\ m = Return(r, properties_map)
    BY <2>1 DEF GetReply
  <2> HIDE DEF r, m
  <2>4. /\ m \in Letter /\ Agrees(m, properties_map)
        /\ \A b \in {Unknown, properties_map} : Apply(b, m) \in {Unknown, properties_map}
    BY <1>1, <2>2, <2>3, ReplyLetter
  <2> QED
    BY <1>5, <2>1, <2>2, <2>4
<1>7. CASE ServeNotFound
  <2> DEFINE r == Head(requests)
             m == Failed(r)
  <2>1. /\ requests # <<>> /\ ~r.found
        /\ outbox' = Append(outbox, m) /\ requests' = Tail(requests)
        /\ mirror' = mirror /\ properties_map' = properties_map
    BY <1>7 DEF ServeNotFound
  <2>2. r \in Request /\ requests' \in Seq(Request) /\ m = Failed(r)
    BY <1>4, <2>1
  <2> HIDE DEF r, m
  <2>3. /\ m \in Letter /\ Agrees(m, properties_map)
        /\ \A b \in {Unknown, properties_map} : Apply(b, m) \in {Unknown, properties_map}
    BY <1>1, <2>1, <2>2, ReplyLetter
  <2> QED
    BY <1>5, <2>1, <2>2, <2>3
<1>8. CASE ServeSet
  <2> DEFINE r == Head(requests)
             p == [name |-> r.name, value |-> r.value]
             after == SetProperties(<<p>>, "VALUE_CHANGE_ONLY")
             u == after.updates
             map == after.map
             m1 == Changed(u)
             m2 == Return(r, Absent)
             box == Append(outbox, m1)
  <2>1. /\ requests # <<>> /\ r.do = "Set" /\ requests' = Tail(requests) /\ mirror' = mirror
        /\ properties_map' = map /\ outbox' = outbox \o <<m1, m2>>
    BY <1>8 DEF ServeSet, SetAndReply
  <2>2. r \in Request /\ requests' \in Seq(Request)
    BY <1>4, <2>1
  <2>3. p \in Pair /\ p.name = r.name /\ p.value = r.value /\ <<p>> \in Seq(Pair)
    BY <2>1, <2>2 DEF Request, Pair
  <2>4. after = Updated([map |-> properties_map, updates |-> <<>>], <<p>>)
    BY DEF SetProperties, Updated
  <2> HIDE DEF after, p, r
  <2>5. /\ map \in Map /\ u \in Seq(Pair) /\ Assigned(properties_map, u) = map
        /\ map[r.name] = r.value
    BY <1>1, <2>3, <2>4, UpdatesAnnounced
  <2> HIDE DEF u, map
  <2>6. /\ m1 \in Letter /\ Agrees(m1, properties_map)
        /\ \A b \in {Unknown, properties_map} : Apply(b, m1) \in {Unknown, map}
    BY <2>5, ChangedLetter
  <2>7. /\ m2 \in Letter /\ Agrees(m2, map)
        /\ \A b \in {Unknown, map} : Apply(b, m2) \in {Unknown, map}
    BY <2>1, <2>2, <2>5, ReplyLetter
  <2> HIDE DEF m1, m2
  <2>8. Caught(mirror, box, map) /\ AllAgree(mirror, box) /\ box \in Seq(Letter)
    BY <1>1, <2>6, OneMore
  <2>9. outbox' = Append(box, m2)
    BY <1>1, <2>1, <2>6, <2>7
  <2> HIDE DEF box
  <2>10. Caught(mirror, Append(box, m2), map) /\ AllAgree(mirror, Append(box, m2))
    BY <2>7, <2>8, OneMore
  <2>11. Append(box, m2) \in Seq(Letter)
    BY <2>7, <2>8
  <2> QED
    BY <1>2, <2>1, <2>2, <2>5, <2>9, <2>10, <2>11
<1>9. ASSUME NEW r \in Request, ClientCalls(r) PROVE AnnouncedInv'
  <2>1. requests' = Append(requests, r) /\ properties_map' = properties_map /\ outbox' = outbox /\ mirror' = mirror
    BY <1>9 DEF ClientCalls
  <2> QED
    BY <1>1, <1>2, <2>1
<1>10. CASE ClientReceives
  <2>1. /\ outbox # <<>> /\ mirror' = Apply(mirror, Head(outbox)) /\ outbox' = Tail(outbox)
        /\ properties_map' = properties_map /\ requests' = requests
    BY <1>10 DEF ClientReceives
  <2>2. Tail(outbox) \in Seq(Letter)
    BY <1>1, <2>1
  <2>3. /\ Caught(Apply(mirror, Head(outbox)), Tail(outbox), properties_map)
        /\ AllAgree(Apply(mirror, Head(outbox)), Tail(outbox))
    BY <1>1, <2>1, OneLess
  <2> QED
    BY <1>1, <1>2, <2>1, <2>2, <2>3
<1>11. CASE UNCHANGED vars
  BY <1>1, <1>2, <1>11 DEF vars
<1> QED
  BY <1>3, <1>6, <1>7, <1>8, <1>9, <1>10, <1>11 DEF Next

\* In the initial state nothing is known and nothing is on its way.
LEMMA InitAnnounced == Init => AnnouncedInv
<1> SUFFICES ASSUME Init PROVE AnnouncedInv
  OBVIOUS
<1>1. TypesOfProperties
  BY DEF Init, TypesOfProperties, Map
<1>2. outbox = <<>> /\ mirror = Unknown /\ outbox \in Seq(Letter) /\ Len(outbox) = 0 /\ DOMAIN outbox = {}
  BY <1>1 DEF Init, TypesOfProperties
<1>3. Applied(mirror, SubSeq(outbox, 1, 0)) = mirror
  BY <1>2, AppliedSteps
<1>4. Caught(mirror, outbox, properties_map) /\ AllAgree(mirror, outbox)
  BY <1>2, <1>3 DEF Caught, AllAgree
<1> QED
  BY <1>1, <1>4, ClientIs DEF AnnouncedInv

\* A client that calls GetAll once and then listens has every property right when it has
\* caught up, for updates of any length, if the application forces only what is stored.
THEOREM MirrorCatchesUpAlways == ~ForceAny /\ Spec => []MirrorCatchesUp
<1>1. AnnouncedInv => MirrorCatchesUp
  BY DEF AnnouncedInv
<1>2. CASE ~ForceAny
  BY <1>1, <1>2, InitAnnounced, NextAnnounced, PTL DEF Spec
<1> QED
  BY <1>2

\* No reply of Get, GetAll or Set contradicts the signals that were sent before it.
THEOREM RepliesAgreeAlways == ~ForceAny /\ Spec => []RepliesAgree
<1>1. AnnouncedInv => RepliesAgree
  BY DEF AnnouncedInv
<1>2. CASE ~ForceAny
  BY <1>1, <1>2, InitAnnounced, NextAnnounced, PTL DEF Spec
<1> QED
  BY <1>2

-----------------------------------------------------------------------------
(* ObjectManager *)

\* FoldLeft of the client's Apply.
LEMMA FollowFold ==
  ASSUME NEW S, NEW s \in Seq(S), NEW b
  PROVE  \E c : Chain("Follow", b, s, c) /\ FoldLeft(Follow, b, s) = c[Len(s)]
<1>1. DOMAIN s = 1..Len(s) /\ Len(s) \in Nat
  BY LenProperties
<1> DEFINE fold == FoldLeft(Follow, b, s)
           F(it) == it = [u \in SUBSET (DOMAIN s) |->
                            IF u = {} THEN b ELSE Follow(it[u \ {Max(u)}], s[Max(u)])]
           it0 == CHOOSE it : F(it)
<1>2. fold = it0[DOMAIN s]
  BY DEF FoldLeft, MapThenFoldSet, Max
<1>3. \A it : F(it) <=> Folds("Follow", b, s, SUBSET (1..Len(s)), it)
  BY <1>1 DEF Folds, Turn
<1>4. \E it : F(it)
  BY <1>1, <1>3, FoldExists
<1>5. F(it0)
  BY <1>4
<1> HIDE DEF F, it0, fold
<1>6. Folds("Follow", b, s, SUBSET (1..Len(s)), it0)
  BY <1>3, <1>5
<1>7. PICK c : Chain("Follow", b, s, c) /\ c[Len(s)] = it0[1..Len(s)]
  BY <1>1, <1>6, FoldChain
<1>8. Chain("Follow", b, s, c) /\ fold = c[Len(s)]
  BY <1>1, <1>2, <1>7
<1> QED
  BY <1>8 DEF fold

\* What a client that knows b will know when it has received s.
Followed(b, s) == FoldLeft(Follow, b, s)

\* Nothing is on its way.
LEMMA FollowedEmpty ==
  ASSUME NEW b
  PROVE  Followed(b, <<>>) = b
<1>1. <<>> \in Seq({}) /\ Len(<<>>) = 0
  OBVIOUS
<1>2. PICK c : Chain("Follow", b, <<>>, c) /\ Followed(b, <<>>) = c[Len(<<>>)]
  BY <1>1, FollowFold DEF Followed
<1> QED
  BY <1>1, <1>2 DEF Chain

\* One more message is sent.
LEMMA FollowedAppend ==
  ASSUME NEW b, NEW S, NEW s \in Seq(S), NEW e \in S
  PROVE  Followed(b, Append(s, e)) = Follow(Followed(b, s), e)
<1> DEFINE t == Append(s, e)
           n == Len(s)
<1>1. /\ t \in Seq(S) /\ Len(t) = n + 1 /\ n \in Nat
      /\ (\A i \in 1..n : t[i] = s[i]) /\ t[n + 1] = e
  BY AppendProperties, LenProperties
<1> HIDE DEF t
<1>2. PICK c : Chain("Follow", b, s, c) /\ Followed(b, s) = c[n]
  BY FollowFold DEF Followed
<1>3. PICK d : Chain("Follow", b, t, d) /\ Followed(b, t) = d[Len(t)]
  BY <1>1, FollowFold DEF Followed
<1> HIDE DEF n
<1>4. c[0] = d[0] /\ Len(s) = n
  BY <1>2, <1>3 DEF Chain, n
<1>5. Alike("Follow", c, d, s, t, n)
  <2>1. \A i \in 1..n : i \in 1..Len(t) /\ i \in 1..Len(s)
    BY <1>1, <1>4
  <2> QED
    BY <1>1, <1>2, <1>3, <1>4, <2>1 DEF Chain, Alike
<1>6. c[n] = d[n]
  <2>1. \A i \in 0..n : c[i] = d[i]
    BY <1>1, <1>5, ChainUnique
  <2> QED
    BY <1>1, <2>1
<1>7. d[n + 1] = Turn("Follow", d[(n + 1) - 1], t[n + 1]) /\ (n + 1) - 1 = n
  BY <1>1, <1>3 DEF Chain
<1>8. Followed(b, t) = Follow(Followed(b, s), e)
  BY <1>1, <1>2, <1>3, <1>6, <1>7 DEF Turn
<1> QED
  BY <1>8 DEF t

\* The oldest message is received.
LEMMA FollowedTail ==
  ASSUME NEW b, NEW S, NEW s \in Seq(S), s # <<>>
  PROVE  Followed(Follow(b, Head(s)), Tail(s)) = Followed(b, s)
<1> DEFINE t == Tail(s)
           a == Follow(b, Head(s))
           n == Len(s) - 1
<1>1. /\ t \in Seq(S) /\ Len(t) = n /\ n \in Nat /\ Len(s) = n + 1
      /\ (\A i \in 1..n : t[i] = s[i + 1]) /\ Head(s) = s[1]
  <2>1. Len(s) \in Nat /\ Len(s) # 0
    BY LenProperties, EmptySeq
  <2> QED
    BY <2>1, HeadTailProperties
<1>2. PICK c : Chain("Follow", b, s, c) /\ Followed(b, s) = c[Len(s)]
  BY FollowFold DEF Followed
<1> HIDE DEF t
<1>3. PICK d : Chain("Follow", a, t, d) /\ Followed(a, t) = d[Len(t)]
  BY <1>1, FollowFold DEF Followed
<1> HIDE DEF n
<1> DEFINE e == [i \in 0..n |-> c[i + 1]]
           u == [i \in 1..n |-> s[i + 1]]
<1>4. d[0] = e[0]
  <2>1. 1 \in 1..Len(s) /\ 1 - 1 = 0 /\ 0 + 1 = 1 /\ 0 \in 0..n
    BY <1>1
  <2>2. c[1] = Turn("Follow", c[0], s[1]) /\ c[0] = b
    BY <1>2, <2>1 DEF Chain
  <2>3. c[1] = a
    BY <1>1, <2>2 DEF Turn
  <2>4. e[0] = c[1]
    BY <2>1
  <2> QED
    BY <1>3, <2>3, <2>4 DEF Chain
<1>5. ASSUME NEW i \in 1..n
      PROVE  /\ d[i] = Turn("Follow", d[i - 1], t[i])
             /\ e[i] = Turn("Follow", e[i - 1], u[i])
             /\ t[i] = u[i]
  <2>1. /\ i \in 1..Len(t) /\ i + 1 \in 1..Len(s) /\ (i + 1) - 1 = i /\ (i - 1) + 1 = i
        /\ i \in 0..n /\ i - 1 \in 0..n
    BY <1>1
  <2>2. c[i + 1] = Turn("Follow", c[(i + 1) - 1], s[i + 1])
    BY <1>2, <2>1 DEF Chain
  <2>3. e[i] = c[i + 1] /\ e[i - 1] = c[i] /\ u[i] = s[i + 1]
    BY <2>1
  <2> HIDE DEF e, u
  <2>4. d[i] = Turn("Follow", d[i - 1], t[i])
    BY <1>3, <2>1 DEF Chain
  <2> QED
    BY <1>1, <2>1, <2>2, <2>3, <2>4
<1>6. d[n] = e[n]
  <2> HIDE DEF e, u
  <2>1. Alike("Follow", d, e, t, u, n)
    BY <1>4, <1>5 DEF Alike
  <2>2. \A i \in 0..n : d[i] = e[i]
    BY <1>1, <2>1, ChainUnique
  <2> QED
    BY <1>1, <2>2
<1>7. e[n] = c[n + 1]
  BY <1>1
<1>8. Followed(a, t) = Followed(b, s)
  BY <1>1, <1>2, <1>3, <1>6, <1>7
<1> QED
  BY <1>8 DEF t

\* What a client may know of an interface, and what it may be sent.
Info == {<<>>} \cup {<<v>> : v \in Values \cup {Absent}}
View == [Objects -> [Interfaces -> Info]]
Signal == {"InterfacesAdded", "PropertiesChanged"}
Post ==
  [do : Signal, from : Objects, type : PathTypes, object : Objects, interface : Interfaces,
   known : Info]
    \cup [do : {"return"}, managed : View]

\* The types of the variables, and of what the client will know.
TypesOfManager ==
  /\ constructed \in SUBSET Objects /\ objects \in Seq(Objects)
  /\ interfaces \in [Objects -> [Interfaces -> Instances \cup {Absent}]]
  /\ object_name \in [Instances -> Objects \cup {Absent}]
  /\ value \in [Instances -> Values \cup {Absent}]
  /\ endpoint \in Objects \cup {Absent}
  /\ client \in [type : PathTypes, paths : SUBSET Objects]
  /\ speaker \in [Objects -> [Interfaces -> Instances \cup {Absent}]]
  /\ outbox \in Seq(Post) /\ CaughtUp \in View

\* An interface is in its place, and only an object that exists has one.  What is said of
\* an interface is said by an instance of its name.
InPlace ==
  /\ \A o \in Objects, i \in Interfaces :
       /\ interfaces[o][i] # Absent => Name[interfaces[o][i]] = i /\ o \in constructed
       /\ speaker[o][i] # Absent => Name[speaker[o][i]] = i
  /\ constructed # {} => endpoint # Absent

\* A client that has not subscribed will know nothing.
NotYet == phase = "new" => CaughtUp = NothingKnown

\* A client that has subscribed and hears InterfacesAdded will know of every interface,
\* unless its object existed before and GetManagedObjects has not listed it.
Told ==
  (phase # "new" /\ HearsAdded) =>
    \A o \in Objects \ overlooked, i \in Interfaces :
      interfaces[o][i] # Absent => CaughtUp[o][i] # <<>>

\* The inductive invariant.
ManagerInv == TypesOfManager /\ InPlace /\ NotYet /\ Told /\ MirrorIsRight

\* What the client will know changes only when something is sent.
LEMMA KnowsMore ==
  ASSUME TypesOfManager, NEW m \in Post, outbox' = Append(outbox, m), mirror' = mirror
  PROVE  outbox' \in Seq(Post) /\ CaughtUp' = Follow(CaughtUp, m)
<1>1. outbox \in Seq(Post) /\ Append(outbox, m) \in Seq(Post)
  BY DEF TypesOfManager
<1>2. Followed(mirror, Append(outbox, m)) = Follow(Followed(mirror, outbox), m)
  BY <1>1, FollowedAppend
<1>3. CaughtUp = Followed(mirror, outbox) /\ CaughtUp' = Followed(mirror', outbox')
  BY DEF CaughtUp, Followed
<1> QED
  BY <1>1, <1>2, <1>3

LEMMA KnowsSame ==
  ASSUME TypesOfManager, Receive \/ UNCHANGED <<outbox, mirror>>
  PROVE  outbox' \in Seq(Post) /\ CaughtUp' = CaughtUp
<1>1. CaughtUp = Followed(mirror, outbox) /\ CaughtUp' = Followed(mirror', outbox')
  BY DEF CaughtUp, Followed
<1>2. outbox \in Seq(Post)
  BY DEF TypesOfManager
<1>3. CASE UNCHANGED <<outbox, mirror>>
  BY <1>1, <1>2, <1>3
<1>4. CASE Receive
  <2>1. outbox # <<>> /\ mirror' = Follow(mirror, Head(outbox)) /\ outbox' = Tail(outbox)
    BY <1>4 DEF Receive
  <2>2. Followed(Follow(mirror, Head(outbox)), Tail(outbox)) = Followed(mirror, outbox)
    BY <1>2, <2>1, FollowedTail
  <2>3. Tail(outbox) \in Seq(Post)
    BY <1>2, <2>1
  <2> QED
    BY <1>1, <2>1, <2>2, <2>3
<1> QED
  BY <1>3, <1>4

\* What a signal and the answer do to the client, interface by interface.
LEMMA Learns ==
  ASSUME NEW view \in View, NEW m \in Post, NEW new, new = Follow(view, m)
  PROVE  /\ new \in View
         /\ m.do \in Signal =>
              /\ new[m.object][m.interface] =
                   IF m.do = "PropertiesChanged" /\ (view[m.object][m.interface] = <<>> \/ m.known = <<>>)
                     THEN view[m.object][m.interface] ELSE m.known
              /\ \A o \in Objects, i \in Interfaces :
                   <<o, i>> # <<m.object, m.interface>> => new[o][i] = view[o][i]
         /\ m.do = "return" =>
              \A o \in Objects, i \in Interfaces :
                new[o][i] = IF m.managed[o][i] = <<>> THEN view[o][i] ELSE m.managed[o][i]
<1>1. CASE m.do = "return"
  <2>1. m.managed \in View
    BY <1>1 DEF Post, Signal
  <2>2. new = [o \in Objects |-> [i \in Interfaces |->
                 IF m.managed[o][i] = <<>> THEN view[o][i] ELSE m.managed[o][i]]]
    BY <1>1 DEF Follow
  <2> QED
    BY <1>1, <2>1, <2>2 DEF View, Signal
<1>2. CASE m.do \in Signal
  <2>1. m.object \in Objects /\ m.interface \in Interfaces /\ m.known \in Info
    BY <1>2 DEF Post, Signal
  <2>2. CASE m.do = "InterfacesAdded"
    <3>1. new = [view EXCEPT ![m.object][m.interface] = m.known]
      BY <2>2 DEF Follow
    <3> QED
      BY <2>1, <2>2, <3>1 DEF View
  <2>3. CASE m.do = "PropertiesChanged"
    <3>1. new = [view EXCEPT ![m.object][m.interface] = IF @ = <<>> \/ m.known = <<>> THEN @ ELSE m.known]
      BY <2>3 DEF Follow
    <3> QED
      BY <2>1, <2>3, <3>1 DEF View
  <2> QED
    BY <1>2, <2>2, <2>3 DEF Signal
<1> QED
  BY <1>1, <1>2 DEF Post

\* In the initial state the client knows nothing and nothing is on its way.
LEMMA InitManager == ManagerInit => ManagerInv
<1> SUFFICES ASSUME ManagerInit PROVE ManagerInv
  OBVIOUS
<1>1. CaughtUp = NothingKnown
  <2>1. mirror = NothingKnown /\ outbox = <<>>
    BY DEF ManagerInit
  <2> QED
    BY <2>1, FollowedEmpty DEF CaughtUp, Followed
<1>2. NothingKnown \in View
  BY DEF NothingKnown, View, Info
<1>3. TypesOfManager
  BY <1>1, <1>2 DEF ManagerInit, TypesOfManager
<1>4. \A o \in Objects, i \in Interfaces : interfaces[o][i] = Absent /\ speaker[o][i] = Absent
  BY DEF ManagerInit
<1>5. \A o \in client.paths : o \in Objects
  BY <1>3 DEF TypesOfManager
<1> QED
  BY <1>1, <1>3, <1>4, <1>5 DEF ManagerInit, ManagerInv, InPlace, NotYet, Told, MirrorIsRight

\* register_interface and its InterfacesAdded.
LEMMA RegisterInterfaceInv ==
  ASSUME ManagerInv, NEW o \in Objects, NEW x \in Instances,
         RegisterInterface(o, x)
  PROVE  ManagerInv'
<1> DEFINE m == Added(o, x)
           i == Name[x]
           heard == Heard(m)
<1>1. /\ TypesOfManager /\ i \in Interfaces /\ x # Absent /\ o \in constructed
      /\ endpoint \in Objects /\ \A p \in client.paths : p \in Objects
  BY ManagerAssumption DEF ManagerInv, InPlace, TypesOfManager, RegisterInterface
<1>2. /\ interfaces' = [interfaces EXCEPT ![o][i] = x]
      /\ object_name' = [object_name EXCEPT ![x] = o]
      /\ UNCHANGED <<constructed, objects, value, endpoint, client, phase, mirror, overlooked>>
      /\ outbox' = IF heard THEN Append(outbox, m) ELSE outbox
      /\ speaker' = [speaker EXCEPT ![o][i] = IF heard THEN x ELSE Absent]
  BY DEF RegisterInterface, EmitInterfacesAdded, Emit
<1>3. /\ m \in Post /\ m.do = "InterfacesAdded" /\ m.object = o /\ m.interface = i
      /\ m.known = <<value[x]>> /\ m.from = endpoint /\ m.type = "s"
  <2>1. <<value[x]>> \in Info
    BY <1>1 DEF TypesOfManager, Info
  <2> QED
    BY <1>1, <2>1 DEF Added, Post, Signal, PathTypes
<1>4. heard <=> (phase # "new" /\ HearsAdded)
  BY <1>3 DEF Heard, HearsAdded
<1> HIDE DEF m, heard
<1>5. /\ \A p \in Objects, j \in Interfaces :
           /\ interfaces'[p][j] = IF p = o /\ j = i THEN x ELSE interfaces[p][j]
           /\ speaker'[p][j] = IF p = o /\ j = i THEN (IF heard THEN x ELSE Absent) ELSE speaker[p][j]
      /\ \A y \in Instances : object_name'[y] = IF y = x THEN o ELSE object_name[y]
  BY <1>1, <1>2 DEF TypesOfManager
<1>6. /\ interfaces' \in [Objects -> [Interfaces -> Instances \cup {Absent}]]
      /\ speaker' \in [Objects -> [Interfaces -> Instances \cup {Absent}]]
      /\ object_name' \in [Instances -> Objects \cup {Absent}]
  BY <1>1, <1>2 DEF TypesOfManager
<1>7. InPlace'
  BY <1>1, <1>2, <1>5 DEF ManagerInv, InPlace
\* The other interfaces.
<1>8. ASSUME NEW p \in client.paths, NEW j \in Interfaces, ~(p = o /\ j = i),
             CaughtUp[p][j] # <<>>, speaker'[p][j] # Absent, object_name'[speaker'[p][j]] = p
      PROVE  CaughtUp[p][j] = <<value'[speaker'[p][j]]>>
  <2>1. PICK y : y = speaker'[p][j]
    OBVIOUS
  <2>2. y = speaker[p][j] /\ y \in Instances /\ Name[y] = j
    BY <1>1, <1>5, <1>6, <1>7, <1>8, <2>1 DEF InPlace
  <2>3. y # x
    BY <1>5, <1>8, <2>1, <2>2
  <2> QED
    BY <1>2, <1>5, <1>8, <2>1, <2>2, <2>3 DEF ManagerInv, MirrorIsRight
<1>9. CASE ~heard
  <2>1. outbox' \in Seq(Post) /\ CaughtUp' = CaughtUp
    BY <1>1, <1>2, <1>9, KnowsSame
  <2>2. TypesOfManager'
    BY <1>1, <1>2, <1>6, <2>1 DEF TypesOfManager
  <2>3. NotYet'
    BY <1>2, <2>1 DEF ManagerInv, NotYet, NothingKnown
  <2>4. Told'
    BY <1>2, <1>4, <1>9 DEF Told, HearsAdded
  <2>5. MirrorIsRight'
    <3> SUFFICES ASSUME NEW p \in client.paths, NEW j \in Interfaces,
                        CaughtUp[p][j] # <<>>, speaker'[p][j] # Absent, object_name'[speaker'[p][j]] = p
                 PROVE  CaughtUp[p][j] = <<value'[speaker'[p][j]]>>
      BY <1>2, <2>1 DEF MirrorIsRight
    <3>1. ~(p = o /\ j = i)
      BY <1>1, <1>5, <1>9
    <3> QED
      BY <1>8, <3>1
  <2> QED
    BY <1>7, <2>2, <2>3, <2>4, <2>5 DEF ManagerInv
<1>10. CASE heard
  <2>1. outbox' \in Seq(Post) /\ CaughtUp' = Follow(CaughtUp, m)
    BY <1>1, <1>2, <1>3, <1>10, KnowsMore
  <2>2. /\ CaughtUp' \in View /\ CaughtUp'[o][i] = <<value[x]>>
        /\ \A p \in Objects, j \in Interfaces :
             <<p, j>> # <<o, i>> => CaughtUp'[p][j] = CaughtUp[p][j]
    <3>1. CaughtUp \in View
      BY <1>1 DEF TypesOfManager
    <3> QED
      BY <1>3, <2>1, <3>1, Learns DEF Signal
  <2>3. TypesOfManager'
    BY <1>1, <1>2, <1>6, <2>1, <2>2 DEF TypesOfManager
  <2>4. Told'
    <3> SUFFICES ASSUME NEW p \in Objects \ overlooked, NEW j \in Interfaces, interfaces'[p][j] # Absent
                 PROVE  CaughtUp'[p][j] # <<>>
      BY <1>2 DEF Told
    <3>1. CASE p = o /\ j = i
      BY <2>2, <3>1
    <3>2. CASE ~(p = o /\ j = i)
      BY <1>4, <1>5, <1>10, <2>2, <3>2 DEF ManagerInv, Told
    <3> QED
      BY <3>1, <3>2
  <2>5. MirrorIsRight'
    <3> SUFFICES ASSUME NEW p \in client.paths, NEW j \in Interfaces,
                        CaughtUp'[p][j] # <<>>, speaker'[p][j] # Absent, object_name'[speaker'[p][j]] = p
                 PROVE  CaughtUp'[p][j] = <<value'[speaker'[p][j]]>>
      BY <1>2 DEF MirrorIsRight
    <3>1. p \in Objects
      BY <1>1
    <3>2. CASE p = o /\ j = i
      BY <1>2, <1>5, <1>10, <2>2, <3>1, <3>2
    <3>3. CASE ~(p = o /\ j = i)
      <4>1. CaughtUp'[p][j] = CaughtUp[p][j]
        BY <2>2, <3>1, <3>3
      <4> QED
        BY <1>8, <3>3, <4>1
    <3> QED
      BY <3>2, <3>3
  <2> QED
    BY <1>2, <1>4, <1>7, <1>10, <2>3, <2>4, <2>5 DEF ManagerInv, NotYet
<1> QED
  BY <1>9, <1>10

\* set_property and its PropertiesChanged.
LEMMA SetPropertyInv ==
  ASSUME ManagerInv, NEW x \in Instances, NEW v \in Values,
         SetProperty(x, v)
  PROVE  ManagerInv'
<1> DEFINE m == PropertyChanged(x, IF value[x] = v THEN <<>> ELSE <<v>>)
           i == Name[x]
           o == object_name[x]
           heard == o # Absent /\ Heard(m)
<1>1. /\ TypesOfManager /\ i \in Interfaces /\ o \in Objects \cup {Absent} /\ x # Absent
      /\ \A p \in client.paths : p \in Objects /\ p # Absent
  BY ManagerAssumption DEF ManagerInv, TypesOfManager
<1>2. m.do = "PropertiesChanged" /\ m.from = o /\ m.object = o /\ m.interface = i
      /\ m.type = "o" /\ m.known = IF value[x] = v THEN <<>> ELSE <<v>>
  BY DEF PropertyChanged
<1>3. /\ value' = [value EXCEPT ![x] = v]
      /\ UNCHANGED <<constructed, objects, interfaces, object_name, endpoint, client, phase,
                     mirror, overlooked>>
      /\ outbox' = IF heard THEN Append(outbox, m) ELSE outbox
      /\ speaker' = IF heard /\ m.known # <<>> THEN [speaker EXCEPT ![o][i] = x] ELSE speaker
  BY DEF SetProperty, Emit
<1>4. /\ value' \in [Instances -> Values \cup {Absent}]
      /\ value'[x] = v /\ \A y \in Instances : y # x => value'[y] = value[y]
  BY <1>1, <1>3 DEF TypesOfManager
<1>5. heard <=> (phase # "new" /\ o \in client.paths)
  BY <1>1, <1>2 DEF Heard
<1> HIDE DEF m, o, i, heard
<1>6. m.known = <<>> <=> value[x] = v
  BY <1>2
<1>7. ASSUME NEW p \in client.paths, NEW j \in Interfaces, speaker[p][j] # Absent,
             object_name[speaker[p][j]] = p
      PROVE  /\ speaker[p][j] \in Instances
             /\ speaker[p][j] = x => p = o /\ j = i
             /\ CaughtUp[p][j] # <<>> => CaughtUp[p][j] = <<value[speaker[p][j]]>>
  BY <1>1, <1>7 DEF TypesOfManager, ManagerInv, InPlace, MirrorIsRight, o, i
<1>8. CASE ~heard
  <2>1. outbox' \in Seq(Post) /\ CaughtUp' = CaughtUp /\ speaker' = speaker
    BY <1>1, <1>3, <1>8, KnowsSame
  <2>2. TypesOfManager'
    BY <1>1, <1>3, <1>4, <2>1 DEF TypesOfManager
  <2>3. InPlace' /\ NotYet' /\ Told'
    BY <1>3, <2>1 DEF ManagerInv, InPlace, NotYet, NothingKnown, Told, HearsAdded
  <2>4. MirrorIsRight'
    <3> SUFFICES ASSUME NEW p \in client.paths, NEW j \in Interfaces,
                        CaughtUp[p][j] # <<>>, speaker[p][j] # Absent, object_name[speaker[p][j]] = p
                 PROVE  CaughtUp[p][j] = <<value'[speaker[p][j]]>>
      BY <1>3, <2>1 DEF MirrorIsRight
    <3>1. phase # "new"
      BY <1>1 DEF ManagerInv, NotYet, NothingKnown
    <3>2. speaker[p][j] # x
      BY <1>5, <1>7, <1>8, <3>1
    <3> QED
      BY <1>4, <1>7, <3>2
  <2> QED
    BY <2>2, <2>3, <2>4 DEF ManagerInv
<1>9. CASE heard
  <2>1. o \in Objects /\ m \in Post
    <3>1. (IF value[x] = v THEN <<>> ELSE <<v>>) \in Info
      BY DEF Info
    <3>2. o \in Objects
      BY <1>1, <1>5, <1>9
    <3> QED
      BY <1>1, <3>1, <3>2 DEF PropertyChanged, Post, Signal, PathTypes, m, o, i
  <2>2. outbox' \in Seq(Post) /\ CaughtUp' = Follow(CaughtUp, m)
    BY <1>1, <1>3, <1>9, <2>1, KnowsMore
  <2>3. /\ CaughtUp' \in View
        /\ CaughtUp'[o][i] = IF CaughtUp[o][i] = <<>> \/ value[x] = v
                                       THEN CaughtUp[o][i] ELSE <<v>>
        /\ \A p \in Objects, j \in Interfaces :
             <<p, j>> # <<o, i>> => CaughtUp'[p][j] = CaughtUp[p][j]
    <3>1. CaughtUp \in View
      BY <1>1 DEF TypesOfManager
    <3>2. m \in Post /\ m.do \in Signal
      BY <1>2, <2>1 DEF Signal
    <3> DEFINE old == CaughtUp
               new == CaughtUp'
    <3> HIDE DEF old, new
    <3>3. /\ new \in View
          /\ new[m.object][m.interface] =
               IF m.do = "PropertiesChanged" /\ (old[m.object][m.interface] = <<>> \/ m.known = <<>>)
                 THEN old[m.object][m.interface] ELSE m.known
          /\ \A p \in Objects, j \in Interfaces :
               <<p, j>> # <<m.object, m.interface>> => new[p][j] = old[p][j]
      <4>1. old \in View /\ new = Follow(old, m)
        BY <2>2, <3>1 DEF old, new
      <4> QED
        BY <3>2, <4>1, Learns
    <3>4. new[o][i] = IF old[o][i] = <<>> \/ value[x] = v THEN old[o][i] ELSE <<v>>
      BY <1>2, <1>6, <3>3
    <3> QED
      BY <1>2, <3>3, <3>4 DEF old, new
  <2>4. /\ speaker' \in [Objects -> [Interfaces -> Instances \cup {Absent}]]
        /\ \A p \in Objects, j \in Interfaces :
             speaker'[p][j] = IF value[x] # v /\ p = o /\ j = i THEN x ELSE speaker[p][j]
    BY <1>1, <1>3, <1>6, <1>9, <2>1 DEF TypesOfManager
  <2>5. TypesOfManager'
    BY <1>1, <1>3, <1>4, <2>2, <2>3, <2>4 DEF TypesOfManager
  <2>6. InPlace'
    BY <1>3, <2>4 DEF ManagerInv, InPlace, i
  <2>7. Told'
    <3> SUFFICES ASSUME HearsAdded, phase # "new",
                        NEW p \in Objects \ overlooked, NEW j \in Interfaces, interfaces[p][j] # Absent
                 PROVE  CaughtUp'[p][j] # <<>>
      BY <1>3 DEF Told, HearsAdded
    <3>1. CaughtUp[p][j] # <<>>
      BY DEF ManagerInv, Told
    <3>2. <<v>> # <<>>
      OBVIOUS
    <3> QED
      BY <2>3, <3>1, <3>2
  <2>8. MirrorIsRight'
    <3> SUFFICES ASSUME NEW p \in client.paths, NEW j \in Interfaces,
                        CaughtUp'[p][j] # <<>>, speaker'[p][j] # Absent, object_name[speaker'[p][j]] = p
                 PROVE  CaughtUp'[p][j] = <<value'[speaker'[p][j]]>>
      BY <1>3 DEF MirrorIsRight
    <3>1. p \in Objects
      BY <1>1
    <3>2. CASE p = o /\ j = i /\ value[x] # v
      BY <1>4, <2>3, <2>4, <3>1, <3>2
    <3>3. CASE p = o /\ j = i /\ value[x] = v
      <4>1. speaker'[p][j] = speaker[p][j] /\ CaughtUp'[p][j] = CaughtUp[p][j]
        BY <2>3, <2>4, <3>1, <3>3
      <4>2. \A y \in Instances : value'[y] = value[y]
        BY <1>4, <3>3
      <4> QED
        BY <1>7, <4>1, <4>2
    <3>4. CASE ~(p = o /\ j = i)
      <4>1. speaker'[p][j] = speaker[p][j] /\ CaughtUp'[p][j] = CaughtUp[p][j]
        BY <2>3, <2>4, <3>1, <3>4
      <4>2. speaker[p][j] # x /\ speaker[p][j] \in Instances
        BY <1>7, <3>4, <4>1
      <4> QED
        BY <1>4, <1>7, <4>1, <4>2
    <3> QED
      BY <3>2, <3>3, <3>4
  <2> QED
    BY <1>3, <1>5, <1>9, <2>5, <2>6, <2>7, <2>8 DEF ManagerInv, NotYet
<1> QED
  BY <1>8, <1>9

\* The answer to GetManagedObjects.
LEMMA AnswerInv ==
  ASSUME ManagerInv, Answer
  PROVE  ManagerInv'
<1> DEFINE m == [do |-> "return", managed |-> Managed]
<1>1. TypesOfManager /\ CaughtUp \in View
  BY DEF ManagerInv, TypesOfManager
<1>2. /\ phase = "asked" /\ phase' = "answered" /\ outbox' = Append(outbox, m)
      /\ overlooked' = overlooked \ Range(objects)
      /\ speaker' = [o \in Objects |-> IF o \in Range(objects) THEN interfaces[o] ELSE speaker[o]]
      /\ UNCHANGED <<constructed, objects, interfaces, object_name, value, endpoint, client, mirror>>
  BY DEF Answer, server, Range
<1>3. /\ \A o \in Objects, i \in Interfaces :
           Managed[o][i] =
             IF o \notin Range(objects) \/ interfaces[o][i] = Absent THEN <<>>
             ELSE <<value[interfaces[o][i]]>>
      /\ Managed \in View
  <2>1. Managed =
          [o \in Objects |-> [i \in Interfaces |->
             IF o \notin Range(objects) \/ interfaces[o][i] = Absent THEN <<>>
             ELSE <<value[interfaces[o][i]]>>]]
    BY DEF Managed, Range
  <2>2. \A o \in Objects, i \in Interfaces :
          (IF o \notin Range(objects) \/ interfaces[o][i] = Absent THEN <<>>
           ELSE <<value[interfaces[o][i]]>>) \in Info
    BY <1>1 DEF TypesOfManager, Info
  <2> QED
    BY <2>1, <2>2 DEF View
<1>4. m \in Post /\ m.do = "return" /\ m.managed = Managed
  BY <1>3 DEF Post
<1> HIDE DEF m
<1>5. outbox' \in Seq(Post) /\ CaughtUp' = Follow(CaughtUp, m)
  BY <1>1, <1>2, <1>4, KnowsMore
<1>6. /\ CaughtUp' \in View
      /\ \A o \in Objects, i \in Interfaces :
           CaughtUp'[o][i] = IF Managed[o][i] = <<>> THEN CaughtUp[o][i]
                                     ELSE Managed[o][i]
  BY <1>1, <1>4, <1>5, Learns
<1>7. TypesOfManager' /\ \A a : <<a>> # <<>>
  <2>1. speaker' \in [Objects -> [Interfaces -> Instances \cup {Absent}]]
    BY <1>1, <1>2 DEF TypesOfManager
  <2> QED
    BY <1>1, <1>2, <1>5, <1>6, <2>1 DEF TypesOfManager
<1>8. InPlace'
  BY <1>2 DEF ManagerInv, InPlace
<1> DEFINE managed == Managed
           old == CaughtUp
           new == CaughtUp'
<1>9. ASSUME NEW o \in Objects, NEW i \in Interfaces, interfaces[o][i] # Absent \/ o \notin Range(objects)
      PROVE  new[o][i] = IF o \in Range(objects) THEN <<value[interfaces[o][i]]>> ELSE old[o][i]
  <2>1. /\ managed[o][i] = IF o \notin Range(objects) THEN <<>> ELSE <<value[interfaces[o][i]]>>
        /\ new[o][i] = IF managed[o][i] = <<>> THEN old[o][i] ELSE managed[o][i]
    BY <1>9, <1>3, <1>6
  <2> HIDE DEF managed, old, new
  <2> QED
    BY <1>7, <2>1
<1>10. Told'
  <2> SUFFICES ASSUME HearsAdded, NEW o \in Objects, o \notin overlooked \/ o \in Range(objects),
                      NEW i \in Interfaces, interfaces[o][i] # Absent
               PROVE  CaughtUp'[o][i] # <<>>
    BY <1>2 DEF Told, HearsAdded
  <2>1. CASE o \in Range(objects)
    BY <1>9, <1>7, <2>1
  <2>2. CASE o \notin Range(objects)
    BY <1>9, <1>2, <2>2 DEF ManagerInv, Told
  <2> QED
    BY <2>1, <2>2
<1>11. MirrorIsRight'
  <2> SUFFICES ASSUME NEW o \in client.paths, NEW i \in Interfaces,
                      CaughtUp'[o][i] # <<>>, speaker'[o][i] # Absent, object_name[speaker'[o][i]] = o
               PROVE  CaughtUp'[o][i] = <<value[speaker'[o][i]]>>
    BY <1>2 DEF MirrorIsRight
  <2>1. o \in Objects
    BY <1>1 DEF TypesOfManager
  <2>2. CASE o \in Range(objects)
    <3>1. speaker'[o][i] = interfaces[o][i]
      BY <1>2, <2>1, <2>2
    <3> QED
      BY <1>9, <2>1, <2>2, <3>1
  <2>3. CASE o \notin Range(objects)
    <3>1. speaker'[o][i] = speaker[o][i] /\ CaughtUp'[o][i] = CaughtUp[o][i]
      BY <1>2, <1>9, <2>1, <2>3
    <3> QED
      BY <3>1 DEF ManagerInv, MirrorIsRight
  <2> QED
    BY <2>2, <2>3
<1> QED
  BY <1>2, <1>7, <1>8, <1>10, <1>11 DEF ManagerInv, NotYet

\* The steps that tell the client nothing.
LEMMA QuietInv ==
  ASSUME ManagerInv, outbox' \in Seq(Post), CaughtUp' = CaughtUp,
         UNCHANGED <<interfaces, object_name, value, client, speaker>>,
         endpoint' \in Objects \cup {Absent}, endpoint # Absent => endpoint' = endpoint,
         constructed' # {} => endpoint' # Absent,
         constructed' \in SUBSET Objects, constructed \subseteq constructed', objects' \in Seq(Objects),
         phase' = "new" => phase = "new",
         phase # "new" => overlooked' = overlooked,
         phase = "new" /\ phase' # "new" => overlooked' = constructed
  PROVE  ManagerInv'
<1>1. TypesOfManager'
  BY DEF ManagerInv, TypesOfManager
<1>2. InPlace'
  BY DEF ManagerInv, InPlace
<1>3. NotYet'
  BY DEF ManagerInv, NotYet, NothingKnown
<1>4. Told'
  <2> SUFFICES ASSUME phase' # "new", HearsAdded', NEW o \in Objects \ overlooked',
                      NEW i \in Interfaces, interfaces[o][i] # Absent
               PROVE  CaughtUp[o][i] # <<>>
    BY DEF Told
  <2>1. o \in constructed /\ endpoint # Absent
    BY DEF ManagerInv, InPlace
  <2>2. HearsAdded
    BY <2>1 DEF HearsAdded
  <2> QED
    BY <2>1, <2>2 DEF ManagerInv, Told
<1>5. MirrorIsRight'
  BY DEF ManagerInv, MirrorIsRight
<1> QED
  BY <1>1, <1>2, <1>3, <1>4, <1>5 DEF ManagerInv

\* Every step preserves the invariant.
LEMMA NextManager == ManagerInv /\ [ManagerNext]_managerVars => ManagerInv'
<1> SUFFICES ASSUME ManagerInv, [ManagerNext]_managerVars
             PROVE  ManagerInv'
  OBVIOUS
<1>1. /\ TypesOfManager /\ constructed \in SUBSET Objects /\ objects \in Seq(Objects)
      /\ endpoint \in Objects \cup {Absent} /\ (constructed # {} => endpoint # Absent)
      /\ Absent \notin Objects
  BY ManagerAssumption DEF ManagerInv, TypesOfManager, InPlace
<1>2. ASSUME UNCHANGED <<outbox, mirror>>
      PROVE  outbox' \in Seq(Post) /\ CaughtUp' = CaughtUp
  BY <1>1, <1>2, KnowsSame
<1>3. ASSUME NEW o \in Objects, Construct(o) PROVE ManagerInv'
  BY <1>1, <1>2, <1>3, QuietInv DEF Construct, Endpoint
<1>4. ASSUME NEW o \in Objects, RegisterObject(o) PROVE ManagerInv'
  <2>1. objects' = Append(objects, o) /\ objects' \in Seq(Objects)
    BY <1>1, <1>4 DEF RegisterObject, Listed
  <2> QED
    BY <1>1, <1>2, <1>4, <2>1, QuietInv DEF RegisterObject
<1>5. ASSUME NEW o \in Objects, NEW x \in Instances, RegisterInterface(o, x) PROVE ManagerInv'
  BY <1>5, RegisterInterfaceInv
<1>6. ASSUME NEW x \in Instances, NEW v \in Values, SetProperty(x, v) PROVE ManagerInv'
  BY <1>6, SetPropertyInv
<1>7. CASE Answer
  BY <1>7, AnswerInv
<1>8. CASE Subscribe
  BY <1>1, <1>2, <1>8, QuietInv DEF Subscribe, server
<1>9. CASE Ask
  BY <1>1, <1>2, <1>9, QuietInv DEF Ask, server
<1>10. CASE Receive
  <2>1. outbox' \in Seq(Post) /\ CaughtUp' = CaughtUp
    BY <1>1, <1>10, KnowsSame
  <2> QED
    BY <1>1, <1>10, <2>1, QuietInv DEF Receive, server
<1>11. CASE UNCHANGED managerVars
  BY <1>1, <1>2, <1>11, QuietInv DEF managerVars, server
<1> QED
  BY <1>3, <1>4, <1>5, <1>6, <1>7, <1>8, <1>9, <1>10, <1>11 DEF ManagerNext

\* For the objects a client has match rules for, what it knows of an interface is right when
\* it has caught up: the value of the instance it was last told of, as long as that one still
\* speaks for the object.  This holds in whatever order objects are constructed and
\* registered, interfaces registered and replaced, and values set (also of instances that
\* are not registered yet or were replaced), before or after the client subscribes, asks
\* and is answered.
THEOREM MirrorIsRightAlways == ManagerSpec => []MirrorIsRight
<1>1. ManagerInv => MirrorIsRight
  BY DEF ManagerInv
<1> QED
  BY <1>1, InitManager, NextManager, PTL DEF ManagerSpec

\* A client that hears InterfacesAdded (which takes the path as a string and comes from the
\* path of the object constructed first) and has been answered misses no interface of a
\* registered object, except for objects that existed when it subscribed and were
\* registered after the answer.
THEOREM NothingMissedAlways == ManagerSpec => []NothingMissed
<1>1. ManagerInv => NothingMissed
  <2> SUFFICES ASSUME ManagerInv, phase = "answered", HearsAdded,
                      NEW o \in Range(objects) \ overlooked, NEW i \in Interfaces,
                      interfaces[o][i] # Absent
               PROVE  CaughtUp[o][i] # <<>>
    BY DEF NothingMissed, Range
  <2>1. o \in Objects
    BY DEF ManagerInv, TypesOfManager, Range
  <2> QED
    BY <2>1 DEF ManagerInv, Told
<1> QED
  BY <1>1, InitManager, NextManager, PTL DEF ManagerSpec
=============================================================================
