---------------------------- MODULE FiltersProofs ---------------------------
(***************************************************************************)
(* Proofs about Filters for any number of filters, messages and handlers.  *)
(***************************************************************************)
EXTENDS Filters, DataLemmas

Closure == [handler : Handlers, message : Messages]
Posting == [filter : Filter, closure : Closure]

\* The types of the variables.
TypesOfFilters ==
  /\ chain \in Seq(Filter) /\ rest \in Seq(Filter) /\ born \in Seq(Filter)
  /\ disposed \in SUBSET Filter
  /\ current \in Messages \cup {Nothing}
  /\ messages \in [Filter -> Seq(Messages)] /\ pushed \in [Filter -> Seq(Messages)]
  /\ handlers \in [Filter -> Seq(Handlers)] /\ popped \in [Filter -> Seq(Handlers)]
  /\ io \in Seq(Posting) /\ invoked \in [Filter -> Seq(Closure)]
  /\ before \in [Messages -> SUBSET Filter] /\ asked \in [Messages -> SUBSET Filter]

\* A list that has no filter twice and has them in the order of their construction.
Aged(s) == (\A f : Once(s, f)) /\ (\A f, g : Precedes(s, f, g) => Older(f, g))

\* The lists of libdbus: the filters that exist, and those a message that is being
\* dispatched is still to be offered to, oldest first.
Chained ==
  /\ Aged(born) /\ Aged(chain) /\ Aged(rest)
  /\ disposed \subseteq Range(born)
  /\ Range(chain) = Range(born) \ disposed
  /\ Range(rest) \subseteq Range(chain)
  /\ current = Nothing <=> rest = <<>>

\* A message is with nobody until a filter takes it.
NotTakenYet ==
  /\ \A m \in Messages : before[m] = {} => Takers(m) = {}
  /\ current # Nothing =>
       /\ before[current] # {} /\ Takers(current) = {}
       /\ Range(rest) \subseteq before[current]
       /\ before[current] \subseteq asked[current] \cup disposed \cup Range(rest)

\* The inductive invariant of the dispatch.
DispatchInv == TypesOfFilters /\ Chained /\ NotTakenYet /\ OldestTakes

\* What a queue holds when ps have been pushed and qs registered: the messages ms that
\* no handler has been registered for, or the handlers hs for which no message has come.
Waits(ms, hs, ps, qs) ==
  /\ ms = <<>> \/ hs = <<>>
  /\ Len(qs) + Len(ms) = Len(ps) + Len(hs)
  /\ \A k \in DOMAIN ms : ms[k] = ps[Len(qs) + k]
  /\ \A k \in DOMAIN hs : hs[k] = qs[Len(ps) + k]

\* The closures such a queue promises.
Pairs(ps, qs) ==
  {[handler |-> qs[i], message |-> ps[i]] : i \in DOMAIN ps \cap DOMAIN qs}

\* The closures of filter f that have been posted and have not run.
Posted(f) == {c \in Closure : [filter |-> f, closure |-> c] \in Range(io)}

\* The queue of a filter: nothing has happened to it before the filter is constructed,
\* and every closure, posted or run, is a pair of the filter, and none is both.
PairsOf(f) ==
  /\ f \notin Range(born) =>
       pushed[f] = <<>> /\ popped[f] = <<>> /\ messages[f] = <<>> /\ handlers[f] = <<>>
  /\ f \in Range(chain) => Waits(messages[f], handlers[f], pushed[f], popped[f])
  /\ Posted(f) \subseteq Pairs(pushed[f], popped[f]) \ Range(invoked[f])
  /\ Range(invoked[f]) \subseteq Pairs(pushed[f], popped[f])

\* The inductive invariant of the queues.
PairsInv == DispatchInv /\ (\A p : Once(io, p)) /\ \A f \in Filter : PairsOf(f)

-----------------------------------------------------------------------------
(* The lists of libdbus *)

\* Taking a filter out of a list leaves the others in their order.
LEMMA WithoutKeeps ==
  ASSUME NEW s \in Seq(Filter), NEW f, Once(s, f)
  PROVE  /\ Without(s, f) \in Seq(Filter)
         /\ Range(Without(s, f)) = Range(s) \ {f}
         /\ \A x : Once(s, x) => Once(Without(s, f), x)
         /\ \A x, y : Precedes(Without(s, f), x, y) => Precedes(s, x, y)
         /\ (s # <<>> /\ Head(s) # f) => Without(s, f) # <<>>
         /\ s = <<>> => Without(s, f) = <<>>
<1>1. CASE f \notin Range(s)
  BY <1>1 DEF Without
<1>2. CASE f \in Range(s)
  <2> DEFINE n == Len(s)
             k == CHOOSE i \in DOMAIN s : s[i] = f
             w == RemoveAt(s, k)
             from(i) == IF i < k THEN i ELSE i + 1
  <2>1. DOMAIN s = 1..n /\ n \in Nat /\ \A i \in DOMAIN s : s[i] \in Filter
    BY LenProperties, ElementOfSeq
  <2>2. k \in 1..n /\ s[k] = f
    BY <1>2, <2>1 DEF Range
  <2>3. \A i \in DOMAIN s : s[i] = f => i = k
    BY <2>1, <2>2 DEF Once
  <2> HIDE DEF k, n
  <2>4. /\ w \in Seq(Filter) /\ Len(w) = n - 1 /\ DOMAIN w = 1..(n - 1)
        /\ \A i \in 1..(n - 1) : w[i] = s[from(i)]
    <3> DEFINE a == SubSeq(s, 1, k - 1)
               b == SubSeq(s, k + 1, Len(s))
    <3>1. /\ a \in Seq(Filter) /\ Len(a) = k - 1 /\ \A i \in 1..(k - 1) : a[i] = s[i]
      BY <2>1, <2>2 DEF n
    <3>2. /\ b \in Seq(Filter) /\ Len(b) = n - k /\ \A i \in 1..(n - k) : b[i] = s[k + i]
      <4>1. k + 1 \in 1..(Len(s) + 1) /\ Len(s) \in ((k + 1) - 1)..Len(s) /\ k \in Nat
        BY <2>1, <2>2 DEF n
      <4>2. /\ b \in Seq(Filter) /\ Len(b) = Len(s) - (k + 1) + 1
            /\ \A i \in 1..(Len(s) - (k + 1) + 1) : b[i] = s[(k + 1) + i - 1]
        BY <4>1, SubSeqProperties
      <4>3. Len(s) - (k + 1) + 1 = n - k /\ \A i \in 1..(n - k) : (k + 1) + i - 1 = k + i
        BY <2>1, <4>1 DEF n
      <4> HIDE DEF b
      <4> QED
        BY <4>2, <4>3
    <3>3. w = a \o b
      BY DEF RemoveAt
    <3> HIDE DEF a, b, w
    <3>4. /\ w \in Seq(Filter) /\ Len(w) = Len(a) + Len(b)
          /\ \A i \in 1..(Len(a) + Len(b)) : w[i] = IF i <= Len(a) THEN a[i] ELSE b[i - Len(a)]
      BY <3>1, <3>2, <3>3, ConcatProperties
    <3>5. ASSUME NEW i \in 1..(n - 1) PROVE w[i] = s[from(i)]
      <4>1. CASE i < k
        BY <2>1, <2>2, <3>1, <3>2, <3>4, <4>1
      <4>2. CASE ~(i < k)
        <5>1. w[i] = b[i - (k - 1)] /\ i - (k - 1) \in 1..(n - k)
          BY <2>1, <2>2, <3>1, <3>2, <3>4, <4>2
        <5>2. b[i - (k - 1)] = s[k + (i - (k - 1))] /\ k + (i - (k - 1)) = i + 1
          BY <2>1, <2>2, <3>2, <5>1
        <5> QED
          BY <4>2, <5>1, <5>2
      <4> QED
        BY <4>1, <4>2
    <3>6. Len(w) = n - 1
      BY <2>1, <2>2, <3>1, <3>2, <3>4
    <3> QED
      BY <3>4, <3>5, <3>6, LenProperties
  <2>5. Without(s, f) = w
    BY <1>2 DEF Without, k
  <2> HIDE DEF w
  <2>6. /\ \A i \in DOMAIN w : from(i) \in DOMAIN s /\ from(i) # k
        /\ \A i, j \in DOMAIN w : i < j => from(i) < from(j)
        /\ \A i, j \in DOMAIN w : from(i) = from(j) => i = j
        /\ \A l \in DOMAIN s : l # k => \E i \in DOMAIN w : from(i) = l
    <3>1. /\ \A i \in DOMAIN w : from(i) \in DOMAIN s /\ from(i) # k
          /\ \A i, j \in DOMAIN w : i < j => from(i) < from(j)
          /\ \A i, j \in DOMAIN w : from(i) = from(j) => i = j
      BY <2>1, <2>2, <2>4
    <3>2. ASSUME NEW l \in DOMAIN s, l # k PROVE \E i \in DOMAIN w : from(i) = l
      <4>1. CASE l < k
        <5>1. l \in DOMAIN w /\ from(l) = l
          BY <2>1, <2>2, <2>4, <4>1
        <5> QED
          BY <5>1
      <4>2. CASE ~(l < k)
        <5>1. l - 1 \in DOMAIN w /\ from(l - 1) = l
          BY <2>1, <2>2, <2>4, <3>2, <4>2
        <5> QED
          BY <5>1
      <4> QED
        BY <4>1, <4>2
    <3> QED
      BY <3>1, <3>2
  <2>7. \A i \in DOMAIN w : w[i] = s[from(i)]
    BY <2>4
  <2> HIDE DEF from
  <2>8. Range(w) = Range(s) \ {f}
    <3>1. ASSUME NEW x \in Range(w) PROVE x \in Range(s) /\ x # f
      BY <2>3, <2>6, <2>7, <3>1 DEF Range
    <3>2. ASSUME NEW x \in Range(s), x # f PROVE x \in Range(w)
      <4>1. PICK l \in DOMAIN s : s[l] = x
        BY <3>2 DEF Range
      <4>2. PICK i \in DOMAIN w : from(i) = l
        BY <2>2, <2>6, <3>2, <4>1
      <4> QED
        BY <2>7, <4>1, <4>2 DEF Range
    <3> QED
      BY <3>1, <3>2
  <2>9. ASSUME NEW x, Once(s, x) PROVE Once(w, x)
    BY <2>6, <2>7, <2>9 DEF Once
  <2>10. ASSUME NEW x, NEW y, Precedes(w, x, y) PROVE Precedes(s, x, y)
    BY <2>6, <2>7, <2>10 DEF Precedes
  <2>11. ASSUME s # <<>>, Head(s) # f PROVE w # <<>>
    <3>1. Head(s) \in Range(s)
      BY <2>11, TailFind
    <3>2. Head(s) \in Range(w)
      BY <2>8, <2>11, <3>1
    <3> QED
      BY <3>2, EmptyFind
  <2>12. s # <<>>
    BY <1>2, EmptyFind
  <2> QED
    BY <2>4, <2>5, <2>8, <2>9, <2>10, <2>11, <2>12
<1> QED
  BY <1>1, <1>2

-----------------------------------------------------------------------------
(* Types *)

\* queue::push keeps the types of the queue.
LEMMA PushTypes ==
  ASSUME TypesOfFilters, NEW f \in Filter, NEW m \in Messages, Push(f, m)
  PROVE  /\ messages' \in [Filter -> Seq(Messages)]
         /\ handlers' \in [Filter -> Seq(Handlers)]
         /\ io' \in Seq(Posting)
<1>1. /\ messages \in [Filter -> Seq(Messages)] /\ handlers \in [Filter -> Seq(Handlers)]
      /\ io \in Seq(Posting)
  BY DEF TypesOfFilters
<1>2. messages[f] \in Seq(Messages) /\ handlers[f] \in Seq(Handlers)
  BY <1>1
<1>3. CASE handlers[f] = <<>>
  <2> DEFINE b == Append(messages[f], m)
  <2>1. b \in Seq(Messages)
    BY <1>2, AppendFind
  <2>2. messages' = [messages EXCEPT ![f] = b] /\ handlers' = handlers /\ io' = io
    BY <1>3 DEF Push
  <2> HIDE DEF b
  <2> QED
    BY <1>1, <2>1, <2>2
<1>4. CASE handlers[f] # <<>>
  <2> DEFINE p == [filter |-> f, closure |-> [handler |-> Head(handlers[f]), message |-> m]]
             b == Tail(handlers[f])
  <2>1. Head(handlers[f]) \in Handlers /\ b \in Seq(Handlers)
    BY <1>2, <1>4, TailFind
  <2>2. p \in Posting
    BY <2>1 DEF Posting, Closure
  <2>3. handlers' = [handlers EXCEPT ![f] = b] /\ io' = Append(io, p) /\ messages' = messages
    BY <1>4 DEF Push
  <2> HIDE DEF p, b
  <2>4. io' \in Seq(Posting)
    BY <1>1, <2>2, <2>3, AppendFind
  <2> QED
    BY <1>1, <2>1, <2>3, <2>4
<1> QED
  BY <1>3, <1>4

\* So does queue::async_pop.
LEMMA PopTypes ==
  ASSUME TypesOfFilters, NEW f \in Filter, NEW h \in Handlers, AsyncPop(f, h)
  PROVE  /\ messages' \in [Filter -> Seq(Messages)]
         /\ handlers' \in [Filter -> Seq(Handlers)]
         /\ io' \in Seq(Posting)
<1>1. /\ messages \in [Filter -> Seq(Messages)] /\ handlers \in [Filter -> Seq(Handlers)]
      /\ io \in Seq(Posting)
  BY DEF TypesOfFilters
<1>2. messages[f] \in Seq(Messages) /\ handlers[f] \in Seq(Handlers)
  BY <1>1
<1>3. CASE messages[f] = <<>>
  <2> DEFINE b == Append(handlers[f], h)
  <2>1. b \in Seq(Handlers)
    BY <1>2, AppendFind
  <2>2. handlers' = [handlers EXCEPT ![f] = b] /\ messages' = messages /\ io' = io
    BY <1>3 DEF AsyncPop
  <2> HIDE DEF b
  <2> QED
    BY <1>1, <2>1, <2>2
<1>4. CASE messages[f] # <<>>
  <2> DEFINE p == [filter |-> f, closure |-> [handler |-> h, message |-> Head(messages[f])]]
             b == Tail(messages[f])
  <2>1. Head(messages[f]) \in Messages /\ b \in Seq(Messages)
    BY <1>2, <1>4, TailFind
  <2>2. p \in Posting
    BY <2>1 DEF Posting, Closure
  <2>3. messages' = [messages EXCEPT ![f] = b] /\ io' = Append(io, p) /\ handlers' = handlers
    BY <1>4 DEF AsyncPop
  <2> HIDE DEF p, b
  <2>4. io' \in Seq(Posting)
    BY <1>1, <2>2, <2>3, AppendFind
  <2> QED
    BY <1>1, <2>1, <2>3, <2>4
<1> QED
  BY <1>3, <1>4

LEMMA InitFilters == Init => PairsInv
<1> SUFFICES ASSUME Init PROVE PairsInv
  OBVIOUS
<1>1. Range(<<>>) = {} /\ DOMAIN <<>> = {} /\ \A x : Once(<<>>, x)
  BY EmptyFind
<1>2. TypesOfFilters
  <2>1. chain \in Seq(Filter) /\ rest \in Seq(Filter) /\ born \in Seq(Filter) /\ io \in Seq(Posting)
    BY EmptyFind DEF Init
  <2>2. /\ messages \in [Filter -> Seq(Messages)] /\ pushed \in [Filter -> Seq(Messages)]
        /\ handlers \in [Filter -> Seq(Handlers)] /\ popped \in [Filter -> Seq(Handlers)]
        /\ invoked \in [Filter -> Seq(Closure)]
    BY EmptyFind DEF Init, Empty
  <2>3. before \in [Messages -> SUBSET Filter] /\ asked \in [Messages -> SUBSET Filter]
    BY DEF Init
  <2> QED
    BY <2>1, <2>2, <2>3 DEF Init, TypesOfFilters
<1>3. Chained
  BY <1>1 DEF Init, Chained, Aged, Precedes
<1>4. \A m \in Messages : Takers(m) = {}
  BY <1>1 DEF Init, Takers, Empty
<1>5. NotTakenYet
  BY <1>4 DEF Init, NotTakenYet
<1>6. OldestTakes
  BY <1>4 DEF Init, OldestTakes
<1>7. \A p : Once(io, p)
  BY <1>1 DEF Init
<1>8. \A f \in Filter : PairsOf(f)
  BY <1>1 DEF Init, PairsOf, Posted, Empty
<1> QED
  BY <1>2, <1>3, <1>5, <1>6, <1>7, <1>8 DEF PairsInv, DispatchInv

\* A filter whose predicate is being called exists.
LEMMA Asked ==
  ASSUME TypesOfFilters, Chained, current # Nothing
  PROVE  /\ current \in Messages /\ rest # <<>>
         /\ Head(rest) \in Range(rest) /\ Head(rest) \in Filter /\ Tail(rest) \in Seq(Filter)
         /\ Head(rest) \in Range(chain)
         /\ Range(rest) = {Head(rest)} \cup Range(Tail(rest))
<1>1. current \in Messages /\ rest # <<>> /\ rest \in Seq(Filter)
  BY DEF TypesOfFilters, Chained
<1>2. Head(rest) \in Filter /\ Tail(rest) \in Seq(Filter) /\ Range(rest) = {Head(rest)} \cup Range(Tail(rest))
  BY <1>1, TailFind
<1> QED
  BY <1>1, <1>2 DEF Chained

\* Every step preserves the types.
LEMMA NextTypes == TypesOfFilters /\ Chained /\ [Next]_vars => TypesOfFilters'
<1> SUFFICES ASSUME TypesOfFilters, Chained, [Next]_vars PROVE TypesOfFilters'
  OBVIOUS
<1> USE DEF TypesOfFilters, queues
<1>1. ASSUME NEW f \in Filter, NewFilter(f) PROVE TypesOfFilters'
  <2>1. chain' \in Seq(Filter) /\ born' \in Seq(Filter)
    BY <1>1, AppendFind DEF NewFilter, AddFilter
  <2> QED
    BY <1>1, <2>1 DEF NewFilter
<1>2. ASSUME NEW f \in Filter, DeleteFilter(f) PROVE TypesOfFilters'
  <2>1. chain' \in Seq(Filter) /\ rest' \in Seq(Filter)
    BY <1>2, WithoutKeeps DEF DeleteFilter, RemoveFilter, Chained, Aged
  <2> QED
    BY <1>2, <2>1, EmptyFind DEF DeleteFilter
<1>3. ASSUME NEW f \in Filter, NEW h \in Handlers, AsyncDispatch(f, h) PROVE TypesOfFilters'
  <2>1. AsyncPop(f, h) /\ popped' = [popped EXCEPT ![f] = Append(popped[f], h)]
    BY <1>3 DEF AsyncDispatch
  <2>2. /\ messages' \in [Filter -> Seq(Messages)] /\ handlers' \in [Filter -> Seq(Handlers)]
        /\ io' \in Seq(Posting)
    BY <2>1, PopTypes
  <2>3. popped' \in [Filter -> Seq(Handlers)]
    BY <2>1, AppendFind
  <2> QED
    BY <1>3, <2>2, <2>3 DEF AsyncDispatch
<1>4. ASSUME NEW m \in Messages, Dispatch(m) PROVE TypesOfFilters'
  <2>1. Range(born) \ disposed \in SUBSET Filter
    BY ElementOfSeq DEF Range
  <2> QED
    BY <1>4, <2>1 DEF Dispatch
<1>5. ASSUME NEW outcome \in {"accept", "refuse", "throw"}, FilterCallback(outcome)
      PROVE  TypesOfFilters'
  <2> DEFINE f == Head(rest)
  <2>1. current \in Messages /\ f \in Filter /\ Tail(rest) \in Seq(Filter)
    BY <1>5, Asked DEF FilterCallback
  <2>2. rest' \in Seq(Filter) /\ current' \in Messages \cup {Nothing}
    BY <1>5, <2>1, EmptyFind DEF FilterCallback
  <2>3. asked' \in [Messages -> SUBSET Filter]
    BY <1>5, <2>1 DEF FilterCallback
  <2>4. CASE outcome = "accept"
    <3>1. Push(f, current) /\ pushed' = [pushed EXCEPT ![f] = Append(pushed[f], current)]
      BY <1>5, <2>4 DEF FilterCallback
    <3>2. pushed' \in [Filter -> Seq(Messages)]
      BY <2>1, <3>1, AppendFind
    <3>3. /\ messages' \in [Filter -> Seq(Messages)] /\ handlers' \in [Filter -> Seq(Handlers)]
          /\ io' \in Seq(Posting)
      BY <2>1, <3>1, PushTypes
    <3> QED
      BY <1>5, <2>2, <2>3, <3>2, <3>3 DEF FilterCallback
  <2>5. CASE outcome # "accept"
    BY <1>5, <2>2, <2>3, <2>5 DEF FilterCallback
  <2> QED
    BY <2>4, <2>5
<1>6. CASE RunClosure
  <2>1. Head(io) \in Posting /\ Tail(io) \in Seq(Posting)
    BY <1>6, TailFind DEF RunClosure
  <2>2. Head(io).filter \in Filter /\ Head(io).closure \in Closure
    BY <2>1 DEF Posting
  <2>3. invoked' \in [Filter -> Seq(Closure)]
    BY <1>6, <2>2, AppendFind DEF RunClosure
  <2> QED
    BY <1>6, <2>1, <2>3 DEF RunClosure
<1>7. CASE UNCHANGED vars
  BY <1>7 DEF vars
<1> QED
  BY <1>1, <1>2, <1>3, <1>4, <1>5, <1>6, <1>7 DEF Next

-----------------------------------------------------------------------------
(* Dispatching *)

\* Older is the order of born.
LEMMA OlderIs == \A f, g : Older(f, g) <=> Precedes(born, f, g)
BY DEF Older, Precedes

\* A constructor puts its filter behind the others.
LEMMA NewFilterChained ==
  ASSUME TypesOfFilters, Chained, NEW f \in Filter, NewFilter(f)
  PROVE  Chained' /\ \A x, y : Older(x, y) => Older(x, y)'
<1>1. chain \in Seq(Filter) /\ born \in Seq(Filter) /\ f \notin Range(chain) /\ f \notin Range(born)
  BY DEF TypesOfFilters, NewFilter, Chained
<1>2. /\ chain' = Append(chain, f) /\ born' = Append(born, f)
      /\ rest' = rest /\ disposed' = disposed /\ current' = current
  BY DEF NewFilter, AddFilter
<1>3. /\ Range(chain') = Range(chain) \cup {f} /\ Range(born') = Range(born) \cup {f}
      /\ \A x : Once(chain, x) => Once(chain', x)
      /\ \A x : Once(born, x) => Once(born', x)
  BY <1>1, <1>2, AppendFind
<1>4. /\ \A x, y : Precedes(chain', x, y) => Precedes(chain, x, y) \/ (x \in Range(chain) /\ y = f)
      /\ \A x, y : Precedes(born, x, y) => Precedes(born', x, y)
      /\ \A x \in Range(born) : Precedes(born', x, f)
  BY <1>1, <1>2, AppendOrder
<1>5. \A x, y : Older(x, y)' <=> Precedes(born', x, y)
  BY DEF Older, Precedes
<1>6. \A x, y : Older(x, y) => Older(x, y)'
  BY <1>4, <1>5, OlderIs
<1>7. Aged(chain)'
  BY <1>3, <1>4, <1>5, <1>6 DEF Aged, Chained
<1>8. Aged(born)'
  BY <1>3, <1>5 DEF Aged, Chained
<1>9. Aged(rest)'
  BY <1>2, <1>6 DEF Aged, Chained
<1>10. f \notin disposed
  BY DEF NewFilter
<1> QED
  BY <1>2, <1>3, <1>6, <1>7, <1>8, <1>9, <1>10 DEF Chained

\* A destructor takes its filter out of both lists, and never the one that is asked.
LEMMA DeleteFilterChained ==
  ASSUME TypesOfFilters, Chained, NEW f \in Filter, DeleteFilter(f)
  PROVE  /\ Chained' /\ \A x, y : Older(x, y) <=> Older(x, y)'
         /\ Range(rest') = Range(rest) \ {f}
<1>1. /\ chain \in Seq(Filter) /\ rest \in Seq(Filter)
      /\ Aged(chain) /\ Aged(rest) /\ Aged(born)
      /\ f \in Range(chain) /\ (current # Nothing => Head(rest) # f)
  BY DEF TypesOfFilters, DeleteFilter, Chained, Asking
<1>2. /\ chain' = Without(chain, f) /\ rest' = Without(rest, f)
      /\ disposed' = disposed \cup {f} /\ born' = born /\ current' = current
  BY DEF DeleteFilter, RemoveFilter
<1>3. Once(chain, f) /\ Once(rest, f)
  BY <1>1 DEF Aged
<1>4. /\ Range(chain') = Range(chain) \ {f}
      /\ \A x : Once(chain, x) => Once(chain', x)
      /\ \A x, y : Precedes(chain', x, y) => Precedes(chain, x, y)
  BY <1>1, <1>2, <1>3, WithoutKeeps
<1>5. /\ Range(rest') = Range(rest) \ {f}
      /\ \A x : Once(rest, x) => Once(rest', x)
      /\ \A x, y : Precedes(rest', x, y) => Precedes(rest, x, y)
      /\ (rest # <<>> /\ Head(rest) # f) => rest' # <<>>
      /\ rest = <<>> => rest' = <<>>
  BY <1>1, <1>2, <1>3, WithoutKeeps
<1>6. \A x, y : Older(x, y) <=> Older(x, y)'
  BY <1>2 DEF Older
<1>7. Aged(chain)' /\ Aged(rest)' /\ Aged(born)'
  BY <1>1, <1>2, <1>4, <1>5, <1>6 DEF Aged
<1>8. current' = Nothing <=> rest' = <<>>
  BY <1>1, <1>2, <1>5 DEF Chained
<1> QED
  BY <1>1, <1>2, <1>4, <1>5, <1>6, <1>7, <1>8 DEF Chained

\* The other steps leave the filters alone, and shorten the list of those to be asked.
LEMMA RestChained ==
  ASSUME TypesOfFilters, Chained, chain' = chain, born' = born, disposed' = disposed,
         \/ rest' = rest /\ current' = current
         \/ rest' = <<>> /\ current' = Nothing
         \/ current # Nothing /\ rest' = Tail(rest) /\ current' = IF rest' = <<>> THEN Nothing ELSE current
         \/ rest' = chain /\ chain # <<>> /\ current' # Nothing
  PROVE  Chained' /\ \A x, y : Older(x, y) <=> Older(x, y)'
<1>1. \A x, y : Older(x, y) <=> Older(x, y)'
  BY DEF Older
<1>2. Aged(chain)' /\ Aged(born)' /\ Aged(chain) /\ Aged(rest)
  BY <1>1 DEF Chained, Aged
<1>3. CASE rest' = rest /\ current' = current
  BY <1>1, <1>2, <1>3 DEF Chained, Aged
<1>4. CASE rest' = <<>> /\ current' = Nothing
  <2>1. Aged(rest)' /\ Range(rest') = {}
    BY <1>4, EmptyFind DEF Aged, Precedes
  <2> QED
    BY <1>1, <1>2, <1>4, <2>1 DEF Chained
<1>5. CASE current # Nothing /\ rest' = Tail(rest) /\ current' = IF rest' = <<>> THEN Nothing ELSE current
  <2>1. rest \in Seq(Filter) /\ rest # <<>>
    BY <1>5 DEF TypesOfFilters, Chained
  <2>2. /\ Range(rest') \subseteq Range(rest)
        /\ \A x : Once(rest, x) => Once(rest', x)
        /\ \A x, y : Precedes(rest', x, y) => Precedes(rest, x, y)
    BY <1>5, <2>1, TailFind, TailOrder
  <2>3. Aged(rest)'
    BY <1>1, <1>2, <2>2 DEF Aged
  <2> QED
    BY <1>1, <1>2, <1>5, <2>2, <2>3 DEF Chained
<1>6. CASE rest' = chain /\ chain # <<>> /\ current' # Nothing
  <2>1. Aged(rest)'
    BY <1>1, <1>2, <1>6 DEF Aged
  <2> QED
    BY <1>1, <1>2, <1>6, <2>1 DEF Chained
<1> QED
  BY <1>3, <1>4, <1>5, <1>6

\* Every step preserves the invariant of the dispatch.
LEMMA NextDispatch == DispatchInv /\ [Next]_vars => DispatchInv'
<1> SUFFICES ASSUME DispatchInv, [Next]_vars PROVE DispatchInv'
  OBVIOUS
<1>1. TypesOfFilters /\ TypesOfFilters' /\ Chained /\ NotTakenYet /\ OldestTakes
  BY NextTypes DEF DispatchInv
<1>2. /\ pushed \in [Filter -> Seq(Messages)] /\ current \in Messages \cup {Nothing}
      /\ before \in [Messages -> SUBSET Filter] /\ asked \in [Messages -> SUBSET Filter]
  BY <1>1 DEF TypesOfFilters
<1>3. pushed' = pushed => \A m : Takers(m)' = Takers(m)
  BY DEF Takers
<1>4. ASSUME NEW f \in Filter, NewFilter(f) PROVE DispatchInv'
  <2>1. /\ pushed' = pushed /\ before' = before /\ current' = current /\ rest' = rest
        /\ asked' = asked /\ disposed' = disposed
    BY <1>4 DEF NewFilter, queues
  <2>2. Chained' /\ \A x, y : Older(x, y) => Older(x, y)'
    BY <1>1, <1>4, NewFilterChained
  <2>3. NotTakenYet'
    BY <1>1, <1>3, <2>1 DEF NotTakenYet
  <2>4. OldestTakes'
    BY <1>1, <1>3, <2>1, <2>2 DEF OldestTakes
  <2> QED
    BY <1>1, <2>2, <2>3, <2>4 DEF DispatchInv
<1>5. ASSUME NEW f \in Filter, DeleteFilter(f) PROVE DispatchInv'
  <2>1. /\ pushed' = pushed /\ before' = before /\ current' = current
        /\ asked' = asked /\ disposed' = disposed \cup {f}
    BY <1>5 DEF DeleteFilter
  <2>2. Chained' /\ Range(rest') = Range(rest) \ {f} /\ \A x, y : Older(x, y) <=> Older(x, y)'
    BY <1>1, <1>5, DeleteFilterChained
  <2>3. NotTakenYet'
    BY <1>1, <1>3, <2>1, <2>2 DEF NotTakenYet
  <2>4. OldestTakes'
    BY <1>1, <1>3, <2>1, <2>2 DEF OldestTakes
  <2> QED
    BY <1>1, <2>2, <2>3, <2>4 DEF DispatchInv
<1>6. ASSUME NEW f \in Filter, NEW h \in Handlers, AsyncDispatch(f, h)
      PROVE  DispatchInv'
  <2>1. /\ pushed' = pushed /\ before' = before /\ current' = current /\ rest' = rest
        /\ asked' = asked /\ disposed' = disposed /\ chain' = chain /\ born' = born
    BY <1>6 DEF AsyncDispatch
  <2>2. Chained' /\ \A x, y : Older(x, y) <=> Older(x, y)'
    BY <1>1, <2>1, RestChained
  <2>3. NotTakenYet'
    BY <1>1, <1>3, <2>1 DEF NotTakenYet
  <2>4. OldestTakes'
    BY <1>1, <1>3, <2>1, <2>2 DEF OldestTakes
  <2> QED
    BY <1>1, <2>2, <2>3, <2>4 DEF DispatchInv
<1>7. CASE RunClosure \/ UNCHANGED vars
  <2>1. /\ pushed' = pushed /\ before' = before /\ current' = current /\ rest' = rest
        /\ asked' = asked /\ disposed' = disposed /\ chain' = chain /\ born' = born
    BY <1>7 DEF RunClosure, vars, queues
  <2>2. Chained' /\ \A x, y : Older(x, y) <=> Older(x, y)'
    BY <1>1, <2>1, RestChained
  <2>3. NotTakenYet'
    BY <1>1, <1>3, <2>1 DEF NotTakenYet
  <2>4. OldestTakes'
    BY <1>1, <1>3, <2>1, <2>2 DEF OldestTakes
  <2> QED
    BY <1>1, <2>2, <2>3, <2>4 DEF DispatchInv
<1>8. ASSUME NEW m \in Messages, Dispatch(m) PROVE DispatchInv'
  <2>1. /\ pushed' = pushed /\ asked' = asked /\ disposed' = disposed /\ chain' = chain /\ born' = born
        /\ current = Nothing /\ current' = m /\ before[m] = {}
        /\ chain # <<>> /\ rest' = chain /\ m # Nothing
        /\ before' = [before EXCEPT ![m] = Range(born) \ disposed]
    BY <1>8, FiltersAssumption DEF Dispatch, queues
  <2>2. Chained' /\ \A x, y : Older(x, y) <=> Older(x, y)'
    BY <1>1, <2>1, RestChained
  <2>3. Range(chain) = Range(born) \ disposed /\ Range(chain) # {}
    <3>1. chain \in Seq(Filter)
      BY <1>1 DEF TypesOfFilters
    <3>2. Range(chain) = {Head(chain)} \cup Range(Tail(chain))
      BY <2>1, <3>1, TailFind
    <3> QED
      BY <1>1, <3>2 DEF Chained
  <2>4. before'[m] = Range(chain) /\ \A x \in Messages : x # m => before'[x] = before[x]
    BY <1>2, <2>1, <2>3
  <2>5. NotTakenYet'
    <3>1. Takers(m) = {}
      BY <1>1, <2>1 DEF NotTakenYet
    <3> QED
      BY <1>1, <1>3, <2>1, <2>3, <2>4, <3>1 DEF NotTakenYet
  <2>6. OldestTakes'
    <3>1. ASSUME NEW x \in Messages, x # m
          PROVE  \A g \in before'[x] :
                   \/ g \in asked'[x] \cup disposed'
                   \/ \E a \in Takers(x)' \cap before'[x] : Older(a, g)'
      <4>1. x # current /\ before'[x] = before[x] /\ Takers(x)' = Takers(x)
        BY <1>3, <2>1, <2>4, <3>1, FiltersAssumption
      <4> QED
        BY <1>1, <2>1, <2>2, <4>1 DEF OldestTakes
    <3>2. \A x \in Messages : \A a, b \in Takers(x)' : a = b
      BY <1>1, <1>3, <2>1 DEF OldestTakes
    <3> QED
      BY <2>1, <3>1, <3>2 DEF OldestTakes
  <2> QED
    BY <1>1, <2>2, <2>5, <2>6 DEF DispatchInv
<1>9. ASSUME NEW outcome \in {"accept", "refuse", "throw"}, FilterCallback(outcome)
      PROVE  DispatchInv'
  <2>0. PICK m \in Messages, f \in Filter : m = current /\ f = Head(rest)
    BY <1>1, <1>9, Asked DEF FilterCallback, TypesOfFilters
  <2>1. /\ m \in Messages /\ m # Nothing /\ rest # <<>> /\ rest \in Seq(Filter)
        /\ f \in Range(rest) /\ f \in Filter /\ f \in Range(chain)
        /\ Range(rest) = {f} \cup Range(Tail(rest))
    BY <1>1, <1>9, <2>0, Asked DEF FilterCallback, TypesOfFilters
  <2>2. /\ chain' = chain /\ born' = born /\ disposed' = disposed /\ before' = before
        /\ asked' = [asked EXCEPT ![m] = @ \cup {f}]
        /\ rest' = IF outcome = "accept" THEN <<>> ELSE Tail(rest)
        /\ current' = IF rest' = <<>> THEN Nothing ELSE m
    BY <1>9, <2>0 DEF FilterCallback, Handled
  <2>3. Chained' /\ \A x, y : Older(x, y) <=> Older(x, y)'
    BY <1>1, <2>0, <2>1, <2>2, RestChained
  <2>4. /\ before[m] # {} /\ Takers(m) = {}
        /\ Range(rest) \subseteq before[m]
        /\ before[m] \subseteq asked[m] \cup disposed \cup Range(rest)
    BY <1>1, <2>0, <2>1 DEF NotTakenYet
  <2>5. asked'[m] = asked[m] \cup {f} /\ \A x \in Messages : x # m => asked'[x] = asked[x]
    BY <1>2, <2>1, <2>2
  <2>6. CASE outcome = "accept"
    <3>1. pushed' = [pushed EXCEPT ![f] = Append(pushed[f], m)] /\ rest' = <<>> /\ current' = Nothing
      BY <1>9, <2>0, <2>2, <2>6 DEF FilterCallback
    <3>2. pushed[f] \in Seq(Messages) /\ Range(Append(pushed[f], m)) = Range(pushed[f]) \cup {m}
      BY <1>2, <2>1, AppendFind
    <3>3. \A g \in Filter : Range(pushed'[g]) = IF g = f THEN Range(pushed[g]) \cup {m} ELSE Range(pushed[g])
      BY <1>2, <2>1, <3>1, <3>2
    <3>4. Takers(m)' = {f} /\ \A x : x # m => Takers(x)' = Takers(x)
      <4>1. \A g \in Filter : m \notin Range(pushed[g])
        BY <2>4 DEF Takers
      <4>2. \A x : Takers(x)' = {g \in Filter : x \in Range(pushed'[g])}
        BY DEF Takers
      <4>3. ASSUME NEW x, x # m PROVE Takers(x)' = Takers(x)
        BY <3>3, <4>2, <4>3 DEF Takers
      <4>4. Takers(m)' = {f}
        BY <2>1, <3>3, <4>1, <4>2
      <4> QED
        BY <4>3, <4>4
    <3>5. NotTakenYet'
      BY <1>1, <2>2, <2>4, <3>1, <3>4 DEF NotTakenYet
    <3>6. \A g \in before[m] : \/ g \in asked'[m] \cup disposed'
                               \/ (f \in Takers(m)' \cap before'[m] /\ Older(f, g)')
      <4>1. \A g \in Range(Tail(rest)) : Older(f, g)
        BY <1>1, <2>1, <2>0, TailOrder DEF Chained, Aged
      <4> QED
        BY <2>1, <2>2, <2>3, <2>4, <2>5, <3>4, <4>1
    <3>7. OldestTakes'
      <4>1. ASSUME NEW x \in Messages, x # m
            PROVE  /\ \A a, b \in Takers(x)' : a = b
                   /\ \A g \in before'[x] :
                        \/ g \in asked'[x] \cup disposed'
                        \/ \E a \in Takers(x)' \cap before'[x] : Older(a, g)'
        <5>1. x # current
          BY <2>0, <4>1
        <5> QED
          BY <1>1, <2>2, <2>3, <2>5, <3>4, <4>1, <5>1 DEF OldestTakes
      <4>2. /\ \A a, b \in Takers(m)' : a = b
            /\ \A g \in before'[m] :
                 \/ g \in asked'[m] \cup disposed'
                 \/ \E a \in Takers(m)' \cap before'[m] : Older(a, g)'
        BY <2>2, <3>4, <3>6
      <4> QED
        BY <4>1, <4>2 DEF OldestTakes
    <3> QED
      BY <1>1, <2>3, <3>5, <3>7 DEF DispatchInv
  <2>7. CASE outcome # "accept"
    <3>1. pushed' = pushed /\ rest' = Tail(rest)
      BY <1>9, <2>0, <2>2, <2>7 DEF FilterCallback
    <3>2. \A x : Takers(x)' = Takers(x)
      BY <1>3, <3>1
    <3>3. before[m] \subseteq asked'[m] \cup disposed \cup Range(rest')
      BY <2>1, <2>4, <2>5, <3>1
    <3>4. NotTakenYet'
      BY <1>1, <2>1, <2>2, <2>4, <3>1, <3>2, <3>3 DEF NotTakenYet
    <3>5. current' = Nothing => before[m] \subseteq asked'[m] \cup disposed
      BY <2>1, <2>2, <3>3, EmptyFind
    <3>6. OldestTakes'
      <4>1. ASSUME NEW x \in Messages, x # m
            PROVE  /\ \A a, b \in Takers(x)' : a = b
                   /\ \A g \in before'[x] :
                        \/ g \in asked'[x] \cup disposed'
                        \/ \E a \in Takers(x)' \cap before'[x] : Older(a, g)'
        <5>1. x # current
          BY <2>0, <4>1
        <5> QED
          BY <1>1, <2>2, <2>3, <2>5, <3>2, <4>1, <5>1 DEF OldestTakes
      <4>2. /\ \A a, b \in Takers(m)' : a = b
            /\ m # current' =>
                 \A g \in before'[m] : g \in asked'[m] \cup disposed'
        BY <2>2, <2>4, <3>2, <3>5
      <4> QED
        BY <4>1, <4>2 DEF OldestTakes
    <3> QED
      BY <1>1, <2>3, <3>4, <3>6 DEF DispatchInv
  <2> QED
    BY <2>6, <2>7
<1> QED
  BY <1>4, <1>5, <1>6, <1>7, <1>8, <1>9 DEF Next

\* A message goes to the oldest filter that accepts it, and to no other, for any filters
\* that come and go before and during its dispatch.
THEOREM OldestTakesAlways == Spec => []OldestTakes
<1>1. Init => DispatchInv
  BY InitFilters DEF PairsInv
<1>2. DispatchInv => OldestTakes
  BY DEF DispatchInv
<1> QED
  BY <1>1, <1>2, NextDispatch, PTL DEF Spec

-----------------------------------------------------------------------------
(* The queues of the filters *)

\* A new element meets the oldest of those that wait for it, and waits if there is none.
LEMMA MeetOrWait ==
  ASSUME NEW S, NEW T, NEW ms \in Seq(S), NEW ps \in Seq(S),
         NEW hs \in Seq(T), NEW qs \in Seq(T), NEW m \in S, Waits(ms, hs, ps, qs)
  PROVE  /\ hs = <<>> => Waits(Append(ms, m), hs, Append(ps, m), qs)
         /\ hs # <<>> => /\ Waits(ms, Tail(hs), Append(ps, m), qs)
                         /\ Len(ps) + 1 \in DOMAIN qs /\ qs[Len(ps) + 1] = Head(hs)
<1> DEFINE u == Append(ms, m)
           v == Append(ps, m)
           t == Tail(hs)
           a == Len(ms)
           b == Len(hs)
           k == Len(ps)
           l == Len(qs)
<1>1. /\ a \in Nat /\ k \in Nat /\ b \in Nat /\ l \in Nat
      /\ DOMAIN ms = 1..a /\ DOMAIN ps = 1..k /\ DOMAIN hs = 1..b /\ DOMAIN qs = 1..l
  BY LenProperties
<1>2. Len(v) = k + 1 /\ (\A i \in 1..k : v[i] = ps[i]) /\ v[k + 1] = m
  BY AppendProperties
<1>3. /\ DOMAIN u = 1..(a + 1) /\ Len(u) = a + 1
      /\ (\A i \in 1..a : u[i] = ms[i]) /\ u[a + 1] = m
  BY AppendProperties, LenProperties
<1>4. hs # <<>> => /\ b > 0 /\ Head(hs) = hs[1] /\ Len(t) = b - 1 /\ DOMAIN t = 1..(b - 1)
                   /\ \A i \in 1..(b - 1) : t[i] = hs[i + 1]
  <2> SUFFICES ASSUME hs # <<>> PROVE /\ b > 0 /\ Head(hs) = hs[1] /\ Len(t) = b - 1 /\ DOMAIN t = 1..(b - 1)
                                      /\ \A i \in 1..(b - 1) : t[i] = hs[i + 1]
    OBVIOUS
  <2>1. b > 0
    BY <1>1, EmptySeq
  <2>2. Head(hs) = hs[1] /\ t \in Seq(T) /\ Len(t) = b - 1 /\ \A i \in 1..Len(t) : t[i] = hs[i + 1]
    BY HeadTailProperties
  <2>3. DOMAIN t = 1..Len(t)
    BY <2>2, LenProperties
  <2> QED
    BY <2>1, <2>2, <2>3
<1>5. /\ hs = <<>> => b = 0
      /\ ms = <<>> => a = 0
  OBVIOUS
<1>6. /\ ms = <<>> \/ hs = <<>>
      /\ l + a = k + b
      /\ \A i \in 1..a : ms[i] = ps[l + i]
      /\ \A i \in 1..b : hs[i] = qs[k + i]
  BY <1>1 DEF Waits
<1>7. /\ Waits(u, hs, v, qs) <=>
           /\ u = <<>> \/ hs = <<>>
           /\ l + Len(u) = Len(v) + b
           /\ \A i \in DOMAIN u : u[i] = v[l + i]
           /\ \A i \in DOMAIN hs : hs[i] = qs[Len(v) + i]
      /\ Waits(ms, t, v, qs) <=>
           /\ ms = <<>> \/ t = <<>>
           /\ l + a = Len(v) + Len(t)
           /\ \A i \in DOMAIN ms : ms[i] = v[l + i]
           /\ \A i \in DOMAIN t : t[i] = qs[Len(v) + i]
  BY DEF Waits
<1> HIDE DEF u, v, t, a, b, k, l
<1>8. ASSUME hs = <<>> PROVE Waits(u, hs, v, qs)
  <2>1. b = 0 /\ l + a = k
    BY <1>1, <1>5, <1>6, <1>8
  <2>2. ASSUME NEW i \in 1..(a + 1) PROVE u[i] = v[l + i]
    <3>1. CASE i = a + 1
      BY <1>1, <1>2, <1>3, <2>1, <3>1
    <3>2. CASE i # a + 1
      <4>1. i \in 1..a /\ l + i \in 1..k
        BY <1>1, <2>1, <3>2
      <4> QED
        BY <1>2, <1>3, <1>6, <4>1
    <3> QED
      BY <3>1, <3>2
  <2>3. l + Len(u) = Len(v) + b
    BY <1>1, <1>2, <1>3, <2>1
  <2>4. DOMAIN hs = {}
    BY <1>1, <2>1
  <2> QED
    BY <1>3, <1>7, <1>8, <2>2, <2>3, <2>4
<1>9. ASSUME hs # <<>>
      PROVE  Waits(ms, t, v, qs) /\ k + 1 \in DOMAIN qs /\ qs[k + 1] = Head(hs)
  <2>1. ms = <<>> /\ a = 0 /\ l = k + b /\ b > 0
    BY <1>1, <1>4, <1>5, <1>6, <1>9
  <2>2. k + 1 \in DOMAIN qs /\ qs[k + 1] = Head(hs)
    BY <1>1, <1>4, <1>6, <1>9, <2>1
  <2>3. ASSUME NEW i \in 1..(b - 1) PROVE t[i] = qs[(k + 1) + i]
    <3>1. i + 1 \in 1..b /\ k + (i + 1) = (k + 1) + i
      BY <1>1
    <3>2. hs[i + 1] = qs[k + (i + 1)]
      BY <1>6, <3>1
    <3> QED
      BY <1>4, <1>9, <3>1, <3>2
  <2>4. l + a = Len(v) + Len(t)
    <3>1. Len(t) = b - 1 /\ Len(v) = k + 1
      BY <1>2, <1>4, <1>9
    <3> QED
      BY <1>1, <2>1, <3>1
  <2>5. DOMAIN ms = {}
    BY <1>1, <2>1
  <2> QED
    BY <1>2, <1>4, <1>7, <1>9, <2>1, <2>2, <2>3, <2>4, <2>5
<1> QED
  BY <1>8, <1>9 DEF u, v, t, k

\* A queue looks the same to those who push and to those who pop.
LEMMA WaitsBothWays ==
  ASSUME NEW ms, NEW hs, NEW ps, NEW qs
  PROVE  Waits(ms, hs, ps, qs) <=> Waits(hs, ms, qs, ps)
BY DEF Waits

\* What has been promised stays promised, and a new message is in no old pair.
LEMMA PairsPush ==
  ASSUME NEW S, NEW T, NEW ps \in Seq(S), NEW qs \in Seq(T), NEW m \in S
  PROVE  /\ Pairs(ps, qs) \subseteq Pairs(Append(ps, m), qs)
         /\ \A c \in Pairs(ps, qs) : c.message \in Range(ps)
         /\ Len(ps) + 1 \in DOMAIN qs =>
              [handler |-> qs[Len(ps) + 1], message |-> m] \in Pairs(Append(ps, m), qs)
<1> DEFINE P == Append(ps, m)
<1>1. /\ Len(ps) \in Nat /\ DOMAIN ps = 1..Len(ps)
      /\ DOMAIN P = 1..(Len(ps) + 1) /\ (\A i \in 1..Len(ps) : P[i] = ps[i]) /\ P[Len(ps) + 1] = m
  BY AppendProperties, LenProperties
<1> HIDE DEF P
<1>2. Len(ps) + 1 \in DOMAIN P /\ \A i \in DOMAIN ps : i \in DOMAIN P /\ P[i] = ps[i]
  BY <1>1
<1>3. Pairs(ps, qs) \subseteq Pairs(P, qs)
  BY <1>2 DEF Pairs
<1>4. \A c \in Pairs(ps, qs) : c.message \in Range(ps)
  BY DEF Pairs, Range
<1>5. Len(ps) + 1 \in DOMAIN qs => [handler |-> qs[Len(ps) + 1], message |-> m] \in Pairs(P, qs)
  BY <1>1, <1>2 DEF Pairs
<1> QED
  BY <1>3, <1>4, <1>5 DEF P

\* The same of a new handler.
LEMMA PairsPop ==
  ASSUME NEW S, NEW T, NEW ps \in Seq(S), NEW qs \in Seq(T), NEW h \in T
  PROVE  /\ Pairs(ps, qs) \subseteq Pairs(ps, Append(qs, h))
         /\ \A c \in Pairs(ps, qs) : c.handler \in Range(qs)
         /\ Len(qs) + 1 \in DOMAIN ps =>
              [handler |-> h, message |-> ps[Len(qs) + 1]] \in Pairs(ps, Append(qs, h))
<1> DEFINE Q == Append(qs, h)
<1>1. /\ Len(qs) \in Nat /\ DOMAIN qs = 1..Len(qs)
      /\ DOMAIN Q = 1..(Len(qs) + 1) /\ (\A i \in 1..Len(qs) : Q[i] = qs[i]) /\ Q[Len(qs) + 1] = h
  BY AppendProperties, LenProperties
<1> HIDE DEF Q
<1>2. Len(qs) + 1 \in DOMAIN Q /\ \A i \in DOMAIN qs : i \in DOMAIN Q /\ Q[i] = qs[i]
  BY <1>1
<1>3. Pairs(ps, qs) \subseteq Pairs(ps, Q)
  BY <1>2 DEF Pairs
<1>4. \A c \in Pairs(ps, qs) : c.handler \in Range(qs)
  BY DEF Pairs, Range
<1>5. Len(qs) + 1 \in DOMAIN ps => [handler |-> h, message |-> ps[Len(qs) + 1]] \in Pairs(ps, Q)
  BY <1>1, <1>2 DEF Pairs
<1> QED
  BY <1>3, <1>4, <1>5 DEF Q

\* A step that touches the queue of filter f alone, and posts at most one new pair of it.
LEMMA OnePairMore ==
  ASSUME PairsInv, TypesOfFilters', NEW f \in Filter, f \in Range(chain),
         chain' = chain, born' = born, invoked' = invoked,
         \A g \in Filter : g # f =>
           /\ messages'[g] = messages[g] /\ handlers'[g] = handlers[g]
           /\ pushed'[g] = pushed[g] /\ popped'[g] = popped[g],
         Waits(messages'[f], handlers'[f], pushed'[f], popped'[f]),
         Pairs(pushed[f], popped[f]) \subseteq Pairs(pushed'[f], popped'[f]),
         \/ io' = io
         \/ \E c \in Closure :
              /\ io' = Append(io, [filter |-> f, closure |-> c])
              /\ c \in Pairs(pushed'[f], popped'[f]) \ Pairs(pushed[f], popped[f])
  PROVE  (\A p : Once(io, p))' /\ (\A g \in Filter : PairsOf(g))'
<1>1. /\ io \in Seq(Posting) /\ Range(chain) \subseteq Range(born)
      /\ (\A p : Once(io, p)) /\ \A g \in Filter : PairsOf(g)
  BY DEF PairsInv, DispatchInv, TypesOfFilters, Chained
<1>2. CASE io' = io
  <2>1. \A g \in Filter : Posted(g)' = Posted(g)
    BY <1>2 DEF Posted
  <2>2. ASSUME NEW g \in Filter PROVE PairsOf(g)'
    <3>1. CASE g = f
      BY <1>1, <2>1, <3>1 DEF PairsOf
    <3>2. CASE g # f
      BY <1>1, <2>1, <3>2 DEF PairsOf
    <3> QED
      BY <3>1, <3>2
  <2> QED
    BY <1>1, <1>2, <2>2
<1>3. CASE io' # io
  <2>1. PICK c \in Closure :
          /\ io' = Append(io, [filter |-> f, closure |-> c])
          /\ c \in Pairs(pushed'[f], popped'[f]) \ Pairs(pushed[f], popped[f])
    BY <1>3
  <2> DEFINE p == [filter |-> f, closure |-> c]
  <2>2. p \in Posting
    BY DEF Posting
  <2>3. p \notin Range(io) /\ c \notin Range(invoked[f])
    BY <1>1, <2>1 DEF PairsOf, Posted
  <2>4. \A g : g # f => \A x : [filter |-> g, closure |-> x] # p
    OBVIOUS
  <2>5. \A x : x # c => [filter |-> f, closure |-> x] # p
    OBVIOUS
  <2>6. io' = Append(io, p)
    BY <2>1
  <2> HIDE DEF p
  <2>7. Range(io') = Range(io) \cup {p} /\ \A x : Once(io', x)
    BY <1>1, <2>2, <2>3, <2>6, AppendFind
  <2>8. Posted(f)' \subseteq Posted(f) \cup {c}
    BY <2>5, <2>7 DEF Posted
  <2>9. \A g \in Filter : g # f => Posted(g)' = Posted(g)
    BY <2>4, <2>7 DEF Posted
  <2>10. ASSUME NEW g \in Filter PROVE PairsOf(g)'
    <3>1. CASE g = f
      BY <1>1, <2>1, <2>3, <2>8, <3>1 DEF PairsOf
    <3>2. CASE g # f
      BY <1>1, <2>9, <3>2 DEF PairsOf
    <3> QED
      BY <3>1, <3>2
  <2> QED
    BY <2>7, <2>10
<1> QED
  BY <1>2, <1>3

\* queue::push of a message that the filter has not taken before.
LEMMA PushPairs ==
  ASSUME PairsInv, TypesOfFilters', NEW f \in Filter, f \in Range(chain),
         NEW m \in Messages, m \notin Range(pushed[f]), Push(f, m),
         pushed' = [pushed EXCEPT ![f] = Append(pushed[f], m)],
         chain' = chain, born' = born, invoked' = invoked, popped' = popped
  PROVE  (\A p : Once(io, p))' /\ (\A g \in Filter : PairsOf(g))'
<1> DEFINE ms == messages[f]
           hs == handlers[f]
           ps == pushed[f]
           qs == popped[f]
           P == Append(ps, m)
           c == [handler |-> Head(hs), message |-> m]
<1>1. /\ messages \in [Filter -> Seq(Messages)] /\ pushed \in [Filter -> Seq(Messages)]
      /\ handlers \in [Filter -> Seq(Handlers)] /\ popped \in [Filter -> Seq(Handlers)]
      /\ Waits(ms, hs, ps, qs)
  BY DEF PairsInv, DispatchInv, TypesOfFilters, PairsOf
<1>2. /\ ms \in Seq(Messages) /\ ps \in Seq(Messages) /\ hs \in Seq(Handlers) /\ qs \in Seq(Handlers)
      /\ pushed'[f] = P /\ \A g \in Filter : g # f => pushed'[g] = pushed[g]
  BY <1>1
<1>3. Pairs(ps, qs) \subseteq Pairs(P, qs) /\ \A x \in Pairs(ps, qs) : x.message # m
  <2>1. Pairs(ps, qs) \subseteq Pairs(P, qs) /\ \A x \in Pairs(ps, qs) : x.message \in Range(ps)
    BY <1>2, PairsPush
  <2>2. m \notin Range(ps)
    OBVIOUS
  <2> HIDE DEF ps, qs, P
  <2> QED
    BY <2>1, <2>2
<1>4. CASE hs = <<>>
  <2>1. /\ messages' = [messages EXCEPT ![f] = Append(ms, m)]
        /\ handlers' = handlers /\ io' = io
    BY <1>4 DEF Push
  <2>2. messages'[f] = Append(ms, m) /\ \A g \in Filter : g # f => messages'[g] = messages[g]
    BY <1>1, <2>1
  <2>3. Waits(Append(ms, m), hs, P, qs)
    BY <1>1, <1>2, <1>4, MeetOrWait
  <2> HIDE DEF P
  <2> QED
    BY <1>2, <1>3, <2>1, <2>2, <2>3, OnePairMore
<1>5. CASE hs # <<>>
  <2>1. /\ handlers' = [handlers EXCEPT ![f] = Tail(hs)]
        /\ io' = Append(io, [filter |-> f, closure |-> c]) /\ messages' = messages
    BY <1>5 DEF Push
  <2>2. handlers'[f] = Tail(hs) /\ \A g \in Filter : g # f => handlers'[g] = handlers[g]
    BY <1>1, <2>1
  <2>3. Waits(ms, Tail(hs), P, qs) /\ Len(ps) + 1 \in DOMAIN qs /\ qs[Len(ps) + 1] = Head(hs)
    BY <1>1, <1>2, <1>5, MeetOrWait
  <2>4. Head(hs) \in Handlers
    BY <1>2, <1>5, TailFind
  <2>5. c \in Closure /\ c.message = m
    BY <2>4 DEF Closure
  <2>6. c \in Pairs(P, qs)
    BY <1>2, <2>3, <2>4, PairsPush
  <2>7. c \notin Pairs(ps, qs)
    BY <1>3, <2>5
  <2> HIDE DEF P, c
  <2> QED
    BY <1>2, <1>3, <2>1, <2>2, <2>3, <2>5, <2>6, <2>7, OnePairMore
<1> QED
  BY <1>4, <1>5

\* queue::async_pop of a handler that is not registered with the filter.
LEMMA PopPairs ==
  ASSUME PairsInv, TypesOfFilters', NEW f \in Filter, f \in Range(chain),
         NEW h \in Handlers, h \notin Range(popped[f]), AsyncPop(f, h),
         popped' = [popped EXCEPT ![f] = Append(popped[f], h)],
         chain' = chain, born' = born, invoked' = invoked, pushed' = pushed
  PROVE  (\A p : Once(io, p))' /\ (\A g \in Filter : PairsOf(g))'
<1> DEFINE ms == messages[f]
           hs == handlers[f]
           ps == pushed[f]
           qs == popped[f]
           Q == Append(qs, h)
           c == [handler |-> h, message |-> Head(ms)]
<1>1. /\ messages \in [Filter -> Seq(Messages)] /\ pushed \in [Filter -> Seq(Messages)]
      /\ handlers \in [Filter -> Seq(Handlers)] /\ popped \in [Filter -> Seq(Handlers)]
      /\ Waits(hs, ms, qs, ps)
  BY WaitsBothWays DEF PairsInv, DispatchInv, TypesOfFilters, PairsOf
<1>2. /\ ms \in Seq(Messages) /\ ps \in Seq(Messages) /\ hs \in Seq(Handlers) /\ qs \in Seq(Handlers)
      /\ popped'[f] = Q /\ \A g \in Filter : g # f => popped'[g] = popped[g]
  BY <1>1
<1>3. Pairs(ps, qs) \subseteq Pairs(ps, Q) /\ \A x \in Pairs(ps, qs) : x.handler # h
  <2>1. Pairs(ps, qs) \subseteq Pairs(ps, Q) /\ \A x \in Pairs(ps, qs) : x.handler \in Range(qs)
    BY <1>2, PairsPop
  <2>2. h \notin Range(qs)
    OBVIOUS
  <2> HIDE DEF ps, qs, Q
  <2> QED
    BY <2>1, <2>2
<1>4. CASE ms = <<>>
  <2>1. /\ handlers' = [handlers EXCEPT ![f] = Append(hs, h)]
        /\ messages' = messages /\ io' = io
    BY <1>4 DEF AsyncPop
  <2>2. handlers'[f] = Append(hs, h) /\ \A g \in Filter : g # f => handlers'[g] = handlers[g]
    BY <1>1, <2>1
  <2>3. Waits(ms, Append(hs, h), ps, Q)
    BY <1>1, <1>2, <1>4, MeetOrWait, WaitsBothWays
  <2> HIDE DEF Q
  <2> QED
    BY <1>2, <1>3, <2>1, <2>2, <2>3, OnePairMore
<1>5. CASE ms # <<>>
  <2>1. /\ messages' = [messages EXCEPT ![f] = Tail(ms)]
        /\ io' = Append(io, [filter |-> f, closure |-> c]) /\ handlers' = handlers
    BY <1>5 DEF AsyncPop
  <2>2. messages'[f] = Tail(ms) /\ \A g \in Filter : g # f => messages'[g] = messages[g]
    BY <1>1, <2>1
  <2>3. Waits(Tail(ms), hs, ps, Q) /\ Len(qs) + 1 \in DOMAIN ps /\ ps[Len(qs) + 1] = Head(ms)
    BY <1>1, <1>2, <1>5, MeetOrWait, WaitsBothWays
  <2>4. Head(ms) \in Messages
    BY <1>2, <1>5, TailFind
  <2>5. c \in Closure /\ c.handler = h
    BY <2>4 DEF Closure
  <2>6. c \in Pairs(ps, Q)
    BY <1>2, <2>3, <2>4, PairsPop
  <2>7. c \notin Pairs(ps, qs)
    BY <1>3, <2>5
  <2> HIDE DEF Q, c
  <2> QED
    BY <1>2, <1>3, <2>1, <2>2, <2>3, <2>5, <2>6, <2>7, OnePairMore
<1> QED
  BY <1>4, <1>5

\* A step that leaves the queues alone.
LEMMA QueuesAlone ==
  ASSUME PairsInv, UNCHANGED queues, chain' = chain, born' = born
  PROVE  (\A p : Once(io, p))' /\ (\A g \in Filter : PairsOf(g))'
<1>1. \A g \in Filter : Posted(g)' = Posted(g)
  BY DEF Posted, queues
<1>2. (\A p : Once(io, p)) /\ \A g \in Filter : PairsOf(g)
  BY DEF PairsInv
<1>3. (\A p : Once(io, p))'
  BY <1>2 DEF queues
<1>4. ASSUME NEW g \in Filter PROVE PairsOf(g)'
  BY <1>1, <1>2 DEF PairsOf, queues
<1> QED
  BY <1>3, <1>4

\* The closure that runs next is a pair that has not run.
LEMMA RunPairs ==
  ASSUME PairsInv, RunClosure
  PROVE  /\ Head(io).filter \in Filter /\ Head(io).closure \in Closure
         /\ Head(io).closure \in Pairs(pushed[Head(io).filter], popped[Head(io).filter])
         /\ Head(io).closure \notin Range(invoked[Head(io).filter])
         /\ (\A p : Once(io, p))' /\ (\A g \in Filter : PairsOf(g))'
<1>1. /\ io \in Seq(Posting) /\ io # <<>> /\ (\A p : Once(io, p)) /\ \A g \in Filter : PairsOf(g)
      /\ invoked \in [Filter -> Seq(Closure)]
  BY DEF PairsInv, DispatchInv, TypesOfFilters, RunClosure
<1>2. /\ Head(io) \in Posting /\ Range(io) = {Head(io)} \cup Range(Tail(io))
      /\ \A x : Once(Tail(io), x)
      /\ Head(io) \notin Range(Tail(io))
  BY <1>1, TailFind
<1>3. PICK f \in Filter, c \in Closure : Head(io) = [filter |-> f, closure |-> c]
  BY <1>2 DEF Posting
<1>4. Head(io).filter = f /\ Head(io).closure = c
  BY <1>3
<1>5. /\ invoked' = [invoked EXCEPT ![f] = Append(invoked[f], c)]
      /\ io' = Tail(io) /\ chain' = chain /\ born' = born
      /\ messages' = messages /\ handlers' = handlers /\ pushed' = pushed /\ popped' = popped
  BY <1>4 DEF RunClosure
<1>6. c \in Posted(f)
  BY <1>2, <1>3 DEF Posted
<1>7. c \in Pairs(pushed[f], popped[f]) /\ c \notin Range(invoked[f])
  BY <1>1, <1>6 DEF PairsOf
<1>8. \A g \in Filter : Posted(g)' \subseteq Posted(g)
  BY <1>2, <1>5 DEF Posted
<1>9. c \notin Posted(f)'
  BY <1>2, <1>3, <1>5 DEF Posted
<1>10. invoked[f] \in Seq(Closure)
  BY <1>1
<1>11. Range(Append(invoked[f], c)) = Range(invoked[f]) \cup {c}
  BY <1>10, AppendFind
<1>12. Range(invoked'[f]) = Range(invoked[f]) \cup {c} /\ \A g \in Filter : g # f => invoked'[g] = invoked[g]
  BY <1>1, <1>5, <1>11
<1>13. ASSUME NEW g \in Filter PROVE PairsOf(g)'
  <2>1. CASE g = f
    BY <1>1, <1>5, <1>7, <1>8, <1>9, <1>12, <2>1 DEF PairsOf
  <2>2. CASE g # f
    BY <1>1, <1>5, <1>8, <1>12, <2>2 DEF PairsOf
  <2> QED
    BY <2>1, <2>2
<1> QED
  BY <1>2, <1>4, <1>5, <1>7, <1>13

\* A filter is constructed.
LEMMA NewFilterPairs ==
  ASSUME PairsInv, NEW f \in Filter, NewFilter(f)
  PROVE  (\A p : Once(io, p))' /\ (\A g \in Filter : PairsOf(g))'
<1>1. /\ chain \in Seq(Filter) /\ born \in Seq(Filter)
      /\ (\A p : Once(io, p)) /\ (\A g \in Filter : PairsOf(g))
      /\ Range(chain) = Range(born) \ disposed
  BY DEF PairsInv, DispatchInv, TypesOfFilters, Chained
<1>2. /\ messages' = messages /\ handlers' = handlers /\ io' = io
      /\ pushed' = pushed /\ popped' = popped /\ invoked' = invoked
      /\ f \notin Range(chain) /\ f \notin disposed
      /\ chain' = Append(chain, f) /\ born' = Append(born, f)
  BY DEF NewFilter, AddFilter, queues
<1>3. Range(chain') = Range(chain) \cup {f} /\ Range(born') = Range(born) \cup {f}
  BY <1>1, <1>2, AppendFind
<1>4. \A g \in Filter : Posted(g)' = Posted(g)
  BY <1>2 DEF Posted
<1>5. Waits(<<>>, <<>>, <<>>, <<>>)
  BY DEF Waits
<1>6. ASSUME NEW g \in Filter PROVE PairsOf(g)'
  <2>1. CASE g = f
    <3>1. /\ pushed'[f] = <<>> /\ popped'[f] = <<>> /\ messages'[f] = <<>> /\ handlers'[f] = <<>>
      BY <1>1, <1>2 DEF PairsOf
    <3> QED
      BY <1>1, <1>2, <1>4, <1>5, <2>1, <3>1 DEF PairsOf
  <2>2. CASE g # f
    BY <1>1, <1>2, <1>3, <1>4, <2>2 DEF PairsOf
  <2> QED
    BY <2>1, <2>2
<1> QED
  BY <1>1, <1>2, <1>6

\* A filter is destroyed: its queue is emptied, its closures stay.
LEMMA DeleteFilterPairs ==
  ASSUME PairsInv, NEW f \in Filter, DeleteFilter(f)
  PROVE  (\A p : Once(io, p))' /\ (\A g \in Filter : PairsOf(g))'
<1>1. /\ chain \in Seq(Filter) /\ (\A x : Once(chain, x))
      /\ messages \in [Filter -> Seq(Messages)] /\ handlers \in [Filter -> Seq(Handlers)]
      /\ (\A p : Once(io, p)) /\ (\A g \in Filter : PairsOf(g))
      /\ Range(chain) \subseteq Range(born)
  BY DEF PairsInv, DispatchInv, TypesOfFilters, Chained, Aged
<1>2. /\ io' = io /\ pushed' = pushed /\ popped' = popped /\ invoked' = invoked
      /\ f \in Range(chain) /\ born' = born /\ chain' = Without(chain, f)
      /\ messages' = [messages EXCEPT ![f] = <<>>]
      /\ handlers' = [handlers EXCEPT ![f] = <<>>]
  BY DEF DeleteFilter, RemoveFilter
<1>3. Range(chain') = Range(chain) \ {f}
  BY <1>1, <1>2, WithoutKeeps
<1>4. \A g \in Filter : g # f => messages'[g] = messages[g] /\ handlers'[g] = handlers[g]
  BY <1>1, <1>2
<1>5. \A g \in Filter : Posted(g)' = Posted(g)
  BY <1>2 DEF Posted
<1>6. ASSUME NEW g \in Filter PROVE PairsOf(g)'
  <2>1. CASE g = f
    BY <1>1, <1>2, <1>3, <1>5, <2>1 DEF PairsOf
  <2>2. CASE g # f
    BY <1>1, <1>2, <1>3, <1>4, <1>5, <2>2 DEF PairsOf
  <2> QED
    BY <2>1, <2>2
<1> QED
  BY <1>1, <1>2, <1>6

\* Every step preserves the invariant of the queues.
LEMMA NextPairs == PairsInv /\ [Next]_vars => PairsInv'
<1> SUFFICES ASSUME PairsInv, [Next]_vars PROVE PairsInv'
  OBVIOUS
<1>1. DispatchInv' /\ TypesOfFilters' /\ TypesOfFilters /\ Chained /\ NotTakenYet
  BY NextDispatch DEF PairsInv, DispatchInv
<1> SUFFICES (\A p : Once(io, p))' /\ (\A g \in Filter : PairsOf(g))'
  BY <1>1 DEF PairsInv
<1>2. ASSUME NEW f \in Filter, NewFilter(f) PROVE (\A p : Once(io, p))' /\ (\A g \in Filter : PairsOf(g))'
  BY <1>2, NewFilterPairs
<1>3. ASSUME NEW f \in Filter, DeleteFilter(f) PROVE (\A p : Once(io, p))' /\ (\A g \in Filter : PairsOf(g))'
  BY <1>3, DeleteFilterPairs
<1>4. ASSUME NEW f \in Filter, NEW h \in Handlers, AsyncDispatch(f, h)
      PROVE  (\A p : Once(io, p))' /\ (\A g \in Filter : PairsOf(g))'
  <2>1. /\ f \in Range(chain) /\ h \notin Range(popped[f]) /\ AsyncPop(f, h)
        /\ popped' = [popped EXCEPT ![f] = Append(popped[f], h)]
        /\ chain' = chain /\ born' = born /\ invoked' = invoked /\ pushed' = pushed
    BY <1>4 DEF AsyncDispatch
  <2> QED
    BY <1>1, <2>1, PopPairs
<1>5. ASSUME NEW m \in Messages, Dispatch(m) PROVE (\A p : Once(io, p))' /\ (\A g \in Filter : PairsOf(g))'
  BY <1>5, QueuesAlone DEF Dispatch
<1>6. ASSUME NEW outcome \in {"accept", "refuse", "throw"}, FilterCallback(outcome)
      PROVE  (\A p : Once(io, p))' /\ (\A g \in Filter : PairsOf(g))'
  <2>1. chain' = chain /\ born' = born /\ popped' = popped /\ invoked' = invoked
    BY <1>6 DEF FilterCallback
  <2>2. CASE outcome = "accept"
    <3>1. PICK f \in Filter, m \in Messages : f = Head(rest) /\ m = current
      BY <1>1, <1>6, Asked DEF FilterCallback
    <3>2. f \in Range(chain)
      BY <1>1, <1>6, <3>1, Asked DEF FilterCallback
    <3>3. m \notin Range(pushed[f])
      BY <1>1, <1>6, <3>1 DEF FilterCallback, NotTakenYet, Takers
    <3>4. Push(f, m) /\ pushed' = [pushed EXCEPT ![f] = Append(pushed[f], m)]
      BY <1>6, <2>2, <3>1 DEF FilterCallback
    <3> QED
      BY <1>1, <2>1, <3>2, <3>3, <3>4, PushPairs
  <2>3. CASE outcome # "accept"
    <3>1. UNCHANGED queues
      BY <1>6, <2>1, <2>3 DEF FilterCallback, queues
    <3> QED
      BY <2>1, <3>1, QueuesAlone
  <2> QED
    BY <2>2, <2>3
<1>7. CASE RunClosure
  BY <1>7, RunPairs
<1>8. CASE UNCHANGED vars
  BY <1>8, QueuesAlone DEF vars
<1> QED
  BY <1>2, <1>3, <1>4, <1>5, <1>6, <1>7, <1>8 DEF Next

\* A step is one of the rendezvous, or none, for each of the filters.
LEMMA NextRendezvous ==
  PairsInv /\ [Next]_vars => [\A f \in Filter : [R(f)!Next]_(R(f)!vars)]_vars
<1> SUFFICES ASSUME PairsInv, [Next]_vars, NEW f \in Filter PROVE [R(f)!Next]_(R(f)!vars)
  OBVIOUS
<1>1. /\ TypesOfFilters /\ Chained /\ NotTakenYet
      /\ pushed \in [Filter -> Seq(Messages)] /\ popped \in [Filter -> Seq(Handlers)]
      /\ invoked \in [Filter -> Seq(Closure)]
  BY DEF PairsInv, DispatchInv, TypesOfFilters
<1>2. ASSUME pushed'[f] = pushed[f], popped'[f] = popped[f], invoked'[f] = invoked[f]
      PROVE  [R(f)!Next]_(R(f)!vars)
  BY <1>2 DEF R!vars
<1>3. CASE UNCHANGED <<pushed, popped, invoked>>
  BY <1>2, <1>3
<1>4. ASSUME NEW g \in Filter, NewFilter(g) \/ DeleteFilter(g) PROVE [R(f)!Next]_(R(f)!vars)
  BY <1>3, <1>4 DEF NewFilter, DeleteFilter, queues
<1>5. ASSUME NEW m \in Messages, Dispatch(m) PROVE [R(f)!Next]_(R(f)!vars)
  BY <1>3, <1>5 DEF Dispatch, queues
<1>6. CASE UNCHANGED vars
  BY <1>3, <1>6 DEF vars, queues
<1>7. ASSUME NEW g \in Filter, NEW h \in Handlers, AsyncDispatch(g, h)
      PROVE  [R(f)!Next]_(R(f)!vars)
  <2>1. /\ h \notin Range(popped[g]) /\ popped' = [popped EXCEPT ![g] = Append(popped[g], h)]
        /\ pushed' = pushed /\ invoked' = invoked
    BY <1>7 DEF AsyncDispatch
  <2>2. CASE g = f
    <3>1. R(f)!Pop(h)
      BY <1>1, <2>1, <2>2 DEF R!Pop, R!Elements, Range
    <3> QED
      BY <3>1 DEF R!Next
  <2>3. CASE g # f
    BY <1>1, <1>2, <2>1, <2>3
  <2> QED
    BY <2>2, <2>3
<1>8. ASSUME NEW outcome \in {"accept", "refuse", "throw"}, FilterCallback(outcome)
      PROVE  [R(f)!Next]_(R(f)!vars)
  <2>1. PICK g \in Filter, m \in Messages : g = Head(rest) /\ m = current
    BY <1>1, <1>8, Asked DEF FilterCallback
  <2>2. m \notin Range(pushed[g])
    BY <1>1, <1>8, <2>1 DEF FilterCallback, NotTakenYet, Takers
  <2>3. /\ popped' = popped /\ invoked' = invoked
        /\ pushed' = pushed \/ pushed' = [pushed EXCEPT ![g] = Append(pushed[g], m)]
    BY <1>8, <2>1 DEF FilterCallback
  <2>4. CASE pushed' = pushed
    BY <1>3, <2>3, <2>4
  <2>5. CASE pushed' = [pushed EXCEPT ![g] = Append(pushed[g], m)]
    <3>1. CASE g = f
      <4>1. R(f)!Push(m)
        BY <1>1, <2>2, <2>3, <2>5, <3>1 DEF R!Push, R!Elements, Range
      <4> QED
        BY <4>1 DEF R!Next
    <3>2. CASE g # f
      BY <1>1, <1>2, <2>3, <2>5, <3>2
    <3> QED
      BY <3>1, <3>2
  <2> QED
    BY <2>3, <2>4, <2>5
<1>9. CASE RunClosure
  <2> DEFINE g == Head(io).filter
             c == Head(io).closure
  <2>1. /\ g \in Filter /\ c \in Closure
        /\ c \in Pairs(pushed[g], popped[g]) /\ c \notin Range(invoked[g])
    BY <1>9, RunPairs
  <2>2. /\ invoked' = [invoked EXCEPT ![g] = Append(invoked[g], c)]
        /\ pushed' = pushed /\ popped' = popped
    BY <1>9 DEF RunClosure
  <2> HIDE DEF g, c
  <2>3. CASE g = f
    <3>1. PICK i \in DOMAIN pushed[f] \cap DOMAIN popped[f] :
            c = [handler |-> popped[f][i], message |-> pushed[f][i]]
      BY <2>1, <2>3 DEF Pairs
    <3>2. R(f)!Invoke(i)
      BY <1>1, <2>1, <2>2, <2>3, <3>1 DEF R!Invoke, R!Elements, Range
    <3> QED
      BY <3>2 DEF R!Next
  <2>4. CASE g # f
    BY <1>1, <1>2, <2>2, <2>4
  <2> QED
    BY <2>3, <2>4
<1> QED
  BY <1>4, <1>5, <1>6, <1>7, <1>8, <1>9 DEF Next

\* Every filter keeps the promise of detail::queue for itself: the i-th message it takes
\* meets the i-th handler registered with it, once, for any filters that come and go.
THEOREM FiltersAreRendezvous == Spec => EachIsRendezvous
<1>1. Init => \A f \in Filter : R(f)!Init
  BY DEF Init, Empty, R!Init
<1> QED
  BY <1>1, InitFilters, NextPairs, NextRendezvous, PTL DEF Spec, EachIsRendezvous
=============================================================================
