------------------------- MODULE ObjectServerProofs -------------------------
(***************************************************************************)
(* Proofs about the two models of DbusObjectServer: ObjectServer for any   *)
(* objects, paths and requests, and Introspection for any objects, paths,  *)
(* interfaces and methods, both without the bounds that TLC needs.  The    *)
(* two have the objects in common, and no action.                          *)
(***************************************************************************)
EXTENDS ObjectServer, Introspection, DataLemmas

Closure == [filter : Filter, message : Requests]

Outcome == {"return", "InvalidArgs", "Failed"}
Reply == [to : Requests, what : Outcome, lists : SUBSET (Objects \cup {Null})]

\* The types of the variables.
TypesOfServer ==
  /\ objects \in Seq(Objects \cup {Null})
  /\ backlog \in [Filter -> Seq(Requests)]
  /\ waiting \in [Filter -> Nat]
  /\ io \in Seq(Closure)
  /\ replies \in Seq(Reply)
  /\ crashed \in BOOLEAN
  /\ arrived \in Seq(Requests)
  /\ listed \in [Requests -> SUBSET Objects]
  /\ removed \in SUBSET Objects

\* The filters that accept a message, by their position.
Taking(m) == {i \in DOMAIN Filters : Accepts(Filters[i], m)}

\* m has arrived, and f is the filter that takes it.
Takes(f, m) == Taking(m) # {} /\ FilterOf(m) = f /\ m \in Range(arrived)

\* Whatever waits or was answered has arrived, and waits in the queue of its filter.
Routed ==
  /\ \A c \in Range(io) : Takes(c.filter, c.message)
  /\ \A f \in Filter : \A m \in Range(backlog[f]) : Takes(f, m)
  /\ \A r \in Range(replies) : \E f \in Filter : Takes(f, r.to)

\* A handler waits only for a message that has not come.
IdleQueue == \A f \in Filter : waiting[f] > 0 => backlog[f] = <<>>

\* m arrived before n.
Earlier(m, n) == Precedes(arrived, m, n)

\* The messages of a filter pass through its queue and its handler in the order in
\* which they arrived: answered, being handled, waiting.
OrderedFor(f) ==
  /\ \A i, j \in DOMAIN replies :
       (i < j /\ FilterOf(replies[i].to) = f /\ FilterOf(replies[j].to) = f)
         => Earlier(replies[i].to, replies[j].to)
  /\ \A r \in Range(replies), c \in Range(io) :
       (FilterOf(r.to) = f /\ c.filter = f) => Earlier(r.to, c.message)
  /\ \A r \in Range(replies), m \in Range(backlog[f]) :
       FilterOf(r.to) = f => Earlier(r.to, m)
  /\ \A c \in Range(io), m \in Range(backlog[f]) :
       c.filter = f => Earlier(c.message, m)
  /\ \A i, j \in DOMAIN backlog[f] :
       i < j => Earlier(backlog[f][i], backlog[f][j])

\* The inductive invariant of the queues.
ServerInv ==
  /\ TypesOfServer
  /\ Routed
  /\ \A m : Once(arrived, m)
  /\ OneHandlerPerFilter
  /\ IdleQueue
  /\ \A f \in Filter : OrderedFor(f)

\* An object that was registered when a message arrived is still there, unless it was
\* removed.
StillThere == \A m \in Requests : listed[m] \ removed \subseteq Range(objects)

\* The inductive invariant of the objects.
ObjectsInv == ServerInv /\ StillThere /\ ManagedObjectsComplete

-----------------------------------------------------------------------------
(* Filters and answers *)

LEMMA FilterNames ==
  /\ DOMAIN Filters = 1..3
  /\ Filters[1] = "introspect_filter" /\ Filters[2] = "object_manager_filter"
  /\ Filters[3] = "method_filter"
  /\ Filter = {"introspect_filter", "object_manager_filter", "method_filter"}
BY DEF Filter, Filters, Range

\* The first filter that accepts a message.
LEMMA FirstFilter ==
  ASSUME NEW m, Taking(m) # {}
  PROVE  /\ FilterOf(m) \in Filter
         /\ Filters[Min(Taking(m))] = FilterOf(m)
         /\ m.target = "GetManagedObjects" => FilterOf(m) = "object_manager_filter"
<1> DEFINE T == Taking(m)
           k == Min(T)
<1>1. T \in SUBSET (1..3)
  BY FilterNames DEF Taking
<1>2. \E x \in T : \A y \in T : x <= y
  BY <1>1, LeastNat
<1>3. k \in T /\ \A y \in T : k <= y
  <2> HIDE DEF T
  <2> QED
    BY <1>2 DEF Min
<1>4. FilterOf(m) = Filters[k]
  BY DEF FilterOf, Taking
<1>5. FilterOf(m) \in Filter
  BY <1>1, <1>3, <1>4, FilterNames
<1>6. ASSUME m.target = "GetManagedObjects" PROVE k = 2
  <2>1. 1 \notin T
    BY <1>6, FilterNames DEF Taking, Accepts
  <2>2. 3 \in T => 2 \in T
    BY <1>6, FilterNames DEF Taking, Accepts
  <2> HIDE DEF T, k
  <2> QED
    BY <1>1, <1>3, <2>1, <2>2
<1> QED
  BY <1>4, <1>5, <1>6, FilterNames

\* A handler sends at most one reply, to the message it was given.
LEMMA AnswersFacts ==
  ASSUME TypesOfServer, NEW f \in Filter, NEW m \in Requests
  PROVE  /\ Answers(f, m) \in Seq(Reply)
         /\ Len(Answers(f, m)) \in {0, 1}
         /\ \A r \in Range(Answers(f, m)) : r.to = m
         /\ f = "object_manager_filter" =>
              \A r \in Range(Answers(f, m)) : r.lists = Range(objects)
<1>1. Range(objects) \in SUBSET (Objects \cup {Null})
  BY ElementOfSeq DEF TypesOfServer, Range
<1>2. ASSUME NEW r \in Reply, r.to = m, r.lists = Range(objects) \/ f # "object_manager_filter",
             Answers(f, m) = <<r>>
      PROVE  /\ Answers(f, m) \in Seq(Reply)
             /\ Len(Answers(f, m)) \in {0, 1}
             /\ \A s \in Range(Answers(f, m)) : s.to = m
             /\ f = "object_manager_filter" =>
                  \A s \in Range(Answers(f, m)) : s.lists = Range(objects)
  <2>1. <<r>> \in Seq(Reply) /\ Range(<<r>>) = {r} /\ Len(<<r>>) = 1
    BY SingleFind
  <2> QED
    BY <1>2, <2>1
<1>3. CASE f = "introspect_filter"
  <2> DEFINE r == [to |-> m, what |-> "return", lists |-> {}]
  <2>1. r \in Reply /\ r.to = m /\ f # "object_manager_filter"
    BY <1>3 DEF Reply, Outcome
  <2>2. Answers(f, m) = <<r>>
    BY <1>3 DEF Answers
  <2> HIDE DEF r
  <2> QED
    BY <1>2, <2>1, <2>2
<1>4. CASE f = "object_manager_filter"
  <2> DEFINE r == [to |-> m, what |-> "return", lists |-> Range(objects)]
  <2>1. r \in Reply /\ r.to = m /\ r.lists = Range(objects)
    BY <1>1 DEF Reply, Outcome
  <2>2. Answers(f, m) = <<r>>
    BY <1>4 DEF Answers, Managed
  <2> HIDE DEF r
  <2> QED
    BY <1>2, <2>1, <2>2
<1>5. CASE f = "method_filter"
  <2> DEFINE A == MethodAnswers(m)
             B == [i \in DOMAIN A |-> [to |-> m, what |-> A[i], lists |-> {}]]
  <2>1. A \in Seq(Outcome) /\ Len(A) \in {0, 1} /\ DOMAIN A = 1..Len(A)
    <3>1. m.finds \in {"no_interface", "no_method", "bad_args", "throws", "pack_fails", "result"}
      BY ServerAssumption DEF Request
    <3>2. A = <<>> \/ A = <<"InvalidArgs">> \/ A = <<"Failed">> \/ A = <<"return">>
      BY <3>1, Zenon DEF MethodAnswers
    <3>3. ASSUME NEW w \in Outcome
          PROVE  <<w>> \in Seq(Outcome) /\ Len(<<w>>) = 1 /\ DOMAIN <<w>> = 1..1
      OBVIOUS
    <3>4. <<>> \in Seq(Outcome) /\ Len(<<>>) = 0 /\ DOMAIN <<>> = 1..0
      OBVIOUS
    <3>5. A = <<>> \/ \E w \in Outcome : A = <<w>>
      BY <3>2, Zenon DEF Outcome
    <3> HIDE DEF A
    <3> QED
      BY <3>3, <3>4, <3>5
  <2>2. Answers(f, m) = <<>> \/ Answers(f, m) = B
    BY <1>5 DEF Answers
  <2> HIDE DEF A
  <2>3. B \in [1..Len(A) -> Reply] /\ \A i \in DOMAIN B : B[i].to = m
    BY <2>1, ElementOfSeq DEF Reply
  <2>4. B \in Seq(Reply) /\ Len(B) = Len(A)
    BY <2>1, <2>3
  <2>5. \A r \in Range(B) : r.to = m
    BY <2>3 DEF Range
  <2> HIDE DEF B
  <2>6. <<>> \in Seq(Reply) /\ Len(<<>>) = 0 /\ Range(<<>>) = {}
    BY EmptyFind
  <2> QED
    BY <1>5, <2>1, <2>2, <2>4, <2>5, <2>6
<1> QED
  BY <1>3, <1>4, <1>5, FilterNames

-----------------------------------------------------------------------------
(* The queues *)

\* The closures of a filter.
Of(f) == {c \in Closure : c.filter = f}

\* The closures of f, counted.
LEMMA ClosuresOf ==
  ASSUME NEW q \in Seq(Closure), NEW f
  PROVE  {i \in DOMAIN q : q[i].filter = f} = Hits(q, Of(f))
BY ElementOfSeq, LenProperties DEF Hits, Of

\* How many closures of f are posted.
Posted(f) == Cardinality(Hits(io, Of(f)))

OnePosted == \A f \in Filter : waiting[f] + Posted(f) = 1

LEMMA OneHandlerParts == TypesOfServer => (OneHandlerPerFilter <=> OnePosted)
BY ClosuresOf DEF OneHandlerPerFilter, OnePosted, Posted, TypesOfServer

\* The constructor establishes the invariants.
LEMMA InitServer == Init => ObjectsInv
<1> SUFFICES ASSUME Init PROVE ObjectsInv
  OBVIOUS
<1>1. Range(<<>>) = {} /\ DOMAIN <<>> = {} /\ \A x : Once(<<>>, x)
  BY EmptyFind
<1>2. TypesOfServer
  <2>1. /\ objects \in Seq(Objects \cup {Null}) /\ io \in Seq(Closure)
        /\ replies \in Seq(Reply) /\ arrived \in Seq(Requests)
    BY EmptyFind DEF Init
  <2>2. backlog \in [Filter -> Seq(Requests)] /\ waiting \in [Filter -> Nat]
    BY EmptyFind DEF Init
  <2>3. crashed \in BOOLEAN /\ listed \in [Requests -> SUBSET Objects] /\ removed \in SUBSET Objects
    BY DEF Init
  <2> QED
    BY <2>1, <2>2, <2>3 DEF TypesOfServer
<1>3. Routed
  BY <1>1 DEF Init, Routed
<1>4. \A m : Once(arrived, m)
  BY <1>1 DEF Init
<1>5. OneHandlerPerFilter
  <2>1. \A f \in Filter : Posted(f) = 0
    BY <1>1, FS_EmptySet DEF Init, Posted, Hits
  <2>2. \A f \in Filter : waiting[f] + Posted(f) = 1
    BY <2>1 DEF Init
  <2> QED
    BY <1>2, <2>2, OneHandlerParts DEF OnePosted
<1>6. IdleQueue
  BY DEF Init, IdleQueue
<1>7. \A f \in Filter : OrderedFor(f)
  BY <1>1 DEF Init, OrderedFor
<1>8. StillThere /\ ManagedObjectsComplete
  BY <1>1 DEF Init, StillThere, ManagedObjectsComplete
<1> QED
  BY <1>2, <1>3, <1>4, <1>5, <1>6, <1>7, <1>8 DEF ObjectsInv, ServerInv

\* What a new arrival does to the order of arrival.
LEMMA ArrivalOrder ==
  ASSUME TypesOfServer, NEW m \in Requests, arrived' = Append(arrived, m)
  PROVE  /\ arrived' \in Seq(Requests)
         /\ Range(arrived') = Range(arrived) \cup {m}
         /\ \A x, y : Earlier(x, y) => Precedes(arrived', x, y)
         /\ \A x \in Range(arrived) : Precedes(arrived', x, m)
         /\ (m \notin Range(arrived) /\ \A x : Once(arrived, x)) => \A x : Once(arrived', x)
<1>1. arrived \in Seq(Requests)
  BY DEF TypesOfServer
<1> QED
  BY <1>1, AppendFind, AppendOrder DEF Earlier

\* A message that arrives.
LEMMA ArriveServer ==
  ASSUME ServerInv, NEW m \in Requests, Arrive(m)
  PROVE  ServerInv'
<1> DEFINE f == FilterOf(m)
           c == [filter |-> f, message |-> m]
<1>1. /\ TypesOfServer /\ Routed /\ IdleQueue
      /\ \A x : Once(arrived, x)
      /\ \A g \in Filter : OrderedFor(g)
  BY DEF ServerInv
<1>2. /\ objects \in Seq(Objects \cup {Null}) /\ backlog \in [Filter -> Seq(Requests)]
      /\ waiting \in [Filter -> Nat] /\ io \in Seq(Closure)
  BY <1>1 DEF TypesOfServer
<1>3. \A g \in Filter : waiting[g] + Posted(g) = 1
  BY <1>1, OneHandlerParts DEF ServerInv, OnePosted
<1>4. m \notin Range(arrived) /\ arrived' = Append(arrived, m)
      /\ objects' = objects /\ replies' = replies /\ crashed' = crashed /\ removed' = removed
  BY DEF Arrive
<1>5. /\ arrived' \in Seq(Requests)
      /\ Range(arrived') = Range(arrived) \cup {m}
      /\ \A x, y : Earlier(x, y) => Precedes(arrived', x, y)
      /\ \A x \in Range(arrived) : Precedes(arrived', x, m)
      /\ \A x : Once(arrived', x)
  BY <1>1, <1>4, ArrivalOrder
<1>6. listed' \in [Requests -> SUBSET Objects]
  <2>1. Range(objects) \ {Null} \in SUBSET Objects
    BY <1>2, ElementOfSeq DEF Range
  <2> QED
    BY <1>1, <2>1 DEF Arrive, TypesOfServer
<1>7. CASE Taking(m) = {}
  <2>1. io' = io /\ backlog' = backlog /\ waiting' = waiting
    BY <1>7 DEF Arrive, Taking, queues
  <2>2. TypesOfServer'
    BY <1>1, <1>4, <1>5, <1>6, <2>1 DEF TypesOfServer
  <2>3. Routed'
    BY <1>1, <1>4, <1>5, <2>1 DEF Routed, Takes
  <2>4. OneHandlerPerFilter' /\ IdleQueue'
    BY <1>1, <2>1 DEF ServerInv, OneHandlerPerFilter, IdleQueue
  <2>5. ASSUME NEW g \in Filter PROVE OrderedFor(g)'
    BY <1>1, <1>4, <1>5, <2>1 DEF OrderedFor, Earlier
  <2> QED
    BY <1>5, <2>2, <2>3, <2>4, <2>5 DEF ServerInv
<1>8. CASE Taking(m) # {}
  <2>1. Push(f, m) /\ f \in Filter
    <3>1. f \in Filter /\ Filters[Min(Taking(m))] = f
      BY <1>8, FirstFilter
    <3> HIDE DEF f
    <3> QED
      BY <1>8, <3>1 DEF Arrive, Taking
  <2>2. c \in Closure /\ c.filter = f /\ c.message = m
    BY <2>1 DEF Closure
  <2>3. Taking(m) # {} /\ FilterOf(m) = f /\ m \in Range(arrived')
    BY <1>5, <1>8
  <2> HIDE DEF f, c
  <2>4. CASE waiting[f] > 0
    <3>1. /\ waiting' = [waiting EXCEPT ![f] = @ - 1] /\ io' = Append(io, c)
          /\ backlog' = backlog /\ backlog[f] = <<>>
      BY <1>1, <2>1, <2>4 DEF Push, IdleQueue, c
    <3>2. io' \in Seq(Closure) /\ Range(io') = Range(io) \cup {c}
      BY <1>2, <2>2, <3>1, AppendFind
    <3>3. TypesOfServer'
      BY <1>1, <1>4, <1>5, <1>6, <2>1, <2>4, <3>1, <3>2 DEF TypesOfServer
    <3>4. Routed'
      BY <1>1, <1>4, <1>5, <2>2, <2>3, <3>1, <3>2 DEF Routed, Takes
    <3>5. OneHandlerPerFilter'
      <4>1. ASSUME NEW g \in Filter PROVE waiting'[g] + Posted(g)' = 1
        <5>1. Posted(g)' = Posted(g) + IF c \in Of(g) THEN 1 ELSE 0
          <6>1. Posted(g)' = Cardinality(Hits(Append(io, c), Of(g)))
            BY <3>1 DEF Posted, Hits, Of, Closure
          <6> QED
            BY <1>2, <2>2, <6>1, HitsAppend DEF Posted
        <5>2. c \in Of(g) <=> g = f
          BY <2>2 DEF Of
        <5>3. Posted(g) \in Nat
          BY <1>2, HitsFinite DEF Posted
        <5> QED
          BY <1>2, <1>3, <2>4, <3>1, <5>1, <5>2, <5>3
      <4>2. OnePosted'
        BY <4>1 DEF OnePosted
      <4> QED
        BY <3>3, <4>2, OneHandlerParts, PTL
    <3>6. IdleQueue'
      BY <1>1, <1>2, <2>1, <3>1 DEF IdleQueue
    <3>7. ASSUME NEW g \in Filter PROVE OrderedFor(g)'
      <4>1. \A r \in Range(replies) : r.to \in Range(arrived)
        BY <1>1 DEF Routed, Takes
      <4>2. Range(backlog[f]) = {}
        BY <3>1, EmptyFind
      <4>3. OrderedFor(g)
        BY <1>1
      <4> QED
        BY <1>4, <1>5, <2>2, <3>1, <3>2, <4>1, <4>2, <4>3 DEF OrderedFor, Earlier
    <3> QED
      BY <1>5, <3>3, <3>4, <3>5, <3>6, <3>7 DEF ServerInv
  <2>5. CASE ~(waiting[f] > 0)
    <3>1. /\ waiting' = waiting /\ io' = io
          /\ backlog' = [backlog EXCEPT ![f] = Append(backlog[f], m)]
      BY <2>1, <2>5 DEF Push
    <3> DEFINE b == Append(backlog[f], m)
    <3>2. backlog[f] \in Seq(Requests)
      BY <1>2, <2>1
    <3>3. /\ b \in Seq(Requests) /\ Range(b) = Range(backlog[f]) \cup {m}
          /\ Len(b) = Len(backlog[f]) + 1 /\ b[Len(b)] = m
          /\ \A i \in 1..Len(backlog[f]) : b[i] = backlog[f][i]
          /\ DOMAIN backlog[f] = 1..Len(backlog[f]) /\ DOMAIN b = 1..Len(b) /\ Len(backlog[f]) \in Nat
      BY <3>2, AppendFind
    <3> HIDE DEF b
    <3>4. backlog'[f] = b /\ \A g \in Filter \ {f} : backlog'[g] = backlog[g]
      BY <1>2, <2>1, <3>1 DEF b
    <3>5. TypesOfServer'
      BY <1>1, <1>2, <1>4, <1>5, <1>6, <2>1, <3>1, <3>3, <3>4 DEF TypesOfServer, b
    <3>6. Routed'
      <4>1. ASSUME NEW g \in Filter, NEW x \in Range(backlog'[g]) PROVE Takes(g, x)'
        <5>1. CASE g = f /\ x = m
          BY <2>3, <5>1 DEF Takes
        <5>2. CASE ~(g = f /\ x = m)
          <6>1. x \in Range(backlog[g])
            BY <3>3, <3>4, <4>1, <5>2
          <6> QED
            BY <1>1, <1>5, <6>1 DEF Routed, Takes
        <5> QED
          BY <5>1, <5>2
      <4> QED
        BY <1>1, <1>4, <1>5, <3>1, <4>1 DEF Routed, Takes
    <3>7. OneHandlerPerFilter' /\ IdleQueue'
      BY <1>1, <1>2, <2>1, <2>5, <3>1, <3>4 DEF ServerInv, OneHandlerPerFilter, IdleQueue
    <3>8. ASSUME NEW g \in Filter, g # f PROVE OrderedFor(g)'
      BY <1>1, <1>4, <1>5, <3>1, <3>4, <3>8 DEF OrderedFor, Earlier
    <3>9. OrderedFor(f)'
      <4>1. /\ \A r \in Range(replies) : r.to \in Range(arrived)
            /\ \A d \in Range(io) : d.message \in Range(arrived)
            /\ \A x \in Range(backlog[f]) : x \in Range(arrived)
        BY <1>1, <2>1 DEF Routed, Takes
      <4>2. \A i \in DOMAIN backlog[f] : backlog[f][i] \in Range(arrived)
        BY <4>1 DEF Range
      <4>3. OrderedFor(f)
        BY <1>1, <2>1
      <4>4. \A i, j \in DOMAIN b : i < j => Precedes(arrived', b[i], b[j])
        <5> SUFFICES ASSUME NEW i \in DOMAIN b, NEW j \in DOMAIN b, i < j
                     PROVE  Precedes(arrived', b[i], b[j])
          OBVIOUS
        <5>1. i \in DOMAIN backlog[f] /\ b[i] = backlog[f][i]
          BY <3>3
        <5>2. CASE j = Len(b)
          BY <1>5, <3>3, <4>2, <5>1, <5>2
        <5>3. CASE j # Len(b)
          <6>1. j \in DOMAIN backlog[f] /\ b[j] = backlog[f][j]
            BY <3>3, <5>3
          <6> QED
            BY <1>5, <4>3, <5>1, <6>1 DEF OrderedFor
        <5> QED
          BY <5>2, <5>3
      <4>5. \A x \in Range(backlog'[f]) : x \in Range(backlog[f]) \/ x = m
        BY <3>3, <3>4
      <4>6. /\ \A r \in Range(replies'), x \in Range(backlog'[f]) :
                 FilterOf(r.to) = f => Precedes(arrived', r.to, x)
            /\ \A d \in Range(io'), x \in Range(backlog'[f]) :
                 d.filter = f => Precedes(arrived', d.message, x)
        BY <1>4, <1>5, <3>1, <4>1, <4>3, <4>5 DEF OrderedFor
      <4>7. /\ \A i, j \in DOMAIN replies' :
                 (i < j /\ FilterOf(replies'[i].to) = f /\ FilterOf(replies'[j].to) = f)
                   => Precedes(arrived', replies'[i].to, replies'[j].to)
            /\ \A r \in Range(replies'), d \in Range(io') :
                 (FilterOf(r.to) = f /\ d.filter = f) => Precedes(arrived', r.to, d.message)
        BY <1>4, <1>5, <3>1, <4>3 DEF OrderedFor
      <4>8. \A i, j \in DOMAIN backlog'[f] :
              i < j => Precedes(arrived', backlog'[f][i], backlog'[f][j])
        BY <3>4, <4>4
      <4> QED
        BY <4>6, <4>7, <4>8 DEF OrderedFor, Earlier, f
    <3> QED
      BY <1>5, <3>5, <3>6, <3>7, <3>8, <3>9 DEF ServerInv
  <2> QED
    BY <2>4, <2>5
<1> QED
  BY <1>7, <1>8

\* What running a handler does to the replies: at most one more, to the message that
\* was handled.
LEMMA RepliesGrow ==
  ASSUME ServerInv, RunHandler
  PROVE  LET f == Head(io).filter
             m == Head(io).message
         IN  /\ replies' \in Seq(Reply)
             /\ \A r \in Range(replies') : r \in Range(replies) \/ r.to = m
             /\ \A i, j \in DOMAIN replies' : i < j =>
                  /\ i \in DOMAIN replies /\ replies'[i] = replies[i]
                  /\ (j \in DOMAIN replies /\ replies'[j] = replies[j]) \/ replies'[j].to = m
<1> DEFINE f == Head(io).filter
           m == Head(io).message
           A == Answers(f, m)
           n == Len(replies)
<1>1. TypesOfServer /\ io \in Seq(Closure) /\ io # <<>> /\ replies \in Seq(Reply)
  BY DEF ServerInv, TypesOfServer, RunHandler
<1>2. f \in Filter /\ m \in Requests
  <2>1. Head(io) \in Closure
    BY <1>1, TailFind
  <2> QED
    BY <2>1 DEF Closure
<1>3. /\ A \in Seq(Reply) /\ Len(A) \in {0, 1}
      /\ \A r \in Range(A) : r.to = m
  BY <1>1, <1>2, AnswersFacts
<1>4. replies' = replies \o A
  BY DEF RunHandler
<1> HIDE DEF A, m, f
<1>5. /\ replies' \in Seq(Reply) /\ Range(replies') = Range(replies) \cup Range(A)
      /\ DOMAIN replies' = 1..(n + Len(A)) /\ DOMAIN replies = 1..n /\ n \in Nat
      /\ \A i \in 1..(n + Len(A)) : replies'[i] = IF i <= n THEN replies[i] ELSE A[i - n]
  BY <1>1, <1>3, <1>4, ConcatFind, ConcatProperties, LenProperties
<1>6. \A i \in DOMAIN A : A[i].to = m
  BY <1>3 DEF Range
<1> HIDE DEF n
<1>7. ASSUME NEW i \in DOMAIN replies', NEW j \in DOMAIN replies', i < j
      PROVE  /\ i \in DOMAIN replies /\ replies'[i] = replies[i]
             /\ (j \in DOMAIN replies /\ replies'[j] = replies[j]) \/ replies'[j].to = m
  <2>1. i <= n /\ i \in DOMAIN replies
    BY <1>3, <1>5, <1>7
  <2>2. j <= n => j \in DOMAIN replies /\ replies'[j] = replies[j]
    BY <1>5
  <2>3. ~(j <= n) => j - n \in DOMAIN A /\ replies'[j] = A[j - n]
    BY <1>3, <1>5
  <2> QED
    BY <1>5, <1>6, <2>1, <2>2, <2>3
<1> QED
  BY <1>3, <1>5, <1>7 DEF f, m

\* A handler that runs and takes its next message, if there is one.
LEMMA RunServer ==
  ASSUME ServerInv, RunHandler
  PROVE  ServerInv'
<1> DEFINE f == Head(io).filter
           m == Head(io).message
           q == Tail(io)
<1>1. /\ TypesOfServer /\ Routed /\ IdleQueue
      /\ \A x : Once(arrived, x)
      /\ \A g \in Filter : OrderedFor(g)
  BY DEF ServerInv
<1>2. /\ backlog \in [Filter -> Seq(Requests)] /\ waiting \in [Filter -> Nat]
      /\ io \in Seq(Closure) /\ io # <<>>
  BY <1>1 DEF TypesOfServer, RunHandler
<1>3. \A g \in Filter : waiting[g] + Posted(g) = 1
  BY <1>1, OneHandlerParts DEF ServerInv, OnePosted
<1>4. /\ AsyncPop(f, q)
      /\ objects' = objects /\ crashed' = crashed /\ arrived' = arrived /\ listed' = listed
      /\ removed' = removed
  BY DEF RunHandler
<1>5. /\ Head(io) \in Closure /\ q \in Seq(Closure)
      /\ Range(io) = {Head(io)} \cup Range(q)
  BY <1>2, TailFind
<1>6. f \in Filter /\ m \in Requests /\ Takes(f, m) /\ Head(io) \in Range(io)
  BY <1>1, <1>5 DEF Closure, Routed
<1>7. /\ replies' \in Seq(Reply)
      /\ \A r \in Range(replies') : r \in Range(replies) \/ r.to = m
      /\ \A i, j \in DOMAIN replies' : i < j =>
           /\ i \in DOMAIN replies /\ replies'[i] = replies[i]
           /\ (j \in DOMAIN replies /\ replies'[j] = replies[j]) \/ replies'[j].to = m
  BY RepliesGrow
<1>8. \A g \in Filter : /\ Posted(g) = Cardinality(Hits(q, Of(g))) + IF g = f THEN 1 ELSE 0
                        /\ Cardinality(Hits(q, Of(g))) \in Nat
  <2>1. ASSUME NEW g \in Filter
        PROVE  /\ Posted(g) = Cardinality(Hits(q, Of(g))) + IF Head(io) \in Of(g) THEN 1 ELSE 0
               /\ Cardinality(Hits(q, Of(g))) \in Nat
    BY <1>2, <1>5, HitsTail, HitsFinite DEF Posted
  <2>2. \A g : Head(io) \in Of(g) <=> g = f
    BY <1>5 DEF Of
  <2> QED
    BY <2>1, <2>2
<1>9. waiting[f] = 0 /\ Cardinality(Hits(q, Of(f))) = 0
  <2> HIDE DEF f, q
  <2> QED
    BY <1>2, <1>3, <1>6, <1>8
<1>10. \A d \in Range(q) : d.filter # f
  <2>1. \A d \in Range(q) : d \notin Of(f)
    BY <1>5, <1>9, NoHits
  <2>2. \A d \in Range(q) : d \in Closure
    BY <1>5, ElementOfSeq DEF Range
  <2> QED
    BY <2>1, <2>2 DEF Of
<1>11. \A r \in Range(replies') : \E g \in Filter : Takes(g, r.to)
  BY <1>1, <1>6, <1>7 DEF Routed
<1>12. FilterOf(m) = f
  BY <1>6 DEF Takes
<1> HIDE DEF f, m, q
<1>13. ASSUME NEW g \in Filter
       PROVE  \A i, j \in DOMAIN replies' :
                (i < j /\ FilterOf(replies'[i].to) = g /\ FilterOf(replies'[j].to) = g)
                  => Earlier(replies'[i].to, replies'[j].to)
  <2> SUFFICES ASSUME NEW i \in DOMAIN replies', NEW j \in DOMAIN replies', i < j,
                      FilterOf(replies'[i].to) = g, FilterOf(replies'[j].to) = g
               PROVE  Earlier(replies'[i].to, replies'[j].to)
    OBVIOUS
  <2>1. i \in DOMAIN replies /\ replies'[i] = replies[i] /\ replies[i] \in Range(replies)
    BY <1>7 DEF Range
  <2>2. CASE j \in DOMAIN replies /\ replies'[j] = replies[j]
    BY <1>1, <2>1, <2>2 DEF OrderedFor
  <2>3. CASE replies'[j].to = m
    <3>1. Head(io).filter = g /\ Head(io).message = m
      BY <1>12, <2>3 DEF f, m
    <3> QED
      BY <1>1, <1>6, <2>1, <2>3, <3>1 DEF OrderedFor
  <2> QED
    BY <1>7, <2>2, <2>3
<1>14. ASSUME NEW r \in Range(replies'), NEW d \in Range(q), FilterOf(r.to) = d.filter
       PROVE  Earlier(r.to, d.message)
  <2>1. r \in Range(replies)
    BY <1>7, <1>10, <1>12, <1>14
  <2>2. d \in Range(io) /\ d.filter \in Filter
    <3>1. d \in Closure
      BY <1>5, ElementOfSeq DEF Range
    <3> QED
      BY <1>5, <3>1 DEF Closure
  <2> QED
    BY <1>1, <1>14, <2>1, <2>2 DEF OrderedFor
<1>15. ASSUME NEW g \in Filter, NEW r \in Range(replies'), NEW x \in Range(backlog[g]),
              FilterOf(r.to) = g
       PROVE  Earlier(r.to, x)
  <2>1. CASE r \in Range(replies)
    BY <1>1, <1>15, <2>1 DEF OrderedFor
  <2>2. CASE r.to = m
    <3>1. g = f /\ Head(io).filter = g /\ Head(io).message = m
      BY <1>12, <1>15, <2>2 DEF f, m
    <3> QED
      BY <1>1, <1>6, <1>15, <2>2, <3>1 DEF OrderedFor
  <2> QED
    BY <1>7, <2>1, <2>2
<1>16. CASE backlog[f] = <<>>
  <2>1. backlog' = backlog /\ io' = q /\ waiting' = [waiting EXCEPT ![f] = waiting[f] + 1]
    BY <1>2, <1>4, <1>6, <1>16 DEF AsyncPop
  <2>2. TypesOfServer'
    BY <1>1, <1>2, <1>4, <1>5, <1>6, <1>7, <2>1 DEF TypesOfServer
  <2>3. Routed'
    BY <1>1, <1>4, <1>5, <1>11, <2>1 DEF Routed, Takes
  <2>4. OneHandlerPerFilter'
    <3>1. ASSUME NEW g \in Filter PROVE waiting'[g] + Posted(g)' = 1
      <4>1. Posted(g)' = Cardinality(Hits(q, Of(g)))
        BY <2>1 DEF Posted, Hits, Of, Closure
      <4> QED
        BY <1>2, <1>3, <1>6, <1>8, <1>9, <2>1, <4>1
    <3>2. OnePosted'
      BY <3>1 DEF OnePosted
    <3> QED
      BY <2>2, <3>2, OneHandlerParts, PTL
  <2>5. IdleQueue'
    BY <1>1, <1>2, <1>6, <1>16, <2>1 DEF IdleQueue
  <2>6. ASSUME NEW g \in Filter PROVE OrderedFor(g)'
    BY <1>1, <1>4, <1>5, <1>13, <1>14, <1>15, <2>1 DEF OrderedFor, Earlier
  <2> QED
    BY <1>1, <1>4, <2>2, <2>3, <2>4, <2>5, <2>6 DEF ServerInv
<1>17. CASE backlog[f] # <<>>
  <2> DEFINE h == Head(backlog[f])
             b == Tail(backlog[f])
             c == [filter |-> f, message |-> h]
  <2>1. /\ backlog' = [backlog EXCEPT ![f] = b] /\ io' = Append(q, c)
        /\ waiting' = waiting
    BY <1>2, <1>4, <1>6, <1>17 DEF AsyncPop
  <2>2. backlog[f] \in Seq(Requests)
    BY <1>2, <1>6
  <2>3. /\ h \in Requests /\ b \in Seq(Requests)
        /\ Range(backlog[f]) = {h} \cup Range(b)
    BY <1>17, <2>2, TailFind
  <2>4. /\ DOMAIN backlog[f] = 1..Len(backlog[f]) /\ DOMAIN b = 1..(Len(backlog[f]) - 1)
        /\ Len(backlog[f]) \in Nat \ {0} /\ h = backlog[f][1]
        /\ \A i \in DOMAIN b : b[i] = backlog[f][i + 1]
    BY <1>17, <2>2, HeadTailProperties, LenProperties
  <2>5. c \in Closure /\ c.filter = f /\ c.message = h
    BY <1>6, <2>3 DEF Closure
  <2> HIDE DEF h, b, c
  <2>6. io' \in Seq(Closure) /\ Range(io') = Range(q) \cup {c}
    BY <1>5, <2>1, <2>5, AppendFind
  <2>7. backlog'[f] = b /\ \A g \in Filter : g # f => backlog'[g] = backlog[g]
    BY <1>2, <1>6, <2>1
  <2>8. \A g \in Filter : Range(backlog'[g]) \subseteq Range(backlog[g])
    BY <2>3, <2>7
  <2>9. TypesOfServer'
    BY <1>1, <1>2, <1>4, <1>6, <1>7, <2>1, <2>3, <2>6 DEF TypesOfServer
  <2>10. Routed'
    <3>1. Takes(f, h)
      BY <1>1, <1>6, <2>3 DEF Routed
    <3>2. \A d \in Range(io') : Takes(d.filter, d.message)
      BY <1>1, <1>5, <2>5, <2>6, <3>1 DEF Routed
    <3>3. \A g \in Filter : \A x \in Range(backlog'[g]) : Takes(g, x)
      BY <1>1, <2>8 DEF Routed
    <3> QED
      BY <1>4, <1>11, <3>2, <3>3 DEF Routed, Takes
  <2>11. OneHandlerPerFilter'
    <3>1. ASSUME NEW g \in Filter PROVE waiting'[g] + Posted(g)' = 1
      <4>1. Posted(g)' = Cardinality(Hits(Append(q, c), Of(g)))
        BY <2>1 DEF Posted, Hits, Of, Closure
      <4>2. Posted(g)' = Cardinality(Hits(q, Of(g))) + IF c \in Of(g) THEN 1 ELSE 0
        BY <1>5, <2>5, <4>1, HitsAppend
      <4>3. c \in Of(g) <=> g = f
        BY <2>5 DEF Of
      <4> QED
        BY <1>2, <1>3, <1>8, <2>1, <4>2, <4>3
    <3>2. OnePosted'
      BY <3>1 DEF OnePosted
    <3> QED
      BY <2>9, <3>2, OneHandlerParts, PTL
  <2>12. IdleQueue'
    BY <1>1, <1>9, <2>1, <2>7 DEF IdleQueue
  <2>13. ASSUME NEW g \in Filter, NEW r \in Range(replies'), NEW d \in Range(io'),
                FilterOf(r.to) = g, d.filter = g
         PROVE  Earlier(r.to, d.message)
    <3>1. CASE d \in Range(q)
      BY <1>14, <2>13, <3>1
    <3>2. CASE d = c
      BY <1>6, <1>15, <2>3, <2>5, <2>13, <3>2
    <3> QED
      BY <2>6, <2>13, <3>1, <3>2
  <2>14. ASSUME NEW g \in Filter, NEW d \in Range(io'), NEW x \in Range(backlog'[g]), d.filter = g
         PROVE  Earlier(d.message, x)
    <3>1. CASE d \in Range(q)
      BY <1>1, <1>5, <2>8, <2>14, <3>1 DEF OrderedFor
    <3>2. CASE d = c
      <4>1. g = f /\ x \in Range(b) /\ d.message = h
        BY <2>5, <2>7, <2>14, <3>2
      <4>2. PICK i \in DOMAIN b : x = b[i]
        BY <4>1 DEF Range
      <4>3. 1 \in DOMAIN backlog[f] /\ i + 1 \in DOMAIN backlog[f] /\ 1 < i + 1
        BY <2>4
      <4> QED
        BY <1>1, <1>6, <2>4, <4>1, <4>2, <4>3 DEF OrderedFor
    <3> QED
      BY <2>6, <2>14, <3>1, <3>2
  <2>15. ASSUME NEW g \in Filter, NEW i \in DOMAIN backlog'[g], NEW j \in DOMAIN backlog'[g], i < j
         PROVE  Earlier(backlog'[g][i], backlog'[g][j])
    <3>1. CASE g # f
      BY <1>1, <2>7, <2>15, <3>1 DEF OrderedFor
    <3>2. CASE g = f
      <4>1. /\ i + 1 \in DOMAIN backlog[f] /\ j + 1 \in DOMAIN backlog[f] /\ i + 1 < j + 1
            /\ backlog'[f][i] = backlog[f][i + 1] /\ backlog'[f][j] = backlog[f][j + 1]
        BY <2>4, <2>7, <2>15, <3>2
      <4> QED
        BY <1>1, <1>6, <3>2, <4>1 DEF OrderedFor
    <3> QED
      BY <3>1, <3>2
  <2>16. ASSUME NEW g \in Filter PROVE OrderedFor(g)'
    <3>1. \A r \in Range(replies'), x \in Range(backlog'[g]) : FilterOf(r.to) = g => Earlier(r.to, x)
      BY <1>15, <2>8
    <3> QED
      BY <1>4, <1>13, <2>13, <2>14, <2>15, <3>1 DEF OrderedFor, Earlier
  <2> QED
    BY <1>1, <1>4, <2>9, <2>10, <2>11, <2>12, <2>16 DEF ServerInv
<1> QED
  BY <1>16, <1>17

-----------------------------------------------------------------------------
(* The objects *)

\* std::remove keeps every other element that is not null, in order: element i goes to
\* a place up to i, and everything ahead of it there was ahead of it before.
LEMMA RemoveKeeps ==
  ASSUME NEW s \in Seq(Objects \cup {Null}), NEW o \in Objects
  PROVE  /\ StdRemove(s, o) \in Seq(Objects \cup {Null})
         /\ DOMAIN StdRemove(s, o) = DOMAIN s
         /\ \A i \in DOMAIN s : s[i] # o =>
              \E k \in DOMAIN s :
                /\ StdRemove(s, o)[k] = s[i]
                /\ \A l \in 1..(k - 1) :
                     \E j \in DOMAIN s : j < i /\ StdRemove(s, o)[l] = s[j]
<1> DEFINE n == Len(s)
           kept == {i \in DOMAIN s : s[i] # o}
           nth(k) == CHOOSE i \in kept : Rank(kept, i) = k
           t == StdRemove(s, o)
<1>1. DOMAIN s = 1..n /\ n \in Nat /\ \A i \in DOMAIN s : s[i] \in Objects \cup {Null}
  BY LenProperties, ElementOfSeq
<1> HIDE DEF n
<1>2. kept \in SUBSET Nat /\ IsFiniteSet(kept) /\ Cardinality(kept) \in Nat /\ Cardinality(kept) <= n
  <2>1. IsFiniteSet(1..n) /\ Cardinality(1..n) = n
    BY <1>1, FS_Interval
  <2>2. kept \in SUBSET (1..n)
    BY <1>1
  <2> HIDE DEF kept
  <2>3. IsFiniteSet(kept) /\ Cardinality(kept) <= n
    BY <2>1, <2>2, FS_Subset
  <2>4. Cardinality(kept) \in Nat
    BY <2>3, FS_CardinalityType
  <2>5. kept \in SUBSET Nat
    BY <1>1, <2>2
  <2> QED
    BY <2>3, <2>4, <2>5
<1>3. t = [i \in DOMAIN s |->
             IF i <= Cardinality(kept) THEN s[nth(i)] ELSE IF s[i] = o THEN o ELSE Null]
  BY DEF StdRemove, Rank
<1>4. \A i \in kept : i \in DOMAIN s
  OBVIOUS
<1>5. \A i \in DOMAIN s : s[i] # o => i \in kept
  OBVIOUS
<1> HIDE DEF kept
<1>6. /\ \A i \in kept : Rank(kept, i) \in 1..Cardinality(kept)
      /\ \A i, j \in kept : i < j <=> Rank(kept, i) < Rank(kept, j)
      /\ \A k \in 1..Cardinality(kept) : \E i \in kept : Rank(kept, i) = k
  BY <1>2, RankOrder
<1>7. \A k \in 1..Cardinality(kept) : nth(k) \in kept /\ Rank(kept, nth(k)) = k
  BY <1>6
<1> HIDE DEF nth, t
<1>8. t \in [1..n -> Objects \cup {Null}]
  <2>1. ASSUME NEW i \in 1..n PROVE t[i] \in Objects \cup {Null}
    <3>1. CASE i <= Cardinality(kept)
      <4>1. i \in 1..Cardinality(kept)
        BY <1>1, <1>2, <2>1, <3>1
      <4>2. nth(i) \in DOMAIN s
        BY <1>4, <1>7, <4>1
      <4> QED
        BY <1>1, <1>3, <3>1, <4>2
    <3>2. CASE ~(i <= Cardinality(kept))
      BY <1>1, <1>3, <3>2
    <3> QED
      BY <3>1, <3>2
  <2> QED
    BY <1>1, <1>3, <2>1
<1>9. ASSUME NEW i \in DOMAIN s, s[i] # o
      PROVE  \E k \in DOMAIN s :
               /\ t[k] = s[i]
               /\ \A l \in 1..(k - 1) : \E j \in DOMAIN s : j < i /\ t[l] = s[j]
  <2> DEFINE k == Rank(kept, i)
  <2>1. i \in kept /\ k \in 1..Cardinality(kept) /\ i \in Nat
    BY <1>1, <1>5, <1>6, <1>9
  <2>2. nth(k) = i
    <3>1. nth(k) \in kept /\ Rank(kept, nth(k)) = k
      BY <1>7, <2>1
    <3>2. nth(k) \in Nat
      BY <1>2, <3>1
    <3>3. ~(nth(k) < i) /\ ~(i < nth(k))
      BY <1>6, <2>1, <3>1
    <3> QED
      BY <2>1, <3>2, <3>3
  <2> HIDE DEF k
  <2>3. k \in DOMAIN s /\ t[k] = s[i]
    BY <1>1, <1>2, <1>3, <2>1, <2>2
  <2>4. ASSUME NEW l \in 1..(k - 1) PROVE \E j \in DOMAIN s : j < i /\ t[l] = s[j]
    <3>1. l \in 1..Cardinality(kept) /\ l \in DOMAIN s /\ l < k
      BY <1>1, <1>2, <2>1, <2>4
    <3>2. nth(l) \in kept /\ Rank(kept, nth(l)) = l
      BY <1>7, <3>1
    <3>3. nth(l) < i
      BY <1>6, <2>1, <3>1, <3>2 DEF k
    <3>4. t[l] = s[nth(l)]
      BY <1>2, <1>3, <3>1
    <3> QED
      BY <1>4, <3>2, <3>3, <3>4
  <2> QED
    BY <2>3, <2>4
<1> QED
  BY <1>1, <1>3, <1>8, <1>9 DEF t

\* Registering and removing objects leaves the queues alone.
LEMMA ObjectsServer ==
  ASSUME ServerInv, NEW o \in Objects, RegisterObject(o) \/ RemoveObject(o)
  PROVE  /\ ServerInv'
         /\ Range(objects) \ Range(objects') \subseteq removed' \cup {Null}
<1>1. TypesOfServer /\ objects \in Seq(Objects \cup {Null})
  BY DEF ServerInv, TypesOfServer
<1>2. /\ backlog' = backlog /\ waiting' = waiting /\ io' = io /\ replies' = replies
      /\ crashed' = crashed /\ arrived' = arrived /\ listed' = listed
  BY DEF RegisterObject, RemoveObject, queues
<1>3. /\ objects' \in Seq(Objects \cup {Null}) /\ removed' \in SUBSET Objects
      /\ Range(objects) \ Range(objects') \subseteq removed' \cup {Null}
  <2>1. CASE RegisterObject(o)
    <3>1. objects' = Append(objects, o) /\ removed' = removed
      BY <2>1 DEF RegisterObject
    <3>2. objects' \in Seq(Objects \cup {Null}) /\ Range(objects') = Range(objects) \cup {o}
      BY <1>1, <3>1, AppendFind
    <3> QED
      BY <1>1, <3>1, <3>2 DEF TypesOfServer
  <2>2. CASE RemoveObject(o)
    <3>1. objects' = StdRemove(objects, o) /\ removed' = removed \cup {o}
      BY <2>2 DEF RemoveObject
    <3>2. /\ objects' \in Seq(Objects \cup {Null}) /\ DOMAIN objects' = DOMAIN objects
          /\ \A i \in DOMAIN objects : objects[i] # o =>
               \E k \in DOMAIN objects : objects'[k] = objects[i]
      BY <1>1, <3>1, RemoveKeeps
    <3>3. Range(objects) \ Range(objects') \subseteq {o}
      BY <3>2 DEF Range
    <3> QED
      BY <1>1, <3>1, <3>2, <3>3 DEF TypesOfServer
  <2> QED
    BY <2>1, <2>2
<1>4. TypesOfServer'
  BY <1>1, <1>2, <1>3 DEF TypesOfServer
<1>5. Routed' /\ OneHandlerPerFilter' /\ IdleQueue' /\ (\A m : Once(arrived, m))'
  BY <1>2 DEF ServerInv, Routed, Takes, OneHandlerPerFilter, IdleQueue
<1>6. ASSUME NEW f \in Filter PROVE OrderedFor(f)'
  BY <1>2 DEF ServerInv, OrderedFor, Earlier
<1> QED
  BY <1>3, <1>4, <1>5, <1>6 DEF ServerInv

-----------------------------------------------------------------------------
(* The invariants and the theorems *)

\* Every step preserves the invariant of the queues.
LEMMA NextServer == ServerInv /\ [Next]_vars => ServerInv'
<1> SUFFICES ASSUME ServerInv, [Next]_vars PROVE ServerInv'
  OBVIOUS
<1>1. ASSUME NEW m \in Requests, Arrive(m) PROVE ServerInv'
  BY <1>1, ArriveServer
<1>2. ASSUME NEW o \in Objects, RegisterObject(o) \/ RemoveObject(o) PROVE ServerInv'
  BY <1>2, ObjectsServer
<1>3. CASE RunHandler
  BY <1>3, RunServer
<1>4. CASE HandlerCrashes \/ UNCHANGED vars
  <2>1. /\ backlog' = backlog /\ waiting' = waiting /\ io' = io /\ replies' = replies
        /\ arrived' = arrived /\ listed' = listed /\ objects' = objects /\ removed' = removed
        /\ crashed' \in BOOLEAN
    BY <1>4 DEF HandlerCrashes, vars, queues, ServerInv, TypesOfServer
  <2>2. TypesOfServer'
    BY <2>1 DEF ServerInv, TypesOfServer
  <2>3. Routed' /\ OneHandlerPerFilter' /\ IdleQueue' /\ (\A m : Once(arrived, m))'
    BY <2>1 DEF ServerInv, Routed, Takes, OneHandlerPerFilter, IdleQueue
  <2>4. ASSUME NEW f \in Filter PROVE OrderedFor(f)'
    BY <2>1 DEF ServerInv, OrderedFor, Earlier
  <2> QED
    BY <2>2, <2>3, <2>4 DEF ServerInv
<1> QED
  BY <1>1, <1>2, <1>3, <1>4 DEF Next

\* The handlers of the object manager answer with all objects there are, so nothing that
\* was there when the message came is missing, however long it waited.
LEMMA NextObjects == ObjectsInv /\ [Next]_vars => ObjectsInv'
<1> SUFFICES ASSUME ObjectsInv, [Next]_vars PROVE ObjectsInv'
  OBVIOUS
<1>1. ServerInv /\ ServerInv' /\ TypesOfServer /\ StillThere /\ ManagedObjectsComplete
  BY NextServer DEF ObjectsInv, ServerInv
<1>2. listed \in [Requests -> SUBSET Objects] /\ replies \in Seq(Reply) /\ Null \notin Objects
  BY <1>1, ServerAssumption DEF TypesOfServer
<1>3. \A i \in DOMAIN replies : replies[i].to \in Requests /\ replies[i] \in Range(replies)
  <2>1. \A i \in DOMAIN replies : replies[i] \in Reply
    BY <1>2, ElementOfSeq, LenProperties
  <2> QED
    BY <2>1 DEF Reply, Range
<1>4. ASSUME NEW m \in Requests, Arrive(m) PROVE ObjectsInv'
  <2>1. /\ objects' = objects /\ replies' = replies /\ removed' = removed
        /\ m \notin Range(arrived)
        /\ listed'[m] \subseteq Range(objects)
        /\ \A x \in Requests : x # m => listed'[x] = listed[x]
    BY <1>2, <1>4 DEF Arrive
  <2>2. StillThere'
    BY <1>1, <2>1 DEF StillThere
  <2>3. \A i \in DOMAIN replies : replies[i].to # m
    BY <1>1, <1>3, <2>1 DEF ServerInv, Routed, Takes
  <2>4. ManagedObjectsComplete'
    BY <1>1, <1>3, <2>1, <2>3 DEF ManagedObjectsComplete
  <2> QED
    BY <1>1, <2>2, <2>4 DEF ObjectsInv
<1>5. ASSUME NEW o \in Objects, RegisterObject(o) \/ RemoveObject(o) PROVE ObjectsInv'
  <2>1. /\ replies' = replies /\ listed' = listed /\ removed \subseteq removed'
        /\ Range(objects) \ Range(objects') \subseteq removed' \cup {Null}
    BY <1>1, <1>5, ObjectsServer DEF RegisterObject, RemoveObject
  <2>2. StillThere'
    BY <1>1, <1>2, <2>1 DEF StillThere
  <2>3. ManagedObjectsComplete'
    BY <1>1, <2>1 DEF ManagedObjectsComplete
  <2> QED
    BY <1>1, <2>2, <2>3 DEF ObjectsInv
<1>6. CASE RunHandler
  <2> DEFINE f == Head(io).filter
             m == Head(io).message
             A == Answers(f, m)
             n == Len(replies)
  <2>1. /\ objects' = objects /\ removed' = removed /\ listed' = listed
        /\ replies' = replies \o A /\ io # <<>> /\ io \in Seq(Closure)
    BY <1>1, <1>6 DEF RunHandler, TypesOfServer
  <2>2. Head(io) \in Closure /\ Head(io) \in Range(io)
    BY <2>1, TailFind
  <2>3. f \in Filter /\ m \in Requests /\ Takes(f, m)
    BY <1>1, <2>2 DEF Closure, ServerInv, Routed
  <2>4. /\ A \in Seq(Reply) /\ \A r \in Range(A) : r.to = m
        /\ f = "object_manager_filter" => \A r \in Range(A) : r.lists = Range(objects)
    BY <1>1, <2>3, AnswersFacts
  <2>5. m.target = "GetManagedObjects" => f = "object_manager_filter"
    BY <2>3, FirstFilter DEF Takes
  <2> HIDE DEF A, f, m
  <2>6. ASSUME NEW i \in DOMAIN replies'
        PROVE  replies'[i] \in Range(A) \/ (i \in DOMAIN replies /\ replies'[i] = replies[i])
    <3>1. /\ DOMAIN replies' = 1..(n + Len(A)) /\ DOMAIN replies = 1..n /\ n \in Nat
          /\ DOMAIN A = 1..Len(A) /\ Len(A) \in Nat
          /\ replies'[i] = IF i <= n THEN replies[i] ELSE A[i - n]
      BY <1>2, <2>1, <2>4, <2>6, ConcatProperties, LenProperties
    <3> HIDE DEF n
    <3>2. CASE i <= n
      BY <2>6, <3>1, <3>2
    <3>3. CASE ~(i <= n)
      <4>1. i - n \in DOMAIN A
        BY <2>6, <3>1, <3>3
      <4> QED
        BY <3>1, <3>3, <4>1 DEF Range
    <3> QED
      BY <3>2, <3>3
  <2>7. listed[m] \ removed \subseteq Range(objects)
    BY <1>1, <2>3 DEF StillThere
  <2>8. ManagedObjectsComplete'
    BY <1>1, <2>1, <2>4, <2>5, <2>6, <2>7 DEF ManagedObjectsComplete
  <2>9. StillThere'
    BY <1>1, <2>1 DEF StillThere
  <2> QED
    BY <1>1, <2>8, <2>9 DEF ObjectsInv
<1>7. CASE HandlerCrashes \/ UNCHANGED vars
  BY <1>1, <1>7 DEF HandlerCrashes, vars, queues, ObjectsInv, StillThere, ManagedObjectsComplete
<1> QED
  BY <1>4, <1>5, <1>6, <1>7 DEF Next

\* Each filter has exactly one handler, waiting or posted, whatever arrives and however
\* handlers run: the handler registers itself again after every message.
THEOREM OneHandlerPerFilterAlways == Spec => []OneHandlerPerFilter
<1>1. ServerInv => OneHandlerPerFilter
  BY DEF ServerInv
<1>2. Init => ServerInv
  BY InitServer DEF ObjectsInv
<1> QED
  BY <1>1, <1>2, NextServer, PTL DEF Spec

\* GetManagedObjects lists every object that was registered when the request arrived and
\* has not been removed since.
THEOREM ManagedObjectsCompleteAlways == Spec => []ManagedObjectsComplete
<1>1. ObjectsInv => ManagedObjectsComplete
  BY DEF ObjectsInv
<1> QED
  BY <1>1, InitServer, NextObjects, PTL DEF Spec

\* No request is answered twice, and the requests of one filter are answered in the order
\* in which they arrived, however handlers, queues and registrations interleave.
THEOREM AnsweredInOrderAlways == Spec => []AnsweredInOrder
<1>1. ServerInv => AnsweredInOrder
  <2> SUFFICES ASSUME ServerInv,
                      NEW i \in DOMAIN replies, NEW j \in DOMAIN replies, i < j,
                      FilterOf(replies[i].to) = FilterOf(replies[j].to)
               PROVE  PositionOf(replies[i].to) < PositionOf(replies[j].to)
    BY DEF AnsweredInOrder
  <2> DEFINE x == replies[i].to
             y == replies[j].to
  <2>1. replies[i] \in Range(replies)
    BY DEF Range
  <2>2. FilterOf(x) \in Filter
    BY <2>1 DEF ServerInv, Routed, Takes
  <2>3. Earlier(x, y)
    BY <2>2 DEF ServerInv, OrderedFor
  <2> HIDE DEF x, y
  <2>4. PICK k, l \in DOMAIN arrived : k < l /\ arrived[k] = x /\ arrived[l] = y
    BY <2>3 DEF Earlier, Precedes
  <2>5. Once(arrived, x) /\ Once(arrived, y)
    BY DEF ServerInv
  <2>6. PositionOf(x) = k
    BY <2>4, <2>5 DEF PositionOf, Once
  <2>7. PositionOf(y) = l
    BY <2>4, <2>5 DEF PositionOf, Once
  <2> QED
    BY <2>4, <2>6, <2>7 DEF x, y
<1>2. Init => ServerInv
  BY InitServer DEF ObjectsInv
<1> QED
  BY <1>1, <1>2, NextServer, PTL DEF Spec

\* Registering and removing objects never takes another object out of reach of the
\* calls for its path: std::remove moves no other object behind one that hides it.
THEOREM OthersStayReachableAlways == Spec => OthersStayReachable
<1>1. ServerInv /\ [Next]_vars => [Reachable \subseteq Reachable' \cup removed']_vars
  <2> SUFFICES ASSUME ServerInv, [Next]_vars, NEW p \in Reachable, p \notin removed'
               PROVE  p \in Reachable'
    OBVIOUS
  <2>1. objects \in Seq(Objects \cup {Null}) /\ DOMAIN objects = 1..Len(objects) /\ Len(objects) \in Nat
    BY DEF ServerInv, TypesOfServer
  <2>2. PICK i \in DOMAIN objects :
          /\ p \in Objects /\ objects[i] = p
          /\ \A j \in 1..(i - 1) : objects[j] # Null /\ Path[objects[j]] # Path[p]
    BY DEF Reachable
  <2>3. ASSUME NEW k \in DOMAIN objects', objects'[k] = p,
               \A l \in 1..(k - 1) : \E j \in DOMAIN objects : j < i /\ objects'[l] = objects[j]
        PROVE  p \in Reachable'
    <3>1. ASSUME NEW l \in 1..(k - 1)
          PROVE  objects'[l] # Null /\ Path[objects'[l]] # Path[p]
      <4>1. PICK j \in DOMAIN objects : j < i /\ objects'[l] = objects[j]
        BY <2>3
      <4>2. j \in 1..(i - 1)
        BY <2>1, <4>1
      <4> QED
        BY <2>2, <4>1, <4>2
    <3> QED
      BY <2>2, <2>3, <3>1 DEF Reachable
  <2>4. CASE objects' = objects
    <3>1. \A l \in 1..(i - 1) : l \in DOMAIN objects /\ l < i
      BY <2>1
    <3> QED
      BY <2>2, <2>3, <2>4, <3>1
  <2>5. ASSUME NEW o \in Objects, RegisterObject(o) PROVE p \in Reachable'
    <3>1. /\ objects' = Append(objects, o)
          /\ DOMAIN objects \subseteq DOMAIN objects'
          /\ \A j \in DOMAIN objects : objects'[j] = objects[j]
      BY <2>1, <2>5 DEF RegisterObject
    <3>2. \A l \in 1..(i - 1) : l \in DOMAIN objects /\ l < i
      BY <2>1
    <3> QED
      BY <2>2, <2>3, <3>1, <3>2
  <2>6. ASSUME NEW o \in Objects, RemoveObject(o) PROVE p \in Reachable'
    <3>1. objects' = StdRemove(objects, o) /\ p # o
      BY <2>6 DEF RemoveObject
    <3> DEFINE t == StdRemove(objects, o)
    <3>2. /\ DOMAIN t = DOMAIN objects
          /\ objects[i] # o =>
               \E k \in DOMAIN objects :
                 /\ t[k] = objects[i]
                 /\ \A l \in 1..(k - 1) : \E j \in DOMAIN objects : j < i /\ t[l] = objects[j]
      BY <2>1, RemoveKeeps, Zenon
    <3> HIDE DEF t
    <3>3. objects' = t /\ objects[i] # o
      BY <2>2, <3>1 DEF t
    <3> QED
      BY <2>2, <2>3, <3>2, <3>3
  <2>7. CASE objects' # objects
    BY <2>5, <2>6, <2>7 DEF Next, Arrive, RunHandler, HandlerCrashes, vars
  <2> QED
    BY <2>4, <2>7
<1>2. Init => ServerInv
  BY InitServer DEF ObjectsInv
<1> QED
  BY <1>1, <1>2, NextServer, PTL DEF Spec, OthersStayReachable

-----------------------------------------------------------------------------
(* Introspection: paths *)

\* What paths are made of.
Letter == STRING \cup {"/"}

\* IsPrefix, letter by letter.
Starts(s, t) == Len(s) <= Len(t) /\ \A k \in 1..Len(s) : s[k] = t[k]

LEMMA PrefixStarts ==
  ASSUME NEW s \in Seq(Letter), NEW t \in Seq(Letter)
  PROVE  IsPrefix(s, t) <=> Starts(s, t)
<1>1. Len(s) \in Nat /\ Len(t) \in Nat
  BY LenProperties
<1>2. CASE Len(s) <= Len(t)
  <2> DEFINE a == SubSeq(s, 1, Len(s))
             b == SubSeq(t, 1, Len(s))
  <2>1. /\ a \in Seq(Letter) /\ Len(a) = Len(s) /\ \A k \in 1..Len(s) : a[k] = s[k]
        /\ b \in Seq(Letter) /\ Len(b) = Len(s) /\ \A k \in 1..Len(s) : b[k] = t[k]
    BY <1>1, <1>2
  <2> HIDE DEF a, b
  <2>2. a = b <=> \A k \in 1..Len(s) : a[k] = b[k]
    BY <2>1, SeqEqual
  <2>3. a = b <=> Starts(s, t)
    BY <1>2, <2>1, <2>2 DEF Starts
  <2> QED
    BY <1>2, <2>3 DEF IsPrefix, a, b
<1>3. CASE ~(Len(s) <= Len(t))
  BY <1>3 DEF IsPrefix, Starts
<1> QED
  BY <1>2, <1>3

\* The letters of a path.
LEMMA PathLetters ==
  ASSUME NEW p \in Paths
  PROVE  /\ p \in Seq(Letter) /\ Len(p) \in Nat \ {0} /\ p[1] = "/"
         /\ p # <<"/">> => p[Len(p)] # "/"
         /\ \A k \in 2..Len(p) : p[k] = "/" => p[k - 1] # "/"
<1>1. IsPath(p)
  BY IntrospectionAssumption
<1>2. p \in Seq(STRING) /\ Len(p) \in Nat /\ Len(p) # 0
  BY <1>1, LenProperties, EmptySeq DEF IsPath
<1>3. p \in Seq(Letter)
  BY <1>2 DEF Letter
<1> QED
  BY <1>1, <1>2, <1>3 DEF IsPath, Slash, Root, Last

\* A subnode ends before the next slash, or with the path.
LEMMA SubnodeEnds ==
  ASSUME NEW p \in Seq(Letter), NEW N \in Seq(Letter), Len(N) < Len(p)
  PROVE  \E to \in (Len(N) + 1)..Len(p) :
           /\ Subnode(p, N) = SubSeq(p, Len(N) + 2, to)
           /\ \A k \in (Len(N) + 2)..to : p[k] # "/"
           /\ to = Len(p) \/ p[to + 1] = "/"
<1> DEFINE from == Len(N) + 2
           slashes == {i \in from..Len(p) : p[i] = "/"}
           to == IF slashes = {} THEN Len(p) ELSE Min(slashes) - 1
<1>1. Len(p) \in Nat /\ Len(N) \in Nat /\ from \in Nat
  BY LenProperties
<1>2. Subnode(p, N) = SubSeq(p, from, to)
  BY DEF Subnode, Slash
<1>3. CASE slashes = {}
  <2>1. to = Len(p) /\ \A k \in from..Len(p) : p[k] # "/"
    BY <1>3
  <2>2. to \in (Len(N) + 1)..Len(p)
    BY <1>1, <2>1
  <2> HIDE DEF to
  <2> QED
    BY <1>2, <2>1, <2>2
<1>4. CASE slashes # {}
  <2>1. slashes \in SUBSET Nat
    BY <1>1
  <2>2. \E x \in slashes : \A y \in slashes : x <= y
    BY <1>4, <2>1, LeastNat
  <2> DEFINE x == Min(slashes)
  <2>3. x \in slashes /\ \A y \in slashes : x <= y
    BY <2>2 DEF Min
  <2>4. to = x - 1
    BY <1>4
  <2> HIDE DEF x, to
  <2>5. x \in from..Len(p) /\ p[x] = "/"
    BY <2>3
  <2>6. to \in (Len(N) + 1)..Len(p) /\ to + 1 = x
    BY <1>1, <2>4, <2>5
  <2>7. ASSUME NEW k \in from..to PROVE p[k] # "/"
    <3>1. k \in from..Len(p) /\ ~(x <= k)
      BY <1>1, <2>4, <2>5
    <3> QED
      BY <2>3, <3>1
  <2> QED
    BY <1>2, <2>5, <2>6, <2>7
<1> QED
  BY <1>3, <1>4

\* A subnode that is not empty has no slash, and the path of the node does not end in one.
LEMMA ChildEnds ==
  ASSUME NEW p \in Seq(Letter), NEW N \in Seq(Letter), Len(N) < Len(p),
         NEW n, n = Subnode(p, N), n # <<>>, NEW r, r = N \o <<"/">> \o n
  PROVE  /\ r \in Seq(Letter) /\ Len(r) \in Nat /\ Len(r) > Len(N) + 1 /\ r[Len(r)] # "/"
         /\ r # <<"/">>
<1>1. Len(p) \in Nat /\ Len(N) \in Nat
  BY LenProperties
<1>2. PICK to \in (Len(N) + 1)..Len(p) :
        /\ n = SubSeq(p, Len(N) + 2, to)
        /\ \A k \in (Len(N) + 2)..to : p[k] # "/"
  BY SubnodeEnds
<1>3. to \in Nat /\ to >= Len(N) + 2
  <2>1. to \in Nat
    BY <1>1, <1>2
  <2>2. ~(to < Len(N) + 2)
    BY <1>1, <1>2, <2>1, SubSeqEmpty
  <2> QED
    BY <1>1, <2>1, <2>2
<1>4. /\ n \in Seq(Letter) /\ Len(n) = to - Len(N) - 1
      /\ n[Len(n)] = p[to]
  <2>1. \A i \in (Len(N) + 2)..to : p[i] \in Letter
    BY <1>1, <1>2, ElementOfSeq
  <2>2. /\ n \in Seq(Letter) /\ Len(n) = to - (Len(N) + 2) + 1
        /\ \A i \in 1..(to - (Len(N) + 2) + 1) : n[i] = p[(Len(N) + 2) + i - 1]
    BY <1>1, <1>2, <1>3, <2>1, SubSeqProperties
  <2> QED
    BY <1>1, <1>3, <2>2
<1>5. /\ r \in Seq(Letter) /\ Len(r) = to /\ r[to] = n[Len(n)]
  <2> DEFINE h == N \o <<"/">>
  <2>1. <<"/">> \in Seq(Letter) /\ Len(<<"/">>) = 1
    BY DEF Letter
  <2>2. h \in Seq(Letter) /\ Len(h) = Len(N) + 1
    BY <2>1, ConcatProperties
  <2> HIDE DEF h
  <2>3. /\ h \o n \in Seq(Letter) /\ Len(h \o n) = Len(h) + Len(n)
        /\ \A i \in 1..Len(h) + Len(n) : (h \o n)[i] = IF i <= Len(h) THEN h[i] ELSE n[i - Len(h)]
    BY <1>4, <2>2, ConcatProperties
  <2>4. r = h \o n
    BY DEF h
  <2>5. Len(h) + Len(n) = to /\ to \in 1..(Len(h) + Len(n)) /\ ~(to <= Len(h)) /\ to - Len(h) = Len(n)
    BY <1>1, <1>3, <1>4, <2>2
  <2>6. (h \o n)[to] = n[Len(n)]
    BY <2>3, <2>5
  <2> QED
    BY <2>3, <2>4, <2>5, <2>6
<1>6. r[to] # "/"
  BY <1>1, <1>2, <1>3, <1>4, <1>5
<1>7. Len(r) \in Nat /\ Len(r) > Len(N) + 1 /\ Len(r) # 1
  BY <1>1, <1>3, <1>5
<1>8. Len(<<"/">>) = 1
  OBVIOUS
<1>9. r # <<"/">>
  BY <1>7, <1>8
<1> QED
  BY <1>5, <1>6, <1>7, <1>9

\* N is the beginning of p up to some slash.
Over(N, p) == Starts(N, p) /\ Len(N) < Len(p) /\ p[Len(N) + 1] = "/"

\* The node that is shown below N on the way to p is on the way to p.
LEMMA ChildAbove ==
  ASSUME NEW p \in Paths, p # <<"/">>,
         NEW N \in Seq(Letter), Over(N, p),
         NEW n, n = Subnode(p, N), NEW r, r = N \o <<"/">> \o n
  PROVE  /\ n # <<>> /\ r \in Seq(Letter) /\ r # <<"/">> /\ Len(r) \in Nat /\ Len(r) > Len(N)
         /\ Above(r, p)
<1>1. /\ p \in Seq(Letter) /\ Len(p) \in Nat /\ p[Len(p)] # "/"
      /\ \A k \in 2..Len(p) : p[k] = "/" => p[k - 1] # "/"
  BY PathLetters
<1>2. Len(N) \in Nat /\ Len(N) < Len(p) /\ p[Len(N) + 1] = "/" /\ \A k \in 1..Len(N) : N[k] = p[k]
  BY LenProperties DEF Over, Starts
<1>3. PICK to \in (Len(N) + 1)..Len(p) :
        n = SubSeq(p, Len(N) + 2, to) /\ (to = Len(p) \/ p[to + 1] = "/")
  BY <1>1, <1>2, SubnodeEnds
<1>4. to \in Nat /\ to >= Len(N) + 2
  <2>1. Len(N) + 1 # Len(p)
    BY <1>1, <1>2
  <2>2. Len(N) + 2 \in 2..Len(p) /\ (Len(N) + 2) - 1 = Len(N) + 1
    BY <1>1, <1>2, <2>1
  <2>3. p[Len(N) + 2] # "/"
    BY <1>1, <1>2, <2>2
  <2>4. to # Len(N) + 1
    <3>1. (Len(N) + 1) + 1 = Len(N) + 2
      BY <1>2
    <3> QED
      BY <1>2, <1>3, <2>1, <2>3, <3>1
  <2> QED
    BY <1>1, <1>2, <1>3, <2>4
<1>5. /\ n \in Seq(Letter) /\ Len(n) = to - Len(N) - 1
      /\ \A i \in 1..Len(n) : n[i] = p[Len(N) + 1 + i]
  <2>1. \A i \in (Len(N) + 2)..to : p[i] \in Letter
    BY <1>1, <1>2, <1>3, ElementOfSeq
  <2>2. /\ n \in Seq(Letter) /\ Len(n) = to - (Len(N) + 2) + 1
        /\ \A i \in 1..(to - (Len(N) + 2) + 1) : n[i] = p[(Len(N) + 2) + i - 1]
    BY <1>2, <1>3, <1>4, <2>1, SubSeqProperties
  <2>3. \A i \in 1..Len(n) : (Len(N) + 2) + i - 1 = Len(N) + 1 + i
    BY <1>2, <2>2
  <2> QED
    BY <1>2, <1>4, <2>2, <2>3
<1>6. n # <<>>
  <2>1. Len(n) # 0 /\ Len(<<>>) = 0
    BY <1>2, <1>4, <1>5
  <2> QED
    BY <2>1
<1>7. /\ r \in Seq(Letter) /\ Len(r) \in Nat /\ Len(r) > Len(N) + 1 /\ r # <<"/">>
  BY <1>1, <1>2, <1>6, ChildEnds
<1>8. Len(r) = to /\ \A k \in 1..to : r[k] = p[k]
  <2> DEFINE h == N \o <<"/">>
  <2>1. <<"/">> \in Seq(Letter) /\ Len(<<"/">>) = 1 /\ <<"/">>[1] = "/"
    BY DEF Letter
  <2>2. /\ h \in Seq(Letter) /\ Len(h) = Len(N) + 1
        /\ \A k \in 1..(Len(N) + 1) : h[k] = IF k <= Len(N) THEN N[k] ELSE <<"/">>[k - Len(N)]
    BY <2>1, ConcatProperties
  <2>3. \A k \in 1..(Len(N) + 1) : h[k] = p[k]
    <3>1. \A k \in 1..(Len(N) + 1) : k <= Len(N) \/ (k = Len(N) + 1 /\ k - Len(N) = 1)
      BY <1>2
    <3> QED
      BY <1>2, <2>1, <2>2, <3>1
  <2> HIDE DEF h
  <2>4. /\ h \o n \in Seq(Letter) /\ Len(h \o n) = Len(h) + Len(n)
        /\ \A i \in 1..Len(h) + Len(n) : (h \o n)[i] = IF i <= Len(h) THEN h[i] ELSE n[i - Len(h)]
    BY <1>5, <2>2, ConcatProperties
  <2>5. r = h \o n
    BY DEF h
  <2>6. Len(h) + Len(n) = to
    BY <1>2, <1>4, <1>5, <2>2
  <2>7. ASSUME NEW k \in 1..to PROVE (h \o n)[k] = p[k]
    <3>1. CASE k <= Len(h)
      BY <1>2, <2>2, <2>3, <2>4, <2>6, <3>1
    <3>2. CASE ~(k <= Len(h))
      <4>1. k - Len(h) \in 1..Len(n) /\ Len(N) + 1 + (k - Len(h)) = k
        BY <1>2, <1>4, <1>5, <2>2, <2>6, <3>2
      <4> QED
        BY <1>5, <2>4, <2>6, <3>2, <4>1
    <3> QED
      BY <3>1, <3>2
  <2> QED
    BY <2>4, <2>5, <2>6, <2>7
<1>9. IsPrefix(r, p)
  <2>1. Len(r) = to /\ Len(r) <= Len(p)
    BY <1>1, <1>2, <1>3, <1>4, <1>8
  <2>2. \A k \in 1..Len(r) : r[k] = p[k]
    BY <1>8
  <2>3. Starts(r, p)
    BY <2>1, <2>2 DEF Starts
  <2> QED
    BY <1>1, <1>7, <2>3, PrefixStarts
<1>10. to = Len(p) => r = p
  BY <1>1, <1>7, <1>8, SeqEqual
<1>11. Above(r, p)
  BY <1>3, <1>8, <1>9, <1>10 DEF Above, Slash, Root
<1> QED
  BY <1>2, <1>6, <1>7, <1>11

\* What is above a path, seen from the path.
LEMMA AboveOver ==
  ASSUME NEW p \in Paths, p # <<"/">>,
         NEW q \in Seq(Letter), q # <<>>, Above(q, p), q # p
  PROVE  /\ NewPath(q) \in Seq(Letter) /\ Over(NewPath(q), p)
         /\ NewPath(q) # p
<1>1. p \in Seq(Letter) /\ Len(p) \in Nat \ {0} /\ p[1] = "/"
  BY PathLetters
<1>2. CASE q = <<"/">>
  <2>1. NewPath(q) = <<>>
    BY <1>2 DEF NewPath, Root, Slash
  <2>2. <<>> \in Seq(Letter) /\ Len(<<>>) = 0
    OBVIOUS
  <2>3. Over(<<>>, p) /\ <<>> # p
    BY <1>1, <2>2 DEF Over, Starts
  <2> QED
    BY <2>1, <2>2, <2>3
<1>3. CASE q # <<"/">>
  <2>1. NewPath(q) = q
    BY <1>3 DEF NewPath, Root, Slash
  <2>2. IsPrefix(q, p) /\ p[Len(q) + 1] = "/"
    BY <1>3 DEF Above, Root, Slash
  <2>3. Starts(q, p) /\ Len(q) \in Nat
    BY <1>1, <2>2, PrefixStarts, LenProperties
  <2>4. Len(q) # Len(p)
    BY <1>1, <2>3, SeqEqual DEF Starts
  <2> QED
    BY <1>1, <2>1, <2>2, <2>3, <2>4 DEF Over, Starts
<1> QED
  BY <1>2, <1>3

-----------------------------------------------------------------------------
(* Introspection: the walk *)

\* The objects that are registered.
Registered == Range(objects)

\* The types of what the walk needs, and the numbers of interfaces.
TypesOfWalk ==
  /\ path \in [Objects -> Paths]
  /\ objects \in Seq(Objects)
  /\ interfaces \in [Objects -> [Interfaces -> Interface \cup {Absent}]]
  /\ added \in Nat
  /\ \A o \in Objects, i \in Interfaces :
       interfaces[o][i] # Absent => interfaces[o][i].number <= added
  /\ asked \subseteq known

\* The client knows "/" from the start, and no other path it knows ends in a slash.
KnownPaths ==
  /\ known # {} => <<"/">> \in known
  /\ \A q \in known : /\ q \in Seq(Letter) /\ q # <<>>
                      /\ q # <<"/">> => q[Len(q)] # "/"

\* What was registered when the walk began is still there.
Began ==
  \A x \in atStart : \E o \in Registered, i \in Interfaces :
    x = <<path[o], i>> /\ interfaces[o][i] # Absent

\* When a path was asked for, every object below it that was there when the walk began
\* has become known by a longer path above it.
GoesOn ==
  \A q \in asked, x \in atStart :
    (x[1] # <<"/">> /\ Above(q, x[1]) /\ q # x[1]) =>
      \E r \in known : /\ Above(r, x[1]) /\ r # <<"/">>
                       /\ Len(NewPath(q)) < Len(r)

\* When the path of an object was asked for, its interfaces have been described.
Noted ==
  \A x \in atStart : (x[1] \in asked /\ x[1] # <<"/">>) =>
    \E l \in learned : <<l.path, l.interface>> = x

\* The interface of o that l describes has not been replaced, and l tells of a method n.
StillDescribes(l, o, n) ==
  /\ \A x \in Objects : path[x] = l.path <=> x = o
  /\ interfaces[o][l.interface] # Absent
  /\ interfaces[o][l.interface].number = l.number
  /\ l.args[n] # Absent

\* What was described is the method that is still there.
Faithful ==
  \A l \in learned :
    /\ l.interface \in Interfaces /\ l.number \in Nat /\ l.number <= added
    /\ \A o \in Objects, n \in MethodName : StillDescribes(l, o, n) =>
         LET called == interfaces[o][l.interface].methods[n]
         IN  called # Absent /\ called \in Methods /\ l.args[n] = Args(called)

\* The inductive invariant of the walk.
WalkInv ==
  /\ TypesOfWalk /\ KnownPaths /\ Began /\ GoesOn /\ Noted
  /\ LeadsSomewhere /\ Faithful

\* The arguments that a description marks as to be passed are those of the method.
LEMMA ArgsIn ==
  ASSUME NEW m \in Methods
  PROVE  LET a == Args(m)
             in == {k \in DOMAIN a : a[k].direction = "in"}
         IN  in = DOMAIN m.in /\ \A k \in in : a[k].type = m.in[k]
<1> DEFINE s == ArgTypes(TRUE, TRUE, m.in, m.in_names)
           t == ArgTypes(FALSE, m.tuple, m.out, m.out_names)
           A == Len(m.in)
           B == Len(m.out)
           S == {s[k] : k \in DOMAIN s} \cup {t[k] : k \in DOMAIN t}
<1>1. m.in \in Seq(STRING) /\ m.out \in Seq(STRING)
  BY IntrospectionAssumption DEF Method
<1>2. /\ A \in Nat /\ DOMAIN m.in = 1..A
      /\ B \in Nat /\ DOMAIN m.out = 1..B
  BY <1>1, LenProperties
<1> HIDE DEF A, B
<1>3. /\ DOMAIN s = 1..A
      /\ \A k \in 1..A : s[k].direction = "in" /\ s[k].type = m.in[k]
  BY <1>2 DEF ArgTypes
<1>4. /\ DOMAIN t = 1..B
      /\ \A k \in 1..B : t[k].direction = "out"
  BY <1>2 DEF ArgTypes
<1>5. /\ s = [k \in 1..A |-> s[k]]
      /\ t = [k \in 1..B |-> t[k]]
  BY <1>2 DEF ArgTypes
<1>6. Args(m) = s \o t
  BY DEF Args
<1> HIDE DEF s, t
<1>7. s \in Seq(S) /\ t \in Seq(S) /\ Len(s) = A /\ Len(t) = B
  <2>1. s \in [1..A -> S] /\ t \in [1..B -> S]
    BY <1>3, <1>4, <1>5
  <2> HIDE DEF S
  <2> QED
    BY <1>2, <2>1
<1> HIDE DEF S
<1>8. /\ DOMAIN (s \o t) = 1..(A + B)
      /\ \A k \in 1..(A + B) :
           (s \o t)[k] = IF k <= A THEN s[k] ELSE t[k - A]
  <2>1. /\ s \o t \in Seq(S) /\ Len(s \o t) = Len(s) + Len(t)
        /\ \A k \in 1..Len(s) + Len(t) :
             (s \o t)[k] = IF k <= Len(s) THEN s[k] ELSE t[k - Len(s)]
    BY <1>7, ConcatProperties
  <2>2. DOMAIN (s \o t) = 1..Len(s \o t)
    BY <2>1, LenProperties
  <2> QED
    BY <1>7, <2>1, <2>2
<1>9. ASSUME NEW k \in 1..(A + B)
      PROVE  /\ k <= A => (s \o t)[k].direction = "in" /\ (s \o t)[k].type = m.in[k]
             /\ ~(k <= A) => (s \o t)[k].direction = "out"
  <2>1. CASE k <= A
    <3>1. k \in 1..A /\ (s \o t)[k] = s[k]
      BY <1>2, <1>8, <2>1
    <3> QED
      BY <1>3, <2>1, <3>1
  <2>2. CASE ~(k <= A)
    <3>1. k - A \in 1..B /\ (s \o t)[k] = t[k - A]
      BY <1>2, <1>8, <2>2
    <3> QED
      BY <1>4, <2>2, <3>1
  <2> QED
    BY <2>1, <2>2
<1>10. /\ {k \in 1..(A + B) : (s \o t)[k].direction = "in"} = 1..A
       /\ \A k \in 1..A : (s \o t)[k].type = m.in[k]
  <2>1. \A k : k \in 1..A
                 <=> k \in 1..(A + B) /\ k <= A
    BY <1>2
  <2>2. "in" # "out"
    OBVIOUS
  <2> QED
    BY <1>9, <2>1, <2>2
<1> QED
  BY <1>2, <1>6, <1>8, <1>10

\* A description of a method that is still there is true.
LEMMA FaithfulIsTrue ==
  ASSUME Faithful
  PROVE  DescriptionStaysTrue
<1> SUFFICES ASSUME NEW l \in learned, NEW o \in Objects, NEW n \in MethodName,
                    StillDescribes(l, o, n)
             PROVE  LET in == {k \in DOMAIN l.args[n] : l.args[n][k].direction = "in"}
                        called == interfaces[o][l.interface].methods[n]
                    IN  /\ called # Absent /\ in = DOMAIN called.in
                        /\ \A k \in in : l.args[n][k].type = called.in[k]
  BY DEF DescriptionStaysTrue, StillDescribes
<1> DEFINE called == interfaces[o][l.interface].methods[n]
<1>1. called # Absent /\ called \in Methods /\ l.args[n] = Args(called)
  BY DEF Faithful
<1> HIDE DEF called
<1>2. LET in == {k \in DOMAIN l.args[n] : l.args[n][k].direction = "in"}
      IN  in = DOMAIN called.in /\ \A k \in in : l.args[n][k].type = called.in[k]
  BY <1>1, ArgsIn
<1> QED
  BY <1>1, <1>2 DEF called

\* Registering one more object.
LEMMA RegisteredMore ==
  ASSUME objects \in Seq(Objects), NEW o \in Objects, objects' = Append(objects, o)
  PROVE  objects' \in Seq(Objects) /\ Registered' = Registered \cup {o}
         /\ Registered \subseteq Objects
<1>1. /\ Len(objects) \in Nat /\ DOMAIN objects = 1..Len(objects)
      /\ objects' \in Seq(Objects) /\ DOMAIN objects' = 1..(Len(objects) + 1)
      /\ \A k \in 1..Len(objects) : objects'[k] = objects[k] /\ objects[k] \in Objects
      /\ objects'[Len(objects) + 1] = o
  BY AppendProperties, LenProperties, ElementOfSeq
<1>2. \A k : k \in 1..(Len(objects) + 1) <=> (k \in 1..Len(objects) \/ k = Len(objects) + 1)
  BY <1>1
<1> QED
  BY <1>1, <1>2 DEF Registered, Range

\* Registered objects are objects.
LEMMA RegisteredAre ==
  ASSUME objects \in Seq(Objects)
  PROVE  Registered \subseteq Objects
BY LenProperties, ElementOfSeq DEF Registered, Range

LEMMA InitWalk == WalkInit => WalkInv
<1> SUFFICES ASSUME WalkInit PROVE WalkInv
  OBVIOUS
<1>1. /\ path \in [Objects -> Paths] /\ objects = <<>> /\ added = 0
      /\ known = {} /\ asked = {} /\ learned = {} /\ atStart = {}
  BY DEF WalkInit
<1>2. NewInterface(0) \in Interface /\ NewInterface(0).number = 0
  BY DEF NewInterface, Interface
<1>3. interfaces = [o \in Objects |-> [i \in Interfaces |->
                      IF i = "Properties" THEN NewInterface(0) ELSE Absent]]
  BY DEF WalkInit
<1>4. TypesOfWalk
  <2>1. interfaces \in [Objects -> [Interfaces -> Interface \cup {Absent}]]
    BY <1>2, <1>3
  <2>2. \A o \in Objects, i \in Interfaces :
          interfaces[o][i] # Absent => interfaces[o][i].number = 0
    BY <1>2, <1>3
  <2>3. objects \in Seq(Objects)
    BY <1>1
  <2> QED
    BY <1>1, <2>1, <2>2, <2>3 DEF TypesOfWalk
<1> QED
  BY <1>1, <1>4 DEF WalkInv, KnownPaths, Began, GoesOn, Noted, Faithful, LeadsSomewhere

\* What a step that leaves the client alone and loses no object, interface or described
\* method keeps.
LEMMA ClientKept ==
  ASSUME WalkInv, TypesOfWalk', added <= added',
         path' = path, Registered \subseteq Registered',
         known' = known, asked' = asked, learned' = learned, atStart' = atStart,
         \A o \in Objects, i \in Interfaces :
           interfaces[o][i] # Absent => interfaces'[o][i] # Absent,
         \A l \in learned, o \in Objects, n \in MethodName :
           StillDescribes(l, o, n)' =>
             /\ StillDescribes(l, o, n)
             /\ interfaces'[o][l.interface].methods[n] = interfaces[o][l.interface].methods[n]
  PROVE  WalkInv'
<1>1. KnownPaths' /\ GoesOn' /\ Noted'
  BY DEF WalkInv, KnownPaths, GoesOn, Noted, Above, IsPrefix, NewPath
<1>2. Began'
  <2>1. Registered \subseteq Objects
    BY RegisteredAre DEF WalkInv, TypesOfWalk
  <2> QED
    BY <2>1 DEF WalkInv, Began
<1>3. LeadsSomewhere'
  <2> DEFINE P == {path[o] : o \in Registered}
             Q == {path[o] : o \in Registered'}
             Apart(p, q) ==
               /\ p # Root
               /\ \A n \in 1..Len(q) :
                    (q[n] # Slash /\ (n = Len(q) \/ q[n + 1] = Slash))
                      => LET s == SubSeq(q, 1, n) IN IsPrefix(s, p) => Above(s, p)
  <2>1. P \subseteq Q
    OBVIOUS
  <2>2. Separated = \A p, q \in P : Apart(p, q)
    BY DEF Separated, Registered
  <2>3. Separated' = \A p, q \in Q : Apart(p, q)
    BY DEF Separated, Registered
  <2>4. Separated' => Separated
    <3> HIDE DEF P, Q, Apart
    <3> QED
      BY <2>1, <2>2, <2>3
  <2>5. Separated => \A q \in known : q = Root \/ \E o \in Registered : Above(q, path[o])
    BY DEF WalkInv, LeadsSomewhere, Registered
  <2>6. Separated' =>
          \A q \in known : q = Root \/ \E o \in Registered' : Above(q, path[o])
    BY <2>4, <2>5
  <2> QED
    BY <2>6 DEF LeadsSomewhere, Registered
<1>4. Faithful'
  <2>1. ASSUME NEW l \in learned
        PROVE  l.interface \in Interfaces /\ l.number \in Nat /\ l.number <= added'
    BY DEF WalkInv, Faithful, TypesOfWalk
  <2>2. ASSUME NEW l \in learned, NEW o \in Objects, NEW n \in MethodName,
               StillDescribes(l, o, n)'
        PROVE  LET called == interfaces'[o][l.interface].methods[n]
               IN  called # Absent /\ called \in Methods /\ l.args[n] = Args(called)
    <3>1. /\ StillDescribes(l, o, n)
          /\ interfaces'[o][l.interface].methods[n] = interfaces[o][l.interface].methods[n]
      BY <2>2
    <3> QED
      BY <3>1 DEF WalkInv, Faithful
  <2> QED
    BY <2>1, <2>2 DEF Faithful
<1> QED
  BY <1>1, <1>2, <1>3, <1>4 DEF WalkInv

LEMMA RegisterObjectWalk ==
  ASSUME WalkInv, NEW o \in Objects, AddObject(o)
  PROVE  WalkInv'
<1>1. /\ objects \in Seq(Objects) /\ objects' = Append(objects, o) /\ path' = path
      /\ interfaces' = interfaces /\ added' = added /\ added \in Nat
      /\ known' = known /\ asked' = asked /\ learned' = learned /\ atStart' = atStart
  BY DEF WalkInv, TypesOfWalk, AddObject, client
<1>2. objects' \in Seq(Objects) /\ Registered \subseteq Registered'
  BY <1>1, RegisteredMore
<1>3. TypesOfWalk'
  BY <1>1, <1>2 DEF WalkInv, TypesOfWalk
<1>4. \A l \in learned, x \in Objects, n \in MethodName :
        StillDescribes(l, x, n)' => StillDescribes(l, x, n)
  BY <1>1 DEF StillDescribes
<1> QED
  BY <1>1, <1>2, <1>3, <1>4, ClientKept

LEMMA AddInterfaceWalk ==
  ASSUME WalkInv,
         NEW o \in Objects, NEW i \in Interfaces, AddInterface(o, i)
  PROVE  WalkInv'
<1> DEFINE fresh == NewInterface(added')
<1>1. /\ added' = added + 1 /\ added \in Nat /\ path' = path /\ objects' = objects
      /\ interfaces' = [interfaces EXCEPT ![o][i] = fresh]
      /\ known' = known /\ asked' = asked /\ learned' = learned /\ atStart' = atStart
      /\ interfaces \in [Objects -> [Interfaces -> Interface \cup {Absent}]]
  BY DEF WalkInv, TypesOfWalk, AddInterface, client
<1>2. fresh \in Interface /\ fresh.number = added' /\ fresh # Absent
  <2>1. added' \in Nat
    BY <1>1
  <2> QED
    BY <2>1, IntrospectionAssumption DEF NewInterface, Interface
<1> HIDE DEF fresh
<1>3. /\ interfaces' \in [Objects -> [Interfaces -> Interface \cup {Absent}]]
      /\ interfaces'[o][i] = fresh
      /\ \A x \in Objects, j \in Interfaces :
           ~(x = o /\ j = i) => interfaces'[x][j] = interfaces[x][j]
  BY <1>1, <1>2
<1>4. TypesOfWalk'
  <2>1. ASSUME NEW x \in Objects, NEW j \in Interfaces, interfaces'[x][j] # Absent
        PROVE  interfaces'[x][j].number <= added'
    <3>1. CASE x = o /\ j = i
      BY <1>1, <1>2, <1>3, <3>1
    <3>2. CASE ~(x = o /\ j = i)
      <4>1. interfaces[x][j] # Absent /\ interfaces[x][j] \in Interface
        BY <1>1, <1>3, <2>1, <3>2
      <4>2. interfaces[x][j].number <= added /\ interfaces[x][j].number \in Nat
        BY <4>1 DEF WalkInv, TypesOfWalk, Interface
      <4> QED
        BY <1>1, <1>3, <3>2, <4>2
    <3> QED
      BY <3>1, <3>2
  <2>2. asked \subseteq known /\ path \in [Objects -> Paths] /\ objects \in Seq(Objects)
    BY DEF WalkInv, TypesOfWalk
  <2> QED
    BY <1>1, <1>3, <2>1, <2>2 DEF TypesOfWalk
<1>5. \A x \in Objects, j \in Interfaces :
        interfaces[x][j] # Absent => interfaces'[x][j] # Absent
  BY <1>2, <1>3
<1>6. ASSUME NEW l \in learned, NEW x \in Objects, NEW n \in MethodName,
             StillDescribes(l, x, n)'
      PROVE  /\ StillDescribes(l, x, n)
             /\ interfaces'[x][l.interface].methods[n] = interfaces[x][l.interface].methods[n]
  <2>1. l.interface \in Interfaces /\ l.number \in Nat /\ l.number <= added
    BY DEF WalkInv, Faithful
  <2>2. interfaces'[x][l.interface].number = l.number
    BY <1>6 DEF StillDescribes
  <2>3. l.number # added'
    BY <1>1, <2>1
  <2>4. ~(x = o /\ l.interface = i)
    BY <1>2, <1>3, <2>2, <2>3
  <2>5. interfaces'[x][l.interface] = interfaces[x][l.interface]
    BY <1>3, <2>1, <2>4
  <2> QED
    BY <1>1, <1>6, <2>5 DEF StillDescribes
<1>7. added <= added' /\ Registered' = Registered
  BY <1>1 DEF Registered
<1> QED
  BY <1>1, <1>4, <1>5, <1>6, <1>7, ClientKept

LEMMA RegisterMethodWalk ==
  ASSUME WalkInv, NEW o \in Objects, NEW i \in Interfaces,
         NEW m \in Methods, RegisterMethod(o, i, m)
  PROVE  WalkInv'
<1> DEFINE old == interfaces[o][i]
           new == [old EXCEPT !.methods = Register(old.methods, m)]
<1>1. /\ added' = added /\ added \in Nat /\ path' = path /\ objects' = objects
      /\ interfaces' = [interfaces EXCEPT ![o][i] = new]
      /\ known' = known /\ asked' = asked /\ learned' = learned /\ atStart' = atStart
      /\ interfaces \in [Objects -> [Interfaces -> Interface \cup {Absent}]]
      /\ old # Absent
  BY DEF WalkInv, TypesOfWalk, RegisterMethod, client
<1>2. old \in Interface /\ m.name \in MethodName
  BY <1>1, IntrospectionAssumption DEF Method
<1>3. /\ new \in Interface /\ new.number = old.number
      /\ \A n \in MethodName :
           old.methods[n] # Absent => new.methods[n] = old.methods[n]
  <2> HIDE DEF old
  <2>1. /\ old.methods \in [MethodName -> Methods \cup {Absent}] /\ old.number \in Nat
        /\ old = [number |-> old.number, methods |-> old.methods]
    BY <1>2 DEF Interface
  <2>2. /\ Register(old.methods, m) \in [MethodName -> Methods \cup {Absent}]
        /\ \A n \in MethodName : old.methods[n] # Absent =>
             Register(old.methods, m)[n] = old.methods[n]
    BY <1>2, <2>1 DEF Register
  <2>3. new = [number |-> old.number, methods |-> Register(old.methods, m)]
    BY <2>1
  <2> HIDE DEF new
  <2> QED
    BY <2>1, <2>2, <2>3 DEF Interface
<1>4. new # Absent
  BY <1>3, IntrospectionAssumption
<1> HIDE DEF new
<1>5. /\ interfaces' \in [Objects -> [Interfaces -> Interface \cup {Absent}]]
      /\ interfaces'[o][i] = new
      /\ \A x \in Objects, j \in Interfaces :
           ~(x = o /\ j = i) => interfaces'[x][j] = interfaces[x][j]
  BY <1>1, <1>3
<1>6. TypesOfWalk'
  <2>1. ASSUME NEW x \in Objects, NEW j \in Interfaces, interfaces'[x][j] # Absent
        PROVE  interfaces'[x][j].number <= added
    BY <1>1, <1>3, <1>5, <2>1 DEF WalkInv, TypesOfWalk
  <2>2. asked \subseteq known /\ path \in [Objects -> Paths] /\ objects \in Seq(Objects)
    BY DEF WalkInv, TypesOfWalk
  <2> QED
    BY <1>1, <1>5, <2>1, <2>2 DEF TypesOfWalk
<1>7. \A x \in Objects, j \in Interfaces :
        interfaces[x][j] # Absent => interfaces'[x][j] # Absent
  BY <1>4, <1>5
<1>8. ASSUME NEW l \in learned, NEW x \in Objects, NEW n \in MethodName,
             StillDescribes(l, x, n)'
      PROVE  /\ StillDescribes(l, x, n)
             /\ interfaces'[x][l.interface].methods[n] = interfaces[x][l.interface].methods[n]
  <2>1. l.interface \in Interfaces
    BY DEF WalkInv, Faithful
  <2>2. CASE ~(x = o /\ l.interface = i)
    <3>1. interfaces'[x][l.interface] = interfaces[x][l.interface]
      BY <1>5, <2>1, <2>2
    <3> QED
      BY <1>1, <1>8, <3>1 DEF StillDescribes
  <2>3. CASE x = o /\ l.interface = i
    <3>1. StillDescribes(l, x, n)
      BY <1>1, <1>3, <1>5, <1>8, <2>3 DEF StillDescribes
    <3>2. old.methods[n] # Absent
      BY <2>3, <3>1 DEF WalkInv, Faithful
    <3> QED
      BY <1>3, <1>5, <2>3, <3>1, <3>2
  <2> QED
    BY <2>2, <2>3
<1>9. added <= added' /\ Registered' = Registered
  BY <1>1 DEF Registered
<1> QED
  BY <1>1, <1>6, <1>7, <1>8, <1>9, ClientKept

LEMMA StartWalkWalk ==
  ASSUME WalkInv, StartWalk
  PROVE  WalkInv'
<1>1. /\ known = {} /\ known' = {<<"/">>} /\ asked' = asked /\ asked \subseteq known
      /\ path' = path /\ objects' = objects /\ interfaces' = interfaces /\ added' = added
      /\ learned' = learned
  BY DEF WalkInv, TypesOfWalk, StartWalk, Root, Slash
<1>2. asked' = {}
  BY <1>1
<1>3. TypesOfWalk' /\ GoesOn' /\ Noted' /\ LeadsSomewhere'
  BY <1>1, <1>2 DEF WalkInv, TypesOfWalk, GoesOn, Noted, LeadsSomewhere, Root, Slash
<1>4. KnownPaths'
  <2>1. <<"/">> \in Seq(Letter) /\ <<"/">> # <<>>
    BY DEF Letter
  <2> QED
    BY <1>1, <2>1 DEF KnownPaths
<1>5. Began'
  <2>1. atStart' = UNION {{<<path[o], i>> : i \in {j \in Interfaces : interfaces[o][j] # Absent}} :
                            o \in Registered}
    BY DEF StartWalk, Registered
  <2>2. Registered' = Registered
    BY <1>1 DEF Registered
  <2> QED
    BY <1>1, <2>1, <2>2 DEF Began
<1>6. Faithful'
  BY <1>1 DEF WalkInv, Faithful, StillDescribes
<1> QED
  BY <1>3, <1>4, <1>5, <1>6 DEF WalkInv

\* The paths that the client learns of when it asks for p.
Shown(p) == {Child(p, n) : n \in Nodes(p) \ {<<>>}}

\* What is shown comes from an object whose path goes on after p.
LEMMA ShownBelow ==
  ASSUME WalkInv, NEW p \in known, NEW r \in Shown(p)
  PROVE  \E o \in Registered : LET N == NewPath(p) IN
           /\ path[o] \in Paths /\ path[o] # N /\ IsPrefix(N, path[o])
           /\ N \in Seq(Letter) /\ Len(N) < Len(path[o])
           /\ Subnode(path[o], N) # <<>>
           /\ r = N \o <<"/">> \o Subnode(path[o], N)
<1> DEFINE N == NewPath(p)
<1>1. PICK o \in Registered \ Exact(p) :
        /\ IsPrefix(N, path[o]) /\ Subnode(path[o], N) # <<>>
        /\ r = N \o <<"/">> \o Subnode(path[o], N)
  BY DEF Shown, Nodes, Child, Registered, Root, Slash
<1>2. path[o] \in Paths
  BY RegisteredAre DEF WalkInv, TypesOfWalk
<1>3. path[o] # N
  BY <1>1 DEF Exact, Registered
<1>4. N \in Seq(Letter)
  BY DEF WalkInv, KnownPaths, NewPath
<1>5. path[o] \in Seq(Letter)
  BY <1>2, PathLetters
<1>6. Starts(N, path[o])
  BY <1>1, <1>4, <1>5, PrefixStarts
<1>7. Len(N) < Len(path[o])
  <2>1. Len(N) \in Nat /\ Len(path[o]) \in Nat
    BY <1>4, <1>5, LenProperties
  <2>2. Len(N) # Len(path[o])
    BY <1>3, <1>4, <1>5, <1>6, SeqEqual DEF Starts
  <2> HIDE DEF N
  <2> QED
    BY <1>6, <2>1, <2>2 DEF Starts
<1> QED
  BY <1>1, <1>2, <1>3, <1>4, <1>7

\* On the way to a registered object that is below p, a node is shown.
LEMMA ShownAbove ==
  ASSUME WalkInv, NEW p \in known, NEW o \in Registered,
         path[o] # <<"/">>, Above(p, path[o]), p # path[o]
  PROVE  LET r == NewPath(p) \o <<"/">> \o Subnode(path[o], NewPath(p))
         IN  /\ r \in Shown(p) /\ Above(r, path[o]) /\ r # <<"/">>
             /\ Len(NewPath(p)) < Len(r)
<1> DEFINE N == NewPath(p)
           n == Subnode(path[o], N)
           r == N \o <<"/">> \o n
<1>1. path[o] \in Paths
  BY RegisteredAre DEF WalkInv, TypesOfWalk
<1>2. p \in Seq(Letter) /\ p # <<>>
  BY DEF WalkInv, KnownPaths
<1>3. N \in Seq(Letter) /\ Over(N, path[o]) /\ N # path[o]
  BY <1>1, <1>2, AboveOver
<1>4. n # <<>> /\ r # <<"/">> /\ Len(r) \in Nat /\ Len(r) > Len(N) /\ Above(r, path[o])
  <2> HIDE DEF N
  <2> QED
    BY <1>1, <1>3, ChildAbove
<1>5. IsPrefix(N, path[o])
  BY <1>1, <1>3, PathLetters, PrefixStarts DEF Over
<1>6. r \in Shown(p)
  <2>1. o \in Registered \ Exact(p)
    BY <1>3 DEF Exact
  <2>2. n \in Nodes(p)
    BY <1>5, <2>1 DEF Nodes, Registered
  <2>3. r = Child(p, n)
    BY DEF Child, Root, Slash
  <2> QED
    BY <1>4, <2>2, <2>3 DEF Shown
<1>7. Len(N) < Len(r)
  <2>1. Len(N) \in Nat
    BY <1>3, LenProperties
  <2> QED
    BY <1>4, <2>1
<1> QED
  BY <1>4, <1>6, <1>7

\* When no path continues another in the middle of a name, what is shown below a node
\* that leads somewhere leads somewhere.
LEMMA ShownLeads ==
  ASSUME WalkInv, Separated,
         NEW p \in known, NEW r \in Shown(p)
  PROVE  \E o \in Registered : Above(r, path[o])
<1> DEFINE N == NewPath(p)
<1>1. PICK o \in Registered :
        /\ path[o] \in Paths /\ path[o] # N /\ IsPrefix(N, path[o])
        /\ r = N \o <<"/">> \o Subnode(path[o], N)
  BY ShownBelow
<1>2. path[o] # <<"/">>
  BY DEF Separated, Registered, Root, Slash
<1>3. Above(p, path[o]) /\ p # path[o]
  <2>1. CASE p = <<"/">>
    BY <1>2, <2>1 DEF Above, Root, Slash
  <2>2. CASE p # <<"/">>
    <3>1. N = p
      BY <2>2 DEF NewPath, Root, Slash
    <3>2. PICK z \in Registered : Above(p, path[z])
      BY <2>2 DEF WalkInv, LeadsSomewhere, Registered, Root, Slash
    <3> DEFINE w == path[z]
               k == Len(p)
    <3>3. w \in Paths /\ w \in Seq(Letter) /\ Len(w) \in Nat
      <4>1. w \in Paths
        BY RegisteredAre DEF WalkInv, TypesOfWalk
      <4> QED
        BY <4>1, PathLetters
    <3>4. p \in Seq(Letter) /\ p # <<>> /\ p[k] # "/"
      BY <2>2 DEF WalkInv, KnownPaths
    <3>5. k \in Nat \ {0}
      BY <3>4, LenProperties, EmptySeq
    <3>6. Starts(p, w) /\ (k = Len(w) \/ w[k + 1] = "/")
      <4>1. CASE p = w
        BY <3>3, <3>5, <4>1 DEF Starts
      <4>2. CASE p # w
        <5>1. IsPrefix(p, w) /\ w[k + 1] = "/"
          BY <2>2, <3>2, <4>2 DEF Above, Root, Slash
        <5> QED
          BY <3>3, <3>4, <5>1, PrefixStarts
      <4> QED
        BY <4>1, <4>2
    <3>7. k \in 1..Len(w) /\ w[k] = p[k]
      <4> HIDE DEF w
      <4> QED
        BY <3>3, <3>5, <3>6 DEF Starts
    <3>8. SubSeq(w, 1, k) = p
      <4> DEFINE u == SubSeq(w, 1, k)
      <4> HIDE DEF w, k
      <4>1. u \in Seq(Letter) /\ Len(u) = k /\ \A j \in 1..k : u[j] = w[j]
        BY <3>3, <3>5, <3>7
      <4> HIDE DEF u
      <4>2. \A j \in 1..k : u[j] = p[j]
        BY <3>6, <4>1 DEF Starts, k
      <4>3. u = p
        BY <3>4, <4>1, <4>2, SeqEqual DEF k
      <4> QED
        BY <4>3 DEF u
    <3>9. (w[k] # "/" /\ (k = Len(w) \/ w[k + 1] = "/")) =>
            (IsPrefix(SubSeq(w, 1, k), path[o]) => Above(SubSeq(w, 1, k), path[o]))
      <4>1. w \in {path[x] : x \in Registered} /\ path[o] \in {path[x] : x \in Registered}
        OBVIOUS
      <4> HIDE DEF w, k
      <4> QED
        BY <3>7, <4>1 DEF Separated, Registered, Slash
    <3> QED
      BY <1>1, <3>1, <3>4, <3>6, <3>7, <3>8, <3>9
  <2> QED
    BY <2>1, <2>2
<1>4. Above(r, path[o])
  BY <1>1, <1>2, <1>3, ShownAbove
<1> QED
  BY <1>4

\* What the answer for p describes, of which object.
LEMMA DescribedIs ==
  ASSUME WalkInv, NEW p, NEW l \in Described(p)
  PROVE  \E o \in Registered :
           /\ o \in Objects /\ path[o] = p
           /\ l.path = p /\ l.interface \in Interfaces
           /\ interfaces[o][l.interface] \in Interface
           /\ l.number = interfaces[o][l.interface].number
           /\ l.number \in Nat /\ l.number <= added
           /\ \A n \in MethodName : l.args[n] # Absent =>
                LET called == interfaces[o][l.interface].methods[n]
                IN  called # Absent /\ called \in Methods /\ l.args[n] = Args(called)
<1>1. PICK o \in Exact(p), i \in Interfaces :
        /\ interfaces[o][i] # Absent
        /\ l = [path |-> p, interface |-> i, number |-> interfaces[o][i].number,
                args |-> [n \in MethodName |->
                            IF interfaces[o][i].methods[n] = Absent THEN Absent
                            ELSE Args(interfaces[o][i].methods[n])]]
  BY DEF Described
<1>2. o \in Registered /\ path[o] = NewPath(p)
  BY DEF Exact, Registered
<1>3. o \in Objects /\ path[o] \in Paths
  BY <1>2, RegisteredAre DEF WalkInv, TypesOfWalk
<1>4. path[o] = p
  <2>1. path[o] # <<>>
    <3>1. Len(path[o]) # 0 /\ Len(<<>>) = 0
      BY <1>3, PathLetters
    <3> QED
      BY <3>1
  <2> QED
    BY <1>2, <2>1 DEF NewPath
<1> DEFINE it == interfaces[o][i]
<1>5. it \in Interface /\ it.number <= added
  BY <1>1, <1>3 DEF WalkInv, TypesOfWalk
<1>6. it.number \in Nat /\ it.methods \in [MethodName -> Methods \cup {Absent}]
  BY <1>5 DEF Interface
<1>7. /\ l.path = p /\ l.interface = i /\ l.number = it.number
      /\ \A n \in MethodName :
           l.args[n] = IF it.methods[n] = Absent THEN Absent ELSE Args(it.methods[n])
  BY <1>1
<1>8. ASSUME NEW n \in MethodName, l.args[n] # Absent
      PROVE  /\ it.methods[n] # Absent /\ it.methods[n] \in Methods
             /\ l.args[n] = Args(it.methods[n])
  <2> HIDE DEF it
  <2> QED
    BY <1>6, <1>7, <1>8
<1> QED
  BY <1>2, <1>3, <1>4, <1>5, <1>6, <1>7, <1>8

LEMMA IntrospectWalk ==
  ASSUME WalkInv, NEW p \in known, Introspect(p)
  PROVE  WalkInv'
<1>1. /\ p \in known \ asked /\ asked' = asked \cup {p} /\ known' = known \cup Shown(p)
      /\ learned' = learned \cup Described(p)
      /\ path' = path /\ objects' = objects /\ interfaces' = interfaces /\ added' = added
      /\ atStart' = atStart
  BY DEF Introspect, Shown
<1>2. Registered' = Registered
  BY <1>1 DEF Registered
<1>3. TypesOfWalk' /\ Began'
  BY <1>1, <1>2 DEF WalkInv, TypesOfWalk, Began
<1>4. KnownPaths'
  <2>1. ASSUME NEW r \in Shown(p)
        PROVE  r \in Seq(Letter) /\ r # <<>> /\ r[Len(r)] # "/"
    <3> DEFINE N == NewPath(p)
    <3>1. PICK o \in Registered :
            /\ path[o] \in Paths /\ N \in Seq(Letter) /\ Len(N) < Len(path[o])
            /\ Subnode(path[o], N) # <<>>
            /\ r = N \o <<"/">> \o Subnode(path[o], N)
      BY ShownBelow
    <3> HIDE DEF N
    <3>2. path[o] \in Seq(Letter)
      BY <3>1, PathLetters
    <3>3. r \in Seq(Letter) /\ Len(r) \in Nat /\ Len(r) > Len(N) + 1 /\ r[Len(r)] # "/"
      BY <3>1, <3>2, ChildEnds
    <3>4. Len(N) \in Nat /\ Len(<<>>) = 0
      BY <3>1, LenProperties
    <3>5. Len(r) # Len(<<>>)
      BY <3>3, <3>4
    <3> QED
      BY <3>3, <3>5
  <2> QED
    BY <1>1, <2>1 DEF WalkInv, KnownPaths
<1>5. GoesOn'
  <2> SUFFICES ASSUME NEW q \in asked', NEW x \in atStart,
                      x[1] # <<"/">>, Above(q, x[1]), q # x[1]
               PROVE  \E r \in known' : /\ Above(r, x[1]) /\ r # <<"/">>
                                        /\ Len(NewPath(q)) < Len(r)
    BY <1>1 DEF GoesOn, Above, IsPrefix, NewPath
  <2>1. CASE q \in asked
    BY <1>1, <2>1 DEF WalkInv, GoesOn
  <2>2. CASE q = p
    <3>1. PICK o \in Registered, i \in Interfaces : x = <<path[o], i>>
      BY DEF WalkInv, Began
    <3>2. x[1] = path[o]
      BY <3>1
    <3>3. LET r == NewPath(p) \o <<"/">> \o Subnode(path[o], NewPath(p))
          IN  /\ r \in Shown(p) /\ Above(r, path[o]) /\ r # <<"/">>
              /\ Len(NewPath(p)) < Len(r)
      BY <2>2, <3>2, ShownAbove
    <3> QED
      BY <1>1, <2>2, <3>2, <3>3
  <2> QED
    BY <1>1, <2>1, <2>2
<1>6. Noted'
  <2> SUFFICES ASSUME NEW x \in atStart, x[1] \in asked', x[1] # <<"/">>
               PROVE  \E l \in learned' : <<l.path, l.interface>> = x
    BY <1>1 DEF Noted
  <2>1. CASE x[1] \in asked
    BY <1>1, <2>1 DEF WalkInv, Noted
  <2>2. CASE x[1] = p
    <3>1. PICK o \in Registered, i \in Interfaces :
            x = <<path[o], i>> /\ interfaces[o][i] # Absent
      BY DEF WalkInv, Began
    <3>2. path[o] = p /\ NewPath(p) = p
      BY <2>2, <3>1 DEF NewPath, Root, Slash
    <3>3. o \in Exact(p)
      BY <3>2 DEF Exact, Registered
    <3> DEFINE l == [path |-> p, interface |-> i, number |-> interfaces[o][i].number,
                     args |-> [n \in MethodName |->
                                 IF interfaces[o][i].methods[n] = Absent THEN Absent
                                 ELSE Args(interfaces[o][i].methods[n])]]
    <3>4. l \in Described(p)
      BY <3>1, <3>3 DEF Described
    <3>5. <<l.path, l.interface>> = x
      BY <3>1, <3>2
    <3> HIDE DEF l
    <3> QED
      BY <1>1, <3>4, <3>5
  <2> QED
    BY <1>1, <2>1, <2>2
<1>7. LeadsSomewhere'
  <2>1. Separated' = Separated
    BY <1>1 DEF Separated, Above, IsPrefix, Range
  <2> SUFFICES ASSUME Separated, NEW q \in known', q # <<"/">>
               PROVE  \E o \in Registered : Above(q, path[o])
    BY <1>1, <1>2, <2>1 DEF LeadsSomewhere, Registered, Above, IsPrefix,
                           Root, Slash
  <2>2. CASE q \in known
    BY <2>2 DEF WalkInv, LeadsSomewhere, Registered, Root, Slash
  <2>3. CASE q \in Shown(p)
    BY <2>3, ShownLeads
  <2> QED
    BY <1>1, <2>2, <2>3
<1>8. Faithful'
  <2>1. ASSUME NEW l \in learned'
        PROVE  /\ l.interface \in Interfaces /\ l.number \in Nat /\ l.number <= added
               /\ \A o \in Objects, n \in MethodName : StillDescribes(l, o, n) =>
                    LET called == interfaces[o][l.interface].methods[n]
                    IN  called # Absent /\ called \in Methods /\ l.args[n] = Args(called)
    <3>1. CASE l \in learned
      BY <3>1 DEF WalkInv, Faithful
    <3>2. CASE l \in Described(p)
      <4>1. PICK o \in Registered :
              /\ o \in Objects /\ path[o] = p
              /\ l.path = p /\ l.interface \in Interfaces
              /\ l.number \in Nat /\ l.number <= added
              /\ \A n \in MethodName : l.args[n] # Absent =>
                   LET called == interfaces[o][l.interface].methods[n]
                   IN  called # Absent /\ called \in Methods /\ l.args[n] = Args(called)
        BY <3>2, DescribedIs
      <4>2. ASSUME NEW x \in Objects, NEW n \in MethodName, StillDescribes(l, x, n)
            PROVE  x = o /\ l.args[n] # Absent
        BY <4>1, <4>2 DEF StillDescribes
      <4> QED
        BY <4>1, <4>2
    <3> QED
      BY <1>1, <3>1, <3>2
  <2>2. \A l, o, n : StillDescribes(l, o, n)' <=> StillDescribes(l, o, n)
    BY <1>1 DEF StillDescribes
  <2> QED
    BY <1>1, <2>1, <2>2 DEF Faithful
<1> QED
  BY <1>3, <1>4, <1>5, <1>6, <1>7, <1>8 DEF WalkInv

LEMMA NextWalk == WalkInv /\ [WalkNext]_walkVars => WalkInv'
<1> SUFFICES ASSUME WalkInv, [WalkNext]_walkVars
             PROVE  WalkInv'
  OBVIOUS
<1>1. CASE UNCHANGED walkVars
  <2>1. /\ path' = path /\ objects' = objects /\ interfaces' = interfaces /\ added' = added
        /\ known' = known /\ asked' = asked /\ learned' = learned /\ atStart' = atStart
    BY <1>1 DEF walkVars
  <2>2. TypesOfWalk' /\ Registered' = Registered /\ added <= added'
    BY <2>1 DEF WalkInv, TypesOfWalk, Registered
  <2>3. \A l \in learned, o \in Objects, n \in MethodName :
          StillDescribes(l, o, n)' => StillDescribes(l, o, n)
    BY <2>1 DEF StillDescribes
  <2> QED
    BY <2>1, <2>2, <2>3, ClientKept
<1>2. CASE \E o \in Objects : AddObject(o)
  BY <1>2, RegisterObjectWalk
<1>3. CASE \E o \in Objects, i \in Interfaces : AddInterface(o, i)
  BY <1>3, AddInterfaceWalk
<1>4. CASE \E o \in Objects, i \in Interfaces, m \in Methods : RegisterMethod(o, i, m)
  BY <1>4, RegisterMethodWalk
<1>5. CASE StartWalk
  BY <1>5, StartWalkWalk
<1>6. CASE \E p \in known : Introspect(p)
  BY <1>6, IntrospectWalk
<1> QED
  BY <1>1, <1>2, <1>3, <1>4, <1>5, <1>6 DEF WalkNext

\* At the end of a walk, the longest known path above an object is that of the object.
LEMMA WalkArrives ==
  ASSUME WalkInv, known # {}, known = asked,
         NEW x \in atStart, x[1] # <<"/">>
  PROVE  x[1] \in asked
<1>1. PICK o \in Registered, i \in Interfaces : x = <<path[o], i>>
  BY DEF WalkInv, Began
<1> DEFINE p == x[1]
           up == {r \in known : Above(r, p)}
           Left(r) == Len(p) - Len(NewPath(r))
<1>2. p = path[o] /\ p \in Paths
  BY <1>1, RegisteredAre DEF WalkInv, TypesOfWalk
<1>3. p \in Seq(Letter) /\ Len(p) \in Nat
  BY <1>2, PathLetters
<1>4. <<"/">> \in up
  BY DEF WalkInv, KnownPaths, Above, Root, Slash
<1> SUFFICES ASSUME p \notin asked PROVE FALSE
  OBVIOUS
<1>5. ASSUME NEW r \in up
      PROVE  /\ Left(r) \in Nat
             /\ \E z \in up : Left(z) < Left(r)
  <2>1. r \in known /\ Above(r, p) /\ r # p
    OBVIOUS
  <2> DEFINE N == NewPath(r)
  <2>2. N \in Seq(Letter) /\ Over(N, p)
    BY <1>2, <2>1, AboveOver DEF WalkInv, KnownPaths
  <2>3. Len(N) \in Nat /\ Len(N) < Len(p)
    BY <2>2, LenProperties DEF Over
  <2>4. PICK z \in known : Above(z, p) /\ z # <<"/">> /\ Len(N) < Len(z)
    BY <2>1 DEF WalkInv, GoesOn
  <2>5. NewPath(z) = z
    BY <2>4 DEF NewPath, Root, Slash
  <2>6. Len(z) \in Nat
    BY LenProperties DEF WalkInv, KnownPaths
  <2> HIDE DEF N, p
  <2>7. Left(r) \in Nat /\ Left(z) < Left(r) /\ z \in up
    BY <1>3, <2>3, <2>4, <2>5, <2>6 DEF N
  <2> QED
    BY <2>7
<1> DEFINE T == {Left(r) : r \in up}
<1>6. T \in SUBSET Nat /\ T # {}
  BY <1>4, <1>5
<1>7. PICK t \in T : \A y \in T : t <= y
  BY <1>6, LeastNat
<1>8. PICK r \in up : t = Left(r)
  OBVIOUS
<1>9. PICK z \in up : Left(z) < Left(r)
  BY <1>5
<1>10. Left(z) \in Nat /\ Left(r) \in Nat /\ Left(r) <= Left(z)
  BY <1>5, <1>7, <1>8
<1> HIDE DEF up, p, Left
<1> QED
  BY <1>9, <1>10

LEMMA WalkIsComplete ==
  ASSUME WalkInv
  PROVE  WalkFindsEverything
<1> SUFFICES ASSUME known # {}, known = asked, NEW x \in atStart
             PROVE  /\ x[1] \in asked
                    /\ x[1] # <<"/">> => \E l \in learned : <<l.path, l.interface>> = x
  BY DEF WalkFindsEverything, WalkOver, Root, Slash
<1>1. CASE x[1] = <<"/">>
  BY <1>1 DEF WalkInv, KnownPaths
<1>2. CASE x[1] # <<"/">>
  <2>1. x[1] \in asked
    BY <1>2, WalkArrives
  <2> QED
    BY <1>2, <2>1 DEF WalkInv, Noted
<1> QED
  BY <1>1, <1>2

\* A client that follows the nodes it is shown from "/" on finds every object and every
\* interface that get_xml_for_path could describe when it began, for any set of paths
\* and whatever is registered meanwhile.
THEOREM WalkFindsEverythingAlways == WalkSpec => []WalkFindsEverything
<1>1. WalkInv => WalkFindsEverything
  BY WalkIsComplete
<1> QED
  BY <1>1, InitWalk, NextWalk, PTL DEF WalkSpec

\* As long as no path continues another in the middle of a name and no object is at
\* "/", every node that get_xml_for_path has shown is an object or lies above one.
THEOREM LeadsSomewhereAlways == WalkSpec => []LeadsSomewhere
<1>1. WalkInv => LeadsSomewhere
  BY DEF WalkInv
<1> QED
  BY <1>1, InitWalk, NextWalk, PTL DEF WalkSpec

\* What get_xml_for_path has said of a method stays true, for any methods, as long as
\* its interface is not replaced: register_method never replaces the first of a name.
THEOREM DescriptionStaysTrueAlways == WalkSpec => []DescriptionStaysTrue
<1>1. WalkInv => DescriptionStaysTrue
  BY FaithfulIsTrue DEF WalkInv
<1> QED
  BY <1>1, InitWalk, NextWalk, PTL DEF WalkSpec
=============================================================================
