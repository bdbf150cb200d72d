---------------------------- MODULE QueueProofs -----------------------------
(***************************************************************************)
(* Proofs about Queue for any number of pushes and pops.                   *)
(***************************************************************************)
EXTENDS Queue, SequenceTheorems, TLAPS

(* The strengthening that makes NobodyStranded and Backlog inductive. *)

\* A call that is between the test and the deque operation holds the mutex.
MutexHeld ==
  \A c \in Calls : pc[c] \in {"store", "take"} => mutex = c

\* What a call saw when it took the mutex is still true when it acts on it.
TestStillTrue ==
  /\ \A m \in Messages : /\ pc[m] = "store" => handlers = <<>>
                         /\ pc[m] = "take" => handlers # <<>>
  /\ \A h \in Handlers : /\ pc[h] = "store" => messages = <<>>
                         /\ pc[h] = "take" => messages # <<>>

\* A call about to post has a partner of the other kind.
PartnerTaken ==
  /\ \A m \in Messages : pc[m] = "post" => taken[m] \in Handlers
  /\ \A h \in Handlers : pc[h] = "post" => taken[h] \in Messages

\* The deques against the histories, element by element.
Balance ==
  /\ Len(messages) + Len(popped) = Len(pushed) + Len(handlers)
  /\ \A i \in 1..Len(messages) : messages[i] = pushed[Len(popped) + i]
  /\ \A i \in 1..Len(handlers) : handlers[i] = popped[Len(pushed) + i]

\* The inductive invariant.
QueueInv ==
  TypeOK /\ MutexHeld /\ TestStillTrue /\ PartnerTaken /\ NobodyStranded /\ Balance

-----------------------------------------------------------------------------
\* A call of push is not a call of async_pop.
LEMMA CallKinds ==
  /\ \A m \in Messages : m \in Calls /\ m \notin Handlers /\ m # Free
  /\ \A h \in Handlers : h \in Calls /\ h \notin Messages /\ h # Free
  /\ \A c \in Calls : c # Free
BY CallsAssumption DEF Calls

\* A new queue is empty and no call has begun.
LEMMA InitQueueInv == Init => QueueInv
BY CallKinds
   DEF Init, QueueInv, TypeOK, MutexHeld, TestStillTrue, PartnerTaken,
       NobodyStranded, Balance, Calls, PC, Closure

\* Every step of a call and of the io_service keeps the types.
LEMMA NextTypeOK == QueueInv /\ [Next]_vars => TypeOK'
<1> SUFFICES ASSUME QueueInv, [Next]_vars PROVE TypeOK'
  OBVIOUS
<1> USE CallKinds DEF QueueInv, TypeOK, PC
<1>1. ASSUME NEW m \in Messages, PushEnter(m) PROVE TypeOK'
  BY <1>1 DEF PushEnter
<1>2. ASSUME NEW m \in Messages, PushStore(m) PROVE TypeOK'
  BY <1>2 DEF PushStore
<1>3. ASSUME NEW m \in Messages, PushTake(m) PROVE TypeOK'
  <2>1. Head(handlers) \in Handlers /\ Tail(handlers) \in Seq(Handlers)
    BY <1>3, HeadTailProperties DEF PushTake, TestStillTrue
  <2>2. QED  BY <1>3, <2>1 DEF PushTake
<1>4. ASSUME NEW m \in Messages, PushPost(m) PROVE TypeOK'
  <2>1. [handler |-> taken[m], message |-> m] \in Closure
    BY <1>4 DEF PushPost, PartnerTaken, Closure
  <2>2. QED  BY <1>4, <2>1 DEF PushPost
<1>5. ASSUME NEW h \in Handlers, PopEnter(h) PROVE TypeOK'
  BY <1>5 DEF PopEnter
<1>6. ASSUME NEW h \in Handlers, PopStore(h) PROVE TypeOK'
  BY <1>6 DEF PopStore
<1>7. ASSUME NEW h \in Handlers, PopTake(h) PROVE TypeOK'
  <2>1. Head(messages) \in Messages /\ Tail(messages) \in Seq(Messages)
    BY <1>7, HeadTailProperties DEF PopTake, TestStillTrue
  <2>2. QED  BY <1>7, <2>1 DEF PopTake
<1>8. ASSUME NEW h \in Handlers, PopPost(h) PROVE TypeOK'
  <2>1. [handler |-> h, message |-> taken[h]] \in Closure
    BY <1>8 DEF PopPost, PartnerTaken, Closure
  <2>2. QED  BY <1>8, <2>1 DEF PopPost
<1>9. CASE RunClosure
  <2>1. Head(posted) \in Closure /\ Tail(posted) \in Seq(Closure)
    BY <1>9, HeadTailProperties DEF RunClosure
  <2>2. QED  BY <1>9, <2>1 DEF RunClosure
<1>10. CASE UNCHANGED vars
  BY <1>10 DEF vars
<1>11. QED
  BY <1>1, <1>2, <1>3, <1>4, <1>5, <1>6, <1>7, <1>8, <1>9, <1>10
     DEF Next, PushStep, PopStep

\* The lock discipline: the test a call made under the mutex survives until
\* the call acts, so that no message and no handler is stored past the other.
LEMMA NextLock ==
  QueueInv /\ [Next]_vars
    => MutexHeld' /\ TestStillTrue' /\ PartnerTaken' /\ NobodyStranded'
<1> SUFFICES ASSUME QueueInv, [Next]_vars
             PROVE  MutexHeld' /\ TestStillTrue' /\ PartnerTaken' /\ NobodyStranded'
  OBVIOUS
<1> DEFINE Goal == MutexHeld' /\ TestStillTrue' /\ PartnerTaken' /\ NobodyStranded'
<1> USE CallKinds DEF QueueInv, TypeOK, MutexHeld, TestStillTrue, PartnerTaken,
                      NobodyStranded
<1>1. ASSUME NEW m \in Messages, PushEnter(m) PROVE Goal
  <2>1. \A c \in Calls : pc[c] \notin {"store", "take"}
    BY <1>1 DEF PushEnter
  <2>2. pc' \in [Calls -> PC] /\ pc'[m] = IF handlers = <<>> THEN "store" ELSE "take"
    BY <1>1 DEF PushEnter, PC
  <2>3. \A c \in Calls : c # m => pc'[c] = pc[c]
    BY <1>1 DEF PushEnter
  <2>4. MutexHeld'
    BY <1>1, <2>1, <2>3 DEF PushEnter
  <2>5. TestStillTrue'
    BY <1>1, <2>1, <2>2, <2>3 DEF PushEnter
  <2>6. PartnerTaken'
    BY <1>1, <2>2, <2>3 DEF PushEnter
  <2>7. QED  BY <1>1, <2>4, <2>5, <2>6 DEF PushEnter
<1>2. ASSUME NEW m \in Messages, PushStore(m) PROVE Goal
  BY <1>2 DEF PushStore
<1>3. ASSUME NEW m \in Messages, PushTake(m) PROVE Goal
  <2>1. Head(handlers) \in Handlers
    BY <1>3, HeadTailProperties DEF PushTake
  <2>2. QED  BY <1>3, <2>1 DEF PushTake
<1>4. ASSUME NEW m \in Messages, PushPost(m) PROVE Goal
  BY <1>4 DEF PushPost
<1>5. ASSUME NEW h \in Handlers, PopEnter(h) PROVE Goal
  <2>1. \A c \in Calls : pc[c] \notin {"store", "take"}
    BY <1>5 DEF PopEnter
  <2>2. pc' \in [Calls -> PC] /\ pc'[h] = IF messages = <<>> THEN "store" ELSE "take"
    BY <1>5 DEF PopEnter, PC
  <2>3. \A c \in Calls : c # h => pc'[c] = pc[c]
    BY <1>5 DEF PopEnter
  <2>4. MutexHeld'
    BY <1>5, <2>1, <2>3 DEF PopEnter
  <2>5. TestStillTrue'
    BY <1>5, <2>1, <2>2, <2>3 DEF PopEnter
  <2>6. PartnerTaken'
    BY <1>5, <2>2, <2>3 DEF PopEnter
  <2>7. QED  BY <1>5, <2>4, <2>5, <2>6 DEF PopEnter
<1>6. ASSUME NEW h \in Handlers, PopStore(h) PROVE Goal
  BY <1>6 DEF PopStore
<1>7. ASSUME NEW h \in Handlers, PopTake(h) PROVE Goal
  <2>1. Head(messages) \in Messages
    BY <1>7, HeadTailProperties DEF PopTake
  <2>2. QED  BY <1>7, <2>1 DEF PopTake
<1>8. ASSUME NEW h \in Handlers, PopPost(h) PROVE Goal
  BY <1>8 DEF PopPost
<1>9. CASE RunClosure
  BY <1>9 DEF RunClosure
<1>10. CASE UNCHANGED vars
  BY <1>10 DEF vars
<1>11. QED
  BY <1>1, <1>2, <1>3, <1>4, <1>5, <1>6, <1>7, <1>8, <1>9, <1>10
     DEF Next, PushStep, PopStep

\* A deque that is the part of a history after its first n elements.
IsRest(deque, history, n) ==
  /\ Len(deque) + n = Len(history)
  /\ \A i \in 1..Len(deque) : deque[i] = history[n + i]

\* push_back on the deque goes with a new last element of the history.
LEMMA RestPushBack ==
  ASSUME NEW S, NEW deque \in Seq(S), NEW history \in Seq(S), NEW n \in Nat,
         NEW e \in S, IsRest(deque, history, n)
  PROVE  IsRest(Append(deque, e), Append(history, e), n)
<1> DEFINE d == Append(deque, e)
           hist == Append(history, e)
<1>1. /\ Len(d) = Len(deque) + 1 /\ d[Len(deque) + 1] = e
      /\ \A i \in 1..Len(deque) : d[i] = deque[i]
  BY AppendProperties
<1>2. /\ Len(hist) = Len(history) + 1 /\ hist[Len(history) + 1] = e
      /\ \A i \in 1..Len(history) : hist[i] = history[i]
  BY AppendProperties
<1>3. Len(deque) \in Nat /\ Len(history) \in Nat
  BY LenProperties
<1>4. Len(deque) + n = Len(history)
  BY DEF IsRest
<1> HIDE DEF d, hist
<1>5. ASSUME NEW i \in 1..Len(d) PROVE d[i] = hist[n + i]
  <2>1. CASE i = Len(deque) + 1
    <3>1. n + i = Len(history) + 1
      BY <2>1, <1>3, <1>4
    <3>2. QED  BY <3>1, <2>1, <1>1, <1>2
  <2>2. CASE i # Len(deque) + 1
    <3>1. i \in 1..Len(deque) /\ n + i \in 1..Len(history)
      BY <2>2, <1>1, <1>3, <1>4
    <3>2. deque[i] = history[n + i]
      BY <3>1 DEF IsRest
    <3>3. QED  BY <3>1, <3>2, <1>1, <1>2
  <2>3. QED  BY <2>1, <2>2
<1>6. Len(d) + n = Len(hist)
  BY <1>1, <1>2, <1>3, <1>4
<1>7. IsRest(d, hist, n)
  BY <1>5, <1>6 DEF IsRest
<1>8. QED  BY <1>7 DEF d, hist

\* pop_front on the deque: the rest begins one element later.
LEMMA RestPopFront ==
  ASSUME NEW S, NEW deque \in Seq(S), NEW history \in Seq(S), NEW n \in Nat,
         deque # <<>>, IsRest(deque, history, n)
  PROVE  IsRest(Tail(deque), history, n + 1)
<1>1. /\ Len(Tail(deque)) = Len(deque) - 1
      /\ \A i \in 1..Len(Tail(deque)) : Tail(deque)[i] = deque[i + 1]
  BY HeadTailProperties
<1>2. Len(deque) \in Nat /\ Len(history) \in Nat
  BY LenProperties
<1>3. ASSUME NEW i \in 1..Len(Tail(deque))
      PROVE  Tail(deque)[i] = history[(n + 1) + i]
  <2>1. i + 1 \in 1..Len(deque) /\ n + (i + 1) = (n + 1) + i
    BY <1>1, <1>2
  <2>2. deque[i + 1] = history[n + (i + 1)]
    BY <2>1 DEF IsRest
  <2>3. QED  BY <2>1, <2>2, <1>1
<1>4. Len(Tail(deque)) + (n + 1) = Len(history)
  <2>1. Len(deque) + n = Len(history)
    BY DEF IsRest
  <2>2. QED  BY <2>1, <1>1, <1>2
<1>5. QED  BY <1>3, <1>4 DEF IsRest

\* Each deque operation keeps the correspondence with the histories.
LEMMA NextBalance == QueueInv /\ [Next]_vars => Balance'
<1> SUFFICES ASSUME QueueInv, [Next]_vars PROVE Balance'
  OBVIOUS
<1>0. /\ Len(messages) \in Nat /\ Len(handlers) \in Nat
      /\ Len(pushed) \in Nat /\ Len(popped) \in Nat
      /\ Len(<<>>) = 0
  BY LenProperties, EmptySeq DEF QueueInv, TypeOK
<1>1. ASSUME NEW m \in Messages, PushEnter(m) PROVE Balance'
  BY <1>1 DEF PushEnter, QueueInv, Balance
<1>2. ASSUME NEW m \in Messages, PushStore(m) PROVE Balance'
  <2>1. handlers = <<>> /\ handlers' = <<>> /\ popped' = popped
    BY <1>2 DEF PushStore, TestStillTrue, QueueInv
  <2>2. IsRest(messages, pushed, Len(popped))
    BY <1>0, <2>1 DEF QueueInv, Balance, IsRest
  <2>3. IsRest(messages', pushed', Len(popped'))
    BY <1>2, <1>0, <2>1, <2>2, RestPushBack DEF PushStore, QueueInv, TypeOK
  <2>4. Len(messages') \in Nat /\ Len(pushed') \in Nat
    BY <1>2, <1>0, AppendProperties DEF PushStore, QueueInv, TypeOK
  <2>5. QED  BY <1>0, <2>1, <2>3, <2>4 DEF Balance, IsRest
<1>3. ASSUME NEW m \in Messages, PushTake(m) PROVE Balance'
  <2>1. handlers # <<>> /\ messages = <<>> /\ messages' = <<>> /\ popped' = popped
    BY <1>3 DEF PushTake, TestStillTrue, NobodyStranded, QueueInv
  <2>2. IsRest(handlers, popped, Len(pushed))
    BY <1>0, <2>1 DEF QueueInv, Balance, IsRest
  <2>3. handlers' = Tail(handlers) /\ Len(pushed') = Len(pushed) + 1
    BY <1>3, AppendProperties DEF PushTake, QueueInv, TypeOK
  <2>4. IsRest(handlers', popped', Len(pushed'))
    BY <1>0, <2>1, <2>2, <2>3, RestPopFront DEF QueueInv, TypeOK
  <2>5. Len(handlers') \in Nat
    BY <2>1, <2>3, HeadTailProperties, LenProperties DEF QueueInv, TypeOK
  <2>6. QED  BY <1>0, <2>1, <2>3, <2>4, <2>5 DEF Balance, IsRest
<1>4. ASSUME NEW m \in Messages, PushPost(m) PROVE Balance'
  BY <1>4 DEF PushPost, QueueInv, Balance
<1>5. ASSUME NEW h \in Handlers, PopEnter(h) PROVE Balance'
  BY <1>5 DEF PopEnter, QueueInv, Balance
<1>6. ASSUME NEW h \in Handlers, PopStore(h) PROVE Balance'
  <2>1. messages = <<>> /\ messages' = <<>> /\ pushed' = pushed
    BY <1>6 DEF PopStore, TestStillTrue, QueueInv
  <2>2. IsRest(handlers, popped, Len(pushed))
    BY <1>0, <2>1 DEF QueueInv, Balance, IsRest
  <2>3. IsRest(handlers', popped', Len(pushed'))
    BY <1>6, <1>0, <2>1, <2>2, RestPushBack DEF PopStore, QueueInv, TypeOK
  <2>4. Len(handlers') \in Nat /\ Len(popped') \in Nat
    BY <1>6, <1>0, AppendProperties DEF PopStore, QueueInv, TypeOK
  <2>5. QED  BY <1>0, <2>1, <2>3, <2>4 DEF Balance, IsRest
<1>7. ASSUME NEW h \in Handlers, PopTake(h) PROVE Balance'
  <2>1. messages # <<>> /\ handlers = <<>> /\ handlers' = <<>> /\ pushed' = pushed
    BY <1>7 DEF PopTake, TestStillTrue, NobodyStranded, QueueInv
  <2>2. IsRest(messages, pushed, Len(popped))
    BY <1>0, <2>1 DEF QueueInv, Balance, IsRest
  <2>3. messages' = Tail(messages) /\ Len(popped') = Len(popped) + 1
    BY <1>7, AppendProperties DEF PopTake, QueueInv, TypeOK
  <2>4. IsRest(messages', pushed', Len(popped'))
    BY <1>0, <2>1, <2>2, <2>3, RestPopFront DEF QueueInv, TypeOK
  <2>5. Len(messages') \in Nat
    BY <2>1, <2>3, HeadTailProperties, LenProperties DEF QueueInv, TypeOK
  <2>6. QED  BY <1>0, <2>1, <2>3, <2>4, <2>5 DEF Balance, IsRest
<1>8. ASSUME NEW h \in Handlers, PopPost(h) PROVE Balance'
  BY <1>8 DEF PopPost, QueueInv, Balance
<1>9. CASE RunClosure
  BY <1>9 DEF RunClosure, QueueInv, Balance
<1>10. CASE UNCHANGED vars
  BY <1>10 DEF vars, QueueInv, Balance
<1>11. QED
  BY <1>1, <1>2, <1>3, <1>4, <1>5, <1>6, <1>7, <1>8, <1>9, <1>10
     DEF Next, PushStep, PopStep

\* The invariant holds in every reachable state.
LEMMA QueueInvariant == Spec => []QueueInv
<1>1. QueueInv /\ [Next]_vars => QueueInv'
  BY NextTypeOK, NextLock, NextBalance DEF QueueInv
<1>2. QED  BY InitQueueInv, <1>1, PTL DEF Spec

-----------------------------------------------------------------------------
\* The deques, the locals of the calls and the closures in the io_service keep
\* their types under every interleaving of push and async_pop.
THEOREM TypeCorrect == Spec => []TypeOK
<1>1. QueueInv => TypeOK
  BY DEF QueueInv
<1>2. QED  BY <1>1, QueueInvariant, PTL

\* push and async_pop never leave a message and a handler waiting for each
\* other, for any number of concurrent calls.
THEOREM NobodyStrandedAlways == Spec => []NobodyStranded
<1>1. QueueInv => NobodyStranded
  BY DEF QueueInv
<1>2. QED  BY <1>1, QueueInvariant, PTL

\* What is stored is exactly what has been pushed (or registered) and not yet
\* paired, in order, for any number of concurrent calls.
THEOREM BacklogAlways == Spec => []Backlog
<1>1. QueueInv => Backlog
  <2> SUFFICES ASSUME QueueInv PROVE Backlog
    OBVIOUS
  <2> USE DEF QueueInv, TypeOK, Balance, NobodyStranded
  <2> DEFINE restM == SubSeq(pushed, Len(popped) + 1, Len(pushed))
             restH == SubSeq(popped, Len(pushed) + 1, Len(popped))
  <2>1. messages = restM
    <3>1. /\ restM \in Seq(Messages)
          /\ Len(restM) = IF Len(popped) + 1 <= Len(pushed)
                          THEN Len(pushed) - Len(popped) ELSE 0
          /\ \A i \in 1..(Len(pushed) - Len(popped)) : restM[i] = pushed[Len(popped) + i]
      <4>1. \A i \in (Len(popped) + 1)..Len(pushed) : pushed[i] \in Messages
        BY ElementOfSeq, LenProperties
      <4>2. Len(popped) + 1 \in Int /\ Len(pushed) \in Int
        BY LenProperties
      <4> HIDE DEF QueueInv, TypeOK
      <4>3. QED  BY <4>1, <4>2, SubSeqProperties
    <3>2. Len(messages) = Len(restM)
      BY <3>1
    <3>3. \A i \in 1..Len(messages) : messages[i] = restM[i]
      BY <3>1, <3>2
    <3> HIDE DEF restM
    <3>4. QED  BY <3>1, <3>2, <3>3, SeqEqual
  <2>2. handlers = restH
    <3>1. /\ restH \in Seq(Handlers)
          /\ Len(restH) = IF Len(pushed) + 1 <= Len(popped)
                          THEN Len(popped) - Len(pushed) ELSE 0
          /\ \A i \in 1..(Len(popped) - Len(pushed)) : restH[i] = popped[Len(pushed) + i]
      <4>1. \A i \in (Len(pushed) + 1)..Len(popped) : popped[i] \in Handlers
        BY ElementOfSeq, LenProperties
      <4>2. Len(pushed) + 1 \in Int /\ Len(popped) \in Int
        BY LenProperties
      <4> HIDE DEF QueueInv, TypeOK
      <4>3. QED  BY <4>1, <4>2, SubSeqProperties
    <3>2. Len(handlers) = Len(restH)
      BY <3>1
    <3>3. \A i \in 1..Len(handlers) : handlers[i] = restH[i]
      BY <3>1, <3>2
    <3> HIDE DEF restH
    <3>4. QED  BY <3>1, <3>2, <3>3, SeqEqual
  <2>3. QED  BY <2>1, <2>2 DEF Backlog
<1>2. QED  BY <1>1, QueueInvariant, PTL

-----------------------------------------------------------------------------
(***************************************************************************)
(* The closures.  QueueInv says where messages and handlers are; to follow *)
(* a closure from the deque operation that makes it to its only run, three *)
(* more facts are needed: a call enters its history once, every closure is *)
(* the pair of some index of the two histories, and no closure is in two   *)
(* places.                                                                 *)
(***************************************************************************)

\* The closures the two kinds of calls have in hand between unlock and io.post.
ByPush(m) == [handler |-> taken[m], message |-> m]
ByPop(h) == [handler |-> h, message |-> taken[h]]

\* The i-th message with the i-th handler, for some i.
IsPair(c) ==
  \E i \in DOMAIN pushed \cap DOMAIN popped :
    c = [handler |-> popped[i], message |-> pushed[i]]

\* A call is in its history once, and only after its deque operation.
InHistoryOnce ==
  /\ \A i \in DOMAIN pushed : pc[pushed[i]] \in {"post", "done"}
  /\ \A i \in DOMAIN popped : pc[popped[i]] \in {"post", "done"}
  /\ \A i, j \in DOMAIN pushed : pushed[i] = pushed[j] => i = j
  /\ \A i, j \in DOMAIN popped : popped[i] = popped[j] => i = j

\* FifoPairing, place by place.
OnlyPairs ==
  /\ \A m \in Messages : pc[m] = "post" => IsPair(ByPush(m))
  /\ \A h \in Handlers : pc[h] = "post" => IsPair(ByPop(h))
  /\ \A i \in DOMAIN posted : IsPair(posted[i])
  /\ \A i \in DOMAIN invoked : IsPair(invoked[i])

\* A closure that is still to be run is in one place: in the hand of one call, or
\* once in the io_service, and it has not been run.
InOnePlace ==
  /\ \A m \in Messages : pc[m] = "post" =>
       /\ \A i \in DOMAIN posted : posted[i] # ByPush(m)
       /\ \A i \in DOMAIN invoked : invoked[i] # ByPush(m)
  /\ \A h \in Handlers : pc[h] = "post" =>
       /\ \A i \in DOMAIN posted : posted[i] # ByPop(h)
       /\ \A i \in DOMAIN invoked : invoked[i] # ByPop(h)
  /\ \A m \in Messages, h \in Handlers :
       pc[m] = "post" /\ pc[h] = "post" => ByPush(m) # ByPop(h)
  /\ \A i, j \in DOMAIN posted : posted[i] = posted[j] => i = j
  /\ \A i \in DOMAIN posted, j \in DOMAIN invoked : posted[i] # invoked[j]

\* The inductive invariant, given QueueInv.
ClosureInv == InHistoryOnce /\ OnlyPairs /\ InOnePlace

\* At first there are no closures.
LEMMA InitClosureInv == Init => ClosureInv
<1> SUFFICES ASSUME Init PROVE ClosureInv
  OBVIOUS
<1>1. DOMAIN pushed = {} /\ DOMAIN popped = {} /\ DOMAIN posted = {} /\ DOMAIN invoked = {}
  BY DEF Init
<1>2. \A c \in Calls : pc[c] = "idle"
  BY DEF Init
<1>3. QED
  BY <1>1, <1>2, CallKinds DEF ClosureInv, InHistoryOnce, OnlyPairs, InOnePlace

\* Appending to an injective sequence something it does not hold.
LEMMA AppendInjectiveSeq ==
  ASSUME NEW S, NEW s \in Seq(S), NEW e \in S,
         \A i, j \in DOMAIN s : s[i] = s[j] => i = j,
         \A i \in DOMAIN s : s[i] # e
  PROVE  /\ DOMAIN Append(s, e) = DOMAIN s \cup {Len(s) + 1}
         /\ Len(s) + 1 \notin DOMAIN s
         /\ \A i \in DOMAIN s : Append(s, e)[i] = s[i]
         /\ Append(s, e)[Len(s) + 1] = e
         /\ \A i, j \in DOMAIN Append(s, e) :
              Append(s, e)[i] = Append(s, e)[j] => i = j
<1>1. /\ DOMAIN s = 1..Len(s) /\ Len(s) \in Nat
      /\ DOMAIN Append(s, e) = 1..(Len(s) + 1)
      /\ \A i \in 1..Len(s) : Append(s, e)[i] = s[i]
      /\ Append(s, e)[Len(s) + 1] = e
  BY AppendProperties, LenProperties
<1>2. DOMAIN Append(s, e) = DOMAIN s \cup {Len(s) + 1} /\ Len(s) + 1 \notin DOMAIN s
  BY <1>1
<1>3. QED  BY <1>1, <1>2

\* A step appends to the histories or leaves them: what was a pair stays one.
LEMMA HistoriesGrow ==
  ASSUME TypeOK, [Next]_vars
  PROVE  /\ \A i \in DOMAIN pushed : i \in DOMAIN pushed' /\ pushed'[i] = pushed[i]
         /\ \A i \in DOMAIN popped : i \in DOMAIN popped' /\ popped'[i] = popped[i]
         /\ \A c : IsPair(c) => IsPair(c)'
<1>1. /\ \A i \in DOMAIN pushed : i \in DOMAIN pushed' /\ pushed'[i] = pushed[i]
      /\ \A i \in DOMAIN popped : i \in DOMAIN popped' /\ popped'[i] = popped[i]
  <2>1. CASE UNCHANGED <<pushed, popped>>
    BY <2>1
  <2>2. CASE \E m \in Messages : pushed' = Append(pushed, m) /\ popped' = popped
    BY <2>2 DEF TypeOK
  <2>3. CASE \E h \in Handlers : popped' = Append(popped, h) /\ pushed' = pushed
    BY <2>3 DEF TypeOK
  <2>4. \/ UNCHANGED <<pushed, popped>>
        \/ \E m \in Messages : pushed' = Append(pushed, m) /\ popped' = popped
        \/ \E h \in Handlers : popped' = Append(popped, h) /\ pushed' = pushed
    BY DEF Next, vars, PushStep, PopStep, PushEnter, PushStore, PushTake, PushPost,
           PopEnter, PopStore, PopTake, PopPost, RunClosure
  <2>5. QED  BY <2>1, <2>2, <2>3, <2>4
<1>2. \A c : IsPair(c) => IsPair(c)'
  BY <1>1 DEF IsPair
<1>3. QED  BY <1>1, <1>2

\* A call that is still to act on a deque is not in its history.
LEMMA NotYetInHistory ==
  ASSUME QueueInv, ClosureInv
  PROVE  /\ \A m \in Messages : pc[m] \in {"idle", "store", "take"} =>
              /\ \A i \in DOMAIN pushed : pushed[i] # m
              /\ \A c : IsPair(c) => c.message # m
         /\ \A h \in Handlers : pc[h] \in {"idle", "store", "take"} =>
              /\ \A i \in DOMAIN popped : popped[i] # h
              /\ \A c : IsPair(c) => c.handler # h
BY DEF ClosureInv, InHistoryOnce, IsPair

\* push and async_pop that take a partner make the next pair.
LEMMA TakeMakesPair ==
  ASSUME QueueInv
  PROVE  /\ \A m \in Messages : PushTake(m) => IsPair(ByPush(m))'
         /\ \A h \in Handlers : PopTake(h) => IsPair(ByPop(h))'
<1>0. /\ Len(messages) \in Nat /\ Len(handlers) \in Nat
      /\ Len(pushed) \in Nat /\ Len(popped) \in Nat /\ Len(<<>>) = 0
      /\ DOMAIN pushed = 1..Len(pushed) /\ DOMAIN popped = 1..Len(popped)
  BY LenProperties, EmptySeq DEF QueueInv, TypeOK
<1>1. ASSUME NEW m \in Messages, PushTake(m) PROVE IsPair(ByPush(m))'
  <2> DEFINE n == Len(pushed) + 1
  <2>1. handlers # <<>> /\ messages = <<>>
    BY <1>1 DEF PushTake, TestStillTrue, NobodyStranded, QueueInv
  <2>2. Head(handlers) = handlers[1] /\ Len(handlers) >= 1
    BY <1>0, <2>1, HeadTailProperties, EmptySeq DEF QueueInv, TypeOK
  <2>3. handlers[1] = popped[n] /\ n \in 1..Len(popped)
    BY <1>0, <2>1, <2>2 DEF QueueInv, Balance
  <2>4. pushed' = Append(pushed, m) /\ popped' = popped
    BY <1>1 DEF PushTake
  <2>5. DOMAIN pushed' = 1..n /\ pushed'[n] = m
    BY <2>4, AppendProperties DEF QueueInv, TypeOK
  <2>6. taken'[m] = Head(handlers)
    BY <1>1, CallKinds DEF PushTake, QueueInv, TypeOK
  <2>7. n \in DOMAIN pushed' \cap DOMAIN popped'
    BY <1>0, <2>3, <2>4, <2>5
  <2> HIDE DEF n
  <2>8. QED  BY <2>2, <2>3, <2>4, <2>5, <2>6, <2>7 DEF IsPair, ByPush
<1>2. ASSUME NEW h \in Handlers, PopTake(h) PROVE IsPair(ByPop(h))'
  <2> DEFINE n == Len(popped) + 1
  <2>1. messages # <<>> /\ handlers = <<>>
    BY <1>2 DEF PopTake, TestStillTrue, NobodyStranded, QueueInv
  <2>2. Head(messages) = messages[1] /\ Len(messages) >= 1
    BY <1>0, <2>1, HeadTailProperties, EmptySeq DEF QueueInv, TypeOK
  <2>3. messages[1] = pushed[n] /\ n \in 1..Len(pushed)
    BY <1>0, <2>1, <2>2 DEF QueueInv, Balance
  <2>4. popped' = Append(popped, h) /\ pushed' = pushed
    BY <1>2 DEF PopTake
  <2>5. DOMAIN popped' = 1..n /\ popped'[n] = h
    BY <2>4, AppendProperties DEF QueueInv, TypeOK
  <2>6. taken'[h] = Head(messages)
    BY <1>2, CallKinds DEF PopTake, QueueInv, TypeOK
  <2>7. n \in DOMAIN pushed' \cap DOMAIN popped'
    BY <1>0, <2>3, <2>4, <2>5
  <2> HIDE DEF n
  <2>8. QED  BY <2>2, <2>3, <2>4, <2>5, <2>6, <2>7 DEF IsPair, ByPop
<1>3. QED  BY <1>1, <1>2

\* Each call enters its history at most once.
LEMMA NextInHistoryOnce ==
  ASSUME QueueInv, ClosureInv, [Next]_vars
  PROVE  InHistoryOnce'
<1> USE CallKinds DEF QueueInv, TypeOK, ClosureInv, InHistoryOnce
<1>0. /\ \A i \in DOMAIN pushed : pushed[i] \in Calls
      /\ \A i \in DOMAIN popped : popped[i] \in Calls
  BY ElementOfSeq, LenProperties
<1>1. ASSUME NEW c \in Calls, NEW p \in {"store", "take"}, pc[c] = "idle",
             pc' = [pc EXCEPT ![c] = p], UNCHANGED <<pushed, popped>>
      PROVE  InHistoryOnce'
  BY <1>0, <1>1
<1>2. ASSUME NEW m \in Messages, pc[m] \in {"store", "take"},
             NEW p \in {"post", "done"}, pc' = [pc EXCEPT ![m] = p],
             pushed' = Append(pushed, m), popped' = popped
      PROVE  InHistoryOnce'
  <2>1. \A i \in DOMAIN pushed : pushed[i] # m
    BY <1>2, NotYetInHistory
  <2>2. /\ DOMAIN pushed' = DOMAIN pushed \cup {Len(pushed) + 1}
        /\ \A i \in DOMAIN pushed : pushed'[i] = pushed[i]
        /\ pushed'[Len(pushed) + 1] = m
        /\ \A i, j \in DOMAIN pushed' : pushed'[i] = pushed'[j] => i = j
    BY <1>2, <2>1, AppendInjectiveSeq
  <2>3. \A i \in DOMAIN pushed' : pc'[pushed'[i]] \in {"post", "done"}
    BY <1>0, <1>2, <2>2
  <2>4. \A i \in DOMAIN popped' : pc'[popped'[i]] \in {"post", "done"}
    BY <1>0, <1>2
  <2>5. QED  BY <1>2, <2>2, <2>3, <2>4
<1>3. ASSUME NEW h \in Handlers, pc[h] \in {"store", "take"},
             NEW p \in {"post", "done"}, pc' = [pc EXCEPT ![h] = p],
             popped' = Append(popped, h), pushed' = pushed
      PROVE  InHistoryOnce'
  <2>1. \A i \in DOMAIN popped : popped[i] # h
    BY <1>3, NotYetInHistory
  <2>2. /\ DOMAIN popped' = DOMAIN popped \cup {Len(popped) + 1}
        /\ \A i \in DOMAIN popped : popped'[i] = popped[i]
        /\ popped'[Len(popped) + 1] = h
        /\ \A i, j \in DOMAIN popped' : popped'[i] = popped'[j] => i = j
    BY <1>3, <2>1, AppendInjectiveSeq
  <2>3. \A i \in DOMAIN popped' : pc'[popped'[i]] \in {"post", "done"}
    BY <1>0, <1>3, <2>2
  <2>4. \A i \in DOMAIN pushed' : pc'[pushed'[i]] \in {"post", "done"}
    BY <1>0, <1>3
  <2>5. QED  BY <1>3, <2>2, <2>3, <2>4
<1>4. ASSUME NEW c \in Calls, pc' = [pc EXCEPT ![c] = "done"], UNCHANGED <<pushed, popped>>
      PROVE  InHistoryOnce'
  BY <1>0, <1>4
<1>5. ASSUME UNCHANGED <<pc, pushed, popped>> PROVE InHistoryOnce'
  BY <1>5
<1> HIDE DEF QueueInv, TypeOK, ClosureInv, InHistoryOnce
<1>6. ASSUME NEW m \in Messages, PushEnter(m) \/ PushStep(m) PROVE InHistoryOnce'
  BY <1>6, <1>1, <1>2, <1>4, CallKinds
     DEF PushEnter, PushStep, PushStore, PushTake, PushPost
<1>7. ASSUME NEW h \in Handlers, PopEnter(h) \/ PopStep(h) PROVE InHistoryOnce'
  BY <1>7, <1>1, <1>3, <1>4, CallKinds
     DEF PopEnter, PopStep, PopStore, PopTake, PopPost
<1>8. QED
  BY <1>5, <1>6, <1>7 DEF Next, RunClosure, vars

\* Every closure that is made, kept in hand, posted or run is a pair.
LEMMA NextOnlyPairs ==
  ASSUME QueueInv, ClosureInv, [Next]_vars
  PROVE  OnlyPairs'
<1> USE CallKinds DEF QueueInv, TypeOK, PC, ClosureInv, OnlyPairs, ByPush, ByPop
<1>0. \A c : IsPair(c) => IsPair(c)'
  BY HistoriesGrow
<1>1. ASSUME NEW c \in Calls, NEW p \in PC \ {"post"}, pc' = [pc EXCEPT ![c] = p],
             UNCHANGED <<taken, posted, invoked>>
      PROVE  OnlyPairs'
  BY <1>0, <1>1
<1>2. ASSUME NEW m \in Messages, PushTake(m) PROVE OnlyPairs'
  <2>1. IsPair(ByPush(m))'
    BY <1>2, TakeMakesPair
  <2>2. \A c \in Calls \ {m} : pc'[c] = pc[c] /\ taken'[c] = taken[c]
    BY <1>2 DEF PushTake
  <2>3. QED  BY <1>0, <1>2, <2>1, <2>2 DEF PushTake
<1>3. ASSUME NEW h \in Handlers, PopTake(h) PROVE OnlyPairs'
  <2>1. IsPair(ByPop(h))'
    BY <1>3, TakeMakesPair
  <2>2. \A c \in Calls \ {h} : pc'[c] = pc[c] /\ taken'[c] = taken[c]
    BY <1>3 DEF PopTake
  <2>3. QED  BY <1>0, <1>3, <2>1, <2>2 DEF PopTake
<1>4. ASSUME NEW c \in Calls, pc' = [pc EXCEPT ![c] = "done"],
             UNCHANGED <<taken, invoked>>,
             NEW e \in Closure, IsPair(e), posted' = Append(posted, e)
      PROVE  OnlyPairs'
  BY <1>0, <1>4
<1>5. CASE RunClosure
  <2>1. /\ Head(posted) = posted[1] /\ 1 \in DOMAIN posted
        /\ Head(posted) \in Closure
        /\ \A i \in DOMAIN Tail(posted) : i + 1 \in DOMAIN posted /\ Tail(posted)[i] = posted[i + 1]
    BY <1>5, HeadTailProperties, LenProperties, EmptySeq DEF RunClosure
  <2>2. IsPair(Head(posted)) /\ \A i \in DOMAIN posted' : IsPair(posted'[i])
    BY <1>5, <2>1 DEF RunClosure
  <2>3. \A i \in DOMAIN invoked' : IsPair(invoked'[i])
    BY <1>5, <2>1, <2>2 DEF RunClosure
  <2>4. QED  BY <1>0, <1>5, <2>2, <2>3 DEF RunClosure
<1>6. CASE UNCHANGED vars
  BY <1>6, <1>0 DEF vars
<1>7. ASSUME NEW m \in Messages, PushPost(m) PROVE OnlyPairs'
  <2>1. ByPush(m) \in Closure /\ IsPair(ByPush(m))
    BY <1>7 DEF PushPost, PartnerTaken, Closure
  <2>2. QED  BY <1>4, <1>7, <2>1 DEF PushPost
<1>8. ASSUME NEW h \in Handlers, PopPost(h) PROVE OnlyPairs'
  <2>1. ByPop(h) \in Closure /\ IsPair(ByPop(h))
    BY <1>8 DEF PopPost, PartnerTaken, Closure
  <2>2. QED  BY <1>4, <1>8, <2>1 DEF PopPost
<1> HIDE DEF QueueInv, TypeOK, ClosureInv, OnlyPairs, ByPush, ByPop
<1>9. ASSUME NEW m \in Messages, PushEnter(m) \/ PushStep(m) PROVE OnlyPairs'
  BY <1>9, <1>1, <1>2, <1>7 DEF PushEnter, PushStep, PushStore
<1>10. ASSUME NEW h \in Handlers, PopEnter(h) \/ PopStep(h) PROVE OnlyPairs'
  BY <1>10, <1>1, <1>3, <1>8 DEF PopEnter, PopStep, PopStore
<1>11. QED
  BY <1>5, <1>6, <1>9, <1>10 DEF Next

\* A closure goes from hand to io_service to its run and is never copied.
LEMMA NextInOnePlace ==
  ASSUME QueueInv, ClosureInv, [Next]_vars
  PROVE  InOnePlace'
<1> USE CallKinds DEF QueueInv, TypeOK, PC, ClosureInv, InOnePlace, ByPush, ByPop
<1>1. ASSUME NEW c \in Calls, NEW p \in PC \ {"post"}, pc' = [pc EXCEPT ![c] = p],
             UNCHANGED <<taken, posted, invoked>>
      PROVE  InOnePlace'
  BY <1>1
<1>2. ASSUME NEW m \in Messages, PushTake(m) PROVE InOnePlace'
  <2>1. \A c : IsPair(c) => c.message # m
    BY <1>2, NotYetInHistory DEF PushTake
  <2>2. \A c \in Calls \ {m} : pc'[c] = pc[c] /\ taken'[c] = taken[c]
    BY <1>2 DEF PushTake
  <2>3. /\ \A i \in DOMAIN posted : posted[i].message # m
        /\ \A i \in DOMAIN invoked : invoked[i].message # m
        /\ \A h \in Handlers : pc[h] = "post" => ByPop(h).message # m
    BY <2>1 DEF OnlyPairs
  <2>4. ByPush(m)'.message = m
    OBVIOUS
  <2>5. \A h \in Handlers : pc'[h] = "post" => ByPush(m)' # ByPop(h)'
    BY <2>2, <2>3, <2>4
  <2>6. QED  BY <1>2, <2>2, <2>3, <2>4, <2>5 DEF PushTake
<1>3. ASSUME NEW h \in Handlers, PopTake(h) PROVE InOnePlace'
  <2>1. \A c : IsPair(c) => c.handler # h
    BY <1>3, NotYetInHistory DEF PopTake
  <2>2. \A c \in Calls \ {h} : pc'[c] = pc[c] /\ taken'[c] = taken[c]
    BY <1>3 DEF PopTake
  <2>3. /\ \A i \in DOMAIN posted : posted[i].handler # h
        /\ \A i \in DOMAIN invoked : invoked[i].handler # h
        /\ \A m \in Messages : pc[m] = "post" => ByPush(m).handler # h
    BY <2>1 DEF OnlyPairs
  <2>4. ByPop(h)'.handler = h
    OBVIOUS
  <2>5. \A m \in Messages : pc'[m] = "post" => ByPush(m)' # ByPop(h)'
    BY <2>2, <2>3, <2>4
  <2>6. QED  BY <1>3, <2>2, <2>3, <2>4, <2>5 DEF PopTake
<1>4. ASSUME NEW c \in Calls, pc' = [pc EXCEPT ![c] = "done"],
             UNCHANGED <<taken, invoked>>,
             NEW e \in Closure, posted' = Append(posted, e),
             \A i \in DOMAIN posted : posted[i] # e,
             \A i \in DOMAIN invoked : invoked[i] # e,
             \A m \in Messages : m # c /\ pc[m] = "post" => ByPush(m) # e,
             \A h \in Handlers : h # c /\ pc[h] = "post" => ByPop(h) # e
      PROVE  InOnePlace'
  <2>1. /\ DOMAIN posted' = DOMAIN posted \cup {Len(posted) + 1}
        /\ \A i \in DOMAIN posted : posted'[i] = posted[i]
        /\ posted'[Len(posted) + 1] = e
        /\ \A i, j \in DOMAIN posted' : posted'[i] = posted'[j] => i = j
    BY <1>4, AppendInjectiveSeq
  <2>2. pc'[c] = "done" /\ \A d \in Calls \ {c} : pc'[d] = pc[d] /\ taken' = taken
    BY <1>4
  <2>3. QED  BY <1>4, <2>1, <2>2
<1>5. CASE RunClosure
  <2>1. /\ posted[1] = Head(posted) /\ 1 \in DOMAIN posted
        /\ posted' \in Seq(Closure)
        /\ \A i \in DOMAIN posted' :
             i + 1 \in DOMAIN posted /\ posted'[i] = posted[i + 1] /\ i + 1 # 1 /\ i \in Nat
    BY <1>5, HeadTailProperties, LenProperties, EmptySeq DEF RunClosure
  <2>2. /\ DOMAIN invoked' = DOMAIN invoked \cup {Len(invoked) + 1}
        /\ \A i \in DOMAIN invoked : invoked'[i] = invoked[i]
        /\ invoked'[Len(invoked) + 1] = posted[1]
    <3>1. Head(posted) \in Closure
      BY <1>5, HeadTailProperties DEF RunClosure
    <3>2. QED  BY <1>5, <2>1, <3>1, AppendProperties, LenProperties DEF RunClosure
  <2>3. \A i \in DOMAIN posted', j \in DOMAIN invoked' : posted'[i] # invoked'[j]
    BY <2>1, <2>2
  <2>4. ASSUME NEW i \in DOMAIN posted', NEW j \in DOMAIN posted', posted'[i] = posted'[j]
        PROVE  i = j
    <3>1. /\ i \in Nat /\ i + 1 \in DOMAIN posted /\ posted'[i] = posted[i + 1]
          /\ j \in Nat /\ j + 1 \in DOMAIN posted /\ posted'[j] = posted[j + 1]
      BY <2>1
    <3>2. i + 1 = j + 1
      BY <2>4, <3>1
    <3>3. QED  BY <3>1, <3>2
  <2>5. \A m \in Messages : pc'[m] = "post" =>
          /\ \A i \in DOMAIN posted' : posted'[i] # ByPush(m)'
          /\ \A i \in DOMAIN invoked' : invoked'[i] # ByPush(m)'
    BY <1>5, <2>1, <2>2 DEF RunClosure
  <2>6. \A h \in Handlers : pc'[h] = "post" =>
          /\ \A i \in DOMAIN posted' : posted'[i] # ByPop(h)'
          /\ \A i \in DOMAIN invoked' : invoked'[i] # ByPop(h)'
    BY <1>5, <2>1, <2>2 DEF RunClosure
  <2>7. QED  BY <1>5, <2>3, <2>4, <2>5, <2>6 DEF RunClosure
<1>6. CASE UNCHANGED vars
  BY <1>6 DEF vars
<1>7. ASSUME NEW m \in Messages, PushPost(m) PROVE InOnePlace'
  <2>1. ByPush(m) \in Closure
    BY <1>7 DEF PushPost, PartnerTaken, Closure
  <2>2. \A x \in Messages : x # m => ByPush(x) # ByPush(m)
    OBVIOUS
  <2>3. QED  BY <1>4, <1>7, <2>1, <2>2 DEF PushPost
<1>8. ASSUME NEW h \in Handlers, PopPost(h) PROVE InOnePlace'
  <2>1. ByPop(h) \in Closure
    BY <1>8 DEF PopPost, PartnerTaken, Closure
  <2>2. \A x \in Handlers : x # h => ByPop(x) # ByPop(h)
    OBVIOUS
  <2>3. QED  BY <1>4, <1>8, <2>1, <2>2 DEF PopPost
<1> HIDE DEF QueueInv, TypeOK, ClosureInv, InOnePlace, ByPush, ByPop
<1>9. ASSUME NEW m \in Messages, PushEnter(m) \/ PushStep(m) PROVE InOnePlace'
  BY <1>9, <1>1, <1>2, <1>7 DEF PushEnter, PushStep, PushStore
<1>10. ASSUME NEW h \in Handlers, PopEnter(h) \/ PopStep(h) PROVE InOnePlace'
  BY <1>10, <1>1, <1>3, <1>8 DEF PopEnter, PopStep, PopStore
<1>11. QED
  BY <1>5, <1>6, <1>9, <1>10 DEF Next

\* The invariant of the closures holds in every reachable state.
LEMMA ClosureInvariant == Spec => [](QueueInv /\ ClosureInv)
<1>1. QueueInv /\ ClosureInv /\ [Next]_vars => ClosureInv'
  BY NextInHistoryOnce, NextOnlyPairs, NextInOnePlace DEF ClosureInv
<1>2. QED  BY InitClosureInv, <1>1, QueueInvariant, PTL DEF Spec

-----------------------------------------------------------------------------
\* Whoever wins the races for the mutex and however late the closures are posted
\* and run, a closure joins the i-th message to the i-th handler.
THEOREM FifoPairingAlways == Spec => []FifoPairing
<1>1. ClosureInv => FifoPairing
  <2> SUFFICES ASSUME ClosureInv, NEW c \in Made PROVE IsPair(c)
    BY DEF FifoPairing, IsPair
  <2>1. QED  BY DEF Made, ClosureInv, OnlyPairs, ByPush, ByPop
<1>2. QED  BY <1>1, ClosureInvariant, PTL

\* The class implements its specification: every deque operation under the lock is
\* one arrival, every run of a closure one hand-over that has not happened before,
\* and nothing else shows.
THEOREM QueueImplementsRendezvous == Spec => ImplementsRendezvous
<1> USE DEF Abstract!Init, Abstract!Next, Abstract!vars, Abstract!Push, Abstract!Pop,
            Abstract!Invoke, Abstract!Elements
<1>1. Init => Abstract!Init
  BY DEF Init
<1>2. QueueInv /\ ClosureInv /\ [Next]_vars => [Abstract!Next]_(Abstract!vars)
  <2> SUFFICES ASSUME QueueInv, ClosureInv, [Next]_vars
               PROVE  [Abstract!Next]_(Abstract!vars)
    OBVIOUS
  <2>1. ASSUME NEW m \in Messages, PushStore(m) \/ PushTake(m) PROVE Abstract!Push(m)
    BY <2>1, NotYetInHistory DEF PushStore, PushTake
  <2>2. ASSUME NEW h \in Handlers, PopStore(h) \/ PopTake(h) PROVE Abstract!Pop(h)
    BY <2>2, NotYetInHistory DEF PopStore, PopTake
  <2>3. CASE RunClosure
    <3>1. posted[1] = Head(posted) /\ 1 \in DOMAIN posted
      BY <2>3, HeadTailProperties, LenProperties, EmptySeq DEF RunClosure, QueueInv, TypeOK
    <3>2. PICK i \in DOMAIN pushed \cap DOMAIN popped :
            Head(posted) = [handler |-> popped[i], message |-> pushed[i]]
      BY <3>1 DEF ClosureInv, OnlyPairs, IsPair
    <3>3. \A j \in DOMAIN invoked : invoked[j] # Head(posted)
      BY <3>1 DEF ClosureInv, InOnePlace
    <3>4. Abstract!Invoke(i)
      BY <2>3, <3>2, <3>3 DEF RunClosure
    <3>5. QED  BY <3>2, <3>4
  <2>4. CASE UNCHANGED <<pushed, popped, invoked>>
    BY <2>4
  <2>5. QED
    BY <2>1, <2>2, <2>3, <2>4
       DEF Next, vars, PushStep, PopStep, PushEnter, PushPost, PopEnter, PopPost
<1>3. QED
  BY <1>1, <1>2, ClosureInvariant, PTL DEF Spec, ImplementsRendezvous, Abstract!Spec
=============================================================================
