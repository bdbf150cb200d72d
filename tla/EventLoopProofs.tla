--------------------------- MODULE EventLoopProofs --------------------------
(***************************************************************************)
(* For any number of threads, starters, blocking callers and messages: the *)
(* state of EventLoop is well typed, no wakeup is lost, dispatch_handlers  *)
(* do not multiply, and there is one chain of reads.                       *)
(***************************************************************************)
EXTENDS EventLoop, FiniteSetTheorems, TLAPS

\* The initial states are well typed.
LEMMA InitTypeOK == Init => TypeOK
<1> SUFFICES ASSUME Init PROVE TypeOK
  OBVIOUS
<1>1. incoming \in Nat /\ (Status(incoming) \in {"remains", "complete"})
  BY LoopAssumption DEF Init, Status
<1>2. enabled \in BOOLEAN
  BY DEF Init
<1>3. reads \in Nat
  BY DEF Init
<1> QED
  BY <1>1, <1>2, <1>3, LoopAssumption DEF Init, TypeOK, ThreadPC, StarterPC, BlockerPC

\* The status is one of the two the binding tells apart.
LEMMA StatusType == \A n : Status(n) \in {"remains", "complete"}
  BY DEF Status

\* watch_toggled keeps the number of reads a natural number.
LEMMA ToggleType ==
  ASSUME TypeOK, NEW n, NEW d, NEW h, ToggleReadWatch(n, d, h)
  PROVE  enabled' \in BOOLEAN /\ reads' \in Nat
  BY DEF TypeOK, ToggleReadWatch

\* So does the count of the times the status fell back.
LEMMA QuietedType == ASSUME TypeOK, NEW n PROVE Quieted(n) \in Nat
  BY DEF TypeOK, Quieted

\* Every step of a thread of the io_service preserves the types.
LEMMA ThreadTypeOK ==
  ASSUME TypeOK, NEW t \in Threads, ThreadStep(t)
  PROVE  TypeOK'
<1> USE DEF TypeOK, libdbus, binding, control, history, ThreadPC
<1>1. CASE RunDispatchHandler(t)
  BY <1>1 DEF RunDispatchHandler
<1>2. CASE DispatchNothing(t)
  BY <1>2 DEF DispatchNothing
<1>3. CASE DispatchTake(t)
  BY <1>3 DEF DispatchTake
<1>4. CASE DispatchDone(t)
  <2>1. enabled' \in BOOLEAN /\ reads' \in Nat
    BY <1>4, ToggleType DEF DispatchDone
  <2> QED
    BY <1>4, <2>1, StatusType DEF DispatchDone
<1>5. CASE DispatchNotify(t)
  BY <1>5 DEF DispatchNotify
<1>6. CASE Repost(t)
  BY <1>6 DEF Repost
<1>7. CASE RunWatchHandler(t)
  BY <1>7 DEF RunWatchHandler
<1>8. CASE WatchHandle(t)
  <2>1. PICK k \in IF enabled /\ wire > 0 THEN 1..wire ELSE {0} :
          /\ wire' = wire - k
          /\ incoming' = incoming + k
          /\ last_status' = Status(incoming + k)
          /\ quieted' = Quieted(incoming + k)
          /\ ToggleReadWatch(incoming + k, dispatcher, held)
          /\ thread' = [thread EXCEPT
               ![t] = IF MustNotify(incoming + k) THEN "notifyThenRearm" ELSE "rearm"]
    BY <1>8 DEF WatchHandle
  <2>2. k \in Nat /\ wire - k \in Nat
    OBVIOUS
  <2>3. enabled' \in BOOLEAN /\ reads' \in Nat
    BY <2>1, ToggleType
  <2>4. quieted' \in Nat
    BY <2>1, QuietedType
  <2>5. thread' \in [Threads -> ThreadPC]
    BY <2>1
  <2> QED
    BY <1>8, <2>1, <2>2, <2>3, <2>4, <2>5, StatusType DEF WatchHandle
<1>9. CASE WatchNotify(t)
  BY <1>9 DEF WatchNotify
<1>10. CASE WatchToggledTest(t)
  BY <1>10 DEF WatchToggledTest
<1>11. CASE WatchToggledAct(t)
  BY <1>11 DEF WatchToggledAct
<1> QED
  BY <1>1, <1>2, <1>3, <1>4, <1>5, <1>6, <1>7, <1>8, <1>9, <1>10, <1>11 DEF ThreadStep

\* Every step preserves the types.
LEMMA NextTypeOK == TypeOK /\ [Next]_vars => TypeOK'
<1> SUFFICES ASSUME TypeOK, [Next]_vars PROVE TypeOK'
  OBVIOUS
<1>1. CASE BusSends
  BY <1>1, LoopAssumption DEF BusSends, TypeOK, binding, control, history
<1>2. CASE SocketReadable
  BY <1>2 DEF SocketReadable, TypeOK, libdbus, control, history
<1>3. CASE Cancel
  BY <1>3 DEF Cancel, TypeOK, libdbus, control
<1>4. ASSUME NEW s \in Starters, StartExchange(s) PROVE TypeOK'
  <2>1. starter' \in [Starters -> StarterPC]
    BY <1>4 DEF StartExchange, TypeOK, StarterPC
  <2>2. injected' \in Nat
    BY <1>4 DEF StartExchange, TypeOK
  <2>3. is_paused' \in BOOLEAN
    BY <1>4 DEF StartExchange
  <2> QED
    BY <1>4, <2>1, <2>2, <2>3 DEF StartExchange, TypeOK, libdbus
<1>5. ASSUME NEW s \in Starters, StartPost(s) PROVE TypeOK'
  BY <1>5 DEF StartPost, TypeOK, libdbus, history, StarterPC
<1>6. ASSUME NEW b \in Blockers, BlockBegin(b) PROVE TypeOK'
  BY <1>6 DEF BlockBegin, TypeOK, libdbus, binding, history, BlockerPC
<1>7. ASSUME NEW b \in Blockers, BlockRead(b) PROVE TypeOK'
  <2>1. enabled' \in BOOLEAN /\ reads' \in Nat
    BY <1>7, ToggleType DEF BlockRead
  <2> QED
    BY <1>7, <2>1 DEF BlockRead, TypeOK, control, history
<1>8. ASSUME NEW b \in Blockers, BlockEnd(b) PROVE TypeOK'
  <2>1. PICK took \in IF incoming > 0 THEN {0, 1} ELSE {0} :
          /\ incoming' = incoming - took
          /\ quieted' = Quieted(incoming - took)
          /\ last_status' = Status(incoming - took)
          /\ ToggleReadWatch(incoming - took, dispatcher, held)
          /\ blocker' = [blocker EXCEPT
               ![b] = IF MustNotify(incoming - took) THEN "notify" ELSE "done"]
    BY <1>8 DEF BlockEnd
  <2>2. incoming - took \in Nat
    BY DEF TypeOK
  <2>3. enabled' \in BOOLEAN /\ reads' \in Nat
    BY <2>1, ToggleType
  <2>4. quieted' \in Nat
    BY <2>1, QuietedType
  <2>5. blocker' \in [Blockers -> BlockerPC]
    BY <2>1 DEF TypeOK, BlockerPC
  <2> QED
    BY <1>8, <2>1, <2>2, <2>3, <2>4, <2>5, StatusType DEF BlockEnd, TypeOK
<1>9. ASSUME NEW b \in Blockers, BlockNotify(b) PROVE TypeOK'
  BY <1>9 DEF BlockNotify, TypeOK, libdbus, history, BlockerPC
<1>10. ASSUME NEW t \in Threads, ThreadStep(t) PROVE TypeOK'
  BY <1>10, ThreadTypeOK
<1>11. ASSUME NEW t \in Threads, HandleAccepted(t) PROVE TypeOK'
  <2>1. enabled' \in BOOLEAN /\ reads' \in Nat
    BY <1>11, ToggleType DEF HandleAccepted
  <2> QED
    BY <1>11, <2>1 DEF HandleAccepted, TypeOK, control, history
<1>12. CASE UNCHANGED vars
  BY <1>12 DEF TypeOK, vars, libdbus, binding, control, history
<1> QED
  BY <1>1, <1>2, <1>3, <1>4, <1>5, <1>6, <1>7, <1>8, <1>9, <1>10, <1>11, <1>12 DEF Next

\* The state of the binding is well typed in every behaviour.
THEOREM TypeCorrect == Spec => []TypeOK
<1>1. Init => TypeOK
  BY InitTypeOK
<1>2. TypeOK /\ [Next]_vars => TypeOK'
  BY NextTypeOK
<1> QED
  BY <1>1, <1>2, PTL DEF Spec

-----------------------------------------------------------------------------
\* Initially nothing has been injected, and libdbus has reported what it holds.
LEMMA InitNoLostWakeup == Init => NoLostWakeup
<1> SUFFICES ASSUME Init PROVE NoLostWakeup
  OBVIOUS
<1>1. incoming \in Nat /\ injected = 0
  BY LoopAssumption DEF Init
<1>2. ~(incoming > 0 /\ last_status = "complete")
  BY <1>1 DEF Init, Status
<1> QED
  BY <1>1, <1>2 DEF NoLostWakeup

\* A thread that ends or hands over a dispatch_handler does so only when the
\* status is "complete", or leaves another one behind.
LEMMA ThreadKeepsAwake ==
  ASSUME TypeOK, NoLostWakeup, NEW t \in Threads, ThreadStep(t)
  PROVE  NoLostWakeup'
<1> USE DEF TypeOK, NoLostWakeup, Awake, libdbus, binding, control, history
<1>1. CASE RunDispatchHandler(t)
  BY <1>1 DEF RunDispatchHandler
<1>2. CASE DispatchNothing(t)
  BY <1>2 DEF DispatchNothing
<1>3. CASE DispatchTake(t)
  <2>1. thread'[t] = "callout"
    BY <1>3 DEF DispatchTake
  <2> QED
    BY <1>3, <2>1 DEF DispatchTake
<1>4. CASE DispatchDone(t)
  <2>1. incoming > 0 => thread'[t] \in {"notifyThenPost", "repost"}
    BY <1>4 DEF DispatchDone
  <2>2. last_status' = "remains" <=> incoming > 0
    BY <1>4 DEF DispatchDone, Status
  <2>3. last_status' \in {"remains", "complete"}
    BY <1>4, StatusType DEF DispatchDone
  <2> QED
    BY <1>4, <2>1, <2>2, <2>3 DEF DispatchDone
<1>5. CASE DispatchNotify(t)
  BY <1>5 DEF DispatchNotify
<1>6. CASE Repost(t)
  BY <1>6 DEF Repost
<1>7. CASE RunWatchHandler(t)
  BY <1>7 DEF RunWatchHandler
<1>8. CASE WatchHandle(t)
  <2>1. PICK k \in IF enabled /\ wire > 0 THEN 1..wire ELSE {0} :
          /\ incoming' = incoming + k
          /\ last_status' = Status(incoming + k)
          /\ thread' = [thread EXCEPT
               ![t] = IF MustNotify(incoming + k) THEN "notifyThenRearm" ELSE "rearm"]
    BY <1>8 DEF WatchHandle
  <2>2. last_status' = "remains" <=> incoming' > 0
    BY <2>1 DEF Status
  <2>3. CASE MustNotify(incoming + k)
    <3>1. thread'[t] = "notifyThenRearm"
      BY <2>1, <2>3
    <3> QED
      BY <1>8, <2>2, <3>1 DEF WatchHandle
  <2>4. CASE ~MustNotify(incoming + k)
    <3>1. last_status' = "remains" => last_status = "remains"
      BY <2>1, <2>4 DEF MustNotify
    <3>2. Awake => Awake'
      BY <1>8, <2>1, <2>4 DEF WatchHandle
    <3> QED
      BY <1>8, <2>2, <3>1, <3>2 DEF WatchHandle
  <2> QED
    BY <2>3, <2>4
<1>9. CASE WatchNotify(t)
  BY <1>9 DEF WatchNotify
<1>10. CASE WatchToggledTest(t)
  BY <1>10 DEF WatchToggledTest
<1>11. CASE WatchToggledAct(t)
  BY <1>11 DEF WatchToggledAct
<1> QED
  BY <1>1, <1>2, <1>3, <1>4, <1>5, <1>6, <1>7, <1>8, <1>9, <1>10, <1>11 DEF ThreadStep

\* Every step keeps somebody awake.
LEMMA NextNoLostWakeup == TypeOK /\ NoLostWakeup /\ [Next]_vars => NoLostWakeup'
<1> SUFFICES ASSUME TypeOK, NoLostWakeup, [Next]_vars PROVE NoLostWakeup'
  OBVIOUS
<1> USE DEF TypeOK, NoLostWakeup, Awake, libdbus, binding, control, history
<1>1. CASE BusSends
  BY <1>1 DEF BusSends
<1>2. CASE SocketReadable
  BY <1>2 DEF SocketReadable
<1>3. CASE Cancel
  BY <1>3 DEF Cancel
<1>4. ASSUME NEW s \in Starters, StartExchange(s) PROVE NoLostWakeup'
  <2>1. CASE is_paused
    <3>1. starter'[s] = "inject"
      BY <1>4, <2>1 DEF StartExchange
    <3> QED
      BY <1>4, <3>1 DEF StartExchange
  <2>2. CASE ~is_paused
    BY <1>4, <2>2 DEF StartExchange
  <2> QED
    BY <2>1, <2>2
<1>5. ASSUME NEW s \in Starters, StartPost(s) PROVE NoLostWakeup'
  BY <1>5 DEF StartPost
<1>6. ASSUME NEW b \in Blockers, BlockBegin(b) PROVE NoLostWakeup'
  BY <1>6 DEF BlockBegin
<1>7. ASSUME NEW b \in Blockers, BlockRead(b) PROVE NoLostWakeup'
  BY <1>7 DEF BlockRead
<1>8. ASSUME NEW b \in Blockers, BlockEnd(b) PROVE NoLostWakeup'
  <2>1. PICK took \in IF incoming > 0 THEN {0, 1} ELSE {0} :
          /\ incoming' = incoming - took
          /\ last_status' = Status(incoming - took)
          /\ blocker' = [blocker EXCEPT
               ![b] = IF MustNotify(incoming - took) THEN "notify" ELSE "done"]
    BY <1>8 DEF BlockEnd
  <2>2. last_status' = "remains" <=> incoming' > 0
    BY <2>1 DEF Status
  <2>3. CASE MustNotify(incoming - took)
    <3>1. blocker'[b] = "notify"
      BY <2>1, <2>3
    <3> QED
      BY <1>8, <2>2, <3>1 DEF BlockEnd
  <2>4. CASE ~MustNotify(incoming - took)
    <3>1. last_status' = "remains" => last_status = "remains"
      BY <2>1, <2>4 DEF MustNotify
    <3>2. Awake => Awake'
      BY <1>8, <2>1, <2>4 DEF BlockEnd
    <3> QED
      BY <1>8, <2>2, <3>1, <3>2 DEF BlockEnd
  <2> QED
    BY <2>3, <2>4
<1>9. ASSUME NEW b \in Blockers, BlockNotify(b) PROVE NoLostWakeup'
  BY <1>9 DEF BlockNotify
<1>10. ASSUME NEW t \in Threads, ThreadStep(t) PROVE NoLostWakeup'
  BY <1>10, ThreadKeepsAwake
<1>11. ASSUME NEW t \in Threads, HandleAccepted(t) PROVE NoLostWakeup'
  BY <1>11 DEF HandleAccepted
<1>12. CASE UNCHANGED vars
  BY <1>12 DEF vars
<1> QED
  BY <1>1, <1>2, <1>3, <1>4, <1>5, <1>6, <1>7, <1>8, <1>9, <1>10, <1>11, <1>12 DEF Next

\* dispatch_status and dispatch_handler never lose a wakeup: while libdbus holds
\* messages, a started connection has a dispatch_handler, or a blocked caller who
\* will report them.
THEOREM NoLostWakeupAlways == Spec => []NoLostWakeup
<1>1. Init => TypeOK /\ NoLostWakeup
  BY InitTypeOK, InitNoLostWakeup
<1>2. TypeOK /\ NoLostWakeup /\ [Next]_vars => TypeOK' /\ NoLostWakeup'
  BY NextTypeOK, NextNoLostWakeup
<1> QED
  BY <1>1, <1>2, PTL DEF Spec

-----------------------------------------------------------------------------
(* Counting handlers and reads *)

\* Only x has gone to another place.
OnlyMoves(f, g, x) ==
  x \in DOMAIN f /\ DOMAIN g = DOMAIN f /\ \A y \in DOMAIN f : y # x => g[y] = f[y]

\* One step of one thread or caller moves one place in a count.
LEMMA CountMoves ==
  ASSUME NEW f, IsFiniteSet(DOMAIN f), NEW S
  PROVE  /\ Count(f, S) \in Nat
         /\ \A g, x : OnlyMoves(f, g, x) =>
              Count(g, S) = Count(f, S) - (IF f[x] \in S THEN 1 ELSE 0)
                              + (IF g[x] \in S THEN 1 ELSE 0)
<1> DEFINE D == DOMAIN f
           K == {y \in D : f[y] \in S}
<1>1. Count(f, S) = Cardinality(K)
  BY DEF Count
<1>2. IsFiniteSet(K) /\ Cardinality(K) \in Nat
  BY FS_Subset, FS_CardinalityType
<1>3. ASSUME NEW g, NEW x, OnlyMoves(f, g, x)
      PROVE  Count(g, S) = Count(f, S) - (IF f[x] \in S THEN 1 ELSE 0)
                             + (IF g[x] \in S THEN 1 ELSE 0)
  <2> DEFINE L == {y \in D : g[y] \in S}
             R == K \ {x}
  <2>1. Count(g, S) = Cardinality(L)
    BY <1>3 DEF Count, OnlyMoves
  <2>2. L = IF g[x] \in S THEN R \cup {x} ELSE R
    BY <1>3 DEF OnlyMoves
  <2>3. IsFiniteSet(R) /\ Cardinality(R) = IF x \in K THEN Cardinality(K) - 1 ELSE Cardinality(K)
    BY <1>2, FS_RemoveElement
  <2>4. x \in K <=> f[x] \in S
    BY <1>3 DEF OnlyMoves
  <2>5. Cardinality(R \cup {x}) = Cardinality(R) + 1
    BY <2>3, FS_AddElement
  <2> HIDE DEF K, L, R
  <2> QED
    BY <1>1, <1>2, <2>1, <2>2, <2>3, <2>4, <2>5
<1> QED
  BY <1>1, <1>2, <1>3

\* The dispatch_handlers a thread stands for at pc: the one it runs or is about to
\* post, and the one dispatch_status is about to post.
Carries(pc) ==
  (IF pc \in {"dispatch", "callout", "notifyThenPost", "repost"} THEN 1 ELSE 0)
    + (IF pc \in {"notifyThenPost", "notifyThenRearm"} THEN 1 ELSE 0)

\* What the threads carry together.
Carried ==
  Count(thread, {"dispatch", "callout", "notifyThenPost", "repost"})
    + Count(thread, {"notifyThenPost", "notifyThenRearm"})

Injecting == Count(starter, {"inject"})
Notifying == Count(blocker, {"notify"})

\* The counts are counts.
LEMMA PlacesFinite ==
  TypeOK => /\ IsFiniteSet(DOMAIN thread) /\ DOMAIN thread = Threads
            /\ IsFiniteSet(DOMAIN starter) /\ DOMAIN starter = Starters
            /\ IsFiniteSet(DOMAIN blocker) /\ DOMAIN blocker = Blockers
BY LoopAssumption DEF TypeOK

\* Circulating, by who carries the handler.
LEMMA CirculatingParts ==
  TypeOK => /\ Circulating = posted + Carried + Injecting + Notifying
            /\ Carried \in Nat /\ Injecting \in Nat /\ Notifying \in Nat
<1> SUFFICES ASSUME TypeOK
             PROVE  /\ Circulating = posted + Carried + Injecting + Notifying
                    /\ Carried \in Nat /\ Injecting \in Nat /\ Notifying \in Nat
  OBVIOUS
<1> DEFINE A == {"dispatch", "callout", "notifyThenPost", "repost"}
           B == {"notifyThenPost", "notifyThenRearm"}
<1> HIDE DEF A, B
<1>1. Count(thread, A) \in Nat /\ Count(thread, B) \in Nat
  BY CountMoves, PlacesFinite
<1>2. Injecting \in Nat /\ Notifying \in Nat
  BY CountMoves, PlacesFinite DEF Injecting, Notifying
<1> QED
  BY <1>1, <1>2 DEF Circulating, Carried, Injecting, Notifying, TypeOK, A, B

\* A thread that goes from one place to the next.
LEMMA ThreadMoves ==
  ASSUME TypeOK, NEW t, OnlyMoves(thread, thread', t)
  PROVE  Carried' = Carried - Carries(thread[t]) + Carries(thread'[t])
<1> DEFINE A == {"dispatch", "callout", "notifyThenPost", "repost"}
           B == {"notifyThenPost", "notifyThenRearm"}
<1> HIDE DEF A, B
<1>1. /\ Count(thread, A) \in Nat
      /\ Count(thread', A) = Count(thread, A) - (IF thread[t] \in A THEN 1 ELSE 0)
                               + (IF thread'[t] \in A THEN 1 ELSE 0)
  BY CountMoves, PlacesFinite
<1>2. /\ Count(thread, B) \in Nat
      /\ Count(thread', B) = Count(thread, B) - (IF thread[t] \in B THEN 1 ELSE 0)
                               + (IF thread'[t] \in B THEN 1 ELSE 0)
  BY CountMoves, PlacesFinite
<1>3. Carried = Count(thread, A) + Count(thread, B) /\ Carried' = Count(thread', A) + Count(thread', B)
  BY DEF Carried, Count, A, B
<1>4. \A pc : Carries(pc) = (IF pc \in A THEN 1 ELSE 0) + (IF pc \in B THEN 1 ELSE 0)
  BY DEF Carries, A, B
<1> QED
  BY <1>1, <1>2, <1>3, <1>4

\* A call of start() or a blocking call that goes from one place to the next.
LEMMA CallerMoves ==
  ASSUME TypeOK
  PROVE  /\ \A s : OnlyMoves(starter, starter', s) =>
              Injecting' = Injecting - (IF starter[s] = "inject" THEN 1 ELSE 0)
                             + (IF starter'[s] = "inject" THEN 1 ELSE 0)
         /\ \A b : OnlyMoves(blocker, blocker', b) =>
              Notifying' = Notifying - (IF blocker[b] = "notify" THEN 1 ELSE 0)
                             + (IF blocker'[b] = "notify" THEN 1 ELSE 0)
<1> DEFINE A == {"inject"}
           B == {"notify"}
<1>1. /\ \A x : x \in A <=> x = "inject"
      /\ \A x : x \in B <=> x = "notify"
      /\ Injecting = Count(starter, A) /\ Injecting' = Count(starter', A)
      /\ Notifying = Count(blocker, B) /\ Notifying' = Count(blocker', B)
  BY DEF Injecting, Notifying, Count
<1> HIDE DEF A, B
<1>2. ASSUME NEW s, OnlyMoves(starter, starter', s)
      PROVE  Count(starter', A) = Count(starter, A) - (IF starter[s] \in A THEN 1 ELSE 0)
                                    + (IF starter'[s] \in A THEN 1 ELSE 0)
  BY <1>2, CountMoves, PlacesFinite
<1>3. ASSUME NEW b, OnlyMoves(blocker, blocker', b)
      PROVE  Count(blocker', B) = Count(blocker, B) - (IF blocker[b] \in B THEN 1 ELSE 0)
                                    + (IF blocker'[b] \in B THEN 1 ELSE 0)
  BY <1>3, CountMoves, PlacesFinite
<1> QED
  BY <1>1, <1>2, <1>3

-----------------------------------------------------------------------------
(* The dispatch_handlers do not multiply *)

\* start() wins once for every time it was paused.
InjectedOnce == injected = cancels + (IF is_paused THEN 0 ELSE 1)

Allowed == injected + quieted + (IF last_status = "remains" THEN 1 ELSE 0)

\* The inductive invariant of HandlersBounded.
HandlersInv ==
  /\ TypeOK
  /\ InjectedOnce
  /\ posted + Carried + Injecting + Notifying <= Allowed

LEMMA InitHandlers == Init => HandlersInv
<1> SUFFICES ASSUME Init PROVE HandlersInv
  OBVIOUS
<1>1. TypeOK
  BY InitTypeOK
<1>2. Count(thread, {"dispatch", "callout", "notifyThenPost", "repost"}) = 0
  BY FS_EmptySet DEF Init, Count
<1>3. Count(thread, {"notifyThenPost", "notifyThenRearm"}) = 0
  BY FS_EmptySet DEF Init, Count
<1>4. Injecting = 0 /\ Notifying = 0
  BY FS_EmptySet DEF Init, Count, Injecting, Notifying
<1> QED
  BY <1>1, <1>2, <1>3, <1>4 DEF Init, HandlersInv, InjectedOnce, Allowed, Carried

\* Every step of a thread keeps the bound.
LEMMA ThreadHandlers ==
  ASSUME HandlersInv, NEW t \in Threads, ThreadStep(t)
  PROVE  posted' + Carried' + Injecting' + Notifying' <= Allowed'
<1>1. TypeOK /\ posted + Carried + Injecting + Notifying <= Allowed
  BY DEF HandlersInv
<1>2. Carried \in Nat /\ Injecting \in Nat /\ Notifying \in Nat
  BY <1>1, CirculatingParts
<1>3. posted \in Nat /\ injected \in Nat /\ quieted \in Nat
  BY <1>1 DEF TypeOK
<1>4. Injecting' = Injecting /\ Notifying' = Notifying
  BY DEF ThreadStep, RunDispatchHandler, DispatchNothing, DispatchTake, DispatchDone,
         DispatchNotify, Repost, RunWatchHandler, WatchHandle, WatchNotify,
         WatchToggledTest, WatchToggledAct, Injecting, Notifying, Count
<1>5. Carried' = Carried - Carries(thread[t]) + Carries(thread'[t])
  <2>1. OnlyMoves(thread, thread', t)
    BY <1>1 DEF ThreadStep, RunDispatchHandler, DispatchNothing, DispatchTake, DispatchDone,
           DispatchNotify, Repost, RunWatchHandler, WatchHandle, WatchNotify,
           WatchToggledTest, WatchToggledAct, OnlyMoves, TypeOK
  <2> QED
    BY <1>1, <2>1, ThreadMoves
<1> USE DEF TypeOK, Allowed, Carries, libdbus, binding, control, history
<1>6. CASE RunDispatchHandler(t)
  BY <1>1, <1>2, <1>3, <1>4, <1>5, <1>6 DEF RunDispatchHandler
<1>7. CASE DispatchNothing(t)
  BY <1>1, <1>2, <1>3, <1>4, <1>5, <1>7 DEF DispatchNothing
<1>8. CASE DispatchTake(t)
  BY <1>1, <1>2, <1>3, <1>4, <1>5, <1>8 DEF DispatchTake
<1>9. CASE DispatchDone(t)
  BY <1>1, <1>2, <1>3, <1>4, <1>5, <1>9 DEF DispatchDone, MustNotify, Status
<1>10. CASE DispatchNotify(t)
  BY <1>1, <1>2, <1>3, <1>4, <1>5, <1>10 DEF DispatchNotify
<1>11. CASE Repost(t)
  BY <1>1, <1>2, <1>3, <1>4, <1>5, <1>11 DEF Repost
<1>12. CASE RunWatchHandler(t)
  BY <1>1, <1>2, <1>3, <1>4, <1>5, <1>12 DEF RunWatchHandler
<1>13. CASE WatchHandle(t)
  BY <1>1, <1>2, <1>3, <1>4, <1>5, <1>13 DEF WatchHandle, MustNotify, Status, Quieted
<1>14. CASE WatchNotify(t)
  BY <1>1, <1>2, <1>3, <1>4, <1>5, <1>14 DEF WatchNotify
<1>15. CASE WatchToggledTest(t)
  BY <1>1, <1>2, <1>3, <1>4, <1>5, <1>15 DEF WatchToggledTest
<1>16. CASE WatchToggledAct(t)
  BY <1>1, <1>2, <1>3, <1>4, <1>5, <1>16 DEF WatchToggledAct
<1> QED
  BY <1>6, <1>7, <1>8, <1>9, <1>10, <1>11, <1>12, <1>13, <1>14, <1>15, <1>16 DEF ThreadStep

\* Every step keeps the inductive invariant.
LEMMA NextHandlers == HandlersInv /\ [Next]_vars => HandlersInv'
<1> SUFFICES ASSUME HandlersInv, [Next]_vars PROVE HandlersInv'
  OBVIOUS
<1>1. /\ TypeOK /\ TypeOK' /\ InjectedOnce
      /\ posted + Carried + Injecting + Notifying <= Allowed
  BY NextTypeOK DEF HandlersInv
<1>2. Carried \in Nat /\ Injecting \in Nat /\ Notifying \in Nat
  BY <1>1, CirculatingParts
<1>3. /\ posted \in Nat /\ injected \in Nat /\ quieted \in Nat /\ cancels \in Nat
      /\ is_paused \in BOOLEAN
  BY <1>1 DEF TypeOK
<1>4. thread' = thread => Carried' = Carried
  BY DEF Carried, Count
<1>5. starter' = starter => Injecting' = Injecting
  BY DEF Injecting, Count
<1>6. blocker' = blocker => Notifying' = Notifying
  BY DEF Notifying, Count
<1> USE DEF libdbus, binding, control, history
<1>7. CASE BusSends
  BY <1>1, <1>4, <1>5, <1>6, <1>7 DEF BusSends, HandlersInv, InjectedOnce, Allowed
<1>8. CASE SocketReadable
  BY <1>1, <1>4, <1>5, <1>6, <1>8 DEF SocketReadable, HandlersInv, InjectedOnce, Allowed
<1>9. CASE Cancel
  BY <1>1, <1>3, <1>4, <1>5, <1>6, <1>9 DEF Cancel, HandlersInv, InjectedOnce, Allowed
<1>10. ASSUME NEW s \in Starters, StartExchange(s) \/ StartPost(s) PROVE HandlersInv'
  <2>1. OnlyMoves(starter, starter', s)
    BY <1>1, <1>10 DEF StartExchange, StartPost, OnlyMoves, TypeOK
  <2>2. Injecting' = Injecting - (IF starter[s] = "inject" THEN 1 ELSE 0)
                       + (IF starter'[s] = "inject" THEN 1 ELSE 0)
    BY <1>1, <2>1, CallerMoves
  <2>3. starter \in [Starters -> StarterPC]
    BY <1>1 DEF TypeOK
  <2>4. CASE StartExchange(s)
    BY <1>1, <1>2, <1>3, <1>4, <1>6, <2>2, <2>3, <2>4
       DEF StartExchange, HandlersInv, InjectedOnce, Allowed
  <2>5. CASE StartPost(s)
    BY <1>1, <1>2, <1>3, <1>4, <1>6, <2>2, <2>3, <2>5
       DEF StartPost, HandlersInv, InjectedOnce, Allowed
  <2> QED
    BY <1>10, <2>4, <2>5
<1>11. ASSUME NEW b \in Blockers, BlockBegin(b) \/ BlockRead(b) \/ BlockEnd(b) \/ BlockNotify(b)
       PROVE  HandlersInv'
  <2>1. blocker \in [Blockers -> BlockerPC] /\ last_status \in {"remains", "complete"}
    BY <1>1 DEF TypeOK
  <2>2. CASE BlockRead(b)
    BY <1>1, <1>4, <1>5, <1>6, <2>2 DEF BlockRead, HandlersInv, InjectedOnce, Allowed
  <2>3. ASSUME ~BlockRead(b)
        PROVE  Notifying' = Notifying - (IF blocker[b] = "notify" THEN 1 ELSE 0)
                              + (IF blocker'[b] = "notify" THEN 1 ELSE 0)
    <3>1. OnlyMoves(blocker, blocker', b)
      BY <1>11, <2>1, <2>3 DEF BlockBegin, BlockEnd, BlockNotify, OnlyMoves
    <3> QED
      BY <1>1, <3>1, CallerMoves
  <2>4. CASE BlockBegin(b) /\ ~BlockRead(b)
    BY <1>1, <1>2, <1>3, <1>4, <1>5, <2>1, <2>3, <2>4
       DEF BlockBegin, HandlersInv, InjectedOnce, Allowed
  <2>5. CASE BlockEnd(b) /\ ~BlockRead(b)
    BY <1>1, <1>2, <1>3, <1>4, <1>5, <2>1, <2>3, <2>5
       DEF BlockEnd, HandlersInv, InjectedOnce, Allowed, MustNotify, Status, Quieted
  <2>6. CASE BlockNotify(b) /\ ~BlockRead(b)
    BY <1>1, <1>2, <1>3, <1>4, <1>5, <2>1, <2>3, <2>6
       DEF BlockNotify, HandlersInv, InjectedOnce, Allowed
  <2> QED
    BY <1>11, <2>2, <2>4, <2>5, <2>6
<1>12. ASSUME NEW t \in Threads, ThreadStep(t) PROVE HandlersInv'
  <2>1. injected' = injected /\ cancels' = cancels /\ is_paused' = is_paused
    BY <1>12 DEF ThreadStep, RunDispatchHandler, DispatchNothing, DispatchTake, DispatchDone,
         DispatchNotify, Repost, RunWatchHandler, WatchHandle, WatchNotify,
         WatchToggledTest, WatchToggledAct
  <2> QED
    BY <1>1, <1>12, <2>1, ThreadHandlers DEF HandlersInv, InjectedOnce
<1>13. ASSUME NEW t \in Threads, HandleAccepted(t) PROVE HandlersInv'
  BY <1>1, <1>4, <1>5, <1>6, <1>13 DEF HandleAccepted, HandlersInv, InjectedOnce, Allowed
<1>14. CASE UNCHANGED vars
  BY <1>1, <1>4, <1>5, <1>6, <1>14 DEF vars, HandlersInv, InjectedOnce, Allowed
<1> QED
  BY <1>7, <1>8, <1>9, <1>10, <1>11, <1>12, <1>13, <1>14 DEF Next

\* Simultaneous callers of start() inject one dispatch_handler, a second one takes a
\* call of cancel(); and the handlers do not multiply with messages, notifications and
\* blocking calls, whatever their interleaving.
THEOREM HandlersBoundedAlways == Spec => []HandlersBounded
<1>1. HandlersInv => HandlersBounded
  <2> SUFFICES ASSUME HandlersInv PROVE HandlersBounded
    OBVIOUS
  <2>1. TypeOK /\ Circulating = posted + Carried + Injecting + Notifying
    BY CirculatingParts DEF HandlersInv
  <2> QED
    BY <2>1 DEF HandlersInv, HandlersBounded, InjectedOnce, Allowed, TypeOK
<1> QED
  BY <1>1, InitHandlers, NextHandlers, PTL DEF Spec

-----------------------------------------------------------------------------
(* The chain of reads *)

\* The places of a thread that will start the next read.
Rearming == {"watch", "notifyThenRearm", "rearm", "arm"}

Handling == Count(thread, Rearming)

\* The chain of reads, while the read watch is never disabled.
ReaderInv ==
  /\ TypeOK
  /\ has_socket
  /\ reads + ready + Handling = 1
  /\ \A t \in Threads : thread[t] # "disarm"

\* How a step changes the number of threads that will start a read.
LEMMA HandlingMoves ==
  ASSUME TypeOK
  PROVE  /\ Handling \in Nat
         /\ thread' = thread => Handling' = Handling
         /\ \A t : OnlyMoves(thread, thread', t) =>
              Handling' = Handling - (IF thread[t] \in Rearming THEN 1 ELSE 0)
                            + (IF thread'[t] \in Rearming THEN 1 ELSE 0)
<1> HIDE DEF Rearming
<1>1. Handling' = Count(thread', Rearming)
  BY DEF Handling, Count, Rearming
<1> QED
  BY <1>1, CountMoves, PlacesFinite DEF Handling

\* A step of a thread moves that thread only.
LEMMA ThreadStepMoves ==
  ASSUME TypeOK, NEW t \in Threads, ThreadStep(t)
  PROVE  OnlyMoves(thread, thread', t)
BY DEF ThreadStep, RunDispatchHandler, DispatchNothing, DispatchTake, DispatchDone,
       DispatchNotify, Repost, RunWatchHandler, WatchHandle, WatchNotify,
       WatchToggledTest, WatchToggledAct, OnlyMoves, TypeOK

LEMMA InitReader == Init => /\ TypeOK /\ Handling = 0
                            /\ \A t \in Threads : thread[t] = "idle"
BY InitTypeOK, FS_EmptySet DEF Init, Handling, Count, Rearming

\* Every step that leaves the watch enabled keeps the chain.
LEMMA NextReader == ReaderInv /\ enabled /\ enabled' /\ [Next]_vars => ReaderInv'
<1> SUFFICES ASSUME ReaderInv, enabled, enabled', [Next]_vars PROVE ReaderInv'
  OBVIOUS
<1>1. TypeOK /\ TypeOK' /\ has_socket
  BY NextTypeOK DEF ReaderInv
<1>2. Handling \in Nat /\ (thread' = thread => Handling' = Handling)
  BY <1>1, HandlingMoves
<1>3. reads \in Nat /\ ready \in Nat /\ thread \in [Threads -> ThreadPC]
  BY <1>1 DEF TypeOK
<1>4. \A n, d, h : ToggleReadWatch(n, d, h) => reads' = reads
  BY <1>1 DEF ToggleReadWatch
<1> USE DEF ReaderInv, libdbus, binding, control, history
<1>5. ASSUME NEW t \in Threads, ThreadStep(t) PROVE ReaderInv'
  <2>1. /\ Handling' = Handling - (IF thread[t] \in Rearming THEN 1 ELSE 0)
                         + (IF thread'[t] \in Rearming THEN 1 ELSE 0)
        /\ \A u \in Threads : u # t => thread'[u] = thread[u]
    BY <1>1, <1>5, HandlingMoves, ThreadStepMoves, PlacesFinite DEF OnlyMoves
  <2> USE DEF Rearming
  <2>2. CASE RunDispatchHandler(t)
    BY <1>1, <1>2, <1>3, <1>4, <2>1, <2>2 DEF RunDispatchHandler
  <2>3. CASE DispatchNothing(t)
    BY <1>1, <1>2, <1>3, <1>4, <2>1, <2>3 DEF DispatchNothing
  <2>4. CASE DispatchTake(t)
    BY <1>1, <1>2, <1>3, <1>4, <2>1, <2>4 DEF DispatchTake
  <2>5. CASE DispatchDone(t)
    BY <1>1, <1>2, <1>3, <1>4, <2>1, <2>5 DEF DispatchDone
  <2>6. CASE DispatchNotify(t)
    BY <1>1, <1>2, <1>3, <1>4, <2>1, <2>6 DEF DispatchNotify
  <2>7. CASE Repost(t)
    BY <1>1, <1>2, <1>3, <1>4, <2>1, <2>7 DEF Repost
  <2>8. CASE RunWatchHandler(t)
    BY <1>1, <1>2, <1>3, <1>4, <2>1, <2>8 DEF RunWatchHandler
  <2>9. CASE WatchHandle(t)
    BY <1>1, <1>2, <1>3, <1>4, <2>1, <2>9 DEF WatchHandle
  <2>10. CASE WatchNotify(t)
    BY <1>1, <1>2, <1>3, <1>4, <2>1, <2>10 DEF WatchNotify
  <2>11. CASE WatchToggledTest(t)
    BY <1>1, <1>2, <1>3, <1>4, <2>1, <2>11 DEF WatchToggledTest
  <2>12. CASE WatchToggledAct(t)
    BY <1>1, <1>2, <1>3, <1>4, <2>1, <2>12 DEF WatchToggledAct
  <2> QED
    BY <1>5, <2>2, <2>3, <2>4, <2>5, <2>6, <2>7, <2>8, <2>9, <2>10, <2>11, <2>12 DEF ThreadStep
<1>6. CASE BusSends \/ SocketReadable \/ Cancel
  <2>1. CASE BusSends
    BY <1>1, <1>2, <2>1 DEF BusSends
  <2>2. CASE SocketReadable
    BY <1>1, <1>2, <1>3, <2>2 DEF SocketReadable
  <2>3. CASE Cancel
    BY <1>1, <1>2, <2>3 DEF Cancel
  <2> QED
    BY <1>6, <2>1, <2>2, <2>3
<1>7. ASSUME NEW s \in Starters, StartExchange(s) \/ StartPost(s) PROVE ReaderInv'
  BY <1>1, <1>2, <1>7 DEF StartExchange, StartPost
<1>8. ASSUME NEW b \in Blockers, BlockBegin(b) \/ BlockRead(b) \/ BlockEnd(b) \/ BlockNotify(b)
      PROVE  ReaderInv'
  BY <1>1, <1>2, <1>4, <1>8 DEF BlockBegin, BlockRead, BlockEnd, BlockNotify
<1>9. ASSUME NEW t \in Threads, HandleAccepted(t) PROVE ReaderInv'
  BY <1>1, <1>2, <1>4, <1>9 DEF HandleAccepted
<1>10. CASE UNCHANGED vars
  BY <1>1, <1>2, <1>10 DEF vars
<1> QED
  BY <1>5, <1>6, <1>7, <1>8, <1>9, <1>10 DEF Next

\* As long as the flow control of libdbus never disables the read watch, there is
\* exactly one chain of reads, for any number of threads, starts and blocking calls.
THEOREM OneReaderUnlessDisabled == Spec /\ []enabled => []OneReader
<1>1. Init /\ enabled => ReaderInv
  <2> SUFFICES ASSUME Init, enabled PROVE ReaderInv
    OBVIOUS
  <2>1. TypeOK /\ Handling = 0 /\ \A t \in Threads : thread[t] = "idle"
    BY InitReader
  <2>2. has_socket /\ reads = 1 /\ ready = 0
    BY DEF Init
  <2> QED
    BY <2>1, <2>2 DEF ReaderInv
<1>2. ReaderInv => OneReader
  BY DEF ReaderInv, OneReader, Reading, Handling, Rearming
<1> QED
  BY <1>1, <1>2, NextReader, PTL DEF Spec

\* The setting of the flow control: one thread runs the io_service and nobody blocks,
\* and open() leaves fewer messages behind than libdbus lets live.
OneThread ==
  (\A t, u \in Threads : t = u) /\ Blockers = {} /\ MaxLeftover < MaxLive

\* The chain of reads with flow control.  While the watch is disabled nothing reads, and
\* the thread can only be on its way to finding that out.
FlowInv ==
  /\ TypeOK
  /\ has_socket
  /\ enabled = (Live(incoming, dispatcher, held) < MaxLive)
  /\ \A t \in Threads : thread[t] = "callout" => dispatcher = t
  /\ enabled => /\ reads + ready + Handling = 1
                /\ \A t \in Threads : thread[t] # "disarm"
  /\ ~enabled => /\ reads = 0 /\ ready = 0
                 /\ \A t \in Threads : thread[t] \notin {"watch", "arm"}

\* With one thread the count is known from its place.
LEMMA HandlingOfOne ==
  ASSUME OneThread, TypeOK, NEW t \in Threads
  PROVE  Handling = IF thread[t] \in Rearming THEN 1 ELSE 0
<1>1. Threads = {t} /\ DOMAIN thread = {t}
  BY DEF OneThread, TypeOK
<1>2. CASE thread[t] \in Rearming
  <2>1. {x \in DOMAIN thread : thread[x] \in Rearming} = {t}
    BY <1>1, <1>2
  <2> QED
    BY <1>2, <2>1, FS_Singleton DEF Handling, Count
<1>3. CASE thread[t] \notin Rearming
  <2>1. {x \in DOMAIN thread : thread[x] \in Rearming} = {}
    BY <1>1, <1>3
  <2> QED
    BY <1>3, <2>1, FS_EmptySet DEF Handling, Count
<1> QED
  BY <1>2, <1>3

\* Every step of the thread keeps the chain.
LEMMA ThreadFlow ==
  ASSUME OneThread, FlowInv, TypeOK', NEW t \in Threads, ThreadStep(t)
  PROVE  FlowInv'
<1>1. TypeOK /\ has_socket /\ MaxLive \in Nat /\ None \notin Threads
  BY LoopAssumption DEF FlowInv
<1>2. /\ Handling = IF thread[t] \in Rearming THEN 1 ELSE 0
      /\ Handling' = Handling - (IF thread[t] \in Rearming THEN 1 ELSE 0)
                       + (IF thread'[t] \in Rearming THEN 1 ELSE 0)
  BY <1>1, HandlingOfOne, HandlingMoves, ThreadStepMoves
<1>3. /\ reads \in Nat /\ ready \in Nat /\ incoming \in Nat /\ wire \in Nat /\ held \in Nat
      /\ thread \in [Threads -> ThreadPC] /\ thread' \in [Threads -> ThreadPC]
      /\ enabled \in BOOLEAN /\ dispatcher \in Threads \cup {None}
  BY <1>1 DEF TypeOK
<1>4. Threads = {t}
  BY DEF OneThread
<1> USE DEF FlowInv, Live, Rearming, libdbus, binding, control, history
<1>5. CASE RunDispatchHandler(t)
  BY <1>1, <1>2, <1>3, <1>4, <1>5 DEF RunDispatchHandler
<1>6. CASE DispatchNothing(t)
  BY <1>1, <1>2, <1>3, <1>4, <1>6 DEF DispatchNothing
<1>7. CASE DispatchTake(t)
  BY <1>1, <1>2, <1>3, <1>4, <1>7 DEF DispatchTake
<1>8. CASE DispatchDone(t)
  <2>1. PICK kept \in {0, 1} :
          held' = held + kept /\ ToggleReadWatch(incoming, None, held + kept)
    BY <1>8 DEF DispatchDone
  <2>2. /\ dispatcher = t /\ dispatcher # None /\ dispatcher' = None /\ incoming' = incoming
        /\ thread[t] = "callout" /\ thread'[t] \in {"notifyThenPost", "repost", "idle"}
        /\ ready' = ready /\ has_socket' = has_socket
    BY <1>1, <1>3, <1>8 DEF DispatchDone
  <2>3. enabled => incoming + held + kept < MaxLive
    <3> SUFFICES ASSUME enabled PROVE incoming + held + kept < MaxLive
      OBVIOUS
    <3>1. /\ Live(incoming, dispatcher, held) < MaxLive
          /\ Live(incoming, dispatcher, held) = incoming + held + 1
      BY <2>2
    <3> HIDE DEF FlowInv, Live
    <3> QED
      BY <1>1, <1>3, <3>1
  <2>4. /\ enabled' = (incoming + held + kept < MaxLive)
        /\ reads' = IF enabled' = enabled THEN reads ELSE IF enabled' THEN reads + 1 ELSE 0
    <3>1. Live(incoming, None, held + kept) = incoming + held + kept
      BY <1>3
    <3> HIDE DEF Live
    <3> QED
      BY <1>1, <2>1, <3>1 DEF ToggleReadWatch
  <2>5. enabled' = (Live(incoming', dispatcher', held') < MaxLive)
    BY <1>3, <2>1, <2>2, <2>4
  <2>6. Handling = 0 /\ Handling' = 0
    BY <1>2, <2>2
  <2>7. CASE enabled
    <3>1. enabled' /\ reads' = reads
      BY <1>3, <2>3, <2>4, <2>7
    <3> QED
      BY <1>1, <1>3, <1>4, <2>2, <2>5, <2>6, <2>7, <3>1
  <2>8. CASE ~enabled
    BY <1>1, <1>3, <1>4, <2>2, <2>4, <2>5, <2>6, <2>8
  <2> QED
    BY <2>7, <2>8
<1>9. CASE DispatchNotify(t)
  BY <1>1, <1>2, <1>3, <1>4, <1>9 DEF DispatchNotify
<1>10. CASE Repost(t)
  BY <1>1, <1>2, <1>3, <1>4, <1>10 DEF Repost
<1>11. CASE RunWatchHandler(t)
  BY <1>1, <1>2, <1>3, <1>4, <1>11 DEF RunWatchHandler
<1>12. CASE WatchHandle(t)
  BY <1>1, <1>2, <1>3, <1>4, <1>12 DEF WatchHandle, ToggleReadWatch
<1>13. CASE WatchNotify(t)
  BY <1>1, <1>2, <1>3, <1>4, <1>13 DEF WatchNotify
<1>14. CASE WatchToggledTest(t)
  BY <1>1, <1>2, <1>3, <1>4, <1>14 DEF WatchToggledTest
<1>15. CASE WatchToggledAct(t)
  BY <1>1, <1>2, <1>3, <1>4, <1>15 DEF WatchToggledAct
<1> QED
  BY <1>5, <1>6, <1>7, <1>8, <1>9, <1>10, <1>11, <1>12, <1>13, <1>14, <1>15 DEF ThreadStep

\* A message that leaves a queue of the filters may start the chain again, and starts it
\* once: the thread is idle, so it will not start a read itself.
LEMMA AcceptedFlow ==
  ASSUME OneThread, FlowInv, TypeOK', NEW t \in Threads, HandleAccepted(t)
  PROVE  FlowInv'
<1>1. TypeOK /\ has_socket /\ MaxLive \in Nat
  BY LoopAssumption DEF FlowInv
<1>2. Handling = 0 /\ Handling' = 0 /\ thread' = thread
  BY <1>1, HandlingOfOne, HandlingMoves DEF HandleAccepted, control, Rearming
<1>3. /\ reads \in Nat /\ ready \in Nat /\ incoming \in Nat /\ held \in Nat
      /\ enabled \in BOOLEAN /\ held > 0 /\ held' = held - 1 /\ thread[t] = "idle"
      /\ incoming' = incoming /\ dispatcher' = dispatcher /\ ready' = ready
      /\ has_socket' = has_socket
  BY <1>1 DEF TypeOK, HandleAccepted
<1>4. Threads = {t}
  BY DEF OneThread
<1>5. /\ Live(incoming, dispatcher, held) \in Int
      /\ Live(incoming, dispatcher, held - 1) = Live(incoming, dispatcher, held) - 1
  BY <1>3 DEF Live
<1>6. /\ enabled' = (Live(incoming, dispatcher, held) - 1 < MaxLive)
      /\ reads' = IF enabled' = enabled THEN reads ELSE IF enabled' THEN reads + 1 ELSE 0
  BY <1>1, <1>5 DEF HandleAccepted, ToggleReadWatch
<1>7. ASSUME enabled PROVE enabled' /\ reads' = reads
  <2> DEFINE live == Live(incoming, dispatcher, held)
  <2>1. live < MaxLive
    BY <1>7 DEF FlowInv
  <2> HIDE DEF live
  <2>2. live - 1 < MaxLive
    BY <1>1, <1>5, <2>1 DEF live
  <2>3. enabled'
    BY <1>6, <2>2 DEF live
  <2> QED
    BY <1>3, <1>6, <1>7, <2>3
<1> QED
  BY <1>1, <1>2, <1>3, <1>4, <1>5, <1>6, <1>7 DEF FlowInv

\* So does every other step.
LEMMA NextFlow == OneThread /\ FlowInv /\ [Next]_vars => FlowInv'
<1> SUFFICES ASSUME OneThread, FlowInv, [Next]_vars PROVE FlowInv'
  OBVIOUS
<1>1. TypeOK /\ TypeOK'
  BY NextTypeOK DEF FlowInv
<1>2. thread' = thread => Handling' = Handling
  BY <1>1, HandlingMoves
<1>3. reads \in Nat /\ ready \in Nat /\ Handling \in Nat
  BY <1>1, HandlingMoves DEF TypeOK
<1> USE DEF FlowInv, libdbus, binding, control, history
<1>4. CASE BusSends
  BY <1>1, <1>2, <1>4 DEF BusSends
<1>5. CASE SocketReadable
  BY <1>1, <1>2, <1>3, <1>5 DEF SocketReadable
<1>6. CASE Cancel
  BY <1>1, <1>2, <1>6 DEF Cancel
<1>7. ASSUME NEW s \in Starters, StartExchange(s) \/ StartPost(s) PROVE FlowInv'
  BY <1>1, <1>2, <1>7 DEF StartExchange, StartPost
<1>8. ASSUME NEW t \in Threads, ThreadStep(t) PROVE FlowInv'
  BY <1>1, <1>8, ThreadFlow
<1>9. ASSUME NEW t \in Threads, HandleAccepted(t) PROVE FlowInv'
  BY <1>1, <1>9, AcceptedFlow
<1>10. CASE UNCHANGED vars
  BY <1>1, <1>2, <1>10 DEF vars
<1> QED
  BY <1>4, <1>5, <1>6, <1>7, <1>8, <1>9, <1>10 DEF Next, OneThread

\* When one thread runs the io_service and nobody blocks, the chain of reads survives
\* the flow control: it ends when libdbus disables the watch and is started again,
\* once, when libdbus enables it, for any MaxLive and any number of messages.
THEOREM OneReaderOneThread == OneThread /\ Spec => []OneReader
<1>1. OneThread /\ Init => FlowInv
  <2> SUFFICES ASSUME OneThread, Init PROVE FlowInv
    OBVIOUS
  <2>1. TypeOK /\ Handling = 0 /\ \A t \in Threads : thread[t] = "idle"
    BY InitReader
  <2>2. Live(incoming, None, held) < MaxLive
    BY LoopAssumption DEF Init, OneThread, Live
  <2>3. enabled /\ has_socket /\ reads = 1 /\ ready = 0
    BY <2>2 DEF Init
  <2> QED
    BY <2>1, <2>2, <2>3 DEF FlowInv, Init
<1>2. FlowInv => OneReader
  BY DEF FlowInv, OneReader, Reading, Handling, Rearming
<1> HIDE DEF OneThread
<1>3. CASE OneThread
  BY <1>1, <1>2, <1>3, NextFlow, PTL DEF Spec
<1> QED
  BY <1>3
=============================================================================
