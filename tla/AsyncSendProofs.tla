-------------------------- MODULE AsyncSendProofs ---------------------------
(***************************************************************************)
(* Proofs about AsyncSend for any number of calls and threads.             *)
(***************************************************************************)
EXTENDS AsyncSend, DataLemmas

(* The inductive invariant, part by part.  c is a call, t and u are threads.  *)

\* The call has been handed to libdbus on an open connection.
Sent(c) == pending[c] \notin {"none", "null"}

\* Thread t is inside async_send of c.
Sends(t, c) == thread[t] \in {At("send", c), At("notify", c), At("completed", c)}

\* Only the threads of the application do anything, and a call is sent by one thread.
Senders ==
  /\ ~Aborted => \A t \in Threads : thread[t] # Idle => t \in threads
  /\ \A t \in Threads, c \in Calls :
       /\ Sends(t, c) => call[c] = "begun"
       /\ thread[t] \in {At("notify", c), At("completed", c), At("timeout", c)} => c \in MethodCalls
  /\ \A t, u \in Threads, c \in Calls : Sends(t, c) /\ Sends(u, c) => t = u

\* A call that has not reached send is nowhere.
NotSentYet ==
  \A c \in Calls :
    (call[c] = "idle" \/ \E t \in Threads : thread[t] = At("send", c)) =>
      /\ c \notin Range(unsent)
      /\ c \in MethodCalls => pending[c] = "none"

\* The life of a pending call, its notify function and its op go together.
OpFollows(c) ==
  /\ pending[c] = "none" => op[c] = "none" /\ ~notify[c]
  /\ pending[c] = "waiting" /\ notify[c] => op[c] = "heap"
  /\ pending[c] = "waiting" /\ ~notify[c] =>
       op[c] = "none" /\ \E t \in Threads : thread[t] = At("notify", c)
  /\ op[c] = "heap" =>
       pending[c] \in {"null", "completed"} \/ (pending[c] = "waiting" /\ notify[c])
  /\ op[c] \in {"posted", "gone"} <=> pending[c] = "freed"
  /\ \A t \in Threads : thread[t] = At("notify", c) =>
       pending[c] \in {"waiting", "completed", "null"} /\ op[c] = "none" /\ ~notify[c]
OpFollowsPending == \A c \in MethodCalls : OpFollows(c)

\* A single thread never completes a call that has no notify function yet.
NotOvertakenAlone == Alone => \A c \in MethodCalls : pending[c] # "completed"

\* Nor does it free one that it is about to look at.
NotFreedAlone ==
  Alone => \A t \in Threads, c \in MethodCalls :
    thread[t] = At("completed", c) => pending[c] # "freed"

\* The calls that the messages of a queue answer.
CallsIn(q) == {q[i].call : i \in DOMAIN q}

\* There is no trace of a call that has not been sent.
NoTraceOf(c) ==
  /\ c \notin owed \cup Range(unsent) \cup CallsIn(wire)
  /\ first[c] = "none" /\ timer[c] = "none"
  /\ Timeout(c) \notin Range(io)
  /\ \A t \in Threads : thread[t] # At("timeout", c)
NoTrace == \A c \in MethodCalls : ~Sent(c) => NoTraceOf(c)

\* A call is in one place on its way to the peer and back, and what comes back is an
\* answer of the peer.
OneReply ==
  /\ \A c \in Calls : Once(unsent, c)
  /\ \A i, j \in DOMAIN wire : wire[i].call = wire[j].call => i = j
  /\ CallsIn(wire) \cap (owed \cup Range(unsent)) = {}
  /\ \A i \in DOMAIN wire : wire[i].kind \in Answers

\* first is the first message in the incoming queue, as long as that matters.
FirstOf(c) ==
  /\ first[c] = "none" =>
       pending[c] \in {"none", "null", "waiting"} /\ c \notin CallsIn(incoming)
  /\ first[c] # "none" /\ pending[c] = "waiting" =>
       \E i \in DOMAIN incoming :
         /\ incoming[i] = [call |-> c, kind |-> first[c]]
         /\ \A j \in 1..(i - 1) : incoming[j].call # c
FirstIsFirst == \A c \in MethodCalls : FirstOf(c)

\* The op is posted once, with the first answer, and then runs once.
RunsOnce(c) ==
  /\ \A k \in Kinds : Op(c, k) \in Range(io) =>
       op[c] = "posted" /\ k = first[c] /\ Once(io, Op(c, k))
  /\ handled[c] = IF op[c] = "gone" THEN <<ErrorCode(first[c])>> ELSE <<>>
OpOnce == \A c \in MethodCalls : RunsOnce(c)

\* A call that is sent has a timer, and only finitely many have been started.
FewTimers ==
  /\ \A c \in MethodCalls : Sent(c) => timer[c] # "none"
  /\ IsFiniteSet({c \in MethodCalls : timer[c] # "none"})

SendInv ==
  /\ TypeOK /\ Senders /\ NotSentYet /\ OpFollowsPending /\ NotOvertakenAlone /\ NotFreedAlone
  /\ NoTrace /\ OneReply /\ FirstIsFirst /\ OpOnce /\ FewTimers

-----------------------------------------------------------------------------
(* What is in the queue of the io_service, and what a thread does.  The proofs *)
(* below use these facts and not the records themselves.                       *)

LEMMA TaskKinds ==
  /\ Task # Watch /\ Task # Dispatch /\ Watch # Dispatch
  /\ \A c, d, k : Timeout(c) \notin {Task, Watch, Dispatch, Op(d, k)}
  /\ \A c, k : Op(c, k) \notin {Task, Watch, Dispatch}
  /\ \A c, d : Timeout(c) = Timeout(d) => c = d
  /\ \A c, d, k, l : Op(c, k) = Op(d, l) => c = d /\ k = l
<1>1. Task # Watch /\ Task # Dispatch /\ Watch # Dispatch
  BY DEF Task, Watch, Dispatch
<1>2. \A c, d, k : Timeout(c) \notin {Task, Watch, Dispatch, Op(d, k)}
  BY DEF Task, Watch, Dispatch, Timeout, Op
<1>3. \A c, k : Op(c, k) \notin {Task, Watch, Dispatch}
  BY DEF Task, Watch, Dispatch, Op
<1>4. ASSUME NEW c, NEW d, Timeout(c) = Timeout(d) PROVE c = d
  <2>1. Timeout(c).call = c /\ Timeout(d).call = d
    BY DEF Timeout
  <2>2. QED  BY <1>4, <2>1
<1>5. ASSUME NEW c, NEW d, NEW k, NEW l, Op(c, k) = Op(d, l) PROVE c = d /\ k = l
  <2>1. Op(c, k).call = c /\ Op(d, l).call = d /\ Op(c, k).kind = k /\ Op(d, l).kind = l
    BY DEF Op
  <2>2. QED  BY <1>5, <2>1
<1>6. QED  BY <1>1, <1>2, <1>3, <1>4, <1>5

LEMMA TasksAre ==
  /\ Task \in Tasks /\ Watch \in Tasks /\ Dispatch \in Tasks
  /\ \A c \in MethodCalls : Timeout(c) \in Tasks
  /\ \A c \in MethodCalls, k \in Kinds : Op(c, k) \in Tasks
BY DEF Tasks

LEMMA ActivityKinds ==
  /\ \A pc, c : At(pc, c) # Idle
  /\ \A pc, qc, c, d : At(pc, c) = At(qc, d) => pc = qc /\ c = d
  /\ Idle \in Activities
  /\ \A pc \in {"send", "notify", "completed", "timeout"}, c \in Calls : At(pc, c) \in Activities
<1>1. \A pc, c : At(pc, c) # Idle
  BY DEF At, Idle
<1>2. ASSUME NEW pc, NEW qc, NEW c, NEW d, At(pc, c) = At(qc, d) PROVE pc = qc /\ c = d
  <2>1. At(pc, c).at = pc /\ At(qc, d).at = qc /\ At(pc, c).call = c /\ At(qc, d).call = d
    BY DEF At
  <2>2. QED  BY <1>2, <2>1
<1>3. QED  BY <1>1, <1>2 DEF Activities

-----------------------------------------------------------------------------
(* The queue of the io_service from step to step *)

\* Nothing but X comes into the queue behind what s holds of it, what is new there is
\* there once, and nothing overtakes the rest.
GainsOn(s, X) ==
  /\ io' \in Seq(Tasks)
  /\ Range(io') \subseteq Range(s) \cup X
  /\ \A x : Once(s, x) /\ (x \in X => x \notin Range(s)) => Once(io', x)
  /\ \A y, z : z \notin X /\ Precedes(io', y, z) => Precedes(s, y, z)
  /\ \A x, y, z : z \notin X /\ InOrder(io', x, y, z) => InOrder(s, x, y, z)
Gains(X) == GainsOn(io, X)

\* The tasks in u are queued.
LEMMA Queued ==
  ASSUME NEW s \in Seq(Tasks), NEW u \in Seq(Tasks), \A x : Once(u, x), io' = s \o u
  PROVE  GainsOn(s, Range(u))
<1> DEFINE q == s \o u
<1>1. /\ q \in Seq(Tasks) /\ Range(q) = Range(s) \cup Range(u)
      /\ \A x : Once(q, x)
           <=> Once(s, x) /\ Once(u, x) /\ (x \notin Range(s) \/ x \notin Range(u))
  BY ConcatFind
<1>2. \A z : z \notin Range(u) =>
        /\ \A y : Precedes(q, y, z) => Precedes(s, y, z)
        /\ \A x, y : InOrder(q, x, y, z) => InOrder(s, x, y, z)
  BY ConcatOrder
<1>3. io' = q
  OBVIOUS
<1> HIDE DEF q
<1>4. QED  BY <1>1, <1>2, <1>3 DEF GainsOn

LEMMA DispatchQueued ==
  ASSUME NEW s \in Seq(Tasks), io' \in {s, Append(s, Dispatch)}
  PROVE  GainsOn(s, {Dispatch})
<1>1. CASE io' = s
  BY <1>1 DEF GainsOn
<1>2. CASE io' = Append(s, Dispatch)
  <2> DEFINE u == <<Dispatch>>
  <2>1. u \in Seq(Tasks) /\ Range(u) = {Dispatch} /\ \A x : Once(u, x)
    BY TasksAre, SingleFind
  <2>2. io' = s \o u
    BY <1>2, TasksAre, AppendIsConcat
  <2> HIDE DEF u
  <2>3. GainsOn(s, Range(u))
    BY <2>1, <2>2, Queued
  <2>4. QED  BY <2>1, <2>3
<1>3. QED  BY <1>1, <1>2

\* The head was taken before.
LEMMA TakenGains ==
  ASSUME io \in Seq(Tasks), io # <<>>, NEW X, GainsOn(Tail(io), X)
  PROVE  Gains(X)
<1> DEFINE s == Tail(io)
<1>1. Range(s) \subseteq Range(io) /\ \A x : Once(io, x) => Once(s, x)
  BY TailFind
<1>2. /\ \A y, z : Precedes(s, y, z) => Precedes(io, y, z)
      /\ \A x, y, z : InOrder(s, x, y, z) => InOrder(io, x, y, z)
  BY TailOrder
<1>3. GainsOn(s, X)
  OBVIOUS
<1> HIDE DEF s
<1>4. QED  BY <1>1, <1>2, <1>3 DEF Gains, GainsOn

LEMMA StartQueues ==
  ASSUME TypeOK, NEW t, NEW c, Start(t, c)
  PROVE  Gains({Dispatch})
BY DispatchQueued DEF TypeOK, Start, Gains

LEMMA WatchQueues ==
  ASSUME TypeOK, NEW t, RunWatch(t)
  PROVE  GainsOn(Tail(io), {Dispatch}) /\ Gains({Dispatch})
<1> DEFINE s == Tail(io)
<1>1. io \in Seq(Tasks) /\ io # <<>> /\ io' \in {s, Append(s, Dispatch)}
  BY DEF TypeOK, RunWatch, Runs, NotifyStatus
<1>2. s \in Seq(Tasks)
  BY <1>1, HeadTailProperties
<1>3. GainsOn(s, {Dispatch})
  <2> HIDE DEF s
  <2>1. QED  BY <1>1, <1>2, DispatchQueued
<1>4. QED  BY <1>1, <1>3, TakenGains

LEMMA TimeoutHandleQueues ==
  ASSUME TypeOK, NEW t, NEW c, TimeoutHandle(t, c)
  PROVE  Gains({Dispatch})
BY DispatchQueued DEF TypeOK, TimeoutHandle, NotifyStatus, Gains

\* A task that is only taken.
LEMMA Taken ==
  ASSUME TypeOK, io # <<>>, io' = Tail(io)
  PROVE  /\ Gains({}) /\ Head(io) \in Range(io)
         /\ Once(io, Head(io)) => Head(io) \notin Range(io')
<1>1. io \in Seq(Tasks)
  BY DEF TypeOK
<1>2. /\ Tail(io) \in Seq(Tasks) /\ Range(io) = {Head(io)} \cup Range(Tail(io))
      /\ \A x : Once(io, x) =>
           Once(Tail(io), x) /\ (x # Head(io) \/ x \notin Range(Tail(io)))
  BY <1>1, TailFind
<1>3. /\ \A y, z : Precedes(Tail(io), y, z) => Precedes(io, y, z)
      /\ \A x, y, z : InOrder(Tail(io), x, y, z) => InOrder(io, x, y, z)
  BY <1>1, TailOrder
<1>4. QED  BY <1>2, <1>3 DEF Gains, GainsOn

\* The reactor finds at most one readable socket, and every timer that is due.
Expired == {Timeout(c) : c \in {d \in MethodCalls : timer[d] = "due"}}
Readable == IF reading /\ wire # <<>> THEN {Watch} ELSE {}

LEMMA PollQueues ==
  ASSUME TypeOK, FewTimers, NEW t, Poll(t)
  PROVE  /\ GainsOn(Tail(io), Readable \cup Expired \cup {Task})
         /\ Gains(Readable \cup Expired \cup {Task})
         /\ \E q \in Seq(Tasks) : io' = q \o <<Task>>
<1> DEFINE due == {c \in MethodCalls : timer[c] = "due"}
<1>1. IsFiniteSet(due)
  BY FS_Subset DEF FewTimers
<1>2. IsFiniteSet(Expired)
  <2> DEFINE f == [c \in due |-> Timeout(c)]
  <2>1. f \in Surjection(due, Expired)
    BY DEF Surjection, Expired
  <2> HIDE DEF f, due
  <2>2. QED  BY <1>1, <2>1, FS_Surjection
<1>3. Expired \subseteq Tasks /\ Expired \cap {Watch, Task} = {}
  BY TasksAre, TaskKinds DEF Expired
<1>4. PICK s \in SetToSeqs(Expired) :
        io' = Tail(io) \o (IF reading /\ wire # <<>> THEN <<Watch>> ELSE <<>>) \o s \o <<Task>>
  BY DEF Poll, Expired
<1> DEFINE w == IF reading /\ wire # <<>> THEN <<Watch>> ELSE <<>>
           e == <<Task>>
<1>5. s \in Seq(Tasks) /\ Range(s) \subseteq Expired /\ \A x : Once(s, x)
  BY <1>2, <1>3, AnyOrderFind, SeqMonotonic
<1>6. w \in Seq(Tasks) /\ Range(w) = Readable /\ \A x : Once(w, x)
  <2>1. CASE reading /\ wire # <<>>
    BY <2>1, TasksAre, SingleFind DEF Readable
  <2>2. CASE ~(reading /\ wire # <<>>)
    BY <2>2, EmptyFind DEF Readable
  <2>3. QED  BY <2>1, <2>2
<1>7. e \in Seq(Tasks) /\ Range(e) = {Task} /\ \A x : Once(e, x)
  BY TasksAre, SingleFind
<1>8. io \in Seq(Tasks) /\ io # <<>> /\ Tail(io) \in Seq(Tasks)
  BY HeadTailProperties DEF TypeOK, Poll, Runs
<1> HIDE DEF w, e
<1> DEFINE se == s \o e
<1>9. se \in Seq(Tasks) /\ Range(se) \subseteq Expired \cup {Task} /\ \A x : Once(se, x)
  BY <1>3, <1>5, <1>7, ConcatFind
<1> HIDE DEF se
<1> DEFINE u == w \o se
<1>10. /\ u \in Seq(Tasks) /\ Range(u) \subseteq Readable \cup Expired \cup {Task}
       /\ \A x : Once(u, x)
  <2>1. Range(w) \cap Range(se) = {}
    BY <1>3, <1>6, <1>9, TaskKinds DEF Readable
  <2>2. QED  BY <1>6, <1>9, <2>1, ConcatFind
<1>11. io' = Tail(io) \o u /\ \E q \in Seq(Tasks) : io' = q \o <<Task>>
  <2> DEFINE rest == Tail(io)
             rw == rest \o w
  <2>1. io' = (rw \o s) \o e
    BY <1>4 DEF e, w
  <2> HIDE DEF rest
  <2>2. rest \in Seq(Tasks)
    BY <1>8 DEF rest
  <2>3. rw \in Seq(Tasks)
    BY <1>6, <2>2, ConcatProperties
  <2>4. rw \o se = rest \o u
    BY <1>6, <1>9, <2>2, ConcatAssociative
  <2>5. \E q \in Seq(Tasks) : io' = q \o <<Task>>
    BY <1>5, <2>1, <2>3, ConcatProperties DEF e
  <2> HIDE DEF rw
  <2>6. io' = rw \o se
    BY <1>5, <1>7, <2>1, <2>3, ConcatAssociative DEF se
  <2>7. QED  BY <2>4, <2>5, <2>6 DEF rest
<1> HIDE DEF u
<1>12. GainsOn(Tail(io), Range(u))
  BY <1>8, <1>10, <1>11, Queued
<1>13. GainsOn(Tail(io), Readable \cup Expired \cup {Task})
  BY <1>10, <1>12 DEF GainsOn
<1>14. QED  BY <1>8, <1>11, <1>13, TakenGains

\* dispatch_handler posts the op it calls back, if any, and its successor, if any.
CallsBack(m) == incoming # <<>> /\ pending[m.call] = "waiting" /\ notify[m.call]

LEMMA DispatchQueues ==
  ASSUME TypeOK, NEW t, RunDispatch(t)
  PROVE  LET m == Head(incoming)
             X == {Dispatch} \cup IF CallsBack(m) THEN {Op(m.call, m.kind)} ELSE {}
         IN  GainsOn(Tail(io), X) /\ Gains(X)
<1> DEFINE m == Head(incoming)
           posted == IF CallsBack(m) THEN {Op(m.call, m.kind)} ELSE {}
<1>1. PICK w \in {<<>>, <<Dispatch>>} :
        io' = Tail(io) \o (IF CallsBack(m) THEN <<Op(m.call, m.kind)>> ELSE <<>>) \o w
  BY DEF RunDispatch, CallsBack
<1>2. CallsBack(m) => Op(m.call, m.kind) \in Tasks
  <2>1. CallsBack(m) => m \in Message
    BY HeadTailProperties DEF CallsBack, TypeOK
  <2>2. QED  BY <2>1, TasksAre DEF Message
<1>3. w \in Seq(Tasks) /\ Range(w) \subseteq {Dispatch} /\ \A x : Once(w, x)
  <2> DEFINE e == Dispatch
  <2>1. e \in Tasks /\ w \in {<<>>, <<e>>}
    BY TasksAre
  <2> HIDE DEF e
  <2>2. w \in Seq(Tasks) /\ Range(w) \subseteq {e} /\ \A x : Once(w, x)
    BY <2>1, OptionFind
  <2>3. QED  BY <2>2 DEF e
<1> DEFINE v == IF CallsBack(m) THEN <<Op(m.call, m.kind)>> ELSE <<>>
<1>4. v \in Seq(Tasks) /\ Range(v) \subseteq posted /\ \A x : Once(v, x)
  <2>1. CASE CallsBack(m)
    BY <1>2, <2>1, SingleFind
  <2>2. CASE ~CallsBack(m)
    BY <2>2, EmptyFind
  <2>3. QED  BY <2>1, <2>2
<1>5. Dispatch \notin posted
  BY TaskKinds
<1>6. io' = (Tail(io) \o v) \o w
  BY <1>1
<1> HIDE DEF v, posted
<1>7. io # <<>> /\ Tail(io) \in Seq(Tasks)
  BY HeadTailProperties DEF TypeOK, RunDispatch, Runs
<1> DEFINE u == v \o w
<1>8. u \in Seq(Tasks) /\ Range(u) \subseteq {Dispatch} \cup posted /\ \A x : Once(u, x)
  BY <1>3, <1>4, <1>5, ConcatFind
<1>9. io' = Tail(io) \o u
  <2> DEFINE rest == Tail(io)
  <2>1. rest \in Seq(Tasks) /\ io' = (rest \o v) \o w
    BY <1>6, <1>7
  <2> HIDE DEF rest
  <2>2. io' = rest \o u
    BY <1>3, <1>4, <2>1, ConcatAssociative
  <2>3. QED  BY <2>2 DEF rest
<1> HIDE DEF u
<1>10. GainsOn(Tail(io), Range(u))
  BY <1>7, <1>8, <1>9, Queued
<1>11. GainsOn(Tail(io), {Dispatch} \cup posted)
  BY <1>8, <1>10 DEF GainsOn
<1>12. Gains({Dispatch} \cup posted)
  BY <1>7, <1>11, TakenGains DEF TypeOK
<1>13. QED  BY <1>11, <1>12 DEF posted

-----------------------------------------------------------------------------
(* The outgoing queue, the socket and the incoming queue *)

\* libdbus writes a part of its queue q: each message is on one side.
LEMMA WriteSplits ==
  ASSUME NEW q \in Seq(Calls), Write(q), \A c \in Calls : Once(q, c),
         owed \subseteq MethodCalls \ Range(q)
  PROVE  /\ unsent' \in Seq(Calls) /\ Range(unsent') \subseteq Range(q)
         /\ \A c \in Calls : Once(unsent', c)
         /\ owed' \subseteq MethodCalls \ Range(unsent')
         /\ owed' \subseteq owed \cup Range(q)
<1>1. PICK k \in 0..Len(q) :
        /\ unsent' = SubSeq(q, k + 1, Len(q))
        /\ owed' = owed \cup (Range(SubSeq(q, 1, k)) \cap MethodCalls)
  BY DEF Write
<1> DEFINE a == SubSeq(q, 1, k)
           b == SubSeq(q, k + 1, Len(q))
<1>2. /\ a \in Seq(Calls) /\ b \in Seq(Calls) /\ Range(q) = Range(a) \cup Range(b)
      /\ \A x : Once(q, x) => Once(b, x) /\ (x \notin Range(a) \/ x \notin Range(b))
  BY SplitFind
<1>3. unsent' = b /\ owed' = owed \cup (Range(a) \cap MethodCalls)
  BY <1>1
<1> HIDE DEF a, b
<1>4. Range(b) \subseteq Calls
  BY <1>2, RangeOfSeq
<1>5. ASSUME NEW x \in owed' PROVE x \notin Range(b)
  BY <1>2, <1>3, <1>4, <1>5
<1>6. QED  BY <1>2, <1>3, <1>4, <1>5

\* The calls of two queues of messages, one behind the other.
LEMMA CallsInConcat ==
  ASSUME NEW p \in Seq(Message), NEW q \in Seq(Message)
  PROVE  CallsIn(p \o q) = CallsIn(p) \cup CallsIn(q)
<1>1. \A s \in Seq(Message) : CallsIn(s) = {m.call : m \in Range(s)}
  BY DEF CallsIn, Range
<1>2. p \o q \in Seq(Message) /\ Range(p \o q) = Range(p) \cup Range(q)
  BY ConcatFind
<1> DEFINE pq == p \o q
<1> HIDE DEF pq
<1>3. pq \in Seq(Message) /\ Range(pq) = Range(p) \cup Range(q)
  BY <1>2 DEF pq
<1>4. CallsIn(pq) = CallsIn(p) \cup CallsIn(q)
  BY <1>1, <1>3
<1>5. QED  BY <1>4 DEF pq

LEMMA CallsInAppend ==
  ASSUME NEW p \in Seq(Message), NEW m \in Message
  PROVE  Append(p, m) \in Seq(Message) /\ CallsIn(Append(p, m)) = CallsIn(p) \cup {m.call}
<1> DEFINE q == Append(p, m)
<1>1. q \in Seq(Message) /\ Range(q) = Range(p) \cup {m}
  BY AppendFind
<1> HIDE DEF q
<1>2. \A s \in Seq(Message) : CallsIn(s) = {x.call : x \in Range(s)}
  BY DEF CallsIn, Range
<1>3. CallsIn(q) = CallsIn(p) \cup {m.call}
  BY <1>1, <1>2
<1>4. QED  BY <1>1, <1>3 DEF q

\* watch_handler reads the first n messages of the socket: each call is answered
\* there once at most, so the message that CHOOSE takes is the one for the call.
LEMMA ReadSome ==
  ASSUME TypeOK, OneReply, NEW n \in 1..Len(wire)
  PROVE  LET got == SubSeq(wire, 1, n)
             rest == SubSeq(wire, n + 1, Len(wire))
         IN  /\ got \in Seq(Message) /\ rest \in Seq(Message)
             /\ {got[i].call : i \in 1..n} = CallsIn(got)
             /\ Len(got) = n /\ DOMAIN got = 1..n
             /\ CallsIn(wire) = CallsIn(got) \cup CallsIn(rest)
             /\ CallsIn(got) \subseteq MethodCalls
             /\ CallsIn(got) \cap CallsIn(rest) = {}
             /\ \A i, j \in DOMAIN rest : rest[i].call = rest[j].call => i = j
             /\ \A i, j \in DOMAIN got : got[i].call = got[j].call => i = j
             /\ \A i \in DOMAIN got :
                  /\ got[i] \in Message
                  /\ (CHOOSE m \in Range(got) : m.call = got[i].call) = got[i]
             /\ \A i \in DOMAIN got : got[i].kind \in Answers
             /\ \A i \in DOMAIN rest : rest[i].kind \in Answers
<1> DEFINE got == SubSeq(wire, 1, n)
           rest == SubSeq(wire, n + 1, Len(wire))
<1>1. Len(wire) \in Nat /\ DOMAIN wire = 1..Len(wire) /\ \A i \in 1..Len(wire) : wire[i] \in Message
  BY LenProperties, ElementOfSeq DEF TypeOK
<1>2. /\ got \in Seq(Message) /\ Len(got) = n
      /\ \A i \in 1..n : got[i] = wire[i]
  BY <1>1, SubSeqProperties
<1>3. /\ rest \in Seq(Message) /\ Len(rest) = Len(wire) - n
      /\ \A i \in 1..(Len(wire) - n) : rest[i] = wire[n + i]
  <2> DEFINE k == n + 1
             l == Len(wire)
  <2>1. k \in Int /\ l \in Int /\ \A i \in k..l : wire[i] \in Message
    BY <1>1
  <2>2. k = n + 1 /\ l = Len(wire)
    OBVIOUS
  <2> HIDE DEF k, l
  <2>3. /\ SubSeq(wire, k, l) \in Seq(Message)
        /\ Len(SubSeq(wire, k, l)) = IF k <= l THEN l - k + 1 ELSE 0
        /\ \A i \in 1..(l - k + 1) : SubSeq(wire, k, l)[i] = wire[k + i - 1]
    BY <2>1, SubSeqProperties
  <2>4. rest = SubSeq(wire, k, l)
    BY DEF k, l
  <2> HIDE DEF rest
  <2>5. rest \in Seq(Message) /\ Len(rest) = Len(wire) - n
    <3>1. rest \in Seq(Message) /\ Len(rest) = IF k <= l THEN l - k + 1 ELSE 0
      BY <2>3, <2>4, Zenon
    <3>2. (IF k <= l THEN l - k + 1 ELSE 0) = Len(wire) - n
      <4>1. n \in Nat /\ Len(wire) \in Nat /\ n <= Len(wire)
        BY <1>1
      <4>2. CASE n = Len(wire)
        BY <2>2, <4>1, <4>2
      <4>3. CASE n < Len(wire)
        BY <2>2, <4>1, <4>3
      <4>4. QED  BY <4>1, <4>2, <4>3
    <3>3. QED  BY <3>1, <3>2
  <2>6. ASSUME NEW i \in 1..(Len(wire) - n) PROVE rest[i] = wire[n + i]
    <3>1. i \in 1..(l - k + 1) /\ k + i - 1 = n + i
      BY <1>1, <2>2
    <3>2. QED  BY <2>3, <2>4, <3>1
  <2>7. QED  BY <2>5, <2>6
<1>4. DOMAIN got = 1..n /\ DOMAIN rest = 1..(Len(wire) - n)
  BY <1>2, <1>3, LenProperties
<1>5. \A i, j \in 1..Len(wire) : wire[i].call = wire[j].call => i = j
  BY <1>1 DEF OneReply
<1> HIDE DEF got, rest
<1>6. {got[i].call : i \in 1..n} = CallsIn(got)
  BY <1>4 DEF CallsIn
<1>7. CallsIn(got) \subseteq MethodCalls
  BY <1>1, <1>2, <1>4 DEF CallsIn, Message
<1>8. CallsIn(wire) = CallsIn(got) \cup CallsIn(rest)
  <2>1. ASSUME NEW c \in CallsIn(wire) PROVE c \in CallsIn(got) \cup CallsIn(rest)
    <3>1. PICK i \in 1..Len(wire) : c = wire[i].call
      BY <1>1, <2>1 DEF CallsIn
    <3>2. CASE i <= n
      BY <1>2, <1>4, <3>1, <3>2 DEF CallsIn
    <3>3. CASE ~(i <= n)
      <4>1. i - n \in 1..(Len(wire) - n) /\ n + (i - n) = i
        BY <1>1, <3>3
      <4>2. rest[i - n].call = c
        BY <1>3, <3>1, <4>1
      <4>3. QED  BY <1>4, <4>1, <4>2 DEF CallsIn
    <3>4. QED  BY <3>2, <3>3
  <2>2. ASSUME NEW c \in CallsIn(got) PROVE c \in CallsIn(wire)
    BY <1>1, <1>2, <1>4, <2>2 DEF CallsIn
  <2>3. ASSUME NEW c \in CallsIn(rest) PROVE c \in CallsIn(wire)
    <3>1. PICK i \in 1..(Len(wire) - n) : c = rest[i].call
      BY <1>4, <2>3 DEF CallsIn
    <3>2. n + i \in 1..Len(wire) /\ wire[n + i].call = c
      BY <1>1, <1>3, <3>1
    <3>3. QED  BY <1>1, <3>2 DEF CallsIn
  <2>4. QED  BY <2>1, <2>2, <2>3
<1>9. ASSUME NEW i \in DOMAIN got, NEW j \in DOMAIN rest PROVE got[i].call # rest[j].call
  <2>1. i # n + j /\ i \in 1..Len(wire) /\ n + j \in 1..Len(wire)
    BY <1>1, <1>4
  <2>2. got[i] = wire[i] /\ rest[j] = wire[n + j]
    BY <1>2, <1>3, <1>4
  <2>3. QED  BY <1>5, <2>1, <2>2
<1>10. ASSUME NEW i \in DOMAIN rest, NEW j \in DOMAIN rest, rest[i].call = rest[j].call
       PROVE  i = j
  <2>1. n + i \in 1..Len(wire) /\ n + j \in 1..Len(wire)
    BY <1>1, <1>4
  <2>2. rest[i] = wire[n + i] /\ rest[j] = wire[n + j]
    BY <1>3, <1>4
  <2>3. n + i = n + j
    BY <1>5, <1>10, <2>1, <2>2
  <2>4. QED  BY <1>1, <1>4, <2>3
<1>11. ASSUME NEW i \in DOMAIN got, NEW j \in DOMAIN got, got[i].call = got[j].call
       PROVE  i = j
  BY <1>1, <1>2, <1>4, <1>5, <1>11
<1>12. ASSUME NEW i \in DOMAIN got
       PROVE  got[i] \in Message /\ (CHOOSE m \in Range(got) : m.call = got[i].call) = got[i]
  <2>1. got[i] \in Message
    BY <1>1, <1>2, <1>4
  <2>2. got[i] \in Range(got) /\ \A m \in Range(got) : m.call = got[i].call => m = got[i]
    BY <1>11 DEF Range
  <2>3. QED  BY <2>1, <2>2
<1>13. CallsIn(got) \cap CallsIn(rest) = {}
  BY <1>9 DEF CallsIn
<1>14. \A i \in DOMAIN got : got[i].kind \in Answers
  BY <1>1, <1>2, <1>4 DEF OneReply
<1>15. ASSUME NEW i \in DOMAIN rest PROVE rest[i].kind \in Answers
  <2>1. n + i \in DOMAIN wire /\ rest[i] = wire[n + i]
    BY <1>1, <1>3, <1>4
  <2>2. QED  BY <2>1 DEF OneReply
<1>16. QED
  BY <1>2, <1>3, <1>4, <1>6, <1>7, <1>8, <1>10, <1>11, <1>12, <1>13, <1>14, <1>15 DEF got, rest

\* What watch_handler does to the queues, the timers and the first answers.
LEMMA WatchReads ==
  ASSUME TypeOK, OneReply, NEW t, RunWatch(t)
  PROVE  \E got \in Seq(Message), rest \in Seq(Message) :
           /\ wire' = rest /\ incoming' = incoming \o got
           /\ CallsIn(wire) = CallsIn(got) \cup CallsIn(rest)
           /\ CallsIn(got) \subseteq MethodCalls /\ CallsIn(got) \cap CallsIn(rest) = {}
           /\ \A i, j \in DOMAIN rest : rest[i].call = rest[j].call => i = j
           /\ \A i, j \in DOMAIN got : got[i].call = got[j].call => i = j
           /\ timer' = RemoveTimeouts({c \in CallsIn(got) : pending[c] = "waiting" /\ TimeoutAdded(c)})
           /\ first' \in [MethodCalls -> Kinds \cup {"none"}]
           /\ \A i \in DOMAIN got :
                first[got[i].call] = "none" => got[i].kind = first'[got[i].call]
           /\ \A c \in MethodCalls :
                c \notin CallsIn(got) \/ first[c] # "none" => first'[c] = first[c]
           /\ \A c \in CallsIn(got) : first[c] = "none" => first'[c] \in Answers
           /\ \A i \in DOMAIN rest : rest[i].kind \in Answers
<1>1. PICK n \in 1..Len(wire) :
       LET got == SubSeq(wire, 1, n)
           from == {got[i].call : i \in 1..n}
       IN  /\ wire' = SubSeq(wire, n + 1, Len(wire))
           /\ incoming' = incoming \o got
           /\ timer' = RemoveTimeouts({c \in from : pending[c] = "waiting" /\ TimeoutAdded(c)})
           /\ first' = [c \in MethodCalls |->
                IF c \in from /\ first[c] = "none"
                  THEN (CHOOSE m \in Range(got) : m.call = c).kind
                  ELSE first[c]]
  BY DEF RunWatch
<1> DEFINE got == SubSeq(wire, 1, n)
           rest == SubSeq(wire, n + 1, Len(wire))
           from == {got[i].call : i \in 1..n}
           pick(c) == CHOOSE m \in Range(got) : m.call = c
<1>2. /\ got \in Seq(Message) /\ rest \in Seq(Message)
      /\ from = CallsIn(got)
      /\ CallsIn(wire) = CallsIn(got) \cup CallsIn(rest)
      /\ CallsIn(got) \subseteq MethodCalls /\ CallsIn(got) \cap CallsIn(rest) = {}
      /\ \A i, j \in DOMAIN rest : rest[i].call = rest[j].call => i = j
      /\ \A i, j \in DOMAIN got : got[i].call = got[j].call => i = j
      /\ \A i \in DOMAIN got : got[i] \in Message /\ pick(got[i].call) = got[i]
      /\ \A i \in DOMAIN got : got[i].kind \in Answers
      /\ \A i \in DOMAIN rest : rest[i].kind \in Answers
  BY ReadSome
<1>3. /\ wire' = rest /\ incoming' = incoming \o got
      /\ timer' = RemoveTimeouts({c \in from : pending[c] = "waiting" /\ TimeoutAdded(c)})
      /\ first' = [c \in MethodCalls |->
           IF c \in from /\ first[c] = "none" THEN pick(c).kind ELSE first[c]]
  BY <1>1
<1> HIDE DEF got, rest, from, pick
<1>4. timer' = RemoveTimeouts({c \in CallsIn(got) : pending[c] = "waiting" /\ TimeoutAdded(c)})
  BY <1>2, <1>3
<1>5. \A i \in DOMAIN got : got[i].call \in from /\ pick(got[i].call).kind = got[i].kind
  BY <1>2 DEF CallsIn
<1>6. \A c \in from : pick(c).kind \in Kinds
  <2> TAKE c \in from
  <2>1. PICK i \in DOMAIN got : got[i].call = c
    BY <1>2 DEF CallsIn
  <2>2. pick(c) = got[i] /\ got[i] \in Message
    BY <1>2, <2>1
  <2>3. QED  BY <2>2 DEF Message
<1>7. first' \in [MethodCalls -> Kinds \cup {"none"}]
  BY <1>3, <1>6 DEF TypeOK
<1>8. \A i \in DOMAIN got : first[got[i].call] = "none" => got[i].kind = first'[got[i].call]
  BY <1>2, <1>3, <1>5
<1>9. \A c \in MethodCalls : c \notin CallsIn(got) \/ first[c] # "none" => first'[c] = first[c]
  BY <1>2, <1>3
<1>10. \A c \in CallsIn(got) : first[c] = "none" => first'[c] \in Answers
  BY <1>2, <1>8 DEF CallsIn
<1>11. QED  BY <1>2, <1>3, <1>4, <1>7, <1>8, <1>9, <1>10

\* What dispatch_handler does with the message at the head of the incoming queue.
LEMMA DispatchCompletes ==
  ASSUME TypeOK, NEW t, RunDispatch(t)
  PROVE  \/ incoming = <<>> /\ UNCHANGED <<incoming, pending, op>>
         \/ /\ incoming # <<>> /\ incoming' = Tail(incoming)
            /\ \E c \in MethodCalls, k \in Kinds :
                 /\ Head(incoming) = [call |-> c, kind |-> k]
                 /\ \/ pending[c] # "waiting" /\ UNCHANGED <<pending, op>>
                    \/ /\ pending[c] = "waiting" /\ ~notify[c]
                       /\ pending' = [pending EXCEPT ![c] = "completed"] /\ UNCHANGED op
                    \/ /\ pending[c] = "waiting" /\ notify[c]
                       /\ pending' = [pending EXCEPT ![c] = "freed"]
                       /\ op' = [op EXCEPT ![c] = "posted"]
<1>1. CASE incoming = <<>>
  BY <1>1 DEF RunDispatch
<1>2. CASE incoming # <<>>
  <2>1. PICK c \in MethodCalls, k \in Kinds : Head(incoming) = [call |-> c, kind |-> k]
    <3>1. Head(incoming) \in Message
      BY <1>2, HeadTailProperties DEF TypeOK
    <3>2. QED  BY <3>1 DEF Message
  <2>2. incoming' = Tail(incoming) /\ Head(incoming).call = c
    BY <1>2, <2>1 DEF RunDispatch
  <2>3. \/ pending[c] # "waiting" /\ UNCHANGED <<pending, op>>
        \/ /\ pending[c] = "waiting" /\ ~notify[c]
           /\ pending' = [pending EXCEPT ![c] = "completed"] /\ UNCHANGED op
        \/ /\ pending[c] = "waiting" /\ notify[c]
           /\ pending' = [pending EXCEPT ![c] = "freed"]
           /\ op' = [op EXCEPT ![c] = "posted"]
    BY <1>2, <2>2 DEF RunDispatch
  <2>4. QED  BY <1>2, <2>1, <2>2, <2>3
<1>3. QED  BY <1>1, <1>2

-----------------------------------------------------------------------------
(* The steps one by one *)

LEMMA Steps ==
  ASSUME [Next]_vars
  PROVE  \/ \E t \in threads : Flush(t) \/ Poll(t) \/ RunWatch(t) \/ RunDispatch(t)
         \/ \E t \in threads, c \in Calls :
              \/ PackError(t, c) \/ Start(t, c) \/ SendOnly(t, c) \/ SendWithReply(t, c)
              \/ SendDisconnected(t, c) \/ SetNotify(t, c) \/ GetCompleted(t, c)
         \/ \E t \in threads, c \in MethodCalls :
              \/ RunTimeout(t, c) \/ TimeoutHandle(t, c) \/ Abort(t, c)
              \/ \E k \in Kinds : RunOp(t, c, k)
         \/ \E c \in MethodCalls : TimerDue(c) \/ \E k \in Answers : PeerReplies(c, k)
         \/ UNCHANGED vars
BY SendAssumption DEF Next, Sending, Running

\* What each step leaves alone.
LEMMA Frames ==
  ASSUME NEW t, NEW c, NEW k
  PROVE  /\ Flush(t) => UNCHANGED <<threads, thread, call, io, wire, incoming, pending, notify,
                                    op, timer, handled, first>>
         /\ PackError(t, c) => UNCHANGED <<threads, thread, io, wire, incoming, pending, notify,
                                    unsent, owed, op, timer, handled, first>>
         /\ Start(t, c) => UNCHANGED <<threads, wire, incoming, pending, notify, unsent, owed,
                                    op, timer, handled, first>>
         /\ SendOnly(t, c) => UNCHANGED <<threads, io, wire, incoming, pending, notify, op,
                                    timer, handled, first>>
         /\ SendWithReply(t, c) => UNCHANGED <<threads, call, io, wire, incoming, notify, op,
                                    handled, first>>
         /\ SendDisconnected(t, c) => UNCHANGED <<threads, call, io, wire, incoming, notify,
                                    unsent, owed, op, timer, handled, first>>
         /\ SetNotify(t, c) => UNCHANGED <<threads, call, io, wire, incoming, pending, unsent,
                                    owed, timer, handled, first>>
         /\ GetCompleted(t, c) => UNCHANGED <<threads, io, wire, incoming, pending, notify,
                                    unsent, owed, op, timer, handled, first>>
         /\ Poll(t) => UNCHANGED <<threads, thread, call, wire, incoming, pending, notify,
                                    unsent, owed, op, handled, first>>
         /\ RunWatch(t) => UNCHANGED <<threads, thread, call, pending, notify, unsent, owed, op,
                                    handled>>
         /\ RunTimeout(t, c) => UNCHANGED <<threads, call, wire, incoming, pending, notify,
                                    unsent, owed, op, timer, handled, first>>
         /\ TimeoutHandle(t, c) => UNCHANGED <<threads, call, wire, pending, notify, unsent,
                                    owed, op, handled>>
         /\ Abort(t, c) => UNCHANGED <<thread, call, io, wire, incoming, pending, notify, unsent,
                                    owed, op, timer, handled, first>>
         /\ RunDispatch(t) => UNCHANGED <<threads, thread, call, wire, notify, unsent, owed,
                                    timer, handled, first>>
         /\ RunOp(t, c, k) => UNCHANGED <<threads, thread, call, wire, incoming, pending, notify,
                                    unsent, owed, timer, first>>
         /\ TimerDue(c) => UNCHANGED <<threads, thread, call, io, wire, incoming, pending,
                                    notify, unsent, owed, op, handled, first>>
         /\ PeerReplies(c, k) => UNCHANGED <<threads, thread, call, io, incoming, pending,
                                    notify, unsent, op, timer, handled, first>>
         /\ UNCHANGED vars => UNCHANGED <<threads, thread, call, io, wire, incoming, pending,
                                    notify, unsent, owed, op, timer, handled, first>>
BY DEF Flush, PackError, Start, SendOnly, SendWithReply, SendDisconnected, SetNotify,
       GetCompleted, Poll, RunWatch, RunTimeout, TimeoutHandle, Abort, RunDispatch, RunOp, TimerDue, PeerReplies, libdbus,
       vars

\* The facts about the constants and the types that every step uses.
LEMMA InThreads ==
  ASSUME TypeOK
  PROVE  threads \subseteq Threads /\ MethodCalls \subseteq Calls
BY SendAssumption DEF TypeOK, Calls

\* Which messages stay in the outgoing queue and which reach the peer.
LEMMA SendWrites ==
  ASSUME SendInv, NEW t \in threads, NEW c \in Calls, thread[t] = At("send", c),
         Write(Append(unsent, c))
  PROVE  /\ c \notin Range(unsent) \cup owed
         /\ unsent' \in Seq(Calls) /\ Range(unsent') \subseteq Range(unsent) \cup {c}
         /\ \A d \in Calls : Once(unsent', d)
         /\ owed' \subseteq MethodCalls \ Range(unsent')
         /\ owed' \subseteq owed \cup Range(unsent) \cup {c}
<1> DEFINE q == Append(unsent, c)
<1>1. c \notin Range(unsent) /\ (c \in MethodCalls => pending[c] = "none")
  BY InThreads DEF SendInv, NotSentYet
<1>2. c \notin owed
  BY <1>1 DEF SendInv, NoTrace, NoTraceOf, Sent, TypeOK
<1>3. unsent \in Seq(Calls)
  BY DEF SendInv, TypeOK
<1>4. /\ q \in Seq(Calls) /\ Range(q) = Range(unsent) \cup {c}
      /\ \A d : Once(q, d) <=> Once(unsent, d) /\ (d # c \/ d \notin Range(unsent))
  BY <1>3, AppendFind
<1>5. Write(q)
  OBVIOUS
<1> HIDE DEF q
<1>6. \A d \in Calls : Once(q, d)
  BY <1>1, <1>4 DEF SendInv, OneReply
<1>7. owed \subseteq MethodCalls \ Range(q)
  BY <1>2, <1>4 DEF SendInv, TypeOK
<1>8. QED  BY <1>1, <1>2, <1>4, <1>5, <1>6, <1>7, WriteSplits

\* Every step keeps the types.
LEMMA NextTypeOK == SendInv /\ [Next]_vars => TypeOK'
<1> SUFFICES ASSUME SendInv, [Next]_vars PROVE TypeOK'
  OBVIOUS
<1>0. TypeOK /\ threads \subseteq Threads /\ MethodCalls \subseteq Calls
  BY InThreads DEF SendInv
<1>1. ASSUME NEW t \in threads, Flush(t) PROVE TypeOK'
  <2>1. unsent' \in Seq(Calls) /\ Range(unsent') = {}
    BY <1>1, EmptyFind DEF Flush
  <2>2. owed' \subseteq MethodCalls \ Range(unsent')
    BY <1>0, <1>1, <2>1 DEF TypeOK, Flush
  <2>3. QED  BY <1>0, <1>1, <2>1, <2>2 DEF TypeOK, Flush
<1>2. ASSUME NEW t \in threads, Poll(t) PROVE TypeOK'
  <2>1. io' \in Seq(Tasks)
    BY <1>0, <1>2, PollQueues DEF SendInv, Gains, GainsOn
  <2>2. QED  BY <1>0, <1>2, <2>1 DEF TypeOK, Poll, libdbus
<1>3. ASSUME NEW t \in threads, RunWatch(t) PROVE TypeOK'
  <2>1. io' \in Seq(Tasks)
    BY <1>0, <1>3, WatchQueues DEF SendInv, Gains, GainsOn
  <2>2. PICK got \in Seq(Message), rest \in Seq(Message) :
          /\ wire' = rest /\ incoming' = incoming \o got
          /\ timer' = RemoveTimeouts({c \in CallsIn(got) : pending[c] = "waiting" /\ TimeoutAdded(c)})
          /\ first' \in [MethodCalls -> Kinds \cup {"none"}]
    BY <1>0, <1>3, WatchReads DEF SendInv
  <2>3. incoming' \in Seq(Message)
    BY <1>0, <2>2, ConcatProperties DEF TypeOK
  <2>4. timer' \in [MethodCalls -> {"none", "armed", "due", "queued", "deleted", "twice"}]
    BY <1>0, <2>2 DEF TypeOK, RemoveTimeouts
  <2>5. QED  BY <1>0, <1>3, <2>1, <2>2, <2>3, <2>4 DEF TypeOK, RunWatch
<1>4. ASSUME NEW t \in threads, RunDispatch(t) PROVE TypeOK'
  <2>1. io' \in Seq(Tasks)
    BY <1>0, <1>4, DispatchQueues DEF SendInv, Gains, GainsOn
  <2>2. incoming' \in Seq(Message)
    BY <1>0, <1>4, HeadTailProperties, EmptySeq DEF TypeOK, RunDispatch
  <2>3. /\ pending' \in [MethodCalls -> {"none", "waiting", "completed", "freed", "null"}]
        /\ op' \in [MethodCalls -> {"none", "heap", "posted", "gone"}]
    BY <1>0, <1>4 DEF TypeOK, RunDispatch
  <2>4. QED  BY <1>0, <1>4, <2>1, <2>2, <2>3 DEF TypeOK, RunDispatch
<1>5. ASSUME NEW t \in threads, NEW c \in Calls, PackError(t, c) PROVE TypeOK'
  BY <1>0, <1>5 DEF TypeOK, PackError, libdbus
<1>6. ASSUME NEW t \in threads, NEW c \in Calls, Start(t, c) PROVE TypeOK'
  <2>1. io' \in Seq(Tasks)
    BY <1>0, <1>6, StartQueues DEF SendInv, Gains, GainsOn
  <2>2. QED  BY <1>0, <1>6, <2>1, ActivityKinds DEF TypeOK, Start, libdbus
<1>7. ASSUME NEW t \in threads, NEW c \in Calls, SendOnly(t, c) PROVE TypeOK'
  <2>1. unsent' \in Seq(Calls) /\ owed' \subseteq MethodCalls \ Range(unsent')
    BY <1>7, SendWrites DEF SendOnly
  <2>2. QED  BY <1>0, <1>7, <2>1, ActivityKinds DEF TypeOK, SendOnly
<1>8. ASSUME NEW t \in threads, NEW c \in Calls, SendWithReply(t, c) PROVE TypeOK'
  <2>1. unsent' \in Seq(Calls) /\ owed' \subseteq MethodCalls \ Range(unsent')
    BY <1>8, SendWrites DEF SendWithReply
  <2>2. QED  BY <1>0, <1>8, <2>1, ActivityKinds DEF TypeOK, SendWithReply, AddTimeout
<1>9. ASSUME NEW t \in threads, NEW c \in Calls, SendDisconnected(t, c) PROVE TypeOK'
  BY <1>0, <1>9, ActivityKinds DEF TypeOK, SendDisconnected
<1>10. ASSUME NEW t \in threads, NEW c \in Calls, SetNotify(t, c) PROVE TypeOK'
  BY <1>0, <1>10, ActivityKinds DEF TypeOK, SetNotify
<1>11. ASSUME NEW t \in threads, NEW c \in MethodCalls, RunTimeout(t, c) PROVE TypeOK'
  <2>1. io' \in Seq(Tasks)
    BY <1>0, <1>11, Taken DEF RunTimeout, Runs, Gains, GainsOn
  <2>2. QED  BY <1>0, <1>11, <2>1, ActivityKinds DEF TypeOK, RunTimeout, libdbus
<1>12. ASSUME NEW t \in threads, NEW c \in MethodCalls, TimeoutHandle(t, c) PROVE TypeOK'
  <2>1. io' \in Seq(Tasks)
    BY <1>0, <1>12, TimeoutHandleQueues DEF Gains, GainsOn
  <2>2. [call |-> c, kind |-> "noreply"] \in Message
    BY DEF Message, Kinds
  <2>3. incoming' \in Seq(Message)
    <3> DEFINE m == [call |-> c, kind |-> "noreply"]
    <3>1. incoming' = incoming \/ incoming' = Append(incoming, m)
      BY <1>12 DEF TimeoutHandle
    <3>2. m \in Message
      BY <2>2
    <3> HIDE DEF m
    <3>3. incoming \in Seq(Message) /\ Append(incoming, m) \in Seq(Message)
      BY <1>0, <3>2, AppendProperties DEF TypeOK
    <3>4. QED  BY <3>1, <3>3
  <2>4. first' \in [MethodCalls -> Kinds \cup {"none"}]
    BY <1>0, <1>12 DEF TypeOK, TimeoutHandle, Kinds
  <2>5. timer' \in [MethodCalls -> {"none", "armed", "due", "queued", "deleted", "twice"}]
    BY <1>0, <1>12 DEF TypeOK, TimeoutHandle, RemoveTimeouts
  <2>6. thread' \in [Threads -> Activities]
    BY <1>0, <1>12, ActivityKinds DEF TypeOK, TimeoutHandle
  <2>7. QED
    BY <1>0, <1>12, <2>1, <2>3, <2>4, <2>5, <2>6, Frames DEF TypeOK, TimeoutHandle
<1>13. ASSUME NEW t \in threads, NEW c \in MethodCalls, NEW k \in Kinds, RunOp(t, c, k)
       PROVE  TypeOK'
  <2>1. io' \in Seq(Tasks)
    BY <1>0, <1>13, Taken DEF RunOp, Runs, Gains, GainsOn
  <2>2. Append(handled[c], ErrorCode(k)) \in Seq({ErrorCode(j) : j \in Kinds})
    <3> DEFINE Codes == {ErrorCode(j) : j \in Kinds}
    <3>1. handled[c] \in Seq(Codes) /\ ErrorCode(k) \in Codes
      BY <1>0 DEF TypeOK
    <3> HIDE DEF Codes
    <3>2. Append(handled[c], ErrorCode(k)) \in Seq(Codes)
      BY <3>1, AppendProperties
    <3>3. QED  BY <3>2 DEF Codes
  <2>3. QED  BY <1>0, <1>13, <2>1, <2>2 DEF TypeOK, RunOp, libdbus
<1>14. ASSUME NEW c \in MethodCalls, TimerDue(c) PROVE TypeOK'
  BY <1>0, <1>14 DEF TypeOK, TimerDue, libdbus
<1>15. ASSUME NEW c \in MethodCalls, NEW k \in Answers, PeerReplies(c, k) PROVE TypeOK'
  <2>1. [call |-> c, kind |-> k] \in Message
    BY DEF Message, Kinds
  <2>2. wire' \in Seq(Message)
    BY <1>0, <1>15, <2>1, CallsInAppend DEF TypeOK, PeerReplies
  <2>3. QED  BY <1>0, <1>15, <2>2 DEF TypeOK, PeerReplies
<1>16. ASSUME NEW t \in threads, NEW c \in Calls, GetCompleted(t, c) PROVE TypeOK'
  BY <1>0, <1>16, ActivityKinds DEF TypeOK, GetCompleted, libdbus
<1>17. ASSUME NEW t \in threads, NEW c \in MethodCalls, Abort(t, c) PROVE TypeOK'
  BY <1>0, <1>17 DEF TypeOK, Abort, libdbus
<1>18. CASE UNCHANGED vars
  BY <1>0, <1>18 DEF TypeOK, vars, libdbus
<1>19. QED
  BY <1>1, <1>2, <1>3, <1>4, <1>5, <1>6, <1>7, <1>8, <1>9, <1>10, <1>11, <1>12, <1>13,
     <1>14, <1>15, <1>16, <1>17, <1>18, Steps

\* A call is sent by one thread, and by a thread of the application.
LEMMA NextSenders == SendInv /\ [Next]_vars => Senders'
<1> SUFFICES ASSUME SendInv, [Next]_vars PROVE Senders'
  OBVIOUS
<1>0. TypeOK /\ Senders /\ threads \subseteq Threads /\ MethodCalls \subseteq Calls
  BY InThreads DEF SendInv
<1> USE ActivityKinds
<1>1. CASE UNCHANGED <<threads, thread, call>>
  BY <1>0, <1>1 DEF Senders, Sends, Aborted
<1>2. ASSUME NEW t \in threads, NEW c \in Calls, PackError(t, c) PROVE Senders'
  BY <1>0, <1>2, Frames DEF Senders, Sends, Aborted, PackError, TypeOK
<1>3. ASSUME NEW t \in threads, NEW c \in Calls, Start(t, c) PROVE Senders'
  BY <1>0, <1>3 DEF Senders, Sends, Aborted, Start, TypeOK
<1>4. ASSUME NEW t \in threads, NEW c \in Calls, SendOnly(t, c) PROVE Senders'
  BY <1>0, <1>4, SendAssumption DEF Senders, Sends, Aborted, SendOnly, TypeOK
<1>5. ASSUME NEW t \in threads, NEW c \in Calls, SendWithReply(t, c) PROVE Senders'
  BY <1>0, <1>5 DEF Senders, Sends, Aborted, SendWithReply, TypeOK
<1>6. ASSUME NEW t \in threads, NEW c \in Calls, SendDisconnected(t, c) PROVE Senders'
  BY <1>0, <1>6 DEF Senders, Sends, Aborted, SendDisconnected, TypeOK
<1>7. ASSUME NEW t \in threads, NEW c \in Calls, SetNotify(t, c) PROVE Senders'
  BY <1>0, <1>7 DEF Senders, Sends, Aborted, SetNotify, TypeOK
<1>8. ASSUME NEW t \in threads, NEW c \in MethodCalls, RunTimeout(t, c) PROVE Senders'
  BY <1>0, <1>8 DEF Senders, Sends, Aborted, RunTimeout, Runs, TypeOK
<1>9. ASSUME NEW t \in threads, NEW c \in MethodCalls, TimeoutHandle(t, c) PROVE Senders'
  BY <1>0, <1>9 DEF Senders, Sends, Aborted, TimeoutHandle, TypeOK
<1>10. ASSUME NEW t \in threads, NEW c \in Calls, GetCompleted(t, c) PROVE Senders'
  BY <1>0, <1>10 DEF Senders, Sends, Aborted, GetCompleted, TypeOK
<1>11. ASSUME NEW t \in threads, NEW c \in MethodCalls, Abort(t, c) PROVE Senders'
  BY <1>0, <1>11 DEF Senders, Sends, Aborted, Abort
<1>12. QED
  BY <1>1, <1>2, <1>3, <1>4, <1>5, <1>6, <1>7, <1>8, <1>9, <1>10, <1>11, Steps, Frames

\* Nothing is known of a call before it is sent.
LEMMA NextNotSentYet == SendInv /\ [Next]_vars => NotSentYet'
<1> SUFFICES ASSUME SendInv, [Next]_vars PROVE NotSentYet'
  OBVIOUS
<1>0. /\ TypeOK /\ Senders /\ NotSentYet
      /\ threads \subseteq Threads /\ MethodCalls \subseteq Calls
  BY InThreads DEF SendInv
<1> USE ActivityKinds
<1>1. CASE UNCHANGED <<thread, call, unsent, pending>>
  BY <1>0, <1>1 DEF NotSentYet
<1>2. ASSUME NEW t \in threads, Flush(t) PROVE NotSentYet'
  <2>1. Range(unsent') = {}
    BY <1>2, EmptyFind DEF Flush
  <2>2. QED  BY <1>0, <1>2, <2>1, Frames DEF NotSentYet
<1>3. ASSUME NEW t \in threads, NEW c \in Calls, PackError(t, c) PROVE NotSentYet'
  BY <1>0, <1>3, Frames DEF NotSentYet, PackError, TypeOK
<1>4. ASSUME NEW t \in threads, NEW c \in Calls, Start(t, c) PROVE NotSentYet'
  <2>1. \A u \in Threads, d \in Calls : thread'[u] = At("send", d) =>
          thread[u] = At("send", d) \/ (d = c /\ call[d] = "idle")
    BY <1>0, <1>4 DEF Start, TypeOK
  <2>2. \A d \in Calls : call'[d] = "idle" => call[d] = "idle"
    BY <1>0, <1>4 DEF Start, TypeOK
  <2>3. QED  BY <1>0, <1>4, <2>1, <2>2, Frames DEF NotSentYet
<1>5. ASSUME NEW t \in threads, NEW c \in Calls, SendOnly(t, c) PROVE NotSentYet'
  <2>1. Range(unsent') \subseteq Range(unsent) \cup {c}
    BY <1>5, SendWrites DEF SendOnly
  <2>2. ASSUME NEW u \in Threads PROVE thread'[u] # At("send", c)
    BY <1>0, <1>5 DEF Senders, Sends, SendOnly, TypeOK
  <2>3. QED  BY <1>0, <1>5, <2>1, <2>2, Frames DEF NotSentYet, SendOnly, TypeOK
<1>6. ASSUME NEW t \in threads, NEW c \in Calls, SendWithReply(t, c) PROVE NotSentYet'
  <2>1. Range(unsent') \subseteq Range(unsent) \cup {c}
    BY <1>6, SendWrites DEF SendWithReply
  <2>2. call'[c] = "begun" /\ \A u \in Threads : thread'[u] # At("send", c)
    BY <1>0, <1>6 DEF Senders, Sends, SendWithReply, TypeOK
  <2>3. QED  BY <1>0, <1>6, <2>1, <2>2, Frames DEF NotSentYet, SendWithReply, TypeOK
<1>7. ASSUME NEW t \in threads, NEW c \in Calls, SendDisconnected(t, c) PROVE NotSentYet'
  <2>1. call'[c] = "begun" /\ \A u \in Threads : thread'[u] # At("send", c)
    BY <1>0, <1>7 DEF Senders, Sends, SendDisconnected, TypeOK
  <2>2. QED  BY <1>0, <1>7, <2>1, Frames DEF NotSentYet, SendDisconnected, TypeOK
<1>8. ASSUME NEW t \in threads, NEW c \in Calls, SetNotify(t, c) PROVE NotSentYet'
  BY <1>0, <1>8, Frames DEF NotSentYet, SetNotify, TypeOK
<1>9. ASSUME NEW t \in threads, NEW c \in MethodCalls, RunTimeout(t, c) PROVE NotSentYet'
  <2>1. \A u \in Threads, d \in Calls :
          thread'[u] = At("send", d) => thread[u] = At("send", d)
    BY <1>0, <1>9 DEF RunTimeout, TypeOK
  <2>2. QED  BY <1>0, <1>9, <2>1, Frames DEF NotSentYet
<1>10. ASSUME NEW t \in threads, NEW c \in MethodCalls, TimeoutHandle(t, c) PROVE NotSentYet'
  BY <1>0, <1>10, Frames DEF NotSentYet, TimeoutHandle, TypeOK
<1>11. ASSUME NEW t \in threads, RunDispatch(t) PROVE NotSentYet'
  <2>1. \A c \in MethodCalls : pending[c] = "none" => pending'[c] = "none"
    BY <1>0, <1>11, DispatchCompletes DEF TypeOK
  <2>2. QED  BY <1>0, <1>11, <2>1, Frames DEF NotSentYet
<1>12. ASSUME NEW t \in threads, NEW c \in Calls, GetCompleted(t, c) PROVE NotSentYet'
  BY <1>0, <1>12, Frames DEF NotSentYet, GetCompleted, TypeOK
<1>13. QED
  BY <1>1, <1>2, <1>3, <1>4, <1>5, <1>6, <1>7, <1>8, <1>9, <1>10, <1>11, <1>12, Steps, Frames

\* The notify function, the op and the pending call stay together.
LEMMA NextOpFollowsPending == SendInv /\ [Next]_vars => OpFollowsPending'
<1> SUFFICES ASSUME SendInv, [Next]_vars PROVE OpFollowsPending'
  OBVIOUS
<1>0. /\ TypeOK /\ Senders /\ NotSentYet /\ OpFollowsPending
      /\ threads \subseteq Threads /\ MethodCalls \subseteq Calls
  BY InThreads DEF SendInv
<1> USE ActivityKinds
<1>1. CASE UNCHANGED <<thread, pending, notify, op>>
  BY <1>0, <1>1 DEF OpFollowsPending, OpFollows
<1>2. ASSUME UNCHANGED <<pending, notify, op>>,
             \A u \in Threads, d \in Calls :
               thread'[u] = At("notify", d) <=> thread[u] = At("notify", d)
      PROVE  OpFollowsPending'
  BY <1>0, <1>2 DEF OpFollowsPending, OpFollows
<1>3. ASSUME NEW t \in threads, NEW c \in Calls, Start(t, c) PROVE OpFollowsPending'
  <2>1. \A u \in Threads, d \in Calls :
          thread'[u] = At("notify", d) <=> thread[u] = At("notify", d)
    BY <1>0, <1>3 DEF Start, TypeOK
  <2>2. QED  BY <1>2, <1>3, <2>1, Frames
<1>4. ASSUME NEW t \in threads, NEW c \in Calls, SendOnly(t, c) PROVE OpFollowsPending'
  BY <1>0, <1>2, <1>4, Frames DEF SendOnly, TypeOK
<1>5. ASSUME NEW t \in threads, NEW c \in Calls, SendWithReply(t, c) \/ SendDisconnected(t, c)
      PROVE  OpFollowsPending'
  <2>1. c \in MethodCalls /\ pending[c] = "none" /\ thread[t] = At("send", c)
    BY <1>0, <1>5 DEF NotSentYet, SendWithReply, SendDisconnected
  <2>2. PICK p \in {"waiting", "null"} : pending' = [pending EXCEPT ![c] = p]
    BY <1>5 DEF SendWithReply, SendDisconnected
  <2>3. thread' = [thread EXCEPT ![t] = At("notify", c)] /\ UNCHANGED <<threads, notify, op>>
    BY <1>5, Frames DEF SendWithReply, SendDisconnected
  <2>4. \A u \in Threads : thread[u] # At("notify", c)
    BY <1>0, <2>1 DEF Senders, Sends
  <2>5. ASSUME NEW d \in MethodCalls, d # c
        PROVE  /\ pending'[d] = pending[d]
               /\ \A u \in Threads : thread'[u] = At("notify", d) <=> thread[u] = At("notify", d)
    BY <1>0, <2>1, <2>2, <2>3, <2>5 DEF TypeOK
  <2>6. pending'[c] = p /\ op[c] = "none" /\ ~notify[c] /\ thread'[t] = At("notify", c)
    BY <1>0, <2>1, <2>2, <2>3 DEF TypeOK, OpFollowsPending, OpFollows
  <2>7. QED  BY <1>0, <2>2, <2>3, <2>5, <2>6 DEF OpFollowsPending, OpFollows
<1>6. ASSUME NEW t \in threads, NEW c \in Calls, SetNotify(t, c) PROVE OpFollowsPending'
  <2>1. /\ c \in MethodCalls /\ thread[t] = At("notify", c)
        /\ pending[c] \in {"waiting", "completed", "null"} /\ op[c] = "none"
    BY <1>0, <1>6 DEF SetNotify, Senders, OpFollowsPending, OpFollows
  <2>2. /\ op' = [op EXCEPT ![c] = "heap"]
        /\ notify' = [notify EXCEPT ![c] = (pending[c] # "null")]
        /\ thread' = [thread EXCEPT ![t] = At("completed", c)] /\ UNCHANGED <<threads, pending>>
    BY <1>6 DEF SetNotify
  <2>3. op'[c] = "heap" /\ notify'[c] = (pending[c] # "null")
    BY <1>0, <2>1, <2>2 DEF TypeOK
  <2>4. \A u \in Threads : thread'[u] # At("notify", c)
    BY <1>0, <2>1, <2>2 DEF Senders, Sends, TypeOK
  <2>5. ASSUME NEW d \in MethodCalls, d # c
        PROVE  /\ op'[d] = op[d] /\ notify'[d] = notify[d]
               /\ \A u \in Threads : thread'[u] = At("notify", d) <=> thread[u] = At("notify", d)
    BY <1>0, <2>1, <2>2, <2>5 DEF TypeOK
  <2>6. OpFollows(c)'
    BY <1>0, <2>1, <2>2, <2>3, <2>4 DEF OpFollows
  <2>7. ASSUME NEW d \in MethodCalls, d # c PROVE OpFollows(d)'
    BY <1>0, <2>2, <2>5, <2>7 DEF OpFollowsPending, OpFollows
  <2>8. QED  BY <2>6, <2>7 DEF OpFollowsPending
<1>7. ASSUME NEW t \in threads, NEW c \in MethodCalls, RunTimeout(t, c) \/ TimeoutHandle(t, c)
      PROVE  OpFollowsPending'
  <2>1. thread[t] \in {Idle, At("timeout", c)}
    BY <1>7 DEF RunTimeout, Runs, TimeoutHandle
  <2>2. thread' = [thread EXCEPT ![t] = At("timeout", c)] \/ thread' = [thread EXCEPT ![t] = Idle]
    BY <1>7 DEF RunTimeout, TimeoutHandle
  <2>3. \A u \in Threads, d \in Calls :
          thread'[u] = At("notify", d) <=> thread[u] = At("notify", d)
    BY <1>0, <2>1, <2>2 DEF TypeOK
  <2>4. QED  BY <1>2, <1>7, <2>3, Frames
<1>8. ASSUME NEW t \in threads, RunDispatch(t) PROVE OpFollowsPending'
  <2>1. UNCHANGED <<threads, thread, notify>>
    BY <1>8, Frames
  <2>2. CASE UNCHANGED <<pending, op>>
    BY <1>1, <2>1, <2>2
  <2>3. ASSUME NEW c \in MethodCalls, pending[c] = "waiting", ~notify[c],
               pending' = [pending EXCEPT ![c] = "completed"], UNCHANGED op
        PROVE  OpFollowsPending'
    <3>1. pending'[c] = "completed" /\ \A d \in MethodCalls : d # c => pending'[d] = pending[d]
      BY <1>0, <2>3 DEF TypeOK
    <3>2. QED  BY <1>0, <2>1, <2>3, <3>1 DEF OpFollowsPending, OpFollows
  <2>4. ASSUME NEW c \in MethodCalls, pending[c] = "waiting", notify[c],
               pending' = [pending EXCEPT ![c] = "freed"], op' = [op EXCEPT ![c] = "posted"]
        PROVE  OpFollowsPending'
    <3>1. /\ pending'[c] = "freed" /\ op'[c] = "posted"
          /\ \A d \in MethodCalls : d # c => pending'[d] = pending[d] /\ op'[d] = op[d]
      BY <1>0, <2>4 DEF TypeOK
    <3>2. \A u \in Threads : thread[u] # At("notify", c)
      BY <1>0, <2>4 DEF OpFollowsPending, OpFollows
    <3>3. QED  BY <1>0, <2>1, <2>4, <3>1, <3>2 DEF OpFollowsPending, OpFollows
  <2>5. QED  BY <1>0, <1>8, <2>2, <2>3, <2>4, DispatchCompletes
<1>9. ASSUME NEW t \in threads, NEW c \in MethodCalls, NEW k \in Kinds, RunOp(t, c, k)
      PROVE  OpFollowsPending'
  <2>1. op[c] = "posted"
    <3>1. io \in Seq(Tasks) /\ io # <<>> /\ Head(io) = Op(c, k)
      BY <1>0, <1>9 DEF RunOp, Runs, TypeOK
    <3>2. Op(c, k) \in Range(io)
      BY <3>1, TailFind
    <3>3. QED  BY <3>2 DEF SendInv, OpOnce, RunsOnce
  <2>2. op'[c] = "gone" /\ \A d \in MethodCalls : d # c => op'[d] = op[d]
    BY <1>0, <1>9 DEF RunOp, TypeOK
  <2>3. QED  BY <1>0, <1>9, <2>1, <2>2, Frames DEF OpFollowsPending, OpFollows
<1>10. ASSUME NEW t \in threads, NEW c \in Calls, GetCompleted(t, c) PROVE OpFollowsPending'
  <2>1. thread[t] = At("completed", c) /\ thread' = [thread EXCEPT ![t] = Idle]
    BY <1>10 DEF GetCompleted
  <2>2. \A u \in Threads, d \in Calls :
          thread'[u] = At("notify", d) <=> thread[u] = At("notify", d)
    BY <1>0, <2>1 DEF TypeOK
  <2>3. QED  BY <1>2, <1>10, <2>2, Frames
<1>11. QED
  BY <1>1, <1>3, <1>4, <1>5, <1>6, <1>7, <1>8, <1>9, <1>10, Steps, Frames

\* A program that is alone has not aborted, and is one thread.
LEMMA AloneIsOne ==
  ASSUME SendInv, Alone
  PROVE  /\ ~Aborted /\ \A t, u \in threads : t = u
         /\ \A t \in threads, u \in Threads : thread[t] = Idle => thread[u] = Idle
<1>1. threads # {}
  BY FS_EmptySet DEF Alone
<1>2. IsFiniteSet(threads)
  BY <1>1, SendAssumption DEF SendInv, TypeOK
<1>3. \A t, u \in threads : t = u
  BY <1>2, FS_Singleton DEF Alone
<1>4. \A u \in Threads : thread[u] # Idle => u \in threads
  BY <1>1 DEF SendInv, Senders, Aborted
<1>5. QED  BY <1>1, <1>3, <1>4 DEF Aborted

\* Whoever is alone after a step was alone before.
LEMMA AloneBefore ==
  ASSUME [Next]_vars, Alone'
  PROVE  Alone /\ UNCHANGED threads
<1>1. ASSUME NEW t, NEW c, Abort(t, c) PROVE FALSE
  BY <1>1, FS_EmptySet DEF Abort, Alone
<1>2. UNCHANGED threads
  BY <1>1, Steps, Frames
<1>3. QED  BY <1>2 DEF Alone

\* Alone, a thread that has sent a call sets the notify function before it dispatches.
LEMMA NextNotOvertaken == SendInv /\ [Next]_vars => NotOvertakenAlone'
<1> SUFFICES ASSUME SendInv, [Next]_vars, Alone', NEW d \in MethodCalls
             PROVE  pending'[d] # "completed"
  BY DEF NotOvertakenAlone
<1>0. TypeOK /\ OpFollowsPending /\ threads \subseteq Threads /\ MethodCalls \subseteq Calls
  BY InThreads DEF SendInv
<1>2. Alone
  BY AloneBefore
<1>3. pending[d] # "completed"
  BY <1>2 DEF SendInv, NotOvertakenAlone
<1>5. CASE UNCHANGED pending
  BY <1>3, <1>5
<1>6. ASSUME NEW t \in threads, NEW c \in Calls, SendWithReply(t, c) \/ SendDisconnected(t, c)
      PROVE  pending'[d] # "completed"
  BY <1>0, <1>3, <1>6 DEF SendWithReply, SendDisconnected, TypeOK
<1>7. ASSUME NEW t \in threads, RunDispatch(t) PROVE pending'[d] # "completed"
  <2>1. thread[t] = Idle
    BY <1>7 DEF RunDispatch, Runs
  <2>2. \A u \in Threads, c \in Calls : thread[u] # At("notify", c)
    BY <1>2, <2>1, AloneIsOne, ActivityKinds
  <2>3. \A c \in MethodCalls : pending[c] = "waiting" => notify[c]
    BY <1>0, <2>2 DEF OpFollowsPending, OpFollows
  <2>4. QED  BY <1>0, <1>3, <1>7, <2>3, DispatchCompletes DEF TypeOK
<1>8. QED  BY <1>5, <1>6, <1>7, Steps, Frames

\* Alone, a thread that has set the notify function looks at the pending call before it
\* dispatches.
LEMMA NextNotFreed == SendInv /\ [Next]_vars => NotFreedAlone'
<1> SUFFICES ASSUME SendInv, [Next]_vars, Alone', NEW u \in Threads, NEW d \in MethodCalls,
                    thread'[u] = At("completed", d)
             PROVE  pending'[d] # "freed"
  BY DEF NotFreedAlone
<1>0. TypeOK /\ OpFollowsPending /\ threads \subseteq Threads /\ MethodCalls \subseteq Calls
  BY InThreads DEF SendInv
<1>1. Alone
  BY AloneBefore
<1>2. thread[u] = At("completed", d) => pending[d] # "freed"
  BY <1>1 DEF SendInv, NotFreedAlone
<1> USE ActivityKinds
<1>3. CASE pending'[d] = pending[d] /\ thread'[u] = thread[u]
  BY <1>2, <1>3
<1>4. ASSUME NEW t \in threads, NEW c \in Calls,
             \/ Start(t, c) \/ SendOnly(t, c) \/ SendWithReply(t, c) \/ SendDisconnected(t, c)
             \/ GetCompleted(t, c)
      PROVE  pending'[d] # "freed"
  <2>1. thread'[u] = thread[u]
    BY <1>0, <1>4 DEF Start, SendOnly, SendWithReply, SendDisconnected, GetCompleted, TypeOK
  <2>2. pending'[d] \in {pending[d], "waiting", "null"}
    <3>1. \/ UNCHANGED pending
          \/ \E p \in {"waiting", "null"} : pending' = [pending EXCEPT ![c] = p]
      BY <1>4, Frames DEF SendWithReply, SendDisconnected
    <3>2. QED  BY <1>0, <3>1 DEF TypeOK
  <2>3. QED  BY <1>2, <2>1, <2>2
<1>5. ASSUME NEW t \in threads, NEW c \in Calls, SetNotify(t, c) PROVE pending'[d] # "freed"
  <2>1. UNCHANGED pending /\ (thread'[u] # thread[u] => thread[u] = At("notify", d))
    BY <1>0, <1>5, Frames DEF SetNotify, TypeOK
  <2>2. QED  BY <1>0, <1>2, <2>1 DEF OpFollowsPending, OpFollows
<1>6. ASSUME NEW t \in threads, NEW c \in MethodCalls, RunTimeout(t, c) \/ TimeoutHandle(t, c)
      PROVE  pending'[d] # "freed"
  <2>1. /\ UNCHANGED pending
        /\ thread' \in {[thread EXCEPT ![t] = At("timeout", c)], [thread EXCEPT ![t] = Idle]}
    BY <1>6, Frames DEF RunTimeout, TimeoutHandle
  <2>2. thread'[u] = thread[u]
    BY <1>0, <2>1 DEF TypeOK
  <2>3. QED  BY <1>2, <2>1, <2>2
<1>7. ASSUME NEW t \in threads, RunDispatch(t) PROVE pending'[d] # "freed"
  <2>1. thread[t] = Idle /\ thread'[u] = thread[u]
    BY <1>7, Frames DEF RunDispatch, Runs
  <2>2. QED  BY <1>1, <2>1, AloneIsOne
<1>8. QED  BY <1>3, <1>4, <1>5, <1>6, <1>7, Steps, Frames

\* A call that is sent stays sent.
LEMMA SentStays == SendInv /\ [Next]_vars => \A c \in MethodCalls : Sent(c) => Sent(c)'
<1> SUFFICES ASSUME SendInv, [Next]_vars, NEW c \in MethodCalls, Sent(c) PROVE Sent(c)'
  OBVIOUS
<1>0. TypeOK /\ NotSentYet /\ threads \subseteq Threads
  BY InThreads DEF SendInv
<1>1. CASE UNCHANGED pending
  BY <1>1 DEF Sent
<1>2. ASSUME NEW t \in threads, NEW d \in Calls, SendWithReply(t, d) \/ SendDisconnected(t, d)
      PROVE  Sent(c)'
  <2>1. d # c
    BY <1>0, <1>2 DEF SendWithReply, SendDisconnected, NotSentYet, Sent
  <2>2. QED  BY <1>0, <1>2, <2>1 DEF SendWithReply, SendDisconnected, Sent, TypeOK
<1>3. ASSUME NEW t \in threads, RunDispatch(t) PROVE Sent(c)'
  <2>1. \/ UNCHANGED pending
        \/ \E d \in MethodCalls, p \in {"completed", "freed"} : pending' = [pending EXCEPT ![d] = p]
    BY <1>0, <1>3, DispatchCompletes
  <2>2. pending'[c] = pending[c] \/ pending'[c] \in {"completed", "freed"}
    BY <1>0, <2>1 DEF TypeOK
  <2>3. QED  BY <2>2 DEF Sent
<1>4. QED  BY <1>1, <1>2, <1>3, Steps, Frames

\* No step leaves a trace of a call that is not sent.
LEMMA NextNoTrace == SendInv /\ [Next]_vars => NoTrace'
<1> SUFFICES ASSUME SendInv, [Next]_vars, NEW d \in MethodCalls, ~Sent(d)'
             PROVE  NoTraceOf(d)'
  BY DEF NoTrace
<1>0. /\ TypeOK /\ OneReply /\ ~Sent(d) /\ NoTraceOf(d)
      /\ threads \subseteq Threads /\ MethodCalls \subseteq Calls
  BY InThreads, SentStays DEF SendInv, NoTrace
<1> USE ActivityKinds
<1>1. CASE UNCHANGED <<thread, io, wire, unsent, owed, timer, first>>
  BY <1>0, <1>1 DEF NoTraceOf
<1>2. ASSUME NEW t \in threads, Flush(t) PROVE NoTraceOf(d)'
  <2>1. Range(unsent') = {} /\ owed' \subseteq owed \cup Range(unsent)
    BY <1>2, EmptyFind DEF Flush
  <2>2. QED  BY <1>0, <1>2, <2>1, Frames DEF NoTraceOf
<1>3. ASSUME NEW t \in threads, NEW c \in Calls, Start(t, c) PROVE NoTraceOf(d)'
  <2>1. Timeout(d) \notin Range(io')
    BY <1>0, <1>3, StartQueues, TaskKinds DEF Gains, GainsOn, NoTraceOf
  <2>2. \A u \in Threads : thread'[u] # At("timeout", d)
    BY <1>0, <1>3 DEF Start, TypeOK, NoTraceOf
  <2>3. QED  BY <1>0, <1>3, <2>1, <2>2, Frames DEF NoTraceOf
<1>4. ASSUME NEW t \in threads, NEW c \in Calls, SendOnly(t, c) PROVE NoTraceOf(d)'
  <2>1. c # d
    BY <1>4, SendAssumption DEF SendOnly
  <2>2. /\ Range(unsent') \subseteq Range(unsent) \cup {c}
        /\ owed' \subseteq owed \cup Range(unsent) \cup {c}
    BY <1>4, SendWrites DEF SendOnly
  <2>3. \A u \in Threads : thread'[u] # At("timeout", d)
    BY <1>0, <1>4 DEF SendOnly, TypeOK, NoTraceOf
  <2>4. QED  BY <1>0, <1>4, <2>1, <2>2, <2>3, Frames DEF NoTraceOf
<1>5. ASSUME NEW t \in threads, NEW c \in Calls, SendWithReply(t, c) PROVE NoTraceOf(d)'
  <2>1. c \in MethodCalls /\ c # d
    BY <1>0, <1>5 DEF SendWithReply, Sent, TypeOK
  <2>2. /\ Range(unsent') \subseteq Range(unsent) \cup {c}
        /\ owed' \subseteq owed \cup Range(unsent) \cup {c}
    BY <1>5, SendWrites DEF SendWithReply
  <2>3. \A u \in Threads : thread'[u] # At("timeout", d)
    BY <1>0, <1>5 DEF SendWithReply, TypeOK, NoTraceOf
  <2>4. timer'[d] = timer[d]
    BY <1>0, <1>5, <2>1 DEF SendWithReply, AddTimeout, TypeOK
  <2>5. QED  BY <1>0, <1>5, <2>1, <2>2, <2>3, <2>4, Frames DEF NoTraceOf
<1>6. ASSUME NEW t \in threads, NEW c \in Calls,
             SendDisconnected(t, c) \/ SetNotify(t, c) \/ GetCompleted(t, c)
      PROVE  NoTraceOf(d)'
  <2>1. \A u \in Threads : thread'[u] # At("timeout", d)
    BY <1>0, <1>6 DEF SendDisconnected, SetNotify, GetCompleted, TypeOK, NoTraceOf
  <2>2. QED  BY <1>0, <1>6, <2>1, Frames DEF NoTraceOf
<1>7. ASSUME NEW t \in threads, Poll(t) PROVE NoTraceOf(d)'
  <2>1. timer[d] = "none" /\ Timeout(d) \notin Range(io)
    BY <1>0 DEF NoTraceOf
  <2>2. Timeout(d) \notin Readable \cup Expired \cup {Task}
    BY <2>1, TaskKinds DEF Expired, Readable
  <2>3. Timeout(d) \notin Range(io')
    BY <1>0, <1>7, <2>1, <2>2, PollQueues DEF SendInv, Gains, GainsOn
  <2>4. timer'[d] = "none"
    BY <1>0, <1>7, <2>1 DEF Poll, TypeOK
  <2>5. QED  BY <1>0, <1>7, <2>3, <2>4, Frames DEF NoTraceOf
<1>8. ASSUME NEW t \in threads, RunWatch(t) PROVE NoTraceOf(d)'
  <2>1. Timeout(d) \notin Range(io')
    BY <1>0, <1>8, WatchQueues, TaskKinds DEF Gains, GainsOn, NoTraceOf
  <2>2. PICK got \in Seq(Message), rest \in Seq(Message) :
          /\ wire' = rest /\ CallsIn(wire) = CallsIn(got) \cup CallsIn(rest)
          /\ timer' = RemoveTimeouts({c \in CallsIn(got) : pending[c] = "waiting" /\ TimeoutAdded(c)})
          /\ \A c \in MethodCalls :
               c \notin CallsIn(got) \/ first[c] # "none" => first'[c] = first[c]
    BY <1>0, <1>8, WatchReads
  <2>3. d \notin CallsIn(got) /\ d \notin CallsIn(wire')
    BY <1>0, <2>2 DEF NoTraceOf
  <2>4. first'[d] = first[d] /\ timer'[d] = timer[d]
    BY <2>2, <2>3 DEF RemoveTimeouts
  <2>5. QED  BY <1>0, <1>8, <2>1, <2>3, <2>4, Frames DEF NoTraceOf
<1>9. ASSUME NEW t \in threads, RunDispatch(t) PROVE NoTraceOf(d)'
  <2>1. Timeout(d) \notin Range(io')
    BY <1>0, <1>9, DispatchQueues, TaskKinds DEF Gains, GainsOn, NoTraceOf
  <2>2. QED  BY <1>0, <1>9, <2>1, Frames DEF NoTraceOf
<1>10. ASSUME NEW t \in threads, NEW c \in MethodCalls, RunTimeout(t, c) PROVE NoTraceOf(d)'
  <2>1. io # <<>> /\ io' = Tail(io) /\ Head(io) = Timeout(c)
    BY <1>10 DEF RunTimeout, Runs
  <2>2. Range(io') \subseteq Range(io) /\ Timeout(c) \in Range(io)
    BY <1>0, <2>1, Taken DEF Gains, GainsOn
  <2>3. c # d /\ Timeout(d) \notin Range(io')
    BY <1>0, <2>2 DEF NoTraceOf
  <2>4. \A u \in Threads : thread'[u] # At("timeout", d)
    BY <1>0, <1>10, <2>3 DEF RunTimeout, TypeOK, NoTraceOf
  <2>5. QED  BY <1>0, <1>10, <2>3, <2>4, Frames DEF NoTraceOf
<1>11. ASSUME NEW t \in threads, NEW c \in MethodCalls, TimeoutHandle(t, c) PROVE NoTraceOf(d)'
  <2>1. c # d
    BY <1>0, <1>11 DEF TimeoutHandle, NoTraceOf
  <2>2. Timeout(d) \notin Range(io')
    BY <1>0, <1>11, TimeoutHandleQueues, TaskKinds DEF Gains, GainsOn, NoTraceOf
  <2>3. \A u \in Threads : thread'[u] # At("timeout", d)
    BY <1>0, <1>11 DEF TimeoutHandle, TypeOK, NoTraceOf
  <2>4. timer'[d] = timer[d] /\ first'[d] = first[d]
    BY <1>0, <1>11, <2>1 DEF TimeoutHandle, RemoveTimeouts, TypeOK
  <2>5. QED  BY <1>0, <1>11, <2>2, <2>3, <2>4, Frames DEF NoTraceOf
<1>12. ASSUME NEW t \in threads, NEW c \in MethodCalls, NEW k \in Kinds, RunOp(t, c, k)
       PROVE  NoTraceOf(d)'
  <2>1. Range(io') \subseteq Range(io)
    BY <1>0, <1>12, Taken DEF RunOp, Runs, Gains, GainsOn
  <2>2. QED  BY <1>0, <1>12, <2>1, Frames DEF NoTraceOf
<1>13. ASSUME NEW c \in MethodCalls, TimerDue(c) PROVE NoTraceOf(d)'
  <2>1. timer'[d] = timer[d]
    BY <1>0, <1>13 DEF TimerDue, NoTraceOf, TypeOK
  <2>2. QED  BY <1>0, <1>13, <2>1, Frames DEF NoTraceOf
<1>14. ASSUME NEW c \in MethodCalls, NEW k \in Answers, PeerReplies(c, k) PROVE NoTraceOf(d)'
  <2>1. c # d /\ owed' \subseteq owed
    BY <1>0, <1>14 DEF PeerReplies, NoTraceOf
  <2>2. CallsIn(wire') = CallsIn(wire) \cup {c}
    <3> DEFINE m == [call |-> c, kind |-> k]
    <3>1. m \in Message /\ m.call = c /\ wire' = Append(wire, m)
      BY <1>14 DEF PeerReplies, Message, Kinds
    <3> HIDE DEF m
    <3>2. QED  BY <1>0, <3>1, CallsInAppend DEF TypeOK
  <2>3. QED  BY <1>0, <1>14, <2>1, <2>2, Frames DEF NoTraceOf
<1>15. QED
  BY <1>1, <1>2, <1>3, <1>4, <1>5, <1>6, <1>7, <1>8, <1>9, <1>10, <1>11, <1>12, <1>13,
     <1>14, Steps, Frames

\* A call stays in one place on its way to the peer and back.
LEMMA NextOneReply == SendInv /\ [Next]_vars => OneReply'
<1> SUFFICES ASSUME SendInv, [Next]_vars PROVE OneReply'
  OBVIOUS
<1>0. /\ TypeOK /\ OneReply /\ NoTrace /\ NotSentYet
      /\ threads \subseteq Threads /\ MethodCalls \subseteq Calls
  BY InThreads DEF SendInv
<1>1. CASE UNCHANGED <<unsent, wire, owed>>
  BY <1>0, <1>1 DEF OneReply
<1>2. ASSUME NEW t \in threads, Flush(t) PROVE OneReply'
  <2>1. /\ Range(unsent') = {} /\ owed' \subseteq owed \cup Range(unsent)
        /\ \A c \in Calls : Once(unsent', c)
    BY <1>2, EmptyFind DEF Flush
  <2>2. QED  BY <1>0, <1>2, <2>1, Frames DEF OneReply
<1>3. ASSUME NEW t \in threads, NEW c \in Calls, SendOnly(t, c) \/ SendWithReply(t, c)
      PROVE  OneReply'
  <2>1. thread[t] = At("send", c) /\ Write(Append(unsent, c)) /\ UNCHANGED wire
    BY <1>3 DEF SendOnly, SendWithReply
  <2>2. /\ Range(unsent') \subseteq Range(unsent) \cup {c}
        /\ \A d \in Calls : Once(unsent', d)
        /\ owed' \subseteq owed \cup Range(unsent) \cup {c}
    BY <2>1, SendWrites
  <2>3. c \notin CallsIn(wire)
    <3>1. CallsIn(wire) \subseteq MethodCalls
      <4>1. \A i \in DOMAIN wire : wire[i] \in Message
        BY <1>0, LenProperties, ElementOfSeq DEF TypeOK
      <4>2. QED  BY <4>1 DEF CallsIn, Message
    <3>2. CASE c \in MethodCalls
      BY <1>0, <2>1, <3>2 DEF NotSentYet, NoTrace, NoTraceOf, Sent
    <3>3. QED  BY <3>1, <3>2
  <2>4. QED  BY <1>0, <2>1, <2>2, <2>3 DEF OneReply
<1>4. ASSUME NEW t \in threads, RunWatch(t) PROVE OneReply'
  <2>1. PICK got \in Seq(Message), rest \in Seq(Message) :
          /\ wire' = rest /\ CallsIn(wire) = CallsIn(got) \cup CallsIn(rest)
          /\ \A i, j \in DOMAIN rest : rest[i].call = rest[j].call => i = j
          /\ \A i \in DOMAIN rest : rest[i].kind \in Answers
    BY <1>0, <1>4, WatchReads
  <2>2. QED  BY <1>0, <1>4, <2>1, Frames DEF OneReply
<1>5. ASSUME NEW c \in MethodCalls, NEW k \in Answers, PeerReplies(c, k) PROVE OneReply'
  <2> DEFINE m == [call |-> c, kind |-> k]
  <2>1. m \in Message /\ m.call = c /\ m.kind \in Answers /\ wire' = Append(wire, m)
    BY <1>5 DEF PeerReplies, Message, Kinds
  <2>2. c \in owed /\ owed' = owed \ {c}
    BY <1>5 DEF PeerReplies
  <2> HIDE DEF m
  <2>3. CallsIn(wire') = CallsIn(wire) \cup {c} /\ c \notin CallsIn(wire)
    BY <1>0, <2>1, <2>2, CallsInAppend DEF TypeOK, OneReply
  <2>4. CallsIn(wire') \cap (owed' \cup Range(unsent)) = {}
    BY <1>0, <2>2, <2>3 DEF OneReply, TypeOK
  <2>5. /\ DOMAIN wire = 1..Len(wire) /\ Len(wire) \in Nat
        /\ DOMAIN wire' = 1..(Len(wire) + 1)
        /\ wire'[Len(wire) + 1] = m /\ \A i \in DOMAIN wire : wire'[i] = wire[i]
    BY <1>0, <2>1, AppendProperties, LenProperties DEF TypeOK
  <2>6. \A i \in DOMAIN wire : wire[i].call # c
    BY <2>3 DEF CallsIn
  <2>7. \A i, j \in DOMAIN wire' : wire'[i].call = wire'[j].call => i = j
    BY <1>0, <2>1, <2>5, <2>6 DEF OneReply
  <2>8. \A i \in DOMAIN wire' : wire'[i].kind \in Answers
    BY <1>0, <2>1, <2>5 DEF OneReply
  <2>9. QED  BY <1>0, <1>5, <2>4, <2>7, <2>8, Frames DEF OneReply
<1>6. QED  BY <1>1, <1>2, <1>3, <1>4, <1>5, Steps, Frames

\* Answers arrive in the incoming queue: the first one of a call stays the first.
LEMMA Arrives ==
  ASSUME TypeOK, FirstIsFirst, NEW got \in Seq(Message), incoming' = incoming \o got,
         UNCHANGED pending,
         \A i, j \in DOMAIN got : got[i].call = got[j].call => i = j,
         \A i \in DOMAIN got : first[got[i].call] = "none" => got[i].kind = first'[got[i].call],
         \A c \in MethodCalls :
           c \notin CallsIn(got) \/ first[c] # "none" => first'[c] = first[c]
  PROVE  FirstIsFirst'
<1> SUFFICES ASSUME NEW c \in MethodCalls PROVE FirstOf(c)'
  BY DEF FirstIsFirst
<1> DEFINE n == Len(incoming)
<1>1. /\ n \in Nat /\ DOMAIN incoming = 1..n
      /\ Len(got) \in Nat /\ DOMAIN got = 1..Len(got)
      /\ DOMAIN incoming' = 1..(n + Len(got))
      /\ \A i \in DOMAIN incoming : incoming'[i] = incoming[i]
      /\ \A i \in DOMAIN got : incoming'[n + i] = got[i]
  <2>1. incoming \in Seq(Message)
    BY DEF TypeOK
  <2>2. /\ incoming' \in Seq(Message) /\ Len(incoming') = n + Len(got)
        /\ \A i \in 1..(n + Len(got)) : incoming'[i] = IF i <= n THEN incoming[i] ELSE got[i - n]
    BY <2>1, ConcatProperties
  <2>3. /\ n \in Nat /\ DOMAIN incoming = 1..n
        /\ Len(got) \in Nat /\ DOMAIN got = 1..Len(got)
        /\ DOMAIN incoming' = 1..(n + Len(got))
    BY <2>1, <2>2, LenProperties
  <2> HIDE DEF n
  <2>4. \A i \in DOMAIN incoming : incoming'[i] = incoming[i]
    BY <2>2, <2>3
  <2>5. ASSUME NEW i \in DOMAIN got PROVE incoming'[n + i] = got[i]
    <3>1. n + i \in 1..(n + Len(got)) /\ ~(n + i <= n) /\ (n + i) - n = i
      BY <2>3
    <3>2. QED  BY <2>2, <3>1
  <2>6. QED  BY <2>3, <2>4, <2>5
<1>2. CallsIn(incoming') = CallsIn(incoming) \cup CallsIn(got)
  BY CallsInConcat DEF TypeOK
<1>3. FirstOf(c)
  BY DEF FirstIsFirst
<1> HIDE DEF n
<1>4. CASE first[c] = "none" /\ c \notin CallsIn(got)
  BY <1>2, <1>3, <1>4 DEF FirstOf
<1>5. CASE first[c] = "none" /\ c \in CallsIn(got)
  <2>1. PICK i \in DOMAIN got : got[i].call = c
    BY <1>5 DEF CallsIn
  <2>2. got[i] \in Message /\ got[i].kind = first'[c]
    BY <1>1, <1>5, <2>1, ElementOfSeq
  <2>3. got[i] = [call |-> c, kind |-> first'[c]] /\ first'[c] \in Kinds
    BY <2>1, <2>2 DEF Message
  <2>4. n + i \in DOMAIN incoming' /\ incoming'[n + i] = [call |-> c, kind |-> first'[c]]
    BY <1>1, <2>3
  <2>5. ASSUME NEW j \in 1..((n + i) - 1) PROVE incoming'[j].call # c
    <3>1. CASE j \in DOMAIN incoming
      BY <1>1, <1>3, <1>5, <3>1 DEF FirstOf, CallsIn
    <3>2. CASE j \notin DOMAIN incoming
      <4>1. j - n \in DOMAIN got /\ n + (j - n) = j /\ j - n # i
        BY <1>1, <3>2
      <4>2. incoming'[j] = got[j - n]
        BY <1>1, <4>1
      <4>3. QED  BY <2>1, <4>1, <4>2
    <3>3. QED  BY <3>1, <3>2
  <2>6. first'[c] # "none"
    BY <2>3 DEF Kinds, Answers
  <2>7. QED  BY <2>4, <2>5, <2>6 DEF FirstOf
<1>6. CASE first[c] # "none"
  <2>1. first'[c] = first[c] /\ pending'[c] = pending[c]
    BY <1>6
  <2>2. CASE pending[c] = "waiting"
    <3>1. PICK i \in DOMAIN incoming :
            /\ incoming[i] = [call |-> c, kind |-> first[c]]
            /\ \A j \in 1..(i - 1) : incoming[j].call # c
      BY <1>3, <1>6, <2>2 DEF FirstOf
    <3>2. i \in DOMAIN incoming' /\ incoming'[i] = incoming[i]
      BY <1>1
    <3>3. \A j \in 1..(i - 1) : incoming'[j] = incoming[j]
      BY <1>1
    <3>4. QED  BY <1>6, <2>1, <3>1, <3>2, <3>3 DEF FirstOf
  <2>3. QED  BY <1>6, <2>1, <2>2 DEF FirstOf
<1>7. QED  BY <1>4, <1>5, <1>6

\* first stays the first message in the incoming queue.
LEMMA NextFirstIsFirst == SendInv /\ [Next]_vars => FirstIsFirst'
<1> SUFFICES ASSUME SendInv, [Next]_vars PROVE FirstIsFirst'
  OBVIOUS
<1>0. /\ TypeOK /\ OneReply /\ FirstIsFirst /\ NotSentYet /\ NoTrace
      /\ threads \subseteq Threads /\ MethodCalls \subseteq Calls
  BY InThreads DEF SendInv
<1>1. CASE UNCHANGED <<incoming, first, pending>>
  BY <1>0, <1>1 DEF FirstIsFirst, FirstOf
<1>2. ASSUME NEW t \in threads, NEW c \in Calls, SendWithReply(t, c) \/ SendDisconnected(t, c)
      PROVE  FirstIsFirst'
  <2>1. c \in MethodCalls /\ pending[c] = "none" /\ UNCHANGED <<incoming, first>>
    BY <1>0, <1>2, Frames DEF NotSentYet, SendWithReply, SendDisconnected
  <2>2. first[c] = "none"
    BY <1>0, <2>1 DEF NoTrace, NoTraceOf, Sent
  <2>3. /\ pending'[c] \in {"waiting", "null"}
        /\ \A d \in MethodCalls : d # c => pending'[d] = pending[d]
    BY <1>0, <1>2, <2>1 DEF SendWithReply, SendDisconnected, TypeOK
  <2>4. FirstOf(c)'
    BY <1>0, <2>1, <2>2, <2>3 DEF FirstIsFirst, FirstOf
  <2>5. ASSUME NEW d \in MethodCalls, d # c PROVE FirstOf(d)'
    BY <1>0, <2>1, <2>3, <2>5 DEF FirstIsFirst, FirstOf
  <2>6. QED  BY <2>4, <2>5 DEF FirstIsFirst
<1>3. ASSUME NEW t \in threads, RunWatch(t) PROVE FirstIsFirst'
  <2>1. PICK got \in Seq(Message), rest \in Seq(Message) :
           /\ incoming' = incoming \o got
           /\ \A i, j \in DOMAIN got : got[i].call = got[j].call => i = j
           /\ \A i \in DOMAIN got :
                first[got[i].call] = "none" => got[i].kind = first'[got[i].call]
           /\ \A c \in MethodCalls :
                c \notin CallsIn(got) \/ first[c] # "none" => first'[c] = first[c]
    BY <1>0, <1>3, WatchReads
  <2>2. UNCHANGED pending
    BY <1>3, Frames
  <2>3. QED  BY <1>0, <2>1, <2>2, Arrives
<1>4. ASSUME NEW t \in threads, NEW c \in MethodCalls, TimeoutHandle(t, c) PROVE FirstIsFirst'
  <2> DEFINE m == [call |-> c, kind |-> "noreply"]
             got == <<m>>
  <2>1. CASE UNCHANGED <<incoming, first>>
    BY <1>1, <1>4, <2>1, Frames
  <2>2. CASE /\ incoming' = Append(incoming, m)
             /\ first' = [first EXCEPT ![c] = IF @ = "none" THEN "noreply" ELSE @]
    <3>1. m \in Message /\ m.call = c /\ m.kind = "noreply"
      BY DEF Message, Kinds
    <3>2. incoming' = Append(incoming, m)
      BY <2>2
    <3>3. \A d \in MethodCalls : d # c \/ first[d] # "none" => first'[d] = first[d]
      BY <1>0, <2>2 DEF TypeOK
    <3>4. first[c] = "none" => first'[c] = "noreply"
      BY <1>0, <2>2 DEF TypeOK
    <3> HIDE DEF m
    <3>5. got \in Seq(Message) /\ DOMAIN got = {1} /\ got[1] = m
      BY <3>1
    <3>6. incoming' = incoming \o got
      BY <1>0, <3>1, <3>2, AppendIsConcat DEF TypeOK
    <3> HIDE DEF got
    <3>7. CallsIn(got) = {c}
      BY <3>1, <3>5 DEF CallsIn
    <3>8. UNCHANGED pending
      BY <1>4, Frames
    <3>9. \A i, j \in DOMAIN got : got[i].call = got[j].call => i = j
      BY <3>5
    <3>10. \A i \in DOMAIN got : first[got[i].call] = "none" => got[i].kind = first'[got[i].call]
      BY <3>1, <3>4, <3>5
    <3>11. \A d \in MethodCalls :
             d \notin CallsIn(got) \/ first[d] # "none" => first'[d] = first[d]
      BY <3>3, <3>7
    <3>12. QED  BY <1>0, <3>5, <3>6, <3>8, <3>9, <3>10, <3>11, Arrives
  <2>3. QED  BY <1>4, <2>1, <2>2 DEF TimeoutHandle
<1>5. ASSUME NEW t \in threads, RunDispatch(t) PROVE FirstIsFirst'
  <2>1. UNCHANGED first
    BY <1>5, Frames
  <2>2. CASE UNCHANGED <<incoming, pending>>
    BY <1>1, <2>1, <2>2
  <2>3. CASE incoming # <<>> /\ incoming' = Tail(incoming)
    <3>1. PICK c \in MethodCalls, k \in Kinds :
            /\ Head(incoming) = [call |-> c, kind |-> k]
            /\ \/ UNCHANGED pending /\ pending[c] # "waiting"
               \/ \E p \in {"completed", "freed"} : pending' = [pending EXCEPT ![c] = p]
      BY <1>0, <1>5, <2>3, DispatchCompletes
    <3>2. /\ pending'[c] # "waiting"
          /\ \A d \in MethodCalls : d # c => pending'[d] = pending[d]
      BY <1>0, <3>1 DEF TypeOK
    <3>3. /\ DOMAIN incoming = 1..Len(incoming) /\ Len(incoming) \in Nat /\ Len(incoming) # 0
          /\ DOMAIN incoming' = 1..(Len(incoming) - 1)
          /\ \A i \in 1..(Len(incoming) - 1) : incoming'[i] = incoming[i + 1]
          /\ incoming[1] = Head(incoming)
      <4>1. incoming \in Seq(Message) /\ incoming # <<>>
        BY <1>0, <2>3 DEF TypeOK
      <4>2. /\ Tail(incoming) \in Seq(Message) /\ Len(Tail(incoming)) = Len(incoming) - 1
            /\ \A i \in 1..Len(Tail(incoming)) : Tail(incoming)[i] = incoming[i + 1]
        BY <4>1, HeadTailProperties
      <4>3. incoming[1] = Head(incoming)
        BY <4>1
      <4>4. QED  BY <2>3, <4>1, <4>2, <4>3, LenProperties, EmptySeq
    <3>4. c \in CallsIn(incoming)
      <4>1. 1 \in DOMAIN incoming /\ incoming[1].call = c
        BY <3>1, <3>3
      <4>2. QED  BY <4>1 DEF CallsIn
    <3>5. CallsIn(incoming') \subseteq CallsIn(incoming)
      <4>1. \A i \in DOMAIN incoming' : i + 1 \in DOMAIN incoming /\ incoming'[i] = incoming[i + 1]
        BY <3>3
      <4>2. QED  BY <4>1 DEF CallsIn
    <3>6. FirstOf(c)'
      BY <1>0, <2>1, <3>2, <3>4 DEF FirstIsFirst, FirstOf
    <3>7. ASSUME NEW d \in MethodCalls, d # c, first[d] # "none", pending[d] = "waiting"
          PROVE  \E i \in DOMAIN incoming' :
                   /\ incoming'[i] = [call |-> d, kind |-> first[d]]
                   /\ \A j \in 1..(i - 1) : incoming'[j].call # d
      <4>1. PICK i \in DOMAIN incoming :
              /\ incoming[i] = [call |-> d, kind |-> first[d]]
              /\ \A j \in 1..(i - 1) : incoming[j].call # d
        BY <1>0, <3>7 DEF FirstIsFirst, FirstOf
      <4>2. i # 1
        BY <3>1, <3>3, <3>7, <4>1
      <4>3. i - 1 \in DOMAIN incoming' /\ incoming'[i - 1] = incoming[i]
        BY <3>3, <4>2
      <4>4. ASSUME NEW j \in 1..((i - 1) - 1) PROVE incoming'[j].call # d
        <5>1. j + 1 \in 1..(i - 1) /\ j \in 1..(Len(incoming) - 1)
          BY <3>3
        <5>2. QED  BY <3>3, <4>1, <5>1
      <4>5. QED  BY <4>1, <4>3, <4>4
    <3>8. ASSUME NEW d \in MethodCalls, d # c PROVE FirstOf(d)'
      BY <1>0, <2>1, <3>2, <3>5, <3>7, <3>8 DEF FirstIsFirst, FirstOf
    <3>9. QED  BY <3>6, <3>8 DEF FirstIsFirst
  <2>4. QED  BY <1>0, <1>5, <2>2, <2>3, DispatchCompletes
<1>6. QED  BY <1>1, <1>2, <1>3, <1>4, <1>5, Steps, Frames

\* The head of the incoming queue is the first answer of a call that still waits.
LEMMA HeadIsFirst ==
  ASSUME SendInv, incoming # <<>>, NEW c \in MethodCalls, NEW k \in Kinds,
         Head(incoming) = [call |-> c, kind |-> k], pending[c] = "waiting"
  PROVE  first[c] = k
<1>1. incoming \in Seq(Message) /\ FirstOf(c)
  BY DEF SendInv, TypeOK, FirstIsFirst
<1>2. 1 \in DOMAIN incoming /\ incoming[1] = [call |-> c, kind |-> k]
  BY <1>1
<1>3. first[c] # "none"
  BY <1>1, <1>2 DEF FirstOf, CallsIn
<1>4. PICK i \in DOMAIN incoming :
        /\ incoming[i] = [call |-> c, kind |-> first[c]]
        /\ \A j \in 1..(i - 1) : incoming[j].call # c
  BY <1>1, <1>3 DEF FirstOf
<1>5. i \in Nat \ {0}
  BY <1>1, LenProperties
<1>6. i = 1
  BY <1>2, <1>4, <1>5
<1>7. QED  BY <1>2, <1>4, <1>6

\* The op of a call is posted once, with the first answer, and runs once.
LEMMA NextOpOnce == SendInv /\ [Next]_vars => OpOnce'
<1> SUFFICES ASSUME SendInv, [Next]_vars, NEW d \in MethodCalls PROVE RunsOnce(d)'
  BY DEF OpOnce
<1>0. /\ TypeOK /\ OneReply /\ RunsOnce(d) /\ OpFollows(d) /\ FirstOf(d)
      /\ threads \subseteq Threads /\ MethodCalls \subseteq Calls
  BY InThreads DEF SendInv, OpOnce, OpFollowsPending, FirstIsFirst
<1>1. CASE UNCHANGED <<io, op, handled, first>>
  BY <1>0, <1>1 DEF RunsOnce
<1>2. op[d] \in {"posted", "gone"} => first[d] # "none"
  BY <1>0 DEF OpFollows, FirstOf
<1>3. ASSUME NEW X, Gains(X), \A k \in Kinds : Op(d, k) \notin X, UNCHANGED <<op, handled>>,
             first[d] # "none" => first'[d] = first[d]
      PROVE  RunsOnce(d)'
  <2>1. ASSUME NEW k \in Kinds, Op(d, k) \in Range(io')
        PROVE  op[d] = "posted" /\ k = first[d] /\ Once(io', Op(d, k))
    <3>1. Op(d, k) \in Range(io) /\ Op(d, k) \notin X
      BY <1>3, <2>1 DEF Gains, GainsOn
    <3>2. op[d] = "posted" /\ k = first[d] /\ Once(io, Op(d, k))
      BY <1>0, <3>1 DEF RunsOnce
    <3>3. QED  BY <1>3, <3>1, <3>2 DEF Gains, GainsOn
  <2>2. QED  BY <1>0, <1>2, <1>3, <2>1 DEF RunsOnce
<1>4. ASSUME NEW t \in threads, NEW c \in Calls, Start(t, c) PROVE RunsOnce(d)'
  BY <1>0, <1>3, <1>4, StartQueues, TaskKinds, Frames
<1>5. ASSUME NEW t \in threads, NEW c \in Calls, SetNotify(t, c) PROVE RunsOnce(d)'
  <2>1. c \in MethodCalls /\ op[c] = "none"
    BY <1>0, <1>5 DEF SetNotify, SendInv, Senders, OpFollowsPending, OpFollows
  <2>2. op'[c] = "heap" /\ (d # c => op'[d] = op[d])
    BY <1>0, <1>5, <2>1 DEF SetNotify, TypeOK
  <2>3. QED  BY <1>0, <1>5, <2>1, <2>2, Frames DEF RunsOnce
<1>6. ASSUME NEW t \in threads, Poll(t) PROVE RunsOnce(d)'
  <2> DEFINE X == Readable \cup Expired \cup {Task}
  <2>1. Gains(X)
    BY <1>0, <1>6, PollQueues DEF SendInv
  <2>2. \A k \in Kinds : Op(d, k) \notin X
    BY TaskKinds DEF Readable, Expired
  <2> HIDE DEF X
  <2>3. QED  BY <1>3, <1>6, <2>1, <2>2, Frames
<1>7. ASSUME NEW t \in threads, RunWatch(t) PROVE RunsOnce(d)'
  <2>1. first[d] # "none" => first'[d] = first[d]
    BY <1>0, <1>7, WatchReads
  <2>2. QED  BY <1>0, <1>3, <1>7, <2>1, WatchQueues, TaskKinds, Frames
<1>8. ASSUME NEW t \in threads, NEW c \in MethodCalls, RunTimeout(t, c) PROVE RunsOnce(d)'
  <2>1. Gains({})
    BY <1>0, <1>8, Taken DEF RunTimeout, Runs
  <2>2. QED  BY <1>3, <1>8, <2>1, Frames
<1>9. ASSUME NEW t \in threads, NEW c \in MethodCalls, TimeoutHandle(t, c) PROVE RunsOnce(d)'
  <2>1. first[d] # "none" => first'[d] = first[d]
    BY <1>0, <1>9 DEF TimeoutHandle, TypeOK
  <2>2. QED  BY <1>0, <1>3, <1>9, <2>1, TimeoutHandleQueues, TaskKinds, Frames
<1>10. ASSUME NEW t \in threads, RunDispatch(t) PROVE RunsOnce(d)'
  <2> DEFINE m == Head(incoming)
             X == {Dispatch} \cup IF CallsBack(m) THEN {Op(m.call, m.kind)} ELSE {}
  <2>1. Gains(X)
    BY <1>0, <1>10, DispatchQueues
  <2>2. UNCHANGED <<handled, first, notify>>
    BY <1>10, Frames
  <2>3. CASE ~CallsBack(m)
    <3>1. UNCHANGED op
      BY <1>0, <1>10, <2>3, DispatchCompletes DEF CallsBack
    <3>2. \A k \in Kinds : Op(d, k) \notin X
      BY <2>3, TaskKinds
    <3> HIDE DEF X
    <3>3. QED  BY <1>3, <2>1, <2>2, <3>1, <3>2
  <2>4. CASE CallsBack(m)
    <3>1. PICK c \in MethodCalls, k \in Kinds :
            /\ m = [call |-> c, kind |-> k] /\ incoming # <<>>
            /\ pending[c] = "waiting" /\ notify[c] /\ op' = [op EXCEPT ![c] = "posted"]
      BY <1>0, <1>10, <2>4, DispatchCompletes DEF CallsBack
    <3>2. X = {Dispatch, Op(c, k)}
      BY <2>4, <3>1
    <3>3. k = first[c]
      BY <3>1, HeadIsFirst
    <3> HIDE DEF X
    <3>4. CASE d # c
      <4>1. \A l \in Kinds : Op(d, l) \notin X
        BY <3>2, <3>4, TaskKinds
      <4>2. op'[d] = op[d]
        BY <1>0, <3>1, <3>4 DEF TypeOK
      <4>3. ASSUME NEW l \in Kinds, Op(d, l) \in Range(io')
            PROVE  op[d] = "posted" /\ l = first[d] /\ Once(io', Op(d, l))
        <5>1. Op(d, l) \in Range(io) /\ Op(d, l) \notin X
          BY <2>1, <4>1, <4>3 DEF Gains, GainsOn
        <5>2. op[d] = "posted" /\ l = first[d] /\ Once(io, Op(d, l))
          BY <1>0, <5>1 DEF RunsOnce
        <5>3. QED  BY <2>1, <5>1, <5>2 DEF Gains, GainsOn
      <4>4. QED  BY <1>0, <2>2, <4>2, <4>3 DEF RunsOnce
    <3>5. CASE d = c
      <4>1. op[d] = "heap" /\ op'[d] = "posted"
        BY <1>0, <3>1, <3>5 DEF OpFollows, TypeOK
      <4>2. \A l \in Kinds : Op(d, l) \notin Range(io)
        BY <1>0, <4>1 DEF RunsOnce
      <4>3. ASSUME NEW l \in Kinds, Op(d, l) \in Range(io')
            PROVE  l = first[d] /\ Once(io', Op(d, l))
        <5>1. Op(d, l) = Op(c, k)
          BY <2>1, <3>2, <4>2, <4>3, TaskKinds DEF Gains, GainsOn
        <5>2. l = first[d]
          BY <3>3, <3>5, <5>1, TaskKinds
        <5>3. Once(io, Op(d, l))
          BY <4>2 DEF Once, Range
        <5>4. QED  BY <2>1, <4>2, <5>2, <5>3 DEF Gains, GainsOn
      <4>4. QED  BY <1>0, <2>2, <4>1, <4>3 DEF RunsOnce
    <3>6. QED  BY <3>4, <3>5
  <2>5. QED  BY <2>3, <2>4
<1>11. ASSUME NEW t \in threads, NEW c \in MethodCalls, NEW k \in Kinds, RunOp(t, c, k)
       PROVE  RunsOnce(d)'
  <2>1. io # <<>> /\ io' = Tail(io) /\ Head(io) = Op(c, k)
    BY <1>11 DEF RunOp, Runs
  <2>2. Gains({}) /\ Op(c, k) \in Range(io) /\ (Once(io, Op(c, k)) => Op(c, k) \notin Range(io'))
    BY <1>0, <2>1, Taken
  <2>3. RunsOnce(c)
    BY DEF SendInv, OpOnce
  <2>4. op[c] = "posted" /\ k = first[c] /\ Op(c, k) \notin Range(io') /\ handled[c] = <<>>
    BY <2>2, <2>3 DEF RunsOnce
  <2>5. op'[c] = "gone" /\ (d # c => op'[d] = op[d])
    BY <1>0, <1>11 DEF RunOp, TypeOK
  <2>6. handled'[c] = <<ErrorCode(k)>> /\ (d # c => handled'[d] = handled[d])
    <3>1. handled'[c] = Append(handled[c], ErrorCode(k)) /\ (d # c => handled'[d] = handled[d])
      BY <1>0, <1>11 DEF RunOp, TypeOK
    <3>2. Append(<<>>, ErrorCode(k)) = <<ErrorCode(k)>>
      OBVIOUS
    <3>3. QED  BY <2>4, <3>1, <3>2
  <2>7. UNCHANGED first
    BY <1>11, Frames
  <2>8. CASE d = c
    <3>1. ASSUME NEW l \in Kinds, Op(c, l) \in Range(io') PROVE FALSE
      <4>1. Op(c, l) \in Range(io)
        BY <2>2, <3>1 DEF Gains, GainsOn
      <4>2. l = first[c]
        BY <2>3, <4>1 DEF RunsOnce
      <4>3. QED  BY <2>4, <3>1, <4>2
    <3>2. QED  BY <2>4, <2>5, <2>6, <2>7, <2>8, <3>1 DEF RunsOnce
  <2>9. CASE d # c
    <3>1. ASSUME NEW l \in Kinds, Op(d, l) \in Range(io')
          PROVE  op[d] = "posted" /\ l = first[d] /\ Once(io', Op(d, l))
      <4>1. Op(d, l) \in Range(io)
        BY <2>2, <3>1 DEF Gains, GainsOn
      <4>2. QED  BY <1>0, <2>2, <4>1 DEF RunsOnce, Gains, GainsOn
    <3>2. QED  BY <1>0, <2>5, <2>6, <2>7, <2>9, <3>1 DEF RunsOnce
  <2>10. QED  BY <2>8, <2>9
<1>12. QED
  BY <1>1, <1>4, <1>5, <1>6, <1>7, <1>8, <1>9, <1>10, <1>11, Steps, Frames

\* A step starts one timer at most.
LEMMA NextFewTimers == SendInv /\ [Next]_vars => FewTimers'
<1> SUFFICES ASSUME SendInv, [Next]_vars PROVE FewTimers'
  OBVIOUS
<1>0. /\ TypeOK /\ OneReply /\ NoTrace /\ FewTimers /\ NotSentYet
      /\ threads \subseteq Threads /\ MethodCalls \subseteq Calls
  BY InThreads DEF SendInv
<1> DEFINE started == {c \in MethodCalls : timer[c] # "none"}
<1>1. ASSUME \A c \in MethodCalls : timer'[c] # "none" <=> timer[c] # "none",
             \A c \in MethodCalls : Sent(c)' => Sent(c)
      PROVE  FewTimers'
  <2>1. {c \in MethodCalls : timer'[c] # "none"} = started
    BY <1>1
  <2>2. QED  BY <1>0, <1>1, <2>1 DEF FewTimers
<1>2. CASE UNCHANGED <<timer, pending>>
  BY <1>1, <1>2 DEF Sent
<1>3. ASSUME NEW t \in threads, NEW c \in Calls, SendWithReply(t, c) PROVE FewTimers'
  <2>1. /\ c \in MethodCalls /\ timer'[c] = "armed"
        /\ \A d \in MethodCalls : d # c => timer'[d] = timer[d] /\ pending'[d] = pending[d]
    BY <1>0, <1>3 DEF SendWithReply, AddTimeout, TypeOK
  <2>2. {d \in MethodCalls : timer'[d] # "none"} = started \cup {c}
    BY <2>1
  <2>3. IsFiniteSet(started \cup {c})
    BY <1>0, FS_AddElement DEF FewTimers
  <2>4. \A d \in MethodCalls : Sent(d)' => timer'[d] # "none"
    BY <1>0, <2>1 DEF FewTimers, Sent
  <2>5. QED  BY <2>2, <2>3, <2>4 DEF FewTimers
<1>4. ASSUME NEW t \in threads, NEW c \in Calls, SendDisconnected(t, c) PROVE FewTimers'
  <2>1. \A d \in MethodCalls : Sent(d)' => Sent(d)
    BY <1>0, <1>4 DEF SendDisconnected, Sent, TypeOK
  <2>2. QED  BY <1>1, <1>4, <2>1, Frames
<1>5. ASSUME NEW t \in threads, RunDispatch(t) PROVE FewTimers'
  <2>1. \A d \in MethodCalls : Sent(d)' => Sent(d)
    BY <1>0, <1>5, DispatchCompletes DEF Sent, TypeOK
  <2>2. QED  BY <1>1, <1>5, <2>1, Frames
<1>6. ASSUME NEW t \in threads, Poll(t) PROVE FewTimers'
  <2>1. \A d \in MethodCalls : timer'[d] # "none" <=> timer[d] # "none"
    BY <1>0, <1>6 DEF Poll, TypeOK
  <2>2. QED  BY <1>1, <1>6, <2>1, Frames DEF Sent
<1>7. ASSUME NEW t \in threads, RunWatch(t) PROVE FewTimers'
  <2>1. PICK S \in SUBSET {c \in MethodCalls : pending[c] = "waiting"} : timer' = RemoveTimeouts(S)
    BY <1>0, <1>7, WatchReads
  <2>2. \A c \in S : timer[c] # "none"
    BY <1>0, <2>1 DEF FewTimers, Sent
  <2>3. \A c \in MethodCalls : timer'[c] # "none" <=> timer[c] # "none"
    BY <2>1, <2>2 DEF RemoveTimeouts
  <2>4. QED  BY <1>1, <1>7, <2>3, Frames DEF Sent
<1>8. ASSUME NEW t \in threads, NEW c \in MethodCalls, TimeoutHandle(t, c) PROVE FewTimers'
  <2>1. timer[c] # "none"
    BY <1>0, <1>8 DEF TimeoutHandle, NoTrace, NoTraceOf, FewTimers
  <2>2. \A d \in MethodCalls : timer'[d] # "none" <=> timer[d] # "none"
    BY <1>8, <2>1 DEF TimeoutHandle, RemoveTimeouts
  <2>3. QED  BY <1>1, <1>8, <2>2, Frames DEF Sent
<1>9. ASSUME NEW c \in MethodCalls, TimerDue(c) PROVE FewTimers'
  <2>1. \A d \in MethodCalls : timer'[d] # "none" <=> timer[d] # "none"
    BY <1>0, <1>9 DEF TimerDue, TypeOK
  <2>2. QED  BY <1>1, <1>9, <2>1, Frames DEF Sent
<1>10. QED
  BY <1>2, <1>3, <1>4, <1>5, <1>6, <1>7, <1>8, <1>9, Steps, Frames

-----------------------------------------------------------------------------
\* Before the first call there is nothing.
LEMMA InitSendInv == Init => SendInv
<1> SUFFICES ASSUME Init PROVE SendInv
  OBVIOUS
<1>0. MethodCalls \subseteq Calls /\ threads \subseteq Threads
  BY SendAssumption DEF Init, Calls
<1> USE ActivityKinds
<1>1. io \in Seq(Tasks) /\ Range(io) = {Task}
  BY TasksAre, SingleFind DEF Init
<1>2. Range(unsent) = {} /\ \A x : Once(unsent, x)
  BY EmptyFind DEF Init
<1>3. wire = <<>> /\ incoming = <<>> /\ CallsIn(wire) = {} /\ CallsIn(incoming) = {}
  BY DEF Init, CallsIn
<1>4. TypeOK
  BY <1>0, <1>1, <1>2, EmptySeq DEF Init, TypeOK
<1>5. Senders /\ NotSentYet
  BY <1>2, <1>0 DEF Init, Senders, Sends, NotSentYet
<1>6. OpFollowsPending /\ NotOvertakenAlone /\ NotFreedAlone
  BY <1>0 DEF Init, OpFollowsPending, OpFollows, NotOvertakenAlone, NotFreedAlone
<1>7. NoTrace
  BY <1>0, <1>1, <1>2, <1>3, TaskKinds DEF Init, NoTrace, NoTraceOf
<1>8. OneReply
  BY <1>2, <1>3 DEF Init, OneReply
<1>9. FirstIsFirst
  BY <1>3 DEF Init, FirstIsFirst, FirstOf
<1>10. OpOnce
  BY <1>0, <1>1, TaskKinds DEF Init, OpOnce, RunsOnce
<1>11. FewTimers
  <2>1. {c \in MethodCalls : timer[c] # "none"} = {}
    BY DEF Init
  <2>2. QED  BY <2>1, FS_EmptySet DEF Init, FewTimers, Sent
<1>12. QED
  BY <1>4, <1>5, <1>6, <1>7, <1>8, <1>9, <1>10, <1>11 DEF SendInv

LEMMA NextSendInv == SendInv /\ [Next]_vars => SendInv'
BY NextTypeOK, NextSenders, NextNotSentYet, NextOpFollowsPending, NextNotOvertaken, NextNotFreed,
   NextNoTrace, NextOneReply, NextFirstIsFirst, NextOpOnce, NextFewTimers
   DEF SendInv

LEMMA SendInvariant == Spec => []SendInv
BY InitSendInv, NextSendInv, PTL DEF Spec

-----------------------------------------------------------------------------
(* The theorems *)

\* Every variable has the type the code gives it: in particular a call is never both
\* in libdbus' outgoing queue and with the peer.
THEOREM AsyncSendTypes == Spec => []TypeOK
<1>1. SendInv => TypeOK
  BY DEF SendInv
<1>2. QED  BY <1>1, SendInvariant, PTL

\* However reply, timeout, dispatch and notification race each other, and however many
\* threads run the io_service: the handler of a call runs at most once, with the error
\* code of the answer that was queued first.
THEOREM FirstAnswerOnceAlways == Spec => []FirstAnswerOnce
<1>1. SendInv => FirstAnswerOnce
  BY DEF SendInv, OpOnce, RunsOnce, FirstAnswerOnce
<1>2. QED  BY <1>1, SendInvariant, PTL

\* The op on the heap has an owner, unless its answer has overtaken async_send: callback()
\* will be called for it.
THEOREM OpHasOwnerAlways == Spec => []OpHasOwner
<1>1. SendInv => OpHasOwner
  BY DEF SendInv, OpFollowsPending, OpFollows, NotOvertakenAlone, OpHasOwner, Overtaken
<1>2. QED  BY <1>1, SendInvariant, PTL

-----------------------------------------------------------------------------
(* A timeout that has expired does not outlive its pending call, as long as one *)
(* thread does everything: the reactor queues the readable socket ahead of the  *)
(* timers, and whatever is read after that is dispatched behind them.           *)

\* There is one marker of the reactor and one read; the read is ahead of the marker.
ReactorOrder ==
  /\ Once(io, Task) /\ Once(io, Watch)
  /\ reading => Watch \notin Range(io)
  /\ ~Precedes(io, Task, Watch)

\* The completion of a timer is queued once and run by one thread, and the answer of a
\* call stops its timer.  Only a reply has the timer deleted before that thread is done,
\* so only after a reply is it deleted twice.
TimerOnce(c) ==
  /\ Once(io, Timeout(c))
  /\ Timeout(c) \in Range(io) => timer[c] \in {"queued", "deleted"}
  /\ \A t \in Threads : thread[t] = At("timeout", c) =>
       timer[c] \in {"queued", "deleted"} /\ Timeout(c) \notin Range(io)
  /\ \A t, u \in Threads :
       thread[t] = At("timeout", c) /\ thread[u] = At("timeout", c) => t = u
  /\ TimeoutAdded(c) => first[c] = "none"
  /\ timer[c] = "deleted" =>
       \/ first[c] \in Answers
       \/ Timeout(c) \notin Range(io) /\ \A t \in Threads : thread[t] # At("timeout", c)
  /\ timer[c] = "twice" => first[c] \in Answers
TimersOnce == \A c \in MethodCalls : TimerOnce(c)

\* A completion that is queued comes before the dispatch of the answer that will free
\* the pending call: that dispatch is not queued, or is queued behind it.
TimeoutFresh(c) ==
  /\ Timeout(c) \in Range(io) =>
       /\ pending[c] # "freed"
       /\ first[c] # "none" => ~Precedes(io, Dispatch, Timeout(c))
       /\ first[c] = "none" => ~InOrder(io, Watch, Dispatch, Timeout(c))
  /\ \A t \in threads : thread[t] = At("timeout", c) => pending[c] # "freed"
TimeoutsFresh == Alone => \A c \in MethodCalls : TimeoutFresh(c)

TimeoutInv == ReactorOrder /\ TimersOnce /\ TimeoutsFresh

\* The tasks that do not come from the reactor leave its order alone.
LEMMA NextReactorOrder == SendInv /\ TimeoutInv /\ [Next]_vars => ReactorOrder'
<1> SUFFICES ASSUME SendInv, TimeoutInv, [Next]_vars PROVE ReactorOrder'
  OBVIOUS
<1>0. TypeOK /\ OneReply /\ FewTimers /\ ReactorOrder
  BY DEF SendInv, TimeoutInv
<1>1. CASE UNCHANGED <<io, reading>>
  BY <1>0, <1>1 DEF ReactorOrder
<1>2. ASSUME NEW X, Gains(X), Task \notin X, Watch \notin X, UNCHANGED reading
      PROVE  ReactorOrder'
  <2>1. Once(io', Task) /\ Once(io', Watch)
    BY <1>0, <1>2 DEF ReactorOrder, Gains, GainsOn
  <2>2. reading' => Watch \notin Range(io')
    BY <1>0, <1>2 DEF ReactorOrder, Gains, GainsOn
  <2>3. ~Precedes(io', Task, Watch)
    BY <1>0, <1>2 DEF ReactorOrder, Gains, GainsOn
  <2>4. QED  BY <2>1, <2>2, <2>3 DEF ReactorOrder
<1>3. ASSUME NEW t \in threads, NEW c \in Calls, Start(t, c) PROVE ReactorOrder'
  BY <1>0, <1>2, <1>3, StartQueues, TaskKinds DEF Start
<1>4. ASSUME NEW t \in threads, Poll(t) PROVE ReactorOrder'
  <2> DEFINE X == Readable \cup Expired \cup {Task}
             s == Tail(io)
  <2>1. GainsOn(s, X)
    BY <1>0, <1>4, PollQueues
  <2>2. PICK q \in Seq(Tasks) : io' = q \o <<Task>>
    BY <1>0, <1>4, PollQueues
  <2>3. io \in Seq(Tasks) /\ io # <<>> /\ Head(io) = Task
    BY <1>0, <1>4 DEF TypeOK, Poll, Runs
  <2>4. Task \notin Range(s) /\ Once(s, Task) /\ Once(s, Watch)
    BY <1>0, <2>3, TailFind DEF ReactorOrder
  <2>5. Watch \notin Range(s)
    BY <1>0, <2>3, TailOrder DEF ReactorOrder
  <2> HIDE DEF s
  <2>6. Once(io', Task) /\ Once(io', Watch)
    BY <2>1, <2>4, <2>5 DEF GainsOn
  <2>7. reading' => Watch \notin X
    BY <1>0, <1>4, TaskKinds DEF Poll, Readable, Expired, TypeOK
  <2> HIDE DEF X
  <2>8. reading' => Watch \notin Range(io')
    BY <2>1, <2>5, <2>7 DEF GainsOn
  <2>9. ~Precedes(io', Task, Watch)
    <3> DEFINE e == <<Task>>
    <3>1. e \in Seq(Tasks) /\ Range(e) = {Task}
      BY TasksAre, SingleFind
    <3>2. io' = q \o e
      BY <2>2
    <3> HIDE DEF e
    <3>3. Task \notin Range(q)
      BY <2>6, <3>1, <3>2, ConcatFind
    <3>4. Watch \notin Range(e)
      BY <3>1, TaskKinds
    <3>5. Precedes(io', Task, Watch) => Precedes(q, Task, Watch)
      BY <3>1, <3>2, <3>4, ConcatOrder
    <3>6. QED  BY <3>3, <3>5, OrderFind
  <2>10. QED  BY <2>6, <2>8, <2>9 DEF ReactorOrder
<1>5. ASSUME NEW t \in threads, RunWatch(t) PROVE ReactorOrder'
  <2>1. GainsOn(Tail(io), {Dispatch}) /\ Gains({Dispatch})
    BY <1>0, <1>5, WatchQueues
  <2>2. io \in Seq(Tasks) /\ io # <<>> /\ Head(io) = Watch
    BY <1>0, <1>5 DEF TypeOK, RunWatch, Runs
  <2>3. Watch \notin Range(Tail(io))
    BY <1>0, <2>2, TailFind DEF ReactorOrder
  <2>4. Watch \notin Range(io')
    BY <2>1, <2>3, TaskKinds DEF GainsOn
  <2>5. Once(io', Task) /\ Once(io', Watch) /\ ~Precedes(io', Task, Watch)
    BY <1>0, <2>1, TaskKinds DEF ReactorOrder, Gains, GainsOn
  <2>6. QED  BY <2>4, <2>5 DEF ReactorOrder
<1>6. ASSUME NEW t \in threads, RunDispatch(t) PROVE ReactorOrder'
  <2>1. PICK X : Gains(X) /\ Task \notin X /\ Watch \notin X
    BY <1>0, <1>6, DispatchQueues, TaskKinds
  <2>2. QED  BY <1>2, <1>6, <2>1 DEF RunDispatch
<1>7. ASSUME NEW t \in threads, NEW c \in MethodCalls, RunTimeout(t, c) PROVE ReactorOrder'
  BY <1>0, <1>2, <1>7, Taken DEF RunTimeout, Runs
<1>8. ASSUME NEW t \in threads, NEW c \in MethodCalls, TimeoutHandle(t, c) PROVE ReactorOrder'
  BY <1>0, <1>2, <1>8, TimeoutHandleQueues, TaskKinds DEF TimeoutHandle
<1>9. ASSUME NEW t \in threads, NEW c \in MethodCalls, NEW k \in Kinds, RunOp(t, c, k)
      PROVE  ReactorOrder'
  BY <1>0, <1>2, <1>9, Taken DEF RunOp, Runs
<1>10. QED
  BY <1>1, <1>3, <1>4, <1>5, <1>6, <1>7, <1>8, <1>9, Steps
     DEF Flush, PackError, SendOnly, SendWithReply, SendDisconnected, SetNotify, TimerDue,
         PeerReplies, GetCompleted, Abort, vars

\* A timer that has been stopped, or has expired, is not started again.
LEMMA NextTimersOnce == SendInv /\ TimeoutInv /\ [Next]_vars => TimersOnce'
<1> SUFFICES ASSUME SendInv, TimeoutInv, [Next]_vars, NEW d \in MethodCalls PROVE TimerOnce(d)'
  BY DEF TimersOnce
<1>0. /\ TypeOK /\ OneReply /\ FewTimers /\ NoTrace /\ FirstOf(d) /\ TimerOnce(d)
      /\ threads \subseteq Threads /\ MethodCalls \subseteq Calls
  BY InThreads DEF SendInv, TimeoutInv, TimersOnce, FirstIsFirst
<1> USE ActivityKinds
<1> DEFINE Stays == \A u \in Threads :
                      thread'[u] = At("timeout", d) => thread[u] = At("timeout", d)
<1>1. ASSUME NEW X, Gains(X), Timeout(d) \notin X, Stays,
             \/ timer'[d] = timer[d] /\ first'[d] = first[d]
             \/ /\ timer'[d] \in {"deleted", "twice"} /\ first'[d] \in Answers
                /\ timer'[d] = "twice" => timer[d] = "twice"
      PROVE  TimerOnce(d)'
  <2>1. /\ Timeout(d) \in Range(io') => Timeout(d) \in Range(io)
        /\ Once(io', Timeout(d))
    BY <1>0, <1>1 DEF Gains, GainsOn, TimerOnce
  <2>2. QED  BY <1>0, <1>1, <2>1 DEF TimerOnce, TimeoutAdded
<1>2. ASSUME UNCHANGED <<io, first>>, timer'[d] = timer[d], Stays PROVE TimerOnce(d)'
  BY <1>0, <1>2 DEF TimerOnce, TimeoutAdded
<1>3. ASSUME NEW t \in threads, NEW c \in Calls, Start(t, c) PROVE TimerOnce(d)'
  <2>1. Stays
    BY <1>0, <1>3 DEF Start, TypeOK
  <2>2. QED  BY <1>0, <1>1, <1>3, <2>1, StartQueues, TaskKinds, Frames
<1>4. ASSUME NEW t \in threads, NEW c \in Calls,
             SendOnly(t, c) \/ SendDisconnected(t, c) \/ SetNotify(t, c) \/ GetCompleted(t, c)
      PROVE  TimerOnce(d)'
  <2>1. Stays
    BY <1>0, <1>4 DEF SendOnly, SendDisconnected, SetNotify, GetCompleted, TypeOK
  <2>2. QED  BY <1>2, <1>4, <2>1, Frames
<1>5. ASSUME NEW t \in threads, NEW c \in Calls, SendWithReply(t, c) PROVE TimerOnce(d)'
  <2>1. Stays
    BY <1>0, <1>5 DEF SendWithReply, TypeOK
  <2>2. CASE c # d
    <3>1. timer'[d] = timer[d]
      BY <1>0, <1>5, <2>2 DEF SendWithReply, AddTimeout, TypeOK
    <3>2. QED  BY <1>2, <1>5, <2>1, <3>1, Frames
  <2>3. CASE c = d
    <3>1. pending[d] = "none"
      BY <1>0, <1>5, <2>3 DEF SendWithReply, SendInv, NotSentYet
    <3>2. NoTraceOf(d)
      BY <1>0, <3>1 DEF NoTrace, Sent
    <3>3. timer'[d] = "armed"
      BY <1>0, <1>5, <2>3 DEF SendWithReply, AddTimeout, TypeOK
    <3>4. QED  BY <1>0, <1>5, <2>1, <3>2, <3>3, Frames DEF NoTraceOf, TimerOnce, TimeoutAdded
  <2>4. QED  BY <2>2, <2>3
<1>6. ASSUME NEW t \in threads, Poll(t) PROVE TimerOnce(d)'
  <2> DEFINE X == Readable \cup Expired \cup {Task}
  <2>1. Gains(X)
    BY <1>0, <1>6, PollQueues
  <2>2. CASE timer[d] # "due"
    <3>1. Timeout(d) \notin X
      BY <2>2, TaskKinds DEF Readable, Expired
    <3>2. timer'[d] = timer[d]
      BY <1>0, <1>6, <2>2 DEF Poll, TypeOK
    <3> HIDE DEF X
    <3>3. QED  BY <1>1, <1>6, <2>1, <3>1, <3>2, Frames
  <2>3. CASE timer[d] = "due"
    <3>1. Timeout(d) \notin Range(io) /\ \A u \in Threads : thread[u] # At("timeout", d)
      BY <1>0, <2>3 DEF TimerOnce
    <3>2. timer'[d] = "queued"
      BY <1>0, <1>6, <2>3 DEF Poll, TypeOK
    <3>3. Once(io', Timeout(d))
      BY <1>0, <2>1, <3>1 DEF Gains, GainsOn, TimerOnce
    <3>4. first[d] = "none"
      BY <1>0, <2>3 DEF TimerOnce, TimeoutAdded
    <3>5. QED  BY <1>6, <3>1, <3>2, <3>3, <3>4, Frames DEF TimerOnce, TimeoutAdded
  <2>4. QED  BY <2>2, <2>3
<1>7. ASSUME NEW t \in threads, RunWatch(t) PROVE TimerOnce(d)'
  <2>1. PICK got \in Seq(Message), rest \in Seq(Message) :
          /\ CallsIn(wire) = CallsIn(got) \cup CallsIn(rest)
          /\ timer' = RemoveTimeouts({c \in CallsIn(got) : pending[c] = "waiting" /\ TimeoutAdded(c)})
          /\ \A c \in MethodCalls :
               c \notin CallsIn(got) \/ first[c] # "none" => first'[c] = first[c]
          /\ \A c \in CallsIn(got) : first[c] = "none" => first'[c] \in Answers
    BY <1>0, <1>7, WatchReads
  <2>2. Stays /\ Gains({Dispatch}) /\ Timeout(d) \notin {Dispatch}
    BY <1>0, <1>7, WatchQueues, TaskKinds, Frames
  <2>3. CASE d \in CallsIn(got) /\ first[d] = "none"
    <3>1. pending[d] = "waiting" /\ timer[d] # "none"
      BY <1>0, <2>1, <2>3 DEF NoTrace, NoTraceOf, Sent, FirstOf, FewTimers
    <3>2. /\ timer'[d] \in {"deleted", "twice"} /\ first'[d] \in Answers
          /\ timer'[d] = "twice" => timer[d] = "twice"
      BY <1>0, <2>1, <2>3, <3>1 DEF RemoveTimeouts, TimeoutAdded, TypeOK
    <3>3. QED  BY <1>1, <2>2, <3>2
  <2>4. CASE ~(d \in CallsIn(got) /\ first[d] = "none")
    <3>1. first'[d] = first[d]
      BY <2>1, <2>4
    <3>2. d \in CallsIn(got) => ~TimeoutAdded(d)
      BY <1>0, <2>4 DEF TimerOnce
    <3>3. timer'[d] = timer[d]
      BY <2>1, <3>2 DEF RemoveTimeouts
    <3>4. QED  BY <1>1, <2>2, <3>1, <3>3
  <2>5. QED  BY <2>3, <2>4
<1>8. ASSUME NEW t \in threads, RunDispatch(t) PROVE TimerOnce(d)'
  <2>1. PICK X : Gains(X) /\ Timeout(d) \notin X
    BY <1>0, <1>8, DispatchQueues, TaskKinds
  <2>2. QED  BY <1>1, <1>8, <2>1, Frames
<1>9. ASSUME NEW t \in threads, NEW c \in MethodCalls, RunTimeout(t, c) PROVE TimerOnce(d)'
  <2>1. /\ io # <<>> /\ Head(io) = Timeout(c) /\ io' = Tail(io)
        /\ thread' = [thread EXCEPT ![t] = At("timeout", c)]
    BY <1>9 DEF RunTimeout, Runs
  <2>2. /\ Gains({}) /\ Timeout(c) \in Range(io)
        /\ Once(io, Timeout(c)) => Timeout(c) \notin Range(io')
    BY <1>0, <2>1, Taken
  <2>3. CASE c # d
    <3>1. Stays
      BY <1>0, <2>1, <2>3 DEF TypeOK
    <3>2. QED  BY <1>1, <1>9, <2>2, <3>1, Frames
  <2>4. CASE c = d
    <3>1. Timeout(d) \notin Range(io') /\ Once(io', Timeout(d)) /\ timer[d] \in {"queued", "deleted"}
      BY <1>0, <2>2, <2>4 DEF TimerOnce, Gains, GainsOn
    <3>2. \A u \in Threads : thread'[u] = At("timeout", d) => u = t
      BY <1>0, <2>1, <2>2, <2>4 DEF TimerOnce, TypeOK
    <3>3. QED  BY <1>0, <1>9, <2>2, <2>4, <3>1, <3>2, Frames DEF TimerOnce, TimeoutAdded
  <2>5. QED  BY <2>3, <2>4
<1>10. ASSUME NEW t \in threads, NEW c \in MethodCalls, TimeoutHandle(t, c) PROVE TimerOnce(d)'
  <2>1. Stays
    BY <1>0, <1>10 DEF TimeoutHandle, TypeOK
  <2>2. Gains({Dispatch}) /\ Timeout(d) \notin {Dispatch}
    BY <1>0, <1>10, TimeoutHandleQueues, TaskKinds
  <2>3. CASE c # d
    <3>1. timer'[d] = timer[d] /\ first'[d] = first[d]
      BY <1>0, <1>10, <2>3 DEF TimeoutHandle, RemoveTimeouts, TypeOK
    <3>2. QED  BY <1>1, <2>1, <2>2, <3>1
  <2>4. CASE c = d
    <3>1. thread[t] = At("timeout", d) /\ thread' = [thread EXCEPT ![t] = Idle]
      BY <1>10, <2>4 DEF TimeoutHandle
    <3>2. /\ Timeout(d) \notin Range(io') /\ Once(io', Timeout(d))
          /\ \A u \in Threads : thread'[u] # At("timeout", d)
      BY <1>0, <2>2, <3>1 DEF TimerOnce, Gains, GainsOn, TypeOK
    <3>3. CASE UNCHANGED <<timer, first>>
      BY <1>0, <3>2, <3>3 DEF TimerOnce, TimeoutAdded
    <3>4. CASE timer' = RemoveTimeouts({c}) /\ (first[d] # "none" => first'[d] = first[d])
      <4>1. \/ timer[d] = "queued" /\ timer'[d] = "deleted"
            \/ timer[d] = "deleted" /\ timer'[d] = "twice"
        BY <1>0, <2>4, <3>1, <3>4 DEF TimerOnce, RemoveTimeouts
      <4>2. timer[d] = "deleted" => first'[d] \in Answers
        BY <1>0, <3>1, <3>4 DEF TimerOnce, Answers
      <4>3. QED  BY <3>2, <4>1, <4>2 DEF TimerOnce, TimeoutAdded
    <3>5. QED  BY <1>0, <1>10, <2>4, <3>3, <3>4 DEF TimeoutHandle, TypeOK
  <2>5. QED  BY <2>3, <2>4
<1>11. ASSUME NEW t \in threads, NEW c \in MethodCalls, NEW k \in Kinds, RunOp(t, c, k)
       PROVE  TimerOnce(d)'
  <2>1. Gains({})
    BY <1>0, <1>11, Taken DEF RunOp, Runs
  <2>2. QED  BY <1>1, <1>11, <2>1, Frames
<1>12. ASSUME NEW c \in MethodCalls, TimerDue(c) PROVE TimerOnce(d)'
  <2>1. CASE c # d
    <3>1. timer'[d] = timer[d]
      BY <1>0, <1>12, <2>1 DEF TimerDue, TypeOK
    <3>2. QED  BY <1>2, <1>12, <3>1, Frames
  <2>2. CASE c = d
    <3>1. timer[d] = "armed" /\ timer'[d] = "due"
      BY <1>0, <1>12, <2>2 DEF TimerDue, TypeOK
    <3>2. QED  BY <1>0, <1>12, <3>1, Frames DEF TimerOnce, TimeoutAdded
  <2>3. QED  BY <2>1, <2>2
<1>13. QED
  <2>1. CASE UNCHANGED <<io, first, timer, thread>>
    BY <1>2, <2>1
  <2>2. QED
    BY <1>3, <1>4, <1>5, <1>6, <1>7, <1>8, <1>9, <1>10, <1>11, <1>12, <2>1, Steps, Frames

\* Alone, no dispatch frees a pending call whose timeout is still to be handled.
LEMMA NextTimeoutsFresh == SendInv /\ TimeoutInv /\ [Next]_vars => TimeoutsFresh'
<1> SUFFICES ASSUME SendInv, TimeoutInv, [Next]_vars, Alone', NEW d \in MethodCalls
             PROVE  TimeoutFresh(d)'
  BY DEF TimeoutsFresh
<1>0. /\ TypeOK /\ OneReply /\ FewTimers /\ FirstOf(d) /\ TimerOnce(d) /\ ReactorOrder
      /\ threads \subseteq Threads /\ MethodCalls \subseteq Calls
  BY InThreads DEF SendInv, TimeoutInv, TimersOnce, FirstIsFirst
<1>1. UNCHANGED threads
  BY AloneBefore
<1>2. Alone
  BY AloneBefore
<1>3. TimeoutFresh(d)
  BY <1>2 DEF TimeoutInv, TimeoutsFresh
<1>4. \A t, u \in threads : t = u
  BY <1>2, AloneIsOne
<1>5. Timeout(d) \notin {Task, Watch, Dispatch} /\ \A c, k : Timeout(d) # Op(c, k)
  BY TaskKinds
<1> USE ActivityKinds
<1> DEFINE Stays == \A u \in threads :
                      thread'[u] = At("timeout", d) => thread[u] = At("timeout", d)
<1>6. ASSUME NEW X, Gains(X), Timeout(d) \notin X, Stays, first'[d] = first[d],
             pending'[d] = "freed" => pending[d] = "freed"
      PROVE  TimeoutFresh(d)'
  <2>1. Timeout(d) \in Range(io') => Timeout(d) \in Range(io)
    BY <1>6 DEF Gains, GainsOn
  <2>2. /\ Precedes(io', Dispatch, Timeout(d)) => Precedes(io, Dispatch, Timeout(d))
        /\ InOrder(io', Watch, Dispatch, Timeout(d)) => InOrder(io, Watch, Dispatch, Timeout(d))
    BY <1>6 DEF Gains, GainsOn
  <2>3. QED  BY <1>1, <1>3, <1>6, <2>1, <2>2 DEF TimeoutFresh
<1>7. ASSUME UNCHANGED <<io, first>>, Stays, pending'[d] = "freed" => pending[d] = "freed"
      PROVE  TimeoutFresh(d)'
  BY <1>1, <1>3, <1>7 DEF TimeoutFresh
<1>8. ASSUME NEW t \in threads, NEW c \in Calls, Start(t, c) PROVE TimeoutFresh(d)'
  <2>1. Stays
    BY <1>0, <1>8 DEF Start, TypeOK
  <2>2. QED  BY <1>0, <1>5, <1>6, <1>8, <2>1, StartQueues, Frames
<1>9. ASSUME NEW t \in threads, NEW c \in Calls,
             \/ SendOnly(t, c) \/ SendWithReply(t, c) \/ SendDisconnected(t, c)
             \/ SetNotify(t, c) \/ GetCompleted(t, c)
      PROVE  TimeoutFresh(d)'
  <2>1. Stays
    BY <1>0, <1>9 DEF SendOnly, SendWithReply, SendDisconnected, SetNotify, GetCompleted,
              TypeOK
  <2>2. pending'[d] = "freed" => pending[d] = "freed"
    <3>1. \/ UNCHANGED pending
          \/ \E p \in {"waiting", "null"} : pending' = [pending EXCEPT ![c] = p]
      BY <1>9, Frames DEF SendWithReply, SendDisconnected
    <3>2. QED  BY <1>0, <3>1 DEF TypeOK
  <2>3. QED  BY <1>7, <1>9, <2>1, <2>2, Frames
<1>10. ASSUME NEW t \in threads, Poll(t) PROVE TimeoutFresh(d)'
  <2> DEFINE X == Readable \cup Expired \cup {Task}
             s == Tail(io)
  <2>1. GainsOn(s, X) /\ Gains(X)
    BY <1>0, <1>10, PollQueues
  <2>2. CASE timer[d] # "due"
    <3>1. Timeout(d) \notin X
      BY <2>2, TaskKinds DEF Readable, Expired
    <3> HIDE DEF X
    <3>2. QED  BY <1>6, <1>10, <2>1, <3>1, Frames
  <2>3. CASE timer[d] = "due"
    <3>1. first[d] = "none" /\ pending[d] # "freed"
      BY <1>0, <2>3 DEF TimerOnce, TimeoutAdded, FirstOf
    <3>2. \A u \in threads : thread[u] # At("timeout", d)
      BY <1>0, <2>3 DEF TimerOnce
    <3>3. io \in Seq(Tasks) /\ io # <<>> /\ Head(io) = Task
      BY <1>0, <1>10 DEF TypeOK, Poll, Runs
    <3>4. Watch \notin Range(s)
      BY <1>0, <3>3, TailOrder DEF ReactorOrder
    <3>5. Dispatch \notin X
      BY TaskKinds DEF Readable, Expired
    <3> HIDE DEF X, s
    <3>6. ~Precedes(io', Watch, Dispatch)
      BY <2>1, <3>4, <3>5, OrderFind DEF GainsOn
    <3>7. ~InOrder(io', Watch, Dispatch, Timeout(d))
      BY <3>6, OrderFind
    <3>8. QED  BY <1>1, <1>10, <3>1, <3>2, <3>7, Frames DEF TimeoutFresh
  <2>4. QED  BY <2>2, <2>3
<1>11. ASSUME NEW t \in threads, RunWatch(t) PROVE TimeoutFresh(d)'
  <2>1. GainsOn(Tail(io), {Dispatch}) /\ Gains({Dispatch})
    BY <1>0, <1>11, WatchQueues
  <2>2. first[d] # "none" => first'[d] = first[d]
    BY <1>0, <1>11, WatchReads
  <2>3. CASE first'[d] = first[d]
    BY <1>5, <1>6, <1>11, <2>1, <2>3, Frames
  <2>4. CASE first'[d] # first[d]
    <3>1. first[d] = "none" /\ first'[d] # "none"
      BY <2>2, <2>4
    <3>2. io \in Seq(Tasks) /\ io # <<>> /\ Head(io) = Watch
      BY <1>0, <1>11 DEF TypeOK, RunWatch, Runs
    <3>3. Precedes(io', Dispatch, Timeout(d)) => Precedes(Tail(io), Dispatch, Timeout(d))
      BY <1>5, <2>1 DEF GainsOn
    <3>4. Precedes(Tail(io), Dispatch, Timeout(d)) => InOrder(io, Watch, Dispatch, Timeout(d))
      BY <3>2, TailOrder
    <3>5. Timeout(d) \in Range(io') => Timeout(d) \in Range(io)
      BY <1>5, <2>1 DEF Gains, GainsOn
    <3>6. QED  BY <1>1, <1>3, <1>11, <3>1, <3>3, <3>4, <3>5, Frames DEF TimeoutFresh
  <2>5. QED  BY <2>3, <2>4
<1>12. ASSUME NEW t \in threads, RunDispatch(t) PROVE TimeoutFresh(d)'
  <2>1. PICK X : GainsOn(Tail(io), X) /\ Gains(X) /\ Timeout(d) \notin X
    BY <1>0, <1>5, <1>12, DispatchQueues
  <2>2. CASE pending'[d] = "freed" => pending[d] = "freed"
    BY <1>6, <1>12, <2>1, <2>2, Frames
  <2>3. CASE pending'[d] = "freed" /\ pending[d] # "freed"
    <3>1. PICK k \in Kinds :
            /\ incoming # <<>> /\ Head(incoming) = [call |-> d, kind |-> k]
            /\ pending[d] = "waiting"
      BY <1>0, <1>12, <2>3, DispatchCompletes DEF TypeOK
    <3>2. first[d] = k
      BY <3>1, HeadIsFirst
    <3>3. first[d] # "none"
      BY <3>2 DEF Kinds, Answers
    <3>4. io \in Seq(Tasks) /\ io # <<>> /\ Head(io) = Dispatch /\ thread[t] = Idle
      BY <1>0, <1>12 DEF TypeOK, RunDispatch, Runs
    <3>5. Timeout(d) \notin Range(Tail(io))
      <4>1. SUFFICES ASSUME Timeout(d) \in Range(Tail(io)) PROVE FALSE
        OBVIOUS
      <4>2. Timeout(d) \in Range(io)
        BY <3>4, <4>1, TailFind
      <4>3. Precedes(io, Dispatch, Timeout(d))
        BY <3>4, <4>1, TailOrder
      <4>4. QED  BY <1>3, <3>3, <4>2, <4>3 DEF TimeoutFresh
    <3>6. Timeout(d) \notin Range(io')
      BY <2>1, <3>5 DEF GainsOn
    <3>7. \A u \in threads : thread'[u] # At("timeout", d)
      BY <1>4, <1>12, <3>4, Frames
    <3>8. QED  BY <1>1, <3>6, <3>7 DEF TimeoutFresh
  <2>4. QED  BY <2>2, <2>3
<1>13. ASSUME NEW t \in threads, NEW c \in MethodCalls, RunTimeout(t, c) PROVE TimeoutFresh(d)'
  <2>1. /\ io # <<>> /\ Head(io) = Timeout(c) /\ io' = Tail(io)
        /\ thread' = [thread EXCEPT ![t] = At("timeout", c)]
    BY <1>13 DEF RunTimeout, Runs
  <2>2. /\ Gains({}) /\ Timeout(c) \in Range(io)
        /\ Once(io, Timeout(c)) => Timeout(c) \notin Range(io')
    BY <1>0, <2>1, Taken
  <2>3. CASE c # d
    <3>1. Stays
      BY <1>0, <2>1, <2>3 DEF TypeOK
    <3>2. QED  BY <1>6, <1>13, <2>2, <3>1, Frames
  <2>4. CASE c = d
    <3>1. Timeout(d) \notin Range(io') /\ pending[d] # "freed"
      BY <1>0, <1>3, <2>2, <2>4 DEF TimerOnce, TimeoutFresh
    <3>2. QED  BY <1>13, <3>1, Frames DEF TimeoutFresh
  <2>5. QED  BY <2>3, <2>4
<1>14. ASSUME NEW t \in threads, NEW c \in MethodCalls, TimeoutHandle(t, c)
       PROVE  TimeoutFresh(d)'
  <2>1. Gains({Dispatch})
    BY <1>0, <1>14, TimeoutHandleQueues
  <2>2. thread[t] = At("timeout", c) /\ thread' = [thread EXCEPT ![t] = Idle]
    BY <1>14 DEF TimeoutHandle
  <2>3. CASE c # d
    <3>1. Stays
      BY <1>0, <2>2 DEF TypeOK
    <3>2. first'[d] = first[d]
      BY <1>0, <1>14, <2>3 DEF TimeoutHandle, TypeOK
    <3>3. QED  BY <1>5, <1>6, <1>14, <2>1, <3>1, <3>2, Frames
  <2>4. CASE c = d
    <3>1. Timeout(d) \notin Range(io')
      BY <1>0, <1>5, <2>1, <2>2, <2>4 DEF TimerOnce, Gains, GainsOn
    <3>2. \A u \in threads : thread'[u] # At("timeout", d)
      BY <1>0, <1>4, <2>2 DEF TypeOK
    <3>3. QED  BY <1>1, <3>1, <3>2 DEF TimeoutFresh
  <2>5. QED  BY <2>3, <2>4
<1>15. ASSUME NEW t \in threads, NEW c \in MethodCalls, NEW k \in Kinds, RunOp(t, c, k)
       PROVE  TimeoutFresh(d)'
  <2>1. Gains({})
    BY <1>0, <1>15, Taken DEF RunOp, Runs
  <2>2. QED  BY <1>6, <1>15, <2>1, Frames
<1>16. QED
  <2>1. CASE UNCHANGED <<io, first, pending, thread>>
    BY <1>7, <2>1
  <2>2. QED
    BY <1>8, <1>9, <1>10, <1>11, <1>12, <1>13, <1>14, <1>15, <2>1, Steps, Frames

LEMMA InitTimeoutInv == Init => TimeoutInv
<1> SUFFICES ASSUME Init PROVE TimeoutInv
  OBVIOUS
<1>1. Range(io) = {Task} /\ (\A x : Once(io, x)) /\ \A x, y : ~Precedes(io, x, y)
  BY TasksAre, SingleFind DEF Init, Precedes
<1>2. \A c \in MethodCalls : Timeout(c) \notin Range(io)
  BY <1>1, TaskKinds
<1>3. \A t \in Threads, c \in MethodCalls : thread[t] # At("timeout", c)
  BY ActivityKinds DEF Init
<1>4. ReactorOrder
  BY <1>1, TaskKinds DEF ReactorOrder
<1>5. TimersOnce
  BY <1>1, <1>2, <1>3 DEF Init, TimersOnce, TimerOnce, TimeoutAdded
<1>6. TimeoutsFresh
  BY <1>2, <1>3, SendAssumption DEF Init, TimeoutsFresh, TimeoutFresh
<1>7. QED  BY <1>4, <1>5, <1>6 DEF TimeoutInv

LEMMA TimeoutInvariant == Spec => []TimeoutInv
<1>1. SendInv /\ TimeoutInv /\ [Next]_vars => TimeoutInv'
  BY NextReactorOrder, NextTimersOnce, NextTimeoutsFresh DEF TimeoutInv
<1>2. QED  BY <1>1, InitTimeoutInv, SendInvariant, PTL DEF Spec

\* In a single-threaded application timeout_handler never runs on the DBusTimeout of a
\* pending call that callback() has freed, nor does async_send_op look at that call,
\* however the reply and the timeout race.
THEOREM NoDanglingPointerAlways == Spec => []NoDanglingPointer
<1>1. SendInv /\ TimeoutInv => NoDanglingPointer
  <2> SUFFICES ASSUME SendInv, TimeoutInv, Alone, NEW t \in threads, NEW c \in MethodCalls,
                      thread[t] \in {At("timeout", c), At("completed", c)}
               PROVE  pending[c] # "freed"
    BY DEF NoDanglingPointer
  <2>1. t \in Threads
    BY InThreads DEF SendInv
  <2>2. CASE thread[t] = At("timeout", c)
    BY <2>2 DEF TimeoutInv, TimeoutsFresh, TimeoutFresh
  <2>3. CASE thread[t] = At("completed", c)
    BY <2>1, <2>3 DEF SendInv, NotFreedAlone
  <2>4. QED  BY <2>2, <2>3
<1>2. QED  BY <1>1, SendInvariant, TimeoutInvariant, PTL

\* With any number of threads: the steady_timer of a call is deleted twice only when its
\* reply was read between the completion of the timer and its timeout_handler.
THEOREM DeletedOnceUnlessRepliedAlways == Spec => []DeletedOnceUnlessReplied
<1>1. TimeoutInv => DeletedOnceUnlessReplied
  BY DEF TimeoutInv, TimersOnce, TimerOnce, DeletedOnceUnlessReplied, DeletesAgain
<1>2. QED  BY <1>1, TimeoutInvariant, PTL
=============================================================================
