------------------------------- MODULE Queue --------------------------------
(***************************************************************************)
(* include/dbus/detail/queue.hpp: the rendezvous of the messages a filter  *)
(* accepts with the handlers the application registers for them.           *)
(*                                                                         *)
(* Every call of push and of async_pop is an actor of its own, so that any *)
(* number of threads is covered.  The mutex is explicit: a call takes it   *)
(* and looks at the opposite deque (Enter), changes one deque and releases *)
(* it (Store or Take), and, when it took a partner, posts the closure to   *)
(* the io_service only after the release (Post).                           *)
(***************************************************************************)
EXTENDS Naturals, Sequences

CONSTANTS Messages,  \* one element per call of push
          Handlers,  \* one element per call of async_pop
          Free       \* the value of the mutex when no call holds it

Calls == Messages \cup Handlers

ASSUME CallsAssumption ==
  /\ Messages \cap Handlers = {}
  /\ Free \notin Calls

VARIABLES
  mutex,     \* the call inside the critical section, or Free
  messages,  \* deque of messages no handler has asked for yet
  handlers,  \* deque of handlers no message has arrived for yet
  pc,        \* where each call is
  taken,     \* the partner a call took from the opposite deque (a local)
  posted,    \* the closures in the io_service, in the order of io.post
  invoked,   \* history: closures run, in the order they were started
  pushed,    \* history: messages, in the order push changed a deque
  popped     \* history: handlers, in the order async_pop changed a deque

vars == <<mutex, messages, handlers, pc, taken, posted, invoked, pushed, popped>>

Closure == [handler : Handlers, message : Messages]

PC == {"idle", "store", "take", "post", "done"}

Init ==
  /\ mutex = Free
  /\ messages = <<>>
  /\ handlers = <<>>
  /\ pc = [c \in Calls |-> "idle"]
  /\ taken = [c \in Calls |-> Free]
  /\ posted = <<>>
  /\ invoked = <<>>
  /\ pushed = <<>>
  /\ popped = <<>>

-----------------------------------------------------------------------------
(* Mutations: plausible mistakes in push and async_pop, each of which one of  *)
(* the properties below must notice.  No specification uses them.             *)

\* push tests handlers.empty() without taking the mutex.
PushEnterUnlocked(m) ==
  /\ pc[m] = "idle"
  /\ mutex' = m
  /\ pc' = [pc EXCEPT ![m] = IF handlers = <<>> THEN "store" ELSE "take"]
  /\ UNCHANGED <<messages, handlers, taken, posted, invoked, pushed, popped>>

\* push_front instead of push_back.
PushStoreAtFront(m) ==
  /\ pc[m] = "store"
  /\ messages' = <<m>> \o messages
  /\ pushed' = Append(pushed, m)
  /\ mutex' = Free
  /\ pc' = [pc EXCEPT ![m] = "done"]
  /\ UNCHANGED <<handlers, taken, posted, invoked, popped>>

\* pop_front without keeping the front.
PushTakeForgets(m) ==
  /\ pc[m] = "take"
  /\ handlers' = Tail(handlers)
  /\ pushed' = Append(pushed, m)
  /\ mutex' = Free
  /\ pc' = [pc EXCEPT ![m] = "post"]
  /\ UNCHANGED <<messages, taken, posted, invoked, popped>>

\* back() and pop_back() instead of front() and pop_front().
PushTakeLast(m) ==
  /\ pc[m] = "take"
  /\ taken' = [taken EXCEPT ![m] = handlers[Len(handlers)]]
  /\ handlers' = SubSeq(handlers, 1, Len(handlers) - 1)
  /\ pushed' = Append(pushed, m)
  /\ mutex' = Free
  /\ pc' = [pc EXCEPT ![m] = "post"]
  /\ UNCHANGED <<messages, posted, invoked, popped>>

\* async_pop takes a message and returns without posting.
PopPostForgotten(h) ==
  /\ pc[h] = "post"
  /\ pc' = [pc EXCEPT ![h] = "done"]
  /\ UNCHANGED <<mutex, messages, handlers, taken, posted, invoked, pushed, popped>>

\* The message is copied out but not removed: it is delivered again.
PopTakeKeeps(h) ==
  /\ pc[h] = "take"
  /\ taken' = [taken EXCEPT ![h] = Head(messages)]
  /\ popped' = Append(popped, h)
  /\ mutex' = Free
  /\ pc' = [pc EXCEPT ![h] = "post"]
  /\ UNCHANGED <<messages, handlers, posted, invoked, pushed>>

-----------------------------------------------------------------------------
(* push(m) *)

\* scoped_lock, then the test of handlers.empty().
PushEnter(m) ==
  /\ pc[m] = "idle"
  /\ mutex = Free
  /\ mutex' = m
  /\ pc' = [pc EXCEPT ![m] = IF handlers = <<>> THEN "store" ELSE "take"]
  /\ UNCHANGED <<messages, handlers, taken, posted, invoked, pushed, popped>>

\* messages.push_back(m); the lock is released at the end of the scope.
PushStore(m) ==
  /\ pc[m] = "store"
  /\ messages' = Append(messages, m)
  /\ pushed' = Append(pushed, m)
  /\ mutex' = Free
  /\ pc' = [pc EXCEPT ![m] = "done"]
  /\ UNCHANGED <<handlers, taken, posted, invoked, popped>>

\* h = handlers.front(); handlers.pop_front(); lock.unlock().
PushTake(m) ==
  /\ pc[m] = "take"
  /\ taken' = [taken EXCEPT ![m] = Head(handlers)]
  /\ handlers' = Tail(handlers)
  /\ pushed' = Append(pushed, m)
  /\ mutex' = Free
  /\ pc' = [pc EXCEPT ![m] = "post"]
  /\ UNCHANGED <<messages, posted, invoked, popped>>

\* io.post(closure(h, m)), outside the lock.
PushPost(m) ==
  /\ pc[m] = "post"
  /\ posted' = Append(posted, [handler |-> taken[m], message |-> m])
  /\ pc' = [pc EXCEPT ![m] = "done"]
  /\ UNCHANGED <<mutex, messages, handlers, taken, invoked, pushed, popped>>

-----------------------------------------------------------------------------
(* async_pop(h) *)

\* scoped_lock, then the test of messages.empty().
PopEnter(h) ==
  /\ pc[h] = "idle"
  /\ mutex = Free
  /\ mutex' = h
  /\ pc' = [pc EXCEPT ![h] = IF messages = <<>> THEN "store" ELSE "take"]
  /\ UNCHANGED <<messages, handlers, taken, posted, invoked, pushed, popped>>

\* handlers.push_back(init.handler); lock.unlock().
PopStore(h) ==
  /\ pc[h] = "store"
  /\ handlers' = Append(handlers, h)
  /\ popped' = Append(popped, h)
  /\ mutex' = Free
  /\ pc' = [pc EXCEPT ![h] = "done"]
  /\ UNCHANGED <<messages, taken, posted, invoked, pushed>>

\* m = messages.front(); messages.pop_front(); lock.unlock().
PopTake(h) ==
  /\ pc[h] = "take"
  /\ taken' = [taken EXCEPT ![h] = Head(messages)]
  /\ messages' = Tail(messages)
  /\ popped' = Append(popped, h)
  /\ mutex' = Free
  /\ pc' = [pc EXCEPT ![h] = "post"]
  /\ UNCHANGED <<handlers, posted, invoked, pushed>>

\* io.post(closure(init.handler, m)), outside the lock.
PopPost(h) ==
  /\ pc[h] = "post"
  /\ posted' = Append(posted, [handler |-> h, message |-> taken[h]])
  /\ pc' = [pc EXCEPT ![h] = "done"]
  /\ UNCHANGED <<mutex, messages, handlers, taken, invoked, pushed, popped>>

-----------------------------------------------------------------------------
\* A thread in io_service::run starts the oldest closure: closure::operator().
RunClosure ==
  /\ posted # <<>>
  /\ invoked' = Append(invoked, Head(posted))
  /\ posted' = Tail(posted)
  /\ UNCHANGED <<mutex, messages, handlers, pc, taken, pushed, popped>>

\* The steps of a call that has taken the mutex or left the critical section.
PushStep(m) == PushStore(m) \/ PushTake(m) \/ PushPost(m)
PopStep(h)  == PopStore(h) \/ PopTake(h) \/ PopPost(h)

Next ==
  \/ \E m \in Messages : PushEnter(m) \/ PushStep(m)
  \/ \E h \in Handlers : PopEnter(h) \/ PopStep(h)
  \/ RunClosure

Spec == Init /\ [][Next]_vars

(***************************************************************************)
(* A thread inside push or async_pop keeps running, and some thread runs   *)
(* the io_service.  Nobody is obliged to call push or async_pop.           *)
(***************************************************************************)
Fairness ==
  /\ \A m \in Messages : WF_vars(PushStep(m))
  /\ \A h \in Handlers : WF_vars(PopStep(h))
  /\ WF_vars(RunClosure)

FairSpec == Spec /\ Fairness

-----------------------------------------------------------------------------
(* Properties *)

\* Every variable has the type the class gives it.
TypeOK ==
  /\ mutex \in Calls \cup {Free}
  /\ messages \in Seq(Messages)
  /\ handlers \in Seq(Handlers)
  /\ pc \in [Calls -> PC]
  /\ taken \in [Calls -> Calls \cup {Free}]
  /\ posted \in Seq(Closure)
  /\ invoked \in Seq(Closure)
  /\ pushed \in Seq(Messages)
  /\ popped \in Seq(Handlers)

\* push and async_pop never leave a message and a handler waiting for each
\* other: a message that is stored while a handler is stored would stay there
\* until the next call.
NobodyStranded == messages = <<>> \/ handlers = <<>>

\* The messages still stored are exactly those pushed after the last handler
\* that was served, in push order, and the handlers still stored exactly those
\* registered after the last message: nothing is lost, duplicated or reordered
\* between the two deques, whatever the interleaving of push and async_pop.
Backlog ==
  /\ messages = SubSeq(pushed, Len(popped) + 1, Len(pushed))
  /\ handlers = SubSeq(popped, Len(pushed) + 1, Len(popped))

\* The closures that have been made: still to be posted, posted, or run.
Made ==
  {[handler |-> taken[m], message |-> m] : m \in {x \in Messages : pc[x] = "post"}}
    \cup {[handler |-> h, message |-> taken[h]] : h \in {x \in Handlers : pc[x] = "post"}}
    \cup {posted[i] : i \in DOMAIN posted}
    \cup {invoked[i] : i \in DOMAIN invoked}

\* Every closure joins the i-th message to the i-th handler, for some i: calls
\* racing for the mutex never cross two pairs.
FifoPairing ==
  \A c \in Made :
    \E i \in DOMAIN pushed \cap DOMAIN popped :
      c = [handler |-> popped[i], message |-> pushed[i]]

\* The queue implements the rendezvous: in particular every pair is handed
\* over at most once.
Abstract ==
  INSTANCE Rendezvous WITH pushed <- pushed, popped <- popped, invoked <- invoked
ImplementsRendezvous == Abstract!Spec

\* Once the i-th message and the i-th handler have both arrived, the handler is
\* eventually called with that message.
EveryPairMeets ==
  \A m \in Messages, h \in Handlers :
    (\E i \in DOMAIN pushed \cap DOMAIN popped : pushed[i] = m /\ popped[i] = h)
      ~> (\E j \in DOMAIN invoked : invoked[j] = [handler |-> h, message |-> m])
=============================================================================
