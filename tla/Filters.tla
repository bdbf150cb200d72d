------------------------------ MODULE Filters -------------------------------
(***************************************************************************)
(* Filters that come and go (filter.hpp, impl/filter.ipp).  Each message   *)
(* that is dispatched is offered to the filters of the connection, oldest  *)
(* first, until one takes it; it then meets a handler in the queue of that *)
(* filter.  The application constructs and destroys filters and registers  *)
(* handlers at any time, even from the predicate of a filter, which        *)
(* libdbus calls in the middle of a dispatch.                              *)
(*                                                                         *)
(* One thread dispatches, runs the handlers and destroys filters: nothing  *)
(* in filter or in libdbus keeps a filter alive while another thread is    *)
(* inside its filter_callback.  A push or an async_pop is one step; that   *)
(* the code with its mutex behaves so is shown in Queue.                   *)
(***************************************************************************)
EXTENDS Naturals, Sequences, SequencesExt

CONSTANTS
  Filter,    \* filter objects, each constructed and destroyed at most once
  Messages,  \* incoming messages
  Handlers,  \* one element per call of async_dispatch
  Nothing    \* no message is being dispatched

ASSUME FiltersAssumption == Nothing \notin Messages

VARIABLES
  chain,     \* the filters libdbus has, oldest first
  disposed,  \* filters that have been destroyed
  current,   \* the message that is being dispatched, or Nothing
  rest,      \* filters it is still to be offered to: libdbus' copy of the chain
  messages,  \* queue_.messages of each filter
  handlers,  \* queue_.handlers of each filter
  io,        \* closures posted to the io_service
  pushed,    \* history: the messages each filter took, in order
  popped,    \* history: the handlers registered with each filter, in order
  invoked,   \* history: the closures of each filter that have run, in order
  born,      \* history: the filters, in the order they were constructed
  before,    \* history: those that existed when each message was dispatched
  asked      \* history: the filters whose predicate has seen each message

queues == <<messages, handlers, io, pushed, popped, invoked>>
vars == <<chain, disposed, current, rest, queues, born, before, asked>>

Empty == [f \in Filter |-> <<>>]

Init ==
  /\ chain = <<>> /\ disposed = {}
  /\ current = Nothing /\ rest = <<>>
  /\ messages = Empty /\ handlers = Empty /\ io = <<>>
  /\ pushed = Empty /\ popped = Empty /\ invoked = Empty
  /\ born = <<>>
  /\ before = [m \in Messages |-> {}]
  /\ asked = [m \in Messages |-> {}]

-----------------------------------------------------------------------------
(* Mutations: plausible mistakes, each of which one of the properties below   *)
(* must notice.  No specification uses them.                                  *)

\* An exception counts as if the message had been handled.
HandledOnThrow(outcome) == outcome # "refuse"

\* The queue of a filter is not emptied in the order it was filled.
AsyncPopLast(f, h) ==
  IF messages[f] = <<>>
    THEN /\ handlers' = [handlers EXCEPT ![f] = Append(@, h)]
         /\ UNCHANGED <<messages, io>>
    ELSE /\ messages' = [messages EXCEPT ![f] = Front(@)]
         /\ io' = Append(io, [filter |-> f, closure |-> [handler |-> h, message |-> Last(messages[f])]])
         /\ UNCHANGED handlers

\* The message takes a handler out of the queue and is not posted.
PushUnposted(f, m) ==
  IF handlers[f] = <<>>
    THEN /\ messages' = [messages EXCEPT ![f] = Append(@, m)]
         /\ UNCHANGED <<handlers, io>>
    ELSE /\ handlers' = [handlers EXCEPT ![f] = Tail(@)]
         /\ UNCHANGED <<messages, io>>

-----------------------------------------------------------------------------
(* The life of a filter *)

\* new_filter: dbus_connection_add_filter.
AddFilter(f) == Append(chain, f)

\* libdbus takes a filter out of a list that has it once, or not at all.
Without(s, f) ==
  IF f \in Range(s) THEN RemoveAt(s, CHOOSE i \in DOMAIN s : s[i] = f) ELSE s

\* delete_filter: dbus_connection_remove_filter.
RemoveFilter(f) == Without(chain, f)

\* The filter whose predicate is being called.
Asking == IF current = Nothing THEN {} ELSE {Head(rest)}

\* The constructor.
NewFilter(f) ==
  /\ f \notin Range(chain) \cup disposed
  /\ chain' = AddFilter(f)
  /\ born' = Append(born, f)
  /\ UNCHANGED <<disposed, current, rest, queues, before, asked>>

\* The destructor: what the queue holds is gone, closures that were posted are not.
\* libdbus skips a filter that was removed during a dispatch.
DeleteFilter(f) ==
  /\ f \in Range(chain) \ (disposed \cup Asking)
  /\ chain' = RemoveFilter(f)
  /\ disposed' = disposed \cup {f}
  /\ rest' = Without(rest, f)
  /\ messages' = [messages EXCEPT ![f] = <<>>]
  /\ handlers' = [handlers EXCEPT ![f] = <<>>]
  /\ UNCHANGED <<current, io, pushed, popped, invoked, born, before, asked>>

-----------------------------------------------------------------------------
(* The queue of a filter *)

\* queue::push.
Push(f, m) ==
  IF handlers[f] = <<>>
    THEN /\ messages' = [messages EXCEPT ![f] = Append(@, m)]
         /\ UNCHANGED <<handlers, io>>
    ELSE /\ handlers' = [handlers EXCEPT ![f] = Tail(@)]
         /\ io' = Append(io, [filter |-> f,
                              closure |-> [handler |-> Head(handlers[f]), message |-> m]])
         /\ UNCHANGED messages

\* queue::async_pop.
AsyncPop(f, h) ==
  IF messages[f] = <<>>
    THEN /\ handlers' = [handlers EXCEPT ![f] = Append(@, h)]
         /\ UNCHANGED <<messages, io>>
    ELSE /\ messages' = [messages EXCEPT ![f] = Tail(@)]
         /\ io' = Append(io, [filter |-> f,
                              closure |-> [handler |-> h, message |-> Head(messages[f])]])
         /\ UNCHANGED handlers

\* async_dispatch; that it starts the connection is in EventLoop.
AsyncDispatch(f, h) ==
  /\ f \in Range(chain)
  /\ \A g \in Filter : h \notin Range(popped[g])
  /\ AsyncPop(f, h)
  /\ popped' = [popped EXCEPT ![f] = Append(@, h)]
  /\ UNCHANGED <<chain, disposed, current, rest, pushed, invoked, born, before, asked>>

\* The io_service runs the oldest closure.
RunClosure ==
  /\ current = Nothing
  /\ io # <<>>
  /\ invoked' = [invoked EXCEPT ![Head(io).filter] = Append(@, Head(io).closure)]
  /\ io' = Tail(io)
  /\ UNCHANGED <<chain, disposed, current, rest, messages, handlers, pushed, popped,
                 born, before, asked>>

-----------------------------------------------------------------------------
(* Dispatching *)

\* dbus_connection_dispatch copies the list of filters.
Dispatch(m) ==
  /\ current = Nothing
  /\ before[m] = {}
  /\ chain # <<>>
  /\ current' = m
  /\ rest' = chain
  /\ before' = [before EXCEPT ![m] = Range(born) \ disposed]
  /\ UNCHANGED <<chain, disposed, queues, born, asked>>

\* filter_callback: whether it tells libdbus that the message was handled.
Handled(outcome) == outcome = "accept"

\* filter_callback of the next filter, from the moment the predicate comes to its
\* outcome: offer pushes an accepted message, an exception is caught.
FilterCallback(outcome) ==
  /\ current # Nothing
  /\ LET f == Head(rest)
     IN  /\ asked' = [asked EXCEPT ![current] = @ \cup {f}]
         /\ IF outcome = "accept"
              THEN Push(f, current) /\ pushed' = [pushed EXCEPT ![f] = Append(@, current)]
              ELSE UNCHANGED <<messages, handlers, io, pushed>>
  /\ rest' = IF Handled(outcome) THEN <<>> ELSE Tail(rest)
  /\ current' = IF rest' = <<>> THEN Nothing ELSE current
  /\ UNCHANGED <<chain, disposed, popped, invoked, born, before>>

-----------------------------------------------------------------------------
Next ==
  \/ \E f \in Filter : NewFilter(f) \/ DeleteFilter(f)
  \/ \E f \in Filter, h \in Handlers : AsyncDispatch(f, h)
  \/ \E m \in Messages : Dispatch(m)
  \/ \E outcome \in {"accept", "refuse", "throw"} : FilterCallback(outcome)
  \/ RunClosure

Spec == Init /\ [][Next]_vars

\* A predicate comes to an end, and a thread runs the io_service.
FairSpec ==
  /\ Spec
  /\ WF_vars(\E outcome \in {"accept", "refuse", "throw"} : FilterCallback(outcome))
  /\ WF_vars(RunClosure)

-----------------------------------------------------------------------------
(* Properties *)

\* The filters that took message m.
Takers(m) == {f \in Filter : m \in Range(pushed[f])}

\* Filter f was constructed before g.
Older(f, g) == \E i, j \in DOMAIN born : i < j /\ born[i] = f /\ born[j] = g

\* A message is demultiplexed to one queue: the one of the oldest filter that
\* accepts it.  A filter is passed over only if its predicate refused the message or
\* threw, or if it was destroyed during the dispatch; a message nobody takes has
\* been seen by all the others.
OldestTakes ==
  \A m \in Messages :
    /\ \A f, g \in Takers(m) : f = g
    /\ m # current =>
         \A f \in before[m] :
           \/ f \in asked[m] \cup disposed
           \/ \E g \in Takers(m) \cap before[m] : Older(g, f)

\* To its users every filter is a rendezvous of its own: the i-th message it takes
\* goes to the i-th handler registered with it, once, whatever happens to the others
\* and even when the filter is destroyed in between.
R(f) == INSTANCE Rendezvous WITH
          pushed <- pushed[f], popped <- popped[f], invoked <- invoked[f]
EachIsRendezvous ==
  /\ \A f \in Filter : R(f)!Init
  /\ [][\A f \in Filter : [R(f)!Next]_(R(f)!vars)]_vars

\* A message that has met its handler reaches it, even if the filter is destroyed
\* before the closure runs.
EveryPairMeets ==
  \A f \in Filter, m \in Messages, h \in Handlers :
    (\E i \in DOMAIN pushed[f] \cap DOMAIN popped[f] : pushed[f][i] = m /\ popped[f][i] = h)
      ~> [handler |-> h, message |-> m] \in Range(invoked[f])
=============================================================================
