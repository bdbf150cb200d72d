---------------------------- MODULE ObjectServer ----------------------------
(***************************************************************************)
(* DbusObjectServer (properties.hpp): three filters share the incoming     *)
(* messages of a connection; each has a queue (filter.hpp, detail/queue.hpp)*)
(* and one handler, which answers a message and registers itself again.    *)
(* The application registers and removes objects meanwhile.                *)
(*                                                                         *)
(* A queue is used here as its specification, Rendezvous, describes it.    *)
(* The application and the handlers share one thread: the class has no     *)
(* lock of its own.                                                        *)
(***************************************************************************)
EXTENDS Naturals, Sequences, FiniteSets, SequencesExt, Registry

CONSTANTS
  Path,         \* the object_name of each object
  Requests,     \* the messages that may arrive; see Request
  Null,         \* a shared_ptr that has been moved from
  MaxRemovals   \* bound: calls of remove_object

(***************************************************************************)
(* What is told apart of a message: its type, whether interface and member *)
(* are those of Introspect or GetManagedObjects, its path, and what        *)
(* LambdaDbusMethod finds when it is called.                               *)
(***************************************************************************)
Request ==
  [id : Nat,
   type : {"method_call", "other"},
   target : {"Introspect", "GetManagedObjects", "method"},
   path : {Path[o] : o \in Objects},
   finds : {"no_interface", "no_method", "bad_args", "throws", "pack_fails", "result"}]

ASSUME ServerAssumption ==
  /\ Null \notin Objects
  /\ Requests \subseteq Request
  /\ MaxRemovals \in Nat

VARIABLES
  backlog,    \* per filter: messages its queue holds
  waiting,    \* per filter: handlers its queue holds
  io,         \* closures posted to the io_service
  replies,    \* messages sent back, in order
  crashed,    \* a handler has dereferenced a null pointer
  arrived,    \* history: messages, in the order they were dispatched
  listed,     \* history: the objects that were registered when each arrived, and
              \* that it is about
  removed     \* history: objects that remove_object was called for

queues == <<backlog, waiting, io>>
vars == <<objects, queues, replies, crashed, arrived, listed, removed>>

\* The filters, in the order in which the constructor adds them.
Filters == <<"introspect_filter", "object_manager_filter", "method_filter">>
Filter == Range(Filters)

-----------------------------------------------------------------------------
(* Mutations: plausible mistakes, each of which one of the properties below   *)
(* must notice.  No specification uses them.                                  *)

\* The handler of a filter registers itself twice.
AsyncPopTwice(f, q) ==
  /\ backlog' = [backlog EXCEPT ![f] = IF @ = <<>> THEN @ ELSE Tail(@)]
  /\ waiting' = [waiting EXCEPT ![f] = IF backlog[f] = <<>> THEN @ + 2 ELSE @ + 1]
  /\ io' = IF backlog[f] = <<>> THEN q
           ELSE Append(q, [filter |-> f, message |-> Head(backlog[f])])

\* The handler does not register itself again.
AsyncPopForgotten(f, q) ==
  /\ io' = q
  /\ UNCHANGED <<backlog, waiting>>

\* A message is stored in front of those that wait already.
PushFront(f, m) ==
  IF waiting[f] > 0
    THEN /\ waiting' = [waiting EXCEPT ![f] = @ - 1]
         /\ io' = Append(io, [filter |-> f, message |-> m])
         /\ UNCHANGED backlog
    ELSE /\ backlog' = [backlog EXCEPT ![f] = <<m>> \o @]
         /\ UNCHANGED <<waiting, io>>

\* The first object is always removed.
StdRemoveFront(s, o) == Tail(s)

\* The list is answered without its last object.
ManagedShort == Range(SubSeq(objects, 1, Len(objects) - 1))

-----------------------------------------------------------------------------
(* Filters and queues *)

\* The predicates the constructor gives to the three filters.
Accepts(f, m) ==
  /\ m.type = "method_call"
  /\ f = "introspect_filter" => m.target = "Introspect"
  /\ f = "object_manager_filter" => m.target = "GetManagedObjects"

\* queue::push by filter::offer.
Push(f, m) ==
  IF waiting[f] > 0
    THEN /\ waiting' = [waiting EXCEPT ![f] = @ - 1]
         /\ io' = Append(io, [filter |-> f, message |-> m])
         /\ UNCHANGED backlog
    ELSE /\ backlog' = [backlog EXCEPT ![f] = Append(@, m)]
         /\ UNCHANGED <<waiting, io>>

\* queue::async_pop by filter::async_dispatch, where q is what the
\* io_service holds otherwise.
AsyncPop(f, q) ==
  /\ backlog' = [backlog EXCEPT ![f] = IF @ = <<>> THEN @ ELSE Tail(@)]
  /\ waiting' = [waiting EXCEPT ![f] = IF backlog[f] = <<>> THEN @ + 1 ELSE @]
  /\ io' = IF backlog[f] = <<>> THEN q
           ELSE Append(q, [filter |-> f, message |-> Head(backlog[f])])

\* The constructor: the handler of each filter waits.
Init ==
  /\ objects = <<>>
  /\ backlog = [f \in Filter |-> <<>>]
  /\ waiting = [f \in Filter |-> 1]
  /\ io = <<>>
  /\ replies = <<>>
  /\ crashed = FALSE
  /\ arrived = <<>>
  /\ listed = [m \in Requests |-> {}]
  /\ removed = {}

\* libdbus dispatches a message: filter_callback of each filter in turn, until one
\* accepts it.  A message nobody accepts is left to libdbus.
Arrive(m) ==
  LET taking == {i \in DOMAIN Filters : Accepts(Filters[i], m)}
  IN  /\ ~crashed
      /\ m \notin Range(arrived)
      /\ arrived' = Append(arrived, m)
      /\ listed' = [listed EXCEPT ![m] =
           {o \in Range(objects) \ {Null} : m.target = "method" => Path[o] = m.path}]
      /\ IF taking = {} THEN UNCHANGED queues ELSE Push(Filters[Min(taking)], m)
      /\ UNCHANGED <<objects, replies, crashed, removed>>

-----------------------------------------------------------------------------
(* The objects *)

\* add_object and register_object; the application registers an object once.
RegisterObject(o) ==
  /\ ~crashed
  /\ o \notin Range(objects) \cup removed
  /\ objects' = Append(objects, o)
  /\ UNCHANGED <<queues, replies, crashed, arrived, listed, removed>>

\* std::remove moves the elements to keep to the front and leaves the length as
\* it is: behind them an element that was moved is null, one that was not is
\* still there.
StdRemove(s, o) ==
  LET kept   == {i \in DOMAIN s : s[i] # o}
      nth(k) == CHOOSE i \in kept : Cardinality({j \in kept : j <= i}) = k
  IN  [i \in DOMAIN s |->
         IF i <= Cardinality(kept) THEN s[nth(i)] ELSE IF s[i] = o THEN o ELSE Null]

\* remove_object.
RemoveObject(o) ==
  /\ ~crashed
  /\ Cardinality(removed) < MaxRemovals
  /\ o \in Range(objects) \ removed
  /\ objects' = StdRemove(objects, o)
  /\ removed' = removed \cup {o}
  /\ UNCHANGED <<queues, replies, crashed, arrived, listed>>

-----------------------------------------------------------------------------
(* The handlers *)

\* LambdaDbusMethod::call, DbusInterface::call and DbusObject::call: exactly one
\* reply, or none when the interface or the method does not exist.
MethodAnswers(m) ==
  CASE m.finds \in {"no_interface", "no_method"} -> <<>>
    [] m.finds = "bad_args"                      -> <<"InvalidArgs">>
    [] m.finds \in {"throws", "pack_fails"}      -> <<"Failed">>
    [] m.finds = "result"                        -> <<"return">>

\* The objects on_get_managed_objects puts into its answer.
Managed == Range(objects)

\* The first element of objects that is null or has the path of the message.
FirstFor(m) ==
  {i \in DOMAIN objects :
     /\ objects[i] = Null \/ Path[objects[i]] = m.path
     /\ \A j \in 1..(i - 1) : objects[j] # Null /\ Path[objects[j]] # m.path}

\* on_introspect and on_get_managed_objects look at every object, on_method_call at
\* those up to the one it is for.
Crashes(m) ==
  IF m.target = "method"
    THEN \E i \in FirstFor(m) : objects[i] = Null
    ELSE Null \in Range(objects)

\* The replies the handler of filter f sends for m.
Answers(f, m) ==
  CASE f = "introspect_filter"     -> <<[to |-> m, what |-> "return", lists |-> {}]>>
    [] f = "object_manager_filter" -> <<[to |-> m, what |-> "return", lists |-> Managed]>>
    [] f = "method_filter" ->
         IF FirstFor(m) = {} THEN <<>>
         ELSE [i \in DOMAIN MethodAnswers(m) |->
                 [to |-> m, what |-> MethodAnswers(m)[i], lists |-> {}]]

\* The io_service runs a handler: on_introspect, on_get_managed_objects or
\* on_method_call.  It answers, then calls async_dispatch again.
RunHandler ==
  LET f == Head(io).filter
      m == Head(io).message
  IN  /\ ~crashed /\ io # <<>>
      /\ ~Crashes(m)
      /\ replies' = replies \o Answers(f, m)
      /\ AsyncPop(f, Tail(io))
      /\ UNCHANGED <<objects, crashed, arrived, listed, removed>>

\* The handler dereferences a null element of objects.
HandlerCrashes ==
  /\ ~crashed /\ io # <<>>
  /\ Crashes(Head(io).message)
  /\ crashed' = TRUE
  /\ UNCHANGED <<objects, queues, replies, arrived, listed, removed>>

-----------------------------------------------------------------------------
Next ==
  \/ \E m \in Requests : Arrive(m)
  \/ \E o \in Objects : RegisterObject(o) \/ RemoveObject(o)
  \/ RunHandler
  \/ HandlerCrashes

Spec == Init /\ [][Next]_vars

\* A thread runs the io_service.
FairSpec == Spec /\ WF_vars(RunHandler \/ HandlerCrashes)

-----------------------------------------------------------------------------
(* Properties *)

\* Each filter has exactly one handler, waiting or posted: with none its messages
\* would pile up, with two they would be answered side by side.
OneHandlerPerFilter ==
  \A f \in Filter :
    waiting[f] + Cardinality({i \in DOMAIN io : io[i].filter = f}) = 1

\* The filter that takes a message is the first one that accepts it.
FilterOf(m) == Filters[Min({i \in DOMAIN Filters : Accepts(Filters[i], m)})]

PositionOf(m) == CHOOSE i \in DOMAIN arrived : arrived[i] = m

\* A message is answered at most once, and the messages of one filter are answered
\* in the order in which they arrived, however handlers, queues and registrations
\* interleave.
AnsweredInOrder ==
  \A i, j \in DOMAIN replies :
    (i < j /\ FilterOf(replies[i].to) = FilterOf(replies[j].to))
      => PositionOf(replies[i].to) < PositionOf(replies[j].to)

\* GetManagedObjects lists at least the objects that were registered when the
\* message arrived and have not been removed since.
ManagedObjectsComplete ==
  \A i \in DOMAIN replies :
    replies[i].to.target = "GetManagedObjects"
      => listed[replies[i].to] \ removed \subseteq replies[i].lists

\* The objects a method call for their path can reach.
Reachable ==
  {o \in Objects : \E i \in DOMAIN objects :
     /\ objects[i] = o
     /\ \A j \in 1..(i - 1) : objects[j] # Null /\ Path[objects[j]] # Path[o]}

\* Registering and removing objects never takes another object out of reach.
OthersStayReachable ==
  [][Reachable \subseteq Reachable' \cup removed']_vars

\* A call that the object it is for can answer is answered, whatever else arrives and
\* however objects come and go, unless an object at its path is removed first or a
\* handler runs into an element that remove_object has left null.
EveryRequestAnswered ==
  \A m \in Requests :
    ( /\ m \in Range(arrived) /\ m.type = "method_call"
      /\ m.target = "method" =>
           /\ MethodAnswers(m) # <<>>
           /\ listed[m] # {} )
      ~> \/ \E i \in DOMAIN replies : replies[i].to = m
         \/ \E o \in removed : Path[o] = m.path
         \/ crashed
=============================================================================
