# Verification of boost-dbus

boost-dbus is a header-only C++ library (`include/dbus/`) that runs a libdbus
connection inside a `boost::asio::io_service` and offers asynchronous method
calls, filters, typed arguments and an object server on top of it. This
directory holds TLA+ models of its core, the TLC configurations that check them
on small instances, and TLAPS proofs of what matters most.

`PROJECT.json` lists, for every definition that models code, the source lines it
stands for; for every property, a mutation of the model that breaks it; and the
hazards the properties are aimed at.

## 1. Inventory

| Part | State | Operations | Modelled in |
|---|---|---|---|
| `detail::queue` (`detail/queue.hpp`) | a mutex, a deque of messages, a deque of handlers | `push`, `async_pop`, the closures they post | `Queue`, `Rendezvous` |
| event loop binding (`detail/watch_timeout.hpp`, `impl/connection.ipp`) | `is_paused`; per watch a socket with outstanding operations; per timeout a timer; posted `dispatch_handler`s | `start`, `cancel`, `add_watch`, `watch_toggled`, `watch_handler`, `dispatch_status`, `dispatch_handler`, blocking calls | `EventLoop` |
| asynchronous calls (`detail/async_send_op.hpp`, `connection_service.hpp`, `connection.hpp`) | an `async_send_op` on the heap per call, the `DBusPendingCall` and its timer | `async_send`, `async_method_call`, `flush`, `callback`, `timeout_handler` | `AsyncSend` |
| properties (`DbusInterface` in `properties.hpp`) | `properties_map` | `set_property`, `set_properties`, `Get`, `GetAll`, `Set` | `Properties` |
| object server (`DbusObjectServer` in `properties.hpp`) | `objects`, three filters with a queue and a handler each | `register_object`, `remove_object`, `on_introspect`, `on_get_managed_objects`, `on_method_call` | `ObjectServer` |
| object manager (`DbusObject`, `DbusObjectServer` in `properties.hpp`) | the interfaces of each object, the object each interface speaks for, one static endpoint | `register_interface` with `InterfacesAdded`, `register_object`, `GetManagedObjects`, `set_property` | `ObjectManager` |
| introspection (`get_xml_for_path` in `properties.hpp`) | object paths, the methods of each interface | `register_method`, `add_interface`, `Introspect` | `Introspection` |
| filters (`filter.hpp`, `impl/filter.ipp`) | libdbus' list of filters, a queue each | construction, destruction, `filter_callback`, `offer`, `async_dispatch` | `Filters`, `Rendezvous` |
| connection, names and matches (`connection.hpp`, `impl/connection.ipp`, `match.hpp`, `impl/match.ipp`, `error.hpp`) | the `DBusConnection`, who holds a `connection_ptr`, the rules and names the bus keeps | opening, closing, `request_name`, construction and destruction of `match` and `filter` | `Connection` |
| message codec (`message.hpp`, `element.hpp`, `impl/message_iterator.ipp`) | the arguments of a message | `pack`, `unpack`, `element_signature` | `Codec` |
| endpoint (`endpoint.hpp`), error text, build and tests | | | not modelled, see section 7 |

How they interact. libdbus calls back into the binding: `add_watch`,
`watch_toggled`, `add_timeout` and `dispatch_status` come from inside libdbus
functions, on whichever thread called those. The binding answers by starting
reads on a socket, by starting timers and by posting handlers to the io_service,
and the handlers call libdbus again. `dbus_connection_dispatch` runs the reply
callback of a pending call or the filters; a filter pushes the message into its
queue, and the queue posts the application's handler. The object server is an
application of filters: its handlers answer a message and register themselves
again.

What makes each part correct:

* queue: every message meets exactly one handler, in order, and none waits while a
  partner waits too;
* event loop: a started connection always has a dispatch_handler to come while
  messages are queued, exactly one chain of reads while the watch is enabled, and
  handlers that do not multiply;
* asynchronous calls: the handler is called exactly once, with the answer that was
  first, nothing outlives the call it belongs to, and nothing is freed twice;
* properties: a client that listens can know every value, and no reply contradicts
  what was announced before it;
* object server: one handler per filter, one answer per call and in order, and objects
  that do not disturb each other;
* object manager: a client that asks once and then follows the signals misses
  nothing and knows nothing wrong;
* introspection: a client that walks the tree finds every object and is told nothing
  that a later call contradicts;
* filters: a message goes to the oldest filter that accepts it, and what a filter does
  is not disturbed by others that come and go;
* connection: one `DBusConnection` as long as anybody needs it and none afterwards, and
  a rule on the bus for every match;
* codec: what is packed is unpacked, nothing is unpacked as what it is not, and a
  variable that is used again loses nothing.

What is hard about it:

* a wakeup that is given only once (libdbus reports a dispatch status only when it
  changes, an asynchronous read completes once), so one missed post or read stops
  the connection for ever;
* several threads in `io_service::run`, `start` called at the same time by all of
  them, and blocking calls that read the same socket meanwhile;
* a reply racing its timeout, and either of them racing the code that has just
  sent the call;
* lifetime by plain pointer: the op, the `DBusTimeout`, the timer;
* messages that queue up while a handler runs, objects that come and go meanwhile;
* filters destroyed in the middle of a dispatch, or with closures still posted;
* calls to the bus that time out and are carried out nevertheless;
* a client whose question and the signals it listens to cross each other;
* `unpack` guessing its way through arguments of any type.

## 2. Plan

Modules in order of importance. All of them are written and checked.

1. `Queue`, with its promise `Rendezvous` and `QueueProofs`.
2. `EventLoop` with `EventLoopProofs`.
3. `AsyncSend`: a call, its reply, its timeout, its handler, and output that gets stuck.
4. `Properties`: property updates and a client that mirrors them.
5. `ObjectServer`, which uses the queues of item 1 as `Rendezvous` describes them.
6. `Filters`: filters that come and go, each of them a `Rendezvous`.
7. `Connection`: ownership, names and match rules.
8. `ObjectManager` and `Introspection`: two clients that follow the objects.
9. `Codec`, pure operators on argument trees.

Proofs, in the same order. `QueueProofs`, `EventLoopProofs`, `AsyncSendProofs`,
`PropertiesProofs`, `ObjectServerProofs`, `FiltersProofs` and `ConnectionProofs` cover every
safety property of items 1 to 8 that a run checks, with the refinements of `Rendezvous`
(twice); `DataLemmas` has the facts on numbers and sequences that several of them need. The proofs about `ObjectManager` are in
`PropertiesProofs`, because they follow a client's mirror through signals in the same way;
those about `Introspection` are in `ObjectServerProofs`, next to the other proofs about
`DbusObjectServer`. So that a proof module can extend two models, what these have in
common is declared once: the objects in `Registry`, a client's mirror and the messages on
their way to it in `Mirroring`. Their specifications have names of their own (`WalkSpec`,
`ManagerSpec`).

Still open as a model: the life of a watch (`remove_watch` while a completion of its
socket is queued).

## 3. The modules

**Rendezvous** is what `detail::queue` promises: the *i*-th message pushed is handed
to the *i*-th handler that asked, once. It says nothing about the order of two
hand-overs, because the code posts after it has released the mutex.

**Queue** makes the mutex explicit. Every call of `push` or `async_pop` is an actor.
`PushEnter` takes the lock and tests the deque; `PushStore` or `PushTake` changes one
deque and releases; `PushPost` posts after the release. `async_pop` has the same
steps. `RunClosure` is the io_service. `pushed`, `popped` and `invoked` are
histories, and they are the state of `Rendezvous`, so the refinement mapping is the
identity on them.

**EventLoop** counts messages in the socket (`wire`) and in libdbus (`incoming`),
since nothing in the binding depends on which message is which. Threads of the
io_service run `dispatch_handler` (`RunDispatchHandler` to `Repost`) and the
`watch_handler` of the read watch (`RunWatchHandler` to `WatchToggledAct`). Each is
cut wherever another thread can act in between: before and after a call of
`dispatch_status`, and between `dbus_watch_get_enabled` and what `watch_toggled` does
with it. `StartExchange` and `StartPost` are the two halves of `start()`.
`BlockBegin`, `BlockRead`, `BlockEnd` and `BlockNotify` are a blocking call:
libdbus reads the socket itself and takes its own reply out of the queue.
`last_status` is libdbus' memory of what it reported. A message that a filter accepts is
still referenced by the queue of the filter (`held`), and counts for the limit of libdbus,
until a handler of the application has run with it (`HandleAccepted`); an application may
never provide one.

**AsyncSend** models the queue of the io_service as a sequence, with the reactor's
marker in it, as asio does: the thread that takes the marker appends the reads and
timers that are ready. This order matters, since whether a timer's completion can be
queued in front of the handler that frees the call decides `NoDanglingPointer`.
`SendWithReply`, `SetNotify` and `GetCompleted` are separate steps, as the FIXME in
`async_send_op.hpp` says they must be. `RemoveTimeouts` deletes the timer of a call, and
deletes it twice when libdbus has it removed twice: `remove_timeout` does not reset the
data pointer (watch_timeout.hpp:123-126). A second delete (`DeletesAgain`) and a look at a
pending call that was freed (`ReadsFreed`) are undefined behaviour: the program may go on,
or it aborts (`Abort`) and nothing runs any more. A closed connection (`SendDisconnected`) and
arguments that cannot be packed (`PackError`) are modelled too; the code calls no
handler for them. `Pools` lets one run cover applications with one thread and with
several. `Write` moves what the socket takes out of libdbus' outgoing queue; nothing but
the next send or `Flush` moves the rest, because `add_watch` gives the write watch,
which is disabled when it is added, no socket (watch_timeout.hpp:58-60), and
`watch_toggled` ignores a watch without one (36-39).

**Properties** has the `properties_map` of one interface, the application that calls
`set_properties` with a list of pairs in either mode, the `Get`, `GetAll` and `Set`
methods, and a client. Signals and replies share one `outbox` because they share one
connection.

**ObjectServer** has the three filters in the order in which they are added, their
queues, and the vector of objects. `StdRemove` is `std::remove` without `erase`, as
the code has it: the vector keeps its length, and behind the elements that were kept
an element that was moved from is null. `HandlerCrashes` is the dereference of that
null pointer.

**Codec** describes a C++ type by a record and an argument by a tree of type codes.
`Pack` and `Unpack` follow the overloads of `packer` and `unpacker`; what a failed
`unpack` leaves in its variables is part of `Unpack`. `Codec` uses `RECURSIVE`
operators and is therefore only model-checked. A variable may hold something before it
is unpacked into: a vector is appended to, a map keeps the pairs it has. A new message has
no arguments, or the text of an error as its first (`NewError`).

**Filters** has libdbus' list of filters, the copy of it that a dispatch works on
(`rest`), and the queue of each filter with both its sides. `Dispatch` and
`FilterCallback` are separate steps, so that a predicate can destroy other filters in
between; `FilterCallback` has the three outcomes of a predicate, and an exception
counts as a refusal. `DeleteFilter` drops what the queue holds, while closures that
were posted survive. One thread runs everything here; `Queue` has the threads.

**Connection** has the `DBusConnection`, the set of holders of a `connection_ptr`
(application, filters, matches), and what the bus keeps for this client. Every
blocking call may succeed, be refused, time out or find the connection lost
(`Outcomes`); a request that timed out is still on its way (`late`), and the bus
carries it out or refuses it later (`BusCatchesUp`). `abandoned` counts, for each rule, the
`AddMatch` calls of the present connection that timed out. `OpenFails` is a constructor that throws before
or after the `DBusConnection` exists. `DeleteMatchThrows` ends the program: an
exception leaves a destructor.

**ObjectManager** is a client that subscribes, asks for `GetManagedObjects` once and then
follows `InterfacesAdded` and `PropertiesChanged`, while the application constructs and
registers objects, registers and replaces interfaces and sets values, also those of
interfaces that are not registered yet or were replaced, for `set_properties` does not ask.
A signal has the path it is from: `PropertiesChanged` that of the object the instance was
registered with last, `InterfacesAdded` that of the static `endpoint`, which the first
`register_interface` of the program sets (properties.hpp:379). And it has the type the path of
the object is packed as: `InterfacesAdded` a string (391), although the introspection data
declares an object path (589) and `GetManagedObjects` uses one (515). A `client` is any set of paths
it has match rules for and either type; `Heard` says what it makes of a signal. `speaker`
records whose value the client was told last. An instance that was never registered has an
empty path, with which libdbus makes no message.

**Introspection** has `get_xml_for_path` on paths as sequences of characters, because
the code cuts node names out of strings by position (`Subnode`), and a client that
walks the tree from `/`, as busctl does, while objects, interfaces and methods are
added. Of the XML it keeps the names of nodes, a set like `node_names` in the code
(`Nodes`), and what is said about methods (`ArgTypes`, `Args`). `IsPath` is what libdbus
accepts as an object path: a slash before each name, no empty names.

libdbus, asio, the message bus, the peer and the client are not in the repository.
They are modelled from how the code uses them and marked external in
`PROJECT.json`. What is assumed of libdbus: `dispatch_status` is called when the
status differs from the one reported last; one thread dispatches at a time; a timeout
is removed when the answer is read or the timeout is handled; a message whose pending
call is complete goes to the filters; the read watch is disabled while too many
received messages are alive.

Every module has a section of *mutations*, plausible mistakes in the code. No
specification uses them; each shows that some property would notice.

## 4. Runs

| Run | Instance | Shows |
|---|---|---|
| `queue` | 3 pushes, 3 pops, fair | `NobodyStranded`, `Backlog`, `FifoPairing`: no message and handler wait for each other, nothing is lost, duplicated or paired out of order; `ImplementsRendezvous`, `EveryPairMeets` |
| `event_loop` | 2 threads, 2 starters, 1 blocking call, 3 messages, 1 left over by `open()`, 1 cancel, fair | `NoLostWakeup`, `HandlersBounded`, `OneReader`, `EverythingDispatched` |
| `event_loop_flow_control` | 1 thread, 2 starters, 4 messages, at most 2 alive, filters that keep messages, fair | `OneReader`, `EverythingDispatched` while libdbus toggles the watch |
| `async_send` | 1 or 2 threads, 2 method calls, 1 signal, fair | `NoDanglingPointer`, `DeletedOnceUnlessReplied`, `OpHasOwner`, `FirstAnswerOnce`, `AnsweredUnlessOvertaken` |
| `async_send_race` | 2 threads, 1 method call, fair | `EveryCallAnswered` is **violated**, see section 6 |
| `properties` | 2 names, 2 values, 2 updates of up to 2 pairs, 2 client calls | `MirrorCatchesUp`, `RepliesAgree` |
| `object_server` | 3 objects (2 of one path), 4 calls, 1 removal, fair | `OneHandlerPerFilter`, `AnsweredInOrder`, `ManagedObjectsComplete`, `OthersStayReachable`, `EveryRequestAnswered` |
| `codec` | 9 types, containers of up to 2, messages of up to 2 arguments, 2 types unpacked into used variables | `RoundTrip`, `UnpackChecksSignature`, `OldContentSurvives` |
| `introspection` | 2 objects, any of 8 paths, 2 interfaces, 2 methods of one name | `WalkFindsEverything`, `LeadsSomewhere`, `DescriptionStaysTrue` |
| `filters` | 2 filters, 3 messages, 2 handlers, fair | `OldestTakes`, `EachIsRendezvous`, `EveryPairMeets` |
| `connection` | 2 connections in a row, 3 matches (2 of one expression), 1 filter, 1 name, 2 timeouts | `OwnedExactlyOnce`, `MatchesInForce` |
| `object_manager` | 2 objects, 3 interfaces of 2 names, 2 values, 4 changes, any client | `MirrorIsRight`, `NothingMissed` |

The type invariants of `Queue`, `EventLoop` and `AsyncSend` are checked as well.

Bounds. Queue: with three calls on a side a message can overtake, wait behind
another and meet a racing handler all at once. Event loop: a blocking call, a
dispatching thread and a reading thread can each hold one of three messages, and a
fourth suffices to disable and enable the watch twice. `MaxLeftover` is below
`MaxLive`, so that `open()` finds the read watch enabled; libdbus' default limits
are far above what registering with the bus can leave behind. AsyncSend: two calls,
so that the timer of one and the reply of the other complete in one turn of the
reactor; of the answers of a peer, those two kinds that `async_method_call` tells apart
(`Replies`), since an error takes the way of a return that does not fit. Properties: two pairs in an update, so that one call changes a property
twice. Object server: three messages for one filter, so that two of them wait, and a
fourth for another filter; `Introspect` takes the same way as `GetManagedObjects` and is
the subject of `Introspection`. Codec: two elements, so that the second can fail after
the first was taken, and two keys can be equal. Introspection: the paths are chosen in
pairs that share a node, or only letters, or are above one another; the walk is decided
by pairs. Filters: a filter that is skipped, destroyed or throws, another that takes
the message, and a message that waits behind another. Connection: two connections, so
that what the first leaves behind would be seen by the second. Object manager: four
changes, so that an interface can be registered, replaced, set, and set again.

Deadlock. A state without a successor is one in which every call of a bounded set
was made and answered; the configurations with such bounds say
`CHECK_DEADLOCK FALSE`. In `AsyncSend` the reactor never stops, but the program may
abort.

Properties that hold under a condition, and what the code does not keep:

* `OneReader` and `EverythingDispatched` are checked with one thread under flow
  control, or with several without it. With both, one thread can see the watch
  disabled, another enable it and start a read, and the first then cancel that read
  (watch_timeout.hpp:43-54); the code has no lock there.
* `EverythingDispatched` grants that the socket stays unread while messages which filters
  have accepted, and for which the application registers no handlers, reach libdbus' limit of
  messages that may be alive. The code does nothing against it.
* `NoDanglingPointer` speaks of one thread: with several, a `timeout_handler` can run
  after `callback()` has freed the call, and so can the `get_completed` of the sender.
* **A timer may be deleted twice**, with one thread too: the timer completes and the socket
  becomes readable in one turn of the reactor, the reply is read first and has its timeout
  removed, then `timeout_handler` runs and `dbus_timeout_handle` has it removed again
  (watch_timeout.hpp:91, 123-126). `DeletedOnceUnlessReplied` does not exclude that; it says
  that there is no other way to a second delete: not for a call whose timeout was queued
  first, nor for one the peer never answers. The other properties hold for a program that
  goes on after it and, for liveness, up to the abort.
* `AnsweredUnlessOvertaken` and `OpHasOwner` except an answer that overtakes the sender
  (section 6), and calls without a pending call. A signal that does not fit into the
  socket waits until something else is sent, flushed or waited for.
* `MirrorCatchesUp` is checked for applications that `FORCE` only values that are
  stored, because `FORCE` announces without storing (properties.hpp:229-231).
* `OthersStayReachable` says that removing an object spares the others; the removed
  object itself may stay in the vector, and a null element may make the next handler
  crash (properties.hpp:551). `EveryRequestAnswered` speaks of calls that an object can
  answer; calls for unknown paths or methods are dropped without a reply
  (properties.hpp:295, 402).
* `UnpackChecksSignature` excepts empty containers, whose element type `unpack` never
  looks at.
* `WalkFindsEverything` grants that the object at `/` is never described, because its
  path is compared with the empty string (properties.hpp:559-572). `LeadsSomewhere`
  excepts names that continue each other: for `/a` the object `/ab/c` is shown as a
  node that leads nowhere.
* `MatchesInForce` grants, for each rule, as many left-over rules as `AddMatch` calls for it
  have timed out on this connection: the constructor has thrown, so no match is there to remove
  the rule (match.ipp:12), although match.hpp:21 says that each rule is represented by an
  instance. A `RemoveMatch` that fails throws out of the destructor (match.hpp:34,
  match.ipp:20-21) and ends the program.
* Names are modelled, but no property speaks of them: `request_name` ignores the result of
  `dbus_bus_request_name` and returns normally for a name that another client keeps
  (connection.ipp:57).
* `MirrorIsRight` says that a client knows the value of the instance that spoke last for an
  object and an interface. That is the one in use until an instance which it has replaced is set
  again: `object_name` of that one is still the path of the object, so it sends
  `PropertiesChanged` in the name of its successor, and the client is wrong about the
  successor until that changes. An interface that is registered with a second object no
  longer speaks for the first. A client that does not hear `InterfacesAdded` is wrong about a
  replaced interface in the same way.
* `NothingMissed` speaks of clients that hear `InterfacesAdded` (`HearsAdded`): they unpack the
  path as a string, not as the type the library's own introspection data declares, and their
  match rules accept signals from the object that was constructed first. Others miss
  every interface that is added after their answer. And it excepts objects that existed
  when the client subscribed and were registered after its answer: `register_object` sends no
  signal (properties.hpp:546-548).

## 5. Fairness

* *Threads inside a call or inside `io_service::run` keep running* (`WF` of their
  steps). This is what an application that has called `run` provides. Entering
  `push`, `async_pop`, `start` or `async_send` is never forced.
* *The reactor notices a readable socket* (`SocketReadable`): asio's promise.
* *A blocking call ends*: libdbus gives it a timeout.
* *Timers expire* (`TimerDue`): time passes.
* *A filter's predicate comes to an end*, as it is called synchronously.
* The bus, the peer and the client have no fairness: nobody has to send, and a peer
  may stay silent. `Flush` and the next send have none either, so that
  `AnsweredUnlessOvertaken` is due to the timeout alone.

## 6. Finding

`async_send_op` sends a call and sets its notify function afterwards. With several
threads, the reply may be dispatched in between; the pending call is then complete,
no notify function is ever called, and the branch that should notice
(async_send_op.hpp:66-70) has its only statement commented out. The comment above it
says the callback "must be called manually". Run `async_send_race` shows the handler
is never called.

## 7. What is proved, what is only checked, what is left out

Proved with TLAPS, for all values of the constants that satisfy the named assumptions
(`ASSUME`) of each module: any sets of calls, threads, objects, filters, matches, names and
values, any number of messages, and any of the bounds that TLC needs. The assumptions say
that things with different roles are different (a handler is not a message, `Absent` is not
a value), that bounds are natural numbers, and that the sets which are counted are finite
(the threads and callers of the event loop, each pool of threads, the expressions of
matches). TLC evaluates them on every run.

Two kinds of theorem carry a hypothesis on the setting, and each is the condition under which
the corresponding run is made: `~ForceAny` in `PropertiesProofs`, `OneThread` or `[]enabled`
in `EventLoopProofs`. Section 4 says what the code does otherwise.

| Theorem | States |
|---|---|
| `QueueProofs!TypeCorrect`, `NobodyStrandedAlways`, `BacklogAlways`, `FifoPairingAlways` | the invariants of `Queue` |
| `QueueProofs!QueueImplementsRendezvous` | `Queue` implements `Rendezvous` |
| `EventLoopProofs!TypeCorrect`, `NoLostWakeupAlways`, `HandlersBoundedAlways` | the invariants of `EventLoop` |
| `EventLoopProofs!OneReaderUnlessDisabled`, `OneReaderOneThread` | `OneReader` with any threads while libdbus leaves the watch enabled, and with one thread whatever libdbus does |
| `AsyncSendProofs!AsyncSendTypes`, `FirstAnswerOnceAlways`, `OpHasOwnerAlways`, `NoDanglingPointerAlways`, `DeletedOnceUnlessRepliedAlways` | the invariants of `AsyncSend` |
| `PropertiesProofs!MirrorCatchesUpAlways`, `RepliesAgreeAlways` | the invariants of `Properties` |
| `PropertiesProofs!MirrorIsRightAlways`, `NothingMissedAlways` | the invariants of `ObjectManager` |
| `ObjectServerProofs!OneHandlerPerFilterAlways`, `AnsweredInOrderAlways`, `ManagedObjectsCompleteAlways`, `OthersStayReachableAlways` | the safety properties of `ObjectServer` |
| `ObjectServerProofs!WalkFindsEverythingAlways`, `LeadsSomewhereAlways`, `DescriptionStaysTrueAlways` | the invariants of `Introspection` |
| `FiltersProofs!OldestTakesAlways`, `FiltersAreRendezvous` | the order of filters; the queue of each filter implements `Rendezvous` |
| `ConnectionProofs!OwnedExactlyOnceAlways`, `MatchesInForceAlways` | the properties of `Connection` |

Hardly any of these properties is inductive as it stands. What each proof adds to it, and why:

* **Queue.** A call acts on a test it made a step earlier. `QueueInv` says that a call in the
  critical section holds the mutex (`MutexHeld`), that what it found is still true
  (`TestStillTrue`), that a call about to post has a partner of the right kind
  (`PartnerTaken`), and that each deque is what remains of its history after the length of
  the other history (`Balance`). For `FifoPairing`, `ClosureInv` follows a closure through
  its places (in hand, posted, invoked): a call enters its history once (`InHistoryOnce`),
  every closure is a pair of one index (`OnlyPairs`), and it is in one place (`InOnePlace`).
  The refinement needs the last of these, so that no closure is invoked twice.
* **Event loop.** `NoLostWakeup` is inductive with `TypeOK`: a dispatch_handler ends without
  a successor only when libdbus told it that the queue is empty, and then the next message
  changes the status and leads to a post. `HandlersInv` counts the handlers with all places
  where one is in the making (what threads carry, starters about to inject, blocked callers
  about to notify) against the times `start` won (`InjectedOnce`) and the status changed.
  `ReaderInv` counts reads together with the threads about to start the next one. `FlowInv`
  does so under flow control: while the watch is disabled nothing reads, and the only thread
  can at most be on its way to finding that out.
* **Asynchronous calls.** `SendInv` follows a call: one thread sends it (`Senders`), before
  that it is nowhere (`NotSentYet`, `NoTrace`), its op, notify function and pending call go
  together (`OpFollowsPending`), its reply is in one place (`OneReply`), `first` is the first
  message queued for it (`FirstIsFirst`), and the op is posted once with that and runs once
  (`OpOnce`). With one thread the call is never complete before its notify function is set
  (`NotOvertakenAlone`), nor freed while its sender still looks at it (`NotFreedAlone`). The
  reply that can be queued ahead of a completion comes from the peer, which answers once;
  with `TimersOnce` this gives `DeletedOnceUnlessReplied`. `NoDanglingPointer` rests on the order of asio's queue (`TimeoutInv`): the
  reactor puts the readable socket ahead of the timers that expired with it
  (`ReactorOrder`), a timer is queued once (`TimersOnce`), and the dispatch that frees the
  pending call is queued behind a completion that is waiting (`TimeoutsFresh`).
* **Properties.** `AnnouncedInv` is the two properties and the types. They are proved from what the folds over
  updates and over the outbox do step by step: an update that announces every change makes
  of the mirror what it makes of the map (`UpdatesAnnounced`), and a letter at either end of
  the outbox may be taken away or added (`OneLess`, `OneMore`).
* **Object server.** `ServerInv`: what waits or was answered has arrived, at its filter
  (`Routed`); a handler waits only at an empty queue (`IdleQueue`); for each filter, answered,
  handled and waiting messages follow each other in the order of arrival (`OrderedFor`).
  `ObjectsInv` adds that an object listed for a message is there unless it was removed
  (`StillThere`), which depends on what `StdRemove` keeps.
* **Object manager.** `ManagerInv` adds to `MirrorIsRight` that an interface is stored under its own
  name, that only an object that exists has one, which sets the endpoint, and that an
  instance speaks for its own name only (`InPlace`), that a client which has not subscribed
  will know nothing (`NotYet`), and that one which has, and hears `InterfacesAdded`, will know of
  every interface whose object it does not overlook (`Told`). All of them speak of what the client will know once it has
  received what is on its way, a fold over the outbox; `FollowFold` and the lemmas after it say
  how that changes when a message is sent (`KnowsMore`) and that it does not when one is received
  (`KnowsSame`).
* **Introspection.** `WalkInv`. A walk makes progress: once a path was asked for, every object
  below it is known by a longer path above it (`GoesOn`), and an object whose own path was
  asked for has been described (`Noted`). At the end of the walk, the longest known path above
  an object can then only be its own (`WalkArrives`). `GoesOn` rests on `ChildAbove`: what
  `Subnode` cuts out of a path, by position, is never empty below a path that ends at a slash of
  it, and ends at the next one. For `LeadsSomewhere` one needs that no known path but `/` ends in
  a slash (`KnownPaths`), so that `Separated` speaks of it. For `DescriptionStaysTrue`, `Faithful`
  says that a description is that of the method which is still there, unless the interface was
  replaced, and then by one with a higher number.
* **Filters.** `DispatchInv`: both lists of libdbus are in the order of construction and agree
  on what exists (`Chained`), and the message being dispatched is with nobody yet
  (`NotTakenYet`). `PairsInv`: each queue holds what remains of one history or the other, and
  every closure is a pair of that filter, posted or run but not both.
* **Connection.** `ConnectionInv`: the connection exists as long as it is held (`Held`), the bus
  and the history forget a client that is lost (`Forgotten`), and matches are constructed once
  (`MatchesOnce`). `MatchesInForce` is inductive with these: every step changes the count of one
  rule, of its matches, or of its requests that are late.

Induction over data. The provers cannot instantiate the induction theorems of the library,
which take an operator. `DataLemmas!LeastNat` gives induction in the form of sets: the set of
counterexamples has a least element. The folds of `Properties` and
`ObjectManager`, and the walk of `Introspection` are reasoned about that way.

What the proofs changed in the models. `RepliesAgree` was a `CASE` with two guards that hold
together for an error reply to `Get`, of which TLC took the first; it is now decided by the
error first (`Agrees`). `StdRemove` is stated by the positions that are kept.
`Filters` keeps the filters a
message was dispatched to as a set, and `OldestTakes` compares their age by `Older`. The sets
that invariants count are assumed to be finite. `Introspection` has a set of nodes where it had a
sequence without duplicates, and assumes paths without empty names, which libdbus refuses: below
a name like `//a` the walk would be shown an empty node and stop. `DescriptionStaysTrue` compares
the arguments with those of the method one by one, where it had counted them.

Only model-checked: liveness (`EveryPairMeets`, `EverythingDispatched`,
`AnsweredUnlessOvertaken`, `EveryCallAnswered`, `EveryRequestAnswered`), since `ENABLED` and fairness are
beyond the prover, and the three properties of `Codec`. `Pack`, `Unpack` and `Signature` recurse over
types, which are trees of any depth: what they compute is an induction over data, and the prover
does not work with the `RECURSIVE` operators they are written with.

### Not modelled

* The destruction of watches and of their sockets (`remove_watch`): descriptors and the
  order in which asio and libdbus close them are not part of any model.
* Handlers that are posted when their connection or their `DbusObjectServer` is
  destroyed: they hold plain pointers, and the code leaves it to the application to stop
  the io_service first.
* Out-of-memory results of libdbus and strings it refuses; `packer` ignores some of
  those results (message.hpp:220-224).
* Data races of `properties_map` and `objects` when handlers of different filters run
  on different threads: the classes have no lock, and the models assume one thread. The
  same goes for a filter that is destroyed while another thread runs its callback.
* The copy constructor of `queue`, which locks nothing: nothing copies a queue.
* The arguments of `DbusTemplateSignal::send`, which packs none.
* The `InterfacesAdded` that the constructor of an object sends for its Properties interface,
  and two objects of one path, which a client could not tell apart.
* `endpoint`, the layout of the XML, the text of errors, the build, and the tests, which
  need a running bus.
