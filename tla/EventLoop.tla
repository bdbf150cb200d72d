------------------------------ MODULE EventLoop -----------------------------
(***************************************************************************)
(* How boost-dbus wires a DBusConnection into an io_service, so that every *)
(* message that reaches the socket is dispatched:                          *)
(*   - impl::connection::start and cancel (impl/connection.ipp),           *)
(*   - the read watch: add_watch, watch_toggled, watch_handler,            *)
(*   - dispatch_status and dispatch_handler (detail/watch_timeout.hpp),    *)
(*   - the blocking calls, which read the same socket                      *)
(*     (impl::connection::send_with_reply_and_block, new_match, ...).      *)
(*                                                                         *)
(* Nothing here depends on which message is which, so the socket and       *)
(* libdbus' incoming queue are counters.  libdbus is external: it reports  *)
(* a dispatch status when it differs from the one reported before, lets    *)
(* one thread dispatch at a time, and disables the read watch while        *)
(* MaxLive received messages are alive.  A message that a filter accepted  *)
(* stays alive in the queue of the filter (impl/filter.ipp, offer) until a *)
(* handler has taken it.                                                   *)
(***************************************************************************)
EXTENDS Naturals, FiniteSets

CONSTANTS
  Threads,      \* threads inside io_service::run
  Starters,     \* one element per call of async_send or filter::async_dispatch
  Blockers,     \* one element per blocking call made by the application
  MaxMessages,  \* bound: messages the bus sends to this connection
  MaxLeftover,  \* bound: messages open() may leave in the incoming queue
  MaxCancels,   \* bound: calls of impl::connection::cancel
  MaxLive,      \* libdbus: received messages that may be alive at once
  None          \* no thread

ASSUME LoopAssumption ==
  /\ IsFiniteSet(Threads) /\ IsFiniteSet(Starters) /\ IsFiniteSet(Blockers)
  /\ MaxMessages \in Nat /\ MaxLeftover \in Nat /\ MaxCancels \in Nat
  /\ MaxLive \in Nat \ {0}
  /\ None \notin Threads

VARIABLES
  \* the socket and libdbus
  arrived,      \* messages the bus has sent so far
  wire,         \* messages in the socket, not read yet
  incoming,     \* messages in libdbus' incoming queue
  last_status,  \* the dispatch status libdbus reported last
  dispatcher,   \* the thread libdbus lets dispatch, or None
  enabled,      \* dbus_watch_get_enabled of the read watch
  held,         \* dispatched messages that the queues of the filters keep alive
  \* the binding
  is_paused,    \* impl::connection::is_paused
  has_socket,   \* add_watch gave the read watch a socket
  posted,       \* dispatch_handlers waiting in the io_service
  reads,        \* async_read_some operations outstanding on the socket
  ready,        \* their successful completions, waiting in the io_service
  \* where everybody is
  thread, starter, blocker,
  \* history
  injected,     \* compare-and-exchanges of start() that succeeded
  quieted,      \* times the status fell to "complete" outside a dispatch_handler
  cancels       \* calls of cancel() that flipped is_paused

libdbus == <<arrived, wire, incoming, last_status, dispatcher, enabled, held>>
binding == <<is_paused, has_socket, posted, reads, ready>>
control == <<thread, starter, blocker>>
history == <<injected, quieted, cancels>>
vars == <<libdbus, binding, control, history>>

ThreadPC == {"idle", "dispatch", "callout", "notifyThenPost", "repost",
             "watch", "notifyThenRearm", "rearm", "arm", "disarm"}
StarterPC == {"idle", "inject", "done"}
BlockerPC == {"idle", "blocked", "notify", "done"}

-----------------------------------------------------------------------------
(* Mutations: plausible mistakes in the binding, each of which one of the     *)
(* properties below must notice.  No specification uses them.                 *)

\* start() stores FALSE and posts, without the compare-and-exchange.
StartAlways(s) ==
  /\ starter[s] = "idle"
  /\ is_paused' = FALSE
  /\ starter' = [starter EXCEPT ![s] = "inject"]
  /\ injected' = injected + 1
  /\ UNCHANGED <<libdbus, has_socket, posted, reads, ready, thread, blocker, quieted, cancels>>

\* start() wins the exchange and posts nothing.
StartPostForgotten(s) ==
  /\ starter[s] = "inject"
  /\ starter' = [starter EXCEPT ![s] = "done"]
  /\ UNCHANGED <<libdbus, is_paused, has_socket, posted, reads, ready, thread, blocker, history>>

\* dispatch_handler does not post its successor: dispatch_status will, it thinks.
RepostForgotten(t) ==
  /\ thread[t] = "repost"
  /\ thread' = [thread EXCEPT ![t] = "idle"]
  /\ UNCHANGED <<libdbus, binding, starter, blocker, history>>

\* start() calls dispatch_handler itself instead of posting it: a thread that is
\* not in io_service::run dispatches the first message.
StartDispatchesItself(s) ==
  /\ starter[s] = "inject"
  /\ incoming > 0
  /\ dispatcher = None
  /\ incoming' = incoming - 1
  /\ dispatcher' = s
  /\ starter' = [starter EXCEPT ![s] = "done"]
  /\ UNCHANGED <<arrived, wire, last_status, enabled, held, binding, thread, blocker, history>>

\* watch_toggled starts a read whatever dbus_watch_get_enabled says.
ArmAlways(t) ==
  /\ thread[t] \in {"arm", "disarm"}
  /\ reads' = reads + 1
  /\ thread' = [thread EXCEPT ![t] = "idle"]
  /\ UNCHANGED <<libdbus, is_paused, has_socket, posted, ready, starter, blocker, history>>

\* watch_handler does not call watch_toggled: nothing reads the socket again.
ArmForgotten(t) ==
  /\ thread[t] \in {"arm", "disarm"}
  /\ thread' = [thread EXCEPT ![t] = "idle"]
  /\ UNCHANGED <<libdbus, binding, starter, blocker, history>>

-----------------------------------------------------------------------------
(* libdbus *)

Status(n) == IF n > 0 THEN "remains" ELSE "complete"

\* Messages received and not freed yet: n in the incoming queue, h in the queues of
\* the filters, and the one being dispatched.
Live(n, d, h) == n + h + (IF d = None THEN 0 ELSE 1)

\* dispatch_status is called when the status changes, and posts a
\* dispatch_handler when data remains.
MustNotify(n) == Status(n) = "remains" /\ last_status = "complete"

\* The status falls back without a dispatch_handler ending.
Quieted(n) ==
  quieted + (IF Status(n) = "complete" /\ last_status = "remains" THEN 1 ELSE 0)

\* The read watch follows the flow control; when that changes it, libdbus calls
\* watch_toggled: nothing for a watch without a socket, otherwise
\* async_read_some when it is enabled and cancel() when it is not.
ToggleReadWatch(n, d, h) ==
  LET on == Live(n, d, h) < MaxLive
  IN  /\ enabled' = on
      /\ reads' = IF on = enabled \/ ~has_socket THEN reads
                   ELSE IF on THEN reads + 1 ELSE 0

\* The bus sends a message.
BusSends ==
  /\ arrived < MaxMessages
  /\ arrived' = arrived + 1
  /\ wire' = wire + 1
  /\ UNCHANGED <<incoming, last_status, dispatcher, enabled, held, binding, control, history>>

\* The reactor sees the socket readable and completes a waiting read.
SocketReadable ==
  /\ wire > 0
  /\ reads > 0
  /\ reads' = reads - 1
  /\ ready' = ready + 1
  /\ UNCHANGED <<libdbus, is_paused, has_socket, posted, control, history>>

-----------------------------------------------------------------------------
(* impl::connection *)

\* open(): registering with the bus is a blocking exchange that may leave
\* messages behind; the status was reported before dispatch_status was set.
\* Then set_watch_timeout_dispatch_functions: add_watch makes a socket and starts
\* the first read, unless the watch is disabled.
Init ==
  /\ arrived = 0 /\ wire = 0
  /\ incoming \in 0..MaxLeftover
  /\ last_status = Status(incoming)
  /\ dispatcher = None
  /\ held = 0
  /\ enabled = (Live(incoming, None, held) < MaxLive)
  /\ has_socket = enabled
  /\ is_paused = TRUE
  /\ posted = 0 /\ ready = 0
  /\ reads = IF enabled THEN 1 ELSE 0
  /\ thread = [t \in Threads |-> "idle"]
  /\ starter = [s \in Starters |-> "idle"]
  /\ blocker = [b \in Blockers |-> "idle"]
  /\ injected = 0 /\ quieted = 0 /\ cancels = 0

\* start(): the compare-and-exchange.
StartExchange(s) ==
  /\ starter[s] = "idle"
  /\ is_paused' = FALSE
  /\ starter' = [starter EXCEPT ![s] = IF is_paused THEN "inject" ELSE "done"]
  /\ injected' = IF is_paused THEN injected + 1 ELSE injected
  /\ UNCHANGED <<libdbus, has_socket, posted, reads, ready, thread, blocker, quieted, cancels>>

\* start(): io.post(dispatch_handler) by the call that won.
StartPost(s) ==
  /\ starter[s] = "inject"
  /\ posted' = posted + 1
  /\ starter' = [starter EXCEPT ![s] = "done"]
  /\ UNCHANGED <<libdbus, is_paused, has_socket, reads, ready, thread, blocker, history>>

\* cancel(): only flips the flag.
Cancel ==
  /\ ~is_paused
  /\ cancels < MaxCancels
  /\ is_paused' = TRUE
  /\ cancels' = cancels + 1
  /\ UNCHANGED <<libdbus, has_socket, posted, reads, ready, control, injected, quieted>>

\* send_with_reply_and_block and the calls of dbus_bus_* begin to wait.
BlockBegin(b) ==
  /\ blocker[b] = "idle"
  /\ blocker' = [blocker EXCEPT ![b] = "blocked"]
  /\ UNCHANGED <<libdbus, binding, thread, starter, history>>

\* While it waits, libdbus reads the socket itself and queues what it finds.
BlockRead(b) ==
  /\ blocker[b] = "blocked"
  /\ wire > 0
  /\ wire' = wire - 1
  /\ incoming' = incoming + 1
  /\ ToggleReadWatch(incoming + 1, dispatcher, held)
  /\ UNCHANGED <<arrived, last_status, dispatcher, held, is_paused, has_socket, posted, ready, control, history>>

\* The wait is over: either the reply is taken out of the queue, or the call
\* timed out or failed and throws.  The status is brought up to date.
BlockEnd(b) ==
  /\ blocker[b] = "blocked"
  /\ \E took \in IF incoming > 0 THEN {0, 1} ELSE {0} :
       /\ incoming' = incoming - took
       /\ quieted' = Quieted(incoming - took)
       /\ last_status' = Status(incoming - took)
       /\ ToggleReadWatch(incoming - took, dispatcher, held)
       /\ blocker' = [blocker EXCEPT
            ![b] = IF MustNotify(incoming - took) THEN "notify" ELSE "done"]
  /\ UNCHANGED <<arrived, wire, dispatcher, held, is_paused, has_socket, posted, ready, thread,
                 starter, injected, cancels>>

\* dispatch_status, called by the thread that was blocked.
BlockNotify(b) ==
  /\ blocker[b] = "notify"
  /\ posted' = posted + 1
  /\ blocker' = [blocker EXCEPT ![b] = "done"]
  /\ UNCHANGED <<libdbus, is_paused, has_socket, reads, ready, thread, starter, history>>

-----------------------------------------------------------------------------
(* dispatch_handler *)

\* A thread of the io_service picks up a dispatch_handler.
RunDispatchHandler(t) ==
  /\ thread[t] = "idle"
  /\ posted > 0
  /\ posted' = posted - 1
  /\ thread' = [thread EXCEPT ![t] = "dispatch"]
  /\ UNCHANGED <<libdbus, is_paused, has_socket, reads, ready, starter, blocker, history>>

\* dbus_connection_dispatch finds nothing: no new dispatch_handler.
DispatchNothing(t) ==
  /\ thread[t] = "dispatch"
  /\ incoming = 0
  /\ last_status' = "complete"
  /\ thread' = [thread EXCEPT ![t] = "idle"]
  /\ UNCHANGED <<arrived, wire, incoming, dispatcher, enabled, held, binding, starter, blocker, history>>

\* dbus_connection_dispatch takes one message and calls out with it.
DispatchTake(t) ==
  /\ thread[t] = "dispatch"
  /\ incoming > 0
  /\ dispatcher = None
  /\ incoming' = incoming - 1
  /\ dispatcher' = t
  /\ thread' = [thread EXCEPT ![t] = "callout"]
  /\ UNCHANGED <<arrived, wire, last_status, enabled, held, binding, starter, blocker, history>>

\* The filters and reply callbacks have run: a filter has put the message into its
\* queue, or it is freed.  dispatch reports the status and returns it.
DispatchDone(t) ==
  /\ thread[t] = "callout"
  /\ dispatcher' = None
  /\ last_status' = Status(incoming)
  /\ \E kept \in {0, 1} :
       /\ held' = held + kept
       /\ ToggleReadWatch(incoming, None, held + kept)
  /\ thread' = [thread EXCEPT
       ![t] = IF MustNotify(incoming) THEN "notifyThenPost"
              ELSE IF incoming > 0 THEN "repost" ELSE "idle"]
  /\ UNCHANGED <<arrived, wire, incoming, is_paused, has_socket, posted, ready, starter, blocker, history>>

\* dispatch_status, called from inside dbus_connection_dispatch.
DispatchNotify(t) ==
  /\ thread[t] = "notifyThenPost"
  /\ posted' = posted + 1
  /\ thread' = [thread EXCEPT ![t] = "repost"]
  /\ UNCHANGED <<libdbus, is_paused, has_socket, reads, ready, starter, blocker, history>>

\* DBUS_DISPATCH_DATA_REMAINS was returned: the handler posts its successor.
Repost(t) ==
  /\ thread[t] = "repost"
  /\ posted' = posted + 1
  /\ thread' = [thread EXCEPT ![t] = "idle"]
  /\ UNCHANGED <<libdbus, is_paused, has_socket, reads, ready, starter, blocker, history>>

\* A handler the application gave to filter::async_dispatch, posted with the message
\* it is paired with, has run in the io_service: the message is freed.
HandleAccepted(t) ==
  /\ thread[t] = "idle"
  /\ held > 0
  /\ held' = held - 1
  /\ ToggleReadWatch(incoming, dispatcher, held - 1)
  /\ UNCHANGED <<arrived, wire, incoming, last_status, dispatcher, is_paused, has_socket, posted,
                 ready, control, history>>

-----------------------------------------------------------------------------
(* watch_handler of the read watch *)

\* A thread of the io_service picks up a completed read (ec is clear).
RunWatchHandler(t) ==
  /\ thread[t] = "idle"
  /\ ready > 0
  /\ ready' = ready - 1
  /\ thread' = [thread EXCEPT ![t] = "watch"]
  /\ UNCHANGED <<libdbus, is_paused, has_socket, posted, reads, starter, blocker, history>>

\* dbus_watch_handle reads some of the socket, unless the watch is disabled.
WatchHandle(t) ==
  /\ thread[t] = "watch"
  /\ \E k \in IF enabled /\ wire > 0 THEN 1..wire ELSE {0} :
       /\ wire' = wire - k
       /\ incoming' = incoming + k
       /\ last_status' = Status(incoming + k)
       /\ quieted' = Quieted(incoming + k)
       /\ ToggleReadWatch(incoming + k, dispatcher, held)
       /\ thread' = [thread EXCEPT
            ![t] = IF MustNotify(incoming + k) THEN "notifyThenRearm" ELSE "rearm"]
  /\ UNCHANGED <<arrived, dispatcher, held, is_paused, has_socket, posted, ready, starter, blocker,
                 injected, cancels>>

\* dispatch_status, called from inside dbus_watch_handle.
WatchNotify(t) ==
  /\ thread[t] = "notifyThenRearm"
  /\ posted' = posted + 1
  /\ thread' = [thread EXCEPT ![t] = "rearm"]
  /\ UNCHANGED <<libdbus, is_paused, has_socket, reads, ready, starter, blocker, history>>

\* watch_toggled, called by the handler: the test of dbus_watch_get_enabled ...
WatchToggledTest(t) ==
  /\ thread[t] = "rearm"
  /\ thread' = [thread EXCEPT ![t] = IF enabled THEN "arm" ELSE "disarm"]
  /\ UNCHANGED <<libdbus, binding, starter, blocker, history>>

\* ... and async_read_some or cancel().
WatchToggledAct(t) ==
  /\ thread[t] \in {"arm", "disarm"}
  /\ reads' = IF thread[t] = "arm" THEN reads + 1 ELSE 0
  /\ thread' = [thread EXCEPT ![t] = "idle"]
  /\ UNCHANGED <<libdbus, is_paused, has_socket, posted, ready, starter, blocker, history>>

-----------------------------------------------------------------------------
ThreadStep(t) ==
  \/ RunDispatchHandler(t) \/ DispatchNothing(t) \/ DispatchTake(t)
  \/ DispatchDone(t) \/ DispatchNotify(t) \/ Repost(t)
  \/ RunWatchHandler(t) \/ WatchHandle(t) \/ WatchNotify(t)
  \/ WatchToggledTest(t) \/ WatchToggledAct(t)

Next ==
  \/ BusSends
  \/ SocketReadable
  \/ Cancel
  \/ \E s \in Starters : StartExchange(s) \/ StartPost(s)
  \/ \E b \in Blockers : BlockBegin(b) \/ BlockRead(b) \/ BlockEnd(b) \/ BlockNotify(b)
  \/ \E t \in Threads : ThreadStep(t) \/ HandleAccepted(t)

Spec == Init /\ [][Next]_vars

(***************************************************************************)
(* The threads of io_service::run and the calls the application has made   *)
(* keep running, the reactor notices a readable socket, and a blocking     *)
(* call ends (its reply or its timeout comes).  Nobody has to start the    *)
(* connection, to send or to block, and the application need not ask its   *)
(* filters for the messages they hold (HandleAccepted is not fair).        *)
(***************************************************************************)
Fairness ==
  /\ \A t \in Threads : WF_vars(ThreadStep(t))
  /\ WF_vars(SocketReadable)
  /\ \A s \in Starters : WF_vars(StartPost(s))
  /\ \A b \in Blockers : WF_vars(BlockEnd(b) \/ BlockNotify(b))

FairSpec == Spec /\ Fairness

-----------------------------------------------------------------------------
(* Properties *)

\* Every variable has the type the code gives it.
TypeOK ==
  /\ arrived \in 0..MaxMessages /\ wire \in Nat /\ incoming \in Nat /\ held \in Nat
  /\ last_status \in {"remains", "complete"}
  /\ dispatcher \in Threads \cup {None}
  /\ enabled \in BOOLEAN /\ has_socket \in BOOLEAN /\ is_paused \in BOOLEAN
  /\ posted \in Nat /\ reads \in Nat /\ ready \in Nat
  /\ thread \in [Threads -> ThreadPC]
  /\ starter \in [Starters -> StarterPC]
  /\ blocker \in [Blockers -> BlockerPC]
  /\ injected \in Nat /\ quieted \in Nat /\ cancels \in Nat

\* Somebody will dispatch: a dispatch_handler is posted, runs, or is about to be
\* posted.
Awake ==
  \/ posted > 0
  \/ \E t \in Threads :
       thread[t] \in {"dispatch", "callout", "notifyThenPost", "repost", "notifyThenRearm"}
  \/ \E s \in Starters : starter[s] = "inject"
  \/ \E b \in Blockers : blocker[b] = "notify"

\* dispatch_status is told of data only once, when the status changes, so a
\* dispatch_handler that ends, or one that was never posted, while messages are
\* queued would leave them there for ever.  Once the connection is started there
\* is always a dispatch_handler to come while data remains, and the messages
\* libdbus has not reported yet have a blocked caller who will report them.
NoLostWakeup ==
  /\ (injected > 0 /\ last_status = "remains") => Awake
  /\ (incoming > 0 /\ last_status = "complete")
       => \E b \in Blockers : blocker[b] = "blocked"

Count(f, S) == Cardinality({x \in DOMAIN f : f[x] \in S})

\* The dispatch_handlers in existence, the ones about to be posted included.
Circulating ==
  posted
    + Count(thread, {"dispatch", "callout", "notifyThenPost", "repost"})
    + Count(thread, {"notifyThenPost", "notifyThenRearm"})
    + Count(starter, {"inject"}) + Count(blocker, {"notify"})

\* The comment in start() says that simultaneous callers inject only one
\* dispatch_handler: a second one takes a call of cancel().  The handlers that
\* circulate are the injected ones, one for a status of "remains", and at most
\* one for every time the status was reset behind the back of a handler: they
\* do not multiply with the messages.
HandlersBounded ==
  /\ injected <= 1 + cancels
  /\ Circulating <= injected + quieted + (IF last_status = "remains" THEN 1 ELSE 0)

\* The chain of reads on the socket: outstanding, completed, or being handled by
\* a thread that will start the next one.
Reading == reads + ready + Count(thread, {"watch", "notifyThenRearm", "rearm", "arm"})

\* While the read watch is enabled there is exactly one chain of reads: with none
\* the connection would be deaf, with two every message would wake two threads.
OneReader == enabled => Reading = 1

\* A message that has reached the socket of a started connection is dispatched,
\* whatever was blocking, starting or pausing meanwhile, unless the filters come to
\* hold so many messages nobody asks for that libdbus stops reading (offer keeps
\* every accepted message alive in an unbounded queue).
EverythingDispatched ==
  (injected > 0 /\ wire + incoming > 0) ~> (wire + incoming = 0 \/ held >= MaxLive)
=============================================================================
