------------------------------ MODULE AsyncSend -----------------------------
(***************************************************************************)
(* One method call sent with connection::async_send: async_send_op         *)
(* (detail/async_send_op.hpp), the DBusPendingCall it leaves in libdbus,   *)
(* the steady_timer of the call (detail/watch_timeout.hpp), the lambda of  *)
(* connection::async_method_call, and the io_service that runs it all.     *)
(*                                                                         *)
(* io is the queue of the io_service.  Its element Task is the reactor's   *)
(* marker: the thread that takes it polls the socket and the timers and    *)
(* appends what is ready.  A thread takes the head and runs it; with one   *)
(* thread the application's own calls are made from that thread too.       *)
(*                                                                         *)
(* What does not fit into the socket stays in libdbus' outgoing queue.     *)
(* libdbus then enables the write watch and relies on the application; but *)
(* add_watch has given that watch, which was disabled, no socket, and      *)
(* watch_toggled ignores it.  So only the next send or flush writes on.    *)
(***************************************************************************)
EXTENDS Naturals, Sequences, FiniteSets, SequencesExt

CONSTANTS
  Threads,      \* threads that run the io_service and make calls
  Pools,        \* the sets of threads an application may run it with
  MethodCalls,  \* one element per async_send of a method call
  Others,       \* one element per async_send of a signal, return or error
  Replies       \* bound: the kinds of answer the peer gives

Calls == MethodCalls \cup Others

\* What may come back: a return that fits the handler, one that does not, an
\* error reply, or the NoReply error libdbus makes up.
Answers == {"return", "mismatch", "error"}

ASSUME SendAssumption ==
  /\ Replies \subseteq Answers
  /\ MethodCalls \cap Others = {}
  /\ \A P \in Pools : P \subseteq Threads /\ P # {} /\ IsFiniteSet(P)

VARIABLES
  threads,    \* the threads that run the io_service; none once the program has aborted
  thread,     \* what each thread is doing, and for which call
  call,       \* "idle" until async_send is called, then "begun", then "over"
  is_paused,  \* impl::connection::is_paused
  io,         \* the queue of the io_service
  reading,    \* an async_read_some waits for the socket
  wire,       \* replies in the socket, not read yet
  incoming,   \* messages in libdbus' incoming queue
  pending,    \* the DBusPendingCall of each call
  notify,     \* dbus_pending_call_set_notify has been called
  op,         \* the async_send_op on the heap
  timer,      \* the steady_timer of the call
  unsent,     \* sent messages in libdbus' outgoing queue
  owed,       \* calls the peer has received and not answered
  handled,    \* history: the error codes the user's handler was called with
  first       \* history: the first message queued for each call

libdbus == <<wire, incoming, pending, notify, unsent, owed>>
vars == <<threads, thread, call, is_paused, io, reading, libdbus, op, timer, handled, first>>

Kinds == Answers \cup {"noreply"}

Message == [call : MethodCalls, kind : Kinds]

Task == [do |-> "poll"]
Watch == [do |-> "watch"]
Dispatch == [do |-> "dispatch"]
Timeout(c) == [do |-> "timeout", call |-> c]
Op(c, k) == [do |-> "op", call |-> c, kind |-> k]
Tasks ==
  {Task, Watch, Dispatch} \cup {Timeout(c) : c \in MethodCalls}
    \cup {Op(c, k) : c \in MethodCalls, k \in Kinds}

Idle == [at |-> "idle"]
At(pc, c) == [at |-> pc, call |-> c]
Activities == {Idle} \cup {At(pc, c) : pc \in {"send", "notify", "completed", "timeout"}, c \in Calls}

Init ==
  /\ threads \in Pools
  /\ thread = [t \in Threads |-> Idle]
  /\ call = [c \in Calls |-> "idle"]
  /\ is_paused = TRUE
  /\ io = <<Task>>
  /\ reading = TRUE
  /\ wire = <<>> /\ incoming = <<>>
  /\ pending = [c \in MethodCalls |-> "none"]
  /\ notify = [c \in MethodCalls |-> FALSE]
  /\ op = [c \in MethodCalls |-> "none"]
  /\ timer = [c \in MethodCalls |-> "none"]
  /\ unsent = <<>> /\ owed = {}
  /\ handled = [c \in Calls |-> <<>>]
  /\ first = [c \in MethodCalls |-> "none"]

-----------------------------------------------------------------------------
(* Mutations: plausible mistakes, each of which one of the properties below   *)
(* must notice.  No specification uses them.                                  *)

\* add_timeout makes the timer and does not start it.
AddTimeoutIdle(c) == [timer EXCEPT ![c] = "none"]

\* remove_timeout neither cancels nor deletes the timer.
RemoveTimeoutsForgotten(S) == timer

\* send_with_reply fails and leaves p as it was: not initialised.
SendUninitialised(t, c) ==
  /\ thread[t] = At("send", c) /\ c \in MethodCalls
  /\ pending' = [pending EXCEPT ![c] = "garbage"]
  /\ thread' = [thread EXCEPT ![t] = At("notify", c)]
  /\ UNCHANGED <<threads, call, is_paused, io, reading, wire, incoming, notify, unsent,
                 owed, op, timer, handled, first>>

\* The commented-out call of callback() is made, completed or not.
GetCompletedAndCall(t, c) ==
  /\ thread[t] = At("completed", c)
  /\ io' = Append(io, Op(c, "noreply"))
  /\ call' = [call EXCEPT ![c] = "over"]
  /\ thread' = [thread EXCEPT ![t] = Idle]
  /\ UNCHANGED <<threads, is_paused, reading, libdbus, op, timer, handled, first>>

\* The op is made and no notify function is set.
SetNotifyForgotten(t, c) ==
  /\ thread[t] = At("notify", c)
  /\ op' = [op EXCEPT ![c] = "heap"]
  /\ thread' = [thread EXCEPT ![t] = At("completed", c)]
  /\ UNCHANGED <<threads, call, is_paused, io, reading, libdbus, timer, handled, first>>

\* timeout_handler deletes the timer that has completed, as if libdbus would not have
\* it removed.
RunTimeoutDeletes(t, c) ==
  /\ thread[t] = Idle /\ io # <<>> /\ Head(io) = Timeout(c)
  /\ io' = Tail(io)
  /\ timer' = [timer EXCEPT ![c] = "deleted"]
  /\ thread' = [thread EXCEPT ![t] = At("timeout", c)]
  /\ UNCHANGED <<threads, call, is_paused, reading, libdbus, op, handled, first>>

-----------------------------------------------------------------------------
(* The timeout of a call *)

\* add_timeout, which libdbus calls for an enabled timeout: a new timer, and
\* timeout_toggled starts it.
AddTimeout(c) == [timer EXCEPT ![c] = "armed"]

\* remove_timeout, for the timeouts of the calls in S: the steady_timer is deleted,
\* but dbus_timeout_get_data goes on naming it, so a second call deletes it twice.  A
\* completion that is queued already still runs.
RemoveTimeouts(S) ==
  [c \in MethodCalls |->
     IF c \notin S THEN timer[c] ELSE IF timer[c] = "deleted" THEN "twice" ELSE "deleted"]

\* libdbus knows the timeout as added: it has not had it removed.
TimeoutAdded(c) == timer[c] \in {"armed", "due", "queued"}

-----------------------------------------------------------------------------
(* The application sends *)

\* async_method_call: the arguments cannot be packed.  Nothing is sent, and the
\* handler is dropped.
PackError(t, c) ==
  /\ thread[t] = Idle /\ call[c] = "idle"
  /\ c \in MethodCalls
  /\ call' = [call EXCEPT ![c] = "over"]
  /\ UNCHANGED <<threads, thread, is_paused, io, reading, libdbus, op, timer, handled,
                 first>>

\* async_send: impl.start(), whose winner posts a dispatch_handler.
Start(t, c) ==
  /\ thread[t] = Idle /\ call[c] = "idle"
  /\ is_paused' = FALSE
  /\ io' = IF is_paused THEN Append(io, Dispatch) ELSE io
  /\ call' = [call EXCEPT ![c] = "begun"]
  /\ thread' = [thread EXCEPT ![t] = At("send", c)]
  /\ UNCHANGED <<threads, reading, libdbus, op, timer, handled, first>>

\* libdbus writes its queue as far as the socket takes it.
Write(q) ==
  \E k \in 0..Len(q) :
    /\ unsent' = SubSeq(q, k + 1, Len(q))
    /\ owed' = owed \cup (Range(SubSeq(q, 1, k)) \cap MethodCalls)

\* Not a method call: c.send(m), and the handler is dropped.
SendOnly(t, c) ==
  /\ thread[t] = At("send", c) /\ c \in Others
  /\ Write(Append(unsent, c))
  /\ call' = [call EXCEPT ![c] = "over"]
  /\ thread' = [thread EXCEPT ![t] = Idle]
  /\ UNCHANGED <<threads, is_paused, io, reading, wire, incoming, pending, notify, op,
                 timer, handled, first>>

\* A method call: send_with_reply makes the pending call and its timeout, for
\* which libdbus calls add_timeout.
SendWithReply(t, c) ==
  /\ thread[t] = At("send", c) /\ c \in MethodCalls
  /\ pending' = [pending EXCEPT ![c] = "waiting"]
  /\ timer' = AddTimeout(c)
  /\ Write(Append(unsent, c))
  /\ thread' = [thread EXCEPT ![t] = At("notify", c)]
  /\ UNCHANGED <<threads, call, is_paused, io, reading, wire, incoming, notify, op,
                 handled, first>>

\* flush: everything is written before it returns.
Flush(t) ==
  /\ thread[t] = Idle /\ unsent # <<>>
  /\ unsent' = <<>>
  /\ owed' = owed \cup (Range(unsent) \cap MethodCalls)
  /\ UNCHANGED <<threads, thread, call, is_paused, io, reading, wire, incoming, pending,
                 notify, op, timer, handled, first>>

\* The connection is closed: the pending call is NULL, and nobody looks.
SendDisconnected(t, c) ==
  /\ thread[t] = At("send", c) /\ c \in MethodCalls
  /\ pending' = [pending EXCEPT ![c] = "null"]
  /\ thread' = [thread EXCEPT ![t] = At("notify", c)]
  /\ UNCHANGED <<threads, call, is_paused, io, reading, wire, incoming, notify, unsent,
                 owed, op, timer, handled, first>>

\* new async_send_op and dbus_pending_call_set_notify ...
SetNotify(t, c) ==
  /\ thread[t] = At("notify", c)
  /\ op' = [op EXCEPT ![c] = "heap"]
  /\ notify' = [notify EXCEPT ![c] = (pending[c] # "null")]
  /\ thread' = [thread EXCEPT ![t] = At("completed", c)]
  /\ UNCHANGED <<threads, call, is_paused, io, reading, wire, incoming, pending, unsent, owed,
                 timer, handled, first>>

\* ... and the test of dbus_pending_call_get_completed, which leads to nothing.
GetCompleted(t, c) ==
  /\ thread[t] = At("completed", c)
  /\ call' = [call EXCEPT ![c] = "over"]
  /\ thread' = [thread EXCEPT ![t] = Idle]
  /\ UNCHANGED <<threads, is_paused, io, reading, libdbus, op, timer, handled, first>>

-----------------------------------------------------------------------------
(* The rest of the world *)

\* The peer answers a call it has received; it may also stay silent.
PeerReplies(c, k) ==
  /\ c \in owed
  /\ owed' = owed \ {c}
  /\ wire' = Append(wire, [call |-> c, kind |-> k])
  /\ UNCHANGED <<threads, thread, call, is_paused, io, reading, incoming, pending,
                 notify, unsent, op, timer, handled, first>>

\* The deadline of an armed timer passes.
TimerDue(c) ==
  /\ timer[c] = "armed"
  /\ timer' = [timer EXCEPT ![c] = "due"]
  /\ UNCHANGED <<threads, thread, call, is_paused, io, reading, libdbus, op, handled,
                 first>>

-----------------------------------------------------------------------------
(* The io_service *)

\* An idle thread takes the head of the queue.
Runs(t, task) == thread[t] = Idle /\ io # <<>> /\ Head(io) = task

\* The reactor: a waiting read completes when the socket is readable, and the
\* timers that are due complete, in some order.
Poll(t) ==
  LET due == {c \in MethodCalls : timer[c] = "due"}
      readable == reading /\ wire # <<>>
  IN  /\ Runs(t, Task)
      /\ reading' = (reading /\ ~readable)
      /\ timer' = [c \in MethodCalls |-> IF c \in due THEN "queued" ELSE timer[c]]
      /\ \E s \in SetToSeqs({Timeout(c) : c \in due}) :
           io' = Tail(io) \o (IF readable THEN <<Watch>> ELSE <<>>) \o s \o <<Task>>
      /\ UNCHANGED <<threads, thread, call, is_paused, libdbus, op, handled, first>>

\* dispatch_status is called when the incoming queue stops being empty.
NotifyStatus(q) == IF incoming = <<>> THEN Append(q, Dispatch) ELSE q

\* watch_handler: dbus_watch_handle reads some replies; each one that is waited
\* for has its timeout removed if it is still added.  Then watch_toggled reads again.
RunWatch(t) ==
  /\ Runs(t, Watch)
  /\ \E n \in 1..Len(wire) :
       LET got == SubSeq(wire, 1, n)
           from == {got[i].call : i \in 1..n}
       IN  /\ wire' = SubSeq(wire, n + 1, Len(wire))
           /\ incoming' = incoming \o got
           /\ timer' = RemoveTimeouts({c \in from : pending[c] = "waiting" /\ TimeoutAdded(c)})
           /\ first' = [c \in MethodCalls |->
                IF c \in from /\ first[c] = "none"
                  THEN (CHOOSE m \in Range(got) : m.call = c).kind
                  ELSE first[c]]
  /\ io' = NotifyStatus(Tail(io))
  /\ reading' = TRUE
  /\ UNCHANGED <<threads, thread, call, is_paused, pending, notify, unsent, owed, op,
                 handled>>

\* timeout_handler begins: ec is clear, the completion was a real one ...
RunTimeout(t, c) ==
  /\ Runs(t, Timeout(c))
  /\ io' = Tail(io)
  /\ thread' = [thread EXCEPT ![t] = At("timeout", c)]
  /\ UNCHANGED <<threads, call, is_paused, reading, libdbus, op, timer, handled, first>>

\* ... and calls dbus_timeout_handle: libdbus queues the NoReply error it keeps
\* for the call and removes the timeout, added or not.  On a freed DBusTimeout the
\* behaviour is undefined: the same may happen, or nothing.
TimeoutHandle(t, c) ==
  /\ thread[t] = At("timeout", c)
  /\ thread' = [thread EXCEPT ![t] = Idle]
  /\ \/ /\ timer' = RemoveTimeouts({c})
        /\ incoming' = Append(incoming, [call |-> c, kind |-> "noreply"])
        /\ io' = NotifyStatus(io)
        /\ first' = [first EXCEPT ![c] = IF @ = "none" THEN "noreply" ELSE @]
     \/ /\ pending[c] = "freed"
        /\ UNCHANGED <<timer, incoming, io, first>>
  /\ UNCHANGED <<threads, call, is_paused, reading, wire, pending, notify, unsent, owed,
                 op, handled>>

\* About to delete a timer that is deleted, or to read a pending call that is freed.
DeletesAgain(t, c) == thread[t] = At("timeout", c) /\ timer[c] = "deleted"
ReadsFreed(t, c) == thread[t] = At("completed", c) /\ pending[c] = "freed"

\* The behaviour of either is undefined: the program may go on or abort.
Aborted == threads = {}
Abort(t, c) ==
  /\ DeletesAgain(t, c) \/ ReadsFreed(t, c)
  /\ threads' = {}
  /\ UNCHANGED <<thread, call, is_paused, io, reading, libdbus, op, timer, handled, first>>

\* dispatch_handler: dbus_connection_dispatch completes the pending call the
\* message is for.  If a notify function is set it is callback(), which takes the
\* op, frees the pending call (and with it the DBusTimeout) and posts the op.  A
\* message whose call is already completed goes to the filters.  The handler posts
\* its successor while data remains.
RunDispatch(t) ==
  LET m == Head(incoming)
      completes == incoming # <<>> /\ pending[m.call] = "waiting"
      calls_back == completes /\ notify[m.call]
      more == Len(incoming) > 1
  IN  /\ Runs(t, Dispatch)
      /\ incoming' = IF incoming = <<>> THEN <<>> ELSE Tail(incoming)
      /\ pending' = IF ~completes THEN pending
                    ELSE [pending EXCEPT ![m.call] = IF calls_back THEN "freed" ELSE "completed"]
      /\ op' = IF calls_back THEN [op EXCEPT ![m.call] = "posted"] ELSE op
      /\ io' = Tail(io) \o (IF calls_back THEN <<Op(m.call, m.kind)>> ELSE <<>>)
                        \o (IF more THEN <<Dispatch>> ELSE <<>>)
      /\ UNCHANGED <<threads, thread, call, is_paused, reading, wire, notify, unsent,
                     owed, timer, handled, first>>

\* error(message).error_code(), then the lambda of async_method_call: a return
\* that cannot be unpacked becomes invalid_argument.
ErrorCode(k) ==
  CASE k = "return" -> "ok" [] k = "mismatch" -> "invalid_argument" [] OTHER -> "dbus_error"

\* The op runs: the user's handler is called.
RunOp(t, c, k) ==
  /\ Runs(t, Op(c, k))
  /\ io' = Tail(io)
  /\ op' = [op EXCEPT ![c] = "gone"]
  /\ handled' = [handled EXCEPT ![c] = Append(@, ErrorCode(k))]
  /\ UNCHANGED <<threads, thread, call, is_paused, reading, libdbus, timer, first>>

-----------------------------------------------------------------------------
\* Inside async_send.
Sending(t) ==
  \E c \in Calls :
    \/ SendOnly(t, c) \/ SendWithReply(t, c) \/ SendDisconnected(t, c)
    \/ SetNotify(t, c) \/ GetCompleted(t, c)

\* Inside io_service::run.
Running(t) ==
  \/ Poll(t) \/ RunWatch(t) \/ RunDispatch(t)
  \/ \E c \in MethodCalls :
       RunTimeout(t, c) \/ TimeoutHandle(t, c) \/ \E k \in Kinds : RunOp(t, c, k)

Next ==
  \/ \E t \in threads :
       \/ Flush(t)
       \/ \E c \in Calls : PackError(t, c) \/ Start(t, c)
       \/ \E c \in MethodCalls : Abort(t, c)
       \/ Sending(t)
       \/ Running(t)
  \/ /\ ~Aborted
     /\ \E c \in MethodCalls : TimerDue(c) \/ \E k \in Replies : PeerReplies(c, k)

Spec == Init /\ [][Next]_vars

(***************************************************************************)
(* Threads keep running what they have begun and what the io_service has   *)
(* for them, and time passes.  The peer need not answer, and the program   *)
(* need not abort when it might.                                           *)
(***************************************************************************)
Fairness ==
  /\ \A t \in Threads : WF_vars(t \in threads /\ (Sending(t) \/ Running(t)))
  /\ \A c \in MethodCalls : WF_vars(~Aborted /\ TimerDue(c))

FairSpec == Spec /\ Fairness

-----------------------------------------------------------------------------
(* Properties *)

\* Every variable has the type the code gives it.
TypeOK ==
  /\ threads \in Pools \cup {{}}
  /\ thread \in [Threads -> Activities]
  /\ call \in [Calls -> {"idle", "begun", "over"}]
  /\ is_paused \in BOOLEAN /\ reading \in BOOLEAN
  /\ io \in Seq(Tasks)
  /\ wire \in Seq(Message) /\ incoming \in Seq(Message)
  /\ pending \in [MethodCalls -> {"none", "waiting", "completed", "freed", "null"}]
  /\ notify \in [MethodCalls -> BOOLEAN]
  /\ op \in [MethodCalls -> {"none", "heap", "posted", "gone"}]
  /\ timer \in [MethodCalls -> {"none", "armed", "due", "queued", "deleted", "twice"}]
  /\ unsent \in Seq(Calls) /\ owed \subseteq MethodCalls \ Range(unsent)
  /\ handled \in [Calls -> Seq({ErrorCode(k) : k \in Kinds})]
  /\ first \in [MethodCalls -> Kinds \cup {"none"}]

\* The reply and the timeout of a call race each other through the socket, the
\* timer and two queues, and both may be queued.  The handler is called at most
\* once, and with the error code of the one that was queued first.
FirstAnswerOnce ==
  \A c \in MethodCalls : handled[c] \in {<<>>, <<ErrorCode(first[c])>>}

\* One thread does everything, and what it has begun is not interrupted.
Alone == Cardinality(threads) = 1

\* The answer overtook async_send_op: it was dispatched by another thread before
\* the notify function was set (the FIXME in async_send_op.hpp).
Overtaken(c) == ~Alone /\ pending[c] = "completed"

\* timeout_handler and async_send_op keep plain pointers to what callback() frees, the
\* DBusTimeout and the pending call: in a single-threaded application neither uses its
\* pointer after that.
NoDanglingPointer ==
  Alone => \A t \in threads, c \in MethodCalls :
    thread[t] \in {At("timeout", c), At("completed", c)} => pending[c] # "freed"

\* remove_timeout deletes a timer that libdbus may remove twice, with one thread too:
\* when the timer has completed, and the reply is read before timeout_handler runs.
\* That is the only way: a call whose timeout came first, or whose peer is silent, has
\* its timer deleted once.
DeletedOnceUnlessReplied ==
  \A c \in MethodCalls :
    (timer[c] = "twice" \/ \E t \in Threads : DeletesAgain(t, c)) => first[c] \in Answers

\* The op on the heap is owned by the notify function of a pending call that is
\* still to be completed; otherwise nothing would ever free it.  Only an answer that
\* has overtaken the sender leaves one behind.
OpHasOwner ==
  \A c \in MethodCalls :
    (op[c] = "heap" /\ pending[c] # "null" /\ ~Overtaken(c))
      => (pending[c] = "waiting" /\ notify[c])

\* A method call that is sent on an open connection has its handler called, with
\* an answer or with an error, also when the message is stuck in the outgoing queue
\* or the peer is silent; only an answer that overtakes the sender is lost, or
\* everything when the program aborts.
AnsweredUnlessOvertaken ==
  \A c \in MethodCalls :
    pending[c] = "waiting" ~> (handled[c] # <<>> \/ Overtaken(c) \/ Aborted)

\* The comment in async_send_op: when another thread has processed the reply before
\* the notify function was set, the function "must be called manually".  So every
\* method call that is sent has its handler called, as long as the program runs.
EveryCallAnswered ==
  \A c \in MethodCalls : pending[c] = "waiting" ~> (handled[c] # <<>> \/ Aborted)
=============================================================================
