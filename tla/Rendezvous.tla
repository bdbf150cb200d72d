----------------------------- MODULE Rendezvous -----------------------------
(***************************************************************************)
(* What detail::queue (include/dbus/detail/queue.hpp) promises to the two  *)
(* kinds of callers it brings together: the i-th message pushed is handed  *)
(* to the i-th handler that asked for one, exactly once, some time after   *)
(* both have arrived.  Nothing is promised on the order in which two       *)
(* different hand-overs happen.                                            *)
(***************************************************************************)
EXTENDS Naturals, Sequences

CONSTANTS Messages,  \* one element per call of push
          Handlers   \* one element per call of async_pop

VARIABLES pushed,   \* the messages pushed so far, in order
          popped,   \* the handlers registered so far, in order
          invoked   \* the hand-overs, in the order the handlers ran

vars == <<pushed, popped, invoked>>

Closure == [handler : Handlers, message : Messages]

\* The members of a sequence.
Elements(s) == {s[i] : i \in DOMAIN s}

Init == pushed = <<>> /\ popped = <<>> /\ invoked = <<>>

Push(m) ==
  /\ m \notin Elements(pushed)
  /\ pushed' = Append(pushed, m)
  /\ UNCHANGED <<popped, invoked>>

Pop(h) ==
  /\ h \notin Elements(popped)
  /\ popped' = Append(popped, h)
  /\ UNCHANGED <<pushed, invoked>>

\* The i-th message meets the i-th handler.
Invoke(i) ==
  LET c == [handler |-> popped[i], message |-> pushed[i]]
  IN  /\ c \notin Elements(invoked)
      /\ invoked' = Append(invoked, c)
      /\ UNCHANGED <<pushed, popped>>

Next ==
  \/ \E m \in Messages : Push(m)
  \/ \E h \in Handlers : Pop(h)
  \/ \E i \in DOMAIN pushed \cap DOMAIN popped : Invoke(i)

Spec == Init /\ [][Next]_vars
=============================================================================
