--------------------------- MODULE MCObjectServer ---------------------------
(* Small instances of ObjectServer for TLC.                                   *)
EXTENDS ObjectServer

CONSTANTS a, b, c

\* Objects a and c have the same path.
MCPath == [o \in {a, b, c} |-> IF o = b THEN "/b" ELSE "/a"]

Call(n, t, p, x) ==
  [id |-> n, type |-> "method_call", target |-> t, path |-> p, finds |-> x]

\* Three calls for one filter, so that two of them have to wait for the handler, and
\* one for another.
MCRequests ==
  { Call(1, "GetManagedObjects", "/a", "result"),
    Call(2, "method", "/a", "result"),
    Call(3, "method", "/b", "throws"),
    Call(4, "method", "/b", "bad_args") }
=============================================================================
