----------------------------- MODULE MCEventLoop ----------------------------
(* Small instances of EventLoop for TLC.  Liveness is checked, so there is no *)
(* symmetry.                                                                  *)
EXTENDS EventLoop
=============================================================================
