------------------------------ MODULE MCQueue -------------------------------
(* Instances of Queue for TLC.  Refinement and liveness are checked, so the   *)
(* messages and handlers, though interchangeable, are not a symmetry set.     *)
EXTENDS Queue
=============================================================================
