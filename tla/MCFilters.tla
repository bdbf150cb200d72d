----------------------------- MODULE MCFilters ------------------------------
(* Small instances of Filters for TLC.  Liveness is checked, so there is no   *)
(* symmetry.                                                                  *)
EXTENDS Filters
=============================================================================
