---------------------------- MODULE MCProperties ----------------------------
(* Small instances of Properties for TLC.                                     *)
EXTENDS Properties, TLC

\* Names and values are interchangeable.
Symmetry == Permutations(Names) \cup Permutations(Values)
=============================================================================
