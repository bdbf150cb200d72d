-------------------------- MODULE MCObjectManager ---------------------------
(* Small instances of ObjectManager for TLC.                                  *)
EXTENDS ObjectManager, TLC

CONSTANTS x1, x2, x3

\* Two instances compete for one name.
MCName == [x \in Instances |-> IF x = x3 THEN "J" ELSE "I"]

\* Objects, values and the two instances of one name are interchangeable.
Symmetry == Permutations(Objects) \cup Permutations(Values) \cup Permutations({x1, x2})
=============================================================================
