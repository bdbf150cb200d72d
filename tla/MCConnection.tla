---------------------------- MODULE MCConnection ----------------------------
(* Small instances of Connection for TLC.                                     *)
EXTENDS Connection

CONSTANTS m1, m2, m3, e, g

\* Two of the three matches have the same expression.
MCRule == [m \in Matches |-> IF m = m3 THEN g ELSE e]
=============================================================================
