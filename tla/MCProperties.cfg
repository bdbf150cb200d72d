\* Two properties with two values; updates of up to two pairs, so that one call
\* can change a property twice.
CONSTANTS
  Names = {p, q}
  Values = {v, w}
  Absent = Absent
  Unknown = Unknown
  MaxUpdates = 2
  MaxChanges = 2
  MaxCalls = 2
  ForceAny = FALSE
SPECIFICATION Spec
SYMMETRY Symmetry
INVARIANTS MirrorCatchesUp RepliesAgree
CHECK_DEADLOCK FALSE
