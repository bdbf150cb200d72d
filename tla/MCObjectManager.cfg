\* Two objects, three interfaces of two names, two values.
CONSTANTS
  x1 = x1
  x2 = x2
  x3 = x3
  Objects = {a, b}
  Instances = {x1, x2, x3}
  Interfaces = {"I", "J"}
  Name <- MCName
  Values = {v, w}
  Absent = Absent
  MaxChanges = 4
SPECIFICATION ManagerSpec
SYMMETRY Symmetry
INVARIANTS MirrorIsRight NothingMissed
CHECK_DEADLOCK FALSE
