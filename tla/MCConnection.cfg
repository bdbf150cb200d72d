\* Two connections in a row, three matches, a filter and a name.
CONSTANTS
  m1 = m1
  m2 = m2
  m3 = m3
  e = e
  g = g
  Matches = {m1, m2, m3}
  Filter = {f1}
  Rules = {e, g}
  Rule <- MCRule
  Names = {n1}
  App = App
  MaxOpens = 2
  MaxGivenUp = 2
SPECIFICATION Spec
INVARIANTS OwnedExactlyOnce MatchesInForce
CHECK_DEADLOCK FALSE
