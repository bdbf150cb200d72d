\* Two filters, three messages and two handlers.
CONSTANTS
  Filter = {f, g}
  Messages = {m1, m2, m3}
  Handlers = {h1, h2}
  Nothing = Nothing
SPECIFICATION FairSpec
INVARIANTS OldestTakes
PROPERTIES EachIsRendezvous EveryPairMeets
CHECK_DEADLOCK FALSE
