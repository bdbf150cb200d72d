\* Three pushes against three pops, every interleaving of their lock sections.
CONSTANTS
  Messages = {m1, m2, m3}
  Handlers = {h1, h2, h3}
  Free = Free
SPECIFICATION FairSpec
INVARIANTS TypeOK NobodyStranded Backlog FifoPairing
PROPERTIES ImplementsRendezvous EveryPairMeets
CHECK_DEADLOCK FALSE
