\* One io_service thread; libdbus disables the read watch while two received
\* messages are alive.  MaxLeftover < MaxLive: open() finds the watch enabled.
CONSTANTS
  Threads = {t1}
  Starters = {s1, s2}
  Blockers = {}
  MaxMessages = 4
  MaxLeftover = 1
  MaxCancels = 1
  MaxLive = 2
  None = None
SPECIFICATION FairSpec
INVARIANTS OneReader
PROPERTIES EverythingDispatched
CHECK_DEADLOCK FALSE
