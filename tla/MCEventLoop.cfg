\* Two io_service threads, two concurrent starters, a blocking caller and a
\* cancel, without flow control.
CONSTANTS
  Threads = {t1, t2}
  Starters = {s1, s2}
  Blockers = {b1}
  MaxMessages = 3
  MaxLeftover = 1
  MaxCancels = 1
  MaxLive = 10
  None = None
SPECIFICATION FairSpec
INVARIANTS TypeOK NoLostWakeup HandlersBounded OneReader
PROPERTIES EverythingDispatched
CHECK_DEADLOCK FALSE
