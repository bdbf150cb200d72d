\* Two threads, one method call: the race of the FIXME in async_send_op.
CONSTANTS
  Threads = {t1, t2}
  Pools = {{t1, t2}}
  MethodCalls = {c1}
  Others = {}
  Replies = {"return", "mismatch"}
SPECIFICATION FairSpec
PROPERTIES EveryCallAnswered
\* The program may abort.
CHECK_DEADLOCK FALSE
