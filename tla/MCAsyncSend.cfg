\* Two method calls and a signal, sent by one thread or by two.
CONSTANTS
  Threads = {t1, t2}
  Pools = {{t1}, {t1, t2}}
  MethodCalls = {c1, c2}
  Others = {s1}
  Replies = {"return", "mismatch"}
SPECIFICATION FairSpec
INVARIANTS TypeOK NoDanglingPointer DeletedOnceUnlessReplied OpHasOwner FirstAnswerOnce
PROPERTIES AnsweredUnlessOvertaken
\* The program may abort.
CHECK_DEADLOCK FALSE
