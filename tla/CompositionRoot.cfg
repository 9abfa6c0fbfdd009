SPECIFICATION Spec
CONSTANTS
  Threads = {t1, t2}
INVARIANTS
  BuiltOncePerThread
  NothingLeftOpen
PROPERTY EachAnswered
CHECK_DEADLOCK FALSE
