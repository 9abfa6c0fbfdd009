\* One broker delivery at a time: requests and sessions fail, processes crash.
SPECIFICATION Spec
CONSTANTS
  Gens = {1, 2}
  Workers = {w1, w2}
  NoTask = NoTask
  Profiles = {{"publish", "crash", "db"}}
  MaxFaults = 2
  MaxTools = 1
SYMMETRY Symmetry
INVARIANTS
  TypeOK
  OneExecutor
  AtMostOneCall
  FeedOrdered
  LastEventAgrees
PROPERTY LifecycleSpec
CHECK_DEADLOCK FALSE
