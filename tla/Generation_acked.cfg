\* The comment on task_acks_late.
SPECIFICATION Spec
CONSTANTS
  Gens = {1}
  Workers = {w1, w2}
  NoTask = NoTask
  Profiles = {{"crash"}}
  MaxFaults = 1
  MaxTools = 0
INVARIANT AckedIsProcessed
CHECK_DEADLOCK FALSE
