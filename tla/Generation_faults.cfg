\* Every fault at once, and a broker that delivers one generation to two
\* processes.
SPECIFICATION FairSpec
CONSTANTS
  Gens = {1}
  Workers = {w1, w2}
  NoTask = NoTask
  Profiles = {
    {"publish", "duplicate", "requeue", "crash", "db", "commit", "amqp"},
    {"duplicate", "requeue"},
    {"duplicate", "requeue", "crash", "commit", "amqp"},
    {"publish", "duplicate", "requeue"}}
  MaxFaults = 3
  MaxTools = 1
INVARIANTS
  FeedTruthful
  RunningIsExecuted
  PendingAccountedFor
PROPERTIES
  TasksDrain
  EveryAcceptedSettles
CHECK_DEADLOCK FALSE
