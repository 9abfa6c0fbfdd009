\* Three tasks in one pool process; anything may fail.
SPECIFICATION Spec
CONSTANTS
  MaxTasks = 3
  FaultKinds = {"db", "connect", "declare", "amqp", "close", "crash"}
  MaxFaults = 3
INVARIANTS
  PaidOnOwnLoop
  CleanAfterClose
CHECK_DEADLOCK FALSE
