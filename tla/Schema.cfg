SPECIFICATION Spec
CONSTANTS
  MaxCommands = 2
  MaxFaults = 1
INVARIANT SchemaFits
PROPERTY StackComesUp
CHECK_DEADLOCK FALSE
