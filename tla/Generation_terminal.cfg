\* The docstring of GenerationStatus.
SPECIFICATION FairSpec
CONSTANTS
  Gens = {1}
  Workers = {w1, w2}
  NoTask = NoTask
  Profiles = {{"amqp"}}
  MaxFaults = 1
  MaxTools = 0
PROPERTY TerminalIsFinal
CHECK_DEADLOCK FALSE
