\* One page of a user with an old generation and a new one that this page or
\* another one asks for.
SPECIFICATION LiveFairSpec
CONSTANTS
  Gens = {1, 2}
  Past = {1}
  Limit = 2
  Workers = {w1}
  NoTask = NoTask
  None = None
  Profiles = {{"publish", "crash", "db"}}
  MaxFaults = 1
  MaxTools = 1
  MaxLists = 2
  MaxGlitches = 2
INVARIANTS
  OneAtATime
  HistoryFresh
  ShownIsStored
PROPERTIES
  ResultIsSubject
  GeneratingEnds
CHECK_DEADLOCK FALSE
