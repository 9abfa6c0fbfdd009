\* Three requests for two addresses: two of them race.
SPECIFICATION FairSpec
CONSTANTS
  Requests = {r1, r2, r3}
  Addresses = {a1, a2}
  Nobody = Nobody
  Workers = {w1, w2}
  NoTask = NoTask
  FaultKinds = {"publish", "duplicate", "requeue", "crash", "db", "commit", "smtp"}
  MaxFaults = 2
INVARIANTS
  CreatedOwnsAddress
  TakenIsTrue
  MailHasAccount
PROPERTY WelcomeArrives
CHECK_DEADLOCK FALSE
