\* Two tabs of a browser in which one password is typed, an address that has an
\* account, perhaps with another password, and one that has none, two failing
\* requests.
SPECIFICATION FairSpec
CONSTANTS
  Addresses = {a1, a2}
  Known = {a1}
  Passwords = {p1, p2}
  Typed = {p1}
  Tabs = {t1, t2}
  None = None
  MaxGlitches = 2
INVARIANTS
  IdentityEarned
  ActsAsShown
PROPERTY NeverHangs
CHECK_DEADLOCK FALSE
