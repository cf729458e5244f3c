\* A challenge signed before the application changed hands is exchanged after it.
SPECIFICATION Spec
CONSTANTS
  Wallets = {w1}
  Scopes = {read}
  Owners = {o1, o2}
  Challenges = {c1}
  Requests = {r1}
  None = None
  MaxFaults = 0
INVARIANTS
  NoInheritedConsent
CHECK_DEADLOCK FALSE
