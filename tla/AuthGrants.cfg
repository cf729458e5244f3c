\* Two requests at a time, two challenges, one fault; any number of changes of the registration.
SPECIFICATION Spec
CONSTANTS
  Wallets = {w1}
  Scopes = {read}
  Owners = {o1, o2}
  Challenges = {c1, c2}
  Requests = {r1, r2}
  None = None
  MaxFaults = 1
SYMMETRY Symmetry
INVARIANTS
  AuthTypeOK
  ChallengeSpentOnce
  ConsentFollowsApp
\* When the challenges are used up and no request is in progress, nothing is left.
CHECK_DEADLOCK FALSE
