\* A handle whose trade has been settled.
SPECIFICATION ResSpec
CONSTANTS
  Handles = {h1}
  Users = {u1, u2}
  TradeIds = {t1}
  None = None
  MaxUnpaidReservations = 1
  Requests = {r1}
  Nonces = {n1}
  MaxFaults = 0
INVARIANTS
  ReservedMeansOpenTrade
CHECK_DEADLOCK FALSE
