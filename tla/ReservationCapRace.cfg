\* Two requests of one buyer over two handles.
SPECIFICATION ResSpec
CONSTANTS
  Handles = {h1, h2}
  Users = {u1}
  TradeIds = {t1, t2}
  None = None
  MaxUnpaidReservations = 1
  Requests = {r1, r2}
  Nonces = {n1, n2}
  MaxFaults = 0
INVARIANTS
  UnpaidCap
CHECK_DEADLOCK FALSE
