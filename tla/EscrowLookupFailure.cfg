\* A failed creator lookup makes the buyer's contract a third party.
SPECIFICATION Spec
CONSTANTS
  Handles = {h1}
  Users = {u1, u2, u3}
  TradeIds = {t1}
  None = None
  HtlcUsers = {u1, u2, u3}
  HtlcContract = HtlcContract
  MaxUnpaidReservations = 1
  Price = 2
  Fee = 1
  Values = {2}
  MaxHeight = 3
  MaxDeposits = 1
  MaxReorgs = 0
  MaxFaults = 1
  LookupMayFail = TRUE
SYMMETRY Symmetry
INVARIANTS
  RefundFollowsOwnership
\* A closed trade and an exhausted chain bound leave nothing to do.
CHECK_DEADLOCK FALSE
