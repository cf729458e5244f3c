\* A deposit is finalised by its height alone.
SPECIFICATION Spec
CONSTANTS
  Handles = {h1}
  Users = {u1, u2, u3}
  TradeIds = {t1}
  None = None
  HtlcUsers = {}
  HtlcContract = HtlcContract
  MaxUnpaidReservations = 1
  Price = 2
  Fee = 1
  Values = {2}
  MaxHeight = 3
  MaxDeposits = 1
  MaxReorgs = 1
  MaxFaults = 0
  LookupMayFail = FALSE
SYMMETRY Symmetry
INVARIANTS
  FundedIsFinal
\* A closed trade and an exhausted chain bound leave nothing to do.
CHECK_DEADLOCK FALSE
