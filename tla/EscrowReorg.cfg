\* A micro-block reorganisation and failing HTLC lookups.
SPECIFICATION Spec
CONSTANTS
  Handles = {h1}
  Users = {u1, u2}
  TradeIds = {t1}
  None = None
  HtlcUsers = {u1, u2}
  HtlcContract = HtlcContract
  MaxUnpaidReservations = 1
  Price = 2
  Fee = 1
  Values = {2}
  MaxHeight = 3
  MaxDeposits = 1
  MaxReorgs = 1
  MaxFaults = 1
  LookupMayFail = TRUE
SYMMETRY Symmetry
PROPERTIES
  ImplementsPromise
\* A closed trade and an exhausted chain bound leave nothing to do.
CHECK_DEADLOCK FALSE
