\* Two trades of two handles, or of one handle in turn, share the escrow account.
SPECIFICATION Spec
CONSTANTS
  Handles = {h1, h2}
  Users = {u1, u2}
  TradeIds = {t1, t2}
  None = None
  HtlcUsers = {}
  HtlcContract = HtlcContract
  MaxUnpaidReservations = 1
  Price = 2
  Fee = 1
  Values = {1, 2}
  MaxHeight = 2
  MaxDeposits = 2
  MaxReorgs = 0
  MaxFaults = 0
  LookupMayFail = FALSE
SYMMETRY Symmetry
INVARIANTS
  EscrowSolvent
  FundedIsFinal
\* A closed trade and an exhausted chain bound leave nothing to do.
CHECK_DEADLOCK FALSE
