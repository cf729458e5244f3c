\* What the periodic sweeps bring about in spite of one failure.
SPECIFICATION FairSpec
CONSTANTS
  Handles = {h1}
  Users = {u1, u2}
  TradeIds = {t1}
  None = None
  HtlcUsers = {}
  HtlcContract = HtlcContract
  MaxUnpaidReservations = 1
  Price = 2
  Fee = 1
  Values = {2}
  MaxHeight = 3
  MaxDeposits = 1
  MaxReorgs = 0
  MaxFaults = 1
  LookupMayFail = FALSE
PROPERTIES
  FundedMovesOn
  ReservationEnds
  BuyerOwnershipIsNoticed
  DecisionIsCarriedOut
\* A closed trade and an exhausted chain bound leave nothing to do.
CHECK_DEADLOCK FALSE
