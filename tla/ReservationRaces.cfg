\* Two requests, the sweep and the watchers over two handles and their row locks.
SPECIFICATION ResFairSpec
CONSTANTS
  Handles = {h1, h2}
  Users = {u1}
  TradeIds = {t1, t2}
  None = None
  MaxUnpaidReservations = 1
  Requests = {r1, r2}
  Nonces = {n1, n2}
  MaxFaults = 1
INVARIANTS
  ReservationTypeOK
  ListingExclusive
  OneTradePerNonce
  NoOrphanReservation
PROPERTIES
  PaidNeverLapses
  StoreTransactions
  RequestsFinish
\* Used-up nonces leave nothing to do.
CHECK_DEADLOCK FALSE
