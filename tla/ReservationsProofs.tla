--------------------------- MODULE ReservationsProofs ---------------------------
(***************************************************************************)
(* Theorems about Reservations, for every set of handles, users, trades,   *)
(* requests and nonces.                                                    *)
(***************************************************************************)
EXTENDS Reservations, FiniteSetTheorems, TLAPS

-----------------------------------------------------------------------------
(***************************************************************************)
(* The inductive invariant.                                                *)
(***************************************************************************)
\* The tables: a trade is of a handle, one whose deposit is recorded has not lapsed,
\* and the listings are as the trades have left them.
RowsAreTrades ==
  \A t \in TradeIds :
    /\ trades[t].state # "NONE" => trades[t].handle \in Handles
    /\ trades[t].depositHeight > 0 => trades[t].state \notin {"EXPIRED", "CANCELED"}

StoreInv == StoreTypeOK /\ RowsAreTrades /\ ListingExclusive /\ NoOrphanReservation

\* What a request or the sweep has seen under a row lock still holds while it keeps
\* the lock.
HoldsListing(r) == req[r].pc \in {"count", "insert"}
HoldsTrade(r) == req[r].pc = "listing"

Asked(r) ==
  /\ req[r].pc # "idle" => req[r].nonce \in Nonces /\ req[r].handle \in Handles /\ req[r].user \in Users
  /\ (req[r].pc # "idle" /\ req[r].op = "cancel") \/ req[r].pc \in {"advance", "listing"} =>
       req[r].trade \in TradeIds

Seen(r) ==
  /\ HoldsListing(r) => listings[req[r].handle].status = "active"
  /\ HoldsTrade(r) => Releasable(req[r].trade, "CANCELED")

RequestsHold == \A r \in Requests : Asked(r) /\ Seen(r)
SweepHolds == sweep.pc = "listing" => sweep.trade \in TradeIds /\ Releasable(sweep.trade, "EXPIRED")

\* A row has one lock.
OneListingLock ==
  \A r, s \in Requests : HoldsListing(r) /\ HoldsListing(s) /\ req[r].handle = req[s].handle => r = s
OneTradeLock ==
  /\ \A r, s \in Requests : HoldsTrade(r) /\ HoldsTrade(s) /\ req[r].trade = req[s].trade => r = s
  /\ \A r \in Requests : HoldsTrade(r) /\ sweep.pc = "listing" => req[r].trade # sweep.trade

LockInv == RequestsHold /\ SweepHolds /\ OneListingLock /\ OneTradeLock

\* A nonce is with one request, or with one trade, once it is used.
Bears(r) == req[r].pc \in {"begin", "count", "insert"}

NonceInv ==
  /\ \A r \in Requests : Bears(r) => req[r].nonce \in nonces
  /\ \A r, s \in Requests : Bears(r) /\ Bears(s) /\ req[r].nonce = req[s].nonce => r = s
  /\ \A t \in TradeIds : origin[t] # None => origin[t] \in nonces
  /\ \A r \in Requests, t \in TradeIds : Bears(r) /\ origin[t] # None => origin[t] # req[r].nonce
  /\ OneTradePerNonce

ResInv == ReservationTypeOK /\ StoreInv /\ LockInv /\ NonceInv

-----------------------------------------------------------------------------
(***************************************************************************)
(* The store transactions keep the tables right.                           *)
(***************************************************************************)
\* One trade goes on, open only if it was, and its listing stays.
LEMMA TradeGoesOn ==
  ASSUME StoreInv, NEW t \in TradeIds, NEW row \in Trade,
         trades' = [trades EXCEPT ![t] = row], UNCHANGED listings,
         trades[t].state \notin {"NONE", "EXPIRED", "CANCELED"},
         row.state \notin {"NONE", "EXPIRED", "CANCELED"}, row.handle = trades[t].handle,
         row.state \notin ClosedStates => trades[t].state \notin ClosedStates
  PROVE  StoreInv'
  <1>1. \A u \in TradeIds : trades'[u] = IF u = t THEN row ELSE trades[u]
    BY DEF StoreInv, StoreTypeOK
  <1>2. StoreTypeOK'
    BY DEF StoreInv, StoreTypeOK
  <1>3. RowsAreTrades'
    BY <1>1 DEF StoreInv, RowsAreTrades
  <1>4. ListingExclusive'
    <2>1. \A u \in TradeIds : IsOpen(u)' => IsOpen(u) /\ trades'[u].handle = trades[u].handle
      BY <1>1 DEF IsOpen
    <2>2. \A u \in TradeIds : trades'[u].handle = trades[u].handle
      BY <1>1
    <2> QED
      BY <2>1, <2>2 DEF StoreInv, ListingExclusive
  <1>5. NoOrphanReservation'
    BY <1>1 DEF StoreInv, NoOrphanReservation
  <1> QED
    BY <1>2, <1>3, <1>4, <1>5 DEF StoreInv

\* A handle without a row is listed.
LEMMA CreateKeeps ==
  ASSUME StoreInv, NEW h \in Handles, NEW s \in Users, CreateListing(h, s)
  PROVE  StoreInv'
  <1>1. UNCHANGED trades /\ \A t \in TradeIds : trades[t].handle = h => ~IsOpen(t)
    BY DEF CreateListing
  <1>2. \A g \in Handles : listings'[g] = IF g = h THEN [status |-> "active", seller |-> s] ELSE listings[g]
    BY DEF CreateListing, StoreInv, StoreTypeOK
  <1>3. StoreTypeOK'
    BY DEF CreateListing, StoreInv, StoreTypeOK, Listing, ListingStatus
  <1>4. RowsAreTrades'
    BY <1>1 DEF StoreInv, RowsAreTrades
  <1>5. ListingExclusive'
    <2>1. \A t \in TradeIds : IsOpen(t)' <=> IsOpen(t)
      BY <1>1 DEF IsOpen
    <2>2. \A t \in TradeIds : IsOpen(t) => trades[t].handle \in Handles \ {h}
      BY <1>1 DEF StoreInv, RowsAreTrades, IsOpen
    <2> QED
      BY <1>1, <1>2, <2>1, <2>2 DEF StoreInv, ListingExclusive
  <1>6. NoOrphanReservation'
    BY <1>1, <1>2 DEF StoreInv, NoOrphanReservation
  <1> QED
    BY <1>3, <1>4, <1>5, <1>6 DEF StoreInv

\* An active listing is taken by a new trade; none of its handle is open.
LEMMA ReserveKeeps ==
  ASSUME StoreInv, NEW t \in TradeIds, NEW h \in Handles, NEW b \in Users,
         Reservable(t, h), WriteReserved(t, h, b)
  PROVE  StoreInv'
  <1>1. PICK row : row = NewTrade("RESERVED", h, b, listings[h].seller)
    OBVIOUS
  <1>2. row \in Trade /\ row.state = "RESERVED" /\ row.handle = h /\ row.depositHeight = 0
    BY <1>1 DEF StoreInv, StoreTypeOK, NewTrade, Trade, TradeState, Listing
  <1>3. \A u \in TradeIds : trades'[u] = IF u = t THEN row ELSE trades[u]
    BY <1>1 DEF WriteReserved, StoreInv, StoreTypeOK
  <1>4. /\ \A g \in Handles : g # h => listings'[g] = listings[g]
        /\ listings'[h].status = "reserved"
        /\ listings' \in [Handles -> Listing]
    <2>1. [listings[h] EXCEPT !.status = "reserved"] \in Listing
          /\ [listings[h] EXCEPT !.status = "reserved"].status = "reserved"
      BY DEF StoreInv, StoreTypeOK, Listing, ListingStatus
    <2> QED
      BY <2>1 DEF WriteReserved, StoreInv, StoreTypeOK
  <1>5. StoreTypeOK'
    BY <1>1, <1>2, <1>4 DEF WriteReserved, StoreInv, StoreTypeOK
  <1>6. RowsAreTrades'
    BY <1>2, <1>3 DEF StoreInv, RowsAreTrades
  <1>7. \A u \in TradeIds : u # t /\ IsOpen(u)' => IsOpen(u) /\ trades[u].handle \in Handles \ {h}
    BY <1>3 DEF IsOpen, StoreInv, RowsAreTrades, ListingExclusive, Reservable
  <1>8. ListingExclusive'
    BY <1>2, <1>3, <1>4, <1>7 DEF StoreInv, ListingExclusive, IsOpen
  <1>9. NoOrphanReservation'
    <2> SUFFICES ASSUME NEW g \in Handles, listings'[g].status = "reserved"
                 PROVE  \E u \in TradeIds : /\ trades'[u].handle = g
                                            /\ trades'[u].state \notin {"NONE", "EXPIRED", "CANCELED"}
      BY DEF NoOrphanReservation
    <2>1. CASE g = h
      BY <1>2, <1>3, <2>1
    <2>2. CASE g # h
      <3>1. PICK u \in TradeIds : /\ trades[u].handle = g
                                  /\ trades[u].state \notin {"NONE", "EXPIRED", "CANCELED"}
        BY <1>4, <2>2 DEF StoreInv, NoOrphanReservation
      <3> QED
        BY <1>3, <3>1 DEF Reservable
    <2> QED
      BY <2>1, <2>2
  <1> QED
    BY <1>5, <1>6, <1>8, <1>9 DEF StoreInv

\* A reservation lapses, and its listing is on the market again.
LEMMA ReleaseKeeps ==
  ASSUME StoreInv, NEW t \in TradeIds, NEW to \in {"CANCELED", "EXPIRED"},
         Releasable(t, to), WriteReleased(t, to)
  PROVE  StoreInv'
  <1>1. PICK row : row = [trades[t] EXCEPT !.state = to]
    OBVIOUS
  <1>2. row \in Trade /\ row.state = to /\ row.handle = trades[t].handle
        /\ row.depositHeight = trades[t].depositHeight
    <2>1. trades[t] \in Trade
      BY DEF StoreInv, StoreTypeOK
    <2> QED
      BY <1>1, <2>1 DEF Trade, TradeState
  <1>3. trades' = [trades EXCEPT ![t] = row]
    BY <1>1 DEF WriteReleased, StoreInv, StoreTypeOK
  <1>4. \A u \in TradeIds : trades'[u] = IF u = t THEN row ELSE trades[u]
    BY <1>3 DEF StoreInv, StoreTypeOK
  <1>5. PICK h \in Handles : h = trades[t].handle
    BY DEF StoreInv, RowsAreTrades, Releasable, IsUnpaid, UnpaidStates
  <1>6. /\ \A g \in Handles : g # h => listings'[g] = listings[g]
        /\ listings'[h].status = "active"
        /\ listings' \in [Handles -> Listing]
    <2>1. [listings[h] EXCEPT !.status = "active"] \in Listing
          /\ [listings[h] EXCEPT !.status = "active"].status = "active"
      BY DEF StoreInv, StoreTypeOK, Listing, ListingStatus
    <2> QED
      BY <1>5, <2>1 DEF WriteReleased, StoreInv, StoreTypeOK
  <1>7. StoreTypeOK'
    BY <1>2, <1>3, <1>6 DEF StoreInv, StoreTypeOK
  <1>8. trades[t].depositHeight = 0 /\ IsOpen(t)
    BY DEF Releasable, IsUnpaid, IsOpen, UnpaidStates, ClosedStates
  <1>9. RowsAreTrades'
    BY <1>2, <1>4, <1>5, <1>8 DEF StoreInv, RowsAreTrades
  <1>10. ListingExclusive'
    <2>1. \A u \in TradeIds : IsOpen(u)' => u # t /\ IsOpen(u) /\ trades[u].handle \in Handles \ {h}
      BY <1>2, <1>4, <1>5, <1>8 DEF IsOpen, ClosedStates, StoreInv, RowsAreTrades, ListingExclusive
    <2> QED
      BY <1>4, <1>6, <2>1 DEF StoreInv, ListingExclusive
  <1>11. NoOrphanReservation'
    BY <1>4, <1>5, <1>6 DEF StoreInv, NoOrphanReservation
  <1> QED
    BY <1>7, <1>9, <1>10, <1>11 DEF StoreInv

\* A row keeps its other fields when its state is written.
LEMMA StateWritten ==
  ASSUME NEW row \in Trade, NEW to \in TradeState
  PROVE  /\ [row EXCEPT !.state = to] \in Trade
         /\ [row EXCEPT !.state = to].state = to
         /\ [row EXCEPT !.state = to].handle = row.handle
         /\ [row EXCEPT !.state = to].depositHeight = row.depositHeight
  BY DEF Trade

\* The handler's and the watchers' writes.
LEMMA AdvanceKeeps ==
  ASSUME StoreInv, NEW t \in TradeIds,
         Transition(t, "RESERVED", "AWAITING_DEPOSIT", trades[t])
  PROVE  StoreInv'
  <1>1. trades[t] \in Trade /\ "AWAITING_DEPOSIT" \in TradeState
    BY DEF StoreInv, StoreTypeOK, TradeState
  <1>2. PICK row : row = [trades[t] EXCEPT !.state = "AWAITING_DEPOSIT"]
    OBVIOUS
  <1>3. row \in Trade /\ row.state = "AWAITING_DEPOSIT" /\ row.handle = trades[t].handle
    BY <1>1, <1>2, StateWritten
  <1>4. trades' = [trades EXCEPT ![t] = row] /\ UNCHANGED listings /\ trades[t].state = "RESERVED"
    BY <1>2 DEF Transition
  <1> QED
    BY <1>3, <1>4, TradeGoesOn DEF ClosedStates

LEMMA ObserveKeeps ==
  ASSUME StoreInv, NEW t \in TradeIds, Observe(t)
  PROVE  StoreInv'
  <1>1. [trades[t] EXCEPT !.depositHeight = 1] \in Trade
        /\ [trades[t] EXCEPT !.depositHeight = 1].handle = trades[t].handle
    <2>1. trades[t] \in Trade
      BY DEF StoreInv, StoreTypeOK
    <2> QED
      BY <2>1 DEF Trade
  <1>2. PICK row : row = [[trades[t] EXCEPT !.depositHeight = 1] EXCEPT !.state = "DEPOSIT_FINALIZING"]
    OBVIOUS
  <1>3. row \in Trade /\ row.state = "DEPOSIT_FINALIZING" /\ row.handle = trades[t].handle
    BY <1>1, <1>2, StateWritten DEF TradeState
  <1>4. trades' = [trades EXCEPT ![t] = row] /\ UNCHANGED listings /\ trades[t].state = "AWAITING_DEPOSIT"
    BY <1>2 DEF Observe, Transition
  <1> QED
    BY <1>3, <1>4, TradeGoesOn DEF ClosedStates

LEMMA ConcludeKeeps ==
  ASSUME StoreInv, NEW t \in TradeIds, NEW end \in {"SETTLED", "REFUNDED"}, Conclude(t, end)
  PROVE  StoreInv'
  <1>1. trades[t] \in Trade /\ end \in TradeState
    BY DEF StoreInv, StoreTypeOK, TradeState
  <1>2. PICK row : row = [trades[t] EXCEPT !.state = end]
    OBVIOUS
  <1>3. row \in Trade /\ row.state = end /\ row.handle = trades[t].handle
    BY <1>1, <1>2, StateWritten
  <1>4. trades' = [trades EXCEPT ![t] = row] /\ UNCHANGED listings /\ trades[t].state = "DEPOSIT_FINALIZING"
    BY <1>2 DEF Conclude, StoreInv, StoreTypeOK
  <1> QED
    BY <1>3, <1>4, TradeGoesOn DEF ClosedStates

LEMMA StoreStays ==
  ASSUME StoreInv, UNCHANGED storeVars
  PROVE  StoreInv'
  BY DEF StoreInv, StoreTypeOK, RowsAreTrades, ListingExclusive, NoOrphanReservation, IsOpen, storeVars

-----------------------------------------------------------------------------
(***************************************************************************)
(* A request moves; the others, and the sweep, keep what they hold.        *)
(***************************************************************************)
Moves(r) ==
  /\ req' \in [Requests -> Request]
  /\ \A q \in Requests : q # r => req'[q] = req[q]

\* A request that goes on keeps what it asks for.
LEMMA GoOnMoves ==
  ASSUME ReservationTypeOK, NEW r \in Requests, NEW pc \in {"begin", "count", "insert", "listing"}, GoOn(r, pc)
  PROVE  /\ Moves(r) /\ req'[r].pc = pc
         /\ req'[r].op = req[r].op /\ req'[r].nonce = req[r].nonce /\ req'[r].handle = req[r].handle
         /\ req'[r].user = req[r].user /\ req'[r].trade = req[r].trade
  <1>1. req[r] \in Request
    BY DEF ReservationTypeOK
  <1>2. PICK next : next = [req[r] EXCEPT !.pc = pc]
    OBVIOUS
  <1>3. /\ next \in Request /\ next.pc = pc
        /\ next.op = req[r].op /\ next.nonce = req[r].nonce /\ next.handle = req[r].handle
        /\ next.user = req[r].user /\ next.trade = req[r].trade
    BY <1>1, <1>2 DEF Request
  <1>4. req' = [req EXCEPT ![r] = next]
    BY <1>2 DEF GoOn, ReservationTypeOK
  <1> QED
    BY <1>3, <1>4 DEF Moves, ReservationTypeOK

\* A request that is answered is over.
LEMMA AnswerMoves ==
  ASSUME ReservationTypeOK, NEW r \in Requests, Answer(r)
  PROVE  Moves(r) /\ req'[r].pc = "idle"
  <1>1. Idle \in Request /\ Idle.pc = "idle"
    BY DEF Idle, Request, Ops
  <1> QED
    BY <1>1 DEF Answer, Moves, ReservationTypeOK

\* A row that stays can be released as before.
LEMMA RowStays ==
  ASSUME NEW t, trades'[t] = trades[t], NEW to
  PROVE  Releasable(t, to)' <=> Releasable(t, to)
  BY DEF Releasable, IsUnpaid

LEMMA LocksMove ==
  ASSUME LockInv, NEW r \in Requests, Moves(r), UNCHANGED sweep,
         \A q \in Requests : q # r /\ HoldsListing(q) => listings'[req[q].handle].status = "active",
         \A q \in Requests : q # r /\ HoldsTrade(q) => trades'[req[q].trade] = trades[req[q].trade],
         sweep.pc = "listing" => trades'[sweep.trade] = trades[sweep.trade],
         Asked(r)', Seen(r)',
         HoldsListing(r)' =>
           (HoldsListing(r) /\ req'[r].handle = req[r].handle) \/ ~ListingLocked(req'[r].handle),
         HoldsTrade(r)' => ~TradeLocked(req'[r].trade)
  PROVE  LockInv'
  <1>1. \A q \in Requests : q # r => req'[q] = req[q]
    BY DEF Moves
  <1>2. RequestsHold'
    <2> SUFFICES ASSUME NEW q \in Requests, q # r
                 PROVE  Asked(q)' /\ Seen(q)'
      BY DEF RequestsHold
    <2>1. Asked(q)' /\ Asked(q) /\ Seen(q)
      BY <1>1 DEF LockInv, RequestsHold, Asked
    <2>2. HoldsTrade(q) => Releasable(req[q].trade, "CANCELED")'
      <3>1. PICK t : t = req[q].trade
        OBVIOUS
      <3>2. HoldsTrade(q) => Releasable(t, "CANCELED")'
        BY <2>1, <3>1, RowStays DEF Seen
      <3> QED
        BY <1>1, <3>1, <3>2 DEF Releasable, IsUnpaid
    <2> QED
      BY <1>1, <2>1, <2>2 DEF Seen, HoldsListing, HoldsTrade, Releasable, IsUnpaid
  <1>3. SweepHolds'
    <2>1. PICK t : t = sweep.trade
      OBVIOUS
    <2>2. sweep.pc = "listing" => t \in TradeIds /\ Releasable(t, "EXPIRED")'
      BY <2>1, RowStays DEF LockInv, SweepHolds
    <2> QED
      BY <2>1, <2>2 DEF SweepHolds, Releasable, IsUnpaid
  <1>4. OneListingLock'
    <2>1. ASSUME NEW q \in Requests, q # r, HoldsListing(q)', HoldsListing(r)', req'[q].handle = req'[r].handle
          PROVE  FALSE
      BY <1>1, <2>1 DEF LockInv, OneListingLock, HoldsListing, ListingLocked
    <2> QED
      BY <1>1, <2>1 DEF LockInv, OneListingLock, HoldsListing
  <1>5. OneTradeLock'
    <2>1. ASSUME HoldsTrade(r)'
          PROVE  /\ \A q \in Requests : q # r /\ HoldsTrade(q)' => req'[q].trade # req'[r].trade
                 /\ sweep.pc = "listing" => sweep.trade # req'[r].trade
      BY <1>1, <2>1 DEF HoldsTrade, TradeLocked
    <2> QED
      BY <1>1, <2>1 DEF LockInv, OneTradeLock, HoldsTrade
  <1> QED
    BY <1>2, <1>3, <1>4, <1>5 DEF LockInv

LEMMA LocksStay ==
  ASSUME LockInv, UNCHANGED req,
         \A q \in Requests : HoldsListing(q) => listings'[req[q].handle].status = "active",
         \A q \in Requests : HoldsTrade(q) => trades'[req[q].trade] = trades[req[q].trade],
         SweepHolds',
         sweep'.pc = "listing" => sweep' = sweep \/ ~TradeLocked(sweep'.trade)
  PROVE  LockInv'
  <1>1. RequestsHold'
    <2> SUFFICES ASSUME NEW q \in Requests
                 PROVE  Asked(q)' /\ Seen(q)'
      BY DEF RequestsHold
    <2>1. Asked(q)' /\ Asked(q) /\ Seen(q)
      BY DEF LockInv, RequestsHold, Asked
    <2>2. HoldsTrade(q) => Releasable(req[q].trade, "CANCELED")'
      <3>1. PICK t : t = req[q].trade
        OBVIOUS
      <3>2. HoldsTrade(q) => Releasable(t, "CANCELED")'
        BY <2>1, <3>1, RowStays DEF Seen
      <3> QED
        BY <3>1, <3>2 DEF Releasable, IsUnpaid
    <2> QED
      BY <2>1, <2>2 DEF Seen, HoldsListing, HoldsTrade, Releasable, IsUnpaid
  <1>2. OneListingLock' /\ OneTradeLock'
    BY DEF LockInv, OneListingLock, OneTradeLock, HoldsListing, HoldsTrade, TradeLocked
  <1> QED
    BY <1>1, <1>2 DEF LockInv

\* The sweep, where its own row stays.
LEMMA SweepStays ==
  ASSUME SweepHolds, UNCHANGED sweep, sweep.pc = "listing" => trades'[sweep.trade] = trades[sweep.trade]
  PROVE  SweepHolds'
  <1>1. PICK t : t = sweep.trade
    OBVIOUS
  <1>2. sweep.pc = "listing" => t \in TradeIds /\ Releasable(t, "EXPIRED")'
    BY <1>1, RowStays DEF SweepHolds
  <1> QED
    BY <1>1, <1>2 DEF SweepHolds, Releasable, IsUnpaid

\* Nonces, while nothing is consumed and no trade is inserted.
LEMMA NoncesStay ==
  ASSUME NonceInv, NEW r \in Requests, Moves(r), UNCHANGED << nonces, origin >>,
         Bears(r)' => Bears(r) /\ req'[r].nonce = req[r].nonce
  PROVE  NonceInv'
  <1>1. \A q \in Requests : Bears(q)' => Bears(q) /\ req'[q].nonce = req[q].nonce
    BY DEF Moves, Bears
  <1> QED
    BY <1>1 DEF NonceInv, OneTradePerNonce

LEMMA NoncesQuiet ==
  ASSUME NonceInv, UNCHANGED << req, nonces, origin >>
  PROVE  NonceInv'
  BY DEF NonceInv, OneTradePerNonce, Bears

\* A request moves and the tables stay.
LEMMA MoveStep ==
  ASSUME ResInv, NEW r \in Requests, Moves(r), UNCHANGED << storeVars, sweep, due, origin >>,
         faults' \in Nat, nonces' \subseteq Nonces, NonceInv', Asked(r)', Seen(r)',
         HoldsListing(r)' =>
           (HoldsListing(r) /\ req'[r].handle = req[r].handle) \/ ~ListingLocked(req'[r].handle),
         HoldsTrade(r)' => ~TradeLocked(req'[r].trade)
  PROVE  ResInv'
  <1>1. StoreInv'
    BY StoreStays DEF ResInv
  <1>2. UNCHANGED << listings, trades >>
    BY DEF storeVars
  <1>3. LockInv'
    <2>1. \A q \in Requests : HoldsListing(q) => listings'[req[q].handle].status = "active"
      BY <1>2 DEF ResInv, LockInv, RequestsHold, Seen
    <2> QED
      BY <1>2, <2>1, LocksMove DEF ResInv
  <1>4. ReservationTypeOK'
    BY <1>1 DEF ResInv, ReservationTypeOK, StoreInv, Moves, Sweep
  <1> QED
    BY <1>1, <1>3, <1>4 DEF ResInv

\* A request that holds no lock and goes on without one.
LEMMA AnswerStep ==
  ASSUME ResInv, NEW r \in Requests, Answer(r), UNCHANGED << storeVars, nonces, sweep, due, origin >>,
         faults' \in Nat
  PROVE  ResInv'
  <1>1. Moves(r) /\ req'[r].pc = "idle"
    BY AnswerMoves DEF ResInv
  <1>2. Asked(r)' /\ Seen(r)' /\ ~HoldsListing(r)' /\ ~HoldsTrade(r)' /\ ~Bears(r)'
    BY <1>1 DEF Asked, Seen, HoldsListing, HoldsTrade, Bears
  <1>3. NonceInv'
    BY <1>1, <1>2, NoncesStay DEF ResInv
  <1>4. nonces' \subseteq Nonces
    BY DEF ResInv, ReservationTypeOK
  <1> QED
    BY <1>1, <1>2, <1>3, <1>4, MoveStep

-----------------------------------------------------------------------------
(***************************************************************************)
(* The actions of requests.                                                *)
(***************************************************************************)
LEMMA ArriveStep ==
  ASSUME ResInv, NEW r \in Requests, NEW op \in Ops, NEW n \in Nonces, NEW h \in Handles, NEW u \in Users,
         NEW t \in TradeIds \cup {None}, op = "cancel" => t # None, Arrive(r, op, n, h, u, t)
  PROVE  ResInv'
  <1>1. PICK next : next = [pc |-> "nonce", op |-> op, nonce |-> n, handle |-> h, user |-> u, trade |-> t]
    OBVIOUS
  <1>2. /\ next \in Request /\ next.pc = "nonce" /\ next.op = op /\ next.nonce = n
        /\ next.handle = h /\ next.user = u /\ next.trade = t
    BY <1>1 DEF Request
  <1>3. req' = [req EXCEPT ![r] = next]
    BY <1>1 DEF Arrive
  <1>4. Moves(r) /\ req'[r] = next
    BY <1>2, <1>3 DEF ResInv, ReservationTypeOK, Moves
  <1>5. Asked(r)' /\ Seen(r)' /\ ~HoldsListing(r)' /\ ~HoldsTrade(r)' /\ ~Bears(r)'
    BY <1>2, <1>4 DEF Asked, Seen, HoldsListing, HoldsTrade, Bears
  <1>6. NonceInv'
    BY <1>4, <1>5, NoncesStay DEF ResInv, Arrive
  <1> QED
    BY <1>4, <1>5, <1>6, MoveStep DEF Arrive, ResInv, ReservationTypeOK

\* The nonce is the request's alone from here on.
LEMMA ConsumeNonceStep ==
  ASSUME ResInv, NEW r \in Requests, ConsumeNonce(r)
  PROVE  ResInv'
  <1>1. UNCHANGED << storeVars, sweep, due, origin, faults >> /\ faults' \in Nat /\ Asked(r)
    BY DEF ConsumeNonce, ResInv, ReservationTypeOK, LockInv, RequestsHold
  <1>2. CASE Answer(r) /\ UNCHANGED nonces
    BY <1>1, <1>2, AnswerStep
  <1>3. CASE req[r].nonce \notin nonces /\ nonces' = nonces \cup {req[r].nonce} /\ GoOn(r, "begin")
    <2>1. /\ Moves(r) /\ req'[r].pc = "begin"
          /\ req'[r].op = req[r].op /\ req'[r].nonce = req[r].nonce /\ req'[r].handle = req[r].handle
          /\ req'[r].user = req[r].user /\ req'[r].trade = req[r].trade
      BY <1>3, GoOnMoves DEF ResInv
    <2>2. Asked(r)' /\ Seen(r)' /\ ~HoldsListing(r)' /\ ~HoldsTrade(r)'
      BY <1>1, <2>1 DEF Asked, Seen, HoldsListing, HoldsTrade, ConsumeNonce
    <2>3. nonces' \subseteq Nonces
      BY <1>1, <1>3 DEF Asked, ConsumeNonce, ResInv, ReservationTypeOK
    <2>4. PICK n : n = req[r].nonce
      OBVIOUS
    <2>5. n \notin nonces /\ nonces' = nonces \cup {n} /\ req'[r].nonce = n
      BY <1>3, <2>1, <2>4
    <2>6. \A q \in Requests : q # r /\ Bears(q)' => Bears(q) /\ req'[q].nonce = req[q].nonce
      BY <2>1 DEF Moves, Bears
    <2>7. NonceInv'
      BY <1>1, <2>5, <2>6 DEF ResInv, NonceInv, OneTradePerNonce
    <2> QED
      BY <1>1, <2>1, <2>2, <2>3, <2>7, MoveStep
  <1> QED
    BY <1>2, <1>3 DEF ConsumeNonce

\* A lock is taken, or kept, with what it shows.
LEMMA GoOnStep ==
  ASSUME ResInv, NEW r \in Requests, NEW pc \in {"count", "insert", "listing"}, GoOn(r, pc),
         UNCHANGED << storeVars, nonces, sweep, due, origin, faults >>,
         req[r].pc # "idle",
         pc \in {"count", "insert"} =>
           /\ Bears(r) /\ listings[req[r].handle].status = "active"
           /\ HoldsListing(r) \/ ~ListingLocked(req[r].handle),
         pc = "listing" =>
           /\ req[r].trade \in TradeIds /\ Releasable(req[r].trade, "CANCELED")
           /\ ~TradeLocked(req[r].trade)
  PROVE  ResInv'
  <1>1. /\ Moves(r) /\ req'[r].pc = pc
        /\ req'[r].op = req[r].op /\ req'[r].nonce = req[r].nonce /\ req'[r].handle = req[r].handle
        /\ req'[r].user = req[r].user /\ req'[r].trade = req[r].trade
    BY GoOnMoves DEF ResInv
  <1>2. Asked(r)
    BY DEF ResInv, LockInv, RequestsHold
  <1>3. Asked(r)'
    BY <1>1, <1>2 DEF Asked
  <1>4. Seen(r)'
    BY <1>1 DEF Seen, HoldsListing, HoldsTrade, Releasable, IsUnpaid, storeVars
  <1>5. NonceInv'
    BY <1>1, NoncesStay DEF Bears, ResInv
  <1>6. HoldsListing(r)' =>
          (HoldsListing(r) /\ req'[r].handle = req[r].handle) \/ ~ListingLocked(req'[r].handle)
    BY <1>1 DEF HoldsListing
  <1>7. HoldsTrade(r)' => ~TradeLocked(req'[r].trade)
    BY <1>1 DEF HoldsTrade
  <1> QED
    BY <1>1, <1>3, <1>4, <1>5, <1>6, <1>7, MoveStep DEF ResInv, ReservationTypeOK

LEMMA LockListingStep ==
  ASSUME ResInv, NEW r \in Requests, LockListing(r)
  PROVE  ResInv'
  <1>1. CASE listings[req[r].handle].status = "active"
    BY <1>1, GoOnStep DEF LockListing, Bears
  <1>2. CASE listings[req[r].handle].status # "active"
    BY <1>2, AnswerStep DEF LockListing, ResInv, ReservationTypeOK
  <1> QED
    BY <1>1, <1>2

LEMMA CountUnpaidStep ==
  ASSUME ResInv, NEW r \in Requests, CountUnpaid(r)
  PROVE  ResInv'
  <1>1. Bears(r) /\ HoldsListing(r) /\ listings[req[r].handle].status = "active"
    BY DEF CountUnpaid, Bears, HoldsListing, ResInv, LockInv, RequestsHold, Seen
  <1>2. CASE UnpaidReservationCount(req[r].user) < MaxUnpaidReservations
    BY <1>1, <1>2, GoOnStep DEF CountUnpaid
  <1>3. CASE ~(UnpaidReservationCount(req[r].user) < MaxUnpaidReservations)
    BY <1>3, AnswerStep DEF CountUnpaid, ResInv, ReservationTypeOK
  <1> QED
    BY <1>2, <1>3

LEMMA LockTradeStep ==
  ASSUME ResInv, NEW r \in Requests, LockTrade(r)
  PROVE  ResInv'
  <1>1. req[r].trade \in TradeIds
    BY DEF LockTrade, ResInv, LockInv, RequestsHold, Asked
  <1>2. CASE Releasable(req[r].trade, "CANCELED")
    BY <1>1, <1>2, GoOnStep DEF LockTrade
  <1>3. CASE ~Releasable(req[r].trade, "CANCELED")
    BY <1>3, AnswerStep DEF LockTrade, ResInv, ReservationTypeOK
  <1> QED
    BY <1>2, <1>3

LEMMA FailRequestStep ==
  ASSUME ResInv, NEW r \in Requests, FailRequest(r)
  PROVE  ResInv'
  <1>1. faults' \in Nat
    BY DEF FailRequest, ResFault, ResInv, ReservationTypeOK
  <1> QED
    BY <1>1, AnswerStep DEF FailRequest

\* A commit: the tables change at rows no other request and no sweep has locked.
LEMMA CommitStep ==
  ASSUME ResInv, NEW r \in Requests, Moves(r), StoreInv', NonceInv',
         UNCHANGED << nonces, sweep, due, faults >>, origin' \in [TradeIds -> Nonces \cup {None}],
         \A q \in Requests : q # r /\ HoldsListing(q) => listings'[req[q].handle].status = "active",
         \A q \in Requests : q # r /\ HoldsTrade(q) => trades'[req[q].trade] = trades[req[q].trade],
         sweep.pc = "listing" => trades'[sweep.trade] = trades[sweep.trade],
         Asked(r)', req'[r].pc \in {"idle", "advance"}
  PROVE  ResInv'
  <1>1. ~HoldsListing(r)' /\ ~HoldsTrade(r)' /\ Seen(r)'
    BY DEF HoldsListing, HoldsTrade, Seen
  <1>2. LockInv'
    BY <1>1, LocksMove DEF ResInv
  <1>3. ReservationTypeOK'
    BY DEF ResInv, ReservationTypeOK, StoreInv, Moves, Sweep
  <1> QED
    BY <1>2, <1>3 DEF ResInv

LEMMA ListHandleStep ==
  ASSUME ResInv, NEW r \in Requests, ListHandle(r)
  PROVE  ResInv'
  <1>1. CASE UNCHANGED storeVars
    BY <1>1, AnswerStep DEF ListHandle, ResInv, ReservationTypeOK
  <1>2. CASE CreateListing(req[r].handle, req[r].user)
    <2>1. PICK h \in Handles, s \in Users : h = req[r].handle /\ s = req[r].user
      BY DEF ListHandle, ResInv, LockInv, RequestsHold, Asked
    <2>2. StoreInv'
      BY <1>2, <2>1, CreateKeeps DEF ResInv
    <2>3. Moves(r) /\ req'[r].pc = "idle"
      BY AnswerMoves DEF ListHandle, ResInv
    <2>4. Asked(r)' /\ NonceInv'
      BY <2>3, NoncesStay DEF Asked, Bears, ListHandle, ResInv
    <2>5. UNCHANGED trades /\ \A g \in Handles : listings[g].status = "active" => listings'[g].status = "active"
      BY <1>2, <2>1 DEF CreateListing, ResInv, StoreInv, StoreTypeOK
    <2>6. \A q \in Requests : HoldsListing(q) => listings'[req[q].handle].status = "active"
      BY <2>5 DEF ResInv, LockInv, RequestsHold, Asked, Seen, HoldsListing
    <2> QED
      BY <2>2, <2>3, <2>4, <2>5, <2>6, CommitStep DEF ListHandle, ResInv, ReservationTypeOK
  <1> QED
    BY <1>1, <1>2 DEF ListHandle

LEMMA CommitReserveStep ==
  ASSUME ResInv, NEW r \in Requests, CommitReserve(r)
  PROVE  ResInv'
  <1>1. PICK t \in TradeIds :
          /\ trades[t].state = "NONE" /\ WriteReserved(t, req[r].handle, req[r].user)
          /\ origin' = [origin EXCEPT ![t] = req[r].nonce]
          /\ req' = [req EXCEPT ![r].pc = "advance", ![r].trade = t]
    BY DEF CommitReserve
  <1>2. Asked(r) /\ Seen(r) /\ HoldsListing(r) /\ Bears(r)
    BY DEF CommitReserve, ResInv, LockInv, RequestsHold, HoldsListing, Bears
  <1>3. PICK h \in Handles, b \in Users, n \in Nonces : h = req[r].handle /\ b = req[r].user /\ n = req[r].nonce
    BY <1>2 DEF Asked, CommitReserve
  <1>4. listings[h].status = "active"
    BY <1>2, <1>3 DEF Seen
  <1>5. StoreInv'
    BY <1>1, <1>3, <1>4, ReserveKeeps DEF Reservable, ResInv
  <1>6. Moves(r) /\ req'[r].pc = "advance" /\ req'[r].trade = t
        /\ req'[r].nonce = n /\ req'[r].handle = h /\ req'[r].user = b
    <2>1. req[r] \in Request
      BY DEF ResInv, ReservationTypeOK
    <2>2. PICK next : next = [req[r] EXCEPT !.pc = "advance", !.trade = t]
      OBVIOUS
    <2>3. /\ next \in Request /\ next.pc = "advance" /\ next.trade = t
          /\ next.nonce = n /\ next.handle = h /\ next.user = b
      BY <1>3, <2>1, <2>2 DEF Request
    <2>4. req' = [req EXCEPT ![r] = next]
      BY <1>1, <2>2 DEF ResInv, ReservationTypeOK
    <2> QED
      BY <2>3, <2>4 DEF Moves, ResInv, ReservationTypeOK
  <1>7. Asked(r)'
    BY <1>6 DEF Asked
  <1>8. \A u \in TradeIds : u # t => trades'[u] = trades[u]
    BY <1>1 DEF WriteReserved, ResInv, StoreInv, StoreTypeOK
  <1>9. \A g \in Handles : g # h => listings'[g] = listings[g]
    BY <1>1, <1>3 DEF WriteReserved, ResInv, StoreInv, StoreTypeOK
  <1>10. \A q \in Requests : q # r /\ HoldsListing(q) => listings'[req[q].handle].status = "active"
    <2>1. \A q \in Requests : q # r /\ HoldsListing(q) =>
            /\ req[q].handle \in Handles /\ req[q].handle # h
            /\ listings[req[q].handle].status = "active"
      BY <1>2, <1>3 DEF ResInv, LockInv, OneListingLock, RequestsHold, Asked, Seen, HoldsListing
    <2> QED
      BY <1>9, <2>1
  <1>11. \A to : ~Releasable(t, to)
    BY <1>1 DEF Releasable, IsUnpaid, UnpaidStates
  <1>12. \A q \in Requests : q # r /\ HoldsTrade(q) => trades'[req[q].trade] = trades[req[q].trade]
    BY <1>8, <1>11 DEF ResInv, LockInv, RequestsHold, Asked, Seen, HoldsTrade
  <1>13. sweep.pc = "listing" => trades'[sweep.trade] = trades[sweep.trade]
    BY <1>8, <1>11 DEF ResInv, LockInv, SweepHolds
  <1>14. /\ origin' \in [TradeIds -> Nonces \cup {None}]
         /\ \A u \in TradeIds : origin'[u] = IF u = t THEN n ELSE origin[u]
    BY <1>1, <1>3 DEF ResInv, ReservationTypeOK
  <1>15. NonceInv'
    <2>1. \A q \in Requests : Bears(q)' => q # r /\ Bears(q) /\ req'[q].nonce = req[q].nonce
      BY <1>6 DEF Moves, Bears
    <2>2. n \in nonces /\ (\A u \in TradeIds : origin[u] # None => origin[u] # n) /\ UNCHANGED nonces
      BY <1>2, <1>3 DEF ResInv, NonceInv, CommitReserve
    <2>3. \A q \in Requests : q # r /\ Bears(q) => req[q].nonce # n
      BY <1>2, <1>3 DEF ResInv, NonceInv
    <2>4. OneTradePerNonce'
      <3>1. \A u, v \in TradeIds : u # v /\ origin[u] # None => origin[u] # origin[v]
        BY DEF ResInv, NonceInv, OneTradePerNonce
      <3>2. \A u, v \in TradeIds : u # v /\ origin'[u] # None => origin'[u] # origin'[v]
        BY <1>14, <2>2, <3>1
      <3> QED
        BY <3>2 DEF OneTradePerNonce
    <2> QED
      BY <1>14, <2>1, <2>2, <2>3, <2>4 DEF ResInv, NonceInv
  <1> QED
    BY <1>5, <1>6, <1>7, <1>10, <1>12, <1>13, <1>14, <1>15, CommitStep DEF CommitReserve

\* A row that nobody has locked, or that its holder releases, is nobody else's.
LEMMA AdvanceReservedStep ==
  ASSUME ResInv, NEW r \in Requests, AdvanceReserved(r)
  PROVE  ResInv'
  <1>1. PICK t \in TradeIds : t = req[r].trade
    BY DEF AdvanceReserved, ResInv, LockInv, RequestsHold, Asked
  <1>2. CASE UNCHANGED storeVars
    BY <1>2, AnswerStep DEF AdvanceReserved, ResInv, ReservationTypeOK
  <1>3. CASE Transition(t, "RESERVED", "AWAITING_DEPOSIT", trades[t])
    <2>1. StoreInv'
      BY <1>3, AdvanceKeeps DEF ResInv
    <2>2. Moves(r) /\ req'[r].pc = "idle"
      BY AnswerMoves DEF AdvanceReserved, ResInv
    <2>3. Asked(r)' /\ NonceInv'
      BY <2>2, NoncesStay DEF Asked, Bears, AdvanceReserved, ResInv
    <2>4. UNCHANGED listings /\ \A u \in TradeIds : u # t => trades'[u] = trades[u]
      BY <1>3 DEF Transition, ResInv, StoreInv, StoreTypeOK
    <2>5. ~TradeLocked(t)
      BY <1>1 DEF AdvanceReserved
    <2>6. \A q \in Requests : HoldsListing(q) => listings'[req[q].handle].status = "active"
      BY <2>4 DEF ResInv, LockInv, RequestsHold, Seen
    <2>7. \A q \in Requests : HoldsTrade(q) => trades'[req[q].trade] = trades[req[q].trade]
      BY <2>4, <2>5 DEF ResInv, LockInv, RequestsHold, Asked, HoldsTrade, TradeLocked
    <2>8. sweep.pc = "listing" => trades'[sweep.trade] = trades[sweep.trade]
      BY <2>4, <2>5 DEF ResInv, LockInv, SweepHolds, TradeLocked
    <2> QED
      BY <2>1, <2>2, <2>3, <2>6, <2>7, <2>8, CommitStep DEF AdvanceReserved, ResInv, ReservationTypeOK
  <1> QED
    BY <1>1, <1>2, <1>3 DEF AdvanceReserved

\* What a release changes: one trade, one listing, which is active then.
LEMMA ReleaseChanges ==
  ASSUME StoreInv, NEW t \in TradeIds, NEW to \in {"CANCELED", "EXPIRED"},
         Releasable(t, to), WriteReleased(t, to)
  PROVE  /\ \A u \in TradeIds : u # t => trades'[u] = trades[u]
         /\ \A g \in Handles : listings[g].status = "active" => listings'[g].status = "active"
  <1>1. PICK h \in Handles : h = trades[t].handle
    BY DEF StoreInv, RowsAreTrades, Releasable, IsUnpaid, UnpaidStates
  <1>2. [listings[h] EXCEPT !.status = "active"].status = "active"
    BY DEF StoreInv, StoreTypeOK, Listing
  <1>3. \A g \in Handles :
          listings'[g] = IF g = h THEN [listings[h] EXCEPT !.status = "active"] ELSE listings[g]
    BY <1>1 DEF WriteReleased, StoreInv, StoreTypeOK
  <1>4. \A u \in TradeIds : u # t => trades'[u] = trades[u]
    BY DEF WriteReleased, StoreInv, StoreTypeOK
  <1> QED
    BY <1>2, <1>3, <1>4

LEMMA CommitCancelStep ==
  ASSUME ResInv, NEW r \in Requests, CommitCancel(r)
  PROVE  ResInv'
  <1>1. HoldsTrade(r)
    BY DEF CommitCancel, HoldsTrade
  <1>2. PICK t \in TradeIds : t = req[r].trade /\ Releasable(t, "CANCELED")
    BY <1>1 DEF ResInv, LockInv, RequestsHold, Asked, Seen, HoldsTrade
  <1>3. WriteReleased(t, "CANCELED")
    BY <1>2 DEF CommitCancel
  <1>4. StoreInv'
    BY <1>2, <1>3, ReleaseKeeps DEF ResInv
  <1>5. Moves(r) /\ req'[r].pc = "idle"
    BY AnswerMoves DEF CommitCancel, ResInv
  <1>6. Asked(r)' /\ NonceInv'
    BY <1>5, NoncesStay DEF Asked, Bears, CommitCancel, ResInv
  <1>7. /\ \A u \in TradeIds : u # t => trades'[u] = trades[u]
        /\ \A g \in Handles : listings[g].status = "active" => listings'[g].status = "active"
    BY <1>2, <1>3, ReleaseChanges DEF ResInv
  <1>8. \A q \in Requests : HoldsListing(q) => listings'[req[q].handle].status = "active"
    BY <1>7 DEF ResInv, LockInv, RequestsHold, Asked, Seen, HoldsListing
  <1>9. \A q \in Requests : q # r /\ HoldsTrade(q) => trades'[req[q].trade] = trades[req[q].trade]
    <2>1. \A q \in Requests : q # r /\ HoldsTrade(q) => req[q].trade \in TradeIds /\ req[q].trade # t
      BY <1>1, <1>2 DEF ResInv, LockInv, RequestsHold, Asked, HoldsTrade, OneTradeLock
    <2> QED
      BY <1>7, <2>1
  <1>10. sweep.pc = "listing" => trades'[sweep.trade] = trades[sweep.trade]
    <2>1. sweep.pc = "listing" => sweep.trade \in TradeIds /\ sweep.trade # t
      BY <1>1, <1>2 DEF ResInv, LockInv, SweepHolds, OneTradeLock
    <2> QED
      BY <1>7, <2>1
  <1> QED
    BY <1>4, <1>5, <1>6, <1>8, <1>9, <1>10, CommitStep DEF CommitCancel, ResInv, ReservationTypeOK

-----------------------------------------------------------------------------
(***************************************************************************)
(* The sweep, the watchers, time and crashes.                              *)
(***************************************************************************)
\* Nothing but the sweep, the tables and the deadlines changes.
LEMMA BackgroundStep ==
  ASSUME ResInv, StoreInv', UNCHANGED << nonces, req, origin >>,
         sweep' \in Sweep, due' \subseteq TradeIds, faults' \in Nat,
         \A q \in Requests : HoldsListing(q) => listings'[req[q].handle].status = "active",
         \A q \in Requests : HoldsTrade(q) => trades'[req[q].trade] = trades[req[q].trade],
         SweepHolds',
         sweep'.pc = "listing" => sweep' = sweep \/ ~TradeLocked(sweep'.trade)
  PROVE  ResInv'
  <1>1. LockInv'
    BY LocksStay DEF ResInv
  <1>2. NonceInv'
    BY NoncesQuiet DEF ResInv
  <1>3. ReservationTypeOK'
    BY DEF ResInv, ReservationTypeOK, StoreInv
  <1> QED
    BY <1>1, <1>2, <1>3 DEF ResInv

\* The sweep moves, and the tables stay.
LEMMA SweepMoves ==
  ASSUME ResInv, UNCHANGED << storeVars, nonces, req, due, origin >>, sweep' \in Sweep, faults' \in Nat,
         SweepHolds', sweep'.pc = "listing" => sweep' = sweep \/ ~TradeLocked(sweep'.trade)
  PROVE  ResInv'
  <1>1. StoreInv' /\ UNCHANGED << listings, trades >>
    BY StoreStays DEF ResInv, storeVars
  <1>2. \A q \in Requests : HoldsListing(q) => listings'[req[q].handle].status = "active"
    BY <1>1 DEF ResInv, LockInv, RequestsHold, Seen
  <1> QED
    BY <1>1, <1>2, BackgroundStep DEF ResInv, ReservationTypeOK

LEMMA ElapseStep ==
  ASSUME ResInv, NEW t \in TradeIds, Elapse(t)
  PROVE  ResInv'
  <1>1. StoreInv' /\ UNCHANGED << listings, trades >>
    BY StoreStays DEF ResInv, storeVars, Elapse
  <1>2. \A q \in Requests : HoldsListing(q) => listings'[req[q].handle].status = "active"
    BY <1>1 DEF ResInv, LockInv, RequestsHold, Seen
  <1>3. SweepHolds'
    BY <1>1, SweepStays DEF Elapse, ResInv, LockInv
  <1> QED
    BY <1>1, <1>2, <1>3, BackgroundStep DEF Elapse, ResInv, ReservationTypeOK

\* The sweep between its transactions.
LEMMA SweepRests ==
  ASSUME ResInv, UNCHANGED << storeVars, nonces, req, due, origin >>, faults' \in Nat,
         sweep' \in Sweep, sweep'.pc # "listing"
  PROVE  ResInv'
  BY SweepMoves DEF SweepHolds

LEMMA SweepFieldsAre ==
  ASSUME ReservationTypeOK
  PROVE  /\ \A st \in SUBSET TradeIds : [sweep EXCEPT !.pc = "next", !.stale = st] \in Sweep
                                        /\ [sweep EXCEPT !.pc = "next", !.stale = st].pc = "next"
         /\ [sweep EXCEPT !.pc = "next", !.trade = None] \in Sweep
         /\ [sweep EXCEPT !.pc = "next", !.trade = None].pc = "next"
         /\ \A t : [sweep EXCEPT !.stale = @ \ {t}] \in Sweep /\ [sweep EXCEPT !.stale = @ \ {t}].pc = sweep.pc
         /\ SweepIdle \in Sweep /\ SweepIdle.pc = "idle"
  BY DEF ReservationTypeOK, Sweep, SweepIdle

LEMMA SweepQueryStep ==
  ASSUME ResInv, SweepQuery
  PROVE  ResInv'
  <1> DEFINE st == { t \in due : IsUnpaid(t) }
  <1>1. st \in SUBSET TradeIds
    BY DEF ResInv, ReservationTypeOK
  <1>2. sweep' = [sweep EXCEPT !.pc = "next", !.stale = st]
    BY DEF SweepQuery
  <1> HIDE DEF st
  <1>3. sweep' \in Sweep /\ sweep'.pc = "next"
    BY <1>1, <1>2, SweepFieldsAre DEF ResInv
  <1> QED
    BY <1>3, SweepRests DEF SweepQuery, ResInv, ReservationTypeOK

LEMMA SweepTradeStep ==
  ASSUME ResInv, NEW t \in TradeIds, SweepTrade(t)
  PROVE  ResInv'
  <1>1. UNCHANGED << storeVars, nonces, req, due, origin >> /\ faults' \in Nat
    BY DEF SweepTrade, ResInv, ReservationTypeOK
  <1>2. CASE Releasable(t, "EXPIRED")
    <2>1. PICK next : next = [pc |-> "listing", stale |-> sweep.stale \ {t}, trade |-> t]
      OBVIOUS
    <2>2. next \in Sweep /\ next.pc = "listing" /\ next.trade = t
      BY <2>1 DEF Sweep, ResInv, ReservationTypeOK
    <2>3. sweep' = next
      BY <1>2, <2>1 DEF SweepTrade
    <2>4. Releasable(t, "EXPIRED")'
      BY <1>1, <1>2, RowStays DEF storeVars
    <2>5. SweepHolds'
      BY <2>2, <2>3, <2>4 DEF SweepHolds, Releasable, IsUnpaid
    <2> QED
      BY <1>1, <2>2, <2>3, <2>5, SweepMoves DEF SweepTrade
  <1>3. CASE ~Releasable(t, "EXPIRED")
    <2>1. sweep' \in Sweep /\ sweep'.pc = "next"
      BY <1>3, SweepFieldsAre DEF SweepTrade, ResInv
    <2> QED
      BY <1>1, <2>1, SweepRests
  <1> QED
    BY <1>2, <1>3

LEMMA SweepCommitStep ==
  ASSUME ResInv, SweepCommit
  PROVE  ResInv'
  <1>1. PICK t \in TradeIds : t = sweep.trade /\ Releasable(t, "EXPIRED")
    BY DEF SweepCommit, ResInv, LockInv, SweepHolds
  <1>2. WriteReleased(t, "EXPIRED")
    BY <1>1 DEF SweepCommit
  <1>3. StoreInv'
    BY <1>1, <1>2, ReleaseKeeps DEF ResInv
  <1>4. sweep' \in Sweep /\ sweep'.pc = "next"
    BY SweepFieldsAre DEF SweepCommit, ResInv
  <1>5. /\ \A u \in TradeIds : u # t => trades'[u] = trades[u]
        /\ \A g \in Handles : listings[g].status = "active" => listings'[g].status = "active"
    BY <1>1, <1>2, ReleaseChanges DEF ResInv
  <1>6. \A q \in Requests : HoldsListing(q) => listings'[req[q].handle].status = "active"
    BY <1>5 DEF ResInv, LockInv, RequestsHold, Asked, Seen, HoldsListing
  <1>7. \A q \in Requests : HoldsTrade(q) => trades'[req[q].trade] = trades[req[q].trade]
    <2>1. \A q \in Requests : HoldsTrade(q) => req[q].trade \in TradeIds /\ req[q].trade # t
      BY <1>1 DEF SweepCommit, ResInv, LockInv, RequestsHold, Asked, HoldsTrade, OneTradeLock
    <2> QED
      BY <1>5, <2>1
  <1>8. SweepHolds'
    BY <1>4 DEF SweepHolds
  <1> QED
    BY <1>3, <1>4, <1>6, <1>7, <1>8, BackgroundStep DEF SweepCommit, ResInv, ReservationTypeOK

LEMMA SweepEndsStep ==
  ASSUME ResInv, SweepEnd \/ SweepFail
  PROVE  ResInv'
  <1>1. sweep' \in Sweep /\ sweep'.pc # "listing"
    BY SweepFieldsAre DEF SweepEnd, SweepFail, ResInv
  <1>2. faults' \in Nat
    BY DEF SweepEnd, SweepFail, ResFault, ResInv, ReservationTypeOK
  <1> QED
    BY <1>1, <1>2, SweepRests DEF SweepEnd, SweepFail

\* The watchers write rows that no reservation's end has locked.
LEMMA WatchersStep ==
  ASSUME ResInv, NEW t \in TradeIds,
         Observe(t) \/ \E end \in {"SETTLED", "REFUNDED"} : Conclude(t, end)
  PROVE  ResInv'
  <1>1. StoreInv'
    BY ObserveKeeps, ConcludeKeeps DEF ResInv
  <1>2. /\ UNCHANGED << listings, nonces, req, sweep, due, origin, faults >>
        /\ \A u \in TradeIds : u # t => trades'[u] = trades[u]
    BY DEF Observe, Conclude, Transition, ResInv, StoreInv, StoreTypeOK
  <1>3. ~TradeLocked(t) \/ \A to : ~Releasable(t, to)
    BY DEF Observe, Conclude, Releasable, IsUnpaid, UnpaidStates
  <1>4. \A q \in Requests : HoldsListing(q) => listings'[req[q].handle].status = "active"
    BY <1>2 DEF ResInv, LockInv, RequestsHold, Seen
  <1>5. \A q \in Requests : HoldsTrade(q) => trades'[req[q].trade] = trades[req[q].trade]
    BY <1>2, <1>3 DEF ResInv, LockInv, RequestsHold, Asked, Seen, HoldsTrade, TradeLocked
  <1>6. sweep.pc = "listing" => trades'[sweep.trade] = trades[sweep.trade]
    BY <1>2, <1>3 DEF ResInv, LockInv, SweepHolds, TradeLocked
  <1>7. SweepHolds'
    BY <1>2, <1>6, SweepStays DEF ResInv, LockInv
  <1> QED
    BY <1>1, <1>2, <1>4, <1>5, <1>7, BackgroundStep DEF ResInv, ReservationTypeOK

LEMMA CrashStep ==
  ASSUME ResInv, ResCrash
  PROVE  ResInv'
  <1>1. Idle \in Request /\ Idle.pc = "idle"
    BY DEF Idle, Request, Ops
  <1>2. sweep' \in Sweep /\ sweep'.pc = "idle"
    BY SweepFieldsAre DEF ResCrash, ResInv
  <1>3. req' \in [Requests -> Request] /\ \A q \in Requests : req'[q].pc = "idle"
    BY <1>1 DEF ResCrash
  <1>4. StoreInv'
    BY StoreStays DEF ResCrash, ResInv
  <1>5. faults' \in Nat
    BY DEF ResCrash, ResFault, ResInv, ReservationTypeOK
  <1>6. ReservationTypeOK'
    BY <1>2, <1>3, <1>4, <1>5 DEF ResCrash, ResInv, ReservationTypeOK, StoreInv
  <1>7. LockInv'
    BY <1>2, <1>3 DEF LockInv, RequestsHold, Asked, Seen, HoldsListing, HoldsTrade, SweepHolds,
                      OneListingLock, OneTradeLock
  <1>8. NonceInv'
    BY <1>3 DEF ResCrash, ResInv, NonceInv, Bears, OneTradePerNonce
  <1> QED
    BY <1>4, <1>6, <1>7, <1>8 DEF ResInv

LEMMA ResInitial == ResInit => ResInv
  <1> SUFFICES ASSUME ResInit
               PROVE  ResInv
    OBVIOUS
  <1>1. NoTrade \in Trade /\ NoTrade.state = "NONE" /\ NoTrade.depositHeight = 0
    BY DEF NoTrade, NewTrade, Trade
  <1>2. \A t \in TradeIds : trades[t] = NoTrade /\ origin[t] = None
    BY DEF ResInit
  <1>3. NoListing \in Listing /\ NoListing.status = "none"
    BY DEF NoListing, Listing, ListingStatus
  <1>4. listings \in [Handles -> Listing] /\ \A h \in Handles : listings[h].status # "reserved"
    BY <1>3 DEF ResInit, Listing, ListingStatus
  <1>5. StoreTypeOK
    BY <1>1, <1>4 DEF ResInit, StoreTypeOK
  <1>6. RowsAreTrades /\ ListingExclusive /\ NoOrphanReservation
    BY <1>1, <1>2, <1>4 DEF RowsAreTrades, ListingExclusive, NoOrphanReservation, IsOpen
  <1>7. Idle \in Request /\ Idle.pc = "idle"
    BY DEF Idle, Request, Ops
  <1>8. SweepIdle \in Sweep /\ SweepIdle.pc = "idle"
    BY DEF SweepIdle, Sweep
  <1>9. req \in [Requests -> Request] /\ \A q \in Requests : req[q].pc = "idle"
    BY <1>7 DEF ResInit
  <1>10. ReservationTypeOK
    BY <1>5, <1>8, <1>9 DEF ResInit, ReservationTypeOK
  <1>11. LockInv
    BY <1>8, <1>9 DEF ResInit, LockInv, RequestsHold, Asked, Seen, HoldsListing, HoldsTrade, SweepHolds,
                      OneListingLock, OneTradeLock
  <1>12. NonceInv
    BY <1>2, <1>9 DEF NonceInv, Bears, OneTradePerNonce
  <1> QED
    BY <1>5, <1>6, <1>10, <1>11, <1>12 DEF ResInv, StoreInv

LEMMA ResStep == ResInv /\ [ResNext]_resVars => ResInv'
  <1> SUFFICES ASSUME ResInv, [ResNext]_resVars
               PROVE  ResInv'
    OBVIOUS
  <1>1. CASE UNCHANGED resVars
    <2>1. UNCHANGED << storeVars, nonces, req, sweep, due, origin, faults >>
      BY <1>1 DEF resVars
    <2>2. SweepHolds'
      BY <2>1, SweepStays DEF ResInv, LockInv, storeVars
    <2> QED
      BY <2>1, <2>2, SweepMoves DEF ResInv, ReservationTypeOK
  <1>2. CASE Arrivals
    BY <1>2, ArriveStep DEF Arrivals
  <1>3. ASSUME NEW r \in Requests, Serve(r)
        PROVE  ResInv'
    BY <1>3, ConsumeNonceStep, ListHandleStep, LockListingStep, CountUnpaidStep, CommitReserveStep,
       AdvanceReservedStep, LockTradeStep, CommitCancelStep DEF Serve
  <1>4. CASE ExpirySweep \/ SweepFail
    BY <1>4, SweepQueryStep, SweepTradeStep, SweepCommitStep, SweepEndsStep DEF ExpirySweep
  <1>5. CASE Watchers
    BY <1>5, WatchersStep DEF Watchers
  <1> QED
    BY <1>1, <1>2, <1>3, <1>4, <1>5, FailRequestStep, ElapseStep, CrashStep DEF ResNext

-----------------------------------------------------------------------------
(***************************************************************************)
(* The steps, as transactions of the store.                                *)
(***************************************************************************)
StoreChange ==
  \/ \E h \in Handles, s \in Users : CreateListing(h, s)
  \/ \E t \in TradeIds, h \in Handles, b \in Users : Reservable(t, h) /\ WriteReserved(t, h, b)
  \/ \E t \in TradeIds :
       \/ ReleaseUnpaid(t, "CANCELED") \/ ReleaseUnpaid(t, "EXPIRED")
       \/ Transition(t, "RESERVED", "AWAITING_DEPOSIT", trades[t])
       \/ Observe(t) \/ \E end \in {"SETTLED", "REFUNDED"} : Conclude(t, end)

\* What a request commits is what it may commit by the rows it locked.
LEMMA ServeTransacts ==
  ASSUME ResInv, NEW r \in Requests, Serve(r)
  PROVE  StoreChange \/ UNCHANGED storeVars
  <1>1. Asked(r) /\ Seen(r)
    BY DEF ResInv, LockInv, RequestsHold
  <1>2. CASE ListHandle(r)
    BY <1>1, <1>2 DEF ListHandle, StoreChange, Asked
  <1>3. CASE CommitReserve(r)
    <2>1. PICK t \in TradeIds : trades[t].state = "NONE" /\ WriteReserved(t, req[r].handle, req[r].user)
      BY <1>3 DEF CommitReserve
    <2>2. req[r].handle \in Handles /\ req[r].user \in Users /\ Reservable(t, req[r].handle)
      BY <1>1, <1>3, <2>1 DEF CommitReserve, Asked, Seen, HoldsListing, Reservable
    <2> QED
      BY <2>1, <2>2 DEF StoreChange
  <1>4. CASE AdvanceReserved(r)
    BY <1>1, <1>4 DEF AdvanceReserved, StoreChange, Asked
  <1>5. CASE CommitCancel(r)
    BY <1>1, <1>5 DEF CommitCancel, StoreChange, Asked, Seen, HoldsTrade, ReleaseUnpaid
  <1> QED
    BY <1>2, <1>3, <1>4, <1>5
       DEF Serve, ConsumeNonce, LockListing, CountUnpaid, LockTrade

LEMMA StepTransacts ==
  ASSUME ResInv, [ResNext]_resVars
  PROVE  StoreChange \/ UNCHANGED storeVars
  <1>1. CASE UNCHANGED resVars \/ Arrivals \/ ResCrash
    BY <1>1 DEF resVars, Arrivals, Arrive, ResCrash
  <1>2. CASE \E r \in Requests : Serve(r) \/ FailRequest(r)
    BY <1>2, ServeTransacts DEF FailRequest
  <1>3. CASE \E t \in TradeIds : Elapse(t)
    BY <1>3 DEF Elapse
  <1>4. CASE SweepCommit
    BY <1>4 DEF SweepCommit, StoreChange, ReleaseUnpaid, ResInv, LockInv, SweepHolds
  <1>5. CASE SweepQuery \/ SweepEnd \/ SweepFail \/ \E t \in TradeIds : SweepTrade(t)
    BY <1>5 DEF SweepQuery, SweepEnd, SweepFail, SweepTrade
  <1>6. CASE Watchers
    BY <1>6 DEF Watchers, StoreChange
  <1> QED
    BY <1>1, <1>2, <1>3, <1>4, <1>5, <1>6 DEF ResNext, ExpirySweep

\* A transaction that writes a lapsed state has found the trade without a deposit.
LEMMA PaidStaysHere ==
  ASSUME ResInv, StoreChange, NEW t \in TradeIds, trades[t].depositHeight > 0
  PROVE  trades'[t].state \notin {"EXPIRED", "CANCELED"}
  <1>1. /\ trades \in [TradeIds -> Trade]
        /\ trades[t].state \notin {"EXPIRED", "CANCELED"}
    BY DEF ResInv, StoreInv, StoreTypeOK, RowsAreTrades
  <1>2. CASE \E h \in Handles, s \in Users : CreateListing(h, s)
    BY <1>1, <1>2 DEF CreateListing
  <1>3. ASSUME NEW u \in TradeIds, NEW h \in Handles, NEW b \in Users, WriteReserved(u, h, b)
        PROVE  trades'[t].state \notin {"EXPIRED", "CANCELED"}
    <2>1. trades'[t] = IF t = u THEN NewTrade("RESERVED", h, b, listings[h].seller) ELSE trades[t]
      BY <1>1, <1>3 DEF WriteReserved
    <2> QED
      BY <1>1, <2>1 DEF NewTrade
  <1>4. ASSUME NEW u \in TradeIds, NEW to \in {"EXPIRED", "CANCELED"}, ReleaseUnpaid(u, to)
        PROVE  trades'[t].state \notin {"EXPIRED", "CANCELED"}
    <2>1. u # t
      BY <1>4 DEF ReleaseUnpaid, Releasable, IsUnpaid
    <2>2. trades'[t] = trades[t]
      BY <1>1, <1>4, <2>1 DEF ReleaseUnpaid, WriteReleased
    <2> QED
      BY <1>1, <2>2
  <1>5. ASSUME NEW u \in TradeIds,
               \/ Transition(u, "RESERVED", "AWAITING_DEPOSIT", trades[u])
               \/ Observe(u) \/ \E end \in {"SETTLED", "REFUNDED"} : Conclude(u, end)
        PROVE  trades'[t].state \notin {"EXPIRED", "CANCELED"}
    <2>1. trades[u] \in Trade /\ [trades[u] EXCEPT !.depositHeight = 1] \in Trade
      BY <1>1 DEF Trade
    <2>2. PICK row \in Trade, to \in TradeState \ {"EXPIRED", "CANCELED"} :
            trades' = [trades EXCEPT ![u] = [row EXCEPT !.state = to]]
      <3>1. CASE Transition(u, "RESERVED", "AWAITING_DEPOSIT", trades[u])
        BY <2>1, <3>1 DEF Transition, TradeState
      <3>2. CASE Observe(u)
        BY <2>1, <3>2 DEF Observe, Transition, TradeState
      <3>3. CASE \E end \in {"SETTLED", "REFUNDED"} : Conclude(u, end)
        BY <2>1, <3>3 DEF Conclude, TradeState
      <3> QED
        BY <1>5, <3>1, <3>2, <3>3
    <2>3. [row EXCEPT !.state = to].state = to
      BY StateWritten
    <2>4. trades'[t] = IF t = u THEN [row EXCEPT !.state = to] ELSE trades[t]
      BY <1>1, <2>2
    <2> QED
      BY <1>1, <2>3, <2>4
  <1> QED
    BY <1>2, <1>3, <1>4, <1>5 DEF StoreChange

-----------------------------------------------------------------------------
(***************************************************************************)
(* What follows.                                                           *)
(***************************************************************************)
\* The inductive invariant holds.
THEOREM ResCorrect == ResSpec => []ResInv
  BY ResInitial, ResStep, PTL DEF ResSpec

\* The tables, the requests and the sweep are of their types.
THEOREM ReservationTypes == ResSpec => []ReservationTypeOK
  <1>1. ResInv => ReservationTypeOK
    BY DEF ResInv
  <1> QED
    BY <1>1, ResCorrect, PTL

\* Of one handle at most one trade is open, and then the listing is reserved, although
\* ReserveListing and releaseUnpaidReservationTx are here the row locks, the count and
\* the commit that they are made of.
THEOREM OneOpenTrade == ResSpec => []ListingExclusive
  <1>1. ResInv => ListingExclusive
    BY DEF ResInv, StoreInv
  <1> QED
    BY <1>1, ResCorrect, PTL

\* A signed intent buys at most one reservation (ConsumeNonce commits before the
\* handler goes on).
THEOREM NonceBuysOne == ResSpec => []OneTradePerNonce
  <1>1. ResInv => OneTradePerNonce
    BY DEF ResInv, NonceInv
  <1> QED
    BY <1>1, ResCorrect, PTL

\* No crash, failure or race of cancellation, expiry and advance leaves a listing
\* reserved for a trade that has lapsed (releaseUnpaidReservationTx writes both rows).
THEOREM NoOrphans == ResSpec => []NoOrphanReservation
  <1>1. ResInv => NoOrphanReservation
    BY DEF ResInv, StoreInv
  <1> QED
    BY <1>1, ResCorrect, PTL

\* A trade whose deposit is recorded never expires and is never cancelled: expiry and
\* cancellation look again under the row lock.
THEOREM PaidStays == ResSpec => PaidNeverLapses
  <1>1. ResInv /\ [ResNext]_resVars =>
          [\A t \in TradeIds : trades[t].depositHeight > 0 =>
             trades'[t].state \notin {"EXPIRED", "CANCELED"}]_resVars
    <2> SUFFICES ASSUME ResInv, [ResNext]_resVars, NEW t \in TradeIds, trades[t].depositHeight > 0
                 PROVE  trades'[t].state \notin {"EXPIRED", "CANCELED"}
      OBVIOUS
    <2>1. CASE StoreChange
      BY <2>1, PaidStaysHere
    <2>2. CASE UNCHANGED storeVars
      BY <2>2 DEF storeVars, ResInv, StoreInv, RowsAreTrades
    <2> QED
      BY <2>1, <2>2, StepTransacts
  <1> QED
    BY <1>1, ResCorrect, PTL DEF ResSpec, PaidNeverLapses

\* The locks are enough: what a request or the sweep writes is always one whole
\* transaction of the store, as if nothing else ran.
THEOREM WholeTransactions == ResSpec => StoreTransactions
  <1>1. ResInv /\ [ResNext]_resVars => [StoreChange]_storeVars
    BY StepTransacts
  <1> QED
    BY <1>1, ResCorrect, PTL DEF ResSpec, StoreTransactions, StoreChange

-----------------------------------------------------------------------------
(***************************************************************************)
(* By how much the cap on unpaid reservations is exceeded.                 *)
(***************************************************************************)
UnpaidOf(u) == { t \in TradeIds : trades[t].buyer = u /\ IsUnpaid(t) }

\* The requests that have passed the count and not yet inserted their trade.
Passed(u) == { r \in Requests : req[r].pc = "insert" /\ req[r].user = u }

\* The last of them to pass saw a buyer below the cap, and at most all the others
\* were past the count with it.
OvershootIsBounded ==
  \A u \in Users :
    Cardinality(UnpaidOf(u)) + Cardinality(Passed(u)) <= MaxUnpaidReservations - 1 + Cardinality(Requests)

\* A step that neither reserves for anyone nor lets anyone pass the count.
NoNewUnpaid == \A t \in TradeIds : IsUnpaid(t)' => IsUnpaid(t) /\ trades'[t].buyer = trades[t].buyer
NoNewPassed ==
  \A r \in Requests : req'[r].pc = "insert" => req[r].pc = "insert" /\ req'[r].user = req[r].user

LEMMA CapSizes ==
  ASSUME IsFiniteSet(Requests), NEW u
  PROVE  /\ IsFiniteSet(UnpaidOf(u)) /\ Cardinality(UnpaidOf(u)) \in Nat
         /\ IsFiniteSet(Passed(u)) /\ Cardinality(Passed(u)) \in Nat
         /\ Cardinality(Passed(u)) <= Cardinality(Requests)
         /\ Cardinality(Requests) \in Nat
  <1>1. UnpaidOf(u) \subseteq TradeIds /\ Passed(u) \subseteq Requests
    BY DEF UnpaidOf, Passed
  <1> QED
    BY <1>1, TradesAssumption, FS_Subset, FS_CardinalityType

LEMMA CapRests ==
  ASSUME IsFiniteSet(Requests), OvershootIsBounded, NoNewUnpaid, NoNewPassed
  PROVE  OvershootIsBounded'
  <1> SUFFICES ASSUME NEW u \in Users
               PROVE  Cardinality(UnpaidOf(u)') + Cardinality(Passed(u)')
                        <= MaxUnpaidReservations - 1 + Cardinality(Requests)
    BY DEF OvershootIsBounded
  <1>1. UnpaidOf(u)' \subseteq UnpaidOf(u)
    BY DEF UnpaidOf, NoNewUnpaid
  <1>2. Passed(u)' \subseteq Passed(u)
    BY DEF Passed, NoNewPassed
  <1>3. /\ Cardinality(UnpaidOf(u)') <= Cardinality(UnpaidOf(u)) /\ Cardinality(UnpaidOf(u)') \in Nat
        /\ Cardinality(Passed(u)') <= Cardinality(Passed(u)) /\ Cardinality(Passed(u)') \in Nat
    BY <1>1, <1>2, CapSizes, FS_Subset, FS_CardinalityType
  <1> QED
    BY <1>3, CapSizes, MaxUnpaidAssumption DEF OvershootIsBounded

\* The count below the cap is what bounds the overshoot.
LEMMA CountKeepsCap ==
  ASSUME ResInv, IsFiniteSet(Requests), OvershootIsBounded, NEW r \in Requests, CountUnpaid(r)
  PROVE  OvershootIsBounded'
  <1>1. CASE UnpaidReservationCount(req[r].user) < MaxUnpaidReservations
    <2> SUFFICES ASSUME NEW u \in Users
                 PROVE  Cardinality(UnpaidOf(u)') + Cardinality(Passed(u)')
                          <= MaxUnpaidReservations - 1 + Cardinality(Requests)
      BY DEF OvershootIsBounded
    <2>1. UnpaidOf(u)' = UnpaidOf(u)
      BY DEF CountUnpaid, UnpaidOf, IsUnpaid, storeVars
    <2>2. CASE u = req[r].user
      <3>1. Cardinality(UnpaidOf(u)) < MaxUnpaidReservations
        BY <1>1, <2>2 DEF UnpaidReservationCount, UnpaidOf
      <3>2. Passed(u)' \subseteq Requests
        BY DEF Passed
      <3>3. Cardinality(Passed(u)') <= Cardinality(Requests) /\ Cardinality(Passed(u)') \in Nat
        BY <3>2, FS_Subset, FS_CardinalityType
      <3> QED
        BY <2>1, <3>1, <3>3, CapSizes, MaxUnpaidAssumption
    <2>3. CASE u # req[r].user
      <3>1. Moves(r) /\ req'[r].user = req[r].user
        BY <1>1, GoOnMoves DEF CountUnpaid, ResInv
      <3>2. Passed(u)' = Passed(u)
        BY <2>3, <3>1 DEF Passed, Moves
      <3> QED
        BY <2>1, <3>2 DEF OvershootIsBounded
    <2> QED
      BY <2>2, <2>3
  <1>2. CASE ~(UnpaidReservationCount(req[r].user) < MaxUnpaidReservations)
    <2>1. Moves(r) /\ req'[r].pc = "idle"
      BY <1>2, AnswerMoves DEF CountUnpaid, ResInv
    <2>2. NoNewPassed
      BY <2>1 DEF Moves, NoNewPassed
    <2>3. NoNewUnpaid
      BY DEF CountUnpaid, NoNewUnpaid, IsUnpaid, storeVars
    <2> QED
      BY <2>2, <2>3, CapRests
  <1> QED
    BY <1>1, <1>2

\* An insertion turns one that has passed into one that is unpaid.
LEMMA InsertKeepsCap ==
  ASSUME ResInv, IsFiniteSet(Requests), OvershootIsBounded, NEW r \in Requests, CommitReserve(r)
  PROVE  OvershootIsBounded'
  <1>1. PICK t \in TradeIds :
          /\ WriteReserved(t, req[r].handle, req[r].user)
          /\ req' = [req EXCEPT ![r].pc = "advance", ![r].trade = t]
    BY DEF CommitReserve
  <1>2. /\ trades \in [TradeIds -> Trade] /\ req \in [Requests -> Request]
        /\ req[r].pc = "insert"
    BY DEF ResInv, ReservationTypeOK, StoreTypeOK, CommitReserve
  <1>3. /\ trades'[t].buyer = req[r].user
        /\ \A other \in TradeIds \ {t} : trades'[other] = trades[other]
    BY <1>1, <1>2 DEF WriteReserved, NewTrade
  <1>4. req'[r].pc = "advance" /\ \A q \in Requests \ {r} : req'[q] = req[q]
    <2>1. PICK next : next = [[req[r] EXCEPT !.pc = "advance"] EXCEPT !.trade = t]
      OBVIOUS
    <2>2. next.pc = "advance"
      BY <1>2, <2>1 DEF Request
    <2>3. req' = [req EXCEPT ![r] = next]
      BY <1>1, <1>2, <2>1
    <2> QED
      BY <1>2, <2>2, <2>3
  <1> SUFFICES ASSUME NEW u \in Users
               PROVE  Cardinality(UnpaidOf(u)') + Cardinality(Passed(u)')
                        <= MaxUnpaidReservations - 1 + Cardinality(Requests)
    BY DEF OvershootIsBounded
  <1>5. CASE u = req[r].user
    <2>1. Passed(u)' = Passed(u) \ {r} /\ r \in Passed(u)
      BY <1>2, <1>4, <1>5 DEF Passed
    <2>2. Cardinality(Passed(u)') = Cardinality(Passed(u)) - 1
      BY <2>1, CapSizes, FS_RemoveElement
    <2>3. UnpaidOf(u)' \subseteq UnpaidOf(u) \cup {t}
      BY <1>3 DEF UnpaidOf, IsUnpaid
    <2>4. /\ IsFiniteSet(UnpaidOf(u) \cup {t})
          /\ Cardinality(UnpaidOf(u) \cup {t}) <= Cardinality(UnpaidOf(u)) + 1
      <3>1. PICK S : S = UnpaidOf(u)
        OBVIOUS
      <3>2. IsFiniteSet(S) /\ Cardinality(S) \in Nat
        BY <3>1, CapSizes
      <3>3. IsFiniteSet(S \cup {t})
        BY <3>2, FS_AddElement
      <3>4. Cardinality(S \cup {t}) = IF t \in S THEN Cardinality(S) ELSE Cardinality(S) + 1
        BY <3>2, FS_AddElement
      <3>5. Cardinality(S \cup {t}) <= Cardinality(S) + 1
        BY <3>2, <3>4
      <3> QED
        BY <3>1, <3>3, <3>5
    <2>5. /\ Cardinality(UnpaidOf(u)') <= Cardinality(UnpaidOf(u) \cup {t})
          /\ Cardinality(UnpaidOf(u) \cup {t}) \in Nat /\ Cardinality(UnpaidOf(u)') \in Nat
      BY <2>3, <2>4, FS_Subset, FS_CardinalityType
    <2> QED
      BY <2>2, <2>4, <2>5, CapSizes, MaxUnpaidAssumption DEF OvershootIsBounded
  <1>6. CASE u # req[r].user
    <2>1. Passed(u)' \subseteq Passed(u)
      BY <1>4 DEF Passed
    <2>2. UnpaidOf(u)' \subseteq UnpaidOf(u)
      BY <1>3, <1>6 DEF UnpaidOf, IsUnpaid
    <2>3. /\ Cardinality(UnpaidOf(u)') <= Cardinality(UnpaidOf(u)) /\ Cardinality(UnpaidOf(u)') \in Nat
          /\ Cardinality(Passed(u)') <= Cardinality(Passed(u)) /\ Cardinality(Passed(u)') \in Nat
      BY <2>1, <2>2, CapSizes, FS_Subset, FS_CardinalityType
    <2> QED
      BY <2>3, CapSizes, MaxUnpaidAssumption DEF OvershootIsBounded
  <1> QED
    BY <1>5, <1>6

\* No other transaction of the store makes a trade unpaid.
LEMMA OthersAddNone ==
  ASSUME ResInv, NEW t \in TradeIds,
         \/ ReleaseUnpaid(t, "CANCELED") \/ ReleaseUnpaid(t, "EXPIRED")
         \/ Transition(t, "RESERVED", "AWAITING_DEPOSIT", trades[t])
         \/ Observe(t) \/ \E end \in {"SETTLED", "REFUNDED"} : Conclude(t, end)
  PROVE  NoNewUnpaid
  <1>1. trades \in [TradeIds -> Trade]
    BY DEF ResInv, ReservationTypeOK, StoreTypeOK
  <1>2. \A other \in TradeIds \ {t} : trades'[other] = trades[other]
    BY <1>1 DEF ReleaseUnpaid, WriteReleased, Transition, Observe, Conclude
  <1>3. CASE Transition(t, "RESERVED", "AWAITING_DEPOSIT", trades[t])
    <2>1. trades[t].state = "RESERVED" /\ trades'[t] = [trades[t] EXCEPT !.state = "AWAITING_DEPOSIT"]
      BY <1>1, <1>3 DEF Transition
    <2>2. trades'[t].buyer = trades[t].buyer /\ trades'[t].depositHeight = trades[t].depositHeight
      BY <1>1, <2>1 DEF Trade
    <2> QED
      BY <1>2, <2>1, <2>2 DEF NoNewUnpaid, IsUnpaid, UnpaidStates
  <1>4. CASE ~Transition(t, "RESERVED", "AWAITING_DEPOSIT", trades[t])
    <2>1. PICK row \in Trade, to \in {"CANCELED", "EXPIRED", "DEPOSIT_FINALIZING", "SETTLED", "REFUNDED"} :
            trades' = [trades EXCEPT ![t] = [row EXCEPT !.state = to]]
      <3>1. trades[t] \in Trade /\ [trades[t] EXCEPT !.depositHeight = 1] \in Trade
        BY <1>1 DEF Trade
      <3>2. CASE ReleaseUnpaid(t, "CANCELED")
        BY <3>1, <3>2 DEF ReleaseUnpaid, WriteReleased
      <3>3. CASE ReleaseUnpaid(t, "EXPIRED")
        BY <3>1, <3>3 DEF ReleaseUnpaid, WriteReleased
      <3>4. CASE Observe(t)
        BY <3>1, <3>4 DEF Observe, Transition
      <3>5. CASE \E end \in {"SETTLED", "REFUNDED"} : Conclude(t, end)
        BY <3>1, <3>5 DEF Conclude
      <3> QED
        BY <1>4, <3>2, <3>3, <3>4, <3>5
    <2>2. [row EXCEPT !.state = to].state = to
      BY StateWritten
    <2>3. trades'[t].state = to
      BY <1>1, <2>1, <2>2
    <2>4. ~IsUnpaid(t)'
      BY <2>3 DEF IsUnpaid, UnpaidStates
    <2> QED
      BY <1>2, <2>4 DEF NoNewUnpaid, IsUnpaid
  <1> QED
    BY <1>3, <1>4

\* Whatever a request does but count and insert, nobody passes the count.
LEMMA ServeKeepsCap ==
  ASSUME ResInv, IsFiniteSet(Requests), OvershootIsBounded, NEW r \in Requests, Serve(r) \/ FailRequest(r)
  PROVE  OvershootIsBounded'
  <1>1. Asked(r) /\ Seen(r) /\ ReservationTypeOK
    BY DEF ResInv, LockInv, RequestsHold
  <1>2. CASE Answer(r)
    <2>1. NoNewPassed
      BY <1>1, <1>2, AnswerMoves DEF Moves, NoNewPassed
    <2>2. CASE ListHandle(r)
      BY <2>1, <2>2, CapRests DEF ListHandle, CreateListing, NoNewUnpaid, IsUnpaid, storeVars
    <2>3. CASE AdvanceReserved(r)
      <3>1. req[r].trade \in TradeIds
        BY <1>1, <2>3 DEF AdvanceReserved, Asked
      <3>2. NoNewUnpaid
        BY <2>3, <3>1, OthersAddNone DEF AdvanceReserved, NoNewUnpaid, IsUnpaid, storeVars
      <3> QED
        BY <2>1, <3>2, CapRests
    <2>4. CASE CommitCancel(r)
      <3>1. req[r].trade \in TradeIds /\ ReleaseUnpaid(req[r].trade, "CANCELED")
        BY <1>1, <2>4 DEF CommitCancel, Asked, Seen, HoldsTrade, ReleaseUnpaid
      <3> QED
        BY <2>1, <3>1, OthersAddNone, CapRests
    <2>5. CASE ConsumeNonce(r) \/ LockListing(r) \/ LockTrade(r) \/ FailRequest(r)
      <3>1. UNCHANGED storeVars
        BY <2>5 DEF ConsumeNonce, LockListing, LockTrade, FailRequest
      <3> QED
        BY <2>1, <3>1, CapRests DEF NoNewUnpaid, IsUnpaid, storeVars
    <2> QED
      BY <2>2, <2>3, <2>4, <2>5, CountKeepsCap, InsertKeepsCap DEF Serve
  <1>3. CASE ~Answer(r) /\ (ConsumeNonce(r) \/ LockListing(r) \/ LockTrade(r))
    <2>1. PICK pc \in {"begin", "count", "listing"} : GoOn(r, pc)
      BY <1>3 DEF ConsumeNonce, LockListing, LockTrade
    <2>2. NoNewPassed
      BY <1>1, <2>1, GoOnMoves DEF Moves, NoNewPassed
    <2>3. UNCHANGED storeVars
      BY <1>3 DEF ConsumeNonce, LockListing, LockTrade
    <2> QED
      BY <2>2, <2>3, CapRests DEF NoNewUnpaid, IsUnpaid, storeVars
  <1>4. CASE CountUnpaid(r) \/ CommitReserve(r)
    BY <1>4, CountKeepsCap, InsertKeepsCap
  <1> QED
    BY <1>2, <1>3, <1>4 DEF Serve, ListHandle, AdvanceReserved, CommitCancel, FailRequest

LEMMA StepKeepsCap ==
  ASSUME ResInv, IsFiniteSet(Requests), OvershootIsBounded, [ResNext]_resVars
  PROVE  OvershootIsBounded'
  <1>1. CASE \E r \in Requests : Serve(r) \/ FailRequest(r)
    BY <1>1, ServeKeepsCap
  <1>2. CASE Arrivals
    <2>1. PICK r \in Requests, op \in Ops, n \in Nonces, h \in Handles, u \in Users, t \in TradeIds \cup {None} :
            Arrive(r, op, n, h, u, t)
      BY <1>2 DEF Arrivals
    <2>2. NoNewPassed
      BY <2>1 DEF Arrive, NoNewPassed, ResInv, ReservationTypeOK
    <2> QED
      BY <2>1, <2>2, CapRests DEF Arrive, NoNewUnpaid, IsUnpaid, storeVars
  <1>3. CASE ResCrash
    <2>1. NoNewPassed
      BY <1>3 DEF ResCrash, NoNewPassed, Idle
    <2> QED
      BY <1>3, <2>1, CapRests DEF ResCrash, NoNewUnpaid, IsUnpaid, storeVars
  <1>4. CASE SweepCommit
    <2>1. sweep.trade \in TradeIds /\ ReleaseUnpaid(sweep.trade, "EXPIRED") /\ UNCHANGED req
      BY <1>4 DEF SweepCommit, ReleaseUnpaid, ResInv, LockInv, SweepHolds
    <2> QED
      BY <2>1, OthersAddNone, CapRests DEF NoNewPassed
  <1>5. CASE Watchers
    <2>1. PICK t \in TradeIds : Observe(t) \/ \E end \in {"SETTLED", "REFUNDED"} : Conclude(t, end)
      BY <1>5 DEF Watchers
    <2>2. UNCHANGED req
      BY <2>1 DEF Observe, Conclude
    <2> QED
      BY <2>1, <2>2, OthersAddNone, CapRests DEF NoNewPassed
  <1>6. CASE UNCHANGED resVars \/ SweepQuery \/ SweepEnd \/ SweepFail
             \/ (\E t \in TradeIds : SweepTrade(t)) \/ \E t \in TradeIds : Elapse(t)
    <2>1. UNCHANGED << storeVars, req >>
      BY <1>6 DEF resVars, SweepQuery, SweepEnd, SweepFail, SweepTrade, Elapse
    <2> QED
      BY <2>1, CapRests DEF NoNewUnpaid, NoNewPassed, IsUnpaid, storeVars
  <1> QED
    BY <1>1, <1>2, <1>3, <1>4, <1>5, <1>6 DEF ResNext, ExpirySweep

\* unpaidReservationCountTx counts without locking what it counts, so UnpaidCap does
\* not hold; but each request exceeds the cap by at most its own trade: with n of
\* them in progress at one time, a buyer never has more than n - 1 unpaid
\* reservations beyond maxUnpaidReservations.
THEOREM CapOvershoot ==
  ASSUME IsFiniteSet(Requests), Requests # {}
  PROVE  ResSpec => []OvershootIsBounded
  <1>1. ResInit => OvershootIsBounded
    <2> SUFFICES ASSUME ResInit, NEW u \in Users
                 PROVE  Cardinality(UnpaidOf(u)) + Cardinality(Passed(u))
                          <= MaxUnpaidReservations - 1 + Cardinality(Requests)
      BY DEF OvershootIsBounded
    <2>1. UnpaidOf(u) = {}
      BY DEF ResInit, UnpaidOf, IsUnpaid, NoTrade, NewTrade, UnpaidStates
    <2>2. Passed(u) = {}
      BY DEF ResInit, Passed, Idle
    <2>3. Cardinality(Requests) \in Nat /\ Cardinality(Requests) # 0
      BY FS_CardinalityType, FS_EmptySet
    <2> QED
      BY <2>1, <2>2, <2>3, FS_EmptySet, MaxUnpaidAssumption
  <1>2. ResInv /\ OvershootIsBounded /\ [ResNext]_resVars => OvershootIsBounded'
    BY StepKeepsCap
  <1> QED
    BY <1>1, <1>2, ResCorrect, PTL DEF ResSpec

\* Requests served one after the other keep to the cap.
THEOREM CapHoldsAlone ==
  ASSUME IsFiniteSet(Requests), Cardinality(Requests) = 1
  PROVE  ResSpec => []UnpaidCap
  <1>1. OvershootIsBounded => UnpaidCap
    <2> SUFFICES ASSUME OvershootIsBounded, NEW u \in Users
                 PROVE  UnpaidReservationCount(u) <= MaxUnpaidReservations
      BY DEF UnpaidCap
    <2>1. Cardinality(UnpaidOf(u)) + Cardinality(Passed(u)) <= MaxUnpaidReservations
      BY MaxUnpaidAssumption DEF OvershootIsBounded
    <2>2. UnpaidReservationCount(u) = Cardinality(UnpaidOf(u))
      BY DEF UnpaidReservationCount, UnpaidOf
    <2> QED
      BY <2>1, <2>2, CapSizes, MaxUnpaidAssumption
  <1>2. Requests # {}
    BY FS_EmptySet
  <1> QED
    BY <1>1, <1>2, CapOvershoot, PTL

-----------------------------------------------------------------------------
(***************************************************************************)
(* A handle is traded once.                                                *)
(***************************************************************************)
\* A trade that has not lapsed, in progress or at its end.
Lasting(t) == trades[t].state \notin {"NONE", "EXPIRED", "CANCELED"}

TradedOnce ==
  \A t \in TradeIds : Lasting(t) =>
    /\ listings[trades[t].handle].status = "reserved"
    /\ \A other \in TradeIds : Lasting(other) /\ trades[other].handle = trades[t].handle => other = t

\* A lasting trade stays one of its handle, but for a release; only a reservation
\* adds one.
LEMMA TransactionKeepsTradedOnce ==
  ASSUME ResInv, TradedOnce, StoreChange
  PROVE  TradedOnce'
  <1>1. /\ trades \in [TradeIds -> Trade] /\ listings \in [Handles -> Listing]
        /\ \A t \in TradeIds : Lasting(t) => trades[t].handle \in Handles
    BY DEF ResInv, StoreInv, StoreTypeOK, RowsAreTrades, Lasting
  <1>2. ASSUME NEW h \in Handles, NEW s \in Users, CreateListing(h, s)
        PROVE  TradedOnce'
    <2>1. UNCHANGED trades /\ \A g \in Handles : g # h => listings'[g] = listings[g]
      BY <1>1, <1>2 DEF CreateListing
    <2>2. \A t \in TradeIds : Lasting(t) => trades[t].handle # h
      BY <1>2 DEF CreateListing, TradedOnce
    <2> QED
      BY <1>1, <2>1, <2>2 DEF TradedOnce, Lasting
  <1>3. ASSUME NEW u \in TradeIds, NEW h \in Handles, NEW b \in Users, Reservable(u, h), WriteReserved(u, h, b)
        PROVE  TradedOnce'
    <2>1. trades'[u].handle = h /\ \A t \in TradeIds : t # u => trades'[t] = trades[t]
      BY <1>1, <1>3 DEF WriteReserved, NewTrade
    <2>2. /\ listings'[h].status = "reserved"
          /\ \A g \in Handles : g # h => listings'[g] = listings[g]
      <3>1. PICK row : row = [listings[h] EXCEPT !.status = "reserved"]
        OBVIOUS
      <3>2. row.status = "reserved"
        BY <1>1, <3>1 DEF Listing
      <3>3. listings' = [listings EXCEPT ![h] = row]
        BY <1>1, <1>3, <3>1 DEF WriteReserved
      <3> QED
        BY <1>1, <3>2, <3>3
    <2>3. \A t \in TradeIds : Lasting(t) => trades[t].handle # h
      BY <1>3 DEF Reservable, TradedOnce
    <2> QED
      BY <1>1, <2>1, <2>2, <2>3 DEF TradedOnce, Lasting
  <1>4. ASSUME NEW u \in TradeIds, NEW to \in {"CANCELED", "EXPIRED"}, ReleaseUnpaid(u, to)
        PROVE  TradedOnce'
    <2>1. Lasting(u) /\ trades[u].handle \in Handles
      BY <1>1, <1>4 DEF ReleaseUnpaid, Releasable, IsUnpaid, UnpaidStates, Lasting
    <2>2. PICK row : row = [trades[u] EXCEPT !.state = to]
      OBVIOUS
    <2>3. row.state = to
      BY <1>1, <2>2, StateWritten DEF TradeState
    <2>4. trades' = [trades EXCEPT ![u] = row]
      BY <1>1, <1>4, <2>2 DEF ReleaseUnpaid, WriteReleased
    <2>5. ~Lasting(u)' /\ \A t \in TradeIds : t # u => trades'[t] = trades[t]
      BY <1>1, <2>3, <2>4 DEF Lasting
    <2>6. \A g \in Handles : g # trades[u].handle => listings'[g] = listings[g]
      BY <1>1, <1>4 DEF ReleaseUnpaid, WriteReleased
    <2>7. \A t \in TradeIds : Lasting(t) /\ t # u => trades[t].handle # trades[u].handle
      BY <2>1 DEF TradedOnce
    <2> QED
      BY <1>1, <2>5, <2>6, <2>7 DEF TradedOnce, Lasting
  <1>5. ASSUME NEW u \in TradeIds,
               \/ Transition(u, "RESERVED", "AWAITING_DEPOSIT", trades[u])
               \/ Observe(u) \/ \E end \in {"SETTLED", "REFUNDED"} : Conclude(u, end)
        PROVE  TradedOnce'
    <2>1. /\ trades[u] \in Trade /\ [trades[u] EXCEPT !.depositHeight = 1] \in Trade
          /\ [trades[u] EXCEPT !.depositHeight = 1].handle = trades[u].handle
      BY <1>1 DEF Trade
    <2>2. PICK row \in Trade, to \in TradeState :
            /\ row.handle = trades[u].handle
            /\ trades' = [trades EXCEPT ![u] = [row EXCEPT !.state = to]]
      <3>1. CASE Transition(u, "RESERVED", "AWAITING_DEPOSIT", trades[u])
        BY <2>1, <3>1 DEF Transition, TradeState
      <3>2. CASE Observe(u)
        BY <2>1, <3>2 DEF Observe, Transition, TradeState
      <3>3. CASE \E end \in {"SETTLED", "REFUNDED"} : Conclude(u, end)
        BY <2>1, <3>3 DEF Conclude, TradeState
      <3> QED
        BY <1>5, <3>1, <3>2, <3>3
    <2>3. trades'[u] = [row EXCEPT !.state = to] /\ \A t \in TradeIds : t # u => trades'[t] = trades[t]
      BY <1>1, <2>2
    <2>4. trades'[u].handle = trades[u].handle
      BY <2>2, <2>3, StateWritten
    <2>5. Lasting(u) /\ UNCHANGED listings
      BY <1>5 DEF Transition, Observe, Conclude, Lasting
    <2>6. \A t \in TradeIds : /\ trades'[t].handle = trades[t].handle
                              /\ Lasting(t)' => Lasting(t)
      BY <2>3, <2>4, <2>5 DEF Lasting
    <2> QED
      BY <2>5, <2>6 DEF TradedOnce
  <1> QED
    BY <1>2, <1>3, <1>4, <1>5 DEF StoreChange

\* Settle and Refund end with a Transition, which writes no listing row: of the trades of
\* one handle all but one have lapsed, and when that one is settled or refunded the
\* listing is still reserved, so that nobody lists or reserves the handle again
\* (CreateListing refuses the row, although it lets a closed trade pass).
THEOREM HandleTradedOnce == ResSpec => []TradedOnce
  <1>1. ResInit => TradedOnce
    BY DEF ResInit, TradedOnce, Lasting, NoTrade, NewTrade
  <1>2. ResInv /\ TradedOnce /\ [ResNext]_resVars => TradedOnce'
    <2> SUFFICES ASSUME ResInv, TradedOnce, [ResNext]_resVars
                 PROVE  TradedOnce'
      OBVIOUS
    <2>1. CASE UNCHANGED storeVars
      BY <2>1 DEF storeVars, TradedOnce, Lasting
    <2> QED
      BY <2>1, StepTransacts, TransactionKeepsTradedOnce
  <1> QED
    BY <1>1, <1>2, ResCorrect, PTL DEF ResSpec

=============================================================================
