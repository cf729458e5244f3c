--------------------------- MODULE MarketplaceStore ---------------------------
(***************************************************************************)
(* The two tables of MarketplaceStore (backend/marketplace_store.go) and   *)
(* its database transactions.  Every operator below is ONE transaction:    *)
(* the rows it reads are locked FOR UPDATE until it commits, so it is      *)
(* atomic; the modules that compose it say who runs it and when, and leave *)
(* the variables of their own unchanged.                                   *)
(*                                                                         *)
(* Left out of a row because nothing in the backend reads it back: the     *)
(* version counter, the timestamps, the release and claim hashes and the   *)
(* ownership epoch.  Prices are the same for all listings.                 *)
(***************************************************************************)
EXTENDS TradeStates, FiniteSets

CONSTANTS
  Handles,              \* the names being sold
  Users,                \* wallet addresses
  TradeIds,             \* the random ids newTradeID may draw
  None,                 \* no address, no handle
  MaxUnpaidReservations \* maxUnpaidReservations (3 in the code)

ASSUME NoneAssumption == None \notin Users /\ None \notin Handles
\* An id is 16 random bytes.
ASSUME TradesAssumption == IsFiniteSet(TradeIds)
ASSUME MaxUnpaidAssumption == MaxUnpaidReservations \in Nat

VARIABLES
  listings, \* marketplace_listings: at most one row per handle
  trades    \* marketplace_trades: one row per trade id

storeVars == << listings, trades >>

ListingStatus == {"none", "active", "reserved"}

Listing == [status : ListingStatus, seller : Users \cup {None}]

\* depositHeight is 0 until a deposit hash is recorded; the attempt markers
\* and the payout/refund hashes are only ever compared with "unset".
Trade ==
  [ state           : TradeState \cup {"NONE"},
    handle          : Handles \cup {None},
    buyer           : Users \cup {None},
    seller          : Users \cup {None},
    depositHeight   : Nat,
    payoutAttempted : BOOLEAN,
    payoutTx        : BOOLEAN,
    refundAttempted : BOOLEAN,
    refundTx        : BOOLEAN ]

NoListing == [status |-> "none", seller |-> None]

NewTrade(s, h, b, seller) ==
  [ state |-> s, handle |-> h, buyer |-> b, seller |-> seller,
    depositHeight |-> 0,
    payoutAttempted |-> FALSE, payoutTx |-> FALSE,
    refundAttempted |-> FALSE, refundTx |-> FALSE ]

NoTrade == NewTrade("NONE", None, None, None)

StoreTypeOK ==
  /\ listings \in [Handles -> Listing]
  /\ trades \in [TradeIds -> Trade]

StoreInit ==
  /\ listings = [h \in Handles |-> NoListing]
  /\ trades = [t \in TradeIds |-> NoTrade]

\* isUnpaidReservation
IsUnpaid(t) == trades[t].state \in UnpaidStates /\ trades[t].depositHeight = 0

\* A trade row that still keeps its handle off the market.
IsOpen(t) == trades[t].state \notin ClosedStates \cup {"NONE"}

\* isStuckTrade: an attempt was marked and no hash was recorded.
IsStuckTrade(t) ==
  \/ trades[t].payoutAttempted /\ ~trades[t].payoutTx
  \/ trades[t].refundAttempted /\ ~trades[t].refundTx

UnpaidReservationCount(b) ==
  Cardinality({ t \in TradeIds : trades[t].buyer = b /\ IsUnpaid(t) })

-----------------------------------------------------------------------------
\* CreateListing: refuses an active or reserved row and any open trade.
CreateListing(h, s) ==
  /\ listings[h].status \notin {"active", "reserved"}
  /\ \A t \in TradeIds : trades[t].handle = h => ~IsOpen(t)
  /\ listings' = [listings EXCEPT ![h] = [status |-> "active", seller |-> s]]
  /\ UNCHANGED trades

\* ReserveListing writes both rows, once it has seen the listing active and the
\* buyer below the cap; the trade id is fresh.
WriteReserved(t, h, b) ==
  /\ listings' = [listings EXCEPT ![h].status = "reserved"]
  /\ trades' = [trades EXCEPT ![t] = NewTrade("RESERVED", h, b, listings[h].seller)]

Reservable(t, h) == listings[h].status = "active" /\ trades[t].state = "NONE"

ReserveListing(t, h, b) ==
  /\ Reservable(t, h)
  /\ UnpaidReservationCount(b) < MaxUnpaidReservations
  /\ WriteReserved(t, h, b)

\* Mutant of WriteReleased: both rows are given the trade's new state.
WriteReleasedTwice(t, to) ==
  /\ trades' = [trades EXCEPT ![t].state = to]
  /\ listings' = [listings EXCEPT ![trades[t].handle].status = to]

\* Mutant of WriteReleased: the listing is not put back on the market.
WriteReleasedTrade(t, to) ==
  /\ trades' = [trades EXCEPT ![t].state = to]
  /\ UNCHANGED listings

\* releaseUnpaidReservationTx closes the trade and reopens the listing, once
\* it has seen under the row lock that it may.
WriteReleased(t, to) ==
  /\ trades' = [trades EXCEPT ![t].state = to]
  /\ listings' = [listings EXCEPT ![trades[t].handle].status = "active"]

Releasable(t, to) == IsUnpaid(t) /\ CanTransitionTo(trades[t].state, to)

ReleaseUnpaid(t, to) == Releasable(t, to) /\ WriteReleased(t, to)

\* Transition: `row` is the locked row after the caller's mutate function.
Transition(t, from, to, row) ==
  /\ trades[t].state = from
  /\ CanTransitionTo(from, to)
  /\ trades' = [trades EXCEPT ![t] = [row EXCEPT !.state = to]]
  /\ UNCHANGED listings

\* Mutant of MarkPayoutAttempt: the check is made, the marker is not saved.
CheckPayoutAttempt(t) ==
  /\ trades[t].state = "SETTLEMENT_PENDING"
  /\ ~trades[t].payoutAttempted
  /\ UNCHANGED storeVars

\* MarkPayoutAttempt
MarkPayoutAttempt(t) ==
  /\ trades[t].state = "SETTLEMENT_PENDING"
  /\ ~trades[t].payoutAttempted
  /\ trades' = [trades EXCEPT ![t].payoutAttempted = TRUE]
  /\ UNCHANGED listings

\* MarkRefundAttempt
MarkRefundAttempt(t) ==
  /\ trades[t].state = "REFUND_PENDING"
  /\ ~trades[t].refundAttempted
  /\ trades' = [trades EXCEPT ![t].refundAttempted = TRUE]
  /\ UNCHANGED listings

-----------------------------------------------------------------------------
\* While a trade is open its listing is reserved and no second trade of the
\* same handle is open: the listing row's lock and status serialise
\* reservations, cancellations, expiry and new listings.
ListingExclusive ==
  \A t \in TradeIds : IsOpen(t) =>
    /\ listings[trades[t].handle].status = "reserved"
    /\ \A other \in TradeIds \ {t} :
         trades[other].handle = trades[t].handle => ~IsOpen(other)

=============================================================================
