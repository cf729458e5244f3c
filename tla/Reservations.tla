------------------------------ MODULE Reservations ------------------------------
(***************************************************************************)
(* Listing, reserving, cancelling and expiring, one level below Escrow:    *)
(* HTTP requests and the expiry sweep run in their own goroutines on       *)
(* Postgres under READ COMMITTED, so ReserveListing and                    *)
(* releaseUnpaidReservationTx are not single steps here but the row locks, *)
(* the unlocked count and the commit they are made of.                     *)
(*                                                                         *)
(* A lock is held from the SELECT ... FOR UPDATE that takes it until the   *)
(* commit, so it is a function of where its holder is.  What the watchers  *)
(* do with a trade once its deposit is recorded is one step: from then on  *)
(* no operation of this module applies to it.                              *)
(***************************************************************************)
EXTENDS MarketplaceStore

CONSTANTS
  Requests, \* HTTP requests that can be in progress at one time
  Nonces,   \* bound: the nonces clients ever use
  MaxFaults \* bound: crashes and failed statements

ASSUME FaultAssumption == MaxFaults \in Nat

VARIABLES
  nonces, \* marketplace_nonces
  req,    \* the requests in progress
  sweep,  \* ExpireStaleReservations in progress
  due,    \* trades whose deposit_deadline has passed
  origin, \* the nonce whose request inserted each trade
  faults

resVars == << storeVars, nonces, req, sweep, due, origin, faults >>

Ops == {"list", "reserve", "cancel"}

\* What a request asks for; a trade id only for a cancellation.
Idle == [pc |-> "idle", op |-> "list", nonce |-> None, handle |-> None, user |-> None, trade |-> None]

Request ==
  [ pc     : {"idle", "nonce", "begin", "count", "insert", "advance", "listing"},
    op     : Ops,
    nonce  : Nonces \cup {None},
    handle : Handles \cup {None},
    user   : Users \cup {None},
    trade  : TradeIds \cup {None} ]

SweepIdle == [pc |-> "idle", stale |-> {}, trade |-> None]

Sweep == [pc : {"idle", "next", "listing"}, stale : SUBSET TradeIds, trade : TradeIds \cup {None}]

ReservationTypeOK ==
  /\ StoreTypeOK
  /\ nonces \subseteq Nonces
  /\ req \in [Requests -> Request]
  /\ sweep \in Sweep
  /\ due \subseteq TradeIds
  /\ origin \in [TradeIds -> Nonces \cup {None}]
  /\ faults \in Nat

\* Some handles have been listed before.
ResInit ==
  /\ listings \in [Handles -> {NoListing} \cup [status : {"active"}, seller : Users]]
  /\ trades = [t \in TradeIds |-> NoTrade]
  /\ nonces = {} /\ due = {} /\ faults = 0
  /\ req = [r \in Requests |-> Idle]
  /\ sweep = SweepIdle
  /\ origin = [t \in TradeIds |-> None]

ResFault == faults < MaxFaults /\ faults' = faults + 1

\* Row locks, by who has passed the FOR UPDATE of an open transaction.
ListingLocked(h) ==
  \E r \in Requests : req[r].pc \in {"count", "insert"} /\ req[r].handle = h

\* Mutant of TradeLocked: the sweep reads its rows without FOR UPDATE.
TradeLockedByRequest(t) ==
  \E r \in Requests : req[r].pc = "listing" /\ req[r].trade = t

TradeLocked(t) ==
  \/ \E r \in Requests : req[r].pc = "listing" /\ req[r].trade = t
  \/ sweep.pc = "listing" /\ sweep.trade = t

GoOn(r, pc) == req' = [req EXCEPT ![r].pc = pc]
Answer(r) == req' = [req EXCEPT ![r] = Idle]

-----------------------------------------------------------------------------
\* The bound on trades: an id is left for every reservation in progress.
IdsLeft ==
  Cardinality({ r \in Requests : req[r].op = "reserve" /\ req[r].trade = None })
    < Cardinality({ t \in TradeIds : trades[t].state = "NONE" })

\* A request arrives, its signature or token verified.  Clients retry, so the
\* nonce may have been used before.  Only a party of the trade may cancel it.
Arrive(r, op, n, h, u, t) ==
  /\ req[r].pc = "idle"
  /\ op = "reserve" => IdsLeft
  /\ IF op = "cancel"
     THEN trades[t].state # "NONE" /\ h = trades[t].handle /\ u \in {trades[t].buyer, trades[t].seller}
     ELSE t = None
  /\ req' = [req EXCEPT ![r] = [pc |-> "nonce", op |-> op, nonce |-> n, handle |-> h, user |-> u, trade |-> t]]
  /\ UNCHANGED << storeVars, nonces, sweep, due, origin, faults >>

\* Mutants of ConsumeNonce: a used nonce is let through; it is tried for ever.
IgnoreNonce(r) ==
  /\ req[r].pc = "nonce"
  /\ nonces' = nonces \cup {req[r].nonce} /\ GoOn(r, "begin")
  /\ UNCHANGED << storeVars, sweep, due, origin, faults >>

RetryNonce(r) ==
  /\ req[r].pc = "nonce"
  /\ req[r].nonce \notin nonces /\ nonces' = nonces \cup {req[r].nonce} /\ GoOn(r, "begin")
  /\ UNCHANGED << storeVars, sweep, due, origin, faults >>

\* ConsumeNonce, in a transaction of its own.
ConsumeNonce(r) ==
  /\ req[r].pc = "nonce"
  /\ \/ req[r].nonce \notin nonces /\ nonces' = nonces \cup {req[r].nonce} /\ GoOn(r, "begin")
     \/ req[r].nonce \in nonces /\ UNCHANGED nonces /\ Answer(r)
  /\ UNCHANGED << storeVars, sweep, due, origin, faults >>

\* CreateListing; it waits for the row lock and refuses an existing row.
ListHandle(r) ==
  /\ req[r].pc = "begin" /\ req[r].op = "list"
  /\ ~ListingLocked(req[r].handle)
  /\ \/ CreateListing(req[r].handle, req[r].user)
     \/ listings[req[r].handle].status # "none" /\ UNCHANGED storeVars
  /\ Answer(r)
  /\ UNCHANGED << nonces, sweep, due, origin, faults >>

\* Mutant of LockListing: the row is read without FOR UPDATE.
ReadListing(r) ==
  /\ req[r].pc = "begin" /\ req[r].op = "reserve"
  /\ IF listings[req[r].handle].status = "active" THEN GoOn(r, "count") ELSE Answer(r)
  /\ UNCHANGED << storeVars, nonces, sweep, due, origin, faults >>

\* ReserveListing: lock the listing row and look at its status.
LockListing(r) ==
  /\ req[r].pc = "begin" /\ req[r].op = "reserve"
  /\ ~ListingLocked(req[r].handle)
  /\ IF listings[req[r].handle].status = "active" THEN GoOn(r, "count") ELSE Answer(r)
  /\ UNCHANGED << storeVars, nonces, sweep, due, origin, faults >>

\* unpaidReservationCountTx sees what is committed, and locks nothing.
CountUnpaid(r) ==
  /\ req[r].pc = "count"
  /\ IF UnpaidReservationCount(req[r].user) < MaxUnpaidReservations
     THEN GoOn(r, "insert") ELSE Answer(r)
  /\ UNCHANGED << storeVars, nonces, sweep, due, origin, faults >>

\* Both writes and the commit; the id is fresh.
CommitReserve(r) ==
  /\ req[r].pc = "insert"
  /\ \E t \in TradeIds :
       /\ trades[t].state = "NONE"
       /\ WriteReserved(t, req[r].handle, req[r].user)
       /\ origin' = [origin EXCEPT ![t] = req[r].nonce]
       /\ req' = [req EXCEPT ![r].pc = "advance", ![r].trade = t]
  /\ UNCHANGED << nonces, sweep, due, faults >>

\* The handler's Transition to AWAITING_DEPOSIT, refused when the reservation
\* was cancelled or expired in between.
AdvanceReserved(r) ==
  /\ req[r].pc = "advance"
  /\ ~TradeLocked(req[r].trade)
  /\ \/ Transition(req[r].trade, "RESERVED", "AWAITING_DEPOSIT", trades[req[r].trade])
     \/ trades[req[r].trade].state # "RESERVED" /\ UNCHANGED storeVars
  /\ Answer(r)
  /\ UNCHANGED << nonces, sweep, due, origin, faults >>

\* CancelUnpaidReservation: lock the trade row, then the listing row.
LockTrade(r) ==
  /\ req[r].pc = "begin" /\ req[r].op = "cancel"
  /\ ~TradeLocked(req[r].trade)
  /\ IF Releasable(req[r].trade, "CANCELED") THEN GoOn(r, "listing") ELSE Answer(r)
  /\ UNCHANGED << storeVars, nonces, sweep, due, origin, faults >>

CommitCancel(r) ==
  /\ req[r].pc = "listing"
  /\ ~ListingLocked(trades[req[r].trade].handle)
  /\ WriteReleased(req[r].trade, "CANCELED")
  /\ Answer(r)
  /\ UNCHANGED << nonces, sweep, due, origin, faults >>

\* A statement or the commit fails: the transaction rolls back, the nonce
\* stays used, and a trade that was inserted stays RESERVED.
FailRequest(r) ==
  /\ req[r].pc # "idle"
  /\ ResFault
  /\ Answer(r)
  /\ UNCHANGED << storeVars, nonces, sweep, due, origin >>

-----------------------------------------------------------------------------
\* deposit_deadline passes.
Elapse(t) ==
  /\ IsUnpaid(t) /\ t \notin due
  /\ due' = due \cup {t}
  /\ UNCHANGED << storeVars, nonces, req, sweep, origin, faults >>

\* ExpireStaleReservations: the ids are read once, without a lock ...
SweepQuery ==
  /\ sweep.pc = "idle"
  /\ \E t \in due : IsUnpaid(t)
  /\ sweep' = [sweep EXCEPT !.pc = "next", !.stale = { t \in due : IsUnpaid(t) }]
  /\ UNCHANGED << storeVars, nonces, req, due, origin, faults >>

\* Mutant of SweepTrade: the row is not looked at again.
SweepTradeBlindly(t) ==
  /\ sweep.pc = "next" /\ t \in sweep.stale
  /\ ~TradeLocked(t)
  /\ sweep' = [pc |-> "listing", stale |-> sweep.stale \ {t}, trade |-> t]
  /\ UNCHANGED << storeVars, nonces, req, due, origin, faults >>

\* ... and each is looked at again under its row lock.
SweepTrade(t) ==
  /\ sweep.pc = "next" /\ t \in sweep.stale
  /\ ~TradeLocked(t)
  /\ sweep' = IF Releasable(t, "EXPIRED")
              THEN [pc |-> "listing", stale |-> sweep.stale \ {t}, trade |-> t]
              ELSE [sweep EXCEPT !.stale = @ \ {t}]
  /\ UNCHANGED << storeVars, nonces, req, due, origin, faults >>

SweepCommit ==
  /\ sweep.pc = "listing"
  /\ ~ListingLocked(trades[sweep.trade].handle)
  /\ WriteReleased(sweep.trade, "EXPIRED")
  /\ sweep' = [sweep EXCEPT !.pc = "next", !.trade = None]
  /\ UNCHANGED << nonces, req, due, origin, faults >>

\* A failed transaction is logged and the sweep goes on with the next id.
SweepFail ==
  /\ sweep.pc = "listing"
  /\ ResFault
  /\ sweep' = [sweep EXCEPT !.pc = "next", !.trade = None]
  /\ UNCHANGED << storeVars, nonces, req, due, origin >>

SweepEnd ==
  /\ sweep.pc = "next" /\ sweep.stale = {}
  /\ sweep' = SweepIdle
  /\ UNCHANGED << storeVars, nonces, req, due, origin, faults >>

\* EscrowWatcher records a deposit.
Observe(t) ==
  /\ ~TradeLocked(t)
  /\ Transition(t, "AWAITING_DEPOSIT", "DEPOSIT_FINALIZING", [trades[t] EXCEPT !.depositHeight = 1])
  /\ UNCHANGED << nonces, req, sweep, due, origin, faults >>

\* The watchers carry the trade through to its end; the listing row is not
\* among the rows they write.
Conclude(t, end) ==
  /\ trades[t].state = "DEPOSIT_FINALIZING"
  /\ trades' = [trades EXCEPT ![t].state = end]
  /\ UNCHANGED << listings, nonces, req, sweep, due, origin, faults >>

\* The process dies: open transactions roll back, tables stay.
ResCrash ==
  /\ ResFault
  /\ req' = [r \in Requests |-> Idle]
  /\ sweep' = SweepIdle
  /\ UNCHANGED << storeVars, nonces, due, origin >>

-----------------------------------------------------------------------------
Serve(r) ==
  \/ ConsumeNonce(r) \/ ListHandle(r) \/ LockListing(r) \/ CountUnpaid(r)
  \/ CommitReserve(r) \/ AdvanceReserved(r) \/ LockTrade(r) \/ CommitCancel(r)

ExpirySweep == SweepQuery \/ SweepCommit \/ SweepEnd \/ \E t \in TradeIds : SweepTrade(t)

Watchers ==
  \E t \in TradeIds : Observe(t) \/ \E end \in {"SETTLED", "REFUNDED"} : Conclude(t, end)

Arrivals ==
  \E r \in Requests, op \in Ops, n \in Nonces, h \in Handles, u \in Users, t \in TradeIds \cup {None} :
    (op = "cancel" => t # None) /\ Arrive(r, op, n, h, u, t)

ResNext ==
  \/ Arrivals
  \/ \E r \in Requests : Serve(r) \/ FailRequest(r)
  \/ \E t \in TradeIds : Elapse(t)
  \/ ExpirySweep \/ SweepFail
  \/ Watchers
  \/ ResCrash

ResSpec == ResInit /\ [][ResNext]_resVars

\* A goroutine whose statement is not blocked runs it, time passes, and the
\* sweep loop ticks every two minutes.
ResFairSpec ==
  /\ ResSpec
  /\ \A r \in Requests : WF_resVars(Serve(r))
  /\ \A t \in TradeIds : WF_resVars(Elapse(t))
  /\ WF_resVars(ExpirySweep)

-----------------------------------------------------------------------------
\* A signed intent buys at most one reservation, however often it is sent and
\* wherever the process died while serving it.
OneTradePerNonce ==
  \A t, other \in TradeIds :
    t # other /\ origin[t] # None => origin[t] # origin[other]

\* A listing is taken off the market only by a trade: no crash, failure or
\* race of cancel, expiry and advance leaves it reserved for a lapsed one.
NoOrphanReservation ==
  \A h \in Handles : listings[h].status = "reserved" =>
    \E t \in TradeIds : /\ trades[t].handle = h
                        /\ trades[t].state \notin {"NONE", "EXPIRED", "CANCELED"}

\* A trade whose deposit is recorded never lapses, although the sweep's list
\* of ids and a cancellation's first look may be older than the deposit.
PaidNeverLapses ==
  [][\A t \in TradeIds : trades[t].depositHeight > 0 =>
       trades'[t].state \notin {"EXPIRED", "CANCELED"}]_resVars

\* Taken apart into locks and writes, the requests and the sweep still change
\* the tables only in the ways of one whole store transaction at a time, but for
\* the count of the buyer's reservations: what it reads is not locked (UnpaidCap).
StoreTransactions ==
  [][\/ \E h \in Handles, s \in Users : CreateListing(h, s)
     \/ \E t \in TradeIds, h \in Handles, b \in Users : Reservable(t, h) /\ WriteReserved(t, h, b)
     \/ \E t \in TradeIds :
          \/ ReleaseUnpaid(t, "CANCELED") \/ ReleaseUnpaid(t, "EXPIRED")
          \/ Transition(t, "RESERVED", "AWAITING_DEPOSIT", trades[t])
          \/ Observe(t) \/ \E end \in {"SETTLED", "REFUNDED"} : Conclude(t, end)]_storeVars

\* "Concurrent unpaid reservations per buyer are capped".
UnpaidCap ==
  \A u \in Users : UnpaidReservationCount(u) <= MaxUnpaidReservations

\* "listing is reserved by an open trade": what CreateListing tells an owner
\* it refuses.
ReservedMeansOpenTrade ==
  \A h \in Handles : listings[h].status = "reserved" =>
    \E t \in TradeIds : trades[t].handle = h /\ IsOpen(t)

\* No lock order makes requests and the sweep wait for each other for ever.
RequestsFinish ==
  \A r \in Requests : req[r].pc # "idle" ~> req[r].pc = "idle"

=============================================================================
