----------------------------- MODULE EscrowProofs -----------------------------
(***************************************************************************)
(* Theorems about Escrow, for every set of handles, users and trades and   *)
(* every bound.                                                            *)
(***************************************************************************)
EXTENDS Escrow, FiniteSetTheorems, NaturalsInduction, WellFoundedInduction, TLAPS

\* The swept states are the settlement chain without its last state.
LEMMA SweptStatesAre ==
  SweptStates = {"AWAITING_RELEASE", "RELEASE_CONFIRMING", "AWAITING_CLAIM", "CLAIM_CONFIRMING"}
  <1>1. Len(SettlementChain) = 5
    BY DEF SettlementChain
  <1>2. 1 .. Len(SettlementChain) - 1 = {1, 2, 3, 4}
    BY <1>1
  <1>3. /\ SettlementChain[1] = "AWAITING_RELEASE"
        /\ SettlementChain[2] = "RELEASE_CONFIRMING"
        /\ SettlementChain[3] = "AWAITING_CLAIM"
        /\ SettlementChain[4] = "CLAIM_CONFIRMING"
    BY DEF SettlementChain
  <1> QED
    BY <1>2, <1>3 DEF SweptStates

\* A hop along the chain stays in it.
LEMMA HopStaysInChain ==
  ASSUME NEW s \in SweptStates
  PROVE  NextInChain(s) \in {"RELEASE_CONFIRMING", "AWAITING_CLAIM",
                             "CLAIM_CONFIRMING", "SETTLEMENT_PENDING"}
  <1>1. Len(SettlementChain) = 5
    BY DEF SettlementChain
  <1>2. 1 .. Len(SettlementChain) - 1 = {1, 2, 3, 4}
    BY <1>1
  <1>3. /\ SettlementChain[2] = "RELEASE_CONFIRMING"
        /\ SettlementChain[3] = "AWAITING_CLAIM"
        /\ SettlementChain[4] = "CLAIM_CONFIRMING"
        /\ SettlementChain[5] = "SETTLEMENT_PENDING"
    BY DEF SettlementChain
  <1> DEFINE i == CHOOSE j \in 1 .. Len(SettlementChain) - 1 : SettlementChain[j] = s
  <1>4. i \in {1, 2, 3, 4}
    <2>1. \E j \in 1 .. Len(SettlementChain) - 1 : SettlementChain[j] = s
      BY DEF SweptStates
    <2> QED
      BY <2>1, <1>2
  <1>5. NextInChain(s) = SettlementChain[i + 1]
    BY DEF NextInChain
  <1> HIDE DEF i
  <1>6. i + 1 \in {2, 3, 4, 5}
    BY <1>4
  <1> QED
    BY <1>3, <1>5, <1>6

-----------------------------------------------------------------------------
(***************************************************************************)
(* The store transactions keep the tables well typed.                      *)
(***************************************************************************)
\* Transition writes a well-typed row when the caller's row and target are.
LEMMA TransitionTypes ==
  ASSUME StoreTypeOK, NEW t \in TradeIds, NEW from, NEW to \in TradeState,
         NEW row \in Trade, Transition(t, from, to, row)
  PROVE  StoreTypeOK'
  <1>1. [row EXCEPT !.state = to] \in Trade
    BY DEF Trade
  <1> QED
    BY <1>1 DEF Transition, StoreTypeOK

\* Releasing a reservation keeps both tables typed.
LEMMA ReleaseTypes ==
  ASSUME StoreTypeOK, NEW t \in TradeIds, NEW to \in TradeState, ReleaseUnpaid(t, to)
  PROVE  StoreTypeOK'
  <1>1. trades[t] \in Trade
    BY DEF StoreTypeOK
  <1>2. [trades[t] EXCEPT !.state = to] \in Trade
    BY <1>1 DEF Trade
  <1>3. trades' \in [TradeIds -> Trade]
    BY <1>2 DEF ReleaseUnpaid, WriteReleased, StoreTypeOK
  <1>4. listings' \in [Handles -> Listing]
    <2>1. \A h \in Handles : [listings[h] EXCEPT !.status = "active"] \in Listing
      BY DEF StoreTypeOK, Listing, ListingStatus
    <2> QED
      BY <2>1 DEF ReleaseUnpaid, WriteReleased, StoreTypeOK
  <1> QED
    BY <1>3, <1>4 DEF StoreTypeOK

\* The reservation transaction.
LEMMA ReserveTypes ==
  ASSUME StoreTypeOK, NEW t \in TradeIds, NEW h \in Handles, NEW b \in Users,
         ReserveListing(t, h, b)
  PROVE  StoreTypeOK'
  <1>1. listings[h] \in Listing
    BY DEF StoreTypeOK
  <1>2. [listings[h] EXCEPT !.status = "reserved"] \in Listing
    BY <1>1 DEF Listing, ListingStatus
  <1>3. NewTrade("RESERVED", h, b, listings[h].seller) \in Trade
    BY <1>1 DEF NewTrade, Trade, TradeState, Listing
  <1> QED
    BY <1>2, <1>3 DEF ReserveListing, Reservable, WriteReserved, StoreTypeOK

\* The two attempt markers.
LEMMA MarkTypes ==
  ASSUME StoreTypeOK, NEW t \in TradeIds, MarkPayoutAttempt(t) \/ MarkRefundAttempt(t)
  PROVE  StoreTypeOK'
  <1>1. trades[t] \in Trade
    BY DEF StoreTypeOK
  <1>2. /\ [trades[t] EXCEPT !.payoutAttempted = TRUE] \in Trade
        /\ [trades[t] EXCEPT !.refundAttempted = TRUE] \in Trade
    BY <1>1 DEF Trade
  <1> QED
    BY <1>2 DEF MarkPayoutAttempt, MarkRefundAttempt, StoreTypeOK

-----------------------------------------------------------------------------
(***************************************************************************)
(* Type correctness.                                                       *)
(***************************************************************************)
\* A sweep that is not running.
LEMMA IdleTypes ==
  /\ EWIdle \in EWStates /\ EWIdle.pc = "idle"
  /\ OWIdle \in OWStates /\ OWIdle.pc = "idle"
  BY DEF EWIdle, EWStates, OWIdle, OWStates

\* The initial state is well typed.
LEMMA InitTypes == Init => TypeOK
  <1> SUFFICES ASSUME Init PROVE TypeOK
    OBVIOUS
  <1>1. NoListing \in Listing
    BY DEF NoListing, Listing, ListingStatus
  <1>2. NoTrade \in Trade
    BY DEF NoTrade, NewTrade, Trade
  <1>3. StoreTypeOK
    BY <1>1, <1>2 DEF Init, StoreInit, StoreTypeOK
  <1>4. /\ head \in [Handles -> Claim]
        /\ claims \subseteq [handle : Handles, owner : Users, height : Nat]
    BY DEF Init, Owned, Claim
  <1>5. final \in [Handles -> Claim] /\ registry \in [Handles -> Claim]
    BY <1>4 DEF Init
  <1>6. /\ ledger \in [TradeIds -> [payout : Nat, fee : Nat, refund : Nat]]
        /\ sends \in [TradeIds -> [payout : Nat, refund : Nat]]
    BY DEF Init, NoRows, NoSends
  <1>7. ew \in EWStates /\ ow \in OWStates
    BY IdleTypes DEF Init
  <1>8. ew.pc # "record"
    BY IdleTypes DEF Init
  <1> QED
    BY <1>3, <1>4, <1>5, <1>6, <1>7, <1>8 DEF Init, TypeOK

\* A step of the chain.
LEMMA ChainTypes == TypeOK /\ Chain => TypeOK'
  <1> SUFFICES ASSUME TypeOK, Chain PROVE TypeOK'
    OBVIOUS
  <1> USE DEF chainVars, procVars, regVars, storeVars
  <1>1. ASSUME NEW t \in TradeIds, NEW u \in Users, NEW v \in Values, SendDeposit(t, u, v)
        PROVE  TypeOK'
    BY <1>1 DEF TypeOK, StoreTypeOK, SendDeposit, NewBlock, DepositTx, EWStates
  <1>2. ASSUME NEW h \in Handles, NEW u \in Users, ClaimOnChain(h, u)
        PROVE  TypeOK'
    BY <1>2 DEF TypeOK, StoreTypeOK, ClaimOnChain, NewBlock, Owned, Claim
  <1>3. ASSUME NEW h \in Handles, ReleaseOnChain(h)
        PROVE  TypeOK'
    BY <1>3 DEF TypeOK, StoreTypeOK, ReleaseOnChain, NewBlock, NoClaim, Claim
  <1>4. CASE MacroBlock
    BY <1>4 DEF TypeOK, StoreTypeOK, MacroBlock
  <1>5. CASE Reorg
    BY <1>5 DEF TypeOK, StoreTypeOK, Reorg
  <1> QED
    BY <1>1, <1>2, <1>3, <1>4, <1>5 DEF Chain

\* A failure leaves some counter incremented.
LEMMA FaultTypes == faults \in Nat /\ Fault => faults' \in Nat
  BY DEF Fault

\* A registry sweep.
LEMMA RegistryTypes == TypeOK /\ RegistrySync => TypeOK'
  <1> SUFFICES ASSUME TypeOK, RegistrySync PROVE TypeOK'
    OBVIOUS
  <1>1. PICK failed \in SUBSET (HtlcOwners \ creators) :
          /\ IF failed = {} THEN UNCHANGED faults ELSE LookupMayFail /\ Fault
          /\ registry' = [h \in Handles |-> Attributed(head[h], failed)]
          /\ creators' = creators \cup (HtlcOwners \ failed)
          /\ UNCHANGED << storeVars, ledger, procVars, chainVars, sends >>
    BY DEF RegistrySync
  <1>2. registry' \in [Handles -> Claim]
    BY <1>1 DEF TypeOK, Attributed, Claim
  <1>3. creators' \subseteq Users
    BY <1>1, HtlcAssumption DEF TypeOK, HtlcOwners
  <1>4. faults' \in Nat
    BY <1>1, FaultTypes DEF TypeOK
  <1> QED
    BY <1>1, <1>2, <1>3, <1>4 DEF TypeOK, StoreTypeOK, chainVars, procVars, storeVars

\* A step of an HTTP handler or of the expiry sweep.
LEMMA HandlerTypes == TypeOK /\ Handlers => TypeOK'
  <1> SUFFICES ASSUME TypeOK, Handlers PROVE TypeOK'
    OBVIOUS
  <1> USE DEF TypeOK
  <1>a. \A t \in TradeIds : trades[t] \in Trade
    BY DEF StoreTypeOK
  <1>1. ASSUME NEW h \in Handles, NEW s \in Users, List(h, s)
        PROVE  TypeOK'
    <2>1. StoreTypeOK'
      BY <1>1 DEF List, CreateListing, StoreTypeOK, Listing, ListingStatus
    <2> QED
      BY <1>1, <2>1 DEF List, procVars, regVars, chainVars
  <1>2. ASSUME NEW t \in TradeIds, NEW h \in Handles, NEW b \in Users, Reserve(t, h, b)
        PROVE  TypeOK'
    BY <1>2, ReserveTypes DEF Reserve, regVars, chainVars
  <1>3. ASSUME NEW t \in TradeIds, FinishReserve(t)
        PROVE  TypeOK'
    <2>1. StoreTypeOK'
      BY <1>3, <1>a, TransitionTypes DEF FinishReserve, TradeState, StoreTypeOK, storeVars
    <2>2. faults' \in Nat
      BY <1>3, FaultTypes DEF FinishReserve
    <2> QED
      BY <1>3, <2>1, <2>2 DEF FinishReserve, regVars, chainVars
  <1>4. ASSUME NEW t \in TradeIds, Cancel(t) \/ Expire(t)
        PROVE  TypeOK'
    <2>1. StoreTypeOK'
      BY <1>4, ReleaseTypes DEF Cancel, Expire, TradeState
    <2> QED
      BY <1>4, <2>1 DEF Cancel, Expire, procVars, regVars, chainVars
  <1>5. ASSUME NEW t \in TradeIds, SubmitRelease(t) \/ SubmitClaim(t)
        PROVE  TypeOK'
    <2>1. StoreTypeOK'
      BY <1>5, <1>a, TransitionTypes DEF SubmitRelease, SubmitClaim, TradeState
    <2> QED
      BY <1>5, <2>1 DEF SubmitRelease, SubmitClaim, procVars, regVars, chainVars
  <1> QED
    BY <1>1, <1>2, <1>3, <1>4, <1>5 DEF Handlers

\* A step of the escrow watcher.
LEMMA EWTypes == TypeOK /\ (EWStep \/ EWAbort \/ EWUnread) => TypeOK'
  <1> SUFFICES ASSUME TypeOK, EWStep \/ EWAbort \/ EWUnread PROVE TypeOK'
    OBVIOUS
  <1> USE DEF TypeOK, ewFrame, regVars, chainVars, storeVars
  <1>a. \A t \in TradeIds : trades[t] \in Trade
    BY DEF StoreTypeOK
  <1>1. CASE EWFetch \/ EWMacro \/ EWMatchDone \/ EWFinalizeDone
    <2>1. ew' \in EWStates /\ ew'.pc # "record"
      BY <1>1 DEF EWFetch, EWMacro, EWMatchDone, EWFinalizeDone, EWStates
    <2> QED
      BY <1>1, <2>1 DEF EWFetch, EWMacro, EWMatchDone, EWFinalizeDone, StoreTypeOK
  <1>2. CASE EWRaced \/ EWEnd \/ EWAbort
    BY <1>2, FaultTypes, IdleTypes DEF EWRaced, EWEnd, EWAbort, StoreTypeOK
  <1>3. ASSUME NEW d \in ew.txs, EWSkip(d) \/ EWMatch(d)
        PROVE  TypeOK'
    BY <1>3 DEF EWSkip, EWMatch, EWStates, StoreTypeOK
  <1>4. CASE EWRecord
    <2> DEFINE t == ew.hit.trade
               row == trades[t]
    <2>1. t \in TradeIds /\ ew.hit.height \in Nat
      BY <1>4 DEF EWRecord, DepositTx
    <2>2. row \in Trade
      BY <2>1, <1>a
    <2>3. [row EXCEPT !.depositHeight = ew.hit.height] \in Trade
      <3> HIDE DEF TypeOK, t, row
      <3> QED
        BY <2>1, <2>2 DEF Trade
    <2>4. StoreTypeOK'
      BY <1>4, <2>1, <2>3, TransitionTypes DEF EWRecord, TradeState
    <2> QED
      BY <1>4, <2>4 DEF EWRecord, EWStates
  <1>5. ASSUME NEW t \in TradeIds, EWFinalize(t) \/ EWAdvance(t)
        PROVE  TypeOK'
    <2>1. StoreTypeOK'
      BY <1>5, <1>a, TransitionTypes DEF EWFinalize, EWAdvance, TradeState
    <2> QED
      BY <1>5, <2>1 DEF EWFinalize, EWAdvance
  <1>6. CASE EWUnread
    <2>1. ew' \in EWStates /\ ew'.pc # "record"
      BY <1>6 DEF EWUnread, EWStates
    <2> QED
      BY <1>6, <2>1, FaultTypes DEF EWUnread, StoreTypeOK
  <1> QED
    BY <1>1, <1>2, <1>3, <1>4, <1>5, <1>6 DEF EWStep

\* A step of the ownership watcher and its settlement worker.
LEMMA OWTypes == TypeOK /\ OWStep => TypeOK'
  <1> SUFFICES ASSUME TypeOK, OWStep PROVE TypeOK'
    OBVIOUS
  <1> USE DEF TypeOK, owFrame, regVars, chainVars, storeVars
  <1>a. \A t \in TradeIds : trades[t] \in Trade
    BY DEF StoreTypeOK
  <1>1. CASE OWStart \/ OWEnd
    BY <1>1, IdleTypes DEF OWStart, OWEnd, OWStates, StoreTypeOK
  <1>2. ASSUME NEW t \in TradeIds,
               \/ OWBuyerOwns(t) \/ OWOtherOwns(t) \/ OWSkip(t)
               \/ WalkRead(t) \/ WalkDone(t) \/ FailRead(t) \/ HopRaced(t)
        PROVE  TypeOK'
    <2>1. trades[t].state \in TradeState \cup {"NONE"}
      BY <1>a DEF Trade
    <2> QED
      BY <1>2, <2>1 DEF OWBuyerOwns, OWOtherOwns, OWSkip, WalkRead, WalkDone, FailRead, HopRaced,
         Visit, Goto, Read, Continue, OWStates, SettlePc, RefundPc, StoreTypeOK
  <1>3. ASSUME NEW t \in TradeIds, WalkHop(t)
        PROVE  TypeOK'
    <2>1. NextInChain(ow.seen) \in TradeState
      BY <1>3, HopStaysInChain DEF WalkHop, TradeState
    <2>2. StoreTypeOK'
      BY <1>3, <1>a, <2>1, TransitionTypes DEF WalkHop
    <2> QED
      BY <1>3, <2>2 DEF WalkHop, Goto, OWStates, SettlePc
  <1>4. ASSUME NEW t \in TradeIds, FailHop(t) \/ FailAfterRelease(t) \/ BeginRefund(t)
        PROVE  TypeOK'
    <2>1. StoreTypeOK'
      BY <1>4, <1>a, TransitionTypes DEF FailHop, FailAfterRelease, BeginRefund, TradeState
    <2> QED
      BY <1>4, <2>1 DEF FailHop, FailAfterRelease, BeginRefund, Goto, OWStates, RefundPc
  <1>5. ASSUME NEW t \in TradeIds, MarkPayout(t) \/ MarkRefund(t)
        PROVE  TypeOK'
    <2>1. StoreTypeOK'
      BY <1>5, MarkTypes DEF MarkPayout, MarkRefund
    <2> QED
      BY <1>5, <2>1 DEF MarkPayout, MarkRefund, Goto, OWStates, SettlePc, RefundPc
  <1>6. ASSUME NEW t \in TradeIds, SendPayout(t) \/ SendRefund(t)
        PROVE  TypeOK'
    <2>1. /\ [sends[t] EXCEPT !.payout = @ + 1] \in [payout : Nat, refund : Nat]
          /\ [sends[t] EXCEPT !.refund = @ + 1] \in [payout : Nat, refund : Nat]
      OBVIOUS
    <2>2. sends' \in [TradeIds -> [payout : Nat, refund : Nat]]
      BY <1>6, <2>1 DEF SendPayout, SendRefund
    <2>3. faults' \in Nat
      BY <1>6, FaultTypes DEF SendPayout, SendRefund
    <2>4. ow' \in OWStates
      BY <1>6, IdleTypes DEF SendPayout, SendRefund, Goto, OWStates, SettlePc, RefundPc
    <2> QED
      BY <1>6, <2>2, <2>3, <2>4 DEF SendPayout, SendRefund, StoreTypeOK
  <1>7. ASSUME NEW t \in TradeIds, AppendPayout(t) \/ AppendFee(t) \/ AppendRefund(t)
        PROVE  TypeOK'
    <2>1. /\ [ledger[t] EXCEPT !.payout = @ + 1] \in [payout : Nat, fee : Nat, refund : Nat]
          /\ [ledger[t] EXCEPT !.fee = @ + 1] \in [payout : Nat, fee : Nat, refund : Nat]
          /\ [ledger[t] EXCEPT !.refund = @ + 1] \in [payout : Nat, fee : Nat, refund : Nat]
      OBVIOUS
    <2>2. ledger' \in [TradeIds -> [payout : Nat, fee : Nat, refund : Nat]]
      BY <1>7, <2>1 DEF AppendPayout, AppendFee, AppendRefund
    <2> QED
      BY <1>7, <2>2 DEF AppendPayout, AppendFee, AppendRefund, Goto, OWStates, SettlePc, RefundPc, StoreTypeOK
  <1>8. ASSUME NEW t \in TradeIds, FinishSettle(t) \/ FinishRefund(t)
        PROVE  TypeOK'
    <2>1. /\ [trades[t] EXCEPT !.payoutTx = TRUE] \in Trade
          /\ [trades[t] EXCEPT !.refundTx = TRUE] \in Trade
      BY <1>a DEF Trade
    <2>2. StoreTypeOK'
      BY <1>8, <2>1, TransitionTypes DEF FinishSettle, FinishRefund, TradeState
    <2> QED
      BY <1>8, <2>2 DEF FinishSettle, FinishRefund, Continue, OWStates
  <1> QED
    BY <1>1, <1>2, <1>3, <1>4, <1>5, <1>6, <1>7, <1>8 DEF OWStep, Settle, Refund

\* A failed hop, an aborted settlement or a crash.
LEMMA FailureTypes == TypeOK /\ (OWUnread \/ OWGiveUp \/ OWAbort \/ Crash) => TypeOK'
  <1> SUFFICES ASSUME TypeOK, OWUnread \/ OWGiveUp \/ OWAbort \/ Crash PROVE TypeOK'
    OBVIOUS
  <1>1. faults' \in Nat
    BY FaultTypes DEF TypeOK, OWUnread, OWGiveUp, OWAbort, Crash
  <1>2. ow' \in OWStates /\ ew' \in EWStates
    BY IdleTypes DEF TypeOK, OWUnread, OWGiveUp, OWAbort, Crash, Continue, OWStates, owFrame
  <1> QED
    BY <1>1, <1>2, IdleTypes DEF TypeOK, StoreTypeOK, OWUnread, OWGiveUp, OWAbort, Crash, owFrame, regVars, chainVars, storeVars

\* Every reachable state is well typed: no step of a sweep, handler or failure
\* writes a row, a sweep state or a counter outside its range.
THEOREM TypeCorrect == Spec => []TypeOK
  <1>1. TypeOK /\ [Next]_vars => TypeOK'
    <2>1. TypeOK /\ UNCHANGED vars => TypeOK'
      BY DEF TypeOK, StoreTypeOK, vars, procVars, regVars, chainVars, storeVars
    <2> QED
      BY <2>1, ChainTypes, RegistryTypes, HandlerTypes, EWTypes, OWTypes, FailureTypes
         DEF Next, Failures
  <1> QED
    BY <1>1, InitTypes, PTL DEF Spec

-----------------------------------------------------------------------------
(***************************************************************************)
(* Money: MoneyInv is inductive.                                           *)
(***************************************************************************)
\* The states whose rows may carry a marker or a hash.
Decided == {"SETTLEMENT_PENDING", "SETTLED", "REFUND_PENDING", "REFUNDED"}

\* The positions of the worker between the marker and the closing transaction.
MoneyPc == {"send", "ledger", "fee", "finish", "sendR", "ledgerR", "finishR"}

\* No marker, hash, transfer or ledger row changes, no trade enters or leaves
\* a state that speaks of money, and the worker does not enter such a position.
Quiet ==
  /\ UNCHANGED << sends, ledger >>
  /\ \A t \in TradeIds :
       /\ trades'[t].payoutAttempted = trades[t].payoutAttempted
       /\ trades'[t].payoutTx = trades[t].payoutTx
       /\ trades'[t].refundAttempted = trades[t].refundAttempted
       /\ trades'[t].refundTx = trades[t].refundTx
       /\ \/ trades'[t].state = trades[t].state
          \/ trades[t].state \notin Decided /\ trades'[t].state \notin {"SETTLED", "REFUNDED"}
  /\ ow' = ow \/ ow'.pc \notin MoneyPc

\* Quiet steps keep the invariant.
LEMMA QuietKeepsMoney == TypeOK /\ MoneyInv /\ Quiet => MoneyInv'
  <1> SUFFICES ASSUME TypeOK, MoneyInv, Quiet, NEW t \in TradeIds
               PROVE  RowInv(t)' /\ WorkerInv(t)'
    BY DEF MoneyInv
  <1>0. RowInv(t) /\ WorkerInv(t)
    BY DEF MoneyInv
  <1>1. RowInv(t)'
    BY <1>0 DEF RowInv, Quiet, Sent, Rows, Decided
  <1>2. WorkerInv(t)'
    <2>1. CASE ow'.pc \notin MoneyPc
      BY <2>1 DEF WorkerInv, MoneyPc
    <2>2. CASE ow' = ow
      BY <2>2, <1>0 DEF WorkerInv, Quiet, Sent, Rows, Settling, Refunding, Decided
    <2> QED
      BY <2>1, <2>2 DEF Quiet
  <1> QED
    BY <1>1, <1>2

\* A transition between two states that do not speak of money is quiet.
LEMMA PlainTransitionIsQuiet ==
  ASSUME TypeOK, NEW t \in TradeIds, NEW from \in TradeState \ Decided,
         NEW to \in TradeState \ {"SETTLED", "REFUNDED"},
         Transition(t, from, to, trades[t]),
         UNCHANGED << sends, ledger >>, ow' = ow \/ ow'.pc \notin MoneyPc
  PROVE  Quiet
  <1>1. trades[t] \in Trade
    BY DEF TypeOK, StoreTypeOK
  <1> QED
    BY <1>1 DEF Quiet, Transition, TypeOK, StoreTypeOK, Trade

\* Only these states can move to FAILED_AFTER_RELEASE.
LEMMA FailureSources ==
  ASSUME NEW s, CanTransitionTo(s, "FAILED_AFTER_RELEASE")
  PROVE  s \in {"RELEASE_CONFIRMING", "AWAITING_CLAIM", "CLAIM_CONFIRMING", "FAILED_AFTER_RELEASE"}
  BY DEF CanTransitionTo, AllowedTransitions

\* The chain, the registry, the crashes and the sweep steps that touch no row.
LEMMA FrameIsQuiet ==
  ASSUME UNCHANGED << trades, sends, ledger >>, ow' = ow \/ ow'.pc \notin MoneyPc
  PROVE  Quiet
  BY DEF Quiet

\* Handlers and the expiry sweep.
LEMMA HandlersAreQuiet == TypeOK /\ MoneyInv /\ Handlers => Quiet
  <1> SUFFICES ASSUME TypeOK, MoneyInv, Handlers PROVE Quiet
    OBVIOUS
  <1> USE DEF procVars, storeVars
  <1>1. ASSUME NEW h \in Handles, NEW s \in Users, List(h, s) PROVE Quiet
    BY <1>1, FrameIsQuiet DEF List, CreateListing
  <1>2. ASSUME NEW t \in TradeIds, NEW h \in Handles, NEW b \in Users, Reserve(t, h, b)
        PROVE  Quiet
    <2>1. trades[t].state = "NONE" /\ trades' = [trades EXCEPT ![t] = NewTrade("RESERVED", h, b, listings[h].seller)]
      BY <1>2 DEF Reserve, ReserveListing, Reservable, WriteReserved
    <2>2. /\ trades[t].payoutAttempted = FALSE /\ trades[t].payoutTx = FALSE
          /\ trades[t].refundAttempted = FALSE /\ trades[t].refundTx = FALSE
      BY <2>1 DEF MoneyInv, RowInv, TypeOK, StoreTypeOK, Trade
    <2> QED
      BY <1>2, <2>1, <2>2 DEF Reserve, Quiet, NewTrade, Decided, TypeOK, StoreTypeOK
  <1>3. ASSUME NEW t \in TradeIds, FinishReserve(t) PROVE Quiet
    <2>1. CASE Transition(t, "RESERVED", "AWAITING_DEPOSIT", trades[t])
      BY <1>3, <2>1, PlainTransitionIsQuiet DEF FinishReserve, TradeState, Decided
    <2>2. CASE UNCHANGED storeVars
      BY <1>3, <2>2, FrameIsQuiet DEF FinishReserve
    <2> QED
      BY <1>3, <2>1, <2>2 DEF FinishReserve
  <1>4. ASSUME NEW t \in TradeIds, Cancel(t) \/ Expire(t) PROVE Quiet
    <2>1. trades[t] \in Trade
      BY DEF TypeOK, StoreTypeOK
    <2> QED
      BY <1>4, <2>1 DEF Cancel, Expire, ReleaseUnpaid, Releasable, WriteReleased, IsUnpaid, UnpaidStates, Quiet, Decided, Trade, TypeOK, StoreTypeOK
  <1>5. ASSUME NEW t \in TradeIds, SubmitRelease(t) \/ SubmitClaim(t) PROVE Quiet
    BY <1>5, PlainTransitionIsQuiet DEF SubmitRelease, SubmitClaim, TradeState, Decided
  <1> QED
    BY <1>1, <1>2, <1>3, <1>4, <1>5 DEF Handlers

\* The escrow watcher.
LEMMA EWIsQuiet == TypeOK /\ (EWStep \/ EWAbort \/ EWUnread) => Quiet
  <1> SUFFICES ASSUME TypeOK, EWStep \/ EWAbort \/ EWUnread PROVE Quiet
    OBVIOUS
  <1> USE DEF ewFrame, storeVars
  <1>1. CASE EWFetch \/ EWMacro \/ EWRaced \/ EWMatchDone \/ EWFinalizeDone \/ EWEnd \/ EWAbort \/ EWUnread
    BY <1>1, FrameIsQuiet DEF EWFetch, EWMacro, EWRaced, EWMatchDone, EWFinalizeDone, EWEnd, EWAbort, EWUnread
  <1>2. ASSUME NEW d \in ew.txs, EWSkip(d) \/ EWMatch(d) PROVE Quiet
    BY <1>2, FrameIsQuiet DEF EWSkip, EWMatch
  <1>3. CASE EWRecord
    <2> DEFINE t == ew.hit.trade
    <2>1. t \in TradeIds
      BY <1>3 DEF EWRecord, TypeOK, EWStates, DepositTx
    <2>2. trades[t] \in Trade
      BY <2>1 DEF TypeOK, StoreTypeOK
    <2> QED
      BY <1>3, <2>1, <2>2 DEF EWRecord, Transition, Quiet, Decided, Trade, TypeOK, StoreTypeOK
  <1>4. ASSUME NEW t \in TradeIds, EWFinalize(t) \/ EWAdvance(t) PROVE Quiet
    BY <1>4, PlainTransitionIsQuiet DEF EWFinalize, EWAdvance, TradeState, Decided
  <1> QED
    BY <1>1, <1>2, <1>3, <1>4 DEF EWStep

\* The ownership watcher's steps that leave the worker outside the payout.
LEMMA DecidingPc ==
  ASSUME TypeOK, NEW t \in TradeIds,
         \/ OWStart \/ OWEnd \/ OWUnread \/ OWGiveUp \/ OWAbort \/ Crash
         \/ OWBuyerOwns(t) \/ OWOtherOwns(t) \/ OWSkip(t)
         \/ WalkRead(t) \/ WalkHop(t) \/ WalkDone(t) \/ HopRaced(t)
         \/ FailRead(t) \/ FailHop(t) \/ FailAfterRelease(t) \/ BeginRefund(t)
  PROVE  ow'.pc \notin MoneyPc
  <1>1. CASE OWEnd \/ OWAbort \/ Crash
    BY <1>1, IdleTypes DEF OWEnd, OWAbort, Crash, MoneyPc
  <1>2. CASE OWStart \/ OWUnread \/ OWGiveUp
    BY <1>2 DEF OWStart, OWUnread, OWGiveUp, Continue, MoneyPc, TypeOK, OWStates
  <1>3. CASE OWBuyerOwns(t) \/ OWOtherOwns(t) \/ OWSkip(t)
    BY <1>3 DEF OWBuyerOwns, OWOtherOwns, OWSkip, Visit, MoneyPc, TypeOK, OWStates
  <1>4. CASE WalkRead(t) \/ WalkHop(t) \/ WalkDone(t) \/ HopRaced(t)
    BY <1>4 DEF WalkRead, WalkHop, WalkDone, HopRaced, Read, Goto, Continue, MoneyPc, TypeOK, OWStates
  <1>5. CASE FailRead(t) \/ FailHop(t) \/ FailAfterRelease(t) \/ BeginRefund(t)
    BY <1>5 DEF FailRead, FailHop, FailAfterRelease, BeginRefund, Read, Goto, MoneyPc, TypeOK, OWStates
  <1> QED
    BY <1>1, <1>2, <1>3, <1>4, <1>5

\* The ownership watcher up to the decision.
LEMMA DecidingIsQuiet ==
  ASSUME TypeOK, NEW t \in TradeIds,
         \/ OWStart \/ OWEnd \/ OWUnread \/ OWGiveUp \/ OWAbort \/ Crash
         \/ OWBuyerOwns(t) \/ OWOtherOwns(t) \/ OWSkip(t)
         \/ WalkRead(t) \/ WalkHop(t) \/ WalkDone(t) \/ HopRaced(t)
         \/ FailRead(t) \/ FailHop(t) \/ FailAfterRelease(t) \/ BeginRefund(t)
  PROVE  Quiet
  <1>0. ow'.pc \notin MoneyPc
    BY DecidingPc
  <1>1. CASE UNCHANGED << storeVars, sends, ledger >>
    BY <1>0, <1>1, FrameIsQuiet DEF storeVars
  <1>2. CASE WalkHop(t)
    BY <1>0, <1>2, PlainTransitionIsQuiet, HopStaysInChain, SweptStatesAre DEF WalkHop, TradeState, Decided
  <1>3. CASE FailHop(t)
    BY <1>0, <1>3, PlainTransitionIsQuiet DEF FailHop, TradeState, Decided
  <1>4. CASE FailAfterRelease(t)
    <2>1. ow.seen \in TradeState \ Decided
      BY <1>4, FailureSources DEF FailAfterRelease, Transition, TradeState, Decided
    <2> QED
      BY <1>0, <1>4, <2>1, PlainTransitionIsQuiet DEF FailAfterRelease, TradeState
  <1>5. CASE BeginRefund(t)
    BY <1>0, <1>5, PlainTransitionIsQuiet DEF BeginRefund, TradeState, Decided
  <1>6. \/ UNCHANGED << storeVars, sends, ledger >>
        \/ WalkHop(t) \/ FailHop(t) \/ FailAfterRelease(t) \/ BeginRefund(t)
    BY DEF OWStart, OWEnd, OWUnread, OWGiveUp, OWAbort, Crash, OWBuyerOwns, OWOtherOwns, OWSkip, Visit,
           WalkRead, WalkDone, HopRaced, FailRead, storeVars
  <1> QED
    BY <1>1, <1>2, <1>3, <1>4, <1>5, <1>6

\* A step of the worker on trade t: the other trades are left alone.
LEMMA OneTradeAtATime ==
  ASSUME MoneyInv, NEW t \in TradeIds,
         ow'.trade = t \/ ow'.pc \notin MoneyPc,
         \A x \in TradeIds \ {t} :
           trades'[x] = trades[x] /\ sends'[x] = sends[x] /\ ledger'[x] = ledger[x],
         RowInv(t)', WorkerInv(t)'
  PROVE  MoneyInv'
  <1> SUFFICES ASSUME NEW x \in TradeIds \ {t} PROVE RowInv(x)' /\ WorkerInv(x)'
    BY DEF MoneyInv
  <1>1. RowInv(x)
    BY DEF MoneyInv
  <1>2. RowInv(x)'
    BY <1>1 DEF RowInv, Sent, Rows
  <1>3. WorkerInv(x)'
    BY DEF WorkerInv, MoneyPc
  <1> QED
    BY <1>2, <1>3

\* The payout marker is written before anything has left.
LEMMA MarkingKeepsMoney ==
  ASSUME TypeOK, MoneyInv, NEW t \in TradeIds, MarkPayout(t) \/ MarkRefund(t)
  PROVE  MoneyInv'
  <1>0. RowInv(t) /\ trades[t] \in Trade /\ trades \in [TradeIds -> Trade] /\ ow \in OWStates
    BY DEF MoneyInv, TypeOK, StoreTypeOK
  <1>1. CASE MarkPayout(t)
    <2>1. /\ trades[t].state = "SETTLEMENT_PENDING" /\ ~trades[t].payoutAttempted
          /\ trades' = [trades EXCEPT ![t].payoutAttempted = TRUE]
          /\ UNCHANGED << sends, ledger >> /\ ow.trade = t /\ ow' = [ow EXCEPT !.pc = "send"]
      BY <1>1 DEF MarkPayout, MarkPayoutAttempt, Goto
    <2>2. trades'[t] = [trades[t] EXCEPT !.payoutAttempted = TRUE]
      BY <1>0, <2>1
    <2>3. Sent(t, 0, 0) /\ Rows(t, 0, 0, 0)
      BY <1>0, <2>1 DEF RowInv
    <2>4. RowInv(t)'
      BY <1>0, <2>1, <2>2, <2>3 DEF RowInv, Trade, Sent, Rows
    <2>5. WorkerInv(t)'
      BY <1>0, <2>1, <2>2, <2>3 DEF WorkerInv, Settling, Trade, OWStates, Sent, Rows
    <2> QED
      BY <1>0, <2>1, <2>4, <2>5, OneTradeAtATime DEF OWStates
  <1>2. CASE MarkRefund(t)
    <2>1. /\ trades[t].state = "REFUND_PENDING" /\ ~trades[t].refundAttempted
          /\ trades' = [trades EXCEPT ![t].refundAttempted = TRUE]
          /\ UNCHANGED << sends, ledger >> /\ ow.trade = t /\ ow' = [ow EXCEPT !.pc = "sendR"]
      BY <1>2 DEF MarkRefund, MarkRefundAttempt, Goto
    <2>2. trades'[t] = [trades[t] EXCEPT !.refundAttempted = TRUE]
      BY <1>0, <2>1
    <2>3. Sent(t, 0, 0) /\ Rows(t, 0, 0, 0)
      BY <1>0, <2>1 DEF RowInv
    <2>4. RowInv(t)'
      BY <1>0, <2>1, <2>2, <2>3 DEF RowInv, Trade, Sent, Rows
    <2>5. WorkerInv(t)'
      BY <1>0, <2>1, <2>2, <2>3 DEF WorkerInv, Refunding, Trade, OWStates, Sent, Rows
    <2> QED
      BY <1>0, <2>1, <2>4, <2>5, OneTradeAtATime DEF OWStates
  <1> QED
    BY <1>1, <1>2

\* The transfer, or its failure, leaves the marked row and empty ledger behind.
LEMMA SendingKeepsMoney ==
  ASSUME TypeOK, MoneyInv, NEW t \in TradeIds, SendPayout(t) \/ SendRefund(t)
  PROVE  MoneyInv'
  <1>0. /\ RowInv(t) /\ WorkerInv(t) /\ ow \in OWStates
        /\ sends \in [TradeIds -> [payout : Nat, refund : Nat]]
    BY DEF MoneyInv, TypeOK
  <1>1. CASE SendPayout(t)
    <2>1. ow.trade = t /\ ow.pc = "send" /\ UNCHANGED << trades, ledger >>
      BY <1>1 DEF SendPayout, storeVars
    <2>2. Settling(t) /\ Sent(t, 0, 0) /\ Rows(t, 0, 0, 0)
      BY <1>0, <2>1 DEF WorkerInv, RowInv, Sent
    <2>3. CASE UNCHANGED sends /\ ow' = OWIdle
      BY <1>0, <2>1, <2>3, IdleTypes, FrameIsQuiet, QuietKeepsMoney DEF MoneyPc
    <2>4. CASE sends' = [sends EXCEPT ![t].payout = @ + 1] /\ (ow' = [ow EXCEPT !.pc = "ledger"] \/ ow' = OWIdle)
      <3>1. sends'[t] = [payout |-> 1, refund |-> 0]
        BY <1>0, <2>2, <2>4 DEF Sent
      <3>2. RowInv(t)'
        BY <1>0, <2>1, <2>2, <3>1 DEF RowInv, Settling, Sent, Rows
      <3>3. WorkerInv(t)'
        BY <1>0, <2>1, <2>2, <2>4, <3>1, IdleTypes DEF WorkerInv, Settling, Sent, Rows, OWStates
      <3>4. ow'.trade = t \/ ow'.pc \notin MoneyPc
        BY <1>0, <2>1, <2>4, IdleTypes DEF OWStates, MoneyPc
      <3> QED
        BY <1>0, <2>1, <2>4, <3>2, <3>3, <3>4, OneTradeAtATime
    <2> QED
      BY <1>1, <2>3, <2>4 DEF SendPayout, Goto
  <1>2. CASE SendRefund(t)
    <2>1. ow.trade = t /\ ow.pc = "sendR" /\ UNCHANGED << trades, ledger >>
      BY <1>2 DEF SendRefund, storeVars
    <2>2. Refunding(t) /\ Sent(t, 0, 0) /\ Rows(t, 0, 0, 0)
      BY <1>0, <2>1 DEF WorkerInv, RowInv, Sent
    <2>3. CASE UNCHANGED sends /\ ow' = OWIdle
      BY <1>0, <2>1, <2>3, IdleTypes, FrameIsQuiet, QuietKeepsMoney DEF MoneyPc
    <2>4. CASE sends' = [sends EXCEPT ![t].refund = @ + 1] /\ (ow' = [ow EXCEPT !.pc = "ledgerR"] \/ ow' = OWIdle)
      <3>1. sends'[t] = [payout |-> 0, refund |-> 1]
        BY <1>0, <2>2, <2>4 DEF Sent
      <3>2. RowInv(t)'
        BY <1>0, <2>1, <2>2, <3>1 DEF RowInv, Refunding, Sent, Rows
      <3>3. WorkerInv(t)'
        BY <1>0, <2>1, <2>2, <2>4, <3>1, IdleTypes DEF WorkerInv, Refunding, Sent, Rows, OWStates
      <3>4. ow'.trade = t \/ ow'.pc \notin MoneyPc
        BY <1>0, <2>1, <2>4, IdleTypes DEF OWStates, MoneyPc
      <3> QED
        BY <1>0, <2>1, <2>4, <3>2, <3>3, <3>4, OneTradeAtATime
    <2> QED
      BY <1>2, <2>3, <2>4 DEF SendRefund, Goto
  <1> QED
    BY <1>1, <1>2

\* Each ledger row is appended after the transfer and before the next one.
LEMMA BookingKeepsMoney ==
  ASSUME TypeOK, MoneyInv, NEW t \in TradeIds,
         AppendPayout(t) \/ AppendFee(t) \/ AppendRefund(t)
  PROVE  MoneyInv'
  <1>0. /\ RowInv(t) /\ WorkerInv(t) /\ ow \in OWStates
        /\ ledger \in [TradeIds -> [payout : Nat, fee : Nat, refund : Nat]]
    BY DEF MoneyInv, TypeOK
  <1>a. ow.trade = t /\ UNCHANGED << trades, sends >>
    BY DEF AppendPayout, AppendFee, AppendRefund, storeVars
  <1>1. CASE AppendPayout(t)
    <2>1. /\ ow.pc = "ledger" /\ ow' = [ow EXCEPT !.pc = "fee"]
          /\ ledger' = [ledger EXCEPT ![t].payout = @ + 1]
      BY <1>1 DEF AppendPayout, Goto
    <2>2. Settling(t) /\ Sent(t, 1, 0) /\ Rows(t, 0, 0, 0)
      BY <1>0, <1>a, <2>1 DEF WorkerInv
    <2>3. ledger'[t] = [payout |-> 1, fee |-> 0, refund |-> 0]
      BY <1>0, <2>1, <2>2 DEF Rows
    <2>4. RowInv(t)' /\ WorkerInv(t)'
      BY <1>0, <1>a, <2>1, <2>2, <2>3 DEF RowInv, WorkerInv, Settling, Sent, Rows, OWStates
    <2> QED
      BY <1>0, <1>a, <2>1, <2>4, OneTradeAtATime DEF OWStates
  <1>2. CASE AppendFee(t)
    <2>1. /\ ow.pc = "fee" /\ ow' = [ow EXCEPT !.pc = "finish"]
          /\ ledger' = [ledger EXCEPT ![t].fee = @ + 1]
      BY <1>2 DEF AppendFee, Goto
    <2>2. Settling(t) /\ Sent(t, 1, 0) /\ Rows(t, 1, 0, 0)
      BY <1>0, <1>a, <2>1 DEF WorkerInv
    <2>3. ledger'[t] = [payout |-> 1, fee |-> 1, refund |-> 0]
      BY <1>0, <2>1, <2>2 DEF Rows
    <2>4. RowInv(t)' /\ WorkerInv(t)'
      BY <1>0, <1>a, <2>1, <2>2, <2>3 DEF RowInv, WorkerInv, Settling, Sent, Rows, OWStates
    <2> QED
      BY <1>0, <1>a, <2>1, <2>4, OneTradeAtATime DEF OWStates
  <1>3. CASE AppendRefund(t)
    <2>1. /\ ow.pc = "ledgerR" /\ ow' = [ow EXCEPT !.pc = "finishR"]
          /\ ledger' = [ledger EXCEPT ![t].refund = @ + 1]
      BY <1>3 DEF AppendRefund, Goto
    <2>2. Refunding(t) /\ Sent(t, 0, 1) /\ Rows(t, 0, 0, 0)
      BY <1>0, <1>a, <2>1 DEF WorkerInv
    <2>3. ledger'[t] = [payout |-> 0, fee |-> 0, refund |-> 1]
      BY <1>0, <2>1, <2>2 DEF Rows
    <2>4. RowInv(t)' /\ WorkerInv(t)'
      BY <1>0, <1>a, <2>1, <2>2, <2>3 DEF RowInv, WorkerInv, Refunding, Sent, Rows, OWStates
    <2> QED
      BY <1>0, <1>a, <2>1, <2>4, OneTradeAtATime DEF OWStates
  <1> QED
    BY <1>1, <1>2, <1>3

\* A trade is closed with its hash once the money left and its rows are there.
LEMMA ClosingKeepsMoney ==
  ASSUME TypeOK, MoneyInv, NEW t \in TradeIds, FinishSettle(t) \/ FinishRefund(t)
  PROVE  MoneyInv'
  <1>0. /\ RowInv(t) /\ WorkerInv(t) /\ ow \in OWStates
        /\ trades[t] \in Trade /\ trades \in [TradeIds -> Trade]
    BY DEF MoneyInv, TypeOK, StoreTypeOK
  <1>a. ow.trade = t /\ UNCHANGED << ledger, sends >> /\ ow' = [ow EXCEPT !.pc = "scan", !.trade = None, !.seen = "NONE"]
    BY DEF FinishSettle, FinishRefund, Continue
  <1>b. ow'.pc \notin MoneyPc
    BY <1>0, <1>a DEF OWStates, MoneyPc
  <1>c. WorkerInv(t)'
    BY <1>b DEF WorkerInv, MoneyPc
  <1>1. CASE FinishSettle(t)
    <2>1. /\ ow.pc = "finish"
          /\ trades' = [trades EXCEPT ![t] = [[trades[t] EXCEPT !.payoutTx = TRUE] EXCEPT !.state = "SETTLED"]]
      BY <1>1 DEF FinishSettle, Transition
    <2>2. Settling(t) /\ Sent(t, 1, 0) /\ Rows(t, 1, 1, 0)
      BY <1>0, <1>a, <2>1 DEF WorkerInv
    <2>3. trades'[t] = [trades[t] EXCEPT !.payoutTx = TRUE, !.state = "SETTLED"]
      BY <1>0, <2>1
    <2>4. /\ trades'[t].state = "SETTLED" /\ trades'[t].payoutAttempted
          /\ trades'[t].refundAttempted = trades[t].refundAttempted
          /\ trades'[t].refundTx = trades[t].refundTx
      BY <1>0, <2>2, <2>3 DEF Settling, Trade
    <2>5. RowInv(t)'
      BY <1>0, <1>a, <2>2, <2>4 DEF RowInv, Settling, Sent, Rows
    <2> QED
      BY <1>0, <1>a, <1>b, <1>c, <2>1, <2>5, OneTradeAtATime
  <1>2. CASE FinishRefund(t)
    <2>1. /\ ow.pc = "finishR"
          /\ trades' = [trades EXCEPT ![t] = [[trades[t] EXCEPT !.refundTx = TRUE] EXCEPT !.state = "REFUNDED"]]
      BY <1>2 DEF FinishRefund, Transition
    <2>2. Refunding(t) /\ Sent(t, 0, 1) /\ Rows(t, 0, 0, 1)
      BY <1>0, <1>a, <2>1 DEF WorkerInv
    <2>3. trades'[t] = [trades[t] EXCEPT !.refundTx = TRUE, !.state = "REFUNDED"]
      BY <1>0, <2>1
    <2>4. /\ trades'[t].state = "REFUNDED" /\ trades'[t].refundAttempted
          /\ trades'[t].payoutAttempted = trades[t].payoutAttempted
          /\ trades'[t].payoutTx = trades[t].payoutTx
      BY <1>0, <2>2, <2>3 DEF Refunding, Trade
    <2>5. RowInv(t)'
      BY <1>0, <1>a, <2>2, <2>4 DEF RowInv, Refunding, Sent, Rows
    <2> QED
      BY <1>0, <1>a, <1>b, <1>c, <2>1, <2>5, OneTradeAtATime
  <1> QED
    BY <1>1, <1>2

\* Nothing has been marked, sent or booked at the start.
LEMMA MoneyInit == Init => MoneyInv
  <1> SUFFICES ASSUME Init, NEW t \in TradeIds PROVE RowInv(t) /\ WorkerInv(t)
    BY DEF MoneyInv
  <1>1. trades[t] = NoTrade /\ sends[t] = NoSends /\ ledger[t] = NoRows
    BY DEF Init, StoreInit
  <1>2. RowInv(t)
    BY <1>1 DEF RowInv, Sent, Rows, NoTrade, NewTrade, NoSends, NoRows
  <1>3. ow.pc = "idle"
    BY IdleTypes DEF Init
  <1> QED
    BY <1>2, <1>3 DEF WorkerInv

\* The step that carries the induction.
LEMMA MoneyStep == TypeOK /\ MoneyInv /\ [Next]_vars => MoneyInv'
  <1> SUFFICES ASSUME TypeOK, MoneyInv, [Next]_vars PROVE MoneyInv'
    OBVIOUS
  <1>1. CASE UNCHANGED vars
    BY <1>1, FrameIsQuiet, QuietKeepsMoney DEF vars, storeVars, procVars
  <1>2. CASE Chain \/ RegistrySync
    <2>1. UNCHANGED << trades, sends, ledger, ow >>
      BY <1>2 DEF Chain, SendDeposit, ClaimOnChain, ReleaseOnChain, MacroBlock, Reorg,
                  RegistrySync, storeVars, procVars
    <2> QED
      BY <2>1, FrameIsQuiet, QuietKeepsMoney
  <1>3. CASE Handlers
    BY <1>3, HandlersAreQuiet, QuietKeepsMoney
  <1>4. CASE EWStep \/ EWAbort \/ EWUnread
    BY <1>4, EWIsQuiet, QuietKeepsMoney
  <1>5. CASE OWStep
    <2>1. CASE OWStart \/ OWEnd
      <3>1. CASE TradeIds = {}
        BY <3>1 DEF MoneyInv
      <3> QED
        BY <2>1, <3>1, DecidingIsQuiet, QuietKeepsMoney
    <2>2. ASSUME NEW t \in TradeIds,
                 \/ OWBuyerOwns(t) \/ OWOtherOwns(t) \/ OWSkip(t)
                 \/ WalkRead(t) \/ WalkHop(t) \/ WalkDone(t) \/ HopRaced(t)
                 \/ FailRead(t) \/ FailHop(t) \/ FailAfterRelease(t) \/ BeginRefund(t)
          PROVE  MoneyInv'
      BY <2>2, DecidingIsQuiet, QuietKeepsMoney
    <2>3. ASSUME NEW t \in TradeIds, Settle(t) \/ Refund(t) PROVE MoneyInv'
      BY <2>3, MarkingKeepsMoney, SendingKeepsMoney, BookingKeepsMoney, ClosingKeepsMoney
         DEF Settle, Refund
    <2> QED
      BY <1>5, <2>1, <2>2, <2>3 DEF OWStep
  <1>6. CASE OWUnread \/ OWGiveUp \/ OWAbort \/ Crash
    <2>1. CASE TradeIds = {}
      BY <2>1 DEF MoneyInv
    <2> QED
      BY <1>6, <2>1, DecidingIsQuiet, QuietKeepsMoney
  <1> QED
    BY <1>1, <1>2, <1>3, <1>4, <1>5, <1>6 DEF Next, Failures

\* The worker, the row, the account and the ledger of a trade never drift
\* further apart than MoneyInv says, whatever fails.
THEOREM MoneyCorrect == Spec => []MoneyInv
  BY TypeCorrect, MoneyInit, MoneyStep, PTL DEF Spec

\* The escrow account never sends twice for a trade, for any number of trades,
\* crashes, failed sends and reorganisations.
THEOREM NeverSentTwice == Spec => []AtMostOneTransfer
  <1>1. MoneyInv => AtMostOneTransfer
    BY DEF MoneyInv, RowInv, Sent, AtMostOneTransfer
  <1> QED
    BY <1>1, MoneyCorrect, PTL

\* The ledger never books money that stayed, and a closed trade adds up.
THEOREM LedgerCorrect == Spec => []LedgerReconciles
  <1>1. MoneyInv => LedgerReconciles
    BY DEF MoneyInv, RowInv, Sent, Rows, LedgerReconciles
  <1> QED
    BY <1>1, MoneyCorrect, PTL

\* A transfer whose trade was not closed shows on the admin page.
THEOREM UnfinishedShows == Spec => []UnfinishedTransferIsFlagged
  <1>1. MoneyInv => UnfinishedTransferIsFlagged
    BY DEF MoneyInv, RowInv, Sent, IsStuckTrade, UnfinishedTransferIsFlagged
  <1> QED
    BY <1>1, MoneyCorrect, PTL

-----------------------------------------------------------------------------
(***************************************************************************)
(* Listings: an open trade holds its listing, alone.                       *)
(***************************************************************************)
\* ListingExclusive, and an open trade is about a handle.
ExclusiveInv ==
  /\ ListingExclusive
  /\ \A t \in TradeIds : IsOpen(t) => trades[t].handle \in Handles

\* No listing changes, no trade changes its handle, none opens.
NoneOpens ==
  /\ UNCHANGED listings
  /\ \A t \in TradeIds : trades'[t].handle = trades[t].handle /\ (IsOpen(t)' => IsOpen(t))

\* Such a step keeps ExclusiveInv.
LEMMA NoneOpensKeepsExclusive == ExclusiveInv /\ NoneOpens => ExclusiveInv'
  BY DEF ExclusiveInv, ListingExclusive, NoneOpens

\* Transition opens nothing: a closed trade has no successor state.
LEMMA TransitionOpensNothing ==
  ASSUME StoreTypeOK, NEW t \in TradeIds, NEW from, NEW to, NEW row \in Trade,
         row.handle = trades[t].handle, Transition(t, from, to, row)
  PROVE  NoneOpens
  <1>1. trades'[t] = [row EXCEPT !.state = to] /\ UNCHANGED listings
    BY DEF Transition, StoreTypeOK
  <1>2. \A x \in TradeIds \ {t} : trades'[x] = trades[x]
    BY DEF Transition, StoreTypeOK
  <1>3. trades'[t].handle = trades[t].handle /\ trades'[t].state = to
    BY <1>1 DEF Trade
  <1>4. trades[t].state \in ClosedStates \cup {"NONE"} => to = trades[t].state
    BY DEF Transition, CanTransitionTo, AllowedTransitions, ClosedStates
  <1> QED
    BY <1>1, <1>2, <1>3, <1>4 DEF NoneOpens, IsOpen

\* CreateListing finds no open trade of the handle.
LEMMA CreateKeepsExclusive ==
  ASSUME StoreTypeOK, ExclusiveInv, NEW h \in Handles, NEW s \in Users, CreateListing(h, s)
  PROVE  ExclusiveInv'
  <1>1. \A t \in TradeIds : IsOpen(t)' = IsOpen(t)
    BY DEF CreateListing, IsOpen
  <1>2. \A t \in TradeIds : IsOpen(t) => listings'[trades[t].handle] = listings[trades[t].handle]
    BY DEF CreateListing, StoreTypeOK, ExclusiveInv
  <1> QED
    BY <1>1, <1>2 DEF CreateListing, ExclusiveInv, ListingExclusive

\* ReserveListing finds the listing active, so no trade of the handle is open.
LEMMA ReserveKeepsExclusive ==
  ASSUME StoreTypeOK, ExclusiveInv, NEW t \in TradeIds, NEW h \in Handles, NEW b \in Users,
         ReserveListing(t, h, b)
  PROVE  ExclusiveInv'
  <1>1. trades'[t].handle = h /\ trades'[t].state = "RESERVED"
    BY DEF ReserveListing, Reservable, WriteReserved, StoreTypeOK, NewTrade
  <1>2. \A x \in TradeIds \ {t} : trades'[x] = trades[x]
    BY DEF ReserveListing, Reservable, WriteReserved, StoreTypeOK
  <1>3. listings[h].status = "active" /\ listings' = [listings EXCEPT ![h].status = "reserved"]
    BY DEF ReserveListing, Reservable, WriteReserved
  <1>4. \A x \in TradeIds : IsOpen(x) => trades[x].handle # h
    BY <1>3 DEF ExclusiveInv, ListingExclusive
  <1>5. listings'[h].status = "reserved"
    BY <1>3 DEF StoreTypeOK, Listing
  <1>6. \A x \in TradeIds : IsOpen(x) => listings'[trades[x].handle] = listings[trades[x].handle]
    BY <1>3, <1>4 DEF StoreTypeOK, ExclusiveInv
  <1>7. \A x \in TradeIds \ {t} : IsOpen(x)' = IsOpen(x)
    BY <1>2 DEF IsOpen
  <1> QED
    BY <1>1, <1>2, <1>4, <1>5, <1>6, <1>7 DEF ExclusiveInv, ListingExclusive

\* releaseUnpaidReservationTx closes the only open trade of the handle.
LEMMA ReleaseKeepsExclusive ==
  ASSUME StoreTypeOK, ExclusiveInv, NEW t \in TradeIds, NEW to \in {"CANCELED", "EXPIRED"},
         ReleaseUnpaid(t, to)
  PROVE  ExclusiveInv'
  <1>1. trades'[t].handle = trades[t].handle /\ trades'[t].state = to
    BY DEF ReleaseUnpaid, WriteReleased, StoreTypeOK, Trade
  <1>2. \A x \in TradeIds \ {t} : trades'[x] = trades[x]
    BY DEF ReleaseUnpaid, WriteReleased, StoreTypeOK
  <1>3. IsOpen(t) /\ ~IsOpen(t)'
    BY <1>1 DEF ReleaseUnpaid, Releasable, WriteReleased, IsUnpaid, UnpaidStates, IsOpen, ClosedStates
  <1>4. \A x \in TradeIds \ {t} : IsOpen(x) => trades[x].handle # trades[t].handle
    BY <1>3 DEF ExclusiveInv, ListingExclusive
  <1>5. \A x \in TradeIds \ {t} : IsOpen(x) => listings'[trades[x].handle] = listings[trades[x].handle]
    BY <1>4 DEF ReleaseUnpaid, WriteReleased, StoreTypeOK, ExclusiveInv
  <1>6. \A x \in TradeIds \ {t} : IsOpen(x)' = IsOpen(x)
    BY <1>2 DEF IsOpen
  <1> QED
    BY <1>1, <1>2, <1>3, <1>4, <1>5, <1>6 DEF ExclusiveInv, ListingExclusive

\* Marking an attempt opens nothing.
LEMMA MarkOpensNothing ==
  ASSUME StoreTypeOK, NEW t \in TradeIds, MarkPayoutAttempt(t) \/ MarkRefundAttempt(t)
  PROVE  NoneOpens
  <1>1. UNCHANGED listings
    BY DEF MarkPayoutAttempt, MarkRefundAttempt
  <1>2. \A x \in TradeIds : trades'[x].handle = trades[x].handle /\ trades'[x].state = trades[x].state
    BY DEF MarkPayoutAttempt, MarkRefundAttempt, StoreTypeOK, Trade
  <1> QED
    BY <1>1, <1>2 DEF NoneOpens, IsOpen

\* Steps that touch neither table.
LEMMA StoreUntouched ==
  ASSUME UNCHANGED storeVars PROVE NoneOpens
  BY DEF storeVars, NoneOpens, IsOpen

\* Every Transition the sweeps and handlers run keeps the handle of the row.
LEMMA TransitionsOpenNothing ==
  ASSUME TypeOK, NEW t \in TradeIds,
         \/ SubmitRelease(t) \/ SubmitClaim(t) \/ EWRecord \/ EWFinalize(t) \/ EWAdvance(t)
         \/ WalkHop(t) \/ FailHop(t) \/ FailAfterRelease(t) \/ BeginRefund(t)
         \/ FinishSettle(t) \/ FinishRefund(t)
  PROVE  NoneOpens
  <1>0. StoreTypeOK /\ trades[t] \in Trade
    BY DEF TypeOK, StoreTypeOK
  <1>1. CASE EWRecord
    <2> DEFINE r == ew.hit.trade
               row == [trades[r] EXCEPT !.depositHeight = ew.hit.height]
    <2>1. r \in TradeIds /\ ew.hit.height \in Nat
      BY <1>1 DEF EWRecord, TypeOK, DepositTx
    <2>2. trades[r] \in Trade
      BY <2>1 DEF TypeOK, StoreTypeOK
    <2>3. row \in Trade /\ row.handle = trades[r].handle
      <3> HIDE DEF r
      <3> QED
        BY <2>1, <2>2 DEF Trade
    <2>4. Transition(r, "AWAITING_DEPOSIT", "DEPOSIT_FINALIZING", row)
      BY <1>1 DEF EWRecord
    <2> HIDE DEF r, row
    <2> QED
      BY <1>0, <2>1, <2>3, <2>4, TransitionOpensNothing
  <1>2. CASE FinishSettle(t) \/ FinishRefund(t)
    <2>1. /\ [trades[t] EXCEPT !.payoutTx = TRUE] \in Trade
          /\ [trades[t] EXCEPT !.payoutTx = TRUE].handle = trades[t].handle
          /\ [trades[t] EXCEPT !.refundTx = TRUE] \in Trade
          /\ [trades[t] EXCEPT !.refundTx = TRUE].handle = trades[t].handle
      BY <1>0 DEF Trade
    <2> QED
      BY <1>0, <1>2, <2>1, TransitionOpensNothing DEF FinishSettle, FinishRefund
  <1>3. CASE SubmitRelease(t) \/ SubmitClaim(t) \/ EWFinalize(t) \/ EWAdvance(t)
    BY <1>0, <1>3, TransitionOpensNothing DEF SubmitRelease, SubmitClaim, EWFinalize, EWAdvance
  <1>4. CASE WalkHop(t) \/ FailHop(t) \/ FailAfterRelease(t) \/ BeginRefund(t)
    BY <1>0, <1>4, TransitionOpensNothing DEF WalkHop, FailHop, FailAfterRelease, BeginRefund
  <1> QED
    BY <1>1, <1>2, <1>3, <1>4

\* Nothing is open at the start.
LEMMA ExclusiveInit == Init => ExclusiveInv
  BY DEF Init, StoreInit, NoTrade, NewTrade, ExclusiveInv, ListingExclusive, IsOpen

\* The step that carries the induction.
LEMMA ExclusiveStep == TypeOK /\ ExclusiveInv /\ [Next]_vars => ExclusiveInv'
  <1> SUFFICES ASSUME TypeOK, ExclusiveInv, [Next]_vars PROVE ExclusiveInv'
    OBVIOUS
  <1>0. StoreTypeOK
    BY DEF TypeOK
  <1>1. CASE UNCHANGED storeVars
    BY <1>1, StoreUntouched, NoneOpensKeepsExclusive
  <1>2. CASE Handlers
    <2>1. ASSUME NEW h \in Handles, NEW s \in Users, List(h, s) PROVE ExclusiveInv'
      BY <1>0, <2>1, CreateKeepsExclusive DEF List
    <2>2. ASSUME NEW t \in TradeIds, NEW h \in Handles, NEW b \in Users, Reserve(t, h, b)
          PROVE  ExclusiveInv'
      BY <1>0, <2>2, ReserveKeepsExclusive DEF Reserve
    <2>3. ASSUME NEW t \in TradeIds, FinishReserve(t) PROVE ExclusiveInv'
      <3>1. CASE UNCHANGED storeVars
        BY <3>1, StoreUntouched, NoneOpensKeepsExclusive
      <3>2. CASE Transition(t, "RESERVED", "AWAITING_DEPOSIT", trades[t])
        BY <1>0, <3>2, TransitionOpensNothing, NoneOpensKeepsExclusive DEF StoreTypeOK
      <3> QED
        BY <2>3, <3>1, <3>2 DEF FinishReserve
    <2>4. ASSUME NEW t \in TradeIds, Cancel(t) \/ Expire(t) PROVE ExclusiveInv'
      BY <1>0, <2>4, ReleaseKeepsExclusive DEF Cancel, Expire
    <2>5. ASSUME NEW t \in TradeIds, SubmitRelease(t) \/ SubmitClaim(t) PROVE ExclusiveInv'
      BY <2>5, TransitionsOpenNothing, NoneOpensKeepsExclusive
    <2> QED
      BY <1>2, <2>1, <2>2, <2>3, <2>4, <2>5 DEF Handlers
  <1>3. ASSUME NEW t \in TradeIds, MarkPayout(t) \/ MarkRefund(t) PROVE ExclusiveInv'
    BY <1>0, <1>3, MarkOpensNothing, NoneOpensKeepsExclusive DEF MarkPayout, MarkRefund
  <1>4. ASSUME NEW t \in TradeIds,
               \/ EWFinalize(t) \/ EWAdvance(t)
               \/ WalkHop(t) \/ FailHop(t) \/ FailAfterRelease(t) \/ BeginRefund(t)
               \/ FinishSettle(t) \/ FinishRefund(t)
        PROVE  ExclusiveInv'
    BY <1>4, TransitionsOpenNothing, NoneOpensKeepsExclusive
  <1>5. CASE EWRecord
    <2>1. ew.hit.trade \in TradeIds
      BY <1>5 DEF EWRecord, TypeOK, DepositTx
    <2> QED
      BY <1>5, <2>1, TransitionsOpenNothing, NoneOpensKeepsExclusive
  <1>6. CASE Chain \/ RegistrySync \/ Failures \/ UNCHANGED vars
    BY <1>1, <1>6 DEF Chain, SendDeposit, ClaimOnChain, ReleaseOnChain, MacroBlock, Reorg,
       RegistrySync, Failures, EWAbort, EWUnread, OWUnread, OWGiveUp, OWAbort, Crash, vars
  <1>7. CASE EWStep
    BY <1>1, <1>4, <1>5, <1>7 DEF EWStep, EWFetch, EWMacro, EWRaced, EWMatchDone, EWFinalizeDone,
       EWEnd, EWSkip, EWMatch
  <1>8. CASE OWStep
    <2>1. ASSUME NEW t \in TradeIds, Settle(t) \/ Refund(t) PROVE ExclusiveInv'
      BY <1>1, <1>3, <1>4, <2>1 DEF Settle, Refund, SendPayout, AppendPayout, AppendFee,
         SendRefund, AppendRefund
    <2>2. ASSUME NEW t \in TradeIds,
                 \/ OWBuyerOwns(t) \/ OWOtherOwns(t) \/ OWSkip(t)
                 \/ WalkRead(t) \/ WalkDone(t) \/ HopRaced(t) \/ FailRead(t)
          PROVE  ExclusiveInv'
      BY <1>1, <2>2 DEF OWBuyerOwns, OWOtherOwns, OWSkip, Visit, WalkRead, WalkDone, HopRaced, FailRead
    <2>3. CASE OWStart \/ OWEnd
      BY <1>1, <2>3 DEF OWStart, OWEnd
    <2> QED
      BY <1>4, <1>8, <2>1, <2>2, <2>3 DEF OWStep
  <1> QED
    BY <1>2, <1>6, <1>7, <1>8 DEF Next

\* While a trade is open its listing is reserved for it alone, for any number
\* of handles and trades and any interleaving of handlers and sweeps.
THEOREM ListingStaysExclusive == Spec => []ListingExclusive
  <1>1. ExclusiveInv => ListingExclusive
    BY DEF ExclusiveInv
  <1> QED
    BY <1>1, TypeCorrect, ExclusiveInit, ExclusiveStep, PTL DEF Spec

-----------------------------------------------------------------------------
(***************************************************************************)
(* Escrow implements EscrowPromise: every step of the sweeps, handlers,    *)
(* chain and failures maps to a step of the promise or a stutter.          *)
(***************************************************************************)
\* The refinement mapping of Escrow's INSTANCE, named.
phaseMap == [t \in TradeIds |-> PhaseOf(trades[t].state)]
movedMap == [t \in TradeIds |-> MovedTo(sends[t])]

\* The phase of each state, spelled out.
LEMMA PhaseTable ==
  /\ PhaseOf("NONE") = "none"
  /\ PhaseOf("RESERVED") = "unpaid" /\ PhaseOf("AWAITING_DEPOSIT") = "unpaid"
  /\ PhaseOf("EXPIRED") = "void" /\ PhaseOf("CANCELED") = "void"
  /\ PhaseOf("DEPOSIT_FINALIZING") = "held" /\ PhaseOf("FUNDED") = "held"
  /\ PhaseOf("AWAITING_RELEASE") = "held" /\ PhaseOf("RELEASE_CONFIRMING") = "held"
  /\ PhaseOf("AWAITING_CLAIM") = "held" /\ PhaseOf("CLAIM_CONFIRMING") = "held"
  /\ PhaseOf("SETTLEMENT_PENDING") = "payout" /\ PhaseOf("SETTLED") = "paid"
  /\ PhaseOf("FAILED_AFTER_RELEASE") = "refund" /\ PhaseOf("REFUND_PENDING") = "refund"
  /\ PhaseOf("REFUNDED") = "refunded"
  BY DEF PhaseOf, UnpaidStates

\* Who has the money after nothing, a payout or a refund was sent.
LEMMA MovedTable ==
  /\ MovedTo([payout |-> 0, refund |-> 0]) = "nobody"
  /\ MovedTo([payout |-> 1, refund |-> 0]) = "seller"
  /\ MovedTo([payout |-> 0, refund |-> 1]) = "buyer"
  BY DEF MovedTo

\* Only the state of trade t changes.
StateMoves(t, from, to) ==
  /\ trades[t].state = from /\ trades'[t].state = to
  /\ \A x \in TradeIds \ {t} : trades'[x].state = trades[x].state
  /\ UNCHANGED sends

\* Steps that change no state and send nothing stutter.
LEMMA SameStatesStutter ==
  ASSUME \A x \in TradeIds : trades'[x].state = trades[x].state, UNCHANGED sends
  PROVE  UNCHANGED Promise!promiseVars
  BY DEF Promise!promiseVars

\* A move within a phase stutters.
LEMMA SamePhaseStutters ==
  ASSUME NEW t \in TradeIds, NEW from, NEW to, StateMoves(t, from, to), PhaseOf(from) = PhaseOf(to)
  PROVE  UNCHANGED Promise!promiseVars
  BY DEF Promise!promiseVars, StateMoves

\* A move between phases is the promise's Advance.
LEMMA PhaseAdvances ==
  ASSUME NEW t \in TradeIds, NEW from, NEW to, StateMoves(t, from, to)
  PROVE  Promise!Advance(t, PhaseOf(from), PhaseOf(to))
  <1>1. phaseMap' = [phaseMap EXCEPT ![t] = PhaseOf(to)]
    BY DEF phaseMap, StateMoves
  <1> QED
    BY <1>1 DEF Promise!Advance, StateMoves, phaseMap

\* Transition moves the state of its trade only.
LEMMA TransitionMoves ==
  ASSUME StoreTypeOK, NEW t \in TradeIds, NEW from, NEW to, NEW row \in Trade,
         Transition(t, from, to, row), UNCHANGED sends
  PROVE  StateMoves(t, from, to)
  BY DEF StateMoves, Transition, StoreTypeOK, Trade

\* So does the release of an unpaid reservation.
LEMMA ReleaseMoves ==
  ASSUME StoreTypeOK, NEW t \in TradeIds, NEW to, ReleaseUnpaid(t, to), UNCHANGED sends
  PROVE  trades[t].state \in UnpaidStates /\ StateMoves(t, trades[t].state, to)
  BY DEF StateMoves, ReleaseUnpaid, Releasable, WriteReleased, IsUnpaid, StoreTypeOK, Trade

\* The initial states map to the promise's.
LEMMA PromiseHoldsInitially == Init => Promise!PromiseInit
  <1> SUFFICES ASSUME Init PROVE Promise!PromiseInit
    OBVIOUS
  <1>1. \A t \in TradeIds : trades[t].state = "NONE" /\ sends[t] = [payout |-> 0, refund |-> 0]
    BY DEF Init, StoreInit, NoTrade, NewTrade, NoSends
  <1> QED
    BY <1>1, PhaseTable, MovedTable DEF Promise!PromiseInit

\* Handlers open and lapse reservations.
LEMMA HandlersKeepPromise ==
  TypeOK /\ Handlers => Promise!PromiseNext \/ UNCHANGED Promise!promiseVars
  <1> SUFFICES ASSUME TypeOK, Handlers
               PROVE  Promise!PromiseNext \/ UNCHANGED Promise!promiseVars
    OBVIOUS
  <1>0. StoreTypeOK /\ \A t \in TradeIds : trades[t] \in Trade
    BY DEF TypeOK, StoreTypeOK
  <1>1. ASSUME NEW h \in Handles, NEW s \in Users, List(h, s) PROVE UNCHANGED Promise!promiseVars
    BY <1>1, SameStatesStutter DEF List, CreateListing
  <1>2. ASSUME NEW t \in TradeIds, NEW h \in Handles, NEW b \in Users, Reserve(t, h, b)
        PROVE  Promise!Open(t)
    <2>1. StateMoves(t, "NONE", "RESERVED")
      BY <1>0, <1>2 DEF Reserve, ReserveListing, Reservable, WriteReserved, NewTrade, StateMoves, StoreTypeOK
    <2> QED
      BY <2>1, PhaseAdvances, PhaseTable DEF Promise!Open
  <1>3. ASSUME NEW t \in TradeIds, FinishReserve(t) PROVE UNCHANGED Promise!promiseVars
    <2>1. CASE Transition(t, "RESERVED", "AWAITING_DEPOSIT", trades[t])
      <3>1. StateMoves(t, "RESERVED", "AWAITING_DEPOSIT")
        BY <1>0, <1>3, <2>1, TransitionMoves DEF FinishReserve
      <3> QED
        BY <3>1, SamePhaseStutters, PhaseTable
    <2>2. CASE UNCHANGED storeVars
      BY <1>3, <2>2, SameStatesStutter DEF FinishReserve, storeVars
    <2> QED
      BY <1>3, <2>1, <2>2 DEF FinishReserve
  <1>4. ASSUME NEW t \in TradeIds, Cancel(t) \/ Expire(t) PROVE Promise!Lapse(t)
    <2>1. \E to \in {"CANCELED", "EXPIRED"} :
            trades[t].state \in UnpaidStates /\ StateMoves(t, trades[t].state, to)
      BY <1>0, <1>4, ReleaseMoves DEF Cancel, Expire
    <2> QED
      BY <2>1, PhaseAdvances, PhaseTable DEF Promise!Lapse, UnpaidStates
  <1>5. ASSUME NEW t \in TradeIds, SubmitRelease(t) \/ SubmitClaim(t)
        PROVE  UNCHANGED Promise!promiseVars
    <2>1. \/ StateMoves(t, "AWAITING_RELEASE", "RELEASE_CONFIRMING")
          \/ StateMoves(t, "AWAITING_CLAIM", "CLAIM_CONFIRMING")
      BY <1>0, <1>5, TransitionMoves DEF SubmitRelease, SubmitClaim
    <2> QED
      BY <2>1, SamePhaseStutters, PhaseTable
  <1> QED
    BY <1>1, <1>2, <1>3, <1>4, <1>5 DEF Handlers, Promise!PromiseNext

\* The escrow watcher receives the money of an unpaid trade.
LEMMA EWKeepsPromise ==
  TypeOK /\ EWStep => Promise!PromiseNext \/ UNCHANGED Promise!promiseVars
  <1> SUFFICES ASSUME TypeOK, EWStep
               PROVE  Promise!PromiseNext \/ UNCHANGED Promise!promiseVars
    OBVIOUS
  <1>0. StoreTypeOK /\ \A t \in TradeIds : trades[t] \in Trade
    BY DEF TypeOK, StoreTypeOK
  <1>1. CASE UNCHANGED << storeVars, sends >>
    BY <1>1, SameStatesStutter DEF storeVars
  <1>2. CASE EWRecord
    <2> DEFINE r == ew.hit.trade
               row == [trades[r] EXCEPT !.depositHeight = ew.hit.height]
    <2>1. r \in TradeIds /\ ew.hit.height \in Nat
      BY <1>2 DEF EWRecord, TypeOK, DepositTx
    <2>2. trades[r] \in Trade
      BY <1>0, <2>1
    <2>3. row \in Trade
      <3> HIDE DEF r
      <3> QED
        BY <2>1, <2>2 DEF Trade
    <2>4. Transition(r, "AWAITING_DEPOSIT", "DEPOSIT_FINALIZING", row) /\ UNCHANGED sends
      BY <1>2 DEF EWRecord, ewFrame
    <2> HIDE DEF r, row
    <2>5. StateMoves(r, "AWAITING_DEPOSIT", "DEPOSIT_FINALIZING")
      BY <1>0, <2>1, <2>3, <2>4, TransitionMoves
    <2>6. Promise!Receive(r)
      BY <2>1, <2>5, PhaseAdvances, PhaseTable DEF Promise!Receive
    <2> QED
      BY <2>1, <2>6 DEF Promise!PromiseNext
  <1>3. ASSUME NEW t \in TradeIds, EWFinalize(t) \/ EWAdvance(t)
        PROVE  UNCHANGED Promise!promiseVars
    <2>1. \/ StateMoves(t, "DEPOSIT_FINALIZING", "FUNDED")
          \/ StateMoves(t, "FUNDED", "AWAITING_RELEASE")
      BY <1>0, <1>3, TransitionMoves DEF EWFinalize, EWAdvance, ewFrame
    <2> QED
      BY <2>1, SamePhaseStutters, PhaseTable
  <1> QED
    BY <1>1, <1>2, <1>3 DEF EWStep, EWFetch, EWMacro, EWRaced, EWMatchDone, EWFinalizeDone,
       EWEnd, EWSkip, EWMatch, ewFrame

\* The ownership watcher promises the money to one side, once.
LEMMA DecidingKeepsPromise ==
  ASSUME TypeOK, NEW t \in TradeIds,
         WalkHop(t) \/ FailHop(t) \/ FailAfterRelease(t) \/ BeginRefund(t)
  PROVE  Promise!PromiseNext \/ UNCHANGED Promise!promiseVars
  <1>0. StoreTypeOK /\ trades[t] \in Trade
    BY DEF TypeOK, StoreTypeOK
  <1>1. CASE WalkHop(t)
    <2>1. StateMoves(t, ow.seen, NextInChain(ow.seen))
      BY <1>0, <1>1, TransitionMoves DEF WalkHop
    <2>2. PhaseOf(ow.seen) = "held" /\ PhaseOf(NextInChain(ow.seen)) \in {"held", "payout"}
      BY <1>1, HopStaysInChain, SweptStatesAre, PhaseTable DEF WalkHop
    <2>3. CASE PhaseOf(NextInChain(ow.seen)) = "held"
      BY <2>1, <2>2, <2>3, SamePhaseStutters
    <2>4. CASE PhaseOf(NextInChain(ow.seen)) = "payout"
      <3>1. Promise!PromisePay(t)
        BY <2>1, <2>2, <2>4, PhaseAdvances DEF Promise!PromisePay
      <3> QED
        BY <3>1 DEF Promise!PromiseNext
    <2> QED
      BY <2>2, <2>3, <2>4
  <1>2. CASE FailHop(t)
    <2>1. StateMoves(t, "AWAITING_RELEASE", "RELEASE_CONFIRMING")
      BY <1>0, <1>2, TransitionMoves DEF FailHop
    <2> QED
      BY <2>1, SamePhaseStutters, PhaseTable
  <1>3. CASE FailAfterRelease(t)
    <2>1. StateMoves(t, ow.seen, "FAILED_AFTER_RELEASE")
      BY <1>0, <1>3, TransitionMoves DEF FailAfterRelease
    <2>2. PhaseOf(ow.seen) \in {"held", "refund"} /\ PhaseOf("FAILED_AFTER_RELEASE") = "refund"
      BY <1>3, FailureSources, PhaseTable DEF FailAfterRelease, Transition
    <2>3. CASE PhaseOf(ow.seen) = "refund"
      BY <2>1, <2>2, <2>3, SamePhaseStutters
    <2>4. CASE PhaseOf(ow.seen) = "held"
      <3>1. Promise!PromiseBack(t)
        BY <2>1, <2>2, <2>4, PhaseAdvances DEF Promise!PromiseBack
      <3> QED
        BY <3>1 DEF Promise!PromiseNext
    <2> QED
      BY <2>2, <2>3, <2>4
  <1>4. CASE BeginRefund(t)
    <2>1. StateMoves(t, "FAILED_AFTER_RELEASE", "REFUND_PENDING")
      BY <1>0, <1>4, TransitionMoves DEF BeginRefund
    <2> QED
      BY <2>1, SamePhaseStutters, PhaseTable
  <1> QED
    BY <1>1, <1>2, <1>3, <1>4

\* What the signer broadcasts goes where the promise says, and has not gone yet.
LEMMA SendingKeepsPromise ==
  ASSUME TypeOK, MoneyInv, NEW t \in TradeIds, SendPayout(t) \/ SendRefund(t)
  PROVE  Promise!PromiseNext \/ UNCHANGED Promise!promiseVars
  <1>0. WorkerInv(t) /\ sends \in [TradeIds -> [payout : Nat, refund : Nat]]
    BY DEF MoneyInv, TypeOK
  <1>1. UNCHANGED trades
    BY DEF SendPayout, SendRefund, storeVars
  <1>2. CASE UNCHANGED sends
    BY <1>1, <1>2, SameStatesStutter
  <1>3. CASE SendPayout(t) /\ sends' = [sends EXCEPT ![t].payout = @ + 1]
    <2>1. trades[t].state = "SETTLEMENT_PENDING" /\ sends[t] = [payout |-> 0, refund |-> 0]
      BY <1>0, <1>3 DEF SendPayout, WorkerInv, Settling, Sent
    <2>2. sends'[t] = [payout |-> 1, refund |-> 0]
      BY <1>0, <1>3, <2>1
    <2>3. \A x \in TradeIds \ {t} : sends'[x] = sends[x]
      BY <1>0, <1>3
    <2>4. movedMap' = [movedMap EXCEPT ![t] = "seller"]
      BY <2>2, <2>3, MovedTable DEF movedMap
    <2>5. Promise!PaySeller(t)
      BY <1>1, <2>1, <2>4, PhaseTable, MovedTable DEF Promise!PaySeller, Promise!Pay, movedMap
    <2> QED
      BY <2>5 DEF Promise!PromiseNext
  <1>4. CASE SendRefund(t) /\ sends' = [sends EXCEPT ![t].refund = @ + 1]
    <2>1. trades[t].state = "REFUND_PENDING" /\ sends[t] = [payout |-> 0, refund |-> 0]
      BY <1>0, <1>4 DEF SendRefund, WorkerInv, Refunding, Sent
    <2>2. sends'[t] = [payout |-> 0, refund |-> 1]
      BY <1>0, <1>4, <2>1
    <2>3. \A x \in TradeIds \ {t} : sends'[x] = sends[x]
      BY <1>0, <1>4
    <2>4. movedMap' = [movedMap EXCEPT ![t] = "buyer"]
      BY <2>2, <2>3, MovedTable DEF movedMap
    <2>5. Promise!PayBuyer(t)
      BY <1>1, <2>1, <2>4, PhaseTable, MovedTable DEF Promise!PayBuyer, Promise!Pay, movedMap
    <2> QED
      BY <2>5 DEF Promise!PromiseNext
  <1> QED
    BY <1>2, <1>3, <1>4 DEF SendPayout, SendRefund

\* A trade is closed only when its money has left.
LEMMA ClosingKeepsPromise ==
  ASSUME TypeOK, MoneyInv, NEW t \in TradeIds, FinishSettle(t) \/ FinishRefund(t)
  PROVE  Promise!PromiseNext
  <1>0. StoreTypeOK /\ trades[t] \in Trade /\ WorkerInv(t)
    BY DEF TypeOK, StoreTypeOK, MoneyInv
  <1>1. [trades[t] EXCEPT !.payoutTx = TRUE] \in Trade /\ [trades[t] EXCEPT !.refundTx = TRUE] \in Trade
    BY <1>0 DEF Trade
  <1>2. CASE FinishSettle(t)
    <2>1. StateMoves(t, "SETTLEMENT_PENDING", "SETTLED")
      BY <1>0, <1>1, <1>2, TransitionMoves DEF FinishSettle
    <2>2. sends[t] = [payout |-> 1, refund |-> 0]
      BY <1>0, <1>2 DEF FinishSettle, WorkerInv, Sent
    <2>3. Promise!ClosePaid(t)
      BY <2>1, <2>2, PhaseAdvances, PhaseTable, MovedTable DEF Promise!ClosePaid
    <2> QED
      BY <2>3 DEF Promise!PromiseNext
  <1>3. CASE FinishRefund(t)
    <2>1. StateMoves(t, "REFUND_PENDING", "REFUNDED")
      BY <1>0, <1>1, <1>3, TransitionMoves DEF FinishRefund
    <2>2. sends[t] = [payout |-> 0, refund |-> 1]
      BY <1>0, <1>3 DEF FinishRefund, WorkerInv, Sent
    <2>3. Promise!CloseRefund(t)
      BY <2>1, <2>2, PhaseAdvances, PhaseTable, MovedTable DEF Promise!CloseRefund
    <2> QED
      BY <2>3 DEF Promise!PromiseNext
  <1> QED
    BY <1>2, <1>3

\* Writing a marker moves nothing.
LEMMA MarkingStutters ==
  ASSUME TypeOK, NEW t \in TradeIds, MarkPayout(t) \/ MarkRefund(t)
  PROVE  UNCHANGED Promise!promiseVars
  <1>1. \A x \in TradeIds : trades'[x].state = trades[x].state
    BY DEF MarkPayout, MarkRefund, MarkPayoutAttempt, MarkRefundAttempt, TypeOK, StoreTypeOK, Trade
  <1> QED
    BY <1>1, SameStatesStutter DEF MarkPayout, MarkRefund

\* Every step maps to a step of the promise or a stutter.
LEMMA PromiseStep ==
  TypeOK /\ MoneyInv /\ [Next]_vars => [Promise!PromiseNext]_(Promise!promiseVars)
  <1> SUFFICES ASSUME TypeOK, MoneyInv, [Next]_vars
               PROVE  Promise!PromiseNext \/ UNCHANGED Promise!promiseVars
    OBVIOUS
  <1>1. CASE UNCHANGED << storeVars, sends >>
    BY <1>1, SameStatesStutter DEF storeVars
  <1>2. CASE Chain \/ RegistrySync \/ Failures \/ UNCHANGED vars
    BY <1>1, <1>2 DEF Chain, SendDeposit, ClaimOnChain, ReleaseOnChain, MacroBlock, Reorg,
       RegistrySync, Failures, EWAbort, EWUnread, ewFrame, OWUnread, OWGiveUp, OWAbort, Crash, vars
  <1>3. CASE Handlers
    BY <1>3, HandlersKeepPromise
  <1>4. CASE EWStep
    BY <1>4, EWKeepsPromise
  <1>5. CASE OWStep
    <2>1. ASSUME NEW t \in TradeIds, Settle(t) \/ Refund(t)
          PROVE  Promise!PromiseNext \/ UNCHANGED Promise!promiseVars
      BY <1>1, <2>1, MarkingStutters, SendingKeepsPromise, ClosingKeepsPromise
         DEF Settle, Refund, AppendPayout, AppendFee, AppendRefund
    <2>2. ASSUME NEW t \in TradeIds,
                 \/ OWBuyerOwns(t) \/ OWOtherOwns(t) \/ OWSkip(t)
                 \/ WalkRead(t) \/ WalkDone(t) \/ HopRaced(t) \/ FailRead(t)
          PROVE  UNCHANGED Promise!promiseVars
      <3>1. UNCHANGED << storeVars, sends >>
        BY <2>2 DEF OWBuyerOwns, OWOtherOwns, OWSkip, Visit, WalkRead, WalkDone, HopRaced, FailRead
      <3> QED
        BY <3>1, SameStatesStutter DEF storeVars
    <2>3. CASE OWStart \/ OWEnd
      BY <1>1, <2>3 DEF OWStart, OWEnd
    <2>4. ASSUME NEW t \in TradeIds,
                 WalkHop(t) \/ FailHop(t) \/ FailAfterRelease(t) \/ BeginRefund(t)
          PROVE  Promise!PromiseNext \/ UNCHANGED Promise!promiseVars
      BY <2>4, DecidingKeepsPromise
    <2> QED
      BY <1>5, <2>1, <2>2, <2>3, <2>4 DEF OWStep
  <1> QED
    BY <1>2, <1>3, <1>4, <1>5 DEF Next

\* The escrow implements the promise: money held is promised once, leaves once
\* and in that direction, and only then is the trade closed.
THEOREM EscrowKeepsPromise == Spec => ImplementsPromise
  <1>1. Init => Promise!PromiseInit
    BY PromiseHoldsInitially
  <1> QED
    BY <1>1, PromiseStep, TypeCorrect, MoneyCorrect, PTL
       DEF Spec, ImplementsPromise, Promise!PromiseSpec

-----------------------------------------------------------------------------
(***************************************************************************)
(* What deposits and decisions rest on, as long as no block has been       *)
(* replaced: the history the watchers act on is past, but not undone.      *)
(***************************************************************************)
FundedStates == HeldStates \ {"DEPOSIT_FINALIZING"}

\* A deposit was seen, whether or not its money has left again.
PaidStates == HeldStates \cup {"SETTLED", "REFUNDED"}

\* The deposit a trade may be called funded for.
Pays(d, t) == d \in deposits /\ d.trade = t /\ d.value = Price /\ d.sender = trades[t].buyer

\* The sweeps hold transactions that are on the chain and macro heights that were.
WatchersSaw ==
  /\ ew.txs \subseteq deposits
  /\ ew.macro <= macro /\ ow.macro <= macro
  /\ ew.pc = "record" => trades[ew.hit.trade].state # "NONE" /\ Pays(ew.hit, ew.hit.trade)

\* A paid trade was paid at the height it has recorded, a funded one finally.
DepositInv ==
  \A t \in TradeIds :
    /\ trades[t].state \in PaidStates =>
         \E d \in deposits : Pays(d, t) /\ d.height = trades[t].depositHeight
    /\ trades[t].state \in FundedStates => trades[t].depositHeight <= macro

\* What the registry gives to a wallet, the chain has given to it.
Claimed(h, c) == [handle |-> h, owner |-> c.owner, height |-> c.height] \in claims

ClaimsInv ==
  \A h \in Handles :
    /\ head[h].owner # None => head[h].owner \in Users /\ Claimed(h, head[h])
    /\ registry[h].owner \in Users => Claimed(h, registry[h])
    /\ ~LookupMayFail => registry[h].owner \in Users \cup {None}

\* The worker pays for what the chain has finally decided.
Bought(t) == trades[t].state # "NONE" /\ FinalClaim(trades[t].handle, trades[t].buyer)
Lost(t) ==
  /\ trades[t].state # "NONE"
  /\ \E u \in Users \ {trades[t].buyer, trades[t].seller} : FinalClaim(trades[t].handle, u)

Paying(t) == ow.trade = t /\ ow.pc \in SettlePc
Returning(t) == ow.trade = t /\ ow.pc \in RefundPc

DecisionInv ==
  \A t \in TradeIds :
    /\ Paying(t) \/ sends[t].payout > 0 => Bought(t)
    /\ ~LookupMayFail => (Returning(t) \/ sends[t].refund > 0 => Lost(t))

EvidenceInv == reorgs = 0 => WatchersSaw /\ DepositInv /\ ClaimsInv /\ DecisionInv

\* A row that exists stays about the same handle and parties.
Same(t) ==
  trades[t].state # "NONE" =>
    /\ trades'[t].state # "NONE"
    /\ trades'[t].handle = trades[t].handle
    /\ trades'[t].buyer = trades[t].buyer /\ trades'[t].seller = trades[t].seller

SameDeposit(t) ==
  /\ trades'[t].state \in PaidStates =>
       trades[t].state \in PaidStates /\ trades'[t].depositHeight = trades[t].depositHeight
  /\ trades'[t].state \in FundedStates => trades[t].state \in FundedStates

\* A step that records no deposit and calls none final.
Ordinary == \A t \in TradeIds : Same(t) /\ SameDeposit(t)

\* Transition between two states on the same side of the deposit.
LEMMA TransitionIsOrdinary ==
  ASSUME StoreTypeOK, NEW t \in TradeIds, NEW from, NEW to, NEW row \in Trade, Transition(t, from, to, row),
         row.handle = trades[t].handle, row.buyer = trades[t].buyer, row.seller = trades[t].seller,
         row.depositHeight = trades[t].depositHeight, to # "NONE",
         to \in PaidStates => from \in PaidStates, to \in FundedStates => from \in FundedStates
  PROVE  Ordinary
  <1>1. trades'[t] = [row EXCEPT !.state = to] /\ trades[t].state = from
    BY DEF Transition, StoreTypeOK
  <1>2. \A x \in TradeIds \ {t} : trades'[x] = trades[x]
    BY DEF Transition, StoreTypeOK
  <1>3. /\ trades'[t].state = to /\ trades'[t].depositHeight = trades[t].depositHeight
        /\ trades'[t].handle = trades[t].handle
        /\ trades'[t].buyer = trades[t].buyer /\ trades'[t].seller = trades[t].seller
    BY <1>1 DEF Trade
  <1> QED
    BY <1>1, <1>2, <1>3 DEF Ordinary, Same, SameDeposit

\* A step that writes no trade.
LEMMA FrameIsOrdinary ==
  ASSUME UNCHANGED trades PROVE Ordinary
  BY DEF Ordinary, Same, SameDeposit

\* What a transition of the sweeps and handlers does to the deposit of its trade.
LEMMA TransitionsAreOrdinary ==
  ASSUME TypeOK, NEW t \in TradeIds,
         \/ SubmitRelease(t) \/ SubmitClaim(t) \/ EWAdvance(t)
         \/ WalkHop(t) \/ FailHop(t) \/ FailAfterRelease(t) \/ BeginRefund(t)
         \/ FinishSettle(t) \/ FinishRefund(t)
  PROVE  Ordinary
  <1>0. StoreTypeOK /\ trades[t] \in Trade
    BY DEF TypeOK, StoreTypeOK
  <1> USE DEF HeldStates, FundedStates, PaidStates
  <1>1. CASE SubmitRelease(t) \/ SubmitClaim(t)
    BY <1>0, <1>1, TransitionIsOrdinary DEF SubmitRelease, SubmitClaim
  <1>2. CASE EWAdvance(t) \/ FailHop(t) \/ BeginRefund(t)
    BY <1>0, <1>2, TransitionIsOrdinary DEF EWAdvance, FailHop, BeginRefund
  <1>3. CASE WalkHop(t)
    <2>1. ow.seen \in FundedStates /\ NextInChain(ow.seen) \in FundedStates
      BY <1>3, HopStaysInChain, SweptStatesAre DEF WalkHop
    <2> QED
      BY <1>0, <1>3, <2>1, TransitionIsOrdinary DEF WalkHop
  <1>4. CASE FailAfterRelease(t)
    <2>1. ow.seen \in FundedStates
      BY <1>4, FailureSources DEF FailAfterRelease, Transition
    <2> QED
      BY <1>0, <1>4, <2>1, TransitionIsOrdinary DEF FailAfterRelease
  <1>5. CASE FinishSettle(t) \/ FinishRefund(t)
    <2>1. \A row \in {[trades[t] EXCEPT !.payoutTx = TRUE], [trades[t] EXCEPT !.refundTx = TRUE]} :
            /\ row \in Trade
            /\ row.handle = trades[t].handle /\ row.buyer = trades[t].buyer
            /\ row.seller = trades[t].seller /\ row.depositHeight = trades[t].depositHeight
      BY <1>0 DEF Trade
    <2> QED
      BY <1>0, <1>5, <2>1, TransitionIsOrdinary DEF FinishSettle, FinishRefund
  <1> QED
    BY <1>1, <1>2, <1>3, <1>4, <1>5

\* Handlers and the expiry sweep.
LEMMA HandlersAreOrdinary == TypeOK /\ Handlers => Ordinary
  <1> SUFFICES ASSUME TypeOK, Handlers PROVE Ordinary
    OBVIOUS
  <1>0. StoreTypeOK /\ \A t \in TradeIds : trades[t] \in Trade
    BY DEF TypeOK, StoreTypeOK
  <1>1. ASSUME NEW h \in Handles, NEW s \in Users, List(h, s) PROVE Ordinary
    BY <1>1, FrameIsOrdinary DEF List, CreateListing
  <1>2. ASSUME NEW t \in TradeIds, NEW h \in Handles, NEW b \in Users, Reserve(t, h, b)
        PROVE  Ordinary
    <2>1. /\ trades[t].state = "NONE" /\ trades'[t].state = "RESERVED"
          /\ \A x \in TradeIds \ {t} : trades'[x] = trades[x]
      BY <1>0, <1>2 DEF Reserve, ReserveListing, Reservable, WriteReserved, NewTrade, StoreTypeOK
    <2> QED
      BY <2>1 DEF Ordinary, Same, SameDeposit, HeldStates, FundedStates, PaidStates
  <1>3. ASSUME NEW t \in TradeIds, FinishReserve(t) PROVE Ordinary
    <2>1. CASE Transition(t, "RESERVED", "AWAITING_DEPOSIT", trades[t])
      BY <1>0, <2>1, TransitionIsOrdinary DEF HeldStates, FundedStates, PaidStates
    <2>2. CASE UNCHANGED storeVars
      BY <2>2, FrameIsOrdinary DEF storeVars
    <2> QED
      BY <1>3, <2>1, <2>2 DEF FinishReserve
  <1>4. ASSUME NEW t \in TradeIds, Cancel(t) \/ Expire(t) PROVE Ordinary
    <2>1. PICK to \in {"CANCELED", "EXPIRED"} : trades' = [trades EXCEPT ![t].state = to]
      BY <1>4 DEF Cancel, Expire, ReleaseUnpaid, WriteReleased
    <2>2. /\ trades'[t].state = to
          /\ trades'[t].handle = trades[t].handle
          /\ trades'[t].buyer = trades[t].buyer /\ trades'[t].seller = trades[t].seller
          /\ \A x \in TradeIds \ {t} : trades'[x] = trades[x]
      BY <1>0, <2>1 DEF StoreTypeOK, Trade
    <2> QED
      BY <2>2 DEF Ordinary, Same, SameDeposit, HeldStates, FundedStates, PaidStates
  <1>5. ASSUME NEW t \in TradeIds, SubmitRelease(t) \/ SubmitClaim(t) PROVE Ordinary
    BY <1>5, TransitionsAreOrdinary
  <1> QED
    BY <1>1, <1>2, <1>3, <1>4, <1>5 DEF Handlers

\* Writing a marker.
LEMMA MarksAreOrdinary ==
  ASSUME TypeOK, NEW t \in TradeIds, MarkPayout(t) \/ MarkRefund(t)
  PROVE  Ordinary
  <1>1. trades \in [TradeIds -> Trade]
    BY DEF TypeOK, StoreTypeOK
  <1>2. PICK row \in {[trades[t] EXCEPT !.payoutAttempted = TRUE], [trades[t] EXCEPT !.refundAttempted = TRUE]} :
          trades' = [trades EXCEPT ![t] = row]
    BY DEF MarkPayout, MarkRefund, MarkPayoutAttempt, MarkRefundAttempt
  <1>3. /\ row.state = trades[t].state /\ row.handle = trades[t].handle
        /\ row.buyer = trades[t].buyer /\ row.seller = trades[t].seller
        /\ row.depositHeight = trades[t].depositHeight
    BY <1>1, <1>2 DEF Trade
  <1>4. \A x \in TradeIds : trades'[x] = IF x = t THEN row ELSE trades[x]
    BY <1>1, <1>2
  <1> QED
    BY <1>3, <1>4 DEF Ordinary, Same, SameDeposit

\* Every step but two is ordinary.
LEMMA MostStepsAreOrdinary ==
  ASSUME TypeOK, [Next]_vars
  PROVE  Ordinary \/ EWRecord \/ \E t \in TradeIds : EWFinalize(t)
  <1>1. UNCHANGED storeVars => Ordinary
    BY FrameIsOrdinary DEF storeVars
  <1>2. CASE Chain \/ RegistrySync \/ Failures \/ UNCHANGED vars
    BY <1>1, <1>2 DEF Chain, SendDeposit, ClaimOnChain, ReleaseOnChain, MacroBlock, Reorg,
       RegistrySync, Failures, EWAbort, EWUnread, OWUnread, OWGiveUp, OWAbort, Crash, vars
  <1>3. CASE Handlers
    BY <1>3, HandlersAreOrdinary
  <1>4. CASE EWStep
    BY <1>1, <1>4, TransitionsAreOrdinary DEF EWStep, EWFetch, EWMacro, EWRaced, EWMatchDone,
       EWFinalizeDone, EWEnd, EWSkip, EWMatch
  <1>5. CASE OWStep
    <2>1. ASSUME NEW t \in TradeIds, Settle(t) \/ Refund(t) PROVE Ordinary
      BY <1>1, <2>1, MarksAreOrdinary, TransitionsAreOrdinary DEF Settle, Refund, SendPayout,
         AppendPayout, AppendFee, SendRefund, AppendRefund
    <2>2. ASSUME NEW t \in TradeIds,
                 \/ OWBuyerOwns(t) \/ OWOtherOwns(t) \/ OWSkip(t)
                 \/ WalkRead(t) \/ WalkDone(t) \/ HopRaced(t) \/ FailRead(t)
          PROVE  Ordinary
      BY <1>1, <2>2 DEF OWBuyerOwns, OWOtherOwns, OWSkip, Visit, WalkRead, WalkDone, HopRaced, FailRead
    <2>3. CASE OWStart \/ OWEnd
      BY <1>1, <2>3 DEF OWStart, OWEnd
    <2> QED
      BY <1>5, <2>1, <2>2, <2>3, TransitionsAreOrdinary DEF OWStep
  <1> QED
    BY <1>2, <1>3, <1>4, <1>5 DEF Next

\* The chain only grows, but for a reorganisation.
Grows == deposits \subseteq deposits' /\ claims \subseteq claims' /\ macro <= macro'

\* No other step takes anything off the chain, nor counts as one.
LEMMA ChainGrows ==
  ASSUME TypeOK, [Next]_vars, ~Reorg
  PROVE  Grows /\ reorgs' = reorgs
  <1>1. CASE UNCHANGED chainVars
    BY <1>1 DEF Grows, chainVars, TypeOK
  <1>2. CASE MacroBlock
    BY <1>2 DEF MacroBlock, Grows, TypeOK
  <1>3. CASE Chain
    BY <1>2, <1>3 DEF Chain, SendDeposit, ClaimOnChain, ReleaseOnChain, Grows, TypeOK
  <1>4. CASE RegistrySync \/ Failures \/ UNCHANGED vars
    BY <1>1, <1>4 DEF RegistrySync, Failures, EWAbort, EWUnread, ewFrame, OWUnread, OWGiveUp, OWAbort,
       Crash, owFrame, vars
  <1>5. CASE Handlers
    BY <1>1, <1>5 DEF Handlers, List, Reserve, FinishReserve, Cancel, Expire, SubmitRelease, SubmitClaim
  <1>6. CASE EWStep
    BY <1>1, <1>6 DEF EWStep, ewFrame, EWFetch, EWMacro, EWRecord, EWRaced, EWMatchDone, EWFinalizeDone,
       EWEnd, EWSkip, EWMatch, EWFinalize, EWAdvance
  <1>7. CASE OWStep
    BY <1>1, <1>7 DEF OWStep, owFrame, OWStart, OWEnd, OWBuyerOwns, OWOtherOwns, OWSkip, Visit,
       WalkRead, WalkHop, WalkDone, HopRaced, FailRead, FailHop, FailAfterRelease, BeginRefund,
       Settle, MarkPayout, SendPayout, AppendPayout, AppendFee, FinishSettle,
       Refund, MarkRefund, SendRefund, AppendRefund, FinishRefund
  <1> QED
    BY <1>3, <1>4, <1>5, <1>6, <1>7 DEF Next

\* The deposit of a trade stays on a chain that grows.
LEMMA PaysStays ==
  ASSUME Grows, NEW d, NEW t \in TradeIds, trades[t].state # "NONE", Pays(d, t),
         trades'[t].buyer = trades[t].buyer
  PROVE  Pays(d, t)'
  BY DEF Grows, Pays

\* A step that leaves deposits and their states alone keeps DepositInv.
LEMMA OrdinaryKeepsDeposits ==
  ASSUME TypeOK, DepositInv, Ordinary, Grows, macro' \in Nat
  PROVE  DepositInv'
  <1> SUFFICES ASSUME NEW t \in TradeIds
               PROVE  /\ trades'[t].state \in PaidStates =>
                           \E d \in deposits' : Pays(d, t)' /\ d.height = trades'[t].depositHeight
                      /\ trades'[t].state \in FundedStates => trades'[t].depositHeight <= macro'
    BY DEF DepositInv
  <1>1. Same(t) /\ SameDeposit(t)
    BY DEF Ordinary
  <1>2. ASSUME trades'[t].state \in PaidStates
        PROVE  \E d \in deposits' : Pays(d, t)' /\ d.height = trades'[t].depositHeight
    <2>1. trades[t].state \in PaidStates /\ trades[t].state # "NONE"
      BY <1>1, <1>2 DEF SameDeposit, PaidStates, HeldStates
    <2>2. PICK d \in deposits : Pays(d, t) /\ d.height = trades[t].depositHeight
      BY <2>1 DEF DepositInv
    <2>3. Pays(d, t)' /\ d.height = trades'[t].depositHeight
      BY <1>1, <1>2, <2>1, <2>2, PaysStays DEF Same, SameDeposit
    <2> QED
      BY <2>2, <2>3 DEF Grows
  <1>3. ASSUME trades'[t].state \in FundedStates
        PROVE  trades'[t].depositHeight <= macro'
    <2>1. trades[t].state \in FundedStates /\ trades'[t].depositHeight = trades[t].depositHeight
      BY <1>1, <1>3 DEF SameDeposit, FundedStates, PaidStates
    <2>2. trades[t].depositHeight <= macro
      BY <2>1 DEF DepositInv
    <2>3. trades[t].depositHeight \in Nat /\ macro \in Nat
      BY DEF TypeOK, StoreTypeOK, Trade
    <2> QED
      BY <2>1, <2>2, <2>3 DEF Grows
  <1> QED
    BY <1>2, <1>3

\* EWRecord writes the height of a deposit that was matched and is still there.
LEMMA RecordKeepsDeposits ==
  ASSUME TypeOK, WatchersSaw, DepositInv, EWRecord
  PROVE  DepositInv' /\ \A x \in TradeIds : Same(x)
  <1>1. PICK hit \in DepositTx : hit = ew.hit
    BY DEF EWRecord, TypeOK
  <1>2. PICK t \in TradeIds : t = hit.trade /\ hit.height \in Nat
    BY DEF DepositTx
  <1> DEFINE row == [trades[t] EXCEPT !.depositHeight = hit.height]
  <1>3. trades \in [TradeIds -> Trade]
    BY DEF TypeOK, StoreTypeOK
  <1>4. Pays(hit, t) /\ UNCHANGED << deposits, macro >>
    BY <1>2, <1>1 DEF WatchersSaw, EWRecord, ewFrame, chainVars
  <1>5. /\ trades[t].state = "AWAITING_DEPOSIT"
        /\ trades' = [trades EXCEPT ![t] = [row EXCEPT !.state = "DEPOSIT_FINALIZING"]]
    BY <1>2, <1>1 DEF EWRecord, Transition
  <1>6. trades[t] \in Trade
    BY <1>3
  <1>7. /\ [row EXCEPT !.state = "DEPOSIT_FINALIZING"].state = "DEPOSIT_FINALIZING"
        /\ [row EXCEPT !.state = "DEPOSIT_FINALIZING"].depositHeight = hit.height
        /\ [row EXCEPT !.state = "DEPOSIT_FINALIZING"].handle = trades[t].handle
        /\ [row EXCEPT !.state = "DEPOSIT_FINALIZING"].buyer = trades[t].buyer
        /\ [row EXCEPT !.state = "DEPOSIT_FINALIZING"].seller = trades[t].seller
    BY <1>2, <1>6 DEF Trade
  <1> HIDE DEF row
  <1>8. /\ trades'[t] = [row EXCEPT !.state = "DEPOSIT_FINALIZING"]
        /\ \A x \in TradeIds \ {t} : trades'[x] = trades[x]
    BY <1>3, <1>5
  <1>9. Pays(hit, t)' /\ hit \in deposits'
    BY <1>4, <1>7, <1>8 DEF Pays
  <1>10. \A x \in TradeIds \ {t} : \A d : Pays(d, x)' <=> Pays(d, x)
    BY <1>4, <1>8 DEF Pays
  <1>11. DepositInv'
    <2> SUFFICES ASSUME NEW x \in TradeIds
                 PROVE  /\ trades'[x].state \in PaidStates =>
                             \E d \in deposits' : Pays(d, x)' /\ d.height = trades'[x].depositHeight
                        /\ trades'[x].state \in FundedStates => trades'[x].depositHeight <= macro'
      BY DEF DepositInv
    <2>1. CASE x = t
      BY <1>7, <1>8, <1>9, <2>1 DEF FundedStates
    <2>2. CASE x # t
      BY <1>4, <1>8, <1>10, <2>2 DEF DepositInv
    <2> QED
      BY <2>1, <2>2
  <1> QED
    BY <1>7, <1>8, <1>11 DEF Same

\* EWFinalize compares the recorded height with a macro height that was.
LEMMA FinalizeKeepsDeposits ==
  ASSUME TypeOK, WatchersSaw, DepositInv, NEW t \in TradeIds, EWFinalize(t)
  PROVE  DepositInv' /\ \A x \in TradeIds : Same(x)
  <1>1. trades \in [TradeIds -> Trade] /\ macro \in Nat /\ ew.macro \in Nat /\ trades[t].depositHeight \in Nat
    BY DEF TypeOK, StoreTypeOK, EWStates, Trade
  <1>2. /\ trades[t].state = "DEPOSIT_FINALIZING" /\ trades[t].depositHeight <= ew.macro
        /\ trades' = [trades EXCEPT ![t] = [trades[t] EXCEPT !.state = "FUNDED"]]
        /\ UNCHANGED << deposits, macro >>
    BY DEF EWFinalize, Finalized, Transition, ewFrame, chainVars
  <1>3. /\ [trades[t] EXCEPT !.state = "FUNDED"].depositHeight = trades[t].depositHeight
        /\ [trades[t] EXCEPT !.state = "FUNDED"].handle = trades[t].handle
        /\ [trades[t] EXCEPT !.state = "FUNDED"].buyer = trades[t].buyer
        /\ [trades[t] EXCEPT !.state = "FUNDED"].seller = trades[t].seller
        /\ [trades[t] EXCEPT !.state = "FUNDED"].state = "FUNDED"
    BY <1>1 DEF Trade
  <1>4. /\ trades'[t] = [trades[t] EXCEPT !.state = "FUNDED"]
        /\ \A x \in TradeIds \ {t} : trades'[x] = trades[x]
    BY <1>1, <1>2
  <1>5. trades[t].depositHeight <= macro
    BY <1>1, <1>2 DEF WatchersSaw
  <1>6. \A x \in TradeIds : \A d : Pays(d, x)' <=> Pays(d, x)
    BY <1>2, <1>3, <1>4 DEF Pays
  <1>7. DepositInv'
    <2> SUFFICES ASSUME NEW x \in TradeIds
                 PROVE  /\ trades'[x].state \in PaidStates =>
                             \E d \in deposits' : Pays(d, x)' /\ d.height = trades'[x].depositHeight
                        /\ trades'[x].state \in FundedStates => trades'[x].depositHeight <= macro'
      BY DEF DepositInv
    <2>1. CASE x = t
      <3>1. \E d \in deposits : Pays(d, t) /\ d.height = trades[t].depositHeight
        BY <1>2 DEF DepositInv, HeldStates, PaidStates
      <3> QED
        BY <1>2, <1>3, <1>4, <1>5, <1>6, <2>1, <3>1
    <2>2. CASE x # t
      BY <1>2, <1>4, <1>6, <2>2 DEF DepositInv
    <2> QED
      BY <2>1, <2>2
  <1> QED
    BY <1>3, <1>4, <1>7 DEF Same

\* The ownership sweep reads the macro height once, at its start.
LEMMA OWMacroIs ==
  ASSUME TypeOK, [Next]_vars
  PROVE  ow'.macro \in {ow.macro, macro, 0}
  <1>0. ow \in OWStates
    BY DEF TypeOK
  <1>1. CASE UNCHANGED ow
    BY <1>1
  <1>2. CASE ow' = OWIdle
    BY <1>2 DEF OWIdle
  <1>3. ASSUME NEW pc, Goto(pc) \/ Read(pc) PROVE ow'.macro = ow.macro
    BY <1>0, <1>3 DEF Goto, Read, OWStates
  <1>4. Continue => ow'.macro = ow.macro
    BY <1>0 DEF Continue, OWStates
  <1>5. CASE Chain \/ RegistrySync \/ UNCHANGED vars
    BY <1>1, <1>5 DEF Chain, SendDeposit, ClaimOnChain, ReleaseOnChain, MacroBlock, Reorg, RegistrySync,
       procVars, vars
  <1>6. CASE Handlers
    BY <1>1, <1>6 DEF Handlers, List, Reserve, FinishReserve, Cancel, Expire, SubmitRelease, SubmitClaim, procVars
  <1>7. CASE EWStep
    BY <1>1, <1>7 DEF EWStep, ewFrame, EWFetch, EWMacro, EWRecord, EWRaced, EWMatchDone, EWFinalizeDone,
       EWEnd, EWSkip, EWMatch, EWFinalize, EWAdvance
  <1>8. CASE Failures
    <2>1. OWUnread => ow'.macro = ow.macro
      BY <1>0 DEF OWUnread, OWStates
    <2> QED
      BY <1>1, <1>2, <1>4, <1>8, <2>1 DEF Failures, EWAbort, EWUnread, ewFrame, OWGiveUp, OWAbort, Crash
  <1>9. CASE OWStep
    <2>1. OWStart => ow'.macro = macro
      BY <1>0 DEF OWStart, OWStates
    <2>2. ASSUME NEW t \in TradeIds, OWBuyerOwns(t) \/ OWOtherOwns(t) \/ OWSkip(t)
          PROVE  ow'.macro = ow.macro
      BY <1>0, <2>2 DEF OWBuyerOwns, OWOtherOwns, OWSkip, Visit, OWStates
    <2>3. ASSUME NEW t \in TradeIds, Settle(t) \/ Refund(t) PROVE ow'.macro = ow.macro \/ ow' = OWIdle
      BY <1>3, <1>4, <2>3 DEF Settle, MarkPayout, SendPayout, AppendPayout, AppendFee, FinishSettle,
         Refund, MarkRefund, SendRefund, AppendRefund, FinishRefund
    <2>4. ASSUME NEW t \in TradeIds,
                 \/ WalkRead(t) \/ WalkHop(t) \/ WalkDone(t) \/ HopRaced(t)
                 \/ FailRead(t) \/ FailHop(t) \/ FailAfterRelease(t) \/ BeginRefund(t)
          PROVE  ow'.macro = ow.macro
      BY <1>3, <1>4, <2>4 DEF WalkRead, WalkHop, WalkDone, HopRaced, FailRead, FailHop, FailAfterRelease, BeginRefund
    <2> QED
      BY <1>2, <1>9, <2>1, <2>2, <2>3, <2>4 DEF OWStep, OWEnd
  <1> QED
    BY <1>5, <1>6, <1>7, <1>8, <1>9 DEF Next

\* What the escrow sweep holds next: the chain it reads, or less of what it had.
LEMMA EWHoldsIs ==
  ASSUME TypeOK, [Next]_vars
  PROVE  /\ ew'.txs \subseteq ew.txs \/ ew'.txs = deposits
         /\ ew'.macro \in {ew.macro, macro, 0}
         /\ ew'.pc = "record" =>
              \/ ew.pc = "record" /\ ew'.hit = ew.hit
              \/ \E d \in ew.txs : ew'.hit = d /\ EWMatch(d)
  <1>0. ew \in EWStates
    BY DEF TypeOK
  <1>1. CASE UNCHANGED ew
    BY <1>1
  <1>2. CASE ew' = EWIdle
    BY <1>2 DEF EWIdle
  <1>3. CASE Chain \/ RegistrySync \/ UNCHANGED vars
    BY <1>1, <1>3 DEF Chain, SendDeposit, ClaimOnChain, ReleaseOnChain, MacroBlock, Reorg, RegistrySync,
       procVars, vars
  <1>4. CASE Handlers
    BY <1>1, <1>4 DEF Handlers, List, Reserve, FinishReserve, Cancel, Expire, SubmitRelease, SubmitClaim, procVars
  <1>5. CASE OWStep
    BY <1>1, <1>5 DEF OWStep, owFrame, OWStart, OWEnd, OWBuyerOwns, OWOtherOwns, OWSkip, Visit,
       WalkRead, WalkHop, WalkDone, HopRaced, FailRead, FailHop, FailAfterRelease, BeginRefund,
       Settle, MarkPayout, SendPayout, AppendPayout, AppendFee, FinishSettle,
       Refund, MarkRefund, SendRefund, AppendRefund, FinishRefund
  <1>6. CASE Failures
    <2>1. EWUnread => ew'.txs \subseteq ew.txs /\ ew'.macro = ew.macro /\ ew'.pc \in {"match", "advance"}
      BY <1>0 DEF EWUnread, EWStates
    <2> QED
      BY <1>1, <1>2, <1>6, <2>1 DEF Failures, EWAbort, OWUnread, OWGiveUp, OWAbort, Crash, owFrame
  <1>7. CASE EWStep
    <2>1. EWFetch => ew'.txs = deposits /\ ew'.macro = ew.macro /\ ew'.pc = "macro"
      BY <1>0 DEF EWFetch, EWStates
    <2>2. EWMacro => ew'.txs = ew.txs /\ ew'.macro = macro /\ ew'.pc = "match"
      BY <1>0 DEF EWMacro, EWStates
    <2>3. EWRecord \/ EWMatchDone \/ EWFinalizeDone =>
            ew'.txs = ew.txs /\ ew'.macro = ew.macro /\ ew'.pc \in {"match", "finalize", "advance"}
      BY <1>0 DEF EWRecord, EWMatchDone, EWFinalizeDone, EWStates
    <2>4. ASSUME NEW d \in ew.txs, EWSkip(d)
          PROVE  ew'.txs \subseteq ew.txs /\ ew'.macro = ew.macro /\ ew'.pc = "match"
      BY <1>0, <2>4 DEF EWSkip, EWStates
    <2>5. ASSUME NEW d \in ew.txs, EWMatch(d)
          PROVE  ew'.txs \subseteq ew.txs /\ ew'.macro = ew.macro /\ ew'.hit = d
      BY <1>0, <2>5 DEF EWMatch, EWStates
    <2>6. ASSUME NEW t \in TradeIds, EWFinalize(t) \/ EWAdvance(t) PROVE UNCHANGED ew
      BY <2>6 DEF EWFinalize, EWAdvance
    <2>7. EWRaced \/ EWEnd => ew' = EWIdle
      BY DEF EWRaced, EWEnd
    <2> QED
      BY <1>1, <1>2, <1>7, <2>1, <2>2, <2>3, <2>4, <2>5, <2>6, <2>7 DEF EWStep
  <1> QED
    BY <1>3, <1>4, <1>5, <1>6, <1>7 DEF Next

\* What a sweep has seen stays true on a chain that grows.
LEMMA WatchersKeepSeeing ==
  ASSUME TypeOK, TypeOK', WatchersSaw, [Next]_vars, Grows, \A x \in TradeIds : Same(x)
  PROVE  WatchersSaw'
  <1>1. macro \in Nat /\ macro' \in Nat /\ ew.macro \in Nat /\ ow.macro \in Nat
    BY DEF TypeOK, EWStates, OWStates
  <1>2. ew'.txs \subseteq deposits'
    BY EWHoldsIs DEF WatchersSaw, Grows
  <1>3. ew'.macro <= macro' /\ ow'.macro <= macro'
    BY <1>1, EWHoldsIs, OWMacroIs DEF WatchersSaw, Grows
  <1>4. ASSUME ew'.pc = "record"
        PROVE  trades'[ew'.hit.trade].state # "NONE" /\ Pays(ew.hit, ew.hit.trade)'
    <2>1. PICK hit \in DepositTx : hit = ew'.hit
      BY <1>4 DEF TypeOK
    <2>2. PICK t \in TradeIds : t = hit.trade
      BY DEF DepositTx
    <2>3. trades[t].state # "NONE" /\ Pays(hit, t)
      <3>1. CASE ew.pc = "record" /\ ew'.hit = ew.hit
        BY <2>1, <2>2, <3>1 DEF WatchersSaw
      <3>2. ASSUME NEW d \in ew.txs, ew'.hit = d, EWMatch(d)
            PROVE  trades[t].state # "NONE" /\ Pays(hit, t)
        BY <2>1, <2>2, <3>2 DEF EWMatch, Matches, Pays, WatchersSaw
      <3> QED
        BY <1>4, <3>1, <3>2, EWHoldsIs
    <2>4. trades'[t].state # "NONE" /\ Pays(hit, t)'
      BY <2>3, PaysStays DEF Same
    <2> QED
      BY <2>1, <2>2, <2>4 DEF Pays
  <1> QED
    BY <1>2, <1>3, <1>4 DEF WatchersSaw

\* The registry's map comes from the chain, and a failed lookup only hides a wallet.
LEMMA ClaimsStep ==
  ASSUME TypeOK, ClaimsInv, [Next]_vars, ~Reorg, Grows
  PROVE  ClaimsInv'
  <1>0. head \in [Handles -> Claim] /\ registry \in [Handles -> Claim]
    BY DEF TypeOK
  <1>1. CASE UNCHANGED << head, registry >>
    BY <1>1 DEF ClaimsInv, Claimed, Grows
  <1>2. ASSUME NEW h \in Handles, NEW u \in Users, ClaimOnChain(h, u)
        PROVE  ClaimsInv'
    <2>1. /\ head' = [head EXCEPT ![h] = Owned(u, height')] /\ UNCHANGED registry
          /\ [handle |-> h, owner |-> u, height |-> height'] \in claims'
      BY <1>2 DEF ClaimOnChain, regVars
    <2>2. Owned(u, height').owner = u /\ Owned(u, height').height = height'
      BY DEF Owned
    <2> QED
      BY <1>0, <2>1, <2>2 DEF ClaimsInv, Claimed, Grows
  <1>3. ASSUME NEW h \in Handles, ReleaseOnChain(h)
        PROVE  ClaimsInv'
    <2>1. head' = [head EXCEPT ![h] = NoClaim] /\ UNCHANGED registry /\ NoClaim.owner = None
      BY <1>3 DEF ReleaseOnChain, regVars, NoClaim
    <2> QED
      BY <1>0, <2>1 DEF ClaimsInv, Claimed, Grows
  <1>4. CASE RegistrySync
    <2>1. PICK failed \in SUBSET (HtlcOwners \ creators) :
            /\ failed = {} \/ LookupMayFail
            /\ registry' = [h \in Handles |-> Attributed(head[h], failed)]
            /\ UNCHANGED << head, claims >>
      BY <1>4 DEF RegistrySync, chainVars
    <2>2. ASSUME NEW h \in Handles
          PROVE  /\ registry'[h].owner \in Users => Claimed(h, registry'[h])
                 /\ ~LookupMayFail => registry'[h].owner \in Users \cup {None}
      <3>1. registry'[h] = Attributed(head[h], failed) /\ head[h] \in Claim
        BY <1>0, <2>1
      <3>2. CASE head[h].owner \in failed
        <4>1. registry'[h].owner = HtlcContract
          BY <3>1, <3>2 DEF Attributed, Claim
        <4> QED
          BY <2>1, <3>2, <4>1, HtlcAssumption
      <3>3. CASE head[h].owner \notin failed
        <4>1. registry'[h] = head[h]
          BY <3>1, <3>3 DEF Attributed
        <4> QED
          BY <4>1, NoneAssumption DEF ClaimsInv
      <3> QED
        BY <3>2, <3>3
    <2> QED
      BY <2>1, <2>2 DEF ClaimsInv, Claimed
  <1>5. CASE Chain \/ UNCHANGED vars
    BY <1>1, <1>2, <1>3, <1>5 DEF Chain, SendDeposit, MacroBlock, regVars, chainVars, vars
  <1>6. CASE Handlers
    BY <1>1, <1>6 DEF Handlers, List, Reserve, FinishReserve, Cancel, Expire, SubmitRelease, SubmitClaim,
       regVars, chainVars
  <1>7. CASE EWStep
    BY <1>1, <1>7 DEF EWStep, ewFrame, regVars, chainVars, EWFetch, EWMacro, EWRecord, EWRaced, EWMatchDone,
       EWFinalizeDone, EWEnd, EWSkip, EWMatch, EWFinalize, EWAdvance
  <1>8. CASE OWStep
    BY <1>1, <1>8 DEF OWStep, owFrame, regVars, chainVars, OWStart, OWEnd, OWBuyerOwns, OWOtherOwns, OWSkip,
       Visit, WalkRead, WalkHop, WalkDone, HopRaced, FailRead, FailHop, FailAfterRelease, BeginRefund,
       Settle, MarkPayout, SendPayout, AppendPayout, AppendFee, FinishSettle,
       Refund, MarkRefund, SendRefund, AppendRefund, FinishRefund
  <1>9. CASE Failures
    BY <1>1, <1>9 DEF Failures, EWAbort, EWUnread, ewFrame, OWUnread, OWGiveUp, OWAbort, Crash, owFrame,
       regVars, chainVars
  <1> QED
    BY <1>4, <1>5, <1>6, <1>7, <1>8, <1>9 DEF Next

\* The worker comes to pay a trade, or to return its money, by a decision only, and
\* only then sends.
LEMMA WorkerIsSent ==
  ASSUME TypeOK, [Next]_vars, NEW t \in TradeIds
  PROVE  /\ Paying(t)' => Paying(t) \/ OWBuyerOwns(t)
         /\ Returning(t)' => Returning(t) \/ OWOtherOwns(t)
         /\ sends'[t].payout > 0 => sends[t].payout > 0 \/ Paying(t)
         /\ sends'[t].refund > 0 => sends[t].refund > 0 \/ Returning(t)
  <1> DEFINE Goal == /\ Paying(t)' => Paying(t) \/ OWBuyerOwns(t)
                     /\ Returning(t)' => Returning(t) \/ OWOtherOwns(t)
                     /\ sends'[t].payout > 0 => sends[t].payout > 0 \/ Paying(t)
                     /\ sends'[t].refund > 0 => sends[t].refund > 0 \/ Returning(t)
  <1>0. ow \in OWStates /\ sends \in [TradeIds -> [payout : Nat, refund : Nat]]
    BY DEF TypeOK
  <1> USE DEF SettlePc, RefundPc
  <1>1. CASE UNCHANGED << ow, sends >>
    BY <1>1 DEF Paying, Returning
  <1>2. CASE UNCHANGED sends /\ ow'.pc \in {"idle", "scan"}
    BY <1>2 DEF Paying, Returning
  <1>3. CASE Chain \/ RegistrySync \/ UNCHANGED vars
    BY <1>1, <1>3 DEF Chain, SendDeposit, ClaimOnChain, ReleaseOnChain, MacroBlock, Reorg, RegistrySync,
       procVars, vars
  <1>4. CASE Handlers
    BY <1>1, <1>4 DEF Handlers, List, Reserve, FinishReserve, Cancel, Expire, SubmitRelease, SubmitClaim, procVars
  <1>5. CASE EWStep
    BY <1>1, <1>5 DEF EWStep, ewFrame, EWFetch, EWMacro, EWRecord, EWRaced, EWMatchDone, EWFinalizeDone,
       EWEnd, EWSkip, EWMatch, EWFinalize, EWAdvance
  <1>6. CASE Failures
    <2>1. CASE OWUnread \/ OWGiveUp
      <3>1. UNCHANGED sends /\ ow'.pc \in {"idle", "scan"}
        BY <1>0, <2>1 DEF OWUnread, OWGiveUp, Continue, OWStates
      <3> QED
        BY <1>2, <3>1
    <2>2. CASE OWAbort \/ Crash
      BY <1>2, <2>2 DEF OWAbort, Crash, OWIdle
    <2> QED
      BY <1>1, <1>6, <2>1, <2>2 DEF Failures, EWAbort, EWUnread, ewFrame
  <1>7. CASE OWStep
    <2>1. CASE OWStart \/ OWEnd
      <3>1. OWStart => UNCHANGED sends /\ ow'.pc = "scan"
        BY <1>0 DEF OWStart, OWStates
      <3>2. OWEnd => UNCHANGED sends /\ ow'.pc = "idle"
        BY DEF OWEnd, OWIdle
      <3> QED
        BY <1>2, <2>1, <3>1, <3>2
    <2>2. ASSUME NEW x \in TradeIds, Settle(x) PROVE Goal
      <3>1. ow.trade = x /\ ow.pc \in {"mark", "send", "ledger", "fee", "finish"}
        BY <2>2 DEF Settle, MarkPayout, SendPayout, AppendPayout, AppendFee, FinishSettle
      <3>2. \/ ow'.pc \in {"idle", "scan"}
            \/ ow'.trade = x /\ ow'.pc \in {"send", "ledger", "fee", "finish"}
        <4>1. MarkPayout(x) => ow' = [ow EXCEPT !.pc = "send"]
          BY DEF MarkPayout, Goto
        <4>2. SendPayout(x) => ow' = [ow EXCEPT !.pc = "ledger"] \/ ow' = OWIdle
          BY DEF SendPayout, Goto
        <4>3. AppendPayout(x) => ow' = [ow EXCEPT !.pc = "fee"]
          BY DEF AppendPayout, Goto
        <4>4. AppendFee(x) => ow' = [ow EXCEPT !.pc = "finish"]
          BY DEF AppendFee, Goto
        <4>5. FinishSettle(x) => ow'.pc = "scan"
          BY <1>0 DEF FinishSettle, Continue, OWStates
        <4>6. ASSUME NEW pc, ow' = [ow EXCEPT !.pc = pc] PROVE ow'.pc = pc /\ ow'.trade = x
          BY <1>0, <3>1, <4>6 DEF OWStates
        <4>7. CASE ow' = OWIdle
          BY <4>7 DEF OWIdle
        <4> QED
          BY <2>2, <4>1, <4>2, <4>3, <4>4, <4>5, <4>6, <4>7 DEF Settle
      <3>3. /\ \A y \in TradeIds \ {x} : sends'[y] = sends[y]
            /\ sends'[x].refund = sends[x].refund
        BY <1>0, <2>2 DEF Settle, MarkPayout, SendPayout, AppendPayout, AppendFee, FinishSettle
      <3> QED
        BY <3>1, <3>2, <3>3 DEF Paying, Returning
    <2>3. ASSUME NEW x \in TradeIds, Refund(x) PROVE Goal
      <3>1. ow.trade = x /\ ow.pc \in {"markR", "sendR", "ledgerR", "finishR"}
        BY <2>3 DEF Refund, MarkRefund, SendRefund, AppendRefund, FinishRefund
      <3>2. \/ ow'.pc \in {"idle", "scan"}
            \/ ow'.trade = x /\ ow'.pc \in {"sendR", "ledgerR", "finishR"}
        <4>1. MarkRefund(x) => ow' = [ow EXCEPT !.pc = "sendR"]
          BY DEF MarkRefund, Goto
        <4>2. SendRefund(x) => ow' = [ow EXCEPT !.pc = "ledgerR"] \/ ow' = OWIdle
          BY DEF SendRefund, Goto
        <4>3. AppendRefund(x) => ow' = [ow EXCEPT !.pc = "finishR"]
          BY DEF AppendRefund, Goto
        <4>4. FinishRefund(x) => ow'.pc = "scan"
          BY <1>0 DEF FinishRefund, Continue, OWStates
        <4>5. CASE ow' = OWIdle
          BY <4>5 DEF OWIdle
        <4>6. ASSUME NEW pc, ow' = [ow EXCEPT !.pc = pc] PROVE ow'.pc = pc /\ ow'.trade = x
          BY <1>0, <3>1, <4>6 DEF OWStates
        <4> QED
          BY <2>3, <4>1, <4>2, <4>3, <4>4, <4>5, <4>6 DEF Refund
      <3>3. /\ \A y \in TradeIds \ {x} : sends'[y] = sends[y]
            /\ sends'[x].payout = sends[x].payout
        BY <1>0, <2>3 DEF Refund, MarkRefund, SendRefund, AppendRefund, FinishRefund
      <3> QED
        BY <3>1, <3>2, <3>3 DEF Paying, Returning
    <2>4. ASSUME NEW x \in TradeIds, OWBuyerOwns(x) \/ OWOtherOwns(x) PROVE Goal
      <3>1. UNCHANGED sends
        BY <2>4 DEF OWBuyerOwns, OWOtherOwns, Visit
      <3>2. /\ OWBuyerOwns(x) => ow'.trade = x /\ ow'.pc = "walk"
            /\ OWOtherOwns(x) => ow'.trade = x /\ ow'.pc = "fail"
        BY <1>0 DEF OWBuyerOwns, OWOtherOwns, Visit, OWStates
      <3> QED
        BY <2>4, <3>1, <3>2 DEF Paying, Returning
    <2>5. ASSUME NEW x \in TradeIds, OWSkip(x) PROVE Goal
      BY <1>0, <1>2, <2>5 DEF OWSkip, OWStates
    <2>6. ASSUME NEW x \in TradeIds,
                 \/ WalkRead(x) \/ WalkHop(x) \/ WalkDone(x) \/ HopRaced(x)
                 \/ FailRead(x) \/ FailHop(x) \/ FailAfterRelease(x) \/ BeginRefund(x)
          PROVE  Goal
      <3>1. UNCHANGED sends
        BY <2>6 DEF WalkRead, WalkHop, WalkDone, HopRaced, FailRead, FailHop, FailAfterRelease, BeginRefund
      <3>2. \/ ow'.pc = "scan"
            \/ /\ ow'.trade = ow.trade
               /\ ow.pc \in {"walk", "hop"} /\ ow'.pc \in {"walk", "hop", "mark"}
            \/ /\ ow'.trade = ow.trade
               /\ ow.pc \in {"fail", "failHop", "toRefund"}
               /\ ow'.pc \in {"fail", "failHop", "toRefund", "markR"}
        BY <1>0, <2>6 DEF WalkRead, WalkHop, WalkDone, HopRaced, FailRead, FailHop, FailAfterRelease, BeginRefund,
           Read, Goto, Continue, OWStates
      <3> QED
        BY <3>1, <3>2 DEF Paying, Returning
    <2> QED
      BY <1>7, <2>1, <2>2, <2>3, <2>4, <2>5, <2>6 DEF OWStep
  <1> QED
    BY <1>3, <1>4, <1>5, <1>6, <1>7 DEF Next

\* A final claim stays one.
LEMMA FinalStays ==
  ASSUME TypeOK, TypeOK', Grows, NEW h, NEW u, FinalClaim(h, u)
  PROVE  \E c \in claims' : c.handle = h /\ c.owner = u /\ c.height <= macro'
  <1>1. PICK c \in claims : c.handle = h /\ c.owner = u /\ c.height <= macro
    BY DEF FinalClaim
  <1>2. c.height \in Nat /\ macro \in Nat /\ macro' \in Nat
    BY DEF TypeOK
  <1>3. c \in claims' /\ c.height <= macro'
    BY <1>1, <1>2 DEF Grows
  <1> QED
    BY <1>1, <1>3

\* A decision the chain has made final is not taken back.
LEMMA DecisionsStay ==
  ASSUME TypeOK, TypeOK', Grows, NEW t \in TradeIds, Same(t)
  PROVE  (Bought(t) => Bought(t)') /\ (Lost(t) => Lost(t)')
  <1>1. ASSUME Bought(t) PROVE Bought(t)'
    BY <1>1, FinalStays DEF Bought, Same, FinalClaim
  <1>2. ASSUME Lost(t) PROVE Lost(t)'
    <2>1. PICK u \in Users \ {trades[t].buyer, trades[t].seller} : FinalClaim(trades[t].handle, u)
      BY <1>2 DEF Lost
    <2>2. \E c \in claims' : c.handle = trades[t].handle /\ c.owner = u /\ c.height <= macro'
      BY <2>1, FinalStays
    <2>3. /\ trades'[t].state # "NONE"
          /\ trades'[t].handle = trades[t].handle
          /\ u \in Users \ {trades'[t].buyer, trades'[t].seller}
      BY <1>2, <2>1 DEF Lost, Same
    <2> QED
      BY <2>2, <2>3 DEF Lost, FinalClaim
  <1> QED
    BY <1>1, <1>2

\* What the sweep decides on is a claim that is final: the registry has it from
\* the chain, and it is not above a macro height that was.
LEMMA DecisionsAreFinal ==
  ASSUME TypeOK, ExclusiveInv, WatchersSaw, ClaimsInv, NEW t \in TradeIds
  PROVE  /\ OWBuyerOwns(t) => Bought(t)
         /\ ~LookupMayFail /\ OWOtherOwns(t) => Lost(t)
  <1> DEFINE h == trades[t].handle
             c == registry[trades[t].handle]
  <1>0. /\ trades[t] \in Trade /\ macro \in Nat /\ ow.macro \in Nat
        /\ registry \in [Handles -> Claim]
    BY DEF TypeOK, StoreTypeOK, OWStates
  <1>1. ASSUME trades[t].state \in SweptStates, Decides(t)
        PROVE  /\ trades[t].state # "NONE" /\ h \in Handles
               /\ c.owner # None /\ c.owner \in Users \cup {None, HtlcContract}
               /\ c.owner \in Users => FinalClaim(h, c.owner)
               /\ ~LookupMayFail => c.owner \in Users
    <2>1. trades[t].state # "NONE" /\ IsOpen(t)
      BY <1>1, SweptStatesAre DEF IsOpen, ClosedStates
    <2>2. h \in Handles
      BY <2>1 DEF ExclusiveInv
    <2>3. c \in Claim
      BY <1>0, <2>2
    <2>4. c.owner # None /\ c.height <= ow.macro
      BY <1>1 DEF Decides, Resolved
    <2>5. c.height <= macro
      BY <1>0, <2>3, <2>4 DEF WatchersSaw, Claim
    <2>6. c.owner \in Users => [handle |-> h, owner |-> c.owner, height |-> c.height] \in claims
      BY <2>2 DEF ClaimsInv, Claimed
    <2>7. c.owner \in Users => FinalClaim(h, c.owner)
      BY <2>5, <2>6 DEF FinalClaim
    <2>8. ~LookupMayFail => c.owner \in Users
      BY <2>2, <2>4 DEF ClaimsInv
    <2> QED
      BY <2>1, <2>2, <2>3, <2>4, <2>7, <2>8 DEF Claim
  <1>2. ASSUME OWBuyerOwns(t) PROVE Bought(t)
    <2>1. trades[t].state \in SweptStates /\ Decides(t) /\ c.owner = trades[t].buyer
      BY <1>2 DEF OWBuyerOwns, Visit, Resolved
    <2>2. trades[t].buyer \in Users \cup {None}
      BY <1>0 DEF Trade
    <2> QED
      BY <1>1, <2>1, <2>2 DEF Bought
  <1>3. ASSUME ~LookupMayFail, OWOtherOwns(t) PROVE Lost(t)
    <2>1. /\ trades[t].state \in SweptStates /\ Decides(t)
          /\ c.owner \notin {trades[t].buyer, trades[t].seller}
      BY <1>3 DEF OWOtherOwns, Visit, Resolved
    <2> QED
      BY <1>1, <1>3, <2>1 DEF Lost
  <1> QED
    BY <1>2, <1>3

\* A step that pays or refunds follows a decision, and decisions stay.
LEMMA DecisionStep ==
  ASSUME TypeOK, TypeOK', ExclusiveInv, WatchersSaw, ClaimsInv, DecisionInv, [Next]_vars, Grows,
         \A x \in TradeIds : Same(x)
  PROVE  DecisionInv'
  <1> SUFFICES ASSUME NEW t \in TradeIds
               PROVE  /\ Paying(t)' \/ sends'[t].payout > 0 => Bought(t)'
                      /\ ~LookupMayFail => (Returning(t)' \/ sends'[t].refund > 0 => Lost(t)')
    BY DEF DecisionInv
  <1>1. Paying(t)' \/ sends'[t].payout > 0 => Bought(t)
    BY WorkerIsSent, DecisionsAreFinal DEF DecisionInv
  <1>2. ~LookupMayFail => (Returning(t)' \/ sends'[t].refund > 0 => Lost(t))
    BY WorkerIsSent, DecisionsAreFinal DEF DecisionInv
  <1> QED
    BY <1>1, <1>2, DecisionsStay

\* Nothing is seen, paid or decided at the start; the first owners' claims are final.
LEMMA EvidenceInit == Init => EvidenceInv
  <1> SUFFICES ASSUME Init PROVE WatchersSaw /\ DepositInv /\ ClaimsInv /\ DecisionInv
    BY DEF EvidenceInv
  <1>1. PICK owner \in [Handles -> Users] :
          /\ head = [h \in Handles |-> Owned(owner[h], 0)]
          /\ claims = { [handle |-> h, owner |-> owner[h], height |-> 0] : h \in Handles }
    BY DEF Init
  <1>2. WatchersSaw
    BY DEF Init, EWIdle, OWIdle, WatchersSaw
  <1>3. DepositInv
    BY DEF Init, StoreInit, NoTrade, NewTrade, DepositInv, HeldStates, FundedStates, PaidStates
  <1>4. ClaimsInv
    <2>1. \A h \in Handles : head[h].owner = owner[h] /\ head[h].height = 0 /\ registry[h] = head[h]
      BY <1>1 DEF Init, Owned
    <2> QED
      BY <1>1, <2>1 DEF ClaimsInv, Claimed
  <1>5. DecisionInv
    BY DEF Init, NoSends, OWIdle, DecisionInv, Paying, Returning, SettlePc, RefundPc
  <1> QED
    BY <1>2, <1>3, <1>4, <1>5

\* The step that carries the induction.
LEMMA EvidenceStep ==
  ASSUME TypeOK, TypeOK', ExclusiveInv, EvidenceInv, [Next]_vars
  PROVE  EvidenceInv'
  <1> SUFFICES ASSUME reorgs' = 0 PROVE (WatchersSaw /\ DepositInv /\ ClaimsInv /\ DecisionInv)'
    BY DEF EvidenceInv
  <1>1. reorgs \in Nat /\ macro' \in Nat
    BY DEF TypeOK
  <1>2. ~Reorg
    BY <1>1 DEF Reorg
  <1>3. Grows /\ reorgs = 0
    BY <1>2, ChainGrows
  <1>4. WatchersSaw /\ DepositInv /\ ClaimsInv /\ DecisionInv
    BY <1>3 DEF EvidenceInv
  <1>5. DepositInv' /\ \A x \in TradeIds : Same(x)
    <2>1. CASE Ordinary
      BY <1>1, <1>3, <1>4, <2>1, OrdinaryKeepsDeposits DEF Ordinary
    <2>2. CASE EWRecord
      BY <1>4, <2>2, RecordKeepsDeposits
    <2>3. ASSUME NEW t \in TradeIds, EWFinalize(t)
          PROVE  DepositInv' /\ \A x \in TradeIds : Same(x)
      BY <1>4, <2>3, FinalizeKeepsDeposits
    <2> QED
      BY <2>1, <2>2, <2>3, MostStepsAreOrdinary
  <1>6. WatchersSaw'
    BY <1>3, <1>4, <1>5, WatchersKeepSeeing
  <1>7. ClaimsInv'
    BY <1>2, <1>3, <1>4, ClaimsStep
  <1>8. DecisionInv'
    BY <1>3, <1>4, <1>5, DecisionStep
  <1> QED
    BY <1>5, <1>6, <1>7, <1>8

\* Until a block is replaced, what the sweeps hold, what they have recorded and
\* what they have decided is on the chain, and what they took for final is final.
THEOREM EvidenceCorrect == Spec => []EvidenceInv
  <1>1. TypeOK /\ ExclusiveInv /\ EvidenceInv /\ TypeOK' /\ [Next]_vars => EvidenceInv'
    BY EvidenceStep
  <1>2. Spec => []ExclusiveInv
    BY TypeCorrect, ExclusiveInit, ExclusiveStep, PTL DEF Spec
  <1> QED
    BY <1>1, <1>2, TypeCorrect, EvidenceInit, PTL DEF Spec

\* A trade counts as funded only on a final deposit of the exact price from its
\* buyer, although the sweep matches and compares on what it fetched earlier.
THEOREM FundedFinally == Spec => [](reorgs = 0 => FundedIsFinal)
  <1>1. EvidenceInv => (reorgs = 0 => FundedIsFinal)
    <2> SUFFICES ASSUME EvidenceInv, reorgs = 0, NEW t \in TradeIds, trades[t].state \in FundedStates
                 PROVE  \E d \in deposits : /\ d.trade = t /\ d.value = Price
                                            /\ d.sender = trades[t].buyer /\ d.height <= macro
      BY DEF FundedIsFinal, FundedStates
    <2>1. trades[t].state \in PaidStates /\ trades[t].depositHeight <= macro
      BY DEF EvidenceInv, DepositInv, FundedStates, PaidStates
    <2>2. PICK d \in deposits : Pays(d, t) /\ d.height = trades[t].depositHeight
      BY <2>1 DEF EvidenceInv, DepositInv
    <2> QED
      BY <2>1, <2>2 DEF Pays
  <1> QED
    BY <1>1, EvidenceCorrect, PTL

\* The seller is paid only for a handle whose claim by the buyer is final,
\* although the sweep decides on an older map and an older macro height.
THEOREM PayoutsFollow == Spec => [](reorgs = 0 => PayoutFollowsOwnership)
  <1>1. EvidenceInv => (reorgs = 0 => PayoutFollowsOwnership)
    BY DEF EvidenceInv, DecisionInv, Bought, PayoutFollowsOwnership
  <1> QED
    BY <1>1, EvidenceCorrect, PTL

\* The buyer is refunded only for a handle whose claim by a third party is
\* final, as long as no creator lookup fails.
THEOREM RefundsFollow == Spec => [](reorgs = 0 /\ ~LookupMayFail => RefundFollowsOwnership)
  <1>1. EvidenceInv => (reorgs = 0 /\ ~LookupMayFail => RefundFollowsOwnership)
    BY DEF EvidenceInv, DecisionInv, Lost, RefundFollowsOwnership
  <1> QED
    BY <1>1, EvidenceCorrect, PTL

-----------------------------------------------------------------------------
(***************************************************************************)
(* Sums over finite sets, for EscrowBalance.                               *)
(***************************************************************************)
\* A set of numbers that is not empty has a least one.
LEMMA LeastNumber ==
  ASSUME NEW S \in SUBSET Nat, S # {}
  PROVE  \E n \in S : \A m \in S : n <= m
  <1>1. PICK n \in S : \A m \in S : ~(<< m, n >> \in OpToRel(<, Nat))
    BY NatLessThanWellFounded, WFMin
  <1>2. \A m \in S : ~(m < n)
    BY <1>1, Zenon DEF OpToRel
  <1> QED
    BY <1>2

\* What holds of the empty set, and of a set if it holds of each set with one
\* element less, holds of every subset of a finite set.
LEMMA Subsets ==
  ASSUME NEW S, IsFiniteSet(S), NEW Good, {} \in Good,
         \A s \in SUBSET S : s # {} /\ (\A x \in s : s \ {x} \in Good) => s \in Good
  PROVE  \A s \in SUBSET S : s \in Good
  <1> SUFFICES ASSUME NEW s0 \in SUBSET S, s0 \notin Good PROVE FALSE
    OBVIOUS
  <1> DEFINE Sizes == { Cardinality(s) : s \in { s \in SUBSET S : s \notin Good } }
  <1>1. \A s \in SUBSET S : IsFiniteSet(s) /\ Cardinality(s) \in Nat
    BY FS_Subset, FS_CardinalityType
  <1>2. PICK n \in Sizes : \A m \in Sizes : n <= m
    <2>1. Sizes \in SUBSET Nat /\ Sizes # {}
      BY <1>1
    <2> HIDE DEF Sizes
    <2> QED
      BY <2>1, LeastNumber
  <1>3. PICK s \in SUBSET S : s \notin Good /\ n = Cardinality(s)
    BY <1>2
  <1>4. ASSUME NEW x \in s PROVE s \ {x} \in Good
    <2>1. Cardinality(s \ {x}) = n - 1
      BY <1>1, <1>3, FS_RemoveElement
    <2>2. n \in Nat /\ ~(n <= n - 1)
      BY <1>1, <1>3
    <2>3. s \ {x} \in SUBSET S
      BY <1>3
    <2> QED
      BY <1>2, <2>1, <2>2, <2>3
  <1> QED
    BY <1>3, <1>4

Some(s) == CHOOSE x \in s : TRUE

\* g sums v over the subsets of S, taking an element that CHOOSE takes ...
Summed(v, S, g) == g = [s \in SUBSET S |-> IF s = {} THEN 0 ELSE v[Some(s)] + g[s \ {Some(s)}]]

\* ... or any element.
IsSum(v, S, g) ==
  /\ g \in [SUBSET S -> Nat] /\ g[{}] = 0
  /\ \A s \in SUBSET S : \A x \in s : g[s] = v[x] + g[s \ {x}]

\* CHOOSE takes an element.
LEMMA SomeIs == ASSUME NEW s, s # {} PROVE Some(s) \in s
  BY DEF Some

\* Such a sum exists, first for the subsets up to some size.
LEMMA SumsExist ==
  ASSUME NEW S, IsFiniteSet(S), NEW v
  PROVE  \E g : Summed(v, S, g)
  <1> DEFINE Small(n) == { s \in SUBSET S : Cardinality(s) <= n }
             Term(g, s) == IF s = {} THEN 0 ELSE v[Some(s)] + g[s \ {Some(s)}]
             Upto(n, g) == g = [s \in Small(n) |-> Term(g, s)]
             Unknown == { n \in Nat : ~\E g : Upto(n, g) }
  <1>1. \A s \in SUBSET S : IsFiniteSet(s) /\ Cardinality(s) \in Nat /\ Cardinality(s) <= Cardinality(S)
    BY FS_Subset, FS_CardinalityType
  <1>2. \A s \in SUBSET S : s # {} => /\ s \ {Some(s)} \in SUBSET S
                                      /\ Cardinality(s \ {Some(s)}) = Cardinality(s) - 1
    BY <1>1, SomeIs, FS_RemoveElement
  <1>3. 0 \notin Unknown
    <2>1. \A s \in Small(0) : s = {}
      BY <1>1, FS_EmptySet
    <2>2. Upto(0, [s \in Small(0) |-> 0])
      BY <2>1
    <2> QED
      BY <2>2
  <1>4. ASSUME NEW n \in Nat, NEW g, Upto(n, g)
        PROVE  \E f : Upto(n + 1, f)
    <2> DEFINE f == [s \in Small(n + 1) |-> Term(g, s)]
    <2>1. ASSUME NEW s \in Small(n + 1), s # {}
          PROVE  /\ s \ {Some(s)} \in Small(n) /\ s \ {Some(s)} \in Small(n + 1)
                 /\ f[s \ {Some(s)}] = g[s \ {Some(s)}]
      <3>1. s \ {Some(s)} \in Small(n) /\ s \ {Some(s)} \in Small(n + 1)
        BY <1>1, <1>2, <2>1
      <3>2. f[s \ {Some(s)}] = Term(g, s \ {Some(s)})
        BY <3>1
      <3>3. g[s \ {Some(s)}] = Term(g, s \ {Some(s)})
        BY <1>4, <3>1, Zenon
      <3> QED
        BY <3>1, <3>2, <3>3
    <2>2. \A s \in Small(n + 1) : Term(f, s) = Term(g, s)
      <3> HIDE DEF f, Small
      <3> QED
        BY <2>1
    <2>3. f = [s \in Small(n + 1) |-> Term(f, s)]
      <3>1. \A s \in Small(n + 1) : Term(g, s) = Term(f, s)
        BY <2>2
      <3> HIDE DEF Small, Term
      <3> QED
        BY <3>1
    <2> QED
      BY <2>3
  <1>5. Unknown = {}
    <2> SUFFICES ASSUME Unknown # {} PROVE FALSE
      OBVIOUS
    <2>1. PICK n \in Unknown : \A m \in Unknown : n <= m
      <3>1. Unknown \in SUBSET Nat
        OBVIOUS
      <3> HIDE DEF Unknown
      <3> QED
        BY <3>1, LeastNumber
    <2>2. n \in Nat /\ n # 0
      BY <1>3
    <2>3. n - 1 \in Nat /\ n - 1 \notin Unknown /\ (n - 1) + 1 = n
      <3>1. n - 1 \in Nat /\ ~(n <= n - 1) /\ (n - 1) + 1 = n
        BY <2>2
      <3> HIDE DEF Unknown
      <3> QED
        BY <2>1, <3>1
    <2>4. \E g : Upto(n - 1, g)
      <3> HIDE DEF Upto
      <3> QED
        BY <2>3
    <2>5. \E f : Upto((n - 1) + 1, f)
      <3> HIDE DEF Upto
      <3> QED
        BY <1>4, <2>3, <2>4
    <2> QED
      <3> HIDE DEF Upto
      <3> QED
        BY <2>3, <2>5
  <1>6. PICK g : Upto(Cardinality(S), g)
    <2>1. Cardinality(S) \in Nat
      BY FS_CardinalityType
    <2> HIDE DEF Upto
    <2> QED
      BY <1>5, <2>1
  <1>7. Small(Cardinality(S)) = SUBSET S
    BY <1>1
  <1> QED
    BY <1>6, <1>7 DEF Summed

\* The order in which CHOOSE takes the elements does not matter.
LEMMA SummedIsSum ==
  ASSUME NEW S, IsFiniteSet(S), NEW v \in [S -> Nat], NEW g, Summed(v, S, g)
  PROVE  IsSum(v, S, g)
  <1>1. g[{}] = 0
    BY DEF Summed
  <1>2. \A s \in SUBSET S : s # {} => Some(s) \in s /\ g[s] = v[Some(s)] + g[s \ {Some(s)}]
    BY SomeIs DEF Summed
  <1>3. \A s \in SUBSET S : g[s] \in Nat
    <2> DEFINE Good == { s \in SUBSET S : g[s] \in Nat }
    <2>1. {} \in Good
      BY <1>1
    <2>2. ASSUME NEW s \in SUBSET S, s # {}, \A x \in s : s \ {x} \in Good
          PROVE  s \in Good
      <3>1. g[s \ {Some(s)}] \in Nat /\ v[Some(s)] \in Nat
        BY <1>2, <2>2
      <3> QED
        BY <1>2, <2>2, <3>1
    <2>3. \A s \in SUBSET S : s \in Good
      <3> HIDE DEF Good
      <3> QED
        BY <2>1, <2>2, Subsets
    <2> QED
      BY <2>3
  <1>4. \A s \in SUBSET S : \A x \in s : g[s] = v[x] + g[s \ {x}]
    <2> DEFINE Good == { s \in SUBSET S : \A x \in s : g[s] = v[x] + g[s \ {x}] }
    <2>1. {} \in Good
      OBVIOUS
    <2>2. ASSUME NEW s \in SUBSET S, s # {}, \A x \in s : s \ {x} \in Good
          PROVE  s \in Good
      <3> SUFFICES ASSUME NEW y \in s PROVE g[s] = v[y] + g[s \ {y}]
        OBVIOUS
      <3> DEFINE x == Some(s)
      <3>1. x \in s /\ g[s] = v[x] + g[s \ {x}]
        BY <1>2
      <3> HIDE DEF x
      <3>2. CASE x # y
        <4>1. g[s \ {x}] = v[y] + g[(s \ {x}) \ {y}]
          BY <2>2, <3>1, <3>2
        <4>2. g[s \ {y}] = v[x] + g[(s \ {y}) \ {x}]
          BY <2>2, <3>1, <3>2
        <4>3. (s \ {x}) \ {y} = (s \ {y}) \ {x} /\ (s \ {x}) \ {y} \in SUBSET S
          OBVIOUS
        <4>4. v[x] \in Nat /\ v[y] \in Nat /\ g[(s \ {x}) \ {y}] \in Nat
          BY <1>3, <3>1, <4>3
        <4> QED
          BY <3>1, <4>1, <4>2, <4>3, <4>4
      <3> QED
        BY <3>1, <3>2
    <2>3. \A s \in SUBSET S : s \in Good
      <3> HIDE DEF Good
      <3> QED
        BY <2>1, <2>2, Subsets
    <2> QED
      BY <2>3
  <1>5. g \in [SUBSET S -> Nat]
    <2>1. g = [s \in SUBSET S |-> g[s]]
      BY DEF Summed
    <2> QED
      BY <1>3, <2>1
  <1> QED
    BY <1>1, <1>4, <1>5 DEF IsSum

\* A larger set has no smaller sum.
LEMMA SumGrows ==
  ASSUME NEW S, IsFiniteSet(S), NEW v \in [S -> Nat], NEW g, IsSum(v, S, g),
         NEW A \in SUBSET S, NEW B \in SUBSET S, A \subseteq B
  PROVE  g[A] <= g[B]
  <1> DEFINE Good == { s \in SUBSET S : A \subseteq s => g[A] <= g[s] }
  <1>1. g \in [SUBSET S -> Nat] /\ \A s \in SUBSET S : \A x \in s : g[s] = v[x] + g[s \ {x}]
    BY DEF IsSum
  <1>2. {} \in Good
    <2>1. {} \in SUBSET S /\ (A \subseteq {} => A = {})
      OBVIOUS
    <2>2. g[{}] \in Nat
      BY <1>1, <2>1
    <2>3. A = {} => g[A] <= g[{}]
      BY <2>2
    <2> QED
      BY <2>1, <2>3, Zenon
  <1>3. ASSUME NEW s \in SUBSET S, s # {}, \A x \in s : s \ {x} \in Good
        PROVE  s \in Good
    <2> SUFFICES ASSUME A \subseteq s, A # s PROVE g[A] <= g[s]
      BY <1>1
    <2>1. PICK x \in s : x \notin A
      OBVIOUS
    <2>2. g[A] <= g[s \ {x}]
      BY <1>3, <2>1
    <2>3. g[s] = v[x] + g[s \ {x}] /\ v[x] \in Nat /\ g[s \ {x}] \in Nat /\ g[A] \in Nat
      BY <1>1, <2>1
    <2> QED
      BY <2>2, <2>3
  <1>4. \A s \in SUBSET S : s \in Good
    <2> HIDE DEF Good
    <2> QED
      BY <1>2, <1>3, Subsets
  <1> QED
    BY <1>4

\* MapThenSumSet of the amounts of deposits is a sum; it folds by a function as
\* Summed says.
LEMMA ValuesSum ==
  ASSUME NEW S, IsFiniteSet(S), \A d \in S : d.value \in Nat
  PROVE  \E g : /\ IsSum([d \in S |-> d.value], S, g)
                /\ MapThenSumSet(LAMBDA d : d.value, S) = g[S]
  <1> DEFINE v == [d \in S |-> d.value]
             Folds(f) == f = [s \in SUBSET S |-> IF s = {} THEN 0
                                                 ELSE LET x == CHOOSE x \in s : TRUE
                                                      IN  x.value + f[s \ {x}]]
             g == CHOOSE f : Folds(f)
  <1>1. MapThenSumSet(LAMBDA d : d.value, S) = g[S]
    BY Zenon DEF MapThenSumSet, MapThenFoldSet
  <1>2. \A f : Summed(v, S, f) <=> Folds(f)
    <2> SUFFICES ASSUME NEW f
                 PROVE  [s \in SUBSET S |-> IF s = {} THEN 0 ELSE v[Some(s)] + f[s \ {Some(s)}]] =
                        [s \in SUBSET S |-> IF s = {} THEN 0 ELSE LET x == CHOOSE x \in s : TRUE
                                                                  IN  x.value + f[s \ {x}]]
      BY Zenon DEF Summed
    <2>1. \A s \in SUBSET S : s # {} => v[Some(s)] = Some(s).value
      BY SomeIs
    <2> QED
      BY <2>1 DEF Some
  <1>3. v \in [S -> Nat]
    OBVIOUS
  <1>4. Folds(g)
    <2>1. \E f : Folds(f)
      <3> HIDE DEF Folds, v
      <3> QED
        BY <1>2, SumsExist
    <2> HIDE DEF Folds
    <2> QED
      BY <2>1
  <1>5. IsSum(v, S, g)
    <2> HIDE DEF Folds, v, g
    <2> QED
      BY <1>2, <1>3, <1>4, SummedIsSum
  <1> QED
    BY <1>1, <1>5

\* So is that of what the account has sent.
LEMMA OutflowsSum ==
  ASSUME NEW S, IsFiniteSet(S), \A t \in S : Outflow(t) \in Nat
  PROVE  \E g : /\ IsSum([t \in S |-> Outflow(t)], S, g)
                /\ MapThenSumSet(Outflow, S) = g[S]
  <1> DEFINE v == [t \in S |-> Outflow(t)]
             Folds(f) == f = [s \in SUBSET S |-> IF s = {} THEN 0
                                                 ELSE LET x == CHOOSE x \in s : TRUE
                                                      IN  Outflow(x) + f[s \ {x}]]
             g == CHOOSE f : Folds(f)
  <1>1. MapThenSumSet(Outflow, S) = g[S]
    BY Zenon DEF MapThenSumSet, MapThenFoldSet
  <1>2. \A f : Summed(v, S, f) <=> Folds(f)
    <2> SUFFICES ASSUME NEW f
                 PROVE  [s \in SUBSET S |-> IF s = {} THEN 0 ELSE v[Some(s)] + f[s \ {Some(s)}]] =
                        [s \in SUBSET S |-> IF s = {} THEN 0 ELSE LET x == CHOOSE x \in s : TRUE
                                                                  IN  Outflow(x) + f[s \ {x}]]
      BY Zenon DEF Summed
    <2>1. \A s \in SUBSET S : s # {} => v[Some(s)] = Outflow(Some(s))
      BY SomeIs
    <2> QED
      BY <2>1 DEF Some
  <1>3. v \in [S -> Nat]
    OBVIOUS
  <1>4. Folds(g)
    <2>1. \E f : Folds(f)
      <3> HIDE DEF Folds, v
      <3> QED
        BY <1>2, SumsExist
    <2> HIDE DEF Folds
    <2> QED
      BY <2>1
  <1>5. IsSum(v, S, g)
    <2> HIDE DEF Folds, v, g
    <2> QED
      BY <1>2, <1>3, <1>4, SummedIsSum
  <1> QED
    BY <1>1, <1>5

-----------------------------------------------------------------------------
(***************************************************************************)
(* The pooled account: what it owes is covered, deposit by deposit.        *)
(***************************************************************************)
\* The trades EscrowSolvent counts.
Owed == { t \in TradeIds : trades[t].state \in HeldStates /\ ~IsStuckTrade(t) }

\* Those whose seller was paid: the account keeps the fee.
PaidOut == { t \in TradeIds : sends[t].payout > 0 }

\* Those that count as paid although their deposit is on the chain no more.
Undone == { t \in TradeIds : trades[t].state \in PaidStates /\ ~\E d \in deposits : Pays(d, t) }

\* What the escrow account is owed to and keeps, against what it has.
AccountCovers ==
  Price * Cardinality(Owed) + Fee * Cardinality(PaidOut) <= EscrowBalance + Price * Cardinality(Undone)

\* What one trade has taken out, is still owed and leaves as a fee is at most its
\* own deposit.
LEMMA EachTradeIsCovered ==
  ASSUME TypeOK, MoneyInv, NEW t \in TradeIds
  PROVE  /\ Outflow(t) \in Nat
         /\ Outflow(t) + (IF t \in Owed THEN Price ELSE 0) + (IF t \in PaidOut THEN Fee ELSE 0) <= Price
         /\ trades[t].state \notin PaidStates => t \notin Owed /\ t \notin PaidOut /\ Outflow(t) = 0
  <1>1. RowInv(t)
    BY DEF MoneyInv
  <1>2. Price \in Nat /\ Fee \in Nat /\ Fee <= Price
    BY PriceAssumption
  <1>3. CASE Sent(t, 0, 0)
    <2>1. Outflow(t) = 0 /\ t \notin PaidOut
      BY <1>2, <1>3 DEF Sent, Outflow, PaidOut
    <2> QED
      BY <1>2, <2>1 DEF Owed, PaidStates
  <1>4. CASE trades[t].payoutAttempted /\ Sent(t, 1, 0)
    <2>1. Outflow(t) = Price - Fee
      BY <1>2, <1>4 DEF Sent, Outflow
    <2>2. t \notin Owed /\ trades[t].state \in PaidStates
      BY <1>1, <1>4 DEF RowInv, Owed, IsStuckTrade, PaidStates, HeldStates
    <2> QED
      BY <1>2, <2>1, <2>2
  <1>5. CASE trades[t].refundAttempted /\ Sent(t, 0, 1)
    <2>1. Outflow(t) = Price /\ t \notin PaidOut
      BY <1>2, <1>5 DEF Sent, Outflow, PaidOut
    <2>2. t \notin Owed /\ trades[t].state \in PaidStates
      BY <1>1, <1>5 DEF RowInv, Owed, IsStuckTrade, PaidStates, HeldStates
    <2> QED
      BY <1>2, <2>1, <2>2
  <1> QED
    BY <1>1, <1>3, <1>4, <1>5 DEF RowInv

\* A set counted with one element more, at an amount for each.
LEMMA CountedWith ==
  ASSUME NEW S, NEW U, IsFiniteSet(U), NEW t \in U, NEW k \in Nat
  PROVE  /\ k * Cardinality(S \cap (U \ {t})) \in Nat
         /\ k * Cardinality(S \cap U) = k * Cardinality(S \cap (U \ {t})) + (IF t \in S THEN k ELSE 0)
  <1> DEFINE n == Cardinality(S \cap (U \ {t}))
  <1>1. n \in Nat /\ IsFiniteSet(S \cap (U \ {t}))
    BY FS_Subset, FS_CardinalityType
  <1>2. k * n \in Nat /\ k * (n + 1) = k * n + k
    <2> HIDE DEF n
    <2> QED
      BY <1>1
  <1>3. Cardinality(S \cap U) = n + (IF t \in S THEN 1 ELSE 0)
    <2>1. CASE t \in S
      <3>1. S \cap U = (S \cap (U \ {t})) \cup {t} /\ t \notin S \cap (U \ {t})
        BY <2>1
      <3> QED
        BY <1>1, <2>1, <3>1, FS_AddElement
    <2>2. CASE t \notin S
      <3>1. S \cap U = S \cap (U \ {t})
        BY <2>2
      <3> QED
        BY <1>1, <2>2, <3>1
    <2> QED
      BY <2>1, <2>2
  <1> QED
    <2> HIDE DEF n
    <2>1. k * Cardinality(S \cap U) = k * n + (IF t \in S THEN k ELSE 0)
      BY <1>1, <1>2, <1>3
    <2> QED
      BY <1>2, <2>1 DEF n

\* Trade by trade: a deposit has one reference, so what covers one trade covers
\* no other.
LEMMA DepositsCover ==
  ASSUME TypeOK, MoneyInv, IsFiniteSet(deposits)
  PROVE  AccountCovers
  <1>1. /\ IsFiniteSet(TradeIds)
        /\ Price \in Nat /\ Fee \in Nat
        /\ \A d \in deposits : d.value \in Nat /\ d.trade \in TradeIds
    BY TradesAssumption, PriceAssumption, ValuesAssumption DEF TypeOK, DepositTx
  <1>2. \A t \in TradeIds :
          /\ Outflow(t) \in Nat
          /\ Outflow(t) + (IF t \in Owed THEN Price ELSE 0) + (IF t \in PaidOut THEN Fee ELSE 0) <= Price
          /\ trades[t].state \notin PaidStates => t \notin Owed /\ t \notin PaidOut /\ Outflow(t) = 0
    BY EachTradeIsCovered
  <1>3. PICK in : /\ IsSum([d \in deposits |-> d.value], deposits, in)
                  /\ MapThenSumSet(LAMBDA d : d.value, deposits) = in[deposits]
    BY <1>1, ValuesSum
  <1>4. PICK out : /\ IsSum([t \in TradeIds |-> Outflow(t)], TradeIds, out)
                   /\ MapThenSumSet(Outflow, TradeIds) = out[TradeIds]
    BY <1>1, <1>2, OutflowsSum
  <1> DEFINE Of(U) == { d \in deposits : d.trade \in U }
             owed(U) == Price * Cardinality(Owed \cap U)
             fees(U) == Fee * Cardinality(PaidOut \cap U)
             gone(U) == Price * Cardinality(Undone \cap U)
             Good == { U \in SUBSET TradeIds : owed(U) + fees(U) + out[U] <= in[Of(U)] + gone(U) }
  <1>5. /\ in \in [SUBSET deposits -> Nat]
        /\ \A s \in SUBSET deposits : \A d \in s : in[s] = d.value + in[s \ {d}]
        /\ in[{}] = 0
    BY <1>3 DEF IsSum
  <1>6. /\ out \in [SUBSET TradeIds -> Nat]
        /\ \A s \in SUBSET TradeIds : \A t \in s : out[s] = Outflow(t) + out[s \ {t}]
        /\ out[{}] = 0
    BY <1>4 DEF IsSum
  <1>7. {} \in Good
    <2>1. Owed \cap {} = {} /\ PaidOut \cap {} = {} /\ Undone \cap {} = {} /\ Of({}) = {} /\ Cardinality({}) = 0
      BY FS_EmptySet
    <2>2. owed({}) = Price * 0 /\ fees({}) = Fee * 0 /\ gone({}) = Price * 0 /\ in[Of({})] = 0
      BY <1>5, <2>1
    <2>3. owed({}) + fees({}) + out[{}] <= in[Of({})] + gone({})
      <3> HIDE DEF owed, fees, gone, Of
      <3> QED
        BY <1>1, <1>6, <2>2
    <2> QED
      BY <2>3
  <1>8. ASSUME NEW U \in SUBSET TradeIds, U # {}, \A t \in U : U \ {t} \in Good
        PROVE  U \in Good
    <2>1. PICK t \in U : TRUE
      BY <1>8
    <2> DEFINE W == U \ {t}
    <2>2. /\ W \in SUBSET TradeIds /\ Of(W) \in SUBSET deposits /\ Of(U) \in SUBSET deposits
          /\ Of(W) \subseteq Of(U) /\ IsFiniteSet(U)
      BY <1>1, <2>1, FS_Subset
    <2>3. owed(W) + fees(W) + out[W] <= in[Of(W)] + gone(W)
      BY <1>8
    <2>4. /\ owed(W) \in Nat /\ owed(U) = owed(W) + (IF t \in Owed THEN Price ELSE 0)
          /\ fees(W) \in Nat /\ fees(U) = fees(W) + (IF t \in PaidOut THEN Fee ELSE 0)
          /\ gone(W) \in Nat /\ gone(U) = gone(W) + (IF t \in Undone THEN Price ELSE 0)
      <3>1. owed(W) \in Nat /\ owed(U) = owed(W) + (IF t \in Owed THEN Price ELSE 0)
        BY <1>1, <2>1, <2>2, CountedWith
      <3>2. fees(W) \in Nat /\ fees(U) = fees(W) + (IF t \in PaidOut THEN Fee ELSE 0)
        BY <1>1, <2>1, <2>2, CountedWith
      <3>3. gone(W) \in Nat /\ gone(U) = gone(W) + (IF t \in Undone THEN Price ELSE 0)
        BY <1>1, <2>1, <2>2, CountedWith
      <3> HIDE DEF W, owed, fees, gone
      <3> QED
        BY <3>1, <3>2, <3>3
    <2>5. out[U] = Outflow(t) + out[W] /\ out[W] \in Nat /\ Outflow(t) \in Nat
      BY <1>2, <1>6, <2>2
    <2>6. in[Of(W)] \in Nat /\ in[Of(U)] \in Nat
      BY <1>5, <2>2
    <2>7. in[Of(W)] + (IF trades[t].state \in PaidStates /\ t \notin Undone THEN Price ELSE 0) <= in[Of(U)]
      <3>0. [d \in deposits |-> d.value] \in [deposits -> Nat]
        BY <1>1
      <3>1. CASE trades[t].state \in PaidStates /\ t \notin Undone
        <4>1. PICK d \in deposits : d.trade = t /\ d.value = Price
          BY <2>1, <3>1 DEF Undone, Pays
        <4>2. d \in Of(U) /\ Of(W) \subseteq Of(U) \ {d} /\ Of(U) \ {d} \in SUBSET deposits
          BY <4>1
        <4>3. in[Of(U)] = Price + in[Of(U) \ {d}] /\ in[Of(U) \ {d}] \in Nat
          BY <1>5, <2>2, <4>1, <4>2
        <4>4. in[Of(W)] <= in[Of(U) \ {d}]
          <5> HIDE DEF Of
          <5> QED
            BY <1>3, <2>2, <3>0, <4>2, SumGrows
        <4> QED
          BY <1>1, <2>6, <3>1, <4>3, <4>4
      <3>2. CASE ~(trades[t].state \in PaidStates /\ t \notin Undone)
        <4>1. in[Of(W)] <= in[Of(U)]
          <5> HIDE DEF Of
          <5> QED
            BY <1>3, <2>2, <3>0, SumGrows
        <4> QED
          BY <2>6, <3>2, <4>1
      <3> QED
        BY <3>1, <3>2
    <2>8. /\ Outflow(t) + (IF t \in Owed THEN Price ELSE 0) + (IF t \in PaidOut THEN Fee ELSE 0) <= Price
          /\ trades[t].state \notin PaidStates => t \notin Owed /\ t \notin PaidOut /\ Outflow(t) = 0
      BY <1>2
    <2>9. owed(U) + fees(U) + out[U] <= in[Of(U)] + gone(U)
      <3> DEFINE iw == in[Of(W)]
                 iu == in[Of(U)]
      <3>1. iw \in Nat /\ iu \in Nat /\ owed(W) + fees(W) + out[W] <= iw + gone(W)
        BY <2>3, <2>6
      <3>2. iw + (IF trades[t].state \in PaidStates /\ t \notin Undone THEN Price ELSE 0) <= iu
        BY <2>7
      <3>3. owed(U) + fees(U) + out[U] <= iu + gone(U)
        <4> HIDE DEF W, owed, fees, gone, iw, iu
        <4>1. CASE trades[t].state \in PaidStates
          BY <1>1, <2>4, <2>5, <2>8, <3>1, <3>2, <4>1
        <4>2. CASE trades[t].state \notin PaidStates
          BY <1>1, <2>4, <2>5, <2>8, <3>1, <3>2, <4>2
        <4> QED
          BY <4>1, <4>2
      <3> QED
        BY <3>3
    <2> QED
      BY <2>9
  <1>9. TradeIds \in Good
    <2> HIDE DEF Good
    <2>1. \A U \in SUBSET TradeIds : U \in Good
      BY <1>1, <1>7, <1>8, Subsets
    <2> QED
      BY <2>1
  <1>10. /\ Of(TradeIds) = deposits
         /\ Owed \cap TradeIds = Owed /\ PaidOut \cap TradeIds = PaidOut /\ Undone \cap TradeIds = Undone
    BY <1>1 DEF Owed, PaidOut, Undone
  <1> DEFINE o == Price * Cardinality(Owed)
             f == Fee * Cardinality(PaidOut)
             g == Price * Cardinality(Undone)
  <1>11. o + f + out[TradeIds] <= in[deposits] + g
    <2>1. owed(TradeIds) + fees(TradeIds) + out[TradeIds] <= in[Of(TradeIds)] + gone(TradeIds)
      BY <1>9
    <2>2. owed(TradeIds) = o /\ fees(TradeIds) = f /\ gone(TradeIds) = g
      <3> HIDE DEF Of
      <3> QED
        BY <1>10
    <2>3. in[Of(TradeIds)] = in[deposits]
      <3> HIDE DEF Of
      <3> QED
        BY <1>10
    <2> HIDE DEF Of, owed, fees, gone, o, f, g
    <2> QED
      BY <2>1, <2>2, <2>3
  <1>12. out[TradeIds] \in Nat /\ in[deposits] \in Nat
    BY <1>5, <1>6
  <1>13. o \in Nat /\ f \in Nat /\ g \in Nat
    <2>1. Cardinality(Owed) \in Nat /\ Cardinality(PaidOut) \in Nat /\ Cardinality(Undone) \in Nat
      BY <1>1, FS_Subset, FS_CardinalityType DEF Owed, PaidOut, Undone
    <2> QED
      BY <1>1, <2>1
  <1>14. EscrowBalance = in[deposits] - out[TradeIds]
    BY <1>3, <1>4, Zenon DEF EscrowBalance
  <1>15. o + f <= EscrowBalance + g
    <2> HIDE DEF o, f, g
    <2> QED
      BY <1>11, <1>12, <1>13, <1>14
  <1> QED
    BY <1>15 DEF AccountCovers

\* The chain holds finitely many deposits.
LEMMA DepositsFinite == TypeOK /\ IsFiniteSet(deposits) /\ [Next]_vars => IsFiniteSet(deposits')
  <1> SUFFICES ASSUME TypeOK, IsFiniteSet(deposits), [Next]_vars PROVE IsFiniteSet(deposits')
    OBVIOUS
  <1>1. CASE Reorg
    <2>1. deposits' \in SUBSET deposits
      BY <1>1 DEF Reorg
    <2> QED
      BY <2>1, FS_Subset
  <1>2. ASSUME NEW t \in TradeIds, NEW u \in Users, NEW v \in Values, SendDeposit(t, u, v)
        PROVE  IsFiniteSet(deposits')
    BY <1>2, FS_AddElement DEF SendDeposit
  <1>3. CASE Chain
    BY <1>1, <1>2, <1>3 DEF Chain, ClaimOnChain, ReleaseOnChain, MacroBlock
  <1>4. CASE RegistrySync \/ Failures \/ UNCHANGED vars
    BY <1>4 DEF RegistrySync, Failures, EWAbort, EWUnread, ewFrame, OWUnread, OWGiveUp, OWAbort,
       Crash, owFrame, chainVars, vars
  <1>5. CASE Handlers
    BY <1>5 DEF Handlers, List, Reserve, FinishReserve, Cancel, Expire, SubmitRelease, SubmitClaim, chainVars
  <1>6. CASE EWStep
    BY <1>6 DEF EWStep, ewFrame, chainVars, EWFetch, EWMacro, EWRecord, EWRaced, EWMatchDone, EWFinalizeDone,
       EWEnd, EWSkip, EWMatch, EWFinalize, EWAdvance
  <1>7. CASE OWStep
    BY <1>7 DEF OWStep, owFrame, chainVars, OWStart, OWEnd, OWBuyerOwns, OWOtherOwns, OWSkip, Visit,
       WalkRead, WalkHop, WalkDone, HopRaced, FailRead, FailHop, FailAfterRelease, BeginRefund,
       Settle, MarkPayout, SendPayout, AppendPayout, AppendFee, FinishSettle,
       Refund, MarkRefund, SendRefund, AppendRefund, FinishRefund
  <1> QED
    BY <1>3, <1>4, <1>5, <1>6, <1>7 DEF Next

\* The account has what it is owed to and the fees it earned, but for one deposit
\* of each trade whose deposit a reorganisation took, and it has a finite number of
\* deposits to count.
THEOREM AccountIsCovered == Spec => []AccountCovers
  <1>1. Init => IsFiniteSet(deposits)
    BY FS_EmptySet DEF Init
  <1>2. Spec => []IsFiniteSet(deposits)
    <2>1. TypeOK /\ IsFiniteSet(deposits) /\ [Next]_vars => IsFiniteSet(deposits)'
      BY DepositsFinite
    <2> QED
      BY <1>1, <2>1, TypeCorrect, PTL DEF Spec
  <1>3. TypeOK /\ MoneyInv /\ IsFiniteSet(deposits) => AccountCovers
    BY DepositsCover
  <1> QED
    BY <1>2, <1>3, TypeCorrect, MoneyCorrect, PTL

\* What the amounts of AccountCovers are.
LEMMA AmountTypes ==
  ASSUME TypeOK, IsFiniteSet(deposits), MoneyInv
  PROVE  /\ Price * Cardinality(Owed) \in Nat /\ Fee * Cardinality(PaidOut) \in Nat
         /\ Price * Cardinality(Undone) \in Nat /\ EscrowBalance \in Int
  <1>1. /\ IsFiniteSet(TradeIds) /\ Price \in Nat /\ Fee \in Nat
        /\ \A d \in deposits : d.value \in Nat
        /\ \A t \in TradeIds : Outflow(t) \in Nat
    BY TradesAssumption, PriceAssumption, ValuesAssumption, EachTradeIsCovered DEF TypeOK, DepositTx
  <1>2. Cardinality(Owed) \in Nat /\ Cardinality(PaidOut) \in Nat /\ Cardinality(Undone) \in Nat
    BY <1>1, FS_Subset, FS_CardinalityType DEF Owed, PaidOut, Undone
  <1>3. PICK in : /\ IsSum([d \in deposits |-> d.value], deposits, in)
                  /\ MapThenSumSet(LAMBDA d : d.value, deposits) = in[deposits]
    BY <1>1, ValuesSum
  <1>4. PICK out : /\ IsSum([t \in TradeIds |-> Outflow(t)], TradeIds, out)
                   /\ MapThenSumSet(Outflow, TradeIds) = out[TradeIds]
    BY <1>1, OutflowsSum
  <1>5. EscrowBalance = in[deposits] - out[TradeIds]
    BY <1>3, <1>4, Zenon DEF EscrowBalance
  <1>6. in[deposits] \in Nat /\ out[TradeIds] \in Nat
    BY <1>3, <1>4 DEF IsSum
  <1> QED
    BY <1>1, <1>2, <1>5, <1>6

\* As long as no block is replaced, every paid trade has its deposit.
LEMMA NoneUndone == EvidenceInv => (reorgs = 0 => Undone = {})
  BY DEF EvidenceInv, DepositInv, Undone

\* The pooled account holds the price of every trade it is owed to, however many
\* trades share it: no trade is ever paid with another one's deposit.
THEOREM AlwaysSolvent == Spec => [](reorgs = 0 => EscrowSolvent)
  <1>1. Init => IsFiniteSet(deposits)
    BY FS_EmptySet DEF Init
  <1>2. Spec => []IsFiniteSet(deposits)
    <2>1. TypeOK /\ IsFiniteSet(deposits) /\ [Next]_vars => IsFiniteSet(deposits)'
      BY DepositsFinite
    <2> QED
      BY <1>1, <2>1, TypeCorrect, PTL DEF Spec
  <1>3. ASSUME TypeOK, MoneyInv, EvidenceInv, IsFiniteSet(deposits), reorgs = 0
        PROVE  EscrowSolvent
    <2> DEFINE o == Price * Cardinality(Owed)
               f == Fee * Cardinality(PaidOut)
    <2>1. Cardinality(Undone) = 0
      BY <1>3, NoneUndone, FS_EmptySet
    <2>2. Price * Cardinality(Undone) = 0
      BY <2>1, PriceAssumption
    <2>3. o \in Nat /\ f \in Nat /\ EscrowBalance \in Int
      BY <1>3, AmountTypes
    <2>4. o + f <= EscrowBalance + 0
      BY <1>3, <2>2, DepositsCover DEF AccountCovers
    <2>5. o <= EscrowBalance
      <3> HIDE DEF o, f
      <3> QED
        BY <2>3, <2>4
    <2> QED
      BY <2>5 DEF EscrowSolvent, Owed
  <1> QED
    BY <1>2, <1>3, TypeCorrect, MoneyCorrect, EvidenceCorrect, PTL

-----------------------------------------------------------------------------
(***************************************************************************)
(* Whatever blocks are replaced: what can be missing, and since when.      *)
(***************************************************************************)
\* heldStates on the admin page, and the trades it shows as stuck among them.
Held == { t \in TradeIds : trades[t].state \in HeldStates }
HeldStuck == { t \in Held : IsStuckTrade(t) }

\* The page's expected balance, and the fees earned, against the account's.
GapIsExplained ==
  Price * Cardinality(Held) + Fee * Cardinality(PaidOut)
    <= EscrowBalance + Price * (Cardinality(Undone) + Cardinality(HeldStuck))

\* A held trade is owed to or stuck.
LEMMA HeldSplits ==
  ASSUME IsFiniteSet(TradeIds)
  PROVE  /\ Cardinality(Owed) \in Nat /\ Cardinality(HeldStuck) \in Nat /\ Cardinality(Undone) \in Nat
         /\ Cardinality(Held) = Cardinality(Owed) + Cardinality(HeldStuck)
  <1>1. IsFiniteSet(Owed) /\ IsFiniteSet(HeldStuck) /\ IsFiniteSet(Undone)
    BY FS_Subset DEF Owed, HeldStuck, Held, Undone
  <1>2. Owed \cap HeldStuck = {} /\ Owed \cup HeldStuck = Held
    BY DEF Owed, HeldStuck, Held
  <1>3. /\ Cardinality(Owed) \in Nat /\ Cardinality(HeldStuck) \in Nat /\ Cardinality(Undone) \in Nat
        /\ Cardinality({}) = 0
    BY <1>1, FS_CardinalityType, FS_EmptySet
  <1>4. Cardinality(Owed \cup HeldStuck)
          = Cardinality(Owed) + Cardinality(HeldStuck) - Cardinality(Owed \cap HeldStuck)
    BY <1>1, FS_Union
  <1>5. Cardinality(Held) = Cardinality(Owed) + Cardinality(HeldStuck) - 0
    BY <1>2, <1>3, <1>4, Zenon
  <1> QED
    BY <1>3, <1>5

\* The admin page's "gap below expected": whatever crashes, fails or is replaced,
\* the chain balance is below the expected one by at most a price for each trade
\* shown as stuck and a price for each trade whose deposit a reorganisation took.
THEOREM GapAlwaysExplained == Spec => []GapIsExplained
  <1>1. ASSUME TypeOK, MoneyInv, IsFiniteSet(deposits), AccountCovers
        PROVE  GapIsExplained
    <2> DEFINE o == Cardinality(Owed)
               s == Cardinality(HeldStuck)
               u == Cardinality(Undone)
               f == Fee * Cardinality(PaidOut)
    <2>1. o \in Nat /\ s \in Nat /\ u \in Nat /\ Cardinality(Held) = o + s
      BY TradesAssumption, HeldSplits
    <2>2. Price * o + f <= EscrowBalance + Price * u
      BY <1>1 DEF AccountCovers
    <2>3. Price * o \in Nat /\ f \in Nat /\ Price * u \in Nat /\ EscrowBalance \in Int
      BY <1>1, AmountTypes
    <2>4. Price * (o + s) = Price * o + Price * s /\ Price * (u + s) = Price * u + Price * s /\ Price * s \in Nat
      <3> HIDE DEF o, s, u
      <3> QED
        BY <2>1, PriceAssumption
    <2>5. Price * Cardinality(Held) + f <= EscrowBalance + Price * (u + s)
      <3> DEFINE po == Price * o
                 ps == Price * s
                 pu == Price * u
      <3>1. Price * Cardinality(Held) = po + ps
        <4> HIDE DEF o, s
        <4> QED
          BY <2>1, <2>4
      <3>2. Price * (u + s) = pu + ps
        BY <2>4
      <3>3. po + f <= EscrowBalance + pu /\ po \in Nat /\ ps \in Nat /\ pu \in Nat
        BY <2>2, <2>3, <2>4
      <3>4. po + ps + f <= EscrowBalance + (pu + ps)
        <4> HIDE DEF po, ps, pu, f
        <4> QED
          BY <2>3, <3>3 DEF f
      <3> HIDE DEF po, ps, pu, f, o, s, u
      <3> QED
        BY <3>1, <3>2, <3>4
    <2> QED
      BY <2>5 DEF GapIsExplained
  <1>2. Init => IsFiniteSet(deposits)
    BY FS_EmptySet DEF Init
  <1>3. TypeOK /\ IsFiniteSet(deposits) /\ [Next]_vars => IsFiniteSet(deposits)'
    BY DepositsFinite
  <1> QED
    BY <1>1, <1>2, <1>3, TypeCorrect, MoneyCorrect, AccountIsCovered, PTL DEF Spec

\* A row that exists keeps its handle and parties in every step.
LEMMA RowsStay ==
  ASSUME TypeOK, [Next]_vars
  PROVE  \A x \in TradeIds : Same(x)
  <1>0. trades \in [TradeIds -> Trade]
    BY DEF TypeOK, StoreTypeOK
  <1>1. CASE Ordinary
    BY <1>1 DEF Ordinary
  <1>2. ASSUME NEW t \in TradeIds, NEW row \in Trade, NEW to \in {"DEPOSIT_FINALIZING", "FUNDED"},
               row.handle = trades[t].handle, row.buyer = trades[t].buyer, row.seller = trades[t].seller,
               trades' = [trades EXCEPT ![t] = [row EXCEPT !.state = to]]
        PROVE  \A x \in TradeIds : Same(x)
    <2>1. /\ trades'[t] = [row EXCEPT !.state = to]
          /\ \A x \in TradeIds \ {t} : trades'[x] = trades[x]
      BY <1>0, <1>2
    <2>2. /\ trades'[t].state # "NONE"
          /\ trades'[t].handle = trades[t].handle
          /\ trades'[t].buyer = trades[t].buyer /\ trades'[t].seller = trades[t].seller
      BY <1>2, <2>1 DEF Trade
    <2> QED
      BY <2>1, <2>2 DEF Same
  <1>3. CASE EWRecord
    <2>1. PICK hit \in DepositTx : hit = ew.hit
      BY <1>3 DEF EWRecord, TypeOK
    <2>2. PICK t \in TradeIds : t = hit.trade /\ hit.height \in Nat
      BY DEF DepositTx
    <2> DEFINE row == [trades[t] EXCEPT !.depositHeight = hit.height]
    <2>3. trades' = [trades EXCEPT ![t] = [row EXCEPT !.state = "DEPOSIT_FINALIZING"]]
      BY <1>3, <2>1, <2>2 DEF EWRecord, Transition
    <2>4. /\ row \in Trade
          /\ row.handle = trades[t].handle /\ row.buyer = trades[t].buyer /\ row.seller = trades[t].seller
      BY <1>0, <2>2 DEF Trade
    <2> HIDE DEF row
    <2> QED
      BY <1>2, <2>3, <2>4
  <1>4. ASSUME NEW t \in TradeIds, EWFinalize(t)
        PROVE  \A x \in TradeIds : Same(x)
    <2>1. trades' = [trades EXCEPT ![t] = [trades[t] EXCEPT !.state = "FUNDED"]]
      BY <1>4 DEF EWFinalize, Transition
    <2> QED
      BY <1>0, <1>2, <2>1
  <1> QED
    BY <1>1, <1>3, <1>4, MostStepsAreOrdinary

\* A trade whose deposit is final.
Secured(t) ==
  trades[t].state # "NONE" /\ \E d \in deposits : Pays(d, t) /\ d.height <= macro

\* Neither a reorganisation nor any other step takes away a final deposit.
LEMMA SecuredStays ==
  ASSUME TypeOK, TypeOK', [Next]_vars, NEW t \in TradeIds, Secured(t)
  PROVE  Secured(t)'
  <1>1. Same(t)
    BY RowsStay
  <1>2. PICK d \in deposits : Pays(d, t) /\ d.height <= macro
    BY DEF Secured
  <1>3. d.height \in Nat /\ macro \in Nat /\ macro' \in Nat
    BY DEF TypeOK, DepositTx
  <1>4. d \in deposits' /\ macro <= macro'
    <2>1. CASE Reorg
      BY <1>2, <1>3, <2>1 DEF Reorg
    <2>2. CASE ~Reorg
      BY <2>2, ChainGrows DEF Grows
    <2> QED
      BY <2>1, <2>2
  <1>5. trades'[t].state # "NONE" /\ trades'[t].buyer = trades[t].buyer
    BY <1>1 DEF Secured, Same
  <1> QED
    BY <1>2, <1>3, <1>4, <1>5 DEF Secured, Pays

\* A trade loses its deposit only when a block is replaced or when the sweep
\* records a deposit that was replaced after it was fetched, and never once the
\* deposit was final.
UndoneOnlyBeforeFinal ==
  \A t \in TradeIds : t \notin Undone /\ t \in Undone' => (Reorg \/ EWRecord) /\ ~Secured(t)

\* "Only macro finality moves the trade to FUNDED": why it has to.  A deposit that
\* is final keeps its trade out of Undone for ever, and no other step of a
\* handler, a sweep or a crash puts one in.
THEOREM FinalIsNeverUndone == Spec => [][UndoneOnlyBeforeFinal]_vars
  <1>1. ASSUME TypeOK, TypeOK', [Next]_vars
        PROVE  UndoneOnlyBeforeFinal
    <2> SUFFICES ASSUME NEW t \in TradeIds, t \notin Undone, t \in Undone'
                 PROVE  (Reorg \/ EWRecord) /\ ~Secured(t)
      BY DEF UndoneOnlyBeforeFinal
    <2>1. trades'[t].state \in PaidStates /\ ~\E d \in deposits' : Pays(d, t)'
      BY DEF Undone
    <2>2. ~Secured(t)
      <3>1. ~Secured(t)'
        BY <2>1 DEF Secured
      <3> QED
        BY <1>1, <3>1, SecuredStays
    <2>3. ASSUME ~Reorg, ~EWRecord PROVE FALSE
      <3>1. Grows /\ Same(t)
        BY <1>1, <2>3, ChainGrows, RowsStay
      <3>2. trades[t].state \in PaidStates
        <4>1. CASE Ordinary
          BY <2>1, <4>1 DEF Ordinary, SameDeposit
        <4>2. ASSUME NEW x \in TradeIds, EWFinalize(x)
              PROVE  trades[t].state \in PaidStates
          <5>1. /\ trades[x].state = "DEPOSIT_FINALIZING"
                /\ trades' = [trades EXCEPT ![x] = [trades[x] EXCEPT !.state = "FUNDED"]]
            BY <4>2 DEF EWFinalize, Finalized, Transition
          <5> QED
            BY <1>1, <2>1, <5>1 DEF TypeOK, StoreTypeOK, PaidStates, HeldStates
        <4> QED
          BY <1>1, <2>3, <4>1, <4>2, MostStepsAreOrdinary
      <3>3. PICK d \in deposits : Pays(d, t)
        BY <3>2 DEF Undone
      <3>4. trades[t].state # "NONE" /\ trades'[t].buyer = trades[t].buyer
        BY <3>1, <3>2 DEF Same, PaidStates, HeldStates
      <3>5. d \in deposits' /\ Pays(d, t)'
        BY <3>1, <3>3, <3>4, PaysStays DEF Grows
      <3> QED
        BY <2>1, <3>5
    <2> QED
      BY <2>2, <2>3
  <1> QED
    BY <1>1, TypeCorrect, PTL DEF Spec

\* Whatever is replaced, the macro heights a sweep holds were, a funded trade was
\* recorded at one of them or below, and the owner at the head or at the last macro
\* block has a claim on the chain.
MacroInv ==
  /\ ew.macro <= macro /\ ow.macro <= macro
  /\ \A t \in TradeIds : trades[t].state \in FundedStates => trades[t].depositHeight <= macro

OwnerInv ==
  \A h \in Handles :
    /\ head[h].owner # None => Claimed(h, head[h]) /\ head[h].height <= height
    /\ final[h].owner # None => Claimed(h, final[h]) /\ final[h].height <= macro

\* The last macro block is never taken back.
LEMMA MacroGrows == ASSUME TypeOK, [Next]_vars PROVE macro <= macro'
  <1>1. CASE Reorg
    BY <1>1 DEF Reorg, TypeOK
  <1>2. CASE ~Reorg
    BY <1>2, ChainGrows DEF Grows
  <1> QED
    BY <1>1, <1>2

\* The heights the sweeps compare with stay below the last macro block.
LEMMA MacroStep ==
  ASSUME TypeOK, TypeOK', MacroInv, [Next]_vars
  PROVE  MacroInv'
  <1>1. macro \in Nat /\ macro' \in Nat /\ ew.macro \in Nat /\ ow.macro \in Nat /\ macro <= macro'
    BY MacroGrows DEF TypeOK, EWStates, OWStates
  <1>2. trades \in [TradeIds -> Trade] /\ trades' \in [TradeIds -> Trade]
    BY DEF TypeOK, StoreTypeOK
  <1>3. ew'.macro <= macro' /\ ow'.macro <= macro'
    BY <1>1, EWHoldsIs, OWMacroIs DEF MacroInv
  <1>4. ASSUME NEW t \in TradeIds, trades'[t].state \in FundedStates
        PROVE  trades'[t].depositHeight <= macro'
    <2>0. trades[t].depositHeight \in Nat
      BY <1>2 DEF Trade
    <2>1. CASE Ordinary
      <3>1. trades[t].state \in FundedStates /\ trades'[t].depositHeight = trades[t].depositHeight
        BY <1>4, <2>1 DEF Ordinary, SameDeposit, FundedStates, PaidStates
      <3> QED
        BY <1>1, <2>0, <3>1 DEF MacroInv
    <2>2. CASE EWRecord
      <3>1. PICK hit \in DepositTx : hit = ew.hit
        BY <2>2 DEF EWRecord, TypeOK
      <3>2. PICK x \in TradeIds : x = hit.trade
        BY DEF DepositTx
      <3> DEFINE row == [trades[x] EXCEPT !.depositHeight = hit.height]
      <3>3. trades' = [trades EXCEPT ![x] = [row EXCEPT !.state = "DEPOSIT_FINALIZING"]]
        BY <2>2, <3>1, <3>2 DEF EWRecord, Transition
      <3>4. [row EXCEPT !.state = "DEPOSIT_FINALIZING"].state = "DEPOSIT_FINALIZING"
        BY <1>2 DEF Trade
      <3> HIDE DEF row
      <3>5. t # x /\ trades'[t] = trades[t]
        BY <1>2, <1>4, <3>3, <3>4 DEF FundedStates
      <3> QED
        BY <1>1, <1>4, <2>0, <3>5 DEF MacroInv
    <2>3. ASSUME NEW x \in TradeIds, EWFinalize(x)
          PROVE  trades'[t].depositHeight <= macro'
      <3>1. /\ trades[x].depositHeight <= ew.macro
            /\ trades' = [trades EXCEPT ![x] = [trades[x] EXCEPT !.state = "FUNDED"]]
        BY <2>3 DEF EWFinalize, Finalized, Transition
      <3>2. CASE t = x
        <4>1. trades'[t].depositHeight = trades[t].depositHeight
          BY <1>2, <3>1, <3>2 DEF Trade
        <4> QED
          BY <1>1, <2>0, <3>1, <3>2, <4>1 DEF MacroInv
      <3>3. CASE t # x
        <4>1. trades'[t] = trades[t]
          BY <1>2, <3>1, <3>3
        <4> QED
          BY <1>1, <1>4, <2>0, <4>1 DEF MacroInv
      <3> QED
        BY <3>2, <3>3
    <2> QED
      BY <2>1, <2>2, <2>3, MostStepsAreOrdinary
  <1> QED
    BY <1>3, <1>4 DEF MacroInv

\* An owner at the head has claimed the handle, through any reorganisation.
LEMMA OwnerStep ==
  ASSUME TypeOK, TypeOK', OwnerInv, [Next]_vars
  PROVE  OwnerInv'
  <1>0. /\ head \in [Handles -> Claim] /\ final \in [Handles -> Claim]
        /\ height \in Nat /\ macro \in Nat /\ height' \in Nat /\ macro' \in Nat
        /\ \A h \in Handles : head[h].height \in Nat /\ final[h].height \in Nat
    BY DEF TypeOK, Claim
  <1>1. CASE UNCHANGED << head, final, claims, height, macro >>
    BY <1>1 DEF OwnerInv, Claimed
  <1>2. ASSUME NEW h \in Handles, NEW u \in Users, ClaimOnChain(h, u)
        PROVE  OwnerInv'
    <2>1. /\ head' = [head EXCEPT ![h] = Owned(u, height')] /\ UNCHANGED << final, macro >>
          /\ height' = height + 1
          /\ claims' = claims \cup {[handle |-> h, owner |-> u, height |-> height']}
      BY <1>2 DEF ClaimOnChain, NewBlock
    <2>2. Owned(u, height').owner = u /\ Owned(u, height').height = height'
      BY DEF Owned
    <2>3. ASSUME NEW x \in Handles, head'[x].owner # None
          PROVE  Claimed(x, head[x])' /\ head'[x].height <= height'
      <3>1. CASE x = h
        <4>1. head'[x] = Owned(u, height')
          BY <1>0, <2>1, <3>1
        <4> QED
          BY <1>0, <2>1, <2>2, <3>1, <4>1 DEF Claimed
      <3>2. CASE x # h
        <4>1. head'[x] = head[x]
          BY <1>0, <2>1, <3>2
        <4>2. Claimed(x, head[x]) /\ head[x].height <= height
          BY <2>3, <4>1 DEF OwnerInv
        <4> QED
          BY <1>0, <2>1, <4>1, <4>2 DEF Claimed
      <3> QED
        BY <3>1, <3>2
    <2>4. ASSUME NEW x \in Handles, final'[x].owner # None
          PROVE  Claimed(x, final[x])' /\ final'[x].height <= macro'
      BY <2>1, <2>4 DEF OwnerInv, Claimed
    <2> QED
      BY <2>3, <2>4 DEF OwnerInv
  <1>3. ASSUME NEW h \in Handles, ReleaseOnChain(h)
        PROVE  OwnerInv'
    <2>1. head' = [head EXCEPT ![h] = NoClaim] /\ UNCHANGED << final, macro, claims >> /\ height' = height + 1
      BY <1>3 DEF ReleaseOnChain, NewBlock
    <2>2. \A x \in Handles : head'[x] = IF x = h THEN NoClaim ELSE head[x]
      BY <1>0, <2>1
    <2>3. ASSUME NEW x \in Handles, head'[x].owner # None
          PROVE  Claimed(x, head[x])' /\ head'[x].height <= height'
      <3>1. head'[x] = head[x]
        BY <2>2, <2>3 DEF NoClaim
      <3>2. Claimed(x, head[x]) /\ head[x].height <= height
        BY <2>3, <3>1 DEF OwnerInv
      <3> QED
        BY <1>0, <2>1, <3>1, <3>2 DEF Claimed
    <2>4. ASSUME NEW x \in Handles, final'[x].owner # None
          PROVE  Claimed(x, final[x])' /\ final'[x].height <= macro'
      BY <2>1, <2>4 DEF OwnerInv, Claimed
    <2> QED
      BY <2>3, <2>4 DEF OwnerInv
  <1>4. ASSUME NEW t \in TradeIds, NEW u \in Users, NEW v \in Values, SendDeposit(t, u, v)
        PROVE  OwnerInv'
    <2>1. UNCHANGED << head, final, macro, claims >> /\ height' = height + 1
      BY <1>4 DEF SendDeposit, NewBlock
    <2>2. \A x \in Handles : head[x].height <= height => head[x].height <= height'
      BY <1>0, <2>1
    <2> QED
      BY <2>1, <2>2 DEF OwnerInv, Claimed
  <1>5. CASE MacroBlock
    BY <1>0, <1>5 DEF MacroBlock, OwnerInv, Claimed
  <1>6. CASE Reorg
    <2>1. /\ head' = final /\ height' = macro /\ UNCHANGED << macro, final >>
          /\ claims' = { c \in claims : c.height <= macro }
      BY <1>6 DEF Reorg
    <2>2. ASSUME NEW h \in Handles, final[h].owner # None
          PROVE  [handle |-> h, owner |-> final[h].owner, height |-> final[h].height] \in claims'
      BY <2>1, <2>2 DEF OwnerInv, Claimed
    <2> QED
      BY <1>0, <2>1, <2>2 DEF OwnerInv, Claimed
  <1>7. CASE Chain
    BY <1>2, <1>3, <1>4, <1>5, <1>6, <1>7 DEF Chain
  <1>8. CASE RegistrySync \/ Failures \/ UNCHANGED vars
    BY <1>1, <1>8 DEF RegistrySync, Failures, EWAbort, EWUnread, ewFrame, OWUnread, OWGiveUp, OWAbort,
       Crash, owFrame, chainVars, vars
  <1>9. CASE Handlers
    BY <1>1, <1>9 DEF Handlers, List, Reserve, FinishReserve, Cancel, Expire, SubmitRelease, SubmitClaim, chainVars
  <1>10. CASE EWStep
    BY <1>1, <1>10 DEF EWStep, ewFrame, chainVars, EWFetch, EWMacro, EWRecord, EWRaced, EWMatchDone,
       EWFinalizeDone, EWEnd, EWSkip, EWMatch, EWFinalize, EWAdvance
  <1>11. CASE OWStep
    BY <1>1, <1>11 DEF OWStep, owFrame, chainVars, OWStart, OWEnd, OWBuyerOwns, OWOtherOwns, OWSkip, Visit,
       WalkRead, WalkHop, WalkDone, HopRaced, FailRead, FailHop, FailAfterRelease, BeginRefund,
       Settle, MarkPayout, SendPayout, AppendPayout, AppendFee, FinishSettle,
       Refund, MarkRefund, SendRefund, AppendRefund, FinishRefund
  <1> QED
    BY <1>7, <1>8, <1>9, <1>10, <1>11 DEF Next

\* Both hold of the first owners.
LEMMA MacroOwnerInit == Init => MacroInv /\ OwnerInv
  <1> SUFFICES ASSUME Init PROVE MacroInv /\ OwnerInv
    OBVIOUS
  <1>1. PICK owner \in [Handles -> Users] :
          /\ head = [h \in Handles |-> Owned(owner[h], 0)]
          /\ claims = { [handle |-> h, owner |-> owner[h], height |-> 0] : h \in Handles }
    BY DEF Init
  <1>2. MacroInv
    BY DEF Init, EWIdle, OWIdle, StoreInit, NoTrade, NewTrade, MacroInv, HeldStates, FundedStates
  <1>3. OwnerInv
    <2>1. \A h \in Handles : head[h].owner = owner[h] /\ head[h].height = 0 /\ final[h] = head[h]
      BY <1>1 DEF Init, Owned
    <2> QED
      BY <1>1, <2>1 DEF Init, OwnerInv, Claimed
  <1> QED
    BY <1>2, <1>3

\* Both are invariants of every run, however many blocks are replaced.
THEOREM HeightsAreFinal == Spec => [](MacroInv /\ OwnerInv)
  <1>1. TypeOK /\ TypeOK' /\ MacroInv /\ [Next]_vars => MacroInv'
    BY MacroStep
  <1>2. TypeOK /\ TypeOK' /\ OwnerInv /\ [Next]_vars => OwnerInv'
    BY OwnerStep
  <1> QED
    BY <1>1, <1>2, MacroOwnerInit, TypeCorrect, PTL DEF Spec

\* A funded trade rests on a final deposit, unless the deposit it was recorded for
\* has been replaced.
FundedOrReplaced ==
  \A t \in TradeIds :
    trades[t].state \in FundedStates =>
      Secured(t) \/ ~\E d \in deposits : Pays(d, t) /\ d.height = trades[t].depositHeight

\* Why FundedIsFinal may fail, and the only way it can: EscrowWatcher promotes a
\* trade on the height in its row and does not look the deposit up again.
THEOREM FundedUnlessReplaced == Spec => []FundedOrReplaced
  <1>1. MacroInv => FundedOrReplaced
    BY DEF MacroInv, FundedOrReplaced, Secured, FundedStates, HeldStates
  <1> QED
    BY <1>1, HeightsAreFinal, PTL

\* The ownership sweep decides on an entry of the registry's map that is still
\* what the chain has.
DecidesOnFresh(t) ==
  /\ OWBuyerOwns(t) \/ OWOtherOwns(t)
  /\ registry[trades[t].handle] = head[trades[t].handle]

FreshMapDecidesFinally ==
  \A t \in TradeIds :
    DecidesOnFresh(t) => FinalClaim(trades[t].handle, registry[trades[t].handle].owner)

\* OwnershipWatcher.Sweep: however many blocks were replaced, a decision is wrong
\* only if the registry has not been rebuilt since; a map that agrees with the
\* chain about the handle leads to final claims only, although the sweep compares
\* with a macro height it read earlier.
THEOREM OnlyStaleMapsMislead == Spec => [][FreshMapDecidesFinally]_vars
  <1>1. ASSUME TypeOK, ExclusiveInv, MacroInv, OwnerInv
        PROVE  FreshMapDecidesFinally
    <2> SUFFICES ASSUME NEW t \in TradeIds, DecidesOnFresh(t)
                 PROVE  FinalClaim(trades[t].handle, registry[trades[t].handle].owner)
      BY DEF FreshMapDecidesFinally
    <2>1. PICK h \in Handles : h = trades[t].handle
      <3>1. trades[t].state \in SweptStates
        BY DEF DecidesOnFresh, OWBuyerOwns, OWOtherOwns
      <3>2. IsOpen(t)
        BY <3>1, SweptStatesAre DEF IsOpen, ClosedStates
      <3> QED
        BY <1>1, <3>2 DEF ExclusiveInv
    <2>2. /\ head[h].owner # None /\ head[h].height <= ow.macro
          /\ registry[h] = head[h]
      BY <2>1 DEF DecidesOnFresh, OWBuyerOwns, OWOtherOwns, Visit, Decides, Resolved
    <2>3. head[h].height \in Nat /\ ow.macro \in Nat /\ macro \in Nat
      BY <1>1 DEF TypeOK, Claim, OWStates
    <2>4. Claimed(h, head[h]) /\ head[h].height <= macro
      BY <1>1, <2>2, <2>3 DEF MacroInv, OwnerInv
    <2> DEFINE c == [handle |-> h, owner |-> head[h].owner, height |-> head[h].height]
    <2>5. c \in claims /\ c.handle = h /\ c.owner = head[h].owner /\ c.height <= macro
      BY <2>4 DEF Claimed
    <2> QED
      BY <2>1, <2>2, <2>5 DEF FinalClaim
  <1>2. Spec => []ExclusiveInv
    BY TypeCorrect, ExclusiveInit, ExclusiveStep, PTL DEF Spec
  <1> QED
    BY <1>1, <1>2, TypeCorrect, HeightsAreFinal, PTL DEF Spec

=============================================================================
