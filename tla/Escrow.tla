-------------------------------- MODULE Escrow --------------------------------
(***************************************************************************)
(* The marketplace escrow end to end: the HTTP handlers that reserve and   *)
(* cancel trades, the three background sweeps (EscrowWatcher,              *)
(* OwnershipWatcher with its SettlementWorker, reservation expiry), the    *)
(* in-memory HandleRegistry they consult, and the chain underneath.        *)
(*                                                                         *)
(* Every database transaction is one step (MarketplaceStore); everything   *)
(* the Go code does between two transactions or RPC calls is a step of its *)
(* own, so the sweeps, the handlers, the chain and a crash interleave.     *)
(*                                                                         *)
(* The chain is abstracted to what the sweeps can tell apart: deposits to  *)
(* the escrow account, the owner of each handle at the head and at the     *)
(* last macro block, and what the escrow account has sent.                 *)
(***************************************************************************)
EXTENDS MarketplaceStore, FiniteSetsExt

CONSTANTS
  HtlcUsers,    \* users whose wallet sends through an HTLC swap contract
  HtlcContract, \* such a contract's address, neither buyer's nor seller's
  Price, Fee,   \* price_luna and fee_luna of every listing
  Values,       \* the amounts a depositor may send
  MaxHeight,    \* bound: blocks that carry one of the modelled transactions
  MaxDeposits,  \* bound: deposits on the chain at one time
  MaxReorgs,    \* bound: micro-block reorganisations
  MaxFaults,    \* bound: crashes, failed RPC calls and failed transactions
  LookupMayFail \* whether those failures include the HTLC creator lookup

ASSUME HtlcAssumption == HtlcUsers \subseteq Users /\ HtlcContract \notin Users \cup {None}
ASSUME PriceAssumption == Price \in Nat \ {0} /\ Fee \in Nat /\ Fee <= Price
ASSUME ValuesAssumption == Values \subseteq Nat
ASSUME BoundAssumption ==
  /\ MaxHeight \in Nat /\ MaxDeposits \in Nat
  /\ MaxReorgs \in Nat /\ MaxFaults \in Nat /\ LookupMayFail \in BOOLEAN

VARIABLES
  ledger,    \* escrow_ledger: how many rows of each type a trade has
  reserving, \* reserve handlers between ReserveListing and their Transition
  registry,  \* HandleRegistry.handles, the map of the last Rebuild
  creators,  \* HandleSyncer.creators: users whose HTLC was resolved
  ew,        \* EscrowWatcher.Sweep in progress
  ow,        \* OwnershipWatcher.Sweep in progress
  height,    \* head of the chain
  macro,     \* last macro block
  head,      \* owner of each handle at the head
  final,     \* owner of each handle at the last macro block
  claims,    \* winning claims on the chain, past and present
  deposits,  \* transactions to the escrow account on the chain
  sends,     \* transactions the escrow account has broadcast
  faults, reorgs

procVars  == << reserving, ew, ow >>
regVars   == << registry, creators >>
chainVars == << height, macro, head, final, claims, deposits, reorgs >>
vars == << storeVars, ledger, procVars, regVars, chainVars, sends, faults >>

Claim == [owner : Users \cup {None, HtlcContract}, height : Nat]
NoClaim == [owner |-> None, height |-> 0]
Owned(u, n) == [owner |-> u, height |-> n]

DepositTx == [trade : TradeIds, sender : Users, value : Values, height : Nat]

EWIdle == [pc |-> "idle", txs |-> {}, hit |-> None, macro |-> 0]
OWIdle == [pc |-> "idle", todo |-> {}, trade |-> None, seen |-> "NONE", macro |-> 0]

EWStates == [pc : {"idle", "macro", "match", "record", "finalize", "advance"},
             txs : SUBSET DepositTx, hit : DepositTx \cup {None}, macro : Nat]

SettlePc == {"walk", "hop", "mark", "send", "ledger", "fee", "finish"}
RefundPc == {"fail", "failHop", "toRefund", "markR", "sendR", "ledgerR", "finishR"}
OWStates == [pc : {"idle", "scan"} \cup SettlePc \cup RefundPc,
             todo : SUBSET TradeIds, trade : TradeIds \cup {None},
             seen : TradeState \cup {"NONE"}, macro : Nat]

NoRows == [payout |-> 0, fee |-> 0, refund |-> 0]
NoSends == [payout |-> 0, refund |-> 0]

TypeOK ==
  /\ StoreTypeOK
  /\ ledger \in [TradeIds -> [payout : Nat, fee : Nat, refund : Nat]]
  /\ reserving \subseteq TradeIds
  /\ registry \in [Handles -> Claim]
  /\ creators \subseteq Users
  /\ ew \in EWStates /\ ow \in OWStates
  /\ ew.pc = "record" => ew.hit \in DepositTx
  /\ height \in Nat /\ macro \in Nat
  /\ head \in [Handles -> Claim] /\ final \in [Handles -> Claim]
  /\ claims \subseteq [handle : Handles, owner : Users, height : Nat]
  /\ deposits \subseteq DepositTx
  /\ sends \in [TradeIds -> [payout : Nat, refund : Nat]]
  /\ faults \in Nat /\ reorgs \in Nat

\* Every handle starts with an owner whose claim is long final.
Init ==
  /\ StoreInit
  /\ ledger = [t \in TradeIds |-> NoRows]
  /\ reserving = {} /\ creators = {}
  /\ ew = EWIdle /\ ow = OWIdle
  /\ height = 0 /\ macro = 0
  /\ \E owner \in [Handles -> Users] :
       /\ head = [h \in Handles |-> Owned(owner[h], 0)]
       /\ claims = { [handle |-> h, owner |-> owner[h], height |-> 0] : h \in Handles }
  /\ final = head /\ registry = head
  /\ deposits = {}
  /\ sends = [t \in TradeIds |-> NoSends]
  /\ faults = 0 /\ reorgs = 0

\* A failure the environment injects; the bound keeps them finite.
Fault == faults < MaxFaults /\ faults' = faults + 1

-----------------------------------------------------------------------------
(***************************************************************************)
(* The chain.                                                              *)
(***************************************************************************)
NewBlock == height < MaxHeight /\ height' = height + 1

\* Anyone may send any amount with a trade's reference, at any time.
SendDeposit(t, u, v) ==
  /\ trades[t].state # "NONE"
  /\ Cardinality(deposits) < MaxDeposits
  /\ NewBlock
  /\ deposits' = deposits \cup {[trade |-> t, sender |-> u, value |-> v, height |-> height']}
  /\ UNCHANGED << storeVars, ledger, procVars, regVars, macro, head, final, claims, reorgs, sends, faults >>

\* Rebuild gives an unowned handle to the first claim.
ClaimOnChain(h, u) ==
  /\ head[h].owner = None
  /\ NewBlock
  /\ head' = [head EXCEPT ![h] = Owned(u, height')]
  /\ claims' = claims \cup {[handle |-> h, owner |-> u, height |-> height']}
  /\ UNCHANGED << storeVars, ledger, procVars, regVars, macro, final, deposits, reorgs, sends, faults >>

\* Rebuild frees a handle only for its owner.
ReleaseOnChain(h) ==
  /\ head[h].owner # None
  /\ NewBlock
  /\ head' = [head EXCEPT ![h] = NoClaim]
  /\ UNCHANGED << storeVars, ledger, procVars, regVars, macro, final, claims, deposits, reorgs, sends, faults >>

\* A macro block makes everything before it final.
MacroBlock ==
  /\ macro < height
  /\ macro' = height
  /\ final' = head
  /\ UNCHANGED << storeVars, ledger, procVars, regVars, height, head, claims, deposits, reorgs, sends, faults >>

\* Micro blocks after the last macro block may be replaced.
Reorg ==
  /\ reorgs < MaxReorgs
  /\ macro < height
  /\ reorgs' = reorgs + 1
  /\ height' = macro
  /\ head' = final
  /\ claims' = { c \in claims : c.height <= macro }
  /\ deposits' = { d \in deposits : d.height <= macro }
  /\ UNCHANGED << storeVars, ledger, procVars, regVars, macro, final, sends, faults >>

-----------------------------------------------------------------------------
(***************************************************************************)
(* HandleSyncer.sweep: fetch the history, resolve the HTLC senders, swap   *)
(* the map.  A creator lookup that fails leaves the contract as the owner  *)
(* and is not cached.  handle_claims is written with the map, so a restart *)
(* reloads the same map.                                                   *)
(***************************************************************************)
HtlcOwners == HtlcUsers \cap { head[h].owner : h \in Handles }

Attributed(claim, failed) ==
  IF claim.owner \in failed THEN [claim EXCEPT !.owner = HtlcContract] ELSE claim

RegistrySync ==
  \E failed \in SUBSET (HtlcOwners \ creators) :
    /\ IF failed = {} THEN UNCHANGED faults ELSE LookupMayFail /\ Fault
    /\ registry' = [h \in Handles |-> Attributed(head[h], failed)]
    /\ creators' = creators \cup (HtlcOwners \ failed)
    /\ UNCHANGED << storeVars, ledger, procVars, chainVars, sends >>

-----------------------------------------------------------------------------
(***************************************************************************)
(* HTTP handlers and the expiry sweep.                                     *)
(***************************************************************************)
\* marketplaceListingCreateHandler: the seller must own the handle according
\* to the registry.
List(h, s) ==
  /\ registry[h].owner = s
  /\ CreateListing(h, s)
  /\ UNCHANGED << ledger, procVars, regVars, chainVars, sends, faults >>

\* marketplaceTradeReserveHandler, first transaction.
Reserve(t, h, b) ==
  /\ ReserveListing(t, h, b)
  /\ reserving' = reserving \cup {t}
  /\ UNCHANGED << ledger, ew, ow, regVars, chainVars, sends, faults >>

\* marketplaceTradeReserveHandler, second transaction.  It is refused when the
\* reservation was cancelled or expired in between; when the database fails
\* the trade stays RESERVED.
FinishReserve(t) ==
  /\ t \in reserving
  /\ reserving' = reserving \ {t}
  /\ \/ Transition(t, "RESERVED", "AWAITING_DEPOSIT", trades[t]) /\ UNCHANGED faults
     \/ trades[t].state # "RESERVED" /\ UNCHANGED << storeVars, faults >>
     \/ trades[t].state = "RESERVED" /\ Fault /\ UNCHANGED storeVars
  /\ UNCHANGED << ledger, ew, ow, regVars, chainVars, sends >>

\* marketplaceTradeCancelHandler
Cancel(t) ==
  /\ ReleaseUnpaid(t, "CANCELED")
  /\ UNCHANGED << ledger, procVars, regVars, chainVars, sends, faults >>

\* Mutant of Expire: a handler that died is not cleaned up after.
ExpireAwaiting(t) ==
  /\ trades[t].state = "AWAITING_DEPOSIT"
  /\ ReleaseUnpaid(t, "EXPIRED")
  /\ UNCHANGED << ledger, procVars, regVars, chainVars, sends, faults >>

\* ExpireStaleReservations, one transaction per stale id; the 30 minutes may
\* have passed at any point.
Expire(t) ==
  /\ ReleaseUnpaid(t, "EXPIRED")
  /\ UNCHANGED << ledger, procVars, regVars, chainVars, sends, faults >>

\* marketplaceTradeReleaseHandler / marketplaceTradeClaimHandler once the
\* submitted transaction verified.  Any release (claim) of the handle by the
\* seller (buyer) verifies, an old one too, so the chain does not restrict it.
SubmitRelease(t) ==
  /\ Transition(t, "AWAITING_RELEASE", "RELEASE_CONFIRMING", trades[t])
  /\ UNCHANGED << ledger, procVars, regVars, chainVars, sends, faults >>

SubmitClaim(t) ==
  /\ Transition(t, "AWAITING_CLAIM", "CLAIM_CONFIRMING", trades[t])
  /\ UNCHANGED << ledger, procVars, regVars, chainVars, sends, faults >>

-----------------------------------------------------------------------------
(***************************************************************************)
(* EscrowWatcher.Sweep                                                     *)
(***************************************************************************)
ewFrame == << ledger, reserving, ow, regVars, chainVars, sends >>

\* GetTransactionsByAddress.  A sweep that finds no trade of its own to look
\* at changes nothing and is left out.
EWFetch ==
  /\ ew.pc = "idle"
  /\ \E t \in TradeIds : trades[t].state \in UnpaidStates \cup {"DEPOSIT_FINALIZING", "FUNDED"}
  /\ ew' = [ew EXCEPT !.pc = "macro", !.txs = deposits]
  /\ UNCHANGED << storeVars, ewFrame, faults >>

\* GetLastMacroBlockNumber
EWMacro ==
  /\ ew.pc = "macro"
  /\ ew' = [ew EXCEPT !.pc = "match", !.macro = macro]
  /\ UNCHANGED << storeVars, ewFrame, faults >>

\* Mutant of Matches: any amount will do.
MatchesAnyValue(d) ==
  trades[d.trade].state = "AWAITING_DEPOSIT" /\ d.sender = trades[d.trade].buyer

\* Reference, state, exact value and sender.
Matches(d) ==
  /\ trades[d.trade].state = "AWAITING_DEPOSIT"
  /\ d.value = Price
  /\ d.sender = trades[d.trade].buyer

EWSkip(d) ==
  /\ ew.pc = "match" /\ d \in ew.txs
  /\ ~Matches(d)
  /\ ew' = [ew EXCEPT !.txs = @ \ {d}]
  /\ UNCHANGED << storeVars, ewFrame, faults >>

EWMatch(d) ==
  /\ ew.pc = "match" /\ d \in ew.txs
  /\ Matches(d)
  /\ ew' = [ew EXCEPT !.pc = "record", !.hit = d, !.txs = @ \ {d}]
  /\ UNCHANGED << storeVars, ewFrame, faults >>

\* The transaction that records the deposit; a trade cancelled or expired
\* since it matched makes it fail, and that aborts the sweep.
EWRecord ==
  /\ ew.pc = "record"
  /\ LET t == ew.hit.trade IN
       Transition(t, "AWAITING_DEPOSIT", "DEPOSIT_FINALIZING",
                  [trades[t] EXCEPT !.depositHeight = ew.hit.height])
  /\ ew' = [ew EXCEPT !.pc = "match", !.hit = None]
  /\ UNCHANGED << ewFrame, faults >>

EWRaced ==
  /\ ew.pc = "record"
  /\ trades[ew.hit.trade].state # "AWAITING_DEPOSIT"
  /\ ew' = EWIdle
  /\ UNCHANGED << storeVars, ewFrame, faults >>

EWMatchDone ==
  /\ ew.pc = "match" /\ ew.txs = {}
  /\ ew' = [ew EXCEPT !.pc = "finalize"]
  /\ UNCHANGED << storeVars, ewFrame, faults >>

\* Mutant of Finalized: a recorded deposit counts as final.
FinalizedAtOnce(t) == trades[t].state = "DEPOSIT_FINALIZING"

Finalized(t) ==
  trades[t].state = "DEPOSIT_FINALIZING" /\ trades[t].depositHeight <= ew.macro

EWFinalize(t) ==
  /\ ew.pc = "finalize"
  /\ Finalized(t)
  /\ Transition(t, "DEPOSIT_FINALIZING", "FUNDED", trades[t])
  /\ UNCHANGED << ew, ewFrame, faults >>

\* Mutant of EWFinalizeDone: the sweep ends here; FUNDED is not looked at again.
EWFinalizeLast ==
  /\ ew.pc = "finalize"
  /\ \A t \in TradeIds : ~Finalized(t)
  /\ ew' = EWIdle
  /\ UNCHANGED << storeVars, ewFrame, faults >>

EWFinalizeDone ==
  /\ ew.pc = "finalize"
  /\ \A t \in TradeIds : ~Finalized(t)
  /\ ew' = [ew EXCEPT !.pc = "advance"]
  /\ UNCHANGED << storeVars, ewFrame, faults >>

EWAdvance(t) ==
  /\ ew.pc = "advance"
  /\ Transition(t, "FUNDED", "AWAITING_RELEASE", trades[t])
  /\ UNCHANGED << ew, ewFrame, faults >>

\* A FUNDED trade whose transaction fails is logged and left for the next
\* sweep (the fault), it does not abort this one.
EWEnd ==
  /\ ew.pc = "advance"
  /\ IF \A t \in TradeIds : trades[t].state # "FUNDED" THEN UNCHANGED faults ELSE Fault
  /\ ew' = EWIdle
  /\ UNCHANGED << storeVars, ewFrame >>

\* An RPC call or a transaction fails: the sweep returns the error.
EWAbort ==
  /\ ew.pc # "idle"
  /\ Fault
  /\ ew' = EWIdle
  /\ UNCHANGED << storeVars, ewFrame >>

\* FindTradeByReference and TradesInState answer a failed query with "none":
\* the sweep passes over a deposit or over the finalizing trades.
EWUnread ==
  /\ Fault
  /\ \/ ew.pc = "match" /\ \E d \in ew.txs : ew' = [ew EXCEPT !.txs = @ \ {d}]
     \/ ew.pc = "finalize" /\ ew' = [ew EXCEPT !.pc = "advance"]
  /\ UNCHANGED << storeVars, ewFrame >>

-----------------------------------------------------------------------------
(***************************************************************************)
(* OwnershipWatcher.Sweep and SettlementWorker.Settle / Refund, which run  *)
(* in its goroutine.                                                       *)
(***************************************************************************)
owFrame == << reserving, ew, regVars, chainVars >>
Goto(pc) == ow' = [ow EXCEPT !.pc = pc]
Read(pc) == ow' = [ow EXCEPT !.pc = pc, !.seen = trades[ow.trade].state]
Continue == ow' = [ow EXCEPT !.pc = "scan", !.trade = None, !.seen = "NONE"]

\* GetLastMacroBlockNumber, then the trades in the swept states; a sweep that
\* finds none is left out.
OWStart ==
  /\ ow.pc = "idle"
  /\ \E t \in TradeIds : trades[t].state \in SweptStates
  /\ ow' = [ow EXCEPT !.pc = "scan", !.macro = macro,
                      !.todo = { t \in TradeIds : trades[t].state \in SweptStates }]
  /\ UNCHANGED << storeVars, ledger, owFrame, sends, faults >>

\* registry.Resolve(trade.Handle): `Decides` when the claim is there and not
\* above the macro height read at the start of the sweep.
Resolved(t) == registry[trades[t].handle]

\* Mutants of Decides: the finality of the claim is not looked at; off by one.
DecidesProvisionally(t) == Resolved(t).owner # None
DecidesBelow(t) == Resolved(t).owner # None /\ Resolved(t).height < ow.macro

Decides(t) == Resolved(t).owner # None /\ Resolved(t).height <= ow.macro

Visit(t, pc) ==
  /\ Decides(t)
  /\ ow' = [ow EXCEPT !.pc = pc, !.trade = t, !.todo = @ \ {t}]
  /\ UNCHANGED << storeVars, ledger, owFrame, sends, faults >>

\* The loop reads the four states one after the other, so a trade that a
\* handler moves meanwhile can be met twice in a sweep.
OWBuyerOwns(t) ==
  /\ ow.pc = "scan" /\ trades[t].state \in SweptStates
  /\ Resolved(t).owner = trades[t].buyer
  /\ Visit(t, "walk")

\* Mutant of OWOtherOwns: the seller is a third party too.
OWNotBuyerOwns(t) ==
  /\ ow.pc = "scan" /\ trades[t].state \in SweptStates
  /\ Resolved(t).owner # trades[t].buyer
  /\ Visit(t, "fail")

OWOtherOwns(t) ==
  /\ ow.pc = "scan" /\ trades[t].state \in SweptStates
  /\ Resolved(t).owner \notin {trades[t].buyer, trades[t].seller}
  /\ Visit(t, "fail")

\* Not claimed, not final yet, or still the seller's.
OWSkip(t) ==
  /\ ow.pc = "scan" /\ t \in ow.todo
  /\ ~Decides(t) \/ Resolved(t).owner = trades[t].seller
  /\ ~(Decides(t) /\ Resolved(t).owner = trades[t].buyer)
  /\ ow' = [ow EXCEPT !.todo = @ \ {t}]
  /\ UNCHANGED << storeVars, ledger, owFrame, sends, faults >>

OWEnd ==
  /\ ow.pc = "scan" /\ ow.todo = {}
  /\ ow' = OWIdle
  /\ UNCHANGED << storeVars, ledger, owFrame, sends, faults >>

\* walkChainTo(SETTLEMENT_PENDING): read the row, one transaction per hop.
WalkRead(t) ==
  /\ ow.pc = "walk" /\ ow.trade = t
  /\ trades[t].state \in SweptStates
  /\ Read("hop")
  /\ UNCHANGED << storeVars, ledger, owFrame, sends, faults >>

WalkHop(t) ==
  /\ ow.pc = "hop" /\ ow.trade = t /\ ow.seen \in SweptStates
  /\ Transition(t, ow.seen, NextInChain(ow.seen), trades[t])
  /\ Goto("walk")
  /\ UNCHANGED << ledger, owFrame, sends, faults >>

\* Mutant of WalkDone: the sweep forgets to settle.
WalkDoneOnly(t) ==
  /\ ow.pc = "walk" /\ ow.trade = t
  /\ trades[t].state = "SETTLEMENT_PENDING"
  /\ Continue
  /\ UNCHANGED << storeVars, ledger, owFrame, sends, faults >>

WalkDone(t) ==
  /\ ow.pc = "walk" /\ ow.trade = t
  /\ trades[t].state = "SETTLEMENT_PENDING"
  /\ Goto("mark")
  /\ UNCHANGED << storeVars, ledger, owFrame, sends, faults >>

\* walkChainToFailure, which reads the row again after its first hop.
FailRead(t) ==
  /\ ow.pc = "fail" /\ ow.trade = t
  /\ Read("failHop")
  /\ UNCHANGED << storeVars, ledger, owFrame, sends, faults >>

FailHop(t) ==
  /\ ow.pc = "failHop" /\ ow.trade = t /\ ow.seen = "AWAITING_RELEASE"
  /\ Transition(t, "AWAITING_RELEASE", "RELEASE_CONFIRMING", trades[t])
  /\ Goto("fail")
  /\ UNCHANGED << ledger, owFrame, sends, faults >>

FailAfterRelease(t) ==
  /\ ow.pc = "failHop" /\ ow.trade = t /\ ow.seen # "AWAITING_RELEASE"
  /\ Transition(t, ow.seen, "FAILED_AFTER_RELEASE", trades[t])
  /\ Goto("toRefund")
  /\ UNCHANGED << ledger, owFrame, sends, faults >>

\* A handler moved the trade between the read and the transaction: the sweep
\* goes on with the next trade.
HopRaced(t) ==
  /\ ow.pc \in {"hop", "failHop"} /\ ow.trade = t
  /\ trades[t].state # ow.seen
  /\ Continue
  /\ UNCHANGED << storeVars, ledger, owFrame, sends, faults >>

BeginRefund(t) ==
  /\ ow.pc = "toRefund" /\ ow.trade = t
  /\ Transition(t, "FAILED_AFTER_RELEASE", "REFUND_PENDING", trades[t])
  /\ Goto("markR")
  /\ UNCHANGED << ledger, owFrame, sends, faults >>

\* TradesInState fails for one of the states and lists no trade.
OWUnread ==
  /\ ow.pc = "scan"
  /\ Fault
  /\ \E s \in SweptStates : ow' = [ow EXCEPT !.todo = { t \in @ : trades[t].state # s }]
  /\ UNCHANGED << storeVars, ledger, owFrame, sends >>

\* A read or a hop the database fails; the sweep goes on with the next trade.
OWGiveUp ==
  /\ ow.pc \in {"walk", "hop", "fail", "failHop", "toRefund"}
  /\ Fault
  /\ Continue
  /\ UNCHANGED << storeVars, ledger, owFrame, sends >>

\* SettlementWorker.Settle
MarkPayout(t) ==
  /\ ow.pc = "mark" /\ ow.trade = t
  /\ MarkPayoutAttempt(t)
  /\ Goto("send")
  /\ UNCHANGED << ledger, owFrame, sends, faults >>

\* Mutants of SendPayout: an error is answered with another attempt, is taken
\* for a success; the ledger rows are left for later.
SendPayoutRetries(t) ==
  /\ ow.pc = "send" /\ ow.trade = t
  /\ sends' = [sends EXCEPT ![t].payout = @ + 1]
  /\ \/ Goto("ledger") /\ UNCHANGED faults
     \/ UNCHANGED ow /\ Fault
  /\ UNCHANGED << storeVars, ledger, owFrame >>

SendPayoutIgnoresError(t) ==
  /\ ow.pc = "send" /\ ow.trade = t
  /\ \/ sends' = [sends EXCEPT ![t].payout = @ + 1] /\ UNCHANGED faults
     \/ UNCHANGED sends /\ Fault
  /\ Goto("ledger")
  /\ UNCHANGED << storeVars, ledger, owFrame >>

SendPayoutUnbooked(t) ==
  /\ ow.pc = "send" /\ ow.trade = t
  /\ sends' = [sends EXCEPT ![t].payout = @ + 1]
  /\ Goto("finish")
  /\ UNCHANGED << storeVars, ledger, owFrame, faults >>

\* SendBasicTransactionWithData to the seller.  On an error the transaction
\* may or may not have been broadcast; Settle returns and aborts the sweep.
SendPayout(t) ==
  /\ ow.pc = "send" /\ ow.trade = t
  /\ \/ /\ sends' = [sends EXCEPT ![t].payout = @ + 1]
        /\ Goto("ledger") /\ UNCHANGED faults
     \/ /\ sends' = [sends EXCEPT ![t].payout = @ + 1]
        /\ ow' = OWIdle /\ Fault
     \/ /\ UNCHANGED sends
        /\ ow' = OWIdle /\ Fault
  /\ UNCHANGED << storeVars, ledger, owFrame >>

AppendPayout(t) ==
  /\ ow.pc = "ledger" /\ ow.trade = t
  /\ ledger' = [ledger EXCEPT ![t].payout = @ + 1]
  /\ Goto("fee")
  /\ UNCHANGED << storeVars, owFrame, sends, faults >>

AppendFee(t) ==
  /\ ow.pc = "fee" /\ ow.trade = t
  /\ ledger' = [ledger EXCEPT ![t].fee = @ + 1]
  /\ Goto("finish")
  /\ UNCHANGED << storeVars, owFrame, sends, faults >>

FinishSettle(t) ==
  /\ ow.pc = "finish" /\ ow.trade = t
  /\ Transition(t, "SETTLEMENT_PENDING", "SETTLED", [trades[t] EXCEPT !.payoutTx = TRUE])
  /\ Continue
  /\ UNCHANGED << ledger, owFrame, sends, faults >>

\* SettlementWorker.Refund
MarkRefund(t) ==
  /\ ow.pc = "markR" /\ ow.trade = t
  /\ MarkRefundAttempt(t)
  /\ Goto("sendR")
  /\ UNCHANGED << ledger, owFrame, sends, faults >>

SendRefund(t) ==
  /\ ow.pc = "sendR" /\ ow.trade = t
  /\ \/ /\ sends' = [sends EXCEPT ![t].refund = @ + 1]
        /\ Goto("ledgerR") /\ UNCHANGED faults
     \/ /\ sends' = [sends EXCEPT ![t].refund = @ + 1]
        /\ ow' = OWIdle /\ Fault
     \/ /\ UNCHANGED sends
        /\ ow' = OWIdle /\ Fault
  /\ UNCHANGED << storeVars, ledger, owFrame >>

AppendRefund(t) ==
  /\ ow.pc = "ledgerR" /\ ow.trade = t
  /\ ledger' = [ledger EXCEPT ![t].refund = @ + 1]
  /\ Goto("finishR")
  /\ UNCHANGED << storeVars, owFrame, sends, faults >>

FinishRefund(t) ==
  /\ ow.pc = "finishR" /\ ow.trade = t
  /\ Transition(t, "REFUND_PENDING", "REFUNDED", [trades[t] EXCEPT !.refundTx = TRUE])
  /\ Continue
  /\ UNCHANGED << ledger, owFrame, sends, faults >>

\* A transaction of Settle or Refund fails: the error aborts the sweep.
OWAbort ==
  /\ ow.pc \in {"mark", "ledger", "fee", "finish", "markR", "ledgerR", "finishR"}
  /\ Fault
  /\ ow' = OWIdle
  /\ UNCHANGED << storeVars, ledger, owFrame, sends >>

\* The process dies and comes back: every handler and sweep in progress and
\* the creator cache are lost; the tables are not.
Crash ==
  /\ Fault
  /\ reserving' = {} /\ creators' = {}
  /\ ew' = EWIdle /\ ow' = OWIdle
  /\ UNCHANGED << storeVars, ledger, registry, chainVars, sends >>

-----------------------------------------------------------------------------
Chain ==
  \/ \E t \in TradeIds, u \in Users, v \in Values : SendDeposit(t, u, v)
  \/ \E h \in Handles, u \in Users : ClaimOnChain(h, u)
  \/ \E h \in Handles : ReleaseOnChain(h)
  \/ MacroBlock
  \/ Reorg

Handlers ==
  \/ \E h \in Handles, s \in Users : List(h, s)
  \/ \E t \in TradeIds, h \in Handles, b \in Users : Reserve(t, h, b)
  \/ \E t \in TradeIds :
       FinishReserve(t) \/ Cancel(t) \/ Expire(t) \/ SubmitRelease(t) \/ SubmitClaim(t)

EWStep ==
  \/ EWFetch \/ EWMacro \/ EWRecord \/ EWRaced \/ EWMatchDone \/ EWFinalizeDone \/ EWEnd
  \/ \E d \in ew.txs : EWSkip(d) \/ EWMatch(d)
  \/ \E t \in TradeIds : EWFinalize(t) \/ EWAdvance(t)

Settle(t) == MarkPayout(t) \/ SendPayout(t) \/ AppendPayout(t) \/ AppendFee(t) \/ FinishSettle(t)
Refund(t) == MarkRefund(t) \/ SendRefund(t) \/ AppendRefund(t) \/ FinishRefund(t)

OWStep ==
  \/ OWStart \/ OWEnd
  \/ \E t \in TradeIds :
       \/ OWBuyerOwns(t) \/ OWOtherOwns(t) \/ OWSkip(t)
       \/ WalkRead(t) \/ WalkHop(t) \/ WalkDone(t) \/ HopRaced(t) \/ Settle(t)
       \/ FailRead(t) \/ FailHop(t) \/ FailAfterRelease(t) \/ BeginRefund(t) \/ Refund(t)

Failures == EWAbort \/ EWUnread \/ OWUnread \/ OWGiveUp \/ OWAbort \/ Crash

Next == Chain \/ RegistrySync \/ Handlers \/ EWStep \/ OWStep \/ Failures

Spec == Init /\ [][Next]_vars

\* runSweepLoop and HandleSyncer.Run tick every two minutes until the process
\* exits, a goroutine that can go on does, macro blocks keep coming, and time
\* passes, so an unpaid reservation's deadline does too.
Fairness ==
  /\ WF_vars(MacroBlock)
  /\ WF_vars(RegistrySync)
  /\ WF_vars(EWStep)
  /\ WF_vars(OWStep)
  /\ \A t \in TradeIds : WF_vars(FinishReserve(t)) /\ WF_vars(Expire(t))

FairSpec == Spec /\ Fairness

-----------------------------------------------------------------------------
(***************************************************************************)
(* Safety.                                                                 *)
(***************************************************************************)
\* The escrow account sends at most one transaction for a trade, whatever
\* crashes, failed sends and raced handlers do: the attempt marker is written
\* before the signer is called and a marked trade is never sent again.
AtMostOneTransfer ==
  \A t \in TradeIds : sends[t].payout + sends[t].refund <= 1

\* A trade past DEPOSIT_FINALIZING rests on a deposit of the exact price from
\* its buyer that is final on the chain ("only macro finality moves the trade
\* to FUNDED").
FundedIsFinal ==
  \A t \in TradeIds :
    trades[t].state \in HeldStates \ {"DEPOSIT_FINALIZING"} =>
      \E d \in deposits :
        /\ d.trade = t /\ d.value = Price /\ d.sender = trades[t].buyer
        /\ d.height <= macro

Outflow(t) == sends[t].payout * (Price - Fee) + sends[t].refund * Price

EscrowBalance ==
  MapThenSumSet(LAMBDA d : d.value, deposits) - MapThenSumSet(Outflow, TradeIds)

\* The admin page's expected balance, less the trades whose transfer may have
\* left already: the pooled account always holds the price of each of them,
\* so one trade is never paid with another one's deposit.
EscrowSolvent ==
  Price * Cardinality({ t \in TradeIds : /\ trades[t].state \in HeldStates
                                         /\ ~IsStuckTrade(t) }) <= EscrowBalance

FinalClaim(h, u) ==
  \E c \in claims : c.handle = h /\ c.owner = u /\ c.height <= macro

\* The seller is paid only when the chain has finalised a claim of the handle
\* by the buyer, although the sweep decides on the registry's last map and a
\* macro height read earlier.
PayoutFollowsOwnership ==
  \A t \in TradeIds : sends[t].payout > 0 => FinalClaim(trades[t].handle, trades[t].buyer)

\* The buyer is refunded only when the chain has finalised a claim of the
\* handle by a third party.
RefundFollowsOwnership ==
  \A t \in TradeIds : sends[t].refund > 0 =>
    \E u \in Users \ {trades[t].buyer, trades[t].seller} : FinalClaim(trades[t].handle, u)

\* The ledger never records money that did not leave, and once a trade is
\* closed its rows add up to its price: nothing is missing, nothing doubled,
\* although rows and state are written by separate transactions.
LedgerReconciles ==
  \A t \in TradeIds :
    /\ ledger[t].payout <= sends[t].payout
    /\ ledger[t].fee <= ledger[t].payout
    /\ ledger[t].refund <= sends[t].refund
    /\ trades[t].state = "SETTLED" =>
         ledger[t] = [payout |-> 1, fee |-> 1, refund |-> 0]
    /\ trades[t].state = "REFUNDED" =>
         ledger[t] = [payout |-> 0, fee |-> 0, refund |-> 1]

WorkingOn(t) == ow.trade = t /\ ow.pc # "idle"

\* A transfer that left without its trade being closed, after a crash or an
\* error anywhere in Settle or Refund, shows on the admin page as stuck.
UnfinishedTransferIsFlagged ==
  \A t \in TradeIds :
    /\ sends[t].payout + sends[t].refund > 0
    /\ trades[t].state \notin {"SETTLED", "REFUNDED"}
    => IsStuckTrade(t)

\* Every trade the automation has given up on shows on the admin page as
\* stuck ("so a stuck trade is visible"): past the swept states, not closed,
\* and no sweep working on it.
AbandonedIsFlagged ==
  \A t \in TradeIds :
    /\ trades[t].state \in {"SETTLEMENT_PENDING", "FAILED_AFTER_RELEASE", "REFUND_PENDING"}
    /\ ~WorkingOn(t)
    => IsStuckTrade(t)

-----------------------------------------------------------------------------
(***************************************************************************)
(* The inductive invariant behind AtMostOneTransfer, LedgerReconciles and  *)
(* UnfinishedTransferIsFlagged: how far the row, the escrow account and    *)
(* the ledger of a trade may be apart, given where the worker is.          *)
(***************************************************************************)
Sent(t, p, r) == sends[t] = [payout |-> p, refund |-> r]
Rows(t, p, f, r) == ledger[t] = [payout |-> p, fee |-> f, refund |-> r]

Settling(t) == trades[t].state = "SETTLEMENT_PENDING" /\ trades[t].payoutAttempted
Refunding(t) == trades[t].state = "REFUND_PENDING" /\ trades[t].refundAttempted

\* The worker's position in Settle or Refund of trade t.
WorkerInv(t) ==
  ow.trade = t =>
    /\ ow.pc = "send"    => Settling(t) /\ Sent(t, 0, 0)
    /\ ow.pc = "ledger"  => Settling(t) /\ Sent(t, 1, 0) /\ Rows(t, 0, 0, 0)
    /\ ow.pc = "fee"     => Settling(t) /\ Sent(t, 1, 0) /\ Rows(t, 1, 0, 0)
    /\ ow.pc = "finish"  => Settling(t) /\ Sent(t, 1, 0) /\ Rows(t, 1, 1, 0)
    /\ ow.pc = "sendR"   => Refunding(t) /\ Sent(t, 0, 0)
    /\ ow.pc = "ledgerR" => Refunding(t) /\ Sent(t, 0, 1) /\ Rows(t, 0, 0, 0)
    /\ ow.pc = "finishR" => Refunding(t) /\ Sent(t, 0, 1) /\ Rows(t, 0, 0, 1)

\* A marker pins the trade to its side of the decision, a recorded hash to
\* the closed state; nothing is sent without a marker, nothing is booked
\* without a transfer.
RowInv(t) ==
  /\ trades[t].payoutAttempted => trades[t].state \in {"SETTLEMENT_PENDING", "SETTLED"}
  /\ trades[t].refundAttempted => trades[t].state \in {"REFUND_PENDING", "REFUNDED"}
  /\ trades[t].payoutTx => trades[t].state = "SETTLED"
  /\ trades[t].refundTx => trades[t].state = "REFUNDED"
  /\ \/ Sent(t, 0, 0) /\ Rows(t, 0, 0, 0)
     \/ /\ Sent(t, 1, 0) /\ trades[t].payoutAttempted
        /\ Rows(t, 0, 0, 0) \/ Rows(t, 1, 0, 0) \/ Rows(t, 1, 1, 0)
     \/ /\ Sent(t, 0, 1) /\ trades[t].refundAttempted
        /\ Rows(t, 0, 0, 0) \/ Rows(t, 0, 0, 1)
  /\ trades[t].state = "SETTLED" => Sent(t, 1, 0) /\ Rows(t, 1, 1, 0)
  /\ trades[t].state = "REFUNDED" => Sent(t, 0, 1) /\ Rows(t, 0, 0, 1)

MoneyInv == \A t \in TradeIds : RowInv(t) /\ WorkerInv(t)

-----------------------------------------------------------------------------
(***************************************************************************)
(* The promise this design implements.                                     *)
(***************************************************************************)
PhaseOf(s) ==
  CASE s = "NONE" -> "none"
    [] s \in UnpaidStates -> "unpaid"
    [] s \in {"EXPIRED", "CANCELED"} -> "void"
    [] s = "SETTLEMENT_PENDING" -> "payout"
    [] s = "SETTLED" -> "paid"
    [] s \in {"FAILED_AFTER_RELEASE", "REFUND_PENDING"} -> "refund"
    [] s = "REFUNDED" -> "refunded"
    [] OTHER -> "held"

MovedTo(s) ==
  CASE s.payout = 0 /\ s.refund = 0 -> "nobody"
    [] s.payout = 1 /\ s.refund = 0 -> "seller"
    [] s.payout = 0 /\ s.refund = 1 -> "buyer"
    [] OTHER -> "twice"

Promise == INSTANCE EscrowPromise WITH
  phase <- [t \in TradeIds |-> PhaseOf(trades[t].state)],
  moved <- [t \in TradeIds |-> MovedTo(sends[t])]

\* Every step of the sweeps, the handlers, the chain and the failures is a
\* step of the promise or leaves it alone.
ImplementsPromise == Promise!PromiseSpec

-----------------------------------------------------------------------------
(***************************************************************************)
(* Liveness.                                                               *)
(***************************************************************************)
\* A FUNDED trade moves on even when sweeps fail or the process crashes: each
\* sweep re-scans all FUNDED trades ("self-healing").
FundedMovesOn ==
  \A t \in TradeIds : trades[t].state = "FUNDED" ~> trades[t].state # "FUNDED"

\* No reservation holds its listing for ever, not even one whose handler died
\* before the trade reached AWAITING_DEPOSIT.
ReservationEnds ==
  \A t \in TradeIds : IsUnpaid(t) ~> ~IsUnpaid(t)

\* A trade whose buyer finally owns the handle and keeps it does not rest in
\* the swept states: the sweep finds out without anyone calling the API.
BuyerOwnershipIsNoticed ==
  \A t \in TradeIds :
    ~<>[](/\ trades[t].state \in SweptStates
          /\ final[trades[t].handle].owner = trades[t].buyer)

\* As long as nothing fails, a decision is carried out.
DecisionIsCarriedOut ==
  \A t \in TradeIds :
    trades[t].state \in {"SETTLEMENT_PENDING", "FAILED_AFTER_RELEASE", "REFUND_PENDING"}
      ~> trades[t].state \in {"SETTLED", "REFUNDED"} \/ faults > 0

=============================================================================
