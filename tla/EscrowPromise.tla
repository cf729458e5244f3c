----------------------------- MODULE EscrowPromise -----------------------------
(***************************************************************************)
(* What the escrow promises for one trade, without watchers, chain or      *)
(* database: a reservation either lapses unpaid or is paid; money held is  *)
(* promised to the seller or to the buyer, once and for all; it leaves at  *)
(* most once, only after that promise and only in its direction; and the   *)
(* trade is closed as paid or refunded only when the money has left.       *)
(***************************************************************************)
CONSTANT TradeIds

VARIABLES
  phase, \* how far each trade is
  moved  \* who has received the money of each trade

promiseVars == << phase, moved >>

Phases == { "none", "unpaid", "void", "held", "payout", "refund", "paid", "refunded" }

PromiseInit ==
  /\ phase = [t \in TradeIds |-> "none"]
  /\ moved = [t \in TradeIds |-> "nobody"]

Advance(t, from, to) ==
  /\ phase[t] = from
  /\ phase' = [phase EXCEPT ![t] = to]
  /\ UNCHANGED moved

Pay(t, promise, who) ==
  /\ phase[t] = promise /\ moved[t] = "nobody"
  /\ moved' = [moved EXCEPT ![t] = who]
  /\ UNCHANGED phase

Open(t)         == Advance(t, "none", "unpaid")
Lapse(t)        == Advance(t, "unpaid", "void")
Receive(t)      == Advance(t, "unpaid", "held")
PromisePay(t)   == Advance(t, "held", "payout")
PromiseBack(t)  == Advance(t, "held", "refund")
PaySeller(t)    == Pay(t, "payout", "seller")
PayBuyer(t)     == Pay(t, "refund", "buyer")
ClosePaid(t)    == moved[t] = "seller" /\ Advance(t, "payout", "paid")
CloseRefund(t)  == moved[t] = "buyer" /\ Advance(t, "refund", "refunded")

PromiseNext ==
  \E t \in TradeIds :
    \/ Open(t) \/ Lapse(t) \/ Receive(t) \/ PromisePay(t) \/ PromiseBack(t)
    \/ PaySeller(t) \/ PayBuyer(t) \/ ClosePaid(t) \/ CloseRefund(t)

PromiseSpec == PromiseInit /\ [][PromiseNext]_promiseVars

=============================================================================
