------------------------------ MODULE TradeStates ------------------------------
(***************************************************************************)
(* The persisted lifecycle of one marketplace trade                        *)
(* (backend/marketplace.go).  Pure definitions: the states, the transition *)
(* table every store transaction consults, and the two sequences of states *)
(* the watchers walk along.                                                *)
(***************************************************************************)
EXTENDS Naturals, Sequences

TradeState ==
  { "RESERVED", "AWAITING_DEPOSIT", "DEPOSIT_FINALIZING", "FUNDED",
    "AWAITING_RELEASE", "RELEASE_CONFIRMING", "AWAITING_CLAIM",
    "CLAIM_CONFIRMING", "SETTLEMENT_PENDING", "SETTLED",
    "FAILED_AFTER_RELEASE", "REFUND_PENDING", "REFUNDED", "MANUAL_REVIEW",
    "EXPIRED", "CANCELED" }

\* The table `allowedTransitions`; a state without a row has no successor.
AllowedTransitions ==
  [ RESERVED             |-> {"AWAITING_DEPOSIT", "REFUND_PENDING", "MANUAL_REVIEW", "EXPIRED", "CANCELED"},
    AWAITING_DEPOSIT     |-> {"DEPOSIT_FINALIZING", "REFUND_PENDING", "MANUAL_REVIEW", "EXPIRED", "CANCELED"},
    DEPOSIT_FINALIZING   |-> {"FUNDED", "MANUAL_REVIEW"},
    FUNDED               |-> {"AWAITING_RELEASE", "REFUND_PENDING", "MANUAL_REVIEW"},
    AWAITING_RELEASE     |-> {"RELEASE_CONFIRMING", "REFUND_PENDING", "MANUAL_REVIEW"},
    RELEASE_CONFIRMING   |-> {"AWAITING_CLAIM", "FAILED_AFTER_RELEASE", "MANUAL_REVIEW"},
    AWAITING_CLAIM       |-> {"CLAIM_CONFIRMING", "FAILED_AFTER_RELEASE", "MANUAL_REVIEW"},
    CLAIM_CONFIRMING     |-> {"SETTLEMENT_PENDING", "FAILED_AFTER_RELEASE", "MANUAL_REVIEW"},
    SETTLEMENT_PENDING   |-> {"SETTLED", "MANUAL_REVIEW"},
    FAILED_AFTER_RELEASE |-> {"REFUND_PENDING", "MANUAL_REVIEW"},
    REFUND_PENDING       |-> {"REFUNDED", "MANUAL_REVIEW"} ]

\* canTransitionTo: staying put is always allowed.
CanTransitionTo(from, to) ==
  \/ from = to
  \/ from \in DOMAIN AllowedTransitions /\ to \in AllowedTransitions[from]

\* isUnpaidReservation looks at these states (and at the deposit hash).
UnpaidStates == {"RESERVED", "AWAITING_DEPOSIT"}

\* The states in which the trade no longer blocks a new listing.
ClosedStates == {"EXPIRED", "CANCELED", "SETTLED", "REFUNDED"}

\* heldStates: a deposit was seen and has not left the escrow account yet.
HeldStates ==
  { "DEPOSIT_FINALIZING", "FUNDED", "AWAITING_RELEASE", "RELEASE_CONFIRMING",
    "AWAITING_CLAIM", "CLAIM_CONFIRMING", "SETTLEMENT_PENDING",
    "FAILED_AFTER_RELEASE", "REFUND_PENDING" }

SettlementChain ==
  << "AWAITING_RELEASE", "RELEASE_CONFIRMING", "AWAITING_CLAIM",
     "CLAIM_CONFIRMING", "SETTLEMENT_PENDING" >>

\* The ownership sweep loops over settlementChain[:len-1].
SweptStates == { SettlementChain[i] : i \in 1 .. Len(SettlementChain) - 1 }

\* The hop walkChainTo takes from a swept state.
NextInChain(s) ==
  LET i == CHOOSE j \in 1 .. Len(SettlementChain) - 1 : SettlementChain[j] = s
  IN  SettlementChain[i + 1]

=============================================================================
