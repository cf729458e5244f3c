------------------------------- MODULE MCEscrow -------------------------------
(***************************************************************************)
(* Small instances of Escrow for TLC.                                      *)
(***************************************************************************)
EXTENDS Escrow, TLC

\* Ids, wallets and handles are interchangeable; no liveness run uses this.
Symmetry == Permutations(TradeIds) \cup Permutations(Users) \cup Permutations(Handles)

=============================================================================
