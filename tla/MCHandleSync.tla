------------------------------ MODULE MCHandleSync ------------------------------
(***************************************************************************)
(* Small instances of HandleSync for TLC.                                  *)
(***************************************************************************)
EXTENDS HandleSync, TLC

CONSTANT OneUser

\* Every swap contract belongs to the same wallet.
MCCreator == [c \in Contracts |-> OneUser]

=============================================================================
