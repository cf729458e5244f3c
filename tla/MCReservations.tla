----------------------------- MODULE MCReservations -----------------------------
(***************************************************************************)
(* Small instances of Reservations for TLC.                                *)
(***************************************************************************)
EXTENDS Reservations

=============================================================================
