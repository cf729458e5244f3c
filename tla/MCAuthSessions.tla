----------------------------- MODULE MCAuthSessions -----------------------------
(***************************************************************************)
(* Small instances of AuthSessions for TLC.                                *)
(***************************************************************************)
EXTENDS AuthSessions, TLC

Symmetry == Permutations(Challenges) \cup Permutations(Requests) \cup Permutations(Owners)

=============================================================================
