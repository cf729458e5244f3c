------------------------------ MODULE MCDocuments ------------------------------
(***************************************************************************)
(* Small instances of Documents for TLC.                                   *)
(***************************************************************************)
EXTENDS Documents, TLC

CONSTANTS old, new, twin, first, second, removal

\* Two devices upload: two backups of one moment, and a newer, shorter one.
MCExportedAt == (old :> 1) @@ (twin :> 1) @@ (new :> 2)
MCSize == (old :> 2) @@ (twin :> 1) @@ (new :> 1)

\* A profile, its removal and the next profile.
MCUpdatedAt == (first :> 1) @@ (removal :> 2) @@ (second :> 3)

Symmetric == Permutations(Puts) \cup Permutations(Changes)

=============================================================================
