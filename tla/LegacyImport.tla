------------------------------ MODULE LegacyImport -----------------------------
(***************************************************************************)
(* What a starting server does before it serves: apply the migrations that *)
(* are missing, then bring the files of the backend that had no database   *)
(* into the tables, once, and rename them.  It may die at any step, and it *)
(* stops at an error, to be started again.                                 *)
(***************************************************************************)
EXTENDS Naturals, FiniteSets

CONSTANTS
  Migrations, \* their number
  Sources,    \* legacy files, one row each
  Counted,    \* sources whose tables legacyDBEmpty looks at
  Removable,  \*   whose rows clients can remove: profiles, listings, messages
  Upserted    \*   whose import overwrites instead of inserting: statistics

ASSUME ImportAssumption ==
  /\ Migrations \in Nat /\ IsFiniteSet(Sources)
  /\ (Counted \cup Removable \cup Upserted) \subseteq Sources

VARIABLES
  proc,     \* where the server is
  applied,  \* schema_migrations
  files,    \* legacy files under their own name
  corrupt,  \*   those that do not decode
  rows,     \* rows that came from a file
  fresh,    \* the counted tables hold rows the server itself has written
  reading,  \* the files read, and then those still to be renamed
  removed,  \* history: sources whose row a client has removed
  imported  \* history: sources imported

importVars == << proc, applied, files, corrupt, rows, fresh, reading, removed, imported >>

Stages == {"down", "migrate", "check", "read", "import", "rename", "serving"}

ImportTypeOK ==
  /\ proc \in Stages
  /\ applied \in 0 .. Migrations
  /\ corrupt \subseteq files /\ files \subseteq Sources /\ reading \subseteq Sources
  /\ rows \subseteq imported /\ removed \subseteq imported /\ imported \subseteq Sources
  /\ fresh \in BOOLEAN
  /\ applied < Migrations => rows = {} /\ ~fresh /\ proc \in {"down", "migrate"}

ImportInit ==
  /\ proc = "down" /\ applied = 0
  /\ files = Sources /\ corrupt \in SUBSET Sources
  /\ rows = {} /\ fresh = FALSE /\ reading = {}
  /\ removed = {} /\ imported = {}

To(stage) == proc' = stage
Tables == << applied, rows, fresh, removed, imported >>

-----------------------------------------------------------------------------
StartServer ==
  /\ proc = "down" /\ To("migrate") /\ reading' = {}
  /\ UNCHANGED << files, corrupt, Tables >>

\* Mutant of MigrateOne: the record of a migration is not looked up.
MigrateAgain ==
  /\ proc = "migrate" /\ applied' = applied + 1
  /\ UNCHANGED << proc, files, corrupt, rows, fresh, reading, removed, imported >>

\* Each migration and its record are one transaction.
MigrateOne ==
  /\ proc = "migrate" /\ applied < Migrations
  /\ applied' = applied + 1
  /\ UNCHANGED << proc, files, corrupt, rows, fresh, reading, removed, imported >>

MigrateDone ==
  /\ proc = "migrate" /\ applied = Migrations /\ To("check")
  /\ UNCHANGED << files, corrupt, reading, Tables >>

\* legacyDBEmpty.
DBEmpty == ~fresh /\ rows \cap Counted = {}

CheckEmpty ==
  /\ proc = "check"
  /\ To(IF DBEmpty THEN "read" ELSE "serving")
  /\ UNCHANGED << files, corrupt, reading, Tables >>

\* A file that does not decode stops the start; without any file it goes on.
ReadSources ==
  /\ proc = "read"
  /\ reading' = files
  /\ To(IF corrupt # {} THEN "down" ELSE IF files = {} THEN "serving" ELSE "import")
  /\ UNCHANGED << files, corrupt, Tables >>

\* Mutant of ImportSources: the files are renamed before the commit.
ImportRenamed ==
  /\ proc = "import"
  /\ rows \cap reading \subseteq Upserted
  /\ \/ files # {} /\ files' = {} /\ UNCHANGED << proc, rows, imported >>
     \/ files = {} /\ To("rename") /\ rows' = rows \cup reading /\ imported' = imported \cup reading
          /\ UNCHANGED files
  /\ UNCHANGED << corrupt, reading, applied, fresh, removed >>

\* All sources in one transaction; a row that is there already is an error.
ImportSources ==
  /\ proc = "import"
  /\ rows \cap reading \subseteq Upserted
  /\ To("rename") /\ rows' = rows \cup reading /\ imported' = imported \cup reading
  /\ UNCHANGED << files, corrupt, reading, applied, fresh, removed >>

ImportFails ==
  /\ proc = "import" /\ To("down")
  /\ UNCHANGED << files, corrupt, reading, Tables >>

RenameSource(s) ==
  /\ proc = "rename" /\ s \in reading \cap files
  /\ files' = files \ {s} /\ reading' = reading \ {s}
  /\ UNCHANGED << proc, corrupt, Tables >>

\* An error in between stops the server, like a crash.
RenameDone ==
  /\ proc = "rename" /\ reading = {} /\ To("serving")
  /\ UNCHANGED << files, corrupt, reading, Tables >>

Die ==
  /\ proc # "down" /\ To("down")
  /\ UNCHANGED << files, corrupt, reading, Tables >>

\* The operator replaces a file that does not decode.
Repair(s) ==
  /\ s \in corrupt /\ corrupt' = corrupt \ {s}
  /\ UNCHANGED << proc, files, reading, Tables >>

\* Clients of the running server: an open is counted, a row is removed.
Write ==
  /\ proc = "serving" /\ ~fresh /\ fresh' = TRUE
  /\ UNCHANGED << proc, files, corrupt, reading, applied, rows, removed, imported >>

Remove(s) ==
  /\ proc = "serving" /\ s \in rows \cap Removable
  /\ rows' = rows \ {s} /\ removed' = removed \cup {s}
  /\ UNCHANGED << proc, files, corrupt, reading, applied, fresh, imported >>

StartupStep ==
  \/ MigrateOne \/ MigrateDone \/ CheckEmpty \/ ReadSources
  \/ ImportSources \/ ImportFails \/ RenameDone
  \/ \E s \in Sources : RenameSource(s) \/ Repair(s) \/ Remove(s)
  \/ Write

-----------------------------------------------------------------------------
\* Whenever the server dies, every legacy record is still in its file, or in the
\* tables, or a client has removed it; and a server that serves imported records
\* has imported all of them, never some ("leaves sources untouched").
LegacyKept ==
  /\ Sources \subseteq files \cup rows \cup removed
  /\ imported \in {{}, Sources}

=============================================================================
