-------------------------------- MODULE Documents ------------------------------
(***************************************************************************)
(* The two stores of documents a wallet signs and the server keeps: the    *)
(* published profile and the backup.  Both promise to keep the newest; one *)
(* has a mutex and a database, the other a directory.  They live and die   *)
(* in one process.                                                         *)
(***************************************************************************)
EXTENDS Backup, Profiles

docVars == << backupVars, profileVars >>

DocumentsTypeOK == BackupTypeOK /\ ProfileTypeOK

DocumentsInit == BackupInit /\ ProfileInit

\* The process dies: requests are forgotten, the files and the row stay.
Crash ==
  /\ put' = [p \in Puts |-> Idle]
  /\ change' = [c \in Changes |-> Unused]
  /\ UNCHANGED << slot, tmp, file, acked, raced, profile >>

DocumentsNext ==
  \/ BackupStep /\ UNCHANGED profileVars
  \/ ProfileStep /\ UNCHANGED backupVars
  \/ Crash

DocumentsSpec == DocumentsInit /\ [][DocumentsNext]_docVars

=============================================================================
