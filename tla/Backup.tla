--------------------------------- MODULE Backup --------------------------------
(***************************************************************************)
(* One wallet's slot in the backup store: a file that is read, compared    *)
(* and replaced by writing a temporary file and renaming it.  No lock is   *)
(* taken and the temporary name is the same for every request, so two      *)
(* requests that overlap may hold the same open file.                      *)
(***************************************************************************)
EXTENDS Naturals, FiniteSets, FiniteSetsExt

CONSTANTS
  Docs,       \* the backups devices upload
  ExportedAt, \* of each: its timestamp
  Size,       \*   its length as a file
  Puts,       \* requests that can be in progress at one time
  None

ASSUME BackupAssumption ==
  /\ None \notin Docs \cup Nat /\ IsFiniteSet(Puts)
  /\ ExportedAt \in [Docs -> Nat \ {0}]
  /\ Size \in [Docs -> Nat \ {0}]

VARIABLES
  slot,  \* the file under the slot's name
  tmp,   \* the file under the temporary name
  file,  \* content of every file: what was written at its start, and its length
  put,   \* the requests in progress
  acked, \* history: documents answered with ok
  raced  \* history: two requests were between the comparison and the rename

backupVars == << slot, tmp, file, put, acked, raced >>

Inodes == 1 .. Cardinality(Puts) + 2
Empty == [doc |-> None, size |-> 0]
Idle == [at |-> "idle"]

BackupTypeOK ==
  /\ slot \in Inodes \cup {None} /\ tmp \in Inodes \cup {None}
  /\ file \in [Inodes -> [doc : Docs \cup {None}, size : Nat]]
  /\ put \in [Puts -> {Idle} \cup [at : {"get", "open"}, doc : Docs]
                             \cup [at : {"write", "rename"}, doc : Docs, fd : Inodes]]
  /\ acked \subseteq Docs /\ raced \in BOOLEAN

BackupInit ==
  /\ slot = None /\ tmp = None /\ file = [n \in Inodes |-> Empty]
  /\ put = [p \in Puts |-> Idle]
  /\ acked = {} /\ raced = FALSE

\* The file parses: nothing is missing, no end of a longer document is left.
Whole(n) == file[n].doc # None /\ file[n].size = Size[file[n].doc]
Stored == file[slot].doc

At(p, pc) == put[p].at = pc
Doc(p) == put[p].doc
Goto(p, pc) == put' = [put EXCEPT ![p].at = pc]

\* The answer: ok, or an error or a conflict.
Ok(p) == put' = [put EXCEPT ![p] = Idle] /\ acked' = acked \cup {Doc(p)}
Refuse(p) == put' = [put EXCEPT ![p] = Idle] /\ UNCHANGED acked

Replacing == { p \in Puts : put[p].at \in {"open", "write", "rename"} }
InUse == {slot, tmp} \cup { put[p].fd : p \in { q \in Puts : put[q].at \in {"write", "rename"} } }
Fresh == CHOOSE n \in Inodes : n \notin InUse

-----------------------------------------------------------------------------
Arrive(p, d) ==
  /\ At(p, "idle")
  /\ put' = [put EXCEPT ![p] = [at |-> "get", doc |-> d]]
  /\ UNCHANGED << slot, tmp, file, acked, raced >>

\* Get: the slot holds nothing, does not parse, or holds a document.
Unreadable == slot # None /\ ~Whole(slot)
Holds(d) == slot # None /\ Whole(slot) /\ Stored = d

\* A document that is not newer than the stored one is a conflict.
Conflict(d) == slot # None /\ Whole(slot) /\ Stored # d /\ ExportedAt[d] <= ExportedAt[Stored]

\* Get and the comparison; the same document again is a repeated request.
Compare(p) ==
  /\ At(p, "get")
  /\ LET d == Doc(p) IN
     \/ (Unreadable \/ Conflict(d)) /\ Refuse(p) /\ UNCHANGED raced
     \/ Holds(d) /\ Ok(p) /\ UNCHANGED raced
     \/ /\ ~Unreadable /\ ~Conflict(d) /\ ~Holds(d)
        /\ Goto(p, "open") /\ UNCHANGED acked
        /\ raced' = (raced \/ Replacing # {})
  /\ UNCHANGED << slot, tmp, file >>

\* Mutant of Open: the slot itself is opened for writing.
OpenInPlace(p) ==
  /\ At(p, "open")
  /\ LET n == IF slot = None THEN Fresh ELSE slot IN
       /\ slot' = n /\ tmp' = n
       /\ file' = [file EXCEPT ![n] = Empty]
       /\ put' = [put EXCEPT ![p] = [at |-> "write", doc |-> Doc(p), fd |-> n]]
  /\ UNCHANGED << acked, raced >>

\* WriteFile opens the temporary name, which may be there, and truncates it.
Open(p) ==
  /\ At(p, "open")
  /\ LET n == IF tmp = None THEN Fresh ELSE tmp IN
       /\ tmp' = n
       /\ file' = [file EXCEPT ![n] = Empty]
       /\ put' = [put EXCEPT ![p] = [at |-> "write", doc |-> Doc(p), fd |-> n]]
  /\ UNCHANGED << slot, acked, raced >>

\* A document written over a longer one leaves the end of that one.
Write(p) ==
  /\ At(p, "write")
  /\ file' = [file EXCEPT ![put[p].fd] = [doc |-> Doc(p), size |-> Max({@.size, Size[Doc(p)]})]]
  /\ Goto(p, "rename")
  /\ UNCHANGED << slot, tmp, acked, raced >>

\* Whatever the temporary name stands for now becomes the slot.
Rename(p) ==
  /\ At(p, "rename")
  /\ \/ tmp # None /\ slot' = tmp /\ tmp' = None /\ Ok(p)
     \/ tmp = None /\ Refuse(p) /\ UNCHANGED << slot, tmp >>
  /\ UNCHANGED << file, raced >>

\* The read, the directory, the write or the rename fails.
Fail(p) ==
  /\ ~At(p, "idle") /\ Refuse(p)
  /\ UNCHANGED << slot, tmp, file, raced >>

BackupStep ==
  \E p \in Puts :
    \/ \E d \in Docs : Arrive(p, d)
    \/ Compare(p) \/ Open(p) \/ Write(p) \/ Rename(p) \/ Fail(p)

-----------------------------------------------------------------------------
\* As long as no two requests were between comparison and rename at one time, the
\* slot parses and is at least as new as every backup that was answered with ok,
\* whatever fails or dies in between (put: temporary file, then rename).
BackupIsNewest ==
  ~raced =>
    /\ slot # None => Whole(slot)
    /\ \A d \in acked : slot # None /\ ExportedAt[Stored] >= ExportedAt[d]

\* "PUT older exported_at than stored -> 409 Conflict": a backup is never replaced
\* by an older one.
NeverOlder ==
  [][slot # None /\ slot' # None /\ Whole(slot) /\ Whole(slot)'
       => ExportedAt[Stored'] >= ExportedAt[Stored]]_backupVars

\* A backup that can be downloaded stays so, and with it the way to replace it
\* (Get fails for ever on a slot that does not parse, and put calls it).
SlotStaysReadable == slot # None => Whole(slot)

=============================================================================
