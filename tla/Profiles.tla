-------------------------------- MODULE Profiles -------------------------------
(***************************************************************************)
(* One wallet's published profile: a row that publications replace and     *)
(* deletions remove, both only when they are newer than the row.  The row  *)
(* is read and written in two statements under the store's mutex.          *)
(***************************************************************************)
EXTENDS Naturals

CONSTANTS
  Publications, \* signed profiles
  Deletions,    \* signed deletions
  UpdatedAt,    \* of each: its timestamp
  Changes,      \* requests that can be in progress at one time
  NoProfile

ASSUME ProfileAssumption ==
  /\ Publications \cap Deletions = {} /\ NoProfile \notin Publications
  /\ UpdatedAt \in [Publications \cup Deletions -> Nat \ {0}]

VARIABLES
  profile, \* the row: the publication it holds
  change   \* the requests in progress

profileVars == << profile, change >>

Unused == [at |-> "unused"]
Requests == Publications \cup Deletions

ProfileTypeOK ==
  /\ profile \in Publications \cup {NoProfile}
  /\ change \in [Changes -> {Unused} \cup [at : {"lock", "read", "write"}, of : Requests]]

ProfileInit ==
  /\ profile = NoProfile
  /\ change = [c \in Changes |-> Unused]

Stage(c, s) == change[c].at = s
Advance(c, s) == change' = [change EXCEPT ![c].at = s]
Answer(c) == change' = [change EXCEPT ![c] = Unused]

\* Mutant of Held: the mutex covers the write only.
HeldForWrite == \E c \in Changes : change[c].at = "write"

\* The mutex of the store.
Held == \E c \in Changes : change[c].at \in {"read", "write"}

-----------------------------------------------------------------------------
\* A request that is well formed and whose signature or session is valid.
Submit(c, r) ==
  /\ Stage(c, "unused")
  /\ change' = [change EXCEPT ![c] = [at |-> "lock", of |-> r]]
  /\ UNCHANGED profile

LockStore(c) ==
  /\ Stage(c, "lock") /\ ~Held
  /\ Advance(c, "read")
  /\ UNCHANGED profile

\* Not newer than the row is a conflict; deleting what is not there is not found.
Stale(r) == profile # NoProfile /\ UpdatedAt[r] <= UpdatedAt[profile]
Missing(r) == profile = NoProfile /\ r \in Deletions

ReadRow(c) ==
  /\ Stage(c, "read")
  /\ IF Stale(change[c].of) \/ Missing(change[c].of) THEN Answer(c) ELSE Advance(c, "write")
  /\ UNCHANGED profile

WriteRow(c) ==
  /\ Stage(c, "write")
  /\ profile' = IF change[c].of \in Deletions THEN NoProfile ELSE change[c].of
  /\ Answer(c)

\* A statement fails; the row is unchanged.
ChangeFails(c) ==
  /\ change[c].at \in {"read", "write"}
  /\ Answer(c) /\ UNCHANGED profile

ProfileStep ==
  \E c \in Changes :
    \/ \E r \in Requests : Submit(c, r)
    \/ LockStore(c) \/ ReadRow(c) \/ WriteRow(c) \/ ChangeFails(c)

-----------------------------------------------------------------------------
\* A profile gives way only to a newer publication or to a newer deletion, however
\* many requests are read before one of them writes (put and delete compare under
\* the mutex).
ProfileOnlyNewer ==
  [][profile # NoProfile /\ profile' # profile =>
       \E c \in Changes :
         /\ change[c].at = "write" /\ change'[c] = Unused
         /\ UpdatedAt[change[c].of] > UpdatedAt[profile]
         /\ profile' \in {change[c].of, NoProfile}]_profileVars

=============================================================================
