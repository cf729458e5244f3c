---------------------------- MODULE DocumentsProofs ----------------------------
(***************************************************************************)
(* Theorems about Documents, for every set of backups and profiles, every  *)
(* timestamp and length of them and every number of requests.              *)
(***************************************************************************)
EXTENDS Documents, FiniteSetTheorems, TLAPS

-----------------------------------------------------------------------------
(***************************************************************************)
(* The published profile.                                                  *)
(***************************************************************************)
\* The mutex of the store.
StoreExcludes ==
  \A c, d \in Changes :
    change[c].at \in {"read", "write"} /\ change[d].at \in {"read", "write"} => c = d

\* What a request compared is still so when it writes.
ComparedHolds ==
  \A c \in Changes :
    change[c].at = "write" => ~Stale(change[c].of) /\ ~Missing(change[c].of)

ProfileInv == ProfileTypeOK /\ StoreExcludes /\ ComparedHolds

\* A request in progress is one of the signed documents.
LEMMA ChangeIs ==
  ASSUME ProfileTypeOK, NEW c \in Changes, change[c] # Unused
  PROVE  change[c] \in [at : {"lock", "read", "write"}, of : Requests]
  BY DEF ProfileTypeOK

\* At first there is no profile and no request.
LEMMA ProfileInitStep == ProfileInit => ProfileInv
  BY DEF ProfileInit, ProfileInv, ProfileTypeOK, StoreExcludes, ComparedHolds, Unused

\* A step that writes nothing and leaves no other request between its comparison
\* and its write.
LEMMA ProfileQuietStep ==
  ASSUME ProfileInv, NEW c \in Changes,
         (\E r \in Requests : Submit(c, r)) \/ LockStore(c) \/ ReadRow(c) \/ ChangeFails(c)
  PROVE  ProfileInv'
  <1> USE DEF ProfileInv
  <1>1. profile' = profile
    BY DEF Submit, LockStore, ReadRow, ChangeFails
  <1>2. PICK next \in {Unused} \cup [at : {"lock", "read", "write"}, of : Requests] :
          /\ change' = [change EXCEPT ![c] = next]
          /\ next.at \in {"read", "write"} => change[c].at = "read" \/ ~Held
          /\ next.at = "write" => ~Stale(next.of) /\ ~Missing(next.of)
    <2>1. ASSUME NEW r \in Requests, Submit(c, r)
          PROVE  /\ [at |-> "lock", of |-> r] \in [at : {"lock", "read", "write"}, of : Requests]
                 /\ change' = [change EXCEPT ![c] = [at |-> "lock", of |-> r]]
      BY <2>1 DEF Submit
    <2>2. ASSUME LockStore(c)
          PROVE  /\ [change[c] EXCEPT !.at = "read"] \in [at : {"lock", "read", "write"}, of : Requests]
                 /\ change' = [change EXCEPT ![c] = [change[c] EXCEPT !.at = "read"]]
                 /\ [change[c] EXCEPT !.at = "read"].at = "read" /\ ~Held
      <3>1. change[c] \in [at : {"lock", "read", "write"}, of : Requests]
        BY <2>2, ChangeIs DEF LockStore, Stage, Unused
      <3> QED
        BY <2>2, <3>1 DEF LockStore, Advance
    <2>3. ASSUME ReadRow(c), ~(Stale(change[c].of) \/ Missing(change[c].of))
          PROVE  /\ [change[c] EXCEPT !.at = "write"] \in [at : {"lock", "read", "write"}, of : Requests]
                 /\ change' = [change EXCEPT ![c] = [change[c] EXCEPT !.at = "write"]]
                 /\ [change[c] EXCEPT !.at = "write"].of = change[c].of /\ change[c].at = "read"
      <3>1. change[c] \in [at : {"lock", "read", "write"}, of : Requests]
        BY <2>3, ChangeIs DEF ReadRow, Stage, Unused
      <3> QED
        BY <2>3, <3>1 DEF ReadRow, Advance, Stage
    <2>4. ASSUME \/ ReadRow(c) /\ (Stale(change[c].of) \/ Missing(change[c].of))
                 \/ ChangeFails(c)
          PROVE  change' = [change EXCEPT ![c] = Unused]
      BY <2>4 DEF ReadRow, ChangeFails, Answer
    <2>5. CASE \E r \in Requests : Submit(c, r)
      BY <2>1, <2>5
    <2>6. CASE LockStore(c)
      BY <2>2, <2>6
    <2>7. CASE ReadRow(c) /\ ~(Stale(change[c].of) \/ Missing(change[c].of))
      BY <2>3, <2>7
    <2>8. CASE \/ ReadRow(c) /\ (Stale(change[c].of) \/ Missing(change[c].of))
               \/ ChangeFails(c)
      <3>1. Unused.at = "unused"
        BY DEF Unused
      <3>2. change' = [change EXCEPT ![c] = Unused]
        BY <2>4, <2>8
      <3> QED
        BY <3>1, <3>2
    <2> QED
      BY <2>5, <2>6, <2>7, <2>8
  <1>3. change \in [Changes -> {Unused} \cup [at : {"lock", "read", "write"}, of : Requests]]
    BY DEF ProfileTypeOK
  <1>4. ProfileTypeOK'
    BY <1>1, <1>2, <1>3 DEF ProfileTypeOK
  <1>5. StoreExcludes'
    BY <1>2, <1>3 DEF StoreExcludes, Held
  <1>6. ComparedHolds'
    <2>1. \A d \in Changes : change'[d] = IF d = c THEN next ELSE change[d]
      BY <1>2, <1>3
    <2> QED
      BY <1>1, <1>2, <2>1 DEF ComparedHolds, Stale, Missing
  <1> QED
    BY <1>4, <1>5, <1>6

\* The write is by the one request that holds the mutex, of what it compared.
LEMMA ProfileWriteStep ==
  ASSUME ProfileInv, NEW c \in Changes, WriteRow(c)
  PROVE  ProfileInv'
  <1>1. /\ change[c].at = "write" /\ change' = [change EXCEPT ![c] = Unused]
        /\ profile' = IF change[c].of \in Deletions THEN NoProfile ELSE change[c].of
    BY DEF WriteRow, Stage, Answer
  <1>2. /\ change[c] \in [at : {"lock", "read", "write"}, of : Requests]
        /\ change \in [Changes -> {Unused} \cup [at : {"lock", "read", "write"}, of : Requests]]
    BY <1>1, ChangeIs DEF Unused, ProfileInv, ProfileTypeOK
  <1>3. ProfileTypeOK'
    BY <1>1, <1>2 DEF ProfileTypeOK, Requests
  <1>4. \A d \in Changes : change'[d].at \notin {"read", "write"}
    BY <1>1, <1>2 DEF ProfileInv, StoreExcludes, Unused
  <1> QED
    BY <1>3, <1>4 DEF ProfileInv, StoreExcludes, ComparedHolds

\* Every step of the stores keeps the invariant of the profile.
LEMMA ProfileNextStep == ProfileInv /\ [DocumentsNext]_docVars => ProfileInv'
  <1> SUFFICES ASSUME ProfileInv, [DocumentsNext]_docVars
               PROVE  ProfileInv'
    OBVIOUS
  <1>1. CASE UNCHANGED profileVars
    BY <1>1 DEF profileVars, ProfileInv, ProfileTypeOK, StoreExcludes, ComparedHolds, Stale, Missing
  <1>2. CASE ProfileStep
    BY <1>2, ProfileQuietStep, ProfileWriteStep DEF ProfileStep
  <1>3. CASE Crash
    BY <1>3 DEF Crash, ProfileInv, ProfileTypeOK, StoreExcludes, ComparedHolds, Unused
  <1> QED
    BY <1>1, <1>2, <1>3 DEF DocumentsNext, docVars

\* The mutex keeps what a request compared as it is until it writes.
THEOREM ProfileCorrect == DocumentsSpec => []ProfileInv
  BY ProfileInitStep, ProfileNextStep, PTL DEF DocumentsSpec, DocumentsInit

\* A step that replaces or removes a profile is the write of a newer document.
LEMMA ReplacedByNewer ==
  ASSUME ProfileInv, DocumentsNext, profile # NoProfile, profile' # profile
  PROVE  \E c \in Changes :
           /\ change[c].at = "write" /\ change'[c] = Unused
           /\ UpdatedAt[change[c].of] > UpdatedAt[profile]
           /\ profile' \in {change[c].of, NoProfile}
  <1>1. PICK c \in Changes : WriteRow(c)
    BY DEF DocumentsNext, profileVars, Crash, ProfileStep, Submit, LockStore, ReadRow, ChangeFails
  <1>2. /\ change[c].at = "write" /\ change' = [change EXCEPT ![c] = Unused]
        /\ profile' \in {change[c].of, NoProfile}
    BY <1>1 DEF WriteRow, Stage, Answer
  <1>3. ~(UpdatedAt[change[c].of] <= UpdatedAt[profile])
    BY <1>2 DEF ProfileInv, ComparedHolds, Stale
  <1>4. UpdatedAt[change[c].of] \in Nat /\ UpdatedAt[profile] \in Nat
    <2>1. change[c].of \in Requests /\ profile \in Requests
      BY <1>2, ChangeIs DEF ProfileInv, ProfileTypeOK, Requests, Unused
    <2> QED
      BY <2>1, ProfileAssumption DEF Requests
  <1>5. change'[c] = Unused
    BY <1>2 DEF ProfileInv, ProfileTypeOK
  <1> QED
    BY <1>2, <1>3, <1>4, <1>5

\* A profile gives way only to a newer publication or a newer deletion, however
\* many requests overlap and whenever the process dies (put and delete of the
\* profile store).
THEOREM NewerOnly == DocumentsSpec => ProfileOnlyNewer
  <1>1. ProfileInv /\ [DocumentsNext]_docVars =>
          [profile # NoProfile /\ profile' # profile =>
             \E c \in Changes :
               /\ change[c].at = "write" /\ change'[c] = Unused
               /\ UpdatedAt[change[c].of] > UpdatedAt[profile]
               /\ profile' \in {change[c].of, NoProfile}]_profileVars
    BY ReplacedByNewer DEF docVars, profileVars
  <1> QED
    BY <1>1, ProfileCorrect, PTL DEF DocumentsSpec, ProfileOnlyNewer

-----------------------------------------------------------------------------
(***************************************************************************)
(* The backup.                                                             *)
(***************************************************************************)
\* At most one request is between its comparison and its rename.
OneReplaces == \A p, q \in Replacing : p = q

\* What can be downloaded is complete and at least as new as what was answered.
SlotIsWhole == slot # None => Whole(slot)
AckedIsStored == \A d \in acked : slot # None /\ ExportedAt[Stored] >= ExportedAt[d]

\* A request that goes on after its comparison brings a newer document.
BringsNewer == \A p \in Replacing : slot # None => ExportedAt[Doc(p)] > ExportedAt[Stored]

\* The temporary file is not the slot; a writer has it to itself.
TmpIsApart ==
  /\ tmp # None => tmp # slot
  /\ \A p \in Puts :
       /\ At(p, "write") => put[p].fd = tmp /\ file[tmp] = Empty
       /\ At(p, "rename") => put[p].fd = tmp /\ Whole(tmp) /\ file[tmp].doc = Doc(p)

Alone == OneReplaces /\ SlotIsWhole /\ AckedIsStored /\ BringsNewer /\ TmpIsApart

BackupInv == BackupTypeOK /\ (~raced => Alone)

\* There is a file that is neither under a name nor open in any request.
LEMMA FreshIs ==
  ASSUME BackupTypeOK, tmp = None
  PROVE  Fresh \in Inodes /\ Fresh \notin InUse
  <1> DEFINE W == { q \in Puts : put[q].at \in {"write", "rename"} }
             F == { put[p].fd : p \in W }
             f == [p \in W |-> put[p].fd]
             n == Cardinality(Puts)
  <1>1. IsFiniteSet(W) /\ Cardinality(W) <= n /\ n \in Nat /\ Cardinality(W) \in Nat
    BY BackupAssumption, FS_Subset, FS_CardinalityType
  <1>2. IsFiniteSet(F) /\ Cardinality(F) <= Cardinality(W) /\ Cardinality(F) \in Nat
    <2>1. f \in Surjection(W, F)
      BY DEF Surjection
    <2> QED
      BY <1>1, <2>1, FS_Surjection, FS_CardinalityType
  <1> HIDE DEF W, F, n
  <1>3. IsFiniteSet(F \cup {slot}) /\ Cardinality(F \cup {slot}) <= n + 1
    <2>1. /\ IsFiniteSet(F \cup {slot})
          /\ Cardinality(F \cup {slot}) = IF slot \in F THEN Cardinality(F) ELSE Cardinality(F) + 1
      BY <1>2, FS_AddElement
    <2> QED
      BY <1>1, <1>2, <2>1
  <1>4. IsFiniteSet(Inodes) /\ Cardinality(Inodes) = n + 2
    <2> DEFINE top == n + 2
    <2>1. Inodes = 1 .. top /\ top \in Int /\ 1 \in Int /\ ~(1 > top) /\ top - 1 + 1 = n + 2
      BY <1>1 DEF Inodes, n
    <2> HIDE DEF top
    <2>2. IsFiniteSet(1 .. top) /\ Cardinality(1 .. top) = top - 1 + 1
      BY <2>1, FS_Interval
    <2> QED
      BY <2>1, <2>2
  <1>5. ~(Inodes \subseteq F \cup {slot})
    <2> SUFFICES ASSUME Inodes \subseteq F \cup {slot}
                 PROVE  FALSE
      OBVIOUS
    <2>1. Cardinality(Inodes) <= Cardinality(F \cup {slot})
      BY <1>3, FS_Subset
    <2> QED
      BY <1>1, <1>3, <1>4, <2>1, FS_CardinalityType
  <1>6. InUse = (F \cup {slot}) \cup {None}
    BY DEF InUse, W, F
  <1>7. None \notin Inodes
    BY <1>1, BackupAssumption DEF Inodes, n
  <1>8. \E i \in Inodes : i \notin InUse
    BY <1>5, <1>6, <1>7
  <1> QED
    BY <1>8 DEF Fresh

\* A request in progress has a document, and one that writes an open file.
LEMMA PutIs ==
  ASSUME BackupTypeOK, NEW p \in Puts
  PROVE  /\ ~At(p, "idle") => Doc(p) \in Docs
         /\ At(p, "write") \/ At(p, "rename") => put[p].fd \in Inodes
         /\ put[p].at \in {"idle", "get", "open", "write", "rename"}
  <1>1. put[p] \in {Idle} \cup [at : {"get", "open"}, doc : Docs]
                     \cup [at : {"write", "rename"}, doc : Docs, fd : Inodes]
    BY DEF BackupTypeOK
  <1> QED
    BY <1>1 DEF At, Doc, Idle

\* The larger of two lengths.
LEMMA MaxIs ==
  ASSUME NEW a \in Nat, NEW b \in Nat
  PROVE  Max({a, b}) \in Nat /\ (a <= b => Max({a, b}) = b)
  <1>1. CASE a <= b
    <2>1. \A y \in {a, b} : b >= y
      BY <1>1
    <2>2. \A x \in {a, b} : (\A y \in {a, b} : x >= y) => x = b
      BY <1>1
    <2> QED
      BY <2>1, <2>2 DEF Max
  <1>2. CASE ~(a <= b)
    <2>1. \A y \in {a, b} : a >= y
      BY <1>2
    <2>2. \A x \in {a, b} : (\A y \in {a, b} : x >= y) => x = a
      BY <1>2
    <2> QED
      BY <1>2, <2>1, <2>2 DEF Max
  <1> QED
    BY <1>1, <1>2

-----------------------------------------------------------------------------
\* The types, race or not.
LEMMA BackupTypes ==
  ASSUME BackupTypeOK, NEW p \in Puts,
         \/ \E d \in Docs : Arrive(p, d)
         \/ Compare(p) \/ Open(p) \/ Write(p) \/ Rename(p) \/ Fail(p)
  PROVE  BackupTypeOK'
  <1> DEFINE Put == {Idle} \cup [at : {"get", "open"}, doc : Docs]
                      \cup [at : {"write", "rename"}, doc : Docs, fd : Inodes]
  <1>1. ASSUME NEW d \in Docs, Arrive(p, d)
        PROVE  BackupTypeOK'
    BY <1>1 DEF Arrive, BackupTypeOK, Inodes
  <1>2. ASSUME Compare(p)
        PROVE  BackupTypeOK'
    <2>1. put[p] \in [at : {"get"}, doc : Docs]
      BY <1>2 DEF Compare, At, BackupTypeOK, Idle
    <2>2. [put[p] EXCEPT !.at = "open"] \in [at : {"get", "open"}, doc : Docs]
      BY <2>1
    <2>3. put' \in [Puts -> Put]
      BY <1>2, <2>2 DEF Compare, BackupTypeOK, Refuse, Ok, Goto
    <2>4. acked' \subseteq Docs /\ raced' \in BOOLEAN
      BY <1>2, <2>1 DEF Compare, BackupTypeOK, Refuse, Ok, Doc
    <2> QED
      BY <1>2, <2>3, <2>4 DEF Compare, BackupTypeOK, Inodes
  <1>3. ASSUME Open(p)
        PROVE  BackupTypeOK'
    <2>1. PICK n : n = (IF tmp = None THEN Fresh ELSE tmp)
      OBVIOUS
    <2>2. n \in Inodes
      BY <2>1, FreshIs DEF BackupTypeOK
    <2>3. Doc(p) \in Docs
      BY <1>3, PutIs DEF Open, At
    <2>4. /\ tmp' = n /\ file' = [file EXCEPT ![n] = Empty]
          /\ put' = [put EXCEPT ![p] = [at |-> "write", doc |-> Doc(p), fd |-> n]]
          /\ UNCHANGED << slot, acked, raced >>
      BY <1>3, <2>1 DEF Open
    <2>5. put' \in [Puts -> Put]
      BY <2>2, <2>3, <2>4 DEF BackupTypeOK
    <2>6. Empty \in [doc : Docs \cup {None}, size : Nat]
      BY DEF Empty
    <2> QED
      BY <2>2, <2>4, <2>5, <2>6 DEF BackupTypeOK, Inodes
  <1>4. ASSUME Write(p)
        PROVE  BackupTypeOK'
    <2>1. put[p] \in [at : {"write", "rename"}, doc : Docs, fd : Inodes]
      BY <1>4 DEF Write, At, BackupTypeOK, Idle
    <2>2. [put[p] EXCEPT !.at = "rename"] \in [at : {"write", "rename"}, doc : Docs, fd : Inodes]
      BY <2>1
    <2>3. put' \in [Puts -> Put]
      BY <1>4, <2>2 DEF Write, BackupTypeOK, Goto
    <2>4. Max({file[put[p].fd].size, Size[Doc(p)]}) \in Nat
      <3>1. file[put[p].fd].size \in Nat /\ Size[Doc(p)] \in Nat
        BY <2>1, BackupAssumption DEF BackupTypeOK, Doc
      <3> QED
        BY <3>1, MaxIs
    <2>5. file' \in [Inodes -> [doc : Docs \cup {None}, size : Nat]]
      BY <1>4, <2>1, <2>4 DEF Write, BackupTypeOK, Doc
    <2> QED
      BY <1>4, <2>3, <2>5 DEF Write, BackupTypeOK, Inodes
  <1>5. ASSUME Rename(p) \/ Fail(p)
        PROVE  BackupTypeOK'
    <2>1. ~At(p, "idle")
      BY <1>5 DEF Rename, Fail, At
    <2>2. Doc(p) \in Docs
      BY <2>1, PutIs
    <2>3. put' \in [Puts -> Put]
      BY <1>5 DEF Rename, Fail, Ok, Refuse, BackupTypeOK
    <2>4. /\ acked' \subseteq Docs
          /\ slot' \in Inodes \cup {None} /\ tmp' \in Inodes \cup {None}
      BY <1>5, <2>2 DEF Rename, Fail, Ok, Refuse, BackupTypeOK
    <2> QED
      BY <1>5, <2>3, <2>4 DEF Rename, Fail, BackupTypeOK, Inodes
  <1> QED
    BY <1>1, <1>2, <1>3, <1>4, <1>5

-----------------------------------------------------------------------------
(***************************************************************************)
(* The steps of requests that do not overlap.                              *)
(***************************************************************************)
\* A request that comes, or is answered without having written, leaves the files;
\* it may have found its own document in the slot.
LEMMA LeaveStep ==
  ASSUME BackupTypeOK, Alone, NEW p \in Puts, put'[p].at \in {"idle", "get"},
         \A q \in Puts : q # p => put'[q] = put[q], UNCHANGED << slot, tmp, file >>,
         \A d \in acked' : d \in acked \/ Holds(d)
  PROVE  Alone'
  <1>1. Replacing' \subseteq Replacing
    BY DEF Replacing
  <1>2. (OneReplaces /\ SlotIsWhole)'
    BY <1>1 DEF Alone, OneReplaces, SlotIsWhole, Whole
  <1>3. AckedIsStored'
    <2> SUFFICES ASSUME NEW d \in acked'
                 PROVE  slot' # None /\ ExportedAt[Stored'] >= ExportedAt[d]
      BY DEF AckedIsStored
    <2>1. Stored' = Stored
      BY DEF Stored
    <2>2. CASE d \in acked
      BY <2>1, <2>2 DEF Alone, AckedIsStored
    <2>3. CASE Holds(d)
      <3>1. slot # None /\ d = Stored /\ d \in Docs
        BY <2>3 DEF Holds, Whole, Stored, BackupTypeOK
      <3>2. ExportedAt[d] >= ExportedAt[d]
        BY <3>1, BackupAssumption
      <3> QED
        BY <2>1, <3>1, <3>2
    <2> QED
      BY <2>2, <2>3
  <1>4. BringsNewer'
    <2> SUFFICES ASSUME NEW q \in Replacing', slot' # None
                 PROVE  ExportedAt[Doc(q)'] > ExportedAt[Stored']
      BY DEF BringsNewer
    <2>1. q \in Replacing /\ q # p /\ put'[q] = put[q]
      BY DEF Replacing
    <2> QED
      BY <2>1 DEF Alone, BringsNewer, Doc, Stored
  <1>5. TmpIsApart'
    BY DEF Alone, TmpIsApart, At, Whole, Doc
  <1> QED
    BY <1>2, <1>3, <1>4, <1>5 DEF Alone

\* The steps by which a request comes and goes without a write.
LEMMA ComesAndGoes ==
  ASSUME BackupTypeOK, Alone, NEW p \in Puts,
         \/ \E d \in Docs : Arrive(p, d)
         \/ Compare(p) /\ ~Goto(p, "open")
         \/ Rename(p) /\ tmp = None
         \/ Fail(p)
  PROVE  Alone'
  <1>1. ASSUME NEW d \in Docs, Arrive(p, d)
        PROVE  Alone'
    <2>1. /\ put' = [put EXCEPT ![p] = [at |-> "get", doc |-> d]]
          /\ UNCHANGED << slot, tmp, file, acked >>
      BY <1>1 DEF Arrive
    <2>2. put'[p].at = "get" /\ \A q \in Puts : q # p => put'[q] = put[q]
      BY <2>1 DEF BackupTypeOK
    <2> QED
      BY <2>1, <2>2, LeaveStep
  <1>2. ASSUME (Compare(p) /\ ~Goto(p, "open")) \/ (Rename(p) /\ tmp = None) \/ Fail(p)
        PROVE  /\ put' = [put EXCEPT ![p] = Idle] /\ UNCHANGED << slot, tmp, file >>
               /\ acked' = acked \/ (Holds(Doc(p)) /\ acked' = acked \cup {Doc(p)})
    <2>1. CASE Compare(p) /\ ~Goto(p, "open")
      <3>1. (Refuse(p) \/ (Holds(Doc(p)) /\ Ok(p))) /\ UNCHANGED << slot, tmp, file >>
        BY <2>1 DEF Compare
      <3> QED
        BY <3>1 DEF Refuse, Ok
    <2>2. CASE (Rename(p) /\ tmp = None) \/ Fail(p)
      BY <2>2 DEF Rename, Fail, Refuse
    <2> QED
      BY <1>2, <2>1, <2>2
  <1>3. CASE (Compare(p) /\ ~Goto(p, "open")) \/ (Rename(p) /\ tmp = None) \/ Fail(p)
    <2>1. put'[p].at = "idle" /\ \A q \in Puts : q # p => put'[q] = put[q]
      BY <1>2, <1>3 DEF BackupTypeOK, Idle
    <2> QED
      BY <1>2, <1>3, <2>1, LeaveStep
  <1> QED
    BY <1>1, <1>3

\* A request that goes on alone: the slot is free or older.
LEMMA CompareStep ==
  ASSUME BackupTypeOK, Alone, NEW p \in Puts, Compare(p), Goto(p, "open"), ~raced'
  PROVE  Alone'
  <1>1. put[p].at = "get" /\ Doc(p) \in Docs /\ put[p] \in [at : {"get"}, doc : Docs]
    BY DEF Compare, At, BackupTypeOK, Idle, Doc
  <1>2. /\ put' = [put EXCEPT ![p] = [put[p] EXCEPT !.at = "open"]]
        /\ put'[p].at = "open" /\ put'[p].doc = Doc(p)
        /\ \A q \in Puts : q # p => put'[q] = put[q]
    BY <1>1 DEF Goto, BackupTypeOK, Doc
  <1>3. ~Unreadable /\ ~Conflict(Doc(p)) /\ ~Holds(Doc(p)) /\ UNCHANGED acked /\ Replacing = {}
    <2>1. ~Refuse(p) /\ ~Ok(p)
      BY <1>2 DEF Refuse, Ok, Idle, BackupTypeOK
    <2> QED
      BY <2>1 DEF Compare
  <1>4. Replacing' = {p} /\ UNCHANGED << slot, tmp, file >>
    BY <1>2, <1>3 DEF Replacing, Compare
  <1>5. (OneReplaces /\ SlotIsWhole /\ AckedIsStored)'
    BY <1>3, <1>4 DEF Alone, OneReplaces, SlotIsWhole, AckedIsStored, Whole, Stored
  <1>6. BringsNewer'
    <2> SUFFICES ASSUME slot # None
                 PROVE  ExportedAt[put'[p].doc] > ExportedAt[Stored']
      BY <1>4 DEF BringsNewer, Doc
    <2>1. Whole(slot) /\ Stored \in Docs
      BY DEF Alone, SlotIsWhole, Whole, Stored, BackupTypeOK
    <2>2. ~(ExportedAt[Doc(p)] <= ExportedAt[Stored])
      BY <1>3, <2>1 DEF Conflict, Holds
    <2>3. ExportedAt[Doc(p)] \in Nat /\ ExportedAt[Stored] \in Nat
      BY <1>1, <2>1, BackupAssumption
    <2> QED
      BY <1>2, <1>4, <2>2, <2>3 DEF Stored
  <1>7. TmpIsApart'
    BY <1>2, <1>4 DEF Alone, TmpIsApart, At, Whole, Doc
  <1> QED
    BY <1>5, <1>6, <1>7 DEF Alone

\* While one request replaces the slot, only that one has an open file.
LEMMA OnlyOne ==
  ASSUME Alone, NEW p \in Puts, p \in Replacing, NEW q \in Puts, q # p
  PROVE  q \notin Replacing /\ ~At(q, "open") /\ ~At(q, "write") /\ ~At(q, "rename")
  BY DEF Alone, OneReplaces, Replacing, At

\* The temporary file is opened: a new one, or what an earlier request has left.
LEMMA OpenStep ==
  ASSUME BackupTypeOK, Alone, NEW p \in Puts, Open(p)
  PROVE  Alone'
  <1>1. PICK n : n = (IF tmp = None THEN Fresh ELSE tmp)
    OBVIOUS
  <1>2. n \in Inodes /\ n # slot
    BY <1>1, FreshIs DEF BackupTypeOK, InUse, Alone, TmpIsApart
  <1>3. /\ tmp' = n /\ file' = [file EXCEPT ![n] = Empty]
        /\ put' = [put EXCEPT ![p] = [at |-> "write", doc |-> Doc(p), fd |-> n]]
        /\ UNCHANGED << slot, acked >>
    BY <1>1 DEF Open
  <1>4. p \in Replacing
    BY DEF Open, At, Replacing
  <1>5. /\ put'[p].at = "write" /\ put'[p].doc = put[p].doc /\ put'[p].fd = n
        /\ \A q \in Puts : q # p => put'[q] = put[q]
        /\ file'[n] = Empty /\ \A m \in Inodes : m # n => file'[m] = file[m]
    BY <1>2, <1>3 DEF BackupTypeOK, Doc
  <1>6. Replacing' = Replacing
    BY <1>4, <1>5 DEF Replacing
  <1>7. slot # None => file'[slot] = file[slot]
    BY <1>2, <1>5 DEF BackupTypeOK
  <1>8. (OneReplaces /\ SlotIsWhole)'
    BY <1>3, <1>6, <1>7 DEF Alone, OneReplaces, SlotIsWhole, Whole
  <1>9. AckedIsStored'
    BY <1>3, <1>7 DEF Alone, AckedIsStored, Stored
  <1>10. BringsNewer'
    <2>1. \A q \in Replacing : put'[q].doc = put[q].doc
      BY <1>5 DEF Replacing
    <2> QED
      BY <1>3, <1>6, <1>7, <2>1 DEF Alone, BringsNewer, Doc, Stored
  <1>11. TmpIsApart'
    BY <1>2, <1>3, <1>4, <1>5, OnlyOne DEF TmpIsApart, At
  <1> QED
    BY <1>8, <1>9, <1>10, <1>11 DEF Alone

\* The document is written into the empty file.
LEMMA WriteStep ==
  ASSUME BackupTypeOK, Alone, NEW p \in Puts, Write(p)
  PROVE  Alone'
  <1>1. PICK n \in Inodes : n = put[p].fd
    BY PutIs DEF Write
  <1>2. n = tmp /\ file[n] = Empty /\ Doc(p) \in Docs
    BY <1>1, PutIs DEF Write, Alone, TmpIsApart, At
  <1>3. n # slot
    BY <1>1, <1>2, BackupAssumption DEF Alone, TmpIsApart, Inodes
  <1>4. file'[n] = [doc |-> Doc(p), size |-> Size[Doc(p)]]
    <2>1. Size[Doc(p)] \in Nat /\ 0 \in Nat /\ 0 <= Size[Doc(p)]
      BY <1>2, BackupAssumption
    <2>2. Max({file[n].size, Size[Doc(p)]}) = Size[Doc(p)]
      BY <1>2, <2>1, MaxIs DEF Empty
    <2> QED
      BY <1>1, <2>2 DEF Write, BackupTypeOK
  <1>5. /\ UNCHANGED << slot, tmp, acked >> /\ put' = [put EXCEPT ![p].at = "rename"]
        /\ \A m \in Inodes : m # n => file'[m] = file[m]
    BY <1>1 DEF Write, Goto, BackupTypeOK
  <1>6. put[p] \in [at : {"write", "rename"}, doc : Docs, fd : Inodes]
    BY DEF Write, At, BackupTypeOK, Idle
  <1>7. /\ put'[p].at = "rename" /\ put'[p].doc = put[p].doc /\ put'[p].fd = n
        /\ \A q \in Puts : q # p => put'[q] = put[q]
    BY <1>1, <1>5, <1>6 DEF BackupTypeOK
  <1>8. p \in Replacing
    BY DEF Write, At, Replacing
  <1>9. Replacing' = Replacing
    BY <1>7, <1>8 DEF Replacing
  <1>10. slot # None => file'[slot] = file[slot]
    BY <1>3, <1>5 DEF BackupTypeOK
  <1>11. (OneReplaces /\ SlotIsWhole)'
    BY <1>5, <1>9, <1>10 DEF Alone, OneReplaces, SlotIsWhole, Whole
  <1>12. AckedIsStored'
    BY <1>5, <1>10 DEF Alone, AckedIsStored, Stored
  <1>13. BringsNewer'
    <2>1. \A q \in Replacing : put'[q].doc = put[q].doc
      BY <1>7 DEF Replacing
    <2> QED
      BY <1>5, <1>9, <1>10, <2>1 DEF Alone, BringsNewer, Doc, Stored
  <1>14. Whole(n)' /\ file'[n].doc = put'[p].doc
    BY <1>2, <1>4, <1>7, BackupAssumption DEF Whole, Doc
  <1>15. TmpIsApart'
    <2>1. tmp' = n /\ tmp' # slot'
      BY <1>2, <1>3, <1>5
    <2>2. \A q \in Puts : q # p => put'[q].at \notin {"write", "rename"}
      BY <1>7, <1>8, OnlyOne DEF At
    <2> QED
      BY <1>7, <1>14, <2>1, <2>2 DEF TmpIsApart, At, Whole, Doc
  <1> QED
    BY <1>11, <1>12, <1>13, <1>15 DEF Alone

\* The temporary file becomes the slot: the newest document there is.
LEMMA RenameStep ==
  ASSUME BackupTypeOK, Alone, NEW p \in Puts, Rename(p), tmp # None
  PROVE  Alone'
  <1>1. /\ slot' = tmp /\ tmp' = None /\ put' = [put EXCEPT ![p] = Idle]
        /\ acked' = acked \cup {Doc(p)} /\ UNCHANGED file
    BY DEF Rename, Ok
  <1>2. p \in Replacing /\ Doc(p) \in Docs
    BY PutIs DEF Rename, At, Replacing
  <1>3. Whole(tmp) /\ file[tmp].doc = Doc(p)
    BY DEF Rename, Alone, TmpIsApart
  <1>4. Replacing' = {}
    BY <1>1, <1>2, OnlyOne DEF Replacing, Idle, BackupTypeOK
  <1>5. (OneReplaces /\ SlotIsWhole /\ BringsNewer)'
    BY <1>1, <1>3, <1>4 DEF OneReplaces, SlotIsWhole, BringsNewer, Whole
  <1>6. AckedIsStored'
    <2> SUFFICES ASSUME NEW d \in acked'
                 PROVE  ExportedAt[Doc(p)] >= ExportedAt[d]
      BY <1>1, <1>3 DEF AckedIsStored, Stored
    <2>1. ExportedAt[Doc(p)] \in Nat
      BY <1>2, BackupAssumption
    <2>2. CASE d = Doc(p)
      BY <2>1, <2>2
    <2>3. CASE d \in acked
      <3>1. slot # None /\ ExportedAt[Stored] >= ExportedAt[d]
        BY <2>3 DEF Alone, AckedIsStored
      <3>2. ExportedAt[Doc(p)] > ExportedAt[Stored]
        BY <1>2, <3>1 DEF Alone, BringsNewer
      <3>3. Stored \in Docs /\ d \in Docs
        BY <2>3, <3>1 DEF Alone, SlotIsWhole, Whole, Stored, BackupTypeOK
      <3>4. ExportedAt[Stored] \in Nat /\ ExportedAt[d] \in Nat
        BY <3>3, BackupAssumption
      <3> QED
        BY <2>1, <3>1, <3>2, <3>4
    <2> QED
      BY <1>1, <2>2, <2>3
  <1>7. TmpIsApart'
    <2>1. \A q \in Puts : put'[q].at \notin {"write", "rename"}
      BY <1>4 DEF Replacing
    <2> QED
      BY <1>1, <2>1 DEF TmpIsApart, At
  <1> QED
    BY <1>5, <1>6, <1>7 DEF Alone

\* After the process has died nobody replaces anything.
LEMMA CrashStep ==
  ASSUME BackupInv, Crash
  PROVE  BackupInv'
  <1>1. UNCHANGED << slot, tmp, file, acked, raced >> /\ put' = [p \in Puts |-> Idle]
    BY DEF Crash
  <1>2. BackupTypeOK'
    BY <1>1 DEF BackupInv, BackupTypeOK, Inodes
  <1>3. \A p \in Puts : put'[p].at = "idle"
    BY <1>1 DEF Idle
  <1>4. Replacing' = {}
    BY <1>3 DEF Replacing
  <1>5. Alone => Alone'
    BY <1>1, <1>3, <1>4
       DEF Alone, OneReplaces, SlotIsWhole, AckedIsStored, BringsNewer, TmpIsApart, Whole, Stored, At
  <1> QED
    BY <1>1, <1>2, <1>5 DEF BackupInv

\* Every step of the stores keeps the invariant of the backup.
LEMMA BackupNextStep == BackupInv /\ [DocumentsNext]_docVars => BackupInv'
  <1> SUFFICES ASSUME BackupInv, [DocumentsNext]_docVars
               PROVE  BackupInv'
    OBVIOUS
  <1>1. CASE UNCHANGED backupVars
    BY <1>1
       DEF backupVars, BackupInv, BackupTypeOK, Inodes, Alone, OneReplaces, SlotIsWhole,
           AckedIsStored, BringsNewer, TmpIsApart, Replacing, Whole, Stored, At, Doc
  <1>2. CASE BackupStep
    <2>1. PICK p \in Puts :
            \/ \E d \in Docs : Arrive(p, d)
            \/ Compare(p) \/ Open(p) \/ Write(p) \/ Rename(p) \/ Fail(p)
      BY <1>2 DEF BackupStep
    <2>2. BackupTypeOK'
      BY <2>1, BackupTypes DEF BackupInv
    <2>3. raced => raced'
      BY <2>1 DEF Arrive, Compare, Open, Write, Rename, Fail
    <2>4. ASSUME ~raced'
          PROVE  Alone'
      <3>1. Alone /\ BackupTypeOK
        BY <2>3, <2>4 DEF BackupInv
      <3> QED
        BY <2>1, <2>4, <3>1, ComesAndGoes, CompareStep, OpenStep, WriteStep, RenameStep
    <2> QED
      BY <2>2, <2>4 DEF BackupInv
  <1>3. CASE Crash
    BY <1>3, CrashStep
  <1> QED
    BY <1>1, <1>2, <1>3 DEF DocumentsNext, docVars

\* At first there is no file and no request.
LEMMA BackupInitStep == BackupInit => BackupInv
  <1> SUFFICES ASSUME BackupInit
               PROVE  BackupInv
    OBVIOUS
  <1>1. BackupTypeOK
    BY DEF BackupInit, BackupTypeOK, Empty
  <1>2. \A p \in Puts : put[p].at = "idle"
    BY DEF BackupInit, Idle
  <1>3. Alone
    BY <1>2
       DEF BackupInit, Alone, OneReplaces, SlotIsWhole, AckedIsStored, BringsNewer, TmpIsApart,
           Replacing, At
  <1> QED
    BY <1>1, <1>3 DEF BackupInv

\* The files, the names and the requests of the backup store.
THEOREM BackupCorrect == DocumentsSpec => []BackupInv
  BY BackupInitStep, BackupNextStep, PTL DEF DocumentsSpec, DocumentsInit

\* Requests that do not overlap leave a slot that parses and is at least as new as
\* every backup answered with ok, whatever fails or dies in between (put of the
\* backup store).
THEOREM NewestBackup == DocumentsSpec => []BackupIsNewest
  <1>1. BackupInv => BackupIsNewest
    BY DEF BackupInv, BackupIsNewest, Alone, SlotIsWhole, AckedIsStored
  <1> QED
    BY <1>1, BackupCorrect, PTL

\* The types of both stores.
THEOREM DocumentsTypes == DocumentsSpec => []DocumentsTypeOK
  <1>1. BackupInv /\ ProfileInv => DocumentsTypeOK
    BY DEF BackupInv, ProfileInv, DocumentsTypeOK
  <1> QED
    BY <1>1, BackupCorrect, ProfileCorrect, PTL

=============================================================================
