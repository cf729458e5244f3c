----------------------------- MODULE StartupProofs -----------------------------
(***************************************************************************)
(* Theorems about Startup, for every set of legacy files, every number of  *)
(* migrations, every set of signed logins, however spelled, and every      *)
(* window.                                                                 *)
(***************************************************************************)
EXTENDS Startup, TLAPS

-----------------------------------------------------------------------------
(***************************************************************************)
(* The import of the legacy files.                                         *)
(***************************************************************************)
\* The inductive invariant.  A file is renamed only after the transaction that
\* holds its row, and that transaction is of all files or follows one that was.
AllOrNone == imported \in {{}, Sources}
FilesUntilImported == imported = {} => files = Sources
RowsOnceImported == imported = Sources => Sources \subseteq rows \cup removed
ReadAll == proc = "import" => reading = files
RenamesCommitted == proc = "rename" => imported = Sources
DecodedBefore == proc \in {"import", "rename"} => corrupt = {}

ImportInv ==
  /\ ImportTypeOK
  /\ AllOrNone /\ FilesUntilImported /\ RowsOnceImported
  /\ ReadAll /\ RenamesCommitted /\ DecodedBefore

\* Nothing is imported before the first start.
LEMMA ImportInitStep == ImportInit => ImportInv
  <1> SUFFICES ASSUME ImportInit
               PROVE  ImportInv
    OBVIOUS
  <1>1. 0 \in 0 .. Migrations
    BY ImportAssumption
  <1>2. ImportTypeOK
    BY <1>1 DEF ImportInit, ImportTypeOK, Stages
  <1>3. AllOrNone /\ FilesUntilImported /\ RowsOnceImported
    BY DEF ImportInit, AllOrNone, FilesUntilImported, RowsOnceImported
  <1> QED
    BY <1>2, <1>3 DEF ImportInit, ImportInv, ReadAll, RenamesCommitted, DecodedBefore

\* The steps up to the import: the tables stay as they are, except for the count
\* of the migrations.
LEMMA BeforeImportStep ==
  ASSUME ImportInv,
         \/ StartServer \/ MigrateOne \/ MigrateDone \/ CheckEmpty \/ ReadSources
         \/ ImportFails \/ Die
  PROVE  ImportInv'
  <1>1. applied' \in 0 .. Migrations
    BY ImportAssumption
       DEF ImportInv, ImportTypeOK, StartServer, MigrateOne, MigrateDone, CheckEmpty,
           ReadSources, ImportFails, Die, Tables
  <1>2. ImportTypeOK'
    BY <1>1, ImportAssumption
       DEF ImportInv, ImportTypeOK, Stages, StartServer, MigrateOne, MigrateDone, CheckEmpty,
           ReadSources, ImportFails, Die, Tables, To
  <1>3. (ReadAll /\ RenamesCommitted /\ DecodedBefore)'
    BY DEF ImportInv, ImportTypeOK, StartServer, MigrateOne, MigrateDone, CheckEmpty,
           ReadSources, ImportFails, Die, Tables, To, ReadAll, RenamesCommitted, DecodedBefore
  <1>4. UNCHANGED << imported, files, rows, removed >>
    BY DEF StartServer, MigrateOne, MigrateDone, CheckEmpty, ReadSources, ImportFails, Die, Tables
  <1>5. (AllOrNone /\ FilesUntilImported /\ RowsOnceImported)'
    BY <1>4 DEF ImportInv, AllOrNone, FilesUntilImported, RowsOnceImported
  <1> QED
    BY <1>2, <1>3, <1>5 DEF ImportInv

\* The transaction of the import writes every file that was read: all of them the
\* first time, what is left of them when it is run again.
LEMMA ImportStep ==
  ASSUME ImportInv, ImportSources
  PROVE  ImportInv'
  <1>1. /\ reading = files /\ corrupt = {} /\ files \subseteq Sources
        /\ applied = Migrations
    BY ImportAssumption
       DEF ImportInv, ImportTypeOK, ImportSources, ReadAll, DecodedBefore
  <1>2. imported' = Sources
    BY <1>1 DEF ImportInv, ImportSources, AllOrNone, FilesUntilImported
  <1>3. Sources \subseteq rows' \cup removed'
    BY <1>1 DEF ImportInv, ImportSources, AllOrNone, FilesUntilImported, RowsOnceImported
  <1>4. ImportTypeOK'
    BY <1>1, <1>2 DEF ImportInv, ImportTypeOK, ImportSources, Stages, To
  <1> QED
    BY <1>1, <1>2, <1>3, <1>4
       DEF ImportInv, ImportSources, To, AllOrNone, FilesUntilImported, RowsOnceImported,
           ReadAll, RenamesCommitted, DecodedBefore

\* A file is renamed when its row is committed.
LEMMA RenameStep ==
  ASSUME ImportInv, (\E s \in Sources : RenameSource(s)) \/ RenameDone
  PROVE  ImportInv'
  <1>1. imported = Sources /\ corrupt = {} /\ proc = "rename"
    BY DEF ImportInv, RenameSource, RenameDone, RenamesCommitted, DecodedBefore
  <1>2. /\ UNCHANGED << corrupt, applied, rows, fresh, removed, imported >>
        /\ proc' \in {"rename", "serving"} /\ files' \subseteq files /\ reading' \subseteq reading
    BY <1>1 DEF RenameSource, RenameDone, Tables, To
  <1>3. ImportTypeOK'
    BY <1>1, <1>2 DEF ImportInv, ImportTypeOK, Stages
  <1>4. FilesUntilImported'
    BY <1>1, <1>2 DEF ImportInv, ImportTypeOK, FilesUntilImported
  <1> QED
    BY <1>1, <1>2, <1>3, <1>4
       DEF ImportInv, AllOrNone, RowsOnceImported, ReadAll, RenamesCommitted, DecodedBefore

\* The operator, and the clients of a running server: a row they remove is a row
\* removed.
LEMMA OutsideStep ==
  ASSUME ImportInv, (\E s \in Sources : Repair(s) \/ Remove(s)) \/ Write
  PROVE  ImportInv'
  <1>1. ImportTypeOK'
    <2>1. ASSUME NEW s \in Sources, Repair(s)
          PROVE  ImportTypeOK'
      BY <2>1 DEF ImportInv, ImportTypeOK, Repair, Tables
    <2>2. ASSUME NEW s \in Sources, Remove(s)
          PROVE  ImportTypeOK'
      BY <2>2 DEF ImportInv, ImportTypeOK, Remove
    <2>3. CASE Write
      BY <2>3 DEF ImportInv, ImportTypeOK, Write
    <2> QED
      BY <2>1, <2>2, <2>3
  <1>2. /\ UNCHANGED << proc, imported, files, reading >>
        /\ corrupt' \subseteq corrupt /\ rows \cup removed = rows' \cup removed'
    BY DEF Repair, Remove, Write, Tables
  <1>3. (AllOrNone /\ FilesUntilImported /\ RowsOnceImported)'
    BY <1>2 DEF ImportInv, AllOrNone, FilesUntilImported, RowsOnceImported
  <1>4. (ReadAll /\ RenamesCommitted /\ DecodedBefore)'
    BY <1>2 DEF ImportInv, ReadAll, RenamesCommitted, DecodedBefore
  <1> QED
    BY <1>1, <1>3, <1>4 DEF ImportInv

\* A step of the whole server, as far as the files and tables are concerned.
LEMMA ImportNextStep == ImportInv /\ [StartupNext]_startupVars => ImportInv'
  <1> SUFFICES ASSUME ImportInv, [StartupNext]_startupVars
               PROVE  ImportInv'
    OBVIOUS
  <1>1. CASE UNCHANGED importVars
    BY <1>1
       DEF importVars, ImportInv, ImportTypeOK, AllOrNone, FilesUntilImported,
           RowsOnceImported, ReadAll, RenamesCommitted, DecodedBefore
  <1>2. CASE StartServer \/ StartupStep \/ Die
    BY <1>2, BeforeImportStep, ImportStep, RenameStep, OutsideStep DEF StartupStep
  <1> QED
    BY <1>1, <1>2 DEF StartupNext, Start, startupVars

\* The stages of the import and what they know of the tables.
THEOREM ImportCorrect == StartupSpec => []ImportInv
  BY ImportInitStep, ImportNextStep, PTL DEF StartupSpec, StartupInit

\* Whenever the server dies, every legacy record is in its file, in the tables or
\* removed by a client, and either none or all have been imported (importLegacy).
THEOREM NothingLegacyLost == StartupSpec => []LegacyKept
  <1>1. ImportInv => LegacyKept
    BY DEF ImportInv, LegacyKept, AllOrNone, FilesUntilImported, RowsOnceImported
  <1> QED
    BY <1>1, ImportCorrect, PTL

-----------------------------------------------------------------------------
(***************************************************************************)
(* The spent signatures.                                                   *)
(***************************************************************************)
Last(s) == accepted[s][Len(accepted[s])]

\* What the memory says of a spelling: it holds the last time that string was
\* accepted, or that was more than a window ago.
SpentIsLast ==
  \A s \in Spellings :
    /\ accepted[s] = << >> => spent[s] = Unspent
    /\ accepted[s] # << >> =>
         /\ Last(s) <= clock
         /\ spent[s] = Last(s) \/ (spent[s] = Unspent /\ clock - Last(s) > Window)

SessionInv == SessionTypeOK /\ SpentIsLast /\ ReplaysAreApart

\* A sweep keeps the memory well typed and true; what it forgets is over.
LEMMA SweepIs ==
  ASSUME SessionInv
  PROVE  /\ SpentNow \in [Spellings -> Clock \cup {Unspent}]
         /\ Live \subseteq tokens
         /\ \A s \in Spellings :
              /\ accepted[s] = << >> => SpentNow[s] = Unspent
              /\ accepted[s] # << >> =>
                   SpentNow[s] = Last(s) \/ (SpentNow[s] = Unspent /\ clock - Last(s) > Window)
  <1>1. spent \in [Spellings -> Clock \cup {Unspent}]
    BY DEF SessionInv, SessionTypeOK
  <1>2. \A s \in Spellings :
          SpentNow[s] = IF spent[s] # Unspent /\ clock - spent[s] > Window THEN Unspent ELSE spent[s]
    BY DEF SpentNow
  <1>3. SpentNow \in [Spellings -> Clock \cup {Unspent}]
    BY <1>1 DEF SpentNow
  <1> QED
    BY <1>2, <1>3 DEF SessionInv, SpentIsLast, Live

\* The accepted times of a spelling are a sequence of times.
LEMMA AcceptedIs ==
  ASSUME SessionInv, NEW s \in Spellings
  PROVE  /\ accepted[s] \in Seq(Clock) /\ Len(accepted[s]) \in Nat
         /\ accepted[s] # << >> => Len(accepted[s]) > 0 /\ Last(s) \in Clock /\ Last(s) \in Int
         /\ Clock \subseteq Int /\ clock \in Clock
  <1>1. accepted[s] \in Seq(Clock)
    BY DEF SessionInv, SessionTypeOK
  <1>2. Clock \subseteq Int /\ clock \in Clock
    BY SessionAssumption DEF Clock, SessionInv, SessionTypeOK
  <1>3. Len(accepted[s]) \in Nat /\ (accepted[s] # << >> => Len(accepted[s]) > 0)
    BY <1>1
  <1>4. accepted[s] # << >> => Last(s) \in Clock
    BY <1>1, <1>3 DEF Last
  <1> QED
    BY <1>1, <1>2, <1>3, <1>4

\* After a restart nothing has been accepted.
LEMMA EmptyMemory ==
  ASSUME clock' \in Clock,
         spent' = [x \in Spellings |-> Unspent], tokens' = {},
         login' = [l \in Logins |-> NoLogin], accepted' = [x \in Spellings |-> << >>]
  PROVE  SessionInv'
  <1>1. SessionTypeOK'
    BY DEF SessionTypeOK
  <1>2. \A s \in Spellings : accepted'[s] = << >> /\ Len(accepted'[s]) = 0
    OBVIOUS
  <1>3. ReplaysAreApart'
    BY <1>2 DEF ReplaysAreApart
  <1>4. SpentIsLast'
    BY <1>2 DEF SpentIsLast
  <1> QED
    BY <1>1, <1>3, <1>4 DEF SessionInv

\* The steps that accept nothing: they keep or sweep the memory.
LEMMA QuietStep ==
  ASSUME SessionInv, UNCHANGED << clock, accepted >>, SessionTypeOK',
         UNCHANGED spent \/ spent' = SpentNow
  PROVE  SessionInv'
  <1>1. ReplaysAreApart'
    BY DEF SessionInv, ReplaysAreApart
  <1>2. SpentIsLast'
    <2> SUFFICES ASSUME NEW s \in Spellings
                 PROVE
                   (/\ accepted[s] = << >> => spent[s] = Unspent
                    /\ accepted[s] # << >> =>
                         /\ Last(s) <= clock
                         /\ spent[s] = Last(s) \/ (spent[s] = Unspent /\ clock - Last(s) > Window))'
      BY DEF SpentIsLast
    <2>1. /\ accepted[s] = << >> => spent[s] = Unspent
          /\ accepted[s] # << >> =>
               /\ Last(s) <= clock
               /\ spent[s] = Last(s) \/ (spent[s] = Unspent /\ clock - Last(s) > Window)
      BY DEF SessionInv, SpentIsLast
    <2>2. Last(s)' = Last(s)
      BY DEF Last
    <2> QED
      BY <2>1, <2>2, SweepIs
  <1> QED
    BY <1>1, <1>2 DEF SessionInv

\* A step of the sessions that accepts nothing keeps the types.
LEMMA QuietTypes ==
  ASSUME SessionInv,
         \/ \E l \in Logins : (\E s \in Spellings : Login(l, s)) \/ Issue(l) \/ IssueFails(l)
         \/ SessionFor
         \/ \E t \in tokens : Revoke(t)
  PROVE  /\ SessionTypeOK' /\ UNCHANGED << clock, accepted >>
         /\ UNCHANGED spent \/ spent' = SpentNow
  <1> USE DEF SessionInv
  <1>1. ASSUME NEW l \in Logins, NEW s \in Spellings, Login(l, s)
        PROVE  SessionTypeOK'
    BY <1>1 DEF Login, SessionTypeOK
  <1>2. ASSUME NEW l \in Logins, Issue(l)
        PROVE  SessionTypeOK'
    <2>1. login[l].spelling \in Spellings
      BY <1>2 DEF Issue, SessionTypeOK, NoLogin
    <2>2. clock + TTL \in 0 .. MaxTime + TTL
      BY SessionAssumption DEF SessionTypeOK, Clock
    <2>3. [spelling |-> login[l].spelling, expires |-> clock + TTL]
            \in [spelling : Spellings, expires : 0 .. MaxTime + TTL]
      BY <2>1, <2>2
    <2>4. tokens' \subseteq [spelling : Spellings, expires : 0 .. MaxTime + TTL]
      BY <1>2, <2>3, SweepIs DEF Issue, SessionTypeOK
    <2>5. /\ login' \in [Logins -> {NoLogin} \cup [at : {"consume", "issue"}, spelling : Spellings]]
          /\ spent' \in [Spellings -> Clock \cup {Unspent}]
          /\ clock' \in Clock /\ accepted' \in [Spellings -> Seq(Clock)]
      BY <1>2, SweepIs DEF Issue, SessionTypeOK
    <2> QED
      BY <2>4, <2>5 DEF SessionTypeOK
  <1>3. ASSUME NEW l \in Logins, IssueFails(l)
        PROVE  SessionTypeOK'
    BY <1>3 DEF IssueFails, SessionTypeOK
  <1>4. CASE SessionFor \/ \E t \in tokens : Revoke(t)
    BY <1>4, SweepIs DEF SessionFor, Revoke, SessionTypeOK
  <1>5. /\ UNCHANGED << clock, accepted >>
        /\ UNCHANGED spent \/ spent' = SpentNow
    BY DEF Login, Issue, IssueFails, SessionFor, Revoke
  <1> QED
    BY <1>1, <1>2, <1>3, <1>4, <1>5

\* A signature is accepted when the memory does not hold its spelling: never before, or
\* more than a window ago.
LEMMA ConsumeStep ==
  ASSUME SessionInv, NEW l \in Logins, ConsumeSignature(l)
  PROVE  SessionInv'
  <1>1. PICK s \in Spellings :
          s = login[l].spelling /\ login[l] \in [at : {"consume", "issue"}, spelling : Spellings]
    BY DEF ConsumeSignature, SessionInv, SessionTypeOK, NoLogin
  <1>2. tokens' \subseteq [spelling : Spellings, expires : 0 .. MaxTime + TTL]
    BY SweepIs DEF ConsumeSignature, SessionInv, SessionTypeOK
  <1>3. CASE SpentNow[s] # Unspent
    <2>1. /\ spent' = SpentNow /\ login' = [login EXCEPT ![l] = NoLogin]
          /\ UNCHANGED << clock, accepted >>
      BY <1>1, <1>3 DEF ConsumeSignature
    <2>2. SessionTypeOK'
      BY <1>2, <2>1, SweepIs DEF SessionInv, SessionTypeOK
    <2> QED
      BY <2>1, <2>2, QuietStep
  <1>4. CASE SpentNow[s] = Unspent
    <2>1. /\ spent' = [SpentNow EXCEPT ![s] = clock]
          /\ login' = [login EXCEPT ![l].at = "issue"]
          /\ accepted' = [accepted EXCEPT ![s] = Append(@, clock)]
          /\ UNCHANGED clock
      BY <1>1, <1>4 DEF ConsumeSignature
    <2>2. clock \in Clock /\ accepted \in [Spellings -> Seq(Clock)]
      BY DEF SessionInv, SessionTypeOK
    <2>3. SessionTypeOK'
      <3>1. [login[l] EXCEPT !.at = "issue"] \in [at : {"consume", "issue"}, spelling : Spellings]
        BY <1>1
      <3>2. login' \in [Logins -> {NoLogin} \cup [at : {"consume", "issue"}, spelling : Spellings]]
        BY <2>1, <3>1 DEF SessionInv, SessionTypeOK
      <3>3. spent' \in [Spellings -> Clock \cup {Unspent}]
        BY <1>1, <2>1, <2>2, SweepIs
      <3>4. Append(accepted[s], clock) \in Seq(Clock)
        BY <1>1, <2>2
      <3>5. accepted' \in [Spellings -> Seq(Clock)]
        BY <1>1, <2>1, <2>2, <3>4
      <3> QED
        BY <1>2, <2>1, <2>2, <3>2, <3>3, <3>5 DEF SessionTypeOK
    <2>4. accepted[s] # << >> => clock - Last(s) > Window
      BY <1>1, <1>4, SweepIs, AcceptedIs, SessionAssumption DEF Clock
    <2>5. /\ accepted'[s] = Append(accepted[s], clock)
          /\ \A x \in Spellings : x # s => accepted'[x] = accepted[x]
      BY <1>1, <2>1, <2>2
    <2>6. ReplaysAreApart'
      <3> SUFFICES ASSUME NEW x \in Spellings, NEW i \in 1 .. Len(accepted'[x]) - 1
                   PROVE  accepted'[x][i + 1] - accepted'[x][i] > Window
        BY DEF ReplaysAreApart
      <3>1. CASE x # s
        BY <2>5, <3>1 DEF SessionInv, ReplaysAreApart
      <3>2. CASE x = s
        <4>1. /\ accepted[s] \in Seq(Clock) /\ Len(accepted[s]) \in Nat
              /\ Len(accepted'[s]) = Len(accepted[s]) + 1
              /\ accepted'[s][Len(accepted[s]) + 1] = clock
              /\ \A k \in 1 .. Len(accepted[s]) : accepted'[s][k] = accepted[s][k]
          BY <1>1, <2>2, <2>5
        <4>2. i \in 1 .. Len(accepted[s])
          BY <3>2, <4>1
        <4>3. CASE i = Len(accepted[s])
          <5>1. accepted[s] # << >>
            BY <4>1, <4>2
          <5> QED
            BY <2>4, <3>2, <4>1, <4>2, <4>3, <5>1 DEF Last
        <4>4. CASE i # Len(accepted[s])
          <5>1. i \in 1 .. Len(accepted[s]) - 1 /\ i + 1 \in 1 .. Len(accepted[s])
            BY <4>1, <4>2, <4>4
          <5>2. accepted[s][i + 1] - accepted[s][i] > Window
            BY <1>1, <5>1 DEF SessionInv, ReplaysAreApart
          <5> QED
            BY <3>2, <4>1, <4>2, <5>1, <5>2
        <4> QED
          BY <4>3, <4>4
      <3> QED
        BY <3>1, <3>2
    <2>7. SpentIsLast'
      <3> SUFFICES ASSUME NEW x \in Spellings
                   PROVE
                     (/\ accepted[x] = << >> => spent[x] = Unspent
                      /\ accepted[x] # << >> =>
                           /\ Last(x) <= clock
                           /\ spent[x] = Last(x) \/ (spent[x] = Unspent /\ clock - Last(x) > Window))'
        BY DEF SpentIsLast
      <3>1. CASE x # s
        <4>1. Last(x)' = Last(x) /\ spent'[x] = SpentNow[x] /\ accepted'[x] = accepted[x]
          BY <2>1, <2>5, <3>1, SweepIs DEF Last
        <4>2. accepted[x] # << >> => Last(x) <= clock
          BY DEF SessionInv, SpentIsLast
        <4> QED
          BY <2>1, <4>1, <4>2, SweepIs
      <3>2. CASE x = s
        <4>1. spent'[s] = clock
          BY <1>1, <2>1, SweepIs
        <4>2. accepted'[s] # << >> /\ accepted'[s][Len(accepted'[s])] = clock
          <5>1. accepted[s] \in Seq(Clock)
            BY <2>2
          <5>2. /\ Len(Append(accepted[s], clock)) = Len(accepted[s]) + 1
                /\ Append(accepted[s], clock)[Len(accepted[s]) + 1] = clock
            BY <2>2, <5>1
          <5>3. Append(accepted[s], clock) # << >>
            BY <2>2, <5>1
          <5>4. accepted'[s] = Append(accepted[s], clock)
            BY <2>5
          <5> QED
            BY <5>2, <5>3, <5>4
        <4>3. clock \in Int
          BY <2>2, SessionAssumption DEF Clock
        <4> QED
          BY <2>1, <3>2, <4>1, <4>2, <4>3 DEF Last
      <3> QED
        BY <3>1, <3>2
    <2> QED
      BY <2>3, <2>6, <2>7 DEF SessionInv
  <1> QED
    BY <1>3, <1>4

\* Time only adds to what has passed since a spelling was accepted.
LEMMA TickStep ==
  ASSUME SessionInv, Tick
  PROVE  SessionInv'
  <1>1. clock' = clock + 1 /\ clock < MaxTime /\ clock \in Clock
    BY DEF Tick, SessionInv, SessionTypeOK
  <1>2. SessionTypeOK'
    BY <1>1, SessionAssumption DEF Tick, SessionInv, SessionTypeOK, Clock
  <1>3. ReplaysAreApart'
    BY DEF Tick, SessionInv, ReplaysAreApart
  <1>4. SpentIsLast'
    <2> SUFFICES ASSUME NEW s \in Spellings
                 PROVE
                   (/\ accepted[s] = << >> => spent[s] = Unspent
                    /\ accepted[s] # << >> =>
                         /\ Last(s) <= clock
                         /\ spent[s] = Last(s) \/ (spent[s] = Unspent /\ clock - Last(s) > Window))'
      BY DEF SpentIsLast
    <2>1. Last(s)' = Last(s) /\ UNCHANGED << accepted, spent >>
      BY DEF Tick, Last
    <2>2. /\ accepted[s] = << >> => spent[s] = Unspent
          /\ accepted[s] # << >> =>
               /\ Last(s) <= clock
               /\ spent[s] = Last(s) \/ (spent[s] = Unspent /\ clock - Last(s) > Window)
      BY DEF SessionInv, SpentIsLast
    <2> QED
      BY <1>1, <2>1, <2>2, AcceptedIs, SessionAssumption
  <1> QED
    BY <1>2, <1>3, <1>4 DEF SessionInv

\* A step of the whole server, as far as the sessions are concerned.
LEMMA SessionNextStep == SessionInv /\ [StartupNext]_startupVars => SessionInv'
  <1> SUFFICES ASSUME SessionInv, [StartupNext]_startupVars
               PROVE  SessionInv'
    OBVIOUS
  <1>1. CASE UNCHANGED sessionVars
    <2>1. UNCHANGED << clock, spent, tokens, login, accepted >>
      BY <1>1 DEF sessionVars
    <2>2. SessionTypeOK'
      BY <2>1 DEF SessionInv, SessionTypeOK
    <2> QED
      BY <2>1, <2>2, QuietStep
  <1>2. CASE Forget
    <2>1. clock' \in Clock
      BY <1>2 DEF Forget, SessionInv, SessionTypeOK
    <2> QED
      BY <1>2, <2>1, EmptyMemory DEF Forget
  <1>3. CASE SessionStep
    BY <1>3, ConsumeStep, QuietTypes, QuietStep DEF SessionStep
  <1>4. CASE Tick
    BY <1>4, TickStep
  <1> QED
    BY <1>1, <1>2, <1>3, <1>4 DEF StartupNext, Start, startupVars

\* At first nothing has been accepted.
LEMMA SessionInitStep == SessionInit => SessionInv
  <1> SUFFICES ASSUME SessionInit
               PROVE  SessionInv
    OBVIOUS
  <1>1. \A s \in Spellings : accepted[s] = << >> /\ Len(accepted[s]) = 0 /\ spent[s] = Unspent
    BY DEF SessionInit
  <1>2. 0 \in Clock
    BY SessionAssumption DEF Clock
  <1>3. SessionTypeOK
    BY <1>2 DEF SessionInit, SessionTypeOK
  <1>4. SpentIsLast
    BY <1>1 DEF SpentIsLast
  <1>5. ReplaysAreApart
    BY <1>1 DEF ReplaysAreApart
  <1> QED
    BY <1>3, <1>4, <1>5 DEF SessionInv

\* The memory of the sessions holds the last use of every spelling of a signature for
\* a window; what it holds of one spelling says nothing of another (ConsumeSignature
\* hashes the string of the request).
THEOREM SessionsCorrect == StartupSpec => []SessionInv
  BY SessionInitStep, SessionNextStep, PTL DEF StartupSpec, StartupInit

\* A running server accepts one string again only after the window since its last
\* acceptance, however logins overlap and whatever sweeps the memory in between
\* (ConsumeSignature, sweepLocked).
THEOREM ReplaysApart == StartupSpec => []ReplaysAreApart
  BY SessionsCorrect, PTL DEF SessionInv

\* The types of the import and of the sessions.
THEOREM StartupTypes == StartupSpec => []StartupTypeOK
  <1>1. ImportInv /\ SessionInv => StartupTypeOK
    BY DEF ImportInv, SessionInv, StartupTypeOK
  <1> QED
    BY <1>1, ImportCorrect, SessionsCorrect, PTL

=============================================================================
