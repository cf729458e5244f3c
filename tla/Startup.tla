--------------------------------- MODULE Startup -------------------------------
(***************************************************************************)
(* The life of the server process: it starts, migrates and imports, serves *)
(* sessions from memory, and dies.                                         *)
(***************************************************************************)
EXTENDS LegacyImport, UserSessions

startupVars == << importVars, sessionVars >>

StartupTypeOK == ImportTypeOK /\ SessionTypeOK

StartupInit == ImportInit /\ SessionInit

Start == StartServer /\ Forget

StartupNext ==
  \/ Start
  \/ (StartupStep \/ Die) /\ UNCHANGED sessionVars
  \/ proc = "serving" /\ SessionStep /\ UNCHANGED importVars
  \/ Tick /\ UNCHANGED importVars

StartupSpec == StartupInit /\ [][StartupNext]_startupVars

-----------------------------------------------------------------------------
\* A request repeated as it was: a running server that accepts the same string again
\* does so only after the window since the last time has passed, also when the
\* requests overlap and whatever else sweeps the memory in between
\* (ConsumeSignature, sweepLocked).  Nothing is said of two spellings of one
\* signature.
ReplaysAreApart ==
  \A x \in Spellings : \A i \in 1 .. Len(accepted[x]) - 1 :
    accepted[x][i + 1] - accepted[x][i] > Window

\* What is documented is more: "replay within the window returns 401", of a
\* signature, however it is spelled.
ReplaysAreRefused ==
  /\ ReplaysAreApart
  /\ \A x, y \in Spellings : x # y /\ SignatureOf[x] = SignatureOf[y] =>
       \A i \in DOMAIN accepted[x], j \in DOMAIN accepted[y] :
         accepted[x][i] - accepted[y][j] \notin -Window .. Window

\* And the sentence before it, "each signature mints exactly one token".
OneTokenPerSignature ==
  \A x, y \in Spellings :
    SignatureOf[x] = SignatureOf[y] /\ << >> \notin {accepted[x], accepted[y]} =>
      x = y /\ Len(accepted[x]) = 1

=============================================================================
