------------------------------ MODULE UserSessions -----------------------------
(***************************************************************************)
(* The sessions the app opens with a wallet signature.  Tokens and spent   *)
(* signatures are kept in memory, swept by the clock at every use of the   *)
(* sessions, and gone after a restart.  A request carries a signature as a *)
(* string: it is verified decoded, and remembered as it was spelled.       *)
(***************************************************************************)
EXTENDS Integers, Sequences

CONSTANTS
  Signatures,  \* signed logins
  SignedAt,    \* of each: the timestamp it was signed for
  Spellings,   \* strings a request may carry: hexadecimal in either case, with or
               \* without 0x, white space around it
  SignatureOf, \* decodeHexKeyMaterial: the signature a string spells
  Logins,      \* requests that can be in progress at one time
  Window,      \* userSessionLoginWindow
  TTL,         \* userSessionTTL
  Unspent,
  MaxTime,     \* bound: the clock
  MaxUses      \* bound: times a spelling is accepted between two restarts

ASSUME SessionAssumption ==
  /\ {Window, TTL, MaxTime, MaxUses} \subseteq Nat \ {0}
  /\ SignedAt \in [Signatures -> Nat] /\ Unspent \notin Nat
  /\ SignatureOf \in [Spellings -> Signatures]

VARIABLES
  clock,
  spent,    \* used: when each spelling was first used
  tokens,   \* sessions: the spelling each was opened with, and its expiry
  login,    \* the requests in progress
  accepted  \* history: when each spelling was accepted since the start, in order

sessionVars == << clock, spent, tokens, login, accepted >>

Clock == 0 .. MaxTime
NoLogin == [at |-> "none"]

SessionTypeOK ==
  /\ clock \in Clock
  /\ spent \in [Spellings -> Clock \cup {Unspent}]
  /\ tokens \subseteq [spelling : Spellings, expires : 0 .. MaxTime + TTL]
  /\ login \in [Logins -> {NoLogin} \cup [at : {"consume", "issue"}, spelling : Spellings]]
  /\ accepted \in [Spellings -> Seq(Clock)]

\* An empty memory, as after a restart.
Forget ==
  /\ spent' = [x \in Spellings |-> Unspent]
  /\ tokens' = {} /\ login' = [l \in Logins |-> NoLogin]
  /\ accepted' = [x \in Spellings |-> << >>]
  /\ UNCHANGED clock

SessionInit ==
  /\ clock = 0
  /\ spent = [x \in Spellings |-> Unspent]
  /\ tokens = {} /\ login = [l \in Logins |-> NoLogin]
  /\ accepted = [x \in Spellings |-> << >>]

\* sweepLocked.
Live == { t \in tokens : clock < t.expires }

\* Mutant of SpentNow: a signature is forgotten when the window closes, not after.
SpentUntil == [x \in Spellings |->
  IF spent[x] # Unspent /\ clock - spent[x] >= Window THEN Unspent ELSE spent[x]]

\* used is keyed by a hash of the string, so two spellings of one signature are two
\* entries.
SpentNow == [x \in Spellings |->
  IF spent[x] # Unspent /\ clock - spent[x] > Window THEN Unspent ELSE spent[x]]

-----------------------------------------------------------------------------
\* verifySignedMessage: what is verified is the signature the string decodes to.  The
\* timestamp is that of the challenge it signs.
SignedFor(x) == SignedAt[SignatureOf[x]]

\* The timestamp is within the window, before or after the clock, and the string
\* spells a valid signature.
Login(l, x) ==
  /\ login[l] = NoLogin
  /\ clock - SignedFor(x) \in -Window .. Window
  /\ Len(accepted[x]) < MaxUses
  /\ login' = [login EXCEPT ![l] = [at |-> "consume", spelling |-> x]]
  /\ UNCHANGED << clock, spent, tokens, accepted >>

ConsumeSignature(l) ==
  /\ login[l].at = "consume"
  /\ tokens' = Live
  /\ LET x == login[l].spelling IN
       IF SpentNow[x] # Unspent
         THEN /\ spent' = SpentNow
              /\ login' = [login EXCEPT ![l] = NoLogin] /\ UNCHANGED accepted
         ELSE /\ spent' = [SpentNow EXCEPT ![x] = clock]
              /\ login' = [login EXCEPT ![l].at = "issue"]
              /\ accepted' = [accepted EXCEPT ![x] = Append(@, clock)]
  /\ UNCHANGED clock

Issue(l) ==
  /\ login[l].at = "issue"
  /\ spent' = SpentNow
  /\ tokens' = Live \cup {[spelling |-> login[l].spelling, expires |-> clock + TTL]}
  /\ login' = [login EXCEPT ![l] = NoLogin]
  /\ UNCHANGED << clock, accepted >>

\* No random bytes: an error, and the signature stays spent.
IssueFails(l) ==
  /\ login[l].at = "issue"
  /\ login' = [login EXCEPT ![l] = NoLogin]
  /\ UNCHANGED << clock, spent, tokens, accepted >>

\* SessionFor: a request with a token.  A logout begins with it.
SessionFor ==
  /\ spent' = SpentNow /\ tokens' = Live
  /\ UNCHANGED << clock, login, accepted >>

\* The end of a logout that found its token: nothing is swept, and the token may have
\* expired since.
Revoke(t) ==
  /\ tokens' = tokens \ {t}
  /\ UNCHANGED << clock, spent, login, accepted >>

Tick ==
  /\ clock < MaxTime /\ clock' = clock + 1
  /\ UNCHANGED << spent, tokens, login, accepted >>

SessionStep ==
  \/ \E l \in Logins :
       \/ \E x \in Spellings : Login(l, x)
       \/ ConsumeSignature(l) \/ Issue(l) \/ IssueFails(l)
  \/ SessionFor
  \/ \E t \in tokens : Revoke(t)

=============================================================================
