------------------------------- MODULE AuthProofs -------------------------------
(***************************************************************************)
(* Theorems about AuthSessions, for every set of wallets, scopes and       *)
(* owners, every number of challenges and of requests in progress.         *)
(***************************************************************************)
EXTENDS AuthSessions, FiniteSetTheorems, TLAPS

-----------------------------------------------------------------------------
(***************************************************************************)
(* The inductive invariant.                                                *)
(***************************************************************************)
Pends(r) == req[r].at \in {"consumed", "validated"}

\* Sessions are inserted in order.
TokensInOrder ==
  \E n \in 0 .. Cardinality(Challenges) : \A t \in Tokens : sessions[t] # NoSession <=> t <= n

\* A request knows the tokens of issued sessions only.
TokensAreIssued ==
  \A r \in Requests :
    /\ At(r, "revoking") \/ At(r, "revokingAll") => req[r].token \in Issued
    /\ At(r, "written") => req[r].hit \subseteq Issued

\* A challenge is with one session or with one request, once it is used.
OneSession == \A t, u \in Issued : sessions[t].challenge = sessions[u].challenge => t = u
OneExchange ==
  \A r, s \in Requests : Pends(r) /\ Pends(s) /\ req[r].challenge = req[s].challenge => r = s
NotBoth ==
  \A t \in Issued, r \in Requests : Pends(r) => sessions[t].challenge # req[r].challenge
UsedIsSpent ==
  \A c \in Challenges :
    challenges[c].state = "used" <=>
      \/ \E t \in Issued : sessions[t].challenge = c
      \/ \E r \in Requests : Pends(r) /\ req[r].challenge = c
      \/ c \in lost
SpentOnce == OneSession /\ OneExchange /\ NotBoth /\ UsedIsSpent

\* The row lock of the application.
OneMirror == \A r, s \in Requests : At(r, "written") /\ At(s, "written") => r = s

\* A session that counts as issued under the terms it was validated with.
Clean(t) == sessions[t].state = "live" /\ ~sessions[t].raced

\* An upsert that changes the terms it has read is about to revoke every clean
\* session: those inserted since its write know that they met it.
HitsClean ==
  \A r \in Requests :
    At(r, "written") /\ req[r].prior = app /\ Changes(r) =>
      \A t \in Issued : Clean(t) => t \in req[r].hit

ConsentKept == crossed \/ \A t \in Issued : Clean(t) => sessions[t].terms = app

AuthInv ==
  /\ AuthTypeOK /\ TokensInOrder /\ TokensAreIssued
  /\ SpentOnce /\ OneMirror /\ HitsClean /\ ConsentKept

-----------------------------------------------------------------------------
(***************************************************************************)
(* Steps by what they leave: one request moves, sessions may end,          *)
(* challenges may come and expire.                                         *)
(***************************************************************************)
Moves(r) ==
  /\ req' \in [Requests -> Request]
  /\ \A q \in Requests : q # r => req'[q] = req[q]

SessionsOnlyEnd ==
  /\ sessions' \in [Tokens -> Session \cup {NoSession}]
  /\ \A t \in Tokens :
       /\ sessions'[t] = NoSession <=> sessions[t] = NoSession
       /\ sessions[t] # NoSession =>
            /\ sessions'[t].challenge = sessions[t].challenge
            /\ sessions'[t].terms = sessions[t].terms
            /\ sessions'[t].raced = sessions[t].raced
            /\ sessions'[t].state = "live" => sessions[t].state = "live"

ChallengesKeep ==
  /\ challenges' \in [Challenges -> Challenge \cup {NoChallenge}]
  /\ \A c \in Challenges : challenges'[c].state = "used" <=> challenges[c].state = "used"

\* A request that goes on with another record moves.
LEMMA GotoMoves ==
  ASSUME AuthTypeOK, NEW r \in Requests, NEW next \in Request, Goto(r, next)
  PROVE  Moves(r) /\ req'[r] = next
  BY DEF AuthTypeOK, Goto, Moves

\* A request that answers moves.
LEMMA AnswerMoves ==
  ASSUME AuthTypeOK, NEW r \in Requests, Answer(r)
  PROVE  Moves(r) /\ req'[r] = Idle /\ req'[r].at = "idle"
  <1>1. Idle \in Request /\ Idle.at = "idle"
    BY DEF Idle, Request
  <1> QED
    BY <1>1, GotoMoves DEF Answer

\* Sessions and challenges that stay as they are.
LEMMA NothingEnds ==
  ASSUME AuthTypeOK
  PROVE  /\ UNCHANGED sessions => SessionsOnlyEnd
         /\ UNCHANGED challenges => ChallengesKeep
  BY DEF AuthTypeOK, SessionsOnlyEnd, ChallengesKeep, Tokens

\* A request in progress, by its stage.
LEMMA RequestIs ==
  ASSUME AuthTypeOK, NEW r \in Requests
  PROVE  /\ At(r, "asked") => req[r].wallet \in Wallets /\ req[r].scopes \in SUBSET Scopes
                              /\ req[r].terms \in Terms
         /\ At(r, "verified") \/ Pends(r) => req[r].challenge \in Challenges
         /\ At(r, "validated") => req[r].terms \in Terms
         /\ At(r, "revoking") \/ At(r, "revokingAll") => req[r].token \in Tokens
         /\ At(r, "read") \/ At(r, "written") => req[r].new \in Terms /\ req[r].prior \in Terms \cup {NoApp}
         /\ At(r, "written") => req[r].hit \in SUBSET Tokens
  <1>1. req[r] \in Request
    BY DEF AuthTypeOK
  <1> QED
    BY <1>1 DEF Request, Idle, At, Pends

\* The challenge of a request whose exchange is under way.
LEMMA PendingIs ==
  ASSUME NEW r \in Requests
  PROVE  Pending({r}) = IF Pends(r) THEN {req[r].challenge} ELSE {}
  BY DEF Pending, Pends

\* Ending sessions keeps them issued.
LEMMA EndKeepsIssued ==
  ASSUME SessionsOnlyEnd
  PROVE  Issued' = Issued /\ \A t \in Issued : Clean(t)' => Clean(t)
  BY DEF SessionsOnlyEnd, Issued, Clean, Tokens

\* Revoking issued sessions only ends them.
LEMMA RevokedOnlyEnds ==
  ASSUME AuthTypeOK, NEW ts \in SUBSET Issued, sessions' = Revoked(ts)
  PROVE  SessionsOnlyEnd /\ \A t \in ts : ~Clean(t)'
  <1>1. \A t \in Issued : sessions[t] \in Session
    BY DEF AuthTypeOK, Issued
  <1>2. \A t \in ts :
          /\ t \in Tokens /\ sessions[t] # NoSession
          /\ [sessions[t] EXCEPT !.state = "revoked"] \in Session
          /\ [sessions[t] EXCEPT !.state = "revoked"].state = "revoked"
          /\ [sessions[t] EXCEPT !.state = "revoked"].challenge = sessions[t].challenge
          /\ [sessions[t] EXCEPT !.state = "revoked"].terms = sessions[t].terms
          /\ [sessions[t] EXCEPT !.state = "revoked"].raced = sessions[t].raced
    BY <1>1 DEF Session, Issued
  <1>3. NoSession \notin Session
    BY DEF Session, NoSession
  <1>4. \A t \in Tokens :
          sessions'[t] = IF t \in ts THEN [sessions[t] EXCEPT !.state = "revoked"] ELSE sessions[t]
    BY DEF Revoked
  <1>5. sessions' \in [Tokens -> Session \cup {NoSession}]
    BY <1>2 DEF Revoked, AuthTypeOK, Tokens
  <1>6. \A t \in ts : sessions'[t].state = "revoked"
    BY <1>2, <1>4
  <1> QED
    BY <1>2, <1>3, <1>4, <1>5, <1>6 DEF SessionsOnlyEnd, Clean

\* A challenge stays spent when a request moves without taking or dropping one, or
\* drops the one it had into `lost`.
LEMMA SpentStays ==
  ASSUME AuthInv, NEW r \in Requests, Moves(r), SessionsOnlyEnd, ChallengesKeep,
         Pends(r)' => Pends(r) /\ req'[r].challenge = req[r].challenge,
         Pends(r)' => lost' = lost,
         ~Pends(r)' => lost' = lost \cup Pending({r})
  PROVE  SpentOnce'
  <1>1. Issued' = Issued /\ \A t \in Issued : sessions'[t].challenge = sessions[t].challenge
    BY EndKeepsIssued DEF SessionsOnlyEnd, Issued
  <1>2. \A q \in Requests : Pends(q)' => Pends(q) /\ req'[q].challenge = req[q].challenge
    BY DEF Moves, Pends
  <1>3. \A q \in Requests : Pends(q) /\ ~Pends(q)' => q = r
    BY DEF Moves, Pends
  <1>4. (OneSession /\ OneExchange /\ NotBoth)'
    BY <1>1, <1>2 DEF AuthInv, SpentOnce, OneSession, OneExchange, NotBoth
  <1>5. UsedIsSpent'
    <2> SUFFICES ASSUME NEW c \in Challenges
                 PROVE  (\/ \E t \in Issued : sessions[t].challenge = c
                         \/ \E q \in Requests : Pends(q) /\ req[q].challenge = c
                         \/ c \in lost)
                        <=>
                        (\/ \E t \in Issued : sessions[t].challenge = c
                         \/ \E q \in Requests : Pends(q) /\ req[q].challenge = c
                         \/ c \in lost)'
      BY DEF AuthInv, SpentOnce, UsedIsSpent, ChallengesKeep
    <2>1. CASE Pends(r)'
      <3>1. \A q \in Requests : Pends(q)' <=> Pends(q)
        BY <1>2, <1>3, <2>1
      <3>2. lost' = lost
        BY <2>1
      <3> QED
        BY <1>1, <1>2, <3>1, <3>2
    <2>2. CASE ~Pends(r)'
      <3>1. \A q \in Requests : Pends(q)' <=> Pends(q) /\ q # r
        BY <1>2, <1>3, <2>2
      <3>2. c \in lost' <=> c \in lost \/ (Pends(r) /\ c = req[r].challenge)
        <4>1. lost' = lost \cup Pending({r})
          BY <2>2
        <4>2. c \in Pending({r}) <=> Pends(r) /\ c = req[r].challenge
          <5>1. Pending({r}) = IF Pends(r) THEN {req[r].challenge} ELSE {}
            BY PendingIs
          <5> QED
            BY <5>1
        <4> QED
          BY <4>1, <4>2
      <3> QED
        BY <1>1, <1>2, <3>1, <3>2
    <2> QED
      BY <2>1, <2>2
  <1> QED
    BY <1>4, <1>5 DEF SpentOnce

\* The order of tokens and what requests know of them.
LEMMA TokensStay ==
  ASSUME AuthInv, NEW r \in Requests, Moves(r), SessionsOnlyEnd,
         At(r, "revoking")' \/ At(r, "revokingAll")' => req'[r].token \in Issued,
         At(r, "written")' => req'[r].hit \subseteq Issued
  PROVE  TokensInOrder' /\ TokensAreIssued'
  <1>1. Issued' = Issued
    BY EndKeepsIssued
  <1>2. TokensInOrder'
    BY DEF AuthInv, TokensInOrder, SessionsOnlyEnd, Tokens
  <1>3. TokensAreIssued'
    BY <1>1 DEF AuthInv, TokensAreIssued, Moves, At
  <1> QED
    BY <1>2, <1>3

\* The consent of clean sessions, while the application stays as it is.
LEMMA ConsentStays ==
  ASSUME AuthInv, NEW r \in Requests, Moves(r), SessionsOnlyEnd, UNCHANGED << app, crossed >>,
         At(r, "written")' =>
           /\ ~AppLocked
           /\ req'[r].prior = app /\ Changes(r)' => \A t \in Issued : Clean(t) => t \in req'[r].hit
  PROVE  OneMirror' /\ HitsClean' /\ ConsentKept'
  <1>1. Issued' = Issued /\ \A t \in Issued : Clean(t)' => Clean(t)
    BY EndKeepsIssued
  <1>2. \A q \in Requests : q # r => req'[q] = req[q]
    BY DEF Moves
  <1>3. OneMirror'
    BY <1>2 DEF AuthInv, OneMirror, AppLocked, At
  <1>4. HitsClean'
    <2> SUFFICES ASSUME NEW q \in Requests, At(q, "written")', req'[q].prior = app, Changes(q)'
                 PROVE  \A t \in Issued : Clean(t)' => t \in req'[q].hit
      BY <1>1 DEF HitsClean
    <2>1. CASE q = r
      BY <1>1, <2>1
    <2>2. CASE q # r
      BY <1>1, <1>2, <2>2 DEF AuthInv, HitsClean, At, Changes
    <2> QED
      BY <2>1, <2>2
  <1>5. ConsentKept'
    BY <1>1 DEF AuthInv, ConsentKept, SessionsOnlyEnd, Issued
  <1> QED
    BY <1>3, <1>4, <1>5

\* The three together.
LEMMA MovesStep ==
  ASSUME AuthInv, NEW r \in Requests, Moves(r), SessionsOnlyEnd, ChallengesKeep,
         UNCHANGED << app, crossed >>, faults' \in 0 .. MaxFaults,
         Pends(r)' => Pends(r) /\ req'[r].challenge = req[r].challenge,
         Pends(r)' => lost' = lost,
         ~Pends(r)' => lost' = lost \cup Pending({r}),
         At(r, "revoking")' \/ At(r, "revokingAll")' => req'[r].token \in Issued,
         At(r, "written")' =>
           /\ ~AppLocked /\ req'[r].hit \subseteq Issued
           /\ req'[r].prior = app /\ Changes(r)' => \A t \in Issued : Clean(t) => t \in req'[r].hit
  PROVE  AuthInv'
  <1>1. lost' \subseteq Challenges
    <2>1. Pending({r}) \subseteq Challenges
      BY PendingIs, RequestIs DEF AuthInv
    <2> QED
      BY <2>1 DEF AuthInv, AuthTypeOK
  <1>2. AuthTypeOK'
    BY <1>1 DEF AuthInv, AuthTypeOK, Moves, SessionsOnlyEnd, ChallengesKeep, Tokens
  <1> QED
    BY <1>2, SpentStays, TokensStay, ConsentStays DEF AuthInv

-----------------------------------------------------------------------------
(***************************************************************************)
(* The actions keep the invariant.                                         *)
(***************************************************************************)
\* A request that reads, and changes nothing but where it is.
LEMMA ReadStep ==
  ASSUME AuthInv, NEW r \in Requests, NEW next \in Request, Goto(r, next),
         UNCHANGED << app, challenges, sessions, faults, crossed >>,
         next.at \in {"consumed", "validated"} => Pends(r) /\ next.challenge = req[r].challenge /\ lost' = lost,
         next.at \notin {"consumed", "validated"} => lost' = lost \cup Pending({r}),
         next.at \in {"revoking", "revokingAll"} => next.token \in Issued,
         next.at = "written" =>
           /\ ~AppLocked /\ next.hit \subseteq Issued
           /\ next.prior = app /\ next.prior # NoApp /\ next.prior # next.new =>
                \A t \in Issued : Clean(t) => t \in next.hit
  PROVE  AuthInv'
  <1>1. AuthTypeOK
    BY DEF AuthInv
  <1>2. Moves(r) /\ req'[r] = next
    BY <1>1, GotoMoves
  <1>3. SessionsOnlyEnd /\ ChallengesKeep
    BY <1>1, NothingEnds
  <1>4. faults' \in 0 .. MaxFaults
    BY <1>1 DEF AuthTypeOK
  <1>5. Pends(r)' => Pends(r) /\ req'[r].challenge = req[r].challenge /\ lost' = lost
    BY <1>2 DEF Pends
  <1>6. ~Pends(r)' => lost' = lost \cup Pending({r})
    BY <1>2 DEF Pends
  <1>7. At(r, "revoking")' \/ At(r, "revokingAll")' => req'[r].token \in Issued
    BY <1>2 DEF At
  <1>8. At(r, "written")' =>
          /\ ~AppLocked /\ req'[r].hit \subseteq Issued
          /\ req'[r].prior = app /\ Changes(r)' => \A t \in Issued : Clean(t) => t \in req'[r].hit
    BY <1>2 DEF At, Changes
  <1> QED
    BY <1>2, <1>3, <1>4, <1>5, <1>6, <1>7, <1>8, MovesStep

\* Nothing is pending with a request elsewhere.
LEMMA NothingPends ==
  ASSUME NEW r \in Requests, ~Pends(r), UNCHANGED lost
  PROVE  lost' = lost \cup Pending({r})
  BY PendingIs

\* The records requests go on with.
LEMMA Proper ==
  ASSUME AuthTypeOK
  PROVE  /\ Idle \in Request /\ Idle.at = "idle"
         /\ \A c \in Challenges, at \in {"verified", "consumed"} : [at |-> at, challenge |-> c] \in Request
         /\ \A t \in Tokens, at \in {"revoking", "revokingAll"} : [at |-> at, token |-> t] \in Request
  BY DEF Request, Idle

\* Scopes are allowed to a registered application only.
LEMMA AllowedIs ==
  ASSUME AuthTypeOK, NEW scopes, Allowed(scopes)
  PROVE  app \in Terms
  BY DEF AuthTypeOK, Allowed, NoApp

LEMMA AskStep ==
  ASSUME AuthInv, NEW r \in Requests, NEW w \in Wallets, NEW scopes \in SUBSET Scopes, Ask(r, w, scopes)
  PROVE  AuthInv'
  <1>1. app \in Terms
    BY AllowedIs DEF Ask, AuthInv
  <1>2. [at |-> "asked", wallet |-> w, scopes |-> scopes, terms |-> app] \in Request
    BY <1>1 DEF Request
  <1>3. lost' = lost \cup Pending({r})
    BY NothingPends DEF Ask, At, Pends
  <1> QED
    BY <1>2, <1>3, ReadStep DEF Ask

LEMMA GetChallengeStep ==
  ASSUME AuthInv, NEW r \in Requests, NEW c \in Challenges, GetChallenge(r, c)
  PROVE  AuthInv'
  <1>1. [at |-> "verified", challenge |-> c] \in Request
    BY Proper DEF AuthInv
  <1>2. lost' = lost \cup Pending({r})
    BY NothingPends DEF GetChallenge, At, Pends
  <1> QED
    BY <1>1, <1>2, ReadStep DEF GetChallenge

LEMMA ValidateScopesStep ==
  ASSUME AuthInv, NEW r \in Requests, ValidateScopes(r)
  PROVE  AuthInv'
  <1> DEFINE c == req[r].challenge
  <1>1. Pends(r) /\ c \in Challenges
    BY RequestIs DEF ValidateScopes, AuthInv, At, Pends
  <1>2. CASE Allowed(challenges[c].scopes)
    <2>1. app \in Terms
      BY <1>2, AllowedIs DEF AuthInv
    <2>2. [at |-> "validated", challenge |-> c, terms |-> app] \in Request
      BY <1>1, <2>1 DEF Request
    <2> QED
      BY <1>1, <1>2, <2>2, ReadStep DEF ValidateScopes
  <1>3. CASE ~Allowed(challenges[c].scopes)
    <2>1. lost' = lost \cup Pending({r}) /\ Answer(r)
      BY <1>1, <1>3, PendingIs DEF ValidateScopes
    <2> QED
      BY <2>1, Proper, ReadStep DEF ValidateScopes, Answer, AuthInv
  <1> QED
    BY <1>2, <1>3

LEMMA ResolveSessionStep ==
  ASSUME AuthInv, NEW r \in Requests, NEW t \in Tokens, NEW at \in {"revoking", "revokingAll"},
         ResolveSession(r, t, at)
  PROVE  AuthInv'
  <1>1. t \in Issued
    BY DEF ResolveSession, Issued, NoSession
  <1>2. [at |-> at, token |-> t] \in Request
    BY Proper DEF AuthInv
  <1>3. lost' = lost \cup Pending({r})
    BY NothingPends DEF ResolveSession, At, Pends
  <1> QED
    BY <1>1, <1>2, <1>3, ReadStep DEF ResolveSession

LEMMA UpsertReadStep ==
  ASSUME AuthInv, NEW r \in Requests, NEW new \in Terms, UpsertRead(r, new)
  PROVE  AuthInv'
  <1>1. [at |-> "read", new |-> new, prior |-> app] \in Request
    BY DEF AuthInv, AuthTypeOK, Request
  <1>2. lost' = lost \cup Pending({r})
    BY NothingPends DEF UpsertRead, At, Pends
  <1> QED
    BY <1>1, <1>2, ReadStep DEF UpsertRead

LEMMA UpsertWriteStep ==
  ASSUME AuthInv, NEW r \in Requests, UpsertWrite(r)
  PROVE  AuthInv'
  <1> DEFINE hit == IF Changes(r) THEN { t \in Issued : sessions[t].state # "revoked" } ELSE {}
             next == [at |-> "written", new |-> req[r].new, prior |-> req[r].prior, hit |-> hit]
  <1>1. req[r].new \in Terms /\ req[r].prior \in Terms \cup {NoApp}
    BY RequestIs DEF AuthInv, UpsertWrite
  <1>2. hit \subseteq Issued /\ hit \in SUBSET Tokens
    BY DEF Issued
  <1>3. Changes(r) => \A t \in Issued : Clean(t) => t \in hit
    BY DEF Clean
  <1>4. Changes(r) <=> next.prior # NoApp /\ next.prior # next.new
    BY DEF Changes
  <1>5. next \in Request
    BY <1>1, <1>2 DEF Request
  <1>6. lost' = lost \cup Pending({r})
    BY NothingPends DEF UpsertWrite, At, Pends
  <1>7. Goto(r, next) /\ ~AppLocked /\ UNCHANGED << app, challenges, sessions, faults, crossed >>
    BY DEF UpsertWrite
  <1>8. next.at = "written" /\ next.hit = hit
    OBVIOUS
  <1> HIDE DEF next, hit
  <1> QED
    BY <1>2, <1>3, <1>4, <1>5, <1>6, <1>7, <1>8, ReadStep

LEMMA FailStep ==
  ASSUME AuthInv, NEW r \in Requests, Fail(r)
  PROVE  AuthInv'
  <1>1. Moves(r) /\ req'[r].at = "idle"
    BY AnswerMoves DEF Fail, AuthInv
  <1>2. SessionsOnlyEnd /\ ChallengesKeep
    BY NothingEnds DEF Fail, AuthInv
  <1>3. faults' \in 0 .. MaxFaults
    BY AuthAssumption DEF Fail, AuthInv, AuthTypeOK
  <1> QED
    BY <1>1, <1>2, <1>3, MovesStep DEF Fail, At, Pends

\* A request that answers, sessions that end, challenges that come.
LEMMA AnswerStep ==
  ASSUME AuthInv, NEW r \in Requests, Answer(r), ~Pends(r), SessionsOnlyEnd, ChallengesKeep,
         UNCHANGED << app, faults, crossed, lost >>
  PROVE  AuthInv'
  <1>1. Moves(r) /\ req'[r].at = "idle"
    BY AnswerMoves DEF AuthInv
  <1>2. lost' = lost \cup Pending({r})
    BY NothingPends
  <1>3. faults' \in 0 .. MaxFaults
    BY DEF AuthInv, AuthTypeOK
  <1> QED
    BY <1>1, <1>2, <1>3, MovesStep DEF At, Pends

LEMMA CreateChallengeStep ==
  ASSUME AuthInv, NEW r \in Requests, NEW c \in Challenges, CreateChallenge(r, c)
  PROVE  AuthInv'
  <1> DEFINE new == [state |-> "open", wallet |-> req[r].wallet, scopes |-> req[r].scopes, terms |-> req[r].terms]
  <1>1. new \in Challenge /\ new.state = "open"
    BY RequestIs DEF CreateChallenge, AuthInv, Challenge
  <1>2. challenges[c].state # "used"
    BY DEF CreateChallenge, NoChallenge
  <1>3. challenges' = [challenges EXCEPT ![c] = new]
    BY DEF CreateChallenge
  <1>4. challenges \in [Challenges -> Challenge \cup {NoChallenge}]
    BY DEF AuthInv, AuthTypeOK
  <1> HIDE DEF new
  <1>5. ChallengesKeep
    BY <1>1, <1>2, <1>3, <1>4 DEF ChallengesKeep
  <1>6. SessionsOnlyEnd
    BY NothingEnds DEF AuthInv, CreateChallenge
  <1> QED
    BY <1>5, <1>6, AnswerStep DEF CreateChallenge, At, Pends

LEMMA RevokeSessionStep ==
  ASSUME AuthInv, NEW r \in Requests, RevokeSession(r)
  PROVE  AuthInv'
  <1>1. {req[r].token} \subseteq Issued
    BY DEF AuthInv, TokensAreIssued, RevokeSession
  <1>2. SessionsOnlyEnd
    BY <1>1, RevokedOnlyEnds DEF AuthInv, RevokeSession
  <1>3. ChallengesKeep
    BY NothingEnds DEF AuthInv, RevokeSession
  <1> QED
    BY <1>2, <1>3, AnswerStep DEF RevokeSession, At, Pends

LEMMA RevokeAllSessionsStep ==
  ASSUME AuthInv, NEW r \in Requests, RevokeAllSessions(r)
  PROVE  AuthInv'
  <1> DEFINE mine == { t \in Issued : WalletOf(t) = WalletOf(req[r].token) }
  <1>1. mine \subseteq Issued
    OBVIOUS
  <1>2. sessions' = Revoked(mine)
    BY DEF RevokeAllSessions
  <1> HIDE DEF mine
  <1>3. SessionsOnlyEnd
    BY <1>1, <1>2, RevokedOnlyEnds DEF AuthInv
  <1>4. ChallengesKeep
    BY NothingEnds DEF AuthInv, RevokeAllSessions
  <1> QED
    BY <1>3, <1>4, AnswerStep DEF RevokeAllSessions, At, Pends

\* Time passes, and no request moves.
LEMMA TimeStep ==
  ASSUME AuthInv, SessionsOnlyEnd, ChallengesKeep, UNCHANGED << app, req, faults, crossed, lost >>
  PROVE  AuthInv'
  <1>1. Issued' = Issued /\ \A t \in Issued : Clean(t)' => Clean(t)
    BY EndKeepsIssued
  <1>2. \A t \in Issued : sessions'[t].challenge = sessions[t].challenge /\ sessions'[t].terms = sessions[t].terms
    BY DEF SessionsOnlyEnd, Issued
  <1>3. AuthTypeOK'
    BY DEF AuthInv, AuthTypeOK, SessionsOnlyEnd, ChallengesKeep, Tokens
  <1>4. TokensInOrder'
    BY DEF AuthInv, TokensInOrder, SessionsOnlyEnd, Tokens
  <1>5. TokensAreIssued'
    BY <1>1 DEF AuthInv, TokensAreIssued, At
  <1>6. (OneSession /\ OneExchange /\ NotBoth)'
    BY <1>1, <1>2 DEF AuthInv, SpentOnce, OneSession, OneExchange, NotBoth, Pends
  <1>7. UsedIsSpent'
    BY <1>1, <1>2 DEF AuthInv, SpentOnce, UsedIsSpent, Pends, ChallengesKeep
  <1>8. OneMirror'
    BY DEF AuthInv, OneMirror, At
  <1>9. HitsClean'
    BY <1>1 DEF AuthInv, HitsClean, At, Changes
  <1>10. ConsentKept'
    BY <1>1, <1>2 DEF AuthInv, ConsentKept
  <1> QED
    BY <1>3, <1>4, <1>5, <1>6, <1>7, <1>8, <1>9, <1>10 DEF AuthInv, SpentOnce

LEMMA ChallengeExpiresStep ==
  ASSUME AuthInv, NEW c \in Challenges, ChallengeExpires(c)
  PROVE  AuthInv'
  <1>1. challenges \in [Challenges -> Challenge \cup {NoChallenge}]
    BY DEF AuthInv, AuthTypeOK
  <1>2. challenges[c] \in Challenge
    BY <1>1 DEF ChallengeExpires, NoChallenge
  <1>3. [challenges[c] EXCEPT !.state = "expired"] \in Challenge
    BY <1>2 DEF Challenge
  <1>4. [challenges[c] EXCEPT !.state = "expired"].state = "expired"
    BY <1>2 DEF Challenge
  <1>5. challenges' = [challenges EXCEPT ![c] = [challenges[c] EXCEPT !.state = "expired"]]
    BY <1>1 DEF ChallengeExpires
  <1>6. ChallengesKeep
    BY <1>1, <1>3, <1>4, <1>5 DEF ChallengesKeep, ChallengeExpires
  <1>7. SessionsOnlyEnd
    BY NothingEnds DEF AuthInv, ChallengeExpires
  <1> QED
    BY <1>6, <1>7, TimeStep DEF ChallengeExpires

LEMMA SessionExpiresStep ==
  ASSUME AuthInv, NEW t \in Tokens, SessionExpires(t)
  PROVE  AuthInv'
  <1> DEFINE new == [sessions[t] EXCEPT !.state = "expired"]
  <1>1. sessions \in [Tokens -> Session \cup {NoSession}]
    BY DEF AuthInv, AuthTypeOK
  <1>2. sessions[t] \in Session
    BY <1>1 DEF SessionExpires, NoSession
  <1>3. /\ new \in Session /\ new.state = "expired"
        /\ new.challenge = sessions[t].challenge
        /\ new.terms = sessions[t].terms
        /\ new.raced = sessions[t].raced
    BY <1>2 DEF Session
  <1>4. sessions' = [sessions EXCEPT ![t] = new]
    BY <1>1 DEF SessionExpires
  <1>5. NoSession \notin Session
    BY DEF Session, NoSession
  <1> HIDE DEF new
  <1>6. sessions' \in [Tokens -> Session \cup {NoSession}]
    BY <1>1, <1>3, <1>4
  <1>7. \A u \in Tokens : sessions'[u] = IF u = t THEN new ELSE sessions[u]
    BY <1>1, <1>4
  <1>8. SessionsOnlyEnd
    BY <1>2, <1>3, <1>5, <1>6, <1>7 DEF SessionsOnlyEnd
  <1>9. ChallengesKeep
    BY NothingEnds DEF AuthInv, SessionExpires
  <1> QED
    BY <1>8, <1>9, TimeStep DEF SessionExpires

\* The challenge is the request's alone from here on.
LEMMA ConsumeChallengeStep ==
  ASSUME AuthInv, NEW r \in Requests, ConsumeChallenge(r)
  PROVE  AuthInv'
  <1>1. AuthTypeOK
    BY DEF AuthInv
  <1>2. PICK c \in Challenges : c = req[r].challenge
    BY <1>1, RequestIs DEF ConsumeChallenge
  <1>3. ~Pends(r)
    BY DEF ConsumeChallenge, At, Pends
  <1>4. CASE challenges[c].state # "open"
    <2>1. Answer(r) /\ UNCHANGED << app, challenges, sessions, faults, crossed, lost >>
      BY <1>2, <1>4 DEF ConsumeChallenge
    <2>2. SessionsOnlyEnd /\ ChallengesKeep
      BY <1>1, <2>1, NothingEnds
    <2> QED
      BY <1>3, <2>1, <2>2, AnswerStep
  <1>5. CASE challenges[c].state = "open"
    <2>1. /\ Goto(r, [at |-> "consumed", challenge |-> c])
          /\ challenges' = [challenges EXCEPT ![c].state = "used"]
          /\ UNCHANGED << app, sessions, faults, crossed, lost >>
      BY <1>2, <1>5 DEF ConsumeChallenge
    <2>2. Moves(r) /\ req'[r] = [at |-> "consumed", challenge |-> c]
      BY <1>1, <2>1, GotoMoves, Proper
    <2>3. req'[r].at = "consumed" /\ req'[r].challenge = c
      BY <2>2
    <2>4. SessionsOnlyEnd
      BY <1>1, <2>1, NothingEnds
    <2>5. /\ challenges' \in [Challenges -> Challenge \cup {NoChallenge}]
          /\ \A d \in Challenges : challenges'[d].state = "used" <=> challenges[d].state = "used" \/ d = c
      <3>1. challenges \in [Challenges -> Challenge \cup {NoChallenge}]
        BY <1>1 DEF AuthTypeOK
      <3>2. challenges[c] \in Challenge
        BY <1>5, <3>1 DEF NoChallenge
      <3>3. /\ [challenges[c] EXCEPT !.state = "used"] \in Challenge
            /\ [challenges[c] EXCEPT !.state = "used"].state = "used"
        BY <3>2 DEF Challenge
      <3>4. challenges' = [challenges EXCEPT ![c] = [challenges[c] EXCEPT !.state = "used"]]
        BY <2>1, <3>1
      <3> QED
        BY <3>1, <3>3, <3>4
    <2>6. AuthTypeOK'
      BY <1>1, <2>1, <2>2, <2>4, <2>5 DEF AuthTypeOK, Moves
    <2>7. TokensInOrder' /\ TokensAreIssued'
      BY <2>2, <2>3, <2>4, TokensStay DEF At
    <2>8. OneMirror' /\ HitsClean' /\ ConsentKept'
      BY <2>1, <2>2, <2>3, <2>4, ConsentStays DEF At
    <2>9. /\ \A t \in Issued : sessions[t].challenge # c
          /\ \A q \in Requests : Pends(q) => req[q].challenge # c
          /\ c \notin lost
      BY <1>5 DEF AuthInv, SpentOnce, UsedIsSpent
    <2>10. Issued' = Issued /\ UNCHANGED << sessions, lost >>
      BY <2>1 DEF Issued
    <2>11. \A q \in Requests : Pends(q)' <=> Pends(q) \/ q = r
      BY <2>2, <2>3 DEF Moves, Pends
    <2>12. \A q \in Requests : q # r => req'[q] = req[q]
      BY <2>2 DEF Moves
    <2>13. (OneSession /\ OneExchange /\ NotBoth)'
      BY <2>3, <2>9, <2>10, <2>11, <2>12 DEF AuthInv, SpentOnce, OneSession, OneExchange, NotBoth
    <2>14. UsedIsSpent'
      <3> SUFFICES ASSUME NEW d \in Challenges
                   PROVE  challenges'[d].state = "used" <=>
                            \/ \E t \in Issued : sessions[t].challenge = d
                            \/ \E q \in Requests : Pends(q)' /\ req'[q].challenge = d
                            \/ d \in lost
        BY <2>10 DEF UsedIsSpent
      <3>1. CASE d = c
        BY <2>3, <2>5, <2>11, <3>1
      <3>2. CASE d # c
        BY <1>3, <2>3, <2>5, <2>11, <2>12, <3>2 DEF AuthInv, SpentOnce, UsedIsSpent
      <3> QED
        BY <3>1, <3>2
    <2> QED
      BY <2>6, <2>7, <2>8, <2>13, <2>14 DEF AuthInv, SpentOnce
  <1> QED
    BY <1>4, <1>5

\* The next token.
LEMMA NextToken ==
  ASSUME AuthInv
  PROVE  /\ Cardinality(Challenges) \in Nat
         /\ \E n \in 0 .. Cardinality(Challenges) :
              n = Cardinality(Issued) /\ \A t \in Tokens : sessions[t] # NoSession <=> t <= n
  <1>1. Cardinality(Challenges) \in Nat
    BY AuthAssumption, FS_CardinalityType
  <1>2. PICK n \in 0 .. Cardinality(Challenges) : \A t \in Tokens : sessions[t] # NoSession <=> t <= n
    BY DEF AuthInv, TokensInOrder
  <1>3. Issued = 1 .. n
    BY <1>1, <1>2 DEF Issued, Tokens
  <1>4. Cardinality(1 .. n) = IF 1 > n THEN 0 ELSE n - 1 + 1
    BY <1>1, <1>2, FS_Interval
  <1>5. Cardinality(Issued) = n
    BY <1>1, <1>2, <1>3, <1>4
  <1> QED
    BY <1>1, <1>2, <1>5

\* The row is the request's challenge bought.
LEMMA InsertSessionStep ==
  ASSUME AuthInv, NEW r \in Requests, InsertSession(r)
  PROVE  AuthInv'
  <1>1. AuthTypeOK
    BY DEF AuthInv
  <1>2. PICK n \in 0 .. Cardinality(Challenges) :
          n = Cardinality(Issued) /\ \A t \in Tokens : sessions[t] # NoSession <=> t <= n
    BY NextToken
  <1>3. PICK t \in Tokens : t = n + 1
    BY <1>2 DEF InsertSession
  <1>4. PICK c \in Challenges : c = req[r].challenge
    BY <1>1, RequestIs DEF InsertSession, At, Pends
  <1>5. Pends(r) /\ req[r].terms \in Terms
    BY <1>1, RequestIs DEF InsertSession, At, Pends
  <1>6. PICK new : new = [state |-> "live", challenge |-> c, terms |-> req[r].terms,
                          raced |-> req[r].terms # app \/ BeingChanged]
    OBVIOUS
  <1>7. /\ new \in Session /\ new # NoSession /\ new.challenge = c
        /\ ~new.raced => new.terms = app /\ ~BeingChanged
    BY <1>5, <1>6 DEF Session, NoSession
  <1>8. sessions' = [sessions EXCEPT ![t] = new]
    BY <1>2, <1>3, <1>4, <1>6 DEF InsertSession
  <1>9. UNCHANGED << app, challenges, faults, crossed, lost >> /\ Moves(r) /\ req'[r].at = "idle"
    BY <1>1, AnswerMoves DEF InsertSession
  <1>10. \A u \in Tokens : sessions'[u] = IF u = t THEN new ELSE sessions[u]
    BY <1>1, <1>8 DEF AuthTypeOK
  <1>11. t \notin Issued /\ Issued' = Issued \cup {t}
    <2>1. Cardinality(Challenges) \in Nat
      BY NextToken
    <2>2. sessions[t] = NoSession
      BY <1>2, <1>3, <2>1 DEF Tokens
    <2> QED
      BY <1>7, <1>10, <2>2 DEF Issued, Tokens
  <1>12. AuthTypeOK'
    BY <1>1, <1>7, <1>8, <1>9 DEF AuthTypeOK, Moves, Tokens
  <1>13. TokensInOrder'
    <2>1. Cardinality(Challenges) \in Nat
      BY NextToken
    <2>2. n + 1 \in 0 .. Cardinality(Challenges)
      BY <1>2, <1>3, <2>1 DEF Tokens
    <2>3. \A u \in Tokens : sessions'[u] # NoSession <=> u <= n + 1
      BY <1>2, <1>3, <1>7, <1>10, <2>1 DEF Tokens
    <2>4. \A u \in Tokens' : sessions'[u] # NoSession' <=> u <= n + 1
      BY <2>3 DEF Tokens, NoSession
    <2> QED
      BY <2>2, <2>4 DEF TokensInOrder
  <1>14. \A q \in Requests : q # r => req'[q] = req[q]
    BY <1>9 DEF Moves
  <1>15. TokensAreIssued' /\ OneMirror'
    BY <1>9, <1>11, <1>14 DEF AuthInv, TokensAreIssued, OneMirror, At
  <1>16. \A q \in Requests : Pends(q)' <=> Pends(q) /\ q # r
    BY <1>9, <1>14 DEF Pends
  <1>17. \A u \in Issued : u # t /\ sessions'[u] = sessions[u]
    BY <1>10, <1>11 DEF Issued
  <1>18. sessions'[t] = new
    BY <1>10
  <1>19. OneSession'
    <2>1. \A u \in Issued : sessions[u].challenge # c
      BY <1>4, <1>5 DEF AuthInv, SpentOnce, NotBoth
    <2> QED
      BY <1>7, <1>11, <1>17, <1>18, <2>1 DEF AuthInv, SpentOnce, OneSession
  <1>20. OneExchange'
    BY <1>14, <1>16 DEF AuthInv, SpentOnce, OneExchange
  <1>21. NotBoth'
    <2>1. \A q \in Requests : Pends(q)' => req'[q].challenge # c
      BY <1>4, <1>5, <1>14, <1>16 DEF AuthInv, SpentOnce, OneExchange
    <2> QED
      BY <1>7, <1>11, <1>14, <1>16, <1>17, <1>18, <2>1 DEF AuthInv, SpentOnce, NotBoth
  <1>22. UsedIsSpent'
    <2> SUFFICES ASSUME NEW d \in Challenges
                 PROVE  challenges[d].state = "used" <=>
                          \/ \E u \in Issued \cup {t} : sessions'[u].challenge = d
                          \/ \E q \in Requests : Pends(q)' /\ req'[q].challenge = d
                          \/ d \in lost
      BY <1>9, <1>11 DEF UsedIsSpent
    <2>1. \A q \in Requests : Pends(q) /\ q # r => req'[q].challenge = req[q].challenge
      BY <1>14
    <2>2. (\E u \in Issued \cup {t} : sessions'[u].challenge = d)
            <=> (\E u \in Issued : sessions[u].challenge = d) \/ d = c
      BY <1>7, <1>17, <1>18
    <2>3. (\E q \in Requests : Pends(q) /\ req[q].challenge = d)
            <=> (\E q \in Requests : Pends(q)' /\ req'[q].challenge = d) \/ d = c
      BY <1>4, <1>5, <1>16, <2>1
    <2> QED
      BY <2>2, <2>3 DEF AuthInv, SpentOnce, UsedIsSpent
  <1>23. Clean(t)' => ~BeingChanged /\ sessions'[t].terms = app
    BY <1>7, <1>18 DEF Clean
  <1>24. \A u \in Issued : Clean(u)' <=> Clean(u)
    BY <1>17 DEF Clean
  <1>25. HitsClean'
    <2> SUFFICES ASSUME NEW q \in Requests, At(q, "written")', req'[q].prior = app, Changes(q)',
                        NEW u \in Issued', Clean(u)'
                 PROVE  u \in req'[q].hit
      BY <1>9 DEF HitsClean
    <2>1. req'[q] = req[q] /\ At(q, "written") /\ Changes(q) /\ req[q].prior = app
      BY <1>9, <1>14 DEF At, Changes
    <2>2. BeingChanged
      BY <2>1 DEF BeingChanged, Changes
    <2>3. u \in Issued
      BY <1>11, <1>23, <2>2
    <2> QED
      BY <1>24, <2>1, <2>3 DEF AuthInv, HitsClean
  <1>26. ConsentKept'
    BY <1>9, <1>11, <1>17, <1>23, <1>24 DEF AuthInv, ConsentKept
  <1> QED
    BY <1>12, <1>13, <1>15, <1>19, <1>20, <1>21, <1>22, <1>25, <1>26 DEF AuthInv, SpentOnce

\* A commit over the terms it has read, and that changes them, ends every clean session.
LEMMA UpsertCommitStep ==
  ASSUME AuthInv, NEW r \in Requests, UpsertCommit(r)
  PROVE  AuthInv'
  <1>1. AuthTypeOK
    BY DEF AuthInv
  <1>2. At(r, "written") /\ req[r].hit \subseteq Issued
    BY DEF AuthInv, TokensAreIssued, UpsertCommit
  <1>3. SessionsOnlyEnd /\ \A t \in req[r].hit : ~Clean(t)'
    BY <1>1, <1>2, RevokedOnlyEnds DEF UpsertCommit
  <1>4. ChallengesKeep
    BY <1>1, NothingEnds DEF UpsertCommit
  <1>5. Moves(r) /\ req'[r].at = "idle"
    BY <1>1, AnswerMoves DEF UpsertCommit
  <1>6. req[r].new \in Terms /\ req[r].prior \in Terms \cup {NoApp}
    BY <1>1, <1>2, RequestIs
  <1>7. /\ app' = req[r].new /\ UNCHANGED << challenges, faults, lost >>
        /\ crossed' = (crossed \/ req[r].prior # app)
    BY DEF UpsertCommit
  <1>8. AuthTypeOK'
    BY <1>1, <1>3, <1>4, <1>5, <1>6, <1>7 DEF AuthTypeOK, Moves, SessionsOnlyEnd, ChallengesKeep, Tokens
  <1>9. TokensInOrder' /\ TokensAreIssued'
    BY <1>3, <1>5, TokensStay DEF At
  <1>10. SpentOnce'
    <2>1. ~Pends(r)
      BY <1>2 DEF At, Pends
    <2>2. lost' = lost \cup Pending({r})
      BY <1>7, <2>1, NothingPends
    <2> QED
      BY <1>3, <1>4, <1>5, <2>2, SpentStays DEF Pends
  <1>11. \A q \in Requests : ~At(q, "written")'
    BY <1>2, <1>5 DEF AuthInv, OneMirror, Moves, At
  <1>12. OneMirror' /\ HitsClean'
    BY <1>11 DEF OneMirror, HitsClean
  <1>13. ConsentKept'
    <2> SUFFICES ASSUME ~crossed, req[r].prior = app, NEW t \in Issued, Clean(t)'
                 PROVE  sessions'[t].terms = req[r].new
      BY <1>3, <1>7, EndKeepsIssued DEF ConsentKept
    <2>1. Clean(t)
      BY <1>3, EndKeepsIssued
    <2>2. sessions[t].terms = app /\ sessions'[t].terms = sessions[t].terms
      BY <1>3, <2>1 DEF AuthInv, ConsentKept, SessionsOnlyEnd, Issued
    <2>3. ~Changes(r)
      BY <1>2, <1>3, <2>1 DEF AuthInv, HitsClean
    <2>4. app # NoApp
      <3>1. sessions[t] \in Session
        BY <1>1 DEF AuthTypeOK, Issued
      <3>2. sessions[t].terms \in Terms
        BY <3>1 DEF Session
      <3> QED
        BY <2>2, <3>2, AuthAssumption DEF Terms, NoApp
    <2> QED
      BY <2>2, <2>3, <2>4 DEF Changes
  <1> QED
    BY <1>8, <1>9, <1>10, <1>12, <1>13 DEF AuthInv

\* The backend stops: what was consumed on the way is lost.
LEMMA CrashStep ==
  ASSUME AuthInv, Crash
  PROVE  AuthInv'
  <1>1. AuthTypeOK
    BY DEF AuthInv
  <1>2. /\ \A q \in Requests : req'[q] = Idle
        /\ req' \in [Requests -> Request]
        /\ lost' = lost \cup Pending(Requests)
        /\ UNCHANGED << app, challenges, sessions, crossed >>
    BY <1>1, Proper DEF Crash
  <1>3. \A q \in Requests : req'[q].at = "idle"
    BY <1>1, <1>2, Proper
  <1>4. \A d : d \in Pending(Requests) <=> \E q \in Requests : Pends(q) /\ req[q].challenge = d
    BY DEF Pending, Pends
  <1>5. Pending(Requests) \subseteq Challenges
    BY <1>1, <1>4, RequestIs
  <1>6. faults' \in 0 .. MaxFaults
    BY <1>1, AuthAssumption DEF Crash, AuthTypeOK
  <1>7. AuthTypeOK'
    BY <1>1, <1>2, <1>5, <1>6 DEF AuthTypeOK, Tokens
  <1>8. Issued' = Issued
    BY <1>2 DEF Issued, Tokens
  <1>9. TokensInOrder' /\ TokensAreIssued'
    BY <1>2, <1>3, <1>8 DEF AuthInv, TokensInOrder, TokensAreIssued, At, Tokens
  <1>10. \A q \in Requests : ~Pends(q)' /\ ~At(q, "written")'
    BY <1>3 DEF Pends, At
  <1>11. (OneSession /\ OneExchange /\ NotBoth)'
    BY <1>2, <1>8, <1>10 DEF AuthInv, SpentOnce, OneSession, OneExchange, NotBoth
  <1>12. UsedIsSpent'
    <2> SUFFICES ASSUME NEW d \in Challenges
                 PROVE  challenges[d].state = "used" <=>
                          \/ \E u \in Issued : sessions[u].challenge = d
                          \/ d \in lost \/ d \in Pending(Requests)
      BY <1>2, <1>8, <1>10 DEF UsedIsSpent
    <2> QED
      BY <1>4 DEF AuthInv, SpentOnce, UsedIsSpent
  <1>13. OneMirror' /\ HitsClean'
    BY <1>10 DEF OneMirror, HitsClean
  <1>14. ConsentKept'
    BY <1>2, <1>8 DEF AuthInv, ConsentKept, Clean
  <1> QED
    BY <1>7, <1>9, <1>11, <1>12, <1>13, <1>14 DEF AuthInv, SpentOnce

LEMMA AuthInit == Init => AuthInv
  <1> SUFFICES ASSUME Init
               PROVE  AuthInv
    OBVIOUS
  <1>1. Cardinality(Challenges) \in Nat
    BY AuthAssumption, FS_CardinalityType
  <1>2. /\ \A q \in Requests : req[q] = Idle
        /\ \A t \in Tokens : sessions[t] = NoSession
        /\ \A c \in Challenges : challenges[c] = NoChallenge
        /\ Issued = {}
    BY DEF Init, Issued
  <1>3. AuthTypeOK
    <2>1. Idle \in Request
      BY DEF Request
    <2>2. faults \in 0 .. MaxFaults
      BY AuthAssumption DEF Init
    <2> QED
      BY <2>1, <2>2 DEF Init, AuthTypeOK
  <1>4. \A q \in Requests : req[q].at = "idle"
    BY <1>2, <1>3, Proper
  <1>5. TokensInOrder
    <2>1. 0 \in 0 .. Cardinality(Challenges) /\ \A t \in Tokens : ~(t <= 0)
      BY <1>1 DEF Tokens
    <2> QED
      BY <1>2, <2>1 DEF TokensInOrder
  <1>6. TokensAreIssued /\ OneMirror /\ HitsClean
    BY <1>4 DEF TokensAreIssued, OneMirror, HitsClean, At
  <1>7. SpentOnce
    BY <1>2, <1>4 DEF Init, SpentOnce, OneSession, OneExchange, NotBoth, UsedIsSpent, Pends, NoChallenge
  <1>8. ConsentKept
    BY <1>2 DEF ConsentKept
  <1> QED
    BY <1>3, <1>5, <1>6, <1>7, <1>8 DEF AuthInv

LEMMA AuthStep == AuthInv /\ [Next]_vars => AuthInv'
  <1> SUFFICES ASSUME AuthInv, [Next]_vars
               PROVE  AuthInv'
    OBVIOUS
  <1>1. ASSUME NEW r \in Requests, Exchange(r)
        PROVE  AuthInv'
    BY <1>1, AskStep, CreateChallengeStep, GetChallengeStep, ConsumeChallengeStep, ValidateScopesStep,
       InsertSessionStep DEF Exchange
  <1>2. ASSUME NEW r \in Requests, Revoke(r)
        PROVE  AuthInv'
    BY <1>2, ResolveSessionStep, RevokeSessionStep, RevokeAllSessionsStep DEF Revoke
  <1>3. ASSUME NEW r \in Requests, Mirror(r)
        PROVE  AuthInv'
    BY <1>3, UpsertReadStep, UpsertWriteStep, UpsertCommitStep DEF Mirror
  <1>4. CASE UNCHANGED vars
    <2>1. SessionsOnlyEnd /\ ChallengesKeep
      BY <1>4, NothingEnds DEF AuthInv, vars
    <2> QED
      BY <1>4, <2>1, TimeStep DEF vars
  <1> QED
    BY <1>1, <1>2, <1>3, <1>4, FailStep, ChallengeExpiresStep, SessionExpiresStep, CrashStep DEF Next

-----------------------------------------------------------------------------
(***************************************************************************)
(* What follows.                                                           *)
(***************************************************************************)
\* The inductive invariant holds.
THEOREM AuthCorrect == Spec => []AuthInv
  BY AuthInit, AuthStep, PTL DEF Spec

\* Every row, every request in progress and every history is of its type.
THEOREM AuthTypes == Spec => []AuthTypeOK
  <1>1. AuthInv => AuthTypeOK
    BY DEF AuthInv
  <1> QED
    BY <1>1, AuthCorrect, PTL

\* What at most one element is in has zero or one.
LEMMA AtMostOne ==
  ASSUME NEW S, \A x, y \in S : x = y
  PROVE  Cardinality(S) = IF S = {} THEN 0 ELSE 1
  <1>1. CASE S = {}
    BY <1>1, FS_EmptySet
  <1>2. CASE S # {}
    <2>1. PICK x \in S : S = {x}
      BY <1>2
    <2> QED
      BY <1>2, <2>1, FS_Singleton
  <1> QED
    BY <1>1, <1>2

\* A challenge buys one session however many requests exchange it, and is used
\* up without one only by an exchange that failed on the way (ConsumeChallenge).
THEOREM ChallengeBuysOne == Spec => []ChallengeSpentOnce
  <1>1. ASSUME AuthInv
        PROVE  ChallengeSpentOnce
    <2> SUFFICES ASSUME NEW c \in Challenges
                 PROVE  LET bought == Cardinality({ t \in Issued : sessions[t].challenge = c })
                                        + Cardinality({ r \in Requests : c \in Pending({r}) })
                        IN  /\ bought <= 1
                            /\ (challenges[c].state = "used") <=> (bought = 1 \/ c \in lost)
      BY DEF ChallengeSpentOnce
    <2> DEFINE S == { t \in Issued : sessions[t].challenge = c }
               R == { r \in Requests : c \in Pending({r}) }
    <2>1. Cardinality(S) = IF S = {} THEN 0 ELSE 1
      <3>1. \A x, y \in S : x = y
        BY <1>1 DEF AuthInv, SpentOnce, OneSession
      <3> QED
        BY <3>1, AtMostOne
    <2>2. \A r \in Requests : c \in Pending({r}) <=> Pends(r) /\ req[r].challenge = c
      BY DEF Pending, Pends
    <2>3. Cardinality(R) = IF R = {} THEN 0 ELSE 1
      <3>1. \A x, y \in R : x = y
        BY <1>1, <2>2 DEF AuthInv, SpentOnce, OneExchange
      <3> QED
        BY <3>1, AtMostOne
    <2>4. S = {} \/ R = {}
      BY <1>1, <2>2 DEF AuthInv, SpentOnce, NotBoth
    <2>5. challenges[c].state = "used" <=> S # {} \/ R # {} \/ c \in lost
      BY <1>1, <2>2 DEF AuthInv, SpentOnce, UsedIsSpent
    <2> HIDE DEF S, R
    <2>6. Cardinality(S) + Cardinality(R) = IF S = {} /\ R = {} THEN 0 ELSE 1
      BY <2>1, <2>3, <2>4
    <2>7. Cardinality(S) + Cardinality(R) <= 1
      BY <2>6
    <2>8. challenges[c].state = "used" <=> Cardinality(S) + Cardinality(R) = 1 \/ c \in lost
      BY <2>5, <2>6
    <2> QED
      BY <2>7, <2>8 DEF S, R
  <1> QED
    BY <1>1, AuthCorrect, PTL

\* A live session stands for the terms the application has now, unless its insert
\* met a change of them or two mirrors crossed (UpsertApp).
THEOREM ConsentFollows == Spec => []ConsentFollowsApp
  <1>1. AuthInv => ConsentFollowsApp
    BY DEF AuthInv, ConsentKept, ConsentFollowsApp, Clean
  <1> QED
    BY <1>1, AuthCorrect, PTL

-----------------------------------------------------------------------------
(***************************************************************************)
(* Ended sessions.                                                         *)
(***************************************************************************)
\* A token stands for one challenge, under one set of terms; once it is not live
\* it never is again, and no other token is had for its challenge.
EndedStaysEnded ==
  \A t \in Issued :
    /\ t \in Issued'
    /\ sessions'[t].challenge = sessions[t].challenge /\ sessions'[t].terms = sessions[t].terms
    /\ sessions'[t].state = "live" => sessions[t].state = "live"
    /\ \A u \in Issued' : u # t => sessions'[u].challenge # sessions[t].challenge

\* Only an exchange writes a row that is not there, and no row that is.
LEMMA SessionsGoOn ==
  ASSUME AuthInv, [Next]_vars
  PROVE  SessionsOnlyEnd \/ \E t \in Tokens \ Issued : \A u \in Issued : sessions'[u] = sessions[u] /\ u # t
  <1>1. AuthTypeOK
    BY DEF AuthInv
  <1>2. CASE UNCHANGED sessions
    BY <1>1, <1>2, NothingEnds
  <1>3. ASSUME NEW r \in Requests, InsertSession(r)
        PROVE  \E t \in Tokens \ Issued : \A u \in Issued : sessions'[u] = sessions[u] /\ u # t
    <2>1. PICK n \in 0 .. Cardinality(Challenges) :
            n = Cardinality(Issued) /\ \A t \in Tokens : sessions[t] # NoSession <=> t <= n
      BY NextToken
    <2>2. PICK t \in Tokens : t = n + 1
      BY <1>3, <2>1 DEF InsertSession
    <2>3. sessions[t] = NoSession
      BY <2>1, <2>2, NextToken DEF Tokens
    <2>4. PICK new : sessions' = [sessions EXCEPT ![t] = new]
      BY <1>3, <2>1, <2>2 DEF InsertSession
    <2> QED
      BY <1>1, <2>3, <2>4 DEF Issued, AuthTypeOK
  <1>4. ASSUME NEW r \in Requests, RevokeSession(r)
        PROVE  SessionsOnlyEnd
    <2>1. {req[r].token} \subseteq Issued
      BY <1>4 DEF AuthInv, TokensAreIssued, RevokeSession
    <2> QED
      BY <1>1, <1>4, <2>1, RevokedOnlyEnds DEF RevokeSession
  <1>5. ASSUME NEW r \in Requests, RevokeAllSessions(r)
        PROVE  SessionsOnlyEnd
    <2>1. PICK mine \in SUBSET Issued : sessions' = Revoked(mine)
      BY <1>5 DEF RevokeAllSessions
    <2> QED
      BY <1>1, <2>1, RevokedOnlyEnds
  <1>6. ASSUME NEW r \in Requests, UpsertCommit(r)
        PROVE  SessionsOnlyEnd
    <2>1. req[r].hit \subseteq Issued
      BY <1>6 DEF AuthInv, TokensAreIssued, UpsertCommit
    <2> QED
      BY <1>1, <1>6, <2>1, RevokedOnlyEnds DEF UpsertCommit
  <1>7. ASSUME NEW t \in Tokens, SessionExpires(t)
        PROVE  SessionsOnlyEnd
    <2> DEFINE new == [sessions[t] EXCEPT !.state = "expired"]
    <2>1. sessions[t] \in Session /\ NoSession \notin Session
      BY <1>1, <1>7 DEF SessionExpires, AuthTypeOK, Session, NoSession
    <2>2. /\ new \in Session /\ new.state = "expired" /\ new.challenge = sessions[t].challenge
          /\ new.terms = sessions[t].terms /\ new.raced = sessions[t].raced
      BY <2>1 DEF Session
    <2>3. sessions' = [sessions EXCEPT ![t] = new]
      BY <1>1, <1>7 DEF SessionExpires, AuthTypeOK
    <2> HIDE DEF new
    <2>4. /\ sessions' \in [Tokens -> Session \cup {NoSession}]
          /\ \A u \in Tokens : sessions'[u] = IF u = t THEN new ELSE sessions[u]
      BY <1>1, <2>2, <2>3 DEF AuthTypeOK
    <2> QED
      BY <2>1, <2>2, <2>4 DEF SessionsOnlyEnd
  <1> QED
    BY <1>2, <1>3, <1>4, <1>5, <1>6, <1>7
       DEF Next, vars, Exchange, Revoke, Mirror, Ask, CreateChallenge, GetChallenge, ConsumeChallenge,
           ValidateScopes, ResolveSession, UpsertRead, UpsertWrite, Fail, ChallengeExpires, Crash

\* Logging out, a revocation and the end of a session's seven days are final, however
\* the requests that exchange, revoke and mirror overlap: neither the token nor the
\* challenge the wallet signed for it opens a session again (RevokeSession,
\* RevokeAllSessions, IssueSession).
THEOREM EndedForGood == Spec => [][EndedStaysEnded]_vars
  <1>1. AuthInv /\ AuthInv' /\ [Next]_vars => [EndedStaysEnded]_vars
    <2> SUFFICES ASSUME AuthInv, AuthInv', [Next]_vars, NEW t \in Issued
                 PROVE  /\ t \in Issued'
                        /\ sessions'[t].challenge = sessions[t].challenge
                        /\ sessions'[t].terms = sessions[t].terms
                        /\ sessions'[t].state = "live" => sessions[t].state = "live"
                        /\ \A u \in Issued' : u # t => sessions'[u].challenge # sessions[t].challenge
      BY DEF EndedStaysEnded
    <2>1. t \in Tokens /\ sessions[t] # NoSession
      BY DEF Issued
    <2>2. /\ t \in Issued'
          /\ sessions'[t].challenge = sessions[t].challenge /\ sessions'[t].terms = sessions[t].terms
          /\ sessions'[t].state = "live" => sessions[t].state = "live"
      <3>1. CASE SessionsOnlyEnd
        BY <2>1, <3>1 DEF SessionsOnlyEnd, Issued, Tokens
      <3>2. CASE sessions'[t] = sessions[t]
        BY <2>1, <3>2 DEF Issued, Tokens, NoSession
      <3> QED
        BY <3>1, <3>2, SessionsGoOn
    <2>3. \A u \in Issued' : u # t => sessions'[u].challenge # sessions'[t].challenge
      BY <2>2 DEF AuthInv, SpentOnce, OneSession
    <2> QED
      BY <2>2, <2>3
  <1> QED
    BY <1>1, AuthCorrect, PTL DEF Spec

=============================================================================
