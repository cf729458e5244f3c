------------------------------ MODULE AuthSessions ------------------------------
(***************************************************************************)
(* Scoped authorization: a wallet signs a challenge for an application,    *)
(* exchanges it for a bearer session, and revokes sessions; an             *)
(* administrator mirrors the application's registration, which may end     *)
(* sessions.                                                               *)
(*                                                                         *)
(* A handler is the statements it runs, one step each.  Only UpsertApp is a*)
(* transaction of more than one statement: it reads without a lock, holds  *)
(* the lock on the application's row from its write to its commit, and with*)
(* it the locks on the sessions it revokes.  Other requests see what is    *)
(* committed.  The model has one application, so one registration `app`.   *)
(***************************************************************************)
EXTENDS Naturals, FiniteSets

CONSTANTS
  Wallets,    \* wallet addresses
  Scopes,     \* scope names
  Owners,     \* owners an application can have
  Challenges, \* bound: the challenges ever created
  Requests,   \* HTTP requests that can be in progress at one time
  None,
  MaxFaults   \* bound: crashes and failed statements

ASSUME AuthAssumption ==
  /\ None \notin Owners
  /\ IsFiniteSet(Challenges)
  /\ MaxFaults \in Nat

VARIABLES
  app,        \* auth_apps and auth_app_scopes of the application
  challenges, \* auth_challenges
  sessions,   \* auth_sessions by token, in order of insertion
  req,        \* the requests in progress
  faults,
  crossed,    \* history: an upsert committed over terms other than it had read
  lost        \* history: challenges consumed and never answered with a session

vars == << app, challenges, sessions, req, faults, crossed, lost >>

-----------------------------------------------------------------------------
\* What a wallet consents to: who owns the application and what it may ask for.
Terms == [owner : Owners, scopes : SUBSET Scopes]
NoApp == [owner |-> None, scopes |-> {}]

NoChallenge == [state |-> "none"]
Challenge == [state : {"open", "used", "expired"}, wallet : Wallets, scopes : SUBSET Scopes, terms : Terms]

\* `terms` is the application as it was when the scopes were validated, `raced`
\* whether it was being changed when the row was inserted; both are history.
Session == [state : {"live", "revoked", "expired"}, challenge : Challenges, terms : Terms, raced : BOOLEAN]

Tokens == 1 .. Cardinality(Challenges)
NoSession == [state |-> "none"]
Issued == { t \in Tokens : sessions[t] # NoSession }
WalletOf(t) == challenges[sessions[t].challenge].wallet

Idle == [at |-> "idle"]
Request ==
  {Idle}
    \cup [at : {"asked"}, wallet : Wallets, scopes : SUBSET Scopes, terms : Terms]
    \cup [at : {"verified", "consumed"}, challenge : Challenges]
    \cup [at : {"validated"}, challenge : Challenges, terms : Terms]
    \cup [at : {"revoking", "revokingAll"}, token : Tokens]
    \cup [at : {"read"}, new : Terms, prior : Terms \cup {NoApp}]
    \cup [at : {"written"}, new : Terms, prior : Terms \cup {NoApp}, hit : SUBSET Tokens]

AuthTypeOK ==
  /\ app \in Terms \cup {NoApp}
  /\ challenges \in [Challenges -> Challenge \cup {NoChallenge}]
  /\ sessions \in [Tokens -> Session \cup {NoSession}]
  /\ req \in [Requests -> Request]
  /\ faults \in 0 .. MaxFaults
  /\ crossed \in BOOLEAN
  /\ lost \subseteq Challenges

\* The migrations seed an application; another does not exist before it is mirrored.
Init ==
  /\ app \in Terms \cup {NoApp}
  /\ faults = 0
  /\ challenges = [c \in Challenges |-> NoChallenge]
  /\ sessions = [t \in Tokens |-> NoSession]
  /\ req = [r \in Requests |-> Idle]
  /\ crossed = FALSE /\ lost = {}

At(r, pc) == req[r].at = pc
Goto(r, next) == req' = [req EXCEPT ![r] = next]
Answer(r) == Goto(r, Idle)

\* The row lock UpsertApp holds until it commits.
AppLocked == \E u \in Requests : At(u, "written")
SessionLocked(t) == \E u \in Requests : At(u, "written") /\ t \in req[u].hit

-----------------------------------------------------------------------------
\* Mutant of Allowed: a request for nothing is not refused.
AllowedEmpty(scopes) == scopes \subseteq app.scopes

\* ValidateScopes: some scopes, all of them the application's.
Allowed(scopes) == scopes # {} /\ scopes \subseteq app.scopes

\* POST /api/auth/challenges: ValidateScopes, then the insert.
Ask(r, w, scopes) ==
  /\ At(r, "idle") /\ Allowed(scopes)
  /\ Goto(r, [at |-> "asked", wallet |-> w, scopes |-> scopes, terms |-> app])
  /\ UNCHANGED << app, challenges, sessions, faults, crossed, lost >>

CreateChallenge(r, c) ==
  /\ At(r, "asked") /\ challenges[c] = NoChallenge
  /\ challenges' = [challenges EXCEPT ![c] =
       [state |-> "open", wallet |-> req[r].wallet, scopes |-> req[r].scopes, terms |-> req[r].terms]]
  /\ Answer(r)
  /\ UNCHANGED << app, sessions, faults, crossed, lost >>

\* Five minutes, seven days.
ChallengeExpires(c) ==
  /\ challenges[c].state = "open"
  /\ challenges' = [challenges EXCEPT ![c].state = "expired"]
  /\ UNCHANGED << app, sessions, req, faults, crossed, lost >>

SessionExpires(t) ==
  /\ sessions[t].state = "live"
  /\ sessions' = [sessions EXCEPT ![t].state = "expired"]
  /\ UNCHANGED << app, challenges, req, faults, crossed, lost >>

\* POST /api/auth/sessions: the challenge is read and its signature verified.
GetChallenge(r, c) ==
  /\ At(r, "idle") /\ challenges[c].state = "open"
  /\ Goto(r, [at |-> "verified", challenge |-> c])
  /\ UNCHANGED << app, challenges, sessions, faults, crossed, lost >>

\* Mutant of ConsumeChallenge: the update does not ask for consumed_at IS NULL.
ConsumeAgain(r) ==
  /\ At(r, "verified")
  /\ challenges' = [challenges EXCEPT ![req[r].challenge].state = "used"]
  /\ Goto(r, [at |-> "consumed", challenge |-> req[r].challenge])
  /\ UNCHANGED << app, sessions, faults, crossed, lost >>

\* One UPDATE ... RETURNING; who finds the challenge used or expired is refused.
ConsumeChallenge(r) ==
  /\ At(r, "verified")
  /\ LET c == req[r].challenge IN
     \/ /\ challenges[c].state = "open"
        /\ challenges' = [challenges EXCEPT ![c].state = "used"]
        /\ Goto(r, [at |-> "consumed", challenge |-> c])
     \/ /\ challenges[c].state # "open"
        /\ Answer(r) /\ UNCHANGED challenges
  /\ UNCHANGED << app, sessions, faults, crossed, lost >>

\* IssueSession: the scopes are validated again, against today's registration.
ValidateScopes(r) ==
  /\ At(r, "consumed")
  /\ LET c == req[r].challenge IN
     \/ /\ Allowed(challenges[c].scopes)
        /\ Goto(r, [at |-> "validated", challenge |-> c, terms |-> app]) /\ UNCHANGED lost
     \/ /\ ~Allowed(challenges[c].scopes)
        /\ Answer(r) /\ lost' = lost \cup {c}
  /\ UNCHANGED << app, challenges, sessions, faults, crossed >>

\* An upsert that has written new terms and not yet committed.
BeingChanged == \E u \in Requests : At(u, "written") /\ req[u].new # app

InsertSession(r) ==
  /\ At(r, "validated")
  /\ LET t == Cardinality(Issued) + 1 IN
       /\ t \in Tokens
       /\ sessions' = [sessions EXCEPT ![t] =
            [state |-> "live", challenge |-> req[r].challenge, terms |-> req[r].terms,
             raced |-> req[r].terms # app \/ BeingChanged]]
  /\ Answer(r)
  /\ UNCHANGED << app, challenges, faults, crossed, lost >>

-----------------------------------------------------------------------------
\* DELETE /api/auth/session and /api/auth/sessions: resolve, then revoke.
ResolveSession(r, t, next) ==
  /\ At(r, "idle") /\ sessions[t].state = "live"
  /\ Goto(r, [at |-> next, token |-> t])
  /\ UNCHANGED << app, challenges, sessions, faults, crossed, lost >>

Revoked(ts) == [t \in Tokens |-> IF t \in ts THEN [sessions[t] EXCEPT !.state = "revoked"] ELSE sessions[t]]

RevokeSession(r) ==
  /\ At(r, "revoking") /\ ~SessionLocked(req[r].token)
  /\ sessions' = Revoked({req[r].token})
  /\ Answer(r)
  /\ UNCHANGED << app, challenges, faults, crossed, lost >>

RevokeAllSessions(r) ==
  /\ At(r, "revokingAll")
  /\ LET mine == { t \in Issued : WalletOf(t) = WalletOf(req[r].token) } IN
       /\ \A t \in mine : ~SessionLocked(t)
       /\ sessions' = Revoked(mine)
  /\ Answer(r)
  /\ UNCHANGED << app, challenges, faults, crossed, lost >>

-----------------------------------------------------------------------------
\* UpsertApp: the prior owner and scopes, read without a lock.
UpsertRead(r, new) ==
  /\ At(r, "idle")
  /\ Goto(r, [at |-> "read", new |-> new, prior |-> app])
  /\ UNCHANGED << app, challenges, sessions, faults, crossed, lost >>

Changes(r) == req[r].prior # NoApp /\ req[r].prior # req[r].new

\* Mutant of UpsertWrite: only the scopes are compared, not the owner.
UpsertWriteScopes(r) ==
  /\ At(r, "read") /\ ~AppLocked
  /\ Goto(r, [at |-> "written", new |-> req[r].new, prior |-> req[r].prior,
              hit |-> IF Changes(r) /\ req[r].prior.scopes # req[r].new.scopes
                      THEN { t \in Issued : sessions[t].state # "revoked" } ELSE {}])
  /\ UNCHANGED << app, challenges, sessions, faults, crossed, lost >>

\* The row, scopes and origins are written under the row's lock, and if the terms
\* differ from the prior ones, so are the sessions that exist at this moment.
UpsertWrite(r) ==
  /\ At(r, "read") /\ ~AppLocked
  /\ Goto(r, [at |-> "written", new |-> req[r].new, prior |-> req[r].prior,
              hit |-> IF Changes(r) THEN { t \in Issued : sessions[t].state # "revoked" } ELSE {}])
  /\ UNCHANGED << app, challenges, sessions, faults, crossed, lost >>

UpsertCommit(r) ==
  /\ At(r, "written")
  /\ app' = req[r].new
  /\ sessions' = Revoked(req[r].hit)
  /\ crossed' = (crossed \/ req[r].prior # app)
  /\ Answer(r)
  /\ UNCHANGED << challenges, faults, lost >>

-----------------------------------------------------------------------------
\* Challenges whose exchange is under way.
Pending(rs) == { req[r].challenge : r \in { x \in rs : req[x].at \in {"consumed", "validated"} } }

\* A statement fails; a transaction is rolled back.
Fail(r) ==
  /\ ~At(r, "idle") /\ faults < MaxFaults /\ faults' = faults + 1
  /\ Answer(r)
  /\ lost' = lost \cup Pending({r})
  /\ UNCHANGED << app, challenges, sessions, crossed >>

Crash ==
  /\ faults < MaxFaults /\ faults' = faults + 1
  /\ req' = [r \in Requests |-> Idle]
  /\ lost' = lost \cup Pending(Requests)
  /\ UNCHANGED << app, challenges, sessions, crossed >>

Exchange(r) ==
  \/ \E w \in Wallets, scopes \in SUBSET Scopes : Ask(r, w, scopes)
  \/ \E c \in Challenges : CreateChallenge(r, c) \/ GetChallenge(r, c)
  \/ ConsumeChallenge(r) \/ ValidateScopes(r) \/ InsertSession(r)

Revoke(r) ==
  \/ \E t \in Tokens, next \in {"revoking", "revokingAll"} : ResolveSession(r, t, next)
  \/ RevokeSession(r) \/ RevokeAllSessions(r)

Mirror(r) ==
  \/ \E new \in Terms : UpsertRead(r, new)
  \/ UpsertWrite(r) \/ UpsertCommit(r)

Next ==
  \/ \E r \in Requests : Exchange(r) \/ Revoke(r) \/ Mirror(r) \/ Fail(r)
  \/ \E c \in Challenges : ChallengeExpires(c)
  \/ \E t \in Tokens : SessionExpires(t)
  \/ Crash

Spec == Init /\ [][Next]_vars

-----------------------------------------------------------------------------
\* A challenge buys one session, whoever exchanges it at the same time, and none
\* only if the exchange that consumed it failed on the way
\* (createAuthSessionHandler, ConsumeChallenge).
ChallengeSpentOnce ==
  \A c \in Challenges :
    LET bought == Cardinality({ t \in Issued : sessions[t].challenge = c })
                    + Cardinality({ r \in Requests : c \in Pending({r}) })
    IN  /\ bought <= 1
        /\ (challenges[c].state = "used") <=> (bought = 1 \/ c \in lost)

\* A live session was issued under the terms the application has now, unless its
\* insert met a change of them, or two mirrors of the application crossed
\* (UpsertApp revokes on a change of owner or scopes).
ConsentFollowsApp ==
  crossed \/ \A t \in Issued : sessions[t].state = "live" /\ ~sessions[t].raced => sessions[t].terms = app

\* The statement of the comment on UpsertApp: an application that changed hands
\* or gained scopes never inherits consent given to it as it was before.
NoInheritedConsent ==
  \A t \in Issued : sessions[t].state = "live" =>
    LET signed == challenges[sessions[t].challenge].terms
    IN  signed.owner = app.owner /\ app.scopes \subseteq signed.scopes

=============================================================================
