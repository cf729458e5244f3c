# NimConnect: a verification project

TLA+ specifications of the NimConnect backend (`src/backend`, Go), the TLC
configurations that check them on small instances, and theorems checked by
TLAPS. The specifications are written from the source at one commit; line
numbers here and in `PROJECT.json` refer to it. Where a document and the code
disagree the models follow the code, and a run shows the disagreement.

Contents: [the system](#the-system), [the modules](#the-modules),
[how they correspond to the code](#correspondence),
[the runs](#the-runs), [disagreements](#disagreements-between-code-and-documents),
[fairness](#fairness), [proofs](#proofs), [limits](#abstractions-and-limits),
[the plan](#plan).

## The system

NimConnect is a wallet companion: human-readable handles claimed on the Nimiq
chain, public profiles, an inbox for payment requests, friends, encrypted
backup, an authorization service for other applications, and an escrow
marketplace where a handle is sold for NIM. One Go process serves HTTP,
runs background sweeps and keeps its state in Postgres; one Nimiq node is asked
over RPC. The wallet app (`src/src`, Vue) is a client of the HTTP API.

### Components

| component | state it keeps | operations | modelled |
|---|---|---|---|
| Trade lifecycle (`marketplace.go`) | none; the states and the transition table | `canTransitionTo` | `TradeStates` |
| Marketplace store (`marketplace_store.go`) | tables `marketplace_listings`, `marketplace_trades`, `marketplace_nonces` | create a listing, reserve, cancel, expire, transition, attempt markers, consume a nonce | `MarketplaceStore` (whole transactions), `Reservations` (locks, reads and commits) |
| Marketplace handlers (`marketplace_handlers.go`, `_choreography.go`) | none | list, reserve, cancel, submit release, submit claim | `Escrow`, `Reservations` |
| Escrow watcher (`marketplace_escrow_watcher.go`) | none between sweeps | sweep: match deposits, finalise, advance | `Escrow` |
| Ownership watcher (`marketplace_ownership_watcher.go`) | none between sweeps | sweep: compare owner with buyer and seller, walk the state chain, settle or refund | `Escrow` |
| Settlement worker (`marketplace_settlement.go`) | attempt markers on the trade row | `Settle`, `Refund` | `Escrow`, promise in `EscrowPromise` |
| Ledger (`marketplace_ledger.go`) | table `escrow_ledger` | `Append`, `Balance` | `Escrow` |
| Handle registry (`handles_registry.go`, `handles.go`) | map of handle to claim, its copy in table `handle_claims` | `Rebuild`, `persist`, `PurgeHandles`, load, `Resolve` | `HandleRegistry`, `HandleSync` |
| Handle syncer (`handles_sync.go`, `handles_handlers.go`) | completeness flag, time of the last sweep, cache of HTLC creators, a mutex | `Run`, `Sweep`, `ForceSweep`, `Complete`; callers: claim submission, payment resolution, administrator's resync | `HandleSync` (and as one step in `Escrow`) |
| RPC client (`nimiq_rpc.go`) | none | paged history, heights, send | partly: as the calls of the sweeps |
| Marketplace admin page (`marketplace_admin.go`) | none | `isStuckTrade`, held balance | partly: its two definitions |
| Signed intents, escrow wallet setup | none; a key in the node | signature check; unlock | no: without state of their own |
| Authorization store, middleware, handlers (`auth_*.go`) | tables `auth_challenges`, `auth_sessions` | create a challenge, exchange it, resolve and revoke a session, revoke all of a wallet | partly: `AuthSessions` |
| App registry, awards (`app_registry*.go`, `awards*.go`) | tables `auth_apps`, scopes, origins, keys, awards | mirror an application, issue a key, grant an award | partly: the mirror, in `AuthSessions` |
| User sessions (`user_session*.go`) | tokens and spent signatures, in memory | login, resolve, logout | `UserSessions`, `Startup` |
| Inbox (`inbox*.go`; `inbox-import.ts`, `stores/inbox.ts` on the device) | table `inbox_messages`, a mutex per mailbox; the device's items | post, list, delete; poll and import, pay, dismiss | `Inbox`, `InboxDelivery` |
| Friends (`friends_*.go`) | table `friendships` under a partial unique index | request, accept, decline, remove | partly: `Friends` |
| Cloud backup (`backup*.go`) | one file per wallet | get, put | partly: the server's side, `Backup` |
| Published profiles (`profiles.go`) | table `profiles`, a mutex | publish, delete | `Profiles` |
| Caches (`cache.go`, `rates.go`) | last value and its age | get or refresh | no: one mutex around one value |
| Statistics and admin sessions | counters; a cookie | record, login | no: one statement each |
| Startup, migrations, legacy import (`main.go`, `db.go`, `import_legacy.go`) | `schema_migrations`; legacy files | migrate, import, rename | `LegacyImport`, `Startup` |
| Public pages, CORS, logging | none | formatting | no |
| Wallet app (`src/src`) | IndexedDB stores of one user | contacts, buckets, invoices, split bills, sync | no, but for the inbox |
| `profile-client` package | none | `resolveHandleRegistry` and HTTP wrappers | partly: the first is `HandleRegistry!Rebuild` again |

### Interactions

A handle exists only as transactions to the registry address. The *handle
syncer* reads them all every two minutes (and when somebody submits a claim,
resolves a payment or resyncs), attributes each to a wallet - a claim sent
through an HTLC swap contract to the wallet that created the contract - and has
the *registry* rebuild its map from nothing: first claim wins, and an owner's
release at or above the activation height frees the handle.

A sale goes through HTTP and three sweeps that share tables and nothing else.
*Handlers* list a handle and reserve it for a buyer. The *escrow watcher* finds
the buyer's deposit in the escrow account's history, records it with its
height, and once a macro block has passed that height moves the trade on to
`AWAITING_RELEASE`. The *ownership watcher* looks up the current owner of
each such handle in the registry's map; when a final claim belongs to the buyer
it walks the trade along `settlementChain` and has the *settlement worker* pay
the seller; when it belongs to a third party it walks to
`FAILED_AFTER_RELEASE` and has it refund the buyer. The *expiry sweep* returns
unpaid reservations. Seller and buyer may also submit their release or claim
themselves, which moves the trade while the sweeps run.

The other services share the process and the database, not rows. A wallet's
*scoped sessions* come from a challenge it signs for an application, whose
registration an administrator mirrors; a change of owner or scopes ends the
sessions. *User sessions* live in memory and end with the process. The *inbox*
joins two parties: senders post until they have an answer, the recipient's
device polls, imports and only then deletes. *Friends*, *profiles* and *backups*
are documents of a pair or of one wallet that several devices write. At the
*start* the process migrates the database and brings in the files of the
backend before it, and may die anywhere in between.

### What is hard

- money: the send RPC can fail after it has broadcast, and the process can die
  between the broadcast and the row that records it; ledger rows, attempt
  marker and final state are separate transactions;
- three readings of the chain (the registry's last map, a macro height, the
  trade row) are taken at three times and compared, across micro-block
  reorganisations;
- two HTTP requests, two watchers and the expiry sweep change one trade;
- Postgres runs under READ COMMITTED: a count is not protected by the locks on
  the rows it counts;
- all deposits lie in one account;
- the registry's map is swapped before its table is written, and an
  administrator's purge runs outside the syncer's mutex;
- checks and the writes they allow are separate statements: scopes and the
  session inserted for them, a mailbox's counts and its message, a slot's
  timestamp and its rename;
- what stands between two requests differs from store to store: row locks and a
  unique index (friends), a mutex of the process (profiles, inbox), nothing
  (backup);
- everything has to go on by itself after a failed call or a restart.

`PROJECT.json` lists each hazard at the line where it bites, with the
properties that would catch it or the reason why none does yet.

### What makes each component correct

- *Escrow*: at most one transfer per trade; it goes to the seller only if the
  chain finally gave the handle to the buyer, to the buyer only if finally to a
  third party; nothing is paid from another trade's deposit; the ledger agrees
  with what left; what the automation has given up on is visible; what can go on
  does.
- *Store and handlers*: a listing has at most one open trade, is not lost to a
  lapsed one, a paid trade does not lapse, a signed intent counts once, a buyer
  has a bounded number of unpaid reservations.
- *Registry and syncer*: the map is what the claim rules give for the history it
  was built from; the table is the map; both come back to the chain.
- *Authorization*: a challenge buys one session, and is lost only to a failure
  after it was consumed; a live session was issued under the application's
  present owner and scopes.
- *User sessions*: a running server accepts a signature once per window. It does
  so for each spelling of it only.
- *Inbox*: the mailbox stays under its caps; repeated posts get the same answer;
  what was accepted reaches the device or outlives the retention.
- *Friends*: one active edge per pair, agreed to by both, ended by removal only.
- *Backup, profiles*: what was acknowledged is replaced by newer things only.
- *Startup*: no legacy record is lost, and they are imported all or none.

## The modules

    TradeStates          states, table, sequences (no state)
      MarketplaceStore   listings and trades; every store transaction as one step
        Escrow           chain, registry, handlers, sweeps, worker, crashes
          EscrowPromise  (INSTANCE) what the escrow promises, per trade
          EscrowProofs   theorems
          MCEscrow       instances for TLC
        Reservations     handlers and expiry as locks, reads, commits
          ReservationsProofs
          MCReservations
    HandleRegistry       Rebuild, and the claim rules it has to follow
      HandleSync         syncer, its callers, purge, table, crashes
        HandleProofs
        MCHandleSync
    AuthSessions         challenges, sessions, the application's registration
      AuthProofs
      MCAuthSessions
    Friends              the rows of one pair
      FriendsProofs
      MCFriends
    Inbox                the server's mailboxes
      InboxDelivery      with the recipient's device
        InboxProofs
        MCInboxDelivery
    Backup, Profiles     one wallet's slot; one wallet's row
      Documents          both, and the death of the process they live in
        DocumentsProofs
        MCDocuments
    LegacyImport         migrations and import; UserSessions: sessions in memory
      Startup            both in one process that starts, serves and dies
        StartupProofs
        MCStartup

Two levels of detail meet twice. `Escrow` uses each store transaction as one
step; `Reservations` takes the three transactions with more than one lock apart
and its property `StoreTransactions` shows that the tables still change one
whole transaction at a time, so the coarser step is justified. What a
reservation writes is `Reservable /\ WriteReserved` there: the count of unpaid
reservations, which `Escrow` has in the step, may be out of date by then, since
no lock protects what it counts (run `ReservationCapRace`). `Escrow` uses a syncer sweep as one step; `HandleSync`
takes it apart.

Abstract specifications. `EscrowPromise` says what a buyer and a seller rely
on: unpaid reservations lapse or are paid, held money is promised to one side
for good, leaves at most once and in that direction only, and a trade is closed
only after it left. `Escrow` implements it under the mapping `PhaseOf`/`MovedTo`
(property `ImplementsPromise`, theorem `EscrowKeepsPromise`).
`HandleRegistry!Rightful` is the reference definition of ownership: no order of
processing, no contracts, just which claim is the first after the last valid
release; `RebuildIsRightful` compares `Rebuild` with it over all short histories, theorem
`RulesFollowed` over all; `MapIsRightful` compares the syncer's map.

## Correspondence

`PROJECT.json` "map" gives the lines of each definition. The state:

| variable | in the code |
|---|---|
| `listings`, `trades` | rows of the two tables; `payoutTx`, `refundTx`, `depositHeight` are hashes and heights reduced to whether they are set, or to the height |
| `ledger` | rows of `escrow_ledger` per trade and entry type |
| `reserving` | reserve handlers between `ReserveListing` and their `Transition` to `AWAITING_DEPOSIT` |
| `ew`, `ow` | local variables and position of a sweep in progress; idle between ticks |
| `registry`, `handles` | `HandleRegistry.handles` |
| `table` | `handle_claims` |
| `creators`, `complete`, `recent` | fields of `HandleSyncer`; `recent` is "less than `sweepCooldown` ago" |
| `head`, `final`, `height`, `macro`, `deposits`, `claims`, `chain`, `sends` | the chain |
| `req`, `sweep` | an HTTP request, the expiry sweep, and the locks that follow from where they are |
| `due` | trades whose `deposit_deadline` has passed |
| `app`, `challenges`, `sessions` | `auth_apps` with `auth_app_scopes`, `auth_challenges`, `auth_sessions`; a session's token is its number |
| `rows` | `friendships` of one pair |
| `stored`, `present`, `old`, `stale`, `post` | messages by id with their letter, those in `inbox_messages`, those past the retention; letters past the send window; posts in progress |
| `items`, `import`, `pay` | status of the device's `inboxItems`; `importEnvelopes` and `pay` in progress, with the copies they hold over an await |
| `slot`, `tmp`, `file`, `put` | the names `<wallet>.json` and `.tmp`, the files they stand for, requests with the file they hold open |
| `profile`, `change` | the row of `profiles`, requests in progress |
| `spent`, `tokens`, `login`, `clock` | `UserSessions.used`, whose key is a hash of the request's string, hence indexed by spelling; `.tokens`; logins in progress; the time |
| `proc`, `applied`, `files`, `corrupt`, `rows`, `fresh`, `reading` | where `main` is, `schema_migrations`, the legacy files, the rows that came from them, whether the tables have others, the file names in `ImportLegacyIfEmpty` |
| `crossed`, `lost`, `agreed`, `raced`, `answers`, `lapsed`, `acked`, `accepted`, `removed`, `imported`, a session's `terms` and `raced` | history variables and fields: what happened earlier. No guard reads them, but for the bound on `accepted` |
| `origin`, `swapped`, `exact` | history variables: which nonce inserted a trade; which transactions the map was built from and whether all creator lookups behind it succeeded. No guard reads them |

The actions:

| code | actions |
|---|---|
| `EscrowWatcher.Sweep` | `EWFetch` (history), `EWMacro` (height), then per transaction `EWSkip`, `EWMatch` and `EWRecord` or `EWRaced`; `EWMatchDone`; per trade `EWFinalize`, `EWFinalizeDone`, `EWAdvance`; `EWEnd`. A failed call or transaction is `EWAbort`, a failed query the code treats as an empty result `EWUnread` |
| `OwnershipWatcher.Sweep` | `OWStart` (the height and the trades of each swept state), per trade `OWBuyerOwns`, `OWOtherOwns` or `OWSkip`; `OWEnd`, `OWUnread`, `OWGiveUp` |
| `walkChainTo` | `WalkRead`, `WalkHop`, `HopRaced`, `WalkDone` |
| `walkChainToFailure` | `FailRead`, `FailHop`, `FailAfterRelease`, then `BeginRefund` |
| `SettlementWorker.Settle` | `MarkPayout`, `SendPayout`, `AppendPayout`, `AppendFee`, `FinishSettle` |
| `SettlementWorker.Refund` | `MarkRefund`, `SendRefund`, `AppendRefund`, `FinishRefund`; a failed statement of either is `OWAbort` |
| HTTP handlers | `List`, `Reserve` + `FinishReserve` (two transactions), `Cancel`, `SubmitRelease`, `SubmitClaim` |
| `ExpireStaleReservations` | `Expire` in `Escrow`; `SweepQuery`, `SweepTrade`, `SweepCommit`, `SweepFail`, `SweepEnd` in `Reservations` |
| `HandleSyncer.sweep` | `RegistrySync` in `Escrow`; `Lock`, `Fetch` or `FetchFails`, `Swap`, `Persist` in `HandleSync` |
| callers of the syncer | `Start` (tick, claim submission, payment resolution, resync), `Purge`, `Check`, `Resolve` |
| `createAuthChallengeHandler` | `Ask` (validation), `CreateChallenge` (insert) |
| `createAuthSessionHandler` | `GetChallenge`, `ConsumeChallenge`, `ValidateScopes`, `InsertSession` |
| revocation handlers | `ResolveSession`, then `RevokeSession` or `RevokeAllSessions` |
| `UpsertApp` | `UpsertRead`, `UpsertWrite` (takes the locks), `UpsertCommit` |
| `SendRequest`, `Remove` | `FindPair`, `FindAgain` after a wait for the row's lock, then `InsertRequest`, `Reopen` or `Remove` |
| `Accept`, `Decline` | `FindRequest`, then `Accept` or `Decline` |
| `InboxStore.put` | `Arrive`, `Lock`, `Look`, `Count`, `Insert`, `Lookup`; an error is `Fail`, a lost answer `InsertUnanswered` |
| `refresh`, `importEnvelopes` | `Refresh`; per message `Take`, `PutReminder` or `PutNew`, `DeleteRemote` |
| `pay`, `dismiss` | `Pay`, `Paid` or `PayFails`; `Dismiss` |
| `BackupStore.put` | `Arrive`, `Compare`, `Open`, `Write`, `Rename`, `Fail` |
| `ProfileStore.put`, `delete` | `Submit`, `LockStore`, `ReadRow`, `WriteRow`, `ChangeFails` |
| `userSessionLoginHandler` | `Login` (window and signature, of the decoded string), `ConsumeSignature` (of the string as it came), `Issue` or `IssueFails` |
| `userSessionLogoutHandler` | `SessionFor`, `Revoke` |
| `Migrate`, `ImportLegacyIfEmpty` | `MigrateOne`, `MigrateDone`; `CheckEmpty`, `ReadSources`, `ImportSources` or `ImportFails`, `RenameSource`, `RenameDone` |
| restart | `Crash`, `ResCrash`, `Restart`, `Die` with `Start`; on the device `CloseApp` |

A send (`SendPayout`, `SendRefund`) has three outcomes: it succeeds, it fails
and nothing is broadcast, or it returns an error although it was broadcast.
`walkChainTo` and the submissions re-read the trade inside `Transition`, whose
row lock makes the compare-and-set one step. Whatever lies between two
transactions or calls is a separate step.

## The runs

Twelve runs: eleven that pass and one that shows a statement the code does not
keep. Every passing run ends in less than two and a half minutes with two
workers. Symmetry is used in safety runs only, over sets of identifiers that no
definition orders. `CHECK_DEADLOCK FALSE` appears where the system really stops
in the bounded world: closed trades and no blocks left (`Escrow*`), every nonce
or challenge used (`Reservation*`, `AuthGrants`), no id left for another row or
message (`FriendGraph`, `Inbox*`).
Elsewhere deadlock is checked. That requests do not wait for each other for ever
is a property of its own, `RequestsFinish` and `RequestsEnd`.

| run | question | instance | states |
|---|---|---|---|
| `EscrowCore` | one trade, everything may interleave and two things may fail | 1 handle, 3 wallets, 1 trade, 3 blocks, deposits of a right and a wrong amount, 2 faults | 362 000 |
| `EscrowPool` | two trades share the account, a handle is reserved again after a lapse | 2 handles, 2 wallets, 2 trades, 2 deposits | 3 070 000 |
| `EscrowReorg` | a reorganisation, HTLC senders, failing creator lookups | 1 handle, 2 wallets, 1 reorganisation, 1 fault | 2 470 000 |
| `EscrowLive` | the sweeps carry on after one failure; a decision is carried out | 1 handle, 2 wallets, 1 fault, fair | 181 000 |
| `ReservationRaces` | two requests, the expiry sweep, the watchers, crashes | 2 handles, 2 trades, 2 requests, 2 nonces, a cap of 1, 1 fault, fair | 573 000 |
| `HandleHeals` | Rebuild against the claim rules over all histories of 2 blocks of 2 actions; purge, payment resolution and periodic sweep | 2 wallets, 1 contract, 1 request, 2 blocks of 1 action, activation in the second, 1 reorganisation, 1 fault, fair | 526 000 |
| `AuthGrants` | exchange, revocation and mirror against each other | 1 wallet, 1 scope, 2 owners, 2 challenges, 2 requests, 1 fault | 1 390 000 |
| `FriendGraph` | both sides of a pair at once | 3 requests, 3 rows, fair | 42 000 |
| `InboxDelivery` | posts, repeated posts and a device | a request, its reminder, the nonce reused for another mailbox; 2 posts, 1 fault | 1 030 000 |
| `Documents` | overlapping uploads, publications, deletions, and restarts | 3 backups of 2 times and 2 lengths, 2 uploads; 2 publications, 1 deletion, 2 changes; any number of failures and restarts | 787 000 |
| `Startup` | restarts during start, import and service | 2 migrations, 2 files, 2 signatures, one of them in 2 spellings, 2 logins, a clock of 3 windows; any number of restarts | 3 270 000 |

Why the bounds are enough for these questions:

- *Wallets.* A sale has three roles: seller, buyer, a third party. Nothing in
  the code keeps a wallet from reserving its own listing, so two wallets already
  reach payment and refund; three are used where ownership is the question
  (`EscrowCore`). In `EscrowReorg` the third party is the HTLC contract. In
  `ReservationRaces` a wallet is only compared with the parties of a trade, and
  two requests of one wallet contend for the same rows as those of two.
- *Blocks.* A sale takes a deposit, a release and a claim, so three blocks reach
  every outcome; the two questions of `EscrowPool` are decided by two deposits.
  Blocks without a transaction of interest are stuttering.
- *Faults.* The worst known chains are a failed send followed by a crash: two.
  Liveness needs one, since it may strike anywhere. `ReservationRaces` has one
  fault and two handles: a rollback leaves nothing behind, but requests for two
  handles of one buyer meet only in the count.
- *Two trades, two requests, two actions in a block* are the smallest numbers at
  which one can disturb the other. Two nonces make a reservation and a
  cancellation or second reservation, and a retry of either.
- *Documents.* Two uploads suffice to share a temporary file; backups of the same
  time and of different lengths make the tie and the torn file. A profile, its
  deletion and a newer profile are the orders two requests can arrive in.
- *Friends.* Two requests race and a third changes the row they wait for.
- *Startup.* One of the files goes to a table the emptiness check looks at and
  whose rows clients remove, one to neither. A clock of three windows lets the
  memory of a spelling expire and the same string be used again; one of the two
  signatures is signed ahead of the server's clock, and is sent in two spellings.
- *Trade ids* are random in the code and never run out: in `Reservations` a
  reservation arrives only while an id is left for it (`IdsLeft`).

What the properties say:

- `AtMostOneTransfer`, `LedgerReconciles`, `UnfinishedTransferIsFlagged`: no
  crash, ambiguous send or raced handler sends twice, books money that stayed,
  or hides a transfer whose trade was not closed. They follow from `MoneyInv`,
  which is proved.
- `PayoutFollowsOwnership`, `RefundFollowsOwnership`: the decision, made from a
  registry map and a height read at other times, agrees with the chain. They
  hold without reorganisations and with working creator lookups (`EscrowCore`).
  `EscrowLookupFailure` shows that the second condition is needed. So is the
  first: the registry's map may be from before a reorganisation and the macro
  height from after it.
- `FundedIsFinal`: what is treated as paid is an exact, final deposit of the
  buyer. Holds without reorganisation; see `EscrowReorgedDeposit`.
- `EscrowSolvent`: the account holds the price of every trade counted as held.
- `ListingExclusive`: while a trade is open its listing is reserved, for it alone.
- `ImplementsPromise`: the refinement.
- `FundedMovesOn`, `ReservationEnds`, `BuyerOwnershipIsNoticed`: after a failure
  a later sweep does the work. `DecisionIsCarriedOut` holds only as long as
  nothing fails, see `EscrowAbandoned`.
- `OneTradePerNonce`, `NoOrphanReservation`, `PaidNeverLapses`,
  `StoreTransactions`, `RequestsFinish`: the same store one level down, with its
  locks.
- `RebuildIsRightful`, `MapIsRightful`, `TableFollowsMap`, `RegistryHeals`: the
  registry.
- `ChallengeSpentOnce`: the consuming `UPDATE` is what makes two exchanges of one
  challenge one session. `ConsentFollowsApp`: a live session has the terms the
  application has; exempt are sessions whose insert met a change that was being
  committed, and everything after two mirrors crossed, since neither is locked
  against in the code.
- `OneMutualEdge`, `OnlyRemovalEnds`, `RequestsEnd`: the unique index stands where
  there is no row to lock, the row lock where there is one.
- `MailboxBounds`, `SendsAgree`: counts and insert under one mutex; the same key
  gets the same id as long as its message is there, also when it reaches another
  mailbox or the first answer was lost. `NoMessageLost`: import before delete.
- `BackupIsNewest`: write and rename keep the newest acknowledged backup as long
  as uploads do not overlap. `ProfileOnlyNewer`: comparison and write are one
  under the mutex.
- `ReplaysAreApart`: uses of one and the same string are accepted more than a
  window apart as long as the server runs. It is narrower than the documented
  promise, which is about the signature: see `RespelledReplay` and
  `SignatureReplay`. `LegacyKept`: import before rename.

For each property of a passing run `PROJECT.json` names a mutant: a definition
replaced by the form a plausible bug would give it (a marker that is not
checked, a hop without compare-and-set, a sweep that starts at the wrong state,
a flag that survives a failure). Each mutant violates its property under the
run's own configuration, so no property holds for lack of behaviour.

## Disagreements between code and documents

Each of these is a property that states what a comment, a document or a message
says, and a configuration under which TLC shows the code doing otherwise. They
are consequences of steps falling between other steps, or of a row that one step
leaves behind. `EscrowAbandoned` is among the runs of `PROJECT.json`; the others
are run by hand, with `tlc -config <name>.cfg <module>`.

| configuration (module), property | what is said | what the code does |
|---|---|---|
| `EscrowAbandoned` (`MCEscrow`), `AbandonedIsFlagged` | a stuck trade is visible | one whose process died between the decision and the marker is visited by no sweep and not flagged |
| `EscrowReorgedDeposit` (`MCEscrow`), `FundedIsFinal` | only macro finality moves a trade to `FUNDED` (`marketplace_escrow_watcher.go:39`) | the *recorded height* is compared with the macro height; the transaction may have been replaced since |
| `EscrowLookupFailure` (`MCEscrow`), `RefundFollowsOwnership` | a claim through a swap contract counts for its wallet (`handles_sync.go:19`) | when the creator lookup fails the contract counts as a third party until the next sync, and the sweep refunds |
| `ReservationCapRace` (`MCReservations`), `UnpaidCap` | at most three unpaid reservations per buyer (`docs/escrow-architecture.md:270`) | two concurrent requests for two handles both count before either commits |
| `ReservationSold` (`MCReservations`), `ReservedMeansOpenTrade` | the listing is reserved by an open trade (`marketplace_store.go:126`) | the row stays `reserved` after settlement or refund; the status `sold` is never written |
| `InheritedConsent` (`MCAuthSessions`), `NoInheritedConsent` | an application that changed hands or gained scopes never inherits consent (`app_registry.go:87`) | a challenge signed before the change is exchanged after it |
| `RespelledReplay` (`MCStartup`), `ReplaysAreRefused` | a replay within the window returns 401 (`docs/api/friends.md:53`) | verification trims, strips `0x` and ignores the case of the digits (`auth.go:23-27`), the memory of spent signatures hashes the string as it came (`user_session.go:68`): a second spelling is accepted within the window |
| `SignatureReplay` (`MCStartup`), `OneTokenPerSignature` | each signature mints exactly one token (`docs/api/friends.md:52-53`) | also without a second spelling: the memory of a use is shorter than the life of a signature from a clock ahead of the server's, or of a request held up after the check of its timestamp; a restart forgets every use |
| `BackupRace` (`MCDocuments`), `NeverOlder` | an older backup than the stored one is a conflict (`docs/plans/2026-07-08-encrypted-backup-and-cloud-sync.md:438`) | two uploads both compare before either renames |
| `BackupTorn` (`MCDocuments`), `SlotStaysReadable` | a slot can be read and replaced | two uploads write one temporary file; the end of the longer one is left behind the shorter, `Get` fails from then on, and `put` calls `Get` |
| `InboxPaid` (`MCInboxDelivery`), `PaidStaysPaid` | paid stays paid (`inbox-import.ts:60`) | an import that copied the item before it was paid writes the copy back |

Read in the code and in the models, without a run of their own:

- a reservation whose exact deposit is already final on the chain expires if the
  deposit sweep has not seen it yet (`marketplace_store.go:313` looks at the
  recorded hash);
- between an administrator's purge and its sweep a payment is answered with 404
  for an owned handle, since the completeness flag still stands
  (`handles_handlers.go:260`);
- a nonce its sender reuses for another recipient is answered 200 with the id of
  the first recipient's message, and nothing is delivered
  (`inbox_store.go:112`);
- a reminder whose deletion failed is imported and counted again at the next
  poll: only messages that became items of their own are recognised by id
  (`inbox-import.ts:46`, comment at 33);
- after a profile was deleted an older publication of it is accepted again,
  since the timestamp went with the row (`profiles.go:223`);
- if the only files were the ledger's or the nonces', or all rows the emptiness
  check looks at were removed, a crash between the import's commit and a rename
  makes the next start import again: rows come back, or a duplicate key stops
  every further start (`import_legacy.go:117`);
- revoking all sessions of a wallet does not reach an exchange in progress
  (`auth_store.go:412`);
- `docs/api/handle-claim-protocol.md:41-42` says that a claimed handle is
  permanent; `Rebuild` frees it on its owner's release from the activation
  height on.

## Fairness

- `runSweepLoop` (`main.go:57-68`, started at `main.go:213-238`) and
  `HandleSyncer.Run` (`handles_sync.go:160-174`) run a sweep every two minutes
  until the process exits: weak fairness of `EWStep`, `OWStep`, `RegistrySync`,
  `ExpirySweep` and `Start(Runner, "sync")`. Within a sweep a goroutine that can
  take its next step does.
- Macro blocks keep coming: weak fairness of `MacroBlock`. Nobody is obliged to
  send, claim, release, list, reserve or cancel.
- Time passes: `Expire` and `Elapse` (the deadline), `Cool` (the cooldown).
- `FinishReserve` and `Serve`: a handler goes on unless it crashes.
- `HandleSyncer.mu` is a `sync.Mutex`, which hands over to a waiter after one
  millisecond: strong fairness of the runner's `Lock`, which is enabled again and
  again but not continuously.
- `Friends`: a request that has begun goes on when Postgres answers (weak fairness
  of `Proceed`), and Postgres grants a row lock to its waiters in turn (strong
  fairness of `FindAgain`).
- The other modules check safety only: their requests wait for at most one mutex
  each, and nothing in them is promised to happen.
- No fairness is assumed of any failure, crash or reorganisation; their number
  is bounded, so "after the last failure" exists.

A crash leaves the process restarted: everything in memory is lost, and the
sweeps start again at their next tick.

## Proofs

Eight modules of theorems, for any values of the constants within the named
assumptions: any sets of wallets, handles, trades, requests and ids, any prices,
caps, windows and amounts, any number of blocks, reorganisations and faults. The
bounds of the models are parameters, so a theorem covers every value of them.
Every invariant and action property the passing runs check is a theorem; what only
the model checker shows is liveness. A few theorems are of statements no run has
among its properties, because they say what is left of a property that fails: of the
account and of finality when blocks are replaced, of the cap that is counted without
a lock.

| theorem (module) | statement |
|---|---|
| `TypeCorrect` (`EscrowProofs`) | `Spec => []TypeOK` |
| `MoneyCorrect` | `Spec => []MoneyInv`, the inductive invariant of the transfers |
| `NeverSentTwice`, `LedgerCorrect`, `UnfinishedShows` | `AtMostOneTransfer`, `LedgerReconciles`, `UnfinishedTransferIsFlagged` |
| `ListingStaysExclusive` | `ListingExclusive` |
| `EscrowKeepsPromise` | `Spec => ImplementsPromise` |
| `EvidenceCorrect` | `Spec => []EvidenceInv`, the inductive invariant of deposits and decisions |
| `FundedFinally`, `PayoutsFollow` | `FundedIsFinal`, `PayoutFollowsOwnership`, as long as `reorgs = 0` |
| `RefundsFollow` | `RefundFollowsOwnership`, as long as `reorgs = 0` and unless `LookupMayFail` |
| `AlwaysSolvent` | `EscrowSolvent`, as long as `reorgs = 0` |
| `AccountIsCovered`, `GapAlwaysExplained` | `AccountCovers`, `GapIsExplained`: what the account may lack after any reorganisations and crashes |
| `HeightsAreFinal` | `Spec => [](MacroInv /\ OwnerInv)`, the part of the evidence that no reorganisation takes |
| `FundedUnlessReplaced`, `FinalIsNeverUndone`, `OnlyStaleMapsMislead` | `FundedOrReplaced`, and the action properties `UndoneOnlyBeforeFinal`, `FreshMapDecidesFinally`: the only ways in which replaced blocks mislead a sweep |
| `ResCorrect` (`ReservationsProofs`) | `ResSpec => []ResInv`, the inductive invariant |
| `ReservationTypes`, `OneOpenTrade`, `NonceBuysOne`, `NoOrphans` | `ReservationTypeOK`, `ListingExclusive`, `OneTradePerNonce`, `NoOrphanReservation` |
| `PaidStays`, `WholeTransactions` | the action properties `PaidNeverLapses` and `StoreTransactions` |
| `CapOvershoot`, `CapHoldsAlone` | the cap of `UnpaidCap` is exceeded by at most the number of requests in progress less one, and not at all with one request |
| `HandleTradedOnce` | `TradedOnce`: of the trades of a handle all but one have lapsed, and the listing stays reserved for that one |
| `RulesFollowed` (`HandleProofs`) | `RebuildFollowsRules(txs)` for every finite history and every set of creators in the cache |
| `SyncCorrect` | `HandleSpec => []SyncInv`, the inductive invariant |
| `HandleTypes`, `MapFollowsRules`, `TableKept` | `HandleTypeOK`, `MapIsRightful`, `TableFollowsMap` |
| `RebuildRightful` | `RebuildIsRightful`, from `RulesFollowed` |
| `AuthCorrect` (`AuthProofs`) | `Spec => []AuthInv`, the inductive invariant |
| `AuthTypes`, `ChallengeBuysOne`, `ConsentFollows` | `AuthTypeOK`, `ChallengeSpentOnce`, `ConsentFollowsApp` |
| `EndedForGood` | the action property `EndedStaysEnded`: neither an ended session nor the challenge that bought it opens one again |
| `FriendsCorrect` (`FriendsProofs`) | `Spec => []FriendInv`, the inductive invariant |
| `OneEdge`, `RemovalOnlyEnds` | `OneMutualEdge`, and the action property `OnlyRemovalEnds` |
| `DeliveryCorrect` (`InboxProofs`) | `Spec => []DeliveryInv`, the inductive invariant |
| `DeliveryTypes`, `BoundsKept`, `RepeatsAgree`, `NothingLost` | `DeliveryTypeOK`, `MailboxBounds`, `SendsAgree`, `NoMessageLost` |
| `ProfileCorrect`, `BackupCorrect` (`DocumentsProofs`) | `DocumentsSpec => []ProfileInv`, `[]BackupInv`, the inductive invariants |
| `NewerOnly`, `NewestBackup` | the action property `ProfileOnlyNewer`, and `BackupIsNewest` |
| `ImportCorrect`, `SessionsCorrect` (`StartupProofs`) | `StartupSpec => []ImportInv`, `[]SessionInv`, the inductive invariants |
| `NothingLegacyLost`, `ReplaysApart`, `StartupTypes` | `LegacyKept`, `ReplaysAreApart`, `StartupTypeOK` |

### Assumptions

All are named, in the module that declares the constant, and evaluated by the
runs. The values for an empty column (`None`, `NoProfile`, `Unspent`) are not
values a column may have; `"none"` is not an address (the registry's map without an entry). HTLC users are
wallets and the contract is not one; a contract has one creator, who is a wallet
and not a contract. The fee is at most the price. Bounds, caps, windows and
amounts are natural numbers. Finite are the trade ids (16 random bytes each), the challenges, the uploads of one slot,
the legacy files and the two wallets of a pair, nothing else: wallets, handles,
requests and posts may be as many as one likes. Only the theorems
about the account use that the trade ids are finite, for a sum over them, and the two about
the cap, which count trades and assume of the requests in progress that they are finite
(and some).
`RulesFollowed` assumes of a history that it is finite and has one transaction
at a place; both are invariants of `HandleSync` (`HistoryInv`).

### Why the invariants are what they are

*Money* (`MoneyInv`). `AtMostOneTransfer` is not inductive: that a send is the
first one depends on where the worker stands and on what the row says. `RowInv`
says what row, account and ledger of a trade may look like together at rest:
without an attempt marker nothing was sent, with a marker the trade is on that
side of the decision and at most one transfer left, ledger rows exist only for a
transfer that left. `WorkerInv` says for each position in `Settle` and `Refund`
how far the three are at that moment. The marker is written only if it was not
set, by the worker only; no other step leaves the marked side; so each step of
the worker moves one component to the next allowed combination.

*Listings* (`ExclusiveInv`). An open trade is about a handle, so that releasing
one trade's listing cannot free another's.

*Deposits and decisions* (`EvidenceInv`). The sweeps act on history they fetched
earlier: transactions, a macro height, the registry's map. The invariant says
that this history has not been undone: what `EscrowWatcher` holds is on the chain,
a matched transaction still pays for its trade, a trade past the deposit was paid
at the height its row has, a wallet the registry names has a winning claim on the
chain at the height the registry has, and a macro height once read is not above
today's. From the last two, what the ownership sweep decides on is a final claim,
and finality is not taken back; so it still holds whenever the worker gets to
send. All of it is under `reorgs = 0`: a replaced block takes from the chain what a
sweep may already have acted on, which is the finding of `EscrowReorgedDeposit`
for deposits; `EscrowReorg` shows what holds nevertheless. A lookup that fails
makes the contract the owner, and then the
refund is for a claim of nobody's (`EscrowLookupFailure`).

*Replaced blocks* (`MacroInv`, `OwnerInv`). Part of the evidence needs no `reorgs = 0`: a
reorganisation stops at the last macro block, so a macro height once read, and the
height in the row of a funded trade, stay at or below today's, and the owners the
chain has rest on claims that are on it. Two things follow. A trade from `FUNDED` on has a
final deposit unless the one at its row's height was replaced
(`FundedUnlessReplaced`), and a paid trade loses its deposit in no other way
than a reorganisation before finality, or by being recorded from transactions
fetched before one (`FinalIsNeverUndone`). And a decision of the ownership sweep on
a map entry the chain still has is on a final claim (`OnlyStaleMapsMislead`); without
that condition the model checker refutes it, the map being as old as the last sync.

*The pooled account* (`AccountIsCovered`). `EachTradeIsCovered`: what a trade has taken
out, is still owed and leaves as a fee is at most one price, by `MoneyInv`, and nothing
unless it was paid. `DepositsCover` adds that up: a deposit has one reference, so the
deposits of the trades in a set grow by a price when a paid trade is added whose deposit
is on the chain. The paid trades without one are `Undone`, the only thing the
account may lack for what it owes (`AccountCovers`). Without reorganisations there are none
(`NoneUndone`), which is `AlwaysSolvent`. The admin page compares with more than
is owed: its expected balance (`marketplace_admin.go:53-63`) counts stuck trades as held, whose
transfer may have left. `GapIsExplained` bounds its "gap below expected" by a price for
each stuck trade and one for each undone trade. The two are added and not united: a
trade whose deposit was replaced and whose refund was sent costs twice, which the model
checker showed of an earlier form. `EscrowBalance` folds over sets with
`CHOOSE`; that this is a sum, in whatever order (`SummedIsSum`), and that it exists
(`SumsExist`), is shown by going from smaller subsets to larger ones (`Subsets`).

*Refinement.* Each action of `Escrow` maps to one step of `EscrowPromise` or to a
stutter, using `TypeOK` and `MoneyInv` in the state before it: without `MoneyInv`
the send could be a second transfer, and the closing could precede it.

*Row locks* (`ResInv`). Between a `SELECT ... FOR UPDATE` and the commit a request
acts on what it has read. The invariant says that this still holds while it
keeps the lock (a listing locked for a reservation is active, a trade locked for
a release is still unpaid), and that a row has one lock at a time; then the
commit is the whole transaction (`StoreChange`). A nonce is with one request or
with one trade. The count of unpaid reservations has no such conjunct, because
no lock makes it hold: with the count among the conditions of the transaction
`StoreTransactions` is false for two handles, which is the run
`ReservationCapRace` again. What does hold is a bound (`OvershootIsBounded`): a buyer's unpaid
reservations and the requests past the count together are at most the cap, less
one, and all requests, since the last one to pass saw a buyer below the cap; an
insertion only moves one from the second number to the first. With two requests the
run reaches the bound. `TradedOnce` is stronger than `ListingExclusive`, for
it includes the trades that have ended: no transaction sets a reserved listing back
but a release, and a release is of the one trade of its handle.

*Rebuild.* `Rebuild` is a recursion over the sorted history and `Rightful` a
definition without an order. `Replayed` names the function the recursion
defines; that it exists for every length, and everything said of all its
prefixes, is shown by counting up: a property of the empty prefix that goes from
each prefix to the next holds of all, since a shortest counterexample would have
a predecessor. `Tally` is that property: after `n` transactions the map holds
exactly the accepted claims among the first `n` that were not given up among
them. Hence a claim is accepted if and only if no accepted claim before it still
stands (`AcceptedWins`), and since a claim depends only on claims before it, one
set at most is like that (`WinnersAre`, by the earliest claim on which two would
differ): the one `Rightful` speaks of. `OrdersAreOrdered` shows that a reply that
is not refused as ambiguous has only one order after the sort, the chain's.

*Syncer* (`SyncInv`). One goroutine is between fetch and the end of persist, the
order in its hands is the chain's, and the map it has swapped in is still what it
is about to write, unless a purge came in between, whose resync is then pending.
`ServedInv` is the pair of properties
without the restriction to moments outside a sweep.

*Sessions* (`AuthInv`). A used challenge is with one session, or with one request
on its way to one, or lost to a failure: `UPDATE ... WHERE used_at IS NULL` is what
keeps the three apart. For consent: of the mirrors one holds the application's
row, and it is about to revoke every live session that did not itself meet the
change (`HitsClean`). That an ended session stays so (`EndedForGood`) needs that
rows are inserted in order (`TokensInOrder`), so that no insert meets one that is there,
and for its challenge that one session was bought with it.

*Friends* (`FriendInv`). What was read under the row lock still holds when it is
written to; a pending row has the agreement of its sender, an accepted one of
both; the partial unique index is the conjunct `OneActive`.

*Inbox* (`DeliveryInv`). The post that holds the mailbox's mutex has found room
there (`CountedHolds`). The stored message is the last of its sender and nonce,
so a repeated post finds it. The device knows ids of messages only and deletes
remotely only what it has (`DeviceKnows`).

*Documents.* For the profile: what was compared under the mutex is so at the
write. For the backup nothing holds once two uploads overlap, as the run
`BackupTorn` shows; as long as none have (`~raced`), one request is between
comparison and rename, has the temporary file to itself, and brings a newer
document than the slot's (`Alone`).

*Startup.* A file is renamed only when the transaction with its rows was
committed, and that transaction was of all files or of those left after one that
was (`ImportInv`). The last use of a string is remembered or is more than a window
ago (`SpentIsLast`). Of two spellings of one signature neither is remembered for
the other, so the theorems say nothing across spellings.

### Only model-checked

- Liveness: `FundedMovesOn`, `ReservationEnds`, `BuyerOwnershipIsNoticed`,
  `DecisionIsCarriedOut`, `RequestsFinish`, `RegistryHeals`, `RequestsEnd`. The
  prover has no rules for fairness and `ENABLED`.

## Abstractions and limits

- The inputs of handlers are requests that pass decoding, field validation and
  the signature check; what a signed intent says is its operation, handle, trade
  and nonce. In `UserSessions` an input is the string a signature is spelled as,
  since there the code treats the string and what it decodes to differently.
- Three handlers take consecutive steps as one where no property tells them
  apart: `Escrow.List` (registry, nonce, insert), `AuthSessions.UpsertRead` (owner,
  then scopes), and `ConsumeSignature` and `Issue` (which read the clock twice).
- All listings have one price and one fee. Deposits have one of a few amounts.
- An address normalises to a wallet; a hash is whether it is set. The escrow
  account has one incoming transaction per deposit and its node executes each
  send it accepted.
- A release transaction counts only from the configured activation height
  (`main.go:35-47`; the default is never). `Escrow` models a configuration in
  which it is active; `HandleRegistry` has it as the constant `Activation`.
- `Fetch` takes the history in one piece; the client reads it in pages.
- Balances from other sources and the network fee of a transfer are left out.
- `AuthSessions` has one application; challenges and sessions of others never
  meet in a statement. A session's scopes are part of its challenge.
- `Friends` has one pair: every query is by pair or by id. The hourly limit of
  requests is left out.
- `Inbox` and `InboxDelivery`: posts are valid; a mailbox is listed by its
  recipient only; messages the client does not know are left out.
- `Documents` has one wallet: stores share a mutex at most, and files nothing. A
  write is one call that leaves the content of the longer document behind the
  shorter one; a reader of the slot sees a whole call.
- `Startup`: the clock advances in units in which the window is one or more.
- A statement that Postgres executes while the process dies counts as executed
  before or not at all.
- One backend process. `Escrow` lets each kind of sweep run once at a time,
  which is what its loop does.
- `Crash` restarts at once; how long the process is down makes no difference to
  steps that are not taken.

Not modelled: the components marked so above. Signed intents, wallet setup,
pages, caches, statistics and logging have no protocol of their own: each
operation is one statement or one step under one mutex. Awards and API keys are
single statements. Two processes at once are left out although some of the code
(the unique indexes, the advisory lock around the migrations) allows for them,
because the rest (mutexes, user sessions, sweeps) does not and the deployment
runs one.

## Plan

All modules planned for the backend are there, in the order in which they were
written: the escrow with its proofs, the reservations, the registry, the
sessions, the inbox, the friends, the documents, the startup. Worth adding to
them:

1. the history read page by page while it grows or is replaced, implementing the
   `Fetch` of `HandleSync`;
2. the wallet app's stores: invoice status against the chain, splitting a bill.

Proofs still worth having: those of these two modules.
