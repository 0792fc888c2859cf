# TLA+ verification of the banking service

This directory holds a TLA+ model of the banking service, the TLC runs that
check it on small instances, and TLAPS proofs of its main properties for every
size. The reference is the code; file and line references are to the repository.

## 1. The system

Users sign up, open one account per currency and transfer money. Two servers
share one Postgres database: a Gin HTTP server (`api/`) with accounts,
transfers and sessions, and a gRPC server with a gateway (`gapi/`) with users
and sign-in. Every request runs in a goroutine of its own. The servers keep no
state between requests: all of it is in Postgres, and in the tokens and
responses that clients hold.

| Component | State | Operations | Hard behaviour | What makes it correct |
| --- | --- | --- | --- | --- |
| Transfer store, `db/sqlc/store.go` | `accounts.balance`, `transfers`, `entries`, `idempotency_keys`; open transactions with their row locks | `TransferTx`, `IdempotentTransferTx` (each 5 to 7 statements in one transaction) | row locks and the unique index make calls wait; any statement, the COMMIT, the connection, the server or Postgres may fail | transfers whole or absent, balances match entries and never go below zero, one transfer per key, no deadlock, errors that tell the truth |
| Transfer API, `api/transfer.go`, `api/middleware.go` | the request in progress | `POST /transfers` | clients retry, also concurrently and with changed parameters; account reads and the replay run outside of the transaction | a status is true of what happened to the money |
| Sessions, `api/user.go`, `api/token.go`, `api/logout.go`, `gapi/rpc_login_user.go`, `token/` | `sessions`; tokens in clients' hands; the clock | sign in, renew, sign out, sign out everywhere | no transaction around a handler, tokens and sessions expire between two readings of the clock, tokens cannot be recalled | only open sessions are renewed, a sign-out holds |
| Accounts, `api/account.go` | `accounts`, the sequence of its ids | create, get, list by page | concurrent creation, lost answers, int32 page arithmetic (`api/account.go:95`) | one account per owner and currency, only own accounts are shown, a client that lists sees all of them |
| Users, `api/user.go`, `gapi/rpc_*_user.go` | `users` | register, update some columns, check a password | two unique indexes; concurrent partial updates; a sign-in racing a new password; statements that run after their client was told 500 | no update undoes another one's column or an update that was confirmed before it came, a sign-in goes by the current password |
| Health and startup, `main.go`, `util/config.go`, `health/`, `eks/deployment.yaml` | `schema_migrations`, the process and its two servers, the probes' counters | load the configuration, migrate, serve; live, ready | replicas migrate together; a process dies or the database goes away at any moment; a migration does not fit the data; incomplete configurations | serves only on the migrated schema, an outage restarts nobody, pods rejoin |
| The rest | none | validation of texts, logging, metadata, converters, generated code, images | | |

Components meet in three places: the handlers call the store and map its errors
(`*pq.Error` code and constraint names) to statuses; `authMiddleware` and
`authorizeUser` turn a token into the user that the other handlers compare with
rows of `accounts` and `sessions`; and all handlers of all requests meet in
Postgres.

## 2. The modules

| Module | Models | Extends |
| --- | --- | --- |
| `Schema` | rows, constraints and call parameters of a transfer (`db/migration`, `models.go`) | |
| `Ledger` | abstract: a transfer is posted in one step | `Schema` |
| `TransferStore` | the store, statement by statement, and its Postgres transactions | `Schema`; instantiates `Ledger` |
| `TransferAPI` | `POST /transfers` composed with the store | `TransferStore` |
| `SessionLifecycle` | abstract: a session opens once and is revoked for good | |
| `Sessions` | sign-in, renewal and sign-out | instantiates `SessionLifecycle` |
| `Users` | registration, profile and password changes, the password check of a sign-in | |
| `Accounts` | opening, reading and listing accounts | |
| `Service` | the process: configuration, migration, servers and probes | |
| `Sums` | lemmas: sums over finite sets, and the induction they need | TLAPS |
| `TransferStoreProofs`, `TransferAPIProofs`, `SessionsProofs`, `UsersProofs`, `AccountsProofs`, `ServiceProofs` | theorems | the module they prove about, TLAPS |
| `MCTransferStore`, `MCTransferAPI`, `MCSessions`, `MCUsers`, `MCAccounts`, `MCService` | small constants for TLC | the module they instantiate |

### TransferStore

A call `t` has two halves. The *goroutine* (`pc`, `arg`, `err`) sends one
statement and waits for its answer. The *Postgres backend* (`session`, `rows`,
`locked`, `newBalance`) holds the transaction. The committed tables are
`balance`, `transfers`, `entries` and `keys`.

| Action | Code |
| --- | --- |
| `BeginTx` | `execTx` up to `BeginTx`, which may fail |
| `CreateIdempotencyKey` | the claim: waits for an uncommitted row with the same key, fails on a committed one |
| `CreateTransfer`, `CreateFromEntry`, `CreateToEntry` | the three INSERTs; the foreign keys are checked in the first |
| `AddMoneyFirst`, `AddMoneySecond` | the two UPDATEs of `addMoney`, lower id first; each waits for the row, checks `accounts_balance_non_negative` and the bigint range, and locks the row until the end |
| `CompleteIdempotencyKey` | stores the response under the key |
| `Commit`, `CommitAcknowledged`, `CommitUnanswered` | `tx.Commit`: sent, answered, or the answer lost |
| `Rollback` | `tx.Rollback`; when it fails too the `*pq.Error` is lost in a new error |
| `ConnectionLost`, `SessionGone`, `Crash` | faults seen from the goroutine |
| `CommitTransaction`, `BackendAbort`, `PostgresRestart` | what Postgres does on its own (external) |

The isolation level is READ COMMITTED (`BeginTx(ctx, nil)`). An UPDATE that has
waited reads the balance its predecessor left. A failed transaction drops its
locks at once. A transaction whose client is gone keeps them until Postgres
notices, so locks outlive calls. A statement that fails for any other reason is
`ConnectionLost` followed by `BackendAbort`. `Crash` is per call; a server that
dies with many calls is several `Crash` steps. The id of a transfers row is the
call that inserts it. The Gin context never cancels a transaction
(`ctx.Done()` is nil), so a client that hangs up changes nothing.

### TransferAPI

`Refusal(r)` is the first check that refuses a request, in the order of
`authMiddleware`, `createTransfer`, `validAccount` and
`createTransferIdempotent`. The two account reads are one step with it because
no handler changes or deletes an account's owner or currency. `CallStore` is
the store's `BeginTx`; all of the store's steps then interleave with the
handlers'. `StoreReturns` maps the error, `replayIdempotentTransfer` reads the
key in a statement of its own. A retry is a new request with the same key.

### Sessions

Each handler is split at its queries and wherever it reads the clock. `seen` is
what the handler read and later decides on; `earlier` is a history variable, the
table when the request came. `now` advances at any time, also inside of a
handler:

| Action | Code |
| --- | --- |
| `SignIn`, `CreateRefreshToken`, `CreateSession` | the access token, the refresh token (each by its own `time.Now()`) and the row of `loginUser` |
| `SignInRefused` | a sign-in that ends before its first token |
| `renewAccessToken`, `GetSession`, `CheckRenewal`, `CreateToken` | the refresh token is verified, the session read, the session checked (`token.go:45-67`), the new token made by another `time.Now()` (`token.go:69`, `payload.go:33`) |
| `logout`, `VerifyRefreshToken`, `GetSession`, `CheckSession`, `BlockSession` | `authMiddleware`, then the handler: body and refresh token, session, owner, UPDATE |
| `logoutAll`, `ReadOpenSessions`, `BlockUserSessions` | `authMiddleware`, then the UPDATE in its two halves |
| `Fails` | a query or the token maker fails: 500 |

A body that does not bind brings `NoToken` and is answered 400. `checked` is a
history variable: when `CheckRenewal` read the clock. A token is its payload. Its uuid is modelled by the
request that made it, and nothing in it says what it is for, as in
`token.Payload`. `BlockUserSessions` is an UPDATE at READ COMMITTED: a snapshot,
then a second look at each row. `loginUser` (HTTP) and `LoginUser` (gRPC) run
the same steps with different statuses. Abstracted: which passwords are right
(a login goes on or is refused; `Users` has the check), and the rounding of
`expires_at` to microseconds.

### Users

A request computes on its own (validate, authorize, hash, take the time) and
then runs one statement, so a handler is two steps: `createUser`, `CreateUser`,
`UpdateUser`, `loginUser` or `LoginUser`, and then `InsertUser`, `UpdateRow` or
`GetUser`. A sign-in has a third, `CheckPassword`, on the row it has read
(`seen`). `Fails` is a statement that fails, or whose answer is lost: then it
is still to be executed after the client has been told 500. `before` is a
history variable: which requests were over when this one came, with their
statement executed or given up. It is the real-time order that `NoLostUpdate`
and `SignInIsCurrent` are about. An update that was answered 500 and is still
pending is not over: nothing in the code keeps it from overwriting a change that
is confirmed in the meantime, and neither property denies it. What they exclude
is that a change is undone by an update of other columns, or by one that was
over before the change came. `PasswordStamp` says that hash and time of a row
are of one change; it does not order the times of two.

A password is its first 72 bytes and its length: bcrypt reads no more than 72
when it compares and refuses more when it hashes, whereas `val` lets 100 pass.
A hash is salted with the request that makes it, and the time of a password
change is represented by the request that takes it. Which usernames, names and
emails pass is a constant for each API, because they differ: `alphanum` binding
accepts "Ann", the regular expressions of `val` do not. gRPC codes are written
as the gateway's HTTP statuses.

### Accounts

As in `Users`, a request is its checks and then one statement. `NextId` draws
the id from the sequence before `CreateAccount` looks at the unique index, so
ids have gaps and rows appear out of order. `Offset` is in int32 arithmetic of
a width that is a parameter, and Postgres refuses a negative one. `Page` is
`ORDER BY id LIMIT OFFSET` as a set: by the number of smaller ids. `had` is a
history variable, the table when the request came. A foreign key violation
cannot happen, since the user of a token has a row and rows are never deleted.

### Service

| Action | Code |
| --- | --- |
| `main` | `LoadConfig` and `sql.Open`, up to `runDBMigration` |
| `NewMigrate`, `runDBMigration` | `migrate.New`, and what `Up` finds: dirty, nothing to do, or work |
| `Lock`, `ErrLockTimeout`, `Mark`, `Run`, `Clear` | what `Up` does (golang-migrate, external): the advisory lock, then for each migration three transactions. The second may be refused, as 000002 and 000004 are on data that does not meet their constraints: then `Up` returns the error and leaves the schema dirty |
| `ConnectionLost` | an error of `Up` when its connection is gone |
| `runGatewayServer`, `runGrpcServer`, `CannotListen` | the two goroutines; any error is a `log.Fatal`, which ends both. `NewServer` fails for both or neither; a listener may fail for one while the other serves |
| `LivenessProbe`, `ReadinessProbe` | the kubelet asks `/health/live` and `/health/ready` as `eks/deployment.yaml` says |
| `Start`, `Crash`, `Outage`, `Recover` | the kubelet's restart, and the faults |

The configuration is the set of keys, out of the nine of `configKeys`, that the
environment or `app.env` supplies. `requiredKeys` are the five whose zero value
stops `main` or hides the gateway from the probes. The other four
(`ENVIRONMENT`, `GRPC_SERVER_ADDRESS`, the two durations) change no step of the
process: without them a pod is ready and is sent requests, although gRPC then
listens on a port of the system's choice, or tokens expire as they are issued.
`ServesMigrated` therefore speaks of the five only. Init has any version of an
earlier release. Faults are counted: `MaxCrashes` bounds the processes that die,
the listeners that fail and the pods that are killed for starting too slowly,
`MaxOutages` the outages; a refused migration needs no bound, since it leaves
the schema dirty. `interrupted` and `refused` are history variables: a migration
was cut short, and which migrations Postgres refused. Nothing clears a dirty
schema: the code has no operation for it, an operator must.

## 3. The runs

| Run | Config | Shows |
| --- | --- | --- |
| `store` | `TransferStore.cfg` | safety of three concurrent calls with all faults; money is neither made nor lost (`AuditTrail`) |
| `store_refinement` | `StoreRefinement.cfg` | the store implements `Ledger` |
| `store_liveness` | `StoreLiveness.cfg` | calls return and locks are released |
| `transfer_api` | `TransferAPI.cfg` | two requests out of 15 kinds, 11 of them refused ones |
| `transfer_retries` | `TransferRetries.cfg` | three requests racing on one key |
| `api_liveness` | `ApiLiveness.cfg` | requests are answered |
| `sessions` | `Sessions.cfg` | three requests of two users while tokens expire, within handlers too; implements `SessionLifecycle` |
| `exposure` | `Exposure.cfg` | a documented bound that does not hold (below) |
| `users` | `Users.cfg` | three requests that register, change and sign in two users |
| `accounts` | `Accounts.cfg` | three requests of two users that open, read and list accounts |
| `service` | `Service.cfg` | two replicas on any configuration with a crash and an outage, migrations that are refused and listeners that fail; the schema is never further from `schema_migrations` than its one dirty migration |
| `service_liveness` | `ServiceLiveness.cfg` | both replicas are back after a crash and an outage |

*Bounds.* Two accounts and three calls give every lock conflict between
calls (a cycle of waits on two rows needs two calls, a third adds a bystander
that takes over a freed lock or key). Balances start at 2 with a maximum of 3,
so that a debit can succeed once and then overdraw and a credit can overflow.
One key suffices: two owners share it, and two different calls of one owner
reuse it. An id without a row reaches the foreign key. In `Sessions` a session
lives 2 ticks, an access token 1, and the clock stops at 3, so everything
expires within a run, and a renewal can be checked in the last moment of its
session and get its token a tick later. Three requests cover a sign-in and any two handlers
racing on its session. In `Users` three requests are a registration and two
that race on its row; the requests include passwords of 72, 73, 100 and 101
bytes, updates of one column and of several, and texts that one API takes and
the other refuses. In `Accounts` two users ask for two supported currencies and
one that is not; with `MaxInt` = 31 page 9 wraps to a negative offset (size 5)
and to 0 (size 8), as page 2^29 + 1 does in 32 bits. In `Service` there are two
replicas, as deployed, and two migrations, so that a crash comes before, between
and after them (the liveness run has one). `FailureThreshold` is 2 instead of
3: one failure that is forgiven and one that is not. One crash and one outage
come at any moment and in any order.

`CHECK_DEADLOCK` is off where a run ends when all its requests have been
served; that nobody waits for ever is checked by `NoDeadlock` and the liveness
properties instead. In `Service`, which never ends, it is on.

*Symmetry* is over calls, requests or pods (and users in `Sessions` and
`Accounts`), which no definition tells apart. It is not used in runs with
liveness properties.

*Fairness.* Weak fairness of each goroutine's next step (the Go scheduler), of
Postgres executing a COMMIT it received and ending the transaction of a closed
connection, and of the driver reporting a session that Postgres ended. Faults
are never forced, and no client is forced to send anything. Weak fairness is
enough although calls compete for locks, because the calls of a run are
finitely many: a call that is passed over is passed over finitely often.
In `Service` (`FairSpec`) every pod takes its next step, the kubelet starts
containers that have ended and goes on probing them, and an outage ends.
Crashes and outages are never forced. `Recovers` starts from a pod that has
once served: before that an incomplete configuration, or a migration that was
refused or cut short, keeps all of them out, which is what the code intends.

*Finding.* `api/logout.go:20` and `README.md:146` say that after a sign-out the
exposure is bounded by `ACCESS_TOKEN_DURATION`. `authMiddleware` and
`authorizeUser` accept any token of the token maker, and a payload has no
purpose, so a session's refresh token is accepted as a bearer token until its
own expiry. A renewal that read the session before the sign-out also makes an
access token that starts its life after it. `ExposureBounded` states the
documented bound and run `exposure` violates it. What does hold is
`SessionLifetime`, which is also proved: every token that a client has got
belongs to a session of its user and expires no later than that session's
`expires_at` plus one `AccessTokenDuration`, plus the time its renewal took from
the check of the session to the new token (`Overrun`: the code reads the clock
twice, and nothing bounds what lies between). This is the bound on the exposure
that the code really gives, with the whole session in the place of one access
token.

Another difference, without a run: `README.md` ("Concurrency", point 1) says
the balance is read with `SELECT ... FOR NO KEY UPDATE`. `transferTx` does not
call `GetAccountForUpdate`. The lock comes from the UPDATE itself, which is of
the same strength, so the conclusion stands.

## 4. The proofs

All theorems hold for any sets of accounts, owners, keys, users, requests, pods
and calls, and any values of the numeric constants. Those about transfers assume `SchemaAssumption` (ids and initial
balances are bigints that satisfy the CHECK, parameters are of their type with
two different accounts and a positive amount, as `createTransfer` guarantees)
and `ApiAssumption` (accepted requests are calls the store may get, `NoUser` and
`LongKey` are distinct from real values).

*`TransferStoreProofs`.* `IndInv` is inductive. The safety properties are not
inductive alone: that a commit keeps `DoubleEntry` needs to know what the
transaction has written. Its parts: `InStep` ties the goroutine to its
transaction; `Written` and `Locks` say, for each program point, exactly which
rows and locks an open transaction has; `Exclusive` and `Pending` say a locked
row has one holder whose new balance is still computed from the committed one;
`KeysExclusive` and `KeysFresh` say a claimed key is claimed once and unspent;
`CommittedRows` and `CommittedOnce` tie committed rows to committed calls. There
is a lemma for each action. From `IndInv` follow `NeverOverdrawn`,
`TransfersWhole`, `MoneyMovesOnce`, `ReplayFindsResponse` and
`ErrorsTellTheTruth`. `DeadlockFree` takes, in a set of waiting calls, the one
that holds a lock and waits for the largest account id (a well-founded
minimum): its holder would have to wait for a larger one. Calls waiting for a
key hold no row locks. `StoreImplementsLedger` shows that `CommitTransaction`
is `Ledger!Post` and every other step a stutter.

`BalancesMatchEntries` (the property `AuditTrail`) says that every balance is
its initial one plus the sum of its entries, and that the balances together add
up to what they did at first. It needs a second invariant over the first:
`Booked` says that an account's entries are finitely many and that their sum
explains its balance. Only a commit matters, and it adds one entry to each of
two accounts (`PostBooks`); every other step is a stutter of `Ledger`
(`LedgerStep`). That no money is made or lost is `SumMove`: an amount taken from
one account and added to another leaves the sum over all accounts alone.

`OutcomesAreFinal` is about time: a call that has returned success has its
transfer in the ledger for ever after, and a call that has returned an error
which names its cause will never have one, although commits whose answer was
lost are still executed after a call has returned.

*`Sums`.* The sums of the model are `MapThenSumSet` of the community modules, a
recursive function over sets. What it computes is proved without the library's
induction theorems, which take an operator as a parameter. `SubsetInduction` is
induction over the subsets of a finite set as a statement about a *set* of good
subsets, proved by taking a bad subset of the least cardinality (`LeastNumber`).
With it `SumExists` and `SumUnique` show that the recursion has exactly one
solution, and `SumStep`, `SumAdd`, `SumRemove`, `SumSame` and `SumMove` are what
a proof about balances needs.

*`TransferAPIProofs`.* `ApiImplementsStore` shows that API steps are store steps
or stutters, so the store's theorems carry over. `ApiInv` adds `HandlerInStep`
(handler and call agree, the call is the request's) and `Backed` (every answer
is backed by committed state). `OkIsTrue`, `RetriesToldTheSame`,
`RefusalsAreFinal`, `ConflictsAreReal` and `DebitsAuthorized` follow.
`ApiKeepsStorePromises` is what the store's theorems become: under the handlers
too the tables change by whole transfers only, balances match entries and no
requests wait for each other in a circle. `OnePaymentPerKey` puts the two
modules together: of all requests of a user under one key at most one moves
money, whatever they ask for. `AnswersAreFinal` carries `OutcomesAreFinal` to
the client: a 200 stays true and a 4xx is never followed by a late commit.

*`SessionsProofs`* (from `SessionsAssumption`). `IndInv` adds to the properties what
a request holds between its queries: `Stage` and `Snapshots` say, for each
program point, what it has read and that this is no newer than the table and no
older than the moment the request came; `RowsMade` and `TokensStored` say that
every row was made by a sign-in and every token belongs to a row. A frame lemma
says that a step of one request leaves the others alone and that rows only ever
change from open to blocked; the actions are then proved one by one.
`SessionsImplementLifecycle` maps the rows to `SessionLifecycle`: `CreateSession`
is `Open`, the two UPDATEs are `Revoke` of the rows they block, everything else
is a stutter.

`LifetimeBounded` is about tokens instead of rows, and needs a second layer:
`TokensHaveMakers` says that every token in a client's hands was put there by the
sign-in or the renewal whose number it bears, and which session that request had
read. `LoginPair` relates the two tokens of a sign-in, which are made at different
times, and `Stage` keeps the time of a renewal's check, so that the new token
exceeds the session by no more than the delay since then. `SignedOutStaysOut` is
about time: when a session is blocked, a request that has not come in yet will
never renew from it. The predicate that stays true is `CameAfter`: the session is blocked, and was when the request came.

*`UsersProofs`* (from `UsersAssumption`). `NoLostUpdate` alone is not inductive:
`AtStep` says what a request's values and answer are at each of its steps, and
`Over` that a request counts as earlier than another only when it is over, so
that a statement still to be executed is in nobody's past. `OnlyPendingUpdatesUndo` is what
follows for confirmed changes: only a request still under way when a change came
can undo it. `SeenFresh` carries the same for the row that a
sign-in has read, and `SaltUsed` ties a hash to the request that made it.
`OnlyOwnerChanges` is an action property: a row is never deleted, and whatever
replaces it was sent by its own user and is not yet confirmed.
`ReplacedPasswordsOpenNothing` is the temporal side of `SignInIsCurrent`: once a
hash has been replaced no later sign-in is ever checked against it, because the
only request that could write it has run its statement.

*`AccountsProofs`* (from `AccountsAssumption`). `FreshIds` (an id is drawn once),
`RowsStay` (nothing is deleted) and `AtStep`. `FirstPageHasAll` is an argument
by counting: one account per currency and three currencies, so every account of
a user has at most two smaller ones, fits on a page of 5, and no later page has
any. Over time, `ShownAccountsStay` says that what an answer has shown stays in
the table, and `OpenedOnlyOnce` that no request that comes after an account was
opened is told that it opened it again.

*`ServiceProofs`* (from `ServiceAssumption`). `Held` says who has the advisory
lock on a live connection; only that pod makes progress, and `Progress` says how
far it is. A pod whose connection went away in the middle of a migration is
`interrupted`, one whose migration was refused has it in `refused`
(`DirtyOnlyWithCause`). `Configured` says what a pod that has come so far has seen of its
configuration. `OutagesEndNoServer` is an action property: of a reachable pod
only `Crash` lets go. `OneReplicaMigrates` and `MigrationsGoForward` say what the
lock is for: one pod at a time is at the schema, and each step begins, applies
or ends exactly the next migration, through any crashes. `HalfDoneServesNobody`
is the price: once a migration was cut short or refused and whoever ran it is gone, the
schema stays dirty and no replica ever serves, for nothing in the code repairs
it.

*Only model-checked.* The liveness properties `EveryCallReturns`,
`EveryLockReleased`, `EveryRequestAnswered` and `Recovers`, because the prover
handles neither fairness nor ENABLED. Every invariant and every action property
of a passing run has a theorem.

## 5. Not modelled

The JWT maker (unused by the servers), `runGinServer` (without a caller: the
Gin server's handlers are modelled, its start is the gateway's), logging,
metadata, converters, generated code, images and networks: stateless or
generated. Which texts are valid usernames, names and emails is an input of
`Users`. `DeleteAccount`, `UpdateAccount`, `GetAccountForUpdate` and the other
queries without a caller. Creating accounts while transfers run: an account that
appears only turns a 404 into another answer. Signing in is in two modules:
`Users` has the password check, `Sessions` what follows it. They share the user
name only, and nothing that `Sessions` does afterwards reads `users`, so that
sessions outlive a change of the password.

## 6. What could come next

Composing `Users` with `Sessions`, to state what a change of the password does
not revoke; a larger instance of `Service` with a rolling release of two
versions of the schema; an abstract specification of `Users` as a register per
column.
