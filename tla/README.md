# TLA+ specifications of passkey-demo-api

A service that registers and logs in users with passkeys (WebAuthn): five HTTP
handlers over one SQLite file. This directory holds its specifications, the
TLC models that check them and the TLAPS proofs about them.

## The system

| part | state | operations |
|---|---|---|
| `internal/db` + migrations | five tables, one write lock (WAL, `busy_timeout` 5 s, foreign keys) | `Open`, the statements of the slices |
| `registrations_start` (S1) | none of its own; adds a row to `registration_sessions` | `POST /v1/registrations` |
| `registrations_finish` (S2) | reads and deletes a registration session; adds to `users`, `credentials`, `refresh_tokens` | `POST /v1/registrations/{id}/attestation` |
| `sessions_start` (S3) | reads `users`, `credentials`; adds to `login_sessions` | `POST /v1/sessions` |
| `sessions_finish` (S4) | reads session, credential, owner; updates `sign_count`, adds to `refresh_tokens`, deletes the session | `POST /v1/sessions/{id}/assertion` |
| `sessions_logout` (S5) | verifies an access token; sets `revoked_at` in `refresh_tokens` | `DELETE /v1/sessions/current` |
| `cmd/api`, `internal/app` | the configuration, the Ed25519 key pair of the process (never stored) | start, with the migrations; SIGTERM |
| `internal/clock` | the time | `Now` |
| `component-tests` | a World for each scenario, a lock of its own, a file that fills the disk | hooks and steps of the godog runner |
| `users_me` (S6) | – | designed in the documents only |

The slices do not call each other's handlers. They share types, `generateTokenPair`,
the database, the clock and the key pair. Each request runs in a goroutine of
`net/http`; every database call uses `context.Background()`, so a handler goes
on after its client has hung up or `WriteTimeout` has given up the response,
and a client that retries may meet its own first request. `srv.Close` does not
wait for handlers: the process may end in the middle of any of them.

What is hard, and what makes each part right:

- **S2** reads the session outside the transaction that deletes it, and the
  DELETE does not look at how many rows it found. Right when one ceremony makes
  at most one account, a failed or interrupted transaction leaves nothing, and
  404 / `HANDLE_TAKEN` are answered only when they are true.
- **S4** has the same gap and no UNIQUE constraint behind it; it stores the
  assertion's counter unconditionally. Right when a token pair goes only to the
  session's own user and tables and answers agree.
- **S1, S3** truncate the expiry to seconds. Right when no session is accepted
  late or refused more than a second early.
- **S5** revokes by user, concurrently with logins of the same user. Right when
  the session whose access token it was shown is over whenever it answers 204,
  other users are not touched, and what is revoked stays as it is.
- **A handle** is a text that is trimmed, measured in bytes, stored in two
  tables and rehydrated through the same `NewHandle`. Right when storage never
  changes or refuses it and when one name is one account.
- **The start** is right when no environment, failing call or kill leaves a
  file that a later start cannot use, and what serves has its whole schema.
- **The component tests** are right when no scenario fails for what another one
  left behind, and none waits for ever on the lock it holds itself.
- **The database** is right when every handler that takes the write lock gives
  it back, whatever fails.

`PROJECT.json` lists every component and every hazard at its line.

## The modules

```
Store                 tables, constraints, transactions, clock, restart
 ├─ Tokens            generateTokenPair, VerifyAccessToken
 ├─ RegistrationsStart (S1)
 │   └─ RegistrationsFinish (S2, with Tokens)
 │       └─ Registration        S1 + S2, faults, restarts; implements Accounts
 ├─ SessionsStart (S3)
 │   └─ SessionsFinish (S4, with Tokens)
 │       └─ Authenticators      who signs the challenges
 │           └─ Login           S3 + S4, accounts appearing in one step
 ├─ SessionsLogout (S5, with Tokens)
 ├─ Sessions          Login + S5; implements Login and Grants
 ├─ Passkey           S1 to S5; implements Registration, Sessions, Accounts, Grants
 └─ ComponentTests    S1 to S5 driven by the godog runner
Accounts              what registration promises
Grants                what login and logout promise
Handles               the text of a handle, from the client's keyboard and back
Startup               LoadConfig, GenerateSigner, Open with its migrations, Listen
RegistrationProofs, LoginProofs, SessionsProofs, PasskeyProofs,
EndToEndProofs, HandlesProofs, StartupProofs, ComponentTestsProofs    TLAPS
MC...                                 TLC
```

The `EXTENDS` follow the Go imports. A slice module is a state machine per
request: a `...Pc` variable says what the handler does next, the other
variables are its local values, and one action is what the handler does between
two points where another goroutine can matter: a SELECT, a reading of the
clock, one statement of a transaction, COMMIT, the response. Both SELECTs of
`LoadUserCredentials` and of `LoadAssertionTarget` are steps of their own, and
so are the two readings of the clock in `ProcessSessionLogout`.
An early return is an action that sets the reply, or a branch of the one it
leaves from.

`Store` has the committed image `db`, which every SELECT reads, and the image
`view` that the holder of the write lock (`writer`) is building. The first
INSERT or UPDATE of a transaction takes the lock, COMMIT publishes `view`,
Rollback and a restart drop it. A statement that cannot have the lock waits;
`busy_timeout` running out is the fault `"busy"`, which may hit any statement.
The other faults are `"full"` and `"io"` (anything the code does not know).

Names: an id, challenge or token that the code draws at random is drawn once,
so it is named by the request that drew it. A handle is a value that `NewHandle`
accepts (`Handles` is about the others). A credential's key is the credential's
name: an assertion for credential `k` is signed by `k`'s authenticator, so
`Verify` comes down to the challenge. `now` is in ticks, `TicksPerSecond` of
them to the second that `expires_at`, `iat` and `exp` keep. The key pair of a
process is the number of restarts before it (`boots`).

**How the halves compose.** `Login` takes accounts as they appear: `Register`
commits user, credential and first refresh token in one step. `Sessions` puts
logouts beside it and remembers the token pair of each registration, which a
client may present as well as that of a login. `Passkey` has no such shortcut:
registrations run statement by statement beside logins and logouts, and a
credential signs in only as what its attestation registered. Three refinements
tie them together, each a PROPERTY of a run:

| refinement | mapping | why it could fail |
|---|---|---|
| `Passkey` ⇒ `Registration` | tables without login sessions, login tokens, revocations and later counters; the write lock free while a login has it | a login or a logout that changed or published rows of a registration |
| `Passkey` ⇒ `Sessions` | tables without registration sessions; the write lock free while a registration has it; `enrolled` is what committed registrations issued | a registration whose rows appear one by one |
| `Sessions` ⇒ `Login` | revocations put out of sight | a logout that removes rows, or a login that looks at them |

So what is shown of `Registration` and `Login`, on larger instances or by
proof, is about the service as a whole. `Registration` ⇒ `Accounts` and
`Sessions` ⇒ `Grants` are the promises: accounts appear at once, one to a
ceremony; a login gives a grant, a logout ends in one instant all that its user
has, and only a token signed by the running process can log out. `Passkey` has
the same two promises as `ImplementsAccounts` and `ImplementsGrants`, with its
own tables, requests and transactions in place of the halves'. There they are
theorems (`EndToEndProofs`) and no run's; TLC agrees on both instances of
`MCPasskey` when they are added to its `.cfg`.

**Handles** has whole requests as steps: what matters is the text. A character
is its number of bytes and whether it is a space. **Startup** has a step for
each call of `main` and for each statement of each migration; goose, which puts
one migration and its version row into one transaction, is external.
**ComponentTests** has a step for each step of a scenario; the service answers
between `Sends` and `Receive`. Faults are not chosen here: a statement fails
with `"busy"` only while the runner holds its lock and with `"full"` only while
`junk.bin` fills the small disk of the profile `disk-full`.

## The runs

| run | what it shows | bounds |
|---|---|---|
| `registration_races` | database = answers, one account per ceremony, truth of NOT_FOUND and HANDLE_TAKEN, isolation, the inductive invariant, refinement of `Accounts` | 2 starts, 2 finishes, 2 handles, 2 credentials, all faults, 1 restart |
| `registration_progress` | accepted before the expiry, refused at most a second early; every request ends | 1 start, 2 finishes, 2 ticks to the second, TTL of 3 ticks, 4 ticks, I/O errors, no busy timeout, 1 restart |
| `login_races` | tables = answers, a token pair goes to the session's user and in time, counters, a used session is refused; the inductive invariant | 2 users, 2 starts, 2 finishes, one assertion per credential, disk full; 1 restart that cuts off a finishing login, or 1 second between the challenges and the second finish |
| `login_reuse` | **violated**: a login session is used once | 2 finishes |
| `login_counter` | **violated**: the stored counter never falls | 2 sessions, 2 assertions |
| `sessions_races` | a 204 means that the session is over; refinement of `Login` and `Grants` | 2 users, 1 login, 2 logouts, disk full, 1 restart |
| `sessions_clock` | tokens are revoked only by their own user, with a token of the running process and in its time; 401 and 404 are true; a revoked row never changes | 2 users, 2 logouts and 1 restart, or 1 user, 1 login, 1 logout and 1 restart; 2 ticks to the second, TTL of 3 ticks, access TTL of one second, 4 ticks |
| `passkey_whole` | nobody is half registered; every stored token is one that was answered; refinement of `Registration` and `Sessions`; every request ends, the lock comes free | 1 request of each kind, I/O errors, 1 restart |
| `passkey_accounts` | handle, account and credential belong together from end to end; every variable keeps its type | 2 starts, 2 finishes, 2 handles, 2 credentials, 1 login, 1 second after the registrations |
| `handles` | stored handles survive rereading; one name, one account; the name finds the account | 2 clients, 1 login, all texts of up to 3 characters of 1 or 2 bytes, lengths 2 to 3 |
| `startup` | the file holds exactly the recorded migrations; what serves is complete; a start gives up only for a reason; only good starts touch the file | 3 starts, any environment, 5 migrations of the repository |
| `component_tests` | the scenarios pass in every order and on either profile, but for `diskFull` on `healthy`; a failed request saved nothing; the run ends | any 3 of the 7 scenarios, repetition included |

Why the bounds are enough. Every property is about one request or about two that
meet over a session, a handle, a credential, a user or the lock; two of the kind
in question cover the pairs, and the theorems cover any number of registrations,
logins and logouts. Two starts are needed for two ceremonies over one handle and
for a response to the wrong challenge. Two logouts cover the repeated and the
overlapping one, two users a WHERE clause that matches too much. Whose access
token a logout may present, signed by which process and how late, needs two
users, a restart and a clock together: `sessions_clock` has them. A TTL of 3
ticks with 2 to the second makes truncation cut half a second or nothing, and
sessions opened at odd and even ticks meet both. Which fault hits matters only
for the code answered, so one suffices where the answer is not looked at.
`MaxTime = 0` stops the clock where no property is about time. The whole service
is run on two instances because one with two of everything is out of reach: they
vary what meets what - all five slices and a restart on one account, or two
accounts. On one account a registration has written its rows before a login or a
logout has anything to write: that their writes leave each other alone when they
do overlap is what the theorem `PasskeyImplementsRegistration` adds to the run.
Three instances are cut by a CONSTRAINT that their MC module names.
`RestartOrClock`: the process restarts when it cuts off a finishing login, or
the clock moves when every login was challenged or refused and at most one is
being finished, but not both; a session that expires concerns one finish
request, and an idle restart leaves nothing to undo. `ClockAfterRegistrations`:
no expiry during the registration, which is the business of
`registration_progress`. `BesideALogin`: beside a login there is one
authenticator and one logout; a login that meets two users' logouts is that of
`sessions_races`. Three starts let a broken start be followed by a repaired one
and that by a third. Three scenarios are a leftover, the scenario it might spoil
and one more. Requests, handles and credentials are interchangeable and permuted
by `Symmetry`, except in the runs that check liveness and in the scenarios,
which name theirs.

Fairness is weak fairness of the steps a running handler can take by itself:
the Go scheduler does not starve a goroutine. There is none for clients,
authenticators, faults, the clock or restarts. A handler that waits for the
write lock is not enabled while another holds it; it must get it in the end
because every holder releases it and requests are finite in number, not because
SQLite would queue fairly. In `FairTestsSpec` the runner, which is one
goroutine, goes on too, and so does a statement that waits for a lock the runner
keeps: SQLite gives up after 5 seconds and the runner's HTTP client would wait 10.

Deadlock is checked wherever requests run: `Quiescent`, `SessionsQuiescent`,
`EveryoneAtRest` and `RunIsOver` are the only steps of a state where every
request, or the run of the tests, is over. `Handles` and `Startup` end when the
clients have typed what they type and the last start is down, and need no such
step.

Each passing property has a mutant in `PROJECT.json`: a plausible bug, written
just before the definition it stands in for and marked as a mutant.

### Where code and documents disagree

- `login_reuse`: `04-sessions-finish.md:210` says that after FinishLogin the
  login session cannot be used again. Two requests that both loaded it before
  either committed both succeed. What does hold is `UsedSessionIsRefused`: a
  request that loads the session after a COMMIT is refused. Registration has
  the same gap, but UNIQUE(handle) closes it (`OneAccountPerCeremony`).
- `login_counter`: `devlog/00-intent.md:125` says the server checks that the
  counter has grown. It is not compared; the stored counter falls when the
  assertion signed first is committed last, without any cloned authenticator.

Noticed while modelling; the model does what the code does, and no run repeats it:

- `messages.md:1135` says that `revoked_at` is the moment of the invalidation.
  `ProcessSessionLogout` reads the clock before the UPDATE waits for the write
  lock: a login that commits during the wait is revoked as of a time before its
  token was issued.
- `openapi.yaml:146` says that a logout invalidates the refresh token of the
  current session. It invalidates all of the user's, those of later logins
  included; slice document 05 (lines 79 to 81) chooses this. What does hold is
  `LogoutEndsTheSession`.
- `04-sessions-finish.md:273-277` says that an EXCLUSIVE lock blocks reads, so
  that `LoadLoginSession` is the step that meets BUSY. `Open` puts the file into
  WAL mode, where readers go on; the request passes its three SELECTs and it is
  `FinishLogin` that meets BUSY. The answer is the same 503, and `ComponentTests`
  takes this way to it.
- `04-sessions-finish.md:332` calls the run on the profile `healthy` green.
  `run-tests.sh` filters no scenario, so `diskFull` runs on that profile too,
  where `junk.bin` fills nothing and the registration succeeds: the scenario
  fails. `ScenariosPass` says so, and asks for a pass of every other one.
- `openapi.yaml:213` gives the length of a handle in characters; `NewHandle`
  counts the bytes that are left after trimming.
- `03-sessions-start.md:150` relies on the configuration for a positive TTL;
  `parseDuration` accepts zero and negative ones.
- `db_failure_steps.go:60` says the junk file is removed in `afterScenario`. It
  is removed before the next scenario; after the last one it stays.
- `auth_steps.go:11` says the step passes all four phases. It passes the two of
  registration, so the scenarios never log out with the access token of a login;
  `sessions_races` does.
- `main_test.go:14` calls the order of `Randomize: -1` deterministic, while
  godog takes -1 for a random seed. `ComponentTests` allows every order.

## The proofs

`RegistrationProofs` proves, for every value of the constants that satisfies
`StoreAssumption`, `ChallengeTTLAssumption` and `TokensAssumption`:

- `InvariantHolds`: `Spec => []InductiveInvariant`;
- from it `TypeCorrect`, `AllOrNothing`, `Isolation`, `SingleUse`, `Acceptance`;
- with an induction of their own on top of it, because they speak of a past
  that the state remembers only in the answers: `HonestNotFound`,
  `RefusalInTime`, `HonestHandleTaken`;
- `Refinement`: `Spec => ImplementsAccounts`.

The assumptions are that `None` is none of the ids, codes and numbers, that
durations, bounds and counters are natural numbers, that a second has at least
one tick and that request sets of different routes do not share names.

Why the invariant has its parts. `DatabaseMatchesAnswers` is what we want, but a
COMMIT publishes whatever `view` holds, so `IsolatedTransaction` must say what
`view` is at each statement. That the session a COMMIT deletes is the one the
answer names needs `HandlersKnow`: what a handler read, it read from a stored
session, and rows do not change. The same part keeps, for the holder of the
lock, that handle and credential are still free, which makes `OwnersAreUnique`
and with it `SingleUse` hold: two requests with one session want one handle.

The proof that a step keeps a part has one step per action (grouped where the
same facts serve); `QuietSteps` reduces the parts about the database and the
refinement to the only two actions that publish rows.

`LoginProofs` proves of `Login`, under the same assumptions:

- `LoginInvariantHolds`: `Spec => []LoginInvariant`;
- from it `LoginIsAllOrNothing`, `LoginIsIsolated`, `TokensGoToTheOwner` and
  `NoLoadAfterUse`;
- by an induction of their own on top of it `LoginNotFoundHasAReason` and
  `StoredCountersWereSigned`.

`LoginTablesMatchAnswers` needs `LoginTransactionIsIsolated` as registration
does. That a row loaded is the row that was stored follows from the tables
themselves (`LoadedRowIsStored`), and with it `AssertKnows`: at each point the
session is one that was opened, the credential belongs to its user, and no
check passed is undone. The three SELECTs need no transaction for this because
nothing takes a user, a credential or its owner away (`OwnersStay`): that lemma
is what a new slice that deletes credentials would break. `LoginKnows` says the
same of `allowCredentials`, whose two SELECTs a registration may separate.
The frame lemmas (`LoginFrame`, `AssertFrame`, `DbSteps`) say once that a step
moves one request and that three actions publish rows.

`SessionsProofs` proves of `Sessions`, logins beside logouts, under the same
assumptions, with two more that keep `None` apart from what a client may
present: it is no token pair (`TokensAssumption`) and no input of
`VerifyAccessToken` (`LogoutAssumption`):

- `SessionsInvariantHolds`: `SessionsSpec => []SessionsInvariant`;
- from it `LogoutsEndSessions` and `OwnersRevoke`;
- by the steps alone, on top of it, `RevocationsAreFinal`; by an induction of
  its own `UnauthorizedHasAReason`.

A logout knows the session only by the access token it was shown, and it
revokes by user. That its UPDATE meets the refresh token of the same pair
follows the pair from `GenerateTokenPair`, which truncates the clock to seconds
(`PairsAreMinted`), through the COMMIT that publishes it (`PendingTokens` says
what the open transaction will publish) and the table, from which nothing takes
it (`GrantsAreStored`), to the request that carries it (`LogoutKnows`). Only
the part of `LoginInvariant` about types and about what the handlers hold
(`LoginReady`) survives beside logouts, because the tables are no longer those
that the answers of logins account for; `ReadyStep` proves that part once for
both specifications.

On top of that invariant it proves `SessionsImplementsGrants`: `SessionsSpec =>
ImplementsGrants`. A COMMIT of a login maps to `SignIn`, one of a logout to
`SignOut`, a registration to `SignUp`, a restart to `NewEpoch`, and every other
step to a stutter. `RowsAreGranted` makes every row one that the abstract state
has. `KeysAreInUse` is the reason why the two stages can be one step: a login
that reaches its COMMIT signed its tokens with the key of the process that still
runs, and a logout that reaches its UPDATE had its token verified with that key,
because a restart that would replace the key ends both.

It also proves `SessionsImplementsLogin`: `SessionsSpec =>
ImplementsLogin`, where login is shown the tables without revocations. Hiding
them commutes with every statement of a login and with a registration
(`StatementsIgnoreRevocations`) and absorbs the UPDATE of a logout
(`RevocationsAreOutOfSight`). That the UPDATE is a stutter also for the image of
an open transaction is because there is none: it needs the lock, and without a
writer `view` is the committed image. So every theorem of `LoginProofs` holds
beside logouts, its tables taken without `revoked_at`.

`PasskeyProofs` proves of the whole service, all five slices overlapping, that
it implements the two specifications it is taken apart into:

- `PasskeyInvariantHolds`: `PasskeySpec => []PasskeyInvariant`, and from it
  `PasskeyTypes`;
- `PasskeyImplementsRegistration`, with which the theorems of
  `RegistrationProofs` hold of the service, its tables taken through
  `Registering` (as committed by registrations: counts as registered, no
  revocations, no tokens of logins);
- `EnrolmentsAreComplete`, an induction of its own on top of the invariant;
- `PasskeyImplementsSessions`, with which those of `SessionsProofs` hold of the
  service.

`PasskeyReady` is what types need: each handler has in hand what it uses next.
`HalvesMeet` is where the halves touch. `LockIsHeld`: whoever is between two
statements of a transaction is the writer, so nobody else moves the images.
`CredentialsAreAttested`: a stored credential belongs to a registration whose
command is settled; `Registering` shows the count of that command in place of
the one that logins raise, and would change with the command otherwise.
`LoginIsUnseen`: while a login holds the lock, registration sees the same in
`view` as in the committed image; this makes the COMMIT of a login a stutter.
In the other direction `Sessions` takes a registration for one step, the COMMIT,
and asks of it a free handle, a free credential, a count that the authenticator
has reached and a token pair of the running process. They were established
statements, seconds and a restart's chance earlier; `EnrolmentsHold` carries
them from there to the COMMIT.

`EndToEndProofs` proves `AccountsAreTheRegistered`, `EverybodyIsWhole` and
`TokensAreAnswers`, which span both halves and so follow from neither
refinement: tlapm cannot cite the theorems of an instantiated module. They are
proved directly, on top of `PasskeyInvariant`. `EndToEnd` follows a handle and a
credential on their way, from the request that opened the registration session
to its row, the request that finished it and the account (`FinishFollows`), on
to the request that asked to log in, the login session and the assertion
(`LoginFollows`, `AssertFollows`). It joins them through the tables:
`AccountsStand` makes users, credentials and tokens those of the answers,
`SessionsStand` every session row what its request opened, and `LoginImageOf`
says what the open transaction of a login is about to publish.

On top of `EndToEnd` it proves `ServiceKeepsAccounts` and `ServiceKeepsGrants`:
`PasskeySpec => ImplementsAccounts` and `PasskeySpec => ImplementsGrants`, the
two promises without a detour over the halves. A session's INSERT is an `Offer`
and the COMMIT of a registration is a `Complete` and a `SignUp`, that of a login
a `SignIn`, the UPDATE of a logout a `SignOut`, a restart a `NewEpoch`; `Deeds`
says that every other step leaves what the promises see alone. Three facts had
to join the invariant (`PromisesReady`, kept by `PromisesAreReady`):

- `OffersAreAccountedFor`: a session that was answered for is stored, or an
  account was made of it. It is why no session completes twice: two requests
  may both have loaded it, but whoever commits second finds the handle taken.
- `BearerFollows`: between its check and its UPDATE a logout keeps a token of
  the running process. A restart in between would end the epoch, and it also
  ends the request.
- `ImageDropsSession`, `ImageAddsToken`: an open transaction publishes, besides
  its own rows, the sessions and tokens that are committed, not those that were
  when its request began.

`HandlesProofs` proves, for texts of any length, characters of any width and
any limits (`HandlesAssumption`):

- `HandleIsStable`: `NewHandle` accepts what it has returned, and returns it
  unchanged;
- `HandlesInvariant`, `HandlesTyped`, `StorageIsFaithful` on top of it;
- `NamesAreUnique` and `LoginFindsTheAccount`. Their heart is that two texts
  are one name (`SameName`, which knows nothing of `TrimSpace`) exactly when
  `TrimSpace` makes them equal. The invariant adds to the properties that every
  stored row has the trimmed text of the client it is named after: without it,
  a row says nothing about what was typed.

`StartupProofs` proves of `Startup`, for any number of starts in any environments
(`StartupAssumption`):

- `StartupInvariantHolds`: types, `TransactionIsPrefix` (what goose has open is
  the first statements of the next migration), `ConfigIsLoaded` and
  `MigratedFirst`;
- from it `FileIsItsVersion`, `ServingIsReady` and `BadStartsTouchNothing`;
- `NoStartSpoilsTheNext`. Its heart is `NothingIsCreatedTwice`: no migration
  creates what an earlier one or an earlier statement created, so no CREATE ever
  fails for what an interrupted start left.

`ComponentTestsProofs` proves of `ComponentTests`, for any number of scenarios in
any order on either profile:

- `TestsInvariantHolds`: `TestsSpec => []TestsInvariant`;
- `ScenariosAlwaysPass`, which the invariant contains;
- `FailuresSaveNothing`, from the invariant.

The runner waits for each response, so at most one handler is at work, and the
invariant speaks of the last request a scenario has sent. `LastRequest` says, by
the kind of that request, how far its handler is, what image the tables hold at
that point (`OpenedImage`, `AccountImage`, `ChallengedImage`, `SignedInImage`:
an empty database plus what the scenario has done) and whether its transaction
or the runner has the lock. `WorldIsSet` ties the fields of the `World` to the
steps already passed, `NothingIsLeft` says that no scenario leaves a request, a
lock or a held connection to the next, and the `...Rest` parts that every other
request is either not sent yet or answered, so that none of them takes a step.

That the scripts fit the service is one lemma, `ScenariosAreScripted`: at each
step of each scenario the requests and steps before it are those the step needs
(`Relies`, `Consistent`). Everything after it is about an arbitrary scenario
that is scripted so, and a new scenario needs only its own part of that lemma.
`RowsAreAnswered` gives `FailuresSaveNothing`: a row of an account or a token is
there only for a request answered with OK, in whatever scenario.

Besides the assumptions of the slices, and `ComponentTestsAssumption` (the
features' handles exist, authenticators may start at 0, the runner's connection
is no request), these proofs assume that the lifetimes are at least a second,
as the defaults of `config.go` are, because a scenario whose challenges expire at
once does fail (`LifetimesAssumption`); that a request is of one kind
(`RequestsAssumption`); and that a response is distinct from its absence
(`ResponsesAssumption`).

Every safety property that a passing run checks is proved, and so is every
refinement. Only model-checked are the liveness properties: `EveryRequestEnds`,
`EveryRequestOfAllEnds`, `WriteLockComesFree` and `TheRunEnds`. Liveness under
fairness and ENABLED are out of the prover's reach, and so is induction over
data: `TrimSpace` is defined by the first and last character that is not a
space, not by recursion, and no module declares a RECURSIVE operator, so nothing
is kept from the prover.

## Not modelled

Error returns of `crypto/rand` and of the JWT signature, and rows that fail to
rehydrate for another reason than their handle (nothing writes such rows);
cryptography and parsing by go-webauthn and golang-jwt; foreign keys (the
service never deletes a parent row); an I/O error of COMMIT after which the
transaction is nevertheless durable; a system clock that is set back; response
bodies beyond what a later request needs; `/health` and logging. `users_me` (S6)
exists in the documents only. Of the component tests, the scenarios of
`/health` and of `GET /v1/users/me` and the scripts and containers around the
runner. Nothing in the code removes sessions that nobody finishes, so there is
no bound on the tables to check.

## Plan

What is left: `users_me` (S6) once it is code.
