# TLA+ specification of auth-service

auth-service is an authentication microservice (FastAPI, SQLAlchemy,
PostgreSQL) with a small React demo. This directory models its core: what the
handlers do to the database when they run at the same time, when a process
dies between two of their statements, and when a browser repeats, delays or
reorders its requests, how long what it signed stays valid, and what its
migrations do to a database in use. TLC checks the models on small instances;
TLAPS proves every safety property of the passing runs, for any number of
requests, users, workers or migrations.

- [The system](#the-system)
- [The modules](#the-modules)
- [How the code is abstracted](#how-the-code-is-abstracted)
- [What each run checks](#what-each-run-checks)
- [What is proved](#what-is-proved)
- [Where the code and its documents
  disagree](#where-the-code-and-its-documents-disagree)
- [What is not modelled](#what-is-not-modelled)

## The system

Every handler is an async function with an `AsyncSession` of its own
(`app/db.py`), i.e. one database connection and one open transaction at a
time. Handlers share no memory; they meet in PostgreSQL tables, at the default
isolation level READ COMMITTED. Any number of them, in any number of
processes, may be between any two `await`s.

| Component | Its state | Operations | What makes it correct |
|---|---|---|---|
| Refresh tokens: `app/refresh.py`, `app/routes/auth_token.py`, logout | `refresh_tokens`: a row per token with its chain, `revoked`, `expires_at` | `issue_refresh`, `rotate_refresh`, `_revoke_chain` (the "burn" of a chain whose token was reused), `revoke_refresh` | One usable token per session at most; a token is exchanged once; a replay kills what it was exchanged for; a session ends only for a reason, and never resumes |
| Accounts: signup and login in `app/routes/auth_local.py`, provisioning in `app/routes/oauth.py` | `users` (unique e-mail, unique username, both nullable), `auth_identities` (unique provider and uid) | `signup`, `callback`, `login` | No user without identity or the reverse; one user per provider account; only a verified e-mail joins an account; a 409 is true |
| OAuth login: `app/routes/oauth.py` | `oauth_states`, `oauth_codes`: single-use and short-lived | `authorize`, `callback`, `exchange` | A state or a code works once and for its provider; a consumed code ends in a session |
| Password reset: `app/routes/auth_reset.py` | `password_resets`, `users.password_hash` | `reset_request`, `reset`, and `login` for what it reads | Only a mailed, unused, unexpired token replaces a password, once; the old one is dead afterwards |
| Front end: `frontend/src` | access token in `sessionStorage`, refresh cookie, the mounted page, pending fetches, the cache of exchange promises | Login, OAuthCallback, Me | The code is posted once, the page does not hang, signing out lasts |
| Provider boundary: `app/oauth/providers.py` | none | `exchange_code`, `fetch_userinfo`, `_normalize_userinfo` | Only an explicit yes counts as a verified e-mail; an error of a provider is a 400 |
| Access tokens: `app/tokens.py`, `me.py`, `verify.py`, `auth_token.py` | the two key files, and what each worker has cached of them | `issue_access`, `verify_access`, `public_jwk` | 900 s at most; all tokens of a worker come from one key, under the `kid` it publishes; access ends with its session, at most one lifetime later |
| Username recovery: `app/routes/auth_find.py`, mail: `app/email.py` | none | `find_username`, `send_reset_email` | The mail goes to the address on the row |
| Migrations: `alembic/`, started by `dev.sh` | the schema, its version, rows that do not fit the older one | `upgrade`, `downgrade` | The schema is always that of the version, and moves only as a run was told; a run fails only for a reason; runs do not lock each other out; what is served is migrated |
| Rate limits, configuration, assembly, form pages | counters in each worker | | |

How they interact: `login` and `exchange` open a chain of refresh tokens with
`issue_refresh`; `token_refresh` rotates it; `callback` finds or creates the
account before it mints the code, from what the provider boundary made of an
answer; `reset` replaces the hash `login` reads; every one of them that opens or
continues a session signs an access token, which nothing takes back. The
browser holds the access token in script and the refresh token in a cookie
that only responses change.

What is hard about it, and hard to test, is listed under `hazards` in
`PROJECT.json`, each at its line. In short: check-then-act on rows that others
write (`refresh.py:111`, `auth_local.py:69`, `oauth.py:205`); a statement's
snapshot that is older than a row it should have seen (`refresh.py:55`); lock
order (`refresh.py:53`); two transactions where one would be atomic
(`oauth.py:314-322`, `auth_reset.py:140-149`, `auth_local.py:107-121`);
responses lost after their commit (`refresh.py:144`, `auth_reset.py:100`);
values cached for the life of a process (`tokens.py:26`); DDL planned from a
version that is stale when its locks are granted, and locked across revisions
while the service is at work (`env.py:41`);
remounted pages and late answers in the browser (`OAuthCallback.jsx:44-52`).

## The modules

| Module | Models | State and actions |
|---|---|---|
| `RefreshTokens` | the table and the four operations on it | `chainOf`, `revoked`, `expired` are the committed rows; `pc`, `tok`, `locks`, `todo`, `attempt` the position, argument, row locks (which are the uncommitted writes), statement snapshot and loop variable of each request. One action per statement outcome or COMMIT: `RotateWin`/`RotateMiss` are the two results of the conditional UPDATE, `RotateExpired`/`RotateFresh`/`RotateCommit` what follows, `BurnStart`, `BurnRow`, `BurnCommit`, `BurnDeadlock`, `BurnGiveUp` the chain-wide UPDATE, `Logout` the unguarded one; `UpdateDeadlock` is a rotation or logout that is the victim of a deadlock of burns |
| `RotatingSession` | nothing: the promise of refresh tokens, in three actions | `Begin`, `Advance`, `End` on the live token of each session |
| `Accounts` | signup, callback's provisioning, the lookup of login and reset-request | `users`, `identities` are committed rows, `draft` the user row an open transaction has flushed; `CheckTaken`, `FindIdentity`, `MatchEmail`, `LookUp` are the SELECTs, `InsertUser`/`UserTaken` the flush, `Commit`/`IdentityTaken` the rest |
| `OAuthFlow` | authorize, callback, exchange | `stateOf`, `codes`, `used`, `expired`, `sessions`; `ConsumeState`, `CallProvider`, `Provision`, `ConsumeCode`, then `IssueSession`, or `SignFails` if no access token can be signed |
| `Providers` | the provider boundary, functions only | `Normalize` is `_normalize_userinfo`, `Verdict` how callback goes on; `OAuthFlow` instantiates it for `CallProvider`, `Accounts` for the e-mail it trusts |
| `PasswordReset` | reset-request, reset, login against them, and username recovery | `password`, `mintedFor`, `used`, `expired`, `mailed`, `sessions`; `MintToken`, `SendMail`, `ConsumeToken`, `WritePassword`, `Verify`, `OpenSession`, `FindUsername` |
| `OneTimeToken` | nothing: the promise of everything single-use | `Issue`, `Take`; `OAuthFlow` and `PasswordReset` implement it |
| `AccessTokens` | signing and checking in several workers, against a clock | `disk` and `cache` are the key files and each worker's `lru_cache`, `token` what each request signed, `ended` when a session ended; `Sign`, `Rotate`, `Publish`, `Replace`, `Restart`, `Tick` |
| `Browser` | one tab of the front end and the service as it sees it | `page`, `heard`, `cached`, `form`... are what the scripts hold, `phase` where each POST is, `live` and `taken` the service, `token` and `cookie` what is stored |
| `Schema` | the three revisions, runs of alembic, and the service beside them | `schema` and `version` are what is committed in each database; `start`, `goal`, `at`, `step` where a run is in its revisions, `half` whether its statement has locked its own table but not yet the referenced one, and `done` what its transaction has made or dropped; `reads` and `inserting` the open transaction of a signup or callback. `Begin`, `Open` (the first lock of a statement with a foreign key), `Execute` (the rest of it, or a statement of one lock), `Stamp` (the version table), `Fail`, `Deadlock` (through other runs, the service or both), `Commit`, `Crash`, `Serve`; `Read`, `Insert`, `End` are the service |
| `...Proofs` | | theorems about `RefreshTokens`, `OAuthFlow`, `PasswordReset`, `AccessTokens`, `Accounts`, `Browser`, `Schema` |
| `MC...` | | instances for TLC: symmetry, and configurations beside them |

`map` in `PROJECT.json` gives the lines behind each definition. The models of
the handlers are independent: they meet in different tables, and where one
depends on another (provisioning in the OAuth flow, opening a session after a
login) it sees it as a step that succeeds or fails.

Each module contains a section of *faulty variants*: a helper or an action with
one plausible bug, such as an UPDATE that does not wait for a row lock, or a
WHERE without its expiry. No specification uses them. Each property of each
passing run has one that breaks it, listed under `mutants`: a check of the
properties, not of the code.

## How the code is abstracted

- **Time.** `Expire(t)` may happen to any token of the database at any time.
  Lifetimes (14 days, 30, 10 and 2 minutes) are not compared with each other.
  Only `AccessTokens` has a clock, because there durations matter: `Cap` stands
  for the 900 seconds, and `now` runs up to `Horizon`.
- **Answers of providers** are records of what the code tells apart: no JSON, a
  JSON object or something else; a nested object that is there, absent or of
  another type; a flag that is a Boolean, a text or no hashable value.
- **Randomness.** Tokens, states, codes and `chain_id`s are fresh random
  values, so each is named by the request that made it. Presenting a string
  that is no token is presenting `None`.
- **Requests** are a constant set; each is served once. A repeated request is
  another one that presents the same token. A client presents only what it was
  given, at any time after it got it.
- **Statements.** In `RefreshTokens` and `Accounts` one SQL statement (or the
  failure of one) is one step, under READ COMMITTED: it sees what is committed,
  an UPDATE waits for the holder of a row and re-evaluates its condition, an
  INSERT waits for an uncommitted row with the same unique key. The chain-wide
  UPDATE is finer: it takes its snapshot and then locks row by row, in any
  order, because that is where it can deadlock and what it can miss.
  PostgreSQL may also return 40001 or any other error: for requests in
  `Unreliable` (`Abort`, `BurnGiveUp`).
- **Merged steps.** Consuming a state, a code or a reset token is one step in
  `OAuthFlow` and `PasswordReset`: a conditional UPDATE of one row whose COMMIT
  is the next statement. A transaction that waits for it re-evaluates after
  that COMMIT as if it had come later, and one that holds a single row cannot
  deadlock. In `Accounts` the identity, the one-time code and the COMMIT are
  one step: between them nothing is read. In `Schema` a step is one lock
  of a DDL statement, with the last of which the statement takes effect, or the
  stamp of a version. The index of `refresh_tokens` is an object of its own,
  because dropping it locks that table and not `users`; the implicit ones come
  and go with their tables.
- **Locks of DDL.** A statement locks its own table first and then, if it makes
  or drops a foreign key, the referenced one; while it waits for the second it
  keeps the first. It waits for an open transaction that has made, dropped or
  altered the table, or that has opened a statement on it. It locks tables that
  it sees, and CREATE TABLE the name it is about to give, unless it sees the
  name taken: then it fails at once, and so does a statement on a table that it
  does not see. A DROP or ALTER also waits for the service's reads, and whatever
  locks `users` for its inserts; the service in turn waits for those locks to be
  free. PostgreSQL ends one of those that wait in a circle: a run (`Deadlock`),
  or the request (`End`). `alembic_version` is taken to exist, and the service
  has one transaction open at a time in each database.
- **Deadlocks of rows.** Only a burn waits while it holds rows, so a circle is
  one of burns. A rotation or logout that is first in the queue for a row of
  the circle is part of it, too, because those behind it wait for it:
  `QueuedInDeadlock` is that case, and its victim is a 500 that needs no
  failure of the machine.
- **Failures.** A request in `Unreliable` may die at any point at which it has
  something left to do: its open transaction is rolled back. A COMMIT either
  happened or did not; the loss of the answer to the COMMIT itself counts as a
  lost response.
- **Left out.** Hashing, JWT contents, texts of answers, PKCE, URLs, cookie
  flags, passwords as strings.
- **Browser.** One turn of the event loop is one step. The two runs of an
  effect under StrictMode happen with nothing in between that runs in the tab,
  but the service may act (`mounting`). A response arrives with its body. The
  profile GET is reduced to its result.

## What each run checks

| Run | Instance | Question |
|---|---|---|
| `refresh` | 5 requests, all may fail; 163 thousand states | Are chains safe: `AtMostOneActive`, `SingleUse`, `SessionNotLost`, `ReplayKillsSuccessor`, `NoFalseBurn`, and do they implement `RotatingSession`? |
| `refresh_fair` | 4 requests that fail only in deadlocks; 127 thousand states, fairness | Is every request answered in spite of lock waits and deadlocks; is a burn that was given up covered by another? |
| `refresh_burn` | 4 requests, none fails | Violation: a burn leaves the successor of a rotation in flight |
| `accounts` | 4 requests, all may fail, 2 e-mails, 1 further name, 2 provider accounts, one of them at Naver; 3.7 million states | Do races to register or provision leave the tables consistent, are only trusted e-mails joined, and are 409 and 500 what they say? |
| `accounts_lookup`, `accounts_callback` | 3 requests, none fails | Violations: ambiguous lookups, and a lost race in callback |
| `oauth` | 5 requests, 1 may die, 1 gets no access token, Kakao and Naver; 0.8 million states | Do states and codes work once, for one provider, and end in a session? |
| `reset` | 5 requests, 1 may fail, 2 accounts; 0.8 million states | Does a mailed token replace one password once, and is the old one dead? |
| `browser` | 3 POSTs; 0.5 million states, fairness | Is the code posted once per page load, does the page settle, does signing out last? |
| `access` | 2 requests, 2 workers, 2 key pairs, `ACCESS_TTL` 0, 2, 4 or no number, `Cap` 2, 5 instants; 1.1 million states | How long does access last, with which key, and how long after its session? |
| `schema` | 2 upgrades, 2 downgrades, all may die, any version to start from; 320 thousand states | Is the schema always that of its version, and does it move only as a run was told; do its rows fit; does a run fail only where the version has moved under it or at a user without e-mail; do runs wait in a circle only where a downgrade was overtaken; does an upgrade die in a deadlock only across two revisions? |
| `schema_live` | 1 upgrade under `dev.sh` | Violation: the served database is not the migrated one |

**Why these bounds.** A refresh conflict needs a login, a rotation, a replay of
the parent, and one or two concurrent requests: five. A deadlock of burns needs
two rows of a chain and two burns that started on a revoked row: a login, a
rotation, two replays: four. (A rotation queued between the burns is a fifth
request, which only `refresh` has; that it cannot uncover a burn is part of
`DeadlocksCovered`.) Account races need two writers, one that reads
what they left, and one more that matches a second row by its other column:
four, with two values of each key and a username that is an e-mail. A login
through a provider takes three requests, and two more repeat the callback or
the exchange or carry the state to the other provider; Kakao and Naver have
every ending that Google has. A reset takes two, and three more are a second
reset for the same or the other account and logins around them. In the browser
three POSTs are a login, an exchange and a logout, or two page loads of the
callback and a logout. For access tokens a login and a refresh of its session
on another worker are enough: the properties speak of one token, one session
and one worker at a time, and five instants let a token of twice the cap expire
too late. In `schema` two upgrades race for the same version, and two
downgrades may follow each other and undo what an upgrade has planned from. An
upgrade that moves the version under one downgrade while the other one starts
from the new version gives the circle that `NoCircle` exempts, so the bound is
large enough for circles; the three kinds of runs that hold something and not
`users` are one of upgrades and two of downgrades.

**Symmetry** is used for requests, users, addresses, workers, keys and runs of
alembic where a run checks invariants and step properties only; `refresh_fair` and
`browser` check liveness and use none.

**Fairness.** `refresh_fair` assumes weak fairness of what the server does
with one request by itself (`Serve`): the event loop runs a handler that is
ready, PostgreSQL grants a free lock and breaks a deadlock after
`deadlock_timeout`, whoever its victim is. No client, failure or clock step is
promised, so a request need not arrive. `browser` assumes weak fairness of
serving and delivering an exchange (or its failure, `Break`, which disables
both) and of the tab's continuations; the user need not do anything.

**Deadlock** is checked in every run; where everything is over, the modules
stutter in `Terminating`, except for `Browser` and `AccessTokens`, in which the
user or the operator can always do something more.

## What is proved

Each theorem is `Spec => []P` for the property `P` in the table, or `Spec => P`
where `P` is an abstract specification, for every value of the constants that
the module's assumption allows; the sets of requests, users, workers or keys
may be infinite.

| Module | Theorems (property) |
|---|---|
| `RefreshTokensProofs` | `TypeCorrect` (`TypeOK`), `OneActive` (`AtMostOneActive`), `Exchange` (`SingleUse`), `ReplayBurns` (`ReplayKillsSuccessor`), `SessionKept` (`SessionNotLost`), `BurnJustified` (`NoFalseBurn`), `DeadlocksCovered` (`SwallowedBurnCovered`), `Refinement` (`RotatesSessions`) |
| `OAuthFlowProofs` | `TypeCorrect`, `NoProviderMixUp` (`NoMixUp`), `WinnerSignsIn` (`CodeNotWasted`), `LoginRefinement` (`OneSessionPerLogin`) |
| `PasswordResetProofs` | `TypeCorrect`, `OnlyByMail` (`PasswordOnlyByMail`), `ConsumedChanges` (`TokenNotWasted`), `OldPasswordOut` (`OldPasswordDead`), `ResetRefinement` (`OneResetPerToken`) |
| `AccessTokensProofs` | `TypeCorrect`, `HardCap` (`ShortLived`), `KeysMatch` (`KidIsStable`), `AccessEnds` (`AccessFades`) |
| `AccountsProofs` | `TypeCorrect`, `Together` (`NoOrphans`), `SubjectsStay` (`OneUserPerSubject`), `JoinedOnTrust` (`LinksAreTrusted`), `ConflictsAreReal` (`ConflictIsReal`), `RetriesFind` (`RetryWillFind`) |
| `BrowserProofs` | `TypeCorrect`, `PostsOnce` (`PostedOnce`), `LogoutLasts` (`LogoutRevokes`), `SignsInOnce` (`SignInOnce`) |
| `SchemaProofs` | `TypeCorrect`, `SchemaIsVersion` (`CatalogIsVersion`), `IdOnlyKept` (`IdOnlyFits`), `FailsForCause` (`FailuresHaveCause`), `CirclesAreStale` (`NoCircle`), `MovesOnlyAsTold` (`MovesAsTold`), `OneUpNeverDeadlocks` (`OneUpIsSafe`), and `ServesLatestUnexported`: `ServesLatest`, which the run `schema_live` refutes, holds where `Exporting` and `Operators` are empty |

The assumptions are those the modules state by name (`RequestsAssumption`,
`OAuthFlowAssumption`, `PasswordResetAssumption`, `AccessTokensAssumption` and
`NoTokenAssumption`, `AccountsAssumption`, `BrowserAssumption`,
`SchemaAssumption`): failing requests are requests, and so for migrations,
e-mail addresses may serve as usernames, the cap is positive, and `None` is
none of the values it stands beside. TLC evaluates them in every run.

Hardly any of the properties is inductive. Each proof has an invariant `IInv`
that adds what the open transactions know, one case per action (`NextIInv`),
and the theorems as consequences.

- `RefreshTokens`. `AtMostOneActive` says nothing of the request that is about
  to insert a successor: that its parent is still unrevoked, still locked by it
  and by nobody else, so that the commit trades one active row for another.
  `LockDiscipline`: rows are locked only where a transaction is open, a
  rotation holds exactly the unrevoked row it was given, a burn rows of its own
  chain. `Exclusive`: a row is held by one transaction. `RowsWellFormed`: a
  token that has a successor is revoked and in the successor's chain. The other
  properties follow by lemmas on single steps: who can insert (`Writers`), that
  revoked rows stay revoked (`NextKept`), that what ended a session
  (`EndedStays`) or caused a burn (`CausesStay`) stays true. The refinement maps
  `RotateCommit` to `Advance`, `IssueRefresh` to `Begin`, and `RotateExpired`,
  `BurnCommit` and `Logout` to `End` if the chain still had a live token
  (`RevokeEnds`) and to a stutter otherwise. `SwallowedBurnCovered` needs one
  more invariant, `GivenUpCovered`: a burn that gave up is covered by one of
  its chain that committed, that is still under way, or that met an outright
  failure. It holds because a deadlock has a partner (`DeadlockPartner`): the
  victim waited for a row that another transaction of the chain held, and the
  only ones that wait while they hold a row are burns.
- `OAuthFlow`. `RowsHaveMakers`: every state, code and session is that of the
  request whose answer says so, and nothing else is ever used up. `Winners`: of
  the requests that present one state at most one is past `ConsumeState`, and
  it came back from the state's own provider; the same for codes. Two exchanges
  of one login would be two winners of one code or of one state.
- `PasswordReset`. `Knows`: what a request holds at each of its steps. `Holds`:
  a reset past `ConsumeToken` holds a mailed, unexpired token of the user it is
  about, and holds it alone. `Replaced`: once a reset of an account is answered
  its password is never the first one again. `LateFails`: so a login with the
  first password that arrives after that answer cannot pass `Verify`.
- `AccessTokens`. `Stages`: what a request has at each step. `Dated`: no token
  is signed in the future or for more than `Cap` (lemma `LifetimeClamped`, for
  every integer `ACCESS_TTL`). `InTime`: a token is not younger than the end of
  its session, unless its refresh was caught between rotation and signature.
  `KidIsStable` is inductive.
- `Accounts`. `Kinds`: the handlers do not mix. `UsersMade`, `IdentitiesMade`:
  a row is what the request it is named after, answered with success, has
  inserted; a key belongs to one identity. `Drafted`: a transaction about to
  commit has flushed its own user or links to the one with its verified e-mail.
  `Answers`: a callback answers for the user of its identity. The lemma
  `Reading` does the steps that write no table; lemmas on `Providers` say which
  flags are trusted.
- `Browser`. `CallsAge`: a cookie, and a call the service has granted, are
  those of a call that was served, so a call to come cannot open its session
  again. `OneExchange`: the one exchange of a page load is the cached one, which
  remounting does not reset. `SignedOut`: a session revoked by a logout stays
  so. `LandedOnce`: a call whose token was stored is done, and a body that was
  read is not read again, which is `SignsInOnce`.

- `Schema`. `OnTheWay`: a run is between `start` and `goal`, and what it has
  done is what lies behind it and the first `step` statements of the next
  revision. `Exclusive`: two transactions hold no table of a database in
  common. `Current`: once a run has stamped, the version it read is still that
  of its database, because the version table is locked; what it has made is
  seen by nobody else, what it has dropped still by everybody. So a run that
  gets through to its commit replaces exactly the schema it has planned from.
  `Halfway`: a run that has opened a statement is still at it, and if it goes
  down the table to be dropped is still there. `InsertsProtected` and
  `ForbidsRightly` are for `IdOnlyFits`: nobody has touched `users` under an
  open insert, and NOT NULL was put back only where no row is without e-mail.
  `FailuresHaveCause` is a look at each statement: while the version is still
  the one a run has read, it sees what the revision expects (`Current`), so
  nothing but a row can refuse it. `NoCircle` asks what can be held without
  `users`, which is little (`Kinds`): a new `oauth_states`, a dropped index of
  `refresh_tokens`, an `oauth_codes` that is about to be dropped. Runs with so
  little wait only for a holder of `users` (`LittleWaits`), of whom there is
  one at a time, and that one waits for none of them, unless the database is
  at version 0, where the other does not wait for it, or a downgrade was
  overtaken (`BigWaits`). `OneUpNeverDeadlocks` follows a circle from an
  upgrade of one revision through runs and the service and leaves it again
  (`Escape`, `UpgradeDeadlock`).

What is only model-checked: liveness (`EveryRequestAnswered`,
`CallbackSettles`), which is out of reach of TLAPS, as is everything about
ENABLED. The modules declare no RECURSIVE operator, and the proofs need no
induction over data.

## Where the code and its documents disagree

Four runs end in a counterexample to a sentence of the repository; the quotes
are under `findings` in `PROJECT.json`.

1. *A burn is not total* (`refresh_burn`). A replay of an old token burns the
   chain with one UPDATE, which cannot see the successor that a rotation of the
   current token commits while the burn waits for it. The test of concurrent
   rotations replays the *current* token, where the successor is committed
   before the burn starts (`ReplayKillsSuccessor`).
2. *A lookup may be a 500* (`accounts_lookup`): a signup, login or
   reset-request whose identifiers belong to two users.
3. *A callback with a verified e-mail may be a 500* (`accounts_callback`); a
   retry then finds its account (`RetryWillFind`).
4. *The migrated database is not the served one* (`schema_live`): `dev.sh`
   exports `TEST_DATABASE_URL`, which `env.py` prefers.

The models have four more such outcomes, of which no run is made:

- A swallowed burn may be covered by nobody: the comment at `refresh.py:66-67`
  is right for deadlocks (`SwallowedBurnCovered`, `DeadlocksCovered`), but the
  `except` takes every other database error too, and only then may a chain stay
  half burnt.
- A provider's answer of an unexpected shape is a 500 after the state was
  consumed (`Providers.Verdict`), where `oauth.py:187-188` says "never a 500".
- `find_username` answers 500 when the mail server does, but only for addresses
  that have an account (`SendUsername`, `Abort`), where its docstring says
  "ALWAYS returns an identical generic 202".
- An `ACCESS_TTL` that is no number fails a refresh after its rotation was
  committed (`SignFails`). The sample `.env.example:32` has a comment behind
  the number, which `dev.sh:42` exports with it.

Two more outcomes contradict no document, but an operator should know of them.
A deployment across two revisions may die in a deadlock with a running service
(`Deadlock`, and `at[m] # start[m]` in `OneUpIsSafe`): `env.py` runs all
revisions in one transaction, which keeps inserts off `users` from
`oauth_codes` on and wants to alter `users` later. And a downgrade that was
overtaken may deadlock with another one: it plans from version 2, an upgrade
commits 3, a second downgrade alters `users`, and then the first has locked
`oauth_codes` and waits for `users`, while the second waits for `oauth_codes`.
Nothing is half migrated in either case, but one of the runs has to be started
again, and in the first `dev.sh` does not go on to start the service.

## What is not modelled

- Rate limits and CORS: slowapi counts per client address in the memory of each
  worker, and behind the nginx proxy all clients share one address. A request
  it refuses never reaches its handler, which is a request that does not arrive.
- Configuration, the redirect whitelist, hashing: functions of the environment.
- Application assembly, the connection pool, statement timeouts, several
  database servers.
- The form pages of the front end: one POST each, no session.
- Offline migrations, which print SQL; the pidfile and ports of `dev.sh`; the
  containers.
- Which token a request carries, if cookie and body differ: `token_refresh`
  takes the body's, `logout` the cookie's. Either is one presented token.
- That a reset leaves sessions and older reset tokens alive, that access tokens
  outlive their session by up to a lifetime, and that a request which dies
  after consuming a code or a reset token has lost it, is the behaviour of the
  code, of which the repository promises nothing else; the models have it.
- That the `kid` belongs to the key. A worker that reads its two key files
  around a replacement of them signs with one key under the `kid` of the other:
  the model has it, and `KidIsStable` says only that the worker keeps to that.
