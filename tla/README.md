# redrx: models, model checks and proofs

redrx is a URL shortener in Go: a Gin server over SQLite or PostgreSQL, with
signed-cookie sessions, an optional Redis for rate limits, a phishing blocklist that
a background worker downloads, and a memory-mapped GeoIP database. This directory
holds TLA+ models of the parts of it in which order, failure or concurrency decide
whether it is right, TLC configurations that check them on small instances, and
TLAPS proofs of what holds for every value of the constants. Source references are
to `src/` of the repository.

## 1. The system

### Components, their state and what makes them correct

| Component | Code | State | Operations | Correct when |
|---|---|---|---|---|
| Link handlers and link store | `internal/web/handlers_pages.go`, `handlers_redirect.go`, `handlers_api.go`; `internal/store/urls.go`, `clicks.go`, `store.go` | rows of `urls` and `clicks`; open transactions; the connection pool | create (form, API), redirect and record a click, edit, publish, toggle, delete, bulk delete | counters equal the click log; no click outlives its link; codes are unique; only owners change links; a bulk delete is all or nothing; a toggle reports what it did; every request is answered |
| Short codes | `internal/shortcode/shortcode.go` | none | draw codes until one is free, twenty times at most | gives up rather than going on forever |
| Blocklist checker | `internal/safety/safety.go` | the list file; the parsed copy and its fingerprint; `reloadMu` | `CheckURL` (stat, compare, reload), `Refresh` (feeds, temporary file, rename) | answers come from a current, complete list or are `ErrListUnavailable`; the copy never goes back; no error path keeps the mutex |
| Sweep of blocked links | `cmd/redrx/main.go` `sweepBlockedLinks` | rows read, links doomed | read all rows, check each, delete | deletes only what a list that could be consulted blocks; an aborted sweep deletes nothing; a blocked link goes in the end |
| Maintenance worker | `cmd/redrx/main.go` `maintainBlocklist` | two tickers with one-place channels, boot retries, the context | refresh, sweep, stop | the list stays fresh; neither schedule starves the other; it stops |
| Two-factor authentication | `internal/web/handlers_security.go`, `internal/store/users.go` | secret, flag and recovery codes of an account | start, confirm, disable, second step of a login | a recovery code works once; the flag, the secret and the codes change together; only disabling disables |
| Sessions, anonymous proof of work | `internal/session/session.go`, `internal/web/middleware.go`, `respond.go`, `privacy.go`, `internal/pow/pow.go` | the browser's cookie, which is the whole session; responses under way | login, second factor, logout, link passwords, messages, CSRF token, challenge, shrinking to size | no cookie says more than was proved; tokens rotate at login; cookies fit and shed messages first |
| Rate limiter | `internal/ratelimit/ratelimit.go`, `redis.go` | counters by client, clause and window, in a map or in Redis | `Allow`, the reaper, expiry | no window lets more through than its limit; nobody is denied for another's calls; a bad limit string does not lift limits; the map does not grow forever |
| GeoIP resolver | `internal/geo/geo.go` | the mapping, its fingerprint, `missing`/`closed`, an `RWMutex` | lookup, reopen, `Close` | no read of unmapped memory, no leak, no stale database after a check, no deadlock |
| Process lifecycle | `cmd/redrx/main.go`, `internal/web/server.go` | server, worker, database, limiter, resolver; the context | open, migrate, serve, drain, wait, release, close | only a complete schema is served; what is used is closed last; every start and shutdown ends |
| Schema and migrations | `internal/store/migrate.go` | tables, columns, indexes; the advisory lock | `Migrate` | two processes may start at once, on any schema a version or a crash left |
| Forms: dates and lifetimes | `internal/web/forms.go`, `handlers_pages.go`, `handlers_api.go`; `types.go` `IsActive` | start, end and expiry of a link; an open edit page | create, open the edit page, save | nothing accepted is dead from the start; visitors' links expire; a save that changes nothing keeps the dates |
| Statistics | `internal/web/handlers_stats.go`, `internal/store/clicks.go` | none | `timeBuckets`, `ClicksByTimeBucket` | each click since the cutoff is drawn once, at its hour or day |
| Client address | `internal/web/middleware.go` `proxyHeaders`, `internal/config/config.go` `ClientIPFromForwarded`, `internal/geo/geo.go` `ClientIP` | none | resolve the visitor of a request | the visitor's own address behind the configured proxies, whatever the headers say |
| Accounts | `internal/store/users.go`, `handlers_pages.go` | rows of `users` | register, API key, rehash | names, addresses and keys belong to one account |
| Other form fields, other configuration, password and secret cryptography, QR codes, pages, logging, health | see `PROJECT.json` | none of their own | | pure functions, reads or output |

### How they interact

* Requests meet in the database only: handlers hold no locks and read a link or an
  account first (`ownedLink`, `wrap`, `Lookup`) and write it some statements later.
  What overlaps is up to the pool (one connection for SQLite, 25 for PostgreSQL at
  READ COMMITTED) and to row locks.
* A redirect calls the resolver and the checker before it records its click; both
  keep state of their own under a mutex and neither touches the database.
* The worker shares the list *file* with the checker (by rename), the `urls` table
  with the handlers, and one goroutine with itself: two tickers, one `select`.
* Responses of one browser overlap; each carries a whole session, the last to arrive
  is the session.
* At shutdown the HTTP server drains, the context is cancelled, `run` waits for the
  worker, and the resolver and the database are closed.
* Processes of a rolling deploy meet in the schema and in PostgreSQL's advisory lock.
* Every call of the limiter, every click and every challenge is for the client address
  that `proxyHeaders` left in the request.

### What is hard

Statements of different requests interleaving between a read and the write that
relies on it; a transaction cut short, a deadlock victim, a COMMIT whose reply is
lost; a list or database file replaced between two system calls; responses applied
out of order; a migration that is cut short while another waits for it or serves
already; tickers that share a goroutine; counters at the end of a window; error
paths that keep a lock or a connection. `PROJECT.json` lists these hazards line by
line with the properties that cover each, and says of the others why no property
does.

## 2. Modules

| Module | Models | Theorems in | Instances |
|---|---|---|---|
| `Links` | links and clicks, statement by statement, on either database | `LinksProofs` | `MCLinks`: `LinksPostgres`, `LinksSQLite` |
| `LinkDirectory` | the abstract directory `Links` implements: each operation at once | `LinksProofs` | through `Links!ImplementsDirectory` |
| `Blocklist` | `CheckURL` and `Refresh` over the file system | `BlocklistProofs` | `BlocklistReads` |
| `Sweep` | a sweep against owners, lists and restarts | `BlocklistProofs` | `SweepRaces` |
| `TwoFactor` | one account's second factor, statement by statement | `TwoFactorProofs` | `TwoFactorPostgres`, `TwoFactorRestarted` |
| `Geo` | the resolver under its `RWMutex` | `GeoProofs` | `GeoReads` |
| `Maintenance` | the worker against the clock | `MaintenanceProofs` | `MaintenanceAges` |
| `RateLimit` | `Allow` over both backends, with the clock | `ClockProofs` | `MCRateLimit`: `RateLimitCounts` |
| `ClientAddress` | whom a request counts for, as operators over its headers | `ClockProofs` | `MCRateLimit`: `RateLimitCounts` |
| `Session` | the cookie and every handler that changes it | `SessionProofs` | `MCSession`: `SessionCopies` |
| `Deploy` | the life of several processes on one database: migrating, serving, stopping, crashing | `DeployProofs` | `Deploy` |
| `Schedule` | start, end and expiry of a link through the forms, against the clock | `ClockProofs` | `MCSchedule`: `Schedule` |
| `Statistics` | the buckets of the time series, as operators over the clicks | `ClockProofs` | `MCSchedule`: `Schedule` |

`MCRateLimit` joins the limiter to the address a call is made for, and `MCSchedule` asks
for the statistics page by the clock of `Schedule`, which it lets pass midnight.
Two proof modules extend two components each: `BlocklistProofs` the list and the sweep
that deletes by it, `ClockProofs` the limiter and the schedule. The names that both
would have are told apart in `Sweep` and `Schedule` (`SweepInit`, `ScheduleNext`).

In each module a comment on every variable says what it stands for; variables marked
*history* are not in the program and only serve properties. An action is one
statement, system call or critical section of the code, with the assignments that
follow it up to the next one. `map` in `PROJECT.json` gives the lines of each
definition. Definitions introduced as *Mutant* are not part of the specification:
each is a plausible wrong version of the definition after it, kept to show that the
properties tell the two apart.

### Correspondence, and what is abstracted

**Links.** `pc[r]` is the statement request `r` executes next, or its last answer. A
request that is done frees its slot, so a run of any length fits in `Requests`.
`tx[r]` holds the writes of an open transaction; `Commit` applies them. `Runs(r)` is
the connection pool for SQLite and the row locks for PostgreSQL: a second UPDATE of a
row, a DELETE of a row being updated or of a link a click being inserted refers to,
wait. `DeadlockVictim` is PostgreSQL's choice among requests that wait in a circle,
`Fail` every error and every client that goes away, `LostAck`/`Done` a COMMIT or an
autocommitted statement whose reply is lost. A crash of the process is `Fail` of
every request in flight. `UniqueViolation` is the index on `short_code`,
`CheckReferences` the foreign key of `clicks`. Not in the model: validation of forms,
schedules, link passwords and the blocklist, which only end a request early (a
redirect may end early for no shown reason); the columns nothing here reads;
`last_accessed_at`, which is a statement that takes the row lock and sets nothing; the
columns of a click. `deleteBatchSize` is `BatchSize`; which ids share a batch is left
open.

**Blocklist.** A list is the feeds it has domains of, with a `mark` in place of
modification time and size; every rename gives a new one. A check is `stat`,
compare, lock, `stat` again, open, parse, install. Files vanish, reads fail, feeds
fail one by one, the process restarts. The host-in-list match, the manual list and a
checker that is disabled or has no path have no state and are left out (the manual
list is in `Sweep`).

**Sweep.** A row is its long URL and its rotation targets; a target is a domain or
something that is no web address. `Create`, `Edit` and `Delete` are single actions:
`LinksImplementDirectory` is what allows that. The device targets are left out
because the code leaves them out.

**Maintenance.** Time passes in ticks. A download, a sweep and a pause take up to
`Download`, `Sweeping` and `Pause` ticks, any shorter time included; the doubling of
the pause is not distinguished. `Urgent` stops the clock while the worker could go
on, so that the worker is prompt.

**TwoFactor.** Secrets and batches of recovery codes are numbered in the order they
are made. `shown` is what the owner has seen of secrets, `known` the codes shown. A
TOTP code is right or wrong by choice of the request; how it is computed and encrypted
is left out. `Dialect` matters for `Runs` only.

**Geo.** A mapping is a number, `gen` what file it was made of. `readers`, `blocked`
and `writer` are the `RWMutex` of the Go library: a writer announces itself and later
readers queue behind it; when it unlocks the queued readers go first. A restored file
gets a new generation. The Cloudflare header and the Redis cache answer before
`lookupDB` and are left out.

**RateLimit.** A call reads the clock once, then hits its clauses one by one; `MaxDelay`
bounds how late the last hit may be. For Redis `opTimeout` gives such a bound, for the
map it is an assumption. `Margin` is what Redis keeps a key beyond its window.
`IncrFails` is a Redis that fails before or after it counted; the code lets the clause
pass then.

**Session.** `resp[r]` is a response under way with the cookie it sets; `Deliver` makes
it the browser's, `Lose` drops it, in any order. A request may be sent with a form of
any page that arrived before. Size is the number of link authorisations and messages
against `Room`; the signature is taken as given, that is, the browser sends cookies
it was given. The hash puzzle of a challenge is found or not by choice. `PendingNext`,
the time of issue and the consent cookie are left out.

**Deploy.** `pc[r]` is where `run` of process `r` is. A table is the set of its columns,
the empty set when there is no such table; `at[r]` is the table or index that `Migrate`
has come to. In SQLite a `CREATE ... IF NOT EXISTS` is one step. In PostgreSQL the test
and the commit are two, and of two transactions that passed the test the later one
fails. `lock` is `pg_advisory_lock`: it belongs to a session, and so goes with the pinned
connection (`LoseConnection`), with the process once the server has noticed
(`Crash`, `SessionEnds`), or with the pool (`CloseDB`). `orphans` are statements that the
server still executes though their client has gone. `Fail` is every error and every
cancellation of the start; it goes by way of the deferred calls. `abandoned[r]` says that
nobody waits any more for the requests in flight. The initial schemas are all that an
earlier version, or one that was cut short, can have left. Columns of an older version
that this one does not know are left out, as are the rows.

**Schedule.** One link, one edit page that may stay open, a clock. Forms show dates by
the minute and lifetimes by the hour; the API takes dates with seconds. `Blank` is the
empty field, which means the default at creation and "keep" at an edit. `handleCreate`
and `handleAPIShorten` are two disjuncts because they validate in different orders.
A date in the past may be entered, as in the code. Names of fields, time zones and
parsing are left out.

**Statistics.** A label is the hour of the day or the date, as in the code, which is why
labels of different days can be equal. `Values` puts the query, the cutoff and the
labels together as `handleStats` does.

**ClientAddress.** Addresses are model values. The visitor sends any X-Forwarded-For and
CF-Connecting-IP; the proxies, which are not part of the program, append to the former
and Cloudflare sets the latter. `proxyHeaders` reads the first X-Forwarded-For line
only; the model has one line, as proxies that append to it leave it.

## 3. What the runs check

Every run finishes in minutes with two workers. Bounds are CONSTANTS; a comment in the
configuration says what makes them enough for the cases that matter.

| Run | Question | Properties |
|---|---|---|
| `LinksPostgres` | Two requests that create, redirect, edit, toggle or delete in bulk interleave statement by statement at READ COMMITTED, with failures, lost replies and deadlock victims. Do the tables look as if each operation happened at once? | `CounterMatchesLog`, `NoOrphanClicks`, `BulkAllOrNothing`, `ImplementsDirectory` |
| `LinksSQLite` | The same over one connection, with two users who take turns with one code. Is every request answered, and do links change only for their owners? | `OwnersOnly`, `ToggleReportsOutcome`, `EveryRequestAnswered` |
| `BlocklistReads` | Two checks read the list while a refresh replaces it, it vanishes, reads fail and the process restarts. | `AnswersCurrent`, `EveryFeedConsulted`, `CacheNeverGoesBack`, `EveryCheckAnswered` |
| `SweepRaces` | A sweep races owners and lists that come and go. | `OnlyMatchesAreDoomed`, `AbortDeletesNothing`, `BlockedLinksGo` |
| `TwoFactorPostgres` | Two tabs enrol, confirm, disable and log in at once. | `CodesWorkOnce`, `SwitchesAreAtomic`, `EveryRequestAnswered` |
| `GeoReads` | Two lookups and `Close` share the mapping while the file is replaced. | `NoReadOfUnmapped`, `NothingLeaks`, `QueriesCurrent`, `EveryCallReturns` |
| `MaintenanceAges` | Two schedules share a goroutine; either is slower than an activity. | `ListStaysFresh`, `SweepsGoOn`, `WorkerStops` |
| `RateLimitCounts` | Late calls hit the counters around the ends of windows, on both backends. Is a call counted for the visitor who made it, whatever proxies and headers it came with? | `WithinLimit`, `DenialsJustified`, `LimitsApply`, `CountersGo`, `CountsForTheVisitor` |
| `SessionCopies` | Responses arrive in any order or never. | `IdentityProven`, `TokenRotates`, `CookiesFit` |
| `Deploy` | Two processes start, migrate, serve, are cancelled, crash and stop, again and again, on either database and any schema left behind. | `ServesCompleteSchema`, `StartsDoNotCollide`, `NothingUsedAfterClose`, `EveryStartEnds` |
| `Schedule` | A link is created and edited with any dates and lifetimes while time passes and an edit page grows old; the chart is asked for at every instant around midnight. | `AcceptedLinksCanOpen`, `UntouchedSaveKeepsExpiry`, `AnonymousLinksExpire`, `EachClickCountedOnce` |

One run, `TwoFactorRestarted`, expects a violation; section 6 tells what it shows. What
the proofs rest on (`IndInv`, `ListInv`, `DeployInv` and the like) was checked by TLC on
these instances before it was proved, and is not checked again.

**Bounds.** Two requests (checks, lookups, calls) are enough for every hazard listed:
each is a race of two actors, with the environment (a refresh, a closer, a failure)
as a third; a slot is used again, so a run holds as many requests as it likes, two at
a time. Two link ids let SQLite and PostgreSQL hand out a new id while the old link's
code is free again; one click tells a counter from a log; a batch size of one makes a
bulk delete of two links take two batches. Two list marks and two generations are a
before and an after; a third mapping in `Geo` is one made after the file came back.
Two secrets and two batches let an enrolment be replaced by another. In
`MaintenanceAges` the tickers, 6 and 5 ticks, drift against each other so that every
offset occurs. In `RateLimitCounts` windows of 3 and 4 ticks end at different times,
one limit string has two clauses that share a counter, calls are made up to the start
of the second window of 3 ticks, one may be late by two ticks, and the clock runs on until Redis has expired a counter; two reverse proxies
and one edge of Cloudflare give every way of up to two hops, two made-up entries and a
`maxForwardedHops` of three a header that is too long. In `Deploy` two tables let one
migration be a table ahead of the other, two columns leave a table half altered, and one
orphan is a statement that outlives its client while somebody else migrates. In
`Schedule` the dates lie before, at and after the ends of the lifetimes, some of them not
on the minute; the hours entered include none, zero, the maximum and one too many; the
clock runs for almost two hours. Symmetry
is used in safety runs only, over slots, users and codes that no constant tells apart.

**Deadlock** is checked except in `RateLimitCounts`, `SessionCopies` and `Schedule`, where
the clock, the calls, the tokens and the logins run out and nothing is left to do.

**Fairness**, and why the code has it:

* `Links`, `TwoFactor`: strong fairness of each request's statements. `database/sql`
  serves requests that wait for a connection in the order they came, and databases
  queue for row locks; weak fairness would not do, since a waiting statement is
  enabled and disabled again as others come and go. Failures, new requests and
  arrivals are never fair.
* `Blocklist`, `Geo`: strong fairness of each call, as Go's `sync.Mutex` and `RWMutex`
  do not starve a waiter. In `Geo` the announcing writer and the queued readers are in
  the model, so what fairness adds is only that a free lock goes to somebody who
  waits again and again.
* `Sweep`, `Maintenance`, `RateLimit`: weak fairness of the worker, of time and of the
  reaper: goroutines run, tickers tick, Redis expires keys. Cancelling, crashing,
  restarting and vanishing files are never fair. `BlockedLinksGo` is about behaviours
  in which restarts and failing deletes stop for good; nothing else would be true.

* `Deploy`: weak fairness of each process's `Run`: goroutines go on, the server answers
  or refuses a statement, and a statement that can only fail does; the worker sees its
  context. Strong fairness of `AcquireLock`: PostgreSQL hands the lock to those who wait
  in order. Weak fairness of `SessionEnds`: TCP keepalives tell the server that a client
  is gone. Signals, failing listeners, crashes, lost connections and the end of requests
  in flight are not fair; a drain ends without them by its time budget.

## 4. What is proved

`tlapm` checks every proof to its leaves. The theorems hold for any number of
requests, users, codes, checks, feeds, lookups, calls, proxies or ids, for both
databases and both backends of the limiter, and for all intervals, windows, limits and
dates that satisfy the assumptions. Every safety property of a passing run is one of
them.

* **Links** (`LinksProofs`). `Invariant` is `Spec => []IndInv`, with
  `IndInv == TypeOK /\ TxInv /\ PoolInv /\ TablesInv`. That counters match the log is
  not inductive: a commit applies what its transaction has written, so `TxInv` says of
  every open transaction which statement wrote what (`WritesInv`), that it was computed
  from what is still committed (`BasisInv`: the row lock keeps the counter a bump read,
  the foreign key accounts for every click of a link that goes), and that two
  transactions do not write the same (`ApartInv`). `PoolInv` is what makes SQLite's
  read-back and its unlocked reads sound. From it follow `CounterNeverDrifts`,
  `ClicksGoWithTheirLink`, `OneLinkPerCode`, `TogglesReportWhatTheyDid` and, step by
  step, `LinksImplementDirectory`: `Spec => Directory!Spec`, with the committed tables
  as the refinement mapping and every statement but the committing ones a stutter.
  `OwnersOnly` needs more than that a handler checks the owner, because a code may be
  freed and taken by somebody else between the check and the write: `OwnerInvariant`
  says of each request that from the read to the last statement the *id* it works on
  is a link of its user that has the code it asked for (`ClaimInv`; ids are never used
  again, so it stays one), and of a bulk delete that whatever it has not yet removed is
  in a batch to come, or is removed by this transaction (`BulkInv`). Then
  `OnlyOwnersChangeLinks` and `BulkDeletesAtOnce`.
* **Blocklist** (`BlocklistProofs`). `ListInvariant`: `ListInv` joins `DiskInv`
  (marks on disk only grow, and the fingerprint is that of the list which was parsed)
  with `CheckInv` (only the holder of `reloadMu` reloads, and what it has open is at
  least as new as the copy). Then `ChecksAreCurrent`, `ChecksConsultEveryFeed`,
  `CacheOnlyAdvances`.
* **Sweep** (`BlocklistProofs`). `SweepInvariant`, `OnlyMatchesCondemned`,
  `AbortsDeleteNothing`.
* **TwoFactor** (`TwoFactorProofs`). `TwoFactorInvariant`: one transaction at a time
  holds the account's row, what it will commit is a new batch, and a code that can
  still be accepted, or will be once committed, has not been. Then
  `RecoveryCodesWorkOnce`, `OneEnrollmentAtATime`, `SwitchesWithItsCodes`.
* **Geo** (`GeoProofs`). `GeoInvariant`: `MutexInv` (readers and writers exclude each
  other) and `ReaderInv` (what is read is the reader, no older than its fingerprint).
  Then `QueriesReadMappedPages`, `CloseLeavesNothing`, `ChecksAreHonoured`.
* **Maintenance** (`MaintenanceProofs`). `MaintenanceInvariant`: `TimeInv` relates the
  tickers to the time an activity has taken, `AgeInv` the age of the list to the next
  tick. Then `ListIsFresh` and `TickersAreServed`, for all intervals in which a
  download and a sweep together take less than either ticker's interval
  (`MaintenanceAssumption`).
* **Session** (`SessionProofs`). `SessionInvariant`, over every copy of the cookie, the
  browser's and those under way. Then `CookiesSayWhatWasProved`, `LoginRotatesToken`.
  `CookiesAlwaysFit`: whatever is put into a cookie, what `shrinkToFit` leaves of it fits
  (`ShrunkFits`), and every handler saves one copy at most and changes none that is saved.
* **RateLimit** (`ClockProofs`). That a window is kept to its limit is not inductive:
  a counter that were forgotten while calls may still hit it would start again at zero.
  `RateInvariant` is `Spec => []RateInv`. `CallInv` bounds how late a call is; `OneRound`
  says that what a window let through is in a counter which lives until no call can come
  for it, which is where `MaxDelay <= Margin` enters for Redis. The map counts a window
  from its first hit, not from its start, so with calls more than a tick late it may
  start over: `TwoRounds` tells the second counter from the first by when it ends, and
  shows that there is no third. `HitsInv` bounds a counter by the hits on its window, if
  no other clause shares it. Then `LimitsAreKept`, `OnlyItsHitsDeny` and
  `EveryClauseIsAsked`.
* **ClientAddress** (`ClockProofs`). `ConfiguredWaysResolve`: for any header, any
  number of proxies and either setting of `USE_CLOUDFLARE`, the walk from the right stops
  at the visitor (`WalkStopsAtVisitor`: what lies to the right of it are the hops, which
  are trusted, and it is no proxy itself). Then `CallsCountForTheVisitor`, with the
  hypothesis that the clients of the limiter are visitors.
* **Schedule** (`ClockProofs`). `ScheduleInvariant`: `TabInv` says of an open edit page
  that it shows the dates of the row as it was, and that its lifetime, counted from when
  it was opened, ends between the row's expiry and an hour later. It is what a save
  of the page starts from (`UntouchedPagesKeepExpiry`). `SchedulesCanOpen`: the instant
  at which an accepted link works is the one its lifetime is counted from.
  `AnonymousLinksAreTemporary` is inductive with the types, since that instant never
  moves back.
* **Statistics** (`ClockProofs`). `EveryClickHasItsBar`, for any instant and any number
  of instants to the hour: a click since the cutoff lies in one of the labelled hours or
  days (`SinceIs`), and has the label of that one alone (`LabelIs`; 24 hours in a row have
  24 different hours of the day). `ClicksAreCountedOnce` applies it to the clock of the
  run, with the hypothesis that the instants of the run are among `Nows`.

* **Deploy** (`DeployProofs`). `DeployInvariant`: `Spec => []DeployInv`, for any number of
  processes, tables, indexes, columns and orphans. That a complete schema is served is
  not inductive. `SchemaInv` says that whatever a migration has passed is there, which
  stays true because nothing is ever dropped, and that a table which is about to be
  created is absent or was made whole by somebody else, so that no later column can be
  missing from it. `OrphansInv` says the same of statements whose client is gone. `LockInv`
  says that while the lock was never given up early, its holder is the only one who
  migrates and what it creates does not exist: no collision. `ServiceInv` orders the
  stages of `run`: the worker runs, and requests are waited for, only before the stage
  that releases anything. Then `OnlyCompleteSchemasServed`, `NoStartCollides` and
  `NothingClosedInUse`.

The assumptions are the modules' named ASSUMEs, which TLC evaluates in the runs: the
special values are not members of the sets they stand beside, bounds are natural
numbers, and for `Maintenance` the inequalities between durations.

### Only model-checked

All liveness (`EveryRequestAnswered`, `EveryCheckAnswered`, `BlockedLinksGo`,
`EveryCallReturns`, `SweepsGoOn`, `WorkerStops`, `CountersGo`, `EveryStartEnds`): it
rests on ENABLED, which is outside what the prover does. That the bounds of
a run are wide enough for its properties to mean something is shown by TLC too, which
finds each property violated by a wrong version of one definition (*Mutant*). The
violation of section 6 is a behaviour TLC found.

## 5. What is not modelled, and why

* Accounts: registering, API keys and rehashing at login are each one read and one write
  that a unique index settles, as `Links` shows for codes. Login takes a user name or an
  address; the query prefers the name when a string is both (`users.go:40`).
* The other fields of the forms, the other settings, QR codes, templates, logging and
  health are functions of one request, or output.
* Cryptography (passwords, TOTP codes, the encryption of secrets, cookie signatures) is
  taken at its word.
* What `Links` leaves to `Schedule`, and `Schedule` to `Links`: a redirect decides by the
  dates of the row it has read; the two are not composed.
* Within the modelled parts section 2 names what is abstracted.

## 6. Where code and text disagree

* `TwoFactorRestarted`. The settings page says that disabling requires the password and
  a code (`security_settings.html:29`). `handleTOTPStart` refuses accounts that have
  two-factor authentication on, as `wrap` read them, and `SetTOTPPending` then
  overwrites secret and flag. A start request that is held up while another tab
  confirms an enrolment switches it off.

Read in the code while modelling, and without a run:

* An edit that takes a link out of draft switches it on by the draft flag it read
  (`handlers_pages.go:755`), and so undoes a toggle made after another tab published it;
  the comment of `UpdateURL` (`urls.go:103`) means edits in general.
* A toggle that passes the draft test (`handlers_pages.go:541`) may reach a link that was
  made a draft since.
* `Refresh` leaves a list alone that is younger than its interval (`safety.go:302`), and at
  the next tick the list is younger by what its download took, so it is refreshed on
  every other tick. `ListStaysFresh` is what the operator gets: less than
  `MinAge + Interval`, plus two sweeps and a download.
* A sweep deletes a link by id for a destination its owner has replaced since
  (`main.go:342`), and never looks at device targets (`main.go:326`; the README of the
  repository speaks of links in general).
* Confirming an enrolment enables whatever secret the row has by then (`users.go:121`).
* After the GeoIP file went missing every lookup takes the write lock while the old
  mapping is open (`geo.go:260`).
* Two clauses of one limit string with one window share a counter (`ratelimit.go:159`), so
  that each call counts twice and is denied early; `DenialsJustified` is about clauses
  with a counter of their own (`OwnCounter`). No more than the limit is let through.
* Requests sent with the same cookie can both use its challenge (`session.go:262`), and a
  response under way at logout restores the old cookie (`session.go:272`): sessions are
  kept nowhere else. The first two pages of a browser may carry different CSRF tokens, of
  which the later to arrive wins.
* SQLite's PRAGMAs are set on one pooled connection (`store.go:81`), and the foreign key of
  `clicks` depends on that connection staying.
* The comment of `migrate.go` says that the lock is released when the pinned connection
  closes in any case. `conn.Close` returns the connection to the pool, so after a
  cancelled start the lock stays until the database is closed; `Deploy` shows that this
  is soon enough.
* The edit page counts the hours left from when it was opened, and a save counts them from
  a future start: saving the page of such a link unchanged prolongs it by the time until
  the start, at every save. A page whose hours exceed the maximum cannot be saved
  unchanged. An edit with an empty lifetime and a start after the expiry of the row is
  accepted, although the form has a message for a link that would expire before it
  starts (`AcceptedLinksCanOpen` is therefore about saves that set an expiry).
* A click recorded in the next hour, between the computation of the cutoff and the query,
  is counted under the oldest of the 24 hour labels.
* `"expiry_hours": null` in a request of the API means a permanent link, an absent field
  the default.

## 7. Plan

Done, in this order: `Links` with `LinkDirectory` (the data everything else is about),
`Blocklist`, `Sweep`, `TwoFactor`, `Geo`, `Maintenance`, `RateLimit`, `Session`, `Deploy`,
`Schedule`, `Statistics` and `ClientAddress`, and the proofs of all their safety
properties. Next:

1. A redirect that decides by the dates, the password and the blocklist, in place of
   ending early for no reason: `Links` composed with `Schedule`.
2. Pure algorithms against reference definitions: matching a host against domains,
   parsing of limit strings.

## 8. Running

`tlc -config LinksSQLite.cfg MCLinks` checks a run (module and configuration of each are
in `PROJECT.json`); `tlapm LinksProofs.tla` checks a proof module.
