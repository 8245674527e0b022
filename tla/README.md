# Galactic auction: specification and proofs

This directory holds TLA+ models of the galactic auction service: a FastAPI
application over PostgreSQL in which users bid on artifacts, administrators open
and close auctions, and browsers watch prices over WebSockets. TLC checks the
models on small instances. TLAPS proves, for every value of the constants, all the
safety properties and refinements the passing runs check. Paths are relative to `src/`.

Most of the code is short and sequential. What is hard is the meeting of
several of its parts: sessions that read rows and write them later, retries,
broadcasts to sockets that come and go, a browser whose fetches overlap.

## The system

| Component | State | Operations | Where |
|---|---|---|---|
| Bid placement and closing | rows of `auctions` and `bids`; per request a session with its snapshots, the retry counter | place a bid, close, create | `app/services/bidding.py`, `app/services/auctions.py`, `app/api/routes/auctions.py`, `app/models/auction.py`, `app/models/bid.py` |
| Accounts and administration | rows of `users`; per request a session | register, login, update a profile, deposit, patch role or block | `app/services/users.py`, `app/api/routes/{auth,users,admin}.py`, `app/api/deps.py`, `app/schemas/user.py` |
| Tokens and passwords | none (the key) | hash, verify, issue and decode tokens | `app/core/security.py` |
| WebSocket rooms | the dict of rooms, the handlers of sockets, broadcasts under way | connect, disconnect, broadcast | `app/realtime.py`, `app/api/routes/ws.py` |
| Browser client | selected lot, socket, fetches in flight, what is drawn | log in and out, select, refresh, receive | `app/static/js/app.js`, `app/static/js/api.js` |
| Sessions and connection pool | connections out, requests waiting | checkout, release, time out | `app/db/session.py` |
| Management commands | rows | `create-admin`, `seed-demo` | `app/cli.py` |
| Schema migrations | tables, types, columns, the recorded revision | upgrade, downgrade | `alembic/env.py`, `alembic/versions/` |
| Settings and start of processes | per process its settings and where its start is | check the settings, choose the database, migrate, serve, stop | `app/core/config.py`, `Dockerfile`, `app/main.py` |
| Artifact catalogue | rows of `artifacts` | create, list, read | `app/api/routes/artifacts.py` |
| Probes, greeting pages, scripts | none | | `app/api/routes/{health,home}.py`, `scripts/`, `loadtests/` |

How they interact: a request authenticates by reading its user's row (`deps.py`),
runs a service function in the same session, and, for a bid or a closing, then
calls `manager.broadcast` and answers only when every send has ended. Sessions
share the database at READ COMMITTED and nothing else; the `version` column
(`version_id_col`) of the auction row is the only concurrency control between
bids. Sockets and requests share one event loop, so they interleave at awaits
only. The browser learns of changes from messages and then fetches over HTTP.

What is hard, and what makes each part correct:

* **Bidding.** Rows read before the commit are stale; a commit may fail and be
  tried again; the announced winner comes from a session's object; the process
  may stop or a request fail between any two statements. Correct means: the
  accepted bids are those of one ascending auction, each recorded once, covered,
  in time but for the one that was under way at the end; nobody is told of a winner
  who did not win; a reader never sees the auction go back; every request ends.
* **Accounts.** Check-then-insert, patches from sessions that loaded the row long
  ago, e-mails set before a password is hashed in a thread. Correct means: no
  duplicate, no lost deposit, no undone change, no administrator from nowhere, and
  always one left, unless administrators change each other in a race.
* **Rooms.** A broadcast works on a list taken earlier. Correct means: listeners
  stay members, each is told once, a failing peer hurts nobody.
* **Client.** Messages, clicks and responses in any order. Correct means: the
  socket is that of the selected lot, and the price on display is the current one.
* **Pool.** Connections are few and bids hold one while they broadcast. Correct
  means: nobody waits with a connection in hand, and everybody who waits ends.
* **seed-demo.** Many small transactions, meant to be run again.
* **Migrations and starts.** Containers start at the same time and are killed at
  any time, somebody downgrades, accounts are older than passwords, a sandbox's
  settings name a production database. Correct means: the schema is that of the
  recorded revision, a server runs on the newest one, old accounts are locked out,
  demo accounts stay out of production, nothing waits for ever.

`PROJECT.json` lists the hazards one by one, each at its line, with the
properties that cover it.

## Modules

```
UserTable <--- Bidding <--- BiddingInvariant <--- BiddingProofs
    .          ^     .                               ^
    .          |     .                               |
Accounts   Watching  EnglishAuction           WatchingProofs ---> Watching

Delivery ... Rooms     LiveView     Pool     SeedDemo     Deployment

<--- extends      ...  implements
```

`AccountsProofs`, `RoomsProofs`, `LiveViewProofs`, `PoolProofs`, `SeedDemoProofs` and
`DeploymentProofs` extend the module each is named after, and so do the instances
for TLC, `MCBidding` to `MCDeployment`.

**`UserTable`** is what other sessions can do to the columns of `users` that a
bid depends on: an administrator's patch, a deposit. `Bidding` extends it, so bids
run against a users table that changes under them; `Accounts` is shown to
implement it, so the assumption of `Bidding` is what the code of users does.

**`Bidding`** has one process per request. An action is a statement with the
Python code up to the next await: `Authenticate` (`deps.py`), `ReadAuction`,
`ReadUser`, `Validate`, `CommitBid`, `CommitClose`, `Stale`, `Broadcast`. `seen`
and `funds` are the ORM objects of the session, `Fresh` is the `WHERE version =`
of the UPDATE, `Stale` the `StaleDataError` handler with `MAX_RETRIES`. The
flushed UPDATE holds the row lock until COMMIT, so the two are one action. `Tick`
is the clock, `OtherCommit` a step of `UserTable`, `Crash` the end of any set of
running requests without an answer: a stopped process or an unhandled error.
A bid's `request` field is not a column; it says whose INSERT the row is.
`since` is a history variable. Prices, amounts and balances are small naturals,
in the unit of the smallest increment.

**`Watching`** is `Bidding` with a client that only reads. `SelectAuction` and
`ShowAuction` are a GET of one auction or of the list, split at the await: the row is
read, the status is computed later (`to_out`). `ListBids` is the history, newest
first. `screen` is what the client knows from the answers so far; `ended` is a
history variable with the number of bids when the clock reached `ends_at`.

**`EnglishAuction`** is the promise: a log of bids, each beating the last at one
instant, and a closing. `ImplementsEnglishAuction` maps `log` to the bids table
and `open` to the stored status.

**`Accounts`** has one process per request of any of five kinds. `Written` is
SQLAlchemy's unit of work, which writes a column only when the attribute was set
to a value other than the loaded one; `Sum` is the increment in SQL; `Violates`
and `EmailInUse` are the unique constraints. Bodies carry the user id of their
token, of an account there from the start or created meanwhile; it can be sent once
it was `Issued`, by a login of that account if the account is new. `Decoded` is what
`decode_access_token` makes of it, which is nothing once it has expired. A
password stands for its hash. `deposited` is a history variable.

**`Rooms`** has the handler of each socket and each call of `broadcast`, split at
awaits: a broadcast takes its list (`StartCast`), sends finish or fail one by one
(`Send`), then `gather` returns and dead sockets leave (`Finish`). `Fail` is a
handler that ends with an exception other than `WebSocketDisconnect`, so
`disconnect` is not called, and the socket stays in the dict until a broadcast
fails to reach it; `ruins` is a history variable with the failed handlers each
broadcast found. A send to a peer that is gone may still return as
long as the loss has not been noticed.

**`Delivery`** is the promise of the rooms, without a dict, lists or failures: a
message goes once to each client that listens when it is published, unless the
client leaves first. `ImplementsDelivery` maps `listening` to the sockets whose
handler receives and whose client is there, `due` to the sends of `gather` still
pending to those.

**`LiveView`** is one tab: `selected`, `ws`, the lot and state `shown`, and the
fetches in flight with the answer the server took for them; responses return in
any order. The price is the number of the bid that set it. `listed` is which lots
are among the newest 100, all that `GET /auctions` returns: a lot leaves it when newer
ones are created (`Outdate`), and `loadAuctions` selects again only a lot that is in
the list it was sent (`ListReturns`). `outbox` holds
messages whose transaction committed but whose request has not broadcast yet, in
any order, as `Bidding` allows.

**`Pool`** is what a request has in hand while it waits: `Ask`, `Checkout`,
`TimeOut`, release at commit, rollback and end. A bid needs a connection twice,
the second time for `session.refresh` (`bidding.py:45`), and broadcasts with that
one in hand; any other request that commits reads its row again too, a closing
does not. A request that comes just when a connection is back may take it before
those that wait.

**`SeedDemo`** is runs of `seed-demo`, which may overlap and stop anywhere. Each
account, the artifacts and the auction are a look and a write in a transaction. A
run that is not `Accepted` has a `DEMO_PASSWORD` that `UserRegister` rejects: it
skips every account, prints so, and goes on.

**`Deployment`** is a database and the processes started against it: the container's
`alembic upgrade head && exec uvicorn`, the downgrades, `create-admin` and
`seed-demo`. `Launch` is the import of the settings, which refuses some, and the
choice of the database. `Plan` reads the revision, and gives up where alembic
refuses a downgrade to a revision above it; `Migrate` is one migration inside
the transaction of `env.py`, with the locks it takes (`owner`), `CommitMigrations`
and `MigrateFails` end it, `Crash` kills a process anywhere. `objects` are what
`CREATE` and `DROP` find or miss; tables, and the three columns of the auth
revision, come and go together. Of an account the model keeps its role and whether its
hash is missing, empty, that of `DEMO_PASSWORD` or of a password of its own.
`Seed` makes `DemoAdmin` an administrator and the others users, when the password is
fit. `EarlierRelease` writes accounts at the first revision.
`overtaken` and `fresh` are history variables.

## Runs

| Run | Instance | Shows |
|---|---|---|
| `bidding_race` | 2 bids, 1 closing, 2 bidders, amounts 1..3, 2 attempts, a deposit, clock 0..1 past the end, crashes | row, log, version, winner and answers agree in every interleaving; a bid above the price is dropped for the stated reasons only; the price never falls; the commits are those of `EnglishAuction` |
| `watching` | 2 bids by one user or two, a reader, blocks and deposits, clock 0..1 past a start or an end, crashes, fairness | accepted bids are covered by balances; at most one is committed after the end; the reader never sees price, leader or status go back; every request ends |
| `accounts` | 3 requests out of 28 bodies, 2 accounts and a free id | unique names and e-mails, balances equal deposits, only asked changes, administrators go back by promotions to an original one, the last active one goes only in a race, `UserTable` is implemented |
| `rooms` | 2 sockets, 2 rooms, 2 broadcasts, fairness | listeners are members, members belong, `Delivery` is implemented, failed handlers' sockets go with the next broadcast, broadcasts end |
| `liveview` | 2 lots, one of which may leave the list, 2 changes, 3 fetches in flight, failures, drops, logouts | the socket follows the selection; a tab told of the newest change of a listed lot is current |
| `pool` | 3 requests of 4 kinds, 2 connections, 2 attempts, fairness | connections are neither leaked nor waited for with one in hand; answers are true whenever waiting is in vain; whoever waits ends |
| `seed_demo` | 3 runs, one with a rejected password, an administrator and 2 users | no balance paid twice; a finished run leaves a usable demo, accounts included if its password was accepted, and no balance missing but by a run that stopped or is still at it; runs that never overlap seed once |
| `deployment` | 2 processes at a time started any number of times, 5 settings, two names that are those of the demo administrator and a demo user, fairness | the schema is that of its revision whatever runs together or is killed; migrations fail and servers run behind the head for the stated reasons only; old accounts neither log in nor administer; demo accounts come into production by `DB_URL` alone; no command hangs |
| `bidding_lost` | 4 bids, 3 attempts as in the code | violated: see findings |
| `bidding_blocked` | 2 bids, changing users | violated: see findings |
| `liveview_current` | 1 lot, no mishap | violated: see findings |
| `pool_timeout` | 3 requests, 2 connections | violated: see findings |

### Bounds

* `MaxRetries = 2` in `bidding_race` and `watching`: the loop has a first, a
  repeated and a last round, and two competing commits exhaust it. The code's value
  is 3 (`services/auctions.py`); `bidding_lost` uses it with the four requests that
  takes. Two bids on two users and a closing include a bidder overtaking himself,
  being overtaken twice, and a closing at any point; that nothing changes with more
  requests is what the proofs are for.
* `LastInstant = 1`: in `bidding_race` the auction ends while requests run; in
  `watching` one does and another starts then. `bidding_blocked` has an instant more,
  `bidding_lost` none, because time adds nothing to it.
* `MaxBalance` is the limit of `Numeric(18, 2)`, small so that deposits hit it.
* `accounts`: three requests are enough for two sessions to race on one row while
  a third changes the requester's rights; the bodies were chosen to compete for
  the same name, e-mail and rows.
* `MaxChanges` bounds bids and closings together, `MaxFetches` the requests in
  flight of a tab: three let one response overtake another and a third start.
  `MaxOutdated = 1` leaves one lot of two in the list: a selected lot on either
  side, and one that leaves while a list is on its way.
* `Accepted` is two of three runs: a rejected one beside, before and after others.
* `Capacity = 2` with three requests exhausts the pool; one connection would hide
  that two holders can wait for each other, were there a circle.
* Two sockets and two broadcasts put a socket's departure, its failure and a
  second list in the middle of a broadcast.
* Two processes in `deployment` are any two that overlap, since a process that
  ended starts again as another; three would wait for the same transaction. The
  settings are those of a production database reached as intended, with unsafe
  values, from a sandbox by name and from a sandbox by URL, with a demo password that
  is accepted and one that is not.

Symmetry is used only in runs without liveness properties. `CHECK_DEADLOCK FALSE`
stands in every configuration but `Deployment.cfg`, since finitely many requests,
broadcasts or runs do end; processes are started again and again, so there deadlock
is checked.

Every module has a type invariant. Those of `Accounts` and `Rooms` are properties of
runs; the others hold on the instances above, are proved as part of the inductive
invariants (that of `LiveView` but for its bounds, see below), and are not listed
again as properties of the runs.

### Fairness

`Bidding!FairSpec` has weak fairness on the steps of each request: the event loop
resumes coroutines that are ready and PostgreSQL answers. Every request of the
instance is one that was sent, so it starts. Retries are bounded, hence weak
fairness suffices. `Rooms!FairSpec` has weak fairness on each send and on
`Finish`: a send to a client ends when the client reads or when uvicorn's keep-alive
finds that it does not. So the stall by a client that does not read is
assumed to end; what `CastEnds` and `WaitersEnd` show is that nothing else keeps a broadcast
or a connection. Nothing makes a broadcast start, a handler end or a client
hang up. `Pool!FairSpec` has weak fairness on checkouts and on the steps of a
request, which rests on `EveryRequestEnds` and `CastEnds`; nothing makes a request
arrive or a wait time out, so that waits end does not depend on `pool_timeout`.
`Watching!FairWatchSpec` is that of `Bidding`; the reader may stop.
`Deployment!FairSpec` has strong fairness on the work of each process: a statement
that waits for a lock is possible again and again as migrations come and go, and
PostgreSQL grants a lock in the order in which it was asked for. Nobody has to stop
or kill anything.
`LiveView`, `Accounts` and `SeedDemo` are checked for safety only.

## Proofs

### Bidding

`BiddingProofs` proves, with no bound on requests, users, amounts, retries or time:

* `TypeCorrect`, and the safety invariants `LogAndRowAgree`, `AcceptedBidsRise`,
  `NoUpdateLost`, `BidRecordedOnce`, `AcceptedBidsCovered`, `NoBidBeforeStart`,
  `WinnerAnnouncedIsFinal`, `BusyMeansProgress`, `NoBidForgottenWithoutCause`;
* the action property `PriceNeverRollsBack`;
* `Refinement`: `Bidding` implements `EnglishAuction`.

They assume `UserTableAssumption` and `BiddingAssumption`, which say what kind of
value each constant is; TLC evaluates both in the runs.

None of the invariants is inductive alone, because a commit is justified by what a
session read long before. `BiddingInvariant!IInv` adds, for every request, what it
may rely on at each await:

* `Snapshot`: a session that holds the current version holds the current row, and
  a snapshot's price is at most the price. This is what optimistic locking buys:
  at `Fresh`, checks made on the snapshot are checks on the row.
* `Checked`: the result of `_validate_bid` as far as it stays true. Balances only
  grow (`UserTable`), so the bid stays covered; the clock only advances, so the
  auction has started. That a user is not blocked does not stay true, nor that the
  end has not come, and no invariant claims it.
* `Committed`: after a commit the bid is part of the price; after a closing the
  session's object still equals the frozen row, which makes `WinnerIsFinal` true.
* `Overtaken`: each failed attempt accounts for one version, whence
  `BusyMeansOvertaken`.
* `Answered`: only finished requests have answers.

`Reasons`, a second invariant over `IInv`, keeps what a refusal was given on: the balance
that was read, and for "leading" the snapshot, whose version names the bid that led
(`Led`). With `JudgedBidsCounted`, that accepted bids and those called too low do not
exceed the price, it gives `BidsForgottenForCause`.

The preservation proof has one lemma per action. `QuietStep` covers those that
change one request and not the tables; `CommitBidTables` is the core. The
refinement maps `CommitBid` to `TakeBid`, `CommitClose` to `Close` and everything
else to a stutter.

### Accounts

`AccountsProofs` proves, for any ids, names, requests and bodies: `AccountsTypeCorrect`,
`AccountsUnique`, `NoDepositLost` and `AdminsHaveASource` (invariants),
`NothingUnasked` and `LastAdminIsSafe` (action properties), and
`AccountsRefineUserTable`, so that what `Bidding` assumes of other sessions is what
the code of users does. They assume `AccountsAssumption`: the initial table satisfies
its own unique constraints and the bodies are those the schemas accept.

The table is described first: `TableSteps` says that a step leaves it alone, adds a row
that collides with none, or commits one profile update, deposit or patch to the row
of its target *as it is then*. `IInv` adds to the properties

* `Stages`: where a request is tells its kind, that the row it writes exists, and that
  a patch was let in for somebody other than its target. `LastAdminGoesInARace` rests on
  it: the row of the sender is not the one the patch changes, so a sender who is an
  active administrator remains one.
* `RowsStay`: a row of the initial table is never deleted, and an id not given out has no
  deposits.
* `PatchersWereAdmins`: the sender of a patch that passed its checks is in every set
  that has the original administrators and is closed under promotion. Without it
  `AdminsComeFromAdmins`, which says so of administrators, is not inductive: the
  promotion commits long after the role was read, when the sender may have been
  demoted. `ClosedBefore` is the lemma behind both: such a set after a step was one before
  it, since promotions and original administrators only become more.

### Rooms

`RoomsProofs` proves, for any sockets, auctions and broadcasts: `RoomsTypeCorrect`,
`NobodyDropped`, `NobodyStrays`, `LeaksEnd` and `RoomsDeliver`, the refinement of
`Delivery`. `IInv` adds what a broadcast may rely on although it took its list before the sends:

* `Joined`, `IdleIsEmpty`: a socket in a list had joined its room, and whoever joined
  does not come back under the same identity.
* `FailuresAreDown`, `Ended`: a send fails only on a connection that is down, and a
  connection stays down. So the sockets `broadcast` removes are none that listen, which
  is the step at which `ListenersAreMembers` alone fails.

`Ruins`, a second invariant over `IInv`, is about a broadcast that met failed handlers: their
sends can only raise, so each of them is still pending or among those that `Finish`
removes, and none can join again. `LeaksEnd` follows.

### Watching

`WatchingProofs` extends the proofs of bidding: `OneLateBidAtMost`, `WatchedBidsCovered`,
and the action property `PageNeverGoesBack`. `WatchingAssumption` says that NULL is no
number, so that a count of bids can be told from none. `WatchIInv` is `IInv` of bidding with

* `LateBids`: once the clock has reached the end, a bid between its check and its commit
  holds a version no newer than the row had at that moment. `AtMostOneLateBid` alone
  does not say why a second one fails: the first late commit makes every such
  version stale (`Snapshot`), and a check after the end refuses (`NewReadyBids`).
* `PageBehind`: the page is behind the row on its way to the client, which is behind the
  table. The status on the page was computed at an earlier time from an earlier row, and
  `RowForward` and `StatusForward` say that neither takes it back.

### seed-demo

`SeedDemoProofs`, for any number of runs, accounts and artifacts: `NeverDepositedTwice`,
`FinishedRunsSeed`, `NeverSeededTwice`. `SeedDemoAssumption` asks for an administrator
among the accounts, which `cli.py` writes out. The inductive invariant adds

* `FundedByInserter`: an account between its INSERT and its deposit belongs to the run
  that inserted it, is still empty, and has no other such run. The unique constraint is
  what makes it so; `DepositedOnce` without it allows a second deposit.
* `Funded`: an account without its balance has its inserter at work, or stopped at it.
* `Progress`: where a run is tells what is there, written by whichever run; the accounts
  only if its password was accepted.
* `CountsHold`: while no two runs overlap, what a run counted is still so at its write.

### Deployment

`DeploymentProofs`, for any processes, names and settings: `SchemaStaysWhole`,
`OldAccountsStayOut`, `FailuresExplained`, `ServersFindHead` and the action property
`DemoKeptOut`. They take `FairSpec`, of which they use no fairness. `IInv` adds

* `DraftFollowsPlan`: the schema inside an open migration is whole, without usable
  accounts, and on the side of the committed one to which the command goes. So
  a commit, and equally a kill before it, leaves a whole schema.
* `FreshAtHead`: accounts that can log in exist at the head revision only.
* `NothingLeavesDeadEnd`: on a database downgraded to base no migration takes a
  lock and goes on: the type that was left makes the first revision fail.
* `Knows`: the settings of a process passed `check_environment` and name this database;
  the revision it read is the committed one unless another process committed since
  (`overtaken`).

### LiveView

`LiveViewProofs`, for any lots, mishaps, and any number of changes and requests in
flight: `SocketIsOfSelection` and `ReloadShowsNewest`. `IInv` adds

* `HonestMessages`, `HeardOnlyWhatIs`: a message under way tells of something that
  happened and is not undone, so nobody hears of more than there is.
* `LastBringsNewest`: while responses come in order (`calm`) and the selected lot is
  listed, the last request in flight is the list, whose answer names that lot and asks for
  it, or asks for the selected lot
  itself and was not answered before the newest change the tab was told of. When it is
  drawn the tab is quiet, and current. `CurrentWhenTold` speaks of quiet tabs only and
  says nothing of how one gets there.

Prices are any naturals there. That `MaxChanges` bounds them is the sum over all lots in
`Changes`, a fold, and would take an induction over the set of lots.

### Pool

`PoolProofs`, for any requests, connections and retries: `NobodyHoldsAndWaits` and
`AnswersStayTrue`. `Returned` and `Taken` are the lemmas about cardinalities. `IInv` adds

* `WaitersAsk`, `HoldersUse`: from its label one can tell whether a request waits or has
  a connection; in particular every round of a service function has one.
* `TriesLeft`: a request at work has a try left, so `Conflict` always has an outcome.
* `CommitsOnce`: a request commits between its work and its refresh or broadcast, and
  is told of, and answered, after that. A time-out may strike on either side of the
  commit; `AnswersAreTrue` holds because there the answer is an error, which claims
  nothing.

### Model-checked only

Liveness (`EveryRequestEnds`, `CastEnds`, `WaitersEnd`, `CommandsEnd`) is out of
the prover's reach, and so are the bounds in the type invariant of `LiveView`. All
other properties of the passing runs are theorems.

## Findings

* `bidding_lost`: "the highest of all attempted bids can never be lost"
  (`tests/test_auctions.py:194`). A bid that conflicts three times is answered 409
  and dropped although it is the highest. `BidsForgottenForCause`, which is proved,
  lists the other ways a bid above the price is dropped: the bidder is not let in, the
  auction is not active, the balance does not cover it, or the row read still shows the
  bidder as leader (`bidding.py:54`) while somebody overtakes him.
* `bidding_blocked`: "a demoted or deactivated user loses access immediately"
  (`app/api/deps.py:29`). The role is checked once, `is_active` before the commit;
  a bid of a user blocked in between is recorded.
* `liveview_current`: observers must see the current price instantly
  (`docs/architecture.md:8`). The lot is fetched and the socket opened at the same
  time; a bid between the two is shown by neither, and nothing is fetched when the
  socket opens. Overlapping responses are drawn in the order they come.
* `pool_timeout`: every accepted bid must be sent to all subscribers
  (`docs/architecture.md:15`). The refresh after the commit needs a connection
  again; when the pool stays exhausted the request fails with the bid recorded and
  nobody told.

## Not modelled

* Artifacts: a single insert and reads no other operation depends on.
* bcrypt and JWT beyond what `Accounts` needs: a token is the id it names or does
  not decode, a hash is its password; the timing that the dummy hash evens out.
* Read-only routes other than those of auctions and bids, the probes, the greeting
  pages: they change nothing.
* In migrations, the separate tables, indexes and constraints, which come and go
  together in one transaction; offline mode, which prints SQL.
* What a migration and requests under way do to each other's locks, PostgreSQL's
  detection of deadlocks included: a statement on `users` waits until a migration ends.
* More than one server process: the Dockerfile starts one, and `app/realtime.py:4`
  leaves rooms shared between instances to later work.
* In the client, the list of lots, the rows of the bid history, the profile and
  administration views, which draw what one request returned.
* docker-compose, CI, load tests, demonstration scripts: clients of the service,
  without state the service depends on.

## Plan

Done, in this order: bidding with its refinement and proofs, accounts, rooms, the
client, the pool, the seed command, reading auctions, deployment with its migrations,
the abstract delivery of the rooms, the proofs of accounts and rooms, and those of
reading, the seed command, deployment, the client and the pool. Next:

1. The model: the bid history and the list of lots in `LiveView`, with what a reload of
   each guarantees.
2. An abstract tab for `LiveView` (what was told is shown next), and a refinement
   mapping from the fetches in flight, in place of the history variable `calm`.
