# p4n4-api in TLA+

A model of the stateful core of p4n4-api, checked with TLC and proved, as far as TLAPS reaches.
Every definition is translated from the code under `src/p4n4_api/`; `PROJECT.json` ("map")
names the lines each one stands for.

## The system

p4n4-api is a FastAPI gateway in front of the P4N4 stacks. It keeps little state, and most
of it is shared between threads, processes or clients:

| Part | State | Operations | Interacts with | Hard because |
|---|---|---|---|---|
| Accounts and sign-ins (`auth.py`, `users.py`, `routes/auth.py`, `routes/users.py`, `cli.py`) | tables `users`, `refresh_tokens`; the tokens clients hold | sign in, refresh, reuse, sign out, change password, admin routes, the `users` command | audit log, database | a handler reads before its transaction begins and hashes with argon2 in between; tokens outlive the rows they were made from |
| Background jobs (`jobs.py`, `routes/control.py`) | `_jobs`, the pool's queue, the worker's job, Compose processes | submit, run, time out, prune, poll, shutdown | audit log, lifespan, Compose | requests hold a lock the worker does not; the pool is filled after the lock is released; crashes |
| Device registry (`devices.py`, `routes/devices.py`) | table `devices`, device tokens | register, update, rotate, remove, exchange a key | sign-in route, audit log | an exchange issues a token for a row it read before a rotation or removal |
| Database schema (`db.py`) | `user_version`, the tables | migrate on every connection | every part | several processes open one file; an upgrade can be killed |
| Signing key (`auth.jwt_secret`) | a key file | create once, read | every token | several first starters; hosts without hard links; crashes |
| MQTT bridge and live streams (`mqtt.py`, `routes/telemetry.py`) | connection, subscribers' queues | ingest, publish, receive, reconnect, stream | InfluxDB, broker, devices' table | a broken connection is noticed late; acknowledgements get lost; slow clients |
| Audit log (`audit.py`) | table `audit_log` | record in a transaction, or on its own connection | the parts above | an entry can fail apart from what it records |
| Rate limiter (`auth.RateLimiter`) | buckets per address | hit, prune | sign-in routes | the clock is read outside the lock; a bucket that is pruned is a full one |
| The assistant and chats (`assistant.py`, `store.py`, `routes/agents.py`, `ai.py`) | a settings row; a connection to Ollama or Letta per chat | choose; check, forward, stream, stop on disconnect | Ollama, Letta, audit log | the setting and the services' lists change at every await; replies break midway; clients are slow or leave |
| Effects on services (`routes/mqtt.py`, `topics.py`, `routes/feed.py`, `routes/chats.py`) | none of their own | publish, act on the feed, make link codes, unlink | broker, feed, chats service, audit log | calls and replies get lost or late; the entry comes after the effect, on another connection |
| Inference (`edge_runner.py`, `routes/inference.py`) | `_info_cache` | describe, check, infer | the edge runner | fetches overlap with each other and with restarts of the runner |
| Followed logs (`routes/control.py`) | a Compose process per client | read whole, follow, stop on disconnect | Compose | clients that leave midway; reads that time out in the middle of a line |
| Dashboard settings and the log's pages (`store.py`, `routes/dashboard.py`, `routes/audit.py`) | table `settings` | put with an audit entry, get, page | audit log, database | a GET that takes two SELECTs; pages of a log that grows |
| InfluxDB client (`influx.py`, `routes/telemetry.py`) | none of its own | write points, build a query, read its CSV | InfluxDB | text is quoted on two ways; types follow each other in one answer; an answer breaks off |
| Views (`docker.py`, `routes/stacks.py`, `routes/project.py`, `routes/edge.py`, `routes/health.py`, `context.py`, `errors.py`, `logs.py`, `config.py`) | none | read, format | upstream services | not modelled: nothing changes state |

What makes each part correct is what its module's properties say (next sections). The list
of what is hard to test, at the line where it bites, is `PROJECT.json` ("hazards").

## Modules

### Sessions (and SignIns)

`users` and `refresh_tokens` are the tables, `access` the unexpired access tokens, `audit`
the entry the last step added. A handler is a read step and a write step, because Python's
`sqlite3` begins a transaction at the first INSERT, UPDATE or DELETE: the SELECTs before it
see an earlier database. `req` holds what a request read; `Fail` is every way a request ends
with its write step rolled back (a refusal, "database is locked", a killed process). argon2
and JWT signatures are sound: a password is a value, a token cannot be made up.

| Code | Definitions |
|---|---|
| `POST /auth/token` | `LoginRead`, `LoginWrite` (with `Rehash`) |
| `POST /auth/refresh` | `TokenRead`, `RotateWrite`, `ReuseWrite` |
| `POST /auth/logout` | `TokenRead`, `RevokeWrite` |
| `POST /auth/password` | `CurrentUser`, `PasswordRead`, `PasswordWrite` |
| `POST /users` | `RequireAdmin`, `CreateWrite` |
| `PATCH /users/{u}`, sign-out, `DELETE` | `RequireAdmin`, `FindUser`, `UpdateWrite`, `SignOutWrite`, `DeleteWrite` |
| `p4n4-api users` | `CliAdd`, `CliBootstrap`, `CliRemove`, `CliPasswd`, `CliSignOut`, `CliRole` |
| `issue_tokens`, `_session_live`, `current_user` | `IssueTokens`, `Pruned`, `Accepted` |
| `seed_dev_users`, in the lifespan | `SeedDevUsers`, while requests of another process go on |

`current_user` makes two SELECTs; the model takes them as one read. `SignIns` is the abstract
specification: sign-ins with one current refresh token each, where what is over stays over.
`Sessions` implements it one request at a time (`ImplementsSignIns`); with two requests it
does not: `refresh_twice` shows one of the ways.

### Jobs (and SerialJobs)

`jobs` are the Job objects with the fields the worker assigns one at a time (`SetExitCode`,
`SetStatus`, `SetFinishedAt`), `kept` the ids in `_jobs`, `pool` the executor's queue, `worker`
the pool's only thread, `compose` the Compose processes, which may outlive a killed API. The
part of `submit` under the lock is one action (`Submit` or `Reuse`), `PoolSubmit` and the audit
entry (`RecordQueued`) come after it. The watchdog is `ComposeEnds(1)`. A job of "all" stacks
is its `Commands` in order. `SerialJobs` says what a job is promised: it waits, it runs while no
other runs, it ends once; `ImplementsSerialJobs` is checked under crashes and restarts.

### Devices

As Sessions: `KeyRead` and `KeyWrite` are the exchange of an API key, `Find` and then `Update`,
`Rotate` or `Delete` the admin routes, `Create` one statement. `key` and `life` number the API
keys and the registrations; `life` is history, which the code does not keep (that is what
`devices_recreated` shows).

### Startup

`version` and `schema` are what is in the database file (a schema is the set of features the
six migrations add; migration 4 rebuilds `users` and so drops what 6 adds), `file` the key file.
A process reads `user_version` (`Open`), runs the scripts after it (`Migrate`, `MigrateFails`),
then looks for, links or writes, and reads the key. `hasLink` is chosen at the start.

### Telemetry

One event loop, so a step is what runs between two awaits. `Ingest`, `Write`, `Touch` and then per
reading `Send` and `Acknowledged` or `PublishFails`, or `SendDirectly` without a broker. `bridge`
is where `Bridge._run` is and `up` whether the connection really is there: the bridge notices
later (`Noticed`). `stream` is the generator of a live client with its `Subscriber`; `offers`, `sent`
and `had` are history. That a connection ends with an `MqttError` and nothing else is assumed: parsing
a payload is taken to raise nothing. `inTask` chooses between Python 3.11, where `asyncio.wait_for` runs
`queue.get()` in a task of its own, and later ones.

### Assistant

`setting` is the committed row with who chose it, `newest` the newest entry of the log about it, and
`choice` the PUT whose transaction holds SQLite's write lock: `Put`, then `Record` (commit) or
`Rollback`. A chat is asked (`Ask`), checked with the setting as it then is (`Check`), perhaps waits
for the service's list (`Listed`, `ListFails`), and is refused (`Refuse`) or forwarded (`Forward`).
Ollama's reply is read whole (`Read`) or streams (`Chunk`, `Broken`, `BodyEnds`, `Sent`, `Abandon`), and
`Close` is the `finally`. `lines()` ends with the body, whatever was said; that a body which ends without an error ends
after a chunk that says done is an assumption about Ollama, made in `BodyEnds`, and `EndIsTold` rests on it. `ListChanges` is what happens outside: models pulled, agents removed. `seen` is
history: what was true of the assistant while a chat was being decided.

### Effects (and Topics)

`Topics` has `matches` as the code compares levels, and `Covered`, the topics that MQTT 3.1.1 says a
filter stands for. `Effects` is every route that acts on another service: `Publish`, `Act`, `MakeCode`
and `Unlink` put a call on the network (`net`), a service carries it out or refuses it (`Handle`) and
its reply may not come in time (`Lose`, `TimesOut`); then `Record` or `RecordFails`. `Restart` is a
killed process that starts with other filters. `done` and `told` are history.

### Runner

`cache` is `_info_cache` with the time its fetch *began*. `InferCached` and `Infer` are `POST
/inference` with and without a fresh description, `RunnerInfo` is `GET /inference/runner`, which always
fetches; `Fetched` stores the description and checks the vector; `Answer` passes the result on or
forgets the description. The runner loads another model at any time (`Load`). `ran` is history.

### Limiter

`hit()` in two steps, because it reads `time.monotonic()` before it has the lock: `ReadClock`, then `Take`, with the refill, the verdict, `Retry-After` and the pruning of a crowd. A
thread waits at most `MaxWait`. A bucket counts ticks instead of fractions of tokens. `debt` is
history: a leaky bucket that the attempts let in fill, which is what the limit promises; `promised`
is when a client was last told to come back.

### Logs

`log` is where the request of each client is, `docker` its `docker compose logs` process and the lines
that are printed and not read. `follow_events` is `Line`, `Heartbeat`, `TooLong`, `EndOfOutput`, each
followed by the client that takes what was yielded (`Taken`); `Close` is the `finally` of a generator whose
client has left, at whichever await it was; `Communicated` (all lines, or a 502 when Compose failed) and
`CommunicateTimesOut` are the form without `follow`. `Killed` leaves orphans, which end with their next line.

### Settings

`table` holds the number of the change that made each row, so that values are told apart by who
stored them. A PUT waits for SQLite's lock (`PutSetting`, `WriteSetting`), then commits row and entry
(`CommitSetting`); the GETs are one SELECT, except `GET /agents/config` (`GetState`, `GetStateEnds`), and a
client pages through `GET /audit` (`FirstPage`, `NextPage`) meanwhile. A banner's end is compared with the
clock when it is stored and when it is read; `Never` is the end of one that has none, and a banner cleared with empty
text is the setting's default, as one whose end has come.

### Influx

Here a text is a sequence of characters, since what could be wrong is quoting. `Line`, `FluxString`
and `ParseCsv` are the code's conversions (`Ms` is `int()` of the time in milliseconds: it truncates, towards 1970); `ReadLine`, `Selected` and `Csv` are what InfluxDB does with
them, written from what `influx.py` relies on. `StoreBatch`, `BatchFails`, `Query`, `QueryBreaks` and
`QueryFails` are the two routes with InfluxDB's answers: whole, refused in part, broken off after a
200, or none. `ingested` is the history that answers are compared with. The readers of text and of tables
(`ReadChar`, `ReadLiteralChar`, `ReadRecord`) take one character or record at a time, and the functions that
repeat them (`FieldsAfter`, `LiteralAfter`, `TablesAfter`) are recursive functions, so that they can be proved about.
What a batch and a question may be is assumed no narrower than the routes allow (`BatchesAssumption`,
`AsksAssumption`): any texts over `Chars`, any values, fields of any names in any number, times in any zone.

### Composition

The parts share the database and the process. What they share is in each module as far as it
matters to it: transactions in Sessions and Devices, restarts in Jobs, Startup and Logs, the audit log
in the modules that write it.

`MCJobs`, `MCAssistant`, `MCEffects` and `MCRunner` each put two modules side by side (Logs, Settings, Influx and
Limiter are the second ones). These share no state, so that no interleaving of them tells anything:
`part` chooses at the start which of the two moves, and the run's states are the sum of both and not
their product. A property of one holds trivially while the other moves; its defects are found
in the behaviours where it moves itself.

## Runs

Every run finishes in under three minutes with two workers. Type invariants are checked in
`sessions_serial` only: the others are proved.

| Run | Checks | Bounds, and why they are enough |
|---|---|---|
| `sessions_serial` | `TypeOK RevokedStaysRevoked SignInOutlivesAccess ImplementsSignIns` | one request at a time, one account, which a start may seed, two passwords, 3 tokens, clock to 3 with lifetimes 1 and 2: a sign-in is refreshed twice, expires, is pruned by another one and outlived by its access tokens; hashes become outdated |
| `sessions_concurrent` | `SignInsHaveOwners AdminRemains RevivalNeedsRefresh AdminChangesAreAudited` | two requests in progress, two accounts, two roles, 2 tokens: two admins act on each other, and pairs of handlers interleave, on one account or on each other's. The clock stands still: expiry is the other run's |
| `refresh_twice` | `RefreshTokenWorksOnce` violated | one account, two requests |
| `jobs` | `NoTwins UnfinishedIsKept OutcomeIsComplete SuccessIsOfAll EveryJobEnds ImplementsSerialJobs`; of Logs: `EndIsComplete NobodyIsFollowed` | two keys, two request threads, two commands a job, 2 jobs, `KEEP_JOBS` 1: twins, pruning at the limit and a failure of the first command all happen. One client of logs (clients share nothing) and two lines: a heartbeat falls before, between and after them |
| `devices` | `RotationEndsTokens CurrentTokensWork AuditedChangesHappened` | two devices, two requests, 3 keys, clock to 2: an exchange, a rotation and a removal with a new registration interleave |
| `devices_recreated` | `AcceptedTokensHaveTheKey` violated | one device, one request |
| `startup` | `VersionTellsSchema OneKey AppliedInOrder` | three processes, 4 starts, databases of every released version. `OverlapFrom` 4: below version 4 processes migrate one after another, see `migrated_again` |
| `migrated_again` | `AppliedInOrder` violated | two processes, a database at version 3, no restriction |
| `telemetry` | `LossIsTold PublishedReachesStreams LiveReadingsAreStored Reconnects RequestsEnd` | one client with a queue of 1, one ingest request with batches of up to 2 beside a device that publishes itself, 3 readings, one broken connection: a reading is held, one is dropped and one waits; the connection breaks at every point of a publish |
| `assistant` | `NormiesKeepToAssistant RefusedForAReason EndIsTold NothingOpenForNobody`; of Settings: `CreditIsNotAhead PagesMissNothing` | one operator, one normie, two models, an agent, lists of at most one name, one chunk before the last. One chat: chats share nothing but the setting and the lists, which change at every one of its steps. A list of one name does not tell the name listed first from any listed one; `NormiesCorrect` does, for lists of any length. Two calls on settings, 3 changes of two keys, pages of 1 and 2: a choice falls between two SELECTs, and entries come between two pages |
| `effects` | `LogTellsWhatHappened DeniedIsNotSent`; of Influx: `AnswersAreTrue AnswersAreWhole` | two users, two requests, two calls in all, a chat, an item; topics of up to two levels over three names, one of them the broker's own; four pairs of filters with every wildcard at every place. Batches of one or two readings or fields whose names and texts have each special character (backslash, quote, comma, equals sign, line break, dollar with brace), every type, with and without a time, two ticks a millisecond, one time before 1970; limits 1 to 3, and answers cut after every record |
| `runner` | `AnswersAreRecent`; of Limiter: `AttemptsAreBounded RetryAfterIsEnough` | two requests, a model that takes one value and one that does not say, vectors of one and two values, `INFO_TTL_S` 2 and a clock to 3: a description is stale when fetched, when used, and when another fetch overwrites it. Two threads, two addresses, a burst of 2, a token every 2 ticks, a wait of 1, clock to 7: hits overtake each other, a bucket empties, fills up again and is pruned |

Deadlock is checked in the sessions, jobs, telemetry, assistant, effects and runner runs. It is not in the startup runs,
where processes may all have ended, and in the devices runs, where no API key may be left and
the clock has stopped: there the bounds end the behaviour.

Symmetry is used in the sessions, devices and runner runs (no liveness is checked there; no choice among
the model values is made).

### What the violations show

Each is a disagreement of the code with a sentence of the repository (`PROJECT.json`, "findings"):

- `refresh_twice`: `rotate` looks at `used` before its transaction (`auth.py:168`), so one token can
  be exchanged twice; "each refresh token works once".
- `devices_recreated`: an id registered again starts at key generation 0 (`devices.py:117`), so
  tokens of the device removed are accepted; "its key and tokens stop working at once".
- `migrated_again`: `user_version` is read outside the migrations' transactions (`db.py:97`).
  Migration 4 runs again on the latest schema, and 5 then fails at every start.

What else the models do that a reader of the code may not expect, without a run of its own:

- A refresh under way inserts a row of a family that a sign-out has deleted (`auth.py:174`), so the
  sign-in that was just ended works again: with two requests `RevokedStaysRevoked` fails.
  `RevivalNeedsRefresh`, checked and proved, says that this window is the only way back.
- `pool.submit` comes after the lock (`jobs.py:210`): two requests at the same time may queue their
  jobs in the other order than they registered them.
- Without `os.link`, a start killed between creating and writing the key file leaves it empty for ever
  (`auth.py:55`). `OneKey` is therefore stated for hosts with links.
- A normie's chat is compared with a setting and a list of different moments (`routes/agents.py:170`).
  `NormiesKeepToAssistant` says no more than that each of them held while the chat was decided.
- `GET /agents/config` reads who chose and what was chosen in two SELECTs: a choice in between is answered
  with the name of who chose before. `CreditIsNotAhead` says that it is never worse.
- A sign-in under way that found the hash outdated writes a new hash of the password it verified, which
  undoes a change of the password meanwhile (`users.py:291`). `PasswordsStay`, proved, says that nothing
  else does; it is in no run, since it takes two passwords and two requests.
- A device deleted and registered again between `_existing()` and the write (`routes/devices.py:109`) gets the
  update or the rotation that was asked for the registration before. `AuditedChangesHappened` says that the entry
  is of the registration that was changed; it does not say that it is the one that was found.
- `finished_at` is assigned after `status` (`jobs.py:172`): a job that is polled in between has its outcome and its exit
  code, and no time. `OutcomeIsComplete` says that nothing is torn the other way round.
- Two deletions of one device, or user, at the same time both answer 204 and both add an entry.
- When the output of Compose ends, `_stop` may kill a process that has ended and is not reaped yet: on Python
  before 3.12.8 and 3.13.1 asyncio may then answer 255 for its exit code, and the `end` event says so,
  against `README.md:413`. The exit code is left out of Logs.
- Two readings of one sensor and field without a time in one batch get the same one: InfluxDB keeps the
  last, and the answer counts both as stored. A batch repeated with its own times overwrites itself.
- A field name with a line break is stored with a space, so that asking for the name as it was sent finds
  nothing. An empty string comes back as null, and an integer as a float.
- InfluxDB answers with a table for each type of value, and `limit` is per table: "oldest first" holds
  within each, and an answer may have more points than the limit.
- An answer of InfluxDB that breaks off after a 200 is a `KeyError` and so a 500: `AnswersAreWhole` needs it.
- A simulated result is recognised with the cached description: while a description as `mock` is kept,
  a model loaded since may fail on an older runner and its simulated result is passed on, for up to
  `INFO_TTL_S`. `AnswersAreRecent` is that bound.

### Fairness

- Jobs: weak fairness of the worker, of each thread that still has to hand its job to the pool,
  and of the exit after a shutdown: threads that can run do. That Compose ends is the watchdog's
  doing (`jobs.py:137`), provided that killing it closes its output. Nothing says that requests
  come, that a server is stopped or that it crashes.
- Telemetry: weak fairness of the bridge's loop and of each ingest request: the event loop goes on,
  and InfluxDB, SQLite and the broker are called with timeouts (`aiomqtt` has one of 10 s). Nothing
  is assumed of clients, devices or the broker; `MaxLosses` bounds how often the connection
  breaks, without which no bridge would stay connected.
- Assistant: weak fairness of what the API does for each chat: the event loop goes on, and every call to
  Ollama and Letta has a timeout. Nothing is assumed of clients: one that stays may never read
  what it is sent (`Sent` is not fair), and the property is about those that left.
- Logs: weak fairness of what the event loop does for each client, and killed processes die. That a
  client has left is noticed when something is sent to it, at the latest, which heartbeats make happen
  however silent Compose is. Nothing is assumed of Compose: it may never print or end by itself.

## Proofs

Eight modules. Each theorem holds for every number of users, devices, clients, requests, threads, processes,
models, lifetimes, capacities and bounds, under the assumptions that the modules name (finitely many users; an access
token lives at least a tick and no longer than a refresh token; the characters of texts include those
that InfluxDB reads as something else, and numbers are written without them; "admin" is a role; a queue, a bucket and a
period are not empty; levels of a topic are not wildcards; filters are well-formed, as the settings check).
The argument is an inductive invariant each time; what it adds to the property, and why, is this:

- `SessionsProofs`. `TypeCorrect` action by action. `OwnersCorrect` (`SignInsHaveOwners`) is not inductive by
  itself: `rotate` writes a family and a username it read before other requests deleted their rows. `OneOwner` says
  that every sign-in number is *claimed* by one user, over the tables, the access tokens and the rows that
  requests in progress have read; claims are only added for numbers never issued, or by the user who has
  them. With `ForeignKeys` (a row's user exists) it is inductive. `StepKinds` sorts the steps first: those that
  keep the tables, a tick, those that only delete, and those that issue a pair. `PruningIsSafe`
  (`SignInOutlivesAccess`) with `Outlives`: a sign-in not revoked has a row that expires no earlier than any of
  its access tokens. `RevivalCorrect`, `AdminsCorrect`, `AuditCorrect` and `PasswordsCorrect` are action
  properties from the type invariant, handler by handler; `AdminsCorrect` needs that a set of admins with
  more than one element has another one (`AnotherAdmin`). For one request at a time (`OneRequest`), `RevokedCorrect`
  (`RevokedStaysRevoked`) and `RefreshOnceCorrect` (`RefreshTokenWorksOnce`) from `RowsHeld`: the row that a
  refresh has read is still there when it writes. That is exactly what a second request breaks
  (`refresh_twice`), and the proofs show it to be the only thing needed. `SignInsImplemented` proves the refinement of `SignIns`
  on top of `OneToken` (a token is in one row, a sign-in has at most one unused row): a step ends the sign-ins
  in `Over`, and gives at most one a new token (`CurrentStep`).
- `DevicesProofs`. `RotationCorrect` and `CurrentTokensCorrect`, from `KeyInv`: the table, the tokens
  and the rows seen by exchanges all hold pairs of key and generation, and within a registration
  each determines the other. `ChangesCorrect` (`AuditedChangesHappened`) handler by handler.
  `RegisteredAnewCorrect` is about what `devices_recreated` refutes, `AcceptedTokensHaveTheKey`: it holds when an
  id is registered again only once its tokens have expired and no exchange has its row (`OneLife`).
- `JobsProofs`. `JobsInv` says of each status where the job is: `HandInv` (with the thread that has registered
  it), `PoolInv` (in the pool, once), `WorkerInv` (with the worker, and how far). This is what `NoTwins` needs,
  since a status says nothing of the pool by itself; `KeptCorrect`, `OutcomeCorrect` and `SuccessCorrect` follow.
  `SerialCorrect` proves the refinement: the mapping of Jobs to `SerialJobs` changes by one step of
  the abstract queue or not at all in every step (`SeenStep`), a crash that forgets all jobs included. For
  Logs, `EndCorrect` (`EndIsComplete`) from `Accounted`: every line printed is sent, held or unread.
- `StartupProofs`. `SchemaCorrect` and `OrderCorrect`, for processes that overlap from version 4 on
  (`OverlapFrom >= 4`, the assumption `migrated_again` shows to be needed), from `SchemaInv`: a migration about to
  run is the next one, or one already applied that fails a second time and changes nothing. `KeyCorrect` from
  `KeyInv`: with links the key file is never empty and never changes.
- `TelemetryProofs`. `LossCorrect` from `Counted`: of each stream, what was offered is what was sent, is held, is
  queued or was dropped. `StreamsCorrect` (`PublishedReachesStreams`) from `LinkInv` (the connection
  holds something only while the bridge receives), `AckedInv` (an acknowledged reading is on its way to everybody or
  lost), `OwedInv` and `RequestsInv` (requests publish readings of their own). `StoredCorrect` with them.
- `AssistantProofs`. `NormiesCorrect` and `RefusalCorrect` are about chats that are decided; `Considered` says of
  those still being decided that every fact of the moment is in their history, and that one which waits for
  a list found no name chosen and its backend in use (`DecisionInv`). `EndCorrect` proves `EndIsTold`: with `ErrorIsTold`, a reply that breaks has its error chunk yielded before it ends. For Settings, `CreditCorrect` and
  `PagesCorrect` from `SettingsInv`: each entry of the log is of one change, the log only grows (`Grows`), and
  what a client has read so far is the part of the log its offset says, pushed on by new entries.
- `EffectsProofs`. `MatchesCorrect`: `matches` agrees with what MQTT 3.1.1 says a filter stands for, for every
  filter and every topic of any length - the loop of the code is a quantifier in the model, so that no
  induction over data is needed. `DeniedCorrect` follows. `LogCorrect` (`LogTellsWhatHappened`) from `KnownInv` (a
  number is of one call) and `SuccessInv` (a success on its way back is of a call that was carried out).
  For Influx, `TrueCorrect` (`AnswersAreTrue`) and `WholeCorrect` (`AnswersAreWhole`), in five parts. (1) What is written
  is read back: `LiteralReadBack` for the filters of Flux, `LineReadBack` for a line of line protocol, by
  induction over characters and over fields. (2) A batch therefore adds the points of what it holds, and
  `PointsCorrect` is the inductive invariant over batches that are stored, refused in part or lost: each point is the newest
  value sent for its series (`Told`), and every reading confirmed has a point (`Kept`). (3) `CsvReadBack`: the
  tables of InfluxDB's CSV, up to three in a row, are parsed as the rows of their points, each under its own type. (4) The
  query selects the points asked for (`SelectedIs`), and below the limit all of them (`RowsOfAllAre`).
  (5) `BrokenAnswer`: an answer that breaks off is a 500. Induction over a sequence is a lemma about
  sets (`SeqInd`), from the least element of a set of naturals (`Least`, by the library's `WFMin`); what a
  reader does is stated once for the empty text, for one more character and for two texts one after the
  other (`AfterEmpty`, `AfterCons`, `AfterJoin`), for all three readers (`After`, `Step`).
- `RunnerProofs`. `RecentCorrect` (`AnswersAreRecent`) from `RecentInv`: a description in the cache was true at or
  after the time it is stamped with, and so was the one that a request holds since it began. For Limiter,
  `AttemptsCorrect` and `RetryAfterCorrect` from `LimiterInv`: `EmptyAt`, the time at which a bucket was
  empty had it no bottom and no lid, stands still while time passes and attempts are refused, and
  grows by a period with each that is let in; the reference bucket follows it within a wait.

Every safety invariant and action property that a passing run checks is proved, some of them under the assumptions named above. Out of TLAPS's reach and left to TLC
is liveness: `EveryJobEnds`, `NobodyIsFollowed`, `Reconnects`, `RequestsEnd` and `NothingOpenForNobody`.

## Not modelled

- `P4N4_API_AUTH=off`, under which every request is an admin's.
- The end of the bridge at shutdown: it comes when no request and no live stream is left, so that
  nothing interleaves with it. The filter of a live stream only leaves readings out.
- Of InfluxDB: windows and aggregates (computed there), relative durations (sent as they are), the query
  of inference results, where its settings come from, and the health check. How it reads a backslash
  before another character in names is taken to be as in strings.
- The exit code of followed logs, the text of output, logs and errors, parsing of Docker and MQTT data,
  sizes and limits of payloads.
- The parts the table marks as views: Compose status, the project's files, host metrics, health. They
  keep no state and make no change that two requests could disagree about.

## Plan

In the order of what matters most, done so far: Sessions, Jobs, Devices, Startup, Telemetry, Assistant,
Effects with Topics, Runner, Limiter, Logs, Settings and Influx, each with its proofs. What is left:

1. The query of inference results in Influx, and windows with a reference definition.
2. The end of the bridge in Telemetry together with a server that is stopped by force.
